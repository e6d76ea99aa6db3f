------------------------------ MODULE MessageLog ------------------------------
(***************************************************************************)
(* The kernel log (kernel/src/system/message.c): kmessage copies a message *)
(* into a fixed-size record and, when the buffer is full, drops the oldest *)
(* record first.  A message is its level and the length of its text; the   *)
(* copy is cut to what the record holds with its terminator.  Only the     *)
(* mainline logs, so a call is one action.                                 *)
(***************************************************************************)
EXTENDS CircularBuffer

CONSTANTS
    MSG_BUFFER_SIZE,   \* records the log holds
    MSG_LOG_SIZE,      \* bytes of text in a record, terminator included
    Levels,            \* the levels the callers use
    Lengths,           \* the lengths of the messages the callers log
    MaxMessages        \* bound: how many messages are logged

ASSUME LogAssumption ==
    /\ MSG_BUFFER_SIZE \in Nat \ {0} /\ MSG_LOG_SIZE \in Nat \ {0}
    /\ 0 \in Levels
    /\ Lengths \subseteq Nat
    /\ MaxMessages \in Nat

VARIABLES
    up,        \* kmessage_init has run
    log,       \* the buffer kmessage_log_buffer points to
    written    \* every record ever logged, in order

logVars == <<up, log, written>>

Record == [level : Levels, length : 0 .. MSG_LOG_SIZE - 1]
Blank == [level |-> 0, length |-> 0]

\* The record kmessage builds: the text is cut to leave room for '\0'.
LogRecord(level, length) ==
    [level  |-> level,
     length |-> IF length >= MSG_LOG_SIZE THEN MSG_LOG_SIZE - 1 ELSE length]

kmessage_init ==
    /\ ~up
    /\ up' = TRUE
    /\ log' = circular_buffer_init(MSG_BUFFER_SIZE, Blank)
    /\ UNCHANGED written

\* Defect: nothing is dropped when the log is full, so new records are lost.
LogWithoutDrop(level, length) ==
    /\ up
    /\ log' = circular_buffer_enqueue(log, LogRecord(level, length))
    /\ written' = Append(written, LogRecord(level, length))
    /\ UNCHANGED up

kmessage(level, length) ==
    LET room == IF circular_buffer_full(log) THEN circular_buffer_dequeue(log) ELSE log
    IN  /\ up
        /\ log' = circular_buffer_enqueue(room, LogRecord(level, length))
        /\ written' = Append(written, LogRecord(level, length))
        /\ UNCHANGED up

LogInit ==
    /\ up = FALSE
    /\ log = circular_buffer_init(MSG_BUFFER_SIZE, Blank)
    /\ written = <<>>

LogNext ==
    \/ kmessage_init
    \/ /\ Len(written) < MaxMessages
       /\ \E level \in Levels, length \in Lengths : kmessage(level, length)

LogSpec == LogInit /\ [][LogNext]_logVars

-----------------------------------------------------------------------------
(* Properties *)

\* Every variable keeps to its type (the fields of circular_buffer_t).
LogTypeOK ==
    /\ up \in BOOLEAN
    /\ log \in Buffer(MSG_BUFFER_SIZE, Record)
    /\ written \in Seq(Record)

\* How many of the records written so far are older than the log.
Dropped == Len(written) - log.size

(***************************************************************************)
(* What the message command prints is the newest MSG_BUFFER_SIZE records,  *)
(* in the order they were logged, however often the buffer wrapped around. *)
(***************************************************************************)
HoldsNewest ==
    /\ log.size = IF Len(written) < MSG_BUFFER_SIZE THEN Len(written) ELSE MSG_BUFFER_SIZE
    /\ \A i \in 1 .. log.size : Contents(log)[i] = written[Dropped + i]

\* HoldsNewest, the types and the place of the tail support each other.
LogInv ==
    /\ LogTypeOK
    /\ ~up => written = <<>>
    /\ TailFollows(log)
    /\ HoldsNewest
=============================================================================
