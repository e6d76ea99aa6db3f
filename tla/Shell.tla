--------------------------------- MODULE Shell ---------------------------------
(***************************************************************************)
(* The shell (kernel/src/shell/shell.c): a line is read, split with strtok *)
(* (kernel/src/utils/string.c) into the arguments of a command, the        *)
(* command is looked up in the list of commands and called.                *)
(*                                                                         *)
(* A line is a sequence of blanks and words, no two words next to each     *)
(* other; what a word is spelt like matters only for the names of the      *)
(* commands, and for the numbers that are 0, are more than the heap may    *)
(* have in one piece, wrap an address around, or name an exception.  The   *)
(* heap has room for HeapBlocks more blocks once the shell was made,       *)
(* whatever their sizes but those.                                         *)
(***************************************************************************)
EXTENDS Integers, Sequences, FiniteSetsExt

CONSTANTS
    Lines,          \* the lines tty_gets may give
    HeapBlocks,     \* blocks the heap has room for
    Large,          \* numbers: sizes kmalloc(size + 1) may refuse at any time
    Wrapping,       \* numbers: sizes that behind any heap address reach beyond 2^32
    Zero,           \* words atoi takes for 0
    NoReturn        \* numbers: exceptions with an error code

Blank == " "
Names == <<"help", "clear", "message", "memory", "ataread", "atawrite", "int">>
Kinds == {"inputs", "argv", "sector"}

ASSUME ShellAssumption ==
    /\ HeapBlocks \in Nat /\ Lines \subseteq Seq(STRING)
    /\ Large \subseteq STRING /\ Wrapping \subseteq STRING
    /\ Zero \subseteq STRING /\ NoReturn \subseteq STRING
    /\ \A l \in Lines : \A i \in 1 .. Len(l) - 1 : l[i] = Blank \/ l[i + 1] = Blank

VARIABLES
    pc,
    storage,        \* a storage device is registered
    commands,       \* the names in commands_list
    live,           \* the blocks of each kind that are allocated
    line,           \* history: the line as it was read
    inputs,         \* the same, with what strtok wrote into it
    saved,          \* strtok's static pointer into inputs, 0 for NULL
    num_ws,
    argv,           \* the places in inputs where the arguments are
    has_argv,       \* argv was allocated
    cursor,         \* the command looked at next
    unknown,
    ran,            \* history: the commands called for the line
    blanks, accepted \* history: lines without a word, ATA requests taken

vars == <<pc, storage, commands, live, line, inputs, saved, num_ws, argv, has_argv, cursor, unknown, ran, blanks, accepted>>
parseVars == <<line, inputs, saved, num_ws, argv, has_argv>>
fixed == <<storage, commands>>

Room == HeapBlocks - (live["inputs"] + live["argv"] + live["sector"])

\* The words among the first k places of a line, for every k, and all of them.
WordsUpTo(l) ==
    LET upTo[k \in 0 .. Len(l)] ==
            IF k = 0 THEN <<>>
            ELSE IF l[k] = Blank THEN upTo[k - 1] ELSE Append(upTo[k - 1], l[k])
    IN upTo

Words(l) == WordsUpTo(l)[Len(l)]

-----------------------------------------------------------------------------
(* strtok *)

\* The first place from i on that is not a blank, or the end.
SkipBlanks(s, i) == Min({k \in i .. Len(s) + 1 : k > Len(s) \/ s[k] # Blank})

\* Defect: the pointer stays when there is no token.
StrtokKeeps(s, from) ==
    IF from = 0 THEN [token |-> 0, saved |-> 0, str |-> s]
    ELSE LET r == SkipBlanks(s, from)
         IN CASE r > Len(s) -> [token |-> 0, saved |-> from, str |-> s]
              [] r = Len(s) -> [token |-> r, saved |-> 0, str |-> s]
              [] OTHER -> [token |-> r, saved |-> r + 2, str |-> [s EXCEPT ![r + 1] = "end"]]

\* The token, where strtok goes on, and the string with the end written in.
strtok(s, from) ==
    IF from = 0 THEN [token |-> 0, saved |-> 0, str |-> s]
    ELSE LET r == SkipBlanks(s, from)
         IN CASE r > Len(s) -> [token |-> 0, saved |-> 0, str |-> s]
              [] r = Len(s) -> [token |-> r, saved |-> 0, str |-> s]
              [] OTHER -> [token |-> r, saved |-> r + 2, str |-> [s EXCEPT ![r + 1] = "end"]]

-----------------------------------------------------------------------------
(* The loop *)

Init ==
    /\ pc = "create" /\ storage \in BOOLEAN
    /\ commands = <<>>
    /\ live = [k \in Kinds |-> 0]
    /\ line = <<>> /\ inputs = <<>> /\ saved = 0 /\ num_ws = 0 /\ argv = <<>> /\ has_argv = FALSE
    /\ cursor = 1 /\ unknown = TRUE /\ ran = <<>> /\ blanks = 0 /\ accepted = 0

\* The command is appended to the list, or the memory does not suffice.
shell_register_command(name) ==
    \/ commands' = Append(commands, name) /\ pc' = pc
    \/ pc' = "panic" /\ UNCHANGED commands

\* The commands are registered one by one.
shell_create ==
    /\ pc = "create"
    /\ IF commands # Names
       THEN shell_register_command(Names[Len(commands) + 1])
       ELSE pc' = "prompt" /\ UNCHANGED commands
    /\ UNCHANGED <<storage, live, parseVars, cursor, unknown, ran, blanks, accepted>>

\* stream_gets: without memory tty_gets panics.
Gets(l) ==
    /\ pc = "prompt"
    /\ pc' = IF Room > 0 THEN "split" ELSE "panic"
    /\ live' = IF Room > 0 THEN [live EXCEPT !["inputs"] = @ + 1] ELSE live
    /\ line' = l /\ inputs' = l
    /\ num_ws' = 0 /\ argv' = <<>> /\ has_argv' = FALSE /\ cursor' = 1 /\ unknown' = TRUE /\ ran' = <<>>
    /\ UNCHANGED <<fixed, saved, blanks, accepted>>

\* Blanks are counted for argv, whose allocation is not tested; a line
\* without a word ends here.
Split ==
    LET t == strtok(inputs, 1)
    IN /\ pc = "split"
       /\ num_ws' = Cardinality({i \in DOMAIN inputs : inputs[i] = Blank})
       /\ has_argv' = (Room > 0)
       /\ live' = IF Room > 0 THEN [live EXCEPT !["argv"] = @ + 1] ELSE live
       /\ saved' = t.saved /\ inputs' = t.str
       /\ argv' = IF t.token = 0 THEN <<>> ELSE <<t.token>>
       /\ pc' = IF t.token = 0 THEN "done" ELSE IF has_argv' THEN "tokens" ELSE "fault"
       /\ blanks' = IF t.token = 0 /\ has_argv' THEN blanks + 1 ELSE blanks
       /\ UNCHANGED <<fixed, line, cursor, unknown, ran, accepted>>

\* The next token is stored, until there is none.
Tokens ==
    LET t == strtok(inputs, saved)
    IN /\ pc = "tokens"
       /\ saved' = t.saved /\ inputs' = t.str
       /\ argv' = IF t.token = 0 THEN argv ELSE Append(argv, t.token)
       /\ pc' = IF t.token = 0 THEN "lookup" ELSE "tokens"
       /\ UNCHANGED <<fixed, live, line, num_ws, has_argv, cursor, unknown, ran, blanks, accepted>>

Name == inputs[argv[1]]

Matches == {k \in cursor .. Len(commands) : commands[k] = Name}

\* Defect: argv is freed only when a command was called.
LookupKeepsArgv ==
    /\ pc = "lookup"
    /\ IF Matches # {}
       THEN /\ pc' = "call" /\ cursor' = Min(Matches) + 1 /\ unknown' = FALSE
            /\ ran' = Append(ran, Name) /\ UNCHANGED live
       ELSE /\ pc' = "done" /\ live' = IF unknown THEN live ELSE [live EXCEPT !["argv"] = @ - 1]
            /\ UNCHANGED <<cursor, unknown, ran>>
    /\ UNCHANGED <<fixed, parseVars, blanks, accepted>>

\* The next command of the list that has the name is called.
Lookup ==
    /\ pc = "lookup"
    /\ IF Matches # {}
       THEN /\ pc' = "call" /\ cursor' = Min(Matches) + 1 /\ unknown' = FALSE
            /\ ran' = Append(ran, Name) /\ UNCHANGED live
       ELSE /\ pc' = "done" /\ live' = [live EXCEPT !["argv"] = @ - 1]
            /\ UNCHANGED <<cursor, unknown, ran>>
    /\ UNCHANGED <<fixed, parseVars, blanks, accepted>>

\* kfree(inputs), and the next prompt.
Done ==
    /\ pc = "done" /\ pc' = "prompt"
    /\ live' = [live EXCEPT !["inputs"] = @ - 1]
    /\ UNCHANGED <<fixed, parseVars, cursor, unknown, ran, blanks, accepted>>

-----------------------------------------------------------------------------
(* The commands *)

Calls(name) ==
    /\ pc = "call" /\ ran[Len(ran)] = name
    /\ UNCHANGED <<fixed, parseVars, cursor, unknown, ran, blanks>>

\* help, clear, message and memory keep nothing.
Plain ==
    /\ \E name \in {"help", "clear", "message", "memory"} : Calls(name)
    /\ pc' = "lookup" /\ UNCHANGED <<live, accepted>>

Arg(i) == inputs[argv[i]]

\* isr_interrupt returns, but not from an exception with an error code, for whose
\* number the instruction pushes none (the run of Interrupts shows it).
shell_execute_interrupt ==
    /\ Calls("int")
    /\ pc' = IF Len(argv) = 2 /\ Arg(2) \in NoReturn THEN "wild" ELSE "lookup"
    /\ UNCHANGED <<live, accepted>>

\* The driver keeps the sector buffer of every request it takes.
Keeps(taken) == [live EXCEPT !["sector"] = @ + (IF taken THEN 1 ELSE 0)]

\* What kmalloc makes of the two requests of ataread, the buffer for the data and,
\* when the driver takes the request, the sector: a large buffer may be refused
\* at any time, and when it is granted there may be nothing left for the sector.
Allocations(large) ==
    {a \in [data : BOOLEAN, taken : BOOLEAN, sector : BOOLEAN] :
        LET left == Room - (IF a.data THEN 1 ELSE 0)
        IN  /\ IF a.data THEN Room >= 1 ELSE Room = 0 \/ large
            /\ a.sector => a.taken /\ left >= 1
            /\ a.taken /\ ~a.sector => left < 1 \/ (a.data /\ large)}

\* ataread 0 0: the driver takes the byte before address 0 for the last one, and
\* copies all sectors there could be (Ata).
Astray == Arg(2) \in Zero /\ Arg(3) \in Zero

\* The buffer, which is freed in the end, the device and the request.  Neither
\* the buffer nor the device is tested; the driver panics when it gets no
\* sector buffer.  A size that wraps around fits every free block, and kmalloc
\* writes the header of the rest in front of it (KernelHeap, SmallRequests).
shell_execute_ata_read ==
    /\ Calls("ataread")
    /\ IF Len(argv) # 3 THEN pc' = "lookup" /\ UNCHANGED <<live, accepted>>
       ELSE IF Arg(3) \in Wrapping /\ Room > 0 THEN pc' = "wild" /\ UNCHANGED <<live, accepted>>
       ELSE \E a \in Allocations(Arg(3) \in Large) :
            /\ pc' = CASE ~storage -> "fault"
                       [] storage /\ a.taken /\ ~a.sector -> "panic"
                       [] storage /\ (a.taken => a.sector) /\ ~a.data -> "fault"
                       [] storage /\ a.taken /\ a.sector /\ a.data /\ Astray -> "wild"
                       [] OTHER -> "lookup"
            /\ live' = IF pc' = "lookup" THEN Keeps(a.taken) ELSE live
            /\ accepted' = IF pc' = "lookup" /\ a.taken THEN accepted + 1 ELSE accepted

shell_execute_ata_write ==
    /\ Calls("atawrite")
    /\ IF Len(argv) # 3 THEN pc' = "lookup" /\ UNCHANGED <<live, accepted>>
       ELSE \E taken \in BOOLEAN :
            /\ pc' = CASE ~storage -> "fault"
                       [] storage /\ taken /\ Room < 1 -> "panic"
                       [] OTHER -> "lookup"
            /\ live' = IF pc' = "lookup" THEN Keeps(taken) ELSE live
            /\ accepted' = IF pc' = "lookup" /\ taken THEN accepted + 1 ELSE accepted

\* The kernel has stopped.
Stopped == pc \in {"panic", "fault", "wild"} /\ UNCHANGED vars

-----------------------------------------------------------------------------
Executes ==
    \/ shell_create \/ Split \/ Tokens \/ Lookup \/ Done
    \/ Plain \/ shell_execute_interrupt \/ shell_execute_ata_read \/ shell_execute_ata_write

Next == Executes \/ Stopped \/ \E l \in Lines : Gets(l)

Spec == Init /\ [][Next]_vars

-----------------------------------------------------------------------------
(* Properties *)

\* Every variable keeps to its type: no block is freed twice, no argument and no
\* pointer of strtok lies outside the line.
TypeOK ==
    /\ pc \in {"create", "prompt", "split", "tokens", "lookup", "call", "done",
           "panic", "fault", "wild"}
    /\ live \in [Kinds -> 0 .. HeapBlocks]
    /\ saved \in 0 .. Len(inputs) + 1 /\ Len(inputs) = Len(line)
    /\ \A i \in DOMAIN argv : argv[i] \in DOMAIN inputs
    /\ cursor \in 1 .. Len(Names) + 1

\* The arguments are the words of the line, in order, for any number of blanks
\* before, between and after them, and argv has a place for every one of them
\* (shell_execute_command, strtok).
ArgumentsExact ==
    /\ pc \in {"tokens", "lookup", "call"} => Len(argv) <= num_ws + 1
    /\ pc \in {"lookup", "call"} => [i \in DOMAIN argv |-> inputs[argv[i]]] = Words(line)

\* A line runs the one command it names, and none when it names none
\* (shell_execute_command).
OneCommand ==
    pc = "prompt" =>
        LET words == Words(line)
        IN ran = IF words # <<>> /\ words[1] \in Range(Names) THEN <<words[1]>> ELSE <<>>

\* strtok keeps no pointer into a line that was freed.
NoStalePointer == pc \in {"create", "prompt"} => saved = 0

\* At the prompt the shell has given back all it allocated but one argv for
\* every line without a word, and the sector buffer the driver kept for every
\* request it took: with those the heap runs out (shell_execute_command,
\* shell_execute_ata_read, shell_execute_ata_write).
OnlyKnownLeaks ==
    pc = "prompt" =>
        /\ live["inputs"] = 0
        /\ live["argv"] = blanks /\ live["sector"] = accepted

\* The shell faults only when the heap is exhausted, an ATA command finds no
\* storage device, or ataread asks for more than the heap may have in one piece,
\* and goes astray only by int with an exception that has an error code or when
\* ataread asks for nothing at address 0 or for a size that wraps around.
FaultExplained ==
    LET words == Words(line)
    IN  /\ pc = "fault" =>
              \/ Room = 0
              \/ ~storage /\ ran \in {<<"ataread">>, <<"atawrite">>}
              \/ ran = <<"ataread">> /\ words[3] \in Large
        /\ pc = "wild" =>
              \/ ran = <<"int">> /\ words[2] \in NoReturn
              \/ ran = <<"ataread">> /\ words[2] \in Zero /\ words[3] \in Zero
              \/ ran = <<"ataread">> /\ words[3] \in Wrapping

\* A line is taken for what it says: its words are the arguments, in places that
\* were allocated, no pointer into it survives it, and the one command it names
\* is called (shell_execute_command, strtok).
CommandExact == TypeOK /\ ArgumentsExact /\ NoStalePointer /\ OneCommand

\* The shell loses nothing but what is known to leak, and faults only for want
\* of memory or of a drive, or of the memory one command asks for
\* (shell_execute, shell_execute_command, the commands).
ResourcesExplained == OnlyKnownLeaks /\ FaultExplained
=============================================================================
