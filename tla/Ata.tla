---------------------------------- MODULE Ata ----------------------------------
(***************************************************************************)
(* The ATA driver (kernel/src/drivers/storage/ata.c) with its drives.  The *)
(* driver probes them, and then serves ata_read and ata_write by polling.  *)
(*                                                                         *)
(* A drive is external: it works on a command while its status shows BSY   *)
(* and ignores commands it gets meanwhile.  It takes the data of a write   *)
(* first and is busy again while it stores them.  The driver waits for BSY *)
(* to clear after a command only, so the first command after a write may   *)
(* be lost.                                                                *)
(*                                                                         *)
(* A byte is named by where it came from: <<k, j>> is byte j of call k,    *)
(* and <<0 - d, b>> byte b of drive d as it was at first.                  *)
(***************************************************************************)
EXTENDS Integers, Sequences

CONSTANTS
    NumDrives,     \* drives of the channel
    SectorSize,    \* ATA_SECTOR_SIZE
    Sectors,       \* the sectors of each drive
    Word,          \* 2^32: addresses and sizes are 32 bits wide
    Requests,      \* the pairs <<address, size>> passed to the driver
    MaxCalls       \* bound: calls of ata_read and ata_write

Drive == 0 .. NumDrives - 1

ASSUME AtaAssumption ==
    /\ NumDrives \in Nat \ {0} /\ SectorSize \in Nat \ {0}
    /\ Sectors \in [Drive -> Nat \ {0}]
    /\ Word \in Nat /\ SectorSize < Word /\ Word % SectorSize = 0
    /\ Requests \subseteq (0 .. Word - 1) \X (0 .. Word - 1) /\ MaxCalls \in Nat

Capacity(d) == Sectors[d] * SectorSize
Garbage == <<>>                        \* what the data port gives without data
Idle == [op |-> "none"]
Kinds == {"none", "atapi", "chs", "lba"}

VARIABLES
    kind,        \* what is connected
    disk,        \* the bytes of each drive
    cmd, busy,   \* the command a drive has, and its BSY bit
    lost,        \* history: the call sent a command to a busy drive
    devices,     \* ata_devices
    probe,       \* the drive ata_init looks at next
    pc,
    req,         \* the arguments of the call
    idx,         \* the sector of the loop
    done,        \* total_size
    sector_buf,
    out,         \* the bytes copied to the buffer of a reader
    calls,       \* calls so far
    before       \* history: the drives when the call began

vars == <<kind, disk, cmd, busy, lost, devices, probe, pc, req, idx, done, sector_buf, out, calls, before>>
driveVars == <<disk, cmd, busy, lost>>
callVars == <<kind, devices, probe, req, calls, before>>

-----------------------------------------------------------------------------
(* The drive *)

Sector(d, lba) == [j \in 0 .. SectorSize - 1 |-> disk[d][(lba * SectorSize) + j]]

Stored(content, lba, data) ==
    [b \in DOMAIN content |->
        IF b \div SectorSize = lba THEN data[b % SectorSize] ELSE content[b]]

\* The command registers are written.
Command(d, op, lba) ==
    /\ cmd' = [cmd EXCEPT ![d] = IF busy[d] THEN @ ELSE [op |-> op, lba |-> lba]]
    /\ busy' = [busy EXCEPT ![d] = TRUE]
    /\ lost' = (lost \/ busy[d])

\* What the data port gives.
DataFrom(d) ==
    IF cmd[d].op = "read" /\ cmd[d].lba < Sectors[d]
    THEN Sector(d, cmd[d].lba)
    ELSE [j \in 0 .. SectorSize - 1 |-> Garbage]

\* The data port takes a sector, and the drive is busy storing it.
DataTo(d, data) ==
    LET takes == cmd[d].op = "write" /\ cmd[d].lba < Sectors[d]
    IN  /\ cmd' = [cmd EXCEPT ![d] =
                      IF takes THEN [op |-> "commit", lba |-> @.lba, data |-> data] ELSE @]
        /\ busy' = [busy EXCEPT ![d] = takes]

\* What a drive holds once its work is done.
Settled(d) ==
    IF cmd[d].op = "commit" THEN Stored(disk[d], cmd[d].lba, cmd[d].data) ELSE disk[d]

\* A drive has done its work.
DriveReady(d) ==
    /\ busy[d]
    /\ busy' = [busy EXCEPT ![d] = FALSE]
    /\ disk' = [disk EXCEPT ![d] = Settled(d)]
    /\ cmd' = [cmd EXCEPT ![d] = IF @.op = "commit" THEN Idle ELSE @]
    /\ UNCHANGED <<callVars, lost, pc, idx, done, sector_buf, out>>

-----------------------------------------------------------------------------
(* ata_init *)

NoDevice == [present |-> FALSE, lba_supported |-> FALSE, size |-> 0]

\* What the probe finds.  The status of a missing drive is 0; another kind of
\* drive leaves a signature in the LBA registers.  The size is a product of 32
\* bits: of a drive of 4 GB or more what is left of it.
ata_device_probe(d) ==
    IF kind[d] \in {"none", "atapi"} THEN NoDevice
    ELSE [present |-> TRUE, lba_supported |-> kind[d] = "lba", size |-> Capacity(d) % Word]

\* The round of ata_init for one drive; a drive that was found is registered.
ata_init_device ==
    /\ pc = "init" /\ probe < NumDrives
    /\ devices' = [devices EXCEPT ![probe] = ata_device_probe(probe)]
    /\ probe' = probe + 1
    /\ UNCHANGED <<kind, driveVars, pc, req, idx, done, sector_buf, out, calls, before>>

\* kmalloc has no room for the device structures.
NoDeviceMemory ==
    /\ pc = "init" /\ probe < NumDrives
    /\ ata_device_probe(probe).present
    /\ pc' = "panic"
    /\ UNCHANGED <<callVars, driveVars, idx, done, sector_buf, out>>

EndInit ==
    /\ pc = "init" /\ probe = NumDrives
    /\ pc' = "idle"
    /\ UNCHANGED <<callVars, driveVars, idx, done, sector_buf, out>>

-----------------------------------------------------------------------------
(* ata_read and ata_write *)

\* A call through the driver of a registered device.
Call ==
    /\ pc = "idle" /\ calls < MaxCalls
    /\ \E d \in Drive, op \in {"read", "write"}, r \in Requests :
          /\ devices[d].present
          /\ req' = [drive |-> d, op |-> op, address |-> r[1], size |-> r[2]]
    /\ calls' = calls + 1
    /\ before' = [d \in Drive |-> Settled(d)]
    /\ lost' = FALSE
    /\ out' = <<>> /\ done' = 0
    /\ pc' = "check"
    /\ UNCHANGED <<kind, devices, probe, disk, cmd, busy, idx, sector_buf>>

\* The tests both functions begin with; address + size wraps around.
Accepts ==
    LET d == devices[req.drive]
    IN  ~(d.size < (req.address + req.size) % Word) /\ d.present /\ d.lba_supported

LastByte == (req.address + req.size - 1) % Word
StartSector == req.address \div SectorSize
EndSector == LastByte \div SectorSize

Refuse ==
    /\ pc = "check" /\ ~Accepts
    /\ pc' = "return"
    /\ UNCHANGED <<callVars, driveVars, idx, done, sector_buf, out>>

Accept ==
    /\ pc = "check" /\ Accepts
    /\ idx' = StartSector /\ pc' = "sector"
    /\ UNCHANGED <<callVars, driveVars, done, sector_buf, out>>

\* kmalloc has no room for the sector buffer, which no call ever frees.
NoBuffer ==
    /\ pc = "check" /\ Accepts
    /\ pc' = "panic"
    /\ UNCHANGED <<callVars, driveVars, idx, done, sector_buf, out>>

\* write_offset, read_offset
Offset == IF idx = StartSector THEN req.address % SectorSize ELSE 0

\* Defect: the rest of the last sector is transferred too.
ChunkToEnd == SectorSize - Offset

\* write_size, read_size: of a request that wraps around into the sector it
\* begins in almost 2^32.
Chunk ==
    (IF idx = EndSector THEN (LastByte % SectorSize) - Offset + 1 ELSE SectorSize - Offset) % Word

\* The memcpy of the round leaves the sector buffer or the buffer of the caller.
Beyond == Offset + Chunk > SectorSize \/ done + Chunk > req.size

ReadCommand ==
    /\ pc = "sector" /\ idx <= EndSector
    /\ Command(req.drive, "read", idx)
    /\ pc' = "reading"
    /\ UNCHANGED <<callVars, disk, idx, done, sector_buf, out>>

\* Defect: the offset in the sector is forgotten.
CopyFromStart(buf) == out \o [j \in 1 .. Chunk |-> buf[j - 1]]

\* memcpy to the buffer of the reader
CopyOut(buf) == out \o [j \in 1 .. Chunk |-> buf[Offset + j - 1]]

\* Defect: the sector is not read before it is altered.
AlterEmpty(buf) ==
    [j \in 0 .. SectorSize - 1 |->
        IF j \in Offset .. Offset + Chunk - 1 THEN <<calls, done + (j - Offset)>> ELSE Garbage]

\* memcpy from the buffer of the writer
Alter(buf) ==
    [j \in 0 .. SectorSize - 1 |->
        IF j \in Offset .. Offset + Chunk - 1 THEN <<calls, done + (j - Offset)>> ELSE buf[j]]

\* Both loops end with these steps.
NextSector ==
    /\ done' = done + Chunk
    /\ idx' = idx + 1
    /\ pc' = "sector"

\* Defect: wait until the drive has data, as it does after a command it took.
ReadyWithData(d) == ~busy[d] /\ cmd[d] # Idle

\* The loop that waits for a drive ends when BSY is clear.
Ready(d) == ~busy[d]

Poll ==
    /\ pc \in {"reading", "writing"} /\ ~Ready(req.drive)
    /\ UNCHANGED vars

\* The words of the sector are read, and copied.  What a memcpy beyond the
\* buffers does to the kernel is not followed.
ReadData ==
    LET d == req.drive
        buf == DataFrom(d)
    IN  /\ pc = "reading" /\ Ready(d)
        /\ cmd' = [cmd EXCEPT ![d] = Idle]
        /\ \/ /\ req.op = "read" /\ ~Beyond
              /\ sector_buf' = buf
              /\ out' = CopyOut(buf)
              /\ NextSector
           \/ /\ req.op = "write" /\ ~Beyond
              /\ sector_buf' = Alter(buf)
              /\ pc' = "altered"
              /\ UNCHANGED <<idx, done, out>>
           \/ /\ Beyond
              /\ pc' = "wild"
              /\ UNCHANGED <<idx, done, sector_buf, out>>
        /\ UNCHANGED <<callVars, disk, busy, lost>>

WriteCommand ==
    /\ pc = "altered"
    /\ Command(req.drive, "write", idx)
    /\ pc' = "writing"
    /\ UNCHANGED <<callVars, disk, idx, done, sector_buf, out>>

WriteData ==
    /\ pc = "writing" /\ Ready(req.drive)
    /\ DataTo(req.drive, sector_buf)
    /\ NextSector
    /\ UNCHANGED <<callVars, disk, lost, sector_buf, out>>

EndLoop ==
    /\ pc = "sector" /\ idx > EndSector
    /\ pc' = "return"
    /\ UNCHANGED <<callVars, driveVars, idx, done, sector_buf, out>>

Return ==
    /\ pc = "return"
    /\ pc' = "idle"
    /\ UNCHANGED <<callVars, driveVars, idx, done, sector_buf, out>>

\* After a panic or a copy beyond the buffers, without a drive, or when the calls
\* are used up.
Rest ==
    /\ \/ pc \in {"panic", "wild"}
       \/ pc = "idle" /\ (calls = MaxCalls \/ \A d \in Drive : ~devices[d].present)
    /\ UNCHANGED vars

Init ==
    /\ kind \in [Drive -> Kinds]
    /\ disk = [d \in Drive |-> [b \in 0 .. Capacity(d) - 1 |-> <<0 - d, b>>]]
    /\ cmd = [d \in Drive |-> Idle] /\ busy = [d \in Drive |-> FALSE] /\ lost = FALSE
    /\ devices = [d \in Drive |-> NoDevice] /\ probe = 0
    /\ pc = "init"
    /\ req = [drive |-> 0, op |-> "read", address |-> 0, size |-> 0]
    /\ idx = 0 /\ done = 0 /\ sector_buf = [j \in 0 .. SectorSize - 1 |-> Garbage]
    /\ out = <<>> /\ calls = 0 /\ before = disk

Driver ==
    \/ ata_init_device \/ NoDeviceMemory \/ EndInit
    \/ Refuse \/ Accept \/ NoBuffer
    \/ ReadCommand \/ ReadData \/ WriteCommand \/ WriteData \/ EndLoop
    \/ Return

Next ==
    \/ Driver \/ Call \/ Poll
    \/ \E d \in Drive : DriveReady(d)
    \/ Rest

\* The driver runs, and a drive clears BSY in the end.
Spec ==
    /\ Init /\ [][Next]_vars
    /\ WF_vars(Driver)
    /\ \A d \in Drive : WF_vars(DriveReady(d))

-----------------------------------------------------------------------------
(* Properties *)

Bytes == {Garbage} \cup ((1 - NumDrives .. MaxCalls) \X Nat)

\* Every variable keeps to its type.
TypeOK ==
    /\ kind \in [Drive -> Kinds]
    /\ DOMAIN disk = Drive
    /\ \A d \in Drive : disk[d] \in [0 .. Capacity(d) - 1 -> Bytes]
    /\ busy \in [Drive -> BOOLEAN] /\ lost \in BOOLEAN
    /\ probe \in 0 .. NumDrives
    /\ pc \in {"init", "idle", "check", "sector", "reading", "altered", "writing", "return",
               "panic", "wild"}
    /\ idx \in 0 .. (Word \div SectorSize)
    /\ sector_buf \in [0 .. SectorSize - 1 -> Bytes]
    /\ out \in Seq(Bytes)

(***************************************************************************)
(* The requests that are served: they end within the 32-bit size of the    *)
(* drive, or exactly where the address space does.  The end of the latter  *)
(* is 0 to the driver, which takes them whatever the size of the drive.    *)
(***************************************************************************)
Served ==
    /\ devices[req.drive].lba_supported
    /\ \/ req.address + req.size <= Capacity(req.drive) % Word
       \/ req.address + req.size = Word

\* The requests whose last byte the driver gets wrong: no bytes at address 0,
\* and those that wrap around into the sector they begin in.
Astray ==
    \/ req.address + req.size = 0
    \/ req.address + req.size > Word /\ StartSector = EndSector

Covers(b) == b >= req.address /\ b < req.address + req.size

\* Byte b of the drive when the call began; there is none behind its end.
Original(b) ==
    IF b < Capacity(req.drive) THEN before[req.drive][b] ELSE Garbage

(***************************************************************************)
(* When ata_write returns and no command was lost, the bytes it was given  *)
(* are at their addresses once the drive has stored them, as far as there  *)
(* is a drive, and every other byte of every drive is what it was.  A      *)
(* request that is not served changes nothing, and neither does ata_read.  *)
(***************************************************************************)
WriteExact ==
    pc = "return" /\ ~lost =>
        \A d \in Drive : \A b \in 0 .. Capacity(d) - 1 :
            Settled(d)[b] =
                IF req.op = "write" /\ Served /\ d = req.drive /\ Covers(b)
                THEN <<calls, b - req.address>> ELSE before[d][b]

\* When ata_read returns and no command was lost, it has delivered the bytes of
\* the range it was asked for, or nothing.
ReadExact ==
    pc = "return" /\ req.op = "read" /\ ~lost =>
        out = IF Served THEN [j \in 1 .. req.size |-> Original(req.address + j - 1)]
                        ELSE <<>>

\* The loops never go beyond the buffer of the caller, and use all of it when
\* the request is served, whatever the drive does.
BufferUsedExactly ==
    /\ done <= req.size
    /\ pc = "return" => done = IF Served THEN req.size ELSE 0

\* Neither the sector buffer nor the caller's buffer is used beyond its end,
\* whatever the drive does (the copies in ata_read and ata_write), but for the
\* requests whose last byte the driver gets wrong.
InBounds == TypeOK /\ BufferUsedExactly /\ (pc = "wild" => Astray)

\* Every call returns, panics or copies beyond the buffers, even when a busy
\* drive ignored its command.
CallReturns == pc = "check" ~> pc \in {"return", "panic", "wild"}
=============================================================================
