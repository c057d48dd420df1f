--------------------------------- MODULE Ide ---------------------------------
(***************************************************************************)
(* The driver of p6_file_system (ide.cc): one controller, its one or two   *)
(* drives, and the thread that calls readAll and writeAll.  The drive is a *)
(* process of its own that the driver polls; a sector is moved unit by     *)
(* unit through the data register.                                         *)
(***************************************************************************)
EXTENDS Naturals

CONSTANTS Drive,       \* channels of the controller that have a drive
          SectorSize,  \* Ide::SectorSize, in units of the data register
          Capacity,    \* units of a drive
          Value,
          NoCall

\* What a call of readAll or writeAll may be: of a range of a drive that is not empty.
Asked == [write : BOOLEAN, drive : Drive, offset : Nat, n : 1..Capacity,
          buffer : UNION {[0..n - 1 -> Value] : n \in 1..Capacity}, total : Nat]

ASSUME IdeAssumption ==
  /\ SectorSize \in Nat \ {0} /\ Capacity \in Nat /\ (Capacity % SectorSize) = 0
  /\ Value # {} /\ NoCall \notin Asked

VARIABLES
  pc, call,          \* the driver: its next step, and the call it works for
  job, data,         \* whether it reads or writes a sector, and the sector
  lba, selected,     \* registers of the controller
  state, command,    \* per drive: "ready", "busy" or "drq"; and what it was told
  moved, inside,     \* units moved through the data register; the drive's buffer
  disk

driver == <<pc, call, job, data>>
device == <<lba, selected, state, command, moved, inside, disk>>
ideVars == <<driver, device>>

Clean == [i \in 0..SectorSize - 1 |-> CHOOSE v \in Value : TRUE]

InitIde ==
  /\ pc = "idle" /\ call = NoCall /\ job = NoCall /\ data = Clean
  /\ lba = 0 /\ selected \in Drive
  /\ state = [d \in Drive |-> "ready"] /\ command = [d \in Drive |-> NoCall]
  /\ moved = 0 /\ inside = Clean
  /\ disk = [d \in Drive |-> [i \in 0..Capacity - 1 |-> CHOOSE v \in Value : TRUE]]

Step(from, to) == pc = from /\ pc' = to

-----------------------------------------------------------------------------
(* readAll, writeAll, read and write *)

Start(write, d, offset, buffer, n) ==
  /\ Step("idle", "next")
  /\ call' = [write |-> write, drive |-> d, offset |-> offset, n |-> n, buffer |-> buffer, total |-> 0]
  /\ UNCHANGED <<job, data, device>>

\* The part of the call that lies in the next sector.
Place == call.offset + call.total
Sector == Place \div SectorSize
Begin == Place % SectorSize
Count == LET left == call.n - call.total
         IN  IF Begin + left > SectorSize THEN SectorSize - Begin ELSE left

Return ==
  /\ call # NoCall /\ call.total = call.n
  /\ Step("next", "idle")
  /\ call' = NoCall /\ job' = NoCall /\ data' = Clean
  /\ inside' = Clean  \* the next command replaces it
  /\ UNCHANGED <<lba, selected, state, command, moved, disk>>

\* A whole sector is written from the buffer; to write a part, it is read first.
Choose ==
  /\ call # NoCall /\ call.total < call.n
  /\ Step("next", "ready")
  /\ job' = IF call.write /\ Count = SectorSize THEN "write" ELSE "read"
  /\ data' = IF job' = "write" THEN [i \in 0..SectorSize - 1 |-> call.buffer[call.total + i]] ELSE data
  /\ UNCHANGED <<call, device>>

memcpy(dest, at, src, from, n) ==
  [i \in DOMAIN dest |-> IF i \in at..at + n - 1 THEN src[from + i - at] ELSE dest[i]]

AfterRead ==
  /\ job = "read"
  /\ IF call.write
     THEN /\ Step("after", "ready")
          /\ job' = "write"
          /\ data' = memcpy(data, Begin, call.buffer, call.total, Count)
          /\ UNCHANGED call
     ELSE /\ Step("after", "next")
          /\ call' = [call EXCEPT !.total = @ + Count, !.buffer = memcpy(@, call.total, data, Begin, Count)]
          /\ UNCHANGED <<job, data>>
  /\ UNCHANGED device

AfterWrite ==
  /\ job = "write"
  /\ Step("after", "next")
  /\ call' = [call EXCEPT !.total = @ + Count]
  /\ UNCHANGED <<job, data, device>>

-----------------------------------------------------------------------------
(* readSector and writeSector *)

\* Of the drive that was selected last.
getStatus ==
  CASE state[selected] = "busy" -> {"DRDY", "BSY"}
    [] state[selected] = "drq" -> {"DRDY", "DRQ"}
    [] OTHER -> {"DRDY"}

\* Mutant: it waits until the drive wants nothing.
waitForDriveIdle(from, to) ==
  /\ state[selected] = "ready"
  /\ Step(from, to)
  /\ UNCHANGED <<call, job, data, device>>

\* A drive that is not ready or reports an error would be the end; none does.
waitForDrive(from, to) ==
  /\ getStatus \cap {"ERR", "DF"} = {} /\ "DRDY" \in getStatus
  /\ "BSY" \notin getStatus
  /\ Step(from, to)
  /\ UNCHANGED <<call, job, data, device>>

Registers ==
  /\ Step("registers", "select")
  /\ lba' = Sector
  /\ UNCHANGED <<call, job, data, selected, state, command, moved, inside, disk>>

\* Mutant: the channel is left as it is.
SelectNothing ==
  /\ Step("select", "command")
  /\ UNCHANGED <<call, job, data, device>>

Select ==
  /\ Step("select", "command")
  /\ selected' = call.drive
  /\ UNCHANGED <<call, job, data, lba, state, command, moved, inside, disk>>

Command ==
  /\ Step("command", "settle")
  /\ state' = [state EXCEPT ![selected] = "busy"]
  /\ command' = [command EXCEPT ![selected] = job]
  /\ moved' = 0
  /\ UNCHANGED <<call, job, data, lba, selected, inside, disk>>

Request ==
  /\ "DRQ" \in getStatus
  /\ Step("request", "move")
  /\ UNCHANGED <<call, job, data, device>>

\* The data register.
inl == inside[moved]
outl(unit) == inside' = [inside EXCEPT ![moved] = unit]

\* One unit after the other; after the last a read is over, and a drive that
\* was told to write sets to work.
Move ==
  /\ pc = "move"
  /\ IF job = "read" THEN data' = [data EXCEPT ![moved] = inl] /\ UNCHANGED inside
                     ELSE outl(data[moved]) /\ UNCHANGED data
  /\ moved' = moved + 1
  /\ IF moved' < SectorSize THEN UNCHANGED <<pc, state>>
     ELSE /\ pc' = IF job = "read" THEN "after" ELSE "finish"
          /\ state' = [state EXCEPT ![selected] = IF job = "read" THEN "ready" ELSE "busy"]
  /\ UNCHANGED <<call, job, lba, selected, command, disk>>

Driver ==
  \/ Return \/ Choose \/ AfterRead \/ AfterWrite
  \/ waitForDrive("ready", "registers") \/ Registers \/ Select \/ Command
  \/ waitForDrive("settle", "request") \/ Request \/ Move
  \/ waitForDrive("finish", "after")

-----------------------------------------------------------------------------
(* The drive *)

Located == [i \in 0..SectorSize - 1 |-> lba * SectorSize + i]

\* It has the sector that was asked for, or room for one...
Prepare(d) ==
  /\ state[d] = "busy"
  /\ ~(command[d] = "write" /\ moved = SectorSize)
  /\ state' = [state EXCEPT ![d] = "drq"]
  /\ inside' = IF command[d] = "read" THEN [i \in DOMAIN Located |-> disk[d][Located[i]]] ELSE Clean
  /\ UNCHANGED <<driver, lba, selected, command, moved, disk>>

\* ...or stores the one it was given.
Store(d) ==
  /\ state[d] = "busy" /\ command[d] = "write" /\ moved = SectorSize
  /\ state' = [state EXCEPT ![d] = "ready"]
  /\ disk' = [disk EXCEPT ![d] = [i \in DOMAIN @ |->
       IF i \div SectorSize = lba THEN inside[i % SectorSize] ELSE @[i]]]
  /\ UNCHANGED <<driver, lba, selected, command, moved, inside>>

Device == \E d \in Drive : Prepare(d) \/ Store(d)

-----------------------------------------------------------------------------
(* Properties *)

\* The sector is written when the drive has stored it, which the driver learns later.
Stored == job = "write" /\ (pc = "after" \/ (pc = "finish" /\ state[selected] = "ready"))

AsDisk == INSTANCE Disk WITH
  units <- disk,
  call <- IF call # NoCall /\ Stored THEN [call EXCEPT !.total = @ + Count] ELSE call

\* readAll and writeAll move their range, sector by sector, and nothing else.
ImplementsDisk == AsDisk!Spec

\* With a drive that gets on with its work, every call returns.
EveryCallReturns == call # NoCall ~> call = NoCall
=============================================================================
