------------------------------- MODULE Loader --------------------------------
(***************************************************************************)
(* mbr.S: the boot sector, which the BIOS has put at 0x7c00, loads the     *)
(* rest of the kernel behind itself, sector by sector; and the way of a    *)
(* core into protected mode.  Memory is counted in sectors: all addresses  *)
(* of the loader are multiples of one.  The loader's segments are 16 bits. *)
(***************************************************************************)
EXTENDS Integers, Sequences, FiniteSetsExt

CONSTANTS
  N,         \* the processors of the machine: their APIC ids are 0..N-1
  Images,    \* how many sectors the boot drive may have: kernel.img fills it
  Counts,    \* 2^16, where sector numbers wrap
  Places,    \* sectors that the segments reach before they wrap: 2^16 \div 0x20
  Usable,    \* of these, those below 0xa0000, where memory ends
  Loaded,    \* the place of 0x7e00
  Reports    \* what int 15 may say of the memory above 1M

VARIABLES
  ip,          \* what the loader does next
  image,       \* sectors on the boot drive
  cx, di, bp,  \* sectors to go, the next place, the next sector
  ram,         \* per place below 0xa0000, the sector that is in it
  memInfo,
  segments     \* per core, its segment registers

\* A register of 16 bits is the set of the bits that are 1: x | y is x \cup y.
Word(bits) == MapThenSumSet(LAMBDA i : 2^i, bits)
Memory(kilobytes, pages) == Word(kilobytes) * 2^10 + Word(pages) * 2^16

\* config.cc: bytes above 1M.
memAbove1M(info) == Memory(info.ax \cup info.cx, info.bx \cup info.dx)

\* The truth, in one pair of registers or in both.
ASSUME ReportsAssumption ==
  \A r \in Reports :
    \/ /\ r.above1M = Memory(r.ax, r.bx)
       /\ <<r.cx, r.dx>> \in {<<r.ax, r.bx>>, <<{}, {}>>}
    \/ /\ r.above1M = Memory(r.cx, r.dx)
       /\ <<r.ax, r.bx>> = <<{}, {}>>

loaderVars == <<ip, image, cx, di, bp, ram, memInfo, segments>>

\* The BIOS has loaded sector 0, which is signed, and reset all cores.
InitLoader ==
  /\ ip = "start"
  /\ image \in Images
  /\ cx = 0 /\ di = 0 /\ bp = 0
  /\ ram = [p \in 0..Usable - 1 |-> IF p = Loaded - 1 THEN 0 ELSE -1]
  /\ memInfo = [above1M |-> 0, ax |-> {}, bx |-> {}, cx |-> {}, dx |-> {}]
  /\ segments = [c \in 0..N - 1 |-> {}]

Goes(from, to) == ip = from /\ ip' = to

-----------------------------------------------------------------------------
(* Loading *)

\* Of the sectors of the drive the loader sees the low 16 bits.
ReadDriveParameters ==
  /\ Goes("start", "next")
  /\ cx' = image % Counts
  /\ di' = Loaded /\ bp' = 1
  /\ UNCHANGED <<image, ram, memInfo, segments>>

\* Mutant: the count is tested before it goes down.
NextSectorOrNone ==
  /\ ip = "next"
  /\ cx' = (cx - 1) % Counts
  /\ ip' = IF cx <= 2 THEN "memory" ELSE "read"
  /\ UNCHANGED <<image, di, bp, ram, memInfo, segments>>

NextSector ==
  /\ ip = "next"
  /\ cx' = (cx - 1) % Counts
  /\ ip' = IF cx' = 0 THEN "memory" ELSE "read"
  /\ UNCHANGED <<image, di, bp, ram, memInfo, segments>>

\* int 13.  Nothing is stored where there is no memory.
ReadSector ==
  /\ di >= Loaded
  /\ Goes("read", "next")
  /\ ram' = IF di < Usable THEN [ram EXCEPT ![di] = bp] ELSE ram
  /\ di' = (di + 1) % Places
  /\ bp' = (bp + 1) % Counts
  /\ UNCHANGED <<image, cx, memInfo, segments>>

\* The segments have wrapped to the memory of the BIOS, on which nothing can rely now.
Overwrite ==
  /\ di < Loaded
  /\ Goes("read", "lost")
  /\ UNCHANGED <<image, cx, di, bp, ram, memInfo, segments>>

ReadMemoryInfo ==
  /\ Goes("memory", "enter")
  /\ memInfo' \in Reports
  /\ UNCHANGED <<image, cx, di, bp, ram, segments>>

\* What was linked for 0x7c00 and behind it is there.
InPlace == \A s \in 0..image - 1 : Loaded - 1 + s < Usable /\ ram[Loaded - 1 + s] = s

\* Jump to 0x8000.
Enter ==
  /\ Goes("enter", IF InPlace THEN "entered" ELSE "lost")
  /\ UNCHANGED <<image, cx, di, bp, ram, memInfo, segments>>

Load ==
  \/ ReadDriveParameters \/ NextSector \/ ReadSector \/ Overwrite
  \/ ReadMemoryInfo \/ Enter

-----------------------------------------------------------------------------
(* Protected mode *)

Segment(kind, dpl) == [kind |-> kind, dpl |-> dpl, base |-> 0, limit |-> 2^20 - 1, granularity |-> 2^12]
tss(cpu) == [kind |-> "tss", dpl |-> 0, base |-> 104 * cpu, limit |-> 104, granularity |-> 1]
gdt == <<Segment("code", 0), Segment("data", 3), Segment("data", 0), Segment("code", 3)>>
       \o [i \in 1..16 |-> tss(i - 1)]

kernelCS == 8
kernelDS == 16
kernelSS == 24

\* A selector is eight times an index, and a privilege; index 0 selects nothing.
Selects(selector) == gdt[selector \div 8]
Privilege(selector) == selector % 4

\* What a processor asks of a selector in ring 0 before it loads it.
LoadsCode(s) == Selects(s).kind = "code" /\ Selects(s).dpl = 0
LoadsData(s) == Selects(s).kind \in {"data", "code"} /\ Selects(s).dpl >= Privilege(s)
LoadsStack(s) == Selects(s).kind = "data" /\ Selects(s).dpl = 0 /\ Privilege(s) = 0

\* Off its reset or out of the loader a core sets its segments.
EnterProtectedMode(c) ==
  /\ LoadsCode(kernelCS) /\ LoadsData(kernelDS) /\ LoadsStack(kernelSS)
  /\ segments' = [segments EXCEPT ![c] = {kernelCS, kernelDS, kernelSS}]
  /\ UNCHANGED <<ip, image, cx, di, bp, ram, memInfo>>

=============================================================================
