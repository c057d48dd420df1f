------------------------------ MODULE MCKernel -------------------------------
(* Kernel for TLC: what a firmware may leave in memory, and calls of the driver. *)
EXTENDS Kernel

\* Behind the table lie zeros, or the name of another table.
Behind == {APIC_ENTRY(0), MADT_ENTRY("name")}

Cpus == [i \in 1..N |-> APIC_ENTRY(i - 1)]
\* The core that boots comes first, the IOAPIC and an override anywhere behind.
Entries == UNION {{InsertAt(InsertAt(Cpus, i, IOAPIC_ENTRY(1)), j, MADT_ENTRY("override")) : j \in (i + 1)..(N + 2)} : i \in 2..(N + 1)}

\* One pointer to the tables, in either area; the table of the processors
\* may be the first or a later one.
McMemories ==
  [at : {[i \in 1..6 |-> IF i = p THEN RSD ELSE "other"] : p \in {1, 3, 6}},
   bios : {1..4}, ebda : {5..6},
   rsdt : {[p \in 1..6 |-> IF first THEN <<MADT(e, b), SDT("FACP")>> ELSE <<SDT("FACP"), MADT(e, b)>>] :
             first \in BOOLEAN, e \in Entries, b \in Behind}]

\* A part of a sector, parts of two and two whole ones; two patterns in which no
\* two sectors are alike.
Pattern(n, v) == [i \in 0..n - 1 |-> IF i \in {1, 2} THEN v ELSE 1 - v]
Ranges == {<<1, 2>>, <<0, 4>>, <<3, 1>>}
McCalls ==
  {[write |-> w, drive |-> d, offset |-> r[1], n |-> r[2], buffer |-> Pattern(r[2], v)] :
     w \in BOOLEAN, d \in Drive, r \in Ranges, v \in 0..1}
\* 16 and 80 megabytes above the first, reported twice or once.
Above(e, k) == [above1M |-> Memory(e, k), ax |-> e, bx |-> k, cx |-> e, dx |-> k]
McReports ==
  LET r == Above(10..13, {10})  \* 15 * 2^10 and 2^10
  IN  {r, [r EXCEPT !.ax = {}, !.bx = {}], [r EXCEPT !.cx = {}, !.dx = {}]}

\* So that there are fewer states the machine of p6 reports twice.
McNext == KernelNext /\ (stage = "p6" => memInfo'.ax = memInfo'.cx)
McSpec == KernelInit /\ [][McNext]_allVars /\ Fairness
=============================================================================
