------------------------------- MODULE Kernel --------------------------------
(***************************************************************************)
(* p6_file_system from the reset of its cores to a kernelMain that uses a  *)
(* drive: Startup, and then the driver.                                    *)
(***************************************************************************)
EXTENDS Startup, Ide

CONSTANT Calls  \* what kernelMain calls: records like Ide's, without total

ASSUME CallsAssumption ==
  \A k \in Calls :
    /\ k.write \in BOOLEAN /\ k.drive \in Drive
    /\ k.offset \in Nat /\ k.n \in 1..Capacity /\ k.offset + k.n <= Capacity
    /\ k.buffer \in [0..k.n - 1 -> Value]

allVars == <<vars, loaderVars, ideVars>>

KernelInit == InitLoader /\ Init /\ InitIde

\* The loader is done before a core is in the kernel; a core that comes out of its
\* reset goes into protected mode.
Boots(c) ==
  /\ ip = "entered"
  /\ CoreStep(c)
  /\ IF At(c, "reset") THEN EnterProtectedMode(c) ELSE UNCHANGED loaderVars
  /\ UNCHANGED ideVars

\* kernelMain runs, and calls readAll or writeAll.
Call ==
  /\ stage = "p6" /\ mains = 1
  /\ \E k \in Calls : Start(k.write, k.drive, k.offset, k.buffer, k.n)

KernelNext ==
  \/ Load /\ UNCHANGED <<vars, ideVars>>
  \/ \E c \in Core : Boots(c)
  \/ (Call \/ Driver \/ Device) /\ UNCHANGED <<vars, loaderVars>>

KernelSpec == KernelInit /\ [][KernelNext]_allVars

\* The loader goes on; a core that can go on does, and so does the drive.
Fairness ==
  /\ WF_allVars(Load /\ UNCHANGED <<vars, ideVars>>)
  /\ \A c \in Core : WF_allVars(Boots(c))
  /\ WF_allVars(Driver /\ UNCHANGED <<vars, loaderVars>>)
  /\ WF_allVars(Device /\ UNCHANGED <<vars, loaderVars>>)

-----------------------------------------------------------------------------
(* Properties *)

\* A kernel that fits into the memory is loaded, every core gets through kernelInit,
\* and kernelMain runs.
KernelArrives == Loaded + image - 1 <= Usable => EveryoneArrives
=============================================================================
