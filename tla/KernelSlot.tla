---------------------------- MODULE KernelSlot ----------------------------
(***************************************************************************)
(* What a kernel object promises the manager: a slot that holds at most    *)
(* one live kernel process.  A process is launched into an empty slot      *)
(* only, leaves it when it exits, and is never brought back.               *)
(***************************************************************************)
CONSTANTS Procs, None

VARIABLES
  occupant,   \* the live process, or None
  launched    \* every process ever launched

slotVars == <<occupant, launched>>

SlotInit ==
  /\ occupant = None
  /\ launched = {}

Launch(p) ==
  /\ occupant = None
  /\ p \notin launched
  /\ occupant' = p
  /\ launched' = launched \cup {p}

Vacate ==
  /\ occupant # None
  /\ occupant' = None
  /\ UNCHANGED launched

SlotNext == Vacate \/ \E p \in Procs : Launch(p)

SlotSpec == SlotInit /\ [][SlotNext]_slotVars

============================================================================
