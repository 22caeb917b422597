----------------------- MODULE KernelProcess_proofs -----------------------
(***************************************************************************)
(* Proofs about the supervisor of core/kernel.go, for any set of           *)
(* processes.  The inductive invariant Inv ties the three views of a       *)
(* process together: what the operating system says (proc), what its       *)
(* waiter goroutine has done (waiter, closed) and what the object believes *)
(* (cmd, waitDone), at each phase of the current operation.                *)
(***************************************************************************)
EXTENDS KernelProcess, TLAPS

(* A waiter exists from publish on, and moves with its process.            *)
WaiterInv ==
  /\ \A p \in Procs :
       /\ proc[p] = "unborn" => waiter[p] = "none"
       /\ proc[p] # "unborn" /\ waiter[p] = "none" => pc = "publish" /\ held = p
       /\ waiter[p] \in {"returned", "done"} => proc[p] = "exited"
       /\ p \in closed <=> waiter[p] = "done"

(* b.cmd and b.waitDone name the one process whose waiter is still at work.*)
TrackInv ==
  /\ cmd = waitDone
  /\ \A p \in Procs : waiter[p] \in {"waiting", "returned"} <=> cmd = p

(* What the operation's local copies still mean at each phase.             *)
PhaseInv ==
  /\ heldDone \in Procs \cup {None}
  /\ pc \in {"validate", "spawn", "publish"} => goal = "start"
  /\ pc \in {"clear", "spawn", "publish", "finish"} => cmd = None
  /\ pc \in {"signal", "wait", "kill", "drain", "finish"} =>
       /\ held \in Procs
       /\ heldDone = held
       /\ cmd = held \/ (cmd = None /\ waiter[held] = "done")
  /\ pc = "publish" =>
       /\ held \in Procs
       /\ waiter[held] = "none"
       /\ proc[held] # "unborn"

Inv ==
  /\ TypeOK
  /\ WaiterInv
  /\ TrackInv
  /\ PhaseInv
  /\ RunningIsTracked
  /\ StopLeavesNothing
  /\ HiddenProcessIsReported

----------------------------------------------------------------------------
(* A live process is the tracked one, or the one about to be published.    *)
LEMMA AliveIsTracked ==
  ASSUME Inv, NEW p \in Procs, proc[p] = "alive"
  PROVE  \/ cmd = p /\ waiter[p] = "waiting"
         \/ pc = "publish" /\ held = p
  BY DEF Inv, TypeOK, WaiterInv, TrackInv

(* At most one process is alive: b tracks one, and publishing needs none.  *)
LEMMA OneAlive == Inv => AtMostOneLive
  <1> SUFFICES ASSUME Inv, NEW p \in Alive, NEW q \in Alive
               PROVE  p = q
    BY DEF AtMostOneLive
  <1>1. p \in Procs /\ proc[p] = "alive" /\ q \in Procs /\ proc[q] = "alive"
    BY DEF Alive
  <1>2. pc = "publish" => cmd = None
    BY DEF Inv, PhaseInv
  <1> QED
    BY <1>1, <1>2, AliveIsTracked, NoneIsNoProcess

LEMMA InitInv == Init => Inv
  BY NoneIsNoProcess
  DEF Init, Inv, TypeOK, WaiterInv, TrackInv, PhaseInv, RunningIsTracked,
      StopLeavesNothing, HiddenProcessIsReported, Alive, OpPhases

LEMMA NextInv == Inv /\ [Next]_vars => Inv'
  <1> SUFFICES ASSUME Inv, [Next]_vars
               PROVE  Inv'
    OBVIOUS
  <1> USE NoneIsNoProcess
      DEF Inv, TypeOK, WaiterInv, TrackInv, PhaseInv, RunningIsTracked,
          StopLeavesNothing, HiddenProcessIsReported, Alive, OpPhases,
          osVars, waiterVars, fields, opVars, SetStopped, StopReturns
  <1>1. CASE StartCall
    BY <1>1 DEF StartCall
  <1>2. CASE StopCall
    BY <1>2 DEF StopCall
  <1>3. CASE ValidateFails
    BY <1>3 DEF ValidateFails
  <1>4. CASE ValidatePasses
    BY <1>4 DEF ValidatePasses
  <1>5. CASE ReadCmd
    BY <1>5 DEF ReadCmd
  <1>6. CASE NothingToStop
    <2>1. \A p \in Procs : proc[p] # "alive"
      BY <1>6, AliveIsTracked DEF NothingToStop
    <2>2. pc' \in {"spawn", "idle"} /\ (pc' = "spawn" => goal = "start")
      BY <1>6 DEF NothingToStop
    <2> QED
      BY <1>6, <2>1, <2>2 DEF NothingToStop
  <1>7. CASE Interrupt
    BY <1>7 DEF Interrupt
  <1>8. CASE WaitSucceeds
    BY <1>8 DEF WaitSucceeds
  <1>9. CASE Timeout
    BY <1>9 DEF Timeout
  <1>10. CASE KillSucceeds
    BY <1>10 DEF KillSucceeds
  <1>11. CASE KillFails
    <2>1. \A p \in Procs : proc[p] # "alive"
      BY <1>11, AliveIsTracked DEF KillFails
    <2> QED
      BY <1>11, <2>1 DEF KillFails
  <1>12. CASE Drain
    BY <1>12 DEF Drain
  <1>13. CASE Finish
    <2>1. cmd' = None /\ \A p \in Procs : proc[p] # "alive"
      BY <1>13, AliveIsTracked DEF Finish
    <2>2. pc' \in {"spawn", "idle"} /\ (pc' = "spawn" => goal = "start")
      BY <1>13 DEF Finish
    <2> QED
      BY <1>13, <2>1, <2>2 DEF Finish
  <1>14. CASE SpawnFails
    BY <1>14 DEF SpawnFails
  <1>15. CASE Publish
    BY <1>15 DEF Publish
  <1>16. ASSUME NEW p \in Procs, Spawn(p) PROVE Inv'
    BY <1>16 DEF Spawn
  <1>17. ASSUME NEW p \in Procs, Exit(p) PROVE Inv'
    BY <1>17 DEF Exit
  <1>18. ASSUME NEW p \in Procs, WaiterReturns(p) PROVE Inv'
    BY <1>18 DEF WaiterReturns
  <1>19. ASSUME NEW p \in Procs, WaiterRecords(p) PROVE Inv'
    BY <1>19 DEF WaiterRecords
  <1>20. CASE UNCHANGED vars
    BY <1>20 DEF vars
  <1> QED
    BY <1>1, <1>2, <1>3, <1>4, <1>5, <1>6, <1>7, <1>8, <1>9, <1>10, <1>11,
       <1>12, <1>13, <1>14, <1>15, <1>16, <1>17, <1>18, <1>19, <1>20
    DEF Next, OpStep

(* Type correctness of the supervisor, for any set of processes.           *)
THEOREM TypeCorrect == Spec => []TypeOK
  <1>1. Inv => TypeOK
    BY DEF Inv
  <1> QED
    BY <1>1, InitInv, NextInv, PTL DEF Spec

(* Two kernel processes never run at once.                                 *)
THEOREM OneProcess == Spec => []AtMostOneLive
  BY InitInv, NextInv, OneAlive, PTL DEF Spec

(* When Stop has returned no process of the object is left running.        *)
THEOREM StopIsComplete == Spec => []StopLeavesNothing
  <1>1. Inv => StopLeavesNothing
    BY DEF Inv
  <1> QED
    BY <1>1, InitInv, NextInv, PTL DEF Spec

(* What the panel shows as running is the process that is tracked.         *)
THEOREM RunningIsTrue == Spec => []RunningIsTracked
  <1>1. Inv => RunningIsTracked
    BY DEF Inv
  <1> QED
    BY <1>1, InitInv, NextInv, PTL DEF Spec

(* What it shows as stopped, without an error, has no process left.        *)
THEOREM StoppedIsTrue == Spec => []HiddenProcessIsReported
  <1>1. Inv => HiddenProcessIsReported
    BY DEF Inv
  <1> QED
    BY <1>1, InitInv, NextInv, PTL DEF Spec

(* No waiter closes another process's channel, or a closed one.            *)
THEOREM NoDoubleClose == Spec => WaiterClosesItsOwn
  <1> DEFINE Own == \A p \in Procs :
               waiter[p] = "returned" /\ waiter'[p] = "done"
                 => waitDone = p /\ p \notin closed
  <1>1. Inv => Own
    BY DEF Inv, TrackInv, WaiterInv
  <1>2. Inv /\ [Next]_vars => [Own]_vars
    BY <1>1
  <1> QED
    BY <1>2, InitInv, NextInv, PTL DEF Spec, WaiterClosesItsOwn

----------------------------------------------------------------------------
(* The occupant of the abstract slot, as the instance Slot defines it.     *)
Occupant == IF Alive = {} THEN None ELSE CHOOSE p \in Procs : p \in Alive

Launched == {p \in Procs : proc[p] # "unborn"}

LEMMA OccupantOfOne ==
  ASSUME AtMostOneLive, NEW p \in Procs, proc[p] = "alive"
  PROVE  Occupant = p /\ Alive = {p}
  <1>1. p \in Alive
    BY DEF Alive
  <1>2. Alive = {p}
    BY <1>1 DEF AtMostOneLive
  <1> QED
    BY <1>2 DEF Occupant

(* Every step of the supervisor is a step of the slot, or changes nothing  *)
(* there.                                                                  *)
LEMMA StepOfSlot ==
  ASSUME Inv, Inv', [Next]_vars
  PROVE  \/ \E p \in Procs : /\ Occupant = None /\ p \notin Launched
                             /\ Occupant' = p
                             /\ Launched' = Launched \cup {p}
         \/ Occupant # None /\ Occupant' = None /\ Launched' = Launched
         \/ UNCHANGED <<Occupant, Launched>>
  <1>0. AtMostOneLive /\ AtMostOneLive'
    <2>1. AtMostOneLive
      BY OneAlive
    <2>2. AtMostOneLive'
      BY OneAlive, PTL
    <2> QED
      BY <2>1, <2>2
  <1>1. CASE proc' = proc
    BY <1>1 DEF Occupant, Launched, Alive
  <1>2. ASSUME NEW p \in Procs, Spawn(p)
        PROVE  /\ Occupant = None /\ p \notin Launched
               /\ Occupant' = p
               /\ Launched' = Launched \cup {p}
    <2>1. Alive = {}
      BY <1>2, AliveIsTracked, NoneIsNoProcess DEF Spawn, Alive, Inv, PhaseInv
    <2>2. Alive' = {p}
      BY <1>2, <2>1 DEF Spawn, Alive, Inv, TypeOK
    <2>3. Launched' = Launched \cup {p} /\ p \notin Launched
      BY <1>2 DEF Spawn, Launched, Inv, TypeOK
    <2> QED
      BY <2>1, <2>2, <2>3 DEF Occupant
  <1>3. ASSUME NEW p \in Procs, Exit(p)
        PROVE  Occupant # None /\ Occupant' = None /\ Launched' = Launched
    <2>1. Occupant = p /\ Alive = {p}
      BY <1>0, <1>3, OccupantOfOne DEF Exit
    <2>2. Alive' = {}
      BY <1>3, <2>1 DEF Exit, Alive, Inv, TypeOK
    <2>3. Launched' = Launched
      BY <1>3 DEF Exit, Launched, Inv, TypeOK
    <2> QED
      BY <2>1, <2>2, <2>3, NoneIsNoProcess DEF Occupant
  <1>4. proc' = proc \/ \E p \in Procs : Spawn(p) \/ Exit(p)
    BY DEF Next, OpStep, vars, osVars, StartCall, StopCall, ValidateFails,
           ValidatePasses, ReadCmd, NothingToStop, Interrupt, WaitSucceeds,
           Timeout, KillSucceeds, KillFails, Drain, Finish, SpawnFails,
           Publish, WaiterReturns, WaiterRecords
  <1> QED
    BY <1>1, <1>2, <1>3, <1>4

(* The supervisor implements the abstract slot.                            *)
THEOREM SlotRefinement == Spec => ImplementsSlot
  <1>1. Init => Slot!SlotInit
    BY DEF Init, Slot!SlotInit, Alive
  <1>2. Inv /\ Inv' /\ [Next]_vars => [Slot!SlotNext]_(Slot!slotVars)
    BY StepOfSlot DEF Occupant, Launched, Slot!SlotNext, Slot!slotVars,
                      Slot!Launch, Slot!Vacate
  <1> QED
    BY <1>1, <1>2, InitInv, NextInv, PTL DEF Spec, ImplementsSlot, Slot!SlotSpec

============================================================================
