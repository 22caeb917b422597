--------------------------- MODULE KernelProcess ---------------------------
(***************************************************************************)
(* The child-process supervisor that the sing-box and mihomo kernels share *)
(* (baseKernel in core/kernel.go).  The manager calls Start, Reload and    *)
(* Stop under its own mutex, so one operation runs at a time; it           *)
(* interleaves with the operating system (a process may exit at any        *)
(* moment), with the 3-second timer of stopProcess, and with one waiter    *)
(* goroutine for each process that was started.  Every critical section of *)
(* b.mu is one step.                                                       *)
(*                                                                         *)
(* Procs bounds how many processes the object may start.                   *)
(***************************************************************************)
CONSTANTS Procs, None

ASSUME NoneIsNoProcess == None \notin Procs

VARIABLES
  proc,      \* the operating system's view of each process
  killed,    \* processes that were sent SIGKILL
  waiter,    \* the waiter goroutine of each process
  closed,    \* the processes whose waitDone channel is closed
  cmd,       \* b.cmd
  waitDone,  \* b.waitDone: a channel is named by the process it was made for
  running,   \* b.running
  pid,       \* b.pid
  failed,    \* b.lastErr # ""
  pc,        \* where the current operation stands, "idle" when there is none
  goal,      \* which operation it is (Reload is Start)
  held,      \* its local variable cmd
  heldDone   \* its local variable waitDone

osVars     == <<proc, killed>>
waiterVars == <<waiter, closed>>
status     == <<running, pid, failed>>
fields     == <<cmd, waitDone, running, pid, failed>>
opVars     == <<pc, goal, held, heldDone>>
vars       == <<proc, killed, waiter, closed, cmd, waitDone, running, pid,
                failed, pc, goal, held, heldDone>>

OpPhases == {"idle", "validate", "read", "clear", "signal", "wait", "kill",
             "drain", "finish", "spawn", "publish"}

(* Types.  A status that does not say running carries no pid (setApplied   *)
(* and the waiter reset it together with running).                         *)
TypeOK ==
  /\ proc \in [Procs -> {"unborn", "alive", "exited"}]
  /\ killed \in SUBSET Procs
  /\ waiter \in [Procs -> {"none", "waiting", "returned", "done"}]
  /\ closed \in SUBSET Procs
  /\ cmd \in Procs \cup {None}
  /\ waitDone \in Procs \cup {None}
  /\ running \in BOOLEAN
  /\ pid \in IF running THEN Procs ELSE {None}
  /\ failed \in BOOLEAN
  /\ pc \in OpPhases
  /\ goal \in {"start", "stop"}
  /\ held \in Procs \cup {None}
  /\ heldDone \in Procs \cup {None}

Init ==
  /\ proc = [p \in Procs |-> "unborn"]
  /\ killed = {}
  /\ waiter = [p \in Procs |-> "none"]
  /\ closed = {}
  /\ cmd = None
  /\ waitDone = None
  /\ running = FALSE
  /\ pid = None
  /\ failed = FALSE
  /\ pc = "idle"
  /\ goal = "stop"
  /\ held = None
  /\ heldDone = None

----------------------------------------------------------------------------
(* Mutant of SetStopped: the pid is not reset.                             *)
SetStoppedKeepsPid(err) ==
  /\ running' = FALSE
  /\ failed' = err
  /\ UNCHANGED pid

(* setApplied(false, err): the status fields only, never b.cmd.            *)
SetStopped(err) ==
  /\ running' = FALSE
  /\ pid' = None
  /\ failed' = err

(* stopProcess has returned nil: Stop is over, startProcess goes on.       *)
StopReturns == pc' = IF goal = "start" THEN "spawn" ELSE "idle"

StartCall ==
  /\ pc = "idle"
  /\ pc' = "validate"
  /\ goal' = "start"
  /\ UNCHANGED <<osVars, waiterVars, fields, held, heldDone>>

StopCall ==
  /\ pc = "idle"
  /\ pc' = "read"
  /\ goal' = "stop"
  /\ UNCHANGED <<osVars, waiterVars, fields, held, heldDone>>

(* Mutant of ValidateFails: setApplied(false, nil).                        *)
ValidateFailsSilently ==
  /\ pc = "validate"
  /\ SetStopped(FALSE)
  /\ pc' = "idle"
  /\ UNCHANGED <<osVars, waiterVars, cmd, waitDone, goal, held, heldDone>>

(* The kernel's own check of the generated file rejects it, or there is no *)
(* executable: Start returns and leaves the old process alone.             *)
ValidateFails ==
  /\ pc = "validate"
  /\ SetStopped(TRUE)
  /\ pc' = "idle"
  /\ UNCHANGED <<osVars, waiterVars, cmd, waitDone, goal, held, heldDone>>

(* Mutant of ValidatePasses: startProcess without its stopProcess.         *)
StartsBesideTheOld ==
  /\ pc = "validate"
  /\ pc' = "spawn"
  /\ UNCHANGED <<osVars, waiterVars, fields, goal, held, heldDone>>

ValidatePasses ==
  /\ pc = "validate"
  /\ pc' = "read"
  /\ UNCHANGED <<osVars, waiterVars, fields, goal, held, heldDone>>

(* stopProcess copies cmd and waitDone under the read lock.                *)
ReadCmd ==
  /\ pc = "read"
  /\ held' = cmd
  /\ heldDone' = waitDone
  /\ pc' = IF cmd = None THEN "clear" ELSE "signal"
  /\ UNCHANGED <<osVars, waiterVars, fields, goal>>

NothingToStop ==
  /\ pc = "clear"
  /\ SetStopped(FALSE)
  /\ StopReturns
  /\ UNCHANGED <<osVars, waiterVars, cmd, waitDone, goal, held, heldDone>>

(* Signal(os.Interrupt): its error is only logged, and whether the process *)
(* obeys is up to the process.                                             *)
Interrupt ==
  /\ pc = "signal"
  /\ pc' = "wait"
  /\ UNCHANGED <<osVars, waiterVars, fields, goal, held, heldDone>>

WaitSucceeds ==
  /\ pc = "wait"
  /\ heldDone \in closed
  /\ pc' = "finish"
  /\ UNCHANGED <<osVars, waiterVars, fields, goal, held, heldDone>>

(* Mutant of Timeout: the stop gives up instead of killing.                *)
TimeoutGivesUp ==
  /\ pc = "wait"
  /\ pc' = "finish"
  /\ UNCHANGED <<osVars, waiterVars, fields, goal, held, heldDone>>

(* The timer may fire first, and select may choose it when both are ready. *)
Timeout ==
  /\ pc = "wait"
  /\ pc' = "kill"
  /\ UNCHANGED <<osVars, waiterVars, fields, goal, held, heldDone>>

(* Mutant of KillSucceeds: no wait for the killed process.                 *)
KillsWithoutDrain ==
  /\ pc = "kill"
  /\ waiter[held] = "waiting"
  /\ killed' = killed \cup {held}
  /\ pc' = "finish"
  /\ UNCHANGED <<proc, waiterVars, fields, goal, held, heldDone>>

(* Kill succeeds until cmd.Wait has reaped the process ...                 *)
KillSucceeds ==
  /\ pc = "kill"
  /\ waiter[held] = "waiting"
  /\ killed' = killed \cup {held}
  /\ pc' = "drain"
  /\ UNCHANGED <<proc, waiterVars, fields, goal, held, heldDone>>

(* ... and fails with ErrProcessDone from the moment it is reaped.         *)
KillFails ==
  /\ pc = "kill"
  /\ proc[held] = "exited"
  /\ SetStopped(TRUE)
  /\ pc' = "idle"
  /\ UNCHANGED <<osVars, waiterVars, cmd, waitDone, goal, held, heldDone>>

Drain ==
  /\ pc = "drain"
  /\ heldDone = None \/ heldDone \in closed
  /\ pc' = "finish"
  /\ UNCHANGED <<osVars, waiterVars, fields, goal, held, heldDone>>

Finish ==
  /\ pc = "finish"
  /\ cmd' = IF cmd = held THEN None ELSE cmd
  /\ waitDone' = None
  /\ SetStopped(FALSE)
  /\ StopReturns
  /\ UNCHANGED <<osVars, waiterVars, goal, held, heldDone>>

(* cmd.Start: the process lives before b knows of it.                      *)
Spawn(p) ==
  /\ pc = "spawn"
  /\ proc[p] = "unborn"
  /\ proc' = [proc EXCEPT ![p] = "alive"]
  /\ held' = p
  /\ pc' = "publish"
  /\ UNCHANGED <<killed, waiterVars, fields, goal, heldDone>>

SpawnFails ==
  /\ pc = "spawn"
  /\ SetStopped(TRUE)
  /\ pc' = "idle"
  /\ UNCHANGED <<osVars, waiterVars, cmd, waitDone, goal, held, heldDone>>

Publish ==
  /\ pc = "publish"
  /\ cmd' = held
  /\ waitDone' = held
  /\ running' = TRUE
  /\ pid' = held
  /\ failed' = FALSE
  /\ waiter' = [waiter EXCEPT ![held] = "waiting"]
  /\ pc' = "idle"
  /\ UNCHANGED <<osVars, closed, goal, held, heldDone>>

----------------------------------------------------------------------------
(* A process exits: by itself, on the interrupt, or because it was killed. *)
Exit(p) ==
  /\ proc[p] = "alive"
  /\ proc' = [proc EXCEPT ![p] = "exited"]
  /\ UNCHANGED <<killed, waiterVars, fields, opVars>>

(* cmd.Wait returns; the waiter has yet to take b.mu.                      *)
WaiterReturns(p) ==
  /\ waiter[p] = "waiting"
  /\ proc[p] = "exited"
  /\ waiter' = [waiter EXCEPT ![p] = "returned"]
  /\ UNCHANGED <<osVars, closed, fields, opVars>>

(* Mutants of WaiterRecords: no close; the fields left as they were; only  *)
(* cmd cleared.                                                            *)
WaiterForgetsClose(p) ==
  /\ waiter[p] = "returned"
  /\ waiter' = [waiter EXCEPT ![p] = "done"]
  /\ cmd' = IF cmd = p THEN None ELSE cmd
  /\ UNCHANGED <<osVars, opVars, closed, waitDone, running, pid, failed>>

WaiterOnlyCloses(p) ==
  /\ waiter[p] = "returned"
  /\ waiter' = [waiter EXCEPT ![p] = "done"]
  /\ closed' = closed \cup ({waitDone} \ {None})
  /\ waitDone' = None
  /\ UNCHANGED <<osVars, opVars, cmd, running, pid, failed>>

WaiterKeepsRunning(p) ==
  /\ waiter[p] = "returned"
  /\ waiter' = [waiter EXCEPT ![p] = "done"]
  /\ closed' = closed \cup ({waitDone} \ {None})
  /\ waitDone' = None
  /\ cmd' = IF cmd = p THEN None ELSE cmd
  /\ UNCHANGED <<osVars, opVars, running, pid, failed>>

(* The waiter closes whatever channel b.waitDone holds by now, and clears  *)
(* the fields only when b.cmd is still its own command.                    *)
WaiterRecords(p) ==
  /\ waiter[p] = "returned"
  /\ waiter' = [waiter EXCEPT ![p] = "done"]
  /\ closed' = closed \cup ({waitDone} \ {None})
  /\ waitDone' = None
  /\ IF cmd = p
       THEN /\ cmd' = None
            /\ running' = FALSE
            /\ pid' = None
            /\ failed' \in {failed, TRUE}
       ELSE UNCHANGED <<cmd, running, pid, failed>>
  /\ UNCHANGED <<osVars, opVars>>

OpStep ==
  \/ ValidateFails \/ ValidatePasses
  \/ ReadCmd \/ NothingToStop
  \/ Interrupt \/ WaitSucceeds \/ Timeout
  \/ KillSucceeds \/ KillFails \/ Drain \/ Finish
  \/ SpawnFails \/ Publish
  \/ \E p \in Procs : Spawn(p)

Next ==
  \/ StartCall
  \/ StopCall
  \/ OpStep
  \/ \E p \in Procs : Exit(p) \/ WaiterReturns(p) \/ WaiterRecords(p)

Spec == Init /\ [][Next]_vars

(* The Go scheduler runs every goroutine that can run, the timer fires,    *)
(* and a process that was sent SIGKILL dies.  Nothing makes a process obey *)
(* the interrupt, and nobody has to call Start or Stop.                    *)
Fairness ==
  /\ WF_vars(OpStep)
  /\ \A p \in Procs :
       /\ WF_vars(WaiterReturns(p))
       /\ WF_vars(WaiterRecords(p))
       /\ WF_vars(p \in killed /\ Exit(p))

FairSpec == Spec /\ Fairness

----------------------------------------------------------------------------
Alive == {p \in Procs : proc[p] = "alive"}

(* Two kernel processes never run at once: the listening ports of the old  *)
(* one are free before the new one is spawned (startProcess).              *)
AtMostOneLive == \A p, q \in Alive : p = q

(* When Stop has returned, with or without an error, no process is left    *)
(* running, whatever the race between the timeout, Kill and the waiter.    *)
StopLeavesNothing == pc = "idle" /\ goal = "stop" => Alive = {}

(* A status that says running names the process b.cmd tracks, and the      *)
(* waiter of that process has not recorded its end.                        *)
RunningIsTracked ==
  running => /\ cmd # None
             /\ pid = cmd
             /\ waiter[cmd] # "done"

(* A process lives behind a status that says stopped only when the status  *)
(* also reports an error, or in the instant between spawn and publish.     *)
HiddenProcessIsReported ==
  Alive # {} => running \/ failed \/ pc = "publish"

(* A waiter that records an exit closes the channel of its own process,    *)
(* once: it never panics on a closed channel and never tells a stop that   *)
(* another process is gone.                                                *)
WaiterClosesItsOwn ==
  [][\A p \in Procs :
       waiter[p] = "returned" /\ waiter'[p] = "done"
         => waitDone = p /\ p \notin closed]_vars

(* The object implements the abstract slot.                                *)
Slot == INSTANCE KernelSlot WITH
  occupant <- IF Alive = {} THEN None ELSE CHOOSE p \in Procs : p \in Alive,
  launched <- {p \in Procs : proc[p] # "unborn"}

ImplementsSlot == Slot!SlotSpec

(* Start and Stop always return: the drain after a Kill cannot hang.       *)
OperationReturns == pc # "idle" ~> pc = "idle"

(* A crash is noticed: a status that names a dead process is corrected.    *)
CrashIsNoticed ==
  \A p \in Procs : (pid = p /\ proc[p] = "exited") ~> (pid # p)

============================================================================
