----------------------------- MODULE WatchLoop -----------------------------
(***************************************************************************)
(* Hot reload (WatchConfig in core/config.go, with the callback of         *)
(* cmd/agent.go).  Every two seconds the watcher compares the modification *)
(* time of config.yaml with lastMod, loads a newer file and hands it to    *)
(* ApplyConfig, which takes m.mu, replaces the configuration and saves it: *)
(* into the file that is being watched.  The API's handlers save there     *)
(* under the same lock; an operator edits the file under none.             *)
(*                                                                         *)
(* The model starts when the watcher has taken its first modification      *)
(* time.  Two writes are taken to have different times.  What a commit     *)
(* does besides config.yaml is in ConfigStore; here a commit that fails    *)
(* before its save changes nothing, and one that fails later restores the  *)
(* memory and leaves the file.                                             *)
(*                                                                         *)
(* Bound: MaxChanges changes by the API and the operator together.         *)
(***************************************************************************)
EXTENDS Naturals

CONSTANTS
  Contents,    \* configurations that load
  Blank,       \* what an empty file loads as
  Bad,         \* a file that LoadConfig rejects
  Free,        \* nobody holds m.mu
  MaxChanges

ASSUME WatchAssumption ==
  /\ Blank \notin Contents
  /\ Bad \notin Contents \cup {Blank}
  /\ Free \notin {"api", "watcher"}
  /\ MaxChanges \in Nat

VARIABLES
  file,     \* config.yaml
  newer,    \* its modification time is after lastMod
  mem,      \* m.cfg
  before,   \* the snapshot of the commit at work
  lock,     \* who holds m.mu
  phase,    \* what the API's handler and the watcher do
  loaded,   \* what the watcher read and will apply
  seen,     \* what the watcher read last, for the properties
  changes

vars == <<file, newer, mem, before, lock, phase, loaded, seen, changes>>

Committers == {"api", "watcher"}
Loadable == Contents \cup {Blank}

TypeOK ==
  /\ file \in Loadable \cup {Bad}
  /\ newer \in BOOLEAN
  /\ mem \in Loadable /\ before \in Loadable
  /\ lock \in Committers \cup {Free}
  /\ phase \in [Committers -> {"idle", "load", "wait", "save", "write"}]
  /\ loaded \in Loadable
  /\ seen \in Loadable \cup {Bad}
  /\ changes \in Nat

Init ==
  /\ file \in Contents
  /\ mem = file
  /\ before = file
  /\ loaded = file
  /\ seen = file
  /\ newer = FALSE
  /\ lock = Free
  /\ phase = [p \in Committers |-> "idle"]
  /\ changes = 0

Goto(p, at) == phase' = [phase EXCEPT ![p] = at]

----------------------------------------------------------------------------
OperatorEdits(c) ==
  /\ changes < MaxChanges
  /\ changes' = changes + 1
  /\ file' = c
  /\ newer' = TRUE
  /\ UNCHANGED <<mem, before, lock, phase, loaded, seen>>

(* A commit that Validate and the kernel accept gets as far as its save.   *)
Commits(p, c) ==
  /\ lock = Free
  /\ lock' = p
  /\ before' = mem
  /\ mem' = c
  /\ Goto(p, "save")
  /\ UNCHANGED <<file, newer, loaded, seen>>

ApiCommits(c) ==
  /\ phase["api"] = "idle"
  /\ changes < MaxChanges
  /\ changes' = changes + 1
  /\ Commits("api", c)

(* os.WriteFile truncates, then writes.                                    *)
SaveOpens(p) ==
  /\ phase[p] = "save"
  /\ file' = Blank
  /\ newer' = TRUE
  /\ Goto(p, "write")
  /\ UNCHANGED <<mem, before, lock, loaded, seen, changes>>

(* Mutant of SaveFails: the error path returns without unlocking.          *)
SaveFailsLocked(p) ==
  /\ \/ phase[p] = "save" /\ UNCHANGED <<file, newer>>
     \/ phase[p] = "write" /\ file' \in {Blank, Bad} /\ newer' = TRUE
  /\ mem' = before
  /\ Goto(p, "idle")
  /\ UNCHANGED <<before, lock, loaded, seen, changes>>

(* The file cannot be opened, or its text is cut short: rolled back.       *)
SaveFails(p) ==
  /\ \/ phase[p] = "save" /\ UNCHANGED <<file, newer>>
     \/ phase[p] = "write" /\ file' \in {Blank, Bad} /\ newer' = TRUE
  /\ mem' = before
  /\ lock' = Free
  /\ Goto(p, "idle")
  /\ UNCHANGED <<before, loaded, seen, changes>>

(* The save succeeds, over any edit since the truncation; the database     *)
(* steps after it may still fail.                                          *)
SaveWrites(p) ==
  /\ phase[p] = "write"
  /\ file' = mem
  /\ newer' = TRUE
  /\ mem' \in {mem, before}
  /\ lock' = Free
  /\ Goto(p, "idle")
  /\ UNCHANGED <<before, loaded, seen, changes>>

----------------------------------------------------------------------------
(* Stat comes before LoadConfig: a write between them is newer again.      *)
WatcherStats ==
  /\ phase["watcher"] = "idle"
  /\ newer
  /\ newer' = FALSE
  /\ Goto("watcher", "load")
  /\ UNCHANGED <<file, mem, before, lock, loaded, seen, changes>>

(* Mutant of WatcherLoads: a load error does not end the round.            *)
WatcherLoadsAnything ==
  /\ phase["watcher"] = "load"
  /\ seen' = file
  /\ loaded' = file
  /\ Goto("watcher", "wait")
  /\ UNCHANGED <<file, newer, mem, before, lock, changes>>

WatcherLoads ==
  /\ phase["watcher"] = "load"
  /\ seen' = file
  /\ \/ file # Bad /\ loaded' = file /\ Goto("watcher", "wait")
     \/ file = Bad /\ UNCHANGED loaded /\ Goto("watcher", "idle")
  /\ UNCHANGED <<file, newer, mem, before, lock, changes>>

(* Mutant of WatcherApplies: lastMod is taken again before the apply, to   *)
(* be past the watcher's own save.                                         *)
WatcherAppliesAndStats ==
  /\ phase["watcher"] = "wait"
  /\ lock = Free
  /\ newer' = FALSE
  /\ \/ lock' = "watcher" /\ before' = mem /\ mem' = loaded
        /\ Goto("watcher", "save")
     \/ Goto("watcher", "idle") /\ UNCHANGED <<lock, before, mem>>
  /\ UNCHANGED <<file, loaded, seen, changes>>

(* The callback of main: ApplyConfig, whose error is only logged.          *)
WatcherApplies ==
  /\ phase["watcher"] = "wait"
  /\ lock = Free
  /\ \/ Commits("watcher", loaded)
     \/ /\ Goto("watcher", "idle")
        /\ UNCHANGED <<file, newer, mem, before, lock, loaded, seen>>
  /\ UNCHANGED changes

----------------------------------------------------------------------------
Saves(p) == SaveOpens(p) \/ SaveWrites(p) \/ SaveFails(p)

Watch == WatcherStats \/ WatcherLoads \/ WatcherApplies

Next ==
  \/ \E c \in Contents \cup {Bad} : OperatorEdits(c)
  \/ \E c \in Contents : ApiCommits(c)
  \/ \E p \in Committers : Saves(p)
  \/ Watch

Spec == Init /\ [][Next]_vars

(* The ticker fires every two seconds; a file operation returns; a waiter  *)
(* gets m.mu once the handlers before it are done (sync.Mutex hands over   *)
(* to a waiter that starves, and the handlers here are MaxChanges).        *)
Fairness ==
  /\ WF_vars(Watch)
  /\ \A p \in Committers : WF_vars(Saves(p))

FairSpec == Spec /\ Fairness

----------------------------------------------------------------------------
(* A file that the watcher has not read is newer than lastMod, or is about *)
(* to be loaded: no edit slips between Stat and LoadConfig, nor into the   *)
(* time that the watcher waits for the lock, loads or saves.               *)
UnseenIsNewer == seen # file => newer \/ phase["watcher"] = "load"

(* An edit is loaded, unless another write replaces it first.              *)
EditsAreSeen ==
  \A c \in Contents \cup {Bad} : file = c ~> seen = c \/ file # c

(* The watcher always comes back to its ticker: it does not wait for m.mu  *)
(* for ever, whatever fails in the commits that hold it.                   *)
WatcherReturns == phase["watcher"] # "idle" ~> phase["watcher"] = "idle"

(* When nobody changes anything any more, hot reload ends.                 *)
WatcherSettles == <>[](phase["watcher"] = "idle")

============================================================================
