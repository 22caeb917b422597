-------------------------- MODULE WatchLoop_proofs --------------------------
(***************************************************************************)
(* Type correctness of WatchLoop, and that the watcher misses no write,    *)
(* for every set of configurations and any number of changes.              *)
(***************************************************************************)
EXTENDS WatchLoop, TLAPS

LEMMA InitType == Init => TypeOK
  <1> SUFFICES ASSUME Init PROVE TypeOK
    OBVIOUS
  <1>1. phase \in [Committers -> {"idle", "load", "wait", "save", "write"}]
    BY DEF Init
  <1>2. changes \in Nat /\ newer \in BOOLEAN
    BY DEF Init
  <1> QED
    BY <1>1, <1>2 DEF Init, TypeOK, Loadable

LEMMA CommitsType ==
  ASSUME TypeOK, NEW p \in Committers, NEW c \in Loadable, Commits(p, c),
         changes' \in Nat
  PROVE  TypeOK'
  BY DEF TypeOK, Commits, Goto

LEMMA SavesType ==
  ASSUME TypeOK, NEW p \in Committers, Saves(p)
  PROVE  TypeOK'
  <1>1. CASE SaveOpens(p)
    BY <1>1 DEF TypeOK, SaveOpens, Goto, Loadable
  <1>2. CASE SaveWrites(p)
    BY <1>2 DEF TypeOK, SaveWrites, Goto
  <1>3. CASE SaveFails(p)
    BY <1>3 DEF TypeOK, SaveFails, Goto, Loadable
  <1> QED
    BY <1>1, <1>2, <1>3 DEF Saves

LEMMA WatchType ==
  ASSUME TypeOK, Watch
  PROVE  TypeOK'
  <1>1. CASE WatcherStats
    BY <1>1 DEF TypeOK, WatcherStats, Goto
  <1>2. CASE WatcherLoads
    BY <1>2 DEF TypeOK, WatcherLoads, Goto
  <1>3. CASE WatcherApplies
    <2>1. CASE Commits("watcher", loaded)
      BY <1>3, <2>1, CommitsType DEF WatcherApplies, TypeOK, Committers
    <2>2. CASE ~ Commits("watcher", loaded)
      BY <1>3, <2>2 DEF WatcherApplies, TypeOK, Goto
    <2> QED
      BY <2>1, <2>2
  <1> QED
    BY <1>1, <1>2, <1>3 DEF Watch

LEMMA TypeStep == TypeOK /\ [Next]_vars => TypeOK'
  <1> SUFFICES ASSUME TypeOK, [Next]_vars
               PROVE  TypeOK'
    OBVIOUS
  <1>1. ASSUME NEW c \in Contents \cup {Bad}, OperatorEdits(c) PROVE TypeOK'
    BY <1>1 DEF TypeOK, OperatorEdits, Loadable
  <1>2. ASSUME NEW c \in Contents, ApiCommits(c) PROVE TypeOK'
    <2>1. Commits("api", c) /\ changes' \in Nat
      BY <1>2 DEF ApiCommits, TypeOK
    <2> QED
      BY <2>1, CommitsType DEF Committers, Loadable
  <1>3. CASE UNCHANGED vars
    BY <1>3 DEF TypeOK, vars
  <1> QED
    BY <1>1, <1>2, <1>3, SavesType, WatchType DEF Next

(* The watcher and the commits keep well typed state; in particular only   *)
(* what LoadConfig accepts is ever applied, whatever an operator writes.   *)
THEOREM TypeCorrect == Spec => []TypeOK
  BY InitType, TypeStep, PTL DEF Spec

(* No write to config.yaml goes unnoticed: what the watcher has not read   *)
(* is newer than its mark or about to be read, however edits, saves and    *)
(* failures fall between its Stat, its load and its own save.              *)
THEOREM NoWriteIsMissed == Spec => []UnseenIsNewer
  <1>1. Init => UnseenIsNewer
    BY DEF Init, UnseenIsNewer
  <1>2. TypeOK /\ UnseenIsNewer /\ [Next]_vars => UnseenIsNewer'
    <2> SUFFICES ASSUME TypeOK, UnseenIsNewer, [Next]_vars
                 PROVE  UnseenIsNewer'
      OBVIOUS
    <2> USE DEF UnseenIsNewer
    <2>1. ASSUME NEW c, OperatorEdits(c) PROVE UnseenIsNewer'
      BY <2>1 DEF OperatorEdits
    <2>2. ASSUME NEW p \in Committers, NEW c, Commits(p, c), phase[p] # "load"
          PROVE  UnseenIsNewer'
      BY <2>2 DEF Commits, Goto, TypeOK, Committers
    <2>3. ASSUME NEW c, ApiCommits(c) PROVE UnseenIsNewer'
      BY <2>2, <2>3 DEF ApiCommits, Committers
    <2>4. ASSUME NEW p \in Committers, Saves(p) PROVE UnseenIsNewer'
      <3>1. CASE SaveOpens(p) \/ SaveWrites(p)
        BY <3>1 DEF SaveOpens, SaveWrites
      <3>2. CASE SaveFails(p)
        BY <3>2 DEF SaveFails, Goto, TypeOK, Committers
      <3> QED
        BY <2>4, <3>1, <3>2 DEF Saves
    <2>5. CASE WatcherStats
      BY <2>5 DEF WatcherStats, Goto, TypeOK, Committers
    <2>6. CASE WatcherLoads
      BY <2>6 DEF WatcherLoads
    <2>7. CASE WatcherApplies
      <3>1. CASE Commits("watcher", loaded)
        BY <2>2, <2>7, <3>1 DEF WatcherApplies, Committers
      <3>2. CASE ~ Commits("watcher", loaded)
        BY <2>7, <3>2 DEF WatcherApplies
      <3> QED
        BY <3>1, <3>2
    <2>8. CASE UNCHANGED vars
      BY <2>8 DEF vars
    <2> QED
      BY <2>1, <2>3, <2>4, <2>5, <2>6, <2>7, <2>8 DEF Next, Watch
  <1> QED
    BY <1>1, <1>2, TypeCorrect, PTL DEF Spec

=============================================================================
