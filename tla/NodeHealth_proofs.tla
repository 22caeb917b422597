-------------------------- MODULE NodeHealth_proofs --------------------------
(***************************************************************************)
(* Type correctness of NodeHealth, and that an undisturbed pass of the     *)
(* sampler leaves current entries, for any names, addresses and testers.   *)
(***************************************************************************)
EXTENDS NodeHealth, TLAPS

(* The maps of nodes and of health.                                        *)
NodesType == nodes \in [DOMAIN nodes -> Node] /\ DOMAIN nodes \subseteq Names

Entries == {Unknown, Disabled} \cup Probed

HealthType ==
  /\ health \in [DOMAIN health -> Entries]
  /\ DOMAIN health \subseteq Names /\ DOMAIN nodes \subseteq DOMAIN health

LEMMA TypeParts ==
  TypeOK <=> /\ NodesType /\ HealthType /\ targets \subseteq Target
             /\ tests \in [Testers -> Target \cup {NoTest}]
             /\ changed \in BOOLEAN /\ edits \in 0..MaxEdits
  BY DEF TypeOK, NodesType, HealthType, Entries

LEMMA SetType ==
  ASSUME NEW S, NEW f, f \in [DOMAIN f -> S], NEW n, NEW x \in S
  PROVE  Set(f, n, x) \in [DOMAIN f \cup {n} -> S]
  BY DEF Set

LEMMA DropType ==
  ASSUME NEW S, NEW f, f \in [DOMAIN f -> S], NEW n
  PROVE  Drop(f, n) \in [DOMAIN f \ {n} -> S]
  BY DEF Drop

LEMMA HealthOfType ==
  ASSUME NEW x \in Node
  PROVE  HealthOf(x) \in Entries
  BY DEF HealthOf, Node, Entries, Disabled, Probed

(* What a new entry starts from, and that no entry is lost.                *)
LEMMA EnsureHealthType ==
  ASSUME NEW h, h \in [DOMAIN h -> Entries], NEW n, NEW x
  PROVE  EnsureHealth(h, n, x) \in [DOMAIN h \cup {n} -> Entries]
  <1>1. CASE n \in DOMAIN h
    <2>1. DOMAIN h \cup {n} = DOMAIN h
      BY <1>1
    <2> QED
      BY <1>1, <2>1 DEF EnsureHealth
  <1>2. CASE n \notin DOMAIN h
    <2>1. (IF x.dis THEN Disabled ELSE Unknown) \in Entries
      BY DEF Entries
    <2> QED
      BY <1>2, <2>1, SetType DEF EnsureHealth
  <1> QED
    BY <1>1, <1>2

LEMMA MoveType ==
  ASSUME NEW h, h \in [DOMAIN h -> Entries], NEW o, NEW n
  PROVE  /\ Move(h, o, n) \in [DOMAIN Move(h, o, n) -> Entries]
         /\ DOMAIN Move(h, o, n) \subseteq DOMAIN h \cup {n}
         /\ DOMAIN h \ {o} \subseteq DOMAIN Move(h, o, n)
  <1>1. CASE o \in DOMAIN h
    <2>1. Set(h, n, h[o]) \in [DOMAIN h \cup {n} -> Entries]
      BY <1>1, SetType
    <2>2. Drop(Set(h, n, h[o]), o) \in [(DOMAIN h \cup {n}) \ {o} -> Entries]
      BY <2>1 DEF Drop
    <2> QED
      BY <1>1, <2>2 DEF Move
  <1>2. CASE o \notin DOMAIN h
    BY <1>2 DEF Move
  <1> QED
    BY <1>1, <1>2

LEMMA InitType == Init => TypeOK
  <1> SUFFICES ASSUME Init PROVE TypeOK
    OBVIOUS
  <1>1. nodes \in [DOMAIN nodes -> Node] /\ DOMAIN nodes = {}
    BY DEF Init
  <1>2. health \in [DOMAIN health -> Entries] /\ DOMAIN health = {}
    BY DEF Init
  <1>3. tests \in [Testers -> Target \cup {NoTest}]
    BY DEF Init
  <1>4. targets = {} /\ changed = FALSE /\ edits \in 0..MaxEdits
    BY HealthAssumption DEF Init
  <1> QED
    BY <1>1, <1>2, <1>3, <1>4, TypeParts DEF NodesType, HealthType

(* An edit leaves the probes alone.                                        *)
LEMMA EditType ==
  ASSUME TypeOK, Edit, NodesType', HealthType'
  PROVE  TypeOK'
  <1>1. edits' \in 0..MaxEdits
    BY HealthAssumption DEF Edit, TypeOK
  <1>2. changed' \in BOOLEAN /\ targets' = targets /\ tests' = tests
    BY DEF Edit
  <1> QED
    BY <1>1, <1>2 DEF TypeOK, NodesType, HealthType, Entries

LEMMA PutType ==
  ASSUME TypeOK, NEW n \in Names, NEW x \in Node, Put(n, x)
  PROVE  TypeOK'
  <1>1. NodesType /\ HealthType
    BY TypeParts
  <1>2. nodes' \in [DOMAIN nodes \cup {n} -> Node]
    BY <1>1, SetType DEF Put, NodesType
  <1>3. health' \in [DOMAIN health \cup {n} -> Entries]
    BY <1>1, EnsureHealthType DEF Put, HealthType
  <1>4. NodesType' /\ HealthType'
    BY <1>1, <1>2, <1>3 DEF NodesType, HealthType
  <1> QED
    BY <1>4, EditType DEF Put

LEMMA RenameType ==
  ASSUME TypeOK, NEW old \in Names, NEW n \in Names, NEW x \in Node, Rename(old, n, x)
  PROVE  TypeOK'
  <1>1. NodesType /\ HealthType
    BY TypeParts
  <1>2. nodes' \in [(DOMAIN nodes \ {old}) \cup {n} -> Node]
    <2>1. Drop(nodes, old) \in [DOMAIN nodes \ {old} -> Node]
      BY <1>1, DropType DEF NodesType
    <2>2. DOMAIN Drop(nodes, old) = DOMAIN nodes \ {old}
      BY <2>1
    <2> QED
      BY <2>1, <2>2, SetType DEF Rename
  <1> DEFINE moved == Move(health, old, n)
  <1>3. /\ moved \in [DOMAIN moved -> Entries]
        /\ DOMAIN moved \subseteq DOMAIN health \cup {n}
        /\ DOMAIN health \ {old} \subseteq DOMAIN moved
    BY <1>1, MoveType DEF HealthType
  <1>4. health' \in [DOMAIN moved \cup {n} -> Entries]
    <2> HIDE DEF moved
    <2>1. EnsureHealth(moved, n, x) \in [DOMAIN moved \cup {n} -> Entries]
      BY <1>3, EnsureHealthType
    <2> QED
      BY <2>1 DEF Rename, moved
  <1> HIDE DEF moved
  <1>5. NodesType' /\ HealthType'
    BY <1>1, <1>2, <1>3, <1>4 DEF NodesType, HealthType
  <1> QED
    BY <1>5, EditType DEF Rename

(* A probe writes the entry of a name, be it that of a node or not.        *)
LEMMA ProbeType ==
  ASSUME TypeOK, NEW x \in Target, nodes' = nodes,
         health' = Set(health, x.name, HealthOf(x.node))
  PROVE  NodesType' /\ HealthType'
  <1>1. NodesType /\ HealthType
    BY TypeParts
  <1>2. x.name \in Names /\ HealthOf(x.node) \in Entries
    BY HealthOfType DEF Target
  <1>3. health' \in [DOMAIN health \cup {x.name} -> Entries]
    BY <1>1, <1>2, SetType DEF HealthType
  <1> QED
    BY <1>1, <1>2, <1>3 DEF NodesType, HealthType

LEMMA TargetType ==
  ASSUME TypeOK, NEW n \in DOMAIN nodes
  PROVE  TargetOf(n) \in Target
  BY DEF TypeOK, TargetOf, Target

LEMMA StaleType == StaleTest \in BOOLEAN
  BY DEF StaleTest

LEMMA TypeStep == TypeOK /\ [Next]_vars => TypeOK'
  <1> SUFFICES ASSUME TypeOK, [Next]_vars
               PROVE  TypeOK'
    OBVIOUS
  <1>0. NodesType /\ HealthType /\ edits \in 0..MaxEdits /\ changed \in BOOLEAN
        /\ targets \subseteq Target /\ tests \in [Testers -> Target \cup {NoTest}]
    BY TypeParts
  <1>1. ASSUME NEW n \in Names, Delete(n) PROVE TypeOK'
    <2>1. nodes' \in [DOMAIN nodes \ {n} -> Node]
      BY <1>0, <1>1, DropType DEF Delete, NodesType
    <2>2. NodesType' /\ HealthType'
      BY <1>0, <1>1, <2>1 DEF Delete, NodesType, HealthType
    <2> QED
      BY <1>1, <2>2, EditType DEF Delete
  <1>2. ASSUME NEW n \in Names, NEW on \in BOOLEAN, SetEnabled(n, on) PROVE TypeOK'
    <2>1. [nodes[n] EXCEPT !.dis = ~on] \in Node
      BY <1>0, <1>2 DEF SetEnabled, NodesType, Node
    <2> QED
      BY <1>2, <2>1, PutType DEF SetEnabled
  <1>3. CASE SamplerBegins
    <2>1. targets' \subseteq Target
      BY <1>3, TargetType DEF SamplerBegins
    <2>2. changed' \in BOOLEAN
      BY <1>3, StaleType DEF SamplerBegins
    <2> QED
      BY <1>0, <1>3, <2>1, <2>2 DEF SamplerBegins, TypeOK
  <1>4. ASSUME NEW x \in targets, SamplerProbes(x) PROVE TypeOK'
    <2>1. NodesType' /\ HealthType'
      BY <1>0, <1>4, ProbeType DEF SamplerProbes
    <2>2. targets' \subseteq Target /\ UNCHANGED <<tests, changed, edits>>
      BY <1>0, <1>4 DEF SamplerProbes
    <2> QED
      BY <1>0, <2>1, <2>2 DEF TypeOK, NodesType, HealthType, Entries
  <1>5. ASSUME NEW t \in Testers, NEW n \in Names, TestBegins(t, n) PROVE TypeOK'
    <2>1. tests' \in [Testers -> Target \cup {NoTest}]
      BY <1>0, <1>5, TargetType DEF TestBegins
    <2> QED
      BY <1>0, <1>5, <2>1 DEF TestBegins, TypeOK
  <1>6. ASSUME NEW t \in Testers, TestEnds(t) PROVE TypeOK'
    <2>1. tests[t] \in Target
      BY <1>0, <1>6 DEF TestEnds
    <2>2. NodesType' /\ HealthType'
      BY <1>6, <2>1, ProbeType DEF TestEnds
    <2>3. tests' \in [Testers -> Target \cup {NoTest}]
          /\ UNCHANGED <<targets, changed, edits>>
      BY <1>0, <1>6 DEF TestEnds
    <2> QED
      BY <1>0, <2>2, <2>3 DEF TypeOK, NodesType, HealthType, Entries
  <1>7. CASE UNCHANGED vars
    BY <1>0, <1>7 DEF vars, TypeOK
  <1> QED
    BY <1>1, <1>2, <1>3, <1>4, <1>5, <1>6, <1>7, PutType, RenameType
       DEF Next, Sampler

(* Nodes and health entries are well typed, and every node has an entry.   *)
THEOREM TypeCorrect == Spec => []TypeOK
  <1> QED
    BY InitType, TypeStep, PTL DEF Spec

----------------------------------------------------------------------------
(* Until something is edited, what the pass and the tests that overlap it  *)
(* have in hand is current.                                                *)
PassInv ==
  ~changed =>
    /\ \A x \in targets : IsCurrent(x)
    /\ \A t \in Testers : tests[t] # NoTest => IsCurrent(tests[t])
    /\ \A n \in DOMAIN nodes : TargetOf(n) \in targets \/ HealthAgrees(n)

(* The result of a current target agrees with its node and leaves the      *)
(* other entries alone.                                                    *)
LEMMA CurrentProbe ==
  ASSUME TypeOK, NEW x, IsCurrent(x), nodes' = nodes,
         health' = Set(health, x.name, HealthOf(x.node))
  PROVE  /\ HealthAgrees(x.name)'
         /\ \A n \in DOMAIN nodes : HealthAgrees(n) => HealthAgrees(n)'
  <1> DEFINE name == x.name
             result == HealthOf(x.node)
  <1>0. result = HealthOf(nodes[x.name])
    BY DEF IsCurrent
  <1> HIDE DEF name, result
  <1>1. /\ DOMAIN health' = DOMAIN health \cup {x.name}
        /\ health'[x.name] = HealthOf(nodes[x.name])
        /\ \A m \in DOMAIN health : m # x.name => health'[m] = health[m]
    <2>1. health' = Set(health, name, result)
      BY DEF name, result
    <2>2. /\ DOMAIN health' = DOMAIN health \cup {name}
          /\ health'[name] = result
          /\ \A m \in DOMAIN health : m # name => health'[m] = health[m]
      BY <2>1 DEF Set
    <2> QED
      BY <1>0, <2>2 DEF name
  <1>2. x.name \in DOMAIN nodes
    BY DEF IsCurrent
  <1>3. HealthAgrees(x.name)'
    BY <1>1, <1>2 DEF HealthAgrees
  <1>4. ASSUME NEW n \in DOMAIN nodes, HealthAgrees(n), n # x.name
        PROVE  HealthAgrees(n)'
    <2>1. n \in DOMAIN health' /\ health'[n] = health[n]
      BY <1>1, <1>4 DEF HealthAgrees
    <2> QED
      BY <1>4, <2>1 DEF HealthAgrees
  <1> QED
    BY <1>3, <1>4

LEMMA PassInit == Init => PassInv
  BY DEF Init, PassInv

LEMMA PassStep == TypeOK /\ PassInv /\ [Next]_vars => PassInv'
  <1> SUFFICES ASSUME TypeOK, PassInv, [Next]_vars, ~changed'
               PROVE  PassInv'
    BY DEF PassInv
  <1>1. CASE Edit
    BY <1>1 DEF Edit
  <1>2. CASE SamplerBegins
    <2>1. nodes' = nodes /\ tests' = tests /\ targets' = {TargetOf(n) : n \in DOMAIN nodes}
      BY <1>2 DEF SamplerBegins
    <2>2. \A t \in Testers : tests[t] # NoTest => IsCurrent(tests[t])
      BY <1>2 DEF SamplerBegins, StaleTest
    <2>3. \A n \in DOMAIN nodes : IsCurrent(TargetOf(n))
      BY DEF IsCurrent, TargetOf
    <2> QED
      BY <2>1, <2>2, <2>3 DEF PassInv, IsCurrent, TargetOf
  <1>3. ASSUME NEW x \in targets, SamplerProbes(x) PROVE PassInv'
    <2>1. /\ nodes' = nodes /\ tests' = tests /\ changed' = changed
          /\ targets' = targets \ {x}
          /\ health' = Set(health, x.name, HealthOf(x.node))
      BY <1>3 DEF SamplerProbes
    <2>2. /\ \A y \in targets : IsCurrent(y)
          /\ \A t \in Testers : tests[t] # NoTest => IsCurrent(tests[t])
          /\ \A n \in DOMAIN nodes : TargetOf(n) \in targets \/ HealthAgrees(n)
      BY <2>1 DEF PassInv
    <2>3. /\ HealthAgrees(x.name)'
          /\ \A n \in DOMAIN nodes : HealthAgrees(n) => HealthAgrees(n)'
      BY <2>1, <2>2, CurrentProbe
    <2>4. ASSUME NEW n \in DOMAIN nodes
          PROVE  TargetOf(n) \in targets \ {x} \/ HealthAgrees(n)'
      <3>1. CASE TargetOf(n) = x
        <4>1. x.name = n
          BY <3>1 DEF TargetOf
        <4> QED
          BY <2>3, <4>1
      <3>2. CASE TargetOf(n) # x
        BY <2>2, <2>3, <3>2
      <3> QED
        BY <3>1, <3>2
    <2> QED
      BY <2>1, <2>2, <2>4 DEF PassInv, IsCurrent, TargetOf
  <1>4. ASSUME NEW t \in Testers, NEW n \in Names, TestBegins(t, n) PROVE PassInv'
    <2>1. UNCHANGED <<nodes, health, targets, changed>> /\ n \in DOMAIN nodes
          /\ tests' = [tests EXCEPT ![t] = TargetOf(n)]
      BY <1>4 DEF TestBegins
    <2>2. IsCurrent(TargetOf(n))
      BY <2>1 DEF IsCurrent, TargetOf
    <2>3. \A u \in Testers : tests'[u] # NoTest => IsCurrent(tests'[u])
      BY <2>1, <2>2 DEF PassInv, TypeOK
    <2> QED
      BY <2>1, <2>3 DEF PassInv, IsCurrent, TargetOf, HealthAgrees
  <1>5. ASSUME NEW t \in Testers, TestEnds(t) PROVE PassInv'
    <2>1. /\ UNCHANGED <<nodes, targets, changed>> /\ tests[t] # NoTest
          /\ tests' = [tests EXCEPT ![t] = NoTest]
          /\ health' = Set(health, tests[t].name, HealthOf(tests[t].node))
      BY <1>5 DEF TestEnds
    <2>2. IsCurrent(tests[t])
      BY <2>1 DEF PassInv
    <2>3. \A n \in DOMAIN nodes : HealthAgrees(n) => HealthAgrees(n)'
      BY <2>1, <2>2, CurrentProbe
    <2>4. \A u \in Testers : tests'[u] # NoTest => IsCurrent(tests'[u])
      BY <2>1 DEF PassInv, TypeOK
    <2> QED
      BY <2>1, <2>3, <2>4 DEF PassInv, IsCurrent, TargetOf
  <1>6. CASE UNCHANGED vars
    BY <1>6 DEF vars, PassInv, IsCurrent, TargetOf, HealthAgrees
  <1>7. ASSUME NEW n \in Names, NEW x \in Node,
               Put(n, x) \/ \E old \in Names : Rename(old, n, x)
        PROVE  Edit
    BY <1>7 DEF Put, Rename
  <1>8. ASSUME NEW n \in Names, Delete(n) \/ \E on \in BOOLEAN : SetEnabled(n, on)
        PROVE  Edit
    BY <1>8 DEF Delete, SetEnabled, Put
  <1> QED
    BY <1>1, <1>2, <1>3, <1>4, <1>5, <1>6, <1>7, <1>8 DEF Next, Sampler

(* A pass of the sampler that no edit disturbed leaves entries that are    *)
(* about the nodes as they are, whatever tests ran beside it.              *)
THEOREM PassesAreCurrent == Spec => []PassIsCurrent
  <1>1. PassInv => PassIsCurrent
    BY DEF PassInv, PassIsCurrent
  <1> QED
    BY <1>1, InitType, TypeStep, PassInit, PassStep, PTL DEF Spec

=============================================================================
