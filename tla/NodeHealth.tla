----------------------------- MODULE NodeHealth -----------------------------
(***************************************************************************)
(* Nodes and the health shown beside them (core/manager.go).  The sampler  *)
(* goes through all nodes every ten seconds, and users have single nodes   *)
(* tested.  Both read the nodes under m.mu, probe for seconds without it   *)
(* and write the result under m.mu again, whatever became of the node      *)
(* meanwhile.  A handler holds m.mu from its first read to its return, so  *)
(* that each edit is one step here: ConfigStore has the steps inside, and  *)
(* a commit that fails changes nothing.                                    *)
(*                                                                         *)
(* Health is keyed by the name alone: an inbound and an outbound of one    *)
(* name would share an entry; the names here are those of outbounds.       *)
(*                                                                         *)
(* Bounds: MaxEdits edits, Testers that test at a time.                    *)
(***************************************************************************)
EXTENDS Naturals

CONSTANTS Names, Addresses, Testers, MaxEdits

ASSUME HealthAssumption == MaxEdits \in Nat

VARIABLES
  nodes,     \* m.outbounds
  health,    \* m.health
  targets,   \* what the sampler's pass has still to probe
  tests,     \* what each tester is probing
  changed,   \* a node has changed since the sampler began its pass, or a test
             \* that ran then was of an older version
  edits

vars == <<nodes, health, targets, tests, changed, edits>>

Node   == [address: Addresses, dis: BOOLEAN]
Target == [name: Names, node: Node]
NoTest == [name |-> "none"]

(* What a probe says of a node: that it is disabled, or how its address    *)
(* answers.                                                                *)
HealthOf(x) ==
  IF x.dis THEN [status |-> "disabled"]
  ELSE [status |-> "probed", address |-> x.address]

Unknown  == [status |-> "unknown"]
Disabled == [status |-> "disabled"]
Probed   == [status: {"probed"}, address: Addresses]

TypeOK ==
  /\ nodes \in [DOMAIN nodes -> Node] /\ DOMAIN nodes \subseteq Names
  /\ health \in [DOMAIN health -> {Unknown, Disabled} \cup Probed]
  /\ DOMAIN health \subseteq Names /\ DOMAIN nodes \subseteq DOMAIN health
  /\ targets \subseteq Target
  /\ tests \in [Testers -> Target \cup {NoTest}]
  /\ changed \in BOOLEAN
  /\ edits \in 0..MaxEdits

Init ==
  /\ nodes = [n \in {} |-> Unknown]
  /\ health = [n \in {} |-> Unknown]
  /\ targets = {}
  /\ tests = [t \in Testers |-> NoTest]
  /\ changed = FALSE
  /\ edits = 0

----------------------------------------------------------------------------
(* Edits                                                                   *)

Set(f, n, x)  == [m \in DOMAIN f \cup {n} |-> IF m = n THEN x ELSE f[m]]
Drop(f, n)    == [m \in DOMAIN f \ {n} |-> f[m]]
Move(f, o, n) == IF o \in DOMAIN f THEN Drop(Set(f, n, f[o]), o) ELSE f

(* ensureHealthLocked leaves an entry that is there as it is.              *)
EnsureHealth(h, n, x) ==
  IF n \in DOMAIN h THEN h ELSE Set(h, n, IF x.dis THEN Disabled ELSE Unknown)

Edit ==
  /\ edits < MaxEdits
  /\ edits' = edits + 1
  /\ changed' = TRUE
  /\ UNCHANGED <<targets, tests>>

(* A new outbound, an imported one, or another version of one.             *)
Put(n, x) ==
  /\ Edit
  /\ nodes' = Set(nodes, n, x)
  /\ health' = EnsureHealth(health, n, x)

(* Mutant of Rename: the entry of the old name is dropped.                 *)
RenameDropsHealth(old, n, x) ==
  /\ old \in DOMAIN nodes
  /\ n \notin DOMAIN nodes
  /\ Edit
  /\ nodes' = Set(Drop(nodes, old), n, x)
  /\ health' = Drop(health, old)

Rename(old, n, x) ==
  /\ old \in DOMAIN nodes
  /\ n \notin DOMAIN nodes
  /\ Edit
  /\ nodes' = Set(Drop(nodes, old), n, x)
  /\ health' = EnsureHealth(Move(health, old, n), n, x)

(* The health entry is left behind.                                        *)
Delete(n) ==
  /\ n \in DOMAIN nodes
  /\ Edit
  /\ nodes' = Drop(nodes, n)
  /\ UNCHANGED health

(* So is it when a node is disabled or enabled.                            *)
SetEnabled(n, on) ==
  /\ n \in DOMAIN nodes
  /\ Put(n, [nodes[n] EXCEPT !.dis = ~on])

----------------------------------------------------------------------------
(* Probes                                                                  *)

TargetOf(n) == [name |-> n, node |-> nodes[n]]

IsCurrent(x) == x.name \in DOMAIN nodes /\ x.node = nodes[x.name]

StaleTest == \E t \in Testers : tests[t] # NoTest /\ ~IsCurrent(tests[t])

(* Mutant of SamplerBegins: disabled nodes are left out.                   *)
SamplerSkipsDisabled ==
  /\ targets = {}
  /\ targets' = {TargetOf(n) : n \in {m \in DOMAIN nodes : ~nodes[m].dis}}
  /\ changed' = StaleTest
  /\ UNCHANGED <<nodes, health, tests, edits>>

(* probeAllNodes, first half: the snapshot.                                *)
SamplerBegins ==
  /\ targets = {}
  /\ targets' = {TargetOf(n) : n \in DOMAIN nodes}
  /\ changed' = StaleTest
  /\ UNCHANGED <<nodes, health, tests, edits>>

(* Second half: one target, in the order of a Go map, that is in any.      *)
SamplerProbes(x) ==
  /\ x \in targets
  /\ health' = Set(health, x.name, HealthOf(x.node))
  /\ targets' = targets \ {x}
  /\ UNCHANGED <<nodes, tests, changed, edits>>

TestBegins(t, n) ==
  /\ tests[t] = NoTest
  /\ n \in DOMAIN nodes
  /\ tests' = [tests EXCEPT ![t] = TargetOf(n)]
  /\ UNCHANGED <<nodes, health, targets, changed, edits>>

(* Mutant of TestEnds: the result of another node is written.              *)
TestEndsForgetsName(t) ==
  /\ tests[t] # NoTest
  /\ \E n \in DOMAIN nodes : health' = Set(health, n, HealthOf(tests[t].node))
  /\ tests' = [tests EXCEPT ![t] = NoTest]
  /\ UNCHANGED <<nodes, targets, changed, edits>>

TestEnds(t) ==
  /\ tests[t] # NoTest
  /\ health' = Set(health, tests[t].name, HealthOf(tests[t].node))
  /\ tests' = [tests EXCEPT ![t] = NoTest]
  /\ UNCHANGED <<nodes, targets, changed, edits>>

Sampler == SamplerBegins \/ \E x \in targets : SamplerProbes(x)

Next ==
  \/ \E n \in Names, x \in Node :
       Put(n, x) \/ \E old \in Names : Rename(old, n, x)
  \/ \E n \in Names : Delete(n) \/ \E on \in BOOLEAN : SetEnabled(n, on)
  \/ Sampler
  \/ \E t \in Testers : TestEnds(t) \/ \E n \in Names : TestBegins(t, n)

Spec == Init /\ [][Next]_vars

(* The ticker keeps ticking, and every probe has a timeout.                *)
FairSpec ==
  Spec /\ WF_vars(Sampler) /\ \A t \in Testers : WF_vars(TestEnds(t))

----------------------------------------------------------------------------
HealthAgrees(n) == n \in DOMAIN health /\ health[n] = HealthOf(nodes[n])

(* A pass that no edit has disturbed leaves behind it only entries that    *)
(* are about the node as it is, unless a test of an older version was      *)
(* running when it began: nothing else brings an older result back.        *)
PassIsCurrent ==
  ~changed =>
    \A n \in DOMAIN nodes : TargetOf(n) \in targets \/ HealthAgrees(n)

(* Every node is in the end shown with the health of what it is, however   *)
(* edits, tests and passes overlapped before.                              *)
HealthConverges == <>[](\A n \in DOMAIN nodes : HealthAgrees(n))

============================================================================
