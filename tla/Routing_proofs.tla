-------------------------- MODULE Routing_proofs --------------------------
(***************************************************************************)
(* Routing, for every list of rules and every value of the constants: the  *)
(* stable sort always has a first rule, the preview and the kernels agree  *)
(* on it if it is written for both, however the kernels read all others,   *)
(* and a node that is switched moves only what uses it.                    *)
(***************************************************************************)
EXTENDS Routing, FiniteSetTheorems, TLAPS

RoutingType ==
  /\ mode \in {"rule", "global", "direct"}
  /\ def \in Outbounds \cup {Direct, None}
  /\ rules \in Seq(Rule)
  /\ off \subseteq Inbounds \cup Outbounds
  /\ kernel \in Kernels
  /\ Validate

LEMMA TypeInvariant == Spec => []RoutingType
  <1>1. Init => RoutingType
    BY DEF Init, RoutingType, Validate
  <1>2. RoutingType /\ [Next]_vars => RoutingType'
    <2> SUFFICES ASSUME RoutingType, [Next]_vars PROVE RoutingType'
      OBVIOUS
    <2> USE DEF RoutingType
    <2>1. CASE UpdateRoutingConfig
      <3>1. rules' \in Seq(Rule)
        <4>1. NewRules \subseteq Rule
          BY RoutingAssumption
        <4> QED
          BY <2>1, <4>1 DEF UpdateRoutingConfig
      <3>2. mode' \in {"rule", "global", "direct"}
        BY <2>1 DEF UpdateRoutingConfig
      <3>3. def' \in Outbounds \cup {Direct, None}
        BY <2>1 DEF UpdateRoutingConfig
      <3>4. UNCHANGED <<off, kernel>> /\ Validate'
        BY <2>1 DEF UpdateRoutingConfig, Committed
      <3> QED
        BY <3>1, <3>2, <3>3, <3>4
    <2>2. ASSUME NEW n \in Inbounds \cup Outbounds, SetNodeEnabled(n)
          PROVE  RoutingType'
      BY <2>2 DEF SetNodeEnabled, Committed
    <2>3. CASE UpdateKernelConfig
      BY <2>3 DEF UpdateKernelConfig, Committed
    <2>4. CASE UNCHANGED vars
      BY <2>4 DEF vars, Validate, Names, MatchType, RuleValue
    <2> QED
      BY <2>1, <2>2, <2>3, <2>4 DEF Next
  <1> QED
    BY <1>1, <1>2, PTL DEF Spec

----------------------------------------------------------------------------
(* The order of the rules                                                  *)

(* Sorting by priority, inbound and position leaves no two rules unordered *)
(* and none before itself.                                                 *)
LEMMA BeforeIsTotal ==
  ASSUME rules \in Seq(Rule),
         NEW i \in DOMAIN rules, NEW j \in DOMAIN rules, NEW k \in DOMAIN rules
  PROVE  /\ i # j => Before(i, j) \/ Before(j, i)
         /\ ~(Before(i, j) /\ Before(j, i))
         /\ Before(i, j) /\ Before(j, k) => Before(i, k)
  <1>1. ASSUME NEW x \in DOMAIN rules
        PROVE  x \in Nat /\ rules[x].prio \in Int /\ rules[x].inbound \in Int
    <2>1. rules[x] \in Rule /\ x \in Nat
      BY <1>1
    <2>2. rules[x].prio \in Int /\ rules[x].inbound \in Inbounds \cup {None}
      BY <2>1, RoutingAssumption
    <2>3. Inbounds \cup {None} \subseteq Int
      BY RoutingAssumption DEF None
    <2> QED
      BY <2>1, <2>2, <2>3
  <1>2. /\ i \in Nat /\ rules[i].prio \in Int /\ rules[i].inbound \in Int
        /\ j \in Nat /\ rules[j].prio \in Int /\ rules[j].inbound \in Int
        /\ k \in Nat /\ rules[k].prio \in Int /\ rules[k].inbound \in Int
    BY <1>1
  <1> QED
    BY <1>2 DEF Before

Least(m, S) == m \in S /\ \A j \in S \ {m} : Before(m, j)

(* Some rule comes first in every non-empty part of the list: by well-     *)
(* foundedness of the finite sets, a part without a first rule would have  *)
(* a smaller one inside.                                                   *)
LEMMA LeastExists ==
  ASSUME rules \in Seq(Rule), NEW S \in SUBSET DOMAIN rules, S # {}
  PROVE  \E m \in S : Least(m, S)
  <1> DEFINE D   == DOMAIN rules
             Bad == {U \in SUBSET D : U # {} /\ ~ \E m \in U : Least(m, U)}
             R   == StrictSubsetOrdering(D)
  <1>1. IsFiniteSet(D)
    <2>1. D = 1..Len(rules) /\ Len(rules) \in Int
      OBVIOUS
    <2> QED
      BY <2>1, FS_Interval
  <1>2. IsWellFoundedOn(R, SUBSET D)
    BY <1>1, FS_StrictSubsetOrderingWellFounded, FS_FiniteSubsetsOfFinite
  <1>3. SUFFICES ASSUME Bad # {} PROVE FALSE
    BY <1>3
  <1>4. PICK U \in Bad : \A V \in Bad : ~(<<V, U>> \in R)
    <2> HIDE DEF R
    <2>1. Bad \subseteq SUBSET D
      OBVIOUS
    <2> HIDE DEF Bad
    <2> QED
      BY <1>2, <1>3, <2>1, WFMin
  <1>5. PICK x \in U : TRUE
    OBVIOUS
  <1> DEFINE V == U \ {x}
  <1>6. CASE V = {}
    BY <1>5, <1>6 DEF Least
  <1>7. CASE V # {}
    <2>1. V \notin Bad
      BY <1>4, <1>5 DEF StrictSubsetOrdering
    <2>2. PICK m \in V : Least(m, V)
      BY <1>7, <2>1
    <2>3. x \in D /\ m \in D /\ U \subseteq D
      BY <1>5
    <2>4. CASE Before(m, x)
      BY <2>2, <2>4 DEF Least
    <2>5. CASE Before(x, m)
      <3>1. ASSUME NEW j \in U, j # x PROVE Before(x, j)
        BY <2>2, <2>3, <2>5, <3>1, BeforeIsTotal DEF Least
      <3> QED
        BY <1>5, <3>1 DEF Least
    <2> QED
      BY <2>2, <2>3, <2>4, <2>5, BeforeIsTotal
  <1> QED
    BY <1>6, <1>7

(* First is that rule, and there is only one.                              *)
LEMMA FirstIsLeast ==
  ASSUME rules \in Seq(Rule), NEW S \in SUBSET DOMAIN rules, S # {}
  PROVE  /\ First(S) \in S
         /\ Least(First(S), S)
         /\ \A m \in S : Least(m, S) => m = First(S)
  <1>1. /\ First(S) \in S
        /\ \A j \in S \ {First(S)} : Before(First(S), j)
    BY LeastExists DEF Least, First
  <1>2. ASSUME NEW m \in S, Least(m, S), m # First(S) PROVE FALSE
    BY <1>1, <1>2, BeforeIsTotal DEF Least
  <1> QED
    BY <1>1, <1>2 DEF Least

(* A rule that is first stays first when others are left out.              *)
LEMMA FirstOfPart ==
  ASSUME rules \in Seq(Rule), NEW S \in SUBSET DOMAIN rules,
         NEW T \in SUBSET S, T # {}, First(S) \in T
  PROVE  First(T) = First(S)
  <1>1. Least(First(S), T)
    BY FirstIsLeast DEF Least
  <1> QED
    BY <1>1, FirstIsLeast

----------------------------------------------------------------------------
(* The preview                                                             *)

(* A rule matches on an inbound, on items or on a geo set; one that is     *)
(* not disabled names one inbound, or has a value.                         *)
LEMMA RuleCases ==
  ASSUME RoutingType, NEW i \in DOMAIN rules
  PROVE  /\ rules[i] \in Rule
         /\ MatchType(rules[i]) \in {"inbound", "address", "port", "geo"}
         /\ rules[i].out \in Outbounds \cup {Direct, None}
         /\ mode = "rule" /\ ~rules[i].dis =>
              IF MatchType(rules[i]) = "inbound"
                THEN \E n \in Inbounds : Names(rules[i], n)
                ELSE RuleValue(rules[i]) # {}
  <1>1. rules[i] \in Rule
    BY DEF RoutingType
  <1>2. rules[i].type \in {"none", "inbound", "address", "port", "geo"}
    BY <1>1, RoutingAssumption
  <1>3. MatchType(rules[i]) \in {"inbound", "address", "port", "geo"}
    BY <1>2 DEF MatchType
  <1>4. rules[i].out \in Outbounds \cup {Direct, None}
    BY <1>1, RoutingAssumption
  <1> QED
    BY <1>1, <1>3, <1>4 DEF RoutingType, Validate

(* A rule that is written for both is found by the kernel just if the      *)
(* preview finds it and its outbound can be used.                          *)
LEMMA FoundAlike ==
  ASSUME RoutingType, mode = "rule", NEW c \in Connection, Enabled(c.inbound),
         NEW i \in DOMAIN rules, WrittenForBoth(rules[i], c)
  PROVE  i \in KernelHits(c) <=> i \in PreviewHits(c) /\ Usable(rules[i].out)
  <1> DEFINE r == rules[i]
  <1>1. i \in KernelHits(c) <=>
          /\ EnabledRule(r)
          /\ IF kernel = "sing-box" THEN MatchType(r) # "geo" /\ SingBoxMatches(r, c)
             ELSE MihomoMatches(r, c)
    BY DEF KernelHits, SingBoxHits, MihomoHits, EnabledRules
  <1>2. i \in PreviewHits(c) <=> ~r.dis /\ PreviewMatches(r, c)
    BY DEF PreviewHits
  <1>3. SUFFICES ASSUME ~r.dis
                 PROVE  i \in KernelHits(c)
                          <=> i \in PreviewHits(c) /\ Usable(r.out)
    BY <1>1, <1>2 DEF EnabledRule
  <1>4. CASE MatchType(r) = "inbound"
    <2>1. PICK n \in Inbounds : Names(r, n)
      BY <1>3, <1>4, RuleCases
    <2>2. RuleValue(r) = {n} /\ \A m : Names(r, m) <=> m = n
      BY <2>1 DEF Names
    <2>3. EnabledRule(r) <=> Enabled(n) /\ Usable(r.out)
      BY <1>3, <1>4, <2>2 DEF EnabledRule
    <2>4. PreviewMatches(r, c) <=> c.inbound = n
      BY <1>4, <2>2 DEF PreviewMatches
    <2>5. MihomoMatches(r, c) <=> c.inbound = n
      BY <1>4, <2>2 DEF MihomoMatches
    <2>6. kernel = "sing-box" => (SingBoxMatches(r, c) <=> c.inbound = n)
      BY <1>4, <2>2 DEF SingBoxMatches, WrittenForBoth
    <2> QED
      BY <1>1, <1>2, <1>3, <1>4, <2>3, <2>4, <2>5, <2>6
  <1>5. CASE MatchType(r) \in {"address", "port"}
    <2>1. RuleValue(r) # {}
          /\ \A x \in RuleValue(r) : x \in Items /\ Form[x] = "plain"
      BY <1>3, <1>5, RuleCases DEF WrittenForBoth
    <2>2. \A k \in Kernels, x \in RuleValue(r) : Reads[k][x] = Meant[x]
      BY <2>1, RoutingAssumption
    <2>3. PreviewMatches(r, c) <=> \E x \in RuleValue(r) : c.target \in Meant[x]
      BY <1>5, <2>1 DEF PreviewMatches
    <2>4. MihomoMatches(r, c) <=> \E x \in RuleValue(r) : c.target \in Meant[x]
      BY <1>5, <2>1, <2>2 DEF MihomoMatches, Kernels
    <2>5. SingBoxItems(r) = RuleValue(r)
      BY <2>1 DEF SingBoxItems
    <2>6. SingBoxMatches(r, c) <=> \E x \in RuleValue(r) : c.target \in Meant[x]
      BY <1>5, <2>1, <2>2, <2>5 DEF SingBoxMatches, Kernels
    <2>7. EnabledRule(r) <=> Usable(r.out)
      BY <1>3, <1>5 DEF EnabledRule
    <2> QED
      BY <1>1, <1>2, <1>3, <1>5, <2>3, <2>4, <2>6, <2>7
  <1>6. CASE MatchType(r) = "geo"
    BY <1>6 DEF WrittenForBoth
  <1> QED
    BY <1>4, <1>5, <1>6, RuleCases

(* The kernels' last resort is the default that the preview names, unless  *)
(* that is disabled.                                                       *)
LEMMA Defaults ==
  ASSUME RoutingType, mode # "direct", Usable(PreviewDefault)
  PROVE  /\ RouteFinal = PreviewDefault
         /\ \/ MihomoFinal = PreviewDefault
            \/ mode = "global" /\ PreviewDefault = Direct
  <1>1. CASE def = None
    BY <1>1 DEF RouteFinal, MihomoFinal, EnabledDefault, PreviewDefault, RoutingType
  <1>2. CASE def # None
    <2>1. PreviewDefault = def /\ RouteFinal = def
      BY <1>2 DEF RouteFinal, EnabledDefault, PreviewDefault
    <2> QED
      BY <2>1 DEF MihomoFinal
  <1> QED
    BY <1>1, <1>2

(* Two sets of rules of which the first rule of each is in the other begin *)
(* with the same rule.                                                     *)
LEMMA SameFirst ==
  ASSUME rules \in Seq(Rule),
         NEW P \in SUBSET DOMAIN rules, P # {},
         NEW K \in SUBSET DOMAIN rules, K # {},
         First(P) \in K, First(K) \in P
  PROVE  First(K) = First(P)
  <1>1. /\ First(P) \in P /\ Least(First(P), P)
        /\ First(K) \in K /\ Least(First(K), K)
    BY FirstIsLeast
  <1>2. ~(Before(First(P), First(K)) /\ Before(First(K), First(P)))
    BY <1>1, BeforeIsTotal
  <1> QED
    BY <1>1, <1>2 DEF Least

(* No kernel ever leads to a disabled outbound.                            *)
LEMMA RouteIsUsable ==
  ASSUME RoutingType, NEW c \in Connection,
         ~(mode = "global" /\ kernel = "mihomo" /\ RouteFinal = Direct)
  PROVE  Usable(Route(c))
  <1>1. Usable(RouteFinal)
    BY DEF RouteFinal, EnabledDefault, Usable
  <1>2. CASE KernelHits(c) = {}
    <2>1. Final = RouteFinal
      BY DEF Final, MihomoFinal, RoutingType, Kernels
    <2> QED
      BY <1>1, <1>2, <2>1 DEF Route
  <1>3. CASE KernelHits(c) # {}
    <2>1. KernelHits(c) \subseteq EnabledRules /\ EnabledRules \subseteq DOMAIN rules
      BY DEF KernelHits, SingBoxHits, MihomoHits, EnabledRules
    <2>2. First(KernelHits(c)) \in KernelHits(c)
      BY <1>3, <2>1, FirstIsLeast DEF RoutingType
    <2>3. Usable(rules[First(KernelHits(c))].out)
      BY <2>1, <2>2 DEF EnabledRules, EnabledRule
    <2> QED
      BY <1>3, <2>3 DEF Route
  <1> QED
    BY <1>2, <1>3

(* The preview names the outbound that the kernel takes, for every list of *)
(* rules, in every mode, for both kernels and however they read what is    *)
(* not written for both, if the rules that decide are; and where it names  *)
(* a disabled outbound, the kernel never takes another disabled one.       *)
THEOREM PreviewIsRight == Spec => []PreviewTellsKernel
  <1>1. RoutingType => PreviewTellsKernel
    <2> SUFFICES ASSUME RoutingType, NEW c \in Connection, Listens(c.inbound),
                        \A i \in Deciding(c) : WrittenForBoth(rules[i], c),
                        ~(mode = "global" /\ kernel = "mihomo" /\ RouteFinal = Direct)
                 PROVE  \/ Preview(c) = Route(c)
                        \/ ~Usable(Preview(c)) /\ Usable(Route(c))
      BY DEF PreviewTellsKernel
    <2> SUFFICES ASSUME Usable(Preview(c)) PROVE Preview(c) = Route(c)
      BY RouteIsUsable
    <2>1. Enabled(c.inbound)
      BY DEF Listens, MihomoListens
    <2>2. CASE mode = "direct"
      <3>1. KernelHits(c) = {}
        BY <2>2 DEF KernelHits, SingBoxHits, MihomoHits
      <3>2. Final = Direct
        BY <2>2 DEF Final, RouteFinal, MihomoFinal
      <3> QED
        BY <2>2, <3>1, <3>2 DEF Preview, Route
    <2>3. CASE mode = "global"
      <3>1. KernelHits(c) = {}
        BY <2>3 DEF KernelHits, SingBoxHits, MihomoHits
      <3>2. Preview(c) = PreviewDefault
        BY <2>3 DEF Preview
      <3> QED
        BY <2>3, <3>1, <3>2, Defaults DEF Route, Final, RoutingType, Kernels
    <2>4. CASE mode = "rule"
      <3> DEFINE P == PreviewHits(c)
                 K == KernelHits(c)
      <3>1. P \in SUBSET DOMAIN rules /\ K \in SUBSET DOMAIN rules
        BY DEF PreviewHits, KernelHits, SingBoxHits, MihomoHits, EnabledRules
      <3>2. ASSUME NEW i \in DOMAIN rules, WrittenForBoth(rules[i], c)
            PROVE  i \in K <=> i \in P /\ Usable(rules[i].out)
        BY <2>1, <2>4, <3>2, FoundAlike
      <3>3. /\ P # {} => WrittenForBoth(rules[First(P)], c) /\ First(P) \in P
            /\ K # {} => WrittenForBoth(rules[First(K)], c) /\ First(K) \in K
        BY <2>4, <3>1, FirstIsLeast DEF Deciding, RoutingType
      <3>4. Route(c) = IF K = {} THEN Final ELSE rules[First(K)].out
        BY DEF Route
      <3>5. Preview(c) = IF P = {} THEN PreviewDefault ELSE rules[First(P)].out
        BY <2>4 DEF Preview
      <3>6. P = {} => Final = PreviewDefault
        BY <2>4, <3>5, Defaults DEF Final, RoutingType, Kernels
      <3> HIDE DEF P, K
      <3>7. CASE P = {}
        <4>1. K = {}
          BY <3>1, <3>2, <3>3, <3>7
        <4> QED
          BY <3>4, <3>5, <3>6, <3>7, <4>1
      <3>8. CASE P # {}
        <4>1. First(P) \in K
          BY <3>1, <3>2, <3>3, <3>5, <3>8
        <4>2. K # {} /\ First(K) \in P
          BY <3>1, <3>2, <3>3, <4>1
        <4>3. First(K) = First(P)
          BY <3>1, <3>8, <4>1, <4>2, SameFirst DEF RoutingType
        <4> QED
          BY <3>4, <3>5, <3>8, <4>2, <4>3
      <3> QED
        BY <3>7, <3>8
    <2> QED
      BY <2>2, <2>3, <2>4 DEF RoutingType
  <1> QED
    BY <1>1, TypeInvariant, PTL
----------------------------------------------------------------------------
(* Switching a node                                                        *)

Taken(S, last) == IF S = {} THEN last ELSE rules[First(S)].out

(* G has only rules that lead to n beside those of H.                      *)
OnlyTo(n, G, H) == \A i \in G \ H : rules[i].out = n

(* Two sets of hits of which the larger has only rules for n more, and two *)
(* last resorts of which the first may be n: as long as the larger one     *)
(* does not lead to n, both lead to the same.                              *)
LEMMA SameTaken ==
  ASSUME rules \in Seq(Rule), NEW G \in SUBSET DOMAIN rules, NEW H \in SUBSET G,
         NEW n, OnlyTo(n, G, H),
         NEW lastG, NEW lastH, lastG # lastH => lastG = n,
         Taken(G, lastG) # n
  PROVE  Taken(H, lastH) = Taken(G, lastG)
  <1>1. CASE G = {}
    BY <1>1 DEF Taken
  <1>2. CASE G # {}
    <2>1. First(G) \in G /\ rules[First(G)].out # n
      BY <1>2, FirstIsLeast DEF Taken
    <2>2. First(G) \in H /\ First(H) = First(G)
      BY <2>1, FirstOfPart DEF OnlyTo
    <2> QED
      BY <1>2, <2>2 DEF Taken
  <1> QED
    BY <1>1, <1>2

(* The step that switches n changes nothing else.                          *)
LEMMA SwitchSteps ==
  ASSUME RoutingType, [Next]_vars, NEW n \in Inbounds \cup Outbounds,
         off' \in {off \cup {n}, off \ {n}}, off' # off
  PROVE  /\ UNCHANGED <<mode, def, rules, kernel>>
         /\ \/ n \notin off /\ off' = off \cup {n}
            \/ n \in off /\ off' = off \ {n}
  <1>1. PICK m \in Inbounds \cup Outbounds : SetNodeEnabled(m)
    BY DEF Next, UpdateRoutingConfig, UpdateKernelConfig, vars
  <1> QED
    BY <1>1 DEF SetNodeEnabled

(* What a kernel finds only while n is on leads to n, for a connection     *)
(* that does not come through n.                                           *)
LEMMA RuleStays ==
  ASSUME RoutingType, UNCHANGED <<mode, def, rules, kernel>>,
         NEW n \in Inbounds \cup Outbounds, NEW c \in Connection, c.inbound # n,
         \A x : x # n => (x \in off <=> x \in off'),
         NEW i \in DOMAIN rules, ~Names(rules[i], n)
  PROVE  /\ rules[i].out # n => (EnabledRule(rules[i]) <=> EnabledRule(rules[i])')
         /\ n \in off \ off' => (EnabledRule(rules[i]) => EnabledRule(rules[i])')
         /\ n \in off' \ off => (EnabledRule(rules[i])' => EnabledRule(rules[i]))
  BY DEF EnabledRule, Enabled, Usable, MatchType, RuleValue, Names

(* What a rule matches depends on the rule alone.                          *)
KernelMatches(r, c) ==
  IF kernel = "sing-box" THEN MatchType(r) # "geo" /\ SingBoxMatches(r, c)
  ELSE MihomoMatches(r, c)

LEMMA HitsStay ==
  ASSUME RoutingType, UNCHANGED <<mode, def, rules, kernel>>,
         NEW n \in Inbounds \cup Outbounds, NEW c \in Connection, c.inbound # n,
         \A x : x # n => (x \in off <=> x \in off'),
         NEW i \in DOMAIN rules
  PROVE  /\ rules[i].out # n => (i \in KernelHits(c) <=> i \in KernelHits(c)')
         /\ n \in off \ off' => (i \in KernelHits(c) => i \in KernelHits(c)')
         /\ n \in off' \ off => (i \in KernelHits(c)' => i \in KernelHits(c))
  <1>1. i \in KernelHits(c) <=>
          mode = "rule" /\ EnabledRule(rules[i]) /\ KernelMatches(rules[i], c)
    BY DEF KernelHits, SingBoxHits, MihomoHits, EnabledRules, KernelMatches
  <1>2. i \in KernelHits(c)' <=>
          mode = "rule" /\ EnabledRule(rules[i])' /\ KernelMatches(rules[i], c)
    BY DEF KernelHits, SingBoxHits, MihomoHits, EnabledRules, KernelMatches,
           SingBoxMatches, SingBoxItems, MihomoMatches, Names, MatchType, RuleValue
  <1>3. CASE Names(rules[i], n)
    <2>1. ~KernelMatches(rules[i], c)
      BY <1>3 DEF Names, KernelMatches, SingBoxMatches, MihomoMatches
    <2> QED
      BY <1>1, <1>2, <2>1
  <1>4. CASE ~Names(rules[i], n)
    BY <1>1, <1>2, <1>4, RuleStays
  <1> QED
    BY <1>3, <1>4

(* The last resort of either kernel changes only from n or to n.           *)
LEMMA LastStays ==
  ASSUME RoutingType, UNCHANGED <<mode, def, rules, kernel>>,
         NEW n \in Inbounds \cup Outbounds,
         \A x : x # n => (x \in off <=> x \in off')
  PROVE  /\ n \notin off /\ Final # Final' => Final = n
         /\ n \notin off' /\ Final # Final' => Final' = n
  <1>1. ASSUME ~(def = n /\ n \in Outbounds /\ mode # "direct")
        PROVE  Final = Final'
    <2>1. RouteFinal = RouteFinal'
      BY <1>1 DEF RouteFinal, EnabledDefault, Usable, Enabled
    <2> QED
      BY <2>1 DEF Final, MihomoFinal
  <1>2. ASSUME def = n, n \in Outbounds, mode # "direct"
        PROVE  /\ n \notin off => Final = n
               /\ n \notin off' => Final' = n
    <2>1. n # Direct /\ n # None
      BY <1>2, RoutingAssumption
    <2>2. /\ n \notin off => RouteFinal = n
          /\ n \notin off' => RouteFinal' = n
      BY <1>2, <2>1 DEF RouteFinal, EnabledDefault, Usable, Enabled
    <2> QED
      BY <2>1, <2>2 DEF Final, MihomoFinal
  <1> QED
    BY <1>1, <1>2

LEMMA RouteTaken ==
  ASSUME NEW c
  PROVE  /\ Route(c) = Taken(KernelHits(c), Final)
         /\ KernelHits(c) \subseteq DOMAIN rules
  BY DEF Route, Taken, KernelHits, SingBoxHits, MihomoHits, EnabledRules

(* A node that is switched on or off moves no connection that neither came *)
(* through it nor led or leads to it.                                      *)
THEOREM SwitchMovesOnlyUsers == Spec => SwitchIsLocal
  <1> DEFINE Local(n) ==
        off' \in {off \cup {n}, off \ {n}} /\ off' # off =>
          \A c \in Connection :
            c.inbound # n /\ n \notin {Route(c), Route(c)'} => Route(c)' = Route(c)
  <1>1. RoutingType /\ [Next]_vars => \A n \in Inbounds \cup Outbounds : Local(n)
    <2> SUFFICES ASSUME RoutingType, [Next]_vars, NEW n \in Inbounds \cup Outbounds,
                        off' \in {off \cup {n}, off \ {n}}, off' # off,
                        NEW c \in Connection, c.inbound # n,
                        Route(c) # n, Route(c)' # n
                 PROVE  Route(c)' = Route(c)
      OBVIOUS
    <2> DEFINE G == KernelHits(c)
               H == KernelHits(c)'
               g == Final
               h == Final'
    <2>1. UNCHANGED <<mode, def, rules, kernel>> /\ rules \in Seq(Rule)
      BY SwitchSteps DEF RoutingType
    <2>2. \A x : x # n => (x \in off <=> x \in off')
      OBVIOUS
    <2>3. Route(c) = Taken(G, g) /\ G \in SUBSET DOMAIN rules
      BY RouteTaken
    <2>4. Route(c)' = Taken(H, h) /\ H \in SUBSET DOMAIN rules
      <3>1. /\ Route(c)' = Taken(KernelHits(c), Final)'
            /\ KernelHits(c)' \subseteq DOMAIN rules'
        BY DEF Route, Taken, KernelHits, SingBoxHits, MihomoHits, EnabledRules
      <3>2. Taken(KernelHits(c), Final)' = Taken(H, h)
        BY <2>1 DEF Taken, First, Before
      <3> QED
        BY <2>1, <3>1, <3>2
    <2>5. \/ n \notin off /\ off' = off \cup {n}
          \/ n \in off /\ off' = off \ {n}
      BY SwitchSteps
    <2>6. \A i \in DOMAIN rules :
            /\ rules[i].out # n => (i \in G <=> i \in H)
            /\ n \in off \ off' => (i \in G => i \in H)
            /\ n \in off' \ off => (i \in H => i \in G)
      BY <2>1, <2>2, HitsStay
    <2>7. /\ n \notin off => (g # h => g = n)
          /\ n \notin off' => (g # h => h = n)
      BY <2>1, <2>2, LastStays
    <2> HIDE DEF G, H, g, h
    <2>8. CASE n \notin off /\ off' = off \cup {n}
      <3>1. H \in SUBSET G /\ OnlyTo(n, G, H)
        BY <2>3, <2>4, <2>6, <2>8 DEF OnlyTo
      <3>2. Taken(G, g) # n /\ (g # h => g = n)
        BY <2>3, <2>7, <2>8
      <3>3. Taken(H, h) = Taken(G, g)
        BY <2>1, <2>3, <3>1, <3>2, SameTaken
      <3> QED
        BY <2>3, <2>4, <3>3
    <2>9. CASE n \in off /\ off' = off \ {n}
      <3>1. G \in SUBSET H /\ OnlyTo(n, H, G)
        BY <2>3, <2>4, <2>6, <2>9 DEF OnlyTo
      <3>2. Taken(H, h) # n /\ (h # g => h = n)
        BY <2>4, <2>7, <2>9
      <3>3. Taken(G, g) = Taken(H, h)
        BY <2>1, <2>4, <3>1, <3>2, SameTaken
      <3> QED
        BY <2>3, <2>4, <3>3
    <2> QED
      BY <2>5, <2>8, <2>9
  <1> QED
    BY <1>1, TypeInvariant, PTL DEF Spec, SwitchIsLocal

=============================================================================
