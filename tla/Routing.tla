------------------------------ MODULE Routing ------------------------------
(***************************************************************************)
(* Routing rules: what PreviewRouting (core/manager.go) tells the user of  *)
(* a connection, and what the kernels make of the rules that               *)
(* enabledRuntime leaves (singBoxRules and mihomoRules, core/kernel.go).   *)
(*                                                                         *)
(* The list of rules is a sequence; what a filter leaves of it is the set  *)
(* of the positions left, and sortedRoutingRules is the order Before on    *)
(* positions.  A rule on an address is one of type domain, domain_suffix,  *)
(* domain_keyword, ip_cidr or protocol, a geo rule one of type geosite or  *)
(* geoip.                                                                  *)
(*                                                                         *)
(* Preview, sing-box and mihomo have matchers of their own.  The value of  *)
(* a rule is a list of items, here a set, and the form of an item says who *)
(* can read it as it is meant: all three a plain one, only the preview for *)
(* certain one in capitals or with a dot in front, a protocol too, and the *)
(* preview not at all an IP without a mask, a range of ports, or an item   *)
(* that is no such thing.  What a kernel makes of the last two, and of a   *)
(* list that was left empty, is its own: Reads and ReadsEmpty.             *)
(*                                                                         *)
(* Every inbound has a port of its own, and mihomo.rules, which replace    *)
(* all others, are empty.                                                  *)
(*                                                                         *)
(* Bound: lists of up to MaxRules rules out of NewRules.                   *)
(***************************************************************************)
EXTENDS Integers, Sequences

CONSTANTS
  Inbounds,       \* their names, in the order of the list and the alphabet
  LocalProxies,   \* those of protocol mixed, socks or http
  ShadowTLS,      \* those of protocol shadowtls
  Outbounds,
  Unproxied,      \* outbounds that mihomoProxies leaves out (direct, tcp, udp)
  Direct, Group,  \* the outbound "direct", and mihomo's first proxy group
  Targets,        \* addresses
  Items, Form,    \* what users enter in a rule's value, and how it is written
  Meant,          \* the addresses an item is for
  Reads,          \* those that a kernel takes a written item for
  ReadsEmpty,     \* those that sing-box takes an empty list for
  GeoPreview,     \* those that the preview takes for a geo rule's
  GeoData,        \* and those that mihomo's data base does
  Rule, NewRules, \* rules, and those that users enter
  MaxRules

None == 0
Kernels == {"sing-box", "mihomo"}

ASSUME RoutingAssumption ==
  /\ Inbounds \subseteq Nat \ {None}
  /\ LocalProxies \subseteq Inbounds /\ ShadowTLS \subseteq Inbounds
  /\ Unproxied \subseteq Outbounds /\ {Direct, Group} \cap Outbounds = {}
  /\ Inbounds \cap (Outbounds \cup Items) = {} /\ Direct # Group
  /\ GeoPreview \cup GeoData \subseteq Targets
  /\ Form \in [Items -> {"plain", "folded", "odd"}]
  /\ Meant \in [Items -> SUBSET Targets]
  /\ Reads \in [Kernels -> [Items -> SUBSET Targets]]
  /\ \A k \in Kernels, x \in Items : Form[x] = "plain" => Reads[k][x] = Meant[x]
  /\ None \notin Outbounds \cup {Direct}
  /\ NewRules \subseteq Rule
  /\ \A r \in Rule :
       /\ r.type \in {"none", "inbound", "address", "port", "geo"}
       /\ r.prio \in Int /\ r.dis \in BOOLEAN
       /\ r.inbound \in Inbounds \cup {None}
       /\ r.value \subseteq Inbounds \cup Items
       /\ r.out \in Outbounds \cup {Direct, None}
  /\ MaxRules \in Nat

Connection == [inbound: Inbounds, target: Targets]

VARIABLES
  mode, def, rules,   \* m.cfg.Routing: "rule", "global" or "direct", the
                      \* default outbound (or None), a sequence of rules
  off,                \* the nodes that are disabled
  kernel              \* "sing-box" or "mihomo"

vars == <<mode, def, rules, off, kernel>>

Init ==
  /\ mode = "rule" /\ def = None /\ rules = << >>
  /\ off = {}
  /\ kernel \in Kernels

----------------------------------------------------------------------------
(* routingRuleMatchType, routingRuleValue                                  *)
MatchType(r) ==
  CASE r.type # "none" -> r.type
    [] r.type = "none" /\ r.inbound # None -> "inbound"
    [] OTHER -> "address"

RuleValue(r) ==
  IF r.value = {} /\ MatchType(r) = "inbound" THEN {r.inbound} \ {None} ELSE r.value

Names(r, n) == MatchType(r) = "inbound" /\ RuleValue(r) = {n}

(* sortedRoutingRules: a stable sort by priority and the inbound field.    *)
Before(i, j) ==
  LET a == rules[i]
      b == rules[j]
  IN  \/ a.prio < b.prio
      \/ a.prio = b.prio /\ a.inbound < b.inbound
      \/ a.prio = b.prio /\ a.inbound = b.inbound /\ i < j

First(S) == CHOOSE i \in S : \A j \in S \ {i} : Before(i, j)

Enabled(n) == n \notin off
Usable(o)  == o = Direct \/ (o \in Outbounds /\ Enabled(o))

(* What a configuration with the routing section of m.cfg must satisfy:    *)
(* an inbound rule names an inbound, another one has a value.              *)
Validate ==
  mode = "rule" =>
    \A i \in DOMAIN rules : ~rules[i].dis =>
      /\ rules[i].out # None
      /\ IF MatchType(rules[i]) = "inbound" THEN \E n \in Inbounds : Names(rules[i], n)
         ELSE RuleValue(rules[i]) # {}

----------------------------------------------------------------------------
(* PreviewRouting looks at the configuration, not at what is enabled of    *)
(* it, and at a value with capitals folded and a suffix's dot taken off.   *)

PreviewMatches(r, c) ==
  CASE MatchType(r) = "inbound" -> c.inbound \in RuleValue(r)
    [] MatchType(r) \in {"address", "port"} ->
         \E x \in RuleValue(r) \cap Items : Form[x] # "odd" /\ c.target \in Meant[x]
    [] OTHER -> c.target \in GeoPreview

PreviewHits(c) ==
  {i \in DOMAIN rules : ~rules[i].dis /\ PreviewMatches(rules[i], c)}

PreviewDefault == IF def = None THEN Direct ELSE def

(* Mutant of Preview: the rules are tried in the order of the list.        *)
PreviewAsListed(c) ==
  LET hits == PreviewHits(c)
  IN  CASE mode = "direct" -> Direct
        [] mode = "rule" /\ hits # {} ->
             rules[CHOOSE i \in hits : \A j \in hits : i <= j].out
        [] OTHER -> PreviewDefault

Preview(c) ==
  CASE mode = "direct" -> Direct
    [] mode = "rule" /\ PreviewHits(c) # {} -> rules[First(PreviewHits(c))].out
    [] OTHER -> PreviewDefault

----------------------------------------------------------------------------
(* enabledRuntime                                                          *)
EnabledRule(r) ==
  /\ ~r.dis
  /\ MatchType(r) = "inbound" => \E n \in Inbounds : Names(r, n) /\ Enabled(n)
  /\ Usable(r.out)

(* Mutant of EnabledRules: the loop breaks where it should continue.       *)
EnabledRulesUntil ==
  {i \in DOMAIN rules : \A j \in 1..i : EnabledRule(rules[j])}

EnabledRules == {i \in DOMAIN rules : EnabledRule(rules[i])}

EnabledDefault == IF def = None \/ ~Usable(def) THEN Direct ELSE def

RouteFinal == IF mode = "direct" THEN Direct ELSE EnabledDefault

(* singBoxRules writes the items as they are, but of ports only numbers,   *)
(* so that nothing may be left.  The connections of a shadowtls inbound    *)
(* come out of an inner inbound, which has another tag.                    *)
SingBoxItems(r) ==
  {x \in RuleValue(r) \cap Items : MatchType(r) = "port" => Form[x] = "plain"}

SingBoxMatches(r, c) ==
  CASE MatchType(r) = "inbound" -> c.inbound \in RuleValue(r) \ ShadowTLS
    [] OTHER -> \/ \E x \in SingBoxItems(r) : c.target \in Reads["sing-box"][x]
                \/ SingBoxItems(r) = {} /\ c.target \in ReadsEmpty

(* mihomoRules writes a line for every item, and one for the port of an    *)
(* inbound.                                                                *)
MihomoMatches(r, c) ==
  CASE MatchType(r) = "inbound" -> Names(r, c.inbound)
    [] MatchType(r) \in {"address", "port"} ->
         \E x \in RuleValue(r) \cap Items : c.target \in Reads["mihomo"][x]
    [] OTHER -> c.target \in GeoData

SingBoxHits(c) ==
  {i \in EnabledRules : /\ mode = "rule"
                        /\ MatchType(rules[i]) # "geo"
                        /\ SingBoxMatches(rules[i], c)}

MihomoHits(c) ==
  {i \in EnabledRules : mode = "rule" /\ MihomoMatches(rules[i], c)}

MihomoFinal ==
  IF mode = "global" /\ RouteFinal = Direct THEN Group ELSE RouteFinal

(* The kernel takes the first of its rules that matches, or else its last  *)
(* resort.                                                                 *)
KernelHits(c) == IF kernel = "sing-box" THEN SingBoxHits(c) ELSE MihomoHits(c)

Final == IF kernel = "sing-box" THEN RouteFinal ELSE MihomoFinal

Route(c) == IF KernelHits(c) = {} THEN Final ELSE rules[First(KernelHits(c))].out

(* mihomoProxies, and what mihomo -t refuses: a rule for a proxy that the  *)
(* file does not have.                                                     *)
MihomoAccepts ==
  /\ MihomoFinal \notin Unproxied
  /\ mode = "rule" => \A i \in EnabledRules : rules[i].out \notin Unproxied

(* mihomoMixedPort: mihomo listens on one port.                            *)
MihomoListens(n) ==
  LET on == {x \in Inbounds : Enabled(x)}
      S  == IF on \cap LocalProxies # {} THEN on \cap LocalProxies ELSE on
  IN  n \in S /\ \A x \in S : n <= x

Listens(n) ==
  IF kernel = "sing-box" THEN n \in Inbounds /\ Enabled(n) ELSE MihomoListens(n)

----------------------------------------------------------------------------
(* Every handler commits, or is rolled back.                               *)
Committed == Validate' /\ (kernel' = "mihomo" => MihomoAccepts')

UpdateRoutingConfig ==
  /\ \/ mode' \in {"rule", "global", "direct"} /\ UNCHANGED <<def, rules>>
     \/ def' \in Outbounds \cup {Direct, None} /\ UNCHANGED <<mode, rules>>
     \/ /\ Len(rules) < MaxRules
        /\ \E r \in NewRules : rules' = Append(rules, r)
        /\ UNCHANGED <<mode, def>>
     \/ /\ rules # << >>
        /\ rules' = Tail(rules)
        /\ UNCHANGED <<mode, def>>
  /\ UNCHANGED <<off, kernel>>
  /\ Committed

SetNodeEnabled(n) ==
  /\ off' = IF Enabled(n) THEN off \cup {n} ELSE off \ {n}
  /\ UNCHANGED <<mode, def, rules, kernel>>
  /\ Committed

UpdateKernelConfig ==
  /\ kernel' \in Kernels \ {kernel}
  /\ UNCHANGED <<mode, def, rules, off>>
  /\ Committed

Next ==
  \/ UpdateRoutingConfig
  \/ \E n \in Inbounds \cup Outbounds : SetNodeEnabled(n)
  \/ UpdateKernelConfig

Spec == Init /\ [][Next]_vars

----------------------------------------------------------------------------
(* The rules that decide: the first that the preview finds, and the first  *)
(* that the kernel does.                                                   *)
Deciding(c) ==
  {i \in DOMAIN rules :
     /\ mode = "rule"
     /\ \E S \in {PreviewHits(c), KernelHits(c)} : S # {} /\ i = First(S)}

(* A rule is written so that preview and kernel understand the same by it. *)
WrittenForBoth(r, c) ==
  CASE MatchType(r) = "inbound" -> kernel = "sing-box" => c.inbound \notin ShadowTLS
    [] MatchType(r) \in {"address", "port"} ->
         \A x \in RuleValue(r) : x \in Items /\ Form[x] = "plain"
    [] OTHER -> FALSE

(* For every connection to a port that is open, the preview names the      *)
(* outbound that the kernel takes if the rules that decide are written for *)
(* both, whatever the rules before and after them are.  If it names one    *)
(* that is disabled, the kernel takes one that is not.  mihomo has no      *)
(* direct route in global mode, and the preview does not know.             *)
PreviewTellsKernel ==
  \A c \in Connection :
    Listens(c.inbound) =>
      \/ Preview(c) = Route(c)
      \/ \E i \in Deciding(c) : ~WrittenForBoth(rules[i], c)
      \/ ~Usable(Preview(c)) /\ Usable(Route(c))
      \/ mode = "global" /\ kernel = "mihomo" /\ RouteFinal = Direct

(* Disabling or enabling a node moves only the connections that used it or *)
(* are going to: those through an inbound that is switched, and those for  *)
(* an outbound that is.                                                    *)
SwitchIsLocal ==
  [][\A n \in Inbounds \cup Outbounds :
       off' \in {off \cup {n}, off \ {n}} /\ off' # off =>
         \A c \in Connection :
           c.inbound # n /\ n \notin {Route(c), Route(c)'} =>
             Route(c)' = Route(c)]_vars

============================================================================
