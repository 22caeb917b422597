----------------------------- MODULE MCRouting -----------------------------
(* A small instance of Routing for TLC: two local proxies and an inbound   *)
(* for shadowtls, an outbound that mihomo knows and one that it does not,  *)
(* an address that rules are on and one of each geo set.                   *)
(*                                                                         *)
(* The odd item is a range of ports, which mihomo reads and sing-box never *)
(* gets.  The folded one is a suffix with a dot in front, which no kernel  *)
(* reads for the domain itself.                                            *)
EXTENDS Routing

CONSTANTS o1, o2, plain, near, cn, exact, dotted, range

MCInbounds     == {1, 2, 3}
MCLocalProxies == {2, 3}
MCTargets      == {plain, near, cn}
MCItems        == {exact, dotted, range}
MCForm  == [x \in MCItems |-> CASE x = exact  -> "plain"
                               [] x = dotted -> "folded"
                               [] x = range  -> "odd"]
MCMeant == [x \in MCItems |-> {plain}]
MCReads == [k \in Kernels |-> [x \in MCItems |->
              IF x = exact \/ (x = range /\ k = "mihomo") THEN {plain} ELSE {}]]

MCRule ==
  [type: {"none", "inbound", "address", "port", "geo"}, prio: {10, 20},
   inbound: MCInbounds \cup {None},
   value: {{}, {1}, {2}, {3}} \cup SUBSET MCItems,
   out: {o1, o2, Direct}, dis: BOOLEAN]

Shape(t, i, v) == [type |-> t, inbound |-> i, value |-> v]
Shapes ==
  {Shape("none", 1, {}), Shape("inbound", 2, {3}), Shape("none", None, {exact}),
   Shape("address", 1, {exact})}
OtherShapes ==
  {Shape("inbound", None, {2}), Shape("none", None, {dotted}),
   Shape("port", None, {exact, range}), Shape("port", None, {range}),
   Shape("geo", None, {exact})}

Rules(S, P, O) ==
  {[type |-> s.type, prio |-> p, inbound |-> s.inbound, value |-> s.value,
    out |-> o, dis |-> FALSE] : s \in S, p \in P, o \in O}

MCNewRules ==
  Rules(Shapes, {10, 20}, {o1}) \cup Rules(OtherShapes, {10}, {o1}) \cup
  Rules({Shape("none", None, {exact})}, {10}, {Direct}) \cup
  Rules({Shape("address", 1, {exact})}, {10}, {o2}) \cup
  {[r EXCEPT !.dis = TRUE] : r \in Rules({Shape("none", 1, {})}, {10}, {o1})}
=============================================================================
