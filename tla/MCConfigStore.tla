--------------------------- MODULE MCConfigStore ---------------------------
(* A small instance of ConfigStore for TLC.  The inbound has the name of   *)
(* one of the outbounds that may exist.  An outbound with the content raw  *)
(* is enriched to full, one with the content thin to what is not valid.    *)
EXTENDS ConfigStore

CONSTANTS n1, r1, o1, o2, plain, raw, full, thin, bad, m0, m1, placeholder,
          singbox, direct, noname, any, overseas

MCInNames       == {n1}
MCOutNames      == {o1, o2, n1}
MCRuleNames     == {n1, r1, noname}
MCContents      == {plain, raw, full, thin, bad}
MCMihomoConfigs == {m0, m1}
MCKernelTypes   == {placeholder, singbox}
MCPatterns      == {any, overseas}

(* plain and full differ in what outboundSignature leaves out.             *)
MCSignatureOf ==
  [c \in MCContents |-> IF c \in {plain, full} THEN full ELSE raw]

MCEnrichedContent ==
  [c \in MCContents |-> CASE c = raw -> full [] c = thin -> bad [] OTHER -> c]

(* The provider asks for a field in which plain and full differ.           *)
MCMergedContent ==
  [p \in MCContents \X MCContents |->
     IF p \in {<<plain, full>>, <<full, plain>>} THEN p[1] ELSE p[2]]

Out(n, c, off)      == [name |-> n, content |-> c, dis |-> off]
RuleTo(in, out)     == [name |-> r1, in |-> in, out |-> out, dis |-> FALSE]
Legacy              == [name |-> noname, in |-> overseas, out |-> direct,
                        dis |-> FALSE]
Route(mode, bypass, d, rs) ==
  [mode |-> mode, preset |-> bypass, def |-> d, rules |-> rs]
KernelOf(type, exe) == [type |-> type, exe |-> exe]

MCNewOutbounds == {Out(o1, raw, FALSE), Out(o2, thin, TRUE), Out(o2, bad, FALSE)}
MCNewRoutings  == {Route("rule", FALSE, o1, {RuleTo(n1, o1)}),
                   Route("direct", TRUE, noname, {RuleTo(any, o2), Legacy})}
MCNewMihomos   == {m1}
MCNewKernels   == {KernelOf(placeholder, "good"), KernelOf(singbox, "bad")}

First ==
  [ins |-> {[name |-> n1, dis |-> TRUE]}, outs |-> {Out(o1, plain, FALSE)},
   routing |-> Route("rule", FALSE, o1, {RuleTo(n1, o1)}),
   mihomo |-> m0, kernel |-> KernelOf(singbox, "good")]

Edited ==
  [First EXCEPT !.outs = {Out(o1, plain, TRUE), Out(o2, raw, FALSE)},
                !.kernel = KernelOf(placeholder, "good"),
                !.routing = Route("rule", TRUE, o1, {RuleTo(n1, o1), Legacy})]

MCFirstConfigs  == {First}
MCEditedConfigs == {Edited}

Item(x, strategy, keep) ==
  [node |-> x, strategy |-> strategy, keepDis |-> keep, keepContent |-> keep]

MCImports ==
  { <<Item(Out(o2, raw, FALSE), "equivalent", TRUE)>>,
    <<Item(Out(o1, raw, FALSE), "none", FALSE)>>,
    <<Item(Out(o1, raw, TRUE), "name", FALSE),
      Item(Out(o2, thin, FALSE), "name", FALSE)>> }
=============================================================================
