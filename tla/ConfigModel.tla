---------------------------- MODULE ConfigModel ----------------------------
(***************************************************************************)
(* The configuration document and the pure functions over it: Validate and *)
(* normalizeRoutingConfig (core/config.go), enrichOutboundFromRaw, the     *)
(* helpers that edit slices and maps, and enabledRuntime, which decides    *)
(* what a kernel gets to see (core/manager.go).                            *)
(*                                                                         *)
(* A slice is a set of records, since every function here looks items up   *)
(* by name: two items of one name are two records, which is what Validate  *)
(* rejects.  A Go map is a function.  An item keeps its name and whether   *)
(* it is disabled; everything else that an outbound says is its content,   *)
(* of which BadContent stands for all that OutboundConfig.Validate         *)
(* rejects.  The mode "" is "rule" wherever it is read.                    *)
(***************************************************************************)
CONSTANTS
  InNames, OutNames,      \* names of inbounds and of outbounds
  RuleNames,              \* names of routing rules
  Contents,               \* what an outbound may say
  BadContent,             \* content that fails OutboundConfig.Validate
  SignatureOf,            \* outboundSignature, of every content
  EnrichedContent,        \* enrichOutboundFromRaw, of every content
  MergedContent,          \* mergePreservedOutboundFields, of two contents
  MihomoConfigs,          \* the mihomo section, passed on as it is
  NoMihomo,               \* the section left empty
  KernelTypes,            \* kernel.type
  Placeholder,            \* the kernel type that runs no process
  Direct,                 \* the built-in outbound "direct"
  NoName,                 \* the empty string
  Patterns,               \* what a rule may match on besides an inbound
  Overseas                \* the domains of the legacy bypass_cn rule

(* Enrichment only fills fields that are empty, so that to repeat it       *)
(* changes nothing, and none of the fields it fills repairs what Validate  *)
(* rejects.  It may break what Validate accepts: the transport "shadowtls" *)
(* of the link needs a password that is not filled in.                     *)
ASSUME ModelAssumption ==
  /\ BadContent \in Contents
  /\ DOMAIN SignatureOf = Contents
  /\ EnrichedContent \in [Contents -> Contents]
  /\ \A x \in Contents : EnrichedContent[EnrichedContent[x]] = EnrichedContent[x]
  /\ EnrichedContent[BadContent] = BadContent
  /\ MergedContent \in [Contents \X Contents -> Contents]
  /\ NoMihomo \in MihomoConfigs
  /\ Placeholder \in KernelTypes
  /\ Direct \notin OutNames
  /\ NoName \notin OutNames \cup InNames \cup {Direct}
  /\ Overseas \in Patterns
  /\ Patterns \cap InNames = {}
  /\ InNames \subseteq RuleNames

Inbound  == [name: InNames, dis: BOOLEAN]
Outbound == [name: OutNames, content: Contents, dis: BOOLEAN]
Rule     == [name: RuleNames, in: InNames \cup Patterns,
             out: OutNames \cup {Direct}, dis: BOOLEAN]
Routing  == [mode: {"rule", "global", "direct"}, preset: BOOLEAN,
             def: OutNames \cup {Direct, NoName}, rules: SUBSET Rule]
Kernel   == [type: KernelTypes, exe: {"good", "bad"}]
Config   == [ins: SUBSET Inbound, outs: SUBSET Outbound, routing: Routing,
             mihomo: MihomoConfigs, kernel: Kernel]

EmptyRouting == [mode |-> "rule", preset |-> FALSE, def |-> NoName, rules |-> {}]

(* The zero Config of a Manager that has not loaded anything yet.          *)
EmptyConfig ==
  [ins |-> {}, outs |-> {}, routing |-> EmptyRouting,
   mihomo |-> NoMihomo, kernel |-> [type |-> Placeholder, exe |-> "good"]]

Names(items) == {x.name : x \in items}

Distinct(items) == \A x, y \in items : x.name = y.name => x = y

----------------------------------------------------------------------------
OutboundValid(o) == o.content # BadContent

RuleValid(r, ins, outs) ==
  /\ r.in \in Patterns \/ r.in \in Names(ins)
  /\ r.out = Direct \/ r.out \in Names(outs)

(* Rules without a name are not compared.                                  *)
DistinctRules(rules) == Distinct({r \in rules : r.name # NoName})

(* Mutant of RoutingValid: the default outbound is not looked up.          *)
RoutingValidNoDefault(r, ins, outs) ==
  r.mode = "rule" =>
    /\ DistinctRules(r.rules)
    /\ \A x \in r.rules : x.dis \/ RuleValid(x, ins, outs)

(* References are checked for enabled rules, and only in rule mode; the    *)
(* default outbound is always checked.                                     *)
RoutingValid(r, ins, outs) ==
  /\ r.def \in {NoName, Direct} \cup Names(outs)
  /\ r.mode = "rule" =>
       /\ DistinctRules(r.rules)
       /\ \A x \in r.rules : x.dis \/ RuleValid(x, ins, outs)

Validate(c) ==
  /\ Distinct(c.ins)
  /\ Distinct(c.outs)
  /\ \A o \in c.outs : OutboundValid(o)
  /\ RoutingValid(c.routing, c.ins, c.outs)

----------------------------------------------------------------------------
(* What is made of a configuration on its way into the manager.            *)

(* isLegacyBypassOverseasDirectRule                                        *)
LegacyRule(r) == r.in = Overseas /\ r.out = Direct

(* normalizeRoutingConfig; the preset is bypass_cn, or none that it knows. *)
NormalizedRouting(r) ==
  [r EXCEPT !.rules = IF r.preset THEN {x \in @ : ~LegacyRule(x)} ELSE @]

(* LoadConfig returns this configuration when Validate accepts it.         *)
Loaded(c) == [c EXCEPT !.routing = NormalizedRouting(@)]

Loads(c) == Validate(Loaded(c))

EnrichedOutbound(o) == [o EXCEPT !.content = EnrichedContent[@]]

(* The first loop of ApplyConfig.                                          *)
Enriched(c) == [c EXCEPT !.outs = {EnrichedOutbound(o) : o \in @}]

----------------------------------------------------------------------------
(* What is left of a slice where the text of config.yaml breaks off: some  *)
(* items, the last of which may have lost its disabled flag.               *)
CutShort(items) ==
  (SUBSET items) \cup
  UNION {{I \cup {[x EXCEPT !.dis = FALSE]} : x \in items \ I} :
         I \in SUBSET items}

CutRouting(r) ==
  LET mode == [EmptyRouting EXCEPT !.mode = r.mode]
  IN  {EmptyRouting, mode, [mode EXCEPT !.preset = r.preset]} \cup
      {[r EXCEPT !.rules = R] : R \in CutShort(r.rules)}

(* The configurations that the beginning of the text of c may still load   *)
(* as.  SaveConfig prints kernel, inbounds, outbounds, routing and mihomo  *)
(* in this order; LoadConfig takes what is missing for empty, fills in the *)
(* placeholder kernel, and accepts whatever Validate accepts.  A cut       *)
(* kernel section may name another executable.                             *)
Prefixes(c) ==
  {p \in {EmptyConfig} \cup
         {[EmptyConfig EXCEPT !.kernel = [c.kernel EXCEPT !.exe = e]] :
            e \in {"good", "bad"}} \cup
         {[EmptyConfig EXCEPT !.kernel = c.kernel, !.ins = I] :
            I \in CutShort(c.ins)} \cup
         {[EmptyConfig EXCEPT !.kernel = c.kernel, !.ins = c.ins, !.outs = O] :
            O \in CutShort(c.outs)} \cup
         {[c EXCEPT !.routing = r, !.mihomo = NoMihomo] :
            r \in CutRouting(c.routing)} \cup
         {[c EXCEPT !.mihomo = x] : x \in MihomoConfigs} : Loads(p)}

----------------------------------------------------------------------------
Enabled(items) == {x \in items : ~x.dis}

(* A rule survives when it is enabled and so is every node it names.       *)
EnabledRules(r, ins, outs) ==
  {x \in Enabled(r.rules) : RuleValid(x, Enabled(ins), Enabled(outs))}

EnabledDefault(r, outs) ==
  IF r.def \in Names(Enabled(outs)) THEN r.def ELSE Direct

(* The RuntimeState that GenerateConfig receives.                          *)
EnabledRuntime(c) ==
  [ins    |-> Enabled(c.ins),
   outs   |-> Enabled(c.outs),
   mode   |-> c.routing.mode,
   def    |-> EnabledDefault(c.routing, c.outs),
   rules  |-> EnabledRules(c.routing, c.ins, c.outs),
   mihomo |-> c.mihomo]

Runtime ==
  [ins: SUBSET Inbound, outs: SUBSET Outbound,
   mode: {"rule", "global", "direct"}, def: OutNames \cup {Direct},
   rules: SUBSET Rule, mihomo: MihomoConfigs]

----------------------------------------------------------------------------
(* upsertInboundConfig and upsertOutboundConfig                            *)
Upsert(items, x) == {y \in items : y.name # x.name} \cup {x}

(* deleteInboundConfig and deleteOutboundConfig                            *)
Delete(items, gone) == {y \in items : y.name \notin gone}

(* deleteRulesForNode, for the inbounds I and the outbounds O              *)
DeleteRulesForNode(rules, I, O) ==
  {r \in rules : r.in \notin I /\ r.out \notin O}

RenameRoutingOutbound(rules, old, new) ==
  {IF r.out = old THEN [r EXCEPT !.out = new] ELSE r : r \in rules}

(* The Go maps from some names of S to members of T, and the empty one.    *)
Map(S, T) == UNION {[D -> T] : D \in SUBSET S}

NoEntries == [n \in {} |-> n]

(* m[n] = x and delete(m, n)                                               *)
With(m, n, x) == [k \in DOMAIN m \cup {n} |-> IF k = n THEN x ELSE m[k]]

Without(m, n) == [k \in DOMAIN m \ {n} |-> m[k]]

(* The map that holds the items of a slice without duplicates.             *)
ByName(items) == [n \in Names(items) |-> CHOOSE x \in items : x.name = n]

============================================================================
