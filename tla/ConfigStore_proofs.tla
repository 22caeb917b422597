------------------------ MODULE ConfigStore_proofs ------------------------
(***************************************************************************)
(* ConfigStore, for every value of its constants: type correctness, with   *)
(* the lemmas about its operators; then its safety, where each theorem     *)
(* rests on the types and on an inductive strengthening that says what     *)
(* holds at each step of a commit; at last what a handler keeps of maps,   *)
(* slices and references.                                                  *)
(***************************************************************************)
EXTENDS ConfigStore, SequenceTheorems, TLAPS

----------------------------------------------------------------------------
(* The maps and slices that the handlers edit.                             *)

LEMMA MapElim ==
  ASSUME NEW S, NEW T, NEW m \in Map(S, T)
  PROVE  /\ DOMAIN m \subseteq S
         /\ \A n \in DOMAIN m : m[n] \in T
  <1>1. PICK D \in SUBSET S : m \in [D -> T]
    BY DEF Map
  <1> QED
    BY <1>1

LEMMA WithMap ==
  ASSUME NEW S, NEW T, NEW m \in Map(S, T), NEW n \in S, NEW x \in T
  PROVE  With(m, n, x) \in Map(S, T)
  <1>1. /\ DOMAIN m \subseteq S
        /\ \A k \in DOMAIN m : m[k] \in T
    BY MapElim
  <1> DEFINE D == DOMAIN m \cup {n}
  <1>2. With(m, n, x) \in [D -> T]
    BY <1>1 DEF With
  <1>3. D \in SUBSET S
    BY <1>1
  <1> HIDE DEF D
  <1> QED
    BY <1>2, <1>3 DEF Map

LEMMA RestrictMap ==
  ASSUME NEW S, NEW T, NEW m \in Map(S, T), NEW D, D \subseteq DOMAIN m
  PROVE  [n \in D |-> m[n]] \in Map(S, T)
  <1>1. /\ DOMAIN m \subseteq S
        /\ \A k \in DOMAIN m : m[k] \in T
    BY MapElim
  <1>2. [n \in D |-> m[n]] \in [D -> T]
    BY <1>1
  <1>3. D \in SUBSET S
    BY <1>1
  <1> QED
    BY <1>2, <1>3 DEF Map

LEMMA ByNameMap ==
  ASSUME NEW S, NEW T, NEW items, items \subseteq T,
         \A x \in items : x.name \in S
  PROVE  ByName(items) \in Map(S, T)
  <1>1. \A n \in Names(items) :
          (CHOOSE x \in items : x.name = n) \in items
    BY DEF Names
  <1>2. ByName(items) \in [Names(items) -> T]
    BY <1>1 DEF ByName
  <1>3. Names(items) \in SUBSET S
    BY DEF Names
  <1> QED
    BY <1>2, <1>3 DEF Map

LEMMA HealthMap ==
  ASSUME NEW h \in Map(NodeNames, {"unknown", "disabled"}), NEW items,
         \A x \in items : x.name \in NodeNames
  PROVE  EnsureHealth(h, items) \in Map(NodeNames, {"unknown", "disabled"})
  <1>1. /\ DOMAIN h \subseteq NodeNames
        /\ \A k \in DOMAIN h : h[k] \in {"unknown", "disabled"}
    BY MapElim
  <1> DEFINE D == DOMAIN h \cup Names(items)
  <1>2. EnsureHealth(h, items) \in [D -> {"unknown", "disabled"}]
    BY <1>1 DEF EnsureHealth
  <1>3. D \in SUBSET NodeNames
    BY <1>1 DEF Names
  <1> HIDE DEF D
  <1> QED
    BY <1>2, <1>3 DEF Map

LEMMA MoveKeyMap ==
  ASSUME NEW S, NEW T, NEW m \in Map(S, T), NEW old \in S, NEW new \in S
  PROVE  MoveKey(m, old, new) \in Map(S, T)
  <1>1. CASE old \notin DOMAIN m
    BY <1>1 DEF MoveKey
  <1>2. CASE old \in DOMAIN m
    <2>1. m[old] \in T
      BY <1>2, MapElim
    <2> DEFINE w == With(m, new, m[old])
    <2>2. w \in Map(S, T)
      BY <2>1, WithMap
    <2> HIDE DEF w
    <2>3. [k \in DOMAIN w \ {old} |-> w[k]] \in Map(S, T)
      BY <2>2, RestrictMap
    <2> QED
      BY <1>2, <2>3 DEF MoveKey, Without, w
  <1> QED
    BY <1>1, <1>2

----------------------------------------------------------------------------
(* Every edit of the memory yields a well typed memory.                    *)

LEMMA PutInboundType ==
  ASSUME NEW m \in Memory, NEW x \in Inbound
  PROVE  PutInbound(m, x) \in Memory
  <1>1. /\ x.name \in InNames
        /\ x.name \in NodeNames
    BY DEF Inbound, NodeNames
  <1>2. With(m.inbounds, x.name, x) \in Map(InNames, Inbound)
    BY <1>1, WithMap DEF Memory
  <1>3. EnsureHealth(m.health, {x}) \in Map(NodeNames, {"unknown", "disabled"})
    BY <1>1, HealthMap DEF Memory
  <1>4. Upsert(m.cfg.ins, x) \in SUBSET Inbound
    BY DEF Upsert, Memory, Config
  <1>5. m.traffic \cup {x.name} \in SUBSET NodeNames
    BY <1>1 DEF Memory
  <1> QED
    BY <1>2, <1>3, <1>4, <1>5 DEF PutInbound, Memory, Config

LEMMA PutOutboundType ==
  ASSUME NEW m \in Memory, NEW x \in Outbound
  PROVE  PutOutbound(m, x) \in Memory
  <1>1. /\ x.name \in OutNames
        /\ x.name \in NodeNames
    BY DEF Outbound, NodeNames
  <1>2. With(m.outbounds, x.name, x) \in Map(OutNames, Outbound)
    BY <1>1, WithMap DEF Memory
  <1>3. EnsureHealth(m.health, {x}) \in Map(NodeNames, {"unknown", "disabled"})
    BY <1>1, HealthMap DEF Memory
  <1>4. Upsert(m.cfg.outs, x) \in SUBSET Outbound
    BY DEF Upsert, Memory, Config
  <1>5. m.traffic \cup {x.name} \in SUBSET NodeNames
    BY <1>1 DEF Memory
  <1> QED
    BY <1>2, <1>3, <1>4, <1>5 DEF PutOutbound, Memory, Config

LEMMA RenamedRules ==
  ASSUME NEW rules \in SUBSET Rule, NEW old \in OutNames, NEW new \in OutNames
  PROVE  RenameRoutingOutbound(rules, old, new) \in SUBSET Rule
  <1>1. \A r \in Rule : [r EXCEPT !.out = new] \in Rule
    BY DEF Rule
  <1> QED
    BY <1>1 DEF RenameRoutingOutbound

LEMMA RenamedRoutingType ==
  ASSUME NEW r \in Routing, NEW old \in OutNames, NEW new \in OutNames
  PROVE  RenamedRouting(r, old, new) \in Routing
  <1>1. RenameRoutingOutbound(r.rules, old, new) \in SUBSET Rule
    BY RenamedRules DEF Routing
  <1>2. (IF r.def = old THEN new ELSE r.def) \in OutNames \cup {Direct, NoName}
    BY DEF Routing
  <1> QED
    BY <1>1, <1>2 DEF RenamedRouting, Routing

LEMMA RenameOutboundType ==
  ASSUME NEW m \in Memory, NEW old \in OutNames, NEW new \in OutNames
  PROVE  RenameOutbound(m, old, new) \in Memory
  <1>1. Without(m.outbounds, old) \in Map(OutNames, Outbound)
    BY RestrictMap DEF Memory, Without
  <1>2. MoveKey(m.health, old, new) \in Map(NodeNames, {"unknown", "disabled"})
    BY MoveKeyMap DEF Memory, NodeNames
  <1>3. /\ RenameRoutingOutbound(m.rules, old, new) \in SUBSET Rule
        /\ RenamedRouting(m.cfg.routing, old, new) \in Routing
    BY RenamedRules, RenamedRoutingType DEF Memory, Config
  <1>4. Delete(m.cfg.outs, {old}) \in SUBSET Outbound
    BY DEF Delete, Memory, Config
  <1>5. (IF old \in m.traffic THEN (m.traffic \ {old}) \cup {new} ELSE m.traffic)
          \in SUBSET NodeNames
    BY DEF Memory, NodeNames
  <1> QED
    BY <1>1, <1>2, <1>3, <1>4, <1>5 DEF RenameOutbound, Memory, Config

LEMMA DropNodesType ==
  ASSUME NEW m \in Memory, NEW I \in SUBSET InNames, NEW O \in SUBSET OutNames
  PROVE  DropNodes(m, I, O) \in Memory
  <1>1. [n \in DOMAIN m.inbounds \ I |-> m.inbounds[n]] \in Map(InNames, Inbound)
    BY RestrictMap DEF Memory
  <1>2. [n \in DOMAIN m.outbounds \ O |-> m.outbounds[n]]
          \in Map(OutNames, Outbound)
    BY RestrictMap DEF Memory
  <1>3. /\ DeleteRulesForNode(m.rules, I, O) \in SUBSET Rule
        /\ DeleteRulesForNode(m.cfg.routing.rules, I, O) \in SUBSET Rule
    BY DEF DeleteRulesForNode, Memory, Config, Routing
  <1>4. /\ Delete(m.cfg.ins, I) \in SUBSET Inbound
        /\ Delete(m.cfg.outs, O) \in SUBSET Outbound
    BY DEF Delete, Memory, Config
  <1> QED
    BY <1>1, <1>2, <1>3, <1>4 DEF DropNodes, Memory, Config, Routing

LEMMA ReplaceType ==
  ASSUME NEW m \in Memory, NEW c \in Config
  PROVE  Replace(m, c) \in Memory
  <1>1. /\ c.ins \subseteq Inbound
        /\ c.outs \subseteq Outbound
        /\ c.routing.rules \subseteq Rule
    BY DEF Config, Routing
  <1>2. /\ \A x \in c.ins : x.name \in InNames /\ x.name \in NodeNames
        /\ \A x \in c.outs : x.name \in OutNames /\ x.name \in NodeNames
    BY <1>1 DEF Inbound, Outbound, NodeNames
  <1>3. ByName(c.ins) \in Map(InNames, Inbound)
    BY <1>1, <1>2, ByNameMap
  <1>4. ByName(c.outs) \in Map(OutNames, Outbound)
    BY <1>1, <1>2, ByNameMap
  <1>5. EnsureHealth(EnsureHealth(m.health, c.ins), c.outs)
          \in Map(NodeNames, {"unknown", "disabled"})
    BY <1>2, HealthMap DEF Memory
  <1>6. m.traffic \cup Names(c.ins) \cup Names(c.outs) \in SUBSET NodeNames
    BY <1>2 DEF Memory, Names
  <1> QED
    BY <1>1, <1>3, <1>4, <1>5, <1>6 DEF Replace, Memory

LEMMA EditedNodesType ==
  ASSUME NEW m \in Memory,
         NEW cin \in SUBSET Inbound, NEW cout \in SUBSET Outbound,
         NEW ins \in Map(InNames, Inbound), NEW outs \in Map(OutNames, Outbound),
         NEW h \in Map(NodeNames, {"unknown", "disabled"})
  PROVE  [m EXCEPT !.cfg.ins = cin, !.cfg.outs = cout,
                   !.inbounds = ins, !.outbounds = outs, !.health = h] \in Memory
  BY DEF Memory, Config

LEMMA SwitchNodesType ==
  ASSUME NEW m \in Memory, NEW I \in SUBSET InNames, NEW O \in SUBSET OutNames,
         NEW off \in BOOLEAN
  PROVE  SwitchNodes(m, I, O, off) \in Memory
  <1> DEFINE switch(x, S) == IF x.name \in S THEN [x EXCEPT !.dis = off] ELSE x
             ins  == [n \in DOMAIN m.inbounds |-> switch(m.inbounds[n], I)]
             outs == [n \in DOMAIN m.outbounds |-> switch(m.outbounds[n], O)]
  <1>1. \A x \in Inbound : switch(x, I) \in Inbound
    BY DEF Inbound
  <1>2. \A x \in Outbound : switch(x, O) \in Outbound
    BY DEF Outbound
  <1>3. ins \in Map(InNames, Inbound)
    <2>1. /\ DOMAIN m.inbounds \in SUBSET InNames
          /\ \A n \in DOMAIN m.inbounds : m.inbounds[n] \in Inbound
      BY MapElim DEF Memory
    <2>2. ins \in [DOMAIN m.inbounds -> Inbound]
      BY <2>1, <1>1
    <2> QED
      BY <2>1, <2>2 DEF Map
  <1>4. outs \in Map(OutNames, Outbound)
    <2>1. /\ DOMAIN m.outbounds \in SUBSET OutNames
          /\ \A n \in DOMAIN m.outbounds : m.outbounds[n] \in Outbound
      BY MapElim DEF Memory
    <2>2. outs \in [DOMAIN m.outbounds -> Outbound]
      BY <2>1, <1>2
    <2> QED
      BY <2>1, <2>2 DEF Map
  <1> DEFINE cin  == {switch(x, I) : x \in m.cfg.ins}
             cout == {switch(x, O) : x \in m.cfg.outs}
             named == {[name |-> n, dis |-> off] : n \in I \cup O}
             h == EnsureHealth(m.health, named)
  <1>5. cin \in SUBSET Inbound
    BY <1>1 DEF Memory, Config
  <1>6. cout \in SUBSET Outbound
    BY <1>2 DEF Memory, Config
  <1>7. \A x \in named : x.name \in NodeNames
    BY DEF NodeNames
  <1>8. SwitchNodes(m, I, O, off) =
          [m EXCEPT !.cfg.ins = cin, !.cfg.outs = cout,
                    !.inbounds = ins, !.outbounds = outs, !.health = h]
    BY DEF SwitchNodes, Memory, Config
  <1> HIDE DEF ins, outs, cin, cout, named
  <1>9. h \in Map(NodeNames, {"unknown", "disabled"})
    BY <1>7, HealthMap DEF Memory
  <1> HIDE DEF h
  <1>10. [m EXCEPT !.cfg.ins = cin, !.cfg.outs = cout,
                   !.inbounds = ins, !.outbounds = outs, !.health = h] \in Memory
    BY <1>3, <1>4, <1>5, <1>6, <1>9, EditedNodesType
  <1> QED
    BY <1>8, <1>10

----------------------------------------------------------------------------
(* What is made of a configuration on its way into the manager.            *)

LEMMA LoadedType ==
  ASSUME NEW c \in Config
  PROVE  /\ Loaded(c) \in Config
         /\ Loaded(c).ins = c.ins /\ Loaded(c).outs = c.outs
         /\ Loaded(c).mihomo = c.mihomo /\ Loaded(c).kernel = c.kernel
         /\ Loaded(c).routing = NormalizedRouting(c.routing)
  <1>1. NormalizedRouting(c.routing) \in Routing
    BY DEF NormalizedRouting, Config, Routing
  <1> QED
    BY <1>1 DEF Loaded, Config

LEMMA EnrichedOutboundType ==
  ASSUME NEW o \in Outbound
  PROVE  /\ EnrichedOutbound(o) \in Outbound
         /\ EnrichedOutbound(o).name = o.name
         /\ EnrichedOutbound(o).content = EnrichedContent[o.content]
         /\ EnrichedOutbound(o).dis = o.dis
  BY ModelAssumption DEF EnrichedOutbound, Outbound

LEMMA EnrichedType ==
  ASSUME NEW c \in Config
  PROVE  /\ Enriched(c) \in Config
         /\ Enriched(c).ins = c.ins
         /\ Enriched(c).outs = {EnrichedOutbound(o) : o \in c.outs}
         /\ Enriched(c).routing = c.routing
         /\ Enriched(c).mihomo = c.mihomo /\ Enriched(c).kernel = c.kernel
  <1>1. {EnrichedOutbound(o) : o \in c.outs} \in SUBSET Outbound
    BY EnrichedOutboundType DEF Config
  <1> QED
    BY <1>1 DEF Enriched, Config

LEMMA TakenType ==
  ASSUME NEW c \in Config
  PROVE  Taken(c) \in Config /\ Taken(c).kernel = c.kernel
  BY LoadedType, EnrichedType DEF Taken

----------------------------------------------------------------------------
(* Kernel objects                                                          *)

LEMMA RuntimeType ==
  ASSUME NEW c \in Config
  PROVE  EnabledRuntime(c) \in Runtime
  <1>1. /\ Enabled(c.ins) \in SUBSET Inbound
        /\ Enabled(c.outs) \in SUBSET Outbound
        /\ EnabledRules(c.routing, c.ins, c.outs) \in SUBSET Rule
    BY DEF Enabled, EnabledRules, Config, Routing
  <1>2. EnabledDefault(c.routing, c.outs) \in OutNames \cup {Direct}
    BY <1>1 DEF EnabledDefault, Names, Outbound
  <1> QED
    BY <1>1, <1>2 DEF EnabledRuntime, Runtime, Config, Routing

LEMMA StoppedType ==
  ASSUME NEW ks \in Seq(KernelObject), NEW i \in 1..Len(ks)
  PROVE  /\ Stopped(ks, i) \in Seq(KernelObject)
         /\ Len(Stopped(ks, i)) = Len(ks)
  <1>1. ks[i] \in KernelObject
    BY ElementOfSeq
  <1>2. [ks[i] EXCEPT !.run = NotRunning] \in KernelObject
    BY <1>1 DEF KernelObject
  <1>3. Stopped(ks, i) = [ks EXCEPT ![i] = [ks[i] EXCEPT !.run = NotRunning]]
    BY DEF Stopped
  <1> QED
    BY <1>2, <1>3, ExceptSeq

LEMMA ConfiguredType ==
  ASSUME NEW ks \in Seq(KernelObject), NEW i \in 1..Len(ks), NEW k \in Kernel
  PROVE  /\ Configured(ks, i, k) \in Seq(KernelObject)
         /\ Len(Configured(ks, i, k)) >= Len(ks)
         /\ ConfiguredKernel(ks, i, k) \in 1..Len(Configured(ks, i, k))
  <1>1. NewKernel(k) \in KernelObject
    BY DEF NewKernel, Kernel, KernelObject
  <1>2. CASE ks[i].type # k.type
    BY <1>1, <1>2, StoppedType DEF Configured, ConfiguredKernel
  <1>3. CASE ks[i].type = k.type
    <2>1. ks[i] \in KernelObject
      BY ElementOfSeq
    <2>2. [ks[i] EXCEPT !.exe = k.exe] \in KernelObject
      BY <2>1 DEF Kernel, KernelObject
    <2>3. Configured(ks, i, k) =
            [ks EXCEPT ![i] = [ks[i] EXCEPT !.exe = k.exe]]
      BY <1>3 DEF Configured
    <2>4. /\ Configured(ks, i, k) \in Seq(KernelObject)
          /\ Len(Configured(ks, i, k)) = Len(ks)
      BY <2>2, <2>3, ExceptSeq
    <2> QED
      BY <1>3, <2>4 DEF ConfiguredKernel
  <1> QED
    BY <1>2, <1>3

GenFileOK == genFile \in [KernelTypes -> Runtime \cup {NotRunning, Torn}]

LEMMA AppliedType ==
  ASSUME NEW m \in Memory, m.kernel \in 1..Len(kernels),
         kernels \in Seq(KernelObject), GenFileOK,
         KernelApplied(m) \/ KernelRefused(m)
  PROVE  /\ kernels' \in Seq(KernelObject)
         /\ Len(kernels') = Len(kernels)
         /\ GenFileOK'
  <1>1. EnabledRuntime(m.cfg) \in Runtime /\ m.cfg.kernel.type \in KernelTypes
    BY RuntimeType DEF Memory, Config, Kernel
  <1>2. CASE KernelApplied(m)
    <2> DEFINE run == EnabledRuntime(m.cfg)
    <2>1. kernels[m.kernel] \in KernelObject
      BY ElementOfSeq
    <2>2. [kernels[m.kernel] EXCEPT !.run = run] \in KernelObject
      BY <1>1, <2>1 DEF KernelObject
    <2>3. kernels' =
            [kernels EXCEPT ![m.kernel] = [kernels[m.kernel] EXCEPT !.run = run]]
      BY <1>2 DEF KernelApplied
    <2>4. /\ kernels' \in Seq(KernelObject)
          /\ Len(kernels') = Len(kernels)
      BY <2>2, <2>3, ExceptSeq
    <2>5. GenFileOK'
      BY <1>1, <1>2 DEF KernelApplied, GenFileOK
    <2> QED
      BY <2>4, <2>5
  <1>3. CASE KernelRefused(m)
    <2>1. kernels' = kernels \/ kernels' = Stopped(kernels, m.kernel)
      BY <1>3 DEF KernelRefused
    <2>2. GenFileOK'
      BY <1>1, <1>3 DEF KernelRefused, GenFileOK
    <2> QED
      BY <2>1, <2>2, StoppedType
  <1> QED
    BY <1>2, <1>3

----------------------------------------------------------------------------
(* Type correctness.  While the agent is down the snapshot points to the   *)
(* first kernel object, the only one that main makes before its own        *)
(* ApplyConfig has taken a snapshot.                                       *)

TypeInv ==
  /\ MemoryType
  /\ StoredType
  /\ ControlType
  /\ pc = "down" => snap.kernel = 1

LEMMA FreshType ==
  /\ Fresh \in Memory
  /\ FreshKernels \in Seq(KernelObject)
  /\ Len(FreshKernels) = 1
  /\ Fresh.kernel = 1
  <1>1. \A S, T : NoEntries \in Map(S, T)
    <2> SUFFICES ASSUME NEW S, NEW T PROVE NoEntries \in Map(S, T)
      OBVIOUS
    <2>1. NoEntries \in [{} -> T]
      BY DEF NoEntries
    <2>2. {} \in SUBSET S
      OBVIOUS
    <2> QED
      BY <2>1, <2>2 DEF Map
  <1>2. EmptyConfig \in Config
    BY ModelAssumption DEF EmptyConfig, EmptyRouting, Config, Routing, Kernel
  <1>3. Fresh \in Memory
    BY <1>1, <1>2 DEF Fresh, Memory
  <1>4. NewKernel([type |-> Placeholder, exe |-> "good"]) \in KernelObject
    BY ModelAssumption DEF NewKernel, KernelObject
  <1> QED
    BY <1>3, <1>4 DEF FreshKernels, Fresh

LEMMA KeepMemory ==
  ASSUME MemoryType, UNCHANGED <<mem, snap, kernels>>
  PROVE  MemoryType'
  BY DEF MemoryType

LEMMA KeepStored ==
  ASSUME StoredType, UNCHANGED <<genFile, file, history, pending, todo>>
  PROVE  StoredType'
  BY DEF StoredType

LEMMA InitType ==
  ASSUME Init
  PROVE  TypeInv
  <1>1. MemoryType
    BY FreshType DEF Init, MemoryType
  <1>2. genFile \in [KernelTypes -> Runtime \cup {NotRunning, Torn}]
    BY DEF Init
  <1>3. file \in Config
    BY StoreAssumption DEF Init
  <1>4. history \in Seq(Config) /\ todo \in Seq(ImportedItem)
    BY DEF Init
  <1>5. StoredType
    BY <1>2, <1>3, <1>4 DEF Init, StoredType
  <1>6. ControlType /\ snap.kernel = 1
    BY FreshType DEF Init, ControlType, Phases
  <1> QED
    BY <1>1, <1>5, <1>6 DEF TypeInv

(* What every handler that commits has in common.                          *)
LEMMA EditType ==
  ASSUME TypeInv, NEW m \in Memory, m.kernel = mem.kernel, Edit(m)
  PROVE  TypeInv'
  <1>1. MemoryType'
    BY DEF TypeInv, MemoryType, Edit, Enter
  <1>2. StoredType'
    BY KeepStored DEF TypeInv, Edit, Enter
  <1>3. ControlType' /\ pc' # "down"
    BY DEF TypeInv, ControlType, Edit, Enter, Phases
  <1> QED
    BY <1>1, <1>2, <1>3 DEF TypeInv

LEMMA NodeOpType ==
  ASSUME TypeInv, NodeOp
  PROVE  TypeInv'
  <1> USE DEF TypeInv, MemoryType
  <1>1. ASSUME NEW n \in InNames, CreateProxy(n) PROVE TypeInv'
    <2> DEFINE x == [name |-> n, dis |-> FALSE]
    <2>1. x \in Inbound /\ x.name \in NodeNames
      BY DEF Inbound, NodeNames
    <2>2. With(mem.inbounds, n, x) \in Map(InNames, Inbound)
      BY <2>1, WithMap DEF Memory
    <2>3. EnsureHealth(mem.health, {x})
            \in Map(NodeNames, {"unknown", "disabled"})
      BY <2>1, HealthMap DEF Memory
    <2> DEFINE m == [mem EXCEPT !.cfg.ins = @ \cup {x},
                                !.inbounds = With(@, n, x),
                                !.traffic = @ \cup {n},
                                !.health = EnsureHealth(@, {x})]
    <2>4. m \in Memory /\ m.kernel = mem.kernel
      BY <2>1, <2>2, <2>3 DEF Memory, Config
    <2>5. Edit(m)
      BY <1>1 DEF CreateProxy
    <2> HIDE DEF m
    <2> QED
      BY <2>4, <2>5, EditType
  <1>2. ASSUME NEW n \in InNames, CreateForward(n) PROVE TypeInv'
    <2> DEFINE x == [name |-> n, dis |-> FALSE]
               r == [name |-> n, in |-> n, out |-> Direct, dis |-> FALSE]
    <2>1. x \in Inbound /\ x.name \in NodeNames /\ r \in Rule
      BY ModelAssumption DEF Inbound, NodeNames, Rule
    <2>2. With(mem.inbounds, n, x) \in Map(InNames, Inbound)
      BY <2>1, WithMap DEF Memory
    <2>3. EnsureHealth(mem.health, {x})
            \in Map(NodeNames, {"unknown", "disabled"})
      BY <2>1, HealthMap DEF Memory
    <2> DEFINE m == [mem EXCEPT !.cfg.ins = @ \cup {x},
                                !.cfg.routing.rules = @ \cup {r},
                                !.inbounds = With(@, n, x),
                                !.rules = @ \cup {r},
                                !.traffic = @ \cup {n},
                                !.health = EnsureHealth(@, {x})]
    <2>4. m \in Memory /\ m.kernel = mem.kernel
      <3> HIDE DEF x, r
      <3>1. /\ mem.cfg.ins \cup {x} \in SUBSET Inbound
            /\ mem.cfg.routing.rules \cup {r} \in SUBSET Rule
            /\ mem.rules \cup {r} \in SUBSET Rule
            /\ mem.traffic \cup {n} \in SUBSET NodeNames
        BY <2>1 DEF Memory, Config, Routing, NodeNames
      <3> QED
        BY <2>2, <2>3, <3>1 DEF Memory, Config, Routing
    <2>5. Edit(m)
      BY <1>2 DEF CreateForward
    <2> HIDE DEF m
    <2> QED
      BY <2>4, <2>5, EditType
  <1>3. ASSUME NEW x \in Inbound, UpsertInbound(x) PROVE TypeInv'
    <2>1. PutInbound(mem, x).kernel = mem.kernel
      BY DEF PutInbound, Memory
    <2> QED
      BY <1>3, <2>1, PutInboundType, EditType DEF UpsertInbound
  <1>4. ASSUME NEW x \in NewOutbounds, NEW original \in OutNames \cup {NoName},
               UpsertOutbound(original, x)
        PROVE  TypeInv'
    <2>1. x \in Outbound /\ x.name \in OutNames
      BY StoreAssumption DEF Outbound
    <2>2. CASE original \in {NoName, x.name}
      <3>1. PutOutbound(mem, x).kernel = mem.kernel
        BY DEF PutOutbound, Memory
      <3> QED
        BY <1>4, <2>1, <2>2, <3>1, PutOutboundType, EditType DEF UpsertOutbound
    <2>3. CASE original \notin {NoName, x.name}
      <3> DEFINE renamed == RenameOutbound(mem, original, x.name)
      <3>1. renamed \in Memory /\ renamed.kernel = mem.kernel
        <4>1. renamed \in Memory
          BY <2>1, <2>3, RenameOutboundType
        <4> QED
          BY <4>1 DEF RenameOutbound, Memory
      <3> HIDE DEF renamed
      <3>2. /\ PutOutbound(renamed, x) \in Memory
            /\ PutOutbound(renamed, x).kernel = mem.kernel
        <4>1. PutOutbound(renamed, x) \in Memory
          BY <2>1, <3>1, PutOutboundType
        <4> QED
          BY <3>1, <4>1 DEF PutOutbound, Memory
      <3>3. Edit(PutOutbound(renamed, x))
        BY <1>4, <2>3 DEF UpsertOutbound, renamed
      <3> QED
        BY <3>2, <3>3, EditType
    <2> QED
      BY <2>2, <2>3
  <1>5. ASSUME NEW I \in SUBSET InNames, NEW O \in SUBSET OutNames,
               DeleteNodes(I, O)
        PROVE  TypeInv'
    <2>1. DropNodes(mem, I, O).kernel = mem.kernel
      BY DEF DropNodes, Memory
    <2> QED
      BY <1>5, <2>1, DropNodesType, EditType DEF DeleteNodes
  <1>6. ASSUME NEW I \in SUBSET InNames, NEW O \in SUBSET OutNames,
               NEW on \in BOOLEAN, SetNodesEnabled(I, O, on)
        PROVE  TypeInv'
    <2>1. SwitchNodes(mem, I, O, ~on).kernel = mem.kernel
      BY DEF SwitchNodes, Memory
    <2>2. SwitchNodes(mem, I, O, ~on) \in Memory
      BY SwitchNodesType
    <2> QED
      BY <1>6, <2>1, <2>2, EditType DEF SetNodesEnabled
  <1> QED
    BY <1>1, <1>2, <1>3, <1>4, <1>5, <1>6 DEF NodeOp

(* A memory whose kernel is configured as k asks for.                      *)
LEMMA ReconfiguredMemory ==
  ASSUME TypeInv, NEW m \in Memory, NEW k \in Kernel
  PROVE  /\ Configured(kernels, mem.kernel, k) \in Seq(KernelObject)
         /\ Len(Configured(kernels, mem.kernel, k)) >= Len(kernels)
         /\ LET r == [m EXCEPT !.kernel =
                        ConfiguredKernel(kernels, mem.kernel, k)]
            IN  /\ r \in Memory
                /\ r.kernel \in 1..Len(Configured(kernels, mem.kernel, k))
  <1>1. /\ Configured(kernels, mem.kernel, k) \in Seq(KernelObject)
        /\ Len(Configured(kernels, mem.kernel, k)) >= Len(kernels)
        /\ ConfiguredKernel(kernels, mem.kernel, k)
             \in 1..Len(Configured(kernels, mem.kernel, k))
    BY ConfiguredType DEF TypeInv, MemoryType
  <1>2. ConfiguredKernel(kernels, mem.kernel, k) \in Nat
    BY <1>1
  <1>3. [m EXCEPT !.kernel = ConfiguredKernel(kernels, mem.kernel, k)]
          \in Memory
    BY <1>2 DEF Memory
  <1> QED
    BY <1>1, <1>3 DEF Memory

LEMMA EnterConfiguredType ==
  ASSUME TypeInv, NEW m \in Memory, NEW k \in Kernel,
         Enter([m EXCEPT !.kernel = ConfiguredKernel(kernels, mem.kernel, k)]),
         kernels' = Configured(kernels, mem.kernel, k)
  PROVE  MemoryType'
  <1>1. /\ mem' = [m EXCEPT !.kernel = ConfiguredKernel(kernels, mem.kernel, k)]
        /\ snap' = mem
    BY DEF Enter
  <1>2. /\ mem' \in Memory /\ mem'.kernel \in 1..Len(kernels')
        /\ kernels' \in Seq(KernelObject)
        /\ Len(kernels') >= Len(kernels)
    BY <1>1, ReconfiguredMemory
  <1>3. snap'.kernel \in 1..Len(kernels')
    BY <1>1, <1>2 DEF TypeInv, MemoryType
  <1> QED
    BY <1>1, <1>2, <1>3 DEF TypeInv, MemoryType

LEMMA StopKernelType ==
  ASSUME MemoryType, UNCHANGED <<mem, snap>>, NEW i \in 1..Len(kernels),
         kernels' = Stopped(kernels, i)
  PROVE  MemoryType'
  BY StoppedType DEF MemoryType

LEMMA ApplyKernelType ==
  ASSUME TypeInv, NEW m \in {mem, snap}, mem' = m, snap' = snap,
         UNCHANGED <<file, history, pending, todo>>,
         KernelApplied(m) \/ KernelRefused(m)
  PROVE  MemoryType' /\ StoredType'
  <1>1. /\ kernels' \in Seq(KernelObject)
        /\ Len(kernels') = Len(kernels)
        /\ GenFileOK'
    BY AppliedType DEF TypeInv, MemoryType, StoredType, GenFileOK
  <1>2. MemoryType'
    BY <1>1 DEF TypeInv, MemoryType
  <1>3. StoredType'
    BY <1>1 DEF TypeInv, StoredType, GenFileOK
  <1> QED
    BY <1>2, <1>3

LEMMA PrunedType ==
  ASSUME NEW h \in Seq(Config), NEW keep \in Nat
  PROVE  Pruned(h, keep) \in Seq(Config)
  BY DEF Pruned

LEMMA SettingsOpType ==
  ASSUME TypeInv, SettingsOp
  PROVE  TypeInv'
  <1> USE DEF TypeInv
  <1>1. ASSUME NEW r \in NewRoutings, UpdateRoutingConfig(r) PROVE TypeInv'
    <2> DEFINE m == [mem EXCEPT !.cfg.routing = r, !.rules = r.rules]
    <2>1. r \in Routing
      BY StoreAssumption
    <2>2. m \in Memory /\ m.kernel = mem.kernel
      BY <2>1 DEF MemoryType, Memory, Config, Routing
    <2>3. Edit(m)
      BY <1>1 DEF UpdateRoutingConfig
    <2> HIDE DEF m
    <2> QED
      BY <2>2, <2>3, EditType
  <1>2. ASSUME NEW x \in NewMihomos, UpdateMihomoConfig(x) PROVE TypeInv'
    <2> DEFINE m == [mem EXCEPT !.cfg.mihomo = x]
    <2>1. x \in MihomoConfigs
      BY StoreAssumption
    <2>2. m \in Memory /\ m.kernel = mem.kernel
      BY <2>1 DEF MemoryType, Memory, Config
    <2>3. Edit(m)
      BY <1>2 DEF UpdateMihomoConfig
    <2> HIDE DEF m
    <2> QED
      BY <2>2, <2>3, EditType
  <1>3. ASSUME NEW k \in NewKernels, UpdateKernelConfig(k) PROVE TypeInv'
    <2>1. k \in Kernel
      BY StoreAssumption
    <2>2. [mem EXCEPT !.cfg.kernel = k] \in Memory
      BY <2>1 DEF MemoryType, Memory, Config
    <2>3. Enter([[mem EXCEPT !.cfg.kernel = k] EXCEPT
                  !.kernel = ConfiguredKernel(kernels, mem.kernel, k)])
      BY <1>3 DEF UpdateKernelConfig
    <2>4. MemoryType'
      BY <1>3, <2>1, <2>2, <2>3, EnterConfiguredType DEF UpdateKernelConfig
    <2>5. StoredType'
      BY <1>3, KeepStored DEF UpdateKernelConfig, Enter
    <2>6. ControlType' /\ pc' # "down"
      BY <1>3 DEF UpdateKernelConfig, Enter, ControlType, Phases
    <2> QED
      BY <2>4, <2>5, <2>6
  <1>4. ASSUME NEW k \in Kernel, KernelStopFails(k) PROVE TypeInv'
    <2>1. MemoryType'
      BY <1>4, StoppedType DEF KernelStopFails, Enter, MemoryType
    <2>2. /\ pending' \in {pending, NoConfig}
          /\ UNCHANGED <<genFile, file, history, todo>>
      BY <1>4 DEF KernelStopFails, Enter
    <2>3. StoredType'
      BY <2>2 DEF StoredType
    <2>4. ControlType' /\ pc' # "down"
      BY <1>4 DEF KernelStopFails, Enter, ControlType, Phases
    <2> QED
      BY <2>1, <2>3, <2>4
  <1>5. ASSUME NEW c \in EditedConfigs, EditConfigFile(c) PROVE TypeInv'
    <2>1. MemoryType'
      BY <1>5, KeepMemory DEF EditConfigFile
    <2>2. file' \in Config /\ UNCHANGED <<genFile, history, pending, todo>>
      BY <1>5, StoreAssumption DEF EditConfigFile
    <2>3. StoredType'
      BY <2>2 DEF StoredType
    <2>4. ControlType' /\ UNCHANGED <<pc, snap>>
      BY <1>5 DEF EditConfigFile, ControlType
    <2> QED
      BY <2>1, <2>3, <2>4
  <1>6. CASE ReadConfigFile
    <2>1. MemoryType'
      BY <1>6, KeepMemory DEF ReadConfigFile
    <2>2. /\ \/ pending' = NoConfig
             \/ file # Torn /\ pending' = Loaded(file)
          /\ UNCHANGED <<genFile, file, history, todo>>
      BY <1>6 DEF ReadConfigFile
    <2>3. StoredType'
      BY <2>2, LoadedType DEF StoredType
    <2>4. ControlType' /\ UNCHANGED <<pc, snap>>
      BY <1>6 DEF ReadConfigFile, ControlType, counters
    <2> QED
      BY <2>1, <2>3, <2>4
  <1>7. ASSUME NEW i \in DOMAIN history, ReadHistoryRow(i) PROVE TypeInv'
    <2>1. MemoryType'
      BY <1>7, KeepMemory DEF ReadHistoryRow
    <2>2. Loaded(history[i]) \in Config
      BY LoadedType DEF StoredType
    <2>3. StoredType'
      BY <1>7, <2>2 DEF ReadHistoryRow, StoredType
    <2>4. ControlType' /\ UNCHANGED <<pc, snap>>
      BY <1>7 DEF ReadHistoryRow, ControlType, counters
    <2> QED
      BY <2>1, <2>3, <2>4
  <1>8. CASE ApplyPending
    <2> DEFINE c == Enriched(pending)
    <2>1. c \in Config
      BY <1>8, EnrichedType DEF ApplyPending, StoredType
    <2>a. ApplyConfig(c)
      BY <1>8 DEF ApplyPending
    <2> HIDE DEF c
    <2>2. Replace(mem, c) \in Memory /\ c.kernel \in Kernel
      BY <2>1, ReplaceType DEF Config, MemoryType
    <2>3. MemoryType'
      BY <2>a, <2>2, EnterConfiguredType DEF ApplyConfig
    <2>4. pending' = NoConfig /\ UNCHANGED <<genFile, file, history, todo>>
      BY <1>8 DEF ApplyPending, ApplyConfig, Enter
    <2>5. StoredType'
      BY <2>4 DEF StoredType
    <2>6. ControlType' /\ pc' # "down"
      BY <1>8 DEF ApplyPending, ApplyConfig, Enter, ControlType, Phases
    <2> QED
      BY <2>3, <2>5, <2>6
  <1>9. ASSUME NEW keep \in 1..HistoryKeep, CleanupConfigHistory(keep)
        PROVE  TypeInv'
    <2>1. keep \in Nat
      BY StoreAssumption
    <2>2. history' \in Seq(Config)
      BY <1>9, <2>1, PrunedType DEF CleanupConfigHistory, StoredType
    <2>3. MemoryType'
      BY <1>9, KeepMemory DEF CleanupConfigHistory
    <2>4. StoredType'
      BY <1>9, <2>2 DEF CleanupConfigHistory, StoredType
    <2>5. ControlType' /\ UNCHANGED <<pc, snap>>
      BY <1>9 DEF CleanupConfigHistory, ControlType, counters
    <2> QED
      BY <2>3, <2>4, <2>5
  <1>10. CASE StopKernel
    <2>1. MemoryType'
      BY <1>10, StopKernelType DEF StopKernel, MemoryType
    <2>2. StoredType'
      BY <1>10, KeepStored DEF StopKernel
    <2>3. ControlType' /\ UNCHANGED <<pc, snap>>
      BY <1>10 DEF StopKernel, ControlType, counters
    <2> QED
      BY <2>1, <2>2, <2>3
  <1>11. CASE ReloadKernel
    <2>1. MemoryType' /\ StoredType'
      BY <1>11, ApplyKernelType DEF ReloadKernel
    <2>2. ControlType' /\ UNCHANGED <<pc, snap>>
      BY <1>11 DEF ReloadKernel, ControlType
    <2> QED
      BY <2>1, <2>2
  <1>12. CASE RefusePending
    <2>1. MemoryType'
      BY <1>12, KeepMemory DEF RefusePending
    <2>2. StoredType'
      BY <1>12 DEF RefusePending, StoredType
    <2>3. ControlType' /\ UNCHANGED <<pc, snap>>
      BY <1>12 DEF RefusePending, ControlType, counters
    <2> QED
      BY <2>1, <2>2, <2>3
  <1> QED
    BY <1>1, <1>2, <1>3, <1>4, <1>5, <1>6, <1>7, <1>8, <1>9, <1>10, <1>11,
       <1>12 DEF SettingsOp

LEMMA LandingsType ==
  ASSUME NEW m \in Memory, NEW it \in ImportedItem, NEW x \in Landings(m, it)
  PROVE  x \in Outbound
  <1> DEFINE y == EnrichedOutbound(it.node)
             matches == Matching(m, y, it.strategy)
  <1>1. y \in Outbound
    BY EnrichedOutboundType DEF ImportedItem
  <1>2. /\ DOMAIN m.outbounds \subseteq OutNames
        /\ \A n \in DOMAIN m.outbounds : m.outbounds[n] \in Outbound
    BY MapElim DEF Memory
  <1>3. CASE matches # {}
    <2>1. PICK n \in matches : x = Merged(m, n, y, it)
      BY <1>3 DEF Landings
    <2>2. n \in DOMAIN m.outbounds
      BY <2>1 DEF Matching
    <2> HIDE DEF y, matches
    <2>3. /\ n \in OutNames
          /\ m.outbounds[n].dis \in BOOLEAN /\ m.outbounds[n].content \in Contents
      BY <1>2, <2>2 DEF Outbound
    <2>4. y.content \in Contents /\ y.dis \in BOOLEAN
      BY <1>1 DEF Outbound
    <2>5. MergedContent[<<m.outbounds[n].content, y.content>>] \in Contents
      BY <2>3, <2>4, ModelAssumption
    <2> QED
      BY <2>1, <2>3, <2>4, <2>5 DEF Merged, Outbound
  <1>4. CASE matches = {}
    <2>1. PICK n \in OutNames : x = [y EXCEPT !.name = n]
      BY <1>1, <1>4 DEF Landings, Outbound
    <2> HIDE DEF y
    <2> QED
      BY <1>1, <2>1 DEF Outbound
  <1> QED
    BY <1>3, <1>4

LEMMA ImportOpType ==
  ASSUME TypeInv, ImportOp
  PROVE  TypeInv'
  <1> USE DEF TypeInv
  <1>1. ASSUME NEW items \in Imports, StartImport(items) PROVE TypeInv'
    <2>1. items \in Seq(ImportedItem)
      BY StoreAssumption
    <2>2. MemoryType'
      BY <1>1 DEF StartImport, Enter, MemoryType
    <2>3. todo' = items /\ UNCHANGED <<genFile, file, history, pending>>
      BY <1>1 DEF StartImport, Enter
    <2>4. StoredType'
      BY <2>1, <2>3 DEF StoredType
    <2>5. ControlType' /\ pc' # "down"
      BY <1>1 DEF StartImport, Enter, ControlType, Phases
    <2> QED
      BY <2>2, <2>4, <2>5
  <1>2. CASE ImportItem
    <2>1. Head(todo) \in ImportedItem /\ Tail(todo) \in Seq(ImportedItem)
      BY <1>2, HeadTailProperties DEF ImportItem, StoredType
    <2>2. PICK x \in Landings(mem, Head(todo)) :
            OutboundValid(x) /\ mem' = PutOutbound(mem, x)
      BY <1>2 DEF ImportItem
    <2>3. x \in Outbound
      BY <2>1, <2>2, LandingsType DEF MemoryType
    <2>4. mem' \in Memory
      BY <2>2, <2>3, PutOutboundType DEF MemoryType
    <2>5. mem'.kernel = mem.kernel
      BY <2>2 DEF PutOutbound, Memory, MemoryType
    <2>6. MemoryType'
      BY <1>2, <2>4, <2>5 DEF ImportItem, MemoryType
    <2>7. todo' = Tail(todo) /\ UNCHANGED <<genFile, file, history, pending>>
      BY <1>2 DEF ImportItem
    <2>8. StoredType'
      BY <2>1, <2>7 DEF StoredType
    <2>9. ControlType' /\ UNCHANGED <<pc, snap>>
      BY <1>2 DEF ImportItem, ControlType, counters
    <2> QED
      BY <2>6, <2>8, <2>9
  <1>3. CASE ImportAborts
    <2>1. MemoryType'
      BY <1>3, KeepMemory DEF ImportAborts
    <2>2. todo' \in Seq(ImportedItem) /\ UNCHANGED <<genFile, file, history, pending>>
      BY <1>3 DEF ImportAborts
    <2>3. StoredType'
      BY <2>2 DEF StoredType
    <2>4. ControlType' /\ pc' # "down"
      BY <1>3 DEF ImportAborts, ControlType, Phases, counters
    <2> QED
      BY <2>1, <2>3, <2>4
  <1>4. CASE ImportEnds
    <2>1. MemoryType' /\ StoredType'
      BY <1>4, KeepMemory, KeepStored DEF ImportEnds
    <2>2. ControlType' /\ pc' # "down"
      BY <1>4 DEF ImportEnds, ControlType, Phases, counters
    <2> QED
      BY <2>1, <2>2
  <1> QED
    BY <1>1, <1>2, <1>3, <1>4 DEF ImportOp

(* What is left of a configuration is a configuration.                     *)
LEMMA CutShortType ==
  ASSUME NEW T, NEW items, items \subseteq T,
         \A x \in T : [x EXCEPT !.dis = FALSE] \in T,
         NEW cut \in CutShort(items)
  PROVE  cut \subseteq T
  <1>1. CASE cut \in SUBSET items
    BY <1>1
  <1>2. ASSUME NEW I \in SUBSET items, NEW x \in items \ I,
               cut = I \cup {[x EXCEPT !.dis = FALSE]}
        PROVE  cut \subseteq T
    BY <1>2
  <1> QED
    BY <1>1, <1>2 DEF CutShort

LEMMA EmptyConfigType ==
  EmptyConfig \in Config /\ EmptyRouting \in Routing
  BY ModelAssumption
     DEF EmptyConfig, EmptyRouting, Config, Routing, Kernel

LEMMA PrefixesType ==
  ASSUME NEW c \in Config, NEW p \in Prefixes(c)
  PROVE  p \in Config /\ Loads(p)
  <1>1. Loads(p)
    BY DEF Prefixes
  <1>2. /\ EmptyConfig \in Config /\ EmptyRouting \in Routing
        /\ NoMihomo \in MihomoConfigs
    BY EmptyConfigType, ModelAssumption
  <1>3. ASSUME NEW e \in {"good", "bad"},
               p = [EmptyConfig EXCEPT !.kernel = [c.kernel EXCEPT !.exe = e]]
        PROVE  p \in Config
    <2>1. [c.kernel EXCEPT !.exe = e] \in Kernel
      BY DEF Config, Kernel
    <2> QED
      BY <1>2, <1>3, <2>1 DEF Config
  <1>4. ASSUME NEW I \in CutShort(c.ins),
               p = [EmptyConfig EXCEPT !.kernel = c.kernel, !.ins = I]
        PROVE  p \in Config
    <2>1. \A x \in Inbound : [x EXCEPT !.dis = FALSE] \in Inbound
      BY DEF Inbound
    <2>2. I \subseteq Inbound
      BY <2>1, CutShortType DEF Config
    <2> QED
      BY <1>2, <1>4, <2>2 DEF Config
  <1>5. ASSUME NEW O \in CutShort(c.outs),
               p = [EmptyConfig EXCEPT !.kernel = c.kernel, !.ins = c.ins,
                                       !.outs = O]
        PROVE  p \in Config
    <2>1. \A x \in Outbound : [x EXCEPT !.dis = FALSE] \in Outbound
      BY DEF Outbound
    <2>2. O \subseteq Outbound
      BY <2>1, CutShortType DEF Config
    <2> QED
      BY <1>2, <1>5, <2>2 DEF Config
  <1>6. ASSUME NEW r \in CutRouting(c.routing),
               p = [c EXCEPT !.routing = r, !.mihomo = NoMihomo]
        PROVE  p \in Config
    <2>1. \A x \in Rule : [x EXCEPT !.dis = FALSE] \in Rule
      BY DEF Rule
    <2>2. c.routing \in Routing
      BY DEF Config
    <2>3. \A R \in CutShort(c.routing.rules) : R \subseteq Rule
      BY <2>1, <2>2, CutShortType DEF Routing
    <2>4. /\ [EmptyRouting EXCEPT !.mode = c.routing.mode] \in Routing
          /\ [[EmptyRouting EXCEPT !.mode = c.routing.mode]
                EXCEPT !.preset = c.routing.preset] \in Routing
      BY <1>2, <2>2 DEF Routing
    <2>5. \A R \in CutShort(c.routing.rules) :
            [c.routing EXCEPT !.rules = R] \in Routing
      BY <2>2, <2>3 DEF Routing
    <2>6. r \in Routing
      BY <1>2, <2>4, <2>5 DEF CutRouting
    <2> QED
      BY <1>2, <1>6, <2>6 DEF Config
  <1>7. ASSUME NEW x \in MihomoConfigs, p = [c EXCEPT !.mihomo = x]
        PROVE  p \in Config
    BY <1>7 DEF Config
  <1> QED
    BY <1>1, <1>2, <1>3, <1>4, <1>5, <1>6, <1>7 DEF Prefixes

LEMMA CommitType ==
  ASSUME TypeInv, Commit
  PROVE  TypeInv'
  <1> USE DEF TypeInv
  <1>1. CASE CommitValidate
    <2>1. MemoryType' /\ StoredType'
      BY <1>1, KeepMemory, KeepStored DEF CommitValidate
    <2>2. ControlType' /\ pc' # "down"
      BY <1>1 DEF CommitValidate, ControlType, Phases, counters
    <2> QED
      BY <2>1, <2>2
  <1>2. CASE CommitApply
    <2>1. MemoryType' /\ StoredType'
      BY <1>2, ApplyKernelType DEF CommitApply
    <2>2. ControlType' /\ pc' # "down"
      BY <1>2 DEF CommitApply, ControlType, Phases, counters
    <2> QED
      BY <2>1, <2>2
  <1>3. CASE CommitSave \/ CommitWrite
    <2>1. MemoryType'
      BY <1>3, KeepMemory DEF CommitSave, CommitWrite
    <2>2. /\ file' \in {file, EmptyConfig, mem.cfg, Torn} \cup Prefixes(mem.cfg)
          /\ UNCHANGED <<genFile, history, pending, todo>>
      BY <1>3 DEF CommitSave, CommitWrite
    <2>3. mem.cfg \in Config
      BY DEF MemoryType, Memory
    <2>4. file' \in Config \cup {Torn}
      BY <2>2, <2>3, EmptyConfigType, PrefixesType DEF StoredType
    <2>5. StoredType'
      BY <2>2, <2>4 DEF StoredType
    <2>6. ControlType' /\ pc' # "down"
      BY <1>3 DEF CommitSave, CommitWrite, ControlType, Phases, counters
    <2> QED
      BY <2>1, <2>5, <2>6
  <1>4. CASE CommitHistory
    <2>1. mem.cfg \in Config /\ HistoryKeep \in Nat
      BY StoreAssumption DEF MemoryType, Memory
    <2>2. Append(history, mem.cfg) \in Seq(Config)
      BY <2>1 DEF StoredType
    <2>3. history' \in Seq(Config)
      BY <1>4, <2>1, <2>2, PrunedType DEF CommitHistory, StoredType
    <2>4. MemoryType'
      BY <1>4, KeepMemory DEF CommitHistory
    <2>5. StoredType'
      BY <1>4, <2>3 DEF CommitHistory, StoredType
    <2>6. ControlType' /\ pc' # "down"
      BY <1>4 DEF CommitHistory, DatabaseFails, ControlType, Phases, counters
    <2> QED
      BY <2>4, <2>5, <2>6
  <1>5. CASE CommitRuntime
    <2>1. snap' \in {snap, mem} /\ UNCHANGED <<mem, kernels>>
      BY <1>5 DEF CommitRuntime
    <2>2. MemoryType'
      BY <2>1 DEF MemoryType
    <2>3. StoredType'
      BY <1>5, KeepStored DEF CommitRuntime
    <2>4. ControlType' /\ pc' # "down"
      BY <1>5 DEF CommitRuntime, DatabaseFails, ControlType, Phases, counters
    <2> QED
      BY <2>2, <2>3, <2>4
  <1>6. CASE Rollback
    <2>1. MemoryType' /\ StoredType'
      BY <1>6, ApplyKernelType DEF Rollback
    <2>2. ControlType' /\ pc' # "down"
      BY <1>6 DEF Rollback, ControlType, Phases, counters
    <2> QED
      BY <2>1, <2>2
  <1> QED
    BY <1>1, <1>2, <1>3, <1>4, <1>5, <1>6 DEF Commit

(* What a start leaves of the file that it has loaded.                     *)
LEMMA BootWrites ==
  ASSUME file \in Config, BootLoads
  PROVE  file' \in Config \cup {Torn}
  BY LoadedType, PrefixesType DEF BootLoads

LEMMA EnvironmentType ==
  ASSUME TypeInv, Environment
  PROVE  TypeInv'
  <1> USE DEF TypeInv
  <1>1. ASSUME Die, file' \in Config \cup {Torn},
               genFile' \in [KernelTypes -> Runtime \cup {NotRunning, Torn}]
        PROVE  TypeInv'
    <2>1. MemoryType' /\ snap'.kernel = 1
      BY <1>1, FreshType DEF Die, MemoryType
    <2>2. /\ todo' \in Seq(ImportedItem)
          /\ pending' = NoConfig
          /\ UNCHANGED history
      BY <1>1 DEF Die
    <2>3. StoredType'
      BY <1>1, <2>2 DEF StoredType
    <2>4. /\ pc' = "down" /\ op' = "boot" /\ touched' = FALSE
          /\ outcome' = "none" /\ crashes' = crashes + 1 /\ ops' = ops
          /\ cause' = "none"
      BY <1>1 DEF Die
    <2>5. crashes' \in Nat /\ ops' \in Nat
      BY <2>4 DEF ControlType
    <2>6. ControlType'
      BY <2>4, <2>5 DEF ControlType, Phases
    <2> QED
      BY <2>1, <2>3, <2>6
  <1>2. CASE Crash
    <2>1. mem.cfg.kernel.type \in KernelTypes /\ snap.cfg.kernel.type \in KernelTypes
      BY DEF MemoryType, Memory, Config, Kernel
    <2>2. genFile' \in [KernelTypes -> Runtime \cup {NotRunning, Torn}]
      BY <1>2, <2>1 DEF Crash, StoredType
    <2>3. file' \in Config \cup {Torn} /\ Die
      BY <1>2, PrefixesType DEF Crash, StoredType, MemoryType, Memory
    <2> QED
      BY <1>1, <2>2, <2>3
  <1>3. CASE BootFails
    BY <1>1, <1>3 DEF BootFails, StoredType
  <1>4. CASE Boot
    <2>1. file \in Config /\ BootLoads
      BY <1>4 DEF Boot, BootLoads, StoredType
    <2>2. Replace(Fresh, Taken(file)) \in Memory /\ file.kernel \in Kernel
      BY <2>1, FreshType, TakenType, ReplaceType DEF Config
    <2> DEFINE made == ConfiguredKernel(FreshKernels, 1, file.kernel)
    <2>3. /\ Configured(FreshKernels, 1, file.kernel) \in Seq(KernelObject)
          /\ Len(Configured(FreshKernels, 1, file.kernel)) >= 1
          /\ made \in 1..Len(Configured(FreshKernels, 1, file.kernel))
      <3>1. 1 \in 1..Len(FreshKernels)
        BY FreshType
      <3> QED
        BY <2>2, <3>1, FreshType, ConfiguredType
    <2>4. /\ kernels' \in Seq(KernelObject)
          /\ Len(kernels') >= 1
          /\ made \in 1..Len(kernels')
      BY <1>4, <2>3 DEF Boot
    <2>5. mem' = [Replace(Fresh, Taken(file)) EXCEPT !.kernel = made]
      BY <1>4 DEF Boot
    <2> HIDE DEF made
    <2>6. mem' \in Memory /\ mem'.kernel = made
      BY <2>2, <2>4, <2>5 DEF Memory
    <2>7. snap.kernel = 1 /\ snap' = snap
      BY <1>4, <2>1 DEF Boot, BootLoads
    <2>8. MemoryType'
      BY <2>4, <2>6, <2>7 DEF MemoryType
    <2>9. /\ file' \in Config \cup {Torn}
          /\ UNCHANGED <<genFile, history, pending, todo>>
      BY <1>4, <2>1, BootWrites DEF Boot
    <2>10. StoredType'
      BY <2>9 DEF StoredType
    <2>11. ControlType' /\ pc' # "down"
      BY <1>4 DEF Boot, BootLoads, ControlType, Phases, counters
    <2> QED
      BY <2>8, <2>10, <2>11
  <1>5. ASSUME NEW i \in 1..Len(kernels), KernelExits(i) PROVE TypeInv'
    <2>1. MemoryType'
      BY <1>5, StopKernelType DEF KernelExits
    <2>2. StoredType'
      BY <1>5, KeepStored DEF KernelExits
    <2>3. ControlType' /\ UNCHANGED <<pc, snap>>
      BY <1>5 DEF KernelExits, ControlType, counters
    <2> QED
      BY <2>1, <2>2, <2>3
  <1>6. CASE BootRefused
    <2>1. MemoryType'
      BY <1>6, KeepMemory DEF BootRefused
    <2>2. /\ file' \in Config \cup {Torn}
          /\ UNCHANGED <<genFile, history, pending, todo>>
      BY <1>6, BootWrites DEF BootRefused, StoredType, BootLoads
    <2>3. StoredType'
      BY <2>2 DEF StoredType
    <2>4. ControlType' /\ UNCHANGED <<pc, snap>>
      BY <1>6 DEF BootRefused, BootLoads, ControlType, counters
    <2> QED
      BY <2>1, <2>3, <2>4
  <1> QED
    BY <1>2, <1>3, <1>4, <1>5, <1>6 DEF Environment

LEMMA StutterType ==
  ASSUME TypeInv, UNCHANGED vars
  PROVE  TypeInv'
  <1>1. MemoryType' /\ StoredType'
    BY KeepMemory, KeepStored DEF TypeInv, vars
  <1>2. ControlType' /\ UNCHANGED <<pc, snap>>
    BY DEF TypeInv, ControlType, vars
  <1> QED
    BY <1>1, <1>2 DEF TypeInv

LEMMA TypeInvariant == Spec => []TypeInv
  <1>1. Init => TypeInv
    BY InitType
  <1>2. TypeInv /\ [Next]_vars => TypeInv'
    BY NodeOpType, SettingsOpType, ImportOpType, CommitType, EnvironmentType,
       StutterType DEF Next
  <1> QED
    BY <1>1, <1>2, PTL DEF Spec

(* The manager keeps well typed state whatever handlers, restores, edits   *)
(* of config.yaml, failures and crashes follow each other; in particular   *)
(* its kernel pointer, and the one a rollback puts back, always name a     *)
(* kernel object that exists.                                              *)
THEOREM TypeCorrect == Spec => []TypeOK
  <1>1. TypeInv => TypeOK
    BY DEF TypeInv, TypeOK
  <1> QED
    BY <1>1, TypeInvariant, PTL

----------------------------------------------------------------------------
(* What a step may do to the kernel objects and to the generated files.    *)

KernelStep ==
  \/ UNCHANGED <<kernels, genFile>>
  \/ \E m \in {mem, snap} : KernelApplied(m) \/ KernelRefused(m)
  \/ /\ \E i \in 1..Len(kernels) : kernels' = Stopped(kernels, i)
     /\ UNCHANGED genFile
  \/ /\ \E k \in Kernel : kernels' = Configured(kernels, mem.kernel, k)
     /\ UNCHANGED genFile
  \/ /\ \/ kernels' = FreshKernels
        \/ \E k \in Kernel : kernels' = Configured(FreshKernels, 1, k)
     /\ genFile' \in {genFile} \cup
                     {[genFile EXCEPT ![t] = Torn] : t \in KernelTypes}

LEMMA KernelSteps ==
  ASSUME TypeInv, [Next]_vars
  PROVE  KernelStep
  <1>1. mem.kernel \in 1..Len(kernels) /\ mem.cfg.kernel.type \in KernelTypes
    BY DEF TypeInv, MemoryType, Memory, Config, Kernel
  <1>2. CASE NodeOp
    <2>1. \A m : Edit(m) => UNCHANGED <<kernels, genFile>>
      BY DEF Edit, Enter
    <2> QED
      BY <1>2, <2>1 DEF NodeOp, CreateProxy, CreateForward, UpsertInbound,
         UpsertOutbound, DeleteNodes, SetNodesEnabled, KernelStep
  <1>3. CASE SettingsOp
    <2>1. ASSUME NEW r, UpdateRoutingConfig(r) PROVE KernelStep
      BY <2>1 DEF UpdateRoutingConfig, Edit, Enter, KernelStep
    <2>2. ASSUME NEW x, UpdateMihomoConfig(x) PROVE KernelStep
      BY <2>2 DEF UpdateMihomoConfig, Edit, Enter, KernelStep
    <2>3. ASSUME NEW k \in NewKernels, UpdateKernelConfig(k) PROVE KernelStep
      BY <2>3, StoreAssumption DEF UpdateKernelConfig, Enter, KernelStep
    <2>4. ASSUME NEW k, KernelStopFails(k) PROVE KernelStep
      BY <1>1, <2>4 DEF KernelStopFails, Enter, KernelStep
    <2>5. ASSUME NEW c, EditConfigFile(c) PROVE KernelStep
      BY <2>5 DEF EditConfigFile, KernelStep
    <2>6. CASE ReadConfigFile
      BY <2>6 DEF ReadConfigFile, KernelStep
    <2>7. ASSUME NEW i, ReadHistoryRow(i) PROVE KernelStep
      BY <2>7 DEF ReadHistoryRow, KernelStep
    <2>8. CASE ApplyPending
      <3>1. Enriched(pending).kernel \in Kernel
        BY <2>8, EnrichedType DEF ApplyPending, TypeInv, StoredType, Config
      <3> QED
        BY <2>8, <3>1 DEF ApplyPending, ApplyConfig, Enter, KernelStep
    <2>9. ASSUME NEW keep, CleanupConfigHistory(keep) PROVE KernelStep
      BY <2>9 DEF CleanupConfigHistory, KernelStep
    <2>10. CASE StopKernel
      BY <1>1, <2>10 DEF StopKernel, KernelStep
    <2>11. CASE ReloadKernel
      BY <2>11 DEF ReloadKernel, KernelStep
    <2>12. CASE RefusePending
      BY <2>12 DEF RefusePending, KernelStep
    <2> QED
      BY <1>3, <2>1, <2>2, <2>3, <2>4, <2>5, <2>6, <2>7, <2>8, <2>9, <2>10,
         <2>11, <2>12 DEF SettingsOp
  <1>4. CASE ImportOp
    BY <1>4 DEF ImportOp, StartImport, Enter, ImportItem, ImportAborts,
       ImportEnds, KernelStep
  <1>5. CASE Commit
    BY <1>5 DEF Commit, CommitValidate, CommitApply, CommitSave, CommitWrite,
       CommitHistory, CommitRuntime, Rollback, KernelStep
  <1>6. CASE Environment
    <2>1. CASE Crash
      <3>1. snap.cfg.kernel.type \in KernelTypes
        BY DEF TypeInv, MemoryType, Memory, Config, Kernel
      <3> QED
        BY <1>1, <2>1, <3>1 DEF Crash, Die, KernelStep
    <2>2. CASE BootFails
      BY <2>2 DEF BootFails, Die, KernelStep
    <2>3. CASE Boot
      <3>1. file.kernel \in Kernel
        BY <2>3 DEF Boot, BootLoads, TypeInv, StoredType, Config
      <3> QED
        BY <2>3, <3>1 DEF Boot, KernelStep
    <2>4. ASSUME NEW i \in 1..Len(kernels), KernelExits(i) PROVE KernelStep
      BY <2>4 DEF KernelExits, KernelStep
    <2>5. CASE BootRefused
      BY <2>5 DEF BootRefused, KernelStep
    <2> QED
      BY <1>6, <2>1, <2>2, <2>3, <2>4, <2>5 DEF Environment
  <1>7. CASE UNCHANGED vars
    BY <1>7 DEF vars, KernelStep
  <1> QED
    BY <1>2, <1>3, <1>4, <1>5, <1>6, <1>7 DEF Next

----------------------------------------------------------------------------
(* What a step may do to everything else, once the edits of the single     *)
(* handlers are set aside.                                                 *)

(* The kernel pointer follows the kernel section of the configuration.     *)
KernelEdit ==
  \/ /\ mem'.kernel = mem.kernel
     /\ mem'.cfg.kernel = mem.cfg.kernel
     /\ UNCHANGED kernels
  \/ \E k \in Kernel :
       /\ mem'.kernel = ConfiguredKernel(kernels, mem.kernel, k)
       /\ mem'.cfg.kernel = k
       /\ kernels' = Configured(kernels, mem.kernel, k)

HandlerEnters ==
  /\ pc = "idle"
  /\ pc' \in {"validate", "import"}
  /\ snap' = mem
  /\ outcome' = "none"
  /\ KernelEdit
  /\ pc' = "import" => mem' = mem
  /\ UNCHANGED <<genFile, file, history, table, cause, op>>

OnlyReads ==
  UNCHANGED <<mem, snap, kernels, genFile, file, history, table, pc, op,
              outcome, cause>>

LEMMA EditEnters ==
  ASSUME NEW m, m.kernel = mem.kernel, m.cfg.kernel = mem.cfg.kernel, Edit(m)
  PROVE  HandlerEnters
  BY DEF Edit, Enter, HandlerEnters, KernelEdit

LEMMA NodeOpEnters ==
  ASSUME TypeInv, NodeOp
  PROVE  HandlerEnters
  <1>1. mem \in Memory
    BY DEF TypeInv, MemoryType
  <1>2. ASSUME NEW n \in InNames, CreateProxy(n) PROVE HandlerEnters
    BY <1>1, <1>2, EditEnters DEF CreateProxy, Memory, Config
  <1>3. ASSUME NEW n \in InNames, CreateForward(n) PROVE HandlerEnters
    BY <1>1, <1>3, EditEnters DEF CreateForward, Memory, Config
  <1>4. ASSUME NEW x \in Inbound, UpsertInbound(x) PROVE HandlerEnters
    BY <1>1, <1>4, EditEnters DEF UpsertInbound, PutInbound, Memory, Config
  <1>5. \A m \in Memory : \A x :
          /\ PutOutbound(m, x).kernel = m.kernel
          /\ PutOutbound(m, x).cfg.kernel = m.cfg.kernel
    BY DEF PutOutbound, Memory, Config
  <1>6. ASSUME NEW x \in NewOutbounds, NEW original \in OutNames \cup {NoName},
               UpsertOutbound(original, x)
        PROVE  HandlerEnters
    <2>1. CASE original \in {NoName, x.name}
      BY <1>1, <1>5, <1>6, <2>1, EditEnters DEF UpsertOutbound
    <2>2. CASE original \notin {NoName, x.name}
      <3> DEFINE renamed == RenameOutbound(mem, original, x.name)
      <3>1. x.name \in OutNames
        BY StoreAssumption DEF Outbound
      <3>2. renamed \in Memory
        BY <1>1, <2>2, <3>1, RenameOutboundType
      <3>3. /\ renamed.kernel = mem.kernel
            /\ renamed.cfg.kernel = mem.cfg.kernel
        BY <1>1 DEF RenameOutbound, Memory, Config
      <3>4. Edit(PutOutbound(renamed, x))
        BY <1>6, <2>2 DEF UpsertOutbound
      <3> HIDE DEF renamed
      <3> QED
        BY <1>5, <3>2, <3>3, <3>4, EditEnters
    <2> QED
      BY <2>1, <2>2
  <1>7. ASSUME NEW I, NEW O, DeleteNodes(I, O) PROVE HandlerEnters
    BY <1>1, <1>7, EditEnters DEF DeleteNodes, DropNodes, Memory, Config
  <1>8. ASSUME NEW I, NEW O, NEW on, SetNodesEnabled(I, O, on)
        PROVE  HandlerEnters
    BY <1>1, <1>8, EditEnters DEF SetNodesEnabled, SwitchNodes, Memory, Config
  <1> QED
    BY <1>2, <1>3, <1>4, <1>6, <1>7, <1>8 DEF NodeOp

LEMMA StepCases ==
  ASSUME TypeInv, [Next]_vars
  PROVE  \/ HandlerEnters
         \/ OnlyReads
         \/ \E k \in Kernel : KernelStopFails(k)
         \/ \E c \in EditedConfigs : EditConfigFile(c)
         \/ \E keep \in 1..HistoryKeep : CleanupConfigHistory(keep)
         \/ StopKernel
         \/ ReloadKernel
         \/ ImportItem \/ ImportAborts \/ ImportEnds
         \/ Commit
         \/ Crash \/ BootFails \/ Boot \/ BootRefused
         \/ \E i \in 1..Len(kernels) : KernelExits(i)
  <1>1. mem \in Memory
    BY DEF TypeInv, MemoryType
  <1>2. ASSUME NEW r \in NewRoutings, UpdateRoutingConfig(r)
        PROVE  HandlerEnters
    BY <1>1, <1>2, EditEnters DEF UpdateRoutingConfig, Memory, Config
  <1>3. ASSUME NEW x \in NewMihomos, UpdateMihomoConfig(x) PROVE HandlerEnters
    BY <1>1, <1>3, EditEnters DEF UpdateMihomoConfig, Memory, Config
  <1>4. ASSUME NEW k \in NewKernels, UpdateKernelConfig(k) PROVE HandlerEnters
    <2>1. k \in Kernel
      BY StoreAssumption
    <2>2. /\ mem'.kernel = ConfiguredKernel(kernels, mem.kernel, k)
          /\ mem'.cfg.kernel = k
      BY <1>1, <1>4 DEF UpdateKernelConfig, Enter, Memory, Config
    <2> QED
      BY <1>4, <2>1, <2>2
         DEF UpdateKernelConfig, Enter, HandlerEnters, KernelEdit
  <1>5. CASE ReadConfigFile
    BY <1>5 DEF ReadConfigFile, OnlyReads
  <1>6. ASSUME NEW i, ReadHistoryRow(i) PROVE OnlyReads
    BY <1>6 DEF ReadHistoryRow, OnlyReads
  <1>7. CASE ApplyPending
    <2> DEFINE c == Enriched(pending)
    <2>1. c.kernel \in Kernel
      BY <1>7, EnrichedType DEF ApplyPending, TypeInv, StoredType, Config
    <2>2. ApplyConfig(c) /\ UNCHANGED <<file, cause>>
      BY <1>7 DEF ApplyPending
    <2> HIDE DEF c
    <2>3. /\ mem'.kernel = ConfiguredKernel(kernels, mem.kernel, c.kernel)
          /\ mem'.cfg.kernel = c.kernel
      BY <1>1, <2>2 DEF ApplyConfig, Enter, Replace, Memory, Config
    <2> QED
      BY <2>1, <2>2, <2>3 DEF ApplyConfig, Enter, HandlerEnters, KernelEdit
  <1>8. ASSUME NEW items, StartImport(items) PROVE HandlerEnters
    BY <1>8 DEF StartImport, Enter, HandlerEnters, KernelEdit
  <1>9. CASE UNCHANGED vars
    BY <1>9 DEF vars, OnlyReads
  <1>10. CASE RefusePending
    BY <1>10 DEF RefusePending, OnlyReads
  <1> QED
    BY <1>2, <1>3, <1>4, <1>5, <1>6, <1>7, <1>8, <1>9, <1>10, NodeOpEnters
       DEF Next, SettingsOp, ImportOp, Environment

----------------------------------------------------------------------------
(* What is saved.                                                          *)

AllValid(h) == \A i \in DOMAIN h : Validate(h[i])

LEMMA PrunedRows ==
  ASSUME NEW h \in Seq(Config), NEW keep \in Nat
  PROVE  /\ Pruned(h, keep) \in Seq(Config)
         /\ Len(Pruned(h, keep)) = IF Len(h) > keep THEN keep ELSE Len(h)
         /\ \A i \in 1..Len(Pruned(h, keep)) :
              Pruned(h, keep)[i] = h[i + Len(h) - Len(Pruned(h, keep))]
  <1>1. CASE Len(h) > keep
    <2> DEFINE first == Len(h) - keep + 1
    <2>1. first \in 1..Len(h) + 1 /\ Len(h) \in first - 1..Len(h)
      BY <1>1
    <2>2. Pruned(h, keep) = SubSeq(h, first, Len(h))
      BY <1>1 DEF Pruned
    <2>3. /\ SubSeq(h, first, Len(h)) \in Seq(Config)
          /\ Len(SubSeq(h, first, Len(h))) = keep
          /\ \A i \in 1..keep :
               SubSeq(h, first, Len(h))[i] = h[i + Len(h) - keep]
      BY <1>1, <2>1, SubSeqProperties
    <2> QED
      BY <1>1, <2>2, <2>3
  <1>2. CASE ~(Len(h) > keep)
    BY <1>2 DEF Pruned
  <1> QED
    BY <1>1, <1>2

LEMMA PrunedValid ==
  ASSUME NEW h \in Seq(Config), NEW keep \in Nat, AllValid(h)
  PROVE  AllValid(Pruned(h, keep))
  BY PrunedRows DEF AllValid

(* Once Validate has passed, the configuration does not change until the   *)
(* commit is over.                                                         *)
Checked ==
  pc \in {"apply", "save", "write", "history", "runtime"}
    => Validate(mem.cfg)

LEMMA EmptyConfigValid ==
  Validate(EmptyConfig)
  BY DEF EmptyConfig, EmptyRouting, Validate, Distinct, DistinctRules,
     RoutingValid

(* The normalisation of the routing only leaves rules out, and to repeat   *)
(* it changes nothing.                                                     *)
LEMMA NormalizedTwice ==
  ASSUME NEW r \in Routing
  PROVE  /\ NormalizedRouting(r) \in Routing
         /\ NormalizedRouting(NormalizedRouting(r)) = NormalizedRouting(r)
         /\ NormalizedRouting(r).rules \subseteq r.rules
         /\ NormalizedRouting(r).mode = r.mode
         /\ NormalizedRouting(r).preset = r.preset
         /\ NormalizedRouting(r).def = r.def
  <1> DEFINE N == NormalizedRouting(r)
             left == IF r.preset THEN {x \in r.rules : ~LegacyRule(x)}
                     ELSE r.rules
             again == IF r.preset THEN {x \in left : ~LegacyRule(x)} ELSE left
  <1>1. N = [r EXCEPT !.rules = left]
    BY DEF NormalizedRouting
  <1>2. left \subseteq r.rules /\ again = left
    OBVIOUS
  <1> HIDE DEF left
  <1>3. /\ N \in Routing /\ N.rules = left /\ N.mode = r.mode
        /\ N.preset = r.preset /\ N.def = r.def
    BY <1>1, <1>2 DEF Routing
  <1>4. NormalizedRouting(N) = [N EXCEPT !.rules = again]
    BY <1>3 DEF NormalizedRouting
  <1> HIDE DEF N, again
  <1>5. NormalizedRouting(N) = N
    BY <1>2, <1>3, <1>4 DEF Routing
  <1> QED
    BY <1>2, <1>3, <1>5 DEF N

LEMMA LoadedTwice ==
  ASSUME NEW c \in Config
  PROVE  Loaded(Loaded(c)) = Loaded(c)
  <1>1. c.routing \in Routing
    BY DEF Config
  <1> DEFINE L == Loaded(c)
  <1>2. L \in Config /\ L.routing = NormalizedRouting(c.routing)
    BY LoadedType
  <1> HIDE DEF L
  <1>3. NormalizedRouting(L.routing) = L.routing
    BY <1>1, <1>2, NormalizedTwice
  <1>4. Loaded(L) = [L EXCEPT !.routing = L.routing]
    BY <1>3 DEF Loaded
  <1>5. Loaded(L) = L
    BY <1>2, <1>4 DEF Config
  <1> QED
    BY <1>5 DEF L

LEMMA ValidLoads ==
  ASSUME NEW c \in Config, Validate(c)
  PROVE  Loads(c)
  <1> DEFINE N == NormalizedRouting(c.routing)
  <1>1. c.routing \in Routing
    BY DEF Config
  <1>2. N.rules \subseteq c.routing.rules /\ N.mode = c.routing.mode
        /\ N.def = c.routing.def
    BY <1>1, NormalizedTwice
  <1> HIDE DEF N
  <1>3. RoutingValid(c.routing, c.ins, c.outs)
    BY DEF Validate
  <1>4. DistinctRules(c.routing.rules) => DistinctRules(N.rules)
    BY <1>2 DEF DistinctRules, Distinct
  <1>5. RoutingValid(N, c.ins, c.outs)
    BY <1>2, <1>3, <1>4 DEF RoutingValid
  <1>6. /\ Loaded(c).ins = c.ins /\ Loaded(c).outs = c.outs
        /\ Loaded(c).routing = N
    BY LoadedType DEF N
  <1> QED
    BY <1>5, <1>6 DEF Loads, Validate

(* Every configuration that the agent writes to config.yaml loads again,   *)
(* and so does what is left of one, unless it does not load at all; so do  *)
(* all rows of the history: LoadConfig never refuses a restart, nor        *)
(* Validate a restore, because of what the agent itself has saved.         *)
THEOREM WhatIsSavedLoads == Spec => []SavedConfigsLoad
  <1> DEFINE FileOK == file \in FirstConfigs \cup EditedConfigs \cup {Torn}
                         \/ Loads(file)
             SavedInv == FileOK /\ AllValid(history) /\ Checked
  <1>1. Init => SavedInv
    BY DEF Init, AllValid, Checked
  <1>2. TypeInv /\ SavedInv /\ [Next]_vars => SavedInv'
    <2> SUFFICES ASSUME TypeInv, SavedInv, [Next]_vars
                 PROVE  SavedInv'
      OBVIOUS
    <2>1. history \in Seq(Config) /\ mem.cfg \in Config
      BY DEF TypeInv, StoredType, MemoryType, Memory
    <2>2. CASE HandlerEnters
      BY <2>2 DEF HandlerEnters, Checked
    <2>3. CASE OnlyReads
      BY <2>3 DEF OnlyReads, Checked
    <2>4. ASSUME NEW k \in Kernel, KernelStopFails(k) PROVE SavedInv'
      BY <2>4 DEF KernelStopFails, Enter, Checked
    <2>5. ASSUME NEW c \in EditedConfigs, EditConfigFile(c) PROVE SavedInv'
      BY <2>5 DEF EditConfigFile, Checked
    <2>6. ASSUME NEW keep \in 1..HistoryKeep, CleanupConfigHistory(keep)
          PROVE  SavedInv'
      <3>1. AllValid(history')
        BY <2>1, <2>6, PrunedValid, StoreAssumption DEF CleanupConfigHistory
      <3> QED
        BY <2>6, <3>1 DEF CleanupConfigHistory, Checked
    <2>7. CASE StopKernel \/ ReloadKernel
      BY <2>7 DEF StopKernel, ReloadKernel, Checked
    <2>8. CASE ImportItem \/ ImportAborts \/ ImportEnds
      BY <2>8 DEF ImportItem, ImportAborts, ImportEnds, Checked
    <2>9. CASE CommitValidate
      BY <2>9 DEF CommitValidate, Checked
    <2>10. CASE CommitApply
      BY <2>10 DEF CommitApply, Checked
    <2>11. CASE CommitSave \/ CommitWrite
      <3>1. Loads(EmptyConfig)
        BY EmptyConfigValid, EmptyConfigType, ValidLoads
      <3>2. \A p \in Prefixes(mem.cfg) : Loads(p)
        BY DEF Prefixes
      <3>3. pc = "write" => Loads(mem.cfg)
        BY <2>1, ValidLoads DEF Checked
      <3> QED
        BY <2>11, <3>1, <3>2, <3>3 DEF CommitSave, CommitWrite, Checked
    <2>12. CASE CommitHistory
      <3>1. Append(history, mem.cfg) \in Seq(Config) /\ HistoryKeep \in Nat
        BY <2>1, StoreAssumption
      <3>2. AllValid(Append(history, mem.cfg))
        BY <2>1, <2>12 DEF CommitHistory, Checked, AllValid
      <3>3. AllValid(history')
        BY <2>12, <3>1, <3>2, PrunedValid DEF CommitHistory
      <3> QED
        BY <2>12, <3>3 DEF CommitHistory, DatabaseFails, Checked
    <2>13. CASE CommitRuntime
      BY <2>13 DEF CommitRuntime, DatabaseFails, Checked
    <2>14. CASE Rollback
      BY <2>14 DEF Rollback, Checked
    <2>15. CASE Crash \/ BootFails
      <3>1. \A p \in Prefixes(mem.cfg) : Loads(p)
        BY DEF Prefixes
      <3> QED
        BY <2>15, <3>1 DEF Crash, BootFails, Die, Checked
    <2>16. CASE Boot \/ BootRefused
      <3>1. BootLoads
        BY <2>16 DEF Boot, BootRefused
      <3>2. \A p \in Prefixes(Loaded(file)) : Loads(p)
        BY DEF Prefixes
      <3>3. file \in Config /\ Loads(file)
        BY <3>1 DEF BootLoads, TypeInv, StoredType
      <3>4. Loads(Loaded(file))
        BY <3>3, LoadedTwice DEF Loads
      <3>5. Loads(file') \/ file' = Torn
        BY <3>1, <3>2, <3>3, <3>4 DEF BootLoads
      <3> QED
        BY <2>16, <3>5 DEF Boot, BootRefused, BootLoads, Checked
    <2>17. ASSUME NEW i \in 1..Len(kernels), KernelExits(i) PROVE SavedInv'
      BY <2>17 DEF KernelExits, Checked
    <2> QED
      BY <2>2, <2>3, <2>4, <2>5, <2>6, <2>7, <2>8, <2>9, <2>10, <2>11, <2>12,
         <2>13, <2>14, <2>15, <2>16, <2>17, StepCases DEF Commit
  <1>3. TypeInv /\ SavedInv => SavedConfigsLoad
    <2> SUFFICES ASSUME TypeInv, SavedInv PROVE SavedConfigsLoad
      OBVIOUS
    <2>1. \A i \in DOMAIN history : history[i] \in Config /\ Validate(history[i])
      BY DEF AllValid, TypeInv, StoredType
    <2>2. \A i \in DOMAIN history : Loads(history[i])
      BY <2>1, ValidLoads
    <2> QED
      BY <2>2 DEF SavedConfigsLoad
  <1> HIDE DEF SavedInv
  <1> QED
    BY <1>1, <1>2, <1>3, TypeInvariant, PTL DEF Spec

----------------------------------------------------------------------------
(* config.yaml against the memory.  Until a commit has saved, the file     *)
(* still agrees with the snapshot to which a failure returns.              *)

DiskInv ==
  /\ pc = "down" => op = "boot"
  /\ pc \notin {"down", "validate", "apply", "save", "write", "history",
                "runtime", "rollback"} => op = "serve"
  /\ pc = "write" => cause \notin {"none", "database"}
  /\ pc \in {"down", "history", "runtime"} => cause # "database"
  /\ cause = "none" =>
       /\ pc = "idle" => file = mem.cfg
       /\ op = "serve" /\ pc \in {"import", "validate", "apply", "save",
                                  "rollback"} => file = snap.cfg
       /\ pc \in {"history", "runtime"} => file = mem.cfg

LEMMA DiskStep ==
  ASSUME TypeInv, DiskInv, [Next]_vars
  PROVE  DiskInv'
  <1> USE DEF DiskInv
  <1>1. CASE HandlerEnters
    BY <1>1 DEF HandlerEnters
  <1>2. CASE OnlyReads
    BY <1>2 DEF OnlyReads
  <1>3. ASSUME NEW k \in Kernel, KernelStopFails(k) PROVE DiskInv'
    BY <1>3 DEF KernelStopFails, Enter
  <1>4. ASSUME NEW c \in EditedConfigs, EditConfigFile(c) PROVE DiskInv'
    BY <1>4 DEF EditConfigFile
  <1>5. ASSUME NEW keep \in 1..HistoryKeep, CleanupConfigHistory(keep)
        PROVE  DiskInv'
    BY <1>5 DEF CleanupConfigHistory
  <1>6. CASE StopKernel \/ ReloadKernel
    BY <1>6 DEF StopKernel, ReloadKernel
  <1>7. CASE ImportItem \/ ImportAborts \/ ImportEnds
    BY <1>7 DEF ImportItem, ImportAborts, ImportEnds
  <1>8. CASE CommitValidate
    BY <1>8 DEF CommitValidate
  <1>9. CASE CommitApply
    BY <1>9 DEF CommitApply
  <1>10. CASE CommitSave \/ CommitWrite
    BY <1>10 DEF CommitSave, CommitWrite
  <1>11. CASE CommitHistory
    BY <1>11 DEF CommitHistory, DatabaseFails
  <1>12. CASE CommitRuntime
    BY <1>12 DEF CommitRuntime, DatabaseFails
  <1>13. CASE Rollback
    BY <1>13 DEF Rollback, TypeInv, ControlType
  <1>14. CASE Crash \/ BootFails
    BY <1>14 DEF Crash, BootFails, Die
  <1>15. CASE Boot \/ BootRefused
    BY <1>15 DEF Boot, BootRefused, BootLoads
  <1>16. ASSUME NEW i \in 1..Len(kernels), KernelExits(i) PROVE DiskInv'
    BY <1>16 DEF KernelExits
  <1> QED
    BY <1>1, <1>2, <1>3, <1>4, <1>5, <1>6, <1>7, <1>8, <1>9, <1>10, <1>11,
       <1>12, <1>13, <1>14, <1>15, <1>16, StepCases DEF Commit

(* Between handlers config.yaml holds the configuration in memory, unless  *)
(* a write, a database step or an import has failed or the operator has    *)
(* edited the file: a change that Validate or the kernel refused never     *)
(* reaches the disk.                                                       *)
THEOREM DiskAgrees == Spec => []DiskFollowsMemory
  <1>1. Init => DiskInv
    BY DEF Init, DiskInv
  <1>2. TypeInv /\ DiskInv /\ [Next]_vars => DiskInv'
    BY DiskStep
  <1>3. DiskInv => DiskFollowsMemory
    BY DEF DiskInv, DiskFollowsMemory
  <1> QED
    BY <1>1, <1>2, <1>3, TypeInvariant, PTL DEF Spec

(* A crash outside the write of config.yaml leaves the configuration from  *)
(* before the interrupted handler or the one after it.                     *)
THEOREM CrashKeeps == Spec => CrashKeepsConfig
  <1> DEFINE Kept == pc' = "down" /\ op = "serve" /\ cause = "none"
                       => file' \in {snap.cfg, mem.cfg}
  <1>1. Init => DiskInv
    BY DEF Init, DiskInv
  <1>2. TypeInv /\ DiskInv /\ [Next]_vars => DiskInv'
    BY DiskStep
  <1>3. TypeInv /\ DiskInv /\ [Next]_vars => [Kept]_vars
    <2> SUFFICES ASSUME TypeInv, DiskInv, [Next]_vars, pc' = "down",
                        op = "serve", cause = "none"
                 PROVE  file' \in {snap.cfg, mem.cfg} \/ UNCHANGED vars
      OBVIOUS
    <2>1. pc \in Phases \ {"down"}
      BY DEF DiskInv, TypeInv, ControlType
    <2>2. ~ HandlerEnters /\ ~ OnlyReads
      BY <2>1 DEF HandlerEnters, OnlyReads
    <2>3. ~ \E k \in Kernel : KernelStopFails(k)
      BY DEF KernelStopFails
    <2>4. ~ \E c \in EditedConfigs : EditConfigFile(c)
      BY <2>1 DEF EditConfigFile
    <2>5. ~ \E keep \in 1..HistoryKeep : CleanupConfigHistory(keep)
      BY <2>1 DEF CleanupConfigHistory
    <2>6. ~ StopKernel /\ ~ ReloadKernel
      BY <2>1 DEF StopKernel, ReloadKernel
    <2>7. ~ ImportItem /\ ~ ImportAborts /\ ~ ImportEnds
      BY <2>1 DEF ImportItem, ImportAborts, ImportEnds
    <2>8. ~ Commit
      <3>1. ~ CommitValidate /\ ~ CommitApply /\ ~ CommitSave
        BY DEF CommitValidate, CommitApply, CommitSave
      <3>2. ~ CommitWrite /\ ~ CommitHistory /\ ~ CommitRuntime /\ ~ Rollback
        BY DEF CommitWrite, CommitHistory, CommitRuntime, DatabaseFails, Rollback
      <3> QED
        BY <3>1, <3>2 DEF Commit
    <2>9. ~ BootFails /\ ~ Boot /\ ~ BootRefused
      BY <2>1 DEF BootFails, Boot, BootRefused, BootLoads
    <2>10. ~ \E i \in 1..Len(kernels) : KernelExits(i)
      BY <2>1 DEF KernelExits
    <2>11. Crash
      BY <2>2, <2>3, <2>4, <2>5, <2>6, <2>7, <2>8, <2>9, <2>10, StepCases
    <2>12. pc # "write"
      BY DEF DiskInv
    <2>13. file' = file
      BY <2>11, <2>12 DEF Crash
    <2>14. file \in {snap.cfg, mem.cfg}
      BY <2>1, <2>12 DEF DiskInv, Phases
    <2> QED
      BY <2>13, <2>14
  <1> QED
    BY <1>1, <1>2, <1>3, TypeInvariant, PTL DEF Spec, CrashKeepsConfig

----------------------------------------------------------------------------
(* The stores after a commit.                                              *)

Filed ==
  /\ cause = "edit" \/ file = mem.cfg
  /\ Len(history) \in 1..HistoryKeep
  /\ history[Len(history)] = mem.cfg

StoresInv ==
  /\ pc \in {"history", "runtime"} => cause = "edit" \/ file = mem.cfg
  /\ pc = "runtime" =>
       Len(history) \in 1..HistoryKeep /\ history[Len(history)] = mem.cfg
  /\ pc = "idle" /\ outcome = "ok" => Filed /\ table = TableOf(mem)

LEMMA PrunedLast ==
  ASSUME NEW h \in Seq(Config), NEW keep \in Nat \ {0}, Len(h) > 0
  PROVE  /\ Len(Pruned(h, keep)) \in 1..keep
         /\ Pruned(h, keep)[Len(Pruned(h, keep))] = h[Len(h)]
  <1>1. /\ Len(Pruned(h, keep)) = IF Len(h) > keep THEN keep ELSE Len(h)
        /\ \A i \in 1..Len(Pruned(h, keep)) :
             Pruned(h, keep)[i] = h[i + Len(h) - Len(Pruned(h, keep))]
    BY PrunedRows
  <1>2. Len(h) \in Nat \ {0}
    OBVIOUS
  <1>3. Len(Pruned(h, keep)) \in 1..keep
    BY <1>1, <1>2
  <1> DEFINE n == Len(Pruned(h, keep))
  <1>4. n + Len(h) - n = Len(h)
    BY <1>2, <1>3
  <1>5. n \in 1..n
    BY <1>3
  <1> QED
    BY <1>1, <1>3, <1>4, <1>5

LEMMA StoresStep ==
  ASSUME TypeInv, StoresInv, [Next]_vars
  PROVE  StoresInv'
  <1> USE DEF StoresInv, Filed
  <1>0. history \in Seq(Config) /\ mem.cfg \in Config
    BY DEF TypeInv, StoredType, MemoryType, Memory
  <1>1. CASE HandlerEnters
    BY <1>1 DEF HandlerEnters
  <1>2. CASE OnlyReads
    BY <1>2 DEF OnlyReads, TableOf
  <1>3. ASSUME NEW k \in Kernel, KernelStopFails(k) PROVE StoresInv'
    BY <1>3 DEF KernelStopFails, Enter
  <1>4. ASSUME NEW c \in EditedConfigs, EditConfigFile(c) PROVE StoresInv'
    BY <1>4 DEF EditConfigFile, TableOf
  <1>5. ASSUME NEW keep \in 1..HistoryKeep, CleanupConfigHistory(keep)
        PROVE  StoresInv'
    <2>1. keep \in Nat \ {0} /\ keep <= HistoryKeep /\ HistoryKeep \in Nat
      BY StoreAssumption
    <2>2. Len(history) > 0 => /\ Len(history') \in 1..keep
                              /\ history'[Len(history')] = history[Len(history)]
      BY <1>0, <1>5, <2>1, PrunedLast DEF CleanupConfigHistory
    <2>3. /\ UNCHANGED <<mem, file, table, pc, outcome, cause>>
          /\ Len(history) > 0
      BY <1>0, <1>5, <2>1 DEF CleanupConfigHistory
    <2>4. Len(history') \in 1..HistoryKeep
      BY <2>1, <2>2, <2>3
    <2> QED
      BY <2>2, <2>3, <2>4 DEF TableOf
  <1>6. CASE StopKernel \/ ReloadKernel
    BY <1>6 DEF StopKernel, ReloadKernel, TableOf
  <1>7. CASE ImportItem \/ ImportAborts \/ ImportEnds
    BY <1>7 DEF ImportItem, ImportAborts, ImportEnds
  <1>8. CASE CommitValidate
    BY <1>8 DEF CommitValidate
  <1>9. CASE CommitApply
    BY <1>9 DEF CommitApply
  <1>10. CASE CommitSave \/ CommitWrite
    BY <1>10 DEF CommitSave, CommitWrite
  <1>11. CASE CommitHistory
    <2>1. /\ UNCHANGED <<mem, file>>
          /\ pc = "history"
          /\ \/ /\ pc' = "runtime"
                /\ UNCHANGED cause
                /\ history' = Pruned(Append(history, mem.cfg), HistoryKeep)
             \/ pc' = "rollback"
      BY <1>11 DEF CommitHistory, DatabaseFails
    <2> DEFINE h == Append(history, mem.cfg)
    <2>2. h \in Seq(Config) /\ Len(h) > 0 /\ h[Len(h)] = mem.cfg
      BY <1>0
    <2>3. HistoryKeep \in Nat \ {0}
      BY StoreAssumption
    <2> HIDE DEF h
    <2>4. /\ Len(Pruned(h, HistoryKeep)) \in 1..HistoryKeep
          /\ Pruned(h, HistoryKeep)[Len(Pruned(h, HistoryKeep))] = mem.cfg
      BY <2>2, <2>3, PrunedLast
    <2>5. CASE pc' = "rollback"
      BY <2>5
    <2>6. CASE pc' = "runtime"
      <3>1. history' = Pruned(h, HistoryKeep) /\ UNCHANGED <<mem, file, cause>>
        BY <2>1, <2>6 DEF h
      <3> QED
        BY <2>1, <2>4, <2>6, <3>1
    <2> QED
      BY <2>1, <2>5, <2>6
  <1>12. CASE CommitRuntime
    BY <1>12 DEF CommitRuntime, DatabaseFails, TableOf
  <1>13. CASE Rollback
    BY <1>13 DEF Rollback
  <1>14. CASE Crash \/ BootFails
    BY <1>14 DEF Crash, BootFails, Die
  <1>15. CASE Boot \/ BootRefused
    BY <1>15 DEF Boot, BootRefused, BootLoads, DatabaseFails
  <1>16. ASSUME NEW i \in 1..Len(kernels), KernelExits(i) PROVE StoresInv'
    BY <1>16 DEF KernelExits, TableOf
  <1> QED
    BY <1>1, <1>2, <1>3, <1>4, <1>5, <1>6, <1>7, <1>8, <1>9, <1>10, <1>11,
       <1>12, <1>13, <1>14, <1>15, <1>16, StepCases DEF Commit

(* A handler that returned nil left one configuration in memory, in        *)
(* config.yaml (unless it was edited since), in the newest row of a        *)
(* history within its limit, and in the runtime tables.                    *)
THEOREM StoresFollowCommit == Spec => []StoresAgree
  <1>1. Init => StoresInv
    BY DEF Init, StoresInv
  <1>2. TypeInv /\ StoresInv /\ [Next]_vars => StoresInv'
    BY StoresStep
  <1>3. StoresInv => StoresAgree
    BY DEF StoresInv, Filed, StoresAgree
  <1> QED
    BY <1>1, <1>2, <1>3, TypeInvariant, PTL DEF Spec

----------------------------------------------------------------------------
(* The kernel after a commit.                                              *)

(* The generated file and the process serve the memory m.                  *)
Serves(ks, files, m) ==
  /\ files[m.cfg.kernel.type] = EnabledRuntime(m.cfg)
  /\ ks[m.kernel].run \in {NotRunning, EnabledRuntime(m.cfg)}

LEMMA AppliedServes ==
  ASSUME TypeInv, NEW m \in {mem, snap}, KernelApplied(m)
  PROVE  Serves(kernels', genFile', m)
  <1>1. /\ kernels \in Seq(KernelObject)
        /\ m.kernel \in 1..Len(kernels)
        /\ m.cfg.kernel.type \in KernelTypes
        /\ genFile \in [KernelTypes -> Runtime \cup {NotRunning, Torn}]
    BY DEF TypeInv, MemoryType, StoredType, Memory, Config, Kernel
  <1>2. kernels[m.kernel] \in KernelObject
    BY <1>1, ElementOfSeq
  <1> QED
    BY <1>1, <1>2 DEF KernelApplied, KernelObject, Serves

LEMMA StoppedServes ==
  ASSUME NEW ks \in Seq(KernelObject), NEW i \in 1..Len(ks), NEW m \in Memory,
         m.kernel \in 1..Len(ks), NEW files, Serves(ks, files, m)
  PROVE  Serves(Stopped(ks, i), files, m)
  <1>1. ks[i] \in KernelObject /\ ks[m.kernel] \in KernelObject
    BY ElementOfSeq
  <1>2. Stopped(ks, i)[m.kernel].run \in {ks[m.kernel].run, NotRunning}
    BY <1>1 DEF Stopped, KernelObject
  <1> QED
    BY <1>2 DEF Serves

(* From the apply of a commit to its end, the kernel serves the memory.    *)
ServeInv ==
  /\ pc \in {"save", "write", "history", "runtime"} =>
       Serves(kernels, genFile, mem)
  /\ Settled => Serves(kernels, genFile, mem)

LEMMA ServeStep ==
  ASSUME TypeInv, ServeInv, [Next]_vars
  PROVE  ServeInv'
  <1> USE DEF ServeInv, Settled
  <1>0. /\ kernels \in Seq(KernelObject)
        /\ mem \in Memory /\ mem.kernel \in 1..Len(kernels)
    BY DEF TypeInv, MemoryType
  <1>1. CASE HandlerEnters
    BY <1>1 DEF HandlerEnters
  <1>2. CASE OnlyReads
    BY <1>2 DEF OnlyReads, Serves
  <1>3. ASSUME NEW k \in Kernel, KernelStopFails(k) PROVE ServeInv'
    BY <1>3 DEF KernelStopFails, Enter
  <1>4. ASSUME NEW c \in EditedConfigs, EditConfigFile(c) PROVE ServeInv'
    BY <1>4 DEF EditConfigFile, Serves
  <1>5. ASSUME NEW keep \in 1..HistoryKeep, CleanupConfigHistory(keep)
        PROVE  ServeInv'
    BY <1>5 DEF CleanupConfigHistory, Serves
  <1>6. CASE StopKernel
    <2>1. Serves(kernels, genFile, mem) => Serves(kernels', genFile, mem)
      BY <1>0, <1>6, StoppedServes DEF StopKernel
    <2> QED
      BY <1>6, <2>1 DEF StopKernel, Serves
  <1>7. CASE ReloadKernel
    <2>1. CASE KernelApplied(mem) /\ UNCHANGED outcome
      <3>1. Serves(kernels', genFile', mem)
        BY <2>1, AppliedServes
      <3> QED
        BY <1>7, <3>1 DEF ReloadKernel, Serves
    <2>2. CASE outcome' = "stuck"
      BY <1>7, <2>2 DEF ReloadKernel
    <2> QED
      BY <1>7, <2>1, <2>2 DEF ReloadKernel
  <1>8. CASE ImportItem \/ ImportAborts \/ ImportEnds
    BY <1>8 DEF ImportItem, ImportAborts, ImportEnds
  <1>9. CASE CommitValidate
    BY <1>9 DEF CommitValidate
  <1>10. CASE CommitApply
    <2>1. CASE KernelApplied(mem) /\ pc' = "save"
      <3>1. Serves(kernels', genFile', mem)
        BY <2>1, AppliedServes
      <3> QED
        BY <1>10, <2>1, <3>1 DEF CommitApply, Serves
    <2>2. CASE pc' = "rollback"
      BY <2>2
    <2> QED
      BY <1>10, <2>1, <2>2 DEF CommitApply
  <1>11. CASE CommitSave \/ CommitWrite
    BY <1>11 DEF CommitSave, CommitWrite, Serves
  <1>12. CASE CommitHistory
    BY <1>12 DEF CommitHistory, DatabaseFails, Serves
  <1>13. CASE CommitRuntime
    BY <1>13 DEF CommitRuntime, DatabaseFails, Serves
  <1>14. CASE Rollback
    <2>1. CASE KernelApplied(snap) /\ outcome' = "rolledback"
      <3>1. Serves(kernels', genFile', snap)
        BY <2>1, AppliedServes
      <3> QED
        BY <1>14, <2>1, <3>1 DEF Rollback, Serves
    <2>2. CASE outcome' = "stuck"
      BY <1>14, <2>2 DEF Rollback
    <2> QED
      BY <1>14, <2>1, <2>2 DEF Rollback
  <1>15. CASE Crash \/ BootFails
    BY <1>15 DEF Crash, BootFails, Die
  <1>16. CASE Boot \/ BootRefused
    BY <1>16 DEF Boot, BootRefused, BootLoads
  <1>17. ASSUME NEW i \in 1..Len(kernels), KernelExits(i) PROVE ServeInv'
    <2>1. Serves(kernels, genFile, mem) => Serves(kernels', genFile, mem)
      BY <1>0, <1>17, StoppedServes DEF KernelExits
    <2> QED
      BY <1>17, <2>1 DEF KernelExits, Serves
  <1> QED
    BY <1>1, <1>2, <1>3, <1>4, <1>5, <1>6, <1>7, <1>8, <1>9, <1>10, <1>11,
       <1>12, <1>13, <1>14, <1>15, <1>16, <1>17, StepCases DEF Commit

(* After a commit, and after a rollback that could apply the old           *)
(* configuration again, the generated file holds exactly what the          *)
(* configuration in memory enables, and the kernel runs it or nothing.     *)
THEOREM KernelAgrees == Spec => []KernelFollowsMemory
  <1>1. Init => ServeInv
    BY DEF Init, ServeInv, Settled
  <1>2. TypeInv /\ ServeInv /\ [Next]_vars => ServeInv'
    BY ServeStep
  <1>3. ServeInv => KernelFollowsMemory
    BY DEF ServeInv, Serves, KernelFollowsMemory, Process
  <1> QED
    BY <1>1, <1>2, <1>3, TypeInvariant, PTL DEF Spec

----------------------------------------------------------------------------
(* The type of the kernel object.                                          *)

TypeFits(ks, m) == ks[m.kernel].type = m.cfg.kernel.type

KernelTypeInv ==
  /\ TypeFits(kernels, mem)
  /\ TypeFits(kernels, snap)
  /\ pc = "down" => snap = Fresh

(* No step changes the type of an object that is there.                    *)
LEMMA TypesKept ==
  ASSUME NEW ks \in Seq(KernelObject), NEW i \in 1..Len(ks), NEW j \in 1..Len(ks)
  PROVE  /\ Stopped(ks, i)[j].type = ks[j].type
         /\ \A k \in Kernel : Configured(ks, i, k)[j].type = ks[j].type
  <1>1. ks[i] \in KernelObject /\ ks[j] \in KernelObject
    BY ElementOfSeq
  <1>2. Stopped(ks, i)[j].type = ks[j].type
    BY <1>1 DEF Stopped, KernelObject
  <1>3. ASSUME NEW k \in Kernel, ks[i].type # k.type
        PROVE  Configured(ks, i, k)[j].type = ks[j].type
    <2> DEFINE stopped == Stopped(ks, i)
    <2>1. stopped \in Seq(KernelObject) /\ j \in 1..Len(stopped)
      BY StoppedType
    <2>2. Configured(ks, i, k) = Append(stopped, NewKernel(k))
      BY <1>3 DEF Configured
    <2>3. stopped[j].type = ks[j].type
      BY <1>2
    <2> HIDE DEF stopped
    <2>4. Append(stopped, NewKernel(k))[j] = stopped[j]
      BY <2>1
    <2> QED
      BY <2>2, <2>3, <2>4
  <1>4. ASSUME NEW k \in Kernel, ks[i].type = k.type
        PROVE  Configured(ks, i, k)[j].type = ks[j].type
    BY <1>1, <1>4 DEF Configured, KernelObject
  <1> QED
    BY <1>2, <1>3, <1>4

LEMMA ConfiguredFits ==
  ASSUME NEW ks \in Seq(KernelObject), NEW i \in 1..Len(ks), NEW k \in Kernel
  PROVE  Configured(ks, i, k)[ConfiguredKernel(ks, i, k)].type = k.type
  <1>1. CASE ks[i].type # k.type
    <2> DEFINE stopped == Stopped(ks, i)
    <2>1. stopped \in Seq(KernelObject) /\ Len(stopped) = Len(ks)
      BY StoppedType
    <2>2. /\ Configured(ks, i, k) = Append(stopped, NewKernel(k))
          /\ ConfiguredKernel(ks, i, k) = Len(ks) + 1
      BY <1>1 DEF Configured, ConfiguredKernel
    <2> HIDE DEF stopped
    <2>3. Append(stopped, NewKernel(k))[Len(stopped) + 1] = NewKernel(k)
      BY <2>1
    <2> QED
      BY <2>1, <2>2, <2>3 DEF NewKernel
  <1>2. CASE ks[i].type = k.type
    <2>1. ConfiguredKernel(ks, i, k) = i
      BY <1>2 DEF ConfiguredKernel
    <2> QED
      BY <1>2, <2>1, TypesKept
  <1> QED
    BY <1>1, <1>2

LEMMA KernelTypeStep ==
  ASSUME TypeInv, KernelTypeInv, [Next]_vars
  PROVE  KernelTypeInv'
  <1> USE DEF KernelTypeInv, TypeFits
  <1>0. /\ kernels \in Seq(KernelObject)
        /\ mem \in Memory /\ mem.kernel \in 1..Len(kernels)
        /\ snap \in Memory /\ snap.kernel \in 1..Len(kernels)
    BY DEF TypeInv, MemoryType
  <1>k. ASSUME NEW i \in 1..Len(kernels), kernels' = Stopped(kernels, i),
               mem' \in {mem, snap}, snap' \in {mem, snap}, pc' # "down"
        PROVE  KernelTypeInv'
    BY <1>0, <1>k, TypesKept
  <1>a. ASSUME NEW m \in {mem, snap}, KernelApplied(m) \/ KernelRefused(m),
               mem' = m, snap' = snap, pc' # "down"
        PROVE  KernelTypeInv'
    <2>1. CASE KernelApplied(m)
      <3>1. \A j \in 1..Len(kernels) : kernels'[j].type = kernels[j].type
        <4> SUFFICES ASSUME NEW j \in 1..Len(kernels)
                     PROVE  kernels'[j].type = kernels[j].type
          OBVIOUS
        <4>1. kernels[j] \in KernelObject
          BY <1>0, ElementOfSeq
        <4> QED
          BY <1>0, <2>1, <4>1 DEF KernelApplied, KernelObject
      <3> QED
        BY <1>0, <1>a, <3>1
    <2>2. CASE KernelRefused(m)
      <3>1. kernels' = kernels \/ kernels' = Stopped(kernels, m.kernel)
        BY <2>2 DEF KernelRefused
      <3>2. CASE kernels' = kernels
        BY <1>a, <3>2
      <3>3. CASE kernels' = Stopped(kernels, m.kernel)
        BY <1>0, <1>a, <1>k, <3>3
      <3> QED
        BY <3>1, <3>2, <3>3
    <2> QED
      BY <1>a, <2>1, <2>2
  <1>1. CASE HandlerEnters
    <2>1. snap' = mem /\ pc' # "down"
      BY <1>1 DEF HandlerEnters
    <2>2. CASE UNCHANGED kernels /\ mem'.kernel = mem.kernel
                 /\ mem'.cfg.kernel = mem.cfg.kernel
      BY <2>1, <2>2
    <2>3. ASSUME NEW k \in Kernel,
                 mem'.kernel = ConfiguredKernel(kernels, mem.kernel, k),
                 mem'.cfg.kernel = k,
                 kernels' = Configured(kernels, mem.kernel, k)
          PROVE  KernelTypeInv'
      <3>1. TypeFits(kernels', mem')
        BY <1>0, <2>3, ConfiguredFits
      <3>2. kernels'[mem.kernel].type = kernels[mem.kernel].type
        BY <1>0, <2>3, TypesKept
      <3> QED
        BY <2>1, <3>1, <3>2
    <2> QED
      BY <1>1, <2>2, <2>3 DEF HandlerEnters, KernelEdit
  <1>2. CASE OnlyReads
    BY <1>2 DEF OnlyReads
  <1>3. ASSUME NEW k \in Kernel, KernelStopFails(k) PROVE KernelTypeInv'
    BY <1>0, <1>3, <1>k DEF KernelStopFails, Enter
  <1>4. ASSUME NEW c \in EditedConfigs, EditConfigFile(c) PROVE KernelTypeInv'
    BY <1>4 DEF EditConfigFile
  <1>5. ASSUME NEW keep \in 1..HistoryKeep, CleanupConfigHistory(keep)
        PROVE  KernelTypeInv'
    BY <1>5 DEF CleanupConfigHistory
  <1>6. CASE StopKernel
    BY <1>0, <1>6, <1>k DEF StopKernel
  <1>7. CASE ReloadKernel
    BY <1>7, <1>a DEF ReloadKernel
  <1>8. CASE ImportItem
    <2>1. PICK x : mem' = PutOutbound(mem, x)
      BY <1>8 DEF ImportItem
    <2>2. mem'.kernel = mem.kernel /\ mem'.cfg.kernel = mem.cfg.kernel
      BY <1>0, <2>1 DEF PutOutbound, Memory, Config
    <2> QED
      BY <1>8, <2>2 DEF ImportItem
  <1>9. CASE ImportAborts \/ ImportEnds
    BY <1>9 DEF ImportAborts, ImportEnds
  <1>10. CASE CommitValidate
    BY <1>10 DEF CommitValidate
  <1>11. CASE CommitApply
    BY <1>11, <1>a DEF CommitApply
  <1>12. CASE CommitSave \/ CommitWrite \/ CommitHistory \/ CommitRuntime
    BY <1>12 DEF CommitSave, CommitWrite, CommitHistory, CommitRuntime,
       DatabaseFails
  <1>13. CASE Rollback
    BY <1>13, <1>a DEF Rollback
  <1>14. CASE Crash \/ BootFails
    <2>1. /\ mem' = Fresh /\ snap' = Fresh
          /\ kernels' = FreshKernels
      BY <1>14 DEF Crash, BootFails, Die
    <2>2. TypeFits(FreshKernels, Fresh)
      BY DEF FreshKernels, NewKernel, Fresh, EmptyConfig
    <2> QED
      BY <2>1, <2>2
  <1>15. CASE Boot
    <2>1. file.kernel \in Kernel /\ file \in Config
      BY <1>15 DEF Boot, BootLoads, TypeInv, StoredType, Config
    <2> DEFINE c == Taken(file)
    <2>a. c \in Config /\ c.kernel = file.kernel
      BY <2>1, TakenType
    <2>b. mem' = [Replace(Fresh, c) EXCEPT
                    !.kernel = ConfiguredKernel(FreshKernels, 1, file.kernel)]
      BY <1>15 DEF Boot
    <2> HIDE DEF c
    <2>2. Replace(Fresh, c) \in Memory
      BY <2>a, FreshType, ReplaceType
    <2>3. Replace(Fresh, c).cfg = c
      BY FreshType DEF Replace, Memory
    <2>4. /\ mem'.kernel = ConfiguredKernel(FreshKernels, 1, file.kernel)
          /\ mem'.cfg.kernel = file.kernel
      BY <2>a, <2>b, <2>2, <2>3 DEF Memory
    <2>5. /\ FreshKernels \in Seq(KernelObject)
          /\ 1 \in 1..Len(FreshKernels)
      BY FreshType
    <2>6. kernels' = Configured(FreshKernels, 1, file.kernel)
      BY <1>15 DEF Boot
    <2>7. TypeFits(kernels', mem')
      BY <2>1, <2>4, <2>5, <2>6, ConfiguredFits
    <2>8. kernels'[1].type = FreshKernels[1].type
      BY <2>1, <2>5, <2>6, TypesKept
    <2>9. TypeFits(kernels', Fresh)
      BY <2>8 DEF FreshKernels, NewKernel, Fresh, EmptyConfig
    <2>10. snap' = snap /\ snap = Fresh /\ pc' # "down"
      BY <1>15 DEF Boot, BootLoads
    <2> QED
      BY <2>7, <2>9, <2>10
  <1>16. ASSUME NEW i \in 1..Len(kernels), KernelExits(i) PROVE KernelTypeInv'
    BY <1>0, <1>16, <1>k DEF KernelExits
  <1>17. CASE BootRefused
    BY <1>17 DEF BootRefused
  <1> QED
    BY <1>1, <1>2, <1>3, <1>4, <1>5, <1>6, <1>7, <1>8, <1>9, <1>10, <1>11,
       <1>12, <1>13, <1>14, <1>15, <1>16, <1>17, StepCases DEF Commit

(* The kernel pointer always leads to an object of the type that           *)
(* cfg.kernel.type names, also after the rollback of a change of type.     *)
THEOREM KernelObjectFits == Spec => []KernelTypeMatches
  <1>1. Init => KernelTypeInv
    BY DEF Init, KernelTypeInv, TypeFits, FreshKernels, NewKernel, Fresh,
       EmptyConfig
  <1>2. TypeInv /\ KernelTypeInv /\ [Next]_vars => KernelTypeInv'
    BY KernelTypeStep
  <1>3. KernelTypeInv => KernelTypeMatches
    BY DEF KernelTypeInv, TypeFits, KernelTypeMatches
  <1> QED
    BY <1>1, <1>2, <1>3, TypeInvariant, PTL DEF Spec


----------------------------------------------------------------------------
(***************************************************************************)
(* What the fields of the manager's memory have to do with each other: the *)
(* maps agree with the slices, references lead somewhere, and which nodes  *)
(* have a traffic entry.                                                   *)
(***************************************************************************)

----------------------------------------------------------------------------
(* A map and the slice beside it                                           *)

Mirror(f, items) ==
  /\ Distinct(items)
  /\ DOMAIN f = Names(items)
  /\ \A x \in items : f[x.name] = x

LEMMA MirrorOfSlice ==
  ASSUME NEW items, Distinct(items)
  PROVE  Mirror(ByName(items), items)
  <1>1. DOMAIN ByName(items) = Names(items)
    BY DEF ByName
  <1>2. ASSUME NEW x \in items PROVE ByName(items)[x.name] = x
    <2> DEFINE y == CHOOSE y \in items : y.name = x.name
    <2>1. y \in items /\ y.name = x.name
      OBVIOUS
    <2>2. ByName(items)[x.name] = y
      BY DEF ByName, Names
    <2> HIDE DEF y
    <2> QED
      BY <2>1, <2>2 DEF Distinct
  <1> QED
    BY <1>1, <1>2 DEF Mirror

LEMMA MirrorIsByName ==
  ASSUME NEW S, NEW T, NEW f \in Map(S, T), NEW items, Mirror(f, items)
  PROVE  f = ByName(items)
  <1>1. f = [n \in DOMAIN f |-> f[n]]
    BY DEF Map
  <1>2. Mirror(ByName(items), items)
    BY MirrorOfSlice DEF Mirror
  <1>3. /\ DOMAIN f = Names(items)
        /\ ByName(items) = [n \in Names(items) |-> ByName(items)[n]]
    BY DEF Mirror, ByName
  <1>4. ASSUME NEW n \in Names(items) PROVE f[n] = ByName(items)[n]
    <2>1. PICK x \in items : x.name = n
      BY DEF Names
    <2> QED
      BY <1>2, <2>1 DEF Mirror
  <1> QED
    BY <1>1, <1>3, <1>4

LEMMA MirrorPut ==
  ASSUME NEW f, NEW items, Mirror(f, items), NEW x
  PROVE  Mirror(With(f, x.name, x), Upsert(items, x))
  <1>1. Distinct(Upsert(items, x))
    BY DEF Mirror, Distinct, Upsert
  <1>2. DOMAIN With(f, x.name, x) = Names(Upsert(items, x))
    <2>1. DOMAIN With(f, x.name, x) = Names(items) \cup {x.name}
      BY DEF With, Mirror
    <2>2. Names(Upsert(items, x)) = Names(items) \cup {x.name}
      BY DEF Names, Upsert
    <2> QED
      BY <2>1, <2>2
  <1>3. ASSUME NEW y \in Upsert(items, x) PROVE With(f, x.name, x)[y.name] = y
    <2>1. CASE y = x
      BY <2>1 DEF With
    <2>2. CASE y # x
      <3>1. y \in items /\ y.name # x.name
        BY <2>2 DEF Upsert
      <3>2. y.name \in DOMAIN f /\ f[y.name] = y
        BY <3>1 DEF Mirror, Names
      <3> QED
        BY <3>1, <3>2 DEF With
    <2> QED
      BY <2>1, <2>2
  <1> QED
    BY <1>1, <1>2, <1>3 DEF Mirror

LEMMA MirrorAdd ==
  ASSUME NEW f, NEW items, Mirror(f, items), NEW n, n \notin DOMAIN f,
         NEW x, x.name = n
  PROVE  Mirror(With(f, n, x), items \cup {x})
  <1>1. items \cup {x} = Upsert(items, x)
    BY DEF Upsert, Mirror, Names
  <1>2. Mirror(With(f, x.name, x), Upsert(items, x))
    BY MirrorPut
  <1> QED
    BY <1>1, <1>2

LEMMA MirrorDrop ==
  ASSUME NEW f, NEW items, Mirror(f, items), NEW gone
  PROVE  Mirror([n \in DOMAIN f \ gone |-> f[n]], Delete(items, gone))
  BY DEF Mirror, Distinct, Delete, Names

----------------------------------------------------------------------------
(* A memory whose parts agree.                                             *)
Agrees(m) ==
  /\ Mirror(m.inbounds, m.cfg.ins)
  /\ Mirror(m.outbounds, m.cfg.outs)
  /\ m.rules = m.cfg.routing.rules

LEMMA PutInboundAgrees ==
  ASSUME NEW m \in Memory, Agrees(m), NEW x
  PROVE  Agrees(PutInbound(m, x))
  <1>1. /\ PutInbound(m, x).inbounds = With(m.inbounds, x.name, x)
        /\ PutInbound(m, x).cfg.ins = Upsert(m.cfg.ins, x)
        /\ PutInbound(m, x).outbounds = m.outbounds
        /\ PutInbound(m, x).cfg.outs = m.cfg.outs
        /\ PutInbound(m, x).rules = m.rules
        /\ PutInbound(m, x).cfg.routing = m.cfg.routing
    BY DEF PutInbound, Memory, Config
  <1> QED
    BY <1>1, MirrorPut DEF Agrees

LEMMA PutOutboundFields ==
  ASSUME NEW m \in Memory, NEW x
  PROVE  /\ PutOutbound(m, x).outbounds = With(m.outbounds, x.name, x)
         /\ PutOutbound(m, x).cfg.outs = Upsert(m.cfg.outs, x)
         /\ PutOutbound(m, x).inbounds = m.inbounds
         /\ PutOutbound(m, x).cfg.ins = m.cfg.ins
         /\ PutOutbound(m, x).rules = m.rules
         /\ PutOutbound(m, x).cfg.routing = m.cfg.routing
         /\ PutOutbound(m, x).traffic = m.traffic \cup {x.name}
  <1> DEFINE outs == With(m.outbounds, x.name, x)
             cout == Upsert(m.cfg.outs, x)
             t == m.traffic \cup {x.name}
             h == EnsureHealth(m.health, {x})
             M == [m EXCEPT !.cfg.outs = cout, !.outbounds = outs,
                            !.traffic = t, !.health = h]
  <1>1. PutOutbound(m, x) = M
    BY DEF PutOutbound, Memory, Config
  <1> HIDE DEF outs, cout, t, h
  <1>2. /\ M.outbounds = outs /\ M.cfg.outs = cout /\ M.traffic = t
        /\ M.inbounds = m.inbounds /\ M.rules = m.rules
        /\ M.cfg.ins = m.cfg.ins /\ M.cfg.routing = m.cfg.routing
    BY DEF Memory, Config
  <1> QED
    BY <1>1, <1>2 DEF outs, cout, t

LEMMA PutOutboundAgrees ==
  ASSUME NEW m \in Memory, Agrees(m), NEW x
  PROVE  Agrees(PutOutbound(m, x))
  <1> DEFINE M == PutOutbound(m, x)
  <1>1. /\ M.outbounds = With(m.outbounds, x.name, x)
        /\ M.cfg.outs = Upsert(m.cfg.outs, x)
        /\ M.inbounds = m.inbounds /\ M.cfg.ins = m.cfg.ins
        /\ M.rules = m.rules /\ M.cfg.routing = m.cfg.routing
    BY PutOutboundFields
  <1>2. Mirror(With(m.outbounds, x.name, x), Upsert(m.cfg.outs, x))
    BY MirrorPut DEF Agrees
  <1> HIDE DEF M
  <1>3. Agrees(M)
    BY <1>1, <1>2 DEF Agrees
  <1> QED
    BY <1>3 DEF M

(* What M is after a rename in m.                                          *)
Renamed(m, M, old, new) ==
  /\ M.outbounds = [n \in DOMAIN m.outbounds \ {old} |-> m.outbounds[n]]
  /\ M.cfg.outs = Delete(m.cfg.outs, {old})
  /\ M.inbounds = m.inbounds
  /\ M.cfg.ins = m.cfg.ins
  /\ M.rules = RenameRoutingOutbound(m.rules, old, new)
  /\ M.cfg.routing.rules = RenameRoutingOutbound(m.cfg.routing.rules, old, new)
  /\ M.traffic = IF old \in m.traffic THEN (m.traffic \ {old}) \cup {new}
                 ELSE m.traffic

LEMMA RenameOutboundFields ==
  ASSUME NEW m \in Memory, NEW old, NEW new
  PROVE  Renamed(m, RenameOutbound(m, old, new), old, new)
  <1> DEFINE outs == Without(m.outbounds, old)
             cout == Delete(m.cfg.outs, {old})
             route == RenamedRouting(m.cfg.routing, old, new)
             rules == RenameRoutingOutbound(m.rules, old, new)
             t == IF old \in m.traffic THEN (m.traffic \ {old}) \cup {new} ELSE m.traffic
             h == MoveKey(m.health, old, new)
             M == [m EXCEPT !.cfg.outs = cout, !.cfg.routing = route,
                            !.outbounds = outs, !.rules = rules,
                            !.traffic = t, !.health = h]
  <1>1. RenameOutbound(m, old, new) = M
    BY DEF RenameOutbound, Memory, Config
  <1>2. route.rules = RenameRoutingOutbound(m.cfg.routing.rules, old, new)
    BY DEF RenamedRouting, Memory, Config, Routing
  <1> HIDE DEF outs, cout, route, rules, t, h
  <1>3. /\ M.outbounds = outs /\ M.cfg.outs = cout /\ M.cfg.routing = route
        /\ M.rules = rules /\ M.traffic = t
        /\ M.inbounds = m.inbounds /\ M.cfg.ins = m.cfg.ins
    BY DEF Memory, Config
  <1> HIDE DEF M
  <1> QED
    BY <1>1, <1>2, <1>3 DEF Renamed, outs, cout, rules, t, Without

LEMMA RenameOutboundAgrees ==
  ASSUME NEW m \in Memory, Agrees(m), NEW old, NEW new
  PROVE  Agrees(RenameOutbound(m, old, new))
  <1>1. Mirror([n \in DOMAIN m.outbounds \ {old} |-> m.outbounds[n]],
               Delete(m.cfg.outs, {old}))
    BY MirrorDrop DEF Agrees
  <1> DEFINE M == RenameOutbound(m, old, new)
  <1>2. Renamed(m, M, old, new)
    BY RenameOutboundFields
  <1> HIDE DEF M
  <1>3. Agrees(M)
    BY <1>1, <1>2 DEF Agrees, Renamed
  <1> QED
    BY <1>3 DEF M

LEMMA DropNodesFields ==
  ASSUME NEW m \in Memory, NEW I, NEW O
  PROVE  /\ DropNodes(m, I, O).inbounds = [n \in DOMAIN m.inbounds \ I |-> m.inbounds[n]]
         /\ DropNodes(m, I, O).outbounds = [n \in DOMAIN m.outbounds \ O |-> m.outbounds[n]]
         /\ DropNodes(m, I, O).cfg.ins = Delete(m.cfg.ins, I)
         /\ DropNodes(m, I, O).cfg.outs = Delete(m.cfg.outs, O)
         /\ DropNodes(m, I, O).rules = DeleteRulesForNode(m.rules, I, O)
         /\ DropNodes(m, I, O).cfg.routing.rules =
              DeleteRulesForNode(m.cfg.routing.rules, I, O)
         /\ DropNodes(m, I, O).traffic = m.traffic
  <1> DEFINE ins == [n \in DOMAIN m.inbounds \ I |-> m.inbounds[n]]
             outs == [n \in DOMAIN m.outbounds \ O |-> m.outbounds[n]]
             cin == Delete(m.cfg.ins, I)
             cout == Delete(m.cfg.outs, O)
             crules == DeleteRulesForNode(m.cfg.routing.rules, I, O)
             rules == DeleteRulesForNode(m.rules, I, O)
             M == [m EXCEPT !.cfg.ins = cin, !.cfg.outs = cout,
                            !.cfg.routing.rules = crules, !.inbounds = ins,
                            !.outbounds = outs, !.rules = rules]
  <1>1. DropNodes(m, I, O) = M
    BY DEF DropNodes, Memory, Config
  <1> HIDE DEF ins, outs, cin, cout, crules, rules
  <1>2. /\ M.inbounds = ins /\ M.outbounds = outs
        /\ M.cfg.ins = cin /\ M.cfg.outs = cout
        /\ M.cfg.routing.rules = crules /\ M.rules = rules
        /\ M.traffic = m.traffic
    BY DEF Memory, Config, Routing
  <1> HIDE DEF M
  <1> QED
    BY <1>1, <1>2 DEF ins, outs, cin, cout, crules, rules

LEMMA DropNodesAgrees ==
  ASSUME NEW m \in Memory, Agrees(m), NEW I, NEW O
  PROVE  Agrees(DropNodes(m, I, O))
  <1>1. /\ Mirror([n \in DOMAIN m.inbounds \ I |-> m.inbounds[n]], Delete(m.cfg.ins, I))
        /\ Mirror([n \in DOMAIN m.outbounds \ O |-> m.outbounds[n]], Delete(m.cfg.outs, O))
    BY MirrorDrop DEF Agrees
  <1> DEFINE M == DropNodes(m, I, O)
  <1>2. /\ M.inbounds = [n \in DOMAIN m.inbounds \ I |-> m.inbounds[n]]
        /\ M.outbounds = [n \in DOMAIN m.outbounds \ O |-> m.outbounds[n]]
        /\ M.cfg.ins = Delete(m.cfg.ins, I)
        /\ M.cfg.outs = Delete(m.cfg.outs, O)
        /\ M.rules = DeleteRulesForNode(m.rules, I, O)
        /\ M.cfg.routing.rules = DeleteRulesForNode(m.cfg.routing.rules, I, O)
    BY DropNodesFields
  <1> HIDE DEF M
  <1>3. Agrees(M)
    BY <1>1, <1>2 DEF Agrees
  <1> QED
    BY <1>3 DEF M

LEMMA SwitchNodesAgrees ==
  ASSUME NEW m \in Memory, Agrees(m), NEW I, NEW O, NEW off
  PROVE  /\ Agrees(SwitchNodes(m, I, O, off))
         /\ DOMAIN SwitchNodes(m, I, O, off).inbounds = DOMAIN m.inbounds
         /\ DOMAIN SwitchNodes(m, I, O, off).outbounds = DOMAIN m.outbounds
         /\ SwitchNodes(m, I, O, off).traffic = m.traffic
  <1> DEFINE switch(x, S) == IF x.name \in S THEN [x EXCEPT !.dis = off] ELSE x
             ins  == [n \in DOMAIN m.inbounds |-> switch(m.inbounds[n], I)]
             outs == [n \in DOMAIN m.outbounds |-> switch(m.outbounds[n], O)]
             cin  == {switch(x, I) : x \in m.cfg.ins}
             cout == {switch(x, O) : x \in m.cfg.outs}
             M    == SwitchNodes(m, I, O, off)
  <1>1. /\ M.inbounds = ins /\ M.outbounds = outs
        /\ M.cfg.ins = cin /\ M.cfg.outs = cout
        /\ M.rules = m.rules /\ M.cfg.routing = m.cfg.routing
        /\ M.traffic = m.traffic
    BY DEF SwitchNodes, Memory, Config
  <1>2. m.cfg.ins \subseteq Inbound /\ m.cfg.outs \subseteq Outbound
    BY DEF Memory, Config
  <1>3. \A x \in Inbound : switch(x, I).name = x.name
    BY DEF Inbound
  <1>4. \A x \in Outbound : switch(x, O).name = x.name
    BY DEF Outbound
  <1>5. Mirror(ins, cin)
    <2> DEFINE g(x) == switch(x, I)
    <2>1. \A x \in m.cfg.ins : g(x).name = x.name
      BY <1>2, <1>3
    <2> HIDE DEF g
    <2>2. Mirror([n \in DOMAIN m.inbounds |-> g(m.inbounds[n])], {g(x) : x \in m.cfg.ins})
      <3>1. Mirror(m.inbounds, m.cfg.ins)
        BY DEF Agrees
      <3> QED
        BY <2>1, <3>1 DEF Mirror, Distinct, Names
    <2> QED
      BY <2>2 DEF g
  <1>6. Mirror(outs, cout)
    <2> DEFINE g(x) == switch(x, O)
    <2>1. \A x \in m.cfg.outs : g(x).name = x.name
      BY <1>2, <1>4
    <2> HIDE DEF g
    <2>2. Mirror([n \in DOMAIN m.outbounds |-> g(m.outbounds[n])], {g(x) : x \in m.cfg.outs})
      <3>1. Mirror(m.outbounds, m.cfg.outs)
        BY DEF Agrees
      <3> QED
        BY <2>1, <3>1 DEF Mirror, Distinct, Names
    <2> QED
      BY <2>2 DEF g
  <1>7. DOMAIN ins = DOMAIN m.inbounds /\ DOMAIN outs = DOMAIN m.outbounds
    OBVIOUS
  <1> HIDE DEF ins, outs, cin, cout, M
  <1>8. Agrees(M)
    BY <1>1, <1>5, <1>6 DEF Agrees
  <1> QED
    BY <1>1, <1>7, <1>8 DEF M

LEMMA ReplaceAgrees ==
  ASSUME NEW m \in Memory, NEW c \in Config, Distinct(c.ins), Distinct(c.outs)
  PROVE  Agrees(Replace(m, c))
  <1>1. /\ Replace(m, c).inbounds = ByName(c.ins)
        /\ Replace(m, c).outbounds = ByName(c.outs)
        /\ Replace(m, c).rules = c.routing.rules
        /\ Replace(m, c).cfg = c
    BY DEF Replace, Memory
  <1> QED
    BY <1>1, MirrorOfSlice DEF Agrees

LEMMA FreshAgrees == Agrees(Fresh)
  <1>1. DOMAIN NoEntries = {} /\ Names({}) = {}
    BY DEF NoEntries, Names
  <1>2. Mirror(NoEntries, {})
    BY <1>1 DEF Mirror, Distinct
  <1> QED
    BY <1>2 DEF Agrees, Fresh, EmptyConfig, EmptyRouting

----------------------------------------------------------------------------
(* Every edit keeps what the parts of the memory have to do with each      *)
(* other: they agree, and no node loses its traffic entry but one: the     *)
(* rename of an outbound takes along the entry that it shares with an      *)
(* inbound of its name.                                                    *)

Robbed ==
  {n \in DOMAIN mem.inbounds :
     \E x \in NewOutbounds : x.name # n /\ UpsertOutbound(n, x)}

Follows(M) ==
  Agrees(M) /\ WithoutTraffic(M) \subseteq WithoutTraffic(mem) \cup Robbed

(* The edits of CreateProxy and CreateForward.                             *)
LEMMA AddInboundAgrees ==
  ASSUME NEW m \in Memory, Agrees(m), NEW n, n \notin DOMAIN m.inbounds,
         NEW x, x.name = n, NEW R, NEW M,
         /\ M.cfg.ins = m.cfg.ins \cup {x}
         /\ M.inbounds = With(m.inbounds, n, x)
         /\ M.outbounds = m.outbounds /\ M.cfg.outs = m.cfg.outs
         /\ M.rules = m.rules \cup R
         /\ M.cfg.routing.rules = m.cfg.routing.rules \cup R
         /\ M.traffic = m.traffic \cup {n}
  PROVE  Agrees(M) /\ WithoutTraffic(M) \subseteq WithoutTraffic(m)
  <1>1. Mirror(With(m.inbounds, n, x), m.cfg.ins \cup {x})
    BY MirrorAdd DEF Agrees
  <1>2. DOMAIN M.inbounds = DOMAIN m.inbounds \cup {n}
    BY DEF With
  <1> QED
    BY <1>1, <1>2 DEF Agrees, WithoutTraffic

LEMMA PutOutboundTraffic ==
  ASSUME NEW m \in Memory, NEW x
  PROVE  WithoutTraffic(PutOutbound(m, x)) \subseteq WithoutTraffic(m)
  <1> DEFINE M == PutOutbound(m, x)
  <1>1. /\ M.outbounds = With(m.outbounds, x.name, x)
        /\ M.inbounds = m.inbounds
        /\ M.traffic = m.traffic \cup {x.name}
    BY PutOutboundFields
  <1> HIDE DEF M
  <1>2. DOMAIN M.outbounds = DOMAIN m.outbounds \cup {x.name}
    BY <1>1 DEF With
  <1>3. WithoutTraffic(M) \subseteq WithoutTraffic(m)
    BY <1>1, <1>2 DEF WithoutTraffic
  <1> QED
    BY <1>3 DEF M

(* The entry of an inbound moves away with an outbound of its name.        *)
LEMMA RenameOutboundTraffic ==
  ASSUME NEW m \in Memory, NEW old, NEW new
  PROVE  WithoutTraffic(RenameOutbound(m, old, new))
           \subseteq WithoutTraffic(m) \cup ({old} \cap DOMAIN m.inbounds)
  <1> DEFINE M == RenameOutbound(m, old, new)
  <1>1. Renamed(m, M, old, new)
    BY RenameOutboundFields
  <1> HIDE DEF M
  <1>3. DOMAIN M.outbounds = DOMAIN m.outbounds \ {old} /\ M.inbounds = m.inbounds
    BY <1>1 DEF Renamed
  <1>4. m.traffic \ {old} \subseteq M.traffic
    BY <1>1 DEF Renamed
  <1>5. WithoutTraffic(M)
          \subseteq WithoutTraffic(m) \cup ({old} \cap DOMAIN m.inbounds)
    BY <1>3, <1>4 DEF WithoutTraffic
  <1> QED
    BY <1>5 DEF M

LEMMA EditedMemory ==
  ASSUME NEW m, Edit(m)
  PROVE  mem' = m /\ snap' = mem /\ pc' = "validate" /\ op' = op
  BY DEF Edit, Enter

LEMMA UpsertOutboundFollows ==
  ASSUME mem \in Memory, Agrees(mem), NEW x \in NewOutbounds,
         NEW original \in OutNames \cup {NoName}, UpsertOutbound(original, x)
  PROVE  Follows(mem')
  <1>1. CASE original \in {NoName, x.name}
    <2>1. mem' = PutOutbound(mem, x)
      BY <1>1, EditedMemory DEF UpsertOutbound
    <2> QED
      BY <2>1, PutOutboundAgrees, PutOutboundTraffic DEF Follows
  <1>2. CASE original \notin {NoName, x.name}
    <2> DEFINE renamed == RenameOutbound(mem, original, x.name)
    <2>1. original \in OutNames /\ x.name \in OutNames
      BY <1>2, StoreAssumption DEF Outbound
    <2>2. renamed \in Memory
      BY <2>1, RenameOutboundType
    <2>3. /\ Agrees(renamed)
          /\ WithoutTraffic(renamed)
               \subseteq WithoutTraffic(mem) \cup ({original} \cap DOMAIN mem.inbounds)
      BY RenameOutboundAgrees, RenameOutboundTraffic
    <2>4. Edit(PutOutbound(renamed, x))
      BY <1>2 DEF UpsertOutbound
    <2> HIDE DEF renamed
    <2>5. mem' = PutOutbound(renamed, x)
      BY <2>4, EditedMemory
    <2>6. {original} \cap DOMAIN mem.inbounds \subseteq Robbed
      BY <1>2 DEF Robbed
    <2>7. /\ Agrees(mem')
          /\ WithoutTraffic(mem') \subseteq WithoutTraffic(renamed)
      BY <2>2, <2>3, <2>5, PutOutboundAgrees, PutOutboundTraffic
    <2> QED
      BY <2>3, <2>6, <2>7 DEF Follows
  <1> QED
    BY <1>1, <1>2

LEMMA NodeOpFollows ==
  ASSUME TypeInv, Agrees(mem), NodeOp
  PROVE  Follows(mem')
  <1>0. mem \in Memory
    BY DEF TypeInv, MemoryType
  <1>1. ASSUME NEW n \in InNames, CreateProxy(n) PROVE Follows(mem')
    <2> DEFINE x == [name |-> n, dis |-> FALSE]
               t == mem.traffic \cup {n}
               h == EnsureHealth(mem.health, {x})
               ins == With(mem.inbounds, n, x)
               cin == mem.cfg.ins \cup {x}
               M == [mem EXCEPT !.cfg.ins = cin, !.inbounds = ins,
                                !.traffic = t, !.health = h]
    <2>1. mem' = M /\ n \notin DOMAIN mem.inbounds
      BY <1>0, <1>1, EditedMemory DEF CreateProxy, Memory, Config
    <2>2. x.name = n
      OBVIOUS
    <2> HIDE DEF x, t, h, ins, cin
    <2>3. /\ M.cfg.ins = cin /\ M.inbounds = ins /\ M.traffic = t
          /\ M.outbounds = mem.outbounds /\ M.cfg.outs = mem.cfg.outs
          /\ M.rules = mem.rules /\ M.cfg.routing = mem.cfg.routing
      BY <1>0 DEF Memory, Config
    <2> HIDE DEF M
    <2>4. /\ M.rules = mem.rules \cup {}
          /\ M.cfg.routing.rules = mem.cfg.routing.rules \cup {}
      BY <2>3
    <2>5. Agrees(M) /\ WithoutTraffic(M) \subseteq WithoutTraffic(mem)
      BY <1>0, <2>1, <2>2, <2>3, <2>4, AddInboundAgrees DEF t, ins, cin
    <2> QED
      BY <2>1, <2>5 DEF Follows
  <1>2. ASSUME NEW n \in InNames, CreateForward(n) PROVE Follows(mem')
    <2> DEFINE x == [name |-> n, dis |-> FALSE]
               r == [name |-> n, in |-> n, out |-> Direct, dis |-> FALSE]
               t == mem.traffic \cup {n}
               h == EnsureHealth(mem.health, {x})
               ins == With(mem.inbounds, n, x)
               cin == mem.cfg.ins \cup {x}
               crules == mem.cfg.routing.rules \cup {r}
               rules == mem.rules \cup {r}
               M == [mem EXCEPT !.cfg.ins = cin, !.cfg.routing.rules = crules,
                                !.inbounds = ins, !.rules = rules,
                                !.traffic = t, !.health = h]
    <2>1. mem' = M /\ n \notin DOMAIN mem.inbounds
      BY <1>0, <1>2, EditedMemory DEF CreateForward, Memory, Config
    <2>2. x.name = n
      OBVIOUS
    <2> HIDE DEF x, r, t, h, ins, cin, crules, rules
    <2>3. /\ M.cfg.ins = cin /\ M.inbounds = ins /\ M.traffic = t
          /\ M.outbounds = mem.outbounds /\ M.cfg.outs = mem.cfg.outs
          /\ M.rules = rules /\ M.cfg.routing.rules = crules
      BY <1>0 DEF Memory, Config, Routing
    <2> HIDE DEF M
    <2>4. Agrees(M) /\ WithoutTraffic(M) \subseteq WithoutTraffic(mem)
      BY <1>0, <2>1, <2>2, <2>3, AddInboundAgrees
         DEF t, ins, cin, crules, rules
    <2> QED
      BY <2>1, <2>4 DEF Follows
  <1>3. ASSUME NEW x \in Inbound, UpsertInbound(x) PROVE Follows(mem')
    <2> DEFINE M == PutInbound(mem, x)
    <2>1. mem' = M
      BY <1>3, EditedMemory DEF UpsertInbound
    <2>2. Agrees(M)
      BY <1>0, PutInboundAgrees
    <2>3. /\ M.inbounds = With(mem.inbounds, x.name, x)
          /\ M.outbounds = mem.outbounds
          /\ M.traffic = mem.traffic \cup {x.name}
      BY <1>0 DEF PutInbound, Memory, Config
    <2> HIDE DEF M
    <2>4. DOMAIN M.inbounds = DOMAIN mem.inbounds \cup {x.name}
      BY <2>3 DEF With
    <2>5. WithoutTraffic(M) \subseteq WithoutTraffic(mem)
      BY <2>3, <2>4 DEF WithoutTraffic
    <2> QED
      BY <2>1, <2>2, <2>5 DEF Follows
  <1>4. ASSUME NEW x \in NewOutbounds, NEW original \in OutNames \cup {NoName},
               UpsertOutbound(original, x)
        PROVE  Follows(mem')
    BY <1>0, <1>4, UpsertOutboundFollows
  <1>5. ASSUME NEW I \in SUBSET InNames, NEW O \in SUBSET OutNames,
               DeleteNodes(I, O)
        PROVE  Follows(mem')
    <2> DEFINE M == DropNodes(mem, I, O)
    <2>1. mem' = M
      BY <1>5, EditedMemory DEF DeleteNodes
    <2>2. Agrees(M)
      BY <1>0, DropNodesAgrees
    <2>3. /\ M.inbounds = [n \in DOMAIN mem.inbounds \ I |-> mem.inbounds[n]]
          /\ M.outbounds = [n \in DOMAIN mem.outbounds \ O |-> mem.outbounds[n]]
          /\ M.traffic = mem.traffic
      BY <1>0, DropNodesFields
    <2> HIDE DEF M
    <2>4. WithoutTraffic(M) \subseteq WithoutTraffic(mem)
      BY <2>3 DEF WithoutTraffic
    <2> QED
      BY <2>1, <2>2, <2>4 DEF Follows
  <1>6. ASSUME NEW I \in SUBSET InNames, NEW O \in SUBSET OutNames,
               NEW on \in BOOLEAN, SetNodesEnabled(I, O, on)
        PROVE  Follows(mem')
    <2> DEFINE M == SwitchNodes(mem, I, O, ~on)
    <2>1. mem' = M
      BY <1>6, EditedMemory DEF SetNodesEnabled
    <2>2. /\ Agrees(M) /\ M.traffic = mem.traffic
          /\ DOMAIN M.inbounds = DOMAIN mem.inbounds
          /\ DOMAIN M.outbounds = DOMAIN mem.outbounds
      BY <1>0, SwitchNodesAgrees
    <2> HIDE DEF M
    <2> QED
      BY <2>1, <2>2 DEF Follows, WithoutTraffic
  <1> QED
    BY <1>1, <1>2, <1>3, <1>4, <1>5, <1>6 DEF NodeOp

LEMMA ReplaceFollows ==
  ASSUME NEW m \in Memory, NEW c \in Config, Validate(c), NEW k, NEW M,
         M = [Replace(m, c) EXCEPT !.kernel = k]
  PROVE  Agrees(M) /\ WithoutTraffic(M) = {}
  <1>1. Agrees(Replace(m, c))
    BY ReplaceAgrees DEF Validate
  <1>2. Replace(m, c) \in Memory
    BY ReplaceType
  <1>3. /\ M.inbounds = Replace(m, c).inbounds
        /\ M.outbounds = Replace(m, c).outbounds
        /\ M.cfg = Replace(m, c).cfg
        /\ M.rules = Replace(m, c).rules
        /\ M.traffic = Replace(m, c).traffic
    BY <1>2 DEF Memory
  <1>4. /\ Replace(m, c).inbounds = ByName(c.ins)
        /\ Replace(m, c).outbounds = ByName(c.outs)
        /\ Replace(m, c).traffic = m.traffic \cup Names(c.ins) \cup Names(c.outs)
    BY DEF Replace, Memory
  <1>5. WithoutTraffic(M) = {}
    BY <1>3, <1>4 DEF WithoutTraffic, ByName
  <1> QED
    BY <1>1, <1>3, <1>5 DEF Agrees

LEMMA FreshTraffic == WithoutTraffic(Fresh) = {}
  BY DEF WithoutTraffic, Fresh, NoEntries

(* The memory, and the snapshot to which a failure returns.                *)
MemoryInv == Agrees(mem) /\ Agrees(snap)

(* The edits of settings and of an import.                                 *)
LEMMA OtherEdits ==
  ASSUME TypeInv, MemoryInv,
         \/ \E r \in NewRoutings : UpdateRoutingConfig(r)
         \/ \E x \in NewMihomos : UpdateMihomoConfig(x)
         \/ \E k \in NewKernels : UpdateKernelConfig(k)
         \/ \E k \in Kernel : KernelStopFails(k)
         \/ \E items \in Imports : StartImport(items)
         \/ ApplyPending \/ ImportItem
  PROVE  Follows(mem')
  <1>0. mem \in Memory /\ Agrees(mem)
    BY DEF TypeInv, MemoryType, MemoryInv
  <1>1. ASSUME NEW r \in NewRoutings, UpdateRoutingConfig(r) PROVE Follows(mem')
    <2> DEFINE R == r.rules
               M == [mem EXCEPT !.cfg.routing = r, !.rules = R]
    <2>1. mem' = M
      BY <1>1, EditedMemory DEF UpdateRoutingConfig
    <2> HIDE DEF R
    <2>2. /\ M.cfg.routing = r /\ M.rules = R
          /\ M.inbounds = mem.inbounds /\ M.outbounds = mem.outbounds
          /\ M.cfg.ins = mem.cfg.ins /\ M.cfg.outs = mem.cfg.outs
          /\ M.traffic = mem.traffic
      BY <1>0 DEF Memory, Config
    <2> HIDE DEF M
    <2> QED
      BY <1>0, <2>1, <2>2 DEF Follows, Agrees, WithoutTraffic, R
  <1>2. ASSUME NEW x \in NewMihomos, UpdateMihomoConfig(x) PROVE Follows(mem')
    <2> DEFINE M == [mem EXCEPT !.cfg.mihomo = x]
    <2>1. mem' = M
      BY <1>2, EditedMemory DEF UpdateMihomoConfig
    <2>2. /\ M.inbounds = mem.inbounds /\ M.outbounds = mem.outbounds
          /\ M.cfg.ins = mem.cfg.ins /\ M.cfg.outs = mem.cfg.outs
          /\ M.traffic = mem.traffic /\ M.rules = mem.rules
          /\ M.cfg.routing = mem.cfg.routing
      BY <1>0 DEF Memory, Config
    <2> HIDE DEF M
    <2> QED
      BY <1>0, <2>1, <2>2 DEF Follows, Agrees, WithoutTraffic
  <1>3. ASSUME NEW k \in NewKernels, UpdateKernelConfig(k) PROVE Follows(mem')
    <2> DEFINE pointer == ConfiguredKernel(kernels, mem.kernel, k)
               M == [mem EXCEPT !.cfg.kernel = k, !.kernel = pointer]
    <2>1. mem' = M
      BY <1>3 DEF UpdateKernelConfig, Enter
    <2> HIDE DEF pointer
    <2>2. /\ M.inbounds = mem.inbounds /\ M.outbounds = mem.outbounds
          /\ M.cfg.ins = mem.cfg.ins /\ M.cfg.outs = mem.cfg.outs
          /\ M.traffic = mem.traffic /\ M.rules = mem.rules
          /\ M.cfg.routing = mem.cfg.routing
      BY <1>0 DEF Memory, Config
    <2> HIDE DEF M
    <2> QED
      BY <1>0, <2>1, <2>2 DEF Follows, Agrees, WithoutTraffic
  <1>4. ASSUME NEW k \in Kernel, KernelStopFails(k) PROVE Follows(mem')
    BY <1>0, <1>4 DEF KernelStopFails, Enter, Follows
  <1>5. ASSUME NEW items \in Imports, StartImport(items) PROVE Follows(mem')
    BY <1>0, <1>5 DEF StartImport, Enter, Follows
  <1>6. CASE ApplyPending
    <2> DEFINE c == Enriched(pending)
               pointer == ConfiguredKernel(kernels, mem.kernel, c.kernel)
    <2>1. c \in Config
      BY <1>6, EnrichedType DEF ApplyPending, TypeInv, StoredType
    <2>2. mem' = [Replace(mem, c) EXCEPT !.kernel = pointer] /\ Validate(c)
      BY <1>6 DEF ApplyPending, ApplyConfig, Enter
    <2> HIDE DEF c, pointer
    <2> QED
      BY <1>0, <2>1, <2>2, ReplaceFollows DEF Follows
  <1>7. CASE ImportItem
    <2>1. PICK x : mem' = PutOutbound(mem, x)
      BY <1>7 DEF ImportItem
    <2> QED
      BY <1>0, <2>1, PutOutboundAgrees, PutOutboundTraffic DEF Follows
  <1> QED
    BY <1>1, <1>2, <1>3, <1>4, <1>5, <1>6, <1>7

(* Where the memory of a step comes from.                                  *)
LEMMA MemoryCases ==
  ASSUME TypeInv, MemoryInv, [Next]_vars
  PROVE  /\ Follows(mem') \/ mem' = mem \/ mem' = snap \/ mem' = Fresh
         /\ snap' \in {snap, mem, Fresh}
  <1>1. CASE NodeOp
    <2>1. HandlerEnters
      BY <1>1, NodeOpEnters
    <2> QED
      BY <1>1, <2>1, NodeOpFollows DEF HandlerEnters, MemoryInv
  <1>2. CASE SettingsOp \/ ImportOp
    <2>1. snap' \in {snap, mem}
      BY <1>2 DEF SettingsOp, ImportOp, UpdateRoutingConfig, UpdateMihomoConfig,
             UpdateKernelConfig, KernelStopFails, EditConfigFile,
             ReadConfigFile, ReadHistoryRow, ApplyPending, ApplyConfig,
             RefusePending, CleanupConfigHistory, StopKernel, ReloadKernel,
             StartImport,
             ImportItem, ImportAborts, ImportEnds, Edit, Enter
    <2>2. \/ mem' = mem
          \/ \E r \in NewRoutings : UpdateRoutingConfig(r)
          \/ \E x \in NewMihomos : UpdateMihomoConfig(x)
          \/ \E k \in NewKernels : UpdateKernelConfig(k)
          \/ \E k \in Kernel : KernelStopFails(k)
          \/ \E items \in Imports : StartImport(items)
          \/ ApplyPending \/ ImportItem
      BY <1>2 DEF SettingsOp, ImportOp, EditConfigFile, ReadConfigFile,
             ReadHistoryRow, RefusePending, CleanupConfigHistory, StopKernel,
             ReloadKernel, ImportAborts, ImportEnds
    <2> QED
      BY <2>1, <2>2, OtherEdits
  <1>3. CASE Commit
    BY <1>3 DEF Commit, CommitValidate, CommitApply, CommitSave, CommitWrite,
           CommitHistory, CommitRuntime, DatabaseFails, Rollback
  <1>4. CASE Boot
    <2> DEFINE c == Taken(file)
               pointer == ConfiguredKernel(FreshKernels, 1, file.kernel)
    <2>1. c \in Config /\ Validate(c)
      BY <1>4, TakenType DEF Boot, BootLoads, TypeInv, StoredType
    <2>2. mem' = [Replace(Fresh, c) EXCEPT !.kernel = pointer] /\ snap' = snap
      BY <1>4 DEF Boot
    <2> HIDE DEF c, pointer
    <2>3. Follows(mem')
      BY <2>1, <2>2, FreshType, ReplaceFollows DEF Follows
    <2> QED
      BY <2>2, <2>3
  <1>5. CASE Crash \/ BootFails \/ BootRefused \/ \E i \in 1..Len(kernels) : KernelExits(i)
    BY <1>5 DEF Crash, BootFails, BootRefused, Die, KernelExits
  <1>6. CASE UNCHANGED vars
    BY <1>6 DEF vars
  <1> QED
    BY <1>1, <1>2, <1>3, <1>4, <1>5, <1>6 DEF Next, Environment

LEMMA MemoryStep ==
  ASSUME TypeInv, MemoryInv, [Next]_vars
  PROVE  MemoryInv'
  <1>1. Agrees(mem) /\ Agrees(snap) /\ Agrees(Fresh)
    BY FreshAgrees DEF MemoryInv
  <1>2. Agrees(mem')
    BY <1>1, MemoryCases DEF Follows
  <1>3. Agrees(snap')
    BY <1>1, MemoryCases
  <1> QED
    BY <1>2, <1>3 DEF MemoryInv

LEMMA MemoryInvariant == Spec => []MemoryInv
  <1>1. Init => MemoryInv
    BY FreshAgrees DEF Init, MemoryInv
  <1> QED
    BY <1>1, MemoryStep, TypeInvariant, PTL DEF Spec

(* The configuration that is saved and applied and the maps that the API   *)
(* lists and edits never come apart, whatever handlers, failures,          *)
(* rollbacks, reloads and crashes follow each other.                       *)
THEOREM MirrorsFollow == Spec => []MirrorsAgree
  <1>1. TypeInv /\ MemoryInv => MirrorsAgree
    <2> SUFFICES ASSUME TypeInv, MemoryInv PROVE MirrorsAgree
      OBVIOUS
    <2>1. /\ mem.inbounds \in Map(InNames, Inbound)
          /\ mem.outbounds \in Map(OutNames, Outbound)
      BY DEF TypeInv, MemoryType, Memory
    <2>2. Agrees(mem)
      BY DEF MemoryInv
    <2>3. mem.inbounds = ByName(mem.cfg.ins) /\ mem.outbounds = ByName(mem.cfg.outs)
      BY <2>1, <2>2, MirrorIsByName DEF Agrees
    <2> QED
      BY <2>2, <2>3 DEF MirrorsAgree, Agrees
  <1> QED
    BY <1>1, TypeInvariant, MemoryInvariant, PTL

(* A node comes to lack the traffic entry that ListNodes dereferences only *)
(* when an outbound is renamed that has the name of an inbound, or when a  *)
(* rollback returns to a memory that lacked it.                            *)
THEOREM TrafficGoesOnlyWithRename == Spec => TrafficLostOnlyByRename
  <1> DEFINE Lost ==
        \A n \in WithoutTraffic(mem') :
          \/ n \in WithoutTraffic(mem) \cup WithoutTraffic(snap)
          \/ /\ n \in DOMAIN mem.inbounds
             /\ \E x \in NewOutbounds : x.name # n /\ UpsertOutbound(n, x)
  <1>1. TypeInv /\ MemoryInv /\ [Next]_vars => [Lost]_vars
    <2> SUFFICES ASSUME TypeInv, MemoryInv, [Next]_vars PROVE Lost
      OBVIOUS
    <2>1. WithoutTraffic(mem')
            \subseteq WithoutTraffic(mem) \cup WithoutTraffic(snap) \cup Robbed
      BY MemoryCases, FreshTraffic DEF Follows
    <2> QED
      BY <2>1 DEF Robbed
  <1> QED
    BY <1>1, TypeInvariant, MemoryInvariant, PTL DEF Spec, TrafficLostOnlyByRename

(* As long as no outbound is renamed that has the name of an inbound,      *)
(* ListNodes finds a traffic entry for every node, whatever else happens.  *)
THEOREM NodesHaveTraffic ==
  Init /\ [][Next /\ Robbed = {}]_vars => []EveryNodeHasTraffic
  <1> DEFINE Counted == WithoutTraffic(mem) = {} /\ WithoutTraffic(snap) = {}
             Careful == Next /\ Robbed = {}
  <1>1. Init => Counted
    BY FreshTraffic DEF Init
  <1>2. TypeInv /\ MemoryInv /\ Counted /\ [Careful]_vars => Counted'
    <2> SUFFICES ASSUME TypeInv, MemoryInv, Counted, [Careful]_vars
                 PROVE  Counted'
      OBVIOUS
    <2>1. CASE Careful
      <3>1. \/ Follows(mem') \/ mem' = mem \/ mem' = snap \/ mem' = Fresh
        BY <2>1, MemoryCases
      <3>2. snap' \in {snap, mem, Fresh}
        BY <2>1, MemoryCases
      <3> QED
        BY <2>1, <3>1, <3>2, FreshTraffic DEF Follows
    <2>2. CASE UNCHANGED vars
      BY <2>2 DEF vars
    <2> QED
      BY <2>1, <2>2
  <1>3. Counted => EveryNodeHasTraffic
    BY DEF EveryNodeHasTraffic
  <1>4. [Careful]_vars => [Next]_vars
    OBVIOUS
  <1> HIDE DEF Counted
  <1>5. Init /\ [][Careful]_vars => Spec
    BY <1>4, PTL DEF Spec
  <1> QED
    BY <1>1, <1>2, <1>3, <1>5, TypeInvariant, MemoryInvariant, PTL

----------------------------------------------------------------------------
(* The configuration in memory stays valid, and references resolve.        *)

Resolves(m) ==
  /\ m.cfg.routing.def \in {NoName, Direct} \cup DOMAIN m.outbounds
  /\ m.cfg.routing.mode = "rule" =>
       \A r \in m.rules : ~r.dis =>
         /\ r.in \in Patterns \cup DOMAIN m.inbounds
         /\ r.out \in {Direct} \cup DOMAIN m.outbounds

(* The memory is valid while no handler has changed more than outbounds,   *)
(* and from Validate to the end of a commit; the snapshot is valid while   *)
(* there may be a failure to return from.                                  *)
ValidInv ==
  /\ Checked
  /\ pc = "down" => op = "boot"
  /\ pc \in {"idle", "import"} => Validate(mem.cfg)
  /\ pc \notin {"down", "idle"} /\ op # "boot" => Validate(snap.cfg)

LEMMA ValidResolves ==
  ASSUME NEW m, Agrees(m), Validate(m.cfg)
  PROVE  Resolves(m)
  BY DEF Agrees, Mirror, Validate, RoutingValid, RuleValid, Resolves

(* A valid outbound that is added, or takes the place of another of its    *)
(* name, leaves a valid configuration valid.                               *)
LEMMA PutOutboundValid ==
  ASSUME NEW m \in Memory, Validate(m.cfg), NEW x, OutboundValid(x)
  PROVE  Validate(PutOutbound(m, x).cfg)
  <1> DEFINE M == PutOutbound(m, x)
  <1>1. /\ M.cfg.outs = Upsert(m.cfg.outs, x)
        /\ M.cfg.ins = m.cfg.ins
        /\ M.cfg.routing = m.cfg.routing
    BY PutOutboundFields
  <1> HIDE DEF M
  <1>2. Distinct(M.cfg.outs) /\ \A o \in M.cfg.outs : OutboundValid(o)
    BY <1>1 DEF Validate, Distinct, Upsert
  <1>3. Names(m.cfg.outs) \subseteq Names(M.cfg.outs)
    BY <1>1 DEF Names, Upsert
  <1>4. RoutingValid(M.cfg.routing, M.cfg.ins, M.cfg.outs)
    BY <1>1, <1>3 DEF Validate, RoutingValid, RuleValid
  <1>5. Validate(M.cfg)
    BY <1>1, <1>2, <1>4 DEF Validate
  <1> QED
    BY <1>5 DEF M

LEMMA ImportItemValid ==
  ASSUME TypeInv, Validate(mem.cfg), ImportItem
  PROVE  Validate(mem'.cfg)
  <1>1. mem \in Memory
    BY DEF TypeInv, MemoryType
  <1>2. PICK x : OutboundValid(x) /\ mem' = PutOutbound(mem, x)
    BY DEF ImportItem
  <1> QED
    BY <1>1, <1>2, PutOutboundValid

LEMMA ValidStep ==
  ASSUME TypeInv, ValidInv, [Next]_vars
  PROVE  ValidInv'
  <1> USE DEF ValidInv, Checked
  <1>1. CASE HandlerEnters
    BY <1>1 DEF HandlerEnters
  <1>2. CASE OnlyReads
    BY <1>2 DEF OnlyReads
  <1>3. ASSUME NEW k \in Kernel, KernelStopFails(k) PROVE ValidInv'
    BY <1>3 DEF KernelStopFails, Enter
  <1>4. CASE \/ \E c \in EditedConfigs : EditConfigFile(c)
             \/ \E keep \in 1..HistoryKeep : CleanupConfigHistory(keep)
             \/ StopKernel \/ ReloadKernel
             \/ \E i \in 1..Len(kernels) : KernelExits(i)
    BY <1>4 DEF EditConfigFile, CleanupConfigHistory, StopKernel, ReloadKernel,
                KernelExits
  <1>5. CASE ImportItem
    BY <1>5, ImportItemValid DEF ImportItem
  <1>6. CASE ImportAborts \/ ImportEnds
    BY <1>6 DEF ImportAborts, ImportEnds
  <1>7. CASE CommitValidate \/ CommitApply \/ CommitSave \/ CommitWrite
               \/ CommitHistory \/ CommitRuntime
    BY <1>7 DEF CommitValidate, CommitApply, CommitSave, CommitWrite,
                CommitHistory, CommitRuntime, DatabaseFails
  <1>8. CASE Rollback
    BY <1>8 DEF Rollback
  <1>9. CASE Crash \/ BootFails
    BY <1>9 DEF Crash, BootFails, Die
  <1>10. CASE Boot \/ BootRefused
    BY <1>10 DEF Boot, BootRefused, BootLoads
  <1> QED
    BY <1>1, <1>2, <1>3, <1>4, <1>5, <1>6, <1>7, <1>8, <1>9, <1>10, StepCases
       DEF Commit

LEMMA ValidInvariant == Spec => []ValidInv
  <1>1. Init => ValidInv
    BY DEF Init, ValidInv, Checked
  <1> QED
    BY <1>1, ValidStep, TypeInvariant, PTL DEF Spec

(* Between handlers the configuration in memory is one that Validate       *)
(* accepts, also after a rollback, a restart and an import that gave up    *)
(* halfway: no handler is refused for what an earlier one has left.        *)
THEOREM MemoryStaysValid == Spec => [](pc = "idle" => Validate(mem.cfg))
  <1>1. ValidInv => (pc = "idle" => Validate(mem.cfg))
    BY DEF ValidInv
  <1> QED
    BY <1>1, ValidInvariant, PTL

(* Between handlers every reference in memory leads to a node that the API *)
(* lists, so that Validate does not refuse the next, unrelated change:     *)
(* also after a rollback, and after an import that gave up halfway.        *)
THEOREM ReferencesFollow == Spec => []ReferencesResolve
  <1>1. ValidInv /\ MemoryInv => ReferencesResolve
    BY ValidResolves DEF ValidInv, MemoryInv, Resolves, ReferencesResolve
  <1> QED
    BY <1>1, ValidInvariant, MemoryInvariant, PTL

----------------------------------------------------------------------------
(* What Validate refuses of the operations on nodes, when the memory that  *)
(* they meet is valid.                                                     *)

LEMMA MoreNodesValid ==
  ASSUME NEW r, NEW ins, NEW outs, NEW moreIns, NEW moreOuts,
         RoutingValid(r, ins, outs),
         Names(ins) \subseteq Names(moreIns), Names(outs) \subseteq Names(moreOuts)
  PROVE  RoutingValid(r, moreIns, moreOuts)
  BY DEF RoutingValid, RuleValid

LEMMA PutInboundValid ==
  ASSUME NEW m \in Memory, Validate(m.cfg), NEW x
  PROVE  Validate(PutInbound(m, x).cfg)
  <1> DEFINE M == PutInbound(m, x)
  <1>1. /\ M.cfg.ins = Upsert(m.cfg.ins, x)
        /\ M.cfg.outs = m.cfg.outs
        /\ M.cfg.routing = m.cfg.routing
    BY DEF PutInbound, Memory, Config
  <1> HIDE DEF M
  <1>2. Distinct(M.cfg.ins)
    BY <1>1 DEF Validate, Distinct, Upsert
  <1>3. Names(m.cfg.ins) \subseteq Names(M.cfg.ins)
    BY <1>1 DEF Names, Upsert
  <1>4. RoutingValid(M.cfg.routing, M.cfg.ins, M.cfg.outs)
    BY <1>1, <1>3, MoreNodesValid DEF Validate
  <1>5. Validate(M.cfg)
    BY <1>1, <1>2, <1>4 DEF Validate
  <1> QED
    BY <1>5 DEF M

LEMMA AddInboundValid ==
  ASSUME NEW c, NEW C, Validate(c), NEW x, x.name \notin Names(c.ins),
         C.ins = c.ins \cup {x}, C.outs = c.outs,
         RoutingValid(C.routing, c.ins, c.outs)
           \/ RoutingValid(C.routing, C.ins, C.outs)
  PROVE  Validate(C)
  <1>1. Distinct(C.ins)
    BY DEF Validate, Distinct, Names
  <1>2. Names(c.ins) \subseteq Names(C.ins)
    BY DEF Names
  <1>3. RoutingValid(C.routing, C.ins, C.outs)
    BY <1>2, MoreNodesValid
  <1> QED
    BY <1>1, <1>3 DEF Validate

LEMMA SwitchNodesValid ==
  ASSUME NEW m \in Memory, Validate(m.cfg), NEW I, NEW O, NEW off
  PROVE  Validate(SwitchNodes(m, I, O, off).cfg)
  <1> DEFINE switch(x, S) == IF x.name \in S THEN [x EXCEPT !.dis = off] ELSE x
             M == SwitchNodes(m, I, O, off)
  <1>1. /\ M.cfg.ins = {switch(x, I) : x \in m.cfg.ins}
        /\ M.cfg.outs = {switch(x, O) : x \in m.cfg.outs}
        /\ M.cfg.routing = m.cfg.routing
    BY DEF SwitchNodes, Memory, Config
  <1>2. m.cfg.ins \subseteq Inbound /\ m.cfg.outs \subseteq Outbound
    BY DEF Memory, Config
  <1>3. \A x \in Inbound : switch(x, I).name = x.name
    BY DEF Inbound
  <1>4. \A x \in Outbound : /\ switch(x, O).name = x.name
                            /\ switch(x, O).content = x.content
    BY DEF Outbound
  <1> HIDE DEF M, switch
  <1>5. Distinct(M.cfg.ins) /\ Names(M.cfg.ins) = Names(m.cfg.ins)
    BY <1>1, <1>2, <1>3 DEF Validate, Distinct, Names
  <1>6. Distinct(M.cfg.outs) /\ Names(M.cfg.outs) = Names(m.cfg.outs)
    BY <1>1, <1>2, <1>4 DEF Validate, Distinct, Names
  <1>7. \A o \in M.cfg.outs : OutboundValid(o)
    BY <1>1, <1>2, <1>4 DEF Validate, OutboundValid
  <1>8. RoutingValid(M.cfg.routing, M.cfg.ins, M.cfg.outs)
    BY <1>1, <1>5, <1>6, MoreNodesValid DEF Validate
  <1>9. Validate(M.cfg)
    BY <1>5, <1>6, <1>7, <1>8 DEF Validate
  <1> QED
    BY <1>9 DEF M

(* The rules for a node go with it, but a default outbound stays.          *)
LEMMA DropNodesValid ==
  ASSUME NEW m \in Memory, Validate(m.cfg), NEW I, NEW O \in SUBSET OutNames
  PROVE  Validate(DropNodes(m, I, O).cfg) <=> m.cfg.routing.def \notin O
  <1> DEFINE M == DropNodes(m, I, O)
  <1>1. /\ M.cfg.ins = Delete(m.cfg.ins, I)
        /\ M.cfg.outs = Delete(m.cfg.outs, O)
        /\ M.cfg.routing.rules = DeleteRulesForNode(m.cfg.routing.rules, I, O)
    BY DEF DropNodes, Memory, Config, Routing
  <1>2. /\ M.cfg.routing.mode = m.cfg.routing.mode
        /\ M.cfg.routing.def = m.cfg.routing.def
    BY DEF DropNodes, Memory, Config, Routing
  <1> HIDE DEF M
  <1>3. /\ Names(M.cfg.ins) = Names(m.cfg.ins) \ I
        /\ Names(M.cfg.outs) = Names(m.cfg.outs) \ O
    BY <1>1 DEF Names, Delete
  <1>4. /\ Distinct(M.cfg.ins) /\ Distinct(M.cfg.outs)
        /\ \A o \in M.cfg.outs : OutboundValid(o)
    BY <1>1 DEF Validate, Distinct, Delete
  <1>5. m.cfg.routing.mode = "rule" =>
          /\ DistinctRules(M.cfg.routing.rules)
          /\ \A r \in M.cfg.routing.rules : r.dis \/ RuleValid(r, M.cfg.ins, M.cfg.outs)
    <2> SUFFICES ASSUME m.cfg.routing.mode = "rule"
                 PROVE  /\ DistinctRules(M.cfg.routing.rules)
                        /\ \A r \in M.cfg.routing.rules :
                             r.dis \/ RuleValid(r, M.cfg.ins, M.cfg.outs)
      OBVIOUS
    <2>1. DistinctRules(M.cfg.routing.rules)
      BY <1>1 DEF Validate, RoutingValid, DistinctRules, Distinct,
         DeleteRulesForNode
    <2>2. ASSUME NEW r \in M.cfg.routing.rules, ~r.dis
          PROVE  RuleValid(r, M.cfg.ins, M.cfg.outs)
      <3>1. r \in m.cfg.routing.rules /\ r.in \notin I /\ r.out \notin O
        BY <1>1 DEF DeleteRulesForNode
      <3>2. RuleValid(r, m.cfg.ins, m.cfg.outs)
        BY <2>2, <3>1 DEF Validate, RoutingValid
      <3> QED
        BY <1>3, <3>1, <3>2 DEF RuleValid
    <2> QED
      BY <2>1, <2>2
  <1>6. O \cap {NoName, Direct} = {}
    BY ModelAssumption
  <1>7. M.cfg.routing.def \in {NoName, Direct} \cup Names(M.cfg.outs)
          <=> m.cfg.routing.def \notin O
    BY <1>2, <1>3, <1>6 DEF Validate, RoutingValid
  <1>8. Validate(M.cfg) <=> m.cfg.routing.def \notin O
    BY <1>2, <1>4, <1>5, <1>7 DEF Validate, RoutingValid
  <1> QED
    BY <1>8 DEF M

LEMMA PutOutboundRefused ==
  ASSUME NEW m \in Memory, NEW x, ~OutboundValid(x)
  PROVE  ~Validate(PutOutbound(m, x).cfg)
  <1>1. x \in PutOutbound(m, x).cfg.outs
    BY PutOutboundFields DEF Upsert
  <1> QED
    BY <1>1 DEF Validate

(* The references to an outbound follow its new name.                      *)
LEMMA RenamedValid ==
  ASSUME NEW m \in Memory, Validate(m.cfg), NEW old \in OutNames,
         NEW x \in Outbound, x.name # old, OutboundValid(x)
  PROVE  Validate(PutOutbound(RenameOutbound(m, old, x.name), x).cfg)
  <1> DEFINE N == RenameOutbound(m, old, x.name)
             M == PutOutbound(N, x)
  <1>0. x.name \in OutNames
    BY DEF Outbound
  <1>1. N \in Memory
    BY <1>0, RenameOutboundType
  <1>2. N.cfg.outs = Delete(m.cfg.outs, {old}) /\ N.cfg.ins = m.cfg.ins
    <2>1. Renamed(m, N, old, x.name)
      BY RenameOutboundFields
    <2> HIDE DEF N
    <2> QED
      BY <2>1 DEF Renamed
  <1>3. N.cfg.routing = RenamedRouting(m.cfg.routing, old, x.name)
    BY DEF RenameOutbound, Memory, Config
  <1> HIDE DEF N
  <1>4. /\ M.cfg.outs = Upsert(Delete(m.cfg.outs, {old}), x)
        /\ M.cfg.ins = m.cfg.ins
        /\ M.cfg.routing = RenamedRouting(m.cfg.routing, old, x.name)
    BY <1>1, <1>2, <1>3, PutOutboundFields
  <1> HIDE DEF M
  <1>5. /\ M.cfg.routing.mode = m.cfg.routing.mode
        /\ M.cfg.routing.def = IF m.cfg.routing.def = old THEN x.name
                               ELSE m.cfg.routing.def
        /\ M.cfg.routing.rules =
             RenameRoutingOutbound(m.cfg.routing.rules, old, x.name)
    BY <1>4 DEF RenamedRouting, Memory, Config, Routing
  <1>6. Names(M.cfg.outs) = (Names(m.cfg.outs) \ {old}) \cup {x.name}
    BY <1>4 DEF Names, Upsert, Delete
  <1>7. Distinct(M.cfg.outs) /\ \A o \in M.cfg.outs : OutboundValid(o)
    BY <1>4 DEF Validate, Distinct, Upsert, Delete
  <1> DEFINE g(r) == IF r.out = old THEN [r EXCEPT !.out = x.name] ELSE r
  <1>8. \A r \in m.cfg.routing.rules :
          /\ g(r).name = r.name /\ g(r).in = r.in /\ g(r).dis = r.dis
          /\ g(r).out = IF r.out = old THEN x.name ELSE r.out
    BY DEF Memory, Config, Routing, Rule
  <1>9. M.cfg.routing.rules = {g(r) : r \in m.cfg.routing.rules}
    BY <1>5 DEF RenameRoutingOutbound
  <1> HIDE DEF g
  <1>10. ASSUME m.cfg.routing.mode = "rule"
         PROVE  /\ DistinctRules(M.cfg.routing.rules)
                /\ \A r \in M.cfg.routing.rules :
                     r.dis \/ RuleValid(r, M.cfg.ins, M.cfg.outs)
    <2>1. DistinctRules(M.cfg.routing.rules)
      BY <1>8, <1>9, <1>10 DEF Validate, RoutingValid, DistinctRules, Distinct
    <2>2. ASSUME NEW r \in m.cfg.routing.rules, ~r.dis
          PROVE  RuleValid(g(r), M.cfg.ins, M.cfg.outs)
      <3>1. RuleValid(r, m.cfg.ins, m.cfg.outs)
        BY <1>10, <2>2 DEF Validate, RoutingValid
      <3> QED
        BY <1>4, <1>6, <1>8, <3>1 DEF RuleValid
    <2> QED
      BY <1>8, <1>9, <2>1, <2>2
  <1>11. M.cfg.routing.def \in {NoName, Direct} \cup Names(M.cfg.outs)
    BY <1>5, <1>6 DEF Validate, RoutingValid
  <1>12. RoutingValid(M.cfg.routing, M.cfg.ins, M.cfg.outs)
    BY <1>5, <1>10, <1>11 DEF RoutingValid
  <1>13. Validate(M.cfg)
    BY <1>4, <1>7, <1>12 DEF Validate
  <1> QED
    BY <1>13 DEF M, N

LEMMA NewInboundValid ==
  ASSUME mem \in Memory, Agrees(mem), Validate(mem.cfg), NEW n \in InNames
  PROVE  /\ CreateProxy(n) => Validate(mem'.cfg)
         /\ CreateForward(n) =>
              (Validate(mem'.cfg) <=> \/ mem.cfg.routing.mode # "rule"
                                      \/ n \notin Names(mem.cfg.routing.rules))
  <1> DEFINE x == [name |-> n, dis |-> FALSE]
             r == [name |-> n, in |-> n, out |-> Direct, dis |-> FALSE]
             c == mem.cfg
  <1>1. x.name = n /\ r.name = n /\ r.in = n /\ r.out = Direct /\ ~r.dis
    OBVIOUS
  <1>2. n \notin DOMAIN mem.inbounds => n \notin Names(c.ins)
    BY DEF Agrees, Mirror
  <1>3. ASSUME CreateProxy(n) PROVE Validate(mem'.cfg)
    <2> DEFINE C == mem'.cfg
    <2>1. n \notin DOMAIN mem.inbounds
      BY <1>3 DEF CreateProxy
    <2>2. C.ins = c.ins \cup {x} /\ C.outs = c.outs /\ C.routing = c.routing
      <3> DEFINE cin == c.ins \cup {x}
                 ins == With(mem.inbounds, n, x)
                 t == mem.traffic \cup {n}
                 h == EnsureHealth(mem.health, {x})
                 M == [mem EXCEPT !.cfg.ins = cin, !.inbounds = ins,
                                  !.traffic = t, !.health = h]
      <3>1. mem' = M
        BY <1>3, EditedMemory DEF CreateProxy, Memory, Config
      <3> HIDE DEF cin, ins, t, h
      <3>2. M.cfg.ins = cin /\ M.cfg.outs = c.outs /\ M.cfg.routing = c.routing
        BY DEF Memory, Config
      <3> QED
        BY <3>1, <3>2 DEF cin
    <2> HIDE DEF x, c, C
    <2>3. Validate(c) /\ RoutingValid(C.routing, c.ins, c.outs)
      BY <2>2 DEF Validate, c
    <2> QED
      BY <1>1, <1>2, <2>1, <2>2, <2>3, AddInboundValid DEF C
  <1>4. ASSUME CreateForward(n)
        PROVE  Validate(mem'.cfg) <=> \/ c.routing.mode # "rule"
                                      \/ n \notin Names(c.routing.rules)
    <2> DEFINE C == mem'.cfg
    <2>1. n \notin DOMAIN mem.inbounds
      BY <1>4 DEF CreateForward
    <2>2. /\ C.ins = c.ins \cup {x} /\ C.outs = c.outs
          /\ C.routing.rules = c.routing.rules \cup {r}
          /\ C.routing.mode = c.routing.mode /\ C.routing.def = c.routing.def
      <3> DEFINE cin == c.ins \cup {x}
                 crules == c.routing.rules \cup {r}
                 ins == With(mem.inbounds, n, x)
                 rules == mem.rules \cup {r}
                 t == mem.traffic \cup {n}
                 h == EnsureHealth(mem.health, {x})
                 M == [mem EXCEPT !.cfg.ins = cin, !.cfg.routing.rules = crules,
                                  !.inbounds = ins, !.rules = rules,
                                  !.traffic = t, !.health = h]
      <3>1. mem' = M
        BY <1>4, EditedMemory DEF CreateForward, Memory, Config
      <3> HIDE DEF cin, crules, ins, rules, t, h
      <3>2. /\ M.cfg.ins = cin /\ M.cfg.outs = c.outs
            /\ M.cfg.routing.rules = crules
            /\ M.cfg.routing.mode = c.routing.mode
            /\ M.cfg.routing.def = c.routing.def
        BY DEF Memory, Config, Routing
      <3> QED
        BY <3>1, <3>2 DEF cin, crules
    <2>3. Validate(c)
      OBVIOUS
    <2> HIDE DEF x, r, c, C
    <2>4. RuleValid(r, C.ins, C.outs)
      BY <1>1, <2>2 DEF RuleValid, Names
    <2>5. CASE c.routing.mode # "rule" \/ n \notin Names(c.routing.rules)
      <3>1. C.routing.mode = "rule" => DistinctRules(C.routing.rules)
        BY <1>1, <2>2, <2>3, <2>5
           DEF Validate, RoutingValid, DistinctRules, Distinct, Names
      <3>2. RoutingValid(C.routing, C.ins, C.outs)
        <4>1. Names(c.ins) \subseteq Names(C.ins)
          BY <2>2 DEF Names
        <4>2. RoutingValid(c.routing, C.ins, C.outs)
          BY <2>2, <2>3, <4>1, MoreNodesValid DEF Validate
        <4> QED
          BY <2>2, <2>4, <3>1, <4>2 DEF RoutingValid
      <3>3. x.name \notin Names(c.ins)
        BY <1>1, <1>2, <2>1
      <3>4. Validate(C)
        BY <2>2, <2>3, <3>2, <3>3, AddInboundValid
      <3> QED
        BY <2>5, <3>4 DEF C
    <2>6. CASE c.routing.mode = "rule" /\ n \in Names(c.routing.rules)
      <3>1. PICK q \in c.routing.rules : q.name = n
        BY <2>6 DEF Names
      <3>2. q # r
        BY <1>1, <1>2, <2>1, <2>3, <2>6, <3>1, ModelAssumption
           DEF Validate, RoutingValid, RuleValid
      <3>3. ~DistinctRules(C.routing.rules)
        BY <1>1, <2>2, <3>1, <3>2, ModelAssumption DEF DistinctRules, Distinct
      <3>4. ~Validate(C)
        BY <2>2, <2>6, <3>3 DEF Validate, RoutingValid
      <3> QED
        BY <2>6, <3>4 DEF C
    <2> QED
      BY <2>5, <2>6
  <1> QED
    BY <1>3, <1>4

LEMMA UpsertOutboundValid ==
  ASSUME mem \in Memory, Validate(mem.cfg), NEW x \in NewOutbounds,
         NEW original \in OutNames \cup {NoName}, UpsertOutbound(original, x)
  PROVE  Validate(mem'.cfg) <=> OutboundValid(x)
  <1>1. x \in Outbound /\ x.name \in OutNames
    BY StoreAssumption DEF Outbound
  <1>2. CASE original \in {NoName, x.name}
    <2>1. mem' = PutOutbound(mem, x)
      BY <1>2, EditedMemory DEF UpsertOutbound
    <2> QED
      BY <2>1, PutOutboundValid, PutOutboundRefused
  <1>3. CASE original \notin {NoName, x.name}
    <2> DEFINE renamed == RenameOutbound(mem, original, x.name)
    <2>1. renamed \in Memory
      BY <1>1, <1>3, RenameOutboundType
    <2>2. OutboundValid(x) => Validate(PutOutbound(renamed, x).cfg)
      BY <1>1, <1>3, RenamedValid
    <2>3. Edit(PutOutbound(renamed, x))
      BY <1>3 DEF UpsertOutbound
    <2> HIDE DEF renamed
    <2>4. mem' = PutOutbound(renamed, x)
      BY <2>3, EditedMemory
    <2> QED
      BY <2>1, <2>2, <2>4, PutOutboundRefused
  <1> QED
    BY <1>2, <1>3

(* An operation on nodes that has found what it names is refused by        *)
(* Validate for one of three reasons only: the content of its outbound is  *)
(* bad, it deletes the default outbound, or, in rule mode, the name of a   *)
(* new forward is already that of a rule.  In particular a rename carries  *)
(* every reference along, a deletion takes the rules that would dangle,    *)
(* and a node can always be disabled, whoever refers to it.                *)
THEOREM RefusalsAreExplained == Spec => RefusalsHaveAReason
  <1>1. TypeInv /\ MemoryInv /\ ValidInv => RefusedOnlyFor
    <2> SUFFICES ASSUME TypeInv, MemoryInv, ValidInv PROVE RefusedOnlyFor
      OBVIOUS
    <2>1. mem \in Memory /\ Agrees(mem)
      BY DEF TypeInv, MemoryType, MemoryInv
    <2>2. pc = "idle" => Validate(mem.cfg)
      BY DEF ValidInv
    <2>3. ASSUME NEW n \in InNames
          PROVE  /\ CreateProxy(n) => Validate(mem'.cfg)
                 /\ CreateForward(n) =>
                      (Validate(mem'.cfg) <=>
                         \/ mem.cfg.routing.mode # "rule"
                         \/ n \notin Names(mem.cfg.routing.rules))
      <3>1. CreateProxy(n) \/ CreateForward(n) => pc = "idle"
        BY DEF CreateProxy, CreateForward, Edit, Enter
      <3> QED
        BY <2>1, <2>2, <3>1, NewInboundValid
    <2>4. ASSUME NEW x \in Inbound, UpsertInbound(x) PROVE Validate(mem'.cfg)
      <3>1. pc = "idle" /\ mem' = PutInbound(mem, x)
        BY <2>4 DEF UpsertInbound, Edit, Enter
      <3> QED
        BY <2>1, <2>2, <3>1, PutInboundValid
    <2>5. ASSUME NEW x \in NewOutbounds, NEW original \in OutNames \cup {NoName},
                 UpsertOutbound(original, x)
          PROVE  Validate(mem'.cfg) <=> OutboundValid(x)
      <3>1. pc = "idle"
        BY <2>5 DEF UpsertOutbound, Edit, Enter
      <3> QED
        BY <2>1, <2>2, <2>5, <3>1, UpsertOutboundValid
    <2>6. ASSUME NEW I \in SUBSET InNames, NEW O \in SUBSET OutNames,
                 DeleteNodes(I, O)
          PROVE  Validate(mem'.cfg) <=> mem.cfg.routing.def \notin O
      <3>1. pc = "idle" /\ mem' = DropNodes(mem, I, O)
        BY <2>6 DEF DeleteNodes, Edit, Enter
      <3> QED
        BY <2>1, <2>2, <3>1, DropNodesValid
    <2>7. ASSUME NEW I \in SUBSET InNames, NEW O \in SUBSET OutNames,
                 NEW on \in BOOLEAN, SetNodesEnabled(I, O, on)
          PROVE  Validate(mem'.cfg)
      <3>1. pc = "idle" /\ mem' = SwitchNodes(mem, I, O, ~on)
        BY <2>7 DEF SetNodesEnabled, Edit, Enter
      <3> QED
        BY <2>1, <2>2, <3>1, SwitchNodesValid
    <2> QED
      BY <2>3, <2>4, <2>5, <2>6, <2>7 DEF RefusedOnlyFor
  <1> QED
    BY <1>1, TypeInvariant, MemoryInvariant, ValidInvariant, PTL
       DEF Spec, RefusalsHaveAReason

----------------------------------------------------------------------------
(* The store implements the register.                                      *)

Live == IF op = "boot" THEN NoConfig
        ELSE IF pc = "idle" THEN mem.cfg ELSE snap.cfg

Prepared == IF pc \in {"idle", "down"} THEN NoConfig ELSE mem.cfg

Kept == IF cause \in {"none", "database"} THEN file ELSE NoConfig

Late == cause = "database"

LEMMA ConfigsType ==
  ASSUME TypeInv
  PROVE  /\ mem.cfg \in Config /\ mem.cfg # NoConfig
         /\ snap.cfg \in Config /\ snap.cfg # NoConfig
         /\ file \in Config \cup {Torn}
         /\ pc \in Phases /\ op \in {"boot", "serve"}
  BY StoreAssumption DEF TypeInv, MemoryType, StoredType, ControlType, Memory

(* Every step of the store is a step of the register, or changes nothing   *)
(* there.                                                                  *)
LEMMA StepOfRegister ==
  ASSUME TypeInv, TypeInv', DiskInv, DiskInv', ValidInv, [Next]_vars
  PROVE  [Register!RegisterNext]_(Register!registerVars)
  <1> DEFINE Same == UNCHANGED <<Live, Prepared, Kept, Late>>
             Goal == [Register!RegisterNext]_(Register!registerVars)
  <1>0. Same => Goal
    BY DEF Live, Prepared, Kept, Late, Register!registerVars
  <1>a. /\ mem.cfg \in Config /\ mem.cfg # NoConfig
        /\ snap.cfg \in Config /\ snap.cfg # NoConfig
        /\ file \in Config \cup {Torn}
        /\ pc \in Phases /\ op \in {"boot", "serve"}
    BY ConfigsType
  <1>b. /\ mem'.cfg \in Config /\ mem'.cfg # NoConfig
        /\ snap'.cfg \in Config /\ snap'.cfg # NoConfig
        /\ file' \in Config \cup {Torn}
    BY StoreAssumption DEF TypeInv, MemoryType, StoredType, ControlType, Memory
  <1>c. pc \notin {"validate", "apply", "save", "write", "history", "runtime",
                   "rollback", "down"} => op = "serve"
    BY <1>a DEF DiskInv, Phases
  <1>d. Register!Disturb \/ Register!Begin \/ Register!Revise \/ Register!Write
          \/ Register!Commit \/ Register!FailLate \/ Register!Abort
          \/ Register!Leak \/ Register!Die \/ Register!Load
          \/ Register!Refuse => Goal
    BY DEF Register!RegisterNext
  <1>1. CASE HandlerEnters
    <2>1. Register!Begin
      BY <1>1, <1>a, <1>b, <1>c
         DEF HandlerEnters, DiskInv, Register!Begin, Register!InStep
    <2> QED
      BY <2>1, <1>d
  <1>2. CASE OnlyReads
    <2>1. Same
      BY <1>2 DEF OnlyReads, Live, Prepared, Kept, Late
    <2> QED
      BY <2>1, <1>0
  <1>3. ASSUME NEW k \in Kernel, KernelStopFails(k) PROVE Goal
    <2>1. Same
      BY <1>3 DEF KernelStopFails, Enter, Live, Prepared, Kept, Late
    <2> QED
      BY <2>1, <1>0
  <1>4. ASSUME NEW c \in EditedConfigs, EditConfigFile(c) PROVE Goal
    <2>1. Register!Disturb
      BY <1>4 DEF EditConfigFile, Register!Disturb
    <2> QED
      BY <2>1, <1>d
  <1>5. CASE \/ \E keep \in 1..HistoryKeep : CleanupConfigHistory(keep)
             \/ StopKernel \/ ReloadKernel
             \/ \E i \in 1..Len(kernels) : KernelExits(i)
    <2>1. Same
      BY <1>5 DEF CleanupConfigHistory, StopKernel, ReloadKernel, KernelExits,
                  Live, Prepared, Kept, Late
    <2> QED
      BY <2>1, <1>0
  <1>6. CASE ImportItem
    <2>1. Register!Revise
      BY <1>6, <1>a, <1>b, <1>c
         DEF ImportItem, DiskInv, Register!Revise, Register!InStep
    <2> QED
      BY <2>1, <1>d
  <1>7. CASE ImportAborts
    <2>1. Register!Leak
      BY <1>7, <1>a, <1>c DEF ImportAborts, ValidInv, Register!Leak
    <2> QED
      BY <2>1, <1>d
  <1>8. CASE ImportEnds \/ CommitValidate \/ CommitApply
    <2>1. Same
      BY <1>8 DEF ImportEnds, CommitValidate, CommitApply, Live, Prepared, Kept, Late
    <2> QED
      BY <2>1, <1>0
  <1>9. CASE CommitSave
    <2>1. CASE pc' = "write"
      <3>1. Register!Disturb
        BY <1>9, <2>1 DEF CommitSave, Register!Disturb
      <3> QED
        BY <3>1, <1>d
    <2>2. CASE pc' # "write"
      <3>1. Same
        BY <1>9, <2>2 DEF CommitSave, Live, Prepared, Kept, Late
      <3> QED
        BY <3>1, <1>0
    <2> QED
      BY <2>1, <2>2
  <1>10. CASE CommitWrite
    <2>1. CASE cause' = "none"
      <3>1. Register!Write
        BY <1>10, <2>1, <1>a
           DEF CommitWrite, ValidInv, Checked, DiskInv, Register!Write
      <3> QED
        BY <3>1, <1>d
    <2>2. CASE cause' # "none"
      <3>1. Same
        BY <1>10, <2>2 DEF CommitWrite, DiskInv, Live, Prepared, Kept, Late
      <3> QED
        BY <3>1, <1>0
    <2> QED
      BY <2>1, <2>2
  <1>f. ASSUME DatabaseFails, pc \in {"history", "runtime"},
               UNCHANGED <<mem, snap, file, op>>
        PROVE  Goal
    <2>1. CASE cause = "none"
      <3>1. Register!FailLate
        BY <1>f, <2>1, <1>a DEF DatabaseFails, ValidInv, Checked, DiskInv,
                                Register!FailLate
      <3> QED
        BY <3>1, <1>d
    <2>2. CASE cause # "none"
      <3>1. Same
        BY <1>f, <2>2 DEF DatabaseFails, DiskInv, Live, Prepared, Kept, Late
      <3> QED
        BY <3>1, <1>0
    <2> QED
      BY <2>1, <2>2
  <1>11. CASE CommitHistory
    <2>1. CASE pc' = "runtime"
      <3>1. Same
        BY <1>11, <2>1
           DEF CommitHistory, DatabaseFails, Live, Prepared, Kept, Late
      <3> QED
        BY <3>1, <1>0
    <2>2. CASE pc' # "runtime"
      BY <1>11, <1>f, <2>2 DEF CommitHistory
    <2> QED
      BY <2>1, <2>2
  <1>12. CASE CommitRuntime
    <2>1. CASE pc' = "idle"
      <3>1. Register!Commit
        BY <1>12, <2>1, <1>a
           DEF CommitRuntime, DatabaseFails, ValidInv, Checked, DiskInv,
               Register!Commit
      <3> QED
        BY <3>1, <1>d
    <2>2. CASE pc' # "idle"
      BY <1>12, <1>f, <2>2 DEF CommitRuntime
    <2> QED
      BY <2>1, <2>2
  <1>13. CASE Rollback
    <2>1. Register!Abort
      BY <1>13, <1>a DEF Rollback, DiskInv, Register!Abort, Register!InStep
    <2> QED
      BY <2>1, <1>d
  <1>14. CASE Crash \/ BootFails
    <2>1. pc' = "down" /\ op' = "boot"
      BY <1>14 DEF Crash, BootFails, Die
    <2>2. /\ cause' = "none"
          /\ cause \in {"none", "database"} => file' = file
      BY <1>14 DEF Crash, BootFails, Die, DiskInv
    <2>3. Register!Die
      BY <2>1, <2>2, <1>b DEF Register!Die
    <2> QED
      BY <2>3, <1>d
  <1>15. CASE Boot \/ BootRefused
    <2>1. BootLoads /\ pc = "down" /\ file \in Config /\ op = "boot"
      BY <1>15, <1>a DEF Boot, BootRefused, BootLoads, DiskInv
    <2> DEFINE c == Taken(file)
    <2>2. c \in Config
      BY <2>1, TakenType
    <2>3. cause' = "none" => file' \in Config /\ Taken(file') = c
      BY <2>1, LoadedType, LoadedTwice DEF BootLoads, Taken
    <2>4. cause' \in {"none", "write"}
      BY <2>1 DEF BootLoads
    <2>5. cause # "database"
      BY <2>1 DEF DiskInv
    <2> HIDE DEF c
    <2>6. CASE Boot
      <3>1. mem'.cfg = c /\ Validate(c)
        BY <2>6 DEF Boot, Replace, Fresh, c
      <3>2. pc' = "validate" /\ op' = "boot"
        BY <2>1, <2>6 DEF Boot
      <3>3. Register!Load
        BY <2>1, <2>2, <2>3, <2>4, <2>5, <3>1, <3>2, <1>a, <1>b
           DEF Register!Load, c
      <3> QED
        BY <3>3, <1>d
    <2>7. CASE BootRefused
      <3>1. ~Validate(c) /\ UNCHANGED <<mem, snap, pc, op>>
        BY <2>7 DEF BootRefused, c
      <3>2. CASE cause' = "none"
        <4>1. Register!Refuse
          BY <2>1, <2>2, <2>3, <2>5, <3>1, <3>2, <1>a DEF Register!Refuse, c
        <4> QED
          BY <4>1, <1>d
      <3>3. CASE cause' = "write"
        <4>1. Register!Disturb
          BY <2>1, <3>1, <3>3 DEF Register!Disturb
        <4> QED
          BY <4>1, <1>d
      <3> QED
        BY <2>4, <3>2, <3>3
    <2> QED
      BY <1>15, <2>6, <2>7
  <1> QED
    BY <1>1, <1>2, <1>3, <1>4, <1>5, <1>6, <1>7, <1>8, <1>9, <1>10, <1>11,
       <1>12, <1>13, <1>14, <1>15, StepCases DEF Commit

(* The configuration is a register.  It changes only when a handler        *)
(* returns nil, at once, to a value that Validate accepts and that the     *)
(* disk holds unless somebody has written there since; a failed handler    *)
(* leaves it as it was.  A restart continues from what was kept, as        *)
(* LoadConfig normalises it and ApplyConfig enriches it, or ends where     *)
(* Validate refuses what this makes of it; and what a start writes changes *)
(* nothing of it for the next one.  There are two exceptions, each with a  *)
(* step of its own in the register: the import that gives up halfway, and  *)
(* the change that a database refuses after config.yaml was written.       *)
THEOREM RegisterRefinement == Spec => ImplementsRegister
  <1>1. Init => Register!RegisterInit
    BY StoreAssumption DEF Init, Register!RegisterInit
  <1>2. Init => DiskInv
    BY DEF Init, DiskInv
  <1>3. TypeInv /\ DiskInv /\ [Next]_vars => DiskInv'
    BY DiskStep
  <1>4. /\ TypeInv /\ TypeInv' /\ DiskInv /\ DiskInv' /\ ValidInv
        /\ [Next]_vars
        => [Register!RegisterNext]_(Register!registerVars)
    BY StepOfRegister
  <1> QED
    BY <1>1, <1>2, <1>3, <1>4, TypeInvariant, ValidInvariant, PTL
       DEF Spec, ImplementsRegister, Register!RegisterSpec

(* What the register promises by itself, and the store therefore keeps:    *)
(* the live configuration is valid; between handlers the disk holds it     *)
(* unless something has come between or a change was refused late, and     *)
(* then what the disk holds instead is valid, too.                         *)
THEOREM RegisterPromise ==
  ImplementsRegister =>
    [](/\ Live # NoConfig => Validate(Live)
       /\ Live # NoConfig /\ Prepared = NoConfig
            => Late \/ Kept \in {Live, NoConfig}
       /\ Late => Validate(Kept))
  <1> DEFINE Accepted == {c \in Config : Validate(c)}
             Promise  == /\ Live \in Accepted \cup {NoConfig}
                         /\ Live # NoConfig /\ Prepared = NoConfig
                              => Late \/ Kept \in {Live, NoConfig}
                         /\ Live = NoConfig /\ Prepared = NoConfig => ~Late
                         /\ Late => Kept \in Accepted
  <1>0. NoConfig \notin Config
    BY StoreAssumption
  <1>1. Register!RegisterInit => Promise
    BY DEF Register!RegisterInit, Live, Late
  <1>2. Promise /\ [Register!RegisterNext]_(Register!registerVars) => Promise'
    <2> SUFFICES ASSUME Promise, [Register!RegisterNext]_(Register!registerVars)
                 PROVE  Promise'
      OBVIOUS
    <2> USE <1>0 DEF Live, Prepared, Kept, Late
    <2>1. CASE UNCHANGED Register!registerVars
      BY <2>1 DEF Register!registerVars
    <2>2. CASE Register!Begin
      BY <2>2 DEF Register!Begin
    <2>3. CASE Register!Revise
      BY <2>3 DEF Register!Revise
    <2>4. CASE Register!Disturb
      BY <2>4 DEF Register!Disturb
    <2>5. CASE Register!Write
      BY <2>5 DEF Register!Write
    <2>6. CASE Register!Commit
      BY <2>6 DEF Register!Commit
    <2>7. CASE Register!Abort
      BY <2>7 DEF Register!Abort, Register!InStep
    <2>8. CASE Register!Leak
      BY <2>8 DEF Register!Leak
    <2>9. CASE Register!Die
      BY <2>9 DEF Register!Die
    <2>10. CASE Register!Load
      BY <2>10 DEF Register!Load
    <2>11. CASE Register!FailLate
      BY <2>11 DEF Register!FailLate
    <2>12. CASE Register!Refuse
      BY <2>12 DEF Register!Refuse
    <2> QED
      BY <2>1, <2>2, <2>3, <2>4, <2>5, <2>6, <2>7, <2>8, <2>9, <2>10, <2>11,
         <2>12 DEF Register!RegisterNext
  <1>3. Promise => /\ Live # NoConfig => Validate(Live)
                   /\ Live # NoConfig /\ Prepared = NoConfig
                        => Late \/ Kept \in {Live, NoConfig}
                   /\ Late => Validate(Kept)
    OBVIOUS
  <1> QED
    BY <1>1, <1>2, <1>3, PTL DEF ImplementsRegister, Register!RegisterSpec

----------------------------------------------------------------------------
(* How far two failures go that break a promise of the code: each has one  *)
(* cause, and without that cause the promise holds.                        *)

AtRest == pc = "idle" => mem = snap

(* FailedHandlerRestores does not hold, because of the import that gives   *)
(* up halfway.  Nothing else breaks it: without that return every failed   *)
(* handler, whatever fails and whenever the agent dies, leaves the memory  *)
(* as it found it, a restart of the handler's work included.               *)
THEOREM OnlyImportsLeaveChanges ==
  Init /\ [][Next /\ ~ImportAborts]_vars => []FailedHandlerRestores
  <1>1. Init => AtRest
    BY DEF Init, AtRest
  <1>2. TypeInv /\ AtRest /\ [Next /\ ~ImportAborts]_vars => AtRest'
    <2> SUFFICES ASSUME TypeInv, AtRest, [Next]_vars,
                        ~ImportAborts \/ UNCHANGED vars
                 PROVE  AtRest'
      OBVIOUS
    <2> USE DEF AtRest
    <2>1. CASE HandlerEnters
      BY <2>1 DEF HandlerEnters
    <2>2. CASE OnlyReads
      BY <2>2 DEF OnlyReads
    <2>3. ASSUME NEW k \in Kernel, KernelStopFails(k) PROVE AtRest'
      BY <2>3 DEF KernelStopFails, Enter
    <2>4. ASSUME NEW c \in EditedConfigs, EditConfigFile(c) PROVE AtRest'
      BY <2>4 DEF EditConfigFile
    <2>5. ASSUME NEW keep \in 1..HistoryKeep, CleanupConfigHistory(keep)
          PROVE  AtRest'
      BY <2>5 DEF CleanupConfigHistory
    <2>6. CASE StopKernel \/ ReloadKernel
      BY <2>6 DEF StopKernel, ReloadKernel
    <2>7. CASE ImportItem \/ ImportEnds
      BY <2>7 DEF ImportItem, ImportEnds
    <2>8. CASE ImportAborts
      BY <2>8 DEF vars
    <2>9. CASE CommitValidate \/ CommitApply \/ CommitSave \/ CommitWrite
                 \/ CommitHistory
      BY <2>9 DEF CommitValidate, CommitApply, CommitSave, CommitWrite,
                  CommitHistory, DatabaseFails
    <2>10. CASE CommitRuntime
      BY <2>10 DEF CommitRuntime, DatabaseFails
    <2>11. CASE Rollback
      BY <2>11 DEF Rollback
    <2>12. CASE Crash \/ BootFails \/ Boot \/ BootRefused
      BY <2>12 DEF Crash, BootFails, Die, Boot, BootRefused, BootLoads
    <2>13. ASSUME NEW i \in 1..Len(kernels), KernelExits(i) PROVE AtRest'
      BY <2>13 DEF KernelExits
    <2> QED
      BY <2>1, <2>2, <2>3, <2>4, <2>5, <2>6, <2>7, <2>8, <2>9, <2>10, <2>11,
         <2>12, <2>13, StepCases DEF Commit
  <1>3. AtRest => FailedHandlerRestores
    BY DEF AtRest, FailedHandlerRestores
  <1>4. [Next /\ ~ImportAborts]_vars => [Next]_vars
    OBVIOUS
  <1> QED
    BY <1>1, <1>2, <1>3, <1>4, TypeInvariant, PTL DEF Spec

(* Of the kernels ks only the i-th may have a process.                     *)
OnlyRuns(ks, i) ==
  \A j \in 1..Len(ks) :
    j # i /\ ks[j].type # Placeholder => ks[j].run = NotRunning

LEMMA StoppedOnlyRuns ==
  ASSUME NEW ks \in Seq(KernelObject), NEW i \in 1..Len(ks), NEW k,
         OnlyRuns(ks, k)
  PROVE  OnlyRuns(Stopped(ks, i), k)
  <1>1. Stopped(ks, i) \in Seq(KernelObject) /\ Len(Stopped(ks, i)) = Len(ks)
    BY StoppedType
  <1>2. ASSUME NEW j \in 1..Len(ks)
        PROVE  /\ Stopped(ks, i)[j].type = ks[j].type
               /\ Stopped(ks, i)[j].run \in {ks[j].run, NotRunning}
    <2>1. ks[j] \in KernelObject
      BY ElementOfSeq
    <2> QED
      BY <2>1 DEF Stopped, KernelObject
  <1> QED
    BY <1>1, <1>2 DEF OnlyRuns

(* Stopping the one that runs leaves none, whichever is counted.           *)
LEMMA StoppedNoneRuns ==
  ASSUME NEW ks \in Seq(KernelObject), NEW i \in 1..Len(ks), OnlyRuns(ks, i),
         NEW k
  PROVE  OnlyRuns(Stopped(ks, i), k)
  <1>1. Stopped(ks, i) \in Seq(KernelObject) /\ Len(Stopped(ks, i)) = Len(ks)
    BY StoppedType
  <1>2. ASSUME NEW j \in 1..Len(ks)
        PROVE  /\ Stopped(ks, i)[j].type = ks[j].type
               /\ j # i => Stopped(ks, i)[j].run = ks[j].run
               /\ j = i => Stopped(ks, i)[j].run = NotRunning
    <2>1. ks[j] \in KernelObject
      BY ElementOfSeq
    <2> QED
      BY <2>1 DEF Stopped, KernelObject
  <1> QED
    BY <1>1, <1>2 DEF OnlyRuns

LEMMA ConfiguredOnlyRuns ==
  ASSUME NEW ks \in Seq(KernelObject), NEW i \in 1..Len(ks), NEW k \in Kernel,
         OnlyRuns(ks, i)
  PROVE  OnlyRuns(Configured(ks, i, k), ConfiguredKernel(ks, i, k))
  <1>1. CASE ks[i].type # k.type
    <2> DEFINE stopped == Stopped(ks, i)
    <2>1. stopped \in Seq(KernelObject) /\ Len(stopped) = Len(ks)
      BY StoppedType
    <2>2. /\ Configured(ks, i, k) = Append(stopped, NewKernel(k))
          /\ ConfiguredKernel(ks, i, k) = Len(ks) + 1
      BY <1>1 DEF Configured, ConfiguredKernel
    <2>3. OnlyRuns(stopped, Len(ks) + 1)
      BY StoppedNoneRuns
    <2> HIDE DEF stopped
    <2>4. \A j \in 1..Len(stopped) : Append(stopped, NewKernel(k))[j] = stopped[j]
      BY <2>1
    <2>5. Len(Append(stopped, NewKernel(k))) = Len(stopped) + 1
      BY <2>1
    <2> DEFINE longer == Append(stopped, NewKernel(k))
    <2>6. /\ Len(longer) = Len(ks) + 1 /\ Len(ks) \in Nat
          /\ \A j \in 1..Len(ks) : longer[j] = stopped[j]
      BY <2>1, <2>4, <2>5
    <2> HIDE DEF longer
    <2>7. OnlyRuns(longer, Len(ks) + 1)
      <3>1. SUFFICES ASSUME NEW j \in 1..Len(longer), j # Len(ks) + 1
                     PROVE  longer[j].type # Placeholder
                              => longer[j].run = NotRunning
        BY DEF OnlyRuns
      <3>2. j \in 1..Len(ks) /\ j \in 1..Len(stopped)
        BY <2>1, <2>6, <3>1
      <3>3. longer[j] = stopped[j]
        BY <2>6, <3>2
      <3> QED
        BY <2>3, <3>1, <3>2, <3>3 DEF OnlyRuns
    <2> QED
      BY <2>2, <2>7 DEF longer
  <1>2. CASE ks[i].type = k.type
    <2>1. /\ Configured(ks, i, k) = [ks EXCEPT ![i].exe = k.exe]
          /\ ConfiguredKernel(ks, i, k) = i
      BY <1>2 DEF Configured, ConfiguredKernel
    <2>2. ASSUME NEW j \in 1..Len(ks)
          PROVE  j # i => [ks EXCEPT ![i].exe = k.exe][j] = ks[j]
      OBVIOUS
    <2>3. Len([ks EXCEPT ![i].exe = k.exe]) = Len(ks)
      OBVIOUS
    <2> QED
      BY <2>1, <2>2, <2>3 DEF OnlyRuns
  <1> QED
    BY <1>1, <1>2

LEMMA AppliedOnlyRuns ==
  ASSUME NEW m \in Memory, m.kernel \in 1..Len(kernels),
         kernels \in Seq(KernelObject), OnlyRuns(kernels, m.kernel),
         KernelApplied(m) \/ KernelRefused(m)
  PROVE  OnlyRuns(kernels', m.kernel)
  <1>1. CASE KernelApplied(m)
    <2>1. /\ Len(kernels') = Len(kernels)
          /\ \A j \in 1..Len(kernels) : j # m.kernel => kernels'[j] = kernels[j]
      BY <1>1 DEF KernelApplied
    <2> QED
      BY <2>1 DEF OnlyRuns
  <1>2. CASE KernelRefused(m)
    BY <1>2, StoppedOnlyRuns DEF KernelRefused
  <1> QED
    BY <1>1, <1>2

(* A rollback over a switch of the kernel type whose new kernel runs.      *)
SwitchFailsLate ==
  /\ Rollback
  /\ snap.kernel # mem.kernel
  /\ kernels[mem.kernel].run # NotRunning

OneKernelRuns == OnlyRuns(kernels, mem.kernel)

(* ReplacedKernelsAreStopped does not hold, because of the switch of the   *)
(* kernel type that fails after the new kernel was started.  Nothing else  *)
(* breaks it: without such a rollback no sequence of switches, refusals,   *)
(* failed commits, crashes and exits leaves a process without an owner.    *)
THEOREM OnlyLateSwitchesOrphan ==
  Init /\ [][Next /\ ~SwitchFailsLate]_vars => []ReplacedKernelsAreStopped
  <1>1. Init => OneKernelRuns
    BY DEF Init, OneKernelRuns, OnlyRuns, FreshKernels, NewKernel
  <1>2. TypeInv /\ OneKernelRuns /\ [Next /\ ~SwitchFailsLate]_vars
        => OneKernelRuns'
    <2> SUFFICES ASSUME TypeInv, OneKernelRuns, [Next]_vars,
                        ~SwitchFailsLate \/ UNCHANGED vars
                 PROVE  OneKernelRuns'
      OBVIOUS
    <2> USE DEF OneKernelRuns
    <2>0. /\ kernels \in Seq(KernelObject)
          /\ mem \in Memory /\ mem.kernel \in 1..Len(kernels)
          /\ snap \in Memory /\ snap.kernel \in 1..Len(kernels)
      BY DEF TypeInv, MemoryType
    <2>1. CASE HandlerEnters
      <3>1. CASE UNCHANGED kernels /\ mem'.kernel = mem.kernel
        BY <3>1
      <3>2. ASSUME NEW k \in Kernel,
                   mem'.kernel = ConfiguredKernel(kernels, mem.kernel, k),
                   kernels' = Configured(kernels, mem.kernel, k)
            PROVE  OneKernelRuns'
        BY <2>0, <3>2, ConfiguredOnlyRuns
      <3> QED
        BY <2>1, <3>1, <3>2 DEF HandlerEnters, KernelEdit
    <2>2. CASE OnlyReads
      BY <2>2 DEF OnlyReads
    <2>3. ASSUME NEW k \in Kernel, KernelStopFails(k) PROVE OneKernelRuns'
      BY <2>0, <2>3, StoppedOnlyRuns DEF KernelStopFails, Enter
    <2>4. CASE \/ \E c \in EditedConfigs : EditConfigFile(c)
               \/ \E keep \in 1..HistoryKeep : CleanupConfigHistory(keep)
               \/ ImportAborts \/ ImportEnds
      BY <2>4 DEF EditConfigFile, CleanupConfigHistory, ImportAborts, ImportEnds
    <2>5. CASE StopKernel
      BY <2>0, <2>5, StoppedOnlyRuns DEF StopKernel
    <2>6. CASE ReloadKernel
      BY <2>0, <2>6, AppliedOnlyRuns DEF ReloadKernel
    <2>7. CASE ImportItem
      <3>1. PICK x : mem' = PutOutbound(mem, x)
        BY <2>7 DEF ImportItem
      <3>2. mem'.kernel = mem.kernel
        BY <2>0, <3>1 DEF PutOutbound, Memory
      <3> QED
        BY <2>7, <3>2 DEF ImportItem
    <2>8. CASE CommitApply
      BY <2>0, <2>8, AppliedOnlyRuns DEF CommitApply
    <2>9. CASE CommitValidate \/ CommitSave \/ CommitWrite \/ CommitHistory
                 \/ CommitRuntime
      BY <2>9 DEF CommitValidate, CommitSave, CommitWrite, CommitHistory,
                  CommitRuntime, DatabaseFails
    <2>10. CASE Rollback
      <3>1. OnlyRuns(kernels, snap.kernel)
        <4>1. CASE snap.kernel = mem.kernel
          BY <4>1
        <4>2. CASE kernels[mem.kernel].run = NotRunning
          BY <4>2 DEF OnlyRuns
        <4>3. CASE UNCHANGED vars /\ snap.kernel # mem.kernel
          BY <2>10, <4>3 DEF Rollback, vars
        <4> QED
          BY <2>10, <4>1, <4>2, <4>3 DEF SwitchFailsLate
      <3>2. OnlyRuns(kernels', snap.kernel)
        BY <2>0, <2>10, <3>1, AppliedOnlyRuns DEF Rollback
      <3> QED
        BY <2>10, <3>2 DEF Rollback
    <2>11. CASE Crash \/ BootFails
      <3>1. kernels' = FreshKernels
        BY <2>11 DEF Crash, BootFails, Die
      <3> QED
        BY <3>1 DEF OnlyRuns, FreshKernels, NewKernel
    <2>12. CASE Boot
      <3>1. FreshKernels \in Seq(KernelObject) /\ 1 \in 1..Len(FreshKernels)
        BY FreshType
      <3>2. OnlyRuns(FreshKernels, 1)
        BY DEF OnlyRuns, FreshKernels, NewKernel
      <3>3. file.kernel \in Kernel
        BY <2>12 DEF Boot, BootLoads, TypeInv, StoredType, Config
      <3>4. OnlyRuns(Configured(FreshKernels, 1, file.kernel),
                     ConfiguredKernel(FreshKernels, 1, file.kernel))
        BY <3>1, <3>2, <3>3, ConfiguredOnlyRuns
      <3>5. /\ mem'.kernel = ConfiguredKernel(FreshKernels, 1, file.kernel)
            /\ kernels' = Configured(FreshKernels, 1, file.kernel)
        BY <2>12 DEF Boot, Replace, Fresh
      <3> QED
        BY <3>4, <3>5
    <2>13. ASSUME NEW i \in 1..Len(kernels), KernelExits(i)
           PROVE  OneKernelRuns'
      BY <2>0, <2>13, StoppedOnlyRuns DEF KernelExits
    <2>14. CASE BootRefused
      BY <2>14 DEF BootRefused
    <2> QED
      BY <2>1, <2>2, <2>3, <2>4, <2>5, <2>6, <2>7, <2>8, <2>9, <2>10, <2>11,
         <2>12, <2>13, <2>14, StepCases DEF Commit
  <1>3. OneKernelRuns => ReplacedKernelsAreStopped
    BY DEF OneKernelRuns, OnlyRuns, ReplacedKernelsAreStopped
  <1>4. [Next /\ ~SwitchFailsLate]_vars => [Next]_vars
    OBVIOUS
  <1> QED
    BY <1>1, <1>2, <1>3, <1>4, TypeInvariant, PTL DEF Spec

============================================================================
