---------------------------- MODULE ConfigStore ----------------------------
(***************************************************************************)
(* The manager's configuration pipeline (core/manager.go).  Every handler  *)
(* holds m.mu from its first read to its return: it takes a snapshot,      *)
(* edits the configuration and the maps beside it, and then commits:       *)
(*                                                                         *)
(*   Validate -> apply to the kernel -> truncate and write config.yaml     *)
(*            -> config_history -> the runtime tables                      *)
(*                                                                         *)
(* Any step may fail; the commit then restores the snapshot in memory and  *)
(* applies the kernel once more.  Between two steps the agent may crash,   *)
(* and a kernel process may exit by itself.  main loads config.yaml again  *)
(* when the agent is restarted.  A configuration that is loaded, at a      *)
(* start, by the watcher or from the history, is not applied as it stands: *)
(* its routing is normalised and its outbounds are enriched.  A handler    *)
(* that refuses its input before it changed anything is not a step.        *)
(*                                                                         *)
(* Bounds: MaxOps handlers and MaxCrashes deaths of the agent, a death     *)
(* taking one handler off the budget; HistoryKeep rows of history (100 in  *)
(* the code).                                                              *)
(***************************************************************************)
EXTENDS ConfigModel, Naturals, Sequences, FiniteSets

CONSTANTS
  NewOutbounds,     \* what PUT /api/outbounds may carry
  NewRoutings,      \* what PUT /api/routing may carry
  NewMihomos,       \* what PUT /api/mihomo/config may carry
  NewKernels,       \* what PUT /api/kernel/config may carry
  EditedConfigs,    \* what an operator may write into config.yaml
  Imports,          \* node lists to import, with the provider's options
  FirstConfigs,     \* what config.yaml may hold before the first start
  Torn,             \* a file that was cut short and does not load
  NoConfig,         \* nothing is pending
  NotRunning,       \* no process, or no file
  HistoryKeep, MaxOps, MaxCrashes

(* An outbound of a list to import, under the name that the prefix and the *)
(* suffix of its provider make, with the provider's other options: how it  *)
(* is matched, and which fields of the match are kept.                     *)
ImportedItem ==
  [node: Outbound, strategy: {"equivalent", "name", "none"},
   keepDis: BOOLEAN, keepContent: BOOLEAN]

ASSUME StoreAssumption ==
  /\ Torn \notin Config /\ Torn \notin Runtime
  /\ NotRunning \notin Runtime
  /\ NoConfig \notin Config
  /\ HistoryKeep \in Nat \ {0}
  /\ MaxOps \in Nat
  /\ MaxCrashes \in Nat
  /\ NewOutbounds \subseteq Outbound
  /\ NewRoutings \subseteq Routing
  /\ NewMihomos \subseteq MihomoConfigs
  /\ NewKernels \subseteq Kernel
  /\ EditedConfigs \subseteq Config
  /\ Imports \subseteq Seq(ImportedItem)
  /\ FirstConfigs \subseteq Config

VARIABLES
  mem,       \* the Manager's fields: what managerSnapshot holds
  snap,      \* the snapshot of the handler at work, or of the last one
  kernels,   \* every kernel object: its configuration and its process
  genFile,   \* the generated kernel configuration on disk, per kernel type
  file,      \* config.yaml
  history,   \* the config_history table, oldest row first
  table,     \* the nodes and routing_rules tables
  pending,   \* the configuration that a restore or the watcher has read and
             \* will apply once it holds m.mu
  touched,   \* config.yaml was written since the watcher last read it
  pc,        \* the next step of the handler that holds m.mu
  op,        \* "boot" until main's own ApplyConfig has returned
  todo,      \* what the import loop has still to do
  outcome,   \* how the last handler returned
  cause,     \* why config.yaml may differ from memory, "none" if it must not
  ops, crashes

vars == <<mem, snap, kernels, genFile, file, history, table, pending,
          touched, pc, op, todo, outcome, cause, ops, crashes>>
counters == <<ops, crashes>>

NodeNames == InNames \cup OutNames

Phases == {"down", "idle", "import", "validate", "apply", "save", "write",
           "history", "runtime", "rollback"}

(* The fields of a Manager, which managerSnapshot repeats.                 *)
Memory ==
  [kernel: Nat, cfg: Config,
   inbounds: Map(InNames, Inbound), outbounds: Map(OutNames, Outbound),
   rules: SUBSET Rule, traffic: SUBSET NodeNames,
   health: Map(NodeNames, {"unknown", "disabled"})]

KernelObject ==
  [type: KernelTypes, exe: {"good", "bad"}, run: Runtime \cup {NotRunning}]

(* Types.  The kernel pointer names a kernel object, in the snapshot too.  *)
MemoryType ==
  /\ mem \in Memory /\ mem.kernel \in 1..Len(kernels)
  /\ snap \in Memory /\ snap.kernel \in 1..Len(kernels)
  /\ kernels \in Seq(KernelObject)

StoredType ==
  /\ genFile \in [KernelTypes -> Runtime \cup {NotRunning, Torn}]
  /\ file \in Config \cup {Torn}
  /\ history \in Seq(Config)
  /\ pending \in Config \cup {NoConfig}
  /\ todo \in Seq(ImportedItem)

ControlType ==
  /\ touched \in BOOLEAN
  /\ pc \in Phases
  /\ op \in {"boot", "serve"}
  /\ outcome \in {"none", "ok", "aborted", "rolledback", "stuck"}
  /\ cause \in {"none", "database", "write", "import", "edit"}
  /\ ops \in Nat /\ crashes \in Nat

TypeOK == MemoryType /\ StoredType /\ ControlType

----------------------------------------------------------------------------
(* Edits of the memory.  Each keeps the slice in cfg, the map beside it    *)
(* and the entries that ListNodes dereferences together.                   *)

(* ensureHealthLocked never touches an entry that exists.                  *)
EnsureHealth(h, items) ==
  [n \in DOMAIN h \cup Names(items) |->
     IF n \in DOMAIN h THEN h[n]
     ELSE IF \E x \in items : x.name = n /\ x.dis THEN "disabled"
     ELSE "unknown"]

PutInbound(m, x) ==
  [m EXCEPT !.cfg.ins = Upsert(@, x),
            !.inbounds = With(@, x.name, x),
            !.traffic = @ \cup {x.name},
            !.health = EnsureHealth(@, {x})]

(* Mutant of PutOutbound: no traffic entry is made.                        *)
PutOutboundNoTraffic(m, x) ==
  [m EXCEPT !.cfg.outs = Upsert(@, x),
            !.outbounds = With(@, x.name, x),
            !.health = EnsureHealth(@, {x})]

PutOutbound(m, x) ==
  [m EXCEPT !.cfg.outs = Upsert(@, x),
            !.outbounds = With(@, x.name, x),
            !.traffic = @ \cup {x.name},
            !.health = EnsureHealth(@, {x})]

MoveKey(h, old, new) ==
  IF old \in DOMAIN h THEN Without(With(h, new, h[old]), old) ELSE h

RenamedRouting(r, old, new) ==
  [r EXCEPT !.rules = RenameRoutingOutbound(@, old, new),
            !.def = IF @ = old THEN new ELSE @]

(* Mutant of RenameOutbound: cfg.Routing.Rules is forgotten.               *)
RenameForgetsConfigRules(m, old, new) ==
  [m EXCEPT !.cfg.outs = Delete(@, {old}),
            !.cfg.routing.def = IF @ = old THEN new ELSE @,
            !.outbounds = Without(@, old),
            !.rules = RenameRoutingOutbound(@, old, new)]

RenameOutbound(m, old, new) ==
  [m EXCEPT !.cfg.outs = Delete(@, {old}),
            !.cfg.routing = RenamedRouting(@, old, new),
            !.outbounds = Without(@, old),
            !.rules = RenameRoutingOutbound(@, old, new),
            !.traffic = IF old \in @ THEN (@ \ {old}) \cup {new} ELSE @,
            !.health = MoveKey(@, old, new)]

(* A batch is a set of inbound names and a set of outbound names.          *)
DropNodes(m, I, O) ==
  [m EXCEPT !.cfg.ins = Delete(@, I),
            !.cfg.outs = Delete(@, O),
            !.cfg.routing.rules = DeleteRulesForNode(@, I, O),
            !.inbounds = [n \in DOMAIN @ \ I |-> @[n]],
            !.outbounds = [n \in DOMAIN @ \ O |-> @[n]],
            !.rules = DeleteRulesForNode(@, I, O)]

SwitchNodes(m, I, O, off) ==
  LET switch(x, S) == IF x.name \in S THEN [x EXCEPT !.dis = off] ELSE x
  IN  [m EXCEPT !.cfg.ins = {switch(x, I) : x \in @},
                !.cfg.outs = {switch(x, O) : x \in @},
                !.inbounds = [n \in DOMAIN @ |-> switch(@[n], I)],
                !.outbounds = [n \in DOMAIN @ |-> switch(@[n], O)],
                !.health = EnsureHealth(@, {[name |-> n, dis |-> off] :
                                            n \in I \cup O})]

(* ApplyConfig replaces everything; traffic and health only grow.          *)
Replace(m, c) ==
  [m EXCEPT !.cfg = c,
            !.inbounds = ByName(c.ins),
            !.outbounds = ByName(c.outs),
            !.rules = c.routing.rules,
            !.traffic = @ \cup Names(c.ins) \cup Names(c.outs),
            !.health = EnsureHealth(EnsureHealth(@, c.ins), c.outs)]

----------------------------------------------------------------------------
(* Kernel objects                                                          *)

NewKernel(k) == [type |-> k.type, exe |-> k.exe, run |-> NotRunning]

Stopped(ks, i) == [ks EXCEPT ![i].run = NotRunning]

(* configureKernelLocked: another type stops the object and makes a new    *)
(* one; the same type reconfigures the object in place.                    *)
Configured(ks, i, k) ==
  IF ks[i].type # k.type
    THEN Append(Stopped(ks, i), NewKernel(k))
    ELSE [ks EXCEPT ![i].exe = k.exe]

(* Mutant of ConfiguredKernel: the pointer moves although no object was    *)
(* made.                                                                   *)
ConfiguredKernelAlwaysNew(ks, i, k) == Len(ks) + 1

ConfiguredKernel(ks, i, k) ==
  IF ks[i].type # k.type THEN Len(ks) + 1 ELSE i

(* applyKernelLocked succeeds: the generated file and the process follow   *)
(* the configuration.                                                      *)
KernelApplied(m) ==
  LET run == EnabledRuntime(m.cfg)
  IN  /\ kernels[m.kernel].type = Placeholder \/ kernels[m.kernel].exe = "good"
      /\ kernels' = [kernels EXCEPT ![m.kernel].run = run]
      /\ genFile' = [genFile EXCEPT ![m.cfg.kernel.type] = run]

(* It fails: before the generated file is written, while it is written, or *)
(* because the kernel refuses it, before or after it has stopped the old   *)
(* process.  The previous file is put back then, with the error ignored.   *)
KernelRefused(m) ==
  LET t == m.cfg.kernel.type
      left == IF kernels[m.kernel].type = Placeholder THEN {genFile[t], Torn}
              ELSE {genFile[t], Torn, EnabledRuntime(m.cfg)}
  IN  /\ \E g \in left : genFile' = [genFile EXCEPT ![t] = g]
      /\ \/ UNCHANGED kernels
         \/ /\ kernels[m.kernel].type # Placeholder
            /\ kernels[m.kernel].exe = "good"
            /\ kernels' = Stopped(kernels, m.kernel)

----------------------------------------------------------------------------
Fresh ==
  [kernel |-> 1, cfg |-> EmptyConfig,
   inbounds |-> NoEntries, outbounds |-> NoEntries,
   rules |-> {}, traffic |-> {}, health |-> NoEntries]

FreshKernels == <<NewKernel([type |-> Placeholder, exe |-> "good"])>>

Init ==
  /\ mem = Fresh
  /\ snap = Fresh
  /\ kernels = FreshKernels
  /\ genFile = [t \in KernelTypes |-> NotRunning]
  /\ file \in FirstConfigs
  /\ history = << >>
  /\ table = {}
  /\ pending = NoConfig
  /\ touched = FALSE
  /\ pc = "down"
  /\ op = "boot"
  /\ todo = << >>
  /\ outcome = "none"
  /\ cause = "none"
  /\ ops = 0
  /\ crashes = 0

(* A handler takes m.mu and the snapshot, and edits the memory.            *)
Enter(m) ==
  /\ pc = "idle"
  /\ ops + crashes < MaxOps
  /\ ops' = ops + 1
  /\ snap' = mem
  /\ mem' = m
  /\ UNCHANGED <<genFile, history, table, op, crashes>>

Edit(m) ==
  /\ Enter(m)
  /\ pc' = "validate"
  /\ outcome' = "none"
  /\ UNCHANGED <<kernels, file, pending, touched, todo, cause>>

CreateProxy(n) ==
  LET x == [name |-> n, dis |-> FALSE]
  IN  /\ n \notin DOMAIN mem.inbounds
      /\ Edit([mem EXCEPT !.cfg.ins = @ \cup {x},
                          !.inbounds = With(@, n, x),
                          !.traffic = @ \cup {n},
                          !.health = EnsureHealth(@, {x})])

(* The rule is named after the inbound, "<name>-route" in the code.        *)
CreateForward(n) ==
  LET x == [name |-> n, dis |-> FALSE]
      r == [name |-> n, in |-> n, out |-> Direct, dis |-> FALSE]
  IN  /\ n \notin DOMAIN mem.inbounds
      /\ Edit([mem EXCEPT !.cfg.ins = @ \cup {x},
                          !.cfg.routing.rules = @ \cup {r},
                          !.inbounds = With(@, n, x),
                          !.rules = @ \cup {r},
                          !.traffic = @ \cup {n},
                          !.health = EnsureHealth(@, {x})])

UpsertInbound(x) == Edit(PutInbound(mem, x))

(* The outbound is not validated here: Validate in the commit does it.     *)
UpsertOutbound(original, x) ==
  IF original \in {NoName, x.name}
    THEN Edit(PutOutbound(mem, x))
    ELSE /\ original \in DOMAIN mem.outbounds
         /\ x.name \notin DOMAIN mem.outbounds
         /\ Edit(PutOutbound(RenameOutbound(mem, original, x.name), x))

(* DeleteNodes; DeleteNode is the batch of one.                            *)
DeleteNodes(I, O) ==
  /\ I \subseteq DOMAIN mem.inbounds
  /\ O \subseteq DOMAIN mem.outbounds
  /\ I \cup O # {}
  /\ Edit(DropNodes(mem, I, O))

(* SetNodesEnabled; SetNodeEnabled is the batch of one.                    *)
SetNodesEnabled(I, O, on) ==
  /\ I \subseteq DOMAIN mem.inbounds
  /\ O \subseteq DOMAIN mem.outbounds
  /\ I \cup O # {}
  /\ Edit(SwitchNodes(mem, I, O, ~on))

UpdateRoutingConfig(r) ==
  Edit([mem EXCEPT !.cfg.routing = r, !.rules = r.rules])

UpdateMihomoConfig(x) == Edit([mem EXCEPT !.cfg.mihomo = x])

UpdateKernelConfig(k) ==
  /\ Enter([mem EXCEPT !.cfg.kernel = k,
             !.kernel = ConfiguredKernel(kernels, mem.kernel, k)])
  /\ kernels' = Configured(kernels, mem.kernel, k)
  /\ pc' = "validate"
  /\ outcome' = "none"
  /\ UNCHANGED <<file, pending, touched, todo, cause>>

(* ApplyConfig, of an enriched configuration, after the validation that    *)
(* precedes the lock.                                                      *)
ApplyConfig(c) ==
  /\ Validate(c)
  /\ Enter([Replace(mem, c) EXCEPT
             !.kernel = ConfiguredKernel(kernels, mem.kernel, c.kernel)])
  /\ kernels' = Configured(kernels, mem.kernel, c.kernel)
  /\ pc' = "validate"
  /\ outcome' = "none"
  /\ UNCHANGED todo

(* The operator rewrites config.yaml, at any time.                         *)
EditConfigFile(c) ==
  /\ ops + crashes < MaxOps
  /\ ops' = ops + 1
  /\ file' = c
  /\ touched' = TRUE
  /\ cause' = "edit"
  /\ UNCHANGED <<mem, snap, kernels, genFile, history, table, pending, pc,
                 op, todo, outcome, crashes>>

(* WatchConfig, which main starts after its own ApplyConfig, loads a file  *)
(* that is newer than the one it has seen; a file that does not load is    *)
(* skipped.  The lock is taken later, in ApplyConfig.                      *)
ReadConfigFile ==
  /\ op = "serve"
  /\ touched
  /\ pending = NoConfig
  /\ touched' = FALSE
  /\ pending' = IF file # Torn /\ Loads(file) THEN Loaded(file) ELSE NoConfig
  /\ UNCHANGED <<mem, snap, kernels, genFile, file, history, table, pc, op,
                 todo, outcome, cause, counters>>

(* RestoreConfigHistory reads the row, too, before ApplyConfig takes the   *)
(* lock, and normalises its routing like LoadConfig.  The model lets one   *)
(* of these two wait at a time.                                            *)
ReadHistoryRow(i) ==
  /\ op = "serve"
  /\ pending = NoConfig
  /\ pending' = Loaded(history[i])
  /\ UNCHANGED <<mem, snap, kernels, genFile, file, history, table, touched,
                 pc, op, todo, outcome, cause, counters>>

ApplyPending ==
  /\ pending # NoConfig
  /\ ApplyConfig(Enriched(pending))
  /\ pending' = NoConfig
  /\ UNCHANGED <<file, touched, cause>>

(* ApplyConfig refuses what the enrichment has made of it, without waiting *)
(* for the lock.                                                           *)
RefusePending ==
  /\ pending # NoConfig
  /\ ~Validate(Enriched(pending))
  /\ pending' = NoConfig
  /\ UNCHANGED <<mem, snap, kernels, genFile, file, history, table, touched,
                 pc, op, todo, outcome, cause, counters>>

(* Stop of the old kernel reports an error although the process is gone:   *)
(* ApplyConfig restores the memory, UpdateKernelConfig has not changed it. *)
KernelStopFails(k) ==
  /\ kernels[mem.kernel].type # k.type
  /\ kernels[mem.kernel].type # Placeholder
  /\ kernels[mem.kernel].run # NotRunning
  /\ \/ k \in NewKernels /\ UNCHANGED pending
     \/ /\ pending # NoConfig /\ Validate(Enriched(pending))
        /\ k = pending.kernel
        /\ pending' = NoConfig
  /\ Enter(mem)
  /\ kernels' = Stopped(kernels, mem.kernel)
  /\ outcome' = "aborted"
  /\ pc' = "idle"
  /\ UNCHANGED <<file, touched, todo, cause>>

StopKernel ==
  /\ pc = "idle"
  /\ kernels[mem.kernel].run # NotRunning
  /\ kernels' = Stopped(kernels, mem.kernel)
  /\ UNCHANGED <<mem, snap, genFile, file, history, table, pending, touched,
                 pc, op, todo, outcome, cause, counters>>

(* ReloadKernel applies the configuration in memory once more.             *)
ReloadKernel ==
  /\ pc = "idle"
  /\ ops + crashes < MaxOps
  /\ ops' = ops + 1
  /\ \/ KernelApplied(mem) /\ UNCHANGED outcome
     \/ KernelRefused(mem) /\ outcome' = "stuck"
  /\ UNCHANGED <<mem, snap, file, history, table, pending, touched, pc, op,
                 todo, cause, crashes>>

----------------------------------------------------------------------------
(* ImportOutboundsReportWithOptions: one step for each item of the list.   *)
(* The code never runs out of fresh names; the model starts an import only *)
(* when OutNames holds enough of them.                                     *)

StartImport(items) ==
  /\ Len(items) <= Cardinality(OutNames \ DOMAIN mem.outbounds)
  /\ Enter(mem)
  /\ todo' = items
  /\ pc' = "import"
  /\ outcome' = "none"
  /\ UNCHANGED <<kernels, file, pending, touched, cause>>

(* findMatchingOutboundLocked, for an item whose outbound is x: the map is *)
(* searched in no particular order.                                        *)
Matching(m, x, strategy) ==
  CASE strategy = "none" -> {}
    [] strategy = "name" -> {x.name} \cap DOMAIN m.outbounds
    [] OTHER -> {n \in DOMAIN m.outbounds :
                   SignatureOf[m.outbounds[n].content] = SignatureOf[x.content]}

(* mergePreservedOutboundFields, of x and the outbound n that it matches.  *)
Merged(m, n, x, it) ==
  [name    |-> n,
   content |-> IF it.keepContent
                 THEN MergedContent[<<m.outbounds[n].content, x.content>>]
                 ELSE x.content,
   dis     |-> IF it.keepDis THEN m.outbounds[n].dis ELSE x.dis]

(* What an item becomes once it is enriched: the outbound it matches, or a *)
(* new one under a free name.                                              *)
Landings(m, it) ==
  LET x == EnrichedOutbound(it.node)
      free == IF x.name \notin DOMAIN m.outbounds THEN {x.name}
              ELSE OutNames \ DOMAIN m.outbounds
      matches == Matching(m, x, it.strategy)
  IN  IF matches # {}
        THEN {Merged(m, n, x, it) : n \in matches}
        ELSE {[x EXCEPT !.name = n] : n \in free}

ImportItem ==
  /\ pc = "import"
  /\ todo # << >>
  /\ \E x \in Landings(mem, Head(todo)) :
       OutboundValid(x) /\ mem' = PutOutbound(mem, x)
  /\ todo' = Tail(todo)
  /\ UNCHANGED <<snap, kernels, genFile, file, history, table, pending,
                 touched, pc, op, outcome, cause, counters>>

(* An invalid item ends the handler: what it did before is not undone.     *)
ImportAborts ==
  /\ pc = "import"
  /\ todo # << >>
  /\ \E x \in Landings(mem, Head(todo)) : ~OutboundValid(x)
  /\ pc' = "idle"
  /\ todo' = << >>
  /\ outcome' = "aborted"
  /\ cause' = "import"
  /\ UNCHANGED <<mem, snap, kernels, genFile, file, history, table, pending,
                 touched, op, counters>>

ImportEnds ==
  /\ pc = "import"
  /\ todo = << >>
  /\ pc' = "validate"
  /\ UNCHANGED <<mem, snap, kernels, genFile, file, history, table, pending,
                 touched, op, todo, outcome, cause, counters>>

----------------------------------------------------------------------------
(* commitLocked                                                            *)

(* Mutant of CommitValidate: the result is ignored.                        *)
CommitSkipsValidate ==
  /\ pc = "validate"
  /\ pc' = "apply"
  /\ UNCHANGED <<mem, snap, kernels, genFile, file, history, table, pending,
                 touched, op, todo, outcome, cause, counters>>

(* Mutant of CommitValidate: config.yaml is written at once.               *)
CommitSavesFirst ==
  /\ pc = "validate"
  /\ file' = mem.cfg
  /\ pc' = IF Validate(mem.cfg) THEN "apply" ELSE "rollback"
  /\ UNCHANGED <<mem, snap, kernels, genFile, history, table, pending,
                 touched, op, todo, outcome, cause, counters>>

CommitValidate ==
  /\ pc = "validate"
  /\ pc' = IF Validate(mem.cfg) THEN "apply" ELSE "rollback"
  /\ UNCHANGED <<mem, snap, kernels, genFile, file, history, table, pending,
                 touched, op, todo, outcome, cause, counters>>

CommitApply ==
  /\ pc = "apply"
  /\ \/ KernelApplied(mem) /\ pc' = "save"
     \/ KernelRefused(mem) /\ pc' = "rollback"
  /\ UNCHANGED <<mem, snap, file, history, table, pending, touched, op,
                 todo, outcome, cause, counters>>

(* SaveConfig, first half: os.WriteFile opens config.yaml and truncates    *)
(* it.  The empty file loads as EmptyConfig.                               *)
CommitSave ==
  /\ pc = "save"
  /\ \/ /\ file' = EmptyConfig
        /\ touched' = TRUE
        /\ cause' = "write"
        /\ pc' = "write"
     \/ /\ UNCHANGED <<file, touched, cause>>
        /\ pc' = "rollback"
  /\ UNCHANGED <<mem, snap, kernels, genFile, history, table, pending, op,
                 todo, outcome, counters>>

(* Mutant of CommitWrite: an error is only logged.                         *)
CommitWriteIgnoresError ==
  /\ pc = "write"
  /\ file' \in {mem.cfg, Torn} \cup Prefixes(mem.cfg)
  /\ cause' = "none"
  /\ pc' = "history"
  /\ touched' = TRUE
  /\ UNCHANGED <<mem, snap, kernels, genFile, history, table, pending, op,
                 todo, outcome, counters>>

(* Second half: the text is written, or some of it.  An operator who put a *)
(* new file in its place meanwhile keeps that one.                         *)
CommitWrite ==
  /\ pc = "write"
  /\ \/ /\ file' = mem.cfg
        /\ cause' = "none"
        /\ pc' = "history"
     \/ /\ file' \in Prefixes(mem.cfg) \cup {Torn}
        /\ cause' = "write"
        /\ pc' = "rollback"
     \/ /\ cause = "edit"
        /\ UNCHANGED <<file, cause>>
        /\ pc' \in {"history", "rollback"}
  /\ touched' = TRUE
  /\ UNCHANGED <<mem, snap, kernels, genFile, history, table, pending, op,
                 todo, outcome, counters>>

(* Mutant of Pruned: the cleanup keeps the oldest rows.                    *)
PrunedNewest(h, keep) ==
  IF Len(h) > keep THEN SubSeq(h, 1, keep) ELSE h

(* cleanupConfigHistory                                                    *)
Pruned(h, keep) ==
  IF Len(h) > keep THEN SubSeq(h, Len(h) - keep + 1, Len(h)) ELSE h

(* What a failing database leaves in cause.                                *)
DatabaseFails ==
  /\ pc' = "rollback"
  /\ cause' = IF cause = "none" THEN "database" ELSE cause

(* persistConfigLocked: the insert may fail, or only the cleanup after it. *)
CommitHistory ==
  /\ pc = "history"
  /\ \/ /\ history' = Pruned(Append(history, mem.cfg), HistoryKeep)
        /\ pc' = "runtime"
        /\ UNCHANGED cause
     \/ /\ history' \in {history, Append(history, mem.cfg)}
        /\ DatabaseFails
  /\ UNCHANGED <<mem, snap, kernels, genFile, file, table, pending, touched,
                 op, todo, outcome, counters>>

(* DELETE /api/config/history/cleanup uses the database without m.mu.      *)
CleanupConfigHistory(keep) ==
  /\ op = "serve"
  /\ Len(history) > keep
  /\ history' = Pruned(history, keep)
  /\ UNCHANGED <<mem, snap, kernels, genFile, file, table, pending, touched,
                 pc, op, todo, outcome, cause, counters>>

(* The rows persistRuntimeLocked writes; nodes.name is unique, and the     *)
(* upsert of an outbound leaves the type of a row that is there.  The      *)
(* snapshot is dead once the handler returns; it is set to the memory then *)
(* to keep the state space small.  The first commit ends main's start-up:   *)
(* from here on the watcher looks for files newer than this one.           *)
TableOf(m) ==
  [nodes |-> {<<n, "inbound">> : n \in DOMAIN m.inbounds} \cup
             {<<n, "outbound">> :
                n \in DOMAIN m.outbounds \ DOMAIN m.inbounds},
   rules |-> {<<r.in, r.out>> : r \in m.rules}]

CommitRuntime ==
  /\ pc = "runtime"
  /\ \/ /\ table' = TableOf(mem)
        /\ snap' = mem
        /\ touched' = (touched /\ op # "boot")
        /\ op' = "serve"
        /\ pc' = "idle"
        /\ outcome' = "ok"
        /\ UNCHANGED cause
     \/ /\ DatabaseFails
        /\ UNCHANGED <<table, snap, touched, op, outcome>>
  /\ UNCHANGED <<mem, kernels, genFile, file, history, pending, todo,
                 counters>>

(* Mutant of Rollback: the kernel is left as the failed commit left it.    *)
RollbackOnlyMemory ==
  /\ pc = "rollback"
  /\ op # "boot"
  /\ mem' = snap
  /\ outcome' = "rolledback"
  /\ pc' = "idle"
  /\ UNCHANGED <<snap, kernels, genFile, file, history, table, pending,
                 touched, op, todo, cause, counters>>

(* Mutant of Rollback: the snapshot lacks the kernel pointer.              *)
RollbackKeepsKernel ==
  /\ pc = "rollback"
  /\ op # "boot"
  /\ mem' = [snap EXCEPT !.kernel = mem.kernel]
  /\ \/ KernelApplied(mem') /\ outcome' = "rolledback"
     \/ KernelRefused(mem') /\ outcome' = "stuck"
  /\ pc' = "idle"
  /\ UNCHANGED <<snap, file, history, table, pending, touched, op, todo,
                 cause, counters>>

(* commitWithRollbackLocked after a failure: the snapshot comes back, the  *)
(* kernel pointer included, and the kernel is applied once more.           *)
Rollback ==
  /\ pc = "rollback"
  /\ op # "boot"
  /\ mem' = snap
  /\ \/ KernelApplied(snap) /\ outcome' = "rolledback"
     \/ KernelRefused(snap) /\ outcome' = "stuck"
  /\ pc' = "idle"
  /\ UNCHANGED <<snap, file, history, table, pending, touched, op, todo,
                 cause, counters>>

----------------------------------------------------------------------------
(* The agent is gone, and its kernel processes with it (they share the     *)
(* control group of the systemd unit).                                     *)
Die ==
  /\ mem' = Fresh
  /\ snap' = Fresh
  /\ kernels' = FreshKernels
  /\ pc' = "down"
  /\ op' = "boot"
  /\ todo' = << >>
  /\ pending' = NoConfig
  /\ touched' = FALSE
  /\ outcome' = "none"
  /\ cause' = "none"
  /\ crashes < MaxCrashes
  /\ ops < MaxOps
  /\ crashes' = crashes + 1
  /\ UNCHANGED <<history, table, ops>>

(* Of the first ApplyConfig there is no snapshot with a generated file.    *)
Crash ==
  /\ pc # "down"
  /\ Die
  /\ \/ UNCHANGED <<file, genFile>>
     \/ /\ pc = "write"
        /\ file' \in Prefixes(mem.cfg) \cup {Torn}
        /\ UNCHANGED genFile
     \/ /\ \/ /\ pc = "apply"
              /\ genFile' = [genFile EXCEPT ![mem.cfg.kernel.type] = Torn]
           \/ /\ pc = "rollback" /\ op = "serve"
              /\ genFile' = [genFile EXCEPT ![snap.cfg.kernel.type] = Torn]
        /\ UNCHANGED file

(* main calls log.Fatalf when the first ApplyConfig fails.                 *)
BootFails ==
  /\ pc = "rollback"
  /\ op = "boot"
  /\ Die
  /\ UNCHANGED <<file, genFile>>

(* main: LoadConfig, then SaveConfig, whose error is only logged.          *)
BootLoads ==
  /\ pc = "down"
  /\ file # Torn
  /\ Loads(file)
  /\ \/ file' \in {file, Loaded(file)} /\ cause' = "none"
     \/ file' \in Prefixes(Loaded(file)) \cup {Torn} /\ cause' = "write"

(* What ApplyConfig gets from a start.                                     *)
Taken(c) == Enriched(Loaded(c))

(* NewManager and the beginning of main's own ApplyConfig.                 *)
Boot ==
  /\ BootLoads
  /\ Validate(Taken(file))
  /\ mem' = [Replace(Fresh, Taken(file)) EXCEPT
               !.kernel = ConfiguredKernel(FreshKernels, 1, file.kernel)]
  /\ kernels' = Configured(FreshKernels, 1, file.kernel)
  /\ pc' = "validate"
  /\ UNCHANGED <<snap, genFile, history, table, pending, touched, op, todo,
                 outcome, counters>>

(* ApplyConfig refuses what LoadConfig has accepted, and main calls        *)
(* log.Fatalf.                                                             *)
BootRefused ==
  /\ BootLoads
  /\ ~Validate(Taken(file))
  /\ UNCHANGED <<mem, snap, kernels, genFile, history, table, pending,
                 touched, pc, op, todo, outcome, counters>>

(* A kernel process exits by itself.                                       *)
KernelExits(i) ==
  /\ pc = "idle"
  /\ kernels[i].type # Placeholder
  /\ kernels[i].run # NotRunning
  /\ kernels' = Stopped(kernels, i)
  /\ UNCHANGED <<mem, snap, genFile, file, history, table, pending, touched,
                 pc, op, todo, outcome, cause, counters>>

----------------------------------------------------------------------------
NodeOp ==
  \/ \E n \in InNames : CreateProxy(n) \/ CreateForward(n)
  \/ \E x \in Inbound : UpsertInbound(x)
  \/ \E x \in NewOutbounds, original \in OutNames \cup {NoName} :
       UpsertOutbound(original, x)
  \/ \E I \in SUBSET InNames, O \in SUBSET OutNames :
       \/ DeleteNodes(I, O)
       \/ \E on \in BOOLEAN : SetNodesEnabled(I, O, on)

SettingsOp ==
  \/ \E r \in NewRoutings : UpdateRoutingConfig(r)
  \/ \E x \in NewMihomos : UpdateMihomoConfig(x)
  \/ \E k \in NewKernels : UpdateKernelConfig(k)
  \/ \E k \in Kernel : KernelStopFails(k)
  \/ \E c \in EditedConfigs : EditConfigFile(c)
  \/ ReadConfigFile
  \/ \E i \in DOMAIN history : ReadHistoryRow(i)
  \/ ApplyPending \/ RefusePending
  \/ \E keep \in 1..HistoryKeep : CleanupConfigHistory(keep)
  \/ StopKernel
  \/ ReloadKernel

ImportOp ==
  \/ \E items \in Imports : StartImport(items)
  \/ ImportItem \/ ImportAborts \/ ImportEnds

Commit ==
  CommitValidate \/ CommitApply \/ CommitSave \/ CommitWrite
    \/ CommitHistory \/ CommitRuntime \/ Rollback

Environment ==
  Crash \/ Boot \/ BootFails \/ BootRefused \/ \E i \in 1..Len(kernels) : KernelExits(i)

Next == NodeOp \/ SettingsOp \/ ImportOp \/ Commit \/ Environment

Spec == Init /\ [][Next]_vars

----------------------------------------------------------------------------
Process == kernels[mem.kernel].run

Settled == pc = "idle" /\ outcome \in {"ok", "rolledback"}

(* The same nodes and rules stand in cfg, which is saved and applied, and  *)
(* in the maps and the rule list beside it, which the API lists and edits. *)
(* Thirteen handlers and the rollback change both.                         *)
MirrorsAgree ==
  /\ mem.inbounds = ByName(mem.cfg.ins)
  /\ mem.outbounds = ByName(mem.cfg.outs)
  /\ mem.rules = mem.cfg.routing.rules

(* Between handlers every reference in memory leads to a node that the API *)
(* lists: the default outbound always, the enabled rules in rule mode.     *)
(* Otherwise Validate would refuse the next, unrelated change.             *)
ReferencesResolve ==
  pc = "idle" =>
    /\ mem.cfg.routing.def \in {NoName, Direct} \cup DOMAIN mem.outbounds
    /\ mem.cfg.routing.mode = "rule" =>
         \A r \in mem.rules : ~r.dis =>
           /\ r.in \in Patterns \cup DOMAIN mem.inbounds
           /\ r.out \in {Direct} \cup DOMAIN mem.outbounds

(* What the agent has saved can be loaded: LoadConfig never refuses it at  *)
(* a restart, nor does Validate refuse a row of the history.  Whether what *)
(* the enrichment makes of it is accepted is not for the agent to know: it *)
(* saves the outbounds of PUT /api/outbounds as they are.                  *)
SavedConfigsLoad ==
  /\ file \in FirstConfigs \cup EditedConfigs \cup {Torn} \/ Loads(file)
  /\ \A i \in DOMAIN history : Loads(history[i])

(* A handler that returned nil left the same configuration in memory, in   *)
(* config.yaml, in the newest row of a history within its limit, and in    *)
(* the tables, unless the operator has edited config.yaml since.           *)
StoresAgree ==
  pc = "idle" /\ outcome = "ok" =>
    /\ cause = "edit" \/ file = mem.cfg
    /\ Len(history) \in 1..HistoryKeep /\ history[Len(history)] = mem.cfg
    /\ table = TableOf(mem)

(* config.yaml differs from the memory only for the reasons that are       *)
(* recorded in cause: in particular, a change that Validate or the kernel  *)
(* refused never reaches the file.                                         *)
DiskFollowsMemory == pc = "idle" /\ cause = "none" => file = mem.cfg

(* A crash outside the write of config.yaml leaves a file from which the   *)
(* next start continues with the configuration before the interrupted      *)
(* handler or the one after it, never with a mixture or something older,   *)
(* if nothing in cause had put the file apart from the memory before.      *)
CrashKeepsConfig ==
  [][pc' = "down" /\ op = "serve" /\ cause = "none"
       => file' \in {snap.cfg, mem.cfg}]_vars

(* The store implements the register: whatever handlers, failures, edits,  *)
(* reads without the lock and deaths come together, the configuration      *)
(* changes at the return of a successful handler and at once, to what that *)
(* handler prepared and Validate accepts; only this is written.  A restart *)
(* continues from what is kept, normalised and enriched, and what it       *)
(* writes does not change that.  The register has steps of their own for   *)
(* the two exceptions: an import that fails half-way, and a database that  *)
(* fails after the write, so that the next start takes a refused change.   *)
Register == INSTANCE ConfigRegister WITH
  Values <- Config,
  Valid <- {c \in Config : Validate(c)},
  None <- NoConfig,
  live <- IF op = "boot" THEN NoConfig
          ELSE IF pc = "idle" THEN mem.cfg ELSE snap.cfg,
  next <- IF pc \in {"idle", "down"} THEN NoConfig ELSE mem.cfg,
  kept <- IF cause \in {"none", "database"} THEN file ELSE NoConfig,
  late <- cause = "database"

ImplementsRegister == Register!RegisterSpec

(* After a commit or a successful rollback, the live kernel process runs   *)
(* what memory says, and so does the generated file on disk, from which    *)
(* the kernel would be started again.                                      *)
KernelFollowsMemory ==
  Settled =>
    /\ genFile[mem.cfg.kernel.type] = EnabledRuntime(mem.cfg)
    /\ Process \in {NotRunning, EnabledRuntime(mem.cfg)}

(* The kernel object is of the type cfg.kernel.type asks for.              *)
KernelTypeMatches == kernels[mem.kernel].type = mem.cfg.kernel.type

(* ListNodes dereferences m.traffic of every node without a nil check.     *)
WithoutTraffic(m) == (DOMAIN m.inbounds \cup DOMAIN m.outbounds) \ m.traffic

EveryNodeHasTraffic == WithoutTraffic(mem) = {}

(* A node comes to lack its traffic entry in one way only: an outbound is  *)
(* renamed that has the name of an inbound, and the entry they share moves *)
(* away with it.  Nothing else ever does this, neither a deletion of one   *)
(* of two nodes of one name nor a rollback, an import or a restart.        *)
TrafficLostOnlyByRename ==
  [][\A n \in WithoutTraffic(mem') :
       \/ n \in WithoutTraffic(mem) \cup WithoutTraffic(snap)
       \/ /\ n \in DOMAIN mem.inbounds
          /\ \E x \in NewOutbounds : x.name # n /\ UpsertOutbound(n, x)]_vars

(* An operation on nodes that has found what it names is refused by        *)
(* Validate for one of three reasons only: the content of its outbound is  *)
(* bad, it deletes the default outbound, or, in rule mode, the name of a   *)
(* new forward is already that of a rule.  In particular a rename carries  *)
(* every reference along, a deletion takes the rules that would dangle,    *)
(* and a node can always be disabled, whoever refers to it.                *)
RefusedOnlyFor ==
  pc' = "validate" =>
    /\ \A n \in InNames : CreateProxy(n) => Validate(mem'.cfg)
    /\ \A n \in InNames : CreateForward(n) =>
         (Validate(mem'.cfg) <=> \/ mem.cfg.routing.mode # "rule"
                                 \/ n \notin Names(mem.cfg.routing.rules))
    /\ \A x \in Inbound : UpsertInbound(x) => Validate(mem'.cfg)
    /\ \A x \in NewOutbounds, original \in OutNames \cup {NoName} :
         UpsertOutbound(original, x) => (Validate(mem'.cfg) <=> OutboundValid(x))
    /\ \A I \in SUBSET InNames, O \in SUBSET OutNames :
         /\ DeleteNodes(I, O) =>
              (Validate(mem'.cfg) <=> mem.cfg.routing.def \notin O)
         /\ \A on \in BOOLEAN : SetNodesEnabled(I, O, on) => Validate(mem'.cfg)

RefusalsHaveAReason == [][RefusedOnlyFor]_vars

(* A handler that reports an error has left the memory as it found it.     *)
FailedHandlerRestores ==
  pc = "idle" /\ outcome \in {"aborted", "rolledback", "stuck"} => mem = snap

(* Only the current kernel object has a process: a kernel that is replaced *)
(* was stopped before.                                                     *)
ReplacedKernelsAreStopped ==
  pc = "idle" => \A i \in 1..Len(kernels) :
    i # mem.kernel /\ kernels[i].type # Placeholder
      => kernels[i].run = NotRunning

============================================================================
