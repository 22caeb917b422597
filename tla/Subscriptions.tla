--------------------------- MODULE Subscriptions ---------------------------
(***************************************************************************)
(* Subscription updates (core/manager.go).  The updater takes the          *)
(* providers that are due every minute, and users may have all of them     *)
(* updated at any time.  A worker fetches one provider after the other     *)
(* without m.mu, imports what it got in one handler, and marks the         *)
(* provider in another.  dueSubscriptionProviders marks it, too, before    *)
(* the fetch.                                                              *)
(*                                                                         *)
(* A list is one item here, the name and the signature of one outbound,    *)
(* and a provider publishes its Lists one after the other.  Marks are kept *)
(* by a provider's name, which it may share with others or lack.           *)
(*                                                                         *)
(* Bounds: MaxEvents edits by users, failed fetches and failed imports     *)
(* together; Names, of which the code never runs out.                      *)
(***************************************************************************)
EXTENDS Naturals, Sequences

CONSTANTS
  Names, Signatures,
  Providers, NameOf, NoName,       \* their positions in the list, and names
  Strategy, Preserve,              \* the providers' options
  Merged,                          \* a signature with another's transport
  Lists,                           \* what each provider publishes, in turn
  UserSignatures,                  \* what users put
  Updater, Requests,               \* the workers
  MaxEvents

Outbound == [sig: Signatures, dis: BOOLEAN]
Item     == [name: Names, sig: Signatures]
Workers  == {Updater} \cup Requests

ASSUME SubscriptionAssumption ==
  /\ Providers \subseteq Nat
  /\ Strategy \in [Providers -> {"equivalent", "name", "none"}]
  /\ Preserve \in [Providers -> SUBSET {"disabled", "transport"}]
  /\ Merged \in [Signatures \X Signatures -> Signatures]
  /\ \A s \in Signatures : Merged[s, s] = s
  /\ Lists \in [Providers -> Seq(Item)]
  /\ \A p \in Providers : Lists[p] # << >>
  /\ UserSignatures \subseteq Signatures
  /\ Updater \notin Requests
  /\ MaxEvents \in Nat

VARIABLES
  outbounds,
  version,    \* which of its lists each provider publishes
  due,        \* its interval has passed since the mark in m.subscriptions
  todo,       \* the providers each worker has still to do
  got,        \* what it has fetched
  events

vars == <<outbounds, version, due, todo, got, events>>

NotFetched == [step |-> "fetch"]
Fetched    == [step: {"import", "mark"}, from: Providers, item: Item]

TypeOK ==
  /\ outbounds \in [DOMAIN outbounds -> Outbound]
  /\ DOMAIN outbounds \subseteq Names
  /\ \A p \in Providers : version[p] \in DOMAIN Lists[p]
  /\ due \in [Providers -> BOOLEAN]
  /\ todo \in [Workers -> SUBSET Providers]
  /\ got \in [Workers -> Fetched \cup {NotFetched}]
  /\ \A w \in Workers : got[w] # NotFetched => got[w].from \in todo[w]
  /\ events \in 0..MaxEvents

Init ==
  /\ outbounds = [n \in {} |-> 0]
  /\ version = [p \in Providers |-> 1]
  /\ due = [p \in Providers |-> TRUE]
  /\ todo = [w \in Workers |-> {}]
  /\ got = [w \in Workers |-> NotFetched]
  /\ events = 0

----------------------------------------------------------------------------
Event == events < MaxEvents /\ events' = events + 1

Put(n, x) ==
  outbounds' = [m \in DOMAIN outbounds \cup {n} |->
                  IF m = n THEN x ELSE outbounds[m]]

(* UpsertOutbound, SetNodeEnabled and DeleteNode.                          *)
Edit ==
  /\ Event
  /\ \/ \E n \in Names, s \in UserSignatures : Put(n, [sig |-> s, dis |-> FALSE])
     \/ \E n \in DOMAIN outbounds :
          \/ Put(n, [outbounds[n] EXCEPT !.dis = ~@])
          \/ outbounds' = [m \in DOMAIN outbounds \ {n} |-> outbounds[m]]
  /\ UNCHANGED <<version, due, todo, got>>

----------------------------------------------------------------------------
Current(p) == Lists[p][version[p]]

Publish(p) ==
  /\ version[p] < Len(Lists[p])
  /\ version' = [version EXCEPT ![p] = @ + 1]
  /\ UNCHANGED <<outbounds, due, todo, got, events>>

IntervalPasses(p) ==
  /\ ~due[p]
  /\ due' = [due EXCEPT ![p] = TRUE]
  /\ UNCHANGED <<outbounds, version, todo, got, events>>

(* What is due once the providers of these names are marked.               *)
Marked(names) == [p \in Providers |-> due[p] /\ NameOf[p] \notin names]

(* Of the providers of one name, the first that is due is taken, and its   *)
(* mark keeps the others waiting.                                          *)
Taken ==
  {p \in Providers : /\ due[p]
                     /\ \A q \in Providers :
                          due[q] /\ NameOf[q] = NameOf[p] => p <= q}

(* Mutant of TakeDue: only a provider that was never marked is due.        *)
TakeNew ==
  /\ todo[Updater] = {}
  /\ outbounds = [n \in {} |-> 0]
  /\ Taken # {}
  /\ todo' = [todo EXCEPT ![Updater] = Taken]
  /\ due' = Marked({NameOf[p] : p \in Taken})
  /\ UNCHANGED <<outbounds, version, got, events>>

(* dueSubscriptionProviders                                                *)
TakeDue ==
  /\ todo[Updater] = {}
  /\ Taken # {}
  /\ todo' = [todo EXCEPT ![Updater] = Taken]
  /\ due' = Marked({NameOf[p] : p \in Taken})
  /\ UNCHANGED <<outbounds, version, got, events>>

(* UpdateSubscriptions                                                     *)
TakeAll(r) ==
  /\ todo[r] = {}
  /\ todo' = [todo EXCEPT ![r] = Providers]
  /\ UNCHANGED <<outbounds, version, due, got, events>>

(* The loop of updateSubscriptionsForProviders                             *)
Turn(w, p) == p \in todo[w] /\ \A q \in todo[w] : p <= q

Done(w, p) == todo' = [todo EXCEPT ![w] = @ \ {p}]

Fetch(w, p) ==
  /\ Turn(w, p)
  /\ got[w] = NotFetched
  /\ got' = [got EXCEPT ![w] = [step |-> "import", from |-> p,
                                item |-> Current(p)]]
  /\ UNCHANGED <<outbounds, version, due, todo, events>>

(* The provider is skipped; it is not marked here, but was by TakeDue.     *)
FetchFails(w, p) ==
  /\ Turn(w, p)
  /\ got[w] = NotFetched
  /\ Event
  /\ Done(w, p)
  /\ UNCHANGED <<outbounds, version, due, got>>

(* Mutant of Matching: only an outbound of the same name is looked at.     *)
MatchingByNameOnly(p, it) ==
  {n \in {it.name} \cap DOMAIN outbounds :
     Strategy[p] = "name" \/ outbounds[n].sig = it.sig}

(* findMatchingOutboundLocked: the map is searched in no particular order. *)
Matching(p, it) ==
  CASE Strategy[p] = "none" -> {}
    [] Strategy[p] = "name" -> {it.name} \cap DOMAIN outbounds
    [] OTHER -> {n \in DOMAIN outbounds : outbounds[n].sig = it.sig}

(* uniqueOutboundNameLocked                                                *)
FreeNames(name) ==
  IF name \notin DOMAIN outbounds THEN {name} ELSE Names \ DOMAIN outbounds

(* mergePreservedOutboundFields: the transport is part of a signature.     *)
Landing(p, it, n) ==
  LET kept == IF n \in DOMAIN outbounds THEN Preserve[p] ELSE {}
  IN  [sig |-> IF "transport" \in kept THEN Merged[outbounds[n].sig, it.sig]
               ELSE it.sig,
       dis |-> "disabled" \in kept /\ outbounds[n].dis]

Import(w) ==
  /\ got[w].step = "import"
  /\ LET p  == got[w].from
         it == got[w].item
     IN  \E n \in IF Matching(p, it) # {} THEN Matching(p, it)
                  ELSE FreeNames(it.name) : Put(n, Landing(p, it, n))
  /\ got' = [got EXCEPT ![w].step = "mark"]
  /\ UNCHANGED <<version, due, todo, events>>

(* The list has nothing in it, or the commit fails: the provider is marked *)
(* as updated all the same.                                                *)
ImportFails(w) ==
  /\ got[w].step = "import"
  /\ Event
  /\ got' = [got EXCEPT ![w].step = "mark"]
  /\ UNCHANGED <<outbounds, version, due, todo>>

(* Mutant of Mark: the worker keeps what it has imported.                  *)
MarkKeepsFetched(w) ==
  /\ got[w].step = "mark"
  /\ due' = Marked({NameOf[got[w].from]} \ {NoName})
  /\ Done(w, got[w].from)
  /\ UNCHANGED <<outbounds, version, got, events>>

(* markSubscriptionUpdated                                                 *)
Mark(w) ==
  /\ got[w].step = "mark"
  /\ due' = Marked({NameOf[got[w].from]} \ {NoName})
  /\ Done(w, got[w].from)
  /\ got' = [got EXCEPT ![w] = NotFetched]
  /\ UNCHANGED <<outbounds, version, events>>

Work(w) ==
  \/ \E p \in Providers : Fetch(w, p) \/ FetchFails(w, p)
  \/ Import(w) \/ ImportFails(w) \/ Mark(w)

Next ==
  \/ Edit
  \/ \E p \in Providers : Publish(p) \/ IntervalPasses(p)
  \/ TakeDue
  \/ \E r \in Requests : TakeAll(r)
  \/ \E w \in Workers : Work(w)

Spec == Init /\ [][Next]_vars

(* Nobody else's marks keep this provider from being due.                  *)
HasOwnName(p) == \A q \in Providers : NameOf[q] = NameOf[p] => q = p

(* Time passes, the ticker ticks, and a fetch has a timeout.  A provider   *)
(* that shares its name may never be due.                                  *)
FairSpec ==
  /\ Spec
  /\ \A p \in {q \in Providers : HasOwnName(q)} : WF_vars(IntervalPasses(p))
  /\ WF_vars(TakeDue)
  /\ \A w \in Workers : WF_vars(Work(w))

----------------------------------------------------------------------------
(* The default strategy makes no twins: however a user's update overlaps   *)
(* with the updater's, a signature that no user and no provider with       *)
(* another strategy brings in stands for at most one outbound.             *)
LandsAs(p, s) ==
  {s} \cup IF Strategy[p] = "name" /\ "transport" \in Preserve[p]
             THEN {Merged[t, s] : t \in Signatures} ELSE {}

OnlyEquivalent(s) ==
  /\ s \notin UserSignatures
  /\ \A p \in Providers : \A i \in DOMAIN Lists[p] :
       s \in LandsAs(p, Lists[p][i].sig) => Strategy[p] = "equivalent"

NoTwins ==
  \A m, n \in DOMAIN outbounds :
    outbounds[m].sig = outbounds[n].sig /\ OnlyEquivalent(outbounds[m].sig)
      => m = n

(* What a provider with a name of its own publishes last arrives, although *)
(* it counts as updated before it is fetched and when its import has       *)
(* failed, and although an older list may be imported after a newer one.   *)
Arrived(p) ==
  \E n \in DOMAIN outbounds : outbounds[n].sig \in LandsAs(p, Current(p).sig)

ListsArrive == <>[](\A p \in Providers : HasOwnName(p) => Arrived(p))

============================================================================
