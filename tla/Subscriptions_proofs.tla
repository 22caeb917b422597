------------------------ MODULE Subscriptions_proofs ------------------------
(***************************************************************************)
(* Type correctness of Subscriptions, and that the default strategy makes  *)
(* no twins, for any providers, lists and workers.                         *)
(***************************************************************************)
EXTENDS Subscriptions, TLAPS

OutboundsType ==
  outbounds \in [DOMAIN outbounds -> Outbound] /\ DOMAIN outbounds \subseteq Names

(* What a worker has in hand belongs to a provider it has still to do.     *)
WorkersType ==
  /\ todo \in [Workers -> SUBSET Providers]
  /\ got \in [Workers -> Fetched \cup {NotFetched}]
  /\ \A w \in Workers : got[w] # NotFetched => got[w].from \in todo[w]

LEMMA TypeParts ==
  TypeOK <=> /\ OutboundsType /\ WorkersType
             /\ \A p \in Providers : version[p] \in DOMAIN Lists[p]
             /\ due \in [Providers -> BOOLEAN]
             /\ events \in 0..MaxEvents
  BY DEF TypeOK, OutboundsType, WorkersType

LEMMA EventsCounted == MaxEvents \in Nat
  BY SubscriptionAssumption

(* A signature merged with another is one, and with itself the same.       *)
LEMMA MergedSignature ==
  ASSUME NEW s \in Signatures, NEW t \in Signatures
  PROVE  Merged[s, t] \in Signatures /\ Merged[s, s] = s
  <1>1. /\ Merged \in [Signatures \X Signatures -> Signatures]
        /\ \A x \in Signatures : Merged[x, x] = x
    BY SubscriptionAssumption
  <1> QED
    BY <1>1

LEMMA InitType == Init => TypeOK
  <1> SUFFICES ASSUME Init PROVE TypeOK
    OBVIOUS
  <1>1. OutboundsType
    BY DEF Init, OutboundsType
  <1>2. WorkersType
    BY DEF Init, WorkersType
  <1>3. ASSUME NEW p \in Providers PROVE version[p] \in DOMAIN Lists[p]
    <2>1. Lists[p] \in Seq(Item) /\ Lists[p] # << >>
      BY SubscriptionAssumption
    <2>2. 1 \in DOMAIN Lists[p]
      BY <2>1
    <2> QED
      BY <2>2 DEF Init
  <1>4. due \in [Providers -> BOOLEAN] /\ events \in 0..MaxEvents
    BY EventsCounted DEF Init
  <1> QED
    BY <1>1, <1>2, <1>3, <1>4, TypeParts

LEMMA EventType ==
  ASSUME TypeOK, Event
  PROVE  events' \in 0..MaxEvents
  BY EventsCounted DEF TypeOK, Event

(* What is in a provider's lists is an item.                               *)
LEMMA ListedItem ==
  ASSUME NEW p \in Providers, NEW i \in DOMAIN Lists[p]
  PROVE  Lists[p][i] \in Item
  <1>1. Lists[p] \in Seq(Item)
    BY SubscriptionAssumption
  <1> QED
    BY <1>1

LEMMA PutType ==
  ASSUME OutboundsType, NEW n \in Names, NEW x \in Outbound, Put(n, x)
  PROVE  OutboundsType'
  <1>1. outbounds' \in [DOMAIN outbounds \cup {n} -> Outbound]
    BY DEF OutboundsType, Put
  <1> QED
    BY <1>1 DEF OutboundsType

(* What is imported: the item of a list, over an outbound that matches it  *)
(* or as a new one.                                                        *)
LEMMA ImportPuts ==
  ASSUME TypeOK, NEW w \in Workers, Import(w)
  PROVE  /\ got[w] \in Fetched
         /\ \E n \in IF Matching(got[w].from, got[w].item) # {}
                       THEN Matching(got[w].from, got[w].item)
                       ELSE FreeNames(got[w].item.name) :
              Put(n, Landing(got[w].from, got[w].item, n))
  BY DEF TypeOK, Import, NotFetched, Fetched

(* What lands has the signature of the item, or that of a merge.           *)
LEMMA LandsWell ==
  ASSUME NEW p, NEW it, it.sig \in Signatures, NEW n,
         n \in DOMAIN outbounds => outbounds[n].sig \in Signatures
  PROVE  /\ Landing(p, it, n) \in Outbound
         /\ \/ Landing(p, it, n).sig = it.sig
            \/ /\ n \in DOMAIN outbounds /\ "transport" \in Preserve[p]
               /\ Landing(p, it, n).sig = Merged[outbounds[n].sig, it.sig]
  <1> DEFINE kept == IF n \in DOMAIN outbounds THEN Preserve[p] ELSE {}
             sig  == IF "transport" \in kept THEN Merged[outbounds[n].sig, it.sig]
                     ELSE it.sig
  <1>1. n \in DOMAIN outbounds => Merged[outbounds[n].sig, it.sig] \in Signatures
    BY MergedSignature
  <1>2. sig \in Signatures
    BY <1>1
  <1>3. Landing(p, it, n) = [sig |-> sig,
                             dis |-> "disabled" \in kept /\ outbounds[n].dis]
    BY DEF Landing
  <1>4. \/ sig = it.sig
        \/ /\ n \in DOMAIN outbounds /\ "transport" \in Preserve[p]
           /\ sig = Merged[outbounds[n].sig, it.sig]
    OBVIOUS
  <1> DEFINE dis == "disabled" \in kept /\ outbounds[n].dis
  <1>5. dis \in BOOLEAN
    OBVIOUS
  <1>6. Landing(p, it, n) = [sig |-> sig, dis |-> dis]
    BY <1>3
  <1> HIDE DEF sig, kept, dis
  <1>7. Landing(p, it, n) \in Outbound
    BY <1>2, <1>5, <1>6 DEF Outbound
  <1>8. Landing(p, it, n).sig = sig
    BY <1>6
  <1> QED
    BY <1>4, <1>7, <1>8

LEMMA MarkedType == \A names : Marked(names) \in [Providers -> BOOLEAN]
  BY DEF Marked

LEMMA ImportType ==
  ASSUME TypeOK, NEW w \in Workers, Import(w)
  PROVE  OutboundsType'
  <1> DEFINE p  == got[w].from
             it == got[w].item
  <1>1. OutboundsType
    BY TypeParts
  <1>2. p \in Providers /\ it \in Item
    BY ImportPuts DEF Fetched
  <1>3. PICK n \in IF Matching(p, it) # {} THEN Matching(p, it) ELSE FreeNames(it.name) :
          Put(n, Landing(p, it, n))
    BY ImportPuts
  <1> HIDE DEF p, it
  <1>4. it.name \in Names /\ it.sig \in Signatures
    BY <1>2 DEF Item
  <1>5. Matching(p, it) \subseteq Names
    BY <1>1 DEF Matching, OutboundsType
  <1>6. FreeNames(it.name) \subseteq Names
    BY <1>4 DEF FreeNames
  <1>7. Landing(p, it, n) \in Outbound
    BY <1>1, <1>4, LandsWell DEF OutboundsType, Outbound
  <1> QED
    BY <1>1, <1>3, <1>5, <1>6, <1>7, PutType

LEMMA GotStepType ==
  ASSUME TypeOK, NEW w \in Workers, NEW step \in {"import", "mark"},
         got[w].step = "import", got' = [got EXCEPT ![w].step = step],
         todo' = todo
  PROVE  WorkersType'
  <1>1. WorkersType
    BY TypeParts
  <1>2. got[w] \in Fetched /\ got[w].from \in todo[w]
    BY <1>1 DEF WorkersType, NotFetched
  <1>3. [got[w] EXCEPT !.step = step] \in Fetched
        /\ [got[w] EXCEPT !.step = step].from = got[w].from
    BY <1>2 DEF Fetched
  <1> QED
    BY <1>1, <1>2, <1>3 DEF WorkersType

LEMMA FailedFetchType ==
  ASSUME TypeOK, NEW w \in Workers, NEW p \in Providers,
         got[w] = NotFetched, Done(w, p), got' = got
  PROVE  WorkersType'
  <1>1. WorkersType
    BY TypeParts
  <1>2. todo' \in [Workers -> SUBSET Providers]
    BY <1>1 DEF WorkersType, Done
  <1>3. \A v \in Workers : got[v] # NotFetched => got[v].from \in todo'[v]
    BY <1>1 DEF WorkersType, Done
  <1> QED
    BY <1>1, <1>2, <1>3 DEF WorkersType

LEMMA WorkType ==
  ASSUME TypeOK, NEW w \in Workers, Work(w)
  PROVE  TypeOK'
  <1>0. OutboundsType /\ WorkersType /\ due \in [Providers -> BOOLEAN]
        /\ \A p \in Providers : version[p] \in DOMAIN Lists[p]
        /\ events \in 0..MaxEvents
    BY TypeParts
  <1>1. ASSUME NEW p \in Providers, Fetch(w, p) PROVE TypeOK'
    <2>1. Current(p) \in Item
      BY <1>0, ListedItem DEF Current
    <2>2. [step |-> "import", from |-> p, item |-> Current(p)] \in Fetched
      BY <2>1 DEF Fetched
    <2>5. p \in todo[w]
      BY <1>1 DEF Fetch, Turn
    <2>6. /\ todo' = todo
          /\ got' = [got EXCEPT ![w] = [step |-> "import", from |-> p,
                                        item |-> Current(p)]]
      BY <1>1 DEF Fetch
    <2>3. WorkersType'
      BY <1>0, <2>2, <2>5, <2>6 DEF WorkersType
    <2>4. UNCHANGED <<outbounds, version, due, events>>
      BY <1>1 DEF Fetch
    <2> QED
      BY <1>0, <2>3, <2>4 DEF TypeOK, OutboundsType, WorkersType
  <1>2. ASSUME NEW p \in Providers, FetchFails(w, p) PROVE TypeOK'
    <2>1. WorkersType'
      BY <1>2, FailedFetchType DEF FetchFails
    <2>2. events' \in 0..MaxEvents /\ UNCHANGED <<outbounds, version, due>>
      BY <1>2, EventType DEF FetchFails
    <2> QED
      BY <1>0, <2>1, <2>2 DEF TypeOK, OutboundsType, WorkersType
  <1>3. CASE Import(w)
    <2>1. WorkersType'
      BY <1>3, GotStepType DEF Import
    <2>2. OutboundsType'
      BY <1>3, ImportType
    <2>3. UNCHANGED <<version, due, events>>
      BY <1>3 DEF Import
    <2> QED
      BY <1>0, <2>1, <2>2, <2>3 DEF TypeOK, OutboundsType, WorkersType
  <1>4. CASE ImportFails(w)
    <2>1. WorkersType'
      BY <1>4, GotStepType DEF ImportFails
    <2>2. events' \in 0..MaxEvents /\ UNCHANGED <<outbounds, version, due>>
      BY <1>4, EventType DEF ImportFails
    <2> QED
      BY <1>0, <2>1, <2>2 DEF TypeOK, OutboundsType, WorkersType
  <1>5. CASE Mark(w)
    <2>1. todo' \in [Workers -> SUBSET Providers]
      BY <1>0, <1>5 DEF WorkersType, Mark, Done
    <2>2. got' \in [Workers -> Fetched \cup {NotFetched}]
      BY <1>0, <1>5 DEF WorkersType, Mark
    <2>3. \A v \in Workers : got'[v] # NotFetched => got'[v].from \in todo'[v]
      BY <1>0, <1>5 DEF WorkersType, Mark, Done
    <2>4. due' \in [Providers -> BOOLEAN] /\ UNCHANGED <<outbounds, version, events>>
      BY <1>5, MarkedType DEF Mark
    <2> QED
      BY <1>0, <2>1, <2>2, <2>3, <2>4 DEF TypeOK, OutboundsType
  <1> QED
    BY <1>1, <1>2, <1>3, <1>4, <1>5 DEF Work

LEMMA TypeStep == TypeOK /\ [Next]_vars => TypeOK'
  <1> SUFFICES ASSUME TypeOK, [Next]_vars
               PROVE  TypeOK'
    OBVIOUS
  <1>0. OutboundsType /\ WorkersType /\ due \in [Providers -> BOOLEAN]
        /\ \A p \in Providers : version[p] \in DOMAIN Lists[p]
        /\ events \in 0..MaxEvents
    BY TypeParts
  <1>1. CASE Edit
    <2>1. ASSUME NEW n \in Names, NEW s \in UserSignatures,
                 Put(n, [sig |-> s, dis |-> FALSE])
          PROVE  OutboundsType'
      <3>1. [sig |-> s, dis |-> FALSE] \in Outbound
        BY SubscriptionAssumption DEF Outbound
      <3> QED
        BY <1>0, <2>1, <3>1, PutType
    <2>2. ASSUME NEW n \in DOMAIN outbounds,
                 Put(n, [outbounds[n] EXCEPT !.dis = ~@])
          PROVE  OutboundsType'
      <3>1. n \in Names /\ [outbounds[n] EXCEPT !.dis = ~@] \in Outbound
        BY <1>0 DEF OutboundsType, Outbound
      <3> QED
        BY <1>0, <2>2, <3>1, PutType
    <2>3. ASSUME NEW n \in DOMAIN outbounds,
                 outbounds' = [m \in DOMAIN outbounds \ {n} |-> outbounds[m]]
          PROVE  OutboundsType'
      BY <1>0, <2>3 DEF OutboundsType
    <2>4. OutboundsType'
      BY <1>1, <2>1, <2>2, <2>3 DEF Edit
    <2>5. events' \in 0..MaxEvents /\ UNCHANGED <<version, due, todo, got>>
      BY <1>1, EventType DEF Edit
    <2> QED
      BY <1>0, <2>4, <2>5 DEF TypeOK, OutboundsType, WorkersType
  <1>2. ASSUME NEW p \in Providers, Publish(p) PROVE TypeOK'
    <2>1. ASSUME NEW q \in Providers PROVE version'[q] \in DOMAIN Lists[q]
      <3>1. Lists[q] \in Seq(Item) /\ version[q] \in DOMAIN Lists[q]
        BY <1>0, SubscriptionAssumption
      <3>2. CASE q = p /\ p \in DOMAIN version
        <4>1. version'[q] = version[q] + 1 /\ version[q] < Len(Lists[q])
          BY <1>2, <3>2 DEF Publish
        <4> QED
          BY <3>1, <4>1
      <3>3. CASE q # p \/ p \notin DOMAIN version
        <4>1. version'[q] = version[q]
          BY <1>2, <3>3 DEF Publish
        <4> QED
          BY <3>1, <4>1
      <3> QED
        BY <3>2, <3>3
    <2>2. UNCHANGED <<outbounds, due, todo, got, events>>
      BY <1>2 DEF Publish
    <2> QED
      BY <1>0, <2>1, <2>2 DEF TypeOK, OutboundsType, WorkersType
  <1>3. ASSUME NEW p \in Providers, IntervalPasses(p) PROVE TypeOK'
    BY <1>0, <1>3 DEF IntervalPasses, TypeOK, OutboundsType, WorkersType
  <1>4. ASSUME NEW r \in Workers, NEW T \in SUBSET Providers, todo[r] = {},
               todo' = [todo EXCEPT ![r] = T], got' = got
        PROVE  WorkersType'
    BY <1>0, <1>4 DEF WorkersType
  <1>5. CASE TakeDue
    <2>1. WorkersType'
      BY <1>4, <1>5 DEF TakeDue, Taken, Workers
    <2>2. due' \in [Providers -> BOOLEAN] /\ UNCHANGED <<outbounds, version, events>>
      BY <1>5, MarkedType DEF TakeDue
    <2> QED
      BY <1>0, <2>1, <2>2 DEF TypeOK, OutboundsType, WorkersType
  <1>6. ASSUME NEW r \in Requests, TakeAll(r) PROVE TypeOK'
    <2>1. WorkersType'
      BY <1>4, <1>6 DEF TakeAll, Workers
    <2> QED
      BY <1>0, <1>6, <2>1 DEF TakeAll, TypeOK, OutboundsType, WorkersType
  <1>7. CASE UNCHANGED vars
    BY <1>0, <1>7 DEF vars, TypeOK, OutboundsType, WorkersType
  <1> QED
    BY <1>1, <1>2, <1>3, <1>5, <1>6, <1>7, WorkType DEF Next

(* Providers, workers and outbounds are well typed, and a worker holds a   *)
(* list only of a provider it has still to do.                             *)
THEOREM TypeCorrect == Spec => []TypeOK
  <1> QED
    BY InitType, TypeStep, PTL DEF Spec

----------------------------------------------------------------------------
(* What a worker holds is one of the lists of its provider.                *)
ItemsAreListed ==
  \A w \in Workers : got[w] # NotFetched =>
    \E i \in DOMAIN Lists[got[w].from] : Lists[got[w].from][i] = got[w].item

LEMMA ListedInit == Init => ItemsAreListed
  BY DEF Init, ItemsAreListed

LEMMA ListedStep == TypeOK /\ ItemsAreListed /\ [Next]_vars => ItemsAreListed'
  <1> SUFFICES ASSUME TypeOK, ItemsAreListed, [Next]_vars
               PROVE  ItemsAreListed'
    OBVIOUS
  <1>0. WorkersType /\ \A p \in Providers : version[p] \in DOMAIN Lists[p]
    BY TypeParts
  <1>1. CASE got' = got
    BY <1>1 DEF ItemsAreListed
  <1>2. ASSUME NEW w \in Workers, NEW p \in Providers, Fetch(w, p)
        PROVE  ItemsAreListed'
    <2>1. got' = [got EXCEPT ![w] = [step |-> "import", from |-> p, item |-> Current(p)]]
      BY <1>2 DEF Fetch
    <2>2. version[p] \in DOMAIN Lists[p] /\ Lists[p][version[p]] = Current(p)
      BY <1>0 DEF Current
    <2>3. ASSUME NEW v \in Workers, got'[v] # NotFetched
          PROVE  \E i \in DOMAIN Lists[got'[v].from] : Lists[got'[v].from][i] = got'[v].item
      <3>1. CASE v = w
        <4>1. got'[v].from = p /\ got'[v].item = Current(p)
          BY <1>0, <2>1, <3>1 DEF WorkersType
        <4> QED
          BY <2>2, <4>1
      <3>2. CASE v # w
        <4>1. got'[v] = got[v]
          BY <1>0, <2>1, <3>2 DEF WorkersType
        <4> QED
          BY <2>3, <4>1 DEF ItemsAreListed
      <3> QED
        BY <3>1, <3>2
    <2> QED
      BY <2>3 DEF ItemsAreListed
  <1>3. ASSUME NEW w \in Workers, Import(w) \/ ImportFails(w)
        PROVE  ItemsAreListed'
    <2>1. got' = [got EXCEPT ![w].step = "mark"] /\ got[w].step = "import"
      BY <1>3 DEF Import, ImportFails
    <2>2. got[w] \in Fetched /\ got[w] # NotFetched
      BY <1>0, <2>1 DEF WorkersType, NotFetched
    <2>3. ASSUME NEW v \in Workers, got'[v] # NotFetched
          PROVE  /\ got[v] # NotFetched
                 /\ got'[v].from = got[v].from /\ got'[v].item = got[v].item
      <3>1. CASE v = w
        BY <1>0, <2>1, <2>2, <3>1 DEF WorkersType, Fetched
      <3>2. CASE v # w
        BY <1>0, <2>1, <2>3, <3>2 DEF WorkersType
      <3> QED
        BY <3>1, <3>2
    <2> QED
      BY <2>3 DEF ItemsAreListed
  <1>4. ASSUME NEW w \in Workers, Mark(w) PROVE ItemsAreListed'
    <2>1. \A v \in Workers : got'[v] # NotFetched => got'[v] = got[v]
      BY <1>0, <1>4 DEF Mark, WorkersType
    <2> QED
      BY <2>1 DEF ItemsAreListed
  <1>5. CASE UNCHANGED vars
    BY <1>1, <1>5 DEF vars
  <1> QED
    BY <1>1, <1>2, <1>3, <1>4, <1>5
       DEF Next, Edit, Publish, IntervalPasses, TakeDue, TakeAll, Work, FetchFails

(* A step after which every outbound has the signature it had, or one that *)
(* not only the default strategy brings in.                                *)
LEMMA NoNewTwins ==
  ASSUME NoTwins,
         \A n \in DOMAIN outbounds' :
           \/ ~OnlyEquivalent(outbounds'[n].sig)
           \/ n \in DOMAIN outbounds /\ outbounds'[n].sig = outbounds[n].sig
  PROVE  NoTwins'
  BY DEF NoTwins, OnlyEquivalent

LEMMA TwinsStep ==
  TypeOK /\ ItemsAreListed /\ NoTwins /\ [Next]_vars => NoTwins'
  <1> SUFFICES ASSUME TypeOK, ItemsAreListed, NoTwins, [Next]_vars
               PROVE  NoTwins'
    OBVIOUS
  <1>1. CASE outbounds' = outbounds
    BY <1>1, NoNewTwins
  <1>2. CASE Edit
    <2>1. ASSUME NEW n \in Names, NEW s \in UserSignatures,
                 Put(n, [sig |-> s, dis |-> FALSE])
          PROVE  NoTwins'
      <3>1. ~OnlyEquivalent(s)
        BY DEF OnlyEquivalent
      <3> QED
        BY <2>1, <3>1, NoNewTwins DEF Put
    <2>2. ASSUME NEW n \in DOMAIN outbounds,
                 Put(n, [outbounds[n] EXCEPT !.dis = ~@])
          PROVE  NoTwins'
      <3>1. [outbounds[n] EXCEPT !.dis = ~@].sig = outbounds[n].sig
        BY DEF TypeOK, Outbound
      <3> QED
        BY <2>2, <3>1, NoNewTwins DEF Put
    <2>3. ASSUME NEW n \in DOMAIN outbounds,
                 outbounds' = [m \in DOMAIN outbounds \ {n} |-> outbounds[m]]
          PROVE  NoTwins'
      BY <2>3, NoNewTwins
    <2> QED
      BY <1>2, <2>1, <2>2, <2>3 DEF Edit
  <1>3. ASSUME NEW w \in Workers, Import(w) PROVE NoTwins'
    <2> DEFINE p  == got[w].from
               it == got[w].item
    <2>1. p \in Providers
      BY <1>3, ImportPuts DEF Fetched
    <2>2. PICK n \in IF Matching(p, it) # {} THEN Matching(p, it) ELSE FreeNames(it.name) :
            Put(n, Landing(p, it, n))
      BY <1>3, ImportPuts
    <2>3. \E i \in DOMAIN Lists[p] : Lists[p][i] = it
      BY <1>3, ImportPuts DEF ItemsAreListed, Fetched, NotFetched
    <2> HIDE DEF p, it
    <2>4. /\ DOMAIN outbounds' = DOMAIN outbounds \cup {n}
          /\ outbounds'[n] = Landing(p, it, n)
          /\ \A m \in DOMAIN outbounds : m # n => outbounds'[m] = outbounds[m]
      BY <2>2 DEF Put
    <2>7. it.sig \in Signatures /\ \A m \in DOMAIN outbounds : outbounds[m].sig \in Signatures
      BY <2>1, <2>3, ListedItem DEF Item, TypeOK, Outbound
    <2> DEFINE sig == Landing(p, it, n).sig
    <2>8. \/ sig = it.sig
          \/ /\ n \in DOMAIN outbounds /\ "transport" \in Preserve[p]
             /\ sig = Merged[outbounds[n].sig, it.sig]
      BY <2>7, LandsWell
    <2> HIDE DEF sig
    <2>5. CASE ~OnlyEquivalent(sig)
      BY <2>4, <2>5, NoNewTwins DEF sig
    <2>6. CASE OnlyEquivalent(sig)
      <3>5. ASSUME Strategy[p] = "name" PROVE FALSE
        <4>1. sig \in LandsAs(p, it.sig)
          BY <2>7, <2>8, <3>5 DEF LandsAs
        <4> QED
          BY <2>1, <2>3, <2>6, <3>5, <4>1 DEF OnlyEquivalent
      <3>6. /\ n \in DOMAIN outbounds => outbounds[n].sig = it.sig
            /\ Strategy[p] = "equivalent" \/ n \notin DOMAIN outbounds
        <4>1. Strategy[p] \in {"equivalent", "none"}
          BY <2>1, <3>5, SubscriptionAssumption
        <4>2. CASE Strategy[p] = "equivalent"
          BY <2>2, <4>2 DEF Matching, FreeNames
        <4>3. CASE Strategy[p] = "none"
          BY <2>2, <4>3 DEF Matching, FreeNames
        <4> QED
          BY <4>1, <4>2, <4>3
      <3>7. sig = it.sig
        BY <2>7, <2>8, <3>6, MergedSignature
      <3>1. Strategy[p] = "equivalent"
        BY <2>1, <2>3, <2>6, <3>7 DEF OnlyEquivalent, LandsAs
      <3>2. Matching(p, it) = {m \in DOMAIN outbounds : outbounds[m].sig = it.sig}
        BY <3>1 DEF Matching
      <3>3. CASE Matching(p, it) # {}
        <4>1. n \in DOMAIN outbounds /\ outbounds[n].sig = it.sig
          BY <2>2, <3>2, <3>3
        <4> QED
          BY <2>4, <3>7, <4>1, NoNewTwins DEF sig
      <3>4. CASE Matching(p, it) = {}
        <4>1. \A m \in DOMAIN outbounds : outbounds[m].sig # it.sig
          BY <3>2, <3>4
        <4> QED
          BY <2>4, <3>7, <4>1 DEF NoTwins, OnlyEquivalent, sig
      <3> QED
        BY <3>3, <3>4
    <2> QED
      BY <2>5, <2>6
  <1>4. CASE UNCHANGED vars
    BY <1>1, <1>4 DEF vars
  <1> QED
    BY <1>1, <1>2, <1>3, <1>4
       DEF Next, Publish, IntervalPasses, TakeDue, TakeAll, Work, Fetch,
           FetchFails, ImportFails, Mark

LEMMA TwinsInit == Init => NoTwins
  BY DEF Init, NoTwins

(* However updates overlap, a signature only the default strategy brings   *)
(* in stands for one outbound at most.                                     *)
THEOREM UpdatesMakeNoTwins == Spec => []NoTwins
  <1> QED
    BY InitType, TypeStep, ListedInit, ListedStep, TwinsInit, TwinsStep, PTL
       DEF Spec

=============================================================================
