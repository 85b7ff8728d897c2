------------------------- MODULE RealtimeSyncProofs -------------------------
(***************************************************************************)
(* Proofs about RealtimeSync, for any items, mutations and bounds.          *)
(***************************************************************************)
EXTENDS RealtimeSync, TLAPS

\* A mutation slot, as onMutate fills it.
Slot == [state : {"idle", "sent", "done", "failed"}, item : Items,
         prev : Content \cup {NoData}]
News == [item : Items, rev : 0..MaxWrites]
Counters == [touches : 0..MaxTouches, drops : 0..MaxDrops,
             failures : 0..MaxFailures, mutations : 0..MaxMutations]

\* TypeOK, with the functions it looks into.
Typed ==
    /\ kind \in Kinds
    /\ server \in [Items -> 0..MaxWrites]
    /\ clock \in 0..MaxWrites
    /\ entry \in EntryType
    /\ timer \in BOOLEAN /\ known \in BOOLEAN
    /\ healed \in BOOLEAN /\ owed \in BOOLEAN
    /\ link \in {"away", "down", "connecting", "acked"}
    /\ hub \in {"none", "authenticated", "registered"}
    /\ wire \in Seq(News)
    /\ mutation \in [Mutations -> Slot]
    /\ spent \in Counters

-----------------------------------------------------------------------------
(* The entry's operations. *)

\* The bounds are numbers, and a server's content is one of the entry's.
LEMMA Contents ==
    /\ MaxWrites \in Nat /\ Local \in Nat /\ Local = MaxWrites + 1
    /\ [Items -> 0..MaxWrites] \subseteq Content
    /\ NoData \notin Content
    /\ Empty \in Content
<1>1. MaxWrites \in Nat
  BY BoundsAssumption
<1>2. Local \in Nat /\ Local = MaxWrites + 1 /\ 0..MaxWrites \subseteq 0..Local
  BY <1>1 DEF Local
<1>3. 0..Local \subseteq Nat
  OBVIOUS
<1>4. Content \subseteq [Items -> Nat]
  BY <1>3 DEF Content
<1> QED
  BY <1>1, <1>2, <1>4, NoDataAssumption DEF Content, Empty

\* A fetch asks again, unless the first answer is still awaited.
LEMMA FetchedOf ==
    ASSUME NEW e \in EntryType
    PROVE  /\ Fetched(e) \in EntryType /\ Fetching(Fetched(e))
           /\ Fetched(e).data = e.data /\ Fetched(e).mounted = e.mounted
           /\ Fetched(e).invalid = e.invalid
           /\ Fetched(e).fetch \in {e.fetch, [at |-> "sent"]}
           /\ HasData(e) => Fetched(e).fetch = [at |-> "sent"]
<1>1. [at |-> "sent"] \in Request
  BY DEF Request
<1>2. CASE Fetching(e) /\ ~HasData(e)
  BY <1>2 DEF Fetched
<1>3. CASE ~(Fetching(e) /\ ~HasData(e))
  <2>1. Fetched(e) = [data |-> e.data, invalid |-> e.invalid, mounted |-> e.mounted,
                      fetch |-> [at |-> "sent"], revert |-> e.invalid, failed |-> FALSE]
    BY <1>3 DEF Fetched, EntryType
  <2> QED
    BY <1>1, <2>1 DEF EntryType, Fetching
<1> QED
  BY <1>2, <1>3

\* A mark stays until a fetch; a page that shows the entry fetches it at once.
LEMMA InvalidatedOf ==
    ASSUME NEW e \in EntryType
    PROVE  /\ Invalidated(e) \in EntryType
           /\ Invalidated(e).data = e.data /\ Invalidated(e).mounted = e.mounted
           /\ Invalidated(e).invalid = TRUE
           /\ Invalidated(e).fetch \in {e.fetch, [at |-> "sent"]}
           /\ Fetching(e) => Fetching(Invalidated(e))
           /\ e.mounted => Fetching(Invalidated(e))
           /\ e.mounted /\ HasData(e) => Invalidated(e).fetch = [at |-> "sent"]
<1> DEFINE marked == [e EXCEPT !.invalid = TRUE]
<1>1. /\ marked \in EntryType /\ marked.data = e.data /\ marked.mounted = e.mounted
      /\ marked.invalid = TRUE /\ marked.fetch = e.fetch
  BY DEF EntryType
<1>2. HasData(marked) <=> HasData(e)
  BY <1>1 DEF HasData
<1>3. Fetching(marked) <=> Fetching(e)
  BY <1>1 DEF Fetching
<1>4. Invalidated(e) = IF e.mounted THEN Fetched(marked) ELSE marked
  BY <1>1 DEF Invalidated
<1> HIDE DEF marked
<1>5. e.mounted \in BOOLEAN
  BY DEF EntryType
<1>6. CASE e.mounted
  BY <1>1, <1>2, <1>4, <1>6, FetchedOf
<1>7. CASE ~e.mounted
  BY <1>1, <1>3, <1>4, <1>7
<1> QED
  BY <1>6, <1>7

\* A write leaves the observers and the request.
LEMMA WrittenOf ==
    ASSUME NEW e \in EntryType, NEW d \in Content
    PROVE  /\ Written(e, d) \in EntryType
           /\ Written(e, d).data = d /\ HasData(Written(e, d))
           /\ Written(e, d).mounted = e.mounted /\ Written(e, d).fetch = e.fetch
<1>1. /\ Written(e, d).data = d /\ Written(e, d).mounted = e.mounted
      /\ Written(e, d).fetch = e.fetch
  BY DEF Written, EntryType
<1>2. Written(e, d) \in EntryType
  BY DEF Written, EntryType
<1> QED
  BY <1>1, <1>2, Contents DEF HasData

\* So does a cancellation, but for the request.
LEMMA CancelledOf ==
    ASSUME NEW e \in EntryType
    PROVE  /\ Cancelled(e) \in EntryType
           /\ Cancelled(e).data = e.data /\ Cancelled(e).mounted = e.mounted
           /\ Cancelled(e).fetch \in {e.fetch, NoRequest}
<1>1. NoRequest \in Request
  BY DEF NoRequest, Request
<1> QED
  BY <1>1 DEF Cancelled, EntryType

\* An updater leaves a missing entry alone.
LEMMA PatchedOf ==
    ASSUME NEW e \in EntryType, NEW i \in Items, NEW r \in 0..Local
    PROVE  /\ Patched(e, i, r) \in EntryType
           /\ Patched(e, i, r).mounted = e.mounted /\ Patched(e, i, r).fetch = e.fetch
           /\ HasData(Patched(e, i, r)) <=> HasData(e)
           /\ ~HasData(e) => Patched(e, i, r) = e
<1>1. CASE HasData(e)
  <2>1. e.data \in Content
    BY <1>1 DEF HasData, EntryType
  <2> DEFINE d == [e.data EXCEPT ![i] = r]
  <2>2. d \in Content
    BY <2>1 DEF Content
  <2>3. Patched(e, i, r) = Written(e, d)
    BY <1>1 DEF Patched
  <2> HIDE DEF d
  <2> QED
    BY <1>1, <2>2, <2>3, WrittenOf
<1>2. CASE ~HasData(e)
  BY <1>2 DEF Patched
<1> QED
  BY <1>1, <1>2

\* A seeded entry has data, whatever it had.
LEMMA SeededOf ==
    ASSUME NEW e \in EntryType, NEW i \in Items, NEW r \in 0..Local
    PROVE  /\ Seeded(e, i, r) \in EntryType /\ HasData(Seeded(e, i, r))
           /\ Seeded(e, i, r).mounted = e.mounted /\ Seeded(e, i, r).fetch = e.fetch
<1> DEFINE old == IF HasData(e) THEN e.data ELSE Empty
           d == [old EXCEPT ![i] = r]
<1>1. old \in Content
  BY Contents DEF HasData, EntryType
<1>2. d \in Content
  <2> HIDE DEF old
  <2> QED
    BY <1>1 DEF Content
<1>3. Seeded(e, i, r) = Written(e, d)
  BY DEF Seeded
<1> HIDE DEF old, d
<1> QED
  BY <1>2, <1>3, WrittenOf

\* No two ways of treating an event share a kind; a kind with an optimistic mutation
\* is written by its mutations only, unless its events rewrite it in place.
LEMMA KindsApart ==
    /\ kind \in OptimisticKinds /\ kind \notin TouchedKinds =>
          kind \in DebouncedKinds \cup MarkedKinds
    /\ kind \in DebouncedKinds => kind \notin MarkedKinds \cup PatchedKinds
                                          \cup SeededKinds \cup SeededMarkedKinds
    /\ kind \in MarkedKinds => kind \notin PatchedKinds \cup SeededKinds
                                       \cup SeededMarkedKinds
    /\ kind \in SeededMarkedKinds => kind \notin PatchedKinds \cup SeededKinds
BY DEF OptimisticKinds, TouchedKinds, DebouncedKinds, MarkedKinds, PatchedKinds,
       SeededKinds, SeededMarkedKinds

\* A behaviour is about one key.
LEMMA KindKept ==
    ASSUME [Next]_vars
    PROVE  kind' = kind
BY DEF Next, vars, ServerChange, ServerTouch, Connect, Authenticate, Register, AckArrives,
       Drop, LeaveWorkspace, EnterWorkspace, Deliver, DebounceFires, Mount, Unmount,
       Collect, ServerAnswers, FetchSucceeds, FetchFails, MutateOptimistically,
       MutationApplied, MutationRefused, Settle

\* What an event of each kind does.
LEMMA ReactionOf ==
    ASSUME NEW e \in EntryType, NEW i \in Items, NEW r \in 0..Local
    PROVE  /\ kind \in DebouncedKinds => Reaction(e, i, r) = e
           /\ kind \in MarkedKinds => Reaction(e, i, r) = Invalidated(e)
           /\ kind \in SeededMarkedKinds => Reaction(e, i, r) = Invalidated(Seeded(e, i, r))
           /\ Reaction(e, i, r) \in {e, Invalidated(e), Patched(e, i, r), Seeded(e, i, r),
                                     Invalidated(Seeded(e, i, r))}
BY KindsApart DEF Reaction

\* It leaves an entry with its observers, and with data if it had any.
LEMMA ReactionKeeps ==
    ASSUME NEW e \in EntryType, NEW i \in Items, NEW r \in 0..Local
    PROVE  /\ Reaction(e, i, r) \in EntryType /\ Reaction(e, i, r).mounted = e.mounted
           /\ HasData(e) => HasData(Reaction(e, i, r))
           /\ Fetching(e) => Fetching(Reaction(e, i, r))
           /\ Reaction(e, i, r).fetch \in {e.fetch, [at |-> "sent"]}
           /\ HasData(Reaction(e, i, r)) \/ Reaction(e, i, r) \in {e, Invalidated(e)}
<1>1. CASE Reaction(e, i, r) = e
  BY <1>1
<1>2. CASE Reaction(e, i, r) = Invalidated(e)
  BY <1>2, InvalidatedOf DEF HasData
<1>3. CASE Reaction(e, i, r) = Patched(e, i, r)
  BY <1>3, PatchedOf DEF Fetching
<1>4. CASE Reaction(e, i, r) = Seeded(e, i, r)
  BY <1>4, SeededOf DEF Fetching
<1>5. CASE Reaction(e, i, r) = Invalidated(Seeded(e, i, r))
  <2> DEFINE s == Seeded(e, i, r)
  <2>1. s \in EntryType /\ HasData(s) /\ s.mounted = e.mounted /\ s.fetch = e.fetch
    BY SeededOf
  <2> HIDE DEF s
  <2>2. /\ Invalidated(s) \in EntryType /\ Invalidated(s).data = s.data
        /\ Invalidated(s).mounted = s.mounted
        /\ Fetching(s) => Fetching(Invalidated(s))
        /\ Invalidated(s).fetch \in {s.fetch, [at |-> "sent"]}
    BY <2>1, InvalidatedOf
  <2>3. HasData(Invalidated(s)) /\ (Fetching(e) <=> Fetching(s))
    BY <2>1, <2>2 DEF HasData, Fetching
  <2> QED
    BY <1>5, <2>1, <2>2, <2>3 DEF s
<1> QED
  BY <1>1, <1>2, <1>3, <1>4, <1>5, ReactionOf

-----------------------------------------------------------------------------
(* Types. *)

\* The counters stay within their bounds.
LEMMA SpendType ==
    ASSUME Typed,
           \/ Spend("touches", MaxTouches) \/ Spend("drops", MaxDrops)
           \/ Spend("failures", MaxFailures) \/ Spend("mutations", MaxMutations)
    PROVE  spent' \in Counters
<1>1. {MaxTouches, MaxDrops, MaxFailures, MaxMutations} \subseteq Nat /\ spent \in Counters
  BY BoundsAssumption DEF Typed
<1>2. CASE Spend("touches", MaxTouches)
  BY <1>1, <1>2 DEF Spend, Counters
<1>3. CASE Spend("drops", MaxDrops)
  BY <1>1, <1>3 DEF Spend, Counters
<1>4. CASE Spend("failures", MaxFailures)
  BY <1>1, <1>4 DEF Spend, Counters
<1>5. CASE Spend("mutations", MaxMutations)
  BY <1>1, <1>5 DEF Spend, Counters
<1> QED
  BY <1>2, <1>3, <1>4, <1>5

\* A change and its event.
LEMMA ChangedType ==
    ASSUME Typed, NEW i \in Items, Changed(i)
    PROVE  /\ clock' \in 0..MaxWrites /\ server' \in [Items -> 0..MaxWrites]
           /\ wire' \in Seq(News)
<1>1. clock + 1 \in 0..MaxWrites
  BY Contents DEF Typed, Changed
<1>2. [item |-> i, rev |-> clock + 1] \in News
  BY <1>1 DEF News
<1> QED
  BY <1>1, <1>2 DEF Changed, Broadcast, Typed

\* The events that are left.
LEMMA TailType ==
    ASSUME Typed, wire # <<>>
    PROVE  Tail(wire) \in Seq(News) /\ Head(wire) \in News
BY DEF Typed

\* An event is handled.
LEMMA DeliverType ==
    ASSUME Typed, Deliver
    PROVE  /\ entry' \in EntryType /\ wire' \in Seq(News) /\ timer' \in BOOLEAN
           /\ healed' \in BOOLEAN /\ owed' \in BOOLEAN
<1>1. wire' \in Seq(News) /\ Head(wire) \in News
  BY TailType DEF Deliver
<1>2. CASE Head(wire).rev = 0
  <2>1. HasData(entry) => Written(entry, entry.data) \in EntryType
    BY WrittenOf DEF Typed, HasData, EntryType
  <2> QED
    BY <1>1, <1>2, <2>1 DEF Deliver, SetEntry, Typed
<1>3. CASE Head(wire).rev # 0
  <2>1. Head(wire).item \in Items /\ Head(wire).rev \in 0..Local
    BY <1>1, Contents DEF News
  <2>2. Reaction(entry, Head(wire).item, Head(wire).rev) \in EntryType
    BY <2>1, ReactionKeeps DEF Typed
  <2> QED
    BY <1>1, <1>3, <2>2 DEF Deliver, SetEntry, Typed
<1> QED
  BY <1>2, <1>3

\* A page shows the entry, or leaves it; requests are answered.
LEMMA FetchType ==
    ASSUME Typed, Mount \/ Unmount \/ Collect \/ ServerAnswers \/ FetchSucceeds \/ FetchFails
    PROVE  entry' \in EntryType /\ healed' \in BOOLEAN /\ owed' \in BOOLEAN
<1>0. entry \in EntryType /\ NoRequest \in Request
  BY DEF Typed, NoRequest, Request
<1>1. CASE Mount
  <2> DEFINE up == [entry EXCEPT !.mounted = TRUE]
  <2>1. up \in EntryType
    BY <1>0 DEF EntryType
  <2>2. Fetched(up) \in EntryType
    BY <2>1, FetchedOf
  <2>3. entry' \in {up, Fetched(up)}
    BY <1>1 DEF Mount, SetEntry
  <2> QED
    BY <1>1, <2>1, <2>2, <2>3 DEF Mount, SetEntry
<1>2. CASE Unmount
  BY <1>0, <1>2 DEF Unmount, SetEntry, EntryType
<1>3. CASE Collect
  BY <1>0, <1>3 DEF Collect, SetEntry, EntryType, FreshEntry
<1>4. CASE ServerAnswers
  <2>1. server \in Content
    BY Contents DEF Typed
  <2>2. [at |-> "answered", with |-> server] \in Request
    BY <2>1 DEF Request
  <2> QED
    BY <1>0, <1>4, <2>2 DEF ServerAnswers, Reads, EntryType, Typed
<1>5. CASE FetchSucceeds
  <2>1. entry.fetch.with \in Content
    BY <1>0, <1>5 DEF FetchSucceeds, EntryType, Request
  <2> QED
    BY <1>0, <1>5, <2>1 DEF FetchSucceeds, EntryType, Typed
<1>6. CASE FetchFails
  BY <1>0, <1>6 DEF FetchFails, EntryType, Typed
<1> QED
  BY <1>1, <1>2, <1>3, <1>4, <1>5, <1>6

\* A mutation is started, carried out or refused, and settled.
LEMMA MutateType ==
    ASSUME Typed, NEW m \in Mutations, NEW i \in Items, MutateOptimistically(m, i)
    PROVE  /\ entry' \in EntryType /\ mutation' \in [Mutations -> Slot]
           /\ healed' \in BOOLEAN /\ owed' \in BOOLEAN
<1> DEFINE e == Cancelled(entry)
<1>1. entry \in EntryType /\ mutation \in [Mutations -> Slot]
      /\ healed \in BOOLEAN /\ owed \in BOOLEAN
  BY DEF Typed
<1>2. e \in EntryType
  BY <1>1, CancelledOf
<1> HIDE DEF e
<1>3. Local \in 0..Local
  BY Contents
<1>4. Patched(e, i, Local) \in EntryType
  BY <1>2, <1>3, PatchedOf
<1>5. [state |-> "sent", item |-> i, prev |-> e.data] \in Slot
  BY <1>2 DEF Slot, EntryType
<1>6. /\ mutation' = [mutation EXCEPT ![m] = [state |-> "sent", item |-> i, prev |-> e.data]]
      /\ SetEntry(Patched(e, i, Local))
  BY DEF MutateOptimistically, e
<1> QED
  BY <1>1, <1>4, <1>5, <1>6 DEF SetEntry

\* The server answers a mutation.
LEMMA AnsweredType ==
    ASSUME Typed, NEW m \in Mutations, MutationApplied(m) \/ MutationRefused(m)
    PROVE  mutation' \in [Mutations -> Slot]
<1>1. mutation \in [Mutations -> Slot] /\ mutation[m] \in Slot
  BY DEF Typed
<1>2. PICK s \in {"done", "failed"} : mutation' = [mutation EXCEPT ![m].state = s]
  BY DEF MutationApplied, MutationRefused
<1>3. [mutation[m] EXCEPT !.state = s] \in Slot
  BY <1>1 DEF Slot
<1> QED
  BY <1>1, <1>2, <1>3

\* onError and onSettled: the rollback, if the request failed, and the mark.
LEMMA SettleType ==
    ASSUME Typed, NEW m \in Mutations, Settle(m)
    PROVE  /\ entry' \in EntryType /\ mutation' \in [Mutations -> Slot]
           /\ healed' \in BOOLEAN /\ owed' \in BOOLEAN
<1>1. /\ entry \in EntryType /\ mutation \in [Mutations -> Slot] /\ mutation[m] \in Slot
      /\ healed \in BOOLEAN /\ owed \in BOOLEAN
  BY DEF Typed
<1> DEFINE e == IF mutation[m].state = "failed"
                THEN RolledBack(entry, mutation[m].prev) ELSE entry
<1>2. e \in EntryType
  <2>1. mutation[m].prev # NoData => mutation[m].prev \in Content
    BY <1>1 DEF Slot
  <2>2. mutation[m].prev # NoData => Written(entry, mutation[m].prev) \in EntryType
    BY <1>1, <2>1, WrittenOf
  <2> QED
    BY <1>1, <2>2 DEF RolledBack
<1>3. SetEntry(Invalidated(e)) /\ mutation' = [mutation EXCEPT ![m] = Idle(mutation[m].item)]
  BY DEF Settle
<1> HIDE DEF e
<1>4. Invalidated(e) \in EntryType
  BY <1>2, InvalidatedOf
<1>5. Idle(mutation[m].item) \in Slot
  BY <1>1 DEF Idle, Slot
<1> QED
  BY <1>1, <1>3, <1>4, <1>5 DEF SetEntry

\* The connection: the callbacks of a reconnection mark the entry.
LEMMA AckType ==
    ASSUME Typed, AckArrives
    PROVE  /\ entry' \in EntryType /\ owed' \in BOOLEAN
           /\ entry'.data = entry.data /\ entry'.mounted = entry.mounted
           /\ entry' \in {entry, Invalidated(entry)}
<1>1. Invalidated(entry) \in EntryType /\ Invalidated(entry).data = entry.data
      /\ Invalidated(entry).mounted = entry.mounted
  BY InvalidatedOf DEF Typed
<1>2. entry' \in {entry, Invalidated(entry)}
  BY DEF AckArrives, Recovered
<1>3. owed' \in BOOLEAN
  BY DEF AckArrives, Typed
<1> QED
  BY <1>1, <1>2, <1>3 DEF Typed

\* Every step keeps the types.
LEMMA TypeStep ==
    ASSUME Typed, [Next]_vars
    PROVE  Typed'
<1>1. CASE UNCHANGED vars
  BY <1>1 DEF vars, Typed
<1>2. ASSUME NEW i \in Items, ServerChange(i)
      PROVE  Typed'
  <2>1. /\ clock' \in 0..MaxWrites /\ server' \in [Items -> 0..MaxWrites]
        /\ wire' \in Seq(News)
    BY <1>2, ChangedType DEF ServerChange
  <2> QED
    BY <1>2, <2>1 DEF ServerChange, Typed
<1>3. CASE ServerTouch
  <2>1. PICK i \in Items : Broadcast([item |-> i, rev |-> 0])
    BY <1>3 DEF ServerTouch
  <2>2. [item |-> i, rev |-> 0] \in News
    BY Contents DEF News
  <2>3. wire' \in Seq(News)
    BY <2>1, <2>2 DEF Broadcast, Typed
  <2>4. spent' \in Counters
    BY <1>3, SpendType DEF ServerTouch
  <2> QED
    BY <1>3, <2>3, <2>4 DEF ServerTouch, Typed
<1>4. CASE Connect \/ Authenticate \/ Register \/ EnterWorkspace
  BY <1>4 DEF Connect, Authenticate, Register, EnterWorkspace, Typed
<1>5. CASE AckArrives
  BY <1>5, AckType DEF AckArrives, Typed
<1>6. CASE Drop \/ LeaveWorkspace
  <2>1. spent' \in Counters
    BY <1>6, SpendType DEF Drop, LeaveWorkspace
  <2>2. entry' \in EntryType /\ wire' \in Seq(News)
    <3>1. entry \in EntryType /\ [entry EXCEPT !.mounted = FALSE] \in EntryType
      BY DEF Typed, EntryType
    <3>2. <<>> \in Seq(News)
      OBVIOUS
    <3> QED
      BY <1>6, <3>1, <3>2 DEF Drop, LeaveWorkspace
  <2> QED
    BY <1>6, <2>1, <2>2 DEF Drop, LeaveWorkspace, Typed
<1>7. CASE Deliver
  BY <1>7, DeliverType DEF Deliver, Typed
<1>8. CASE DebounceFires
  <2>1. Invalidated(entry) \in EntryType
    BY InvalidatedOf DEF Typed
  <2> QED
    BY <1>8, <2>1 DEF DebounceFires, SetEntry, Typed
<1>9. CASE Mount \/ Unmount \/ Collect \/ ServerAnswers \/ FetchSucceeds
  BY <1>9, FetchType DEF Mount, Unmount, Collect, ServerAnswers, FetchSucceeds, Typed
<1>10. CASE FetchFails
  BY <1>10, FetchType, SpendType DEF FetchFails, Typed
<1>11. ASSUME NEW m \in Mutations, NEW i \in Items, MutateOptimistically(m, i)
       PROVE  Typed'
  BY <1>11, MutateType, SpendType DEF MutateOptimistically, Typed
<1>12. ASSUME NEW m \in Mutations, MutationApplied(m) \/ MutationRefused(m)
       PROVE  Typed'
  <2>1. mutation' \in [Mutations -> Slot]
    BY <1>12, AnsweredType
  <2>2. CASE MutationApplied(m)
    <3>1. mutation[m].item \in Items
      BY DEF Typed, Slot
    <3>2. /\ clock' \in 0..MaxWrites /\ server' \in [Items -> 0..MaxWrites]
          /\ wire' \in Seq(News)
      BY <2>2, <3>1, ChangedType DEF MutationApplied
    <3> QED
      BY <2>1, <2>2, <3>2 DEF MutationApplied, Typed
  <2>3. CASE MutationRefused(m)
    BY <2>1, <2>3 DEF MutationRefused, Typed
  <2> QED
    BY <1>12, <2>2, <2>3
<1>13. ASSUME NEW m \in Mutations, Settle(m)
       PROVE  Typed'
  BY <1>13, SettleType DEF Settle, Typed
<1> QED
  BY <1>1, <1>2, <1>3, <1>4, <1>5, <1>6, <1>7, <1>8, <1>9, <1>10, <1>11, <1>12, <1>13
     DEF Next

\* The first state has its types.
LEMMA InitTyped ==
    ASSUME Init
    PROVE  Typed
<1>1. (CHOOSE i \in Items : TRUE) \in Items
  BY ItemsAssumption
<1>2. Idle(CHOOSE i \in Items : TRUE) \in Slot
  BY <1>1 DEF Idle, Slot
<1>3. mutation \in [Mutations -> Slot]
  BY <1>2 DEF Init
<1>4. FreshEntry \in EntryType
  BY DEF FreshEntry, EntryType, NoRequest, Request
<1>5. /\ MaxTouches \in Nat /\ MaxDrops \in Nat /\ MaxFailures \in Nat /\ MaxMutations \in Nat
      /\ MaxWrites \in Nat
  BY BoundsAssumption
<1>6. spent \in Counters
  BY <1>5 DEF Init, Counters
<1>7. server \in [Items -> 0..MaxWrites] /\ clock \in 0..MaxWrites
  BY <1>5 DEF Init, Empty
<1>8. entry \in EntryType /\ wire \in Seq(News) /\ kind \in Kinds
  BY <1>4 DEF Init
<1>9. /\ timer \in BOOLEAN /\ known \in BOOLEAN /\ healed \in BOOLEAN /\ owed \in BOOLEAN
      /\ link = "down" /\ hub = "none"
  BY DEF Init
<1> QED
  BY <1>3, <1>6, <1>7, <1>8, <1>9 DEF Typed

\* Every variable keeps its type, whatever the events, fetches and mutations do.
THEOREM TypesAlways == Spec => []TypeOK
<1>1. Typed => TypeOK
  BY DEF Typed, TypeOK, Slot, News, Counters
<1> QED
  BY <1>1, InitTyped, TypeStep, PTL DEF Spec

\* And so do the functions among them.
THEOREM TypedAlways == Spec => []Typed
BY InitTyped, TypeStep, PTL DEF Spec

-----------------------------------------------------------------------------
(* What a page waits for. *)

\* A page that has nothing to show waits for a request, or shows its error.
Awaited(e) == e.mounted /\ ~HasData(e) => Fetching(e) \/ e.failed

\* What an event or a mark does to an entry leaves nothing waiting for nobody.
LEMMA AwaitedKept ==
    ASSUME NEW e \in EntryType, Awaited(e)
    PROVE  /\ Awaited(Invalidated(e))
           /\ \A i \in Items, r \in 0..Local : Awaited(Reaction(e, i, r))
<1>1. Awaited(Invalidated(e))
  BY InvalidatedOf DEF Awaited
<1>2. ASSUME NEW i \in Items, NEW r \in 0..Local
      PROVE  Awaited(Reaction(e, i, r))
  <2>1. HasData(Reaction(e, i, r)) \/ Reaction(e, i, r) \in {e, Invalidated(e)}
    BY ReactionKeeps
  <2> QED
    BY <1>1, <2>1 DEF Awaited
<1> QED
  BY <1>1, <1>2

\* So does what fetches and pages do.
LEMMA FetchAwaits ==
    ASSUME Typed, Awaited(entry),
           \/ AckArrives \/ LeaveWorkspace \/ Deliver \/ DebounceFires \/ Mount \/ Unmount
           \/ Collect \/ ServerAnswers \/ FetchSucceeds \/ FetchFails
    PROVE  Awaited(entry')
<1>0. entry \in EntryType
  BY DEF Typed
<1>1. CASE AckArrives
  BY <1>0, <1>1, AckType, AwaitedKept
<1>2. CASE LeaveWorkspace \/ Unmount
  <2>1. ~entry'.mounted
    BY <1>0, <1>2 DEF LeaveWorkspace, Unmount, SetEntry, EntryType
  <2> QED
    BY <2>1 DEF Awaited
<1>3. CASE Deliver
  <2>1. CASE Head(wire).rev = 0
    <3>1. HasData(entry) => HasData(Written(entry, entry.data))
      BY <1>0, WrittenOf DEF HasData, EntryType
    <3>2. entry' = IF HasData(entry) THEN Written(entry, entry.data) ELSE entry
      BY <1>3, <2>1 DEF Deliver, SetEntry
    <3> QED
      BY <3>1, <3>2 DEF Awaited
  <2>2. CASE Head(wire).rev # 0
    <3>1. Head(wire).item \in Items /\ Head(wire).rev \in 0..Local
      BY <1>3, TailType, Contents DEF Deliver, News
    <3>2. entry' = Reaction(entry, Head(wire).item, Head(wire).rev)
      BY <1>3, <2>2 DEF Deliver, SetEntry
    <3> QED
      BY <1>0, <3>1, <3>2, AwaitedKept
  <2> QED
    BY <2>1, <2>2
<1>4. CASE DebounceFires
  BY <1>0, <1>4, AwaitedKept DEF DebounceFires, SetEntry
<1>5. CASE Mount
  <2> DEFINE up == [entry EXCEPT !.mounted = TRUE]
  <2>1. /\ up \in EntryType /\ up.data = entry.data /\ up.fetch = entry.fetch
    BY <1>0 DEF EntryType
  <2>2. \/ entry' = up /\ (Fetching(entry) \/ HasData(entry))
        \/ entry' = Fetched(up)
    BY <1>5 DEF Mount, SetEntry
  <2> HIDE DEF up
  <2>3. Fetching(Fetched(up)) /\ (Fetching(entry) <=> Fetching(up))
        /\ (HasData(entry) <=> HasData(up))
    BY <2>1, FetchedOf DEF Fetching, HasData
  <2> QED
    BY <2>2, <2>3 DEF Awaited
<1>6. CASE Collect
  BY <1>6 DEF Collect, SetEntry, FreshEntry, Awaited
<1>7. CASE ServerAnswers
  BY <1>0, <1>7 DEF ServerAnswers, EntryType, Awaited, Fetching
<1>8. CASE FetchSucceeds
  <2>1. entry.fetch.with \in Content
    BY <1>0, <1>8 DEF FetchSucceeds, EntryType, Request
  <2>2. entry'.data = entry.fetch.with
    BY <1>0, <1>8 DEF FetchSucceeds, EntryType
  <2> QED
    BY <2>1, <2>2, Contents DEF Awaited, HasData
<1>9. CASE FetchFails
  BY <1>0, <1>9 DEF FetchFails, EntryType, Awaited
<1> QED
  BY <1>1, <1>2, <1>3, <1>4, <1>5, <1>6, <1>7, <1>8, <1>9

\* A settled mutation marks the entry.
LEMMA SettleMarks ==
    ASSUME Typed, NEW m \in Mutations, Settle(m)
    PROVE  \E e \in EntryType :
              /\ entry' = Invalidated(e) /\ e.fetch = entry.fetch /\ e.mounted = entry.mounted
              /\ HasData(entry) => HasData(e)
              /\ mutation' = [mutation EXCEPT ![m] = Idle(mutation[m].item)]
<1>1. entry \in EntryType /\ mutation[m] \in Slot
  BY DEF Typed
<1> DEFINE e == IF mutation[m].state = "failed"
                THEN RolledBack(entry, mutation[m].prev) ELSE entry
<1>2. /\ e \in EntryType /\ e.fetch = entry.fetch /\ e.mounted = entry.mounted
      /\ HasData(entry) => HasData(e)
  <2>1. mutation[m].prev # NoData => mutation[m].prev \in Content
    BY <1>1 DEF Slot
  <2>2. mutation[m].prev # NoData =>
           LET w == Written(entry, mutation[m].prev)
           IN w \in EntryType /\ HasData(w) /\ w.mounted = entry.mounted /\ w.fetch = entry.fetch
    BY <1>1, <2>1, WrittenOf
  <2> QED
    BY <1>1, <2>2 DEF RolledBack
<1>3. entry' = Invalidated(e) /\ mutation' = [mutation EXCEPT ![m] = Idle(mutation[m].item)]
  BY DEF Settle, SetEntry
<1> QED
  BY <1>2, <1>3

\* A mutation that is under way, or has just been started, will settle.
LEMMA UnderWay ==
    ASSUME Typed, NEW m \in Mutations,
           \/ MutationApplied(m) \/ MutationRefused(m)
           \/ \E i \in Items : MutateOptimistically(m, i)
    PROVE  InFlight(m)'
<1>1. mutation \in [Mutations -> Slot] /\ mutation[m] \in Slot
  BY DEF Typed
<1>2. \/ \E s \in {"done", "failed"} : mutation' = [mutation EXCEPT ![m].state = s]
      \/ \E i \in Items : \E p : mutation' = [mutation EXCEPT ![m] =
                                              [state |-> "sent", item |-> i, prev |-> p]]
  BY DEF MutationApplied, MutationRefused, MutateOptimistically
<1>3. mutation'[m].state # "idle"
  <2>1. ASSUME NEW s \in {"done", "failed"}, mutation' = [mutation EXCEPT ![m].state = s]
        PROVE  mutation'[m].state # "idle"
    BY <1>1, <2>1 DEF Slot
  <2>2. ASSUME NEW i, NEW p, mutation' = [mutation EXCEPT ![m] =
                                            [state |-> "sent", item |-> i, prev |-> p]]
        PROVE  mutation'[m].state # "idle"
    BY <1>1, <2>2
  <2> QED
    BY <1>2, <2>1, <2>2
<1> QED
  BY <1>3 DEF InFlight

\* Every step keeps NoSpinner.
LEMMA SpinnerStep ==
    ASSUME Typed, NoSpinner, [Next]_vars
    PROVE  NoSpinner'
<1>1. CASE entry' = entry /\ mutation' = mutation
  BY <1>1 DEF NoSpinner, HasData, Fetching, InFlight
<1>2. CASE \/ AckArrives \/ LeaveWorkspace \/ Deliver \/ DebounceFires \/ Mount \/ Unmount
           \/ Collect \/ ServerAnswers \/ FetchSucceeds \/ FetchFails
  <2>1. mutation' = mutation
    BY <1>2 DEF AckArrives, LeaveWorkspace, Deliver, DebounceFires, Mount, Unmount,
                Collect, ServerAnswers, FetchSucceeds, FetchFails
  <2>2. CASE \E m \in Mutations : InFlight(m)
    BY <2>1, <2>2 DEF NoSpinner, InFlight
  <2>3. CASE Awaited(entry)
    <3>1. Awaited(entry')
      BY <1>2, <2>3, FetchAwaits
    <3> QED
      BY <3>1 DEF NoSpinner, Awaited, HasData, Fetching
  <2> QED
    BY <2>2, <2>3 DEF NoSpinner, Awaited
<1>3. ASSUME NEW m \in Mutations,
             \/ MutationApplied(m) \/ MutationRefused(m)
             \/ \E i \in Items : MutateOptimistically(m, i)
      PROVE  NoSpinner'
  BY <1>3, UnderWay DEF NoSpinner
<1>4. ASSUME NEW m \in Mutations, Settle(m)
      PROVE  NoSpinner'
  <2>1. PICK e \in EntryType : entry' = Invalidated(e)
    BY <1>4, SettleMarks
  <2>2. Awaited(entry')
    BY <2>1, InvalidatedOf DEF Awaited
  <2> QED
    BY <2>2 DEF NoSpinner, Awaited, HasData, Fetching
<1>5. CASE \/ ServerTouch \/ Connect \/ Authenticate \/ Register \/ Drop \/ EnterWorkspace
           \/ \E i \in Items : ServerChange(i)
  BY <1>1, <1>5 DEF ServerTouch, Connect, Authenticate, Register, Drop, EnterWorkspace,
                    ServerChange
<1> QED
  BY <1>1, <1>2, <1>3, <1>4, <1>5 DEF Next, vars

\* A page that shows a loading state has a request under way, a mutation that will
\* start one, or an error to show (mutations.ts, use-realtime-sync.ts).
THEOREM SpinnerAlways == Spec => []NoSpinner
<1>1. Init => NoSpinner
  BY DEF Init, FreshEntry, NoSpinner
<1>2. Typed /\ NoSpinner /\ [Next]_vars => NoSpinner'
  BY SpinnerStep
<1> QED
  BY <1>1, <1>2, TypedAlways, PTL DEF Spec

-----------------------------------------------------------------------------
(* Optimistic values. *)

Residue(e) == HasData(e) /\ \E i \in Items : e.data[i] = Local

\* What a page shows of a residue is about to be replaced.
Leaving(e) == Residue(e) => Fetching(e) \/ (e.invalid /\ ~e.mounted)

\* Only the kinds that are touched get events without news.
TouchesOnly == kind \notin TouchedKinds => \A k \in 1..Len(wire) : wire[k].rev # 0

\* An answer is what the server had.
AnswerOfServer ==
    entry.fetch.at = "answered" => entry.fetch.with \in [Items -> 0..MaxWrites]

\* A kind without optimistic mutations shows no optimistic value.
Plain == kind \notin OptimisticKinds =>
             ~Residue(entry) /\ \A m \in Mutations : ~InFlight(m)

\* An optimistic value that is left behind is fetched over, or marked until a page
\* shows the entry.
Replaced ==
    kind \notin TouchedKinds /\ (\A m \in Mutations : ~InFlight(m)) /\ spent.failures = 0
        => Leaving(entry)

ResidueInv == Typed /\ TouchesOnly /\ AnswerOfServer /\ Plain /\ Replaced

\* The revision an event carries is no optimistic one.
LEMMA ReactionPlain ==
    ASSUME NEW e \in EntryType, NEW i \in Items, NEW r \in 0..MaxWrites, ~Residue(e)
    PROVE  ~Residue(Reaction(e, i, r))
<1> DEFINE old == IF HasData(e) THEN e.data ELSE Empty
           d == [old EXCEPT ![i] = r]
<1>0. r \in 0..Local /\ r # Local /\ Local # 0
  BY Contents
<1>1. old \in Content /\ \A j \in Items : old[j] # Local
  BY <1>0, Contents DEF HasData, EntryType, Residue, Empty
<1>2. d \in Content /\ \A j \in Items : d[j] # Local
  <2> HIDE DEF old
  <2> QED
    BY <1>0, <1>1 DEF Content
<1>3. HasData(e) => Patched(e, i, r) = Written(e, d)
  BY DEF Patched
<1>4. Seeded(e, i, r) = Written(e, d)
  BY DEF Seeded
<1> HIDE DEF old, d
<1>5. Written(e, d) \in EntryType /\ Written(e, d).data = d
  BY <1>2, WrittenOf
<1>6. ~Residue(Written(e, d))
  BY <1>2, <1>5 DEF Residue
<1>7. ~Residue(Invalidated(Written(e, d))) /\ ~Residue(Invalidated(e))
  <2>1. Invalidated(Written(e, d)).data = Written(e, d).data
    BY <1>5, InvalidatedOf
  <2>2. Invalidated(e).data = e.data
    BY InvalidatedOf
  <2> QED
    BY <1>6, <2>1, <2>2 DEF Residue, HasData
<1>8. ~HasData(e) => Patched(e, i, r) = e
  BY DEF Patched
<1>9. Reaction(e, i, r) \in {e, Invalidated(e), Patched(e, i, r), Seeded(e, i, r),
                             Invalidated(Seeded(e, i, r))}
  BY <1>0, ReactionOf
<1> QED
  BY <1>3, <1>4, <1>6, <1>7, <1>8, <1>9

\* A mark lets nothing stay.
LEMMA InvalidatedLeaves ==
    ASSUME NEW e \in EntryType
    PROVE  Leaving(Invalidated(e))
BY InvalidatedOf DEF Leaving, EntryType

\* Nothing without news is sent of a kind that is not touched.
LEMMA TouchesStep ==
    ASSUME Typed, TouchesOnly, [Next]_vars
    PROVE  TouchesOnly'
<1>1. wire \in Seq(News) /\ clock \in Nat
  BY Contents DEF Typed
<1>2. CASE wire' = wire /\ kind' = kind
  BY <1>2 DEF TouchesOnly
<1>3. ASSUME NEW i, Changed(i), kind' = kind
      PROVE  TouchesOnly'
  <2>1. clock + 1 # 0
    BY <1>1
  <2> DEFINE new == [item |-> i, rev |-> clock + 1]
  <2>2. new.rev # 0
    BY <2>1
  <2>3. wire' \in {wire, Append(wire, new)}
    BY <1>3 DEF Changed, Broadcast
  <2> HIDE DEF new
  <2>4. ASSUME kind \notin TouchedKinds, NEW k \in 1..Len(Append(wire, new))
        PROVE  Append(wire, new)[k].rev # 0
    BY <1>1, <2>2, <2>4 DEF TouchesOnly
  <2> QED
    BY <1>3, <2>3, <2>4 DEF TouchesOnly
<1>4. CASE kind \in TouchedKinds /\ kind' = kind
  BY <1>4 DEF TouchesOnly
<1>5. CASE wire' = <<>>
  BY <1>5 DEF TouchesOnly
<1>6. CASE Deliver
  <2>1. wire # <<>> /\ wire' = Tail(wire) /\ kind' = kind
    BY <1>6 DEF Deliver
  <2>2. \A k \in 1..Len(Tail(wire)) : k + 1 \in 1..Len(wire) /\ Tail(wire)[k] = wire[k + 1]
    BY <1>1, <2>1
  <2> QED
    BY <2>1, <2>2 DEF TouchesOnly
<1>7. CASE ServerTouch
  BY <1>4, <1>7 DEF ServerTouch
<1>8. CASE Drop \/ LeaveWorkspace
  BY <1>5, <1>8 DEF Drop, LeaveWorkspace
<1>9. CASE \E i \in Items : ServerChange(i)
  BY <1>3, <1>9 DEF ServerChange
<1>10. CASE \E m \in Mutations : MutationApplied(m)
  BY <1>3, <1>10 DEF MutationApplied
<1>11. CASE \/ Connect \/ Authenticate \/ Register \/ AckArrives \/ EnterWorkspace
            \/ DebounceFires \/ Mount \/ Unmount \/ Collect
            \/ ServerAnswers \/ FetchSucceeds \/ FetchFails
  BY <1>2, <1>11 DEF Connect, Authenticate, Register, AckArrives, EnterWorkspace,
       DebounceFires, Mount, Unmount, Collect, ServerAnswers, FetchSucceeds, FetchFails
<1>12. CASE \E m \in Mutations : \/ MutationRefused(m) \/ Settle(m)
                                 \/ \E i \in Items : MutateOptimistically(m, i)
  BY <1>2, <1>12 DEF MutationRefused, Settle, MutateOptimistically
<1> QED
  BY <1>2, <1>6, <1>7, <1>8, <1>9, <1>10, <1>11, <1>12 DEF Next, vars

\* Only the server's answer puts one into the entry's request.
LEMMA FetchFields ==
    ASSUME Typed, [Next]_vars, ~ServerAnswers
    PROVE  entry'.fetch \in {entry.fetch, [at |-> "sent"], NoRequest}
<1>0. entry \in EntryType
  BY DEF Typed
<1>1. CASE entry' = entry
  BY <1>1
<1>2. CASE entry' = Invalidated(entry)
  BY <1>0, <1>2, InvalidatedOf
<1>3. CASE LeaveWorkspace \/ Unmount \/ Collect \/ FetchSucceeds \/ FetchFails
  <2>1. CASE LeaveWorkspace \/ Unmount
    BY <1>0, <2>1 DEF LeaveWorkspace, Unmount, SetEntry, EntryType
  <2>2. CASE Collect
    BY <2>2 DEF Collect, SetEntry, FreshEntry
  <2>3. CASE FetchSucceeds
    BY <1>0, <2>3 DEF FetchSucceeds, EntryType
  <2>4. CASE FetchFails
    BY <1>0, <2>4 DEF FetchFails, EntryType
  <2> QED
    BY <1>3, <2>1, <2>2, <2>3, <2>4
<1>4. CASE Deliver
  <2>1. CASE Head(wire).rev = 0
    <3>1. HasData(entry) => Written(entry, entry.data).fetch = entry.fetch
      BY <1>0, WrittenOf DEF HasData, EntryType
    <3> QED
      BY <1>4, <2>1, <3>1 DEF Deliver, SetEntry
  <2>2. CASE Head(wire).rev # 0
    <3>1. Head(wire).item \in Items /\ Head(wire).rev \in 0..Local
      BY <1>4, TailType, Contents DEF Deliver, News
    <3>2. entry' = Reaction(entry, Head(wire).item, Head(wire).rev)
      BY <1>4, <2>2 DEF Deliver, SetEntry
    <3> QED
      BY <1>0, <3>1, <3>2, ReactionKeeps
  <2> QED
    BY <2>1, <2>2
<1>5. CASE Mount
  <2> DEFINE up == [entry EXCEPT !.mounted = TRUE]
  <2>1. up \in EntryType /\ up.fetch = entry.fetch
    BY <1>0 DEF EntryType
  <2>2. entry' \in {up, Fetched(up)}
    BY <1>5 DEF Mount, SetEntry
  <2> HIDE DEF up
  <2> QED
    BY <2>1, <2>2, FetchedOf
<1>6. ASSUME NEW m \in Mutations, NEW i \in Items, MutateOptimistically(m, i)
      PROVE  entry'.fetch \in {entry.fetch, NoRequest}
  <2>1. entry' = Patched(Cancelled(entry), i, Local)
    BY <1>6 DEF MutateOptimistically, SetEntry
  <2>2. Cancelled(entry) \in EntryType /\ Cancelled(entry).fetch \in {entry.fetch, NoRequest}
    BY <1>0, CancelledOf
  <2>3. Local \in 0..Local
    BY Contents
  <2> QED
    BY <2>1, <2>2, <2>3, PatchedOf
<1>7. ASSUME NEW m \in Mutations, Settle(m)
      PROVE  entry'.fetch \in {entry.fetch, [at |-> "sent"]}
  BY <1>7, SettleMarks, InvalidatedOf
<1>8. CASE AckArrives \/ DebounceFires
  BY <1>1, <1>2, <1>8, AckType DEF DebounceFires, SetEntry
<1>9. CASE \/ ServerTouch \/ Connect \/ Authenticate \/ Register \/ Drop \/ EnterWorkspace
           \/ \E i \in Items : ServerChange(i)
           \/ \E m \in Mutations : MutationApplied(m) \/ MutationRefused(m)
  BY <1>1, <1>9 DEF ServerTouch, Connect, Authenticate, Register, Drop, EnterWorkspace,
                    ServerChange, MutationApplied, MutationRefused
<1> QED
  BY <1>1, <1>3, <1>4, <1>5, <1>6, <1>7, <1>8, <1>9 DEF Next, vars

\* An answer stays what the server had.
LEMMA AnswerStep ==
    ASSUME Typed, AnswerOfServer, [Next]_vars
    PROVE  AnswerOfServer'
<1>1. CASE ServerAnswers
  BY <1>1 DEF ServerAnswers, AnswerOfServer, Typed, EntryType
<1>2. CASE ~ServerAnswers
  <2>1. entry'.fetch \in {entry.fetch, [at |-> "sent"], NoRequest}
    BY <1>2, FetchFields
  <2> QED
    BY <2>1 DEF AnswerOfServer, NoRequest
<1> QED
  BY <1>1, <1>2

\* An answer that lands shows what the server had.
LEMMA LandsPlain ==
    ASSUME Typed, AnswerOfServer, FetchSucceeds
    PROVE  ~Residue(entry')
<1>1. entry'.data = entry.fetch.with /\ entry.fetch.with \in [Items -> 0..MaxWrites]
  BY DEF Typed, EntryType, AnswerOfServer, FetchSucceeds
<1>2. Local \notin 0..MaxWrites
  BY Contents
<1> QED
  BY <1>1, <1>2 DEF Residue

\* What changes the data of an entry.
LEMMA DataFields ==
    ASSUME Typed,
           \/ AckArrives \/ LeaveWorkspace \/ DebounceFires \/ Mount \/ Unmount
           \/ ServerAnswers \/ FetchFails
    PROVE  entry'.data = entry.data
<1>0. entry \in EntryType
  BY DEF Typed
<1>1. CASE AckArrives
  BY <1>1, AckType
<1>2. CASE LeaveWorkspace \/ Unmount \/ ServerAnswers \/ FetchFails
  BY <1>0, <1>2 DEF LeaveWorkspace, Unmount, ServerAnswers, FetchFails, SetEntry, EntryType
<1>3. CASE DebounceFires
  BY <1>0, <1>3, InvalidatedOf DEF DebounceFires, SetEntry
<1>4. CASE Mount
  <2> DEFINE up == [entry EXCEPT !.mounted = TRUE]
  <2>1. up \in EntryType /\ up.data = entry.data
    BY <1>0 DEF EntryType
  <2>2. entry' \in {up, Fetched(up)}
    BY <1>4 DEF Mount, SetEntry
  <2> HIDE DEF up
  <2> QED
    BY <2>1, <2>2, FetchedOf
<1> QED
  BY <1>1, <1>2, <1>3, <1>4

\* An event that is handled, of a kind that is not touched.
LEMMA DeliverReacts ==
    ASSUME Typed, TouchesOnly, Deliver, kind \notin TouchedKinds
    PROVE  \E i \in Items, r \in 0..MaxWrites : entry' = Reaction(entry, i, r)
<1>1. wire \in Seq(News) /\ wire # <<>>
  BY DEF Typed, Deliver
<1>2. Head(wire) = wire[1] /\ 1 \in 1..Len(wire) /\ Head(wire) \in News
  BY <1>1
<1>3. Head(wire).rev # 0
  BY <1>2 DEF TouchesOnly
<1>4. entry' = Reaction(entry, Head(wire).item, Head(wire).rev)
  BY <1>3 DEF Deliver, SetEntry
<1> QED
  BY <1>2, <1>4 DEF News

\* A kind without optimistic mutations stays plain.
LEMMA PlainStep ==
    ASSUME ResidueInv, [Next]_vars
    PROVE  Plain'
<1> SUFFICES ASSUME kind \notin OptimisticKinds
             PROVE  kind' = kind /\ ~Residue(entry') /\ \A m \in Mutations : ~InFlight(m)'
  BY KindKept DEF Plain, Residue, HasData, InFlight
<1>0. Typed /\ ~Residue(entry) /\ (\A m \in Mutations : ~InFlight(m)) /\ entry \in EntryType
  BY DEF ResidueInv, Plain, Typed
<1>1. CASE entry' = entry /\ mutation' = mutation /\ kind' = kind
  BY <1>0, <1>1 DEF InFlight
<1>2. CASE \/ AckArrives \/ LeaveWorkspace \/ DebounceFires \/ Mount \/ Unmount
           \/ ServerAnswers \/ FetchFails
  <2>1. entry'.data = entry.data
    BY <1>0, <1>2, DataFields
  <2>2. mutation' = mutation /\ kind' = kind
    BY <1>2 DEF AckArrives, LeaveWorkspace, DebounceFires, Mount, Unmount, ServerAnswers,
                FetchFails
  <2> QED
    BY <1>0, <2>1, <2>2 DEF Residue, HasData, InFlight
<1>3. CASE FetchSucceeds
  <2>1. ~Residue(entry')
    BY <1>0, <1>3, LandsPlain DEF ResidueInv
  <2> QED
    BY <1>0, <1>3, <2>1 DEF FetchSucceeds, InFlight
<1>4. CASE Collect
  BY <1>0, <1>4 DEF Collect, SetEntry, FreshEntry, Residue, HasData, InFlight
<1>5. CASE Deliver
  <2>1. kind \notin TouchedKinds
    BY DEF TouchedKinds, OptimisticKinds
  <2>2. PICK i \in Items, r \in 0..MaxWrites : entry' = Reaction(entry, i, r)
    BY <1>5, <2>1, DeliverReacts DEF ResidueInv
  <2>3. ~Residue(entry')
    BY <1>0, <2>2, ReactionPlain
  <2> QED
    BY <1>0, <1>5, <2>3 DEF Deliver, InFlight
<1>6. ASSUME NEW m \in Mutations,
             \/ MutationApplied(m) \/ MutationRefused(m) \/ Settle(m)
             \/ \E i \in Items : MutateOptimistically(m, i)
      PROVE  FALSE
  BY <1>0, <1>6 DEF MutationApplied, MutationRefused, Settle, MutateOptimistically, InFlight
<1>7. CASE \/ ServerTouch \/ Connect \/ Authenticate \/ Register \/ Drop \/ EnterWorkspace
           \/ \E i \in Items : ServerChange(i)
  BY <1>1, <1>7 DEF ServerTouch, Connect, Authenticate, Register, Drop, EnterWorkspace,
                    ServerChange
<1> QED
  BY <1>1, <1>2, <1>3, <1>4, <1>5, <1>6, <1>7 DEF Next, vars

\* What fetches and pages do to an entry that is about to be replaced.
LEMMA FetchLeaves ==
    ASSUME ResidueInv, Leaving(entry),
           \/ AckArrives \/ LeaveWorkspace \/ DebounceFires \/ Mount \/ Unmount
           \/ Collect \/ ServerAnswers \/ FetchSucceeds
    PROVE  Leaving(entry')
<1>0. entry \in EntryType /\ Typed
  BY DEF ResidueInv, Typed
<1>1. CASE AckArrives \/ DebounceFires
  BY <1>0, <1>1, AckType, InvalidatedLeaves DEF DebounceFires, SetEntry
<1>2. CASE LeaveWorkspace \/ Unmount
  <2>1. entry' = [entry EXCEPT !.mounted = FALSE]
    BY <1>2 DEF LeaveWorkspace, Unmount, SetEntry
  <2>2. /\ entry'.data = entry.data /\ entry'.fetch = entry.fetch
        /\ entry'.invalid = entry.invalid /\ ~entry'.mounted
    BY <1>0, <2>1 DEF EntryType
  <2> QED
    BY <2>2 DEF Leaving, Residue, HasData, Fetching
<1>3. CASE Mount
  <2> DEFINE up == [entry EXCEPT !.mounted = TRUE]
  <2>1. up \in EntryType /\ up.data = entry.data /\ up.fetch = entry.fetch
    BY <1>0 DEF EntryType
  <2>2. \/ entry' = up /\ (Fetching(entry) \/ (HasData(entry) /\ ~entry.invalid))
        \/ entry' = Fetched(up)
    BY <1>3 DEF Mount, SetEntry
  <2> HIDE DEF up
  <2>3. Fetching(Fetched(up)) /\ (Fetching(entry) <=> Fetching(up))
        /\ (Residue(up) <=> Residue(entry))
    BY <2>1, FetchedOf DEF Fetching, HasData, Residue
  <2> QED
    BY <2>2, <2>3 DEF Leaving
<1>4. CASE Collect
  BY <1>4 DEF Collect, SetEntry, FreshEntry, Leaving, Residue, HasData
<1>5. CASE ServerAnswers
  BY <1>0, <1>5 DEF ServerAnswers, EntryType, Leaving, Fetching
<1>6. CASE FetchSucceeds
  BY <1>0, <1>6, LandsPlain DEF ResidueInv, Leaving
<1> QED
  BY <1>1, <1>2, <1>3, <1>4, <1>5, <1>6

\* Every step keeps Replaced.
LEMMA ReplacedStep ==
    ASSUME ResidueInv, [Next]_vars
    PROVE  Replaced'
<1>0. /\ Typed /\ TouchesOnly /\ Plain /\ Replaced /\ entry \in EntryType
      /\ spent \in Counters
  BY DEF ResidueInv, Typed
<1>1. CASE /\ entry' = entry /\ mutation' = mutation /\ kind' = kind
           /\ spent'.failures = spent.failures
  BY <1>0, <1>1 DEF Replaced, Leaving, Residue, HasData, Fetching, InFlight
<1>2. CASE \/ AckArrives \/ LeaveWorkspace \/ DebounceFires \/ Mount \/ Unmount
           \/ Collect \/ ServerAnswers \/ FetchSucceeds
  <2>1. mutation' = mutation /\ kind' = kind /\ spent'.failures = spent.failures
    <3>1. mutation' = mutation /\ kind' = kind
      BY <1>2 DEF AckArrives, LeaveWorkspace, DebounceFires, Mount, Unmount, Collect,
                  ServerAnswers, FetchSucceeds
    <3>2. spent' \in {spent, [spent EXCEPT !["drops"] = spent["drops"] + 1]}
      BY <1>2 DEF AckArrives, LeaveWorkspace, DebounceFires, Mount, Unmount, Collect,
                  ServerAnswers, FetchSucceeds, Spend
    <3> QED
      BY <1>0, <3>1, <3>2 DEF Counters
  <2>2. Leaving(entry) => Leaving(entry')
    BY <1>2, FetchLeaves
  <2> QED
    BY <1>0, <2>1, <2>2 DEF Replaced, Leaving, Residue, HasData, Fetching, InFlight
<1>3. CASE FetchFails
  <2>1. spent' = [spent EXCEPT !["failures"] = spent["failures"] + 1]
    BY <1>3 DEF FetchFails, Spend
  <2>2. spent'.failures # 0
    BY <1>0, <2>1 DEF Counters
  <2> QED
    BY <2>2 DEF Replaced
<1>4. CASE Deliver
  <2>1. mutation' = mutation /\ kind' = kind /\ spent' = spent
    BY <1>4 DEF Deliver
  <2>2. ASSUME kind \notin TouchedKinds, Leaving(entry)
        PROVE  Leaving(entry')
    <3>1. PICK i \in Items, r \in 0..MaxWrites : entry' = Reaction(entry, i, r)
      BY <1>0, <1>4, <2>2, DeliverReacts
    <3>2. CASE kind \in OptimisticKinds
      <4>1. kind \in DebouncedKinds \cup MarkedKinds
        BY <2>2, <3>2, KindsApart
      <4>2. r \in 0..Local
        BY Contents
      <4>3. entry' \in {entry, Invalidated(entry)}
        BY <1>0, <3>1, <4>1, <4>2, ReactionOf
      <4> QED
        BY <1>0, <2>2, <4>3, InvalidatedLeaves
    <3>3. CASE kind \notin OptimisticKinds
      BY <1>0, <3>1, <3>3, ReactionPlain DEF Plain, Leaving
    <3> QED
      BY <3>2, <3>3
  <2> QED
    BY <1>0, <2>1, <2>2 DEF Replaced, Leaving, Residue, HasData, Fetching, InFlight
<1>5. ASSUME NEW m \in Mutations,
             \/ MutationApplied(m) \/ MutationRefused(m)
             \/ \E i \in Items : MutateOptimistically(m, i)
      PROVE  Replaced'
  BY <1>0, <1>5, UnderWay DEF Replaced
<1>6. ASSUME NEW m \in Mutations, Settle(m)
      PROVE  Replaced'
  <2>1. PICK e \in EntryType : entry' = Invalidated(e)
    BY <1>0, <1>6, SettleMarks
  <2>2. Leaving(entry')
    BY <2>1, InvalidatedLeaves
  <2> QED
    BY <2>2 DEF Replaced, Leaving, Residue, HasData, Fetching
<1>7. CASE \/ ServerTouch \/ Drop
  <2>1. spent' \in {[spent EXCEPT !["drops"] = spent["drops"] + 1],
                    [spent EXCEPT !["touches"] = spent["touches"] + 1]}
    BY <1>7 DEF ServerTouch, Drop, Spend
  <2>2. spent'.failures = spent.failures
    BY <1>0, <2>1 DEF Counters
  <2> QED
    BY <1>1, <1>7, <2>2 DEF ServerTouch, Drop
<1>8. CASE \/ Connect \/ Authenticate \/ Register \/ EnterWorkspace
           \/ \E i \in Items : ServerChange(i)
  BY <1>1, <1>8 DEF Connect, Authenticate, Register, EnterWorkspace, ServerChange
<1> QED
  BY <1>1, <1>2, <1>3, <1>4, <1>5, <1>6, <1>7, <1>8 DEF Next, vars

\* An optimistic value never outlives its mutations on a page: while it is shown, the
\* fetch that replaces it is under way (packages/core/*/mutations.ts).
THEOREM ResidueAlways == Spec => []NoOptimisticResidue
<1>1. Init => ResidueInv
  <2>1. Init => TouchesOnly /\ AnswerOfServer /\ Plain /\ Replaced
    BY DEF Init, FreshEntry, NoRequest, Idle, TouchesOnly, AnswerOfServer, Plain, Replaced,
           Leaving, Residue, HasData, InFlight
  <2> QED
    BY <2>1, InitTyped DEF ResidueInv
<1>2. ResidueInv /\ [Next]_vars => ResidueInv'
  BY TypeStep, TouchesStep, AnswerStep, PlainStep, ReplacedStep DEF ResidueInv
<1>3. ResidueInv => NoOptimisticResidue
  BY DEF ResidueInv, Replaced, Leaving, Residue, NoOptimisticResidue
<1> QED
  BY <1>1, <1>2, <1>3, PTL DEF Spec

-----------------------------------------------------------------------------
(* What a page that was refetched shows. *)

\* The ghost speaks of a page that shows data on a registered connection.
Healthy == healed => entry.mounted /\ HasData(entry) /\ hub = "registered"

\* What the server has and the page does not show is on its way to it.
OnItsWay ==
    \/ \E k \in 1..Len(wire) : wire[k].rev # 0
    \/ timer
    \/ entry.fetch = [at |-> "sent"]
    \/ entry.fetch.at = "answered" /\ entry.fetch.with = server
    \/ \E m \in Mutations : InFlight(m)
    \/ ~Fetching(entry) /\ Current

FreshInv == Typed /\ Healthy /\ (kind \in SignalledKinds /\ healed => OnItsWay)

\* An event that is handled leaves the page its data.
LEMMA DeliverShows ==
    ASSUME Typed, Deliver
    PROVE  /\ entry'.mounted = entry.mounted
           /\ HasData(entry) => HasData(entry')
           /\ healed' => healed
<1>0. entry \in EntryType
  BY DEF Typed
<1>1. CASE Head(wire).rev = 0
  <2>1. HasData(entry) => /\ HasData(Written(entry, entry.data))
                          /\ Written(entry, entry.data).mounted = entry.mounted
    BY <1>0, WrittenOf DEF HasData, EntryType
  <2> QED
    BY <1>1, <2>1 DEF Deliver, SetEntry
<1>2. CASE Head(wire).rev # 0
  <2>1. Head(wire).item \in Items /\ Head(wire).rev \in 0..Local
    BY TailType, Contents DEF Deliver, News
  <2>2. entry' = Reaction(entry, Head(wire).item, Head(wire).rev) /\ (healed' => healed)
    BY <1>2 DEF Deliver, SetEntry
  <2> QED
    BY <1>0, <2>1, <2>2, ReactionKeeps
<1> QED
  BY <1>1, <1>2

\* Every step keeps the page the ghost speaks of.
LEMMA HealthyStep ==
    ASSUME Typed, Healthy, [Next]_vars
    PROVE  Healthy'
<1>0. entry \in EntryType
  BY DEF Typed
<1>1. CASE /\ entry'.mounted = entry.mounted /\ (HasData(entry) => HasData(entry'))
           /\ hub' = hub /\ (healed' => healed)
  BY <1>1 DEF Healthy, HasData
<1>2. CASE ~healed'
  BY <1>2 DEF Healthy
<1>3. CASE \/ ServerTouch \/ Connect \/ EnterWorkspace
           \/ \E i \in Items : ServerChange(i)
           \/ \E m \in Mutations : MutationApplied(m) \/ MutationRefused(m)
  BY <1>1, <1>3 DEF ServerTouch, Connect, EnterWorkspace, ServerChange, MutationApplied,
                    MutationRefused
<1>4. CASE Authenticate \/ Register \/ Drop \/ LeaveWorkspace \/ FetchFails
  BY <1>2, <1>4 DEF Authenticate, Register, Drop, LeaveWorkspace, FetchFails, Healthy
<1>5. CASE AckArrives
  <2>1. entry'.data = entry.data /\ entry'.mounted = entry.mounted
    BY <1>5, AckType
  <2> QED
    BY <1>1, <1>5, <2>1 DEF AckArrives, HasData
<1>6. CASE Deliver
  BY <1>1, <1>6, DeliverShows DEF Deliver
<1>7. CASE DebounceFires
  <2>1. entry' = Invalidated(entry) /\ (healed' => healed) /\ hub' = hub
    BY <1>7 DEF DebounceFires, SetEntry
  <2> QED
    BY <1>0, <1>1, <2>1, InvalidatedOf DEF HasData
<1>8. CASE Mount \/ Unmount \/ Collect
  BY <1>0, <1>2, <1>8 DEF Mount, Unmount, Collect, SetEntry, Healthy, EntryType
<1>9. CASE ServerAnswers
  <2>1. entry'.mounted = entry.mounted /\ entry'.data = entry.data
    BY <1>0, <1>9 DEF ServerAnswers, EntryType
  <2> QED
    BY <1>9, <2>1 DEF ServerAnswers, Reads, Healthy, HasData
<1>10. CASE FetchSucceeds
  <2>1. entry.fetch.with \in Content
    BY <1>0, <1>10 DEF FetchSucceeds, EntryType, Request
  <2>2. entry'.data = entry.fetch.with /\ entry'.mounted = entry.mounted
    BY <1>0, <1>10 DEF FetchSucceeds, EntryType
  <2> QED
    BY <1>1, <1>10, <2>1, <2>2, Contents DEF FetchSucceeds, HasData
<1>11. ASSUME NEW m \in Mutations, NEW i \in Items, MutateOptimistically(m, i)
       PROVE  Healthy'
  <2>1. entry' = Patched(Cancelled(entry), i, Local) /\ (healed' => healed) /\ hub' = hub
    BY <1>11 DEF MutateOptimistically, SetEntry
  <2>2. /\ Cancelled(entry) \in EntryType /\ Cancelled(entry).data = entry.data
        /\ Cancelled(entry).mounted = entry.mounted
    BY <1>0, CancelledOf
  <2>3. Local \in 0..Local
    BY Contents
  <2>4. entry'.mounted = entry.mounted /\ (HasData(entry) => HasData(entry'))
    <3> DEFINE c == Cancelled(entry)
    <3>1. HasData(c) <=> HasData(entry)
      BY <2>2 DEF HasData
    <3> HIDE DEF c
    <3>2. Patched(c, i, Local).mounted = c.mounted
          /\ (HasData(Patched(c, i, Local)) <=> HasData(c))
      BY <2>2, <2>3, PatchedOf DEF c
    <3> QED
      BY <2>1, <2>2, <3>1, <3>2 DEF c
  <2> QED
    BY <1>1, <2>1, <2>4
<1>12. ASSUME NEW m \in Mutations, Settle(m)
       PROVE  Healthy'
  <2>1. PICK e \in EntryType : /\ entry' = Invalidated(e) /\ e.mounted = entry.mounted
                               /\ HasData(entry) => HasData(e)
    BY <1>12, SettleMarks
  <2>2. Invalidated(e).mounted = e.mounted /\ Invalidated(e).data = e.data
    BY <2>1, InvalidatedOf
  <2>3. hub' = hub /\ (healed' => healed)
    BY <1>12 DEF Settle, SetEntry
  <2> QED
    BY <1>1, <2>1, <2>2, <2>3 DEF HasData
<1> QED
  BY <1>1, <1>3, <1>4, <1>5, <1>6, <1>7, <1>8, <1>9, <1>10, <1>11, <1>12 DEF Next, vars

\* An event with news of a kind its events mark: the timer runs, or the page fetches.
LEMMA DeliverOnItsWay ==
    ASSUME FreshInv, Deliver, kind \in SignalledKinds, healed
    PROVE  OnItsWay'
<1>0. /\ Typed /\ Healthy /\ OnItsWay /\ entry \in EntryType
      /\ entry.mounted /\ HasData(entry)
  BY DEF FreshInv, Healthy, Typed
<1>1. /\ wire \in Seq(News) /\ wire # <<>> /\ wire' = Tail(wire) /\ Head(wire) \in News
      /\ server' = server /\ mutation' = mutation
  BY <1>0, TailType DEF Typed, Deliver
<1>2. CASE Head(wire).rev = 0
  <2> DEFINE w == Written(entry, entry.data)
  <2>1. entry' = w /\ timer' = timer
    BY <1>0, <1>2 DEF Deliver, SetEntry
  <2>2. w.data = entry.data /\ w.fetch = entry.fetch
    BY <1>0, WrittenOf DEF HasData, EntryType
  <2> HIDE DEF w
  <2>3. ASSUME NEW k \in 1..Len(wire), wire[k].rev # 0
        PROVE  OnItsWay'
    <3>1. k # 1
      BY <1>1, <1>2, <2>3
    <3>2. k - 1 \in 1..Len(Tail(wire)) /\ Tail(wire)[k - 1] = wire[k]
      BY <1>1, <3>1
    <3> QED
      BY <1>1, <2>3, <3>2 DEF OnItsWay
  <2> QED
    BY <1>0, <1>1, <2>1, <2>2, <2>3 DEF OnItsWay, Fetching, Current, InFlight
<1>3. CASE Head(wire).rev # 0
  <2> DEFINE i == Head(wire).item
             r == Head(wire).rev
  <2>1. i \in Items /\ r \in 0..Local
    BY <1>1, Contents DEF News
  <2>2. /\ entry' = Reaction(entry, i, r)
        /\ timer' = (timer \/ kind \in DebouncedKinds)
    BY <1>3 DEF Deliver, SetEntry
  <2> HIDE DEF i, r
  <2>3. CASE kind \in DebouncedKinds
    BY <2>2, <2>3 DEF OnItsWay
  <2>4. CASE kind \in MarkedKinds
    <3>1. entry' = Invalidated(entry)
      BY <1>0, <2>1, <2>2, <2>4, ReactionOf
    <3> QED
      BY <1>0, <3>1, InvalidatedOf DEF OnItsWay
  <2>5. CASE kind \in SeededMarkedKinds
    <3> DEFINE s == Seeded(entry, i, r)
    <3>1. s \in EntryType /\ HasData(s) /\ s.mounted = entry.mounted
      BY <1>0, <2>1, SeededOf
    <3>2. entry' = Invalidated(s)
      BY <1>0, <2>1, <2>2, <2>5, ReactionOf
    <3> HIDE DEF s
    <3>3. entry'.fetch = [at |-> "sent"]
      BY <1>0, <3>1, <3>2, InvalidatedOf
    <3> QED
      BY <3>3 DEF OnItsWay
  <2> QED
    BY <2>3, <2>4, <2>5 DEF SignalledKinds
<1> QED
  BY <1>2, <1>3

\* A change on the server is on its way to a registered client.
LEMMA ChangedOnItsWay ==
    ASSUME Typed, hub = "registered", NEW i \in Items, Changed(i)
    PROVE  \E k \in 1..Len(wire') : wire'[k].rev # 0
<1>1. wire \in Seq(News) /\ clock \in Nat
  BY Contents DEF Typed
<1> DEFINE new == [item |-> i, rev |-> clock + 1]
<1>2. new.rev # 0 /\ wire' = Append(wire, new)
  BY <1>1 DEF Changed, Broadcast
<1> HIDE DEF new
<1>3. /\ Len(Append(wire, new)) = Len(wire) + 1 /\ Len(wire) \in Nat
      /\ Append(wire, new)[Len(wire) + 1] = new
  BY <1>1
<1>4. Len(wire) + 1 \in 1..Len(wire')
  BY <1>2, <1>3
<1> QED
  BY <1>2, <1>3, <1>4

\* Every step leaves what is not shown on its way.
LEMMA FreshStep ==
    ASSUME FreshInv, [Next]_vars, kind' \in SignalledKinds, healed'
    PROVE  OnItsWay'
<1>0. Typed /\ Healthy /\ entry \in EntryType
  BY DEF FreshInv, Typed
<1>15. kind \in SignalledKinds
  BY KindKept
<1>16. healed => OnItsWay /\ entry.mounted /\ HasData(entry) /\ hub = "registered"
  BY <1>15 DEF FreshInv, Healthy
<1>1. CASE /\ healed /\ entry' = entry /\ timer' = timer /\ wire' = wire
           /\ mutation' = mutation /\ server' = server
  BY <1>16, <1>1 DEF OnItsWay, Fetching, Current, InFlight
<1>2. ASSUME NEW i \in Items, ServerChange(i)
      PROVE  OnItsWay'
  BY <1>0, <1>16, <1>2, ChangedOnItsWay DEF ServerChange, OnItsWay
<1>3. CASE ServerTouch
  <2>1. healed /\ entry' = entry /\ timer' = timer /\ mutation' = mutation /\ server' = server
    BY <1>3 DEF ServerTouch
  <2>2. PICK i \in Items : Broadcast([item |-> i, rev |-> 0])
    BY <1>3 DEF ServerTouch
  <2> DEFINE new == [item |-> i, rev |-> 0]
  <2>3. wire \in Seq(News) /\ wire' \in {wire, Append(wire, new)}
    BY <1>0, <2>2 DEF Broadcast, Typed
  <2> HIDE DEF new
  <2>4. ASSUME NEW k \in 1..Len(wire), wire[k].rev # 0
        PROVE  OnItsWay'
    <3>1. k \in 1..Len(wire') /\ wire'[k] = wire[k]
      BY <2>3
    <3> QED
      BY <2>4, <3>1 DEF OnItsWay
  <2> QED
    BY <1>16, <2>1, <2>4 DEF OnItsWay, Fetching, Current, InFlight
<1>4. CASE Connect \/ Authenticate \/ Register \/ EnterWorkspace
  BY <1>1, <1>4 DEF Connect, Authenticate, Register, EnterWorkspace
<1>5. CASE AckArrives
  <2>1. healed /\ entry' \in {entry, Invalidated(entry)}
    BY <1>0, <1>5, AckType DEF AckArrives
  <2>2. CASE entry' = entry
    BY <1>1, <1>5, <2>1, <2>2 DEF AckArrives
  <2>3. CASE entry' = Invalidated(entry)
    BY <1>0, <1>16, <2>1, <2>3, InvalidatedOf DEF OnItsWay
  <2> QED
    BY <2>1, <2>2, <2>3
<1>6. CASE Drop \/ LeaveWorkspace \/ FetchFails
  BY <1>6 DEF Drop, LeaveWorkspace, FetchFails
<1>7. CASE Mount \/ Unmount \/ Collect
  BY <1>0, <1>7 DEF Mount, Unmount, Collect, SetEntry, Healthy, EntryType
<1>8. CASE Deliver
  <2>1. healed
    BY <1>0, <1>8, DeliverShows
  <2> QED
    BY <1>8, <1>15, <2>1, DeliverOnItsWay
<1>9. CASE DebounceFires
  <2>1. entry' = Invalidated(entry) /\ healed
    BY <1>9 DEF DebounceFires, SetEntry
  <2> QED
    BY <1>0, <1>16, <2>1, InvalidatedOf DEF OnItsWay
<1>10. CASE ServerAnswers
  <2>1. entry'.fetch = [at |-> "answered", with |-> server] /\ server' = server
    BY <1>0, <1>10 DEF ServerAnswers, EntryType
  <2>2. entry'.fetch.at = "answered" /\ entry'.fetch.with = server'
    BY <2>1
  <2> QED
    BY <2>2 DEF OnItsWay
<1>11. CASE FetchSucceeds
  <2>1. /\ healed /\ wire' = wire /\ timer' = timer /\ mutation' = mutation
        /\ server' = server /\ entry.fetch.at = "answered"
    BY <1>11 DEF FetchSucceeds
  <2>2. entry'.data = entry.fetch.with /\ entry'.fetch = NoRequest
    BY <1>0, <1>11 DEF FetchSucceeds, EntryType
  <2> QED
    BY <1>16, <2>1, <2>2 DEF OnItsWay, Fetching, Current, InFlight, NoRequest
<1>12. ASSUME NEW m \in Mutations,
              \/ MutationApplied(m) \/ MutationRefused(m)
              \/ \E i \in Items : MutateOptimistically(m, i)
       PROVE  OnItsWay'
  BY <1>0, <1>12, UnderWay DEF OnItsWay
<1>13. ASSUME NEW m \in Mutations, Settle(m)
       PROVE  OnItsWay'
  <2>1. healed
    BY <1>13 DEF Settle, SetEntry
  <2>2. PICK e \in EntryType : /\ entry' = Invalidated(e) /\ e.mounted = entry.mounted
                               /\ HasData(entry) => HasData(e)
    BY <1>0, <1>13, SettleMarks
  <2>3. entry'.fetch = [at |-> "sent"]
    BY <1>16, <2>1, <2>2, InvalidatedOf
  <2> QED
    BY <2>3 DEF OnItsWay
<1>14. CASE UNCHANGED vars
  BY <1>1, <1>14 DEF vars
<1> QED
  BY <1>2, <1>3, <1>4, <1>5, <1>6, <1>7, <1>8, <1>9, <1>10, <1>11, <1>12, <1>13, <1>14
     DEF Next

\* Once a refetch has been read on the registered connection, a page at rest shows what
\* the server has, whatever was written, rolled back, cancelled or overtaken.
THEOREM FreshAlways == Spec => []RefetchedStaysFresh
<1>1. Init => FreshInv
  BY InitTyped DEF Init, FreshInv, Healthy
<1>2. FreshInv /\ [Next]_vars => FreshInv'
  BY TypeStep, HealthyStep, FreshStep DEF FreshInv
<1>3. FreshInv => RefetchedStaysFresh
  BY DEF FreshInv, OnItsWay, RefetchedStaysFresh, AtRest, Fetching
<1> QED
  BY <1>1, <1>2, <1>3, PTL DEF Spec
=============================================================================
