---------------------------- MODULE ChatPendingProofs ----------------------------
(***************************************************************************)
(* Theorems about the chat window: its types, and that the pill and the    *)
(* list of messages are right once everything has arrived, unless a write  *)
(* was told wrong and nothing has put it right since.                      *)
(*                                                                         *)
(* Both follow from the same kind of invariant: while the cache and the    *)
(* server disagree, something is still under way that makes the window     *)
(* fetch again (an event, the answer of a send, a mark on the entry), and  *)
(* an answer that was overtaken knows it (crossed).                        *)
(***************************************************************************)
EXTENDS ChatPending, FiniteSetTheorems, SequenceTheorems, WellFoundedInduction, TLAPS

States == {"none", "queued", "running", "ended"}
Made == {t \in Tasks : task[t] # "none"}
Over == {t \in Tasks : task[t] = "ended"}

\* A send that was stored knows its tasks.
SendsKnown ==
    \A i \in 1..Len(sending) :
       sending[i].phase # "sent" =>
          sending[i].task \in Tasks /\ sending[i].task + sending[i].others \in Tasks

\* A message is stored when a task is made, when one ends, and by a send that is
\* refused nonetheless.
Typed ==
    /\ TypeOK
    /\ Len(sending) <= sends
    /\ SendsKnown
    /\ posted <= Cardinality(Made) + Cardinality(Over) + upsets

-------------------------------------------------------------------------------
(* Ids. *)

\* Some ids have a last one.
LEMMA LastOf ==
    ASSUME NEW n \in Nat, NEW S \in SUBSET (1..n), S # {}
    PROVE  /\ Newest(S) \in S
           /\ \A u \in S : u <= Newest(S)
<1> DEFINE T == {k \in Nat : n - k \in S}
<1>1. T # {}
  <2>1. PICK t \in S : TRUE
    OBVIOUS
  <2>2. t \in 1..n /\ n - t \in Nat /\ n - (n - t) = t
    BY <2>1
  <2>3. n - t \in T
    BY <2>1, <2>2
  <2> QED
    BY <2>3
<1>2. T \subseteq Nat
  OBVIOUS
<1>3. \E m \in T : \A k \in T : ~(<<k, m>> \in OpToRel(<, Nat))
  <2> HIDE DEF T
  <2> QED
    BY <1>1, <1>2, WFMin, NatLessThanWellFounded, Zenon
<1>4. PICK m \in T : \A k \in T : ~(<<k, m>> \in OpToRel(<, Nat))
  BY <1>3
<1>5. \A k \in T : ~(k < m)
  <2> HIDE DEF T
  <2> QED
    BY <1>2, <1>4, Zenon DEF OpToRel
<1>6. ASSUME NEW u \in S
      PROVE  u <= n - m
  <2>1. u \in 1..n /\ n - u \in Nat /\ n - (n - u) = u
    OBVIOUS
  <2>2. n - u \in T
    BY <2>1
  <2>3. ~(n - u < m) /\ m \in Nat
    BY <1>5, <2>2
  <2> QED
    BY <2>1, <2>3
<1>7. \E t \in S : \A u \in S : u <= t
  BY <1>6, <1>4
<1> QED
  BY <1>7 DEF Newest

\* The task the server has in flight is one of its tasks, and live.
LEMMA PendingIsLive ==
    /\ PendingTask \in Tasks \cup {None}
    /\ PendingTask \in Tasks => Live(PendingTask)
<1> DEFINE live == {t \in Tasks : Live(t)}
<1>1. live \in SUBSET (1..MaxTasks) /\ MaxTasks \in Nat
  BY BoundsAssumption DEF Tasks
<1>2. CASE live = {}
  <2>1. PendingTask = None
    BY <1>2 DEF PendingTask
  <2> QED
    BY <2>1, IdsAssumption DEF Tasks
<1>3. CASE live # {}
  <2>1. Newest(live) \in live
    BY <1>1, <1>3, LastOf
  <2>2. PendingTask = Newest(live)
    BY <1>3 DEF PendingTask
  <2> QED
    BY <2>1, <2>2
<1> QED
  BY <1>2, <1>3

\* The next ids are consecutive and new.
LEMMA NextIdsNew ==
    ASSUME NEW n \in 1..2, NextIds(n) \subseteq Tasks
    PROVE  \E k \in Tasks :
              /\ NextIds(n) = k..(k + n - 1) /\ k + n - 1 \in Tasks
              /\ \A t \in NextIds(n) : task[t] = "none"
<1> DEFINE made == {t \in Tasks : task[t] # "none"}
           k == IF made = {} THEN 1 ELSE Newest(made) + 1
<1>1. made \in SUBSET (1..MaxTasks) /\ MaxTasks \in Nat
  BY BoundsAssumption DEF Tasks
<1>2. k \in Nat \ {0} /\ \A t \in made : t < k
  <2>1. CASE made = {}
    BY <2>1
  <2>2. CASE made # {}
    <3>1. Newest(made) \in made /\ \A u \in made : u <= Newest(made)
      BY <1>1, <2>2, LastOf
    <3>2. Newest(made) \in 1..MaxTasks /\ k = Newest(made) + 1
      BY <1>1, <2>2, <3>1
    <3>3. \A t \in made : t \in 1..MaxTasks
      BY <1>1
    <3> HIDE DEF made, k
    <3> QED
      BY <1>1, <3>1, <3>2, <3>3
  <2> QED
    BY <2>1, <2>2
<1>3. NextIds(n) = k..(k + n - 1)
  BY DEF NextIds
<1> HIDE DEF k
<1>4. k \in NextIds(n) /\ k + n - 1 \in NextIds(n)
  BY <1>2, <1>3
<1>5. ASSUME NEW t \in NextIds(n)
      PROVE  task[t] = "none"
  <2>1. t \in Tasks /\ ~(t < k)
    BY <1>2, <1>3 DEF Tasks
  <2> QED
    BY <1>2, <2>1
<1> QED
  BY <1>3, <1>4, <1>5

\* Of the ids made for a message there is one first.
LEMMA FirstOf ==
    ASSUME NEW k \in Tasks, NEW n \in 1..2, NEW S, S = k..(k + n - 1)
    PROVE  /\ k \in S /\ \A u \in S : k <= u
           /\ \A t \in S : (\A u \in S : t <= u) => t = k
<1>1. k \in S /\ \A u \in S : k <= u
  BY DEF Tasks
<1>2. \A t \in S : (\A u \in S : t <= u) => t = k
  BY <1>1 DEF Tasks
<1> QED
  BY <1>1, <1>2

\* Tasks are finite in number, and one more counts one more.
LEMMA Counted ==
    ASSUME NEW A \in SUBSET Tasks, NEW B \in SUBSET Tasks, A \subseteq B
    PROVE  /\ Cardinality(A) \in Nat /\ Cardinality(B) \in Nat
           /\ Cardinality(A) <= Cardinality(B) /\ Cardinality(B) <= MaxTasks
           /\ A # B => Cardinality(A) + 1 <= Cardinality(B)
<1>1. IsFiniteSet(Tasks) /\ Cardinality(Tasks) = MaxTasks
  <2>1. MaxTasks \in Nat
    BY BoundsAssumption
  <2> QED
    BY <2>1, FS_Interval DEF Tasks
<1>2. IsFiniteSet(B) /\ Cardinality(B) <= MaxTasks
  BY <1>1, FS_Subset
<1>3. IsFiniteSet(A) /\ Cardinality(A) <= Cardinality(B)
      /\ (Cardinality(B) = Cardinality(A) => A = B)
  BY <1>2, FS_Subset
<1>4. Cardinality(A) \in Nat /\ Cardinality(B) \in Nat
  BY <1>2, <1>3, FS_CardinalityType
<1> QED
  BY <1>2, <1>3, <1>4

-------------------------------------------------------------------------------
(* Events. *)

\* An event of one of these kinds is on its way.
Coming(kinds) == \E i \in 1..Len(wire) : wire[i].kind \in kinds

\* The announcement of a task is followed by an event that makes the window fetch.
Followed(events) ==
    \A i \in 1..Len(events) :
       events[i].kind = "queued" =>
          \E j \in 1..Len(events) : j > i /\ events[j].kind \in {"message", "ended"}

\* What is published comes after what was under way.
LEMMA PublishedAfter ==
    ASSUME wire \in Seq(Event), NEW events \in Seq(Event), Publish(events)
    PROVE  /\ wire' \in Seq(Event)
           /\ \A kinds : Coming(kinds) => Coming(kinds)'
           /\ \A i \in 1..Len(events) :
                 \E j \in 1..Len(wire') : wire'[j] = events[i]
           /\ Followed(wire) /\ Followed(events) => Followed(wire')
<1>1. /\ wire' \in Seq(Event)
      /\ Len(wire') = Len(wire) + Len(events)
      /\ \A i \in 1..Len(wire') :
            wire'[i] = IF i <= Len(wire) THEN wire[i] ELSE events[i - Len(wire)]
  BY ConcatProperties DEF Publish
<1>2. Len(wire) \in Nat /\ Len(events) \in Nat
  BY LenProperties
<1>3. \A i \in 1..Len(wire) : i \in 1..Len(wire') /\ wire'[i] = wire[i]
  BY <1>1, <1>2
<1>4. \A i \in 1..Len(events) :
         Len(wire) + i \in 1..Len(wire') /\ wire'[Len(wire) + i] = events[i]
  <2> SUFFICES ASSUME NEW i \in 1..Len(events)
               PROVE  /\ Len(wire) + i \in 1..Len(wire')
                      /\ wire'[Len(wire) + i] = events[i]
    OBVIOUS
  <2>1. /\ Len(wire) + i \in 1..Len(wire') /\ ~(Len(wire) + i <= Len(wire))
        /\ Len(wire) + i - Len(wire) = i
    BY <1>1, <1>2
  <2> QED
    BY <1>1, <2>1
<1>5. \A kinds : Coming(kinds) => Coming(kinds)'
  BY <1>3 DEF Coming
<1>6. ASSUME Followed(wire), Followed(events), NEW i \in 1..Len(wire'),
             wire'[i].kind = "queued"
      PROVE  \E j \in 1..Len(wire') : j > i /\ wire'[j].kind \in {"message", "ended"}
  <2>1. CASE i <= Len(wire)
    <3>1. i \in 1..Len(wire) /\ wire[i].kind = "queued"
      BY <1>1, <1>2, <1>6, <2>1
    <3>2. PICK j \in 1..Len(wire) : j > i /\ wire[j].kind \in {"message", "ended"}
      BY <1>6, <3>1 DEF Followed
    <3> QED
      BY <1>3, <3>2
  <2>2. CASE ~(i <= Len(wire))
    <3>1. /\ i - Len(wire) \in 1..Len(events)
          /\ events[i - Len(wire)].kind = "queued"
      BY <1>1, <1>2, <1>6, <2>2
    <3>2. PICK j \in 1..Len(events) :
             j > i - Len(wire) /\ events[j].kind \in {"message", "ended"}
      BY <1>6, <3>1 DEF Followed
    <3>3. Len(wire) + j > i
      BY <1>2, <3>1, <3>2
    <3> QED
      BY <1>4, <3>2, <3>3
  <2> QED
    BY <2>1, <2>2
<1> QED
  BY <1>1, <1>4, <1>5, <1>6 DEF Followed

\* One event, and the announcement of one or two tasks with what follows it.
LEMMA Announced ==
    /\ \A e \in Event :
          /\ <<e>> \in Seq(Event)
          /\ <<e>>[1] = e /\ 1 \in 1..Len(<<e>>)
          /\ e.kind # "queued" => Followed(<<e>>)
    /\ \A k \in Tasks, n \in 1..2, e \in Event :
          k + n - 1 \in Tasks =>
             LET events == QueuedEvents(k, n) \o <<e>>
             IN /\ events \in Seq(Event)
                /\ n + 1 \in 1..Len(events) /\ events[n + 1] = e
                /\ e.kind \in {"message", "ended"} => Followed(events)
<1>1. ASSUME NEW e \in Event
      PROVE  /\ <<e>> \in Seq(Event) /\ Len(<<e>>) = 1
             /\ <<e>>[1] = e /\ 1 \in 1..Len(<<e>>)
             /\ e.kind # "queued" => Followed(<<e>>)
  <2>1. <<e>> \in Seq(Event) /\ Len(<<e>>) = 1 /\ <<e>>[1] = e
    OBVIOUS
  <2> QED
    BY <2>1 DEF Followed
<1>2. ASSUME NEW k \in Tasks, NEW n \in 1..2, NEW e \in Event, k + n - 1 \in Tasks
      PROVE  /\ QueuedEvents(k, n) \o <<e>> \in Seq(Event)
             /\ n + 1 \in 1..Len(QueuedEvents(k, n) \o <<e>>)
             /\ (QueuedEvents(k, n) \o <<e>>)[n + 1] = e
             /\ e.kind \in {"message", "ended"} => Followed(QueuedEvents(k, n) \o <<e>>)
  <2> DEFINE q == QueuedEvents(k, n)
             all == q \o <<e>>
  <2>1. \A i \in 1..n : k + i - 1 \in Tasks
    BY <1>2, BoundsAssumption DEF Tasks
  <2>2. q \in [1..n -> Event]
    BY <2>1 DEF QueuedEvents, Event
  <2>3. q \in Seq(Event) /\ Len(q) = n
    BY <2>2, SeqDef
  <2>4. <<e>> \in Seq(Event) /\ Len(<<e>>) = 1 /\ <<e>>[1] = e
    OBVIOUS
  <2> HIDE DEF q
  <2>5. /\ all \in Seq(Event) /\ Len(all) = n + 1
        /\ \A i \in 1..(n + 1) : all[i] = IF i <= n THEN q[i] ELSE <<e>>[i - n]
    BY <2>3, <2>4, ConcatProperties
  <2>6. all[n + 1] = e
    BY <2>4, <2>5
  <2> HIDE DEF all
  <2>7. e.kind \in {"message", "ended"} => Followed(all)
    <3> SUFFICES ASSUME e.kind \in {"message", "ended"}, NEW i \in 1..Len(all),
                        all[i].kind = "queued"
                 PROVE  \E j \in 1..Len(all) :
                           j > i /\ all[j].kind \in {"message", "ended"}
      BY DEF Followed
    <3>1. i # n + 1
      BY <2>6
    <3>2. n + 1 \in 1..Len(all) /\ n + 1 > i
      BY <2>5, <3>1
    <3> QED
      BY <2>6, <3>2
  <2> QED
    BY <2>5, <2>6, <2>7 DEF all, q
<1> QED
  BY <1>1, <1>2

\* The first event is taken off.
LEMMA TakenOff ==
    ASSUME wire \in Seq(Event), wire # <<>>, wire' = Tail(wire)
    PROVE  /\ wire' \in Seq(Event) /\ Head(wire) \in Event
           /\ \A kinds : Coming(kinds) => Head(wire).kind \in kinds \/ Coming(kinds)'
           /\ Followed(wire) =>
                 /\ Followed(wire')
                 /\ Head(wire).kind = "queued" => Coming({"message", "ended"})'
<1>1. /\ wire' \in Seq(Event) /\ Head(wire) \in Event /\ Head(wire) = wire[1]
      /\ Len(wire') = Len(wire) - 1
      /\ \A i \in 1..Len(wire') : wire'[i] = wire[i + 1]
  BY HeadTailProperties
<1>2. Len(wire) \in Nat \ {0}
  BY EmptySeq
<1>3. \A i \in 1..Len(wire) : i # 1 => i - 1 \in 1..Len(wire') /\ wire'[i - 1] = wire[i]
  BY <1>1, <1>2
<1>4. \A kinds : Coming(kinds) => Head(wire).kind \in kinds \/ Coming(kinds)'
  BY <1>1, <1>3 DEF Coming
<1>5. ASSUME Followed(wire), NEW i \in 1..Len(wire'), wire'[i].kind = "queued"
      PROVE  \E j \in 1..Len(wire') : j > i /\ wire'[j].kind \in {"message", "ended"}
  <2>1. i + 1 \in 1..Len(wire) /\ wire[i + 1].kind = "queued"
    BY <1>1, <1>2, <1>5
  <2>2. PICK j \in 1..Len(wire) : j > i + 1 /\ wire[j].kind \in {"message", "ended"}
    BY <1>5, <2>1 DEF Followed
  <2>3. j # 1 /\ j - 1 > i
    BY <2>2
  <2> QED
    BY <1>3, <2>2, <2>3
<1>6. ASSUME Followed(wire), Head(wire).kind = "queued"
      PROVE  Coming({"message", "ended"})'
  <2>1. 1 \in 1..Len(wire) /\ wire[1].kind = "queued"
    BY <1>1, <1>2, <1>6
  <2>2. PICK j \in 1..Len(wire) : j > 1 /\ wire[j].kind \in {"message", "ended"}
    BY <1>6, <2>1 DEF Followed
  <2>3. j - 1 \in 1..Len(wire') /\ wire'[j - 1] = wire[j]
    BY <1>3, <2>2
  <2> QED
    BY <2>2, <2>3 DEF Coming
<1> QED
  BY <1>1, <1>4, <1>5, <1>6 DEF Followed

-------------------------------------------------------------------------------
(* Requests. *)

\* A request is taken off: the others stay.
LEMMA WithoutOne ==
    ASSUME NEW S, NEW s \in Seq(S), NEW i \in 1..Len(s)
    PROVE  /\ Without(s, i) \in Seq(S)
           /\ Len(Without(s, i)) = Len(s) - 1
           /\ \A j \in 1..Len(s) :
                 j # i => \E k \in 1..Len(Without(s, i)) : Without(s, i)[k] = s[j]
           /\ \A k \in 1..Len(Without(s, i)) :
                 \E j \in 1..Len(s) : Without(s, i)[k] = s[j]
<1> DEFINE a == SubSeq(s, 1, i - 1)
           b == SubSeq(s, i + 1, Len(s))
<1>1. Len(s) \in Nat /\ \A j \in 1..Len(s) : s[j] \in S
  BY LenProperties, ElementOfSeq
<1>2. /\ a \in Seq(S) /\ Len(a) = i - 1
      /\ \A j \in 1..(i - 1) : a[j] = s[j]
  <2>1. /\ a \in Seq(S) /\ Len(a) = IF 1 <= i - 1 THEN i - 1 - 1 + 1 ELSE 0
        /\ \A j \in 1..(i - 1 - 1 + 1) : a[j] = s[1 + j - 1]
    BY <1>1, SubSeqProperties
  <2> HIDE DEF a
  <2> QED
    BY <1>1, <2>1
<1>3. /\ b \in Seq(S) /\ Len(b) = Len(s) - i
      /\ \A j \in 1..(Len(s) - i) : b[j] = s[i + j]
  <2>1. /\ b \in Seq(S)
        /\ Len(b) = IF i + 1 <= Len(s) THEN Len(s) - (i + 1) + 1 ELSE 0
        /\ \A j \in 1..(Len(s) - (i + 1) + 1) : b[j] = s[(i + 1) + j - 1]
    BY <1>1, SubSeqProperties
  <2> HIDE DEF b
  <2> QED
    BY <1>1, <2>1
<1>4. Without(s, i) = a \o b
  BY DEF Without
<1> HIDE DEF a, b
<1>5. /\ Without(s, i) \in Seq(S) /\ Len(Without(s, i)) = Len(s) - 1
      /\ \A k \in 1..(Len(s) - 1) :
            Without(s, i)[k] = IF k <= i - 1 THEN a[k] ELSE b[k - (i - 1)]
  <2>1. /\ a \o b \in Seq(S) /\ Len(a \o b) = Len(a) + Len(b)
        /\ \A k \in 1..(Len(a) + Len(b)) :
              (a \o b)[k] = IF k <= Len(a) THEN a[k] ELSE b[k - Len(a)]
    BY <1>2, <1>3, ConcatProperties
  <2>2. Len(a) + Len(b) = Len(s) - 1
    BY <1>1, <1>2, <1>3
  <2> QED
    BY <1>2, <1>4, <2>1, <2>2
<1>6. \A k \in 1..(Len(s) - 1) : Without(s, i)[k] = IF k < i THEN s[k] ELSE s[k + 1]
  <2> SUFFICES ASSUME NEW k \in 1..(Len(s) - 1)
               PROVE  Without(s, i)[k] = IF k < i THEN s[k] ELSE s[k + 1]
    OBVIOUS
  <2>1. CASE k < i
    <3>1. k <= i - 1 /\ k \in 1..(i - 1)
      BY <1>1, <2>1
    <3> QED
      BY <1>2, <1>5, <2>1, <3>1
  <2>2. CASE ~(k < i)
    <3>1. ~(k <= i - 1) /\ k - (i - 1) \in 1..(Len(s) - i) /\ i + (k - (i - 1)) = k + 1
      BY <1>1, <2>2
    <3> QED
      BY <1>3, <1>5, <2>2, <3>1
  <2> QED
    BY <2>1, <2>2
<1>7. ASSUME NEW j \in 1..Len(s), j # i
      PROVE  \E k \in 1..(Len(s) - 1) : Without(s, i)[k] = s[j]
  <2>1. CASE j < i
    <3>1. j \in 1..(Len(s) - 1)
      BY <1>1, <2>1
    <3> QED
      BY <1>6, <2>1, <3>1
  <2>2. CASE j > i
    <3>1. j - 1 \in 1..(Len(s) - 1) /\ ~(j - 1 < i) /\ (j - 1) + 1 = j
      BY <1>1, <2>2
    <3> QED
      BY <1>6, <3>1
  <2> QED
    BY <1>7, <2>1, <2>2
<1>8. ASSUME NEW k \in 1..(Len(s) - 1)
      PROVE  \E j \in 1..Len(s) : Without(s, i)[k] = s[j]
  <2>1. k \in 1..Len(s) /\ k + 1 \in 1..Len(s)
    BY <1>1
  <2> QED
    BY <1>6, <2>1
<1> QED
  BY <1>5, <1>7, <1>8

-------------------------------------------------------------------------------
(* Cache entries. *)

\* What a request is: a question, or an answer with what it says.
LEMMA FetchOf ==
    ASSUME NEW Data, NEW e \in Entry(Data)
    PROVE  /\ e.data \in Data /\ e.invalid \in BOOLEAN /\ e.crossed \in BOOLEAN
           /\ e.fetch.at \in {"none", "sent", "answered"}
           /\ e.fetch.at = "answered" => e.fetch.with \in Data
<1>1. e.fetch \in [at : {"none", "sent"}] \cup [at : {"answered"}, with : Data]
  BY DEF Entry
<1>2. CASE e.fetch \in [at : {"none", "sent"}]
  BY <1>2 DEF Entry
<1>3. CASE e.fetch \in [at : {"answered"}, with : Data]
  BY <1>3 DEF Entry
<1> QED
  BY <1>1, <1>2, <1>3

\* A write changes the data and takes the mark off.
LEMMA WrittenOf ==
    ASSUME NEW Data, NEW e \in Entry(Data), NEW d \in Data
    PROVE  /\ Written(e, d) \in Entry(Data)
           /\ Written(e, d).data = d /\ ~Written(e, d).invalid
           /\ Written(e, d).fetch = e.fetch /\ Written(e, d).crossed = e.crossed
  BY DEF Written, Entry

\* A question.
LEMMA FetchedOf ==
    ASSUME NEW Data, NEW e \in Entry(Data)
    PROVE  /\ Fetched(e) \in Entry(Data)
           /\ Fetched(e).data = e.data /\ Fetched(e).invalid = e.invalid
           /\ Fetched(e).fetch.at = "sent" /\ ~Fetched(e).crossed
<1>1. [at |-> "sent"] \in [at : {"none", "sent"}] \cup [at : {"answered"}, with : Data]
  OBVIOUS
<1> QED
  BY <1>1 DEF Fetched, Entry

\* What was overtaken knows it.
LEMMA CrossedOf ==
    ASSUME NEW Data, NEW e \in Entry(Data)
    PROVE  /\ Crossed(e) \in Entry(Data)
           /\ Crossed(e).data = e.data /\ Crossed(e).invalid = e.invalid
           /\ Crossed(e).fetch = e.fetch /\ Crossed(e).crossed
  BY DEF Crossed, Entry

\* A mark: a question is sent at once, or the entry stays marked.
LEMMA InvalidatedOf ==
    ASSUME NEW Data, NEW e \in Entry(Data), shown \in BOOLEAN
    PROVE  /\ Invalidated(e) \in Entry(Data)
           /\ Invalidated(e).data = e.data /\ Invalidated(e).invalid
           /\ shown => Invalidated(e).fetch.at = "sent"
           /\ ~shown => Invalidated(e).fetch = e.fetch /\ Invalidated(e).crossed
<1> DEFINE marked == [e EXCEPT !.invalid = TRUE]
<1>1. marked \in Entry(Data) /\ marked.data = e.data /\ marked.invalid
      /\ marked.fetch = e.fetch
  BY DEF Entry
<1> HIDE DEF marked
<1>2. CASE shown
  <2>1. Invalidated(e) = Fetched(marked)
    BY <1>2 DEF Invalidated, marked
  <2> QED
    BY <1>1, <1>2, <2>1, FetchedOf
<1>3. CASE ~shown
  <2>1. Invalidated(e) = Crossed(marked)
    BY <1>3 DEF Invalidated, Crossed, marked
  <2> QED
    BY <1>1, <1>3, <2>1, CrossedOf
<1> QED
  BY <1>2, <1>3

\* An answer.
LEMMA AnsweredOf ==
    ASSUME NEW Data, NEW e \in Entry(Data), NEW d \in Data
    PROVE  /\ Answered(e, d) \in Entry(Data)
           /\ Answered(e, d).data = e.data /\ Answered(e, d).invalid = e.invalid
           /\ Answered(e, d).fetch.at = "answered" /\ Answered(e, d).fetch.with = d
           /\ Answered(e, d).crossed = e.crossed
<1>1. [at |-> "answered", with |-> d]
         \in [at : {"none", "sent"}] \cup [at : {"answered"}, with : Data]
  OBVIOUS
<1> QED
  BY <1>1 DEF Answered, Entry

\* The answer lands.
LEMMA LandedOf ==
    ASSUME NEW Data, NEW e \in Entry(Data), e.fetch.at = "answered"
    PROVE  /\ Landed(e) \in Entry(Data)
           /\ Landed(e).data = e.fetch.with /\ ~Landed(e).invalid
           /\ Landed(e).fetch.at = "none" /\ ~Landed(e).crossed
<1>1. [at |-> "none"] \in [at : {"none", "sent"}] \cup [at : {"answered"}, with : Data]
  OBVIOUS
<1>2. e.fetch.with \in Data
  BY FetchOf
<1> QED
  BY <1>1, <1>2 DEF Landed, Loaded, Entry

-------------------------------------------------------------------------------
(* Types. *)

\* The server's part of the types.
ServerTyped ==
    /\ task \in [Tasks -> States]
    /\ posted \in 0..MaxPosted /\ upsets \in 0..MaxUpsets
    /\ posted <= Cardinality(Made) + Cardinality(Over) + upsets

\* The requests' part.
SendsTyped ==
    /\ sending \in Seq(Send) /\ sends \in 0..MaxSends
    /\ Len(sending) <= sends
    /\ SendsKnown

\* Tasks only come and end, and what is stored is accounted for.
LEMMA ServerKeeps ==
    ASSUME Typed, task' \in [Tasks -> States],
           \A t \in Tasks : /\ task[t] # "none" => task'[t] # "none"
                            /\ task[t] = "ended" => task'[t] = "ended",
           upsets' = upsets \/ Upset,
           \/ posted' = posted
           \/ /\ posted' = posted + 1
              /\ \/ \E t \in Tasks : task[t] = "none" /\ task'[t] # "none"
                 \/ \E t \in Tasks : task[t] # "ended" /\ task'[t] = "ended"
                 \/ Upset
    PROVE  ServerTyped'
<1>1. /\ posted \in Nat /\ upsets \in 0..MaxUpsets
      /\ posted <= Cardinality(Made) + Cardinality(Over) + upsets
  BY DEF Typed, TypeOK
<1>2. {MaxTasks, MaxSends, MaxUpsets} \subseteq Nat
  BY BoundsAssumption
<1>3. /\ Made \in SUBSET Tasks /\ Made' \in SUBSET Tasks /\ Made \subseteq Made'
      /\ Over \in SUBSET Tasks /\ Over' \in SUBSET Tasks /\ Over \subseteq Over'
  BY DEF Made, Over
<1>4. /\ (\E t \in Tasks : task[t] = "none" /\ task'[t] # "none") => Made # Made'
      /\ (\E t \in Tasks : task[t] # "ended" /\ task'[t] = "ended") => Over # Over'
  BY DEF Made, Over
<1>5. /\ Cardinality(Made) \in Nat /\ Cardinality(Made') \in 0..MaxTasks
      /\ Cardinality(Made) <= Cardinality(Made')
      /\ Made # Made' => Cardinality(Made) + 1 <= Cardinality(Made')
  <2>1. /\ Cardinality(Made) \in Nat /\ Cardinality(Made') \in Nat
        /\ Cardinality(Made) <= Cardinality(Made') /\ Cardinality(Made') <= MaxTasks
        /\ Made # Made' => Cardinality(Made) + 1 <= Cardinality(Made')
    BY <1>3, Counted
  <2> QED
    BY <1>2, <2>1
<1>6. /\ Cardinality(Over) \in Nat /\ Cardinality(Over') \in 0..MaxTasks
      /\ Cardinality(Over) <= Cardinality(Over')
      /\ Over # Over' => Cardinality(Over) + 1 <= Cardinality(Over')
  <2>1. /\ Cardinality(Over) \in Nat /\ Cardinality(Over') \in Nat
        /\ Cardinality(Over) <= Cardinality(Over') /\ Cardinality(Over') <= MaxTasks
        /\ Over # Over' => Cardinality(Over) + 1 <= Cardinality(Over')
    BY <1>3, Counted
  <2> QED
    BY <1>2, <2>1
<1>7. /\ upsets' \in 0..MaxUpsets /\ upsets <= upsets'
      /\ Upset => upsets + 1 <= upsets'
  BY <1>1, <1>2 DEF Upset
<1>8. posted' \in Nat /\ posted' <= Cardinality(Made') + Cardinality(Over') + upsets'
  <2>1. CASE posted' = posted
    BY <1>1, <1>5, <1>6, <1>7, <2>1
  <2>2. CASE posted' = posted + 1 /\ Made # Made'
    BY <1>1, <1>5, <1>6, <1>7, <2>2
  <2>3. CASE posted' = posted + 1 /\ Over # Over'
    BY <1>1, <1>5, <1>6, <1>7, <2>3
  <2>4. CASE posted' = posted + 1 /\ Upset
    BY <1>1, <1>5, <1>6, <1>7, <2>4
  <2> QED
    BY <1>4, <2>1, <2>2, <2>3, <2>4
<1>9. posted' \in 0..MaxPosted
  BY <1>2, <1>5, <1>6, <1>7, <1>8 DEF MaxPosted
<1> QED
  BY <1>7, <1>8, <1>9 DEF ServerTyped

\* A task moves on.
LEMMA TaskMoves ==
    ASSUME Typed, NEW t \in Tasks, Live(t),
           upsets' = upsets \/ Upset,
           \/ task' = [task EXCEPT ![t] = "running"] /\ posted' = posted
           \/ task' = [task EXCEPT ![t] = "ended"] /\ posted' \in {posted, posted + 1}
    PROVE  ServerTyped'
<1>1. task \in [Tasks -> States] /\ task[t] \in {"queued", "running"}
  BY DEF Typed, TypeOK, States, Live
<1>2. \A u \in Tasks : u # t => task'[u] = task[u]
  BY <1>1
<1>3. CASE task' = [task EXCEPT ![t] = "running"] /\ posted' = posted
  <2>1. task' \in [Tasks -> States] /\ task'[t] = "running"
    BY <1>1, <1>3 DEF States
  <2> QED
    BY <1>1, <1>2, <1>3, <2>1, ServerKeeps
<1>4. CASE task' = [task EXCEPT ![t] = "ended"] /\ posted' \in {posted, posted + 1}
  <2>1. task' \in [Tasks -> States] /\ task'[t] = "ended"
    BY <1>1, <1>4 DEF States
  <2> QED
    BY <1>1, <1>2, <1>4, <2>1, ServerKeeps
<1> QED
  BY <1>3, <1>4

\* Tasks are made.
LEMMA TasksMade ==
    ASSUME Typed, NEW n \in 1..2, NextIds(n) \subseteq Tasks,
           task' = [t \in Tasks |-> IF t \in NextIds(n) THEN "queued" ELSE task[t]],
           upsets' = upsets \/ Upset, posted' = posted + 1
    PROVE  ServerTyped'
<1>1. PICK k \in Tasks : /\ NextIds(n) = k..(k + n - 1)
                         /\ \A t \in NextIds(n) : task[t] = "none"
  BY NextIdsNew
<1>2. k \in NextIds(n)
  BY <1>1 DEF Tasks
<1>3. task' \in [Tasks -> States] /\ task[k] = "none" /\ task'[k] = "queued"
  BY <1>1, <1>2 DEF Typed, TypeOK, States
<1>4. \A t \in Tasks : /\ task[t] # "none" => task'[t] # "none"
                       /\ task[t] = "ended" => task'[t] = "ended"
  BY <1>1
<1> QED
  BY <1>3, <1>4, ServerKeeps

\* The steps of the server keep its types, and publish events.
LEMMA ServerType ==
    ASSUME Typed,
           \/ SendElsewhere
           \/ \E i \in 1..Len(sending) : ServerStores(i) \/ ServerPublishes(i)
           \/ \E t \in Tasks : \/ Starts(t) \/ Ends(t) \/ Retried(t)
                               \/ ServerStops(t) \/ CancelledElsewhere(t)
    PROVE  ServerTyped' /\ wire' \in Seq(Event)
<1>1. wire \in Seq(Event) /\ task \in [Tasks -> States]
  BY DEF Typed, TypeOK, States
<1>2. CASE SendElsewhere
  <2>1. PICK t \in NextIds(1) :
           /\ task' = [task EXCEPT ![t] = "queued"]
           /\ Publish(QueuedEvents(t, 1) \o <<[kind |-> "message", task |-> t]>>)
    BY <1>2 DEF SendElsewhere
  <2>2. PICK k \in Tasks : /\ NextIds(1) = k..(k + 1 - 1) /\ k + 1 - 1 \in Tasks
                           /\ \A u \in NextIds(1) : task[u] = "none"
    BY <1>2, NextIdsNew DEF SendElsewhere
  <2>3. t \in Tasks /\ NextIds(1) = {t} /\ task[t] = "none"
    BY <2>1, <2>2 DEF Tasks
  <2>4. task' = [u \in Tasks |-> IF u \in NextIds(1) THEN "queued" ELSE task[u]]
    BY <1>1, <2>1, <2>3
  <2>5. ServerTyped'
    <3>1. NextIds(1) \subseteq Tasks /\ Upset /\ posted' = posted + 1
      BY <1>2 DEF SendElsewhere
    <3> QED
      BY <2>4, <3>1, TasksMade
  <2>6. [kind |-> "message", task |-> t] \in Event /\ t + 1 - 1 \in Tasks
    BY <2>3 DEF Event, Tasks
  <2>7. QueuedEvents(t, 1) \o <<[kind |-> "message", task |-> t]>> \in Seq(Event)
    <3>1. 1 \in 1..2
      OBVIOUS
    <3> QED
      BY <2>3, <2>6, <3>1, Announced
  <2>8. wire' \in Seq(Event)
    BY <1>1, <2>1, <2>7, PublishedAfter
  <2> QED
    BY <2>5, <2>8
<1>3. ASSUME NEW i \in 1..Len(sending), ServerStores(i)
      PROVE  ServerTyped' /\ wire' \in Seq(Event)
  <2>1. PICK n \in 1..2 :
           /\ NextIds(n) \subseteq Tasks
           /\ task' = [t \in Tasks |-> IF t \in NextIds(n) THEN "queued" ELSE task[t]]
    BY <1>3 DEF ServerStores
  <2>2. posted' = posted + 1 /\ upsets' = upsets /\ wire' = wire
    BY <1>3 DEF ServerStores
  <2>3. ServerTyped'
    BY <2>1, <2>2, TasksMade
  <2> QED
    BY <1>1, <2>2, <2>3
<1>4. ASSUME NEW i \in 1..Len(sending), ServerPublishes(i)
      PROVE  ServerTyped' /\ wire' \in Seq(Event)
  <2> DEFINE first == sending[i].task
             e == [kind |-> "message", task |-> first]
             n == 1 + sending[i].others
  <2>1. sending[i] \in Send
    BY ElementOfSeq DEF Typed, TypeOK
  <2>2. first \in Tasks /\ n \in 1..2 /\ first + sending[i].others \in Tasks
    BY <1>4, <2>1 DEF ServerPublishes, Typed, SendsKnown, Send
  <2>3. first + n - 1 \in Tasks
    BY <2>1, <2>2 DEF Tasks, Send
  <2>4. e \in Event
    BY <2>2 DEF Event
  <2>5. Publish(QueuedEvents(first, n) \o <<e>>)
    BY <1>4 DEF ServerPublishes
  <2> HIDE DEF first, n, e
  <2>6. QueuedEvents(first, n) \o <<e>> \in Seq(Event)
    BY <2>2, <2>3, <2>4, Announced
  <2>7. wire' \in Seq(Event)
    BY <1>1, <2>5, <2>6, PublishedAfter
  <2>8. ServerTyped'
    BY <1>4 DEF ServerPublishes, server, Typed, TypeOK, ServerTyped, States, Made, Over
  <2> QED
    BY <2>7, <2>8
<1>5. ASSUME NEW t \in Tasks, Starts(t)
      PROVE  ServerTyped' /\ wire' \in Seq(Event)
  <2>1. <<[kind |-> "dispatch", task |-> t]>> \in Seq(Event)
    BY Announced DEF Event
  <2>2. wire' \in Seq(Event)
    BY <1>1, <1>5, <2>1, PublishedAfter DEF Starts
  <2>3. ServerTyped'
    <3>1. Live(t) /\ task' = [task EXCEPT ![t] = "running"]
          /\ posted' = posted /\ upsets' = upsets
      BY <1>5 DEF Starts, Live
    <3> QED
      BY <3>1, TaskMoves
  <2> QED
    BY <2>2, <2>3
<1>6. ASSUME NEW t \in Tasks, Ends(t)
      PROVE  ServerTyped' /\ wire' \in Seq(Event)
  <2>1. <<[kind |-> "ended", task |-> t]>> \in Seq(Event)
    BY Announced DEF Event
  <2>2. wire' \in Seq(Event)
    BY <1>1, <1>6, <2>1, PublishedAfter DEF Ends
  <2>3. ServerTyped'
    BY <1>6, TaskMoves DEF Ends, Live
  <2> QED
    BY <2>2, <2>3
<1>7. ASSUME NEW t \in Tasks, Retried(t)
      PROVE  ServerTyped' /\ wire' \in Seq(Event)
  <2>1. PICK u \in NextIds(1) :
           /\ task' = [task EXCEPT ![t] = "ended", ![u] = "queued"]
           /\ Publish(QueuedEvents(u, 1) \o <<[kind |-> "ended", task |-> t]>>)
    BY <1>7 DEF Retried
  <2>2. PICK k \in Tasks : /\ NextIds(1) = k..(k + 1 - 1) /\ k + 1 - 1 \in Tasks
                           /\ \A v \in NextIds(1) : task[v] = "none"
    BY <1>7, NextIdsNew DEF Retried
  <2>3. u \in Tasks /\ task[u] = "none" /\ task[t] = "running"
    BY <1>7, <2>1, <2>2 DEF Tasks, Retried
  <2>4. /\ task' \in [Tasks -> States] /\ task'[u] = "queued" /\ task'[t] = "ended"
        /\ \A v \in Tasks : v \notin {t, u} => task'[v] = task[v]
    BY <1>1, <2>1, <2>3 DEF States
  <2>5. posted' = posted /\ Upset
    BY <1>7 DEF Retried
  <2>6. ServerTyped'
    BY <2>3, <2>4, <2>5, ServerKeeps
  <2>7. [kind |-> "ended", task |-> t] \in Event /\ u + 1 - 1 \in Tasks
    BY <2>3 DEF Event, Tasks
  <2>8. QueuedEvents(u, 1) \o <<[kind |-> "ended", task |-> t]>> \in Seq(Event)
    <3>1. 1 \in 1..2
      OBVIOUS
    <3> QED
      BY <2>3, <2>7, <3>1, Announced
  <2>9. wire' \in Seq(Event)
    BY <1>1, <2>1, <2>8, PublishedAfter
  <2> QED
    BY <2>6, <2>9
<1>8. ASSUME NEW t \in Tasks, ServerStops(t) \/ CancelledElsewhere(t)
      PROVE  ServerTyped' /\ wire' \in Seq(Event)
  <2>1. <<[kind |-> "cancelled", task |-> t]>> \in Seq(Event)
    BY Announced DEF Event
  <2>2. posted' = posted /\ (upsets' = upsets \/ Upset)
    BY <1>8 DEF ServerStops, CancelledElsewhere
  <2>3. CASE Live(t)
    <3>1. /\ task' = [task EXCEPT ![t] = "ended"]
          /\ Publish(<<[kind |-> "cancelled", task |-> t]>>)
      BY <1>8, <2>3 DEF ServerStops, CancelledElsewhere
    <3>2. ServerTyped'
      BY <2>2, <2>3, <3>1, TaskMoves
    <3>3. wire' \in Seq(Event)
      BY <1>1, <2>1, <3>1, PublishedAfter
    <3> QED
      BY <3>2, <3>3
  <2>4. CASE ~Live(t)
    BY <1>1, <1>8, <2>4 DEF ServerStops, CancelledElsewhere, Typed, TypeOK, ServerTyped,
                            States, Made, Over
  <2> QED
    BY <2>3, <2>4
<1> QED
  BY <1>2, <1>3, <1>4, <1>5, <1>6, <1>7, <1>8

\* A send knows its tasks once it is stored, until its answer arrives.
LEMMA SendsType ==
    ASSUME Typed,
           \/ HandleSend
           \/ \E i \in 1..Len(sending) : \/ ServerStores(i) \/ ServerPublishes(i)
                                         \/ SendAnswered(i) \/ SendRefused(i)
           \/ UNCHANGED <<sending, sends>>
    PROVE  SendsTyped'
<1>1. /\ sending \in Seq(Send) /\ Len(sending) \in Nat /\ sends \in 0..MaxSends
      /\ Len(sending) <= sends /\ MaxSends \in Nat
      /\ \A i \in 1..Len(sending) :
            /\ sending[i] \in Send
            /\ sending[i].phase # "sent" =>
                  sending[i].task \in Tasks /\ sending[i].task + sending[i].others \in Tasks
  BY BoundsAssumption, LenProperties, ElementOfSeq DEF Typed, TypeOK, SendsKnown
<1>2. CASE HandleSend
  <2> DEFINE new == [phase |-> "sent", task |-> NoTask, others |-> 0]
  <2>1. new \in Send /\ new.phase = "sent"
    BY DEF Send
  <2>2. sending' = Append(sending, new) /\ sends' = sends + 1 /\ sends < MaxSends
    BY <1>2 DEF HandleSend
  <2> HIDE DEF new
  <2>3. /\ sending' \in Seq(Send) /\ Len(sending') = Len(sending) + 1
        /\ \A i \in 1..Len(sending) : sending'[i] = sending[i]
        /\ sending'[Len(sending) + 1] = new
    BY <1>1, <2>1, <2>2, AppendProperties
  <2>4. \A i \in 1..Len(sending') : i \in 1..Len(sending) \/ i = Len(sending) + 1
    BY <1>1, <2>3
  <2>5. SendsKnown'
    BY <1>1, <2>1, <2>3, <2>4 DEF SendsKnown
  <2>6. sends' \in 0..MaxSends /\ Len(sending') <= sends'
    BY <1>1, <2>2, <2>3
  <2> QED
    BY <2>3, <2>5, <2>6 DEF SendsTyped
<1>3. ASSUME NEW i \in 1..Len(sending), NEW new \in Send,
             new.task \in Tasks /\ new.task + new.others \in Tasks,
             sending' = [sending EXCEPT ![i] = new], sends' = sends
      PROVE  SendsTyped'
  <2>1. /\ sending' \in Seq(Send) /\ Len(sending') = Len(sending)
        /\ \A j \in 1..Len(sending) : sending'[j] = IF j = i THEN new ELSE sending[j]
    BY <1>1, <1>3, ExceptSeq
  <2>2. SendsKnown'
    BY <1>1, <1>3, <2>1 DEF SendsKnown
  <2> QED
    BY <1>1, <1>3, <2>1, <2>2 DEF SendsTyped
<1>4. ASSUME NEW i \in 1..Len(sending), ServerStores(i)
      PROVE  SendsTyped'
  <2>1. PICK n \in 1..2 :
           /\ NextIds(n) \subseteq Tasks
           /\ LET first == CHOOSE t \in NextIds(n) : \A u \in NextIds(n) : t <= u
              IN sending' = [sending EXCEPT ![i] = [phase |-> "stored", task |-> first,
                                                   others |-> n - 1]]
    BY <1>4 DEF ServerStores
  <2>2. PICK k \in Tasks : NextIds(n) = k..(k + n - 1) /\ k + n - 1 \in Tasks
    BY <2>1, NextIdsNew
  <2>3. (CHOOSE t \in NextIds(n) : \A u \in NextIds(n) : t <= u) = k
    <3>1. /\ k \in NextIds(n) /\ \A u \in NextIds(n) : k <= u
          /\ \A t \in NextIds(n) : (\A u \in NextIds(n) : t <= u) => t = k
      BY <2>2, FirstOf
    <3> QED
      BY <3>1
  <2> DEFINE new == [phase |-> "stored", task |-> k, others |-> n - 1]
  <2>4. sending' = [sending EXCEPT ![i] = new] /\ sends' = sends
    BY <1>4, <2>1, <2>3 DEF ServerStores
  <2>5. n - 1 \in 0..1 /\ k + (n - 1) = k + n - 1
    BY <2>2 DEF Tasks
  <2>6. new \in Send /\ new.task \in Tasks /\ new.task + new.others \in Tasks
    BY <2>2, <2>5 DEF Send
  <2> HIDE DEF new
  <2> QED
    BY <1>3, <2>4, <2>6
<1>5. ASSUME NEW i \in 1..Len(sending), ServerPublishes(i)
      PROVE  SendsTyped'
  <2> DEFINE new == [sending[i] EXCEPT !.phase = "published"]
  <2>1. sending' = [sending EXCEPT ![i] = new] /\ sends' = sends
    BY <1>5 DEF ServerPublishes
  <2>2. /\ new \in Send /\ new.task = sending[i].task /\ new.others = sending[i].others
        /\ sending[i].phase # "sent"
    BY <1>1, <1>5 DEF ServerPublishes, Send
  <2> HIDE DEF new
  <2> QED
    BY <1>1, <1>3, <2>1, <2>2
<1>6. ASSUME NEW i \in 1..Len(sending), SendAnswered(i) \/ SendRefused(i)
      PROVE  SendsTyped'
  <2>1. sending' = Without(sending, i) /\ sends' = sends
    BY <1>6 DEF SendAnswered, SendRefused
  <2>2. /\ sending' \in Seq(Send) /\ Len(sending') = Len(sending) - 1
        /\ \A k \in 1..Len(sending') : \E j \in 1..Len(sending) : sending'[k] = sending[j]
    BY <1>1, <2>1, WithoutOne
  <2>3. SendsKnown'
    BY <1>1, <2>2 DEF SendsKnown
  <2>4. Len(sending') <= sends'
    BY <1>1, <2>1, <2>2
  <2> QED
    BY <1>1, <2>1, <2>2, <2>3, <2>4 DEF SendsTyped
<1>7. CASE UNCHANGED <<sending, sends>>
  BY <1>1, <1>7 DEF SendsTyped, SendsKnown
<1> QED
  BY <1>2, <1>4, <1>5, <1>6, <1>7

\* The cache's part.
CacheTyped == pending \in Entry(Pill) /\ messages \in Entry(List)

\* The handlers keep the types of the cache.
LEMMA HandleType ==
    ASSUME Typed, NEW e \in Event, Handle(e)
    PROVE  CacheTyped' /\ muddled' \in BOOLEAN
<1>1. pending \in Entry(Pill) /\ messages \in Entry(List) /\ shown \in BOOLEAN
      /\ muddled \in BOOLEAN
  BY DEF Typed, TypeOK
<1>2. None \in Pill /\ e.task \in Pill /\ pending.data \in Pill
  BY <1>1, FetchOf DEF Pill, Event
<1>3. /\ Written(pending, None) \in Entry(Pill)
      /\ Written(pending, e.task) \in Entry(Pill)
      /\ Written(pending, pending.data) \in Entry(Pill)
  BY <1>1, <1>2, WrittenOf
<1>4. /\ Invalidated(Written(pending, None)) \in Entry(Pill)
      /\ Invalidated(pending) \in Entry(Pill)
      /\ Invalidated(messages) \in Entry(List)
      /\ Crossed(Written(pending, None)) \in Entry(Pill)
  BY <1>1, <1>3, InvalidatedOf, CrossedOf
<1>5. CASE e.kind = "queued"
  BY <1>1, <1>3, <1>5 DEF Handle, OnQueued, CacheTyped
<1>6. CASE e.kind = "message"
  BY <1>1, <1>4, <1>6 DEF Handle, OnMessage, CacheTyped
<1>7. CASE e.kind = "dispatch"
  BY <1>1, <1>3, <1>7 DEF Handle, OnDispatch, CacheTyped
<1>8. CASE e.kind = "ended"
  BY <1>1, <1>4, <1>8 DEF Handle, OnEnded, CacheTyped
<1>9. CASE e.kind = "cancelled"
  BY <1>1, <1>4, <1>9 DEF Handle, OnCancelled, CacheTyped
<1> QED
  BY <1>5, <1>6, <1>7, <1>8, <1>9 DEF Event

\* So do the other steps of the window.
LEMMA WindowType ==
    ASSUME Typed,
           \/ HandleSend \/ HandleStop \/ Shows
           \/ \E i \in 1..Len(sending) : SendAnswered(i) \/ SendRefused(i)
           \/ PendingRead \/ PendingLands \/ MessagesRead \/ MessagesLand \/ Lose
    PROVE  /\ CacheTyped' /\ {muddled', patchy'} \subseteq BOOLEAN
           /\ shown' \in BOOLEAN /\ stopping' \subseteq Tasks
<1>1. /\ pending \in Entry(Pill) /\ messages \in Entry(List)
      /\ {shown, muddled, patchy} \subseteq BOOLEAN /\ stopping \subseteq Tasks
  BY DEF Typed, TypeOK
<1>2. /\ pending.crossed \in BOOLEAN /\ messages.crossed \in BOOLEAN
      /\ messages.data \in List
  BY <1>1, FetchOf
<1>3. None \in Pill /\ Temp \in Pill /\ Tasks \subseteq Pill /\ PendingTask \in Pill
  BY PendingIsLive DEF Pill
<1>4. CASE HandleSend
  <2>1. [messages.data EXCEPT !.optimistic = TRUE] \in List
    BY <1>2 DEF List
  <2> QED
    BY <1>1, <1>3, <1>4, <2>1, WrittenOf DEF HandleSend, CacheTyped, requests
<1>5. CASE HandleStop
  BY <1>1, <1>3, <1>5, WrittenOf, InvalidatedOf DEF HandleStop, CacheTyped
<1>6. CASE Shows
  BY <1>1, <1>6, FetchedOf DEF Shows, CacheTyped, requests
<1>7. ASSUME NEW i \in 1..Len(sending), SendAnswered(i)
      PROVE  /\ CacheTyped' /\ {muddled', patchy'} \subseteq BOOLEAN
             /\ shown' \in BOOLEAN /\ stopping' \subseteq Tasks
  <2>1. sending[i].task \in Pill
    BY <1>3, <1>7 DEF SendAnswered, Typed, SendsKnown
  <2> QED
    BY <1>1, <1>7, <2>1, WrittenOf, InvalidatedOf DEF SendAnswered, CacheTyped
<1>8. ASSUME NEW i \in 1..Len(sending), SendRefused(i)
      PROVE  /\ CacheTyped' /\ {muddled', patchy'} \subseteq BOOLEAN
             /\ shown' \in BOOLEAN /\ stopping' \subseteq Tasks
  BY <1>1, <1>8, CrossedOf DEF SendRefused, CacheTyped
<1>9. CASE PendingRead
  BY <1>1, <1>3, <1>9, AnsweredOf DEF PendingRead, CacheTyped, requests
<1>10. CASE PendingLands
  BY <1>1, <1>2, <1>10, LandedOf DEF PendingLands, CacheTyped, requests
<1>11. CASE MessagesRead
  <2>1. [upto |-> posted, optimistic |-> FALSE] \in List
    BY DEF List, Typed, TypeOK
  <2> QED
    BY <1>1, <1>11, <2>1, AnsweredOf DEF MessagesRead, CacheTyped, requests
<1>12. CASE MessagesLand
  BY <1>1, <1>2, <1>12, LandedOf DEF MessagesLand, CacheTyped, requests
<1>13. CASE Lose
  BY <1>1, <1>13, CrossedOf DEF Lose, CacheTyped, requests
<1> QED
  BY <1>4, <1>5, <1>6, <1>7, <1>8, <1>9, <1>10, <1>11, <1>12, <1>13

\* The parts make up the whole.
LEMMA TypedParts ==
    ASSUME ServerTyped', wire' \in Seq(Event), SendsTyped', CacheTyped',
           {shown', muddled', patchy'} \subseteq BOOLEAN, stopping' \subseteq Tasks
    PROVE  Typed'
<1>1. sending' \in Seq(Send) /\ Len(sending') \in Nat /\ Len(sending') <= sends'
      /\ sends' \in 0..MaxSends
  BY LenProperties DEF SendsTyped
<1>2. Len(sending') <= MaxSends
  BY <1>1, BoundsAssumption
<1>3. TypeOK'
  BY <1>1, <1>2 DEF TypeOK, ServerTyped, CacheTyped, States
<1> QED
  BY <1>1, <1>3 DEF Typed, ServerTyped, SendsTyped

\* The steps of the window neither make tasks nor end them.
LEMMA WindowLeavesServer ==
    ASSUME Typed, task' = task, upsets' = upsets \/ Upset,
           posted' = posted \/ (posted' = posted + 1 /\ Upset)
    PROVE  ServerTyped'
  BY ServerKeeps DEF Typed, TypeOK, States

\* The types hold at first, and every step keeps them.
LEMMA TypedInit == Init => Typed
<1> SUFFICES ASSUME Init PROVE Typed
  OBVIOUS
<1>1. {MaxTasks, MaxSends, MaxUpsets} \subseteq Nat /\ MaxPosted \in Nat
  BY BoundsAssumption DEF MaxPosted
<1>2. /\ Made \in SUBSET Tasks /\ Cardinality(Made) \in Nat
      /\ Over \in SUBSET Tasks /\ Cardinality(Over) \in Nat
  <2>1. Made \in SUBSET Tasks /\ Over \in SUBSET Tasks
    BY DEF Made, Over
  <2> QED
    BY <2>1, Counted
<1>3. \A Data : \A d \in Data : Loaded(d) \in Entry(Data)
  <2> SUFFICES ASSUME NEW Data, NEW d \in Data PROVE Loaded(d) \in Entry(Data)
    OBVIOUS
  <2>1. [at |-> "none"] \in [at : {"none", "sent"}] \cup [at : {"answered"}, with : Data]
    OBVIOUS
  <2> QED
    BY <2>1 DEF Loaded, Entry
<1>4. None \in Pill /\ [upto |-> 0, optimistic |-> FALSE] \in List
  BY <1>1 DEF Pill, List
<1>5. pending \in Entry(Pill) /\ messages \in Entry(List)
  BY <1>3, <1>4 DEF Init
<1>6. wire \in Seq(Event) /\ sending \in Seq(Send) /\ Len(sending) = 0
  BY EmptySeq DEF Init
<1>7. TypeOK
  <2>1. /\ task \in [Tasks -> {"none", "queued", "running", "ended"}]
        /\ shown \in BOOLEAN /\ stopping \subseteq Tasks
        /\ {muddled, patchy} \subseteq BOOLEAN
    BY DEF Init
  <2>2. /\ posted \in 0..MaxPosted /\ sends \in 0..MaxSends /\ upsets \in 0..MaxUpsets
        /\ Len(sending) <= MaxSends
    BY <1>1, <1>6 DEF Init
  <2> QED
    BY <1>5, <1>6, <2>1, <2>2 DEF TypeOK
<1>8. SendsKnown
  BY <1>6 DEF SendsKnown
<1>9. posted <= Cardinality(Made) + Cardinality(Over) + upsets
  BY <1>2 DEF Init
<1> QED
  BY <1>1, <1>6, <1>7, <1>8, <1>9 DEF Typed, Init

\* A step of the server, or of the window, keeps the types.
LEMMA TypedStep == Typed /\ [Next]_vars => Typed'
<1> SUFFICES ASSUME Typed, [Next]_vars PROVE Typed'
  OBVIOUS
<1>1. /\ wire \in Seq(Event) /\ CacheTyped /\ stopping \subseteq Tasks
      /\ {shown, muddled, patchy} \subseteq BOOLEAN
  BY DEF Typed, TypeOK, CacheTyped
<1>2. CASE \/ SendElsewhere
           \/ \E i \in 1..Len(sending) : ServerStores(i) \/ ServerPublishes(i)
           \/ \E t \in Tasks : \/ Starts(t) \/ Ends(t) \/ Retried(t)
                               \/ ServerStops(t) \/ CancelledElsewhere(t)
  <2>1. ServerTyped' /\ wire' \in Seq(Event)
    BY <1>2, ServerType
  <2>2. \/ \E i \in 1..Len(sending) : ServerStores(i) \/ ServerPublishes(i)
        \/ UNCHANGED <<sending, sends>>
    BY <1>2 DEF SendElsewhere, Starts, Ends, Retried, ServerStops, CancelledElsewhere,
                requests
  <2>3. SendsTyped'
    BY <2>2, SendsType
  <2>4. /\ UNCHANGED <<shown, pending, messages, muddled, patchy>>
        /\ stopping' \subseteq stopping
    BY <1>2 DEF SendElsewhere, ServerStores, ServerPublishes, Starts, Ends, Retried,
                ServerStops, CancelledElsewhere, requests
  <2> QED
    BY <1>1, <2>1, <2>3, <2>4, TypedParts DEF CacheTyped
<1>3. CASE \/ HandleSend \/ HandleStop \/ Shows
           \/ \E i \in 1..Len(sending) : SendAnswered(i) \/ SendRefused(i)
           \/ PendingRead \/ PendingLands \/ MessagesRead \/ MessagesLand \/ Lose
  <2>1. /\ CacheTyped' /\ {muddled', patchy'} \subseteq BOOLEAN
        /\ shown' \in BOOLEAN /\ stopping' \subseteq Tasks
    BY <1>3, WindowType
  <2>2. /\ task' = task /\ (upsets' = upsets \/ Upset)
        /\ posted' = posted \/ (posted' = posted + 1 /\ Upset)
    BY <1>3 DEF HandleSend, HandleStop, Shows, SendAnswered, SendRefused, PendingRead,
                PendingLands, MessagesRead, MessagesLand, Lose, server
  <2>3. ServerTyped'
    BY <2>2, WindowLeavesServer
  <2>4. \/ HandleSend
        \/ \E i \in 1..Len(sending) : SendAnswered(i) \/ SendRefused(i)
        \/ UNCHANGED <<sending, sends>>
    BY <1>3 DEF HandleStop, Shows, PendingRead, PendingLands, MessagesRead,
                MessagesLand, Lose, requests
  <2>5. SendsTyped'
    BY <2>4, SendsType
  <2>6. wire' = wire \/ (wire # <<>> /\ wire' = Tail(wire))
    <3>1. CASE Lose
      BY <3>1 DEF Lose
    <3>2. CASE HandleSend \/ HandleStop \/ Shows
      BY <3>2 DEF HandleSend, HandleStop, Shows
    <3>3. ASSUME NEW i \in 1..Len(sending), SendAnswered(i) \/ SendRefused(i)
          PROVE  wire' = wire
      BY <3>3 DEF SendAnswered, SendRefused
    <3>4. CASE PendingRead \/ PendingLands \/ MessagesRead \/ MessagesLand
      BY <3>4 DEF PendingRead, PendingLands, MessagesRead, MessagesLand
    <3> QED
      BY <1>3, <3>1, <3>2, <3>3, <3>4
  <2>7. wire' \in Seq(Event)
    BY <1>1, <2>6, TakenOff
  <2> QED
    BY <2>1, <2>3, <2>5, <2>7, TypedParts
<1>4. CASE Deliver
  <2>1. wire' \in Seq(Event) /\ Head(wire) \in Event
    BY <1>1, <1>4, TakenOff DEF Deliver
  <2>2. CacheTyped' /\ muddled' \in BOOLEAN
    BY <1>4, <2>1, HandleType DEF Deliver
  <2>3. /\ task' = task /\ posted' = posted /\ upsets' = upsets
        /\ UNCHANGED <<sending, sends>>
    BY <1>4 DEF Deliver, server, requests
  <2>4. ServerTyped'
    BY <2>3, WindowLeavesServer
  <2>5. SendsTyped'
    BY <2>3, SendsType
  <2> QED
    BY <1>1, <1>4, <2>1, <2>2, <2>4, <2>5, TypedParts DEF Deliver, requests
<1>5. CASE UNCHANGED vars
  <2>1. /\ task' = task /\ posted' = posted /\ upsets' = upsets
        /\ UNCHANGED <<sending, sends>>
    BY <1>5 DEF vars, server, requests
  <2>2. ServerTyped'
    BY <2>1, WindowLeavesServer
  <2>3. SendsTyped'
    BY <2>1, SendsType
  <2> QED
    BY <1>1, <1>5, <2>2, <2>3, TypedParts DEF vars, server, requests, CacheTyped
<1> QED
  BY <1>2, <1>3, <1>4, <1>5 DEF Next

\* Every reachable state of the chat window is well typed.
THEOREM TypesAlways == Spec => []TypeOK
<1>1. Typed => TypeOK
  BY DEF Typed
<1> QED
  BY <1>1, TypedInit, TypedStep, PTL DEF Spec

-------------------------------------------------------------------------------
(* The list. *)

\* A marked entry is being fetched while somebody looks at it.
Watched(e) == shown /\ e.invalid => e.fetch.at # "none"

Whole(list) == list = [upto |-> posted, optimistic |-> FALSE]

\* The window will fetch the list again: an event that asks for it, or the answer
\* of a send.
ListDue == Coming({"message", "ended"}) \/ sending # <<>>

\* An answer that was not overtaken is whole or will be asked for again; a list
\* at rest too, unless an event was lost or a send refused.
ListInv ==
    /\ Watched(messages)
    /\ messages.fetch.at = "answered" /\ ~messages.crossed =>
          Whole(messages.fetch.with) \/ ListDue
    /\ messages.fetch.at = "none" /\ ~patchy =>
          Whole(messages.data) \/ messages.invalid \/ ListDue

\* A mark settles it, whatever the server has become.
LEMMA ListMarked ==
    ASSUME Typed, messages' = Invalidated(messages), shown' = shown
    PROVE  ListInv'
<1>1. /\ messages \in Entry(List) /\ shown \in BOOLEAN
      /\ messages.fetch.at \in {"none", "sent", "answered"}
  <2>1. messages \in Entry(List) /\ shown \in BOOLEAN
    BY DEF Typed, TypeOK
  <2> QED
    BY <2>1, FetchOf
<1>2. /\ messages'.invalid
      /\ shown => messages'.fetch.at = "sent"
      /\ ~shown => messages'.crossed
  BY <1>1, InvalidatedOf
<1>3. CASE shown
  BY <1>2, <1>3 DEF ListInv, Watched
<1>4. CASE ~shown
  BY <1>2, <1>4 DEF ListInv, Watched
<1> QED
  BY <1>3, <1>4

\* A step that leaves the list alone, and asks for it if it stores a message.
LEMMA ListLeft ==
    ASSUME ListInv, messages' = messages, shown' = shown, patchy' = patchy,
           posted' = posted \/ ListDue', ListDue => ListDue'
    PROVE  ListInv'
  BY DEF ListInv, Watched, Whole

\* A step that overtakes the answers and remembers it.
LEMMA ListCrossed ==
    ASSUME Typed, ListInv, messages' = Crossed(messages), shown' = shown, patchy'
    PROVE  ListInv'
<1>1. /\ messages'.invalid = messages.invalid /\ messages'.fetch = messages.fetch
      /\ messages'.crossed
  <2>1. messages \in Entry(List)
    BY DEF Typed, TypeOK
  <2> QED
    BY <2>1, CrossedOf
<1> QED
  BY <1>1 DEF ListInv, Watched

\* The server's steps: what they store they announce.
LEMMA ListServer ==
    ASSUME Typed, ListInv,
           \/ SendElsewhere
           \/ \E i \in 1..Len(sending) : ServerStores(i) \/ ServerPublishes(i)
           \/ \E t \in Tasks : \/ Starts(t) \/ Ends(t) \/ Retried(t)
                               \/ ServerStops(t) \/ CancelledElsewhere(t)
    PROVE  ListInv'
<1>1. wire \in Seq(Event) /\ sending \in Seq(Send) /\ Len(sending) \in Nat
  BY LenProperties DEF Typed, TypeOK
<1>2. ASSUME NEW events \in Seq(Event), Publish(events), sending' = sending
      PROVE  ListDue => ListDue'
  <2>1. Coming({"message", "ended"}) => Coming({"message", "ended"})'
    BY <1>1, <1>2, PublishedAfter
  <2> QED
    BY <1>2, <2>1 DEF ListDue
<1>3. ASSUME NEW events \in Seq(Event), Publish(events), NEW i \in 1..Len(events),
             events[i].kind \in {"message", "ended"}
      PROVE  ListDue'
  <2>1. \E j \in 1..Len(wire') : wire'[j] = events[i]
    BY <1>1, <1>3, PublishedAfter
  <2> QED
    BY <1>3, <2>1 DEF ListDue, Coming
<1>4. CASE SendElsewhere
  <2>1. PICK t \in NextIds(1) :
           Publish(QueuedEvents(t, 1) \o <<[kind |-> "message", task |-> t]>>)
    BY <1>4 DEF SendElsewhere
  <2> DEFINE e == [kind |-> "message", task |-> t]
             events == QueuedEvents(t, 1) \o <<e>>
  <2>2. t \in Tasks /\ t + 1 - 1 \in Tasks /\ 1 \in 1..2
    BY <1>4, <2>1 DEF SendElsewhere, Tasks
  <2>3. e \in Event /\ e.kind = "message"
    BY <2>2 DEF Event
  <2> HIDE DEF e
  <2>4. events \in Seq(Event) /\ 1 + 1 \in 1..Len(events) /\ events[1 + 1] = e
    BY <2>2, <2>3, Announced
  <2>5. Publish(events)
    BY <2>1 DEF e
  <2> HIDE DEF events
  <2>6. ListDue'
    BY <1>3, <2>3, <2>4, <2>5
  <2> QED
    BY <1>4, <2>6, ListLeft DEF SendElsewhere
<1>5. ASSUME NEW i \in 1..Len(sending), ServerStores(i)
      PROVE  ListInv'
  <2>1. /\ messages' = messages /\ shown' = shown /\ patchy' = patchy
        /\ \E new : sending' = [sending EXCEPT ![i] = new]
    BY <1>5 DEF ServerStores
  <2>2. DOMAIN sending' = 1..Len(sending)
    BY <1>1, <2>1, LenProperties
  <2>3. DOMAIN <<>> = {}
    OBVIOUS
  <2>4. sending' # <<>>
    BY <1>1, <2>2, <2>3
  <2> QED
    BY <2>1, <2>4, ListLeft DEF ListDue
<1>6. ASSUME NEW i \in 1..Len(sending), ServerPublishes(i)
      PROVE  ListInv'
  <2>1. /\ messages' = messages /\ shown' = shown /\ patchy' = patchy
        /\ \E new : sending' = [sending EXCEPT ![i] = new]
    BY <1>6 DEF ServerPublishes
  <2>2. DOMAIN sending' = 1..Len(sending)
    BY <1>1, <2>1, LenProperties
  <2>3. DOMAIN <<>> = {}
    OBVIOUS
  <2>4. sending' # <<>>
    BY <1>1, <2>2, <2>3
  <2> QED
    BY <2>1, <2>4, ListLeft DEF ListDue
<1>7. ASSUME NEW t \in Tasks, Starts(t)
      PROVE  ListInv'
  <2>1. <<[kind |-> "dispatch", task |-> t]>> \in Seq(Event)
    BY Announced DEF Event
  <2>2. ListDue => ListDue'
    BY <1>2, <1>7, <2>1 DEF Starts, requests
  <2> QED
    BY <1>7, <2>2, ListLeft DEF Starts
<1>8. ASSUME NEW t \in Tasks, Ends(t)
      PROVE  ListInv'
  <2> DEFINE e == [kind |-> "ended", task |-> t]
  <2>1. e \in Event /\ e.kind = "ended"
    BY DEF Event
  <2>2. Publish(<<e>>)
    BY <1>8 DEF Ends
  <2> HIDE DEF e
  <2>3. <<e>> \in Seq(Event) /\ <<e>>[1] = e /\ 1 \in 1..Len(<<e>>)
    BY <2>1, Announced
  <2>4. ListDue'
    BY <1>3, <2>1, <2>2, <2>3
  <2> QED
    BY <1>8, <2>4, ListLeft DEF Ends
<1>9. ASSUME NEW t \in Tasks, Retried(t)
      PROVE  ListInv'
  <2> DEFINE e == [kind |-> "ended", task |-> t]
  <2>1. PICK u \in NextIds(1) : Publish(QueuedEvents(u, 1) \o <<e>>)
    BY <1>9 DEF Retried
  <2> DEFINE events == QueuedEvents(u, 1) \o <<e>>
  <2>2. u \in Tasks /\ u + 1 - 1 \in Tasks /\ 1 \in 1..2
    BY <1>9, <2>1 DEF Retried, Tasks
  <2>3. e \in Event /\ e.kind = "ended"
    BY DEF Event
  <2> HIDE DEF e
  <2>4. events \in Seq(Event) /\ 1 + 1 \in 1..Len(events) /\ events[1 + 1] = e
    BY <2>2, <2>3, Announced
  <2>5. Publish(events)
    BY <2>1
  <2> HIDE DEF events
  <2>6. ListDue'
    BY <1>3, <2>3, <2>4, <2>5
  <2> QED
    BY <1>9, <2>6, ListLeft DEF Retried
<1>10. ASSUME NEW t \in Tasks, ServerStops(t) \/ CancelledElsewhere(t)
       PROVE  ListInv'
  <2>1. <<[kind |-> "cancelled", task |-> t]>> \in Seq(Event)
    BY Announced DEF Event
  <2>2. /\ messages' = messages /\ shown' = shown /\ patchy' = patchy
        /\ posted' = posted /\ sending' = sending
        /\ wire' = wire \/ Publish(<<[kind |-> "cancelled", task |-> t]>>)
    BY <1>10 DEF ServerStops, CancelledElsewhere, requests
  <2>3. ListDue => ListDue'
    BY <1>2, <2>1, <2>2 DEF ListDue, Coming
  <2> QED
    BY <2>2, <2>3, ListLeft
<1> QED
  BY <1>4, <1>5, <1>6, <1>7, <1>8, <1>9, <1>10

\* The window's steps: a send leaves a request behind, what an answer stored was
\* asked for, and what was overtaken is remembered.
LEMMA ListWindow ==
    ASSUME Typed, ListInv,
           \/ HandleSend \/ HandleStop \/ Shows
           \/ \E i \in 1..Len(sending) : SendAnswered(i) \/ SendRefused(i)
           \/ PendingRead \/ PendingLands \/ MessagesRead \/ MessagesLand \/ Lose
    PROVE  ListInv'
<1>1. /\ messages \in Entry(List) /\ sending \in Seq(Send)
      /\ shown \in BOOLEAN /\ patchy \in BOOLEAN
  BY DEF Typed, TypeOK
<1>2. /\ messages.data \in List /\ messages.crossed \in BOOLEAN
      /\ messages.fetch.at \in {"none", "sent", "answered"}
  BY <1>1, FetchOf
<1>3. CASE HandleSend
  <2>1. [messages.data EXCEPT !.optimistic = TRUE] \in List
    BY <1>2 DEF List
  <2>2. ~messages'.invalid
    BY <1>1, <1>3, <2>1, WrittenOf DEF HandleSend
  <2>3. [phase |-> "sent", task |-> NoTask, others |-> 0] \in Send
    BY DEF Send
  <2>4. sending' # <<>>
    BY <1>1, <1>3, <2>3, AppendProperties DEF HandleSend
  <2> QED
    BY <2>2, <2>4 DEF ListInv, Watched, ListDue
<1>4. CASE HandleStop
  BY <1>4, ListMarked DEF HandleStop
<1>5. CASE Shows
  <2>1. /\ patchy' = patchy /\ posted' = posted /\ shown' = ~shown
        /\ ListDue' = ListDue
    BY <1>5 DEF Shows, ListDue, Coming, requests, server
  <2>2. CASE ~shown /\ messages.invalid
    <3>1. messages'.fetch.at = "sent"
      BY <1>1, <1>5, <2>2, FetchedOf DEF Shows
    <3> QED
      BY <3>1 DEF ListInv, Watched
  <2>3. CASE ~(~shown /\ messages.invalid)
    <3>1. messages' = messages
      BY <1>5, <2>3 DEF Shows
    <3> QED
      BY <1>1, <2>1, <2>3, <3>1 DEF ListInv, Watched, Whole
  <2> QED
    BY <2>2, <2>3
<1>6. ASSUME NEW i \in 1..Len(sending), SendAnswered(i)
      PROVE  ListInv'
  BY <1>6, ListMarked DEF SendAnswered
<1>7. ASSUME NEW i \in 1..Len(sending), SendRefused(i)
      PROVE  ListInv'
  BY <1>7, ListCrossed DEF SendRefused
<1>8. CASE PendingRead \/ PendingLands
  <2>1. /\ messages' = messages /\ shown' = shown /\ patchy' = patchy
        /\ posted' = posted /\ ListDue' = ListDue
    BY <1>8 DEF PendingRead, PendingLands, ListDue, Coming, requests, server
  <2> QED
    BY <2>1, ListLeft
<1>9. CASE MessagesRead
  <2>1. PICK all \in List : all = [upto |-> posted, optimistic |-> FALSE]
    BY DEF List, Typed, TypeOK
  <2>2. messages' = Answered(messages, all) /\ posted' = posted
    BY <1>9, <2>1 DEF MessagesRead, server
  <2>3. messages'.fetch.at = "answered" /\ messages'.fetch.with = all
    BY <1>1, <2>1, <2>2, AnsweredOf
  <2>4. messages'.fetch.with = [upto |-> posted', optimistic |-> FALSE]
    BY <2>1, <2>2, <2>3
  <2> QED
    BY <2>3, <2>4 DEF ListInv, Watched, Whole
<1>10. CASE MessagesLand
  <2>1. messages.fetch.at = "answered" /\ messages' = Landed(messages)
    BY <1>10 DEF MessagesLand
  <2>2. /\ messages'.data = messages.fetch.with /\ ~messages'.invalid
        /\ messages'.fetch.at = "none"
    BY <1>1, <2>1, LandedOf
  <2>3. patchy' = messages.crossed /\ posted' = posted /\ ListDue' = ListDue
    BY <1>10 DEF MessagesLand, ListDue, Coming, requests, server
  <2>4. ~messages.crossed => Whole(messages.fetch.with) \/ ListDue
    BY <2>1 DEF ListInv
  <2> QED
    BY <1>2, <2>2, <2>3, <2>4 DEF ListInv, Watched, Whole
<1>11. CASE Lose
  BY <1>11, ListCrossed DEF Lose
<1> QED
  BY <1>3, <1>4, <1>5, <1>6, <1>7, <1>8, <1>9, <1>10, <1>11

\* An event is handled: it asks for the list, or the list did not wait for it.
LEMMA ListDelivered ==
    ASSUME Typed, ListInv, Deliver
    PROVE  ListInv'
<1> DEFINE e == Head(wire)
<1>1. wire \in Seq(Event)
  BY DEF Typed, TypeOK
<1>2. /\ e \in Event
      /\ Coming({"message", "ended"}) =>
            e.kind \in {"message", "ended"} \/ Coming({"message", "ended"})'
  BY <1>1, TakenOff DEF Deliver
<1>3. /\ Handle(e) /\ shown' = shown /\ patchy' = patchy /\ posted' = posted
      /\ sending' = sending
  BY DEF Deliver, server, requests
<1> HIDE DEF e
<1>4. CASE e.kind \in {"message", "ended"}
  <2>1. messages' = Invalidated(messages)
    BY <1>3, <1>4 DEF Handle, OnMessage, OnEnded
  <2> QED
    BY <1>3, <2>1, ListMarked
<1>5. CASE e.kind \in {"queued", "dispatch", "cancelled"}
  <2>1. messages' = messages
    <3>1. CASE e.kind = "queued"
      BY <1>3, <3>1 DEF Handle, OnQueued
    <3>2. CASE e.kind = "dispatch"
      BY <1>3, <3>2 DEF Handle, OnDispatch
    <3>3. CASE e.kind = "cancelled"
      BY <1>3, <3>3 DEF Handle, OnCancelled
    <3> QED
      BY <1>5, <3>1, <3>2, <3>3
  <2>2. ListDue => ListDue'
    BY <1>2, <1>3, <1>5 DEF ListDue
  <2> QED
    BY <1>3, <2>1, <2>2, ListLeft
<1> QED
  BY <1>2, <1>4, <1>5 DEF Event

\* Once everything has arrived the list holds every message of the server, and no
\* optimistic one, unless an event of it was lost or a send refused since the last
\* refetch.
THEOREM RepliesAlways == Spec => []RepliesShown
<1>1. Init => ListInv
  BY DEF Init, ListInv, Watched, Whole, Loaded
<1>2. Typed /\ ListInv /\ [Next]_vars => ListInv'
  <2> SUFFICES ASSUME Typed, ListInv, [Next]_vars PROVE ListInv'
    OBVIOUS
  <2>1. CASE UNCHANGED vars
    BY <2>1 DEF vars, server, requests, ListInv, Watched, Whole, ListDue, Coming
  <2> QED
    BY <2>1, ListServer, ListWindow, ListDelivered DEF Next
<1>3. ListInv => RepliesShown
  <2> SUFFICES ASSUME ListInv, Quiet, ~patchy
               PROVE  messages.data = [upto |-> posted, optimistic |-> FALSE]
    BY DEF RepliesShown
  <2>1. shown /\ wire = <<>> /\ sending = <<>> /\ messages.fetch.at = "none"
    BY DEF Quiet
  <2>2. ~ListDue
    BY <2>1, EmptySeq DEF ListDue, Coming
  <2>3. ~messages.invalid
    BY <2>1 DEF ListInv, Watched
  <2> QED
    BY <2>1, <2>2, <2>3 DEF ListInv, Whole
<1> QED
  BY <1>1, <1>2, <1>3, TypedInit, TypedStep, PTL DEF Spec

-------------------------------------------------------------------------------
(* The pill. *)

\* A change of the task in flight the window has yet to learn of: the event that
\* makes it fetch, or the cancellation, or a send that is stored and not published.
TaskDue ==
    \/ Coming({"message", "ended", "cancelled"})
    \/ \E i \in 1..Len(sending) : sending[i].phase = "stored"

\* Something will set the pill: such a change, the answer of a send, or the end of
\* a live task the window asked to stop.
PillDue == TaskDue \/ sending # <<>> \/ \E t \in stopping : Live(t)

\* An answer that was not overtaken names the task in flight or another is due; so
\* does the pill at rest, unless a write told it wrong.
PillInv ==
    /\ Watched(pending)
    /\ Followed(wire)
    /\ pending.fetch.at = "answered" /\ ~pending.crossed =>
          pending.fetch.with = PendingTask \/ TaskDue
    /\ pending.fetch.at = "none" /\ ~muddled =>
          pending.data = PendingTask \/ pending.invalid \/ PillDue

\* The task in flight is a matter of which tasks are live.
LEMMA PendingSame ==
    ASSUME \A t \in Tasks : Live(t)' <=> Live(t)
    PROVE  PendingTask' = PendingTask
<1>1. {t \in Tasks : Live(t)'} = {t \in Tasks : Live(t)}
  OBVIOUS
<1> QED
  BY <1>1 DEF PendingTask

\* A mark settles it, whatever was written before.
LEMMA PillMarked ==
    ASSUME Typed, NEW e \in Entry(Pill), pending' = Invalidated(e), shown' = shown,
           Followed(wire')
    PROVE  PillInv'
<1>1. shown \in BOOLEAN
  BY DEF Typed, TypeOK
<1>2. /\ pending'.invalid
      /\ shown => pending'.fetch.at = "sent"
      /\ ~shown => pending'.crossed
  BY <1>1, InvalidatedOf
<1>3. CASE shown
  BY <1>2, <1>3 DEF PillInv, Watched
<1>4. CASE ~shown
  BY <1>2, <1>4 DEF PillInv, Watched
<1> QED
  BY <1>3, <1>4

\* A step that leaves the pill alone, and the task in flight too or makes it due.
LEMMA PillLeft ==
    ASSUME PillInv, pending' = pending, shown' = shown, muddled' = muddled,
           Followed(wire'), PendingTask' = PendingTask \/ TaskDue',
           TaskDue => TaskDue', PillDue => PillDue'
    PROVE  PillInv'
<1>1. TaskDue' => PillDue'
  BY DEF PillDue
<1> QED
  BY <1>1 DEF PillInv, Watched

\* A step that overtakes the answers and tells the pill wrong.
LEMMA PillCrossed ==
    ASSUME Typed, PillInv, pending' = Crossed(pending), shown' = shown, muddled',
           Followed(wire')
    PROVE  PillInv'
<1>1. /\ pending'.invalid = pending.invalid /\ pending'.fetch = pending.fetch
      /\ pending'.crossed
  <2>1. pending \in Entry(Pill)
    BY DEF Typed, TypeOK
  <2> QED
    BY <2>1, CrossedOf
<1> QED
  BY <1>1 DEF PillInv, Watched

\* What the server publishes about its tasks is due.
LEMMA PublishedDue ==
    ASSUME Typed, NEW events \in Seq(Event), Publish(events), NEW i \in 1..Len(events),
           events[i].kind \in {"message", "ended", "cancelled"}, Followed(events),
           PillInv, pending' = pending, shown' = shown, muddled' = muddled
    PROVE  PillInv'
<1>1. wire \in Seq(Event)
  BY DEF Typed, TypeOK
<1>2. Followed(wire') /\ \E j \in 1..Len(wire') : wire'[j] = events[i]
  BY <1>1, PublishedAfter DEF PillInv
<1>3. TaskDue' /\ PillDue'
  BY <1>2 DEF TaskDue, PillDue, Coming
<1> QED
  BY <1>2, <1>3, PillLeft

\* The server's steps: a change of its tasks is announced.
LEMMA PillServer ==
    ASSUME Typed, PillInv,
           \/ SendElsewhere
           \/ \E i \in 1..Len(sending) : ServerStores(i) \/ ServerPublishes(i)
           \/ \E t \in Tasks : \/ Starts(t) \/ Ends(t) \/ Retried(t)
                               \/ ServerStops(t) \/ CancelledElsewhere(t)
    PROVE  PillInv'
<1>1. /\ wire \in Seq(Event) /\ sending \in Seq(Send) /\ Len(sending) \in Nat
      /\ task \in [Tasks -> States] /\ Followed(wire)
  BY LenProperties DEF Typed, TypeOK, States, PillInv
<1>2. /\ UNCHANGED pending /\ UNCHANGED shown /\ UNCHANGED muddled
  BY DEF SendElsewhere, ServerStores, ServerPublishes, Starts, Ends, Retried,
         ServerStops, CancelledElsewhere
<1>3. CASE SendElsewhere
  <2>1. PICK t \in NextIds(1) :
           Publish(QueuedEvents(t, 1) \o <<[kind |-> "message", task |-> t]>>)
    BY <1>3 DEF SendElsewhere
  <2> DEFINE e == [kind |-> "message", task |-> t]
             events == QueuedEvents(t, 1) \o <<e>>
  <2>2. t \in Tasks /\ t + 1 - 1 \in Tasks /\ 1 \in 1..2
    BY <1>3, <2>1 DEF SendElsewhere, Tasks
  <2>3. e \in Event /\ e.kind = "message"
    BY <2>2 DEF Event
  <2>4. Publish(events)
    BY <2>1
  <2> HIDE DEF e
  <2>5. /\ events \in Seq(Event) /\ 1 + 1 \in 1..Len(events) /\ events[1 + 1] = e
        /\ Followed(events)
    BY <2>2, <2>3, Announced
  <2> HIDE DEF events
  <2> QED
    BY <1>2, <2>3, <2>4, <2>5, PublishedDue
<1>4. ASSUME NEW i \in 1..Len(sending), ServerStores(i)
      PROVE  PillInv'
  <2>1. PICK n \in 1..2 :
           LET first == CHOOSE t \in NextIds(n) : \A u \in NextIds(n) : t <= u
           IN sending' = [sending EXCEPT ![i] = [phase |-> "stored", task |-> first,
                                                 others |-> n - 1]]
    BY <1>4 DEF ServerStores
  <2>2. \E new : new.phase = "stored" /\ sending' = [sending EXCEPT ![i] = new]
    BY <2>1
  <2>3. i \in 1..Len(sending') /\ sending'[i].phase = "stored"
    <3>1. sending'[i].phase = "stored" /\ DOMAIN sending' = 1..Len(sending)
      BY <1>1, <2>2, LenProperties
    <3>2. sending' \in Seq(Send)
      BY <1>4, SendsType DEF SendsTyped
    <3> QED
      BY <3>1, <3>2, LenProperties
  <2>4. TaskDue' /\ PillDue'
    BY <2>3 DEF TaskDue, PillDue
  <2>5. wire' = wire
    BY <1>4 DEF ServerStores
  <2> QED
    BY <1>1, <1>2, <2>4, <2>5, PillLeft
<1>5. ASSUME NEW i \in 1..Len(sending), ServerPublishes(i)
      PROVE  PillInv'
  <2> DEFINE first == sending[i].task
             e == [kind |-> "message", task |-> first]
             n == 1 + sending[i].others
             events == QueuedEvents(first, n) \o <<e>>
  <2>1. sending[i] \in Send
    BY ElementOfSeq DEF Typed, TypeOK
  <2>2. first \in Tasks /\ n \in 1..2 /\ first + sending[i].others \in Tasks
    BY <1>5, <2>1 DEF ServerPublishes, Typed, SendsKnown, Send
  <2>3. first + n - 1 \in Tasks
    BY <2>1, <2>2 DEF Tasks, Send
  <2>4. e \in Event /\ e.kind = "message"
    BY <2>2 DEF Event
  <2>5. Publish(events)
    BY <1>5 DEF ServerPublishes
  <2> HIDE DEF first, n, e
  <2>6. /\ events \in Seq(Event) /\ n + 1 \in 1..Len(events) /\ events[n + 1] = e
        /\ Followed(events)
    BY <2>2, <2>3, <2>4, Announced
  <2> HIDE DEF events
  <2> QED
    BY <1>2, <2>4, <2>5, <2>6, PublishedDue
<1>6. ASSUME NEW t \in Tasks, Starts(t)
      PROVE  PillInv'
  <2> DEFINE e == [kind |-> "dispatch", task |-> t]
  <2>1. e \in Event /\ e.kind # "queued"
    BY DEF Event
  <2>2. Publish(<<e>>)
    BY <1>6 DEF Starts
  <2> HIDE DEF e
  <2>3. <<e>> \in Seq(Event) /\ Followed(<<e>>)
    BY <2>1, Announced
  <2>4. \A u \in Tasks : Live(u)' <=> Live(u)
    BY <1>1, <1>6 DEF Starts, Live
  <2>5. PendingTask' = PendingTask
    BY <2>4, PendingSame
  <2>6. /\ Followed(wire')
        /\ \A kinds : Coming(kinds) => Coming(kinds)'
    BY <1>1, <2>2, <2>3, PublishedAfter
  <2>7. sending' = sending /\ stopping' = stopping /\ stopping \subseteq Tasks
    BY <1>6 DEF Starts, requests, Typed, TypeOK
  <2>8. (TaskDue => TaskDue') /\ (PillDue => PillDue')
    BY <2>4, <2>6, <2>7 DEF TaskDue, PillDue
  <2> QED
    BY <1>2, <2>5, <2>6, <2>8, PillLeft
<1>7. ASSUME NEW t \in Tasks, Ends(t)
      PROVE  PillInv'
  <2> DEFINE e == [kind |-> "ended", task |-> t]
  <2>1. e \in Event /\ e.kind = "ended"
    BY DEF Event
  <2>2. Publish(<<e>>)
    BY <1>7 DEF Ends
  <2> HIDE DEF e
  <2>3. <<e>> \in Seq(Event) /\ <<e>>[1] = e /\ 1 \in 1..Len(<<e>>) /\ Followed(<<e>>)
    BY <2>1, Announced
  <2> QED
    BY <1>2, <2>1, <2>2, <2>3, PublishedDue
<1>8. ASSUME NEW t \in Tasks, Retried(t)
      PROVE  PillInv'
  <2> DEFINE e == [kind |-> "ended", task |-> t]
  <2>1. PICK u \in NextIds(1) : Publish(QueuedEvents(u, 1) \o <<e>>)
    BY <1>8 DEF Retried
  <2> DEFINE events == QueuedEvents(u, 1) \o <<e>>
  <2>2. u \in Tasks /\ u + 1 - 1 \in Tasks /\ 1 \in 1..2
    BY <1>8, <2>1 DEF Retried, Tasks
  <2>3. e \in Event /\ e.kind = "ended"
    BY DEF Event
  <2>4. Publish(events)
    BY <2>1
  <2> HIDE DEF e
  <2>5. /\ events \in Seq(Event) /\ 1 + 1 \in 1..Len(events) /\ events[1 + 1] = e
        /\ Followed(events)
    BY <2>2, <2>3, Announced
  <2> HIDE DEF events
  <2> QED
    BY <1>2, <2>3, <2>4, <2>5, PublishedDue
<1>9. ASSUME NEW t \in Tasks, ServerStops(t) \/ CancelledElsewhere(t)
      PROVE  PillInv'
  <2> DEFINE e == [kind |-> "cancelled", task |-> t]
  <2>1. e \in Event /\ e.kind = "cancelled"
    BY DEF Event
  <2>2. CASE Live(t)
    <3>1. Publish(<<e>>)
      BY <1>9, <2>2 DEF ServerStops, CancelledElsewhere
    <3> HIDE DEF e
    <3>2. <<e>> \in Seq(Event) /\ <<e>>[1] = e /\ 1 \in 1..Len(<<e>>) /\ Followed(<<e>>)
      BY <2>1, Announced
    <3> QED
      BY <1>2, <2>1, <3>1, <3>2, PublishedDue
  <2>3. CASE ~Live(t)
    <3>1. /\ task' = task /\ wire' = wire /\ sending' = sending
          /\ stopping' = stopping \ {t}
      BY <1>9, <2>3 DEF ServerStops, CancelledElsewhere
    <3>2. PendingTask' = PendingTask /\ \A u : Live(u)' <=> Live(u)
      BY <3>1, PendingSame DEF Live
    <3>3. (TaskDue => TaskDue') /\ (PillDue => PillDue')
      BY <2>3, <3>1, <3>2 DEF TaskDue, PillDue, Coming
    <3> QED
      BY <1>1, <1>2, <3>1, <3>2, <3>3, PillLeft
  <2> QED
    BY <2>2, <2>3
<1> QED
  BY <1>3, <1>4, <1>5, <1>6, <1>7, <1>8, <1>9

\* The window's steps: Stop leaves a request behind for a live task, a send one of
\* its own; an answer that comes too late tells the pill wrong.
LEMMA PillWindow ==
    ASSUME Typed, PillInv,
           \/ HandleSend \/ HandleStop \/ Shows
           \/ \E i \in 1..Len(sending) : SendAnswered(i) \/ SendRefused(i)
           \/ PendingRead \/ PendingLands \/ MessagesRead \/ MessagesLand \/ Lose
    PROVE  PillInv'
<1>1. /\ pending \in Entry(Pill) /\ sending \in Seq(Send) /\ Len(sending) \in Nat
      /\ {shown, muddled} \subseteq BOOLEAN /\ stopping \subseteq Tasks
      /\ wire \in Seq(Event) /\ Followed(wire)
  BY LenProperties DEF Typed, TypeOK, PillInv
<1>2. /\ pending.data \in Pill /\ pending.crossed \in BOOLEAN
      /\ pending.fetch.at \in {"none", "sent", "answered"}
  BY <1>1, FetchOf
<1>3. None \in Pill /\ Temp \in Pill /\ Tasks \subseteq Pill /\ PendingTask \in Pill
  BY PendingIsLive DEF Pill
<1>4. task' = task
  BY DEF HandleSend, HandleStop, Shows, SendAnswered, SendRefused, PendingRead,
         PendingLands, MessagesRead, MessagesLand, Lose, server
<1>5. PendingTask' = PendingTask /\ \A t : Live(t)' <=> Live(t)
  BY <1>4, PendingSame DEF Live
<1>6. CASE HandleSend
  <2>1. /\ pending'.fetch = pending.fetch /\ pending'.crossed = pending.crossed
        /\ ~pending'.invalid
    BY <1>1, <1>3, <1>6, WrittenOf DEF HandleSend
  <2>2. [phase |-> "sent", task |-> NoTask, others |-> 0] \in Send
    BY DEF Send
  <2>3. /\ sending' # <<>> /\ Len(sending') = Len(sending) + 1
        /\ \A i \in 1..Len(sending) : sending'[i] = sending[i]
    BY <1>1, <1>6, <2>2, AppendProperties DEF HandleSend
  <2>4. \A i \in 1..Len(sending) : i \in 1..Len(sending')
    BY <1>1, <2>3
  <2>5. wire' = wire
    BY <1>6 DEF HandleSend
  <2>6. (TaskDue => TaskDue') /\ PillDue'
    BY <2>3, <2>4, <2>5 DEF TaskDue, PillDue, Coming
  <2> QED
    BY <1>1, <1>5, <2>1, <2>5, <2>6 DEF PillInv, Watched
<1>7. CASE HandleStop
  <2>1. /\ pending'.fetch = pending.fetch /\ pending'.crossed = pending.crossed
        /\ ~pending'.invalid
    BY <1>1, <1>3, <1>7, WrittenOf DEF HandleStop
  <2>2. /\ shown /\ pending.data # None /\ muddled' = muddled
        /\ wire' = wire /\ sending' = sending
        /\ stopping' = stopping \cup ({pending.data} \cap Tasks)
    BY <1>7 DEF HandleStop
  <2>3. (TaskDue => TaskDue') /\ (PillDue => PillDue')
    BY <1>5, <2>2 DEF TaskDue, PillDue, Coming
  <2>4. ASSUME pending.fetch.at = "none", ~muddled
        PROVE  PillDue'
    <3>1. pending.data = PendingTask \/ PillDue
      BY <2>2, <2>4 DEF PillInv, Watched
    <3>2. CASE pending.data = PendingTask
      <4>1. PendingTask \in Tasks /\ Live(PendingTask)
        BY <2>2, <3>2, PendingIsLive
      <4>2. PendingTask \in stopping' /\ Live(PendingTask)
        BY <2>2, <3>2, <4>1
      <4>3. \E t \in stopping' : Live(t)'
        BY <1>5, <4>2
      <4> QED
        BY <4>3 DEF PillDue
    <3> QED
      BY <2>3, <3>1, <3>2
  <2> QED
    BY <1>1, <1>5, <2>1, <2>2, <2>3, <2>4 DEF PillInv, Watched
<1>8. CASE Shows
  <2>1. /\ muddled' = muddled /\ shown' = ~shown /\ wire' = wire
        /\ sending' = sending /\ stopping' = stopping
    BY <1>8 DEF Shows, requests
  <2>2. (TaskDue => TaskDue') /\ (PillDue => PillDue')
    BY <1>5, <2>1 DEF TaskDue, PillDue, Coming
  <2>3. CASE ~shown /\ pending.invalid
    <3>1. pending'.fetch.at = "sent"
      BY <1>1, <1>8, <2>3, FetchedOf DEF Shows
    <3> QED
      BY <1>1, <2>1, <3>1 DEF PillInv, Watched
  <2>4. CASE ~(~shown /\ pending.invalid)
    <3>1. pending' = pending
      BY <1>8, <2>4 DEF Shows
    <3> QED
      BY <1>1, <1>5, <2>1, <2>2, <2>4, <3>1 DEF PillInv, Watched
  <2> QED
    BY <2>3, <2>4
<1>9. ASSUME NEW i \in 1..Len(sending), SendAnswered(i)
      PROVE  PillInv'
  <2> DEFINE answer == sending[i].task
  <2>1. /\ sending[i].phase = "published" /\ answer \in Pill
        /\ pending' = Written(pending, answer)
        /\ sending' = Without(sending, i) /\ shown' = shown /\ wire' = wire
        /\ muddled' = (muddled \/ PendingTask # answer)
    BY <1>3, <1>9 DEF SendAnswered, Typed, SendsKnown
  <2> HIDE DEF answer
  <2>2. /\ pending'.fetch = pending.fetch /\ pending'.crossed = pending.crossed
        /\ ~pending'.invalid /\ pending'.data = answer
    BY <1>1, <2>1, WrittenOf
  <2>3. \A j \in 1..Len(sending) :
           j # i => \E k \in 1..Len(sending') : sending'[k] = sending[j]
    BY <1>1, <2>1, WithoutOne
  <2>4. TaskDue => TaskDue'
    BY <2>1, <2>3 DEF TaskDue, Coming
  <2>5. ~muddled' => pending'.data = PendingTask'
    BY <1>5, <2>1, <2>2
  <2> QED
    BY <1>1, <1>5, <2>1, <2>2, <2>4, <2>5 DEF PillInv, Watched
<1>10. ASSUME NEW i \in 1..Len(sending), SendRefused(i)
       PROVE  PillInv'
  BY <1>1, <1>10, PillCrossed DEF SendRefused
<1>11. CASE PendingRead
  <2>1. pending' = Answered(pending, PendingTask)
    BY <1>11 DEF PendingRead
  <2>2. /\ pending'.invalid = pending.invalid /\ pending'.fetch.at = "answered"
        /\ pending'.fetch.with = PendingTask
    BY <1>1, <1>3, <2>1, AnsweredOf
  <2>3. wire' = wire
    BY <1>11 DEF PendingRead
  <2> QED
    BY <1>1, <1>5, <2>2, <2>3 DEF PillInv, Watched
<1>12. CASE PendingLands
  <2>1. pending.fetch.at = "answered" /\ pending' = Landed(pending)
    BY <1>12 DEF PendingLands
  <2>2. /\ pending'.data = pending.fetch.with /\ ~pending'.invalid
        /\ pending'.fetch.at = "none"
    BY <1>1, <2>1, LandedOf
  <2>3. muddled' = pending.crossed /\ wire' = wire /\ sending' = sending
    BY <1>12 DEF PendingLands, requests
  <2>4. ~muddled' => pending.fetch.with = PendingTask \/ TaskDue
    BY <2>1, <2>3 DEF PillInv
  <2>5. TaskDue => PillDue'
    BY <2>3 DEF TaskDue, PillDue, Coming
  <2> QED
    BY <1>1, <1>5, <2>2, <2>3, <2>4, <2>5 DEF PillInv, Watched
<1>13. CASE MessagesRead \/ MessagesLand
  <2>1. /\ pending' = pending /\ shown' = shown /\ muddled' = muddled
        /\ wire' = wire /\ sending' = sending /\ stopping' = stopping
    BY <1>13 DEF MessagesRead, MessagesLand, requests
  <2>2. (TaskDue => TaskDue') /\ (PillDue => PillDue')
    BY <1>5, <2>1 DEF TaskDue, PillDue, Coming
  <2> QED
    BY <1>1, <1>5, <2>1, <2>2, PillLeft
<1>14. CASE Lose
  <2>1. Followed(wire')
    BY <1>1, <1>14, TakenOff DEF Lose
  <2> QED
    BY <1>14, <2>1, PillCrossed DEF Lose
<1> QED
  BY <1>6, <1>7, <1>8, <1>9, <1>10, <1>11, <1>12, <1>13, <1>14

\* An event is handled: a refetch settles it; an announcement is followed by one; a
\* cancellation empties the pill, and is wrong when another task is in flight.
LEMMA PillDelivered ==
    ASSUME Typed, PillInv, Deliver
    PROVE  PillInv'
<1> DEFINE e == Head(wire)
<1>1. /\ wire \in Seq(Event) /\ Followed(wire) /\ pending \in Entry(Pill)
      /\ {shown, muddled} \subseteq BOOLEAN
  BY DEF Typed, TypeOK, PillInv
<1>2. /\ wire # <<>> /\ wire' = Tail(wire) /\ Handle(e) /\ shown' = shown
      /\ task' = task /\ sending' = sending /\ stopping' = stopping
  BY DEF Deliver, server, requests
<1>3. /\ e \in Event /\ Followed(wire')
      /\ \A kinds : Coming(kinds) => e.kind \in kinds \/ Coming(kinds)'
      /\ e.kind = "queued" => Coming({"message", "ended"})'
  BY <1>1, <1>2, TakenOff
<1> HIDE DEF e
<1>4. PendingTask' = PendingTask /\ \A t : Live(t)' <=> Live(t)
  BY <1>2, PendingSame DEF Live
<1>5. None \in Pill /\ e.task \in Pill /\ pending.data \in Pill
  BY <1>1, <1>3, FetchOf DEF Pill, Event
<1>6. e.kind \notin {"message", "ended", "cancelled"} =>
         (TaskDue => TaskDue') /\ (PillDue => PillDue')
  BY <1>2, <1>3, <1>4 DEF TaskDue, PillDue
<1>7. CASE e.kind = "message"
  <2>1. pending' = Invalidated(pending)
    BY <1>2, <1>7 DEF Handle, OnMessage
  <2> QED
    BY <1>1, <1>2, <1>3, <2>1, PillMarked
<1>8. CASE e.kind = "ended"
  <2>1. pending' = Invalidated(Written(pending, None))
    BY <1>2, <1>8 DEF Handle, OnEnded
  <2>2. Written(pending, None) \in Entry(Pill)
    BY <1>1, <1>5, WrittenOf
  <2> QED
    BY <1>2, <1>3, <2>1, <2>2, PillMarked
<1>9. CASE e.kind = "cancelled"
  <2>1. /\ pending' = Crossed(Written(pending, None))
        /\ muddled' = (muddled \/ PendingTask # None \/ Unmarks)
    BY <1>2, <1>9 DEF Handle, OnCancelled
  <2>2. /\ Written(pending, None) \in Entry(Pill)
        /\ Written(pending, None).data = None /\ ~Written(pending, None).invalid
    BY <1>1, <1>5, WrittenOf
  <2>3. pending'.data = None /\ ~pending'.invalid /\ pending'.crossed
    BY <2>1, <2>2, CrossedOf
  <2> QED
    BY <1>3, <1>4, <2>1, <2>3 DEF PillInv, Watched
<1>10. CASE e.kind = "queued"
  <2>1. pending' = Written(pending, e.task)
    BY <1>2, <1>10 DEF Handle, OnQueued
  <2>2. ~pending'.invalid
    BY <1>1, <1>5, <2>1, WrittenOf
  <2>3. TaskDue' /\ PillDue'
    BY <1>3, <1>10 DEF TaskDue, PillDue, Coming
  <2> QED
    BY <1>3, <2>2, <2>3 DEF PillInv, Watched
<1>11. CASE e.kind = "dispatch"
  <2>1. /\ pending' = Written(pending, pending.data)
        /\ muddled' = (muddled \/ Unmarks)
    BY <1>2, <1>11 DEF Handle, OnDispatch
  <2>2. /\ pending'.data = pending.data /\ ~pending'.invalid
        /\ pending'.fetch = pending.fetch /\ pending'.crossed = pending.crossed
    BY <1>1, <1>5, <2>1, WrittenOf
  <2>3. (TaskDue => TaskDue') /\ (PillDue => PillDue')
    BY <1>6, <1>11
  <2>4. ASSUME pending'.fetch.at = "none", ~muddled'
        PROVE  pending'.data = PendingTask' \/ PillDue'
    <3>1. ~pending.invalid
      BY <2>1, <2>2, <2>4 DEF Unmarks, PillInv, Watched
    <3> QED
      BY <1>4, <2>1, <2>2, <2>3, <2>4, <3>1 DEF PillInv
  <2> QED
    BY <1>3, <1>4, <2>2, <2>3, <2>4 DEF PillInv, Watched
<1> QED
  BY <1>3, <1>7, <1>8, <1>9, <1>10, <1>11 DEF Event

\* Once everything has arrived the pill names the task the server has in flight, and
\* none when there is none, unless a write told it wrong since the last refetch.
THEOREM PillAlways == Spec => []PillSettles
<1>1. Init => PillInv
  <2> SUFFICES ASSUME Init PROVE PillInv
    OBVIOUS
  <2>1. \A t \in Tasks : ~Live(t)
    BY DEF Init, Live
  <2>2. PendingTask = None
    BY <2>1 DEF PendingTask
  <2> QED
    BY <2>2 DEF Init, PillInv, Watched, Followed, Loaded
<1>2. Typed /\ PillInv /\ [Next]_vars => PillInv'
  <2> SUFFICES ASSUME Typed, PillInv, [Next]_vars PROVE PillInv'
    OBVIOUS
  <2>1. CASE UNCHANGED vars
    <3>1. /\ task' = task /\ wire' = wire /\ sending' = sending
          /\ stopping' = stopping /\ pending' = pending /\ shown' = shown
          /\ muddled' = muddled
      BY <2>1 DEF vars, server, requests
    <3>2. PendingTask' = PendingTask /\ \A t : Live(t)' <=> Live(t)
      BY <3>1, PendingSame DEF Live
    <3>3. (TaskDue => TaskDue') /\ (PillDue => PillDue')
      BY <3>1, <3>2 DEF TaskDue, PillDue, Coming
    <3> QED
      BY <3>1, <3>2, <3>3, PillLeft DEF PillInv
  <2> QED
    BY <2>1, PillServer, PillWindow, PillDelivered DEF Next
<1>3. PillInv => PillSettles
  <2> SUFFICES ASSUME PillInv, Quiet, ~muddled
               PROVE  pending.data = PendingTask
    BY DEF PillSettles
  <2>1. /\ shown /\ wire = <<>> /\ sending = <<>> /\ stopping = {}
        /\ pending.fetch.at = "none"
    BY DEF Quiet
  <2>2. ~PillDue
    BY <2>1, EmptySeq DEF PillDue, TaskDue, Coming
  <2>3. ~pending.invalid
    BY <2>1 DEF PillInv, Watched
  <2> QED
    BY <2>1, <2>2, <2>3 DEF PillInv
<1> QED
  BY <1>1, <1>2, <1>3, TypedInit, TypedStep, PTL DEF Spec
==================================================================================
