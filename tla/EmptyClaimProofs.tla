--------------------------- MODULE EmptyClaimProofs ---------------------------
(***************************************************************************)
(* Proofs about EmptyClaim, for any number of runtimes, claims and rows,   *)
(* with Redis failing or not.                                              *)
(***************************************************************************)
EXTENDS EmptyClaim, TLAPS

\* A claim under way and a Bump that was due are about a runtime.
RuntimesKnown ==
    /\ \A p \in Claimers : poll[p].pc # "idle" => poll[p].runtime \in Runtimes
    /\ \A t \in Rows : bump[t].pc # "none" => bump[t].runtime \in Runtimes

\* A row is on the runtime its enqueue bumps, or a merge has moved it to one that
\* no merge takes it away from.
MovedOnce ==
    \A t \in Rows : bump[t].pc # "none" =>
        bump[t].runtime = runtime[t] \/ runtime[t] \notin Legacy

\* What was sampled and what a verdict carries is no newer than the version: as
\* versions only grow while one of the two is there, an equal one means that no
\* enqueue has bumped in between.
NoneAhead ==
    /\ \A p \in Claimers : poll[p].pc \in {"select", "mark"} =>
           poll[p].pre <= version[poll[p].runtime]
    /\ \A r \in Runtimes : verdict[r] # NONE => verdict[r] <= version[r]

\* The invariant that every step preserves.
CacheInv == TypeOK /\ RuntimesKnown /\ MovedOnce /\ NoneAhead /\ SampleHolds /\ NeverHidden

-------------------------------------------------------------------------------
(* Types. *)

\* Nothing is queued, sampled or hidden at first.
LEMMA InitInvariant == Init => CacheInv
<1> SUFFICES ASSUME Init
             PROVE  CacheInv
  OBVIOUS
<1>1. TypeOK
  BY EmptyClaimAssumption DEF Init, TypeOK, NoBump, Bumping, NoPoll, Poll
<1>2. RuntimesKnown /\ MovedOnce /\ NoneAhead /\ SampleHolds
  BY DEF Init, RuntimesKnown, MovedOnce, NoneAhead, SampleHolds, NoBump, NoPoll
<1>3. NeverHidden
  BY DEF Init, NeverHidden, Announced
<1> QED
  BY <1>1, <1>2, <1>3 DEF CacheInv

Known == TypeOK /\ RuntimesKnown

\* An enqueue keeps the types.
LEMMA EnqueueingTypes ==
    ASSUME Known, Enqueueing
    PROVE  Known'
<1>1. ASSUME NEW t \in Rows, NEW r \in Runtimes, Insert(t, r) \/ InsertBackground(t, r)
      PROVE  Known'
  BY <1>1 DEF Insert, InsertBackground, Known, TypeOK, RuntimesKnown, Bumping
<1>2. ASSUME NEW t \in Rows, Bump(t)
      PROVE  Known'
  <2>1. bump[t].runtime \in Runtimes /\ bump[t].pc = "due"
    BY <1>2 DEF Bump, Known, RuntimesKnown
  <2>2. version' \in [Runtimes -> 0..MaxVersion]
    BY <1>2, <2>1, EmptyClaimAssumption DEF Bump, Known, TypeOK
  <2>3. bump' \in [Rows -> Bumping]
    BY <1>2, <2>1 DEF Bump, Known, TypeOK, Bumping
  <2>4. RuntimesKnown'
    BY <1>2, <2>1 DEF Bump, Known, TypeOK, RuntimesKnown, Bumping
  <2> QED
    BY <1>2, <2>2, <2>3, <2>4 DEF Bump, Known, TypeOK
<1>3. ASSUME NEW t \in Rows, BumpFails(t)
      PROVE  Known'
  <2>1. bump' \in [Rows -> Bumping]
    BY <1>3 DEF BumpFails, Known, TypeOK, Bumping
  <2>2. \A u \in Rows : bump'[u].runtime = bump[u].runtime /\ (bump'[u].pc # "none" => bump[u].pc # "none")
    BY <1>3 DEF BumpFails, Known, TypeOK, Bumping
  <2> QED
    BY <1>3, <2>1, <2>2 DEF BumpFails, Known, TypeOK, RuntimesKnown
<1>4. ASSUME NEW t \in Rows, Leave(t)
      PROVE  Known'
  BY <1>4 DEF Leave, Known, TypeOK, RuntimesKnown
<1> QED
  BY <1>1, <1>2, <1>3, <1>4 DEF Enqueueing

\* So does a claim.
LEMMA ClaimingTypes ==
    ASSUME Known, NEW p \in Claimers, Claiming(p)
    PROVE  Known'
<1>a. 0 \in 0..MaxVersion /\ NoPoll \in Poll
  BY EmptyClaimAssumption DEF NoPoll, Poll
<1>1. ASSUME NEW r \in Runtimes, CacheMiss(p, r)
      PROVE  Known'
  BY <1>1, <1>a DEF CacheMiss, NoPoll, Poll, Known, TypeOK, RuntimesKnown
<1>2. CASE Sample(p)
  <2>1. PICK v \in 0..MaxVersion : poll' = [poll EXCEPT ![p].pc = "select", ![p].pre = v]
    BY <1>2, <1>a DEF Sample, Known, TypeOK, RuntimesKnown
  <2>2. poll' \in [Claimers -> Poll]
    BY <2>1 DEF Known, TypeOK, Poll
  <2>3. \A q \in Claimers : poll'[q].runtime = poll[q].runtime
                           /\ (poll'[q].pc # "idle" => poll[q].pc # "idle")
    BY <1>2, <2>1 DEF Sample, Known, TypeOK, Poll
  <2> QED
    BY <1>2, <2>2, <2>3 DEF Sample, Known, TypeOK, RuntimesKnown
<1>3. CASE SelectEmpty(p)
  BY <1>3 DEF SelectEmpty, Known, TypeOK, RuntimesKnown, Poll
<1>4. CASE SelectRows(p)
  BY <1>4, <1>a DEF SelectRows, QueuedFor, Known, TypeOK, RuntimesKnown, NoPoll
<1>5. CASE MarkEmpty(p)
  BY <1>5, <1>a DEF MarkEmpty, Known, TypeOK, RuntimesKnown, NoPoll, Poll
<1>6. CASE MarkFails(p)
  BY <1>6, <1>a DEF MarkFails, Known, TypeOK, RuntimesKnown, NoPoll
<1> QED
  BY <1>1, <1>2, <1>3, <1>4, <1>5, <1>6 DEF Claiming

\* And time and merges.
LEMMA OtherTypes ==
    ASSUME Known, Expiry \/ \E old, new \in Runtimes : Merge(old, new)
    PROVE  Known'
<1>1. ASSUME NEW r \in Runtimes, VerdictExpires(r)
      PROVE  Known'
  BY <1>1 DEF VerdictExpires, Known, TypeOK, RuntimesKnown
<1>2. ASSUME NEW r \in Runtimes, VersionExpires(r)
      PROVE  Known'
  BY <1>2, EmptyClaimAssumption DEF VersionExpires, Known, TypeOK, RuntimesKnown
<1>3. ASSUME NEW old \in Runtimes, NEW new \in Runtimes, Merge(old, new)
      PROVE  Known'
  BY <1>3 DEF Merge, Known, TypeOK, RuntimesKnown
<1> QED
  BY <1>1, <1>2, <1>3 DEF Expiry

\* Every step keeps the types.
LEMMA StepTypes ==
    ASSUME Known, [Next]_vars
    PROVE  Known'
<1>1. CASE UNCHANGED vars
  BY <1>1 DEF vars, Known, TypeOK, RuntimesKnown
<1> QED
  BY <1>1, EnqueueingTypes, ClaimingTypes, OtherTypes DEF Next

-------------------------------------------------------------------------------
(* What a step may change. *)

\* Rows move from a legacy runtime to another kind only, and only then.
LEMMA MovedStep ==
    ASSUME Known, MovedOnce, [Next]_vars
    PROVE  MovedOnce'
<1> USE DEF Known, TypeOK, MovedOnce
<1>1. ASSUME NEW t \in Rows, NEW r \in Runtimes, Insert(t, r) \/ InsertBackground(t, r)
      PROVE  MovedOnce'
  BY <1>1 DEF Insert, InsertBackground
<1>2. ASSUME NEW t \in Rows, Bump(t) \/ BumpFails(t)
      PROVE  MovedOnce'
  <2>1. \A u \in Rows : bump'[u].runtime = bump[u].runtime /\ (bump'[u].pc # "none" => bump[u].pc # "none")
    <3>1. bump[t].pc = "due" /\ \E pc : bump' = [bump EXCEPT ![t].pc = pc]
      BY <1>2 DEF Bump, BumpFails
    <3> QED
      BY <3>1 DEF Bumping
  <2> QED
    BY <1>2, <2>1 DEF Bump, BumpFails
<1>3. ASSUME NEW old \in Runtimes, NEW new \in Runtimes, Merge(old, new)
      PROVE  MovedOnce'
  BY <1>3 DEF Merge
<1>4. ASSUME UNCHANGED <<runtime, bump>>
      PROVE  MovedOnce'
  BY <1>4
<1>5. ASSUME NEW p \in Claimers, Claiming(p)
      PROVE  UNCHANGED <<runtime, bump>>
  BY <1>5 DEF Claiming, CacheMiss, Sample, SelectEmpty, SelectRows, MarkEmpty, MarkFails
<1>6. Expiry => UNCHANGED <<runtime, bump>>
  BY DEF Expiry, VerdictExpires, VersionExpires
<1> QED
  BY <1>1, <1>2, <1>3, <1>4, <1>5, <1>6 DEF Next, Enqueueing, Leave, vars

\* A row becomes announced by the bump of the runtime it is on, in no other step.
LEMMA AnnouncedStep ==
    ASSUME Known, MovedOnce, [Next]_vars, NEW t \in Rows, Announced(t)'
    PROVE  /\ runtime'[t] \in Runtimes
           /\ \/ Announced(t) /\ runtime'[t] = runtime[t]
              \/ /\ version' = [version EXCEPT ![runtime'[t]] = @ + 1]
                 /\ UNCHANGED <<place, runtime, verdict, poll>>
<1> USE DEF Known, TypeOK, MovedOnce, RuntimesKnown
<1>0. runtime'[t] \in Runtimes
  BY StepTypes DEF Announced
<1>1. ASSUME NEW u \in Rows, NEW r \in Runtimes, Insert(u, r) \/ InsertBackground(u, r)
      PROVE  Announced(t) /\ runtime'[t] = runtime[t]
  BY <1>1 DEF Insert, InsertBackground, Announced
<1>2. ASSUME NEW u \in Rows, Bump(u)
      PROVE  \/ Announced(t) /\ runtime'[t] = runtime[t]
             \/ /\ version' = [version EXCEPT ![runtime'[t]] = @ + 1]
                /\ UNCHANGED <<place, runtime, verdict, poll>>
  BY <1>2 DEF Bump, Announced, Bumping
<1>3. ASSUME NEW u \in Rows, BumpFails(u)
      PROVE  Announced(t) /\ runtime'[t] = runtime[t]
  BY <1>3 DEF BumpFails, Announced, Bumping
<1>4. ASSUME NEW old \in Runtimes, NEW new \in Runtimes, Merge(old, new)
      PROVE  Announced(t) /\ runtime'[t] = runtime[t]
  BY <1>4 DEF Merge, Announced
<1>5. ASSUME UNCHANGED <<runtime, bump>>, place'[t] = "queued" => place[t] = "queued"
      PROVE  Announced(t) /\ runtime'[t] = runtime[t]
  BY <1>5 DEF Announced
<1>6. ASSUME NEW p \in Claimers, Claiming(p)
      PROVE  UNCHANGED <<runtime, bump>> /\ (place'[t] = "queued" => place[t] = "queued")
  BY <1>6 DEF Claiming, CacheMiss, Sample, SelectEmpty, SelectRows, QueuedFor, MarkEmpty,
              MarkFails
<1>7. Expiry => UNCHANGED <<runtime, bump, place>>
  BY DEF Expiry, VerdictExpires, VersionExpires
<1>8. ASSUME NEW u \in Rows, Leave(u)
      PROVE  UNCHANGED <<runtime, bump>> /\ (place'[t] = "queued" => place[t] = "queued")
  BY <1>8 DEF Leave
<1> QED
  BY <1>0, <1>1, <1>2, <1>3, <1>4, <1>5, <1>6, <1>7, <1>8 DEF Next, Enqueueing, vars

-------------------------------------------------------------------------------
(* Samples and verdicts. *)

\* Nobody samples or writes a version that is still to come.
LEMMA NoneAheadStep ==
    ASSUME Known, NoneAhead, [Next]_vars
    PROVE  NoneAhead'
<1> USE DEF Known, TypeOK
<1>a. /\ \A r \in Runtimes : version[r] \in Nat
      /\ \A p \in Claimers : poll[p] \in Poll /\ poll[p].pre \in Nat
      /\ NONE \notin Nat
  BY EmptyClaimAssumption DEF Poll
<1>1. ASSUME \A r \in Runtimes : version[r] <= version'[r], UNCHANGED <<verdict, poll>>,
             version' \in [Runtimes -> 0..MaxVersion]
      PROVE  NoneAhead'
  <2>1. \A r \in Runtimes : verdict[r] # NONE => verdict[r] \in Nat
    OBVIOUS
  <2>2. \A r \in Runtimes : version'[r] \in Nat
    BY <1>1, EmptyClaimAssumption
  <2>3. ASSUME NEW p \in Claimers, poll[p].pc \in {"select", "mark"}
        PROVE  poll[p].pre <= version'[poll[p].runtime]
    <3>1. poll[p].runtime \in Runtimes /\ poll[p].pre <= version[poll[p].runtime]
      BY <2>3 DEF NoneAhead, RuntimesKnown
    <3> QED
      BY <1>1, <1>a, <2>2, <3>1
  <2>4. ASSUME NEW r \in Runtimes, verdict[r] # NONE
        PROVE  verdict[r] <= version'[r]
    BY <1>1, <1>a, <2>1, <2>2, <2>4 DEF NoneAhead
  <2> QED
    BY <1>1, <2>3, <2>4 DEF NoneAhead
<1>2. ASSUME NEW t \in Rows, Bump(t)
      PROVE  NoneAhead'
  <2>1. bump[t].runtime \in Runtimes
    BY <1>2 DEF Bump, RuntimesKnown
  <2>2. \A r \in Runtimes : version'[r] = IF r = bump[t].runtime THEN version[r] + 1 ELSE version[r]
    BY <1>2, <2>1 DEF Bump
  <2>3. \A r \in Runtimes : version[r] <= version'[r]
    BY <1>a, <2>2
  <2>4. UNCHANGED <<verdict, poll>>
    BY <1>2 DEF Bump
  <2>5. version' \in [Runtimes -> 0..MaxVersion]
    BY <1>2, StepTypes DEF Next, Enqueueing
  <2> QED
    BY <1>1, <2>3, <2>4, <2>5
<1>3. ASSUME UNCHANGED <<version, verdict, poll>>
      PROVE  NoneAhead'
  BY <1>3 DEF NoneAhead
<1>4. ASSUME NEW p \in Claimers, UNCHANGED version,
             \A q \in Claimers \ {p} : poll'[q] = poll[q],
             poll'[p].pc \in {"select", "mark"} => poll'[p].pre <= version[poll'[p].runtime],
             \A r \in Runtimes : verdict'[r] # NONE => verdict'[r] <= version[r]
      PROVE  NoneAhead'
  BY <1>4 DEF NoneAhead
<1>5. ASSUME NEW p \in Claimers, Claiming(p)
      PROVE  NoneAhead'
  <2>1. ASSUME UNCHANGED <<version, verdict>>, NEW b, b.pc \in {"idle", "sample"},
               poll' = [poll EXCEPT ![p] = b]
        PROVE  NoneAhead'
    BY <2>1, <1>4 DEF NoneAhead
  <2>2. ASSUME NEW r \in Runtimes, CacheMiss(p, r)
        PROVE  NoneAhead'
    <3> DEFINE b == [NoPoll EXCEPT !.pc = "sample", !.runtime = r]
    <3>1. b.pc = "sample"
      BY DEF NoPoll
    <3>2. poll' = [poll EXCEPT ![p] = b] /\ UNCHANGED version /\ UNCHANGED verdict
      BY <2>2 DEF CacheMiss
    <3> HIDE DEF b
    <3>3. poll \in [Claimers -> Poll]
      OBVIOUS
    <3>4. poll'[p].pc = "sample" /\ \A q \in Claimers \ {p} : poll'[q] = poll[q]
      BY <3>1, <3>2, <3>3
    <3>5. \A s \in Runtimes : verdict'[s] # NONE => verdict'[s] <= version[s]
      BY <3>2 DEF NoneAhead
    <3> QED
      BY <1>4, <3>2, <3>4, <3>5
  <2>3. CASE Sample(p)
    <3>1. PICK v \in 0..MaxVersion : /\ poll' = [poll EXCEPT ![p].pc = "select", ![p].pre = v]
                                     /\ v \in {version[poll[p].runtime], 0}
      <4>1. poll[p].runtime \in Runtimes
        BY <2>3 DEF Sample, RuntimesKnown
      <4>2. version[poll[p].runtime] \in 0..MaxVersion /\ 0 \in 0..MaxVersion
        BY <4>1, EmptyClaimAssumption
      <4> QED
        BY <2>3, <4>2 DEF Sample
    <3>2. poll'[p].pre = v /\ poll'[p].runtime = poll[p].runtime
      BY <3>1 DEF Poll
    <3>3. poll[p].runtime \in Runtimes
      BY <2>3 DEF Sample, RuntimesKnown
    <3>4. v <= version[poll[p].runtime]
      BY <1>a, <3>1, <3>3
    <3> QED
      BY <1>4, <2>3, <3>1, <3>2, <3>4 DEF Sample, NoneAhead
  <2>4. CASE SelectEmpty(p)
    BY <1>4, <2>4 DEF SelectEmpty, NoneAhead, Poll
  <2>5. CASE SelectRows(p) \/ MarkFails(p)
    BY <2>1, <2>5 DEF SelectRows, MarkFails, NoPoll
  <2>6. CASE MarkEmpty(p)
    BY <1>4, <2>6 DEF MarkEmpty, NoneAhead, NoPoll
  <2> QED
    BY <1>5, <2>2, <2>3, <2>4, <2>5, <2>6 DEF Claiming
<1>6. ASSUME NEW r \in Runtimes, VerdictExpires(r)
      PROVE  NoneAhead'
  BY <1>6 DEF VerdictExpires, NoneAhead
<1>7. ASSUME NEW r \in Runtimes, VersionExpires(r)
      PROVE  NoneAhead'
  BY <1>7 DEF VersionExpires, NoneAhead
<1> QED
  BY <1>2, <1>3, <1>5, <1>6, <1>7
     DEF Next, Enqueueing, Insert, InsertBackground, BumpFails, Leave, Expiry, Merge, vars

\* A claim that has found the queue empty stays right about it as long as its version
\* is the current one: whoever is announced later has bumped it.
LEMMA SampleStep ==
    ASSUME Known, MovedOnce, NoneAhead, SampleHolds, [Next]_vars
    PROVE  SampleHolds'
<1> SUFFICES ASSUME NEW p \in Claimers, poll'[p].pc = "mark",
                    poll'[p].pre = version'[poll'[p].runtime],
                    NEW t \in Rows, place'[t] = "queued", runtime'[t] = poll'[p].runtime,
                    Announced(t)'
             PROVE  FALSE
  BY DEF SampleHolds, QueuedFor
<1>1. CASE /\ version' = [version EXCEPT ![runtime'[t]] = @ + 1]
           /\ UNCHANGED <<place, runtime, verdict, poll>>
  <2>1. poll[p].runtime \in Runtimes /\ version[poll[p].runtime] \in Nat
        /\ poll[p].pre <= version[poll[p].runtime]
    BY <1>1, EmptyClaimAssumption DEF NoneAhead, Known, TypeOK, RuntimesKnown
  <2>2. version'[poll[p].runtime] = version[poll[p].runtime] + 1
    BY <1>1, <2>1 DEF Known, TypeOK
  <2>3. poll[p].pre \in Nat
    BY EmptyClaimAssumption DEF Known, TypeOK, Poll
  <2> QED
    BY <1>1, <2>1, <2>2, <2>3
<1>2. CASE Announced(t) /\ runtime'[t] = runtime[t]
  <2>1. t \in QueuedFor(runtime[t])
    BY <1>2 DEF Announced, QueuedFor
  <2>2. poll[p].pc = "mark" /\ poll'[p] = poll[p]
    <3> USE DEF Known, TypeOK, Poll
    <3>1. ASSUME NEW q \in Claimers, Claiming(q)
          PROVE  poll[p].pc = "mark" /\ poll'[p] = poll[p]
      <4>1. CASE q # p
        BY <3>1, <4>1 DEF Claiming, CacheMiss, Sample, SelectEmpty, SelectRows, MarkEmpty,
                          MarkFails
      <4>2. CASE SelectEmpty(p)
        <5>1. poll'[p].runtime = poll[p].runtime
          BY <4>2 DEF SelectEmpty
        <5> QED
          BY <1>2, <2>1, <4>2, <5>1 DEF SelectEmpty
      <4>3. ASSUME NEW b, b.pc # "mark", poll' = [poll EXCEPT ![p] = b]
            PROVE  FALSE
        BY <4>3
      <4>4. ~ \E r \in Runtimes : CacheMiss(p, r)
        BY <4>3 DEF CacheMiss, NoPoll
      <4>5. ~ Sample(p)
        BY DEF Sample
      <4>6. ~ (SelectRows(p) \/ MarkEmpty(p) \/ MarkFails(p))
        BY <4>3 DEF SelectRows, MarkEmpty, MarkFails, NoPoll
      <4> QED
        BY <3>1, <4>1, <4>2, <4>4, <4>5, <4>6 DEF Claiming
    <3> QED
      BY <3>1 DEF Next, Enqueueing, Insert, InsertBackground, Bump, BumpFails, Leave, Expiry,
                  VerdictExpires, VersionExpires, Merge, vars
  <2>3. version'[poll[p].runtime] # version[poll[p].runtime]
    BY <1>2, <2>1, <2>2 DEF SampleHolds
  <2>4. PICK u \in Rows : Bump(u) /\ bump[u].runtime = poll[p].runtime
    <3>1. poll[p].runtime \in Runtimes
      BY <2>2 DEF Known, RuntimesKnown
    <3>2. \A r \in Runtimes : VersionExpires(r) => r # poll[p].runtime
      BY DEF VersionExpires
    <3> QED
      BY <2>3, <3>1, <3>2 DEF Next, Enqueueing, Insert, InsertBackground, Bump, BumpFails, Leave,
         Claiming, CacheMiss, Sample, SelectEmpty, SelectRows, MarkEmpty, MarkFails, Expiry,
         VerdictExpires, VersionExpires, Merge, vars, Known, TypeOK
  <2> QED
    <3>1. version[poll[p].runtime] \in Nat /\ poll[p].pre \in Nat
          /\ version'[poll[p].runtime] = version[poll[p].runtime] + 1
      BY <2>2, <2>4, EmptyClaimAssumption DEF Bump, Known, TypeOK, RuntimesKnown, Poll
    <3> QED
      BY <2>2, <3>1 DEF NoneAhead
<1> QED
  BY <1>1, <1>2, AnnouncedStep

\* So is a verdict, which such a claim has written.
LEMMA HiddenStep ==
    ASSUME Known, MovedOnce, NoneAhead, SampleHolds, NeverHidden, [Next]_vars
    PROVE  NeverHidden'
<1> SUFFICES ASSUME NEW t \in Rows, Announced(t)', verdict'[runtime'[t]] = version'[runtime'[t]]
             PROVE  FALSE
  BY DEF NeverHidden, Trusted
<1> DEFINE r == runtime'[t]
<1>0. /\ r \in Runtimes /\ version[r] \in Nat /\ version'[r] \in Nat /\ NONE \notin Nat
      /\ verdict[r] \in Nat \cup {NONE}
  BY AnnouncedStep, StepTypes, EmptyClaimAssumption DEF Known, TypeOK
<1> HIDE DEF r
<1>a. verdict'[r] = version'[r]
  BY DEF r
<1>1. CASE /\ version' = [version EXCEPT ![r] = @ + 1]
           /\ UNCHANGED <<place, runtime, verdict, poll>>
  <2>1. version'[r] = version[r] + 1 /\ verdict[r] = version'[r]
    BY <1>0, <1>1, <1>a DEF Known, TypeOK
  <2> QED
    BY <1>0, <2>1 DEF NoneAhead
<1>2. CASE Announced(t) /\ r = runtime[t]
  <2>1. verdict[r] # version[r]
    BY <1>2 DEF NeverHidden, Trusted
  <2>2. CASE \E p \in Claimers : MarkEmpty(p) /\ poll[p].runtime = r
    <3>1. PICK p \in Claimers : MarkEmpty(p) /\ poll[p].runtime = r
      BY <2>2
    <3>2. poll[p].pc = "mark" /\ verdict'[r] = poll[p].pre /\ version'[r] = version[r]
      BY <1>0, <3>1 DEF MarkEmpty, Known, TypeOK
    <3>3. t \in QueuedFor(r)
      BY <1>2 DEF QueuedFor, Announced
    <3> QED
      BY <1>2, <1>a, <3>1, <3>2, <3>3 DEF SampleHolds
  <2>3. CASE \E u \in Rows : Bump(u) /\ bump[u].runtime = r
    <3>1. version'[r] = version[r] + 1 /\ verdict'[r] = verdict[r]
      BY <1>0, <2>3 DEF Bump, Known, TypeOK
    <3> QED
      BY <1>0, <1>a, <3>1 DEF NoneAhead
  <2>4. CASE VerdictExpires(r) \/ VersionExpires(r)
    BY <1>0, <1>a, <2>4 DEF VerdictExpires, VersionExpires, Known, TypeOK
  <2>5. CASE verdict'[r] = verdict[r] /\ version'[r] = version[r]
    BY <1>a, <2>1, <2>5
  <2>6. ASSUME NEW p \in Claimers, Claiming(p), ~ (MarkEmpty(p) /\ poll[p].runtime = r)
        PROVE  verdict'[r] = verdict[r] /\ version'[r] = version[r]
    BY <1>0, <2>6 DEF Claiming, CacheMiss, Sample, SelectEmpty, SelectRows, MarkEmpty, MarkFails,
                      Known, TypeOK
  <2>7. ASSUME Enqueueing, ~ \E u \in Rows : Bump(u) /\ bump[u].runtime = r
        PROVE  verdict'[r] = verdict[r] /\ version'[r] = version[r]
    BY <1>0, <2>7 DEF Enqueueing, Insert, InsertBackground, Bump, BumpFails, Leave, Known, TypeOK
  <2>8. ASSUME Expiry, ~ (VerdictExpires(r) \/ VersionExpires(r))
        PROVE  verdict'[r] = verdict[r] /\ version'[r] = version[r]
    BY <1>0, <2>8 DEF Expiry, VerdictExpires, VersionExpires, Known, TypeOK
  <2> QED
    BY <2>2, <2>3, <2>4, <2>5, <2>6, <2>7, <2>8 DEF Next, Merge, vars
<1> QED
  BY <1>1, <1>2, AnnouncedStep DEF r

-------------------------------------------------------------------------------

\* Every step keeps the invariant.
LEMMA StepInvariant == CacheInv /\ [Next]_vars => CacheInv'
<1> SUFFICES ASSUME CacheInv, [Next]_vars
             PROVE  CacheInv'
  OBVIOUS
<1>1. Known /\ MovedOnce /\ NoneAhead /\ SampleHolds /\ NeverHidden
  BY DEF CacheInv, Known
<1>2. Known' /\ MovedOnce' /\ NoneAhead' /\ SampleHolds' /\ NeverHidden'
  BY <1>1, StepTypes, MovedStep, NoneAheadStep, SampleStep, HiddenStep
<1> QED
  BY <1>2 DEF CacheInv, Known

\* The protocol of versions and verdicts, for any number of claims and enqueues and
\* whatever Redis loses: the strengthening that the calls of IsEmpty, CurrentVersion,
\* MarkEmpty and Bump preserve.
THEOREM InvariantAlways == Spec => []CacheInv
BY InitInvariant, StepInvariant, PTL DEF Spec

\* The rows, the keys and the claims keep their types.
THEOREM TypesAlways == Spec => []TypeOK
<1>1. CacheInv => TypeOK
  BY DEF CacheInv
<1> QED
  BY <1>1, InvariantAlways, PTL

\* No row whose enqueue has bumped its runtime's version is hidden behind a verdict
\* that IsEmpty trusts, whatever claims, failing calls, expiries and merges overlap.
THEOREM NeverHiddenAlways == Spec => []NeverHidden
<1>1. CacheInv => NeverHidden
  BY DEF CacheInv
<1> QED
  BY <1>1, InvariantAlways, PTL

\* A claim about to write a verdict at the current version is right about the queue.
THEOREM SampleHoldsAlways == Spec => []SampleHolds
<1>1. CacheInv => SampleHolds
  BY DEF CacheInv
<1> QED
  BY <1>1, InvariantAlways, PTL
===============================================================================
