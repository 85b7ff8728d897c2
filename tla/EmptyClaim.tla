----------------------------- MODULE EmptyClaim -----------------------------
(***************************************************************************)
(* The cache of "this runtime has no queued task" verdicts in front of     *)
(* ClaimTaskForRuntime (internal/service/empty_claim_cache.go, and its     *)
(* uses in internal/service/task.go).                                      *)
(*                                                                         *)
(* A verdict lives in Redis, tagged with the runtime's version as it was   *)
(* before the SELECT that found nothing; every enqueue increments the      *)
(* version after its INSERT.  The database, the two Redis keys and the     *)
(* memory of each claim are separate, every access to one of them is a     *)
(* step, and every access to Redis may fail: the cache logs the error and  *)
(* goes on.                                                                *)
(***************************************************************************)
EXTENDS Naturals

CONSTANTS
    Runtimes,     \* rows of table agent_runtime
    Legacy,       \* the runtimes that mergeLegacyRuntimes folds into others
    Claimers,     \* requests that may be inside ClaimTaskForRuntime
    Rows,         \* bound: rows of agent_task_queue
    MaxVersion,   \* bound: the version counter
    RedisFails,   \* whether calls to Redis may fail, or the server die before one
    NONE          \* no key, no runtime

ASSUME EmptyClaimAssumption ==
    /\ MaxVersion \in Nat
    /\ Legacy \subseteq Runtimes
    /\ RedisFails \in BOOLEAN
    /\ NONE \notin Nat \cup Runtimes

VARIABLES
    place,     \* row |-> where it is on its way through the queue
    runtime,   \* row |-> agent_task_queue.runtime_id
    bump,      \* row |-> the Bump of its enqueue, and the runtime it is for
    version,   \* runtime |-> key mul:claim:runtime:version, 0 when missing
    verdict,   \* runtime |-> key mul:claim:runtime:empty
    poll,      \* claimer |-> the state of its ClaimTaskForRuntime
    merged     \* runtimes deleted by a merge

vars == <<place, runtime, bump, version, verdict, poll, merged>>

NoBump == [pc |-> "none", runtime |-> NONE]

Bumping == [pc : {"none", "due", "done", "failed", "skipped"}, runtime : Runtimes \cup {NONE}]

NoPoll == [pc |-> "idle", runtime |-> NONE, pre |-> 0]

Poll == [pc : {"idle", "sample", "select", "mark"},
         runtime : Runtimes \cup {NONE}, pre : 0..MaxVersion]

TypeOK ==
    /\ place \in [Rows -> {"absent", "queued", "left"}]
    /\ runtime \in [Rows -> Runtimes \cup {NONE}]
    /\ bump \in [Rows -> Bumping]
    /\ version \in [Runtimes -> 0..MaxVersion]
    /\ verdict \in [Runtimes -> 0..MaxVersion \cup {NONE}]
    /\ poll \in [Claimers -> Poll]
    /\ merged \subseteq Legacy

Init ==
    /\ place = [t \in Rows |-> "absent"]
    /\ runtime = [t \in Rows |-> NONE]
    /\ bump = [t \in Rows |-> NoBump]
    /\ version = [r \in Runtimes |-> 0]
    /\ verdict = [r \in Runtimes |-> NONE]
    /\ poll = [p \in Claimers |-> NoPoll]
    /\ merged = {}

QueuedFor(r) == {t \in Rows : place[t] = "queued" /\ runtime[t] = r}

\* IsEmpty: a verdict is there and carries the current version.
Trusted(r) == verdict[r] = version[r]

-----------------------------------------------------------------------------
(* Enqueueing: the INSERT, then notifyTaskAvailable's Bump. *)

Insert(t, r) ==
    /\ place[t] = "absent" /\ r \notin merged
    /\ place' = [place EXCEPT ![t] = "queued"]
    /\ runtime' = [runtime EXCEPT ![t] = r]
    /\ bump' = [bump EXCEPT ![t] = [pc |-> "due", runtime |-> r]]
    /\ UNCHANGED <<version, verdict, poll, merged>>

\* The sweeper's retries and the scheduled autopilots go through the TaskService
\* of main.go, whose EmptyClaim is never set: its Bump does nothing.
InsertBackground(t, r) ==
    /\ place[t] = "absent" /\ r \notin merged
    /\ place' = [place EXCEPT ![t] = "queued"]
    /\ runtime' = [runtime EXCEPT ![t] = r]
    /\ bump' = [bump EXCEPT ![t] = [pc |-> "skipped", runtime |-> r]]
    /\ UNCHANGED <<version, verdict, poll, merged>>

\* Mutant of Bump: nothing to invalidate when no verdict is there.
BumpIfVerdict(t) ==
    /\ bump[t].pc = "due"
    /\ version[bump[t].runtime] < MaxVersion
    /\ version' = IF verdict[bump[t].runtime] = NONE THEN version
                  ELSE [version EXCEPT ![bump[t].runtime] = @ + 1]
    /\ bump' = [bump EXCEPT ![t].pc = "done"]
    /\ UNCHANGED <<place, runtime, verdict, poll, merged>>

\* The runtime is the one of the INSERT, even if the row has moved or left.
Bump(t) ==
    /\ bump[t].pc = "due"
    /\ version[bump[t].runtime] < MaxVersion
    /\ version' = [version EXCEPT ![bump[t].runtime] = @ + 1]
    /\ bump' = [bump EXCEPT ![t].pc = "done"]
    /\ UNCHANGED <<place, runtime, verdict, poll, merged>>

\* Redis has not executed it; when only the answer is lost, it is a Bump.
BumpFails(t) ==
    /\ RedisFails
    /\ bump[t].pc = "due"
    /\ bump' = [bump EXCEPT ![t].pc = "failed"]
    /\ UNCHANGED <<place, runtime, version, verdict, poll, merged>>

\* A claim or a cancellation takes the row out of the queue.
Leave(t) ==
    /\ place[t] = "queued"
    /\ place' = [place EXCEPT ![t] = "left"]
    /\ UNCHANGED <<runtime, bump, version, verdict, poll, merged>>

-----------------------------------------------------------------------------
(* ClaimTaskForRuntime. *)

\* IsEmpty answers no, or Redis fails: the claim goes to the database.  When it
\* answers yes the claim returns at once and nothing changes.
CacheMiss(p, r) ==
    /\ poll[p].pc = "idle" /\ r \notin merged
    /\ RedisFails \/ ~ Trusted(r)
    /\ poll' = [poll EXCEPT ![p] = [NoPoll EXCEPT !.pc = "sample", !.runtime = r]]
    /\ UNCHANGED <<place, runtime, bump, version, verdict, merged>>

\* Mutant of Sample: an error is kept as "no version" instead of 0.
SampleUnknown(p) ==
    /\ poll[p].pc = "sample"
    /\ \E v \in {version[poll[p].runtime]} \cup (IF RedisFails THEN {NONE} ELSE {}) :
          poll' = [poll EXCEPT ![p].pc = "select", ![p].pre = v]
    /\ UNCHANGED <<place, runtime, bump, version, verdict, merged>>

\* CurrentVersion, 0 on an error.
Sample(p) ==
    /\ poll[p].pc = "sample"
    /\ \E v \in {version[poll[p].runtime]} \cup (IF RedisFails THEN {0} ELSE {}) :
          poll' = [poll EXCEPT ![p].pc = "select", ![p].pre = v]
    /\ UNCHANGED <<place, runtime, bump, version, verdict, merged>>

\* ListQueuedClaimCandidatesByRuntime finds no row.
SelectEmpty(p) ==
    /\ poll[p].pc = "select"
    /\ QueuedFor(poll[p].runtime) = {}
    /\ poll' = [poll EXCEPT ![p].pc = "mark"]
    /\ UNCHANGED <<place, runtime, bump, version, verdict, merged>>

\* It finds some, and the claim takes one of the agents' rows or none.
SelectRows(p) ==
    /\ poll[p].pc = "select"
    /\ QueuedFor(poll[p].runtime) # {}
    /\ \/ \E t \in QueuedFor(poll[p].runtime) : place' = [place EXCEPT ![t] = "left"]
       \/ UNCHANGED place
    /\ poll' = [poll EXCEPT ![p] = NoPoll]
    /\ UNCHANGED <<runtime, bump, version, verdict, merged>>

\* Mutant of MarkEmpty: the version is read when the verdict is written.
MarkEmptyLate(p) ==
    /\ poll[p].pc = "mark"
    /\ verdict' = [verdict EXCEPT ![poll[p].runtime] = version[poll[p].runtime]]
    /\ poll' = [poll EXCEPT ![p] = NoPoll]
    /\ UNCHANGED <<place, runtime, bump, version, merged>>

\* MarkEmpty with the version sampled before the SELECT.
MarkEmpty(p) ==
    /\ poll[p].pc = "mark"
    /\ verdict' = [verdict EXCEPT ![poll[p].runtime] = poll[p].pre]
    /\ poll' = [poll EXCEPT ![p] = NoPoll]
    /\ UNCHANGED <<place, runtime, bump, version, merged>>

\* Redis has not executed it; when only the answer is lost, it is a MarkEmpty.
MarkFails(p) ==
    /\ RedisFails
    /\ poll[p].pc = "mark"
    /\ poll' = [poll EXCEPT ![p] = NoPoll]
    /\ UNCHANGED <<place, runtime, bump, version, verdict, merged>>

-----------------------------------------------------------------------------
(* Time, and the one change of a queued row that is not an enqueue. *)

\* Mutant of VerdictExpires: only a verdict that no longer counts is dropped.
VerdictExpiresStale(r) ==
    /\ verdict[r] # NONE /\ verdict[r] # version[r]
    /\ verdict' = [verdict EXCEPT ![r] = NONE]
    /\ UNCHANGED <<place, runtime, bump, version, poll, merged>>

\* EmptyClaimCacheTTL: 30 s after it was written a verdict is gone.
VerdictExpires(r) ==
    /\ verdict[r] # NONE
    /\ verdict' = [verdict EXCEPT ![r] = NONE]
    /\ UNCHANGED <<place, runtime, bump, version, poll, merged>>

\* emptyClaimVersionTTL: a day without a bump and without a CurrentVersion, far
\* longer than a verdict or a claim lasts.
VersionExpires(r) ==
    /\ version[r] # 0
    /\ verdict[r] = NONE
    /\ \A p \in Claimers : poll[p].runtime # r
    /\ version' = [version EXCEPT ![r] = 0]
    /\ UNCHANGED <<place, runtime, bump, verdict, poll, merged>>

\* mergeLegacyRuntimes: ReassignTasksToRuntime moves the rows of old to new and
\* old is deleted; no version is bumped.
Merge(old, new) ==
    /\ old \in Legacy \ merged /\ new \notin Legacy
    /\ runtime' = [t \in Rows |-> IF runtime[t] = old THEN new ELSE runtime[t]]
    /\ merged' = merged \cup {old}
    /\ UNCHANGED <<place, bump, version, verdict, poll>>

-----------------------------------------------------------------------------

Enqueueing ==
    \E t \in Rows : \/ \E r \in Runtimes : Insert(t, r) \/ InsertBackground(t, r)
                    \/ Bump(t) \/ BumpFails(t) \/ Leave(t)

Claiming(p) ==
    \/ \E r \in Runtimes : CacheMiss(p, r)
    \/ Sample(p) \/ SelectEmpty(p) \/ SelectRows(p) \/ MarkEmpty(p) \/ MarkFails(p)

Expiry == \E r \in Runtimes : VerdictExpires(r) \/ VersionExpires(r)

Next ==
    \/ Enqueueing
    \/ \E p \in Claimers : Claiming(p)
    \/ Expiry
    \/ \E old, new \in Runtimes : Merge(old, new)

Spec == Init /\ [][Next]_vars

\* Time passes, and an enqueue that has inserted goes on to its Bump.
Fairness ==
    /\ \A r \in Runtimes : WF_vars(VerdictExpires(r))
    /\ \A t \in Rows : WF_vars(Bump(t) \/ BumpFails(t))

LiveSpec == Spec /\ Fairness

-----------------------------------------------------------------------------

\* A queued row whose enqueue has bumped the version of the runtime it is still
\* on, as the requests' TaskService does before it wakes the daemon, is never
\* hidden behind a verdict that a claim trusts: "the only window left is one extra
\* DB SELECT ..., never a stalled task".
Announced(t) ==
    place[t] = "queued" /\ bump[t].pc = "done" /\ bump[t].runtime = runtime[t]

NeverHidden == \A t \in Rows : Announced(t) => ~ Trusted(runtime[t])

\* Why: a claim that has found the queue empty and still holds the current
\* version is right about every announced row, so its verdict will be too.
SampleHolds ==
    \A p \in Claimers :
        /\ poll[p].pc = "mark" /\ poll[p].pre = version[poll[p].runtime]
        => ~ \E t \in QueuedFor(poll[p].runtime) : Announced(t)

\* What ClaimTaskForRuntime says of every enqueue ("the cache is invalidated
\* synchronously on every enqueue ... rather than waiting for the TTL"): a queued
\* row whose enqueue is through with its notification is not hidden.
ClaimableOnNextCall ==
    \A t \in Rows : place[t] = "queued" /\ bump[t].pc \in {"done", "skipped"}
                       => ~ Trusted(runtime[t])

\* "The worst-case stall is bounded": a row whose bump Redis has lost does not
\* stay hidden for as long as it is queued either.
StallEnds ==
    \A t \in Rows : (place[t] = "queued" /\ Trusted(runtime[t]))
                       ~> (place[t] # "queued" \/ ~ Trusted(runtime[t]))
=============================================================================
