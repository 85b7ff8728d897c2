----------------------------- MODULE RealtimeSync -----------------------------
(***************************************************************************)
(* One entry of the client's query cache and everything that writes it:    *)
(* the handlers of the realtime socket (packages/core/realtime), the       *)
(* optimistic mutations (packages/core/<area>/mutations.ts), the fetches   *)
(* and mounts of TanStack Query, and the connection that carries the       *)
(* events (packages/core/api/ws-client.ts, the hub of the server).         *)
(*                                                                         *)
(* The query key belongs to one of the kinds below; a behaviour is about   *)
(* one key of one workspace.  A kind says how the handlers treat an event  *)
(* about it: they mark the entry and fetch it again, at once or after the  *)
(* 100 ms debounce, or they write the payload into it.  The content of the *)
(* entry is abstracted to a revision of each item it lists.                *)
(***************************************************************************)
EXTENDS Naturals, Sequences

CONSTANTS
    Kinds,          \* the kinds of key a run looks at
    Items,          \* the items a key lists
    NoData,         \* an entry that was never loaded
    Mutations,      \* slots for mutations in flight
    MaxWrites,      \* bound on the changes made on the server
    MaxTouches,     \* bound on events that rewrite the entry without news for it
    MaxDrops,       \* bound on lost connections and workspace switches
    MaxFailures,    \* bound on fetches that fail after their retry
    MaxMutations,   \* bound on mutations started
    MaxUpsets       \* bound on the last four together

VARIABLES
    kind,        \* the kind of the key
    server,      \* revision of each item on the server; 0: not there
    clock,       \* number of changes made on the server
    entry,       \* the cache entry, see EntryType
    timer,       \* the debounce timer of the entry's prefix is running
    link,        \* the socket as WSClient sees it
    known,       \* WSClient.hasConnectedBefore
    hub,         \* what the server has done with this connection
    wire,        \* events sent on this connection and not handled yet; rev 0: a touch
    mutation,    \* the mutations in flight
    spent,       \* counters of the bounds
    healed,      \* ghost: a refetch has been read since the events flow, see Reads
    owed         \* ghost: marked on reconnection and not fetched since

vars == <<kind, server, clock, entry, timer, link, known, hub, wire, mutation,
          spent, healed, owed>>

-------------------------------------------------------------------------------
(* How the handlers treat an event of a kind. *)

\* Marked 100 ms after the last event of the prefix (refreshMap).
DebouncedKinds ==
    {"inbox", "agents", "members", "workspaces", "skills", "projects", "labels",
     "pins", "runtimes", "autopilots", "missions", "teams", "taskSnapshot",
     "issueTasks"}

\* Marked when the event arrives.
MarkedKinds ==
    {"myIssues", "timeline", "reactions", "subscribers", "meetingList",
     "meetingSummary", "invitations", "chatMessages", "chatSessions",
     "agentEvents", "delegationCards"}

\* The payload is written into an entry that has data: setQueryData(key,
\* (old) => old ? ... : old).
PatchedKinds == {"issueList", "issueDetail", "transcript", "insights"}

\* The payload is written in even when there was no data: (old ?? []).
SeededKinds == {"taskMessages", "agentMemories", "skillCandidates", "teamMessages"}

\* Written in like a seeded one, then marked.
SeededMarkedKinds == {"roomMessages", "asrJobs"}

AllKinds == DebouncedKinds \cup MarkedKinds \cup PatchedKinds \cup SeededKinds
            \cup SeededMarkedKinds

\* An event about something else may rewrite the entry in place: a status or a
\* label change of an issue maps over every cached row, found or not.
TouchedKinds == {"inbox", "issueList"}

\* Kinds whose keys the reconnect callback marks.
RecoveredKinds ==
    {"issueList", "issueDetail", "myIssues", "inbox", "agents", "members",
     "skills", "projects", "runtimes", "autopilots", "taskSnapshot",
     "transcript", "insights", "asrJobs", "meetingList", "meetingSummary",
     "workspaces"}

\* Kinds that only a mounted hook marks on reconnection (useWSReconnect).
HookRecoveredKinds == {"timeline", "reactions", "subscribers"}

\* Kinds with a staleTime of seconds: a mount may fetch them though unmarked.
TimedKinds == {"taskSnapshot", "agentMemories", "skillCandidates", "agentEvents",
               "runtimes", "roomMessages"}

\* Kinds the user changes through an optimistic mutation with a snapshot.
OptimisticKinds == {"inbox", "timeline", "subscribers", "labels", "pins",
                    "projects", "issueList"}

SignalledKinds == DebouncedKinds \cup MarkedKinds \cup SeededMarkedKinds

ASSUME KindsAssumption == Kinds \subseteq AllKinds
\* A key lists something.
ASSUME ItemsAssumption == Items # {}
ASSUME NoDataAssumption == NoData \notin [Items -> Nat]
ASSUME BoundsAssumption ==
    {MaxWrites, MaxTouches, MaxDrops, MaxFailures, MaxMutations,
     MaxUpsets} \subseteq Nat

-------------------------------------------------------------------------------
(* The cache entry, as query.ts of TanStack Query keeps it. *)

Local == MaxWrites + 1            \* an item as an optimistic mutation shows it
Content == [Items -> 0..Local]
Empty == [i \in Items |-> 0]
Request == [at : {"none", "sent"}] \cup [at : {"answered"}, with : Content]
NoRequest == [at |-> "none"]

EntryType == [data : Content \cup {NoData},
              invalid : BOOLEAN,      \* state.isInvalidated
              mounted : BOOLEAN,      \* an observer is subscribed
              fetch : Request,
              revert : BOOLEAN,       \* isInvalidated of the state a cancel restores
              failed : BOOLEAN]       \* the last fetch ended in an error

FreshEntry == [data |-> NoData, invalid |-> FALSE, mounted |-> FALSE,
               fetch |-> NoRequest, revert |-> FALSE, failed |-> FALSE]

HasData(e) == e.data # NoData
Fetching(e) == e.fetch.at # "none"

\* query.fetch: a new request, unless one without data yet is under way.
Fetched(e) ==
    IF Fetching(e) /\ ~HasData(e) THEN e
    ELSE [e EXCEPT !.fetch = [at |-> "sent"], !.revert = e.invalid, !.failed = FALSE]

\* invalidateQueries: mark, and fetch again what an observer shows.
Invalidated(e) ==
    LET marked == [e EXCEPT !.invalid = TRUE]
    IN IF e.mounted THEN Fetched(marked) ELSE marked

\* setQueryData: success state, the mark gone; a fetch under way goes on.
Written(e, data) == [e EXCEPT !.data = data, !.invalid = FALSE, !.revert = FALSE,
                              !.failed = FALSE]

\* cancelQueries: back to the state before the fetch.
Cancelled(e) ==
    IF Fetching(e) THEN [e EXCEPT !.fetch = NoRequest, !.invalid = e.revert] ELSE e

\* Mutant of Patched: the updater counts the revision up itself.
PatchedAhead(e, i, r) ==
    IF HasData(e) THEN Written(e, [e.data EXCEPT ![i] = r + 1]) ELSE e

\* setQueryData with an updater that leaves a missing entry alone.
Patched(e, i, r) == IF HasData(e) THEN Written(e, [e.data EXCEPT ![i] = r]) ELSE e

\* setQueryData with an updater that starts from nothing.
Seeded(e, i, r) ==
    Written(e, [(IF HasData(e) THEN e.data ELSE Empty) EXCEPT ![i] = r])

\* The ghost lasts as long as the page stays and no fetch fails.
SetEntry(e) == /\ entry' = e
               /\ healed' = (healed /\ e.mounted)
               /\ owed' = (owed /\ HasData(e))

-------------------------------------------------------------------------------
TypeOK ==
    /\ kind \in Kinds
    /\ server \in [Items -> 0..MaxWrites]
    /\ clock \in 0..MaxWrites
    /\ entry \in EntryType
    /\ timer \in BOOLEAN /\ known \in BOOLEAN /\ {healed, owed} \subseteq BOOLEAN
    /\ link \in {"away", "down", "connecting", "acked"}
    /\ hub \in {"none", "authenticated", "registered"}
    /\ wire \in Seq([item : Items, rev : 0..MaxWrites])
    /\ \A m \in Mutations :
          /\ mutation[m].state \in {"idle", "sent", "done", "failed"}
          /\ mutation[m].item \in Items
          /\ mutation[m].prev \in Content \cup {NoData}
    /\ spent \in [touches : 0..MaxTouches, drops : 0..MaxDrops,
                  failures : 0..MaxFailures, mutations : 0..MaxMutations]

Idle(i) == [state |-> "idle", item |-> i, prev |-> NoData]

Init ==
    /\ kind \in Kinds
    /\ server = Empty /\ clock = 0
    /\ entry = FreshEntry
    /\ timer = FALSE
    /\ link = "down" /\ known = FALSE /\ hub = "none" /\ wire = <<>>
    /\ mutation = [m \in Mutations |-> Idle(CHOOSE i \in Items : TRUE)]
    /\ spent = [touches |-> 0, drops |-> 0, failures |-> 0, mutations |-> 0]
    /\ healed = FALSE /\ owed = FALSE

\* The bounds.
Spend(counter, max) ==
    /\ spent[counter] < max
    /\ spent.touches + spent.drops + spent.failures + spent.mutations < MaxUpsets
    /\ spent' = [spent EXCEPT ![counter] = @ + 1]

-------------------------------------------------------------------------------
(* The server: a change, and the event it broadcasts to registered clients. *)

Broadcast(event) ==
    wire' = IF hub = "registered" THEN Append(wire, event) ELSE wire

Changed(i) ==
    /\ clock < MaxWrites
    /\ clock' = clock + 1
    /\ server' = [server EXCEPT ![i] = clock + 1]
    /\ Broadcast([item |-> i, rev |-> clock + 1])

ServerChange(i) ==
    /\ Changed(i)
    /\ UNCHANGED <<kind, entry, timer, link, known, hub, mutation, spent, healed, owed>>

\* An event that is no news for this key, but whose handler rewrites it.
ServerTouch ==
    /\ kind \in TouchedKinds
    /\ Spend("touches", MaxTouches)
    /\ \E i \in Items : Broadcast([item |-> i, rev |-> 0])
    /\ UNCHANGED <<kind, server, clock, entry, timer, link, known, hub, mutation,
                   healed, owed>>

-------------------------------------------------------------------------------
(* The connection. *)

\* connect(), onopen: the auth message is on its way.
Connect ==
    /\ link = "down"
    /\ link' = "connecting"
    /\ UNCHANGED <<kind, server, clock, entry, timer, known, hub, wire, mutation,
                   spent, healed, owed>>

\* The server checks the token, writes auth_ack, and only then registers.
Authenticate ==
    /\ link = "connecting" /\ hub = "none"
    /\ hub' = "authenticated"
    /\ UNCHANGED <<kind, server, clock, entry, timer, link, known, wire, mutation,
                   spent, healed, owed>>

Register ==
    /\ hub = "authenticated"
    /\ hub' = "registered"
    /\ UNCHANGED <<kind, server, clock, entry, timer, link, known, wire, mutation,
                   spent, healed, owed>>

\* The reconnect callbacks, in one go: the global one and the mounted hooks'.
Recovered(e) ==
    IF \/ kind \in RecoveredKinds
       \/ kind \in HookRecoveredKinds /\ e.mounted
    THEN Invalidated(e) ELSE e

\* onAuthenticated: the callbacks run only on a client that was connected before.
AckArrives ==
    /\ link = "connecting" /\ hub # "none"
    /\ link' = "acked"
    /\ known' = TRUE
    /\ entry' = IF known THEN Recovered(entry) ELSE entry
    /\ owed' = (HasData(entry) /\ (owed \/ (known /\ kind \in RecoveredKinds)))
    /\ UNCHANGED <<kind, server, clock, timer, hub, wire, mutation, spent, healed>>

\* onclose: what was on the wire is lost, the next connect() is 3 s away.
Drop ==
    /\ link \in {"connecting", "acked"}
    /\ Spend("drops", MaxDrops)
    /\ link' = "down" /\ hub' = "none" /\ wire' = <<>>
    /\ healed' = FALSE
    /\ UNCHANGED <<kind, server, clock, entry, timer, known, mutation, owed>>

\* The workspace changes: WSProvider disconnects the client, useRealtimeSync
\* clears its timers, the pages of this workspace unmount.
LeaveWorkspace ==
    /\ link # "away"
    /\ Spend("drops", MaxDrops)
    /\ link' = "away" /\ hub' = "none" /\ wire' = <<>>
    /\ known' = FALSE
    /\ timer' = FALSE
    /\ entry' = [entry EXCEPT !.mounted = FALSE]
    /\ healed' = FALSE
    /\ UNCHANGED <<kind, server, clock, mutation, owed>>

\* ... and back: a new client, which has not connected before.
EnterWorkspace ==
    /\ link = "away"
    /\ link' = "down"
    /\ UNCHANGED <<kind, server, clock, entry, timer, known, hub, wire, mutation,
                   spent, healed, owed>>

-------------------------------------------------------------------------------
(* The handlers of useRealtimeSync. *)

Reaction(e, i, r) ==
    CASE kind \in MarkedKinds       -> Invalidated(e)
      [] kind \in PatchedKinds      -> Patched(e, i, r)
      [] kind \in SeededKinds       -> Seeded(e, i, r)
      [] kind \in SeededMarkedKinds -> Invalidated(Seeded(e, i, r))
      [] OTHER                      -> e

Deliver ==
    /\ link = "acked" /\ wire # <<>>
    /\ wire' = Tail(wire)
    /\ LET event == Head(wire)
       IN IF event.rev = 0
          THEN /\ SetEntry(IF HasData(entry) THEN Written(entry, entry.data) ELSE entry)
               /\ timer' = timer
          ELSE /\ SetEntry(Reaction(entry, event.item, event.rev))
               /\ timer' = (timer \/ kind \in DebouncedKinds)
    /\ UNCHANGED <<kind, server, clock, link, known, hub, mutation, spent>>

\* Mutant of DebounceFires: the refresh writes the entry back instead of marking it.
DebounceTouches ==
    /\ timer
    /\ timer' = FALSE
    /\ SetEntry(IF HasData(entry) THEN Written(entry, entry.data) ELSE entry)
    /\ UNCHANGED <<kind, server, clock, link, known, hub, wire, mutation, spent>>

DebounceFires ==
    /\ timer
    /\ timer' = FALSE
    /\ SetEntry(Invalidated(entry))
    /\ UNCHANGED <<kind, server, clock, link, known, hub, wire, mutation, spent>>

-------------------------------------------------------------------------------
(* Observers and fetches (TanStack Query). *)

\* A mount fetches what is missing or marked, and waits for a request under way.
Mount ==
    /\ ~entry.mounted /\ link # "away"
    /\ LET shown == [entry EXCEPT !.mounted = TRUE]
           due == ~HasData(entry) \/ entry.invalid
       IN \/ /\ due \/ kind \in TimedKinds
             /\ SetEntry(IF Fetching(entry) THEN shown ELSE Fetched(shown))
          \/ /\ ~due
             /\ SetEntry(shown)
    /\ UNCHANGED <<kind, server, clock, timer, link, known, hub, wire, mutation,
                   spent>>

Unmount ==
    /\ entry.mounted
    /\ SetEntry([entry EXCEPT !.mounted = FALSE])
    /\ UNCHANGED <<kind, server, clock, timer, link, known, hub, wire, mutation,
                   spent>>

\* gcTime: an entry nobody shows is dropped after ten minutes.
Collect ==
    /\ ~entry.mounted /\ ~Fetching(entry) /\ HasData(entry)
    /\ SetEntry(FreshEntry)
    /\ UNCHANGED <<kind, server, clock, timer, link, known, hub, wire, mutation,
                   spent>>

\* A refetch of shown data that is read when this connection is registered: all
\* that changes from then on reaches the client as an event.
Reads == entry.mounted /\ HasData(entry) /\ hub = "registered"

\* The server reads the rows for the request ...
ServerAnswers ==
    /\ entry.fetch.at = "sent"
    /\ entry' = [entry EXCEPT !.fetch = [at |-> "answered", with |-> server]]
    /\ healed' = (healed \/ Reads)
    /\ UNCHANGED <<kind, server, clock, timer, link, known, hub, wire, mutation,
                   spent, owed>>

\* ... and the answer reaches the client, in no order with the events.
FetchSucceeds ==
    /\ entry.fetch.at = "answered"
    /\ entry' = [entry EXCEPT !.data = entry.fetch.with, !.invalid = FALSE,
                              !.fetch = NoRequest]
    /\ owed' = FALSE
    /\ UNCHANGED <<kind, server, clock, timer, link, known, hub, wire, mutation,
                   spent, healed>>

\* An error after the retry leaves the data and marks it.
FetchFails ==
    /\ Fetching(entry)
    /\ Spend("failures", MaxFailures)
    /\ entry' = [entry EXCEPT !.fetch = NoRequest, !.invalid = TRUE, !.failed = TRUE]
    /\ healed' = FALSE
    /\ UNCHANGED <<kind, server, clock, timer, link, known, hub, wire, mutation, owed>>

-------------------------------------------------------------------------------
(* Mutations. *)

\* onMutate: cancel the fetch, keep a snapshot, show the change.
MutateOptimistically(m, i) ==
    /\ kind \in OptimisticKinds
    /\ mutation[m].state = "idle" /\ link # "away"
    /\ Spend("mutations", MaxMutations)
    /\ LET e == Cancelled(entry)
       IN /\ mutation' = [mutation EXCEPT ![m] =
                            [state |-> "sent", item |-> i, prev |-> e.data]]
          /\ SetEntry(Patched(e, i, Local))
    /\ UNCHANGED <<kind, server, clock, timer, link, known, hub, wire>>

\* The request is carried out, and answered or cut off on the way back ...
MutationApplied(m) ==
    /\ mutation[m].state = "sent"
    /\ Changed(mutation[m].item)
    /\ \E s \in {"done", "failed"} : mutation' = [mutation EXCEPT ![m].state = s]
    /\ UNCHANGED <<kind, entry, timer, link, known, hub, spent, healed, owed>>

\* ... or refused.
MutationRefused(m) ==
    /\ mutation[m].state = "sent"
    /\ mutation' = [mutation EXCEPT ![m].state = "failed"]
    /\ UNCHANGED <<kind, server, clock, entry, timer, link, known, hub, wire, spent,
                   healed, owed>>

\* onError puts the snapshot back, onSettled marks the key.
RolledBack(e, prev) == IF prev # NoData THEN Written(e, prev) ELSE e

\* Mutant of Settle: the key is marked by onSuccess instead of onSettled.
SettleOnSuccess(m) ==
    /\ mutation[m].state \in {"done", "failed"}
    /\ SetEntry(IF mutation[m].state = "failed"
                THEN RolledBack(entry, mutation[m].prev) ELSE Invalidated(entry))
    /\ mutation' = [mutation EXCEPT ![m] = Idle(mutation[m].item)]
    /\ UNCHANGED <<kind, server, clock, timer, link, known, hub, wire, spent>>

Settle(m) ==
    /\ mutation[m].state \in {"done", "failed"}
    /\ LET e == IF mutation[m].state = "failed"
                THEN RolledBack(entry, mutation[m].prev) ELSE entry
       IN SetEntry(Invalidated(e))
    /\ mutation' = [mutation EXCEPT ![m] = Idle(mutation[m].item)]
    /\ UNCHANGED <<kind, server, clock, timer, link, known, hub, wire, spent>>

-------------------------------------------------------------------------------
Next ==
    \/ \E i \in Items : ServerChange(i)
    \/ ServerTouch
    \/ Connect \/ Authenticate \/ Register \/ AckArrives
    \/ Drop \/ LeaveWorkspace \/ EnterWorkspace
    \/ Deliver \/ DebounceFires
    \/ Mount \/ Unmount \/ Collect
    \/ ServerAnswers \/ FetchSucceeds \/ FetchFails
    \/ \E m \in Mutations, i \in Items : MutateOptimistically(m, i)
    \/ \E m \in Mutations : MutationApplied(m) \/ MutationRefused(m) \/ Settle(m)

Spec == Init /\ [][Next]_vars

\* The event loop runs, requests are answered, the socket reconnects.
FairSpec ==
    /\ Spec
    /\ WF_vars(Connect) /\ WF_vars(Authenticate) /\ WF_vars(Register)
    /\ WF_vars(AckArrives) /\ WF_vars(Deliver) /\ WF_vars(DebounceFires)
    /\ WF_vars(ServerAnswers) /\ WF_vars(FetchSucceeds)
    /\ \A m \in Mutations : /\ WF_vars(MutationApplied(m) \/ MutationRefused(m))
                            /\ WF_vars(Settle(m))

-------------------------------------------------------------------------------
(* Properties. *)

InFlight(m) == mutation[m].state # "idle"

\* Nothing is under way between this client and the server.
AtRest ==
    /\ link = "acked" /\ hub = "registered" /\ wire = <<>> /\ ~timer
    /\ ~Fetching(entry)
    /\ \A m \in Mutations : ~InFlight(m)

Current == entry.data = server

\* What a page shows of a key that its events mark is what the server has, once
\* one refetch has been read on the registered connection: whatever optimistic
\* writes, rollbacks, cancelled and overtaken fetches come in between.
RefetchedStaysFresh ==
    kind \in SignalledKinds /\ healed /\ AtRest => Current

\* A page that shows a loading state has a request under way, a mutation whose
\* settling will start one, or an error to show: cancelQueries, answers and
\* unmounts never leave it waiting for nobody.
NoSpinner ==
    entry.mounted /\ ~HasData(entry) =>
        Fetching(entry) \/ entry.failed \/ \E m \in Mutations : InFlight(m)

\* An optimistic value never outlives its mutations on a page: while it is still
\* shown, the fetch that replaces it is under way, also when a second mutation
\* has put it back with its snapshot.
NoOptimisticResidue ==
    (/\ kind \notin TouchedKinds
     /\ \A m \in Mutations : ~InFlight(m)
     /\ entry.mounted /\ HasData(entry) /\ spent.failures = 0
     /\ \E i \in Items : entry.data[i] = Local)
    => Fetching(entry)

\* A page with a key marked by its events catches up with the server, unless it
\* goes away, the connection is lost, or a fetch fails.
CatchesUp ==
    (kind \in SignalledKinds /\ healed) ~> (~healed \/ Current)

\* "Reconnect -> refetch all data to recover missed events": what was marked on
\* reconnection is up to date or marked until it has been fetched.
ReconnectRecovers ==
    owed /\ AtRest => Current \/ entry.invalid
=============================================================================
