-------------------------- MODULE TaskQueueProofs --------------------------
(***************************************************************************)
(* Proofs about TaskQueue, for any number of agents, issues, chats,        *)
(* runtimes, rows, claims and handlers.                                    *)
(***************************************************************************)
EXTENDS TaskQueue, FiniteSetTheorems, TLAPS

\* A row that was inserted has an agent, a link and a runtime.
RowsKnown ==
    \A t \in Tasks : status[t] # "absent" =>
        row[t].agent \in Agents /\ row[t].link \in Links /\ row[t].runtime \in Runtimes

\* A claim past its count is at an agent.
ClaimsKnown ==
    \A p \in Claimers :
        claim[p].pc \in {"counted", "claim", "api"} => claim[p].agent \in Agents

\* A batch holds inserted rows; past a row's retry it is at a row of an issue.
BatchesKnown ==
    \A h \in Handlers :
        /\ \A t \in handler[h].todo : status[t] # "absent"
        /\ handler[h].pc \in {"issue", "active", "reset"} =>
             LET t == handler[h].task IN
             t \in Tasks /\ status[t] # "absent" /\ row[t].link \in Issues

\* The invariant that every step preserves.
IInv ==
    /\ TypeOK /\ RowsKnown /\ ClaimsKnown /\ BatchesKnown
    /\ PendingUnique /\ IssueSerial /\ SnapshotHolds

-----------------------------------------------------------------------------
(* Types. *)

\* The empty queue has the types every step is shown to keep.
LEMMA InitTypes ==
    Init => TypeOK /\ RowsKnown /\ ClaimsKnown /\ BatchesKnown
BY ConstantsAssumption
   DEF Init, TypeOK, RowsKnown, ClaimsKnown, BatchesKnown, Status, Row, NoRow,
       IssueStatus, ClaimState, NoClaim, HandlerState, NoBatch

\* An enqueue statement writes one free row, queued and of the right type, and no other.
LEMMA InsertTypes ==
    ASSUME TypeOK, NEW t \in Tasks, NEW a \in Agents, NEW l \in Links, NEW r \in Runtimes,
           NEW n \in 0..MaxAttempts, NEW p \in Tasks \cup {0}, Insert(t, a, l, r, n, p)
    PROVE  /\ status' \in [Tasks -> Status] /\ row' \in [Tasks -> Row]
           /\ status'[t] = "queued" /\ row'[t].agent = a /\ row'[t].link = l
           /\ row'[t].runtime = r /\ status[t] = "absent"
           /\ \A u \in Tasks : u # t => status'[u] = status[u] /\ row'[u] = row[u]
BY DEF Insert, NextRow, TypeOK, Status, Row, Live, Terminal

\* A failing update leaves every row with a status and a type, and touches only its own rows.
LEMMA FailTypes ==
    ASSUME TypeOK, NEW S \in SUBSET Tasks, NEW r \in Reasons, FailRows(S, r)
    PROVE  /\ status' \in [Tasks -> Status] /\ row' \in [Tasks -> Row]
           /\ \A t \in Tasks : /\ row'[t].agent = row[t].agent
                               /\ row'[t].link = row[t].link
                               /\ row'[t].runtime = row[t].runtime
                               /\ t \in S => status'[t] = "failed"
                               /\ t \notin S => status'[t] = status[t]
BY DEF FailRows, TypeOK, Status, Row, Live, Terminal

\* A cancelling update of any rows keeps the table's type.
LEMMA CancelTypes ==
    ASSUME TypeOK, NEW S, CancelRows(S)
    PROVE  /\ status' \in [Tasks -> Status] /\ row' \in [Tasks -> Row]
           /\ \A t \in Tasks : status'[t] = "absent" <=> status[t] = "absent"
BY DEF CancelRows, TypeOK, Status, Row, Live, Terminal, InState

Known == TypeOK /\ RowsKnown /\ ClaimsKnown /\ BatchesKnown

\* A step that leaves rows, claims and batches alone, and one of a claim.
LEMMA SurroundingsTypes ==
    ASSUME Known, Surroundings
    PROVE  Known'
<1>1. ASSUME NEW i \in Issues, NEW s \in Settable, SetIssueStatus(i, s)
      PROVE  Known'
  BY <1>1, ConstantsAssumption
     DEF Known, SetIssueStatus, TypeOK, RowsKnown, ClaimsKnown, BatchesKnown, IssueStatus
<1>2. ASSUME NEW r \in Flaky, SetOnline(r) \/ Deregister(r)
      PROVE  Known'
  BY <1>2, ConstantsAssumption
     DEF Known, SetOnline, Deregister, TypeOK, RowsKnown, ClaimsKnown, BatchesKnown
<1>3. ASSUME NEW a \in Agents, NEW r \in Runtimes, MoveAgent(a, r)
      PROVE  Known'
  BY <1>3 DEF Known, MoveAgent, TypeOK, RowsKnown, ClaimsKnown, BatchesKnown
<1> QED
  BY <1>1, <1>2, <1>3 DEF Surroundings

\* A server restart, or an API claim that expires, leaves every variable in its type.
LEMMA FaultTypes ==
    ASSUME Known, Fault
    PROVE  Known'
<1>1. CASE ServerRestart
  BY <1>1 DEF Known, ServerRestart, NoClaim, NoBatch, TypeOK, RowsKnown, ClaimsKnown,
              BatchesKnown, ClaimState, HandlerState
<1>2. ASSUME NEW p \in Claimers, ApiExpire(p)
      PROVE  Known'
  BY <1>2 DEF Known, ApiExpire, NoClaim, TypeOK, RowsKnown, ClaimsKnown, BatchesKnown,
              ClaimState
<1> QED
  BY <1>1, <1>2 DEF Fault

\* So does every way of putting a row in the queue.
LEMMA EnqueueingTypes ==
    ASSUME Known, Enqueueing
    PROVE  Known'
<1>1. ASSUME NEW t \in Tasks, NEW a \in Agents, NEW l \in Links, Enqueue(t, a, l),
             UNCHANGED <<issueStatus, agentRuntime, runtimeStatus, handler>>,
             rerunning' \in SUBSET (Issues \X Agents),
             claim' \in [Claimers -> ClaimState], ClaimsKnown'
      PROVE  Known'
  <2>1. agentRuntime[a] \in Runtimes /\ 1 \in 0..MaxAttempts /\ 0 \in Tasks \cup {0}
    BY ConstantsAssumption DEF Known, TypeOK
  <2>2. Insert(t, a, l, agentRuntime[a], 1, 0)
    BY <1>1 DEF Enqueue
  <2>3. /\ status' \in [Tasks -> Status] /\ row' \in [Tasks -> Row]
        /\ status'[t] = "queued" /\ row'[t].agent = a /\ row'[t].link = l
        /\ row'[t].runtime = agentRuntime[a] /\ status[t] = "absent"
        /\ \A u \in Tasks : u # t => status'[u] = status[u] /\ row'[u] = row[u]
    BY <2>1, <2>2, InsertTypes DEF Known
  <2> QED
    BY <1>1, <2>1, <2>3 DEF Known, TypeOK, RowsKnown, BatchesKnown, HandlerState
<1>2. claim \in [Claimers -> ClaimState] /\ rerunning \in SUBSET (Issues \X Agents)
  BY DEF Known, TypeOK
<1>3. UNCHANGED claim => claim' \in [Claimers -> ClaimState] /\ ClaimsKnown'
  BY <1>2 DEF Known, ClaimsKnown
<1>4. ASSUME NEW t \in Tasks, NEW a \in Agents, NEW i \in Issues,
             EnqueueIssue(t, a, i) \/ RerunEnqueue(t, i, a)
      PROVE  Known'
  <2>1. i \in Links
    BY DEF Links
  <2> QED
    BY <1>1, <1>2, <1>3, <1>4, <2>1 DEF EnqueueIssue, RerunEnqueue
<1>5. ASSUME NEW t \in Tasks, NEW a \in Agents, NEW c \in Chats, EnqueueChat(t, a, c)
      PROVE  Known'
  <2>1. c \in Links
    BY DEF Links
  <2> QED
    BY <1>1, <1>2, <1>3, <1>5, <2>1 DEF EnqueueChat
<1>6. ASSUME NEW t \in Tasks, NEW a \in Agents, NEW c \in Chats, NEW p \in Claimers,
             EnqueueApiChat(t, a, c, p)
      PROVE  Known'
  <2>1. c \in Links
    BY DEF Links
  <2>2. claim' \in [Claimers -> ClaimState] /\ ClaimsKnown'
    BY <1>2, <1>6 DEF EnqueueApiChat, NoClaim, ClaimState, Known, ClaimsKnown
  <2> QED
    BY <1>1, <1>2, <1>6, <2>1, <2>2 DEF EnqueueApiChat
<1>7. ASSUME NEW t \in Tasks, NEW a \in Agents,
             EnqueueQuickCreate(t, a) \/ EnqueueRunOnly(t, a)
      PROVE  Known'
  <2>1. "quick_create" \in Links /\ "run_only" \in Links
    BY DEF Links
  <2> QED
    BY <1>1, <1>2, <1>3, <1>7, <2>1 DEF EnqueueQuickCreate, EnqueueRunOnly
<1> QED
  BY <1>4, <1>5, <1>6, <1>7 DEF Enqueueing

\* So does every statement of ClaimTaskForRuntime and of the claims it makes.
LEMMA ClaimingTypes ==
    ASSUME Known, NEW p \in Claimers, Claiming(p)
    PROVE  Known'
<1>1. ASSUME claim' \in [Claimers -> ClaimState], ClaimsKnown',
             UNCHANGED <<status, row, issueStatus, agentRuntime, runtimeStatus,
                         handler, rerunning>>
      PROVE  Known'
  BY <1>1 DEF Known, TypeOK, RowsKnown, BatchesKnown
<1> DEFINE Becomes(b) == /\ b \in ClaimState
                         /\ b.pc \in {"counted", "claim", "api"} => b.agent \in Agents
                         /\ claim' = [claim EXCEPT ![p] = b]
<1>a. claim[p] \in ClaimState /\ claim \in [Claimers -> ClaimState]
  BY DEF Known, TypeOK
<1>b. claim[p].pc \in {"counted", "claim", "api"} => claim[p].agent \in Agents
  BY DEF Known, ClaimsKnown
<1>c. ASSUME NEW b, Becomes(b)
      PROVE  claim' \in [Claimers -> ClaimState] /\ ClaimsKnown'
  <2>1. claim' \in [Claimers -> ClaimState] /\ claim'[p] = b
        /\ \A q \in Claimers : q # p => claim'[q] = claim[q]
    BY <1>a, <1>c
  <2> QED
    BY <1>c, <2>1 DEF Known, ClaimsKnown
<1>d. NoClaim \in ClaimState /\ NoClaim.pc = "idle"
  BY DEF NoClaim, ClaimState
<1>2. NextAgent(p) => claim' \in [Claimers -> ClaimState] /\ ClaimsKnown'
  <2> DEFINE rest == claim[p].todo \ {claim[p].agent}
             b == [NoClaim EXCEPT !.pc = "loop", !.todo = rest,
                                  !.runtime = claim[p].runtime]
  <2>1. b \in ClaimState /\ b.pc = "loop"
    BY <1>a DEF NoClaim, ClaimState
  <2>2. NextAgent(p) => Becomes(b) \/ Becomes(NoClaim)
    BY <1>d, <2>1 DEF NextAgent
  <2> QED
    BY <1>c, <2>2
<1>3. ASSUME NEW r \in Runtimes, Poll(p, r)
      PROVE  Known'
  <2>1. claim' \in [Claimers -> ClaimState] /\ ClaimsKnown'
    <3> DEFINE agents == {row[t].agent : t \in {u \in Tasks : /\ status[u] = "queued"
                                                            /\ row[u].runtime = r}}
               b == [NoClaim EXCEPT !.pc = "loop", !.runtime = r, !.todo = agents]
    <3>1. agents \subseteq Agents
      BY DEF Known, RowsKnown
    <3> HIDE DEF agents
    <3>2. b \in ClaimState /\ b.pc = "loop"
      BY <3>1 DEF NoClaim, ClaimState
    <3>3. claim' = [claim EXCEPT ![p] = b]
      BY <1>3 DEF Poll, agents
    <3> QED
      BY <1>c, <3>2, <3>3
  <2> QED
    BY <1>1, <1>3, <2>1 DEF Poll
<1>4. ASSUME NEW a \in Agents, HasCapacity(p, a) \/ NoCapacity(p, a)
      PROVE  Known'
  <2>1. claim' \in [Claimers -> ClaimState] /\ ClaimsKnown'
    BY <1>4 DEF HasCapacity, NoCapacity, Known, TypeOK, ClaimState, NoClaim, ClaimsKnown
  <2> QED
    BY <1>1, <1>4, <2>1 DEF HasCapacity, NoCapacity
<1>5. CASE ClaimSnapshot(p)
  <2>1. Claimable(claim[p].agent) \subseteq Tasks
    BY DEF Claimable
  <2>2. claim' \in [Claimers -> ClaimState] /\ ClaimsKnown'
    <3> DEFINE b == [claim[p] EXCEPT !.pc = "claim", !.cand = Claimable(claim[p].agent)]
    <3>1. b \in ClaimState /\ b.agent = claim[p].agent
      BY <1>a, <2>1 DEF ClaimState
    <3>2. claim' = [claim EXCEPT ![p] = b]
      BY <1>5, <1>a DEF ClaimSnapshot, ClaimState
    <3> QED
      BY <1>5, <1>b, <1>c, <3>1, <3>2 DEF ClaimSnapshot
  <2> QED
    BY <1>1, <1>5, <2>2 DEF ClaimSnapshot
<1>6. ASSUME NEW t \in Tasks, ClaimRow(p, t)
      PROVE  Known'
  <2>1. claim' \in [Claimers -> ClaimState] /\ ClaimsKnown'
    <3>1. CASE claim[p].runtime = NULL
      <4> DEFINE b == [NoClaim EXCEPT !.pc = "api", !.task = t, !.agent = claim[p].agent]
      <4>1. b \in ClaimState /\ b.agent = claim[p].agent
        BY <1>a DEF NoClaim, ClaimState
      <4>2. claim' = [claim EXCEPT ![p] = b] /\ claim[p].agent \in Agents
        BY <1>6, <1>b, <3>1 DEF ClaimRow
      <4> QED
        BY <1>c, <4>1, <4>2
    <3>2. CASE claim[p].runtime # NULL /\ row[t].runtime = claim[p].runtime
      BY <1>6, <3>2 DEF ClaimRow, Known, TypeOK, ClaimState, NoClaim, ClaimsKnown
    <3>3. CASE claim[p].runtime # NULL /\ row[t].runtime # claim[p].runtime
      BY <1>2, <1>6, <3>3 DEF ClaimRow
    <3> QED
      BY <3>1, <3>2, <3>3
  <2> QED
    BY <1>6, <2>1 DEF ClaimRow, Known, TypeOK, RowsKnown, BatchesKnown, Status, Live
<1>7. CASE ClaimNothing(p)
  BY <1>1, <1>2, <1>7 DEF ClaimNothing
<1>8. CASE ApiNext(p)
  <2>1. claim' \in [Claimers -> ClaimState] /\ ClaimsKnown'
    BY <1>8 DEF ApiNext, Known, TypeOK, ClaimState, NoClaim, ClaimsKnown
  <2> QED
    BY <1>1, <1>8, <2>1 DEF ApiNext
<1> QED
  BY <1>3, <1>4, <1>5, <1>6, <1>7, <1>8 DEF Claiming, ClaimGoesOn

\* So do the reports and cancellations that end a row.
LEMMA FinishingTypes ==
    ASSUME Known, Finishing
    PROVE  Known'
<1>1. ASSUME status' \in [Tasks -> Status], row' \in [Tasks -> Row],
             \A t \in Tasks : /\ status'[t] = "absent" <=> status[t] = "absent"
                              /\ row'[t] = row[t],
             UNCHANGED <<issueStatus, agentRuntime, runtimeStatus, claim, handler>>,
             rerunning' \in SUBSET (Issues \X Agents)
      PROVE  Known'
  BY <1>1 DEF Known, TypeOK, RowsKnown, ClaimsKnown, BatchesKnown, HandlerState
<1>2. rerunning \in SUBSET (Issues \X Agents) /\ row \in [Tasks -> Row]
  BY DEF Known, TypeOK
<1>3. ASSUME NEW S, CancelRows(S)
      PROVE  /\ status' \in [Tasks -> Status] /\ row' \in [Tasks -> Row]
             /\ \A t \in Tasks : /\ status'[t] = "absent" <=> status[t] = "absent"
                                 /\ row'[t] = row[t]
  <2>1. row' = row
    BY <1>3 DEF CancelRows
  <2> QED
    BY <1>2, <1>3, <2>1, CancelTypes DEF Known
<1>4. ASSUME NEW t \in Tasks, StartTask(t) \/ CompleteTask(t)
      PROVE  Known'
  <2>1. /\ status' \in [Tasks -> Status] /\ row' = row
        /\ \A u \in Tasks : status'[u] = "absent" <=> status[u] = "absent"
    BY <1>4 DEF StartTask, CompleteTask, Known, TypeOK, Status, Live, Terminal
  <2> QED
    BY <1>1, <1>2, <1>4, <2>1 DEF StartTask, CompleteTask
<1>5. ASSUME NEW t \in Tasks, CancelTask(t)
      PROVE  Known'
  BY <1>1, <1>2, <1>3, <1>5 DEF CancelTask
<1>6. ASSUME NEW S \in SUBSET Tasks, CancelMany(S)
      PROVE  Known'
  BY <1>1, <1>2, <1>3, <1>6 DEF CancelMany
<1>7. ASSUME NEW i \in Issues, NEW a \in Agents, RerunCancel(i, a)
      PROVE  Known'
  BY <1>1, <1>2, <1>3, <1>7 DEF RerunCancel
<1>8. ASSUME NEW i \in Issues, NEW a \in Agents, RerunRefused(i, a)
      PROVE  Known'
  BY <1>8 DEF RerunRefused, Known, TypeOK, RowsKnown, ClaimsKnown, BatchesKnown
<1> QED
  BY <1>4, <1>5, <1>6, <1>7, <1>8 DEF Finishing

\* So do the updates that fail rows, and the sweeper's marking of runtimes.
LEMMA FailingTypes ==
    ASSUME Known, NEW h \in Handlers, Failing(h)
    PROVE  Known'
<1>1. ASSUME NEW S \in SUBSET Tasks, NEW r \in Reasons, NEW rep \in BOOLEAN,
             FailRows(S, r), handler' = [handler EXCEPT ![h] = Batch(S, rep)],
             \A t \in S : status[t] # "absent",
             UNCHANGED <<issueStatus, agentRuntime, runtimeStatus, claim, rerunning>>
      PROVE  Known'
  <2>1. /\ status' \in [Tasks -> Status] /\ row' \in [Tasks -> Row]
        /\ \A t \in Tasks : /\ row'[t].agent = row[t].agent
                            /\ row'[t].link = row[t].link
                            /\ row'[t].runtime = row[t].runtime
                            /\ status'[t] = "absent" <=> status[t] = "absent"
    BY <1>1, FailTypes DEF Known
  <2>2. Batch(S, rep) \in HandlerState /\ Batch(S, rep).todo = S
        /\ Batch(S, rep).pc \in {"idle", "retry"}
    BY DEF Batch, NoBatch, HandlerState
  <2>3. handler' \in [Handlers -> HandlerState] /\ handler'[h] = Batch(S, rep)
        /\ \A g \in Handlers : g # h => handler'[g] = handler[g]
    BY <1>1, <2>2 DEF Known, TypeOK
  <2>4. \A g \in Handlers : handler[g].todo \subseteq Tasks
    BY DEF Known, TypeOK, HandlerState
  <2>5. TypeOK' /\ RowsKnown' /\ ClaimsKnown'
    BY <1>1, <2>1, <2>3 DEF Known, TypeOK, RowsKnown, ClaimsKnown
  <2>6. BatchesKnown'
    BY <1>1, <2>1, <2>2, <2>3, <2>4 DEF Known, BatchesKnown
  <2> QED
    BY <2>5, <2>6 DEF Known
<1>2. \A t \in Tasks : InState(t, Active) => status[t] # "absent"
  BY DEF InState, Active
<1>3. {"timeout", "agent_error", "runtime_offline", "runtime_recovery"} \subseteq Reasons
  BY DEF Reasons, Retryable
<1>4. ASSUME NEW t \in Tasks, NEW r \in {"timeout", "agent_error"}, FailTask(h, t, r)
      PROVE  Known'
  <2>1. {t} \in SUBSET Tasks /\ r \in Reasons /\ \A u \in {t} : status[u] # "absent"
    BY <1>2, <1>3, <1>4 DEF FailTask
  <2>2. /\ FailRows({t}, r) /\ handler' = [handler EXCEPT ![h] = Batch({t}, TRUE)]
        /\ UNCHANGED <<issueStatus, agentRuntime, runtimeStatus, claim, rerunning>>
    BY <1>4 DEF FailTask
  <2> QED
    BY <1>1, <2>1, <2>2
<1>5. ASSUME NEW S \in SUBSET Tasks, SweepStaleTasks(h, S)
      PROVE  Known'
  BY <1>1, <1>2, <1>3, <1>5 DEF SweepStaleTasks
<1>6. ASSUME NEW R \in SUBSET Flaky, MarkStaleOffline(h, R)
      PROVE  Known'
  BY <1>6 DEF MarkStaleOffline, NoBatch, HandlerState, Known, TypeOK, RowsKnown,
              ClaimsKnown, BatchesKnown
<1>7. CASE FailOffline(h)
  <2> DEFINE S == {t \in Tasks : /\ InState(t, Active)
                                 /\ row[t].runtime \in Runtimes
                                 /\ runtimeStatus[row[t].runtime] = "offline"}
  <2>1. S \in SUBSET Tasks /\ "runtime_offline" \in Reasons
        /\ \A t \in S : status[t] # "absent"
    BY <1>2, <1>3
  <2>2. /\ FailRows(S, "runtime_offline") /\ handler' = [handler EXCEPT ![h] = Batch(S, FALSE)]
        /\ UNCHANGED <<issueStatus, agentRuntime, runtimeStatus, claim, rerunning>>
    BY <1>7 DEF FailOffline
  <2> HIDE DEF S
  <2> QED
    BY <1>1, <2>1, <2>2
<1>8. ASSUME NEW r \in Runtimes, RecoverOrphans(h, r)
      PROVE  Known'
  <2> DEFINE S == {t \in Tasks : InState(t, Active) /\ row[t].runtime = r}
  <2>1. S \in SUBSET Tasks /\ "runtime_recovery" \in Reasons
        /\ \A t \in S : status[t] # "absent"
    BY <1>2, <1>3
  <2>2. /\ FailRows(S, "runtime_recovery") /\ handler' = [handler EXCEPT ![h] = Batch(S, FALSE)]
        /\ UNCHANGED <<issueStatus, agentRuntime, runtimeStatus, claim, rerunning>>
    BY <1>8 DEF RecoverOrphans
  <2> HIDE DEF S
  <2> QED
    BY <1>1, <2>1, <2>2
<1> QED
  BY <1>4, <1>5, <1>6, <1>7, <1>8 DEF Failing

\* So does each step of HandleFailedTasks and of the retry it may make.
LEMMA HandlingTypes ==
    ASSUME Known, NEW h \in Handlers, Handling(h)
    PROVE  Known'
<1>1. handler[h] \in HandlerState /\ handler \in [Handlers -> HandlerState]
  BY DEF Known, TypeOK
<1>2. NoBatch \in HandlerState /\ NoBatch.todo = {} /\ NoBatch.pc = "idle"
  BY DEF NoBatch, HandlerState
<1>3. ASSUME NEW t \in handler[h].todo, NEW K \in SUBSET Issues
      PROVE  /\ AfterRetry(h, t, K) \in HandlerState
             /\ AfterRetry(h, t, K).todo \subseteq handler[h].todo
             /\ \/ AfterRetry(h, t, K).pc \in {"idle", handler[h].pc}
                \/ AfterRetry(h, t, K).task = t /\ row[t].link \in Issues
  <2> DEFINE b1 == [handler[h] EXCEPT !.pc = "issue", !.task = t, !.kept = K]
             b2 == [handler[h] EXCEPT !.todo = handler[h].todo \ {t}]
  <2>1. t \in Tasks
    BY <1>1 DEF HandlerState
  <2>2. b1 \in HandlerState /\ b1.todo = handler[h].todo /\ b1.task = t
    BY <1>1, <2>1 DEF HandlerState
  <2>3. /\ b2 \in HandlerState /\ b2.todo \subseteq handler[h].todo
        /\ b2.pc = handler[h].pc /\ b2.task = handler[h].task
    BY <1>1 DEF HandlerState
  <2>4. \/ AfterRetry(h, t, K) = NoBatch \/ AfterRetry(h, t, K) = b2
        \/ AfterRetry(h, t, K) = b1 /\ row[t].link \in Issues
    BY DEF AfterRetry
  <2> HIDE DEF b1, b2
  <2>5. CASE AfterRetry(h, t, K) = NoBatch
    BY <1>2, <2>5
  <2>6. CASE AfterRetry(h, t, K) = b2
    BY <2>3, <2>6
  <2>7. CASE AfterRetry(h, t, K) = b1 /\ row[t].link \in Issues
    BY <2>2, <2>7
  <2> QED
    BY <2>4, <2>5, <2>6, <2>7
<1>4. LET b == NextFailed(h) IN
      b \in HandlerState /\ b.todo \subseteq handler[h].todo /\ b.pc \in {"idle", "retry"}
  BY <1>1, <1>2 DEF NextFailed, HandlerState
<1>5. ASSUME NEW b \in HandlerState, handler' = [handler EXCEPT ![h] = b],
             b.todo \subseteq handler[h].todo,
             b.pc \in {"issue", "active", "reset"} =>
               b.task \in Tasks /\ status[b.task] # "absent" /\ row[b.task].link \in Issues,
             status' \in [Tasks -> Status], row' \in [Tasks -> Row], RowsKnown',
             \A u \in Tasks : status[u] # "absent" =>
                 status'[u] # "absent" /\ row'[u].link = row[u].link,
             issueStatus' \in [Issues -> IssueStatus],
             UNCHANGED <<agentRuntime, runtimeStatus, claim, rerunning>>
      PROVE  Known'
  <2>1. handler' \in [Handlers -> HandlerState] /\ handler'[h] = b
        /\ \A g \in Handlers : g # h => handler'[g] = handler[g]
    BY <1>1, <1>5
  <2>2. \A g \in Handlers : handler[g].todo \subseteq Tasks
    BY <1>1 DEF HandlerState
  <2>3. BatchesKnown'
    BY <1>5, <2>1, <2>2 DEF Known, BatchesKnown
  <2> QED
    BY <1>5, <2>1, <2>3 DEF Known, TypeOK, ClaimsKnown
<1>6. UNCHANGED <<status, row>> =>
        /\ status' \in [Tasks -> Status] /\ row' \in [Tasks -> Row] /\ RowsKnown'
        /\ \A u \in Tasks : status[u] # "absent" =>
             status'[u] # "absent" /\ row'[u].link = row[u].link
  BY DEF Known, TypeOK, RowsKnown
<1>7. issueStatus \in [Issues -> IssueStatus]
  BY DEF Known, TypeOK
<1>8. \A t \in handler[h].todo : t \in Tasks /\ status[t] # "absent"
  BY <1>1 DEF Known, BatchesKnown, HandlerState
<1>9. ASSUME NEW t \in Tasks, NoRetry(h, t)
      PROVE  Known'
  <2>1. t \in handler[h].todo /\ handler[h].pc = "retry" /\ handler[h].kept \in SUBSET Issues
    BY <1>1, <1>9 DEF NoRetry, HandlerState
  <2> QED
    <3> DEFINE K == handler[h].kept
               b == AfterRetry(h, t, K)
    <3>a. K \in SUBSET Issues
      BY <2>1
    <3> HIDE DEF K
    <3>1. /\ b \in HandlerState /\ b.todo \subseteq handler[h].todo
          /\ b.pc \in {"idle", "retry"} \/ (b.task = t /\ row[t].link \in Issues)
      BY <1>3, <2>1, <3>a
    <3>2. handler' = [handler EXCEPT ![h] = b]
      BY <1>9 DEF NoRetry, K
    <3>3. t \in Tasks /\ status[t] # "absent"
      BY <1>8, <2>1
    <3> HIDE DEF b
    <3>4. b.pc \in {"issue", "active", "reset"} =>
            b.task \in Tasks /\ status[b.task] # "absent" /\ row[b.task].link \in Issues
      BY <3>1, <3>3
    <3> QED
      BY <1>5, <1>6, <1>7, <1>9, <3>1, <3>2, <3>4 DEF NoRetry
<1>10. ASSUME NEW t \in Tasks, NEW u \in Tasks, RetryChild(h, t, u)
       PROVE  Known'
  <2>1. /\ t \in handler[h].todo /\ handler[h].pc = "retry"
        /\ handler[h].kept \cup ({row[t].link} \cap Issues) \in SUBSET Issues
    BY <1>1, <1>10 DEF RetryChild, HandlerState
  <2>2. /\ row[t].agent \in Agents /\ row[t].link \in Links /\ row[t].runtime \in Runtimes
        /\ row[t].attempt + 1 \in 0..MaxAttempts
    BY <1>8, <1>10, <2>1, ConstantsAssumption
       DEF RetryChild, RetryWanted, Known, TypeOK, RowsKnown, Row
  <2>3. /\ status' \in [Tasks -> Status] /\ row' \in [Tasks -> Row]
        /\ status'[u] = "queued" /\ row'[u].agent = row[t].agent
        /\ row'[u].link = row[t].link /\ row'[u].runtime = row[t].runtime
        /\ status[u] = "absent"
        /\ \A v \in Tasks : v # u => status'[v] = status[v] /\ row'[v] = row[v]
    BY <1>10, <2>2, InsertTypes DEF RetryChild, Known
  <2>4. RowsKnown'
    BY <2>2, <2>3 DEF Known, RowsKnown
  <2>5. \A v \in Tasks : status[v] # "absent" =>
          status'[v] # "absent" /\ row'[v].link = row[v].link
    BY <2>3
  <2> QED
    <3> DEFINE K == handler[h].kept \cup ({row[t].link} \cap Issues)
               b == AfterRetry(h, t, K)
    <3>a. K \in SUBSET Issues
      BY <2>1
    <3> HIDE DEF K
    <3>1. /\ b \in HandlerState /\ b.todo \subseteq handler[h].todo
          /\ b.pc \in {"idle", "retry"} \/ (b.task = t /\ row[t].link \in Issues)
      BY <1>3, <2>1, <3>a
    <3>2. handler' = [handler EXCEPT ![h] = b]
      BY <1>10 DEF RetryChild, K
    <3>3. t \in Tasks /\ status[t] # "absent"
      BY <1>8, <2>1
    <3> HIDE DEF b
    <3>4. b.pc \in {"issue", "active", "reset"} =>
            b.task \in Tasks /\ status[b.task] # "absent" /\ row[b.task].link \in Issues
      BY <3>1, <3>3
    <3> QED
      BY <1>5, <1>7, <1>10, <2>3, <2>4, <2>5, <3>1, <3>2, <3>4 DEF RetryChild
<1>11. handler[h].pc \in {"issue", "active", "reset"} =>
         /\ handler[h].task \in Tasks /\ status[handler[h].task] # "absent"
         /\ IssueOf(h) \in Issues
  BY DEF Known, BatchesKnown, IssueOf
<1>12. CASE ReadIssue(h)
  <2>1. CASE issueStatus[IssueOf(h)] = "in_progress" /\ IssueOf(h) \notin handler[h].kept
    <3> DEFINE b == [handler[h] EXCEPT !.pc = "active",
                                       !.kept = handler[h].kept \cup {IssueOf(h)}]
    <3>1. /\ b \in HandlerState /\ b.todo = handler[h].todo /\ b.task = handler[h].task
      BY <1>1, <1>11, <1>12 DEF ReadIssue, HandlerState
    <3>2. handler' = [handler EXCEPT ![h] = b]
      BY <1>12, <2>1 DEF ReadIssue
    <3> HIDE DEF b
    <3> QED
      BY <1>5, <1>6, <1>7, <1>11, <1>12, <3>1, <3>2 DEF ReadIssue, IssueOf
  <2>2. CASE ~ (issueStatus[IssueOf(h)] = "in_progress" /\ IssueOf(h) \notin handler[h].kept)
    BY <1>1, <1>4, <1>5, <1>6, <1>7, <1>12, <2>2 DEF ReadIssue
  <2> QED
    BY <2>1, <2>2
<1>13. CASE CheckIssue(h)
  <2>1. CASE ~ IssueBusy(IssueOf(h))
    <3> DEFINE b == [handler[h] EXCEPT !.pc = "reset"]
    <3>1. /\ b \in HandlerState /\ b.todo = handler[h].todo /\ b.task = handler[h].task
          /\ handler' = [handler EXCEPT ![h] = b]
      BY <1>1, <1>13, <2>1 DEF CheckIssue, HandlerState
    <3> HIDE DEF b
    <3> QED
      BY <1>5, <1>6, <1>7, <1>11, <1>13, <3>1 DEF CheckIssue, IssueOf
  <2>2. CASE IssueBusy(IssueOf(h))
    BY <1>1, <1>4, <1>5, <1>6, <1>7, <1>13, <2>2 DEF CheckIssue
  <2> QED
    BY <2>1, <2>2
<1>14. CASE ResetIssue(h)
  <2>1. issueStatus' \in [Issues -> IssueStatus]
    BY <1>7, <1>11, <1>14 DEF ResetIssue, IssueStatus
  <2> QED
    BY <1>4, <1>5, <1>6, <1>14, <2>1 DEF ResetIssue
<1> QED
  BY <1>9, <1>10, <1>12, <1>13, <1>14 DEF Handling

\* One step of the whole queue keeps every type.
LEMMA StepTypes ==
    ASSUME Known, [Next]_vars
    PROVE  Known'
<1>1. CASE UNCHANGED vars
  BY <1>1 DEF vars, Known, TypeOK, RowsKnown, ClaimsKnown, BatchesKnown
<1> QED
  BY <1>1, EnqueueingTypes, ClaimingTypes, FinishingTypes, FailingTypes, HandlingTypes,
     SurroundingsTypes, FaultTypes DEF Next, Step

\* Every variable keeps its type whatever the requests, sweeps and claims do: a
\* retry stays within its attempts, and a batch never loses the issue it is at.
THEOREM TypesAlways == Spec => []TypeOK
<1>1. Init => Known
  BY InitTypes DEF Known
<1>2. Known /\ [Next]_vars => Known'
  BY StepTypes
<1>3. Known => TypeOK
  BY DEF Known
<1> QED
  BY <1>1, <1>2, <1>3, PTL DEF Spec

-----------------------------------------------------------------------------
(* Every step is a step of WorkQueue, or none. *)

\* A step that writes no row is a stutter of the abstract queue.
LEMMA SameQueue ==
    ASSUME UNCHANGED <<status, row>>
    PROVE  UNCHANGED WQ!workVars
BY DEF WQ!workVars

\* An enqueue statement is the abstract Add.
LEMMA InsertRefines ==
    ASSUME Known, NEW t \in Tasks, NEW a \in Agents, NEW l \in Links, NEW r \in Runtimes,
           NEW n \in 0..MaxAttempts, NEW p \in Tasks \cup {0},
           IndexAllows(a, l), Insert(t, a, l, r, n, p)
    PROVE  WQ!Next
<1>1. /\ status' = [status EXCEPT ![t] = "queued"] /\ status[t] = "absent"
      /\ row'[t].agent = a /\ row'[t].link = l
      /\ \A u \in Tasks : u # t => row'[u] = row[u]
  BY InsertTypes DEF Known, Insert
<1>2. [u \in Tasks |-> <<row'[u].agent, row'[u].link>>]
        = [[u \in Tasks |-> <<row[u].agent, row[u].link>>] EXCEPT ![t] = <<a, l>>]
  BY <1>1
<1>3. <<a, l>> \in Agents \X Issues => WQ!Waiting(<<a, l>>) = {}
  BY DEF IndexAllows, InState, Pending, WQ!Waiting
<1>4. <<a, l>> \in Agents \X Links
  OBVIOUS
<1>5. WQ!Add(t, <<a, l>>)
  BY <1>1, <1>2, <1>3 DEF WQ!Add
<1> QED
  BY <1>4, <1>5 DEF WQ!Next

\* The hand-out of a row by ClaimAgentTask is the abstract hand-out.
LEMMA ClaimRowRefines ==
    ASSUME Known, SnapshotHolds, NEW p \in Claimers, NEW t \in Tasks, ClaimRow(p, t)
    PROVE  WQ!Next
<1>1. /\ claim[p].pc = "claim" /\ t \in claim[p].cand /\ status[t] = "queued"
      /\ status' = [status EXCEPT ![t] = "dispatched"] /\ row' = row
  BY DEF ClaimRow
<1>2. <<row[t].agent, row[t].link>> \in Agents \X Issues =>
        WQ!InProgress(<<row[t].agent, row[t].link>>) = {}
  BY <1>1 DEF SnapshotHolds, InState, Active, SameWork, WQ!InProgress
<1>3. WQ!HandOut(t)
  BY <1>1, <1>2 DEF WQ!HandOut
<1> QED
  BY <1>3 DEF WQ!Next

\* A failing update ends rows in the abstract queue.
LEMMA FailRefines ==
    ASSUME Known, NEW S \in SUBSET Tasks, NEW r \in Reasons,
           \A t \in S : InState(t, Active), FailRows(S, r)
    PROVE  WQ!Next
<1>1. \A t \in Tasks : row'[t].agent = row[t].agent /\ row'[t].link = row[t].link
  BY FailTypes DEF Known
<1>2. [t \in Tasks |-> <<row'[t].agent, row'[t].link>>]
        = [t \in Tasks |-> <<row[t].agent, row[t].link>>]
  BY <1>1
<1>3. WQ!Fail(S)
  BY <1>2 DEF WQ!Fail, FailRows, InState, Active
<1> QED
  BY <1>3 DEF WQ!Next

\* A cancelling update does too.
LEMMA CancelRefines ==
    ASSUME NEW S, CancelRows(S)
    PROVE  WQ!Next
<1> DEFINE C == {t \in Tasks : t \in S /\ InState(t, Live)}
<1>1. WQ!Cancel(C)
  BY DEF WQ!Cancel, CancelRows, InState, Live
<1> QED
  BY <1>1 DEF WQ!Next

\* Every step of the queue is an abstract step or a stutter.
LEMMA StepRefines ==
    ASSUME Known, SnapshotHolds, [Next]_vars
    PROVE  [WQ!Next]_WQ!workVars
<1>1. CASE Enqueueing
  <2>1. PICK t \in Tasks, a \in Agents, l \in Links : Enqueue(t, a, l)
    BY <1>1 DEF Enqueueing, EnqueueIssue, RerunEnqueue, EnqueueChat, EnqueueApiChat,
                EnqueueQuickCreate, EnqueueRunOnly, Links
  <2>2. agentRuntime[a] \in Runtimes /\ 1 \in 0..MaxAttempts /\ 0 \in Tasks \cup {0}
    BY ConstantsAssumption DEF Known, TypeOK
  <2> QED
    BY <2>1, <2>2, InsertRefines DEF Enqueue
<1>2. ASSUME NEW p \in Claimers, Claiming(p)
      PROVE  WQ!Next \/ UNCHANGED WQ!workVars
  <2>1. CASE \E t \in Tasks : ClaimRow(p, t)
    BY <2>1, ClaimRowRefines
  <2>2. CASE ~ \E t \in Tasks : ClaimRow(p, t)
    BY <1>2, <2>2, SameQueue
       DEF Claiming, ClaimGoesOn, Poll, HasCapacity, NoCapacity, ClaimSnapshot,
           ClaimNothing, ApiNext
  <2> QED
    BY <2>1, <2>2
<1>3. CASE Finishing
  <2>1. ASSUME NEW t \in Tasks, StartTask(t)
        PROVE  WQ!Next
    BY <2>1 DEF StartTask, WQ!Start, WQ!Next
  <2>2. ASSUME NEW t \in Tasks, CompleteTask(t)
        PROVE  WQ!Next
    BY <2>2 DEF CompleteTask, WQ!Complete, WQ!Next
  <2>3. ASSUME NEW t \in Tasks, CancelTask(t)
        PROVE  WQ!Next
    BY <2>3, CancelRefines DEF CancelTask
  <2>4. ASSUME NEW S \in SUBSET Tasks, CancelMany(S)
        PROVE  WQ!Next
    BY <2>4, CancelRefines DEF CancelMany
  <2>5. ASSUME NEW i \in Issues, NEW a \in Agents, RerunCancel(i, a)
        PROVE  WQ!Next
    BY <2>5, CancelRefines DEF RerunCancel
  <2>6. ASSUME NEW i \in Issues, NEW a \in Agents, RerunRefused(i, a)
        PROVE  UNCHANGED WQ!workVars
    BY <2>6, SameQueue DEF RerunRefused
  <2> QED
    BY <1>3, <2>1, <2>2, <2>3, <2>4, <2>5, <2>6 DEF Finishing
<1>4. ASSUME NEW h \in Handlers, Failing(h)
      PROVE  WQ!Next \/ UNCHANGED WQ!workVars
  <2>1. {"timeout", "agent_error", "runtime_offline", "runtime_recovery"} \subseteq Reasons
    BY DEF Reasons, Retryable
  <2>2. CASE \E S \in SUBSET Tasks, r \in Reasons :
               FailRows(S, r) /\ \A t \in S : InState(t, Active)
    BY <2>2, FailRefines
  <2>3. ASSUME NEW t \in Tasks, NEW r \in {"timeout", "agent_error"}, FailTask(h, t, r)
        PROVE  \E S \in SUBSET Tasks, q \in Reasons :
                 FailRows(S, q) /\ \A u \in S : InState(u, Active)
    <3>1. {t} \in SUBSET Tasks /\ FailRows({t}, r) /\ \A u \in {t} : InState(u, Active)
      BY <2>3 DEF FailTask
    <3> QED
      BY <2>1, <3>1
  <2>4. ASSUME NEW S \in SUBSET Tasks, SweepStaleTasks(h, S)
        PROVE  \E T \in SUBSET Tasks, q \in Reasons :
                 FailRows(T, q) /\ \A u \in T : InState(u, Active)
    BY <2>1, <2>4 DEF SweepStaleTasks
  <2>5. ASSUME FailOffline(h)
        PROVE  \E S \in SUBSET Tasks, q \in Reasons :
                 FailRows(S, q) /\ \A u \in S : InState(u, Active)
    <3> DEFINE S == {t \in Tasks : /\ InState(t, Active)
                                   /\ row[t].runtime \in Runtimes
                                   /\ runtimeStatus[row[t].runtime] = "offline"}
    <3>1. S \in SUBSET Tasks /\ FailRows(S, "runtime_offline")
          /\ \A u \in S : InState(u, Active)
      BY <2>5 DEF FailOffline
    <3> HIDE DEF S
    <3> QED
      BY <2>1, <3>1
  <2>6. ASSUME NEW r \in Runtimes, RecoverOrphans(h, r)
        PROVE  \E S \in SUBSET Tasks, q \in Reasons :
                 FailRows(S, q) /\ \A u \in S : InState(u, Active)
    <3> DEFINE S == {t \in Tasks : InState(t, Active) /\ row[t].runtime = r}
    <3>1. S \in SUBSET Tasks /\ FailRows(S, "runtime_recovery")
          /\ \A u \in S : InState(u, Active)
      BY <2>6 DEF RecoverOrphans
    <3> HIDE DEF S
    <3> QED
      BY <2>1, <3>1
  <2>7. ASSUME NEW R \in SUBSET Flaky, MarkStaleOffline(h, R)
        PROVE  UNCHANGED WQ!workVars
    BY <2>7, SameQueue DEF MarkStaleOffline
  <2> QED
    BY <1>4, <2>2, <2>3, <2>4, <2>5, <2>6, <2>7 DEF Failing
<1>5. ASSUME NEW h \in Handlers, Handling(h)
      PROVE  WQ!Next \/ UNCHANGED WQ!workVars
  <2>1. ASSUME NEW t \in Tasks, NEW u \in Tasks, RetryChild(h, t, u)
        PROVE  WQ!Next
    <3>1. status[t] # "absent"
      BY <2>1 DEF RetryChild, Known, BatchesKnown
    <3>2. /\ row[t].agent \in Agents /\ row[t].link \in Links /\ row[t].runtime \in Runtimes
          /\ row[t].attempt + 1 \in 0..MaxAttempts
      BY <2>1, <3>1, ConstantsAssumption
         DEF RetryChild, RetryWanted, Known, TypeOK, RowsKnown, Row
    <3> QED
      BY <2>1, <3>2, InsertRefines DEF RetryChild
  <2>2. CASE ~ \E t, u \in Tasks : RetryChild(h, t, u)
    BY <1>5, <2>2, SameQueue DEF Handling, NoRetry, ReadIssue, CheckIssue, ResetIssue
  <2> QED
    BY <2>1, <2>2
<1>6. CASE Surroundings
  BY <1>6, SameQueue DEF Surroundings, SetIssueStatus, SetOnline, Deregister, MoveAgent
<1>7. CASE Fault
  BY <1>7, SameQueue DEF Fault, ServerRestart, ApiExpire
<1>8. CASE UNCHANGED vars
  BY <1>8, SameQueue DEF vars
<1> QED
  BY <1>1, <1>2, <1>3, <1>4, <1>5, <1>6, <1>7, <1>8 DEF Next, Step

-----------------------------------------------------------------------------
(* The invariants of the queue, from the steps of WorkQueue. *)

\* A row keeps its agent and link, moves forward only, and the rows that become
\* pending or active are the ones that WorkQueue adds or hands out.
LEMMA RowsForward ==
    ASSUME Known, Known', [WQ!Next]_WQ!workVars, NEW t \in Tasks
    PROVE  /\ status[t] # "absent" => status'[t] # "absent" /\ row'[t].agent = row[t].agent
                                      /\ row'[t].link = row[t].link
           /\ status'[t] = "queued" => status[t] \in {"absent", "queued"}
           /\ status'[t] = "dispatched" => status[t] \in {"queued", "dispatched"}
           /\ status'[t] = "running" => status[t] \in {"dispatched", "running"}
<1> DEFINE w == [u \in Tasks |-> <<row[u].agent, row[u].link>>]
           ww == [u \in Tasks |-> <<row'[u].agent, row'[u].link>>]
<1>1. status \in [Tasks -> Status]
  BY DEF Known, TypeOK
<1>2. ww[t] = w[t] => row'[t].agent = row[t].agent /\ row'[t].link = row[t].link
  OBVIOUS
<1>3. CASE UNCHANGED WQ!workVars
  BY <1>2, <1>3 DEF WQ!workVars
<1>4. ASSUME NEW u \in Tasks, NEW x \in Agents \X Links, WQ!Add(u, x)
      PROVE  /\ status' = [status EXCEPT ![u] = "queued"] /\ status[u] = "absent"
             /\ t # u => ww[t] = w[t]
  BY <1>4 DEF WQ!Add
<1>5. ASSUME NEW u \in Tasks, WQ!HandOut(u) \/ WQ!Start(u) \/ WQ!Complete(u)
      PROVE  /\ ww = w
             /\ \/ status[u] = "queued" /\ status' = [status EXCEPT ![u] = "dispatched"]
                \/ status[u] = "dispatched" /\ status' = [status EXCEPT ![u] = "running"]
                \/ status[u] = "running" /\ status' = [status EXCEPT ![u] = "completed"]
  BY <1>5 DEF WQ!HandOut, WQ!Start, WQ!Complete
<1>6. ASSUME NEW S \in SUBSET Tasks, WQ!Fail(S) \/ WQ!Cancel(S)
      PROVE  /\ ww = w
             /\ status'[t] \in {status[t], "failed", "cancelled"}
  BY <1>6 DEF WQ!Fail, WQ!Cancel
<1> HIDE DEF w, ww
<1>7. ASSUME WQ!Next
      PROVE  \/ \E u \in Tasks, x \in Agents \X Links : WQ!Add(u, x)
             \/ \E u \in Tasks : WQ!HandOut(u) \/ WQ!Start(u) \/ WQ!Complete(u)
             \/ \E S \in SUBSET Tasks : WQ!Fail(S) \/ WQ!Cancel(S)
  BY <1>7 DEF WQ!Next
<1>8. CASE \E u \in Tasks, x \in Agents \X Links : WQ!Add(u, x)
  BY <1>1, <1>2, <1>4, <1>8
<1>9. CASE \E u \in Tasks : WQ!HandOut(u) \/ WQ!Start(u) \/ WQ!Complete(u)
  BY <1>1, <1>2, <1>5, <1>9
<1>10. CASE \E S \in SUBSET Tasks : WQ!Fail(S) \/ WQ!Cancel(S)
  BY <1>1, <1>2, <1>6, <1>10
<1> QED
  BY <1>3, <1>7, <1>8, <1>9, <1>10

\* Two rows of one issue and agent never become pending, or active, together.
LEMMA UniqueStep ==
    ASSUME Known, Known', PendingUnique, IssueSerial, [WQ!Next]_WQ!workVars
    PROVE  PendingUnique' /\ IssueSerial'
<1>1. \A t \in Tasks : InState(t, Pending)' \/ InState(t, Active)' => row'[t].agent \in Agents
  BY DEF Known, RowsKnown, InState, Pending, Active
<1>2. ASSUME NEW t \in Tasks, NEW u \in Tasks, t # u,
             InState(t, Pending)', InState(u, Pending)',
             SameWork(t, u)', row'[t].link \in Issues
      PROVE  FALSE
  <2>1. ~ (InState(t, Pending) /\ InState(u, Pending))
    BY <1>2, RowsForward DEF PendingUnique, InState, Pending, SameWork
  <2>2. PICK v \in Tasks : v \in {t, u} /\ status[v] = "absent" /\ status'[v] = "queued"
    BY <1>2, <2>1, RowsForward DEF InState, Pending
  <2>3. PICK x \in Agents \X Links : WQ!Add(v, x)
    BY <2>2 DEF WQ!Next, WQ!workVars, WQ!Add, WQ!HandOut, WQ!Start, WQ!Complete, WQ!Fail,
                WQ!Cancel, Known, TypeOK
  <2>4. PICK z \in Tasks : z \in {t, u} /\ z # v
    BY <1>2, <2>2
  <2>5. /\ status'[z] = status[z] /\ row'[z].agent = row[z].agent /\ row'[z].link = row[z].link
        /\ <<row'[v].agent, row'[v].link>> = x
    BY <2>3, <2>4 DEF WQ!Add, Known, TypeOK
  <2>6. x \in Agents \X Issues /\ <<row[z].agent, row[z].link>> = x /\ InState(z, Pending)
    BY <1>1, <1>2, <2>2, <2>4, <2>5 DEF SameWork, InState
  <2>7. z \in WQ!Waiting(x)
    BY <2>6 DEF WQ!Waiting, InState, Pending
  <2> QED
    BY <2>3, <2>6, <2>7 DEF WQ!Add
<1>3. ASSUME NEW t \in Tasks, NEW u \in Tasks, t # u,
             InState(t, Active)', InState(u, Active)',
             SameWork(t, u)', row'[t].link \in Issues
      PROVE  FALSE
  <2>1. ~ (InState(t, Active) /\ InState(u, Active))
    BY <1>3, RowsForward DEF IssueSerial, InState, Active, SameWork
  <2>2. PICK v \in Tasks : v \in {t, u} /\ status[v] = "queued" /\ status'[v] = "dispatched"
    BY <1>3, <2>1, RowsForward DEF InState, Active
  <2>3. WQ!HandOut(v)
    BY <2>2 DEF WQ!Next, WQ!workVars, WQ!Add, WQ!HandOut, WQ!Start, WQ!Complete, WQ!Fail,
                WQ!Cancel, Known, TypeOK
  <2>4. PICK z \in Tasks : z \in {t, u} /\ z # v
    BY <1>3, <2>2
  <2>5. /\ status'[z] = status[z] /\ row'[z].agent = row[z].agent /\ row'[z].link = row[z].link
        /\ row'[v].agent = row[v].agent /\ row'[v].link = row[v].link
    BY <2>2, <2>3, <2>4, RowsForward DEF WQ!HandOut, Known, TypeOK, InState, Active
  <2>6. /\ <<row[v].agent, row[v].link>> \in Agents \X Issues /\ SameWork(z, v)
        /\ InState(z, Active)
    BY <1>1, <1>3, <2>2, <2>4, <2>5 DEF SameWork, InState
  <2>7. z \in WQ!InProgress(<<row[v].agent, row[v].link>>)
    BY <2>6 DEF WQ!InProgress, InState, Active, SameWork
  <2> QED
    BY <2>3, <2>6, <2>7 DEF WQ!HandOut
<1> QED
  BY <1>2, <1>3 DEF PendingUnique, IssueSerial

\* A claim past its snapshot keeps it; one that takes it sees the queue as it is.
LEMMA SnapshotKept ==
    ASSUME Known, [Next]_vars, NEW p \in Claimers, claim'[p].pc = "claim"
    PROVE  \/ claim[p].pc = "claim" /\ claim'[p].cand = claim[p].cand
           \/ UNCHANGED <<status, row>> /\ claim'[p].cand = Claimable(claim[p].agent)
<1> claim \in [Claimers -> ClaimState]
  BY DEF Known, TypeOK
<1>1. CASE UNCHANGED claim
  BY <1>1
<1>2. ASSUME NEW q \in Claimers, Claiming(q)
      PROVE  \/ claim[p].pc = "claim" /\ claim'[p].cand = claim[p].cand
             \/ UNCHANGED <<status, row>> /\ claim'[p].cand = Claimable(claim[p].agent)
  <2>1. CASE ClaimSnapshot(q)
    BY <2>1 DEF ClaimSnapshot, ClaimState
  <2>2. ASSUME claim'[q].pc # "claim", \A r \in Claimers : r # q => claim'[r] = claim[r]
        PROVE  claim[p].pc = "claim" /\ claim'[p].cand = claim[p].cand
    BY <2>2
  <2>3. NextAgent(q) => claim'[q].pc # "claim" /\ \A r \in Claimers : r # q => claim'[r] = claim[r]
    BY DEF NextAgent, NoClaim
  <2>4. ASSUME NEW r \in Runtimes, Poll(q, r)
        PROVE  claim[p].pc = "claim" /\ claim'[p].cand = claim[p].cand
    BY <2>2, <2>4 DEF Poll, NoClaim
  <2>5. ASSUME NEW a \in Agents, HasCapacity(q, a) \/ NoCapacity(q, a)
        PROVE  claim[p].pc = "claim" /\ claim'[p].cand = claim[p].cand
    BY <2>2, <2>5 DEF HasCapacity, NoCapacity, NoClaim, ClaimState
  <2>6. ASSUME NEW t \in Tasks, ClaimRow(q, t)
        PROVE  claim[p].pc = "claim" /\ claim'[p].cand = claim[p].cand
    <3>1. CASE claim[q].runtime = NULL
      <4>1. claim' = [claim EXCEPT ![q] = [NoClaim EXCEPT !.pc = "api", !.task = t,
                                                          !.agent = claim[q].agent]]
        BY <2>6, <3>1 DEF ClaimRow
      <4>2. claim'[q].pc = "api"
        BY <4>1 DEF NoClaim
      <4>3. \A r \in Claimers : r # q => claim'[r] = claim[r]
        BY <4>1
      <4> QED
        BY <2>2, <4>2, <4>3
    <3>2. CASE claim[q].runtime # NULL /\ row[t].runtime = claim[q].runtime
      <4>1. claim' = [claim EXCEPT ![q] = NoClaim]
        BY <2>6, <3>2 DEF ClaimRow
      <4> QED
        BY <2>2, <4>1 DEF NoClaim
    <3>3. CASE claim[q].runtime # NULL /\ row[t].runtime # claim[q].runtime
      <4>1. NextAgent(q)
        BY <2>6, <3>3 DEF ClaimRow
      <4> QED
        BY <2>2, <2>3, <4>1
    <3> QED
      BY <3>1, <3>2, <3>3
  <2>7. ClaimNothing(q) => claim[p].pc = "claim" /\ claim'[p].cand = claim[p].cand
    BY <2>2, <2>3 DEF ClaimNothing
  <2>8. ApiNext(q) => claim[p].pc = "claim" /\ claim'[p].cand = claim[p].cand
    BY <2>2 DEF ApiNext, NoClaim
  <2> QED
    BY <1>2, <2>1, <2>4, <2>5, <2>6, <2>7, <2>8 DEF Claiming, ClaimGoesOn
<1>3. CASE \E t \in Tasks, a \in Agents, c \in Chats, q \in Claimers :
             EnqueueApiChat(t, a, c, q)
  BY <1>3 DEF EnqueueApiChat, NoClaim, ClaimState
<1>4. CASE Fault
  BY <1>4 DEF Fault, ServerRestart, ApiExpire, NoClaim, ClaimState
<1>5. Enqueueing => UNCHANGED claim \/ \E t \in Tasks, a \in Agents, c \in Chats,
                       q \in Claimers : EnqueueApiChat(t, a, c, q)
  BY DEF Enqueueing, EnqueueIssue, RerunEnqueue, EnqueueChat, EnqueueQuickCreate,
         EnqueueRunOnly
<1>6. Finishing => UNCHANGED claim
  BY DEF Finishing, StartTask, CompleteTask, CancelTask, CancelMany, RerunCancel, RerunRefused
<1>7. \A h \in Handlers : Failing(h) \/ Handling(h) => UNCHANGED claim
  BY DEF Failing, FailTask, SweepStaleTasks, MarkStaleOffline, FailOffline, RecoverOrphans,
         Handling, NoRetry, RetryChild, ReadIssue, CheckIssue, ResetIssue
<1>8. Surroundings => UNCHANGED claim
  BY DEF Surroundings, SetIssueStatus, SetOnline, Deregister, MoveAgent
<1>9. UNCHANGED vars => UNCHANGED claim
  BY DEF vars
<1> QED
  BY <1>1, <1>2, <1>3, <1>4, <1>5, <1>6, <1>7, <1>8, <1>9 DEF Next, Step

\* The inductive invariant makes a claim's snapshot hold again after every step.
LEMMA SnapshotStep ==
    ASSUME Known, Known', PendingUnique, SnapshotHolds, [WQ!Next]_WQ!workVars, [Next]_vars
    PROVE  SnapshotHolds'
<1> SUFFICES ASSUME NEW p \in Claimers, claim'[p].pc = "claim", NEW t \in claim'[p].cand
             PROVE  /\ status'[t] # "absent"
                    /\ status'[t] = "queued" /\ row'[t].link \in Issues =>
                         ~ \E u \in Tasks : InState(u, Active)' /\ SameWork(u, t)'
  BY DEF SnapshotHolds
<1>0. t \in Tasks
  BY DEF Known, TypeOK, ClaimState
<1>1. CASE UNCHANGED <<status, row>> /\ claim'[p].cand = Claimable(claim[p].agent)
  BY <1>1 DEF Claimable, Serialized, InState, SameWork
<1>2. CASE claim[p].pc = "claim" /\ claim'[p].cand = claim[p].cand
  <2>1. /\ status[t] # "absent"
        /\ status[t] = "queued" /\ row[t].link \in Issues =>
             ~ \E u \in Tasks : InState(u, Active) /\ SameWork(u, t)
    BY <1>2 DEF SnapshotHolds
  <2>2. ASSUME status'[t] = "queued", row'[t].link \in Issues,
               NEW u \in Tasks, InState(u, Active)', SameWork(u, t)'
        PROVE  FALSE
    <3>1. status[t] = "queued" /\ row[t].link \in Issues
      BY <1>0, <2>1, <2>2, RowsForward
    <3>2. SameWork(u, t) /\ status[u] # "absent"
      BY <1>0, <2>1, <2>2, RowsForward DEF SameWork, InState, Active
    <3>3. ~ InState(u, Active)
      BY <2>1, <3>1, <3>2
    <3>4. status[u] = "queued" /\ status'[u] = "dispatched"
      BY <2>2, <3>3, RowsForward DEF InState, Active
    <3>5. u = t
      BY <1>0, <3>1, <3>2, <3>4 DEF PendingUnique, InState, Pending, SameWork
    <3> QED
      BY <2>2, <3>4, <3>5
  <2> QED
    BY <1>0, <2>1, <2>2, RowsForward
<1> QED
  BY <1>1, <1>2, SnapshotKept

\* The empty queue satisfies the inductive invariant.
LEMMA InitInvariant == Init => IInv
BY InitTypes DEF Init, IInv, PendingUnique, IssueSerial, SnapshotHolds, InState, Pending,
   Active, NoClaim

\* Every step keeps the inductive invariant.
LEMMA StepInvariant == IInv /\ [Next]_vars => IInv'
<1> SUFFICES ASSUME IInv, [Next]_vars
             PROVE  IInv'
  OBVIOUS
<1>1. Known /\ PendingUnique /\ IssueSerial /\ SnapshotHolds
  BY DEF IInv, Known
<1>2. Known'
  BY <1>1, StepTypes
<1>3. [WQ!Next]_WQ!workVars
  BY <1>1, StepRefines
<1>4. PendingUnique' /\ IssueSerial'
  BY <1>1, <1>2, <1>3, UniqueStep
<1>5. SnapshotHolds'
  BY <1>1, <1>2, <1>3, SnapshotStep
<1> QED
  BY <1>2, <1>4, <1>5 DEF IInv, Known

\* The types, one pending and one active row for each issue and agent, and what an
\* unfinished claim remembers of its snapshot hold in every state: the strengthening
\* of IssueSerial that the steps of ClaimAgentTask preserve.
THEOREM InvariantAlways == Spec => []IInv
BY InitInvariant, StepInvariant, PTL DEF Spec

\* Whatever claims, sweeps, retries and reruns overlap, an agent never has two
\* rows of one issue dispatched or running.
THEOREM IssueSerialAlways == Spec => []IssueSerial
<1>1. IInv => IssueSerial
  BY DEF IInv
<1> QED
  BY <1>1, InvariantAlways, PTL

\* Nor two rows of one issue queued or dispatched.
THEOREM PendingUniqueAlways == Spec => []PendingUnique
<1>1. IInv => PendingUnique
  BY DEF IInv
<1> QED
  BY <1>1, InvariantAlways, PTL

\* The queue of statements implements the queue of atomic hand-outs.
THEOREM Refinement == Spec => ImplementsWorkQueue
<1>1. Init => WQ!Init
  BY DEF Init, WQ!Init, NoRow
<1>2. IInv /\ [Next]_vars => [WQ!Next]_WQ!workVars
  BY StepRefines DEF IInv, Known
<1> QED
  BY <1>1, <1>2, InvariantAlways, PTL DEF Spec, ImplementsWorkQueue, WQ!Spec

\* What a claim saw in its snapshot of the queue stays true of the rows it may take.
THEOREM SnapshotHoldsAlways == Spec => []SnapshotHolds
<1>1. IInv => SnapshotHolds
  BY DEF IInv
<1> QED
  BY <1>1, InvariantAlways, PTL

-----------------------------------------------------------------------------
(* Finished rows, and retries. *)

\* An insertion writes a free row only, a failing update active rows only, a
\* cancelling update live rows only.
LEMMA TerminalKept ==
    ASSUME Known, NEW t \in Tasks, InState(t, Terminal)
    PROVE  /\ \A u \in Tasks : \A a, l, r, n, p :
                 Insert(u, a, l, r, n, p) => status'[t] = status[t] /\ row'[t] = row[t]
           /\ \A S, r : FailRows(S, r) /\ (\A u \in S : InState(u, Active))
                 => status'[t] = status[t] /\ row'[t] = row[t]
           /\ \A S : CancelRows(S) => status'[t] = status[t] /\ row'[t] = row[t]
<1>1. status \in [Tasks -> Status] /\ row \in [Tasks -> Row]
  BY DEF Known, TypeOK
<1>2. status[t] \notin {"absent", "queued", "dispatched", "running"}
  BY DEF InState, Terminal
<1>3. ASSUME NEW u \in Tasks, NEW a, NEW l, NEW r, NEW n, NEW p, Insert(u, a, l, r, n, p)
      PROVE  status'[t] = status[t] /\ row'[t] = row[t]
  BY <1>1, <1>2, <1>3 DEF Insert, NextRow
<1>4. ASSUME NEW S, NEW r, FailRows(S, r), \A u \in S : InState(u, Active)
      PROVE  status'[t] = status[t] /\ row'[t] = row[t]
  <2>1. t \notin S
    BY <1>2, <1>4 DEF InState, Active
  <2> QED
    BY <1>4, <2>1 DEF FailRows
<1>5. ASSUME NEW S, CancelRows(S)
      PROVE  status'[t] = status[t] /\ row'[t] = row[t]
  BY <1>2, <1>5 DEF CancelRows, InState, Live
<1> QED
  BY <1>3, <1>4, <1>5

\* No statement of the queue touches a finished row.
LEMMA TerminalStep ==
    ASSUME Known, [Next]_vars, NEW t \in Tasks, InState(t, Terminal)
    PROVE  status'[t] = status[t] /\ row'[t] = row[t]
<1> DEFINE Kept == status'[t] = status[t] /\ row'[t] = row[t]
<1>1. UNCHANGED <<status, row>> => Kept
  OBVIOUS
<1>2. status[t] \notin {"absent", "queued", "dispatched", "running"}
      /\ status \in [Tasks -> Status]
  BY DEF InState, Terminal, Known, TypeOK
<1>3. CASE Enqueueing
  <2>1. PICK u \in Tasks, a \in Agents, l \in Links : Enqueue(u, a, l)
    BY <1>3 DEF Enqueueing, EnqueueIssue, RerunEnqueue, EnqueueChat, EnqueueApiChat,
                EnqueueQuickCreate, EnqueueRunOnly, Links
  <2> QED
    BY <2>1, TerminalKept DEF Enqueue
<1>4. ASSUME NEW p \in Claimers, Claiming(p)
      PROVE  Kept
  <2>1. CASE \E u \in Tasks : ClaimRow(p, u)
    BY <1>2, <2>1 DEF ClaimRow
  <2>2. CASE UNCHANGED <<status, row>>
    BY <1>1, <2>2
  <2> QED
    BY <1>4, <2>1, <2>2 DEF Claiming, ClaimGoesOn, HasCapacity, NoCapacity, ClaimSnapshot,
                            ClaimNothing, ApiNext, Poll
<1>5. CASE Finishing
  <2>1. ASSUME NEW u \in Tasks, StartTask(u) \/ CompleteTask(u)
        PROVE  Kept
    BY <1>2, <2>1 DEF StartTask, CompleteTask
  <2>2. CASE \E S : CancelRows(S)
    BY <2>2, TerminalKept
  <2>3. ASSUME NEW i \in Issues, NEW a \in Agents, RerunRefused(i, a)
        PROVE  Kept
    BY <1>1, <2>3 DEF RerunRefused
  <2> QED
    BY <1>5, <2>1, <2>2, <2>3 DEF Finishing, CancelTask, CancelMany, RerunCancel
<1>6. ASSUME NEW h \in Handlers, Failing(h)
      PROVE  Kept
  <2>1. CASE \E S, r : FailRows(S, r) /\ \A u \in S : InState(u, Active)
    BY <2>1, TerminalKept
  <2>2. CASE \E R \in SUBSET Flaky : MarkStaleOffline(h, R)
    BY <1>1, <2>2 DEF MarkStaleOffline
  <2>3. ASSUME NEW u \in Tasks, NEW r \in {"timeout", "agent_error"}, FailTask(h, u, r)
        PROVE  \E S, x : FailRows(S, x) /\ \A v \in S : InState(v, Active)
    <3>1. FailRows({u}, r) /\ \A v \in {u} : InState(v, Active)
      BY <2>3 DEF FailTask
    <3> QED
      BY <3>1
  <2>4. ASSUME NEW S \in SUBSET Tasks, SweepStaleTasks(h, S)
        PROVE  \E U, x : FailRows(U, x) /\ \A v \in U : InState(v, Active)
    BY <2>4 DEF SweepStaleTasks
  <2>5. ASSUME FailOffline(h)
        PROVE  \E S, x : FailRows(S, x) /\ \A v \in S : InState(v, Active)
    BY <2>5 DEF FailOffline
  <2>6. ASSUME NEW r \in Runtimes, RecoverOrphans(h, r)
        PROVE  \E S, x : FailRows(S, x) /\ \A v \in S : InState(v, Active)
    BY <2>6 DEF RecoverOrphans
  <2> QED
    BY <1>6, <2>1, <2>2, <2>3, <2>4, <2>5, <2>6 DEF Failing
<1>7. ASSUME NEW h \in Handlers, Handling(h)
      PROVE  Kept
  <2>1. CASE \E v, u \in Tasks : RetryChild(h, v, u)
    BY <2>1, TerminalKept DEF RetryChild
  <2>2. CASE UNCHANGED <<status, row>>
    BY <1>1, <2>2
  <2> QED
    BY <1>7, <2>1, <2>2 DEF Handling, NoRetry, ReadIssue, CheckIssue, ResetIssue
<1>8. Surroundings \/ Fault \/ UNCHANGED vars => UNCHANGED <<status, row>>
  BY DEF Surroundings, SetIssueStatus, SetOnline, Deregister, MoveAgent, Fault,
         ServerRestart, ApiExpire, vars
<1> QED
  BY <1>1, <1>3, <1>4, <1>5, <1>6, <1>7, <1>8 DEF Next, Step

\* A finished row never comes back, however late a claim, a completion, a sweep, a
\* retry or a cancellation arrives.
THEOREM FinishedForGoodAlways == Spec => FinishedForGood
<1>1. IInv /\ [Next]_vars =>
        [\A t \in Tasks : InState(t, Terminal) =>
            status'[t] = status[t] /\ row'[t] = row[t]]_vars
  BY TerminalStep DEF IInv, Known
<1> QED
  BY <1>1, InvariantAlways, PTL DEF Spec, FinishedForGood

\* The rows of a batch whose retry is still to be decided.
Unretried(h) == handler[h].todo \ {handler[h].task}

\* They failed and have no retry yet, and no other batch holds them.
BatchesFresh ==
    /\ \A h \in Handlers :
         /\ handler[h].pc \in {"idle", "offline", "retry"} => handler[h].task = 0
         /\ handler[h].pc \in {"idle", "offline"} => handler[h].todo = {}
         /\ \A t \in Unretried(h) :
              status[t] = "failed" /\ \A u \in Tasks : row[u].parent # t
    /\ \A g, h \in Handlers : g # h => Unretried(g) \cap Unretried(h) = {}

\* The update that fails the rows of S and gives them to handler h.
FailInto(h, S, r, rep) ==
    /\ handler[h].pc \in {"idle", "offline"}
    /\ \A t \in S : InState(t, Active)
    /\ FailRows(S, r)
    /\ handler' = [handler EXCEPT ![h] = Batch(S, rep)]

\* What a step does to the columns and the batches: a first attempt is inserted, a
\* batch of active rows fails, one row is retried, or no column changes.
LEMMA RowSteps ==
    ASSUME [Next]_vars
    PROVE  \/ \E t \in Tasks, a \in Agents, l \in Links :
                 Insert(t, a, l, agentRuntime[a], 1, 0) /\ UNCHANGED handler
           \/ \E h \in Handlers, S \in SUBSET Tasks, r \in Reasons, rep \in BOOLEAN :
                 FailInto(h, S, r, rep)
           \/ \E h \in Handlers, t, u \in Tasks : RetryChild(h, t, u)
           \/ UNCHANGED row /\ \/ UNCHANGED handler
                               \/ ServerRestart
                               \/ \E h \in Handlers, R \in SUBSET Flaky : MarkStaleOffline(h, R)
                               \/ \E h \in Handlers, t \in Tasks : NoRetry(h, t)
                               \/ \E h \in Handlers : ReadIssue(h) \/ CheckIssue(h) \/ ResetIssue(h)
<1>1. Enqueueing => \E t \in Tasks, a \in Agents, l \in Links :
                       Insert(t, a, l, agentRuntime[a], 1, 0) /\ UNCHANGED handler
  BY DEF Enqueueing, EnqueueIssue, RerunEnqueue, EnqueueChat, EnqueueApiChat,
         EnqueueQuickCreate, EnqueueRunOnly, Links, Enqueue
<1>2. \A p \in Claimers : Claiming(p) => UNCHANGED row /\ UNCHANGED handler
  BY DEF Claiming, ClaimGoesOn, HasCapacity, NoCapacity, ClaimSnapshot, ClaimRow,
         ClaimNothing, ApiNext, Poll
<1>3. Finishing => UNCHANGED row /\ UNCHANGED handler
  BY DEF Finishing, StartTask, CompleteTask, CancelTask, CancelMany, RerunCancel,
         RerunRefused, CancelRows
<1>4. ASSUME NEW h \in Handlers, Failing(h)
      PROVE  \/ \E S \in SUBSET Tasks, r \in Reasons, rep \in BOOLEAN : FailInto(h, S, r, rep)
             \/ \E R \in SUBSET Flaky : MarkStaleOffline(h, R) /\ UNCHANGED row
  <2>1. {"timeout", "agent_error", "runtime_offline", "runtime_recovery"} \subseteq Reasons
    BY DEF Reasons, Retryable
  <2>2. ASSUME NEW t \in Tasks, NEW r \in {"timeout", "agent_error"}, FailTask(h, t, r)
        PROVE  FailInto(h, {t}, r, TRUE) /\ {t} \in SUBSET Tasks /\ r \in Reasons
    BY <2>1, <2>2 DEF FailTask, FailInto
  <2>3. ASSUME NEW S \in SUBSET Tasks, SweepStaleTasks(h, S)
        PROVE  FailInto(h, S, "timeout", FALSE) /\ "timeout" \in Reasons
    BY <2>1, <2>3 DEF SweepStaleTasks, FailInto
  <2>4. ASSUME FailOffline(h)
        PROVE  \E S \in SUBSET Tasks : FailInto(h, S, "runtime_offline", FALSE)
    BY <2>4 DEF FailOffline, FailInto
  <2>5. ASSUME NEW r \in Runtimes, RecoverOrphans(h, r)
        PROVE  \E S \in SUBSET Tasks : FailInto(h, S, "runtime_recovery", FALSE)
    BY <2>5 DEF RecoverOrphans, FailInto
  <2>6. ASSUME NEW R \in SUBSET Flaky, MarkStaleOffline(h, R)
        PROVE  UNCHANGED row
    BY <2>6 DEF MarkStaleOffline
  <2>7. TRUE \in BOOLEAN /\ FALSE \in BOOLEAN
    OBVIOUS
  <2> QED
    BY <1>4, <2>1, <2>2, <2>3, <2>4, <2>5, <2>6, <2>7 DEF Failing
<1>5. ASSUME NEW h \in Handlers, Handling(h)
      PROVE  \/ \E t, u \in Tasks : RetryChild(h, t, u)
             \/ UNCHANGED row /\ \/ \E t \in Tasks : NoRetry(h, t)
                                 \/ ReadIssue(h) \/ CheckIssue(h) \/ ResetIssue(h)
  BY <1>5 DEF Handling, NoRetry, ReadIssue, CheckIssue, ResetIssue
<1>6. Surroundings \/ UNCHANGED vars => UNCHANGED row /\ UNCHANGED handler
  BY DEF Surroundings, SetIssueStatus, SetOnline, Deregister, MoveAgent, vars
<1>7. Fault => UNCHANGED row /\ (UNCHANGED handler \/ ServerRestart)
  BY DEF Fault, ServerRestart, ApiExpire
<1> QED
  BY <1>1, <1>2, <1>3, <1>4, <1>5, <1>6, <1>7 DEF Next, Step

\* A row keeps what it was inserted with; only a retry is inserted with a parent.
LEMMA ParentsKept ==
    ASSUME Known, [Next]_vars, NEW t \in Tasks, row'[t].parent # 0
    PROVE  \/ \E h \in Handlers, v \in Tasks : RetryChild(h, v, t)
           \/ /\ row'[t].parent = row[t].parent /\ row'[t].attempt = row[t].attempt
              /\ row'[t].agent = row[t].agent /\ row'[t].link = row[t].link
<1>1. row \in [Tasks -> Row]
  BY DEF Known, TypeOK
<1>2. CASE \E u \in Tasks, a \in Agents, l \in Links : Insert(u, a, l, agentRuntime[a], 1, 0)
  BY <1>1, <1>2 DEF Insert
<1>3. CASE \E h \in Handlers, S \in SUBSET Tasks, r \in Reasons, rep \in BOOLEAN :
             FailInto(h, S, r, rep)
  BY <1>1, <1>3 DEF FailInto, FailRows, Row
<1>4. CASE \E h \in Handlers, v, u \in Tasks : RetryChild(h, v, u)
  BY <1>1, <1>4 DEF RetryChild, Insert
<1>5. CASE UNCHANGED row
  BY <1>5
<1> QED
  BY <1>2, <1>3, <1>4, <1>5, RowSteps

\* RetryOnce after a step, from what every batch knows before it.
LEMMA RetryOnceStep ==
    ASSUME Known, RetryOnce, BatchesFresh, [Next]_vars
    PROVE  RetryOnce'
<1> DEFINE Retried(t, p) ==
             /\ status'[p] = "failed" /\ row'[p].reason \in Retryable
             /\ row'[t].agent = row'[p].agent /\ row'[t].link = row'[p].link
             /\ row'[t].attempt = row'[p].attempt + 1 /\ row'[t].attempt <= MaxAttempts
             /\ \A u \in Tasks : row'[u].parent = p => u = t
<1>0. row \in [Tasks -> Row] /\ status \in [Tasks -> Status] /\ 0 \notin Tasks
  BY ConstantsAssumption DEF Known, TypeOK, Tasks
<1>1. ASSUME NEW h \in Handlers, NEW v \in Tasks, NEW t \in Tasks, RetryChild(h, v, t)
      PROVE  /\ row'[t].agent = row[v].agent /\ row'[t].link = row[v].link
             /\ row'[t].attempt = row[v].attempt + 1 /\ row'[t].parent = v
             /\ \A u \in Tasks : u # t => row'[u] = row[u]
             /\ status[v] = "failed" /\ v # t /\ row[v].reason \in Retryable
             /\ row[v].attempt < MaxAttempts
             /\ \A u \in Tasks : row[u].parent # v
  <2>1. v \in handler[h].todo /\ handler[h].pc = "retry"
    BY <1>1 DEF RetryChild
  <2>2. v \in Unretried(h)
    BY <1>0, <2>1 DEF BatchesFresh, Unretried
  <2>3. status[v] = "failed" /\ \A u \in Tasks : row[u].parent # v
    BY <2>2 DEF BatchesFresh
  <2> QED
    BY <1>0, <1>1, <2>3 DEF RetryChild, RetryWanted, Insert, NextRow
<1>2. ASSUME NEW h \in Handlers, NEW v \in Tasks, NEW t \in Tasks, RetryChild(h, v, t)
      PROVE  row'[t].parent = v /\ Retried(t, v)
  <2>a. /\ row'[t].agent = row[v].agent /\ row'[t].link = row[v].link
        /\ row'[t].attempt = row[v].attempt + 1 /\ row'[t].parent = v
    BY <1>1, <1>2
  <2>b. /\ \A u \in Tasks : u # t => row'[u] = row[u]
        /\ \A u \in Tasks : row[u].parent # v
    BY <1>1, <1>2
  <2>1. status'[v] = "failed" /\ row'[v] = row[v]
    BY <1>1, <1>2, TerminalStep DEF InState, Terminal
  <2>2. row[v].attempt \in Nat
    BY <1>0, ConstantsAssumption DEF Row
  <2>3. /\ row'[t].attempt = row[v].attempt + 1 /\ row'[t].parent = v
        /\ row'[t].agent = row[v].agent /\ row'[t].link = row[v].link
    BY <2>a
  <2>4. row[v].attempt < MaxAttempts /\ row[v].reason \in Retryable
    BY <1>1, <1>2
  <2>5. row'[t].attempt <= MaxAttempts
    BY <2>2, <2>3, <2>4, ConstantsAssumption
  <2>6. \A u \in Tasks : row'[u].parent = v => u = t
    BY <2>b
  <2> QED
    BY <2>1, <2>3, <2>4, <2>5, <2>6
<1>3. ASSUME NEW t \in Tasks, NEW p \in Tasks, row'[t].parent = p, row[t].parent = p,
             row'[t].attempt = row[t].attempt, row'[t].agent = row[t].agent,
             row'[t].link = row[t].link
      PROVE  Retried(t, p)
  <2>1. /\ status[p] = "failed" /\ row[p].reason \in Retryable
        /\ row[t].agent = row[p].agent /\ row[t].link = row[p].link
        /\ row[t].attempt = row[p].attempt + 1 /\ row[t].attempt <= MaxAttempts
        /\ \A u \in Tasks : row[u].parent = p => u = t
    BY <1>0, <1>3 DEF RetryOnce, SameWork
  <2>2. status'[p] = "failed" /\ row'[p] = row[p]
    BY <2>1, TerminalStep DEF InState, Terminal
  <2>3. ASSUME NEW u \in Tasks, row'[u].parent = p
        PROVE  u = t
    <3>1. CASE \E h \in Handlers, v \in Tasks : RetryChild(h, v, u)
      <4>1. PICK h \in Handlers, v \in Tasks : RetryChild(h, v, u)
        BY <3>1
      <4>2. row'[u].parent = v
        BY <1>2, <4>1
      <4>3. \A w \in Tasks : row[w].parent # v
        BY <1>1, <4>1
      <4> QED
        BY <1>3, <2>3, <4>2, <4>3
    <3>2. CASE row'[u].parent = row[u].parent
      BY <2>1, <2>3, <3>2
    <3> QED
      BY <1>0, <2>3, <3>1, <3>2, ParentsKept
  <2> QED
    BY <1>3, <2>1, <2>2, <2>3
<1>4. ASSUME NEW t \in Tasks, NEW p, p = row'[t].parent, p # 0
      PROVE  Retried(t, p)
  <2>1. CASE \E h \in Handlers, v \in Tasks : RetryChild(h, v, t)
    BY <1>2, <1>4, <2>1
  <2>2. CASE /\ row'[t].parent = row[t].parent /\ row'[t].attempt = row[t].attempt
             /\ row'[t].agent = row[t].agent /\ row'[t].link = row[t].link
    <3>1. row[t].parent \in Tasks \cup {0}
      BY <1>0 DEF Row
    <3> QED
      BY <1>3, <1>4, <2>2, <3>1
  <2> QED
    BY <1>4, <2>1, <2>2, ParentsKept
<1> QED
  BY <1>4 DEF RetryOnce, SameWork

\* One batch changes: the invariant is left to show of its new to-be-retried rows.
LEMMA OneBatch ==
    ASSUME Known, BatchesFresh, NEW h \in Handlers, NEW b,
           handler' = [handler EXCEPT ![h] = b],
           b.pc \in {"idle", "offline", "retry"} => b.task = 0,
           b.pc \in {"idle", "offline"} => b.todo = {},
           \A t \in b.todo \ {b.task} :
               /\ status'[t] = "failed" /\ \A u \in Tasks : row'[u].parent # t
               /\ \A g \in Handlers \ {h} : t \notin Unretried(g),
           \A g \in Handlers \ {h} : \A t \in Unretried(g) :
               status'[t] = "failed" /\ \A u \in Tasks : row'[u].parent # t
    PROVE  BatchesFresh'
<1>1. handler'[h] = b /\ \A g \in Handlers \ {h} : handler'[g] = handler[g]
  BY DEF Known, TypeOK
<1>2. Unretried(h)' = b.todo \ {b.task}
  BY <1>1 DEF Unretried
<1>3. \A g \in Handlers \ {h} : Unretried(g)' = Unretried(g)
  BY <1>1 DEF Unretried
<1>4. ASSUME NEW g \in Handlers
      PROVE  /\ handler'[g].pc \in {"idle", "offline", "retry"} => handler'[g].task = 0
             /\ handler'[g].pc \in {"idle", "offline"} => handler'[g].todo = {}
  BY <1>1 DEF BatchesFresh
<1>5. ASSUME NEW g \in Handlers, NEW t \in Unretried(g)'
      PROVE  status'[t] = "failed" /\ \A u \in Tasks : row'[u].parent # t
  BY <1>2, <1>3
<1>6. ASSUME NEW g \in Handlers, NEW f \in Handlers, g # f
      PROVE  Unretried(g)' \cap Unretried(f)' = {}
  <2>1. CASE g # h /\ f # h
    BY <1>3, <1>6, <2>1 DEF BatchesFresh
  <2>2. CASE g = h \/ f = h
    BY <1>2, <1>3, <1>6, <2>2
  <2> QED
    BY <2>1, <2>2
<1> QED
  BY <1>4, <1>5, <1>6 DEF BatchesFresh

\* A failed row stays one, and its having no retry is left to steps that insert one.
LEMMA FailedKept ==
    ASSUME Known, BatchesFresh, [Next]_vars, NEW g \in Handlers, NEW t \in Unretried(g)
    PROVE  /\ status'[t] = "failed"
           /\ (~ \E h \in Handlers, u \in Tasks : RetryChild(h, t, u))
                => \A u \in Tasks : row'[u].parent # t
<1>1. t \in Tasks /\ status[t] = "failed" /\ \A u \in Tasks : row[u].parent # t
  BY DEF Known, TypeOK, HandlerState, Unretried, BatchesFresh
<1>2. status'[t] = "failed"
  BY <1>1, TerminalStep DEF InState, Terminal
<1>3. ASSUME NEW u \in Tasks, row'[u].parent = t
      PROVE  \E h \in Handlers : RetryChild(h, t, u)
  <2>1. row'[u].parent # 0
    BY <1>1, <1>3, ConstantsAssumption DEF Tasks
  <2>2. PICK h \in Handlers, v \in Tasks : RetryChild(h, v, u)
    BY <1>1, <1>3, <2>1, ParentsKept
  <2>3. row'[u].parent = v
    BY <2>2 DEF RetryChild, Insert, Known, TypeOK
  <2> QED
    BY <1>3, <2>2, <2>3
<1> QED
  BY <1>2, <1>3

\* No row is in two batches whose retry is undecided, nor retried while in one.
LEMMA BatchesFreshStep ==
    ASSUME Known, RetryOnce, BatchesFresh, [Next]_vars
    PROVE  BatchesFresh'
<1>0. /\ handler \in [Handlers -> HandlerState] /\ 0 \notin Tasks
      /\ row \in [Tasks -> Row] /\ status \in [Tasks -> Status]
  BY ConstantsAssumption DEF Known, TypeOK, Tasks
<1>a. NoBatch.pc = "idle" /\ NoBatch.task = 0 /\ NoBatch.todo = {}
  BY DEF NoBatch
<1>1. ASSUME ~ \E h \in Handlers, t, u \in Tasks : RetryChild(h, t, u),
             NEW g \in Handlers, NEW t \in Unretried(g)
      PROVE  status'[t] = "failed" /\ \A u \in Tasks : row'[u].parent # t
  BY <1>0, <1>1, FailedKept DEF Unretried, HandlerState
<1>2. ASSUME ~ \E h \in Handlers, t, u \in Tasks : RetryChild(h, t, u), UNCHANGED handler
      PROVE  BatchesFresh'
  BY <1>1, <1>2 DEF BatchesFresh, Unretried
<1>3. ASSUME NEW t \in Tasks, NEW a, NEW l, NEW r, NEW h \in Handlers, NEW v \in Tasks,
             NEW u \in Tasks, Insert(t, a, l, r, 1, 0), RetryChild(h, v, u)
      PROVE  FALSE
  <2>1. row'[u].parent = v /\ status'[u] = "queued" /\ status[u] = "absent"
    BY <1>0, <1>3 DEF Insert, RetryChild, NextRow
  <2>2. row'[t].parent = 0 /\ (u # t => status'[u] = status[u])
    BY <1>0, <1>3 DEF Insert
  <2> QED
    BY <1>0, <2>1, <2>2
<1>4. ASSUME NEW h \in Handlers, NEW S \in SUBSET Tasks, NEW r \in Reasons,
             NEW rep \in BOOLEAN, FailInto(h, S, r, rep)
      PROVE  BatchesFresh'
  <2>1. ~ \E g \in Handlers, t, u \in Tasks : RetryChild(g, t, u)
    BY <1>0, <1>4 DEF FailInto, FailRows, Row, RetryChild, Insert, NextRow
  <2>2. Batch(S, rep).todo = S /\ Batch(S, rep).task = 0
        /\ (Batch(S, rep).pc \in {"idle", "offline"} => S = {})
    BY DEF Batch, NoBatch
  <2>3. ASSUME NEW t \in S
        PROVE  /\ status'[t] = "failed" /\ \A u \in Tasks : row'[u].parent # t
               /\ \A g \in Handlers : t \notin Unretried(g)
    <3>1. status[t] # "failed" /\ status'[t] = "failed"
      BY <1>4, <2>3 DEF FailInto, FailRows, InState, Active
    <3>2. \A u \in Tasks : row[u].parent # t
      BY <1>0, <2>3, <3>1 DEF RetryOnce
    <3>3. \A u \in Tasks : row'[u].parent = row[u].parent
      BY <1>0, <1>4 DEF FailInto, FailRows, Row
    <3> QED
      BY <3>1, <3>2, <3>3 DEF BatchesFresh
  <2>4. handler' = [handler EXCEPT ![h] = Batch(S, rep)]
    BY <1>4 DEF FailInto
  <2> QED
    BY <1>1, <2>1, <2>2, <2>3, <2>4, OneBatch
<1>b. ASSUME NEW h \in Handlers, NEW t \in handler[h].todo, handler[h].pc = "retry", NEW K
      PROVE  LET b == AfterRetry(h, t, K) IN
             /\ b.pc \in {"idle", "offline", "retry"} => b.task = 0
             /\ b.pc \in {"idle", "offline"} => b.todo = {}
             /\ b.todo \ {b.task} \subseteq Unretried(h) \ {t}
  <2>1. handler[h].task = 0 /\ Unretried(h) = handler[h].todo
    BY <1>0, <1>b DEF BatchesFresh, Unretried, HandlerState
  <2> QED
    BY <1>0, <1>a, <1>b, <2>1 DEF AfterRetry, HandlerState
<1>c. ASSUME NEW h \in Handlers
      PROVE  LET b == NextFailed(h) IN
             /\ b.pc \in {"idle", "offline", "retry"} => b.task = 0
             /\ b.pc \in {"idle", "offline"} => b.todo = {}
             /\ b.todo \ {b.task} \subseteq Unretried(h)
  BY <1>0, <1>a DEF NextFailed, HandlerState, Unretried
<1>5. ASSUME NEW h \in Handlers, NEW t \in Tasks, NEW u \in Tasks, RetryChild(h, t, u)
      PROVE  BatchesFresh'
  <2>1. PICK K : handler' = [handler EXCEPT ![h] = AfterRetry(h, t, K)]
    BY <1>5 DEF RetryChild
  <2>2. t \in handler[h].todo /\ handler[h].pc = "retry" /\ t \in Unretried(h)
    BY <1>0, <1>5 DEF RetryChild, BatchesFresh, Unretried
  <2>3. ASSUME NEW g \in Handlers, NEW v \in Unretried(g), v # t
        PROVE  status'[v] = "failed" /\ \A w \in Tasks : row'[w].parent # v
    <3>1. ~ \E f \in Handlers, w \in Tasks : RetryChild(f, v, w)
      BY <1>0, <1>5, <2>3 DEF RetryChild, Insert, NextRow
    <3> QED
      BY <3>1, FailedKept
  <2>4. \A g \in Handlers \ {h} : t \notin Unretried(g)
    BY <2>2 DEF BatchesFresh
  <2> DEFINE b == AfterRetry(h, t, K)
  <2>5. /\ b.pc \in {"idle", "offline", "retry"} => b.task = 0
        /\ b.pc \in {"idle", "offline"} => b.todo = {}
        /\ b.todo \ {b.task} \subseteq Unretried(h) \ {t}
    BY <1>b, <2>2
  <2>6. handler' = [handler EXCEPT ![h] = b]
    BY <2>1
  <2> HIDE DEF b
  <2>7. \A v \in b.todo \ {b.task} :
          /\ status'[v] = "failed" /\ \A w \in Tasks : row'[w].parent # v
          /\ \A g \in Handlers \ {h} : v \notin Unretried(g)
    BY <2>3, <2>5 DEF BatchesFresh
  <2>8. \A g \in Handlers \ {h} : \A v \in Unretried(g) :
          status'[v] = "failed" /\ \A w \in Tasks : row'[w].parent # v
    BY <2>3, <2>4
  <2> QED
    BY <2>5, <2>6, <2>7, <2>8, OneBatch
<1>6. ASSUME UNCHANGED row, NEW h \in Handlers, NEW b, handler' = [handler EXCEPT ![h] = b],
             b.pc \in {"idle", "offline", "retry"} => b.task = 0,
             b.pc \in {"idle", "offline"} => b.todo = {},
             b.todo \ {b.task} \subseteq Unretried(h)
      PROVE  BatchesFresh'
  <2>1. \A g \in Handlers : \A t \in Unretried(g) :
          status'[t] = "failed" /\ \A u \in Tasks : row'[u].parent # t
    BY <1>6, FailedKept DEF BatchesFresh
  <2>2. \A g \in Handlers \ {h} : \A t \in b.todo \ {b.task} : t \notin Unretried(g)
    BY <1>6 DEF BatchesFresh
  <2> QED
    BY <1>6, <2>1, <2>2, OneBatch
<1>7. CASE ServerRestart
  BY <1>7, <1>a DEF ServerRestart, BatchesFresh, Unretried
<1>8. ASSUME UNCHANGED row, NEW h \in Handlers, NEW R \in SUBSET Flaky, MarkStaleOffline(h, R)
      PROVE  BatchesFresh'
  <2> DEFINE b == [NoBatch EXCEPT !.pc = "offline"]
  <2>1. b.pc = "offline" /\ b.task = 0 /\ b.todo = {}
    BY DEF NoBatch
  <2>2. handler' = [handler EXCEPT ![h] = b]
    BY <1>8 DEF MarkStaleOffline
  <2> HIDE DEF b
  <2> QED
    BY <1>6, <1>8, <2>1, <2>2
<1>9. ASSUME UNCHANGED row, NEW h \in Handlers, NEW t \in Tasks, NoRetry(h, t)
      PROVE  BatchesFresh'
  <2> DEFINE K == handler[h].kept
             b == AfterRetry(h, t, K)
  <2>1. t \in handler[h].todo /\ handler[h].pc = "retry"
        /\ handler' = [handler EXCEPT ![h] = b]
    BY <1>9 DEF NoRetry
  <2>2. /\ b.pc \in {"idle", "offline", "retry"} => b.task = 0
        /\ b.pc \in {"idle", "offline"} => b.todo = {}
        /\ b.todo \ {b.task} \subseteq Unretried(h)
    <3> HIDE DEF K
    <3> QED
      BY <1>b, <2>1
  <2> HIDE DEF b
  <2> QED
    BY <1>6, <1>9, <2>1, <2>2
<1>10. ASSUME UNCHANGED row, NEW h \in Handlers, ReadIssue(h) \/ CheckIssue(h) \/ ResetIssue(h)
       PROVE  BatchesFresh'
  <2>1. CASE handler' = [handler EXCEPT ![h] = NextFailed(h)]
    BY <1>6, <1>10, <1>c, <2>1
  <2>2. ASSUME NEW b, handler' = [handler EXCEPT ![h] = b], b.pc \in {"active", "reset"},
               b.todo = handler[h].todo, b.task = handler[h].task
        PROVE  BatchesFresh'
    BY <1>6, <1>10, <2>2 DEF Unretried
  <2> DEFINE b1 == [handler[h] EXCEPT !.pc = "active", !.kept = handler[h].kept \cup {IssueOf(h)}]
             b2 == [handler[h] EXCEPT !.pc = "reset"]
  <2>3. /\ b1.pc = "active" /\ b1.todo = handler[h].todo /\ b1.task = handler[h].task
        /\ b2.pc = "reset" /\ b2.todo = handler[h].todo /\ b2.task = handler[h].task
    BY <1>0 DEF HandlerState
  <2>4. \/ handler' = [handler EXCEPT ![h] = NextFailed(h)]
        \/ handler' = [handler EXCEPT ![h] = b1]
        \/ handler' = [handler EXCEPT ![h] = b2]
    BY <1>10 DEF ReadIssue, CheckIssue, ResetIssue
  <2> HIDE DEF b1, b2
  <2> QED
    BY <2>1, <2>2, <2>3, <2>4
<1> QED
  <2>1. CASE \E t \in Tasks, a \in Agents, l \in Links :
                 Insert(t, a, l, agentRuntime[a], 1, 0) /\ UNCHANGED handler
    BY <1>2, <1>3, <2>1
  <2>2. CASE UNCHANGED row /\ UNCHANGED handler
    <3>1. ~ \E h \in Handlers, t, u \in Tasks : RetryChild(h, t, u)
      <4> SUFFICES ASSUME NEW h \in Handlers, NEW t \in Tasks, NEW u \in Tasks,
                          RetryChild(h, t, u)
                   PROVE  FALSE
        OBVIOUS
      <4>1. row'[u].parent = t
        BY <1>0 DEF RetryChild, Insert
      <4>2. t \in Unretried(h)
        BY <1>0 DEF RetryChild, BatchesFresh, Unretried
      <4> QED
        BY <2>2, <4>1, <4>2 DEF BatchesFresh
    <3> QED
      BY <1>2, <2>2, <3>1
  <2> QED
    BY <1>4, <1>5, <1>7, <1>8, <1>9, <1>10, <2>1, <2>2, RowSteps

\* A failure is retried at most once, for the same work and within its attempts,
\* however many sweeps, recoveries and reports saw it.
THEOREM RetryOnceAlways == Spec => []RetryOnce
<1>1. Init => RetryOnce /\ BatchesFresh
  BY DEF Init, RetryOnce, BatchesFresh, Unretried, NoRow, NoBatch
<1>2. IInv /\ RetryOnce /\ BatchesFresh /\ [Next]_vars => (RetryOnce /\ BatchesFresh)'
  BY RetryOnceStep, BatchesFreshStep DEF IInv, Known
<1> QED
  BY <1>1, <1>2, InvariantAlways, PTL DEF Spec

-----------------------------------------------------------------------------
(* Capacity and the serialisation of chats: what ClaimAgentTask promises when  *)
(* no two claims are at the same agent between its count and its update.       *)

AtClaim(p) == claim[p].pc \in {"counted", "claim"}

ClaimsApart ==
    \A p, q \in Claimers :
        p # q /\ AtClaim(p) /\ AtClaim(q) => claim[p].agent # claim[q].agent

\* The count that let a claim go on is still below the limit.
Counted == \A p \in Claimers : AtClaim(p) => Cardinality(Running(claim[p].agent)) < Limit

\* The rows a claim may take are its agent's, and nothing is in their way.
Candidates ==
    \A p \in Claimers : claim[p].pc = "claim" =>
        \A t \in claim[p].cand :
            /\ row[t].agent = claim[p].agent
            /\ status[t] = "queued" /\ row[t].link # "run_only" =>
                 ~ \E u \in Tasks : InState(u, Active) /\ SameWork(u, t)

\* A row becomes active only by the second half of a claim.
LEMMA HandedOut ==
    ASSUME Known, [Next]_vars, NEW t \in Tasks, ~ InState(t, Active), InState(t, Active)'
    PROVE  \E p \in Claimers : ClaimRow(p, t)
<1>1. /\ status \in [Tasks -> Status] /\ status'[t] \in {"dispatched", "running"}
      /\ status[t] \notin {"dispatched", "running"}
  BY DEF Known, TypeOK, InState, Active
<1>2. ~ \E u \in Tasks : \E a, l, r, n, v : Insert(u, a, l, r, n, v)
  BY <1>1 DEF Insert
<1>3. ~ \E S, r : FailRows(S, r)
  BY <1>1 DEF FailRows
<1>4. ~ \E S : CancelRows(S)
  BY <1>1 DEF CancelRows
<1>5. ~ UNCHANGED status
  BY <1>1
<1>6. ~ Enqueueing
  BY <1>2 DEF Enqueueing, EnqueueIssue, RerunEnqueue, EnqueueChat, EnqueueApiChat,
              EnqueueQuickCreate, EnqueueRunOnly, Enqueue
<1>7. ASSUME NEW p \in Claimers, Claiming(p)
      PROVE  ClaimRow(p, t)
  <2>1. \A u \in Tasks : ClaimRow(p, u) => u = t
    BY <1>1 DEF ClaimRow
  <2> QED
    BY <1>5, <1>7, <2>1 DEF Claiming, ClaimGoesOn, HasCapacity, NoCapacity, ClaimSnapshot,
                            ClaimNothing, ApiNext, Poll
<1>8. ~ Finishing
  <2>1. \A u \in Tasks : ~ StartTask(u) /\ ~ CompleteTask(u)
    BY <1>1 DEF StartTask, CompleteTask
  <2> QED
    BY <1>4, <1>5, <2>1 DEF Finishing, CancelTask, CancelMany, RerunCancel, RerunRefused
<1>9. \A h \in Handlers : ~ Failing(h) /\ ~ Handling(h)
  BY <1>2, <1>3, <1>5 DEF Failing, FailTask, SweepStaleTasks, MarkStaleOffline, FailOffline,
     RecoverOrphans, Handling, NoRetry, RetryChild, ReadIssue, CheckIssue, ResetIssue
<1>10. ~ Surroundings /\ ~ Fault /\ ~ UNCHANGED vars
  BY <1>5 DEF Surroundings, SetIssueStatus, SetOnline, Deregister, MoveAgent, Fault,
              ServerRestart, ApiExpire, vars
<1> QED
  BY <1>6, <1>7, <1>8, <1>9, <1>10 DEF Next, Step

\* A claim past its count stays at its agent, or has just counted.
LEMMA CountKept ==
    ASSUME Known, [Next]_vars, NEW p \in Claimers, AtClaim(p)'
    PROVE  \/ AtClaim(p) /\ claim'[p].agent = claim[p].agent
           \/ /\ claim'[p].pc = "counted" /\ UNCHANGED <<status, row>>
              /\ Cardinality(Running(claim'[p].agent)) < Limit
<1> DEFINE Kept == AtClaim(p) /\ claim'[p].agent = claim[p].agent
<1>0. claim \in [Claimers -> ClaimState] /\ claim'[p].pc \in {"counted", "claim"}
  BY DEF Known, TypeOK, AtClaim
<1>1. UNCHANGED claim => Kept
  BY DEF AtClaim
<1>2. ASSUME NEW q \in Claimers, Claiming(q)
      PROVE  \/ Kept
             \/ /\ claim'[p].pc = "counted" /\ UNCHANGED <<status, row>>
                /\ Cardinality(Running(claim'[p].agent)) < Limit
  <2>1. CASE ClaimSnapshot(q)
    BY <1>0, <2>1 DEF ClaimSnapshot, ClaimState, AtClaim
  <2>2. ASSUME claim'[q].pc \notin {"counted", "claim"},
               \A r \in Claimers : r # q => claim'[r] = claim[r]
        PROVE  Kept
    BY <1>0, <2>2 DEF AtClaim
  <2>3. NextAgent(q) => Kept
    BY <1>0, <2>2 DEF NextAgent, NoClaim
  <2>4. ASSUME NEW r \in Runtimes, Poll(q, r)
        PROVE  Kept
    BY <1>0, <2>2, <2>4 DEF Poll, NoClaim
  <2>5. ASSUME NEW a \in Agents, HasCapacity(q, a)
        PROVE  \/ Kept
               \/ /\ claim'[p].pc = "counted" /\ UNCHANGED <<status, row>>
                  /\ Cardinality(Running(claim'[p].agent)) < Limit
    <3>1. CASE p = q
      <4>1. claim'[p].pc = "counted" /\ claim'[p].agent = a
        BY <1>0, <2>5, <3>1 DEF HasCapacity, ClaimState
      <4> QED
        BY <2>5, <4>1 DEF HasCapacity
    <3>2. CASE p # q
      BY <1>0, <2>5, <3>2 DEF HasCapacity, AtClaim
    <3> QED
      BY <3>1, <3>2
  <2>6. ASSUME NEW a \in Agents, NoCapacity(q, a)
        PROVE  Kept
    BY <1>0, <2>2, <2>6 DEF NoCapacity, NoClaim, ClaimState
  <2>7. ASSUME NEW t \in Tasks, ClaimRow(q, t)
        PROVE  Kept
    <3>1. CASE claim[q].runtime = NULL
      <4>1. claim' = [claim EXCEPT ![q] = [NoClaim EXCEPT !.pc = "api", !.task = t,
                                                          !.agent = claim[q].agent]]
        BY <2>7, <3>1 DEF ClaimRow
      <4>2. claim'[q].pc = "api"
        BY <1>0, <4>1 DEF NoClaim
      <4>3. \A r \in Claimers : r # q => claim'[r] = claim[r]
        BY <1>0, <4>1
      <4> QED
        BY <2>2, <4>2, <4>3
    <3>2. CASE claim[q].runtime # NULL /\ row[t].runtime = claim[q].runtime
      <4>1. claim' = [claim EXCEPT ![q] = NoClaim]
        BY <2>7, <3>2 DEF ClaimRow
      <4> QED
        BY <1>0, <2>2, <4>1 DEF NoClaim
    <3>3. CASE claim[q].runtime # NULL /\ row[t].runtime # claim[q].runtime
      BY <2>3, <2>7, <3>3 DEF ClaimRow
    <3> QED
      BY <3>1, <3>2, <3>3
  <2>8. ClaimNothing(q) => Kept
    BY <2>3 DEF ClaimNothing
  <2>9. ApiNext(q) => Kept
    BY <1>0, <2>2 DEF ApiNext, NoClaim
  <2> QED
    BY <1>2, <2>1, <2>4, <2>5, <2>6, <2>7, <2>8, <2>9 DEF Claiming, ClaimGoesOn
<1>3. CASE \E t \in Tasks, a \in Agents, c \in Chats, q \in Claimers :
             EnqueueApiChat(t, a, c, q)
  BY <1>0, <1>3 DEF EnqueueApiChat, NoClaim, AtClaim
<1>4. CASE Fault
  BY <1>0, <1>4 DEF Fault, ServerRestart, ApiExpire, NoClaim, AtClaim
<1>5. Enqueueing => UNCHANGED claim \/ \E t \in Tasks, a \in Agents, c \in Chats,
                       q \in Claimers : EnqueueApiChat(t, a, c, q)
  BY DEF Enqueueing, EnqueueIssue, RerunEnqueue, EnqueueChat, EnqueueQuickCreate,
         EnqueueRunOnly
<1>6. Finishing => UNCHANGED claim
  BY DEF Finishing, StartTask, CompleteTask, CancelTask, CancelMany, RerunCancel, RerunRefused
<1>7. \A h \in Handlers : Failing(h) \/ Handling(h) => UNCHANGED claim
  BY DEF Failing, FailTask, SweepStaleTasks, MarkStaleOffline, FailOffline, RecoverOrphans,
         Handling, NoRetry, RetryChild, ReadIssue, CheckIssue, ResetIssue
<1>8. Surroundings \/ UNCHANGED vars => UNCHANGED claim
  BY DEF Surroundings, SetIssueStatus, SetOnline, Deregister, MoveAgent, vars
<1> QED
  BY <1>1, <1>2, <1>3, <1>4, <1>5, <1>6, <1>7, <1>8 DEF Next, Step

\* The active rows of an agent are finite in number; a step adds the handed out ones.
LEMMA RunningGrows ==
    ASSUME Known, Known', SnapshotHolds, [Next]_vars, NEW a \in Agents
    PROVE  /\ IsFiniteSet(Running(a)) /\ Cardinality(Running(a)) \in Nat
           /\ Cardinality(Running(a)') \in Nat
           /\ \/ Cardinality(Running(a)') <= Cardinality(Running(a))
              \/ \E q \in Claimers, t \in Tasks :
                   /\ ClaimRow(q, t) /\ row[t].agent = a
                   /\ Cardinality(Running(a)') <= Cardinality(Running(a)) + 1
<1>1. IsFiniteSet(Tasks)
  BY FS_Interval, ConstantsAssumption DEF Tasks
<1>2. Running(a) \in SUBSET Tasks /\ Running(a)' \in SUBSET Tasks
  BY DEF Running
<1>3. /\ IsFiniteSet(Running(a)) /\ Cardinality(Running(a)) \in Nat
      /\ IsFiniteSet(Running(a)') /\ Cardinality(Running(a)') \in Nat
  BY <1>1, <1>2, FS_Subset, FS_CardinalityType
<1>4. [WQ!Next]_WQ!workVars
  BY StepRefines
<1>5. ASSUME NEW u \in Running(a)', InState(u, Active)
      PROVE  u \in Running(a)
  BY <1>2, <1>4, <1>5, RowsForward DEF Running, InState, Active
<1>6. CASE \A u \in Running(a)' : InState(u, Active)
  <2>1. Running(a)' \in SUBSET Running(a)
    BY <1>5, <1>6
  <2> QED
    BY <1>3, <2>1, FS_Subset
<1>7. ASSUME NEW t \in Running(a)', ~ InState(t, Active)
      PROVE  \E q \in Claimers, u \in Tasks :
               /\ ClaimRow(q, u) /\ row[u].agent = a
               /\ Cardinality(Running(a)') <= Cardinality(Running(a)) + 1
  <2>1. t \in Tasks /\ InState(t, Active)' /\ row'[t].agent = a
    BY <1>7 DEF Running
  <2>2. PICK q \in Claimers : ClaimRow(q, t)
    BY <1>7, <2>1, HandedOut
  <2>3. UNCHANGED row /\ \A u \in Tasks : u # t => status'[u] = status[u]
    BY <2>2 DEF ClaimRow, Known, TypeOK
  <2>4. Running(a)' \in SUBSET (Running(a) \cup {t})
    BY <1>2, <1>5, <2>3 DEF Running, InState
  <2>5. /\ IsFiniteSet(Running(a) \cup {t})
        /\ Cardinality(Running(a) \cup {t}) \in Nat
        /\ Cardinality(Running(a) \cup {t}) <= Cardinality(Running(a)) + 1
    <3>1. /\ IsFiniteSet(Running(a) \cup {t})
          /\ Cardinality(Running(a) \cup {t}) =
               IF t \in Running(a) THEN Cardinality(Running(a)) ELSE Cardinality(Running(a)) + 1
      BY <1>3, FS_AddElement
    <3> QED
      BY <1>3, <3>1
  <2>6. Cardinality(Running(a)') <= Cardinality(Running(a)) + 1
    BY <1>3, <2>4, <2>5, FS_Subset
  <2> QED
    BY <2>1, <2>2, <2>3, <2>6
<1> QED
  BY <1>3, <1>6, <1>7

ApartInv == Counted /\ CapacityRespected /\ Candidates /\ WorkSerial

\* A claim takes a row of the agent it counted for.
LEMMA ClaimAgents ==
    ASSUME Candidates, NEW p \in Claimers, NEW t \in Tasks, ClaimRow(p, t)
    PROVE  /\ AtClaim(p) /\ row[t].agent = claim[p].agent /\ status[t] = "queued"
           /\ row[t].link # "run_only" =>
                ~ \E u \in Tasks : InState(u, Active) /\ SameWork(u, t)
BY DEF ClaimRow, Candidates, AtClaim

\* Its update ends it, for this agent.
LEMMA ClaimLeaves ==
    ASSUME Known, NEW p \in Claimers, NEW t \in Tasks, ClaimRow(p, t)
    PROVE  ~ AtClaim(p)'
<1>1. claim \in [Claimers -> ClaimState]
  BY DEF Known, TypeOK
<1>2. CASE claim[p].runtime = NULL
  <2>1. claim' = [claim EXCEPT ![p] = [NoClaim EXCEPT !.pc = "api", !.task = t,
                                                      !.agent = claim[p].agent]]
    BY <1>2 DEF ClaimRow
  <2> QED
    BY <1>1, <2>1 DEF AtClaim, NoClaim
<1>3. CASE claim[p].runtime # NULL /\ row[t].runtime = claim[p].runtime
  BY <1>1, <1>3 DEF ClaimRow, AtClaim, NoClaim
<1>4. CASE claim[p].runtime # NULL /\ row[t].runtime # claim[p].runtime
  <2>1. NextAgent(p)
    BY <1>4 DEF ClaimRow
  <2>2. claim'[p].pc \in {"idle", "loop"}
    BY <1>1, <2>1 DEF NextAgent, NoClaim
  <2> QED
    BY <2>2 DEF AtClaim
<1> QED
  BY <1>2, <1>3, <1>4

\* The limit holds after a step, and so does every count that a claim relies on.
LEMMA CapacityStep ==
    ASSUME Known, Known', SnapshotHolds, ClaimsApart, ApartInv, [Next]_vars
    PROVE  Counted' /\ CapacityRespected'
<1>1. ASSUME NEW a \in Agents
      PROVE  Cardinality(Running(a)') <= Limit
  <2>1. /\ Cardinality(Running(a)) \in Nat /\ Cardinality(Running(a)') \in Nat
        /\ Cardinality(Running(a)) <= Limit /\ Limit \in Nat
    BY RunningGrows, ConstantsAssumption DEF ApartInv, CapacityRespected
  <2>2. CASE Cardinality(Running(a)') <= Cardinality(Running(a))
    BY <2>1, <2>2
  <2>3. ASSUME NEW q \in Claimers, NEW t \in Tasks, ClaimRow(q, t), row[t].agent = a,
               Cardinality(Running(a)') <= Cardinality(Running(a)) + 1
        PROVE  Cardinality(Running(a)') <= Limit
    <3>1. Cardinality(Running(a)) < Limit
      BY <2>3, ClaimAgents DEF ApartInv, Counted
    <3> QED
      BY <2>1, <2>3, <3>1
  <2> QED
    BY <2>2, <2>3, RunningGrows
<1>2. ASSUME NEW p \in Claimers, AtClaim(p)', NEW a, a = claim'[p].agent
      PROVE  Cardinality(Running(a)') < Limit
  <2>1. a \in Agents
    BY <1>2 DEF Known, ClaimsKnown, AtClaim
  <2>2. CASE UNCHANGED <<status, row>> /\ Cardinality(Running(a)) < Limit
    <3>1. Running(a)' = Running(a)
      BY <2>2 DEF Running, InState
    <3> QED
      BY <2>2, <3>1
  <2>3. CASE AtClaim(p) /\ claim[p].agent = a
    <3>1. Cardinality(Running(a)) < Limit
      BY <2>3 DEF ApartInv, Counted
    <3>2. ASSUME NEW q \in Claimers, NEW t \in Tasks, ClaimRow(q, t), row[t].agent = a
          PROVE  FALSE
      <4>1. AtClaim(q) /\ claim[q].agent = a
        BY <3>2, ClaimAgents DEF ApartInv
      <4>2. q = p
        BY <2>3, <4>1 DEF ClaimsApart
      <4> QED
        BY <1>2, <3>2, <4>2, ClaimLeaves
    <3>3. Cardinality(Running(a)') <= Cardinality(Running(a))
          /\ Cardinality(Running(a)') \in Nat /\ Cardinality(Running(a)) \in Nat
      BY <2>1, <3>2, RunningGrows
    <3> QED
      BY <3>1, <3>3, ConstantsAssumption
  <2> QED
    BY <1>2, <2>2, <2>3, CountKept
<1>3. ASSUME NEW p \in Claimers, AtClaim(p)'
      PROVE  (Cardinality(Running(claim[p].agent)) < Limit)'
  BY <1>2, <1>3
<1> QED
  BY <1>1, <1>3 DEF CapacityRespected, Counted

\* After a step, the rows of one work are active one at a time, and the rows a
\* claim may take are still free.
LEMMA SerialStep ==
    ASSUME Known, Known', SnapshotHolds, ClaimsApart, ApartInv, [Next]_vars
    PROVE  Candidates' /\ WorkSerial'
<1>0. [WQ!Next]_WQ!workVars
  BY StepRefines
<1>1. ASSUME NEW t \in Tasks, status[t] # "absent"
      PROVE  /\ status'[t] # "absent" /\ row'[t].agent = row[t].agent
             /\ row'[t].link = row[t].link
             /\ status'[t] = "queued" => status[t] = "queued"
  BY <1>0, <1>1, RowsForward
<1>2. ASSUME NEW u \in Tasks, InState(u, Active)'
      PROVE  status[u] # "absent"
  BY <1>0, <1>2, RowsForward DEF InState, Active
<1>3. ASSUME NEW t \in Tasks, NEW u \in Tasks, t # u, InState(t, Active)', ~ InState(t, Active),
             InState(u, Active)', SameWork(t, u)', row'[t].link # "run_only"
      PROVE  FALSE
  <2>1. PICK q \in Claimers : ClaimRow(q, t)
    BY <1>3, HandedOut
  <2>2. UNCHANGED row /\ InState(u, Active)
    BY <1>3, <2>1 DEF ClaimRow, Known, TypeOK, InState
  <2>3. SameWork(u, t) /\ row[t].link # "run_only"
    BY <1>3, <2>2 DEF SameWork
  <2> QED
    BY <2>1, <2>2, <2>3, ClaimAgents DEF ApartInv
<1>4. ASSUME NEW t \in Tasks, NEW u \in Tasks, InState(t, Active)', InState(u, Active)',
             SameWork(t, u)', row'[t].link # "run_only"
      PROVE  t = u
  <2>1. CASE InState(t, Active) /\ InState(u, Active)
    <3>1. SameWork(t, u) /\ row[t].link # "run_only"
      BY <1>1, <1>2, <1>4 DEF SameWork
    <3> QED
      BY <2>1, <3>1 DEF ApartInv, WorkSerial
  <2>2. CASE ~ InState(t, Active)
    BY <1>3, <1>4, <2>2
  <2>3. CASE ~ InState(u, Active)
    <3>1. SameWork(u, t)' /\ row'[u].link # "run_only"
      BY <1>4 DEF SameWork
    <3> QED
      BY <1>3, <1>4, <2>3, <3>1
  <2> QED
    BY <2>1, <2>2, <2>3
<1>5. ASSUME NEW p \in Claimers, claim'[p].pc = "claim", NEW t \in claim'[p].cand
      PROVE  /\ row'[t].agent = claim'[p].agent
             /\ status'[t] = "queued" /\ row'[t].link # "run_only" =>
                  ~ \E u \in Tasks : InState(u, Active)' /\ SameWork(u, t)'
  <2>0. t \in Tasks /\ AtClaim(p)'
    BY <1>5 DEF Known, TypeOK, ClaimState, AtClaim
  <2>1. AtClaim(p) /\ claim'[p].agent = claim[p].agent
    BY <1>5, <2>0, CountKept
  <2>2. CASE UNCHANGED <<status, row>> /\ claim'[p].cand = Claimable(claim[p].agent)
    <3>1. t \in Claimable(claim[p].agent)
      BY <1>5, <2>2
    <3>2. /\ status[t] = "queued" /\ row[t].agent = claim[p].agent
          /\ Serialized(row[t].link) => ~ \E u \in Tasks : InState(u, Active) /\ SameWork(u, t)
      BY <3>1 DEF Claimable
    <3>3. row[t].link # "run_only" => Serialized(row[t].link)
      BY <2>0, <3>2 DEF Known, RowsKnown, Links, Serialized
    <3> QED
      BY <2>1, <2>2, <3>2, <3>3 DEF InState, SameWork
  <2>3. CASE claim[p].pc = "claim" /\ claim'[p].cand = claim[p].cand
    <3>1. /\ status[t] # "absent" /\ row[t].agent = claim[p].agent
          /\ status[t] = "queued" /\ row[t].link # "run_only" =>
               ~ \E u \in Tasks : InState(u, Active) /\ SameWork(u, t)
      BY <1>5, <2>3 DEF SnapshotHolds, ApartInv, Candidates
    <3>2. ASSUME status'[t] = "queued", row'[t].link # "run_only", NEW u \in Tasks,
                 InState(u, Active)', SameWork(u, t)'
          PROVE  FALSE
      <4>1. status[t] = "queued" /\ row[t].link # "run_only"
        BY <1>1, <2>0, <3>1, <3>2
      <4>2. SameWork(u, t)
        BY <1>1, <1>2, <2>0, <3>1, <3>2 DEF SameWork
      <4>3. ~ InState(u, Active)
        BY <3>1, <4>1, <4>2
      <4>4. PICK q \in Claimers : ClaimRow(q, u)
        BY <3>2, <4>3, HandedOut
      <4>5. AtClaim(q) /\ row[u].agent = claim[q].agent
        BY <4>4, ClaimAgents DEF ApartInv
      <4>6. claim[q].agent = claim[p].agent
        BY <3>1, <4>2, <4>5 DEF SameWork
      <4>7. q = p
        BY <2>1, <4>5, <4>6 DEF ClaimsApart
      <4> QED
        BY <2>0, <4>4, <4>7, ClaimLeaves
    <3> QED
      BY <1>1, <2>0, <2>1, <3>1, <3>2
  <2> QED
    BY <1>5, <2>2, <2>3, SnapshotKept
<1> QED
  BY <1>4, <1>5 DEF WorkSerial, Candidates

\* The inductive invariant of the claims that do not overlap.
LEMMA ApartAlways == Spec /\ []ClaimsApart => []ApartInv
<1>1. Init => ApartInv
  <2>1. ASSUME Init, NEW a \in Agents
        PROVE  Running(a) = {}
    BY <2>1 DEF Init, Running, InState, Active
  <2>2. Cardinality({}) = 0
    BY FS_EmptySet
  <2>3. Init => CapacityRespected
    BY <2>1, <2>2, ConstantsAssumption DEF CapacityRespected
  <2>4. Init => Counted /\ Candidates
    BY DEF Init, Counted, Candidates, AtClaim, NoClaim
  <2>5. Init => WorkSerial
    BY DEF Init, WorkSerial, InState, Active
  <2> QED
    BY <2>3, <2>4, <2>5 DEF ApartInv
<1>2. IInv /\ IInv' /\ ClaimsApart /\ ApartInv /\ [Next]_vars => ApartInv'
  BY CapacityStep, SerialStep DEF IInv, Known, ApartInv
<1> QED
  BY <1>1, <1>2, InvariantAlways, PTL DEF Spec

\* As long as no two claims are at the same agent between its count and its update,
\* no agent has more rows active than max_concurrent_tasks.
THEOREM CapacityApart == Spec /\ []ClaimsApart => []CapacityRespected
<1>1. ApartInv => CapacityRespected
  BY DEF ApartInv
<1> QED
  BY <1>1, ApartAlways, PTL

\* And the rows of one chat session, like quick-create rows, are handed to an agent
\* one at a time.
THEOREM WorkSerialApart == Spec /\ []ClaimsApart => []WorkSerial
<1>1. ApartInv => WorkSerial
  BY DEF ApartInv
<1> QED
  BY <1>1, ApartAlways, PTL

\* Both hold without condition where claims come one after the other.
THEOREM OneClaimer ==
    ASSUME \A p, q \in Claimers : p = q
    PROVE  Spec => [](CapacityRespected /\ WorkSerial)
<1>1. ClaimsApart
  BY DEF ClaimsApart
<1> QED
  BY <1>1, CapacityApart, WorkSerialApart, PTL
=============================================================================
