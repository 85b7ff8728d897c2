----------------------------- MODULE TaskQueue -----------------------------
(***************************************************************************)
(* The agent task queue of the server: the rows of agent_task_queue, the   *)
(* statements of pkg/db/queries/agent.sql that change them, and the        *)
(* operations of service.TaskService (internal/service/task.go) and of the *)
(* runtime sweeper (cmd/server/runtime_sweeper.go) that run them.          *)
(*                                                                         *)
(* Every SQL statement is one step.  An operation made of several          *)
(* statements is several steps, so that other requests interleave with it: *)
(*   - a claim counts the agent's tasks, takes the snapshot its UPDATE     *)
(*     evaluates NOT EXISTS in, and only then locks and updates a row;     *)
(*   - the failing UPDATE of a sweep, of recover-orphans or of FailTask    *)
(*     commits before the retry is inserted and the issue is reset;        *)
(*   - a rerun cancels before it enqueues.                                 *)
(* The daemons are not in this module: any runtime may poll, and any call  *)
(* about any task may arrive at any time.                                  *)
(*                                                                         *)
(* Left out of the rows: prompts, results, sessions, timestamps.  A        *)
(* threshold on a timestamp ("dispatched for more than 300 s") is a        *)
(* choice: any active row may have passed it.                              *)
(***************************************************************************)
EXTENDS Naturals, FiniteSets

CONSTANTS
    Agents,        \* rows of table agent
    Issues,        \* rows of table issue
    Chats,         \* rows of table chat_session
    Runtimes,      \* rows of table agent_runtime
    ApiRuntimes,   \* the runtimes that are a model API, not a daemon
    Claimers,      \* requests and goroutines that may be inside ClaimTask
    Handlers,      \* requests and sweeps that may be handling failed tasks
    Limit,         \* agent.max_concurrent_tasks
    MaxAttempts,   \* agent_task_queue.max_attempts, 2 by default
    MaxTasks,      \* bound: rows ever inserted
    MaxEnqueues,   \* bound: rows inserted by users, autopilots and comments
    Settable,      \* bound: the statuses users and agents give to issues
    Flaky,         \* bound: the runtimes that go offline
    NULL

ASSUME ConstantsAssumption ==
    /\ Limit \in Nat /\ MaxAttempts \in Nat \ {0}
    /\ MaxTasks \in Nat /\ MaxEnqueues \in Nat
    /\ ApiRuntimes \subseteq Runtimes /\ Flaky \subseteq Runtimes
    /\ Settable \subseteq {"todo", "in_progress", "done", "cancelled"}
    /\ Issues \cap Chats = {}
    /\ NULL \notin Agents \cup Issues \cup Chats \cup Runtimes
    /\ "quick_create" \notin Issues \cup Chats
    /\ "run_only" \notin Issues \cup Chats

VARIABLES
    status,        \* task |-> agent_task_queue.status, "absent" before the INSERT
    row,           \* task |-> the other columns the queue decides on
    issueStatus,   \* issue |-> issue.status
    agentRuntime,  \* agent |-> agent.runtime_id
    runtimeStatus, \* runtime |-> agent_runtime.status
    claim,         \* claimer |-> the state of its ClaimTaskForRuntime loop
    handler,       \* handler |-> the state of its post-failure work
    rerunning      \* issues whose rerun has cancelled and not yet enqueued

vars == <<status, row, issueStatus, agentRuntime, runtimeStatus, claim, handler, rerunning>>

-----------------------------------------------------------------------------
(* Rows. *)

Tasks == 1..MaxTasks

Pending  == {"queued", "dispatched"}
Active   == {"dispatched", "running"}
Live     == {"queued", "dispatched", "running"}
Terminal == {"completed", "failed", "cancelled"}
Status   == {"absent"} \cup Live \cup Terminal

\* What a row is about: issue_id, chat_session_id, autopilot_run_id alone
\* ("run_only"), or none of the three ("quick_create").
Links == Issues \cup Chats \cup {"quick_create", "run_only"}

\* failure_reason.  The first three are retryableReasons.
Retryable == {"runtime_offline", "runtime_recovery", "timeout"}
Reasons   == Retryable \cup {"agent_error"}

IssueStatus == {"todo", "in_progress", "done", "cancelled"}

NoRow == [agent |-> NULL, link |-> NULL, runtime |-> NULL,
          attempt |-> 0, parent |-> 0, reason |-> NULL]

Row == [agent : Agents \cup {NULL}, link : Links \cup {NULL},
        runtime : Runtimes \cup {NULL}, attempt : 0..MaxAttempts,
        parent : Tasks \cup {0}, reason : Reasons \cup {NULL}]

InState(t, S) == status[t] \in S
SameWork(t, u) == row[t].agent = row[u].agent /\ row[t].link = row[u].link

\* The next row to be inserted: ids grow with created_at.
NextRow(t) == status[t] = "absent" /\ \A u \in Tasks : u < t => status[u] # "absent"

\* Mutant of IndexAllows: the index on the rows that are dispatched or running.
IndexAllowsIfInactive(a, l) ==
    l \in Issues => ~ \E u \in Tasks : /\ InState(u, Active)
                                       /\ row[u].agent = a /\ row[u].link = l

\* The partial unique index idx_one_pending_task_per_issue_agent: an issue and
\* an agent have at most one row that is queued or dispatched.
IndexAllows(a, l) ==
    l \in Issues => ~ \E u \in Tasks : /\ InState(u, Pending)
                                       /\ row[u].agent = a /\ row[u].link = l

Insert(t, a, l, rt, attempt, parent) ==
    /\ NextRow(t)
    /\ status' = [status EXCEPT ![t] = "queued"]
    /\ row' = [row EXCEPT ![t] = [agent |-> a, link |-> l, runtime |-> rt,
                                  attempt |-> attempt, parent |-> parent,
                                  reason |-> NULL]]

\* UPDATE ... SET status = 'failed', failure_reason = r on the rows of S.
FailRows(S, r) ==
    /\ status' = [t \in Tasks |-> IF t \in S THEN "failed" ELSE status[t]]
    /\ row' = [t \in Tasks |-> IF t \in S THEN [row[t] EXCEPT !.reason = r] ELSE row[t]]

\* Mutant of CancelRows: WHERE does not look at the status.
CancelRowsAnyStatus(S) ==
    /\ status' = [t \in Tasks |->
                    IF t \in S /\ status[t] # "absent" THEN "cancelled" ELSE status[t]]
    /\ UNCHANGED row

\* UPDATE ... SET status = 'cancelled' on the live rows of S.
CancelRows(S) ==
    /\ status' = [t \in Tasks |->
                    IF t \in S /\ InState(t, Live) THEN "cancelled" ELSE status[t]]
    /\ UNCHANGED row

-----------------------------------------------------------------------------
(* Processes. *)

NoClaim == [pc |-> "idle", runtime |-> NULL, todo |-> {}, agent |-> NULL,
            cand |-> {}, task |-> 0]

ClaimState == [pc : {"idle", "loop", "counted", "claim", "api"},
               runtime : Runtimes \cup {NULL}, todo : SUBSET Agents,
               agent : Agents \cup {NULL}, cand : SUBSET Tasks, task : Tasks \cup {0}]

NoBatch == [pc |-> "idle", todo |-> {}, task |-> 0, kept |-> {}, report |-> FALSE]

HandlerState == [pc : {"idle", "offline", "retry", "issue", "active", "reset"},
                 todo : SUBSET Tasks, task : Tasks \cup {0},
                 kept : SUBSET Issues, report : BOOLEAN]

TypeOK ==
    /\ status \in [Tasks -> Status]
    /\ row \in [Tasks -> Row]
    /\ issueStatus \in [Issues -> IssueStatus]
    /\ agentRuntime \in [Agents -> Runtimes]
    /\ runtimeStatus \in [Runtimes -> {"online", "offline"}]
    /\ claim \in [Claimers -> ClaimState]
    /\ handler \in [Handlers -> HandlerState]
    /\ rerunning \in SUBSET (Issues \X Agents)

Init ==
    /\ status = [t \in Tasks |-> "absent"]
    /\ row = [t \in Tasks |-> NoRow]
    /\ issueStatus = [i \in Issues |-> "todo"]
    /\ agentRuntime \in [Agents -> Runtimes]
    /\ runtimeStatus = [r \in Runtimes |-> "online"]
    /\ claim = [p \in Claimers |-> NoClaim]
    /\ handler = [h \in Handlers |-> NoBatch]
    /\ rerunning = {}

-----------------------------------------------------------------------------
(* Enqueueing. *)

UserRows == {t \in Tasks : status[t] # "absent" /\ row[t].parent = 0}

IsApi(a) == agentRuntime[a] \in ApiRuntimes

\* A row for agent a and link l, on the agent's current runtime.  Without room
\* in the index the INSERT fails and the operation returns the error.
Enqueue(t, a, l) ==
    /\ Cardinality(UserRows) < MaxEnqueues
    /\ IndexAllows(a, l)
    /\ Insert(t, a, l, agentRuntime[a], 1, 0)

\* EnqueueTaskForIssue and EnqueueTaskForMention: assignment, comment, mention.
\* ensureAgentRuntimeCanQueueDaemonTask refuses the agents of an API runtime.
EnqueueIssue(t, a, i) ==
    /\ ~ IsApi(a)
    /\ Enqueue(t, a, i)
    /\ UNCHANGED <<issueStatus, agentRuntime, runtimeStatus, claim, handler, rerunning>>

\* EnqueueQuickCreateTask and EnqueueProjectCompactionTask: no link at all.
EnqueueQuickCreate(t, a) ==
    /\ ~ IsApi(a)
    /\ Enqueue(t, a, "quick_create")
    /\ UNCHANGED <<issueStatus, agentRuntime, runtimeStatus, claim, handler, rerunning>>

\* AutopilotService.dispatchRunOnly: linked to the autopilot run only, whatever
\* the agent's runtime is.
EnqueueRunOnly(t, a) ==
    /\ Enqueue(t, a, "run_only")
    /\ UNCHANGED <<issueStatus, agentRuntime, runtimeStatus, claim, handler, rerunning>>

\* EnqueueChatTask for an agent that a daemon runs.
EnqueueChat(t, a, c) ==
    /\ ~ IsApi(a)
    /\ Enqueue(t, a, c)
    /\ UNCHANGED <<issueStatus, agentRuntime, runtimeStatus, claim, handler, rerunning>>

\* EnqueueChatTask for an agent of an API runtime: no daemon is notified, a
\* goroutine p claims and runs the agent's tasks until ClaimTask finds none.
EnqueueApiChat(t, a, c, p) ==
    /\ IsApi(a)
    /\ claim[p].pc = "idle"
    /\ Enqueue(t, a, c)
    /\ claim' = [claim EXCEPT ![p] = [NoClaim EXCEPT !.pc = "loop", !.todo = {a}]]
    /\ UNCHANGED <<issueStatus, agentRuntime, runtimeStatus, handler, rerunning>>

-----------------------------------------------------------------------------
(* Claiming: TaskService.ClaimTaskForRuntime and ClaimTask. *)

\* The rest of ClaimTaskForRuntime's loop over the agents of its candidates.
NextAgent(p) ==
    LET rest == claim[p].todo \ {claim[p].agent} IN
    claim' = [claim EXCEPT ![p] =
                IF rest = {} THEN NoClaim
                ELSE [NoClaim EXCEPT !.pc = "loop", !.todo = rest,
                                     !.runtime = claim[p].runtime]]

\* A daemon polls for runtime r.  ListQueuedClaimCandidatesByRuntime gives the
\* agents to try; the loop's order, by priority and age, is left open.
Poll(p, r) ==
    LET agents == {row[t].agent : t \in {u \in Tasks : /\ status[u] = "queued"
                                                       /\ row[u].runtime = r}} IN
    /\ claim[p].pc = "idle"
    /\ r \notin ApiRuntimes
    /\ agents # {}
    /\ claim' = [claim EXCEPT ![p] = [NoClaim EXCEPT !.pc = "loop", !.runtime = r,
                                                     !.todo = agents]]
    /\ UNCHANGED <<status, row, issueStatus, agentRuntime, runtimeStatus, handler, rerunning>>

Running(a) == {t \in Tasks : InState(t, Active) /\ row[t].agent = a}

\* Mutant of HasCapacity: one more than max_concurrent_tasks.
HasCapacityAtLimit(p, a) ==
    /\ claim[p].pc = "loop" /\ a \in claim[p].todo
    /\ Cardinality(Running(a)) <= Limit
    /\ claim' = [claim EXCEPT ![p].pc = "counted", ![p].agent = a]
    /\ UNCHANGED <<status, row, issueStatus, agentRuntime, runtimeStatus, handler, rerunning>>

\* CountRunningTasks is below max_concurrent_tasks: go on to ClaimAgentTask.
HasCapacity(p, a) ==
    /\ claim[p].pc = "loop" /\ a \in claim[p].todo
    /\ Cardinality(Running(a)) < Limit
    /\ claim' = [claim EXCEPT ![p].pc = "counted", ![p].agent = a]
    /\ UNCHANGED <<status, row, issueStatus, agentRuntime, runtimeStatus, handler, rerunning>>

\* CountRunningTasks has reached max_concurrent_tasks: the agent is passed over.
NoCapacity(p, a) ==
    /\ claim[p].pc = "loop" /\ a \in claim[p].todo
    /\ Cardinality(Running(a)) >= Limit
    /\ claim' = [claim EXCEPT ![p] =
                   IF claim[p].todo = {a} THEN NoClaim
                   ELSE [claim[p] EXCEPT !.todo = @ \ {a}]]
    /\ UNCHANGED <<status, row, issueStatus, agentRuntime, runtimeStatus, handler, rerunning>>

\* Mutant of Serialized: chat rows have no issue, so nothing is in their way.
SerializedWithoutChats(l) == l \in Issues \cup {"quick_create"}

\* The NOT EXISTS of ClaimAgentTask: an active row of the same agent is in the
\* way when it has the same issue, the same chat session, or when neither row
\* has any link.  Autopilot rows are never in each other's way.
Serialized(l) == l \in Issues \cup Chats \cup {"quick_create"}

\* Mutant of Claimable: no NOT EXISTS, the index is taken to be enough.
ClaimableUnchecked(a) == {t \in Tasks : status[t] = "queued" /\ row[t].agent = a}

Claimable(a) ==
    {t \in Tasks : /\ status[t] = "queued" /\ row[t].agent = a
                   /\ Serialized(row[t].link) =>
                        ~ \E u \in Tasks : InState(u, Active) /\ SameWork(u, t)}

\* ClaimAgentTask, first half: its subquery is evaluated in the snapshot the
\* UPDATE starts from (READ COMMITTED).
ClaimSnapshot(p) ==
    /\ claim[p].pc = "counted"
    /\ claim' = [claim EXCEPT ![p].pc = "claim", ![p].cand = Claimable(claim[p].agent)]
    /\ UNCHANGED <<status, row, issueStatus, agentRuntime, runtimeStatus, handler, rerunning>>

\* ClaimAgentTask, second half: lock and update one row of the snapshot that is
\* still queued.  A locked row is rechecked for its own columns only: the NOT
\* EXISTS is not evaluated again.  Which of the rows (priority, age, SKIP
\* LOCKED) is left open.  The row is the caller's if it belongs to the polled
\* runtime; otherwise the loop goes on and the row stays dispatched.
ClaimRow(p, t) ==
    /\ claim[p].pc = "claim"
    /\ t \in claim[p].cand /\ status[t] = "queued"
    /\ status' = [status EXCEPT ![t] = "dispatched"]
    /\ IF claim[p].runtime = NULL
         THEN claim' = [claim EXCEPT ![p] = [NoClaim EXCEPT !.pc = "api", !.task = t,
                                                            !.agent = claim[p].agent]]
         ELSE IF row[t].runtime = claim[p].runtime
           THEN claim' = [claim EXCEPT ![p] = NoClaim]
           ELSE NextAgent(p)
    /\ UNCHANGED <<row, issueStatus, agentRuntime, runtimeStatus, handler, rerunning>>

\* ClaimAgentTask finds no row.
ClaimNothing(p) ==
    /\ claim[p].pc = "claim"
    /\ \A t \in claim[p].cand : status[t] # "queued"
    /\ NextAgent(p)
    /\ UNCHANGED <<status, row, issueStatus, agentRuntime, runtimeStatus, handler, rerunning>>

\* runQueuedAPIRuntimeChatTasks: the goroutine is done with its task and asks
\* for the agent's next one.
ApiNext(p) ==
    /\ claim[p].pc = "api" /\ ~ InState(claim[p].task, Active)
    /\ claim' = [claim EXCEPT ![p] = [NoClaim EXCEPT !.pc = "loop",
                                                     !.todo = {claim[p].agent}]]
    /\ UNCHANGED <<status, row, issueStatus, agentRuntime, runtimeStatus, handler, rerunning>>

\* The goroutine's context expires (apiRuntimeChatTaskTimeout): its statements
\* fail and it returns, whatever its task's state.
ApiExpire(p) ==
    /\ claim[p].pc # "idle" /\ claim[p].runtime = NULL
    /\ claim' = [claim EXCEPT ![p] = NoClaim]
    /\ UNCHANGED <<status, row, issueStatus, agentRuntime, runtimeStatus, handler, rerunning>>

-----------------------------------------------------------------------------
(* Running and finishing. *)

StartTask(t) ==
    /\ status[t] = "dispatched"
    /\ status' = [status EXCEPT ![t] = "running"]
    /\ UNCHANGED <<row, issueStatus, agentRuntime, runtimeStatus, claim, handler, rerunning>>

\* Mutant of CompleteTask: a row that was never started completes too.
CompleteUnstarted(t) ==
    /\ InState(t, Active)
    /\ status' = [status EXCEPT ![t] = "completed"]
    /\ UNCHANGED <<row, issueStatus, agentRuntime, runtimeStatus, claim, handler, rerunning>>

\* On a row that is no longer running the call returns the row as it is.
CompleteTask(t) ==
    /\ status[t] = "running"
    /\ status' = [status EXCEPT ![t] = "completed"]
    /\ UNCHANGED <<row, issueStatus, agentRuntime, runtimeStatus, claim, handler, rerunning>>

\* CancelTask, also called by the claim handler when it cannot build the
\* response (foreign workspace, failed hydration).
CancelTask(t) ==
    /\ InState(t, Live)
    /\ CancelRows({t})
    /\ UNCHANGED <<issueStatus, agentRuntime, runtimeStatus, claim, handler, rerunning>>

\* CancelTasksForIssue (reassignment, deletion), CancelTasksForAgent (cancel
\* all, archive) and CancelTasksByTriggerComment: the live rows of an issue, of
\* an agent, or some of an issue's rows.
CancelMany(S) ==
    /\ S # {} /\ \A t \in S : InState(t, Live)
    /\ \/ \E i \in Issues : \A t \in S : row[t].link = i
       \/ \E a \in Agents : S = {t \in Tasks : InState(t, Live) /\ row[t].agent = a}
    /\ CancelRows(S)
    /\ UNCHANGED <<issueStatus, agentRuntime, runtimeStatus, claim, handler, rerunning>>

\* RerunIssue, first statement: cancel the assignee's rows on the issue.
RerunCancel(i, a) ==
    /\ <<i, a>> \notin rerunning
    /\ CancelRows({t \in Tasks : row[t].link = i /\ row[t].agent = a})
    /\ rerunning' = rerunning \cup {<<i, a>>}
    /\ UNCHANGED <<issueStatus, agentRuntime, runtimeStatus, claim, handler>>

\* RerunIssue, second statement: enqueue, unless another row was inserted in
\* between or the agent is of an API runtime.  What was cancelled stays so.
RerunEnqueue(t, i, a) ==
    /\ <<i, a>> \in rerunning
    /\ ~ IsApi(a)
    /\ Enqueue(t, a, i)
    /\ rerunning' = rerunning \ {<<i, a>>}
    /\ UNCHANGED <<issueStatus, agentRuntime, runtimeStatus, claim, handler>>

RerunRefused(i, a) ==
    /\ <<i, a>> \in rerunning
    /\ IsApi(a) \/ ~ IndexAllows(a, i)
    /\ rerunning' = rerunning \ {<<i, a>>}
    /\ UNCHANGED <<status, row, issueStatus, agentRuntime, runtimeStatus, claim, handler>>

-----------------------------------------------------------------------------
(* Failing rows.  The UPDATE commits first; HandleFailedTasks (or the end of *)
(* FailTask) then goes over the returned rows, one statement at a time.      *)

Batch(S, rep) == [NoBatch EXCEPT !.pc = IF S = {} THEN "idle" ELSE "retry",
                                 !.todo = S, !.report = rep /\ S # {}]

\* Mutant of FailTask: a report about a failed row is taken for a new failure.
FailTaskAgain(h, t, r) ==
    /\ handler[h].pc = "idle"
    /\ InState(t, Active \cup {"failed"})
    /\ FailRows({t}, r)
    /\ handler' = [handler EXCEPT ![h] = Batch({t}, TRUE)]
    /\ UNCHANGED <<issueStatus, agentRuntime, runtimeStatus, claim, rerunning>>

\* The daemon, or the API goroutine, reports a failure.
FailTask(h, t, r) ==
    /\ handler[h].pc = "idle"
    /\ InState(t, Active)
    /\ FailRows({t}, r)
    /\ handler' = [handler EXCEPT ![h] = Batch({t}, TRUE)]
    /\ UNCHANGED <<issueStatus, agentRuntime, runtimeStatus, claim, rerunning>>

\* Mutant of SweepStaleTasks: no timeout for rows handed out and never started.
SweepRunningOnly(h, S) ==
    /\ handler[h].pc = "idle"
    /\ S # {} /\ \A t \in S : status[t] = "running"
    /\ FailRows(S, "timeout")
    /\ handler' = [handler EXCEPT ![h] = Batch(S, FALSE)]
    /\ UNCHANGED <<issueStatus, agentRuntime, runtimeStatus, claim, rerunning>>

\* sweepStaleTasks: rows past the dispatch or the running timeout.
SweepStaleTasks(h, S) ==
    /\ handler[h].pc = "idle"
    /\ S # {} /\ \A t \in S : InState(t, Active)
    /\ FailRows(S, "timeout")
    /\ handler' = [handler EXCEPT ![h] = Batch(S, FALSE)]
    /\ UNCHANGED <<issueStatus, agentRuntime, runtimeStatus, claim, rerunning>>

\* sweepStaleRuntimes: the runtimes of R missed their heartbeats...
MarkStaleOffline(h, R) ==
    /\ handler[h].pc = "idle"
    /\ R # {} /\ \A r \in R : runtimeStatus[r] = "online"
    /\ runtimeStatus' = [r \in Runtimes |-> IF r \in R THEN "offline" ELSE runtimeStatus[r]]
    /\ handler' = [handler EXCEPT ![h] = [NoBatch EXCEPT !.pc = "offline"]]
    /\ UNCHANGED <<status, row, issueStatus, agentRuntime, claim, rerunning>>

\* ... and the active rows of every runtime that is offline are failed.
FailOffline(h) ==
    LET orphans == {t \in Tasks : /\ InState(t, Active)
                                  /\ row[t].runtime \in Runtimes
                                  /\ runtimeStatus[row[t].runtime] = "offline"} IN
    /\ handler[h].pc = "offline"
    /\ FailRows(orphans, "runtime_offline")
    /\ handler' = [handler EXCEPT ![h] = Batch(orphans, FALSE)]
    /\ UNCHANGED <<issueStatus, agentRuntime, runtimeStatus, claim, rerunning>>

\* RecoverOrphanedTasks: a daemon has (re)started and owns nothing yet.
RecoverOrphans(h, r) ==
    LET orphans == {t \in Tasks : InState(t, Active) /\ row[t].runtime = r} IN
    /\ handler[h].pc = "idle"
    /\ orphans # {}
    /\ FailRows(orphans, "runtime_recovery")
    /\ handler' = [handler EXCEPT ![h] = Batch(orphans, FALSE)]
    /\ UNCHANGED <<issueStatus, agentRuntime, runtimeStatus, claim, rerunning>>

\* Mutant of RetryWanted: one attempt too many.
RetryWantedAtMax(t) ==
    /\ row[t].reason \in Retryable
    /\ row[t].attempt <= MaxAttempts
    /\ row[t].link \in Issues \cup Chats

\* MaybeRetryFailedTask's conditions on the failed row.
RetryWanted(t) ==
    /\ row[t].reason \in Retryable
    /\ row[t].attempt < MaxAttempts
    /\ row[t].link \in Issues \cup Chats

\* Mutant of AfterRetry: a row without an issue ends the batch (return for continue).
AfterRetryReturns(h, t, kept) ==
    IF handler[h].report \/ row[t].link \notin Issues THEN NoBatch
    ELSE [handler[h] EXCEPT !.pc = "issue", !.task = t, !.kept = kept]

\* What h does once t's retry is decided.  FailTask stops there; the batch goes
\* on to t's issue, if it has one.
AfterRetry(h, t, kept) ==
    IF handler[h].report THEN NoBatch
    ELSE IF row[t].link \in Issues
      THEN [handler[h] EXCEPT !.pc = "issue", !.task = t, !.kept = kept]
      ELSE IF handler[h].todo = {t} THEN NoBatch
        ELSE [handler[h] EXCEPT !.todo = @ \ {t}]

\* CreateRetryTask: the child keeps the parent's agent, link and runtime.
RetryChild(h, t, u) ==
    /\ handler[h].pc = "retry" /\ t \in handler[h].todo
    /\ RetryWanted(t)
    /\ IndexAllows(row[t].agent, row[t].link)
    /\ Insert(u, row[t].agent, row[t].link, row[t].runtime, row[t].attempt + 1, t)
    /\ handler' = [handler EXCEPT ![h] =
                     AfterRetry(h, t, handler[h].kept \cup ({row[t].link} \cap Issues))]
    /\ UNCHANGED <<issueStatus, agentRuntime, runtimeStatus, claim, rerunning>>

\* Mutant of NoRetry: the issue is recorded as retried though nothing was inserted.
NoRetryKeeps(h, t) ==
    /\ handler[h].pc = "retry" /\ t \in handler[h].todo
    /\ ~ RetryWanted(t) \/ ~ IndexAllows(row[t].agent, row[t].link)
    /\ handler' = [handler EXCEPT ![h] =
                     AfterRetry(h, t, handler[h].kept \cup ({row[t].link} \cap Issues))]
    /\ UNCHANGED <<status, row, issueStatus, agentRuntime, runtimeStatus, claim, rerunning>>

\* No retry, or its INSERT met another pending row in the unique index.
NoRetry(h, t) ==
    /\ handler[h].pc = "retry" /\ t \in handler[h].todo
    /\ ~ RetryWanted(t) \/ ~ IndexAllows(row[t].agent, row[t].link)
    /\ handler' = [handler EXCEPT ![h] = AfterRetry(h, t, handler[h].kept)]
    /\ UNCHANGED <<status, row, issueStatus, agentRuntime, runtimeStatus, claim, rerunning>>

\* The batch is through with the row it is at.
NextFailed(h) ==
    LET rest == handler[h].todo \ {handler[h].task} IN
    IF rest = {} THEN NoBatch
    ELSE [handler[h] EXCEPT !.pc = "retry", !.todo = rest, !.task = 0]

IssueOf(h) == row[handler[h].task].link

\* GetIssue: only an issue that is in progress, was not looked at before in
\* this batch, and has no retry from this batch, may be reset.
ReadIssue(h) ==
    /\ handler[h].pc = "issue"
    /\ handler' = [handler EXCEPT ![h] =
                     IF issueStatus[IssueOf(h)] = "in_progress" /\ IssueOf(h) \notin handler[h].kept
                       THEN [handler[h] EXCEPT !.pc = "active", !.kept = @ \cup {IssueOf(h)}]
                       ELSE NextFailed(h)]
    /\ UNCHANGED <<status, row, issueStatus, agentRuntime, runtimeStatus, claim, rerunning>>

IssueBusy(i) == \E t \in Tasks : InState(t, Live) /\ row[t].link = i

\* HasActiveTaskForIssue.
CheckIssue(h) ==
    /\ handler[h].pc = "active"
    /\ handler' = [handler EXCEPT ![h] =
                     IF IssueBusy(IssueOf(h)) THEN NextFailed(h)
                     ELSE [handler[h] EXCEPT !.pc = "reset"]]
    /\ UNCHANGED <<status, row, issueStatus, agentRuntime, runtimeStatus, claim, rerunning>>

\* UpdateIssueStatus(issue, 'todo'), with no condition on the row.
ResetIssue(h) ==
    /\ handler[h].pc = "reset"
    /\ issueStatus' = [issueStatus EXCEPT ![IssueOf(h)] = "todo"]
    /\ handler' = [handler EXCEPT ![h] = NextFailed(h)]
    /\ UNCHANGED <<status, row, agentRuntime, runtimeStatus, claim, rerunning>>

-----------------------------------------------------------------------------
(* What surrounds the queue. *)

\* A user or an agent sets an issue's status.  When it becomes cancelled the
\* request goes on to CancelTasksForIssue, a statement of its own: a CancelMany.
SetIssueStatus(i, s) ==
    /\ issueStatus[i] # s
    /\ issueStatus' = [issueStatus EXCEPT ![i] = s]
    /\ UNCHANGED <<status, row, agentRuntime, runtimeStatus, claim, handler, rerunning>>

\* Heartbeat and DaemonRegister; DaemonDeregister, which fails no row.
SetOnline(r) ==
    /\ runtimeStatus[r] = "offline"
    /\ runtimeStatus' = [runtimeStatus EXCEPT ![r] = "online"]
    /\ UNCHANGED <<status, row, issueStatus, agentRuntime, claim, handler, rerunning>>

Deregister(r) ==
    /\ runtimeStatus[r] = "online"
    /\ runtimeStatus' = [runtimeStatus EXCEPT ![r] = "offline"]
    /\ UNCHANGED <<status, row, issueStatus, agentRuntime, claim, handler, rerunning>>

\* UpdateAgent with a runtime_id: the agent's queued rows keep the old one.
MoveAgent(a, r) ==
    /\ agentRuntime[a] # r
    /\ agentRuntime' = [agentRuntime EXCEPT ![a] = r]
    /\ UNCHANGED <<status, row, issueStatus, runtimeStatus, claim, handler, rerunning>>

\* The server process dies: the rows stay, the work in progress is gone.
ServerRestart ==
    /\ claim' = [p \in Claimers |-> NoClaim]
    /\ handler' = [h \in Handlers |-> NoBatch]
    /\ rerunning' = {}
    /\ UNCHANGED <<status, row, issueStatus, agentRuntime, runtimeStatus>>

-----------------------------------------------------------------------------

Enqueueing ==
    \E t \in Tasks, a \in Agents :
        \/ \E i \in Issues : EnqueueIssue(t, a, i) \/ RerunEnqueue(t, i, a)
        \/ \E c \in Chats : \/ EnqueueChat(t, a, c)
                            \/ \E p \in Claimers : EnqueueApiChat(t, a, c, p)
        \/ EnqueueQuickCreate(t, a) \/ EnqueueRunOnly(t, a)

ClaimGoesOn(p) ==
    \/ \E a \in Agents : HasCapacity(p, a) \/ NoCapacity(p, a)
    \/ ClaimSnapshot(p)
    \/ \E t \in Tasks : ClaimRow(p, t)
    \/ ClaimNothing(p)
    \/ ApiNext(p)

Claiming(p) == ClaimGoesOn(p) \/ \E r \in Runtimes : Poll(p, r)

Finishing ==
    \/ \E t \in Tasks : StartTask(t) \/ CompleteTask(t) \/ CancelTask(t)
    \/ \E S \in SUBSET Tasks : CancelMany(S)
    \/ \E i \in Issues, a \in Agents : RerunCancel(i, a) \/ RerunRefused(i, a)

Failing(h) ==
    \/ \E t \in Tasks, r \in {"timeout", "agent_error"} : FailTask(h, t, r)
    \/ \E S \in SUBSET Tasks : SweepStaleTasks(h, S)
    \/ \E R \in SUBSET Flaky : MarkStaleOffline(h, R)
    \/ FailOffline(h)
    \/ \E r \in Runtimes : RecoverOrphans(h, r)

Handling(h) ==
    \/ \E t \in Tasks : NoRetry(h, t) \/ \E u \in Tasks : RetryChild(h, t, u)
    \/ ReadIssue(h) \/ CheckIssue(h) \/ ResetIssue(h)

Surroundings ==
    \/ \E i \in Issues, s \in Settable : SetIssueStatus(i, s)
    \/ \E r \in Flaky : SetOnline(r) \/ Deregister(r)
    \/ \E a \in Agents, r \in Runtimes : MoveAgent(a, r)

Step ==
    \/ Enqueueing
    \/ \E p \in Claimers : Claiming(p)
    \/ Finishing
    \/ \E h \in Handlers : Failing(h) \/ Handling(h)
    \/ Surroundings

Fault == ServerRestart \/ \E p \in Claimers : ApiExpire(p)

Next == Step \/ Fault

Spec == Init /\ [][Next]_vars

\* What the code keeps doing by itself: the daemon of a runtime polls every few
\* seconds, a request that is being served goes on to its next statement, and
\* the sweeper's ticker fails, in the end, every row that stays active.  Users and
\* agents owe nothing, nor do daemons beyond their polls: nothing else is fair.
Fairness ==
    /\ \A r \in Runtimes : WF_vars(\E p \in Claimers : Poll(p, r))
    /\ \A p \in Claimers : WF_vars(ClaimGoesOn(p))
    /\ \A h \in Handlers : WF_vars(FailOffline(h) \/ Handling(h))
    /\ \A t \in Tasks : WF_vars(\E h \in Handlers, S \in SUBSET Tasks :
                                    t \in S /\ SweepStaleTasks(h, S))

\* The fair behaviours in which the server stays up, and those in which it may
\* restart.
LiveSpec  == Init /\ [][Step]_vars /\ Fairness
CrashSpec == Spec /\ Fairness

-----------------------------------------------------------------------------
(* Safety. *)

\* An agent never has two rows of one issue dispatched or running, whatever
\* claims, retries and reruns overlap ("preventing a single agent from running
\* duplicate tasks", ClaimAgentTask).  The claim alone does not ensure it: its
\* NOT EXISTS is evaluated in an old snapshot, and the index covers only the
\* rows that are queued or dispatched.  The two together do.
IssueSerial ==
    \A t, u \in Tasks :
        /\ InState(t, Active) /\ InState(u, Active)
        /\ SameWork(t, u) /\ row[t].link \in Issues
        => t = u

\* Of an issue and an agent at most one row is waiting or handed out: comments,
\* mentions, reruns and retries coalesce instead of piling up.
PendingUnique ==
    \A t, u \in Tasks :
        /\ InState(t, Pending) /\ InState(u, Pending)
        /\ SameWork(t, u) /\ row[t].link \in Issues
        => t = u

\* Why IssueSerial survives an old snapshot: as long as an issue's row that a
\* claim has seen is still queued, no other row of its issue and agent can have
\* become active since.
SnapshotHolds ==
    \A p \in Claimers : claim[p].pc = "claim" =>
        \A t \in claim[p].cand :
            /\ status[t] # "absent"
            /\ status[t] = "queued" /\ row[t].link \in Issues =>
                 ~ \E u \in Tasks : InState(u, Active) /\ SameWork(u, t)

\* A failure is retried at most once however many sweeps, recoveries and
\* reports saw it, only after an infrastructure failure, for the same agent and
\* the same issue or chat, and within the budget of attempts.
RetryOnce ==
    \A t \in Tasks : row[t].parent # 0 =>
        LET p == row[t].parent IN
        /\ status[p] = "failed" /\ row[p].reason \in Retryable
        /\ SameWork(t, p)
        /\ row[t].attempt = row[p].attempt + 1 /\ row[t].attempt <= MaxAttempts
        /\ \A u \in Tasks : row[u].parent = p => u = t

\* A finished row never comes back: a late start, completion, failure or cancel
\* of it changes nothing, not even its reason.
FinishedForGood ==
    [][\A t \in Tasks : InState(t, Terminal) =>
            status'[t] = status[t] /\ row'[t] = row[t]]_vars

\* What ClaimTask promises ("respecting max_concurrent_tasks"): an agent never
\* has more rows active than its limit.  Counting and claiming are two
\* statements, so it holds when claims of the agent do not overlap.
CapacityRespected ==
    \A a \in Agents : Cardinality(Running(a)) <= Limit

\* What ClaimAgentTask promises beyond issues: the rows of one chat session are
\* handed to an agent one at a time, and so are its quick-create rows.  No index
\* backs this one: it holds when claims of the agent do not overlap.
WorkSerial ==
    \A t, u \in Tasks :
        /\ InState(t, Active) /\ InState(u, Active)
        /\ SameWork(t, u) /\ row[t].link # "run_only"
        => t = u

\* What "dispatched rows are by definition already owned" says of a claim
\* (ListQueuedClaimCandidatesByRuntime): the row that a poll takes out of the
\* queue is one of the polled runtime, so that the poll's answer carries it.
ClaimedForPoller ==
    [][\A p \in Claimers, t \in Tasks :
            /\ claim[p].pc = "claim" /\ claim'[p] # claim[p]
            /\ status[t] = "queued" /\ status'[t] = "dispatched"
            => claim[p].runtime \in {NULL, row[t].runtime}]_vars

\* What HandleFailedTasks says of its reset: an issue goes back to todo only
\* from in_progress and only while no row of it is queued, dispatched or
\* running.  Its three statements read, check and write separately.
ResetOnlyStuck ==
    [][\A i \in Issues, h \in Handlers :
            /\ handler[h].pc = "reset" /\ handler'[h] # handler[h]
            /\ handler[h].task # 0 /\ row[handler[h].task].link = i
            => /\ issueStatus[i] = "in_progress"
               /\ ~ \E t \in Tasks : InState(t, Live) /\ row[t].link = i]_vars

-----------------------------------------------------------------------------
(* Refinement. *)

WQ == INSTANCE WorkQueue WITH
        Work   <- Agents \X Links,
        Serial <- Agents \X Issues,
        NoWork <- <<NULL, NULL>>,
        stage  <- status,
        work   <- [t \in Tasks |-> <<row[t].agent, row[t].link>>]

\* The queue with its claims in three statements and its failures in several
\* behaves like one where handing a row out is a single atomic step that looks
\* at every other row of the same agent and issue.
ImplementsWorkQueue == WQ!Spec

-----------------------------------------------------------------------------
(* Liveness. *)

\* A row queued for a runtime that polls does not stay queued: the rows in its
\* way, handed out and forgotten ones included, end by the sweeper's hand.
QueuedServed ==
    \A t \in Tasks :
        (status[t] = "queued" /\ row[t].runtime \notin ApiRuntimes)
            ~> status[t] # "queued"

\* The same of the rows whose runtime is a model API: sweepStaleTasks is there
\* for what "a server restart left ... in a non-terminal state".
ApiQueuedServed ==
    \A t \in Tasks :
        (status[t] = "queued" /\ row[t].runtime \in ApiRuntimes)
            ~> status[t] # "queued"

\* An infrastructure failure with attempts left is followed by another row for
\* the same agent and work: the retry, or the row that stood in its way.
InfraFailureFollowed ==
    \A t \in Tasks :
        (status[t] = "failed" /\ RetryWanted(t))
            ~> \E u \in Tasks : u > t /\ status[u] # "absent" /\ SameWork(u, t)

\* An issue in progress whose row a sweep or a recovery failed does not stay in
\* progress with nothing queued or running for it.
SweptIssueReleased ==
    \A t \in Tasks, h \in Handlers, i \in Issues :
        (/\ t \in handler[h].todo /\ handler[h].kept = {} /\ ~ handler[h].report
         /\ row[t].link = i /\ issueStatus[i] = "in_progress")
            ~> \/ issueStatus[i] # "in_progress"
               \/ \E u \in Tasks : InState(u, Live) /\ row[u].link = i

\* The same of every failure: "all callers that surface a task as failed -
\* sweepers, FailTask, recover-orphans - funnel through" HandleFailedTasks.
FailedIssueReleased ==
    \A t \in Tasks, h \in Handlers, i \in Issues :
        (/\ t \in handler[h].todo /\ handler[h].kept = {}
         /\ row[t].link = i /\ issueStatus[i] = "in_progress")
            ~> \/ issueStatus[i] # "in_progress"
               \/ \E u \in Tasks : InState(u, Live) /\ row[u].link = i
=============================================================================
