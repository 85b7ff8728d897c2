----------------------------- MODULE WorkQueue -----------------------------
(***************************************************************************)
(* What the task queue promises to the users and the daemons, without the  *)
(* statements it is made of: rows are added, handed out, started and ended *)
(* one after the other, and a piece of serial work (an agent on an issue)  *)
(* is waiting at most once and in progress at most once.                   *)
(*                                                                         *)
(* A hand-out is one atomic step that sees the queue as it is.  TaskQueue, *)
(* where a claim counts, looks and updates at different times, implements  *)
(* it: see TaskQueue!ImplementsWorkQueue.                                  *)
(***************************************************************************)

CONSTANTS
    Tasks,    \* ids of rows
    Work,     \* what rows are about
    Serial,   \* the work that is done one row at a time
    NoWork    \* what an id is about before its row is added

VARIABLES
    stage,    \* task |-> how far it is
    work      \* task |-> what it is about

workVars == <<stage, work>>

Waiting(w)    == {t \in Tasks : stage[t] \in {"queued", "dispatched"} /\ work[t] = w}
InProgress(w) == {t \in Tasks : stage[t] \in {"dispatched", "running"} /\ work[t] = w}

Init ==
    /\ stage = [t \in Tasks |-> "absent"]
    /\ work = [t \in Tasks |-> NoWork]

Add(t, w) ==
    /\ stage[t] = "absent"
    /\ w \in Serial => Waiting(w) = {}
    /\ stage' = [stage EXCEPT ![t] = "queued"]
    /\ work' = [work EXCEPT ![t] = w]

HandOut(t) ==
    /\ stage[t] = "queued"
    /\ work[t] \in Serial => InProgress(work[t]) = {}
    /\ stage' = [stage EXCEPT ![t] = "dispatched"]
    /\ UNCHANGED work

Start(t) ==
    /\ stage[t] = "dispatched"
    /\ stage' = [stage EXCEPT ![t] = "running"]
    /\ UNCHANGED work

Complete(t) ==
    /\ stage[t] = "running"
    /\ stage' = [stage EXCEPT ![t] = "completed"]
    /\ UNCHANGED work

\* A sweep fails, and a reassignment cancels, several rows at once.
Fail(S) ==
    /\ \A t \in S : stage[t] \in {"dispatched", "running"}
    /\ stage' = [t \in Tasks |-> IF t \in S THEN "failed" ELSE stage[t]]
    /\ UNCHANGED work

Cancel(S) ==
    /\ \A t \in S : stage[t] \in {"queued", "dispatched", "running"}
    /\ stage' = [t \in Tasks |-> IF t \in S THEN "cancelled" ELSE stage[t]]
    /\ UNCHANGED work

Next ==
    \/ \E t \in Tasks : \/ \E w \in Work : Add(t, w)
                        \/ HandOut(t) \/ Start(t) \/ Complete(t)
    \/ \E S \in SUBSET Tasks : Fail(S) \/ Cancel(S)

Spec == Init /\ [][Next]_workVars
=============================================================================
