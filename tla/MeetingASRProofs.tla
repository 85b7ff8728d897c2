--------------------------- MODULE MeetingASRProofs ---------------------------
(***************************************************************************)
(* Theorems about the transcription jobs of MeetingASR, for any number of  *)
(* processes, assets, retries and restarts, and clients that upload, ask,  *)
(* retry and delete as they like.  The two parts of the invariant are      *)
(* proved together, action by action.                                      *)
(***************************************************************************)
EXTENDS MeetingASR, TLAPS

ASRInv == ASRTypeOK /\ InsertedOnce

-------------------------------------------------------------------------------
\* StartRun adds a goroutine.
LEMMA StartRunKeeps ==
    ASSUME runs \subseteq Run, NEW n \in Nodes, NEW a \in Assets,
           NEW try \in 0..MaxTries, StartRun(n, a, try)
    PROVE  runs' \subseteq Run
BY DEF StartRun, Run

\* The requests about an asset: upload, deletion, the first job and its retries.
LEMMA RequestsKeep ==
    ASSUME ASRInv, NEW a \in Assets,
           \/ UploadAsset(a) \/ DeleteAsset(a)
           \/ \E n \in Nodes : CreateJob(n, a) \/ RetryJob(n, a)
    PROVE  ASRInv'
<1> USE TriesAssumption DEF ASRInv, ASRTypeOK, InsertedOnce, Job
<1>1. CASE UploadAsset(a)
  BY <1>1 DEF UploadAsset
<1>2. CASE DeleteAsset(a)
  BY <1>2 DEF DeleteAsset
<1>3. ASSUME NEW n \in Nodes, CreateJob(n, a) PROVE ASRInv'
  <2>1. runs' \subseteq Run
    BY <1>3, StartRunKeeps DEF CreateJob
  <2>2. QED
    BY <1>3, <2>1 DEF CreateJob
<1>4. ASSUME NEW n \in Nodes, RetryJob(n, a) PROVE ASRInv'
  <2>1. job[a].tries + 1 \in 0..MaxTries
    BY <1>4 DEF RetryJob
  <2>2. runs' \subseteq Run
    BY <1>4, <2>1, StartRunKeeps DEF RetryJob
  <2>3. job' \in [Assets -> Job]
    BY <1>4, <2>1 DEF RetryJob
  <2>4. QED
    BY <1>4, <2>2, <2>3 DEF RetryJob
<1>5. QED
  BY <1>1, <1>2, <1>3, <1>4

\* The ends of a goroutine, of a job that may be another's by now.
LEMMA RunsKeep ==
    ASSUME ASRInv, NEW r \in runs, RunFails(r) \/ RunCompletes(r) \/ RunAborts(r)
    PROVE  ASRInv'
<1> USE DEF ASRInv, ASRTypeOK, InsertedOnce, Job, Running
<1>1. r.of \in Assets
  BY DEF Run
<1>2. CASE RunFails(r)
  BY <1>1, <1>2 DEF RunFails
<1>3. CASE RunCompletes(r)
  BY <1>1, <1>3 DEF RunCompletes
<1>4. CASE RunAborts(r)
  BY <1>4 DEF RunAborts
<1>5. QED
  BY <1>2, <1>3, <1>4

\* A restart, which fails any of the running jobs and no completed one.
LEMMA RestartKeeps ==
    ASSUME ASRInv, NEW n \in Nodes, RestartNode(n)
    PROVE  ASRInv'
<1> USE TriesAssumption DEF ASRInv, ASRTypeOK, InsertedOnce, Job, Running
<1>1. restarts' \in 0..MaxRestarts /\ runs' \subseteq Run
  BY DEF RestartNode
<1>2. PICK stale \in SUBSET {a \in Assets : Running(a)} :
        job' = [a \in Assets |-> IF a \in stale THEN [job[a] EXCEPT !.status = "failed"]
                                 ELSE job[a]]
  BY DEF RestartNode
<1>3. job' \in [Assets -> Job]
  BY <1>2
<1>4. ASSUME NEW a \in Assets PROVE job'[a].status = "completed" <=> job[a].status = "completed"
  BY <1>2
<1>5. QED
  BY <1>1, <1>3, <1>4 DEF RestartNode

-------------------------------------------------------------------------------
\* The types of MeetingASR, and the next theorem, of every behaviour.
THEOREM ASRInvariant == ASRSpec => []ASRInv
<1>1. ASRInit => ASRInv
  BY TriesAssumption DEF ASRInit, ASRInv, ASRTypeOK, InsertedOnce, Job, Run
<1>2. ASRInv /\ [ASRNext]_asrVars => ASRInv'
  <2> SUFFICES ASSUME ASRInv, [ASRNext]_asrVars PROVE ASRInv'
    OBVIOUS
  <2>1. CASE \E a \in Assets : UploadAsset(a) \/ DeleteAsset(a)
    BY <2>1, RequestsKeep
  <2>2. CASE \E n \in Nodes, a \in Assets : CreateJob(n, a) \/ RetryJob(n, a)
    BY <2>2, RequestsKeep
  <2>3. CASE \E r \in runs : RunFails(r) \/ RunCompletes(r) \/ RunAborts(r)
    BY <2>3, RunsKeep
  <2>4. CASE \E n \in Nodes : RestartNode(n)
    BY <2>4, RestartKeeps
  <2>5. CASE UNCHANGED asrVars
    BY <2>5 DEF asrVars, ASRInv, ASRTypeOK, InsertedOnce
  <2>6. QED
    BY <2>1, <2>2, <2>3, <2>4, <2>5 DEF ASRNext, ServerNext
<1>3. QED
  BY <1>1, <1>2, PTL DEF ASRSpec

\* However retries, restarts and slow goroutines overlap, the transcript gets one set
\* of segments of an asset, exactly when its job is completed.
THEOREM InsertedOnceAlways == ASRSpec => []InsertedOnce
<1>1. ASRInv => InsertedOnce
  BY DEF ASRInv
<1>2. QED
  BY <1>1, ASRInvariant, PTL
===============================================================================
