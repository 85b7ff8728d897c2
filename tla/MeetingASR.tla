------------------------------ MODULE MeetingASR ------------------------------
(***************************************************************************)
(* The server's side of a saved meeting recording: the audio asset         *)
(* (internal/handler/meeting.go) and the transcription job about it        *)
(* (internal/handler/meeting_asr.go, pkg/db/queries/meeting_asr_job.sql).  *)
(*                                                                         *)
(* A job is a row and, in the memory of one server process, a goroutine    *)
(* that transcribes for up to half an hour.  Processes end and start, and  *)
(* one that starts takes the jobs of the others for interrupted too.  An   *)
(* asset has at most one job, as the page asks for one after each upload.  *)
(* The text of segments, and what users edit in it, are left out.           *)
(***************************************************************************)
EXTENDS Naturals

CONSTANTS
    Nodes,         \* server processes
    Assets,        \* the uploads
    MaxTries,      \* bound on the retries of a job
    MaxRestarts    \* bound on the restarts of processes

VARIABLES
    asset,         \* meeting_audio_asset.status
    job,           \* the row of meeting_asr_job about each asset
    runs,          \* the goroutines of runMeetingASRJob
    inserted,      \* how often segments of the asset went into the transcript
    restarts       \* counter of the bound

asrVars == <<asset, job, runs, inserted, restarts>>

ASSUME NodesAssumption == Nodes # {}
ASSUME TriesAssumption == MaxTries \in Nat /\ MaxRestarts \in Nat

-------------------------------------------------------------------------------
\* tries is retry_count.  The status "queued" is in the schema, no statement sets it.
Job == [status : {"none", "running", "failed", "completed"}, tries : 0..MaxTries]
Run == [node : Nodes, of : Assets, try : 0..MaxTries]

ASRTypeOK ==
    /\ asset \in [Assets -> {"none", "available", "deleted"}]
    /\ job \in [Assets -> Job]
    /\ runs \subseteq Run
    /\ inserted \in [Assets -> Nat]
    /\ restarts \in 0..MaxRestarts

ASRInit ==
    /\ asset = [a \in Assets |-> "none"]
    /\ job = [a \in Assets |-> [status |-> "none", tries |-> 0]]
    /\ runs = {}
    /\ inserted = [a \in Assets |-> 0]
    /\ restarts = 0

-------------------------------------------------------------------------------
(* The requests. *)

\* UploadMeetingAudioAsset, up to the row.
UploadAsset(a) ==
    /\ asset[a] = "none"
    /\ asset' = [asset EXCEPT ![a] = "available"]
    /\ UNCHANGED <<job, runs, inserted, restarts>>

DeleteAsset(a) ==
    /\ asset[a] = "available"
    /\ asset' = [asset EXCEPT ![a] = "deleted"]
    /\ UNCHANGED <<job, runs, inserted, restarts>>

\* MeetingASRRunner.Start on node n.
StartRun(n, a, try) == runs' = runs \cup {[node |-> n, of |-> a, try |-> try]}

CreateJob(n, a) ==
    /\ asset[a] = "available" /\ job[a].status = "none"
    /\ job' = [job EXCEPT ![a].status = "running"]
    /\ StartRun(n, a, 0)
    /\ UNCHANGED <<asset, inserted, restarts>>

\* RetryMeetingASRJob.  The UPDATE checks the status again; an asset deleted after
\* it was read, here or in CreateJob, is one deleted after the statement.
RetryJob(n, a) ==
    /\ asset[a] = "available" /\ job[a].status = "failed"
    /\ job[a].tries < MaxTries
    /\ job' = [job EXCEPT ![a] = [status |-> "running", tries |-> @.tries + 1]]
    /\ StartRun(n, a, job[a].tries + 1)
    /\ UNCHANGED <<asset, inserted, restarts>>

-------------------------------------------------------------------------------
(* runMeetingASRJob, whose transcription may take longer than its job lives. *)

Running(a) == job[a].status = "running"

\* The provider fails or times out: MarkMeetingASRJobFailedIfActive.
RunFails(r) ==
    /\ r \in runs /\ runs' = runs \ {r}
    /\ job' = IF Running(r.of) THEN [job EXCEPT ![r.of].status = "failed"] ELSE job
    /\ UNCHANGED <<asset, inserted, restarts>>

\* Mutant of RunCompletes: MarkMeetingASRJobCompleted, which looks at no status.
RunCompletesAnyway(r) ==
    /\ r \in runs /\ runs' = runs \ {r}
    /\ job' = [job EXCEPT ![r.of].status = "completed"]
    /\ inserted' = [inserted EXCEPT ![r.of] = @ + 1]
    /\ UNCHANGED <<asset, restarts>>

\* One transaction under the lock of the meeting: the segments, and
\* MarkMeetingASRJobCompletedIfRunning, which rolls it back when it finds no row.
RunCompletes(r) ==
    /\ r \in runs /\ runs' = runs \ {r}
    /\ IF Running(r.of)
       THEN /\ job' = [job EXCEPT ![r.of].status = "completed"]
            /\ inserted' = [inserted EXCEPT ![r.of] = @ + 1]
       ELSE UNCHANGED <<job, inserted>>
    /\ UNCHANGED <<asset, restarts>>

\* An error of the database ends the goroutine and nothing else.
RunAborts(r) ==
    /\ r \in runs /\ runs' = runs \ {r}
    /\ UNCHANGED <<asset, job, inserted, restarts>>

\* Mutant of RestartNode: the stale jobs are queued again, and nothing takes them up.
RestartNodeRequeues(n) ==
    /\ restarts < MaxRestarts /\ restarts' = restarts + 1
    /\ runs' = {r \in runs : r.node # n}
    /\ \E stale \in SUBSET {a \in Assets : Running(a)} :
          job' = [a \in Assets |-> IF a \in stale THEN [job[a] EXCEPT !.status = "queued"]
                                   ELSE job[a]]
    /\ UNCHANGED <<asset, inserted>>

\* The goroutines of n end with it; the new process fails every running job, of
\* whichever process, that was last updated more than a minute ago
\* (RecoverStaleMeetingASRJobs).
RestartNode(n) ==
    /\ restarts < MaxRestarts /\ restarts' = restarts + 1
    /\ runs' = {r \in runs : r.node # n}
    /\ \E stale \in SUBSET {a \in Assets : Running(a)} :
          job' = [a \in Assets |-> IF a \in stale THEN [job[a] EXCEPT !.status = "failed"]
                                   ELSE job[a]]
    /\ UNCHANGED <<asset, inserted>>

ServerNext ==
    \/ \E a \in Assets : DeleteAsset(a)
    \/ \E n \in Nodes, a \in Assets : RetryJob(n, a)
    \/ \E r \in runs : RunFails(r) \/ RunCompletes(r) \/ RunAborts(r)
    \/ \E n \in Nodes : RestartNode(n)

\* With clients that upload and ask for jobs as they like.
ASRNext ==
    \/ \E a \in Assets : UploadAsset(a)
    \/ \E n \in Nodes, a \in Assets : CreateJob(n, a)
    \/ ServerNext

ASRSpec == ASRInit /\ [][ASRNext]_asrVars

-------------------------------------------------------------------------------
(* Properties. *)

\* "Support retry for failed ASR jobs without duplicating transcript segments":
\* goroutines of jobs that a restart elsewhere failed go on beside the goroutine of
\* the retry, and whichever of them complete, one set of segments goes in, and a
\* job is completed exactly when it has.
InsertedOnce ==
    \A a \in Assets : inserted[a] = IF job[a].status = "completed" THEN 1 ELSE 0

\* "users never see an indefinitely running transcription after restart": a running
\* job has a goroutine left that will end it.
JobsHaveRuns == \A a \in Assets : Running(a) => \E r \in runs : r.of = a
===============================================================================
