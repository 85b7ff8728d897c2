--------------------------- MODULE MeetingRecording ---------------------------
(***************************************************************************)
(* The recorder of a meeting page, composed with the server of MeetingASR: *)
(* the hook useMeetingAudioRecorder (views/meetings/audio-recorder.ts), the *)
(* effects and handlers of MeetingSessionView around it and the buttons of *)
(* AudioRecorderPanel (views/meetings/meetings-page.tsx).                  *)
(*                                                                         *)
(* One MeetingSessionView serves whichever meeting is open: switching      *)
(* meetings keeps it and its hook, leaving the page unmounts both.  start() *)
(* awaits the microphone without a way to call it off, and a MediaRecorder *)
(* fires its stop event some time after stop().  Live transcription, the   *)
(* length and the bytes of recordings are left out.                        *)
(***************************************************************************)
EXTENDS MeetingASR

CONSTANTS
    Meetings,
    None,
    MaxStarts,     \* bound on the calls of start()
    MaxUpsets      \* bound on switches, ends of meetings, failures, deletions

VARIABLES
    open,          \* the meeting on the page; None: not mounted
    live,          \* the meetings that are running
    hook,          \* state and refs of useMeetingAudioRecorder
    mic,           \* what became of each call of start()
    upload,        \* the calls of saveRecordingToMeeting, by the asset they make
    saved,         \* savedRecordingAssetId
    upsets,        \* counter of the bound
    crossed        \* ghost: starts overlapped by another, or by a switch or the end of the page

page == <<open, live, hook, mic, upload, saved, upsets, crossed>>
vars == <<asrVars, page>>

Starts == 1..MaxStarts

ASSUME MeetingsAssumption == Meetings # {} /\ None \notin Meetings \cup Assets
ASSUME StartsAssumption == MaxStarts \in Nat /\ MaxUpsets \in Nat /\ None \notin Nat

-------------------------------------------------------------------------------
\* recorder and stream are recorderRef and streamRef.
Hook == [state : {"idle", "recording", "ready", "error"},
         recorder : Starts \cup {None}, stream : Starts \cup {None},
         recording : Starts \cup {None}]
FreshHook == [state |-> "idle", recorder |-> None, stream |-> None, recording |-> None]

\* asked: getUserMedia has not answered, nor, when lost, will it find its page;
\* stopping: the recorder has stopped, its onstop is to be called; over: it has
\* been, or was taken off.  tracks: the microphone is open.  in: the meeting the
\* start was made in.
Mic == [phase : {"none", "asked", "lost", "recording", "stopping", "over"},
        tracks : BOOLEAN, in : Meetings \cup {None}]

\* here: the page that made the call is still mounted.
Upload == [phase : {"none", "sent", "stored", "asking", "over"},
           from : Starts \cup {None}, to : Meetings \cup {None}, here : BOOLEAN]

TypeOK ==
    /\ ASRTypeOK
    /\ open \in Meetings \cup {None}
    /\ live \subseteq Meetings
    /\ hook \in Hook
    /\ mic \in [Starts -> Mic]
    /\ upload \in [Assets -> Upload]
    /\ saved \in Assets \cup {None}
    /\ upsets \in 0..MaxUpsets
    /\ crossed \subseteq Starts

Init ==
    /\ ASRInit
    /\ open = None
    /\ live = {}
    /\ hook = FreshHook
    /\ mic = [s \in Starts |-> [phase |-> "none", tracks |-> FALSE, in |-> None]]
    /\ upload = [a \in Assets |-> [phase |-> "none", from |-> None, to |-> None,
                            here |-> FALSE]]
    /\ saved = None
    /\ upsets = 0
    /\ crossed = {}

Upset == upsets < MaxUpsets /\ upsets' = upsets + 1

-------------------------------------------------------------------------------
(* The parts of the hook, on the calls of start() and on the hook's state. *)

In(mc, phases) == {s \in Starts : mc[s].phase \in phases}

\* The tracks of s are stopped; a recorder whose tracks end stops by itself.
Silenced(mc, s) ==
    IF s = None THEN mc
    ELSE [mc EXCEPT ![s].tracks = FALSE,
                    ![s].phase = IF @ = "recording" THEN "stopping" ELSE @]

\* cleanupStream.
CleanMic(mc, h) == Silenced(mc, h.stream)
CleanHook(h) == [h EXCEPT !.stream = None, !.recorder = None]

\* Mutant of Unheard: the recorder is stopped, its onstop stays.
StoppedOnly(mc, r) ==
    [s \in Starts |-> IF s = r /\ mc[s].phase = "recording"
                      THEN [mc[s] EXCEPT !.phase = "stopping"] ELSE mc[s]]

\* Handlers off and stop(), the first half of reset() and of the unmount.
Unheard(mc, r) ==
    [s \in Starts |-> IF s = r /\ mc[s].phase \in {"recording", "stopping"}
                      THEN [mc[s] EXCEPT !.phase = "over"] ELSE mc[s]]

\* reset() and the unmount.
ResetMic(mc, h) == CleanMic(Unheard(mc, h.recorder), h)

\* stop(): onstop does the rest, unless the ref has no recorder that records.
StoppedMic(mc, h) ==
    IF h.recorder \in In(mc, {"recording"})
    THEN [mc EXCEPT ![h.recorder].phase = "stopping"]
    ELSE CleanMic(mc, h)
StoppedHook(mc, h) ==
    IF h.recorder \in In(mc, {"recording"}) THEN h ELSE CleanHook(h)

\* The recording changes, and with it what the page knows of its asset.
SetHook(h) ==
    /\ hook' = h
    /\ saved' = IF h.recording = hook.recording THEN saved ELSE None

\* Mutant of StopRecorder: the refs are dropped and the recorder with them.
ForgetRecorder ==
    /\ mic' = mic
    /\ SetHook(CleanHook(hook))

StopRecorder ==
    /\ mic' = StoppedMic(mic, hook)
    /\ SetHook(StoppedHook(mic, hook))

-------------------------------------------------------------------------------
(* The page. *)

\* The first mount, and a switch from one meeting to another.  Of the effects of the
\* switch the one that stops a recorder comes first (the new meeting does not run or
\* is not loaded yet), then the one that resets.  A prompt is not called off, nor the
\* onstop of a recorder that the ref has lost.
OpenMeeting(m) ==
    /\ m # open
    /\ open' = m
    /\ IF open = None
       THEN UNCHANGED <<hook, mic, saved, upsets, crossed>>
       ELSE /\ Upset
            /\ \E stops \in BOOLEAN :
                  /\ stops \/ m \in live \/ open \notin live
                  /\ LET stopped == stops /\ hook.state = "recording"
                         mc == IF stopped THEN StoppedMic(mic, hook) ELSE mic
                         h == IF stopped THEN StoppedHook(mic, hook) ELSE hook
                     IN /\ mic' = ResetMic(mc, h)
                        /\ crossed' = crossed \cup In(mic, {"asked"})
                                              \cup (In(mic, {"stopping"}) \ {h.recorder})
            /\ SetHook(FreshHook)
    /\ UNCHANGED <<asrVars, live, upload>>

\* Leaving the page: what is still asked will answer to nobody.
LeavePage ==
    /\ open # None /\ open' = None
    /\ Upset
    /\ mic' = LET reset == ResetMic(mic, hook)
              IN [s \in Starts |-> CASE reset[s].phase = "asked" -> [reset[s] EXCEPT !.phase = "lost"]
                                     [] reset[s].phase = "stopping" -> [reset[s] EXCEPT !.phase = "over"]
                                     [] OTHER -> reset[s]]
    /\ hook' = FreshHook /\ saved' = None
    /\ upload' = [a \in Assets |-> [upload[a] EXCEPT !.here = FALSE]]
    /\ crossed' = crossed \cup In(mic, {"asked"})
    /\ UNCHANGED <<asrVars, live>>

\* Meetings begin and end here or elsewhere; the page shows what the cache has.
StartMeeting(m) ==
    /\ m \notin live /\ live' = live \cup {m}
    /\ UNCHANGED <<asrVars, open, hook, mic, upload, saved, upsets, crossed>>

StopMeeting(m) ==
    /\ Upset
    /\ m \in live /\ live' = live \ {m}
    /\ UNCHANGED <<asrVars, open, hook, mic, upload, saved, crossed>>

\* start(), up to getUserMedia, from the button of a running meeting.
Start(s) ==
    /\ open \in live /\ hook.state # "recording"
    /\ s \in In(mic, {"none"})
    /\ \A t \in Starts : t < s => mic[t].phase # "none"
    /\ mic' = [mic EXCEPT ![s].phase = "asked", ![s].in = open]
    /\ SetHook([hook EXCEPT !.recording = None])
    /\ crossed' = IF In(mic, {"asked"}) = {} THEN crossed
                  ELSE crossed \cup In(mic, {"asked"}) \cup {s}
    /\ UNCHANGED <<asrVars, open, live, upload, upsets>>

\* The microphone is granted: whatever the page has become, the refs are set.
Granted(s) ==
    /\ s \in In(mic, {"asked", "lost"})
    /\ mic' = [mic EXCEPT ![s].phase = "recording", ![s].tracks = TRUE]
    /\ IF s \in In(mic, {"asked"})
       THEN SetHook([hook EXCEPT !.state = "recording", !.recorder = s, !.stream = s])
       ELSE UNCHANGED <<hook, saved>>
    /\ UNCHANGED <<asrVars, open, live, upload, upsets, crossed>>

\* Mutant of RecorderThrows: the catch only shows the error.
RecorderThrowsKeeping(s) ==
    /\ Upset
    /\ s \in In(mic, {"asked"})
    /\ mic' = [mic EXCEPT ![s].phase = "over", ![s].tracks = TRUE]
    /\ SetHook([hook EXCEPT !.state = "error", !.stream = s])
    /\ UNCHANGED <<asrVars, open, live, upload, crossed>>

\* Granted, but the MediaRecorder throws: the catch cleans up what start() opened.
RecorderThrows(s) ==
    /\ Upset
    /\ s \in In(mic, {"asked"})
    /\ mic' = [mic EXCEPT ![s].phase = "over"]
    /\ SetHook(CleanHook([hook EXCEPT !.state = "error"]))
    /\ UNCHANGED <<asrVars, open, live, upload, crossed>>

\* Refused: the catch cleans up whichever stream the ref has.
Denied(s) ==
    /\ Upset
    /\ s \in In(mic, {"asked", "lost"})
    /\ LET over == [mic EXCEPT ![s].phase = "over"]
       IN IF s \in In(mic, {"asked"})
          THEN /\ mic' = CleanMic(over, hook)
               /\ SetHook(CleanHook([hook EXCEPT !.state = "error"]))
          ELSE mic' = over /\ UNCHANGED <<hook, saved>>
    /\ UNCHANGED <<asrVars, open, live, upload, crossed>>

PressStop ==
    /\ open # None /\ hook.state = "recording"
    /\ StopRecorder
    /\ UNCHANGED <<asrVars, open, live, upload, upsets, crossed>>

\* The effect that stops the recorder of a meeting that is not running (any more).
StopEffect ==
    /\ open # None /\ open \notin live
    /\ hook.state = "recording"
    /\ StopRecorder
    /\ UNCHANGED <<asrVars, open, live, upload, upsets, crossed>>

\* onstop, which closes whichever stream the ref has.
RecorderStops(s) ==
    /\ s \in In(mic, {"stopping"})
    /\ mic' = CleanMic([mic EXCEPT ![s].phase = "over"], hook)
    /\ \/ SetHook(CleanHook([hook EXCEPT !.state = "ready", !.recording = s]))
       \/ SetHook(CleanHook([hook EXCEPT !.state = "error"]))
    /\ UNCHANGED <<asrVars, open, live, upload, upsets, crossed>>

Saving == \E a \in Assets : upload[a].here /\ upload[a].phase \in {"sent", "stored"}

\* savedRecordingAsset: it is looked up among the assets of the open meeting.
ShownSaved == saved # None /\ asset[saved] = "available" /\ upload[saved].to = open

\* The button that clears a recording.
PressReset ==
    /\ open # None /\ hook.recording # None /\ ~Saving
    /\ mic' = ResetMic(mic, hook)
    /\ SetHook(FreshHook)
    /\ UNCHANGED <<asrVars, open, live, upload, upsets, crossed>>

-------------------------------------------------------------------------------
(* saveRecordingToMeeting, which goes on when the page has gone. *)

Save(a) ==
    /\ open # None /\ hook.recording # None
    /\ ~Saving /\ ~ShownSaved
    /\ upload[a].phase = "none"
    /\ upload' = [upload EXCEPT ![a] = [phase |-> "sent", from |-> hook.recording,
                                      to |-> open, here |-> TRUE]]
    /\ UNCHANGED <<asrVars, open, live, hook, mic, saved, upsets, crossed>>

Goes(a, phase) == upload' = [upload EXCEPT ![a].phase = phase]

Stored(a) ==
    /\ upload[a].phase = "sent"
    /\ UploadAsset(a)
    /\ Goes(a, "stored")
    /\ UNCHANGED <<open, live, hook, mic, saved, upsets, crossed>>

\* The answer names the asset, whichever recording is there by now.
SaveAnswered(a) ==
    /\ upload[a].phase = "stored"
    /\ Goes(a, "asking")
    /\ saved' = IF upload[a].here THEN a ELSE saved
    /\ UNCHANGED <<asrVars, open, live, hook, mic, upsets, crossed>>

JobAsked(a) ==
    /\ upload[a].phase = "asking"
    /\ Goes(a, "over")
    /\ \/ \E n \in Nodes : CreateJob(n, a)
       \/ asset[a] = "deleted" /\ UNCHANGED asrVars
    /\ UNCHANGED <<open, live, hook, mic, saved, upsets, crossed>>

\* One of the two requests fails, or its answer is lost; there is no second try.
SaveFails(a) ==
    /\ Upset
    /\ upload[a].phase \in {"sent", "stored", "asking"}
    /\ Goes(a, "over")
    /\ UNCHANGED <<asrVars, open, live, hook, mic, saved, crossed>>

Server == ServerNext /\ UNCHANGED page

Next ==
    \/ \E m \in Meetings : OpenMeeting(m) \/ StartMeeting(m) \/ StopMeeting(m)
    \/ LeavePage
    \/ \E s \in Starts : \/ Start(s) \/ Granted(s) \/ RecorderThrows(s) \/ Denied(s)
                         \/ RecorderStops(s)
    \/ PressStop \/ StopEffect \/ PressReset
    \/ \E a \in Assets : \/ Save(a) \/ Stored(a) \/ SaveAnswered(a) \/ JobAsked(a)
                         \/ SaveFails(a)
    \/ Server

Spec == Init /\ [][Next]_vars

\* Effects run after the render they belong to, and a recorder fires its event.
FairSpec ==
    /\ Spec
    /\ WF_vars(StopEffect)
    /\ \A s \in Starts : WF_vars(RecorderStops(s))

-------------------------------------------------------------------------------
(* Properties. *)

\* The microphone is open only while the page says that it records and its stop
\* button reaches the stream: resets, refusals, second stops, ends of the meeting
\* and late stop events leave none open behind it.  Starts that another one or the
\* end of the page overlapped are left out: nobody has their stream any more.
MicReleased ==
    \A s \in Starts \ crossed :
        mic[s].tracks => hook.stream = s /\ hook.recorder = s /\ hook.state = "recording"

\* A recording is stored in the meeting it was made in, though one hook serves all
\* meetings and uploads outlive switches.  Left out are starts that were waiting
\* for the microphone when the page moved on, and recorders that the ref had lost
\* before their event came: their recordings appear in the next meeting.
OwnMeeting ==
    \A a \in Assets : LET s == upload[a].from
                      IN s # None /\ s \notin crossed => upload[a].to = mic[s].in

\* Nobody is recorded after the meeting: once it has ended, here or elsewhere, or
\* while the microphone was still being asked for, the stream is closed.
MicFollowsMeeting ==
    \A s \in Starts :
        (mic[s].tracks /\ s \notin crossed /\ open \notin live)
            ~> (~mic[s].tracks \/ open \in live)
===============================================================================
