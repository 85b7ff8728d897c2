------------------------ MODULE MeetingRecordingProofs ------------------------
(***************************************************************************)
(* Theorems about MeetingRecording, for any meetings, uploads, starts and  *)
(* processes: the types, MicReleased, OwnMeeting, and, since the server    *)
(* side of every step is one of MeetingASR, what MeetingASRProofs proves.  *)
(***************************************************************************)
EXTENDS MeetingRecording, MeetingASRProofs

-------------------------------------------------------------------------------
(* The parts of the invariant, of any calls of start() mc, hook h, page op *)
(* and crossed starts cr, so that they can be stated between the effects of *)
(* one step.                                                               *)

\* What MicReleased says.
Released(mc, h, cr) ==
    \A s \in Starts \ cr :
        mc[s].tracks => h.stream = s /\ h.recorder = s /\ h.state = "recording"

\* A prompt and another prompt or an open microphone: the other has been crossed.
\* Without it a second grant would take the refs from a recording.
Apart(mc, cr) ==
    \A s, t \in Starts :
        s # t /\ mc[s].phase = "asked" /\ (mc[t].phase = "asked" \/ mc[t].tracks) => t \in cr

LostCrossed(mc, cr) == \A s \in Starts : mc[s].phase = "lost" => s \in cr

\* A recorder that records has its microphone, so that it is in the ref; a start
\* without an answer has none.
RecordingOpen(mc) ==
    \A s \in Starts : /\ mc[s].phase = "recording" => mc[s].tracks
                      /\ mc[s].phase \in {"none", "asked", "lost"} => ~mc[s].tracks

\* What may still reach the page comes from the meeting that is open.
Local(mc, h, op, cr) ==
    \A s \in Starts \ cr :
        mc[s].phase \in {"asked", "recording", "stopping"} \/ h.recording = s => mc[s].in = op

\* A start that was made was made in a meeting.
Placed(mc) == \A s \in Starts : mc[s].phase # "none" => mc[s].in # None

\* Recordings are of starts that were made, here and in the uploads.
Made(mc, h) == h.recording # None => mc[h.recording].phase # "none"
UploadsMade ==
    \A a \in Assets : upload[a].from # None => mic[upload[a].from].phase # "none"

PageTypes ==
    /\ open \in Meetings \cup {None}
    /\ live \subseteq Meetings
    /\ hook \in Hook
    /\ mic \in [Starts -> Mic]
    /\ upload \in [Assets -> Upload]
    /\ saved \in Assets \cup {None}
    /\ upsets \in 0..MaxUpsets
    /\ crossed \subseteq Starts

\* The microphones and the hook in order.
Sound(mc, h, op, cr) ==
    /\ Released(mc, h, cr) /\ Apart(mc, cr) /\ LostCrossed(mc, cr)
    /\ RecordingOpen(mc) /\ Placed(mc) /\ Local(mc, h, op, cr) /\ Made(mc, h)

PageInv ==
    /\ PageTypes
    /\ Sound(mic, hook, open, crossed)
    /\ UploadsMade /\ OwnMeeting

-------------------------------------------------------------------------------
(* The operations of the hook. *)

\* From mc to mc2 streams close and recorders go on to their ends; nothing starts.
Calmer(mc, mc2) ==
    /\ mc2 \in [Starts -> Mic]
    /\ \A s \in Starts :
          /\ mc2[s].in = mc[s].in
          /\ mc2[s].tracks => mc[s].tracks
          /\ \/ mc2[s].phase = mc[s].phase
             \/ mc[s].phase = "recording" /\ mc2[s].phase \in {"stopping", "over"}
             \/ mc[s].phase = "stopping" /\ mc2[s].phase = "over"
          /\ mc2[s].phase = "recording" => mc2[s].tracks = mc[s].tracks

\* No stream is open that was not crossed.
Closed(mc, cr) == \A s \in Starts \ cr : ~mc[s].tracks

\* A ref that names a start names something.
LEMMA StartsAreNotNone == None \notin Starts
BY StartsAssumption DEF Starts

\* Two calming operations in a row calm.
LEMMA CalmerChains ==
    ASSUME NEW mc, NEW mc2, NEW mc3, Calmer(mc, mc2), Calmer(mc2, mc3)
    PROVE  Calmer(mc, mc3)
BY DEF Calmer

\* What a calmer state keeps.
LEMMA CalmerKeeps ==
    ASSUME NEW mc, NEW mc2, Calmer(mc, mc2), NEW h \in Hook, NEW h2 \in Hook, NEW op,
           NEW cr, NEW cr2, cr \subseteq cr2, h2.recording \in {h.recording, None},
           Apart(mc, cr), LostCrossed(mc, cr), RecordingOpen(mc), Placed(mc),
           Local(mc, h, op, cr), Made(mc, h)
    PROVE  /\ Apart(mc2, cr2) /\ LostCrossed(mc2, cr2)
           /\ RecordingOpen(mc2) /\ Placed(mc2)
           /\ Local(mc2, h2, op, cr2) /\ Made(mc2, h2)
<1>1. Apart(mc2, cr2)
  BY DEF Calmer, Apart
<1>2. LostCrossed(mc2, cr2)
  BY DEF Calmer, LostCrossed
<1>3. RecordingOpen(mc2)
  BY DEF Calmer, RecordingOpen
<1>4. Local(mc2, h2, op, cr2)
  BY StartsAreNotNone DEF Calmer, Local
<1>5. Made(mc2, h2)
  BY DEF Calmer, Made, Hook
<1>6. Placed(mc2)
  BY DEF Calmer, Placed
<1>7. QED
  BY <1>1, <1>2, <1>3, <1>4, <1>5, <1>6

\* cleanupStream.
LEMMA CleanCalms ==
    ASSUME NEW mc \in [Starts -> Mic], NEW h \in Hook, NEW cr
    PROVE  /\ Calmer(mc, CleanMic(mc, h)) /\ CleanHook(h) \in Hook
           /\ Released(mc, h, cr) => Closed(CleanMic(mc, h), cr)
<1>1. CleanHook(h) \in Hook
  BY DEF CleanHook, Hook
<1>2. CASE h.stream = None
  BY <1>1, <1>2, StartsAreNotNone DEF CleanMic, Silenced, Calmer, Released, Closed
<1>3. CASE h.stream \in Starts
  <2> DEFINE x == h.stream
             new == [mc[x] EXCEPT !.tracks = FALSE,
                                  !.phase = IF @ = "recording" THEN "stopping" ELSE @]
  <2>1. x \in Starts /\ mc[x] \in Mic
    BY <1>3
  <2>2. CleanMic(mc, h) = [mc EXCEPT ![x] = new]
    BY <1>3, <2>1, StartsAreNotNone DEF CleanMic, Silenced, Mic
  <2>3. /\ new \in Mic /\ new.in = mc[x].in /\ new.tracks = FALSE
        /\ new.phase # "recording"
        /\ \/ new.phase = mc[x].phase
           \/ mc[x].phase = "recording" /\ new.phase = "stopping"
    <3> DEFINE old == mc[x]
    <3>1. /\ old \in Mic
          /\ new = [old EXCEPT !.tracks = FALSE,
                              !.phase = IF @ = "recording" THEN "stopping" ELSE @]
      BY <2>1
    <3> HIDE DEF old, new
    <3>2. /\ new \in Mic /\ new.in = old.in /\ new.tracks = FALSE
          /\ new.phase = IF old.phase = "recording" THEN "stopping" ELSE old.phase
      BY <3>1 DEF Mic
    <3>3. QED
      BY <3>2 DEF old
  <2> HIDE DEF new
  <2>4. Calmer(mc, CleanMic(mc, h))
    BY <2>1, <2>2, <2>3 DEF Calmer
  <2>5. Released(mc, h, cr) => Closed(CleanMic(mc, h), cr)
    BY <2>1, <2>2, <2>3 DEF Released, Closed
  <2>6. QED
    BY <1>1, <2>4, <2>5
<1>4. QED
  BY <1>2, <1>3 DEF Hook

\* The handlers of a recorder are taken off and it is stopped; its tracks are left.
LEMMA UnheardCalms ==
    ASSUME NEW mc \in [Starts -> Mic], NEW r
    PROVE  /\ Calmer(mc, Unheard(mc, r))
           /\ \A s \in Starts : /\ Unheard(mc, r)[s].tracks = mc[s].tracks
                                /\ s # r => Unheard(mc, r)[s] = mc[s]
           /\ r \in Starts => Unheard(mc, r)[r].phase \notin {"recording", "stopping"}
<1> DEFINE mc2 == Unheard(mc, r)
<1>1. ASSUME NEW s \in Starts
      PROVE  /\ mc2[s] \in Mic /\ mc2[s].in = mc[s].in /\ mc2[s].tracks = mc[s].tracks
             /\ \/ mc2[s].phase = mc[s].phase
                \/ mc[s].phase \in {"recording", "stopping"} /\ mc2[s].phase = "over"
             /\ s # r => mc2[s] = mc[s]
             /\ s = r => mc2[s].phase \notin {"recording", "stopping"}
  <2>1. mc[s] \in Mic
    OBVIOUS
  <2>2. mc2[s] = IF s = r /\ mc[s].phase \in {"recording", "stopping"}
                 THEN [mc[s] EXCEPT !.phase = "over"] ELSE mc[s]
    BY DEF Unheard
  <2>3. QED
    BY <2>1, <2>2 DEF Mic
<1>2. mc2 = [s \in Starts |-> mc2[s]]
  BY DEF Unheard
<1> HIDE DEF mc2
<1>3. mc2 \in [Starts -> Mic]
  BY <1>1, <1>2
<1>4. QED
  BY <1>1, <1>3 DEF Calmer, mc2

\* stop().
LEMMA StoppedCalms ==
    ASSUME NEW mc \in [Starts -> Mic], NEW h \in Hook, NEW cr, Released(mc, h, cr)
    PROVE  /\ Calmer(mc, StoppedMic(mc, h)) /\ Released(StoppedMic(mc, h), StoppedHook(mc, h), cr)
           /\ StoppedHook(mc, h) \in Hook /\ StoppedHook(mc, h).recording = h.recording
<1>1. CASE h.recorder \in In(mc, {"recording"})
  <2> DEFINE x == h.recorder
  <2>1. x \in Starts /\ mc[x] \in Mic /\ mc[x].phase = "recording"
    BY <1>1 DEF In
  <2>2. StoppedMic(mc, h) = [mc EXCEPT ![x] = [mc[x] EXCEPT !.phase = "stopping"]]
    BY <1>1, <2>1 DEF StoppedMic, Mic
  <2>3. StoppedHook(mc, h) = h
    BY <1>1 DEF StoppedHook
  <2>4. Calmer(mc, StoppedMic(mc, h))
    BY <2>1, <2>2 DEF Calmer, Mic
  <2>5. QED
    BY <2>3, <2>4 DEF Released, Calmer
<1>2. CASE h.recorder \notin In(mc, {"recording"})
  <2>1. StoppedMic(mc, h) = CleanMic(mc, h) /\ StoppedHook(mc, h) = CleanHook(h)
    BY <1>2 DEF StoppedMic, StoppedHook
  <2>2. CleanHook(h).recording = h.recording
    BY DEF CleanHook, Hook
  <2>3. QED
    BY <2>1, <2>2, CleanCalms DEF Released, Closed
<1>3. QED
  BY <1>1, <1>2

\* reset(): of the starts nobody crossed none is open, and only those whose event is
\* to come, out of the ref, are not over.
LEMMA ResetCalms ==
    ASSUME NEW mc \in [Starts -> Mic], NEW h \in Hook, NEW cr, Released(mc, h, cr),
           RecordingOpen(mc)
    PROVE  /\ Calmer(mc, ResetMic(mc, h)) /\ Closed(ResetMic(mc, h), cr)
           /\ \A s \in Starts \ cr : ResetMic(mc, h)[s].phase \in {"recording", "stopping"} =>
                mc[s].phase = "stopping" /\ s # h.recorder
<1> DEFINE un == Unheard(mc, h.recorder)
<1>1. /\ Calmer(mc, un) /\ un \in [Starts -> Mic]
      /\ \A s \in Starts : un[s].tracks = mc[s].tracks
      /\ h.recorder \in Starts => un[h.recorder].phase \notin {"recording", "stopping"}
  <2>1. /\ Calmer(mc, un)
        /\ \A s \in Starts : un[s].tracks = mc[s].tracks
        /\ h.recorder \in Starts => un[h.recorder].phase \notin {"recording", "stopping"}
    BY UnheardCalms
  <2>2. QED
    BY <2>1 DEF Calmer
<1> HIDE DEF un
<1>2. Released(un, h, cr)
  BY <1>1 DEF Released
<1>3. ResetMic(mc, h) = CleanMic(un, h)
  BY DEF ResetMic, un
<1>4. Calmer(un, ResetMic(mc, h)) /\ Closed(ResetMic(mc, h), cr)
  BY <1>1, <1>2, <1>3, CleanCalms
<1>5. Calmer(mc, ResetMic(mc, h))
  BY <1>1, <1>4, CalmerChains
<1>6. ASSUME NEW s \in Starts \ cr, ResetMic(mc, h)[s].phase \in {"recording", "stopping"}
      PROVE  mc[s].phase = "stopping" /\ s # h.recorder
  <2>1. un[s].phase \in {"recording", "stopping"}
    BY <1>4, <1>6 DEF Calmer
  <2>2. s # h.recorder
    BY <1>1, <2>1
  <2>3. mc[s].phase \in {"recording", "stopping"}
    BY <1>1, <2>1 DEF Calmer
  <2>4. mc[s].phase # "recording"
    BY <2>2 DEF Released, RecordingOpen
  <2>5. QED
    BY <2>2, <2>3, <2>4
<1>7. QED
  BY <1>4, <1>5, <1>6

-------------------------------------------------------------------------------
(* What the steps have in common. *)

\* The states of the hook and of what is known of its recording.
LEMMA SetHookTyped ==
    ASSUME PageTypes, NEW h \in Hook, SetHook(h)
    PROVE  hook' = h /\ hook' \in Hook /\ saved' \in Assets \cup {None}
BY DEF PageTypes, SetHook

\* Uploads that stay, while starts that were made stay in their meetings.
LEMMA UploadsStay ==
    ASSUME PageInv, upload' \in [Assets -> Upload], crossed \subseteq crossed',
           \A a \in Assets : upload'[a].from = upload[a].from /\ upload'[a].to = upload[a].to,
           \A s \in Starts : mic[s].phase # "none" =>
                mic'[s].phase # "none" /\ mic'[s].in = mic[s].in
    PROVE  UploadsMade' /\ OwnMeeting'
<1>1. ASSUME NEW a \in Assets, upload'[a].from # None
      PROVE  /\ mic'[upload'[a].from].phase # "none"
             /\ upload'[a].from \notin crossed' => upload'[a].to = mic'[upload'[a].from].in
  <2> DEFINE s == upload[a].from
  <2>1. s = upload'[a].from /\ s \in Starts
    BY <1>1 DEF PageInv, PageTypes, Upload
  <2>2. mic[s].phase # "none" /\ (s \notin crossed => upload[a].to = mic[s].in)
    BY <1>1, <2>1 DEF PageInv, UploadsMade, OwnMeeting
  <2>3. QED
    BY <2>1, <2>2
<1>2. QED
  BY <1>1 DEF UploadsMade, OwnMeeting

\* A step of the microphones that only calms them, from the page that stays.
LEMMA CalmStep ==
    ASSUME PageInv, NEW h \in Hook, SetHook(h), Calmer(mic, mic'), Released(mic', h, crossed),
           h.recording \in {hook.recording, None},
           UNCHANGED <<open, live, upload, crossed>>, upsets' \in 0..MaxUpsets
    PROVE  PageInv'
<1>1. PageTypes'
  BY SetHookTyped DEF PageInv, PageTypes, Calmer
<1>2. hook' = h
  BY SetHookTyped DEF PageInv
<1>3. Sound(mic', hook', open', crossed')
  BY <1>2, CalmerKeeps DEF PageInv, Sound, PageTypes
<1>4. UploadsMade' /\ OwnMeeting'
  <2>1. \A s \in Starts : mic[s].phase # "none" =>
            mic'[s].phase # "none" /\ mic'[s].in = mic[s].in
    BY DEF Calmer
  <2>2. QED
    BY <2>1, UploadsStay DEF PageInv, PageTypes
<1>5. QED
  BY <1>1, <1>3, <1>4 DEF PageInv

\* A step that leaves the microphones alone.
LEMMA UploadStep ==
    ASSUME PageInv, UNCHANGED <<open, live, hook, mic, crossed>>,
           upsets' \in 0..MaxUpsets, saved' \in Assets \cup {None},
           NEW a \in Assets, NEW u \in Upload, upload' = [upload EXCEPT ![a] = u],
           \/ u.from = upload[a].from /\ u.to = upload[a].to
           \/ u.from = hook.recording /\ u.to = open /\ hook.recording # None
    PROVE  PageInv'
<1> USE DEF PageInv, PageTypes
<1>1. upload' \in [Assets -> Upload] /\ upload'[a] = u
      /\ \A b \in Assets : b # a => upload'[b] = upload[b]
  OBVIOUS
<1>2. PageTypes'
  BY <1>1
<1>3. Sound(mic, hook, open, crossed)'
  BY DEF Sound, Released, Apart, LostCrossed, RecordingOpen, Placed, Local, Made
<1>4. CASE u.from = upload[a].from /\ u.to = upload[a].to
  <2>1. UploadsMade' /\ OwnMeeting'
    BY <1>1, <1>4, UploadsStay
  <2>2. QED
    BY <1>2, <1>3, <2>1
<1>5. CASE u.from = hook.recording /\ u.to = open /\ hook.recording # None
  <2>1. hook.recording \in Starts
    BY <1>5 DEF Hook
  <2>2. mic[u.from].phase # "none" /\ (u.from \notin crossed => u.to = mic[u.from].in)
    BY <1>5, <2>1 DEF Sound, Made, Local
  <2>3. UploadsMade' /\ OwnMeeting'
    BY <1>1, <2>2 DEF UploadsMade, OwnMeeting
  <2>4. QED
    BY <1>2, <1>3, <2>3
<1>6. QED
  BY <1>4, <1>5

-------------------------------------------------------------------------------
(* The actions. *)

\* The hook of a fresh mount, or after a reset, has no recording.
LEMMA FreshHookIsHook == FreshHook \in Hook /\ FreshHook.recording = None
BY DEF FreshHook, Hook

\* A switch: the stop of the first effect calms, the reset of the second closes, and
\* what is left to come was crossed.
LEMMA OpenMeetingKeeps ==
    ASSUME PageInv, NEW m \in Meetings, OpenMeeting(m)
    PROVE  PageInv'
<1> USE DEF PageInv, PageTypes
<1>1. CASE open = None
  <2>1. /\ open' = m /\ UNCHANGED <<live, hook, mic, upload, saved, upsets, crossed>>
    BY <1>1 DEF OpenMeeting
  <2>2. Local(mic, hook, m, crossed)
    BY <1>1, StartsAreNotNone DEF Sound, Local, Placed, Made
  <2>3. Sound(mic, hook, open, crossed)'
    BY <2>1, <2>2 DEF Sound
  <2>4. QED
    BY <2>1, <2>3 DEF UploadsMade, OwnMeeting
<1>2. CASE open # None
  <2>1. PICK stops \in BOOLEAN :
          LET stopped == stops /\ hook.state = "recording"
              mc == IF stopped THEN StoppedMic(mic, hook) ELSE mic
              h == IF stopped THEN StoppedHook(mic, hook) ELSE hook
          IN /\ mic' = ResetMic(mc, h)
             /\ crossed' = crossed \cup In(mic, {"asked"})
                                   \cup (In(mic, {"stopping"}) \ {h.recorder})
    BY <1>2 DEF OpenMeeting
  <2> DEFINE stopped == stops /\ hook.state = "recording"
             mc == IF stopped THEN StoppedMic(mic, hook) ELSE mic
             h == IF stopped THEN StoppedHook(mic, hook) ELSE hook
  <2>2. /\ Calmer(mic, mc) /\ h \in Hook /\ h.recording = hook.recording
        /\ Released(mc, h, crossed)
    <3>1. CASE stopped
      BY <3>1, StoppedCalms DEF Sound
    <3>2. CASE ~stopped
      BY <3>2 DEF Sound, Calmer
    <3>3. QED
      BY <3>1, <3>2
  <2>3. h.recorder \in {hook.recorder, None}
    BY DEF StoppedHook, CleanHook, Hook
  <2>4. /\ mic' = ResetMic(mc, h)
        /\ crossed' = crossed \cup In(mic, {"asked"}) \cup (In(mic, {"stopping"}) \ {h.recorder})
    BY <2>1
  <2>5. /\ open' = m /\ upsets' \in 0..MaxUpsets /\ SetHook(FreshHook)
        /\ UNCHANGED <<live, upload>>
    BY <1>2, StartsAssumption DEF OpenMeeting, Upset
  <2> HIDE DEF mc, h
  <2>6. mc \in [Starts -> Mic] /\ RecordingOpen(mc)
    BY <2>2 DEF Calmer, Sound, RecordingOpen
  <2>7. /\ Calmer(mc, mic') /\ Closed(mic', crossed)
        /\ \A s \in Starts \ crossed : mic'[s].phase \in {"recording", "stopping"} =>
              mc[s].phase = "stopping" /\ s # h.recorder
    BY <2>2, <2>4, <2>6, ResetCalms
  <2>8. Calmer(mic, mic')
    BY <2>2, <2>7, CalmerChains
  <2>9. ASSUME NEW s \in Starts \ crossed', mic'[s].phase \in {"asked", "recording", "stopping"}
        PROVE  FALSE
    <3>1. s \notin crossed /\ mic[s].phase # "asked"
      BY <2>4, <2>9 DEF In
    <3>2. mc[s].phase = "stopping" /\ s # h.recorder
      BY <2>7, <2>8, <2>9, <3>1 DEF Calmer
    <3>3. mic[s].phase = "stopping" \/ (mic[s].phase = "recording" /\ s = hook.recorder)
      BY <2>2, <3>1, <3>2 DEF Calmer, Sound, RecordingOpen, Released
    <3>4. mic[s].phase = "recording" /\ s = hook.recorder
      BY <2>4, <2>9, <3>2, <3>3 DEF In
    <3>5. s \in In(mic, {"recording"})
      BY <3>4 DEF In
    <3>6. h = hook
      BY <3>4, <3>5 DEF h, StoppedHook
    <3>7. QED
      BY <3>2, <3>4, <3>6
  <2>10. PageTypes'
    BY <2>4, <2>5, <2>7, SetHookTyped, FreshHookIsHook DEF Calmer, In
  <2>11. crossed \subseteq crossed' /\ hook' = FreshHook
    BY <2>4, <2>5, SetHookTyped, FreshHookIsHook
  <2>12. Sound(mic', hook', open', crossed')
    <3>1. /\ Apart(mic', crossed') /\ LostCrossed(mic', crossed') /\ RecordingOpen(mic')
          /\ Placed(mic') /\ Made(mic', FreshHook)
      BY <2>8, <2>11, FreshHookIsHook, CalmerKeeps DEF Sound
    <3>2. Local(mic', FreshHook, open', crossed')
      BY <2>9, FreshHookIsHook, StartsAreNotNone DEF Local
    <3>3. Released(mic', FreshHook, crossed')
      BY <2>7, <2>11 DEF Released, Closed
    <3>4. QED
      BY <2>11, <3>1, <3>2, <3>3 DEF Sound
  <2>13. UploadsMade' /\ OwnMeeting'
    <3>1. \A s \in Starts : mic[s].phase # "none" =>
              mic'[s].phase # "none" /\ mic'[s].in = mic[s].in
      BY <2>8 DEF Calmer
    <3>2. QED
      BY <2>5, <2>11, <3>1, UploadsStay
  <2>14. QED
    BY <2>10, <2>12, <2>13
<1>3. QED
  BY <1>1, <1>2

\* The end of the page: what is not over afterwards was crossed.
LEMMA LeavePageKeeps ==
    ASSUME PageInv, LeavePage
    PROVE  PageInv'
<1> USE DEF PageInv, PageTypes
<1> DEFINE reset == ResetMic(mic, hook)
<1>1. /\ Calmer(mic, reset) /\ Closed(reset, crossed) /\ reset \in [Starts -> Mic]
      /\ \A s \in Starts \ crossed : reset[s].phase # "recording"
  <2>1. /\ Calmer(mic, reset) /\ Closed(reset, crossed)
        /\ \A s \in Starts \ crossed : reset[s].phase \in {"recording", "stopping"} =>
              mic[s].phase = "stopping" /\ s # hook.recorder
    BY ResetCalms DEF Sound
  <2>2. QED
    BY <2>1 DEF Calmer
<1>2. RecordingOpen(reset)
  BY <1>1 DEF Calmer, Sound, RecordingOpen
<1> HIDE DEF reset
<1>3. /\ mic' = [s \in Starts |-> CASE reset[s].phase = "asked" -> [reset[s] EXCEPT !.phase = "lost"]
                                    [] reset[s].phase = "stopping" -> [reset[s] EXCEPT !.phase = "over"]
                                    [] OTHER -> reset[s]]
      /\ upload' = [a \in Assets |-> [upload[a] EXCEPT !.here = FALSE]]
      /\ open' = None /\ hook' = FreshHook /\ saved' = None /\ UNCHANGED live
      /\ crossed' = crossed \cup In(mic, {"asked"}) /\ upsets' \in 0..MaxUpsets
  BY StartsAssumption DEF LeavePage, reset, Upset
<1>4. ASSUME NEW s \in Starts
      PROVE  /\ mic'[s] \in Mic /\ mic'[s].in = reset[s].in /\ mic'[s].tracks = reset[s].tracks
             /\ mic'[s].phase = CASE reset[s].phase = "asked" -> "lost"
                                  [] reset[s].phase = "stopping" -> "over"
                                  [] OTHER -> reset[s].phase
  <2> DEFINE old == reset[s]
  <2>1. old \in Mic
    BY <1>1
  <2>2. mic'[s] = CASE old.phase = "asked" -> [old EXCEPT !.phase = "lost"]
                    [] old.phase = "stopping" -> [old EXCEPT !.phase = "over"]
                    [] OTHER -> old
    BY <1>3
  <2> HIDE DEF old
  <2>3. /\ mic'[s] \in Mic /\ mic'[s].in = old.in /\ mic'[s].tracks = old.tracks
        /\ mic'[s].phase = CASE old.phase = "asked" -> "lost"
                             [] old.phase = "stopping" -> "over"
                             [] OTHER -> old.phase
    BY <2>1, <2>2 DEF Mic
  <2>4. QED
    BY <2>3 DEF old
<1>5. mic' \in [Starts -> Mic]
  BY <1>3, <1>4
<1>6. ASSUME NEW a \in Assets
      PROVE  /\ upload'[a] \in Upload
             /\ upload'[a].from = upload[a].from /\ upload'[a].to = upload[a].to
  BY <1>3 DEF Upload
<1>7. PageTypes'
  <2>1. upload' \in [Assets -> Upload]
    BY <1>3, <1>6
  <2>2. QED
    BY <1>3, <1>5, <2>1, FreshHookIsHook DEF In
<1>8. ASSUME NEW s \in Starts
      PROVE  /\ mic[s].phase # "none" => mic'[s].phase # "none" /\ mic'[s].in = mic[s].in
             /\ mic'[s].phase # "none" => mic[s].phase # "none" /\ mic'[s].in = mic[s].in
             /\ mic'[s].phase # "asked" /\ mic'[s].phase # "stopping"
             /\ mic'[s].phase = "recording" => s \in crossed /\ mic'[s].tracks
             /\ mic'[s].phase = "lost" => s \in crossed'
             /\ mic'[s].tracks => s \in crossed
             /\ mic'[s].phase \in {"none", "lost"} => ~mic'[s].tracks
  <2>1. mic'[s].phase = "lost" => mic[s].phase \in {"asked", "lost"}
    BY <1>1, <1>4 DEF Calmer
  <2>2. mic'[s].phase = "lost" => s \in crossed'
    BY <1>3, <2>1 DEF In, Sound, LostCrossed
  <2>3. /\ mic'[s].phase # "asked" /\ mic'[s].phase # "stopping"
        /\ mic'[s].phase = "recording" => s \in crossed /\ mic'[s].tracks
    BY <1>1, <1>2, <1>4 DEF RecordingOpen
  <2>4. /\ mic[s].phase # "none" => mic'[s].phase # "none" /\ mic'[s].in = mic[s].in
        /\ mic'[s].phase # "none" => mic[s].phase # "none" /\ mic'[s].in = mic[s].in
    BY <1>1, <1>4 DEF Calmer
  <2>5. mic'[s].tracks => s \in crossed
    BY <1>1, <1>4 DEF Closed
  <2>6. mic'[s].phase \in {"none", "lost"} => ~mic'[s].tracks
    BY <1>2, <1>4 DEF RecordingOpen
  <2>7. QED
    BY <2>2, <2>3, <2>4, <2>5, <2>6
<1>9. Sound(mic', hook', open', crossed')
  <2>1. Released(mic', FreshHook, crossed') /\ Apart(mic', crossed')
    BY <1>3, <1>8 DEF Released, Apart
  <2>2. LostCrossed(mic', crossed') /\ RecordingOpen(mic')
    BY <1>8 DEF LostCrossed, RecordingOpen
  <2>3. Placed(mic')
    BY <1>8 DEF Placed, Sound
  <2>4. Local(mic', FreshHook, open', crossed')
    BY <1>3, <1>8, FreshHookIsHook, StartsAreNotNone DEF Local
  <2>5. Made(mic', FreshHook)
    BY FreshHookIsHook DEF Made
  <2>6. QED
    BY <1>3, <2>1, <2>2, <2>3, <2>4, <2>5 DEF Sound
<1>10. UploadsMade' /\ OwnMeeting'
  BY <1>3, <1>6, <1>7, <1>8, UploadsStay
<1>11. QED
  BY <1>7, <1>9, <1>10

\* A new prompt: no microphone that was not crossed is open, or the page would record.
LEMMA StartKeeps ==
    ASSUME PageInv, NEW s \in Starts, Start(s)
    PROVE  PageInv'
<1> USE DEF PageInv, PageTypes
<1> DEFINE h == [hook EXCEPT !.recording = None]
<1>1. h \in Hook /\ h.recording = None /\ h.state = hook.state
  BY DEF Hook
<1>2. hook' = h /\ saved' \in Assets \cup {None}
  BY <1>1, SetHookTyped DEF Start
<1> HIDE DEF h
<1>3. /\ open # None /\ hook.state # "recording" /\ mic[s].phase = "none"
      /\ UNCHANGED <<open, live, upload, upsets>>
  BY MeetingsAssumption DEF Start, In
<1>4. /\ mic' \in [Starts -> Mic]
      /\ mic'[s].phase = "asked" /\ mic'[s].in = open /\ mic'[s].tracks = mic[s].tracks
      /\ \A t \in Starts : t # s => mic'[t] = mic[t]
  <2> DEFINE new == [mic[s] EXCEPT !.phase = "asked", !.in = open]
  <2>1. /\ new \in Mic /\ new.phase = "asked" /\ new.in = open /\ new.tracks = mic[s].tracks
    BY DEF Mic
  <2>2. mic' = [mic EXCEPT ![s] = new]
    BY DEF Start, Mic
  <2> HIDE DEF new
  <2>3. QED
    BY <2>1, <2>2
<1>5. /\ crossed \subseteq crossed' /\ crossed' \subseteq Starts
      /\ \A t \in Starts : mic[t].phase = "asked" => t \in crossed' /\ s \in crossed'
  BY DEF Start, In
<1>6. \A t \in Starts : mic[t].tracks => t \in crossed
  BY <1>3 DEF Sound, Released
<1>7. Sound(mic', hook', open', crossed')
  <2>1. Released(mic', h, crossed')
    BY <1>4, <1>5, <1>6 DEF Released
  <2>2. Apart(mic', crossed')
    BY <1>4, <1>5, <1>6 DEF Apart, Sound
  <2>3. LostCrossed(mic', crossed') /\ RecordingOpen(mic') /\ Placed(mic')
    BY <1>3, <1>4, <1>5 DEF Sound, LostCrossed, RecordingOpen, Placed
  <2>4. Local(mic', h, open', crossed') /\ Made(mic', h)
    BY <1>1, <1>3, <1>4, <1>5, StartsAreNotNone DEF Sound, Local, Made
  <2>5. QED
    BY <1>2, <2>1, <2>2, <2>3, <2>4 DEF Sound
<1>8. UploadsMade' /\ OwnMeeting'
  BY <1>3, <1>4, <1>5, UploadsStay
<1>9. QED
  BY <1>1, <1>2, <1>3, <1>4, <1>5, <1>7, <1>8

\* The grant of a prompt: Apart has every other open microphone crossed, as it has the
\* prompt itself when it is lost.
LEMMA GrantedKeeps ==
    ASSUME PageInv, NEW s \in Starts, Granted(s)
    PROVE  PageInv'
<1> USE DEF PageInv, PageTypes
<1>1. /\ mic[s].phase \in {"asked", "lost"} /\ UNCHANGED <<open, live, upload, upsets, crossed>>
      /\ mic' \in [Starts -> Mic]
      /\ mic'[s].phase = "recording" /\ mic'[s].tracks /\ mic'[s].in = mic[s].in
      /\ \A t \in Starts : t # s => mic'[t] = mic[t]
  <2> DEFINE new == [mic[s] EXCEPT !.phase = "recording", !.tracks = TRUE]
  <2>1. new \in Mic /\ new.phase = "recording" /\ new.tracks /\ new.in = mic[s].in
    BY DEF Mic
  <2>2. mic' = [mic EXCEPT ![s] = new]
    BY DEF Granted, Mic
  <2> HIDE DEF new
  <2>3. QED
    BY <2>1, <2>2 DEF Granted, In
<1>2. /\ hook' \in Hook /\ saved' \in Assets \cup {None} /\ hook'.recording = hook.recording
      /\ IF mic[s].phase = "asked"
         THEN hook'.state = "recording" /\ hook'.recorder = s /\ hook'.stream = s
         ELSE hook' = hook
  <2>1. CASE mic[s].phase = "asked"
    <3> DEFINE h == [hook EXCEPT !.state = "recording", !.recorder = s, !.stream = s]
    <3>1. /\ h \in Hook /\ h.recording = hook.recording
          /\ h.state = "recording" /\ h.recorder = s /\ h.stream = s
      BY DEF Hook
    <3>2. SetHook(h)
      BY <2>1 DEF Granted, In
    <3> HIDE DEF h
    <3>3. QED
      BY <2>1, <3>1, <3>2, SetHookTyped
  <2>2. CASE mic[s].phase = "lost"
    BY <2>2 DEF Granted, In
  <2>3. QED
    BY <1>1, <2>1, <2>2
<1>3. Sound(mic', hook', open', crossed')
  <2>1. Released(mic', hook', crossed')
    <3>1. CASE mic[s].phase = "asked"
      BY <1>1, <1>2, <3>1 DEF Sound, Released, Apart
    <3>2. CASE mic[s].phase = "lost"
      BY <1>1, <1>2, <3>2 DEF Sound, Released, LostCrossed
    <3>3. QED
      BY <1>1, <3>1, <3>2
  <2>2. Apart(mic', crossed')
    <3>1. ASSUME NEW t \in Starts, NEW u \in Starts, t # u, mic'[t].phase = "asked",
                 mic'[u].phase = "asked" \/ mic'[u].tracks
          PROVE  u \in crossed
      <4>1. t # s /\ mic[t].phase = "asked"
        BY <1>1, <3>1
      <4>2. CASE u = s
        BY <1>1, <3>1, <4>1, <4>2 DEF Sound, Apart, LostCrossed
      <4>3. CASE u # s
        BY <1>1, <3>1, <4>1, <4>3 DEF Sound, Apart
      <4>4. QED
        BY <4>2, <4>3
    <3>2. QED
      BY <1>1, <3>1 DEF Apart
  <2>3. LostCrossed(mic', crossed') /\ RecordingOpen(mic') /\ Placed(mic')
    BY <1>1 DEF Sound, LostCrossed, RecordingOpen, Placed
  <2>4. Local(mic', hook', open', crossed')
    <3>1. s \notin crossed => mic[s].phase = "asked"
      BY <1>1 DEF Sound, LostCrossed
    <3>2. QED
      BY <1>1, <1>2, <3>1 DEF Sound, Local
  <2>5. Made(mic', hook')
    BY <1>1, <1>2 DEF Sound, Made, Hook
  <2>6. QED
    BY <2>1, <2>2, <2>3, <2>4, <2>5 DEF Sound
<1>4. UploadsMade' /\ OwnMeeting'
  <2>1. \A t \in Starts : mic[t].phase # "none" =>
            mic'[t].phase # "none" /\ mic'[t].in = mic[t].in
    BY <1>1
  <2>2. QED
    BY <1>1, <2>1, UploadsStay
<1>5. QED
  BY <1>1, <1>2, <1>3, <1>4

\* A prompt that comes to nothing ends its start, with the page left as it is.
LEMMA EndKeeps ==
    ASSUME PageInv, NEW s \in Starts, mic[s].phase \in {"asked", "lost"},
           NEW mc, mc = [mic EXCEPT ![s].phase = "over"]
    PROVE  /\ mc \in [Starts -> Mic] /\ Sound(mc, hook, open, crossed)
           /\ \A t \in Starts : mc[t].in = mic[t].in /\ (mic[t].phase # "none" => mc[t].phase # "none")
           /\ mic[s].phase = "asked" => Closed(mc, crossed)
<1> USE DEF PageInv, PageTypes
<1> DEFINE new == [mic[s] EXCEPT !.phase = "over"]
<1>1. new \in Mic /\ new.phase = "over" /\ new.tracks = mic[s].tracks /\ new.in = mic[s].in
  BY DEF Mic
<1>2. mc = [mic EXCEPT ![s] = new]
  BY DEF Mic
<1> HIDE DEF new
<1>3. /\ mc \in [Starts -> Mic] /\ mc[s] = new
      /\ \A t \in Starts : t # s => mc[t] = mic[t]
  BY <1>1, <1>2
<1>4. ~mc[s].tracks
  BY <1>1, <1>3 DEF Sound, RecordingOpen
<1>5. Sound(mc, hook, open, crossed)
  <2>1. Released(mc, hook, crossed) /\ Apart(mc, crossed)
    BY <1>1, <1>3, <1>4 DEF Sound, Released, Apart
  <2>2. LostCrossed(mc, crossed) /\ RecordingOpen(mc) /\ Placed(mc)
    BY <1>1, <1>3 DEF Sound, LostCrossed, RecordingOpen, Placed
  <2>3. Local(mc, hook, open, crossed) /\ Made(mc, hook)
    BY <1>1, <1>3 DEF Sound, Local, Made, Hook
  <2>4. QED
    BY <2>1, <2>2, <2>3 DEF Sound
<1>6. mic[s].phase = "asked" => Closed(mc, crossed)
  BY <1>3, <1>4 DEF Sound, Apart, Closed
<1>7. QED
  BY <1>1, <1>3, <1>5, <1>6

\* The catch of start(), whether it closes a stream (mc2 = CleanMic) or finds none.
LEMMA CatchKeeps ==
    ASSUME PageInv, NEW s \in Starts, mic[s].phase = "asked",
           NEW mc, mc = [mic EXCEPT ![s].phase = "over"], Calmer(mc, mic'),
           SetHook(CleanHook([hook EXCEPT !.state = "error"])),
           UNCHANGED <<open, live, upload, crossed>>, upsets' \in 0..MaxUpsets
    PROVE  PageInv'
<1>3. /\ Sound(mc, hook, open, crossed) /\ Closed(mc, crossed)
      /\ \A t \in Starts : mc[t].in = mic[t].in /\ (mic[t].phase # "none" => mc[t].phase # "none")
  BY EndKeeps
<1> USE DEF PageInv, PageTypes
<1> DEFINE h == CleanHook([hook EXCEPT !.state = "error"])
<1>1. h \in Hook /\ h.recording = hook.recording
  BY DEF Hook, CleanHook
<1> HIDE DEF h
<1>2. hook' = h /\ saved' \in Assets \cup {None}
  BY <1>1, SetHookTyped DEF h
<1>4. Released(mic', h, crossed)
  BY <1>3 DEF Closed, Calmer, Released
<1>5. Sound(mic', hook', open', crossed')
  <2>1. /\ Apart(mic', crossed) /\ LostCrossed(mic', crossed) /\ RecordingOpen(mic')
        /\ Placed(mic') /\ Local(mic', h, open, crossed) /\ Made(mic', h)
    BY <1>1, <1>3, CalmerKeeps DEF Sound
  <2>2. QED
    BY <1>2, <1>4, <2>1 DEF Sound
<1>6. UploadsMade' /\ OwnMeeting'
  <2>1. \A t \in Starts : mic[t].phase # "none" =>
            mic'[t].phase # "none" /\ mic'[t].in = mic[t].in
    BY <1>3 DEF Calmer
  <2>2. QED
    BY <2>1, UploadsStay
<1>7. QED
  BY <1>1, <1>2, <1>5, <1>6 DEF Calmer

\* The MediaRecorder throws.
LEMMA RecorderThrowsKeeps ==
    ASSUME PageInv, NEW s \in Starts, RecorderThrows(s)
    PROVE  PageInv'
<1>1. mic[s].phase = "asked" /\ mic' \in [Starts -> Mic]
  BY EndKeeps DEF RecorderThrows, In
<1>2. Calmer(mic', mic')
  BY <1>1 DEF Calmer
<1>3. upsets' \in 0..MaxUpsets
  BY StartsAssumption DEF RecorderThrows, Upset, PageInv, PageTypes
<1>4. QED
  BY <1>1, <1>2, <1>3, CatchKeeps DEF RecorderThrows

\* The microphone is refused, to a page that is there or to one that has gone.
LEMMA DeniedKeeps ==
    ASSUME PageInv, NEW s \in Starts, Denied(s)
    PROVE  PageInv'
<1> DEFINE over == [mic EXCEPT ![s].phase = "over"]
<1>1. /\ UNCHANGED <<open, live, upload, crossed>> /\ upsets' \in 0..MaxUpsets
      /\ mic[s].phase \in {"asked", "lost"}
  BY StartsAssumption DEF Denied, Upset, In, PageInv, PageTypes
<1>2. /\ over \in [Starts -> Mic] /\ Sound(over, hook, open, crossed)
      /\ \A t \in Starts : over[t].in = mic[t].in
                          /\ (mic[t].phase # "none" => over[t].phase # "none")
  BY <1>1, EndKeeps
<1> USE DEF PageInv, PageTypes
<1>3. CASE mic[s].phase = "asked"
  <2>1. /\ mic' = CleanMic(over, hook)
        /\ SetHook(CleanHook([hook EXCEPT !.state = "error"]))
    BY <1>3 DEF Denied, In
  <2> HIDE DEF over
  <2>2. Calmer(over, mic')
    BY <1>2, <2>1, CleanCalms
  <2>3. QED
    BY <1>1, <1>3, <2>1, <2>2, CatchKeeps DEF over
<1>4. CASE mic[s].phase = "lost"
  <2>1. mic' = over /\ UNCHANGED <<hook, saved>>
    BY <1>4 DEF Denied, In
  <2> HIDE DEF over
  <2>2. Sound(mic', hook', open', crossed')
    BY <1>1, <1>2, <2>1 DEF Sound
  <2>3. UploadsMade' /\ OwnMeeting'
    BY <1>1, <1>2, <2>1, UploadsStay
  <2>4. QED
    BY <1>1, <1>2, <2>1, <2>2, <2>3
<1>5. QED
  BY <1>1, <1>3, <1>4

\* stop(), of the button or of the effect.
LEMMA StopRecorderKeeps ==
    ASSUME PageInv, StopRecorder, UNCHANGED <<open, live, upload, upsets, crossed>>
    PROVE  PageInv'
<1>1. /\ Calmer(mic, mic') /\ Released(mic', StoppedHook(mic, hook), crossed)
      /\ StoppedHook(mic, hook) \in Hook
      /\ StoppedHook(mic, hook).recording = hook.recording
  BY StoppedCalms DEF StopRecorder, PageInv, PageTypes, Sound
<1>2. QED
  BY <1>1, CalmStep DEF StopRecorder, PageInv, PageTypes

\* reset(), of its button.
LEMMA PressResetKeeps ==
    ASSUME PageInv, PressReset
    PROVE  PageInv'
<1>1. Calmer(mic, mic') /\ Closed(mic', crossed)
  BY ResetCalms DEF PressReset, PageInv, PageTypes, Sound
<1>2. Released(mic', FreshHook, crossed)
  BY <1>1 DEF Closed, Released
<1>3. QED
  BY <1>1, <1>2, FreshHookIsHook, CalmStep DEF PressReset, PageInv, PageTypes

\* onstop: the recording it makes is of the open meeting, or of a start that was crossed.
LEMMA RecorderStopsKeeps ==
    ASSUME PageInv, NEW s \in Starts, RecorderStops(s)
    PROVE  PageInv'
<1> USE DEF PageInv, PageTypes
<1> DEFINE mc == [mic EXCEPT ![s].phase = "over"]
           ready == CleanHook([hook EXCEPT !.state = "ready", !.recording = s])
           failed == CleanHook([hook EXCEPT !.state = "error"])
<1>1. /\ mic[s].phase = "stopping" /\ mic' = CleanMic(mc, hook)
      /\ SetHook(ready) \/ SetHook(failed)
      /\ UNCHANGED <<open, live, upload, upsets, crossed>>
  BY DEF RecorderStops, In
<1>2. /\ ready \in Hook /\ ready.recording = s
      /\ failed \in Hook /\ failed.recording = hook.recording
  BY DEF Hook, CleanHook
<1>3. Calmer(mic, mc) /\ mc \in [Starts -> Mic] /\ Released(mc, hook, crossed)
  <2> DEFINE new == [mic[s] EXCEPT !.phase = "over"]
  <2>1. new \in Mic /\ new.phase = "over" /\ new.tracks = mic[s].tracks /\ new.in = mic[s].in
    BY DEF Mic
  <2>2. mc = [mic EXCEPT ![s] = new]
    BY DEF Mic
  <2> HIDE DEF new, mc
  <2>3. Calmer(mic, mc)
    BY <1>1, <2>1, <2>2 DEF Calmer
  <2>4. QED
    BY <2>3 DEF Calmer, Sound, Released
<1> HIDE DEF mc, ready, failed
<1>4. Calmer(mic, mic') /\ Closed(mic', crossed)
  BY <1>1, <1>3, CleanCalms, CalmerChains
<1>5. CASE SetHook(failed)
  <2>1. Released(mic', failed, crossed)
    BY <1>4 DEF Closed, Released
  <2>2. QED
    BY <1>1, <1>2, <1>4, <1>5, <2>1, CalmStep
<1>6. CASE SetHook(ready)
  <2>1. hook' = ready /\ saved' \in Assets \cup {None}
    BY <1>2, <1>6, SetHookTyped
  <2>2. /\ Apart(mic', crossed) /\ LostCrossed(mic', crossed) /\ RecordingOpen(mic')
        /\ Placed(mic') /\ Local(mic', hook, open, crossed)
    BY <1>4, CalmerKeeps DEF Sound
  <2>3. Released(mic', ready, crossed)
    BY <1>4 DEF Closed, Released
  <2>4. mic'[s].phase # "none" /\ (s \notin crossed => mic'[s].in = open)
    BY <1>1, <1>4 DEF Calmer, Sound, Local
  <2>5. Local(mic', ready, open, crossed) /\ Made(mic', ready)
    BY <1>2, <2>2, <2>4 DEF Local, Made
  <2>6. UploadsMade' /\ OwnMeeting'
    <3>1. \A t \in Starts : mic[t].phase # "none" =>
              mic'[t].phase # "none" /\ mic'[t].in = mic[t].in
      BY <1>4 DEF Calmer
    <3>2. QED
      BY <1>1, <3>1, UploadsStay
  <2>7. QED
    BY <1>1, <1>2, <1>4, <2>1, <2>2, <2>3, <2>5, <2>6 DEF Sound, Calmer
<1>7. QED
  BY <1>1, <1>5, <1>6

\* saveRecordingToMeeting: the recording of the page goes to the meeting that is open,
\* and keeps both.
LEMMA SavingKeeps ==
    ASSUME PageInv, NEW a \in Assets,
           Save(a) \/ Stored(a) \/ SaveAnswered(a) \/ JobAsked(a) \/ SaveFails(a)
    PROVE  PageInv'
<1>1. /\ UNCHANGED <<open, live, hook, mic, crossed>> /\ upsets' \in 0..MaxUpsets
      /\ saved' \in Assets \cup {None}
  BY StartsAssumption
     DEF Save, Stored, SaveAnswered, JobAsked, SaveFails, Upset, PageInv, PageTypes
<1>2. ASSUME NEW phase \in {"stored", "asking", "over"}, Goes(a, phase)
      PROVE  PageInv'
  <2> DEFINE u == [upload[a] EXCEPT !.phase = phase]
  <2>1. u \in Upload /\ u.from = upload[a].from /\ u.to = upload[a].to
    BY DEF PageInv, PageTypes, Upload
  <2>2. upload' = [upload EXCEPT ![a] = u]
    BY <1>2 DEF Goes, PageInv, PageTypes, Upload
  <2> HIDE DEF u
  <2>3. QED
    BY <1>1, <2>1, <2>2, UploadStep
<1>3. CASE Save(a)
  <2> DEFINE u == [phase |-> "sent", from |-> hook.recording, to |-> open, here |-> TRUE]
  <2>1. /\ u \in Upload /\ u.from = hook.recording /\ u.to = open /\ hook.recording # None
        /\ upload' = [upload EXCEPT ![a] = u]
    BY <1>3 DEF Save, PageInv, PageTypes, Hook, Upload
  <2> HIDE DEF u
  <2>2. QED
    BY <1>1, <2>1, UploadStep
<1>4. QED
  BY <1>2, <1>3 DEF Stored, SaveAnswered, JobAsked, SaveFails

\* Meetings that begin or end, the server, and steps of nobody.
LEMMA ElsewhereKeeps ==
    ASSUME PageInv, live' \subseteq Meetings, upsets' \in 0..MaxUpsets,
           UNCHANGED <<open, hook, mic, upload, saved, crossed>>
    PROVE  PageInv'
<1>1. PageTypes'
  BY DEF PageInv, PageTypes
<1>2. Sound(mic, hook, open, crossed)' /\ UploadsMade' /\ OwnMeeting'
  BY DEF PageInv, Sound, Released, Apart, LostCrossed, RecordingOpen, Placed, Local, Made,
         UploadsMade, OwnMeeting
<1>3. QED
  BY <1>1, <1>2 DEF PageInv

\* The steps, action by action.
LEMMA PageStep == PageInv /\ [Next]_vars => PageInv'
<1> SUFFICES ASSUME PageInv, [Next]_vars PROVE PageInv'
  OBVIOUS
<1>1. ASSUME NEW m \in Meetings, OpenMeeting(m) PROVE PageInv'
  BY <1>1, OpenMeetingKeeps
<1>2. ASSUME NEW m \in Meetings, StartMeeting(m) \/ StopMeeting(m) PROVE PageInv'
  <2>1. /\ live' \subseteq Meetings /\ upsets' \in 0..MaxUpsets
        /\ UNCHANGED <<open, hook, mic, upload, saved, crossed>>
    BY <1>2, StartsAssumption DEF StartMeeting, StopMeeting, Upset, PageInv, PageTypes
  <2>2. QED
    BY <2>1, ElsewhereKeeps
<1>3. CASE LeavePage
  BY <1>3, LeavePageKeeps
<1>4. ASSUME NEW s \in Starts,
             Start(s) \/ Granted(s) \/ RecorderThrows(s) \/ Denied(s) \/ RecorderStops(s)
      PROVE  PageInv'
  BY <1>4, StartKeeps, GrantedKeeps, RecorderThrowsKeeps, DeniedKeeps, RecorderStopsKeeps
<1>5. CASE PressStop \/ StopEffect
  BY <1>5, StopRecorderKeeps DEF PressStop, StopEffect
<1>6. CASE PressReset
  BY <1>6, PressResetKeeps
<1>7. ASSUME NEW a \in Assets,
             Save(a) \/ Stored(a) \/ SaveAnswered(a) \/ JobAsked(a) \/ SaveFails(a)
      PROVE  PageInv'
  BY <1>7, SavingKeeps
<1>8. CASE Server \/ UNCHANGED vars
  BY <1>8, ElsewhereKeeps DEF Server, page, vars, PageInv, PageTypes
<1>9. QED
  BY <1>1, <1>2, <1>3, <1>4, <1>5, <1>6, <1>7, <1>8 DEF Next

\* The start.
LEMMA PageStart == Init => PageInv
<1> SUFFICES ASSUME Init PROVE PageInv
  OBVIOUS
<1>1. PageTypes
  BY StartsAssumption, FreshHookIsHook DEF Init, PageTypes, Mic, Upload
<1>2. Sound(mic, hook, open, crossed)
  BY FreshHookIsHook, StartsAreNotNone
     DEF Init, Sound, Released, Apart, LostCrossed, RecordingOpen, Placed, Local, Made
<1>3. UploadsMade /\ OwnMeeting
  BY DEF Init, UploadsMade, OwnMeeting
<1>4. QED
  BY <1>1, <1>2, <1>3 DEF PageInv

-------------------------------------------------------------------------------
(* The theorems. *)

\* The server side of every behaviour is one of MeetingASR: the page is one of the
\* clients that MeetingASR allows.
THEOREM ServerBehaves == Spec => ASRSpec
<1>1. Init => ASRInit
  BY DEF Init
<1>2. [Next]_vars => [ASRNext]_asrVars
  <2> SUFFICES ASSUME [Next]_vars PROVE [ASRNext]_asrVars
    OBVIOUS
  <2>1. ASSUME NEW a \in Assets, Stored(a) \/ JobAsked(a) PROVE [ASRNext]_asrVars
    BY <2>1 DEF Stored, JobAsked, ASRNext
  <2>2. CASE Server
    BY <2>2 DEF Server, ASRNext
  <2>3. ASSUME NEW a \in Assets, Save(a) \/ SaveAnswered(a) \/ SaveFails(a)
        PROVE  UNCHANGED asrVars
    BY <2>3 DEF Save, SaveAnswered, SaveFails
  <2>4. ASSUME NEW s \in Starts,
               Start(s) \/ Granted(s) \/ RecorderThrows(s) \/ Denied(s) \/ RecorderStops(s)
        PROVE  UNCHANGED asrVars
    BY <2>4 DEF Start, Granted, RecorderThrows, Denied, RecorderStops
  <2>5. ASSUME NEW m \in Meetings, OpenMeeting(m) \/ StartMeeting(m) \/ StopMeeting(m)
        PROVE  UNCHANGED asrVars
    BY <2>5 DEF OpenMeeting, StartMeeting, StopMeeting
  <2>6. CASE LeavePage \/ PressStop \/ StopEffect \/ PressReset
    BY <2>6 DEF LeavePage, PressStop, StopEffect, PressReset
  <2>7. CASE UNCHANGED vars
    BY <2>7 DEF vars
  <2>8. QED
    BY <2>1, <2>2, <2>3, <2>4, <2>5, <2>6, <2>7 DEF Next
<1>3. QED
  BY <1>1, <1>2, PTL DEF Spec, ASRSpec

\* The inductive invariant of the page.
THEOREM PageInvariant == Spec => []PageInv
  BY PageStart, PageStep, PTL DEF Spec

\* The types of the page and, from MeetingASR, of the server.
THEOREM TypesAlways == Spec => []TypeOK
<1>1. PageInv /\ ASRInv => TypeOK
  BY DEF PageInv, PageTypes, ASRInv, TypeOK
<1>2. QED
  BY <1>1, PageInvariant, ServerBehaves, ASRInvariant, PTL

\* An open microphone is in the refs of a page that says it records, for any number of
\* starts, unless another start or the end of its page crossed it.
THEOREM MicReleasedAlways == Spec => []MicReleased
<1>1. PageInv => MicReleased
  BY DEF PageInv, Sound, Released, MicReleased
<1>2. QED
  BY <1>1, PageInvariant, PTL

\* A recording is stored in the meeting it was made in, with the same exception.
THEOREM OwnMeetingAlways == Spec => []OwnMeeting
<1>1. PageInv => OwnMeeting
  BY DEF PageInv
<1>2. QED
  BY <1>1, PageInvariant, PTL
===============================================================================
