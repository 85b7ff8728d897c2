-------------------------- MODULE DesktopDaemonProofs --------------------------
(***************************************************************************)
(* Theorems about the daemon manager: its types, and that the guard of the *)
(* buttons (operationInProgress) is taken exactly while an operation of    *)
(* the buttons is under way, whatever the other actors do meanwhile.       *)
(***************************************************************************)
EXTENDS DesktopDaemon, TLAPS

\* withGuard: the guard is never left behind by an operation that returned
\* early, failed or was forgotten by a relaunch, and never dropped under one that
\* still runs; the buttons only ever start and stop, they check no versions.
GuardIsTheButtons ==
    /\ guard <=> ~At("button", "idle")
    /\ job["button"].step \in {"idle", "start", "spawn", "stop", "kill"}

Counters == [requests : 0..MaxRequests, faults : 0..MaxFaults, tasks : 0..MaxTasks]

-------------------------------------------------------------------------------
(* Types. *)

\* The counters stay within their bounds.
LEMMA SpendType ==
    ASSUME TypeOK,
           \/ Spend("requests", MaxRequests) \/ Spend("faults", MaxFaults)
           \/ Spend("tasks", MaxTasks)
    PROVE  spent' \in Counters
<1>1. {MaxRequests, MaxFaults, MaxTasks} \subseteq Nat /\ spent \in Counters
  BY BoundsAssumption DEF TypeOK, Counters
<1>2. CASE Spend("requests", MaxRequests)
  BY <1>1, <1>2 DEF Spend, Counters
<1>3. CASE Spend("faults", MaxFaults)
  BY <1>1, <1>3 DEF Spend, Counters
<1>4. CASE Spend("tasks", MaxTasks)
  BY <1>1, <1>4 DEF Spend, Counters
<1> QED
  BY <1>2, <1>3, <1>4

\* The jobs the steps write: the ones a request begins with, and a field changed.
LEMMA Jobs ==
    /\ Idle \in Job /\ Restart \in Job
    /\ \A s \in Steps, again \in BOOLEAN :
          [Idle EXCEPT !.step = s, !.again = again] \in Job
    /\ \A s \in Steps : [Idle EXCEPT !.step = s] \in Job
    /\ \A j \in Job, s \in Steps : [j EXCEPT !.step = s] \in Job
    /\ \A j \in Job, s \in Steps : [j EXCEPT !.step = s, !.again = FALSE] \in Job
    /\ \A j \in Job, s \in Steps, h \in Health :
          [j EXCEPT !.step = s, !.saw = h] \in Job
  BY DEF Job, Idle, Restart, Steps, Health

\* No process.
LEMMA DownType == Down \in [up : BOOLEAN, outdated : BOOLEAN, busy : BOOLEAN]
  BY DEF Down

\* An actor's next step, and the end of its work.
LEMMA GoesType ==
    ASSUME TypeOK, NEW a \in Actors
    PROVE  /\ \A s \in Steps : Goes(a, s) => job' \in [Actors -> Job]
           /\ Settles(a) => job' \in [Actors -> Job] /\ guard' \in BOOLEAN
<1>1. job \in [Actors -> Job] /\ job[a] \in Job /\ guard \in BOOLEAN
  BY DEF TypeOK
<1>2. ASSUME NEW s \in Steps, Goes(a, s)
      PROVE  job' \in [Actors -> Job]
  <2>1. [job[a] EXCEPT !.step = s] \in Job
    BY <1>1, Jobs
  <2> QED
    BY <1>1, <1>2, <2>1 DEF Goes
<1>3. Settles(a) => job' \in [Actors -> Job] /\ guard' \in BOOLEAN
  BY <1>1, Jobs DEF Settles
<1> QED
  BY <1>2, <1>3

\* What is shown, and the row the bridge writes.
LEMMA ShowsType ==
    ASSUME TypeOK, NEW s \in States, Shows(s)
    PROVE  shown' \in States /\ row' \in {"online", "offline"}
  BY DEF Shows, Bridged, TypeOK

\* The steps of the actors keep the types.
LEMMA OperatesType ==
    ASSUME TypeOK, NEW a \in Actors, Operates(a)
    PROVE  TypeOK'
<1>1. job \in [Actors -> Job] /\ job[a] \in Job
  BY DEF TypeOK
<1>2. {"starting", "stopping", "stopped"} \subseteq States
  BY DEF States
<1>3. {"spawn", "kill", "start", "decide"} \subseteq Steps
  BY DEF Steps
<1>4. CASE StartChecks(a)
  BY <1>2, <1>3, <1>4, GoesType, ShowsType DEF StartChecks, TypeOK
<1>5. CASE Spawns(a)
  <2>1. job' \in [Actors -> Job] /\ guard' \in BOOLEAN
    BY <1>5, GoesType DEF Spawns
  <2>2. shown' \in States /\ row' \in {"online", "offline"} /\ booting' \in BOOLEAN
    BY <1>2, <1>5, ShowsType DEF Spawns, TypeOK
  <2>3. spent' \in Counters
    BY <1>5, SpendType DEF Spawns, TypeOK, Counters
  <2> QED
    BY <1>5, <2>1, <2>2, <2>3 DEF Spawns, TypeOK, Counters
<1>6. CASE StopBegins(a)
  BY <1>2, <1>3, <1>6, GoesType, ShowsType DEF StopBegins, TypeOK
<1>7. CASE Kills(a)
  <2>1. shown' \in States /\ row' \in {"online", "offline"}
    BY <1>2, <1>7, ShowsType DEF Kills
  <2>2. job' \in [Actors -> Job] /\ guard' \in BOOLEAN
    <3>1. [job[a] EXCEPT !.step = "start", !.again = FALSE] \in Job
      BY <1>1, <1>3, Jobs
    <3>2. CASE /\ job' = [job EXCEPT ![a].step = "start", ![a].again = FALSE]
               /\ UNCHANGED guard
      BY <1>1, <3>1, <3>2 DEF TypeOK
    <3>3. CASE Settles(a)
      BY <3>3, GoesType
    <3> QED
      BY <1>7, <3>2, <3>3 DEF Kills
  <2>3. spent' \in Counters
    BY <1>7, SpendType DEF Kills, TypeOK, Counters
  <2>4. daemon' \in [up : BOOLEAN, outdated : BOOLEAN, busy : BOOLEAN]
    <3>1. daemon' = Down \/ daemon' = daemon
      BY <1>7 DEF Kills
    <3> QED
      BY <3>1, DownType DEF TypeOK
  <2> QED
    BY <1>7, <2>1, <2>2, <2>3, <2>4 DEF Kills, TypeOK, Counters
<1>8. CASE VersionReads(a)
  <2>1. HealthOf(daemon) \in Health
    BY DEF HealthOf, Health
  <2>2. [job[a] EXCEPT !.step = "decide", !.saw = HealthOf(daemon)] \in Job
    BY <1>1, <1>3, <2>1, Jobs
  <2>3. job' \in [Actors -> Job]
    BY <1>1, <1>8, <2>2 DEF VersionReads
  <2> QED
    BY <1>8, <2>3 DEF VersionReads, TypeOK
<1>9. CASE VersionDecides(a)
  <2>1. job' \in [Actors -> Job]
    BY <1>1, <1>9, Jobs DEF VersionDecides
  <2>2. pending' \in BOOLEAN
    BY <1>9 DEF VersionDecides
  <2> QED
    BY <1>9, <2>1, <2>2 DEF VersionDecides, TypeOK
<1> QED
  BY <1>4, <1>5, <1>6, <1>7, <1>8, <1>9 DEF Operates

\* The buttons.
LEMMA PressType ==
    ASSUME TypeOK, PressStart \/ PressStop \/ PressRestart
    PROVE  TypeOK'
<1>1. PICK step \in {"start", "stop"}, again \in BOOLEAN : Press(step, again)
  BY DEF PressStart, PressStop, PressRestart
<1>2. spent' \in Counters
  BY <1>1, SpendType DEF Press
<1>3. [Idle EXCEPT !.step = step, !.again = again] \in Job
  BY Jobs DEF Steps
<1>4. job' \in [Actors -> Job]
  BY <1>1, <1>3 DEF Press, TypeOK, Actors
<1> QED
  BY <1>1, <1>2, <1>4 DEF Press, TypeOK, Counters

\* A sign-in and the auto-start behind it.
LEMMA SignInType ==
    ASSUME TypeOK, SignIn \/ AutoStarts
    PROVE  TypeOK'
<1>1. job \in [Actors -> Job] /\ {"autostart", "rotate"} \subseteq Actors
  BY DEF TypeOK, Actors
<1>2. CASE SignIn
  <2>1. spent' \in Counters
    BY <1>2, SpendType DEF SignIn
  <2>2. PICK switched \in BOOLEAN :
            job' = [job EXCEPT !["autostart"].step = "autostart",
                               !["rotate"] = IF switched /\ daemon.up THEN Restart ELSE @]
    BY <1>2 DEF SignIn
  <2>3. [job["autostart"] EXCEPT !.step = "autostart"] \in Job
    BY <1>1, Jobs DEF Steps
  <2>4. job' \in [Actors -> Job]
    BY <1>1, <2>2, <2>3, Jobs
  <2> QED
    BY <1>2, <2>1, <2>4 DEF SignIn, TypeOK, Counters
<1>3. CASE AutoStarts
  <2>1. \A s \in {"version", "start"} : [Idle EXCEPT !.step = s] \in Job
    BY Jobs DEF Steps
  <2>2. job' \in [Actors -> Job]
    BY <1>1, <1>3, <2>1, Jobs DEF AutoStarts
  <2> QED
    BY <1>3, <2>2 DEF AutoStarts, TypeOK
<1> QED
  BY <1>2, <1>3

\* The daemon's process, its tasks, a relaunch.
LEMMA DaemonType ==
    ASSUME TypeOK,
           \/ Boots \/ DaemonDies \/ TaskStarts \/ TaskEnds \/ ServerSweeps \/ Relaunch
    PROVE  TypeOK'
<1>1. daemon \in [up : BOOLEAN, outdated : BOOLEAN, busy : BOOLEAN]
  BY DEF TypeOK
<1>2. CASE Boots
  BY <1>1, <1>2 DEF Boots, Down, TypeOK
<1>3. CASE DaemonDies
  <2>1. spent' \in Counters
    BY <1>3, SpendType DEF DaemonDies
  <2> QED
    BY <1>3, <2>1 DEF DaemonDies, Down, TypeOK, Counters
<1>4. CASE TaskStarts
  <2>1. spent' \in Counters
    BY <1>4, SpendType DEF TaskStarts
  <2> QED
    BY <1>1, <1>4, <2>1 DEF TaskStarts, TypeOK, Counters
<1>5. CASE TaskEnds
  BY <1>1, <1>5 DEF TaskEnds, TypeOK
<1>6. CASE ServerSweeps
  BY <1>6 DEF ServerSweeps, TypeOK
<1>7. CASE Relaunch
  <2>1. spent' \in Counters
    BY <1>7, SpendType DEF Relaunch
  <2>2. job' \in [Actors -> Job]
    BY <1>7, Jobs DEF Relaunch
  <2>4. daemon' \in [up : BOOLEAN, outdated : BOOLEAN, busy : BOOLEAN]
    BY <1>1, <1>7, DownType DEF Relaunch
  <2>3. row' \in {"online", "offline"} /\ shown' \in States
    BY <1>7 DEF Relaunch, States, SetupStates, TypeOK
  <2> QED
    BY <1>7, <2>1, <2>2, <2>3, <2>4 DEF Relaunch, TypeOK, Counters
<1> QED
  BY <1>2, <1>3, <1>4, <1>5, <1>6, <1>7

\* The CLI and the polls.
LEMMA PollType ==
    ASSUME TypeOK, CliFound \/ CliMissing \/ RetryInstall \/ Probe \/ PollAnswers
    PROVE  TypeOK'
<1>1. {"stopped", "running", "starting", "cli_not_found"} \subseteq States
  BY DEF States, SetupStates
<1>2. CASE CliFound
  BY <1>1, <1>2, ShowsType DEF CliFound, TypeOK
<1>3. CASE CliMissing
  <2>1. spent' \in Counters
    BY <1>3, SpendType DEF CliMissing
  <2> QED
    BY <1>1, <1>3, <2>1, ShowsType DEF CliMissing, TypeOK, Counters
<1>4. CASE RetryInstall
  <2>1. spent' \in Counters
    BY <1>4, SpendType DEF RetryInstall
  <2> QED
    BY <1>4, <2>1 DEF RetryInstall, TypeOK, Counters
<1>5. CASE Probe
  BY <1>5 DEF Probe, TypeOK
<1>6. CASE PollAnswers
  <2>1. shown' \in States /\ row' \in {"online", "offline"}
    BY <1>1, <1>6, ShowsType DEF PollAnswers
  <2>2. [job["version"] EXCEPT !.step = "version"] \in Job
    BY Jobs DEF TypeOK, Actors, Steps
  <2>3. job' \in [Actors -> Job]
    BY <1>6, <2>2 DEF PollAnswers, TypeOK
  <2> QED
    BY <1>6, <2>1, <2>3 DEF PollAnswers, TypeOK
<1> QED
  BY <1>2, <1>3, <1>4, <1>5, <1>6

\* Every reachable state of the daemon manager is well typed.
THEOREM TypesAlways == Spec => []TypeOK
<1>1. Init => TypeOK
  <2> SUFFICES ASSUME Init PROVE TypeOK
    OBVIOUS
  <2>1. daemon \in [up : BOOLEAN, outdated : BOOLEAN, busy : BOOLEAN]
    <3>1. [up |-> TRUE, outdated |-> TRUE, busy |-> FALSE]
             \in [up : BOOLEAN, outdated : BOOLEAN, busy : BOOLEAN]
      OBVIOUS
    <3> QED
      BY <3>1, DownType DEF Init
  <2>2. job \in [Actors -> Job]
    BY Jobs DEF Init
  <2>3. spent \in Counters
    BY BoundsAssumption DEF Init, Counters
  <2>4. shown \in States
    BY DEF Init, States, SetupStates
  <2> QED
    BY <2>1, <2>2, <2>3, <2>4 DEF Init, TypeOK, Counters
<1>2. TypeOK /\ [Next]_vars => TypeOK'
  <2> SUFFICES ASSUME TypeOK, [Next]_vars PROVE TypeOK'
    OBVIOUS
  <2>1. CASE UNCHANGED vars
    BY <2>1 DEF vars, TypeOK
  <2>2. CASE Next
    BY <2>2, OperatesType, PressType, SignInType, DaemonType, PollType DEF Next
  <2> QED
    BY <2>1, <2>2
<1> QED
  BY <1>1, <1>2, PTL DEF Spec

-------------------------------------------------------------------------------
(* The guard. *)

\* The operations of the buttons carry the guard to their end; those of the other
\* actors leave it alone.
LEMMA OperatesGuard ==
    ASSUME TypeOK, GuardIsTheButtons, NEW a \in Actors, Operates(a)
    PROVE  GuardIsTheButtons'
<1>1. job \in [Actors -> Job] /\ "button" \in Actors
  BY DEF TypeOK, Actors
<1>2. CASE a # "button"
  <2>1. job'["button"] = job["button"] /\ guard' = guard
    BY <1>1, <1>2 DEF Operates, StartChecks, Spawns, StopBegins, Kills, VersionReads,
                      VersionDecides, Goes, Settles, TypeOK
  <2> QED
    BY <2>1 DEF GuardIsTheButtons, At
<1>3. CASE a = "button"
  <2>1. ~At(a, "idle") /\ guard
    BY <1>3 DEF Operates, StartChecks, Spawns, StopBegins, Kills, VersionReads,
                VersionDecides, At, GuardIsTheButtons
  <2>2. \/ Settles(a)
        \/ guard' = guard /\ job'[a].step \in {"spawn", "kill", "start"}
    <3>1. job[a] \in Job
      BY <1>1
    <3> QED
      BY <1>1, <1>3, <3>1
      DEF Operates, StartChecks, Spawns, StopBegins, Kills, VersionReads, VersionDecides,
          Goes, At, GuardIsTheButtons, Job
  <2>3. CASE Settles(a)
    BY <1>1, <1>3, <2>3 DEF Settles, Idle, At, GuardIsTheButtons
  <2> QED
    BY <1>3, <2>1, <2>2, <2>3 DEF At, GuardIsTheButtons
<1> QED
  BY <1>2, <1>3

\* In every reachable state the guard says whether a button's operation runs.
THEOREM GuardAlways == Spec => []GuardIsTheButtons
<1>1. Init => GuardIsTheButtons
  BY DEF Init, GuardIsTheButtons, At, Idle, Actors
<1>2. TypeOK /\ GuardIsTheButtons /\ [Next]_vars => GuardIsTheButtons'
  <2> SUFFICES ASSUME TypeOK, GuardIsTheButtons, [Next]_vars PROVE GuardIsTheButtons'
    OBVIOUS
  <2>1. job \in [Actors -> Job]
    BY DEF TypeOK
  <2>2. CASE \E a \in Actors : Operates(a)
    BY <2>2, OperatesGuard
  <2>3. CASE PressStart \/ PressStop \/ PressRestart
    BY <2>1, <2>3 DEF PressStart, PressStop, PressRestart, Press, Idle, At, Actors,
                      GuardIsTheButtons
  <2>4. CASE Relaunch
    BY <2>4 DEF Relaunch, Idle, At, Actors, GuardIsTheButtons
  <2>5. CASE SignIn \/ AutoStarts \/ PollAnswers
    <3>1. job'["button"] = job["button"] /\ guard' = guard
      <4>1. CASE SignIn
        <5>1. PICK switched \in BOOLEAN :
                job' = [job EXCEPT !["autostart"].step = "autostart",
                                   !["rotate"] = IF switched /\ daemon.up
                                                 THEN Restart ELSE @]
          BY <4>1 DEF SignIn
        <5> QED
          BY <2>1, <4>1, <5>1 DEF SignIn, Actors
      <4>2. CASE AutoStarts
        BY <2>1, <4>2 DEF AutoStarts, Actors
      <4>3. CASE PollAnswers
        BY <2>1, <4>3 DEF PollAnswers, Actors
      <4> QED
        BY <2>5, <4>1, <4>2, <4>3
    <3> QED
      BY <3>1 DEF GuardIsTheButtons, At
  <2>6. CASE UNCHANGED <<job, guard>>
    BY <2>6 DEF GuardIsTheButtons, At
  <2> QED
    BY <2>2, <2>3, <2>4, <2>5, <2>6
    DEF Next, vars, CliFound, CliMissing, RetryInstall, Probe, Boots, DaemonDies,
        TaskStarts, TaskEnds, ServerSweeps
<1> QED
  BY <1>1, <1>2, TypesAlways, PTL DEF Spec
===============================================================================
