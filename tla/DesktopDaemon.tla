----------------------------- MODULE DesktopDaemon -----------------------------
(***************************************************************************)
(* The desktop app and the local daemon it looks after                     *)
(* (apps/desktop/src/main/daemon-manager.ts): the CLI it resolves or       *)
(* installs, the operations it runs through that CLI, the health polls that *)
(* tell the renderer its state, the restart it owes a daemon of an older    *)
(* version, and the bridge that copies the state into the renderer's query *)
(* cache (platform/daemon-ipc-bridge.ts).                                   *)
(*                                                                         *)
(* Every async function is an actor that goes from await to await; what it *)
(* runs between two awaits is one step.  Only what comes in through the    *)
(* buttons takes the guard.                                                 *)
(***************************************************************************)
EXTENDS Naturals

CONSTANTS
    MaxRequests,    \* bound on what the user does: sign in, press, relaunch
    MaxFaults,      \* bound on commands that fail, on crashes of the daemon
    MaxTasks        \* bound on the tasks the daemon takes

VARIABLES
    daemon,      \* the process on the health port
    booting,     \* a daemon has been spawned and does not listen yet
    cli,         \* cachedCliBinary: being resolved, found, or null
    shown,       \* currentState
    guard,       \* operationInProgress
    pending,     \* pendingVersionRestart
    probes,      \* answers of /health that a poll has and has not handled yet
    job,         \* what each actor is about to do
    row,         \* the runtime's status in the renderer's query cache
    spent        \* counters of the bounds

vars == <<daemon, booting, cli, shown, guard, pending, probes, job, row, spent>>

\* The guarded buttons (and the stop of a logout), auto-start, the restart after
\* a switch of users, and the version check of a poll.
Actors == {"button", "autostart", "rotate", "version"}

ASSUME BoundsAssumption == {MaxRequests, MaxFaults, MaxTasks} \subseteq Nat

-------------------------------------------------------------------------------
SetupStates == {"installing_cli", "cli_not_found"}
States == SetupStates \cup {"stopped", "starting", "running", "stopping"}

\* A job keeps what it read before an await, a /health answer, and whether its
\* stop is the first half of a restart.
Steps == {"idle", "start", "spawn", "stop", "kill", "autostart", "version", "decide"}
Health == {"none", "current", "outdated", "busy"}
Job == [step : Steps, again : BOOLEAN, saw : Health]
Idle == [step |-> "idle", again |-> FALSE, saw |-> "none"]
Restart == [Idle EXCEPT !.step = "stop", !.again = TRUE]

TypeOK ==
    /\ daemon \in [up : BOOLEAN, outdated : BOOLEAN, busy : BOOLEAN]
    /\ {booting, guard, pending} \subseteq BOOLEAN
    /\ cli \in {"resolving", "found", "null"}
    /\ shown \in States
    /\ probes \subseteq {"running", "down"}
    /\ job \in [Actors -> Job]
    /\ row \in {"online", "offline"}
    /\ spent \in [requests : 0..MaxRequests, faults : 0..MaxFaults, tasks : 0..MaxTasks]

Down == [up |-> FALSE, outdated |-> FALSE, busy |-> FALSE]

\* A launch, perhaps after an update, with the daemon of the last version running.
Init ==
    /\ daemon \in {Down, [up |-> TRUE, outdated |-> TRUE, busy |-> FALSE]}
    /\ booting = FALSE
    /\ cli = "resolving" /\ shown = "installing_cli"
    /\ guard = FALSE /\ pending = FALSE /\ probes = {}
    /\ job = [a \in Actors |-> Idle]
    /\ row = IF daemon.up THEN "online" ELSE "offline"
    /\ spent = [requests |-> 0, faults |-> 0, tasks |-> 0]

Spend(counter, max) == /\ spent[counter] < max
                       /\ spent' = [spent EXCEPT ![counter] = @ + 1]

-------------------------------------------------------------------------------
(* What several steps do. *)

At(a, step) == job[a].step = step
Goes(a, step) == job' = [job EXCEPT ![a].step = step]

\* The promise settles; the finally of withGuard releases the button's guard.
Settles(a) == /\ job' = [job EXCEPT ![a] = Idle]
              /\ guard' = (guard /\ a # "button")

\* The payload of a running daemon is the only one that carries its daemonId,
\* and useDaemonIPCBridge ignores the others.
Bridged(state) == IF state = "running" THEN "online" ELSE row

Shows(state) == /\ shown' = state
                /\ row' = Bridged(state)

\* Mutant of HealthOf: the status field is handed on as it is.
HealthRaw(d) == IF d.up THEN "running" ELSE "none"

\* /health, as decideVersionAction reads it.
HealthOf(d) == IF ~d.up THEN "none"
               ELSE IF ~d.outdated THEN "current"
               ELSE IF d.busy THEN "busy" ELSE "outdated"

-------------------------------------------------------------------------------
(* The CLI: resolveCliBinary and the bootstrap that waits for it. *)

\* An install that fails counts as a fault; the bundled binary makes it rare.
CliFound ==
    /\ cli = "resolving"
    /\ cli' = "found"
    /\ Shows("stopped")
    /\ UNCHANGED <<daemon, booting, guard, pending, probes, job,
                   spent>>

CliMissing ==
    /\ cli = "resolving"
    /\ Spend("faults", MaxFaults)
    /\ cli' = "null"
    /\ Shows("cli_not_found")
    /\ UNCHANGED <<daemon, booting, guard, pending, probes, job>>

\* daemon:retry-install, offered while the CLI is missing.  The state stays.
RetryInstall ==
    /\ shown = "cli_not_found" /\ cli = "null"
    /\ Spend("requests", MaxRequests)
    /\ cli' = "resolving"
    /\ UNCHANGED <<daemon, booting, shown, guard, pending, probes,
                   job, row>>

-------------------------------------------------------------------------------
(* startDaemon, stopDaemon, restartDaemon, by whichever actor. *)

\* The CLI is waited for, /health asked: a running daemon is good enough.
StartChecks(a) ==
    /\ At(a, "start") /\ cli # "resolving"
    /\ IF cli = "null" \/ daemon.up
       THEN Settles(a) /\ UNCHANGED <<shown, row>>
       ELSE Goes(a, "spawn") /\ Shows("starting") /\ UNCHANGED guard
    /\ UNCHANGED <<daemon, booting, cli, pending, probes, spent>>

\* `daemon start`: it fails on a running daemon, and a child reads config.json.
Spawns(a) ==
    /\ At(a, "spawn")
    /\ Settles(a)
    /\ \/ /\ daemon.up
          /\ Shows("stopped")
          /\ UNCHANGED <<booting, spent>>
       \/ /\ ~daemon.up
          /\ booting' = TRUE
          /\ UNCHANGED <<shown, row, spent>>
       \/ /\ ~daemon.up
          /\ Spend("faults", MaxFaults)
          /\ Shows("stopped")
          /\ UNCHANGED booting
    /\ UNCHANGED <<daemon, cli, pending, probes>>

StopBegins(a) ==
    /\ At(a, "stop") /\ cli # "resolving"
    /\ IF cli = "null"
       THEN Settles(a) /\ UNCHANGED <<shown, row>>
       ELSE Goes(a, "kill") /\ Shows("stopping") /\ UNCHANGED guard
    /\ UNCHANGED <<daemon, booting, cli, pending, probes, spent>>

\* `daemon stop`: it knows a daemon by its health port, so it misses one that is
\* still booting, and reports success.  The state is "stopped" either way.
Kills(a) ==
    /\ At(a, "kill")
    /\ Shows("stopped")
    /\ \/ /\ daemon' = Down
          /\ IF job[a].again
             THEN job' = [job EXCEPT ![a].step = "start", ![a].again = FALSE]
                  /\ UNCHANGED guard
             ELSE Settles(a)
          /\ UNCHANGED spent
       \/ /\ daemon.up
          /\ Spend("faults", MaxFaults)
          /\ Settles(a)
          /\ UNCHANGED daemon
    /\ UNCHANGED <<booting, cli, pending, probes>>

\* The buttons: start when it shows stopped, stop and restart when running.
\* The first workspace of a session asks for a restart too.
Press(step, again) ==
    /\ Spend("requests", MaxRequests)
    /\ ~guard
    /\ guard' = TRUE
    /\ job' = [job EXCEPT !["button"] = [Idle EXCEPT !.step = step, !.again = again]]
    /\ UNCHANGED <<daemon, booting, cli, shown, pending, probes, row>>

PressStart == shown = "stopped" /\ Press("start", FALSE)
PressStop == shown = "running" /\ Press("stop", FALSE)
PressRestart == shown = "running" /\ Press("stop", TRUE)

-------------------------------------------------------------------------------
(* Polls. *)

\* fetchHealth is short-circuited while there is no CLI; the poll takes the
\* answer of /health ...
Probe ==
    /\ shown \notin SetupStates
    /\ probes' = probes \cup {IF daemon.up THEN "running" ELSE "down"}
    /\ UNCHANGED <<daemon, booting, cli, shown, guard, pending, job,
                   row, spent>>

\* Mutant of PollAnswers: a deferred restart is not tried again.
PollAnswersOnly ==
    /\ \E p \in probes :
          /\ probes' = probes \ {p}
          /\ Shows(IF p = "running" THEN "running"
                   ELSE IF shown = "starting" THEN "starting" ELSE "stopped")
    /\ UNCHANGED <<daemon, booting, cli, guard, pending, job, spent>>

\* Mutant of PollAnswers: a start is not over before somebody says so.
PollAnswersLate ==
    /\ \E p \in probes :
          /\ probes' = probes \ {p}
          /\ Shows(IF shown = "starting" THEN "starting"
                   ELSE IF p = "running" THEN "running" ELSE "stopped")
          /\ job' = IF p = "running" /\ pending /\ At("version", "idle")
                    THEN [job EXCEPT !["version"].step = "version"] ELSE job
    /\ UNCHANGED <<daemon, booting, cli, guard, pending, spent>>

\* ... and makes it the state, whatever that has become in the meantime.
PollAnswers ==
    /\ \E p \in probes :
          /\ probes' = probes \ {p}
          /\ Shows(IF p = "running" THEN "running"
                   ELSE IF shown = "starting" THEN "starting" ELSE "stopped")
          /\ job' = IF p = "running" /\ pending /\ At("version", "idle")
                    THEN [job EXCEPT !["version"].step = "version"] ELSE job
    /\ UNCHANGED <<daemon, booting, cli, guard, pending, spent>>

\* ensureRunningDaemonVersionMatches reads /health, awaits the CLI's version ...
VersionReads(a) ==
    /\ At(a, "version")
    /\ job' = [job EXCEPT ![a].step = "decide", ![a].saw = HealthOf(daemon)]
    /\ UNCHANGED <<daemon, booting, cli, shown, guard, pending, probes,
                   row, spent>>

\* ... and decides on what it read.
VersionDecides(a) ==
    /\ At(a, "decide") /\ cli # "resolving"
    /\ LET unknown == cli = "null" /\ job[a].saw # "none"
       IN /\ pending' = (job[a].saw = "busy" /\ ~unknown)
          /\ job' = [job EXCEPT ![a] =
                       IF job[a].saw = "outdated" /\ ~unknown
                       THEN Restart ELSE Idle]
    /\ UNCHANGED <<daemon, booting, cli, shown, guard, probes, row,
                   spent>>

\* A sign-in: syncToken restarts the daemon of another user, unguarded and not
\* waited for, and the renderer goes on to daemon:auto-start.
SignIn ==
    /\ Spend("requests", MaxRequests)
    /\ At("autostart", "idle")
    /\ \E switched \in BOOLEAN :
          /\ switched => At("rotate", "idle")
          /\ job' = [job EXCEPT !["autostart"].step = "autostart",
                                !["rotate"] = IF switched /\ daemon.up THEN Restart ELSE @]
    /\ UNCHANGED <<daemon, booting, cli, shown, guard, pending, probes, row>>

\* daemon:auto-start, when the preference is on.
AutoStarts ==
    /\ At("autostart", "autostart") /\ cli # "resolving"
    /\ job' = [job EXCEPT !["autostart"] =
                 IF cli = "null" THEN Idle
                 ELSE [Idle EXCEPT !.step = IF daemon.up /\ shown \notin SetupStates
                                            THEN "version" ELSE "start"]]
    /\ UNCHANGED <<daemon, booting, cli, shown, guard, pending, probes, row, spent>>

-------------------------------------------------------------------------------
(* The daemon's process, its tasks, the server's sweeper, a relaunch. *)

\* A child takes the port, or exits: the port is taken, there is no token.
Boots ==
    /\ booting
    /\ booting' = FALSE
    /\ daemon' \in {daemon, IF daemon.up THEN daemon ELSE [Down EXCEPT !.up = TRUE]}
    /\ UNCHANGED <<cli, shown, guard, pending, probes, job, row, spent>>

DaemonDies ==
    /\ daemon.up
    /\ Spend("faults", MaxFaults)
    /\ daemon' = Down
    /\ UNCHANGED <<booting, cli, shown, guard, pending, probes, job,
                   row>>

TaskStarts ==
    /\ daemon.up /\ ~daemon.busy
    /\ Spend("tasks", MaxTasks)
    /\ daemon' = [daemon EXCEPT !.busy = TRUE]
    /\ UNCHANGED <<booting, cli, shown, guard, pending, probes, job,
                   row>>

TaskEnds ==
    /\ daemon.busy
    /\ daemon' = [daemon EXCEPT !.busy = FALSE]
    /\ UNCHANGED <<booting, cli, shown, guard, pending, probes, job,
                   row, spent>>

\* The server's sweeper marks the runtime 45 to 75 s after its last heartbeat.
ServerSweeps ==
    /\ ~daemon.up /\ row = "online"
    /\ row' = "offline"
    /\ UNCHANGED <<daemon, booting, cli, shown, guard, pending, probes,
                   job, spent>>

\* The app ends, in an orderly way or not, and is opened again.  The quit may have
\* stopped the daemon (autoStop), and the rows are fetched anew.
Relaunch ==
    /\ Spend("requests", MaxRequests)
    /\ daemon' \in {daemon, Down}
    /\ cli' = "resolving" /\ shown' = "installing_cli"
    /\ guard' = FALSE /\ pending' = FALSE /\ probes' = {}
    /\ job' = [a \in Actors |-> Idle]
    /\ row' = IF daemon'.up THEN "online" ELSE row
    /\ UNCHANGED booting

-------------------------------------------------------------------------------
Operates(a) ==
    \/ StartChecks(a) \/ Spawns(a) \/ StopBegins(a) \/ Kills(a)
    \/ VersionReads(a) \/ VersionDecides(a)

Next ==
    \/ CliFound \/ CliMissing \/ RetryInstall
    \/ PressStart \/ PressStop \/ PressRestart \/ SignIn \/ Relaunch
    \/ AutoStarts
    \/ \E a \in Actors : Operates(a)
    \/ Probe \/ PollAnswers
    \/ Boots \/ DaemonDies \/ TaskStarts \/ TaskEnds \/ ServerSweeps

Spec == Init /\ [][Next]_vars

\* Awaits settle, the interval polls, children boot, tasks end.
FairSpec ==
    /\ Spec
    /\ WF_vars(CliFound) /\ WF_vars(Probe) /\ WF_vars(PollAnswers)
    /\ WF_vars(Boots) /\ WF_vars(TaskEnds) /\ WF_vars(AutoStarts)
    /\ \A a \in Actors : WF_vars(Operates(a))

-------------------------------------------------------------------------------
(* Properties. *)

\* However many operations wrote the state over each other, and in whatever order
\* the polls were answered, a daemon that stays up ends up shown as running, and
\* one that stays down is not shown as running or stopping for good.
StatusSettles ==
    /\ <>[](daemon.up /\ cli = "found") => <>[](shown = "running")
    /\ <>[](~daemon.up /\ cli = "found") => <>[](shown \in {"stopped", "starting"})

\* A restart deferred because the daemon was busy is carried out or called off
\* once it has drained, unless the daemon goes down by itself.
DeferredRestartHappens == pending ~> (~pending \/ ~daemon.up)

\* "flips to offline/online sub-second instead of waiting on the server's 75s
\* sweeper": the step that shows a stopped daemon as stopped leaves the row of its
\* runtime offline.
FlipsOffline ==
    [][shown = "stopping" /\ shown' = "stopped" /\ ~daemon'.up => row' = "offline"]_vars
=============================================================================
