------------------------------- MODULE Daemon -------------------------------
(***************************************************************************)
(* The life of the daemon process (bin/beachedmesh): bringing the adapter  *)
(* up, reloading the driver under a deaf radio (recover.py), running,      *)
(* waiting out an adapter that went away, stopping; systemd, which starts  *)
(* it again and kills it if it stops too slowly (the unit written by       *)
(* bin/beachedmesh-setup); and bin/beachedmesh-laptopreset, which reloads  *)
(* the same driver by hand and means the service to be stopped meanwhile.  *)
(*                                                                         *)
(* Time is in seconds.  The process is at a step, pc, or blocked for `wait'*)
(* more seconds before it; a signal sets a flag but does not shorten a     *)
(* blocking call.  Steps between blocking calls take no time; CommandTime  *)
(* stands for the ip, iw and modprobe commands.                            *)
(***************************************************************************)
EXTENDS Integers, FiniteSets

CONSTANTS
    PollTime,       \* longest turn of the main loop
    ProbeTime,      \* sleep between two looks for the interface
    ReadyTime,      \* sleep after the interface has appeared
    ListenTime,     \* LISTEN_SECONDS
    SettleTime,     \* SETTLE_SECONDS
    ReappearTime,   \* REAPPEAR_TIMEOUT
    RestTime,       \* sleep after a failed recovery
    RetryStep, RetryMax,    \* sleep after the n-th failed bring-up
    RestartTime,    \* RestartSec
    StopTime,       \* TimeoutStopSec
    CommandTime,
    MaxDeafReloads, \* MAX_DEAF_RELOADS
    \* Bounds of the model: how often the surroundings interfere.
    MaxUnplugs, MaxRefusals, MaxLoadFailures, MaxStops, MaxResets, MaxStopFailures

Times == {PollTime, ProbeTime, ReadyTime, ListenTime, SettleTime, ReappearTime,
          RestTime, RetryStep, RetryMax, RestartTime, StopTime, CommandTime}

ASSUME TimesAssumption == Times \subseteq Nat \ {0}
\* The waits that may follow one another when a stop arrives, in the loop that
\* recovers and in the one that brings the adapter up as far as the driver's
\* reload, fit into TimeoutStopSec: with the code's delays, 13 and 14 of 15 s.
ASSUME StopTimeAssumption ==
    /\ PollTime < StopTime
    /\ ProbeTime + ReadyTime + CommandTime + CommandTime + RestTime < StopTime
    /\ ProbeTime + ReadyTime + CommandTime + ListenTime + CommandTime + SettleTime <= StopTime
ASSUME BoundsAssumption ==
    {MaxDeafReloads, MaxUnplugs, MaxRefusals, MaxLoadFailures, MaxStops, MaxResets,
     MaxStopFailures} \subseteq Nat

VARIABLES
    pc,         \* what the process does next
    wait,       \* seconds until the blocking call returns
    stopping,   \* the flag that SIGTERM sets
    stopIn,     \* seconds that systemd still gives a stopping process
    node,       \* Node() has been made: routes are held and buffered
    link,       \* node.link: "none", "live", or "dead" if its device is gone
    attempt,    \* failed bring-ups, until the delay no longer grows
    reloads,    \* driver reloads
    script,     \* what bin/beachedmesh-laptopreset does next, if it runs
    \* The adapter.
    plugged,    \* it is in its port
    loaded,     \* its driver is loaded
    present,    \* its interface exists
    monitor,    \* the interface is up in monitor mode
    deaf,       \* its receive path is dead
    budget      \* what is left of the bounds of the model

process == <<pc, wait, node, link, attempt, reloads>>
signals == <<stopping, stopIn>>
adapter == <<plugged, loaded, present, monitor, deaf>>
vars    == <<process, signals, script, adapter, budget>>

Steps == {"down", "stopped", "seek", "probe", "configure", "listen", "unload",
          "load", "reappear", "open", "reopen", "poll"}

At(step) == pc = step /\ wait = 0

Go(step, seconds) == pc' = step /\ wait' = seconds

Keep(counters) == UNCHANGED <<node, link, counters>>

Min2(a, b) == IF a < b THEN a ELSE b

\* The process is gone: after a stop it stays away, else systemd restarts it.
Exit(step, seconds) ==
    /\ Go(step, seconds)
    /\ node' = FALSE /\ link' = "none" /\ attempt' = 0 /\ reloads' = 0
    /\ stopping' = FALSE /\ stopIn' = StopTime

Ends(step, seconds) == Exit(step, seconds) /\ UNCHANGED <<script, adapter, budget>>

(***************************************************************************)
(* wait_for_iface and verify_and_configure, at the top of the loop that    *)
(* brings the adapter up and of the one that recovers it                   *)
(***************************************************************************)
\* Mistake: a recovery backs off as the bring-up does.
RetryBacksOff ==
    /\ Go("seek", CommandTime + Min2(RetryMax, RetryStep * (attempt + 1)))
    /\ attempt' = IF RetryStep * (attempt + 1) > RetryMax THEN attempt ELSE attempt + 1
    /\ Keep(reloads)

\* A loop whose body failed sleeps before the next turn.
Retry ==
    /\ Go("seek", CommandTime + IF node THEN RestTime
                                ELSE Min2(RetryMax, RetryStep * (attempt + 1)))
    /\ attempt' = IF node \/ RetryStep * (attempt + 1) > RetryMax THEN attempt ELSE attempt + 1
    /\ Keep(reloads)

Seek ==
    /\ At("seek") /\ ~stopping
    /\ IF present THEN Go("configure", 0) ELSE Go("probe", ProbeTime)
    /\ Keep(<<attempt, reloads>>)
    /\ UNCHANGED <<signals, script, adapter, budget>>

\* "if stopping: return 0", or the end of the main loop: close() writes the
\* buffered routes.
SeekStopped == At("seek") /\ stopping /\ Ends("stopped", 0)

Probe ==
    /\ At("probe")
    /\ \/ present /\ Go("configure", ReadyTime) /\ Keep(<<attempt, reloads>>)
       \/ ~present /\ ~stopping /\ Go("probe", ProbeTime) /\ Keep(<<attempt, reloads>>)
       \/ ~present /\ stopping /\ Retry
    /\ UNCHANGED <<signals, script, adapter, budget>>

Configure ==
    /\ At("configure") /\ present
    /\ monitor' = TRUE
    /\ IF node THEN Go("reopen", CommandTime) ELSE Go("listen", CommandTime + ListenTime)
    /\ Keep(<<attempt, reloads>>)
    /\ UNCHANGED <<signals, script, plugged, loaded, present, deaf, budget>>

\* The interface is gone again, or the driver refuses.
ConfigureFails ==
    /\ At("configure")
    /\ \/ ~present /\ UNCHANGED budget
       \/ budget.refusals > 0 /\ budget' = [budget EXCEPT !.refusals = @ - 1]
    /\ Retry
    /\ UNCHANGED <<signals, script, adapter>>

(***************************************************************************)
(* radio_hears and recover_deaf_radio                                      *)
(***************************************************************************)
\* The interface that was configured is no longer the one there.
Renewed == ~present \/ ~monitor

\* Frames were heard, or nothing could be tested.
ListenHears ==
    /\ At("listen")
    /\ ~deaf \/ Renewed
    /\ Go("open", 0)
    /\ Keep(<<attempt, reloads>>)
    /\ UNCHANGED <<signals, script, adapter, budget>>

\* Mistake: one reload too many.
ListenDeafOnceMore ==
    /\ At("listen")
    /\ deaf \/ Renewed
    /\ IF reloads <= MaxDeafReloads
       THEN Go("unload", CommandTime) /\ reloads' = reloads + 1
       ELSE Go("open", 0) /\ UNCHANGED reloads
    /\ Keep(attempt)
    /\ UNCHANGED <<signals, script, adapter, budget>>

\* Mistake: reloads are not counted.
ListenDeafUncounted ==
    /\ At("listen")
    /\ deaf \/ Renewed
    /\ Go("unload", CommandTime)
    /\ Keep(<<attempt, reloads>>)
    /\ UNCHANGED <<signals, script, adapter, budget>>

\* Nothing at all was heard: reload, or run anyway.
ListenDeaf ==
    /\ At("listen")
    /\ deaf \/ Renewed
    /\ IF reloads < MaxDeafReloads
       THEN Go("unload", CommandTime) /\ reloads' = reloads + 1
       ELSE Go("open", 0) /\ UNCHANGED reloads
    /\ Keep(attempt)
    /\ UNCHANGED <<signals, script, adapter, budget>>

\* The two modprobe calls of recover.reload_driver: a driver that is loaded
\* afresh may or may not have cured the radio.
TakeOut ==
    \/ loaded' = FALSE /\ present' = FALSE /\ monitor' = FALSE
    \/ UNCHANGED <<loaded, present, monitor>>

PutBack ==
    /\ loaded' = TRUE
    /\ deaf' \in IF loaded THEN {deaf} ELSE {deaf, FALSE}

\* "in use" (or no modprobe): nothing is done.  Any other failure is ignored.
UnloadBusy ==
    /\ At("unload")
    /\ Go("seek", 0)
    /\ Keep(<<attempt, reloads>>)
    /\ UNCHANGED <<signals, script, adapter, budget>>

\* Mistake: the wait for the interface comes before the driver is loaded.
UnloadThenWait ==
    /\ At("unload")
    /\ Go("load", SettleTime + ReappearTime)
    /\ loaded' = FALSE /\ present' = FALSE /\ monitor' = FALSE
    /\ Keep(<<attempt, reloads>>)
    /\ UNCHANGED <<signals, script, plugged, deaf, budget>>

Unload ==
    /\ At("unload")
    /\ Go("load", SettleTime)
    /\ TakeOut
    /\ Keep(<<attempt, reloads>>)
    /\ UNCHANGED <<signals, script, plugged, deaf, budget>>

Load ==
    /\ At("load")
    /\ PutBack
    /\ Go("reappear", CommandTime + ReappearTime)
    /\ Keep(<<attempt, reloads>>)
    /\ UNCHANGED <<signals, script, plugged, present, monitor, budget>>

LoadFails ==
    /\ At("load")
    /\ budget.loadFailures > 0
    /\ budget' = [budget EXCEPT !.loadFailures = @ - 1]
    /\ Go("seek", 0)
    /\ Keep(<<attempt, reloads>>)
    /\ UNCHANGED <<signals, script, adapter>>

\* recover.wait_for_iface looks every half second and gives up in the end.
Reappear ==
    /\ pc = "reappear"
    /\ \/ wait > 0 /\ present /\ Go("seek", ReadyTime)
       \/ wait = 0 /\ Go("seek", 0)
    /\ Keep(<<attempt, reloads>>)
    /\ UNCHANGED <<signals, script, adapter, budget>>

(***************************************************************************)
(* Opening the link, for a new node and for one that lost its adapter      *)
(***************************************************************************)
\* A socket bound to an interface that is not up fails at its first use.
Opened == IF monitor THEN "live" ELSE "dead"

Open ==
    /\ At("open") /\ ~stopping /\ present
    /\ Go("poll", 0)
    /\ node' = TRUE /\ link' = Opened
    /\ UNCHANGED <<attempt, reloads, signals, script, adapter, budget>>

\* Node() raises and nothing catches it.
OpenFails == At("open") /\ ~stopping /\ ~present /\ Ends("down", RestartTime)

OpenStopped == At("open") /\ stopping /\ Ends("stopped", 0)

Reopen ==
    /\ At("reopen") /\ present
    /\ Go("poll", 0)
    /\ link' = Opened
    /\ UNCHANGED <<node, attempt, reloads, signals, script, adapter, budget>>

ReopenFails ==
    /\ At("reopen") /\ ~present
    /\ Retry
    /\ UNCHANGED <<signals, script, adapter, budget>>

(***************************************************************************)
(* The main loop                                                           *)
(***************************************************************************)
Poll ==
    /\ At("poll") /\ ~stopping /\ link = "live"
    /\ Go("poll", PollTime)
    /\ Keep(<<attempt, reloads>>)
    /\ UNCHANGED <<signals, script, adapter, budget>>

\* OSError, as soon as the device under the socket is gone.
PollFails ==
    /\ pc = "poll" /\ link = "dead"
    /\ wait > 0 \/ ~stopping
    /\ Go("seek", 0)
    /\ link' = "none"
    /\ UNCHANGED <<node, attempt, reloads, signals, script, adapter, budget>>

Shutdown == At("poll") /\ stopping /\ Ends("stopped", 0)

(***************************************************************************)
(* systemd                                                                 *)
(***************************************************************************)
\* By systemd, or by anyone.
Start ==
    /\ At("down") \/ pc = "stopped"
    /\ Go("seek", 0)
    /\ Keep(<<attempt, reloads>>)
    /\ UNCHANGED <<signals, script, adapter, budget>>

Stop ==
    /\ pc \notin {"down", "stopped"} /\ ~stopping
    /\ budget.stops > 0
    /\ budget' = [budget EXCEPT !.stops = @ - 1]
    /\ stopping' = TRUE
    /\ UNCHANGED <<process, stopIn, script, adapter>>

Kill == stopping /\ stopIn = 0 /\ wait > 0 /\ Ends("stopped", 0)

(***************************************************************************)
(* bin/beachedmesh-laptopreset: stop the service, reload the driver, wait  *)
(* for the interface, start the service.  Its steps take any time; nobody  *)
(* interrupts it.  It does not look at what systemctl returns.             *)
(***************************************************************************)
ScriptSteps == {"idle", "stop", "unload", "load", "reappear", "start", "failed"}

\* systemctl stop ends a wait for the restart, or sends SIGTERM.
StopService ==
    \/ pc = "down" /\ Exit("stopped", 0)
    \/ pc = "stopped" /\ UNCHANGED <<process, signals>>
    \/ pc \notin {"down", "stopped"} /\ stopping' = TRUE /\ UNCHANGED <<process, stopIn>>

\* It has listened and heard nothing.
Diagnose ==
    /\ script \in {"idle", "failed"} /\ present
    /\ deaf \/ ~monitor
    /\ budget.resets > 0
    /\ budget' = [budget EXCEPT !.resets = @ - 1]
    /\ script' = "stop"
    /\ StopService
    /\ UNCHANGED adapter

\* systemctl returns when the service has ended; someone else may have started
\* it since.
ServiceStopped ==
    /\ script = "stop" /\ ~stopping
    /\ script' = "unload"
    /\ UNCHANGED <<process, signals, adapter, budget>>

\* It returns an error, with the stop undone or still under way: the script goes
\* on as well.
StopServiceFails ==
    /\ script = "stop"
    /\ budget.stopFailures > 0
    /\ budget' = [budget EXCEPT !.stopFailures = @ - 1]
    /\ script' = "unload"
    /\ UNCHANGED <<process, signals, adapter>>

\* A module in use ends the script; one that goes may go from under the service.
ResetUnloads ==
    /\ script = "unload"
    /\ \/ script' = "failed" /\ UNCHANGED <<loaded, present, monitor>>
       \/ script' = "load" /\ TakeOut
    /\ link' = IF link = "live" /\ ~present' THEN "dead" ELSE link
    /\ UNCHANGED <<pc, wait, node, attempt, reloads, signals, plugged, deaf, budget>>

ResetLoads ==
    /\ script = "load"
    /\ script' = "reappear"
    /\ PutBack
    /\ UNCHANGED <<process, signals, plugged, present, monitor, budget>>

ResetLoadFails ==
    /\ script = "load"
    /\ budget.loadFailures > 0
    /\ budget' = [budget EXCEPT !.loadFailures = @ - 1]
    /\ script' = "failed"
    /\ UNCHANGED <<process, signals, adapter>>

\* Mistake: the service is not started again.
ResetWaitsOnly ==
    /\ script = "reappear"
    /\ script' = IF present THEN "idle" ELSE "failed"
    /\ UNCHANGED <<process, signals, adapter, budget>>

ResetWaits ==
    /\ script = "reappear"
    /\ script' = IF present THEN "start" ELSE "failed"
    /\ UNCHANGED <<process, signals, adapter, budget>>

\* A service that runs is left running; one that is stopping is waited for.
StartService ==
    /\ script = "start" /\ ~stopping
    /\ script' = "idle"
    /\ IF pc \in {"down", "stopped"}
       THEN Go("seek", 0) /\ Keep(<<attempt, reloads>>)
       ELSE UNCHANGED process
    /\ UNCHANGED <<signals, adapter, budget>>

(***************************************************************************)
(* The adapter and the clock                                               *)
(***************************************************************************)
\* Pulling the plug is a power cycle: it cures a deaf radio.
Unplug ==
    /\ plugged
    /\ budget.unplugs > 0
    /\ budget' = [budget EXCEPT !.unplugs = @ - 1]
    /\ plugged' = FALSE /\ present' = FALSE /\ monitor' = FALSE /\ deaf' = FALSE
    /\ link' = IF link = "live" THEN "dead" ELSE link
    /\ UNCHANGED <<pc, wait, node, attempt, reloads, signals, script, loaded>>

\* After a move between ports it may be deaf.
Plug ==
    /\ ~plugged
    /\ plugged' = TRUE
    /\ deaf' \in BOOLEAN
    /\ UNCHANGED <<process, signals, script, loaded, present, monitor, budget>>

Enumerate ==
    /\ plugged /\ loaded /\ ~present
    /\ present' = TRUE
    /\ UNCHANGED <<process, signals, script, plugged, loaded, monitor, deaf, budget>>

\* Blocking calls last as long as they say, and wait_for_iface's half second
\* is shorter than a second.
PassTime ==
    /\ wait > 0
    /\ stopping => stopIn > 0
    /\ ~(pc = "reappear" /\ present) /\ ~(pc = "poll" /\ link = "dead")
    /\ wait' = wait - 1
    /\ stopIn' = IF stopping THEN stopIn - 1 ELSE stopIn
    /\ UNCHANGED <<pc, stopping, node, link, attempt, reloads, script, adapter, budget>>

(***************************************************************************)
(* Specification                                                           *)
(***************************************************************************)
Init ==
    /\ pc = "down" /\ wait = 0
    /\ stopping = FALSE /\ stopIn = StopTime
    /\ node = FALSE /\ link = "none" /\ attempt = 0 /\ reloads = 0
    /\ script = "idle"
    /\ plugged \in BOOLEAN /\ loaded = TRUE /\ monitor = FALSE
    /\ present \in {FALSE, plugged}
    /\ deaf \in {FALSE, plugged}
    /\ budget = [unplugs |-> MaxUnplugs, refusals |-> MaxRefusals,
                 loadFailures |-> MaxLoadFailures, stops |-> MaxStops, resets |-> MaxResets,
                 stopFailures |-> MaxStopFailures]

BringUp == Seek \/ SeekStopped \/ Probe \/ Configure \/ ConfigureFails
Reload  == ListenHears \/ ListenDeaf \/ UnloadBusy \/ Unload \/ Load \/ LoadFails \/ Reappear
Run     == Open \/ OpenFails \/ OpenStopped \/ Reopen \/ ReopenFails
             \/ Poll \/ PollFails \/ Shutdown
Reset   == ServiceStopped \/ StopServiceFails \/ ResetUnloads \/ ResetLoads
             \/ ResetLoadFails \/ ResetWaits \/ StartService

Next ==
    \/ BringUp \/ Reload \/ Run
    \/ Diagnose \/ Reset
    \/ Start \/ Stop \/ Kill
    \/ Unplug \/ Plug \/ Enumerate
    \/ PassTime

\* The process runs, its waits end, systemd restarts and kills; an adapter that
\* was pulled is plugged in again, and is enumerated; a script that was started
\* goes on.
Fairness ==
    /\ WF_vars(BringUp \/ Reload \/ Run \/ Kill \/ PassTime)
    /\ WF_vars(At("down") /\ Start)
    /\ WF_vars(Reset)
    /\ WF_vars(Plug) /\ WF_vars(Enumerate)

Spec == Init /\ [][Next]_vars /\ Fairness

(***************************************************************************)
(* Properties                                                              *)
(***************************************************************************)

Budgets == [unplugs : Nat, refusals : Nat, loadFailures : 0..MaxLoadFailures, stops : Nat,
            resets : Nat, stopFailures : Nat]

\* Every variable has its type.
TypeOK ==
    /\ pc \in Steps /\ wait \in Nat
    /\ stopping \in BOOLEAN /\ stopIn \in 0..StopTime
    /\ node \in BOOLEAN /\ link \in {"none", "live", "dead"}
    /\ attempt \in Nat /\ reloads \in 0..MaxDeafReloads
    /\ plugged \in BOOLEAN /\ loaded \in BOOLEAN /\ present \in BOOLEAN
    /\ monitor \in BOOLEAN /\ deaf \in BOOLEAN
    /\ script \in ScriptSteps
    /\ budget \in Budgets

\* The unit's "buffered route writes are flushed ... give it room rather than
\* killing it mid-write": once the daemon holds routes, no sequence of waits in
\* its loops outlasts the time systemd gives a stopping process.
NodeIsNotKilled == node /\ stopping => stopIn > 0

\* At this step the process blocks for at most `most' seconds, and once it is
\* stopping it is done `left' seconds later.
Lasts(s, most, left) == pc = s => wait <= most /\ (stopping => wait + left <= stopIn)

\* A process that holds routes is at a step from which a stop ends in time ...
NodeInTime == node =>
    /\ pc \in {"seek", "probe", "configure", "reopen", "poll"}
    /\ Lasts("seek", CommandTime + RestTime, 1)
    /\ Lasts("probe", ProbeTime, ReadyTime + CommandTime + CommandTime + RestTime + 1)
    /\ Lasts("configure", ReadyTime, CommandTime + CommandTime + RestTime + 1)
    /\ Lasts("reopen", CommandTime, CommandTime + RestTime + 1)
    /\ Lasts("poll", PollTime, 1)

\* ... and one that does not, on its way to a reload, puts the driver back.
ReloadInTime == ~node =>
    /\ Lasts("probe", ProbeTime,
             ReadyTime + CommandTime + ListenTime + CommandTime + SettleTime)
    /\ Lasts("configure", ReadyTime, CommandTime + ListenTime + CommandTime + SettleTime)
    /\ Lasts("listen", CommandTime + ListenTime, CommandTime + SettleTime)
    /\ Lasts("unload", CommandTime, SettleTime)
    /\ Lasts("load", SettleTime, 0)

\* The inductive invariant behind NodeIsNotKilled and DriverIsPutBack: at every
\* step of bin/beachedmesh's loops the sleeps still ahead of a stopping process
\* fit into what systemd has left of TimeoutStopSec.
InTime == (~stopping => stopIn = StopTime) /\ NodeInTime /\ ReloadInTime

NoLoadFailed == budget.loadFailures = MaxLoadFailures

\* Reloading the driver is not left half done: unless loading has failed, the
\* driver is out only between recover.py's two modprobe calls, of the daemon or
\* of laptopreset, or of both at once where the service is not stopped; so no
\* stop, kill or start leaves a process without an interface to wait for.
DriverIsPutBack == NoLoadFailed /\ ~loaded => pc = "load" \/ script = "load"

Operating == pc = "poll" /\ link = "live"

\* wait_for_iface's "must recover without anyone present": whatever the adapter
\* does, the daemon comes to poll a live link again, deaf or not, unless it
\* has been stopped.
AlwaysRecovers == []<>(Operating \/ pc = "stopped")

\* It does so as long as the driver that recover.py takes out can be put back.
RecoversWithDriver == []NoLoadFailed => AlwaysRecovers

\* laptopreset takes a running service away for its reload: it ends with a node
\* that polls a live link again, or says that it failed, unless someone else has
\* stopped the service; also if the stop fails or the service is started too
\* early, and the driver is taken out under it.
ResetBringsBack ==
    []NoLoadFailed => (script = "stop" ~> \/ script = "idle" /\ Operating
                                          \/ script = "failed"
                                          \/ budget.stops < MaxStops)
=============================================================================
