---------------------------- MODULE DaemonProofs ----------------------------
(***************************************************************************)
(* Proofs about Daemon: whatever the delays are, as long as those that may *)
(* follow a stop fit into systemd's timeout (StopTimeAssumption), a daemon *)
(* that holds routes is not killed, and the driver is put back.            *)
(***************************************************************************)
EXTENDS Daemon, TLAPS

LEMMA TimesAreNatural ==
    /\ PollTime \in Nat /\ ProbeTime \in Nat /\ ReadyTime \in Nat /\ ListenTime \in Nat
    /\ SettleTime \in Nat /\ ReappearTime \in Nat /\ RestTime \in Nat /\ RetryStep \in Nat
    /\ RetryMax \in Nat /\ RestartTime \in Nat /\ StopTime \in Nat /\ CommandTime \in Nat
    /\ MaxDeafReloads \in Nat /\ MaxUnplugs \in Nat /\ MaxRefusals \in Nat
    /\ MaxLoadFailures \in Nat /\ MaxStops \in Nat /\ MaxResets \in Nat
    /\ MaxStopFailures \in Nat
BY TimesAssumption, BoundsAssumption DEF Times

LEMMA BackoffIsNatural ==
    ASSUME NEW n \in Nat
    PROVE  Min2(RetryMax, RetryStep * (n + 1)) \in Nat
<1>1. \A x, y \in Nat : x * y \in Nat
  OBVIOUS
<1>2. RetryStep * (n + 1) \in Nat
  BY <1>1, TimesAreNatural
<1> QED
  BY <1>2, TimesAreNatural DEF Min2

\* Retry keeps the types of the variables that it sets.
LEMMA RetryTypes ==
    ASSUME TypeOK, Retry
    PROVE  /\ pc' \in Steps /\ wait' \in Nat
           /\ node' \in BOOLEAN /\ link' \in {"none", "live", "dead"}
           /\ attempt' \in Nat /\ reloads' \in 0..MaxDeafReloads
<1>1. Min2(RetryMax, RetryStep * (attempt + 1)) \in Nat
  BY BackoffIsNatural DEF TypeOK
<1> QED
  BY <1>1, TimesAreNatural DEF TypeOK, Retry, Go, Keep, Steps

\* So does the end of a process.
LEMMA ExitTypes ==
    ASSUME TypeOK, NEW step \in Steps, NEW seconds \in Nat, Ends(step, seconds)
    PROVE  TypeOK'
<1>1. /\ pc' \in Steps /\ wait' \in Nat
      /\ attempt' \in Nat /\ reloads' \in 0..MaxDeafReloads /\ stopIn' \in 0..StopTime
  BY TimesAreNatural DEF Ends, Exit, Go
<1>2. node' \in BOOLEAN /\ link' \in {"none", "live", "dead"} /\ stopping' \in BOOLEAN
  BY DEF Ends, Exit
<1> QED
  BY <1>1, <1>2 DEF TypeOK, Ends, adapter

LEMMA BringUpTypes == TypeOK /\ BringUp => TypeOK'
<1> SUFFICES ASSUME TypeOK, BringUp PROVE TypeOK'
  OBVIOUS
<1>1. CASE Seek
  BY <1>1, TimesAreNatural DEF Seek, TypeOK, Go, Keep, signals, adapter, Steps
<1>2. CASE SeekStopped
  BY <1>2, ExitTypes, TimesAreNatural DEF SeekStopped, Steps
<1>3. CASE Probe
  <2>1. CASE Retry
    BY <1>3, <2>1, RetryTypes DEF Probe, TypeOK, signals, adapter
  <2> QED
    BY <1>3, <2>1, TimesAreNatural DEF Probe, TypeOK, Go, Keep, signals, adapter, Steps
<1>4. CASE Configure
  BY <1>4, TimesAreNatural DEF Configure, TypeOK, Go, Keep, signals, Steps
<1>5. CASE ConfigureFails
  <2>1. budget' \in Budgets
    BY <1>5 DEF ConfigureFails, TypeOK, Budgets
  <2> QED
    BY <1>5, <2>1, RetryTypes DEF ConfigureFails, TypeOK, signals, adapter
<1> QED
  BY <1>1, <1>2, <1>3, <1>4, <1>5 DEF BringUp

LEMMA PutBackTypes == TypeOK /\ PutBack => loaded' \in BOOLEAN /\ deaf' \in BOOLEAN
<1> SUFFICES ASSUME TypeOK, PutBack PROVE loaded' \in BOOLEAN /\ deaf' \in BOOLEAN
  OBVIOUS
<1>1. deaf \in BOOLEAN
  BY DEF TypeOK
<1> QED
  BY <1>1, Zenon DEF PutBack

LEMMA ReloadTypes == TypeOK /\ Reload => TypeOK'
<1> SUFFICES ASSUME TypeOK, Reload PROVE TypeOK'
  OBVIOUS
<1> USE TimesAreNatural DEF TypeOK, Go, Keep, Steps
<1>1. CASE ListenHears
  BY <1>1 DEF ListenHears, signals, adapter
<1>2. CASE ListenDeaf
  BY <1>2 DEF ListenDeaf, signals, adapter
<1>3. CASE UnloadBusy
  BY <1>3 DEF UnloadBusy, signals, adapter
<1>4. CASE Unload
  BY <1>4 DEF Unload, TakeOut, signals
<1>5. CASE Load
  <2>1. deaf' \in BOOLEAN
    BY <1>5, PutBackTypes DEF Load
  <2>2. /\ pc' = "reappear" /\ wait' = CommandTime + ReappearTime /\ loaded' = TRUE
        /\ UNCHANGED <<node, link, attempt, reloads, signals, script, plugged, present, monitor, budget>>
    BY <1>5, Zenon DEF Load, PutBack
  <2> QED
    BY <2>1, <2>2 DEF signals
<1>6. CASE LoadFails
  <2>1. budget.loadFailures - 1 \in 0..MaxLoadFailures
    BY <1>6 DEF LoadFails, Budgets
  <2>2. budget' \in Budgets
    BY <1>6, <2>1 DEF LoadFails, Budgets
  <2> QED
    BY <1>6, <2>2 DEF LoadFails, signals, adapter
<1>7. CASE Reappear
  BY <1>7 DEF Reappear, signals, adapter
<1> QED
  BY <1>1, <1>2, <1>3, <1>4, <1>5, <1>6, <1>7 DEF Reload

LEMMA RunTypes == TypeOK /\ Run => TypeOK'
<1> SUFFICES ASSUME TypeOK, Run PROVE TypeOK'
  OBVIOUS
<1>1. CASE Open
  BY <1>1, TimesAreNatural DEF Open, Opened, TypeOK, Go, signals, adapter, Steps
<1>2. CASE OpenFails
  BY <1>2, ExitTypes, TimesAreNatural DEF OpenFails, Steps
<1>3. CASE OpenStopped
  BY <1>3, ExitTypes, TimesAreNatural DEF OpenStopped, Steps
<1>4. CASE Reopen
  BY <1>4, TimesAreNatural DEF Reopen, Opened, TypeOK, Go, signals, adapter, Steps
<1>5. CASE ReopenFails
  BY <1>5, RetryTypes DEF ReopenFails, TypeOK, signals, adapter
<1>6. CASE Poll
  BY <1>6, TimesAreNatural DEF Poll, TypeOK, Go, Keep, signals, adapter, Steps
<1>7. CASE PollFails
  BY <1>7, TimesAreNatural DEF PollFails, TypeOK, Go, signals, adapter, Steps
<1>8. CASE Shutdown
  BY <1>8, ExitTypes, TimesAreNatural DEF Shutdown, Steps
<1> QED
  BY <1>1, <1>2, <1>3, <1>4, <1>5, <1>6, <1>7, <1>8 DEF Run

\* The types of what the script moves.
LEMMA ScriptTypes == TypeOK /\ (Diagnose \/ Reset) => TypeOK'
<1> SUFFICES ASSUME TypeOK, Diagnose \/ Reset PROVE TypeOK'
  OBVIOUS
<1> USE TimesAreNatural DEF TypeOK, ScriptSteps
<1>1. CASE Diagnose
  <2>1. budget' \in Budgets
    BY <1>1 DEF Diagnose, Budgets
  <2>2. CASE pc = "down" /\ Exit("stopped", 0)
    <3>1. /\ pc' \in Steps /\ wait' \in Nat
          /\ attempt' \in Nat /\ reloads' \in 0..MaxDeafReloads /\ stopIn' \in 0..StopTime
      BY <2>2 DEF Exit, Go, Steps
    <3>2. node' \in BOOLEAN /\ link' \in {"none", "live", "dead"} /\ stopping' \in BOOLEAN
      BY <2>2 DEF Exit
    <3> QED
      BY <1>1, <2>1, <3>1, <3>2 DEF Diagnose, adapter
  <2>3. CASE pc = "stopped" /\ UNCHANGED <<process, signals>>
    BY <1>1, <2>1, <2>3 DEF Diagnose, process, signals, adapter
  <2>4. CASE stopping' = TRUE /\ UNCHANGED <<process, stopIn>>
    BY <1>1, <2>1, <2>4 DEF Diagnose, process, adapter
  <2> QED
    BY <1>1, <2>2, <2>3, <2>4 DEF Diagnose, StopService
<1>2. CASE ServiceStopped
  BY <1>2 DEF ServiceStopped, process, signals, adapter
<1>3. CASE ResetUnloads
  <2>1. link' \in {"none", "live", "dead"} /\ script' \in ScriptSteps
    BY <1>3 DEF ResetUnloads
  <2> QED
    BY <1>3, <2>1 DEF ResetUnloads, TakeOut, signals
<1>4. CASE ResetLoads
  <2>1. /\ script' = "reappear"
        /\ UNCHANGED <<process, signals, plugged, present, monitor, budget>>
    BY <1>4 DEF ResetLoads
  <2> QED
    BY <1>4, <2>1, PutBackTypes DEF ResetLoads, process, signals
<1>5. CASE ResetLoadFails
  <2>1. budget.loadFailures - 1 \in 0..MaxLoadFailures
    BY <1>5 DEF ResetLoadFails, Budgets
  <2>2. budget' \in Budgets
    BY <1>5, <2>1 DEF ResetLoadFails, Budgets
  <2> QED
    BY <1>5, <2>2 DEF ResetLoadFails, process, signals, adapter
<1>6. CASE ResetWaits
  BY <1>6 DEF ResetWaits, process, signals, adapter
<1>7. CASE StartService
  BY <1>7 DEF StartService, Go, Keep, Steps, process, signals, adapter
<1>8. CASE StopServiceFails
  <2>1. budget' \in Budgets
    BY <1>8 DEF StopServiceFails, Budgets
  <2> QED
    BY <1>8, <2>1 DEF StopServiceFails, process, signals, adapter
<1> QED
  BY <1>1, <1>2, <1>3, <1>4, <1>5, <1>6, <1>7, <1>8 DEF Reset

\* systemd, the adapter and the clock.
LEMMA SurroundingsTypes ==
    ASSUME TypeOK, Start \/ Stop \/ Kill \/ Unplug \/ Plug \/ Enumerate \/ PassTime
    PROVE  TypeOK'
<1> USE TimesAreNatural DEF TypeOK
<1>1. CASE Start
  BY <1>1 DEF Start, Go, Keep, signals, adapter, Steps
<1>2. CASE Stop
  BY <1>2 DEF Stop, process, adapter, Budgets
<1>3. CASE Kill
  BY <1>3, ExitTypes DEF Kill, Steps
<1>4. CASE Unplug
  <2>1. budget' \in Budgets
    BY <1>4 DEF Unplug, Budgets
  <2>2. link' \in {"none", "live", "dead"}
    BY <1>4 DEF Unplug
  <2> QED
    BY <1>4, <2>1, <2>2 DEF Unplug, signals
<1>5. CASE Plug
  BY <1>5 DEF Plug, process, signals
<1>6. CASE Enumerate
  BY <1>6 DEF Enumerate, process, signals
<1>7. CASE PassTime
  BY <1>7 DEF PassTime, adapter
<1> QED
  BY <1>1, <1>2, <1>3, <1>4, <1>5, <1>6, <1>7

\* Every variable keeps its type, whatever the delays and the bounds are.
THEOREM TypeCorrect == Spec => []TypeOK
<1>1. Init => TypeOK
  <2> SUFFICES ASSUME Init PROVE TypeOK
    OBVIOUS
  <2>1. plugged \in BOOLEAN
    BY DEF Init
  <2>2. present \in BOOLEAN /\ deaf \in BOOLEAN
    BY <2>1, Zenon DEF Init
  <2>3. budget \in Budgets
    BY TimesAreNatural DEF Init, Budgets
  <2>4. /\ pc = "down" /\ wait = 0 /\ stopping = FALSE /\ stopIn = StopTime
        /\ node = FALSE /\ link = "none" /\ attempt = 0 /\ reloads = 0
        /\ loaded = TRUE /\ monitor = FALSE /\ script = "idle"
    BY Zenon DEF Init
  <2>5. /\ pc \in Steps /\ wait \in Nat /\ stopIn \in 0..StopTime
        /\ attempt \in Nat /\ reloads \in 0..MaxDeafReloads /\ script \in ScriptSteps
    BY <2>4, TimesAreNatural DEF Steps, ScriptSteps
  <2>6. /\ stopping \in BOOLEAN /\ node \in BOOLEAN /\ link \in {"none", "live", "dead"}
        /\ loaded \in BOOLEAN /\ monitor \in BOOLEAN
    BY <2>4, Zenon
  <2> QED
    BY <2>1, <2>2, <2>3, <2>5, <2>6, Zenon DEF TypeOK
<1>2. TypeOK /\ [Next]_vars => TypeOK'
  <2>1. TypeOK /\ UNCHANGED vars => TypeOK'
    BY DEF TypeOK, vars, process, signals, adapter
  <2> QED
    BY <2>1, BringUpTypes, ReloadTypes, RunTypes, ScriptTypes, SurroundingsTypes DEF Next
<1> QED
  BY <1>1, <1>2, PTL DEF Spec

LEMMA RetryInTime ==
    ASSUME TypeOK, InTime, Retry, UNCHANGED signals,
           node /\ stopping => CommandTime + RestTime + 1 <= stopIn
    PROVE  InTime'
<1>1. stopIn' = stopIn /\ stopping' = stopping /\ node' = node /\ pc' = "seek"
  BY DEF signals, Retry, Go, Keep
<1>2. node => wait' = CommandTime + RestTime
  BY DEF Retry, Go
<1> QED
  BY <1>1, <1>2, TimesAreNatural DEF InTime, NodeInTime, ReloadInTime, Lasts, TypeOK

LEMMA ExitInTime ==
    ASSUME NEW step \in {"down", "stopped"}, NEW seconds \in Nat, Exit(step, seconds)
    PROVE  InTime'
BY DEF Exit, Go, InTime, NodeInTime, ReloadInTime, Lasts

LEMMA BringUpInTime == TypeOK /\ InTime /\ BringUp => InTime'
<1> SUFFICES ASSUME TypeOK, InTime, BringUp PROVE InTime'
  OBVIOUS
<1> USE TimesAreNatural, StopTimeAssumption
        DEF TypeOK, InTime, NodeInTime, ReloadInTime, Lasts, At, Go, Keep, signals
<1>1. CASE Seek
  BY <1>1 DEF Seek
<1>2. CASE SeekStopped
  BY <1>2, ExitInTime DEF SeekStopped, Ends
<1>3. CASE Probe
  <2>1. CASE Retry
    BY <1>3, <2>1, RetryInTime DEF Probe
  <2>2. CASE ~Retry
    BY <1>3, <2>2 DEF Probe
  <2> QED
    BY <2>1, <2>2
<1>4. CASE Configure
  BY <1>4 DEF Configure
<1>5. CASE ConfigureFails
  BY <1>5, RetryInTime DEF ConfigureFails
<1> QED
  BY <1>1, <1>2, <1>3, <1>4, <1>5 DEF BringUp

LEMMA ReloadInTimeStep == TypeOK /\ InTime /\ Reload => InTime'
<1> SUFFICES ASSUME TypeOK, InTime, Reload PROVE InTime'
  OBVIOUS
<1> USE TimesAreNatural, StopTimeAssumption
        DEF TypeOK, InTime, NodeInTime, ReloadInTime, Lasts, At, Go, Keep, signals
<1>1. CASE ListenHears
  BY <1>1 DEF ListenHears
<1>2. CASE ListenDeaf
  BY <1>2 DEF ListenDeaf
<1>3. CASE UnloadBusy
  BY <1>3 DEF UnloadBusy
<1>4. CASE Unload
  BY <1>4 DEF Unload
<1>5. CASE Load
  BY <1>5 DEF Load
<1>6. CASE LoadFails
  BY <1>6 DEF LoadFails
<1>7. CASE Reappear
  BY <1>7 DEF Reappear
<1> QED
  BY <1>1, <1>2, <1>3, <1>4, <1>5, <1>6, <1>7 DEF Reload

LEMMA RunInTime == TypeOK /\ InTime /\ Run => InTime'
<1> SUFFICES ASSUME TypeOK, InTime, Run PROVE InTime'
  OBVIOUS
<1> USE TimesAreNatural, StopTimeAssumption
        DEF TypeOK, InTime, NodeInTime, ReloadInTime, Lasts, At, Go, Keep, signals
<1>1. CASE Open
  BY <1>1 DEF Open
<1>2. CASE OpenFails
  BY <1>2, ExitInTime DEF OpenFails, Ends
<1>3. CASE OpenStopped
  BY <1>3, ExitInTime DEF OpenStopped, Ends
<1>4. CASE Reopen
  BY <1>4 DEF Reopen
<1>5. CASE ReopenFails
  BY <1>5, RetryInTime DEF ReopenFails
<1>6. CASE Poll
  BY <1>6 DEF Poll
<1>7. CASE PollFails
  BY <1>7 DEF PollFails
<1>8. CASE Shutdown
  BY <1>8, ExitInTime DEF Shutdown, Ends
<1> QED
  BY <1>1, <1>2, <1>3, <1>4, <1>5, <1>6, <1>7, <1>8 DEF Run

\* The script's stop is a stop like any other, and it starts a process afresh.
LEMMA ScriptInTime == TypeOK /\ InTime /\ (Diagnose \/ Reset) => InTime'
<1> SUFFICES ASSUME TypeOK, InTime, Diagnose \/ Reset PROVE InTime'
  OBVIOUS
<1> USE TimesAreNatural, StopTimeAssumption
        DEF TypeOK, InTime, NodeInTime, ReloadInTime, Lasts
<1>1. CASE Diagnose
  <2>1. CASE Exit("stopped", 0)
    BY <2>1, ExitInTime
  <2>2. CASE UNCHANGED <<process, signals>>
    BY <2>2 DEF process, signals
  <2>3. CASE stopping' = TRUE /\ UNCHANGED <<process, stopIn>>
    BY <2>3 DEF process
  <2> QED
    BY <1>1, <2>1, <2>2, <2>3 DEF Diagnose, StopService
<1>2. CASE \/ ServiceStopped \/ StopServiceFails \/ ResetUnloads \/ ResetLoads
           \/ ResetLoadFails \/ ResetWaits
  <2>1. UNCHANGED <<pc, wait, node, stopping, stopIn>>
    BY <1>2 DEF ServiceStopped, StopServiceFails, ResetUnloads, ResetLoads, ResetLoadFails,
                ResetWaits, process, signals
  <2> QED
    BY <2>1
<1>3. CASE StartService
  BY <1>3 DEF StartService, Go, Keep, process, signals
<1> QED
  BY <1>1, <1>2, <1>3 DEF Reset

\* A stop finds every step within the time it allows; the clock takes a second
\* from the wait and from what systemd gives alike.
LEMMA SurroundingsInTime ==
    ASSUME TypeOK, InTime, Start \/ Stop \/ Kill \/ Unplug \/ Plug \/ Enumerate \/ PassTime
    PROVE  InTime'
<1> USE TimesAreNatural, StopTimeAssumption
        DEF TypeOK, InTime, NodeInTime, ReloadInTime, Lasts
<1>1. CASE Start
  BY <1>1 DEF Start, Go, Keep, signals
<1>2. CASE Stop
  BY <1>2 DEF Stop, process
<1>3. CASE Kill
  BY <1>3, ExitInTime DEF Kill, Ends
<1>4. CASE Unplug
  BY <1>4 DEF Unplug, signals
<1>5. CASE Plug
  BY <1>5 DEF Plug, process, signals
<1>6. CASE Enumerate
  BY <1>6 DEF Enumerate, process, signals
<1>7. CASE PassTime
  BY <1>7 DEF PassTime
<1> QED
  BY <1>1, <1>2, <1>3, <1>4, <1>5, <1>6, <1>7

\* The sleeps ahead of a stopping process fit into what is left of its time.
THEOREM WaitsInTime == Spec => []InTime
<1>1. Init => InTime
  BY Zenon DEF Init, InTime, NodeInTime, ReloadInTime, Lasts
<1>2. TypeOK /\ InTime /\ [Next]_vars => InTime'
  <2>1. InTime /\ UNCHANGED vars => InTime'
    BY DEF InTime, NodeInTime, ReloadInTime, Lasts, vars, process, signals
  <2> QED
    BY <2>1, BringUpInTime, ReloadInTimeStep, RunInTime, ScriptInTime, SurroundingsInTime DEF Next
<1> QED
  BY <1>1, <1>2, TypeCorrect, PTL DEF Spec

\* A daemon that holds routes is stopped before systemd's patience ends, so the
\* routes that are buffered reach the disk.
THEOREM HoldersAreNotKilled == Spec => []NodeIsNotKilled
<1>1. TypeOK /\ InTime => NodeIsNotKilled
  BY TimesAreNatural DEF TypeOK, InTime, NodeInTime, Lasts, NodeIsNotKilled
<1> QED
  BY <1>1, TypeCorrect, WaitsInTime, PTL

\* Between unloading the driver and loading it a stop does not become a kill, so
\* the driver is put back unless loading it fails: also where laptopreset and
\* the daemon reload it at the same time, because the stop of the service failed
\* or someone started it.
THEOREM DriverReturns == Spec => []DriverIsPutBack
<1>1. Init => DriverIsPutBack
  BY Zenon DEF Init, DriverIsPutBack
<1>2. TypeOK /\ InTime /\ DriverIsPutBack /\ [Next]_vars => DriverIsPutBack'
  <2> SUFFICES ASSUME TypeOK, InTime, DriverIsPutBack, [Next]_vars
               PROVE  DriverIsPutBack'
    OBVIOUS
  <2> USE DEF DriverIsPutBack, NoLoadFailed, TypeOK
  <2>1. CASE BringUp
    <3>1. pc # "load" /\ loaded' = loaded /\ script' = script
      BY <2>1 DEF BringUp, Seek, SeekStopped, Probe, Configure, ConfigureFails, Ends, At, adapter
    <3>2. budget'.loadFailures = budget.loadFailures
      BY <2>1 DEF BringUp, Seek, SeekStopped, Probe, Configure, ConfigureFails, Ends, Budgets
    <3> QED
      BY <3>1, <3>2
  <2>2. CASE Reload
    <3>1. CASE Load
      <4>1. loaded' = TRUE
        BY <3>1 DEF Load, PutBack
      <4> QED
        BY <4>1, Zenon
    <3>2. CASE LoadFails
      BY <3>2, TimesAreNatural DEF LoadFails, At, adapter, Budgets
    <3>3. CASE ListenHears \/ ListenDeaf \/ UnloadBusy \/ Reappear
      BY <3>3 DEF ListenHears, ListenDeaf, UnloadBusy, Reappear, At, Go, Keep, adapter
    <3>4. CASE Unload
      BY <3>4 DEF Unload, At, Go
    <3> QED
      BY <2>2, <3>1, <3>2, <3>3, <3>4 DEF Reload
  <2>3. CASE Run
    BY <2>3 DEF Run, Open, OpenFails, OpenStopped, Reopen, ReopenFails, Poll, PollFails,
                Shutdown, Retry, Ends, Exit, At, Go, Keep, adapter
  <2>4. CASE Start
    BY <2>4 DEF Start, Go, Keep, At, adapter
  <2>5. CASE Stop
    BY <2>5 DEF Stop, process, adapter
  <2>6. CASE Kill
    <3>1. pc # "load"
      BY <2>6, TimesAreNatural DEF Kill, InTime, NodeInTime, ReloadInTime, Lasts
    <3> QED
      BY <2>6, <3>1 DEF Kill, Ends, adapter
  <2>7. CASE Unplug
    BY <2>7 DEF Unplug
  <2>8. CASE Plug
    BY <2>8 DEF Plug, process
  <2>9. CASE Enumerate
    BY <2>9 DEF Enumerate, process
  <2>10. CASE PassTime
    BY <2>10 DEF PassTime, adapter
  <2>11. CASE UNCHANGED vars
    BY <2>11 DEF vars, process, adapter
  <2>12. CASE Diagnose
    <3>1. UNCHANGED adapter /\ budget'.loadFailures = budget.loadFailures
      BY <2>12 DEF Diagnose, Budgets
    <3>2. script # "load" /\ (pc = "load" => pc' = "load")
      BY <2>12 DEF Diagnose, StopService, process
    <3> QED
      BY <3>1, <3>2 DEF adapter
  <2>13. CASE Reset
    <3>1. CASE ServiceStopped
      BY <3>1 DEF ServiceStopped, process, adapter
    <3>2. CASE ResetUnloads
      BY <3>2 DEF ResetUnloads
    <3>3. CASE ResetLoads
      <4>1. loaded' = TRUE
        BY <3>3 DEF ResetLoads, PutBack
      <4> QED
        BY <4>1, Zenon
    <3>4. CASE ResetLoadFails
      BY <3>4, TimesAreNatural DEF ResetLoadFails, adapter, Budgets
    <3>5. CASE ResetWaits
      BY <3>5 DEF ResetWaits, process, adapter
    <3>6. CASE StartService
      <4>1. pc = "load" => pc' = "load"
        BY <3>6 DEF StartService, process
      <4>2. script # "load" /\ UNCHANGED <<adapter, budget>>
        BY <3>6 DEF StartService
      <4> QED
        BY <4>1, <4>2 DEF adapter
    <3>7. CASE StopServiceFails
      <4>1. budget'.loadFailures = budget.loadFailures
        BY <3>7 DEF StopServiceFails, Budgets
      <4> QED
        BY <3>7, <4>1 DEF StopServiceFails, process, adapter
    <3> QED
      BY <2>13, <3>1, <3>2, <3>3, <3>4, <3>5, <3>6, <3>7 DEF Reset
  <2> QED
    BY <2>1, <2>2, <2>3, <2>4, <2>5, <2>6, <2>7, <2>8, <2>9, <2>10, <2>11, <2>12, <2>13 DEF Next
<1> QED
  BY <1>1, <1>2, TypeCorrect, WaitsInTime, PTL DEF Spec
=============================================================================
