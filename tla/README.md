# beachedmesh in TLA+

A verification project for beachedmesh, a LoRa-style mesh over injected 802.11
frames: signed announces are flooded hop by hop, every node learns from the
copies which neighbour to hand traffic to, and a daemon keeps the radio and the
tables alive. The modules here are translated from `src/beachedmesh` and
`src/bin`; TLC checks them on small instances, and TLAPS proves the central
results for all instances.

    tlc -workers 2 -config Mesh.cfg MeshMC.tla           # one run
    tlapm MeshProofs.tla                                 # its proofs

- [1. The system](#1-the-system)
- [2. Modules](#2-modules)
- [3. Runs](#3-runs)
- [4. What the runs found](#4-what-the-runs-found)
- [5. Proofs](#5-proofs)
- [6. Not modelled](#6-not-modelled)
- [7. Plan](#7-plan)

## 1. The system

One process per machine, `bin/beachedmesh`, runs one thread: a loop around
`Node.poll`, which reads one frame, lets the flooder and the route table react,
sends the relays that are due, announces the node when it is time, ticks the
table, and serves the clients of the control socket. Concurrency is between nodes
(radio frames), between the process and systemd (signals, kill, restart), and
between the process, `bin/beachedmesh-laptopreset` and the adapter (which comes,
goes, and turns deaf).

| component | state | operations | hard part | what makes it correct |
|---|---|---|---|---|
| flooder, `flood.py` | seen cache (LRU with ages), relays waiting | `on_receive`, `due`, `relay_delay` | order of the tests; cache full or aged while copies are in the air; neighbours that cancel each other | relay once, never one's own; the far ones first; what is cancelled is covered by others, and leaves out only whom nobody else reaches; every relay ends |
| route table and cold store, `routes.py` | hot LRU, settling candidates, write buffer, SQLite rows | `learn`, `tick`, `next_hop`, `expire`, `warm`, `close` | copies of a flood in any order; windows of wall-clock time; three places that hold one row; crash | latest announce wins, best copy of it; one map in memory, buffer and disk; keys not lost; LRU order |
| node, `node.py` | flooder, table, link, time of the next announce | `poll`, `_handle`, `send_announce` | calls that block; rejected announces; sends that fail; many nodes at once | how late relays and announces are; what is lost and learned; routes lead to the destination, without loops; floods end |
| link, `link.py` | socket | `send`, `recv`, `close` | radiotap headers of many drivers; device vanishes under the socket | what was sent is received; an error reaches the daemon |
| packet and announce, `frame.py`, `identity.py` | key file | build, parse, sign, verify, relay | a packet changed on the way, or relayed over several hops | only what was signed is learned; only the hops change |
| daemon, `bin/beachedmesh`, `adapter.py`, `recover.py` | node, link, stop flag, attempts, reloads | bring-up, listen check, driver reload, main loop, recovery, shutdown | sleeps that signals do not cut short; driver out between two commands; adapter changing at any moment | stops before systemd kills it; driver put back; comes back by itself |
| `bin/beachedmesh-laptopreset` | service and driver | diagnose, stop, reload, start | reloads the driver that the daemon uses, whether or not its stop succeeded; fails between stop and start | driver put back; node comes back |
| control socket, `control.py` | clients | `poll`, `announce`, queries | a slow client holds the loop | clients served, loop keeps turning |
| setup and uninstall, `bin/beachedmesh-setup`, `-uninstall`, `identity.py` | key file, udev rules, unit file, interface names | `setup_identity`, `rename_iface`, `write_rule`, `install_service`, uninstall | power loss between steps and inside file writes; adapters absent or renamed | names exclusive and stable over a reboot; no service without identity |
| `-announce`, `-monitor`, `-routes`, `cli.py` | none of the mesh's | display, requests | none | none |

Interactions: `Node._handle` passes each announce to `Flooder.on_receive`, then
to `RouteTable.learn` (also a duplicate: every copy is evidence of a path);
`Node.poll` sends what `Flooder.due` returns and calls `RouteTable.tick`; the
daemon replaces `node.link` after an `OSError` and keeps the rest of the node; a
client of the control socket may have an announce sent; on shutdown `Node.close`
flushes the table. Setup writes what the daemon's unit starts with.

The hazards, each at its line, are listed under `hazards` in `PROJECT.json` with
the properties that would catch them.

## 2. Modules

| module | models | of the code |
|---|---|---|
| `FloodParams`, `Flood` | the flooder of one node, with time, and what both it and the loop are started with | `flood.py`, `Node.send_announce` |
| `Node`, `NodeMC` | the loop of one node around its flooder, with the calls that block | `node.py`, `control.py`, the main loop of `bin/beachedmesh` |
| `Wire`, `WireMC` | one announce from hop to hop, headers included | `identity.py`, `frame.py`, `link.py` |
| `RouteMap` | what a route table promises: one map, and what of it is saved | (abstract) |
| `Routes`, `RoutesMC` | the route table of one node, with time, crash and restart | `routes.py` |
| `Broadcast` | what flooding promises: an announce reaches one node at a time, over a link, and none again that has not forgotten it | (abstract) |
| `OriginTable` | what one origin's announces make of the tables: `learn` by hops, times as a set | `routes.py` |
| `Mesh`, `MeshMC` | several nodes, one origin, frames, topologies, outages | `node.py`, with the flooder reduced to one origin, and `OriginTable`; the recovery of `bin/beachedmesh` |
| `Daemon` | the process, systemd, laptopreset and the adapter, in seconds | `bin/beachedmesh`, `recover.py`, `adapter.py`, `bin/beachedmesh-laptopreset`, the unit |
| `Setup` | installation, uninstallation, udev, reboot | `bin/beachedmesh-setup`, `-uninstall`, `identity.py` |
| `FloodProofs`, `NodeProofs`, `WireProofs`, `RoutesProofs`, `MeshProofs`, `BroadcastProofs`, `DaemonProofs`, `SetupProofs` | theorems about these | |

Three refinements tie them together. `Node` uses `Flood` as an instance on its own
variables and implements it (`ImplementsFlood`): what `Flood` leaves to
whoever calls it, `node.py` does. `Routes` implements `RouteMap`
(`ImplementsMap`), `Mesh` implements `Broadcast` (`ImplementsBroadcast`), both
under a refinement mapping. And `Mesh` extends `OriginTable`, of which `RoutesProofs`
shows that `Routes` is one for each originator (`OriginsStayApart`).

`PROJECT.json` maps every definition to the lines it stands for. Operators whose
comment begins with "Mistake:" are wrong on purpose and used by no
specification: each is a plausible bug, and replacing the definition below it by
the mistake makes the run report the property named with it in `PROJECT.json`.
Variables declared as history variables serve the properties and guard nothing
but the bounds of the model.

### Flood

`seen` and `stamp` are `SeenCache`'s OrderedDict: the order, and the time each
key was added. `pending` is `Flooder.pending`. One action per way out of
`on_receive`, whose guards are the code's tests in the code's order: `HearOwn`,
`CountCopy`, `CancelRelay`, `HearAgain`, `AcceptLastHop`, `ScheduleRelay`. A hit
refreshes an entry's place (`move_to_end`) and not its age. `Due` takes all
relays that are ready; it may run at any time after a deadline, and `Node` says
how long after. `DelayBands` is the code's table, in milliseconds; a relay waits
any of the delays of its band, rounded up to ticks of `TickMs`, or without a
signal any of the whole contention window. A packet is its dedup key; a copy may
carry any hop count up to `MaxHops` and be heard at any of `Signals`. Our own
packets may come back after the cache has forgotten them. `Flood` has no run of its
own: TLC checks it inside `Node`, which extends the same `FloodParams`.

### Node

`turn` is what the thread does next: read the radio (`"recv"`), take the relays
that are due (`"due"`) and send them one by one (`"send"`), announce
(`"announce"`), accept a client (`"serve"`) and serve it (`"client"`), or, after an
error, wait for the adapter (`"down"`). Only blocking calls take time: `wait` is
what is left of a read's timeout or of a client's; an outage takes any time.
`HandleOwn`, `HandleFirst` and `HandleAgain` are `_handle`, each the conjunction of
a step of the flooder and of what the table learns: of a first copy if it
verifies (`Signed`), of any further copy in any case. Of the table only this is
kept: which announces gave a route (`routed`) and put keys on record (`keyed`).
`batch` is what `due()` has returned and `poll` has yet to send; `SendFails` loses
it. `SendAnnounce` remembers the packet, sends it, and only then puts off the
next. Requests are those that `control.query` sends.

### Wire

A node stands for its keys and its radio's address; a signature is who signed
what, so that none can be forged, and hashes do not collide. Lengths and offsets
are the code's. `Headers` are what a driver may write in front of a frame: any of
`Fields`, in order, each behind its padding, all of it made of `Bytes`, behind up to `MaxChain` further
present words, cut short or not, with the frame's checksum left on or not.
`Received` is `recv`, `parse_radiotap`, `Packet.from_bytes` and
`parse_announce` in a row; `OffsetOf` is the running offset of the parser's loop,
as a recursive function. `Alter` changes one part of a packet once a flight.

### Routes and RouteMap

Times are ticks. A row holds the moment of hearing, a hot entry the whole second
(`int(last_seen)`), which is why `TicksPerSecond` is a parameter. `lru` is the
insertion order of the dict `_hot`. `learn` is one action per verdict;
`AfterBuffer` is what a series of `cold.buffer` calls leaves, with the flush in
the middle when `FLUSH_ENTRIES` rows have gathered; `Tick` is `_settle` and
`maybe_flush` in one step, with the candidates in the order of the dict (ties
in any order). A row replaces an older one and keeps its keys
(`Over`: both the merge in the buffer and the `COALESCE` of the upsert). `Stop`
loses the memory; `Close` writes the buffer first, `Crash` does not; `Start` is
the constructor and `warm`. Keys and name are one Boolean, because they travel
together; `first_seen` and the announce count influence nothing and are left
out. The clock does not step. In the code, two clocks (`time.time` and
`time.monotonic`) measure the windows and the flush; here one clock does.

`RouteMap` is the table as those see it who ask for a next hop: a route per
node, what of it a crash would leave, and a way that waits to replace it. The
mapping looks a route up as the code does, first in the hot table, then in the
buffer, then on disk. Evicting, promoting, warming and flushing are then
stutters or only move `saved` toward `route`.

### Mesh and Broadcast

Any number of nodes; the announces of one of them, `Origin`. `inbox[n]` is the
receive buffer of n's socket: `Transmit` puts the frame into the buffer of every
radio in range, or, as a fault, of any subset. `Receive` is one call of
`_handle`: the flooder's verdict (`CountCopy`, `CancelRelay`, `HearAgain`,
`HearLastHop`, `HearFirst`) together with the table's (`Learn`). Flooder and
table are reduced to what one origin's announces make of them:

- the seen cache is the set `handled`, emptied at the next flood. `Forget` takes a
  node out of it: the key has aged past the cache's 600 seconds, as it does while
  a neighbour's radio is out for longer than that, or newer packets have pushed it
  out. The node then accepts the next copy, learns from it and relays it again.
  `Taken` is all who have ever taken this flood's announce;
- `Learn`, in `OriginTable`, compares hops exactly and lets either of two equally
  long ways be the stronger; `lapsed` is the set of nodes whose route was last
  touched more than `FLOOD_GUARD` ago. That the announces of other origins do not
  meddle is `OriginsStayApart`; that they may push a route out of memory, to be
  found again on disk, is left out;
- contention delays, reads and clients that hold a relay up, and the wait to settle
  are any interleaving, and `GuardRunsOut` lets any node's guard run out at any
  point of a flood. The guard is three seconds counted from a whole second, and
  each relay may be a read of the radio late (`DueInTime`), so that with nothing
  lost or broken three relays outlast it, or two and a client.

A flood ends (`Quiet`) before the next begins: announces are hours apart (a minute
in tests). `Fail` and `Recover` are the daemon's: it waits for the adapter with
`Flooder.pending` as it was, and sends the relay when the adapter is back. What
the socket had received is gone with the socket, and a relay that was just being
sent is lost. Every flood draws its own topology from `Topologies`: between
floods anybody may move. The next announce is made with all relays out and the
origin's radio working (`Announce`); other radios may still be out.
`MaxFaults` bounds together the frames that miss somebody, the radios that fail and
the caches that forget; guards run out without bound.

Of the history variables, `clean` is the number of the first flood that began
after the last late copy: a worse copy of the flood that wrote the route, heard
when the guard has run out (`LateCopy`). What the properties promise of routes,
they promise of those learned from that flood on (`Clean`, `CleanFlood`). `owes`
are the nodes that scheduled a relay and whose radio did not fail, `missed` those
that lost a frame of this flood, `forgot` those whose cache has forgotten it.

In `Broadcast` the set of nodes that took an announce (`reached`) grows one by
one, each node getting it from one in range that took it, and only while it does
not hold it (`holding`). The mapping is `Taken` and `handled`.

### Daemon

`pc` is the next step of the process and `wait` the seconds until the blocking
call in front of it returns; `Stop` sets `stopping` and does not shorten `wait`
(Python resumes `time.sleep` after a handler that returns). The delays are the
code's, in seconds: two between looks for the interface and two when it has
appeared, `LISTEN_SECONDS`, `SETTLE_SECONDS`,
`REAPPEAR_TIMEOUT`, 5 after a failed recovery, `min(60, 5 * attempt)` after a
failed bring-up, `RestartSec`, `TimeoutStopSec`. Assumed: `ip`, `iw` and
`modprobe` together take `CommandTime` per phase; steps between blocking calls
take no time; a socket bound to an interface that is not up fails at its first
use; a driver loaded afresh may or may not cure a deaf radio; pulling the
adapter cures it, and moving it to a port may make it deaf again. The adapter
may be pulled at any moment (`MaxUnplugs`), a configuration may be refused
(`MaxRefusals`), loading may fail (`MaxLoadFailures`), systemd may stop the
daemon (`MaxStops`), and so may `laptopreset`, whose stop may fail
(`MaxStopFailures`). `--no-configure` and `--no-listen-check` are left out.

`script` is what `laptopreset` does next (`MaxResets` of its runs): it looks for
the interface, stops the service, reloads the driver, waits for the interface and
starts the service. `systemctl stop` returns when the service has ended
(`ServiceStopped`) or with an error at any moment (`StopServiceFails`); the
script does not look and goes on. Anybody may start a stopped service at any time
(`Start`), also between the script's steps. Script and daemon may thus reload the
driver at once: each `modprobe` acts on the driver as it then is, and a driver
that goes from under a live link leaves it dead (`ResetUnloads`). The script's
steps take any time, the daemon and the adapter move between any two of them, and
it gives up where the code does. `StartService` waits for a service that is still
stopping and leaves a running one alone, as `systemctl start` does.

### Setup

A step per change that a power loss can separate: the key file is truncated
(`GenerateKey`) and written (`SaveKey`); the interface is renamed
(`RenameIface`), the rules file opened (`OpenRules`) and written (`WriteRules`),
the unit opened, and thereby empty (`OpenUnit`), and written and started
(`InstallService`). An empty unit is no service. `KeepName` is every way through
`rename_iface` that changes nothing. `PowerLoss` and `Abort` end a setup between
two steps, the first with a reboot. The kernel hands out names in any order, and
udev gives a pinned name when nobody else has it. An adapter is its MAC; the
names BCHD*n* are the numbers *n*.

## 3. Runs

Twelve runs; the seven of them that pass fire every action of every module.

| run | instance | checks | states |
|---|---|---|---|
| `Node` | one key that verifies, one that does not, one own; cache of 2, TTL 2, threshold 2; ticks of 500 ms, read 2, client 1, announces every 2, 5 moments; 1 client, 1 failure | `TypeOK`, `RelayOnce`, `RelaysResolve`, `DueInTime`, `RelaysAccounted`, `ImplementsFlood`, `LateAnnounceIsSent`, `ClientsServed` | 414 k |
| `NodeLate` | one foreign key, one own; ticks of 250 ms, read 4, announces every 6, 9 moments; no client, no failure | `PunctualInQuietAir` fails | |
| `NodeUnverified` | the keys of `Node`; no client, no failure | `RoutesAreVerified` fails | |
| `Wire` | 2 nodes, up to 2 hops, radiotap fields 0, 1, 2, 3 and 5, up to 3 present words | `SentIsReceived`, `LearnsWhatWasSigned` | 817 k |
| `RoutesSettle` | 1 node, 2 neighbours, 7 kinds of copies, 2 ticks a second, settle 2, guard 3, 10 moments | `SettlesOnBest`, `HotTracksHearing`, `SettlesResolve` | 238 k |
| `RoutesStore` | 2 interchangeable nodes, 1 hot entry, buffer of 2, TTL 2, 1 restart | `TypeOK`, `HotAgreesWithCold`, `KeysSurvive`, `ImplementsMap` | 503 k |
| `RoutesKeys` | the same | `KeysAreFound` fails | |
| `RoutesWarm` | 3 nodes, 2 hot entries, 1 restart | `EvictsLeastRecentlyUsed` fails | |
| `Mesh` | origin and 3 nodes, 2 topologies, 2 floods, hop limit 2, threshold 1, 2 faults | `TypeOK`, `DescendingRoutes`, `LoopFree`, `RoutesInduct`, `LatestAnnounceWins`, `RelayedOrCovered`, `LeftOutByCancelling`, `ImplementsBroadcast`, `FloodEnds` | 1.1 M |
| `Daemon` | delays of the code but two, 1 pull, 1 refusal, 1 load failure, 1 stop, 1 run of laptopreset, 1 failure of its stop | `TypeOK`, `NodeIsNotKilled`, `DriverIsPutBack`, `RecoversWithDriver`, `ResetBringsBack` | 2.4 M |
| `DaemonLoadFails` | 1 load failure, nothing else | `AlwaysRecovers` fails | |
| `Setup` | 2 adapters, 2 kernel names, 2 cuts, 1 uninstall | `TypeOK`, `PinsAreExclusive`, `ServiceHasIdentity`, `FirstNameSurvivesReboot` | 191 k |

Why the bounds are enough:

- `Node`: a cache of two and three keys is the least that evicts a key whose relay
  waits. `RelayOnce` says what "exactly once" means given the cache: not again
  unless the key aged out or `SeenCapacity` other keys came between, and never
  one's own. Five moments let a key be added, relayed, age past the TTL and come
  again, and see two announces. A failure may come in any turn, also in the
  middle of a batch of two relays or in a client's announce; the client is as slow
  as its timeout allows. A read of two ticks is long enough for a relay to fall
  due at its start. `DueInTime` is tight: a relay that falls due as a read begins
  leaves when the read ends. The order of the delay bands (`FarFirst`) needs ticks
  finer than a run of the loop can have and is left to its proof.
- `NodeLate`: a read of four ticks of 250 ms is the socket's second, and a tick
  `MAX_POLL`.
- `Wire`: fields of every alignment (8, 2 and 1) in front of, between and behind
  the two that the code reads, chained words, headers cut by a byte; two relays;
  every part of a packet changed at any hop.
- `RoutesSettle`: copies zero, one and two hops long, with two signals, win, tie
  and lose on both tests; half-second ticks make the dropped fraction of the hot
  stamp visible; ten moments hold a commit, the guard, a settle and its end.
  `HotTracksHearing` bounds by guard and fraction how far the stamp that
  `expire` reads can be behind the hearing that "is what the 7-day TTL counts".
- `RoutesStore`: one hot entry for two nodes means each is evicted and promoted
  by the other, also in the middle of a settle; a buffer of two flushes in the
  middle of a settle's commits; the TTL falls between two hearings.
- `Mesh`: in the first topology one of two nodes beside the origin has a leaf behind
  it, and either can cancel for the other; in the second the origin stands beside
  what was the leaf, so that every route has to turn round, over two hops and
  round a triangle. With a threshold of one, relays are cancelled as often as
  they can be, and a leaf is left out without any loss. Two faults are two
  frames that miss somebody, or an outage and a cache that forgets meanwhile; a fault in the first flood can leave what the second finds.
  Two hops left are the least for a relay of a relay. The run includes
  `RoutesInduct`, the inductive invariant of the proofs.
- `Daemon`: the constants are the real ones, but for the wait for a reloaded adapter
  (8 seconds for the code's 20) and the longest pause between failed bring-ups (20
  for 60), which only repeat states; the proofs are for any. `StopTimeAssumption`, which TLC
  evaluates on them, is what the properties need of them: the longest sequence
  of waits after a stop (a look for the interface, the pause when it has
  appeared, commands, a failed recovery's five seconds) is 13 s of systemd's
  15, and that up to loading the driver 14. Before a `Node` exists a stop may
  well end in a kill, because a failed bring-up sleeps for up to a minute; nothing
  is buffered then. The one run of the script meets the daemon in any step,
  with the adapter pulled before, in or after it and the service stopped or not.
- `Setup`: two adapters are the least that compete for a name; two cuts let a
  torn rules file be followed by another cut.

Fairness. `Flood`, `Routes` and `Mesh` assume weak fairness of what the poll
loop does on every turn (`Due`, `Tick`, `Receive`, `Relay`, `Settle`) and that
time passes; nothing forces a frame to be sent or received. In `Mesh` it is enough
that these steps, or an adapter's return, do not stop on all nodes at once. For the first of
these `Node` has the reason: the thread takes its next step (weak fairness of
`Run`), the blocking calls end and time passes (strong fairness of `PassTime`,
since the loop may be in a step that takes none at any given moment, but never
turns for ever within one tick), and from this `ImplementsFlood` follows, fairness
of `Due` included. It assumes no fairness of clients or frames. `Node` and `Mesh`
assume that an adapter that failed comes back, without which relays wait for ever.
`Daemon` assumes that the process takes its steps and its blocking calls return,
that systemd restarts (`Restart=always`) a daemon that exited and kills one that
overstays, that the script goes on, that a pulled adapter is plugged in again, and
that the kernel enumerates it. It assumes no fairness of listening: a radio may
stay deaf for ever, and the daemon must come up all the same. `Setup` and `Wire`
have no liveness.

No run switches deadlock checking off: a mesh at rest polls (`IdlePoll`), a node
reads its radio, a table whose clock has stopped still answers, a stopped daemon
may be started, a machine may be rebooted, and another announce may be built.

## 4. What the runs found

- `RoutesKeys`. `ColdStore.get` returns the buffered row as it is, "Full record
  ... Checks the unflushed buffer first". A duplicate of an announce, or a
  settle, buffers a row without keys while the keys are on disk; until the
  flush, `keys_for` says that the node has none.
- `RoutesWarm`. `warm` puts rows in the order of `recent`, newest first, so the
  newest is the first to be evicted, against "the least recently used entry is
  the one evicted". Until a restart the claim is true (`EvictsInOrderOfUse`).
- `DaemonLoadFails`. If `modprobe` fails after `modprobe -r` succeeded,
  `recover_deaf_radio` returns and the bring-up loop waits for an interface
  that cannot appear; nothing loads the driver again. `RecoversWithDriver` shows
  that this is the only way not to recover.

- `NodeLate`. `MAX_POLL`, 0.25 seconds, "caps how late a pending relay or a due
  announce can fire when the air is quiet" (`node.py:29-31`), and a turn of `poll`
  is "sized so the loop wakes before the next pending relay". The time that `poll`
  computes for this (`node.py:141-143`) is not used: `link.recv()` blocks for the
  socket's own second (`link.py:110`). `DueInTime` gives the bound that results.
- `NodeUnverified`. "Every verified announce teaches one thing" (`routes.py:3`), and
  of one that fails to verify one should "never trust the contents after this"
  (`identity.py:44`). But a duplicate is learned without being verified, also if the
  first copy was rejected: the second puts the route into the table all the
  same. `VerifiedOrRejected`, proved, says that this is the only way in, and
  that keys do not come with it.

Met while modelling and not given a run of their own:

- `FLOOD_GUARD` is "well above any straggler" (`routes.py:63-67`) only if relays
  leave when they are due. Each may be a read of the radio late, and the guard
  counts from a whole second, so that three relays outlast it with every radio
  working, or two and a client of the control socket; one that waited out a
  radio's failure does so in any case. To its neighbours a copy past the guard is
  news: they settle on the longer way, and can come to route in a circle. On the
  instance of `Mesh`, `LoopFree` fails without its premise that some route of the
  circle is `Clean`, with no fault at all: b takes the announce from the origin, c
  takes it from b, c's relay comes back to b when b's guard has run out, b settles
  on c, and the two route through each other. With the premise it holds: only
  routes that are no newer than a late copy go round in a circle, and the next
  flood without one opens every circle of which it reaches a node (`FloodsHeal`).
  A circle that no later flood reaches stays until its routes expire.
- "One that appears is known within an announce interval" (`DESIGN.md:175-176`) is
  not so for a node all of whose neighbours hear `RELAY_THRESHOLD` further copies
  while their relays wait: they cancel, and whoever is behind them hears
  nothing of that flood, nor of the next if it goes the same way.
  `LeftOutByCancelling` says that this, the hop limit and failures are all that
  leaves a node out.
- `laptopreset` leaves the service stopped on the paths that fail after it has
  stopped it, and starts a service that had been stopped before; `ResetBringsBack`
  is about the path that succeeds.
- Uninstall removes the udev rule; the interface keeps its BCHD name until the
  next boot. Setup on that name returns early and writes no rule, although the
  uninstaller says "reinstalling writes it again"; after a reboot the service
  waits for a name that nobody has. A setup cut between rename and rule has the
  same effect, which is why `FirstNameSurvivesReboot` is about a machine where
  neither happened.
- `--force-keys` loads the identity that it is to replace, so that it fails on a
  key file cut by a power loss (`LoadFails` has no `force`); and a cut
  `--force-keys` leaves an installed service without a key, the exception in
  `ServiceHasIdentity`.

## 5. Proofs

TLAPS checks every theorem to the last leaf; the assumptions are the named
ASSUMEs of the modules, which TLC evaluates in the runs, and what a theorem
states. Every inductive invariant named below was also checked by TLC on the
instance of its run.

`FloodProofs`, for any keys, signals, capacity, TTL, threshold and length of a
tick:

- `TypeCorrect`: `TypeOK`. The work is in the cache: what deleting, moving to the
  end and trimming do to a duplicate-free sequence, stated as lemmas on
  `Without`, `MoveToEnd` and `Remember`.
- `RelaysOnce`: `RelayOnce`. Counting relays is not inductive by itself: whether
  a key is accepted again depends on the cache, and whether that is forgivable on
  what was used since. `RelayInduct` relates the two: whatever stands behind a key
  in the cache was used since it was (`UsedSince`), so that a key is pushed out
  only after `SeenCapacity` others (an injection of the cache's positions into
  that set, `PushedOut`), and remains so (`LostUnderPressure`); and a relay that
  waits is the first since its key could have been forgotten (`WaitsForTheFirst`).
- `FarLeaveFirst`: `FarFirst`, if a tick is no longer than 5 ms. A relay waits one
  of the delays of its band (`WaitsInBand`), and the bands with their jitter are
  at least 5 ms apart (`BandsAreApart`), which is what rounding up to ticks may
  not use up.
- `CallsKeepTypes`, `CallsRelayOnce`, `CallsFarFirst`: the same without the
  fairness of `Spec`, so that it holds of every caller of the flooder.

`NodeProofs`, for any times, keys, number of clients and failures:

- `RunsTheFlooder`: the safety half of `ImplementsFlood`; the fairness of `Due` is
  TLC's.
- `RelaysOnce`, `FarLeaveFirst`: with it, what `FloodProofs` says of a flooder is
  true of the one in the loop. An instance of that module, whose assumptions
  follow from `NodeAssumption`, has operators that expand to those of `Node`'s
  own instance of `Flood` (`SameBehaviours`), and its theorems are cited.
- `TypeCorrect`: `TypeOK`, the flooder's part from the same instance.
- `NothingLate`: `DueInTime`. `TurnsInTime` says for each turn what may still be
  added before `due()` or the announce is reached again (`Allowance`): nothing
  right after them, then what the clients took, then the read.
- `NoRelayLost`: `RelaysAccounted`, with `BatchInTurn`: outside the turn that sends
  there is no batch, and none of a batch is scheduled again meanwhile.
- `LearnsTheVerified`: `VerifiedOrRejected`, what is left of the claim that
  `NodeUnverified` refutes, with `HeardIsKnown`: what is cached or
  waits was heard first, and what was heard first was verified or rejected.

`WireProofs`, for any nodes, names, bytes, hop limits, radiotap fields and length of
the chain of present words, and any number of relays. It is assumed that names are
made of `Bytes` and that `Nothing` is no packet with its meta data.

- `Inductive`: `WireInduct`. A packet holds its originator's signature, or one that
  nobody made; who verifies against the first verifies every field that it
  covers; what a driver wrote is one of `Headers`, and what was received is what
  `Received` makes of it.
- `SentBytesAreReceived`: `SentIsReceived`. The parser's offsets (`OffsetOf`) and the
  driver's layout (`HeaderBytes`) are recursive functions over the seven fields.
  With no induction to reason about them, their seven values are written down one
  from the other (`UptoSteps`, `OffSteps`), and the parser's offset of a field
  is followed, field by field, to be the place where the driver wrote it
  (`FieldsFound`): both skip the same padding. What is read there is the field's
  value or, in a header that was cut before it, nothing (`FieldRead`), so that
  checksum and signal are right (`ChecksumStripped`, `ReadingsAre`).
- `LearnedIsSigned`: `LearnsWhatWasSigned`, both halves: nothing but what was
  signed is learned (`VerifiedIsSigned`), and what nobody changed is learned.

`RoutesProofs`, for any finite set of nodes, any neighbours, hops, signals, times,
sizes of the hot table and of the write buffer, crashes and restarts:

- `TypeCorrect`: `TypeOK`. That `lru` holds exactly the entries of the hot table,
  each once (`RecencyOK`), is an invariant of the sequence: what taking entries
  out, putting them at the end and evicting from the front do to it.
- `EvictsInOrderOfUse`: what `EvictsLeastRecentlyUsed` claims, for every step until
  the first restart. The order in the table is the order of use (`InOrder`) as
  long as nothing was warmed up, which `RoutesWarm` shows to break it.
- `StoreInductive`: `StoreInduct`, the invariant behind the others. The core is what
  a series of `cold.buffer` calls does whatever it flushes in between (`Writes`,
  `BufferWrites`): the rows written are found afterwards, the others as before,
  what reaches the disk was or is found, and no keys are lost. Which entries the
  hot table evicts plays no part: an entry stays as it was or goes.
- `MemoryAgreesWithRecord`: `HotAgreesWithCold`, a conjunct of it. That `expire`
  leaves no entry in memory whose row it deletes needs that a stamp in memory is
  never later than the one on record.
- `HearingsAreTracked`: `HotTracksHearing`. A look-up that promotes a row brings
  back the last hearing, because every verdict of `learn` puts it on record
  (`HearingOnRecord`).
- `SettlesTakeTheBest`: `SettlesOnBest`, with `CopiesInduct`; that of two copies the
  better replaces the other suffices because "beats" is transitive (`BeatsAll`).
- `KeysAreKept`: `KeysSurvive`, an action property, from `Writes`.
- `TableImplementsMap`: `ImplementsMap`, the refinement. With memory and record
  in agreement, what is found is the record alone (`FoundIsRecord`), and each action
  of `Routes` is one of `RouteMap` or a stutter; that a worse way only ever waits
  for a shorter route to lapse is `HeldIsFarther`.
- `OriginsStayApart`: `OriginsApart`, an action property that relates `Routes` to the
  table in `Mesh`. `Table(o)` reads an `OriginTable` for the originator `o` off the
  state: its route, with the second of its stamp for a flood, its candidate, and
  whether the guard has run out. A copy of an announce of `o` does to it what
  `OriginTable` says (`LearnApart`), a settle is its `Commit`, and any other
  step leaves the route, loses it from memory, or finds it as it is on record.
  What was just written must be inside the guard, for which the seconds of the
  stamps may not be coarser than the guard (`WrittenIsGuarded`), and it must not
  be evicted in the same step, which it is not as the newest (`PutStays`). It
  assumes `FloodGuard >= TicksPerSecond - 1` (30 seconds in the code), and that
  `None` is no record of a route. No run lists the property; TLC found it to hold
  on the instances of `RoutesSettle` and `RoutesStore`.

`MeshProofs`, for any nodes, topologies, hop limit, threshold, number of floods and
number of faults, with guards that run out anywhere:

- `TypeCorrect`: `TypeOK`.
- `RoutesInductive`: `RoutesInduct`. `DescendingRoutes` is not inductive: it speaks
  of routes alone, while a step makes routes out of frames and of candidates.
  `RoutesInduct` says of everything a node has passed on, or is about to (a
  frame in any buffer, a relay that waits, a candidate), that the node can itself
  deliver it in fewer hops, by its route of this flood or by its own candidate
  (`Serves`). Two more facts close it: a node whose guard runs has a route of this
  flood, and a candidate is farther than the route it waits to replace and that is
  of an older flood. A worse copy is then a straggler within the guard, news
  about an older route, or late, and a late copy ends the claim. Hop counts within
  a flood only fall, and whatever pointed through the node stays served. The
  proof goes through `learn`'s four outcomes once (lemmas), then through the
  flooder's. All of this (`FloodServed`) is lost with a late copy, and not to be
  had back within that flood. So the invariant claims it of a flood that has had
  none so far, and of every flood only that no route is newer than it and that
  guards run on its own routes. From that much `AnnounceInduct` starts the next
  one: it finds nothing under way, all routes older than itself, and no `Clean`
  one unless the flood before had no late copy, in which case those are sound
  already. Losses, outages and caches that forget need no exception: what they
  make is another order of copies.
- `RoutesDescend`: `DescendingRoutes` follows from the invariant in every state: in
  a flood that had a late copy there is no `Clean` route.
- `RoutesLeadOut`: `LoopFree`. Of a set of nodes with routes one has the newest
  route and, among those, the shortest (`SomeNodeIsFirst`: times and hop counts
  are natural numbers, and a set of those has a least); by `RoutesDescend` the node
  its route points to would be ahead of it, so it is not in the set. That
  route is `Clean` if any of the set is, being as new.
- `LatestWins`: `LatestAnnounceWins`, with `TakenLatest`: who has taken the present
  flood's announce routes by it or settles. A copy that changes nothing finds a
  route of this flood, for else the guard would not run. Nothing is excepted, late
  copies neither.
- `FloodsHeal`: when a flood without a late copy has died down, no circle of routes
  goes through a node that took it, whatever earlier floods and failures left
  behind. By `LatestWins` such a node's route is of this flood, hence `Clean`,
  and `RoutesLeadOut` applies to the circle.

`BroadcastProofs`, with losses, outages and caches that forget:

- `FloodInductive`: whoever's frame is in a buffer or waits to be relayed has taken
  the announce, and its receiver was in range; from it
- `Implementation`: `ImplementsBroadcast`.
- `RelaysCovered`: `RelayedOrCovered`. That nobody relays twice but who has
  forgotten is `RelaysTaken`. As long as nobody has, a node hears each neighbour
  at most once, because whoever was heard has relayed, and a relay that waits
  belongs to a node that has not (`HeardOnce`); so the copies counted by a relay
  were as many nodes (`CopiesCounted`).
- `LeftOut`: `LeftOutByCancelling`, with `SentIsHeard`: who is in range of a node
  that sent has taken the announce, has something to read, or missed a frame.
  When nothing is left to read, a node that did neither has no neighbour that
  sent, and those that scheduled a relay are covered, by `RelaysCovered`.
- `FloodsStayNear`: nobody takes an announce, or routes by it, whom `HopLimit + 1`
  transmissions do not reach. A copy has used up as many hops as it has come
  (`NearInduct`).

`DaemonProofs`, for any delays that satisfy `StopTimeAssumption`, and any number
of pulls, refusals, failures, stops and runs of the script:

- `TypeCorrect`: `TypeOK`.
- `WaitsInTime`: `InTime`, the inductive invariant. It bounds at each step the
  wait before it, and says that, once the process is stopping, this wait and
  those that can still follow (`left`) fit into what systemd has left. Every move
  from one step to the next spends the difference; `Stop`, which may find the
  process anywhere, needs `StopTimeAssumption`; `PassTime` takes the same second
  from both sides.
- `HoldersAreNotKilled`: `NodeIsNotKilled`, from `InTime`.
- `DriverReturns`: `DriverIsPutBack`, inductive together with `InTime`, which
  excludes a kill between unloading and loading. Daemon and script may both be
  between the two; the one that loads last finds the driver loaded.

`SetupProofs`, for any adapters, kernel names and number of cuts:

- `TypeCorrect`: `TypeOK`. That a free name exists at all, so that `CHOOSE` finds
  the least, is an argument on cardinalities: fewer names are taken than exist.
- `PinsStayExclusive`: `PinsAreExclusive`, with `PinsInduct` about the names a
  setup has in hand between its rename and its rule, written or still to be
  written.
- `ServicesHaveIdentity`: `ServiceHasIdentity`, with `IdentityInduct`: past the
  step that makes the key, a setup has one.
- `NamesSurviveReboots`: `FirstNameSurvivesReboot`, an action property. Until a
  setup is cut or an adapter uninstalled, an adapter whose service was installed
  under a name of ours has a rule that pins it to that name, or is in the hands of a
  setup that is about to write it (`NamesArePinned`); at boot the rule decides.

So every invariant and every action property that a passing run checks is stated
by a theorem. Checked by TLC only is liveness, since fairness and ENABLED are beyond
the prover: `RelaysResolve`, `LateAnnounceIsSent`, `ClientsServed`, the fairness
of `ImplementsFlood`, `SettlesResolve`, `FloodEnds`, `RecoversWithDriver` and
`ResetBringsBack`. So are, by nature, the failing runs: their counterexamples are
instances. `FarFirst`, `VerifiedOrRejected` and `FloodsStayNear` are proved and in
no run; `TypeOK` of `Wire` documents the types of its variables.

## 6. Not modelled

- `bin/beachedmesh-announce`, `-monitor`, `-routes` and `cli.py`: display, and
  front ends of what is modelled.
- The statistics, the announce counts, `first_seen`, what queries of the control
  socket render, and the table without a database (`cold = None`).
- Data and acknowledgement packets and `shared_secret`: nothing in the repository
  calls them.
- The radiotap header of transmitted frames, a constant.
- That hop limit and packet id are outside the signature: a changed hop limit is
  one of the alterations of `Wire`, but what it does to routes and to the seen
  caches of a mesh is not followed further.
- Requests on the control socket other than those `control.query` sends.
- An interruption of `laptopreset`.
- Announces within `FLOOD_GUARD` of each other, which a client of the control socket
  or `beachedmesh-announce` can ask for, and a relay that an outage holds until the
  next announce: a flood of `Mesh` ends before the next begins.
- Writes that reach the file but not yet the disk: `Identity.save` does not call
  `fsync`, and in `Setup` what is written is kept.
- Clocks that step: under one no window holds anything back, and the code claims
  nothing.
- Nodes with different hop limits: distances are then off by the difference and
  route descent fails. Services start with the default.

## 7. Plan

Done: the modules, runs and theorems above. What is left, in this order:

1. `Mesh` with several origins, whose announces compete for a hot table with fewer
   entries than there are nodes: a composition of `Mesh` and `Routes`.
2. `Mesh` with hop limits that differ between nodes, and `Routes` with a clock
   that is set back or forth, to say what does survive.
