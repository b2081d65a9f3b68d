------------------------------- MODULE Node --------------------------------
(***************************************************************************)
(* The loop of one node: Node.poll (node.py) with the flooder of module    *)
(* Flood in it, the radio socket it blocks on (link.py), the control       *)
(* socket it serves between two polls (control.py), and the recovery of    *)
(* the radio around both (bin/beachedmesh).                                *)
(*                                                                         *)
(* One thread does everything, so that only blocking calls take time: a    *)
(* read of the radio, a client of the control socket, an outage.  Every    *)
(* key is an announce; of the route table only what it owes to whether an  *)
(* announce was verified is kept.  Requests are those that control.query   *)
(* sends.                                                                  *)
(***************************************************************************)
EXTENDS FloodParams

CONSTANTS
    \* In ticks:
    RecvTime,       \* timeout of the radio socket
    ClientTime,     \* longest that one client holds the loop
    Interval,       \* announce_interval
    Signed,         \* the keys of announces that verify
    MaxClients, MaxFailures     \* bounds of the model

VARIABLES
    now, seen, stamp, pending, known, since, relays,    \* of Flood
    turn,           \* what the thread does next
    wait,           \* ticks until its blocking call returns
    link,           \* node.link: "live" or "dead"
    batch,          \* relays that due() has returned and poll has yet to send
    nextAnnounce,   \* Node._next_announce
    routed,         \* announces whose originator has a route
    keyed,          \* announces whose keys are on record
    clients,        \* connections that wait to be accepted
    \* History variables: they guard no action but by their bounds.
    rejected,       \* announces that did not verify
    aired,          \* when the last announce was sent
    owed,           \* relays that were scheduled, until their fate is known
    served,         \* clients accepted since the last turn of poll
    callers, failures

Flooder == INSTANCE Flood

flood   == <<now, seen, stamp, pending, known, since, relays>>
table   == <<routed, keyed, rejected>>
control == <<clients, served, callers>>
vars    == <<flood, turn, wait, link, batch, nextAnnounce, aired, table, control,
             owed, failures>>

ASSUME NodeAssumption ==
    /\ Signed \subseteq Keys
    /\ RecvTime \in Nat \ {0} /\ ClientTime \in Nat \ {0}
    /\ Interval \in Nat \ {0} /\ MaxClients \in Nat /\ MaxFailures \in Nat

Go(step, ticks) == turn' = step /\ wait' = ticks

(***************************************************************************)
(* MonitorLink.recv and Node._handle                                       *)
(***************************************************************************)
\* Mistake: due() is in the branch for a packet of ours.
RecvNothingUndue ==
    /\ turn = "recv" /\ link = "live"
    /\ Go("announce", 0)
    /\ UNCHANGED <<flood, link, batch, nextAnnounce, aired, table, control, owed, failures>>

\* The timeout, or a frame that is not ours or is malformed, at any layer.
RecvNothing ==
    /\ turn = "recv" /\ link = "live"
    /\ Go("due", 0)
    /\ UNCHANGED <<flood, link, batch, nextAnnounce, aired, table, control, owed, failures>>

Handled ==
    /\ turn = "recv" /\ link = "live"
    /\ Go("due", 0)
    /\ UNCHANGED <<link, batch, nextAnnounce, aired, control, failures>>

\* "own": not learned from
HandleOwn(k) ==
    /\ Handled
    /\ Flooder!HearOwn(k)
    /\ UNCHANGED <<table, owed>>

\* Verified, and learned with its keys, or rejected and not learned.
LearnFirst(k) ==
    IF k \in Signed
    THEN routed' = routed \cup {k} /\ keyed' = keyed \cup {k} /\ rejected' = rejected
    ELSE rejected' = rejected \cup {k} /\ UNCHANGED <<routed, keyed>>

\* "no-hops" or "scheduled": the first copy
HandleFirst(k, hops, rssi) ==
    /\ Handled
    /\ \/ Flooder!AcceptLastHop(k, hops) /\ UNCHANGED owed
       \/ Flooder!ScheduleRelay(k, hops, rssi) /\ owed' = owed \cup {k}
    /\ LearnFirst(k)

\* "duplicate" or "cancelled": learned as another path, without verification
HandleAgain(k) ==
    /\ Handled
    /\ \/ (Flooder!CountCopy(k) \/ Flooder!HearAgain(k)) /\ UNCHANGED owed
       \/ Flooder!CancelRelay(k) /\ owed' = owed \ {k}
    /\ routed' = routed \cup {k}
    /\ UNCHANGED <<keyed, rejected>>

(***************************************************************************)
(* The rest of Node.poll                                                   *)
(***************************************************************************)
TakeDue ==
    /\ turn = "due"
    /\ \/ /\ Flooder!Due
          /\ batch' = Flooder!Ready
          /\ Go("send", 0)
       \/ /\ Flooder!Ready = {}
          /\ UNCHANGED <<flood, batch>>
          /\ Go("announce", 0)
    /\ UNCHANGED <<link, nextAnnounce, aired, table, control, owed, failures>>

SendRelay(k) ==
    /\ turn = "send" /\ link = "live" /\ k \in batch
    /\ batch' = batch \ {k}
    /\ owed'  = owed \ {k}
    /\ IF batch = {k} THEN Go("announce", 0) ELSE Go("send", 0)
    /\ UNCHANGED <<flood, link, nextAnnounce, aired, table, control, failures>>

\* OSError: the relays of the batch that are not sent yet are gone.
SendFails ==
    /\ turn = "send" /\ link = "dead"
    /\ batch' = {}
    /\ owed'  = owed \ batch
    /\ Go("down", 0)
    /\ UNCHANGED <<flood, link, nextAnnounce, aired, table, control, failures>>

\* Mistake: the next announce is put off before this one is sent.
SendAnnounceEarly(next, failed) ==
    /\ \E k \in OwnKeys : Flooder!SendAnnounce(k)
    /\ nextAnnounce' = now + Interval
    /\ IF link = "live" THEN aired' = now /\ Go(next, 0) ELSE aired' = aired /\ Go(failed, 0)

\* The packet is remembered, then sent; the next is put off once it is sent.
SendAnnounce(next, failed) ==
    /\ \E k \in OwnKeys : Flooder!SendAnnounce(k)
    /\ IF link = "live"
       THEN nextAnnounce' = now + Interval /\ aired' = now /\ Go(next, 0)
       ELSE UNCHANGED <<nextAnnounce, aired>> /\ Go(failed, 0)

\* Then tick() and expire(), which block on nothing.
Announce ==
    /\ turn = "announce"
    /\ served' = 0
    /\ \/ now >= nextAnnounce /\ SendAnnounce("serve", "down")
       \/ now < nextAnnounce /\ Go("serve", 0) /\ UNCHANGED <<flood, nextAnnounce, aired>>
    /\ UNCHANGED <<link, batch, table, clients, callers, owed, failures>>

(***************************************************************************)
(* ControlServer.poll                                                      *)
(***************************************************************************)
Serve ==
    /\ turn = "serve"
    /\ \/ clients = 0 /\ Go("recv", RecvTime) /\ UNCHANGED control
       \/ /\ clients > 0 /\ Go("client", ClientTime)
          /\ clients' = clients - 1 /\ served' = served + 1
          /\ UNCHANGED callers
    /\ UNCHANGED <<flood, link, batch, nextAnnounce, aired, table, owed, failures>>

\* A query is answered out of what the loop holds; the client may also hang up.
AnswerQuery ==
    /\ turn = "client"
    /\ Go("serve", 0)
    /\ UNCHANGED <<flood, link, batch, nextAnnounce, aired, table, control, owed, failures>>

\* _cmd_announce.  An OSError is reported to the client.
AnswerAnnounce ==
    /\ turn = "client"
    /\ SendAnnounce("serve", "serve")
    /\ UNCHANGED <<link, batch, table, control, owed, failures>>

\* Mistake: a client that says nothing is waited for.
ClientTimesOutNever == FALSE /\ UNCHANGED vars

ClientTimesOut == turn = "client" /\ wait = 0 /\ AnswerQuery

(***************************************************************************)
(* The main loop's recovery: the link is replaced, the rest of the node    *)
(* is kept.                                                                *)
(***************************************************************************)
RecvFails ==
    /\ turn = "recv" /\ link = "dead"
    /\ Go("down", 0)
    /\ UNCHANGED <<flood, link, batch, nextAnnounce, aired, table, control, owed, failures>>

\* Mistake: recovery makes a new flooder.
RecoverForgets ==
    /\ turn = "down"
    /\ link' = "live"
    /\ Go("recv", RecvTime)
    /\ pending' = [k \in Keys |-> NoRelay]
    /\ UNCHANGED <<now, seen, stamp, known, since, relays,
                   batch, nextAnnounce, aired, table, control, owed, failures>>

Recover ==
    /\ turn = "down"
    /\ link' = "live"
    /\ Go("recv", RecvTime)
    /\ UNCHANGED <<flood, batch, nextAnnounce, aired, table, control, owed, failures>>

(***************************************************************************)
(* The surroundings                                                        *)
(***************************************************************************)
Fail ==
    /\ link = "live" /\ failures < MaxFailures
    /\ link' = "dead" /\ failures' = failures + 1
    /\ UNCHANGED <<flood, turn, wait, batch, nextAnnounce, aired, table, control, owed>>

Connect ==
    /\ callers > 0
    /\ callers' = callers - 1 /\ clients' = clients + 1
    /\ UNCHANGED <<flood, turn, wait, link, batch, nextAnnounce, aired, table, served,
                   owed, failures>>

\* Blocking calls end even where the model's clock has stopped.
PassTime ==
    /\ \/ turn = "recv" /\ link = "live" /\ wait > 0 /\ wait' = wait - 1
       \/ turn = "client" /\ wait > 0 /\ wait' = wait - 1
       \/ turn = "down" /\ now < Horizon /\ UNCHANGED wait
    /\ now' = IF now < Horizon THEN now + 1 ELSE now
    /\ UNCHANGED <<seen, stamp, pending, known, since, relays,
                   turn, link, batch, nextAnnounce, aired, table, control, owed, failures>>

(***************************************************************************)
(* Specification                                                           *)
(***************************************************************************)
Init ==
    /\ Flooder!Init
    /\ turn = "recv" /\ wait = RecvTime /\ link = "live"
    /\ batch = {} /\ nextAnnounce = 0 /\ aired = 0
    /\ routed = {} /\ keyed = {} /\ rejected = {}
    /\ clients = 0 /\ served = 0 /\ callers = MaxClients
    /\ owed = {} /\ failures = 0

Handle ==
    \E k \in Keys :
        \/ HandleOwn(k)
        \/ \E hops \in 0..MaxHops, rssi \in Signals : HandleFirst(k, hops, rssi)
        \/ HandleAgain(k)

\* What the thread does by itself, without anything arriving.
Run ==
    \/ wait = 0 /\ RecvNothing
    \/ TakeDue
    \/ \E k \in Keys : SendRelay(k)
    \/ SendFails
    \/ Announce
    \/ Serve
    \/ ClientTimesOut
    \/ RecvFails
    \/ Recover

Next ==
    \/ Run
    \/ RecvNothing \/ Handle
    \/ AnswerQuery \/ AnswerAnnounce
    \/ Fail \/ Connect
    \/ PassTime

\* The thread runs, the adapter comes back, and frames take time: the loop does
\* not turn for ever within one tick.
Fairness == WF_vars(Run) /\ SF_vars(PassTime)

Spec == Init /\ [][Next]_vars /\ Fairness

(***************************************************************************)
(* Properties                                                              *)
(***************************************************************************)

\* Every variable has its type.
TypeOK ==
    /\ Flooder!TypeOK
    /\ turn \in {"recv", "due", "send", "announce", "serve", "client", "down"}
    /\ wait \in 0..(RecvTime + ClientTime) /\ link \in {"live", "dead"}
    /\ batch \subseteq Keys /\ owed \subseteq Keys
    /\ nextAnnounce \in Nat /\ aired \in Nat
    /\ routed \subseteq Keys /\ keyed \subseteq Keys /\ rejected \subseteq Keys
    /\ clients \in Nat /\ served \in Nat /\ callers \in Nat /\ failures \in 0..MaxFailures

\* The loop that Flood takes for granted: node.py calls the flooder as Flood
\* says it is called, and due() again and again, through outages and clients.
ImplementsFlood == Flooder!Spec

\* Of the flooder: as long as its cache holds it, a node relays a packet once.
RelayOnce == Flooder!RelayOnce

\* Of the flooder, in this loop: whatever clients and outages hold the thread up,
\* every relay that is scheduled is taken to be sent, or cancelled.
RelaysResolve == Flooder!RelaysResolve

\* node.py's MAX_POLL, in milliseconds
MaxPollMs == 250

\* node.py says of MAX_POLL that it "caps how late a pending relay or a due
\* announce can fire when the air is quiet", and poll that it is "sized so the
\* loop wakes before the next pending relay".  Without clients or outages, none
\* is later than that; but the time poll computes is not used.
PunctualInQuietAir ==
    failures = 0 /\ callers = MaxClients =>
        /\ \A k \in Keys : pending[k] # NoRelay =>
              (now - pending[k].sendAt) * TickMs <= MaxPollMs
        /\ (now - aired - Interval) * TickMs <= MaxPollMs

\* How late a relay may leave in fact, or an announce: less than one read of the radio
\* and the clients that were served since the last turn of poll, as long as the
\* radio works.
DueInTime ==
    failures = 0 =>
        /\ \A k \in Keys : pending[k] # NoRelay =>
              now < pending[k].sendAt + RecvTime + ClientTime * served
        /\ now < aired + Interval + RecvTime + ClientTime * served

\* An announce that is overdue is sent in the end, also if sending failed.
LateAnnounceIsSent ==
    (now > aired + Interval) ~> (now <= aired + Interval)

\* poll loses a relay only when its send fails or that of another relay of the
\* same turn does: whatever else was scheduled waits through the outage.
RelaysAccounted == owed = {k \in Keys : pending[k] # NoRelay} \cup batch

\* "Every verified announce teaches", and of one that fails to verify "never trust
\* the contents after this": whoever has a route sent an announce that verifies.
\* But the second copy of a rejected announce is learned.
RoutesAreVerified == routed \subseteq Signed

\* "Learn from it, but never re-verify": keys on record were verified, and a
\* route from an announce that does not verify comes from a copy heard after
\* the node had rejected the first.
VerifiedOrRejected == keyed \subseteq Signed /\ routed \subseteq Signed \cup rejected

\* Every client of the control socket is served and the loop gets back to the
\* radio, however slow the clients are and whatever the radio does.
ClientsServed == (clients > 0 \/ turn = "client") ~> (clients = 0 /\ turn = "recv")

\* What makes the properties above inductive.  Between due() and the next read
\* nothing but clients takes time; the read comes on top.  A batch is waiting to
\* be sent only in its turn, and none of it is scheduled again meanwhile.  What
\* waits or is cached was heard, and what was heard was verified or rejected.
Scheduled == {k \in Keys : pending[k] # NoRelay}

Allowance ==
    CASE turn \in {"send", "announce"} -> 0
      [] turn \in {"serve", "client"}  -> ClientTime * served
      [] OTHER                         -> RecvTime + ClientTime * served

TurnsInTime ==
    failures = 0 =>
        /\ link = "live" /\ turn # "down" /\ nextAnnounce <= aired + Interval
        /\ turn \in {"due", "send", "announce"} => wait = 0
        /\ \A k \in Scheduled : now + wait < pending[k].sendAt + Allowance
        /\ IF turn \in {"send", "announce"}
           THEN now < aired + Interval + RecvTime + ClientTime * served
           ELSE now + wait < aired + Interval + Allowance

BatchInTurn ==
    /\ turn # "send" => batch = {}
    /\ owed = Scheduled \cup batch /\ Scheduled \cap batch = {}

HeardIsKnown ==
    /\ Scheduled \cap OwnKeys = {}
    /\ Scheduled \cup Flooder!Cached \subseteq known
    /\ known \subseteq OwnKeys \cup Signed \cup rejected
=============================================================================
