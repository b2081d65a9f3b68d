---------------------------- MODULE FloodParams -----------------------------
(***************************************************************************)
(* What a flooder (beachedmesh/flood.py) is started with, and what the     *)
(* model has for packets and signals: the parameters of module Flood and   *)
(* of module Node, whose loop drives it.                                   *)
(***************************************************************************)
EXTENDS Integers, FiniteSets

CONSTANTS
    Keys,           \* dedup keys of the packets in the air
    OwnKeys,        \* those whose originator is this node
    MaxHops,        \* largest hop limit a received packet carries
    Threshold,      \* copies that cancel a waiting relay (RELAY_THRESHOLD)
    SeenCapacity,   \* entries the seen cache holds
    SeenTTL,        \* age after which a cached key no longer counts
    Signals,        \* the signals (dBm) at which copies are heard
    NoSignal,       \* the driver reports none
    TickMs,         \* milliseconds in a tick
    Horizon,        \* bound of the model: the clock stops here
    NoRelay         \* "no relay is waiting"

\* The signal is kept for a property; a Pending has no such slot.
Waiting == [hops : 0..MaxHops, sendAt : Nat, heard : 0..(Threshold - 1), rssi : Signals]

ASSUME KeysAssumption     == IsFiniteSet(Keys) /\ OwnKeys \subseteq Keys
ASSUME BoundsAssumption   == /\ MaxHops \in Nat
                             /\ Threshold \in Nat \ {0}
                             /\ SeenCapacity \in Nat \ {0}
                             /\ SeenTTL \in Nat
                             /\ Signals \subseteq Int \cup {NoSignal}
                             /\ TickMs \in Nat \ {0}
                             /\ Horizon \in Nat
ASSUME NoneAssumption     == NoRelay \notin Waiting /\ NoSignal \notin Int
=============================================================================
