------------------------------- MODULE Setup --------------------------------
(***************************************************************************)
(* Installing a node: bin/beachedmesh-setup makes the identity, gives the  *)
(* adapter a name of its own, pins the name with a udev rule and installs  *)
(* the service; bin/beachedmesh-uninstall takes them away.  Setup is a     *)
(* sequence of steps that a power loss may cut; files it rewrites are      *)
(* empty between the opening and the writing.                              *)
(*                                                                         *)
(* An adapter is its MAC.  The names of the form BCHDn are the numbers n.  *)
(***************************************************************************)
EXTENDS Integers, FiniteSets, Functions

CONSTANTS
    Macs,           \* adapters
    KernelNames,    \* wlan0, wlan1, ...
    MaxCrashes, MaxUninstalls,  \* bounds of the model
    None

Owned == 0..(2 * Cardinality(Macs))     \* BCHDn
Names == Owned \cup KernelNames
Rules == [Macs -> Owned \cup {None}]
Job   == [iface : Names, mac : Macs \cup {None}, pins : Rules]

ASSUME AdaptersAssumption ==
    /\ IsFiniteSet(Macs) /\ IsFiniteSet(KernelNames)
    /\ Cardinality(KernelNames) >= Cardinality(Macs)
    /\ KernelNames # {} /\ KernelNames \cap Owned = {}
ASSUME BoundsAssumption ==
    MaxCrashes \in Nat /\ MaxUninstalls \in Nat
ASSUME NoneAssumption == None \notin Macs \cup Names

VARIABLES
    name,       \* name[m]: the interface of adapter m, None if it is not there
    rules,      \* the udev rules file
    key,        \* the key file: "none", "cut" or "whole"
    unit,       \* the interface in the service's ExecStart, None if no service
    step,       \* how far the running setup is; "idle" if none runs
    job,        \* its arguments and local variables
    \* History variables: they guard no action but by their bounds.
    target,     \* the adapter that the service was installed for
    forced,     \* the last key that was generated replaced one, by --force-keys
    crashes, uninstalls

machine == <<name, rules, key, unit>>
history == <<target, forced, crashes, uninstalls>>
vars    == <<machine, step, job, history>>

NoRules == [m \in Macs |-> None]
NoJob   == [iface |-> CHOOSE n \in KernelNames : TRUE, mac |-> None, pins |-> NoRules]

Live    == Range(name) \ {None}
Claimed == Range(rules) \ {None}

(***************************************************************************)
(* setup_identity and Identity.save                                        *)
(***************************************************************************)
Begin(iface, next) ==
    /\ step = "idle"
    /\ step' = next
    /\ job'  = [NoJob EXCEPT !.iface = iface]

\* A key file that is there is loaded, also when it is to be replaced; load()
\* raises on a file that is cut.
LoadFails == step = "idle" /\ key = "cut" /\ UNCHANGED vars

\* Mistake: the length of the file is not checked.
LoadAnyKey(iface) ==
    /\ key # "none"
    /\ Begin(iface, "rename")
    /\ UNCHANGED <<machine, history>>

LoadKey(iface) ==
    /\ key = "whole"
    /\ Begin(iface, "rename")
    /\ UNCHANGED <<machine, history>>

GenerateKey(iface, force) ==
    /\ key = "none" \/ (key = "whole" /\ force)
    /\ Begin(iface, "save")
    /\ key' = "cut"
    /\ forced' = (key = "whole")
    /\ UNCHANGED <<name, rules, unit, target, crashes, uninstalls>>

\* --no-service ends here.
SaveKey ==
    /\ step = "save"
    /\ key' = "whole"
    /\ step' \in {"rename", "idle"}
    /\ UNCHANGED <<name, rules, unit, job, history>>

(***************************************************************************)
(* rename_iface and write_rule                                             *)
(***************************************************************************)
\* Mistake: adapters that have a rule but are not there are forgotten.
LowestNotLive == CHOOSE n \in Owned \ Live : \A k \in 0..(n - 1) : k \in Live

LowestFree ==
    LET taken == Claimed \cup Live
    IN  CHOOSE n \in Owned \ taken : \A k \in 0..(n - 1) : k \in taken

\* Mistake: an adapter without a rule gets no name.
AllocateClaimed(m) == rules[m]

AllocateName(m) == IF rules[m] # None THEN rules[m] ELSE LowestFree

\* The name is ours, or absent, or is to stay (--no-rename); or something fails.
KeepName ==
    /\ step = "rename"
    /\ step' = "install"
    /\ UNCHANGED <<machine, job, history>>

\* Mistake: the new name is not pinned.
RenameOnly(m) ==
    /\ step = "rename"
    /\ name[m] = job.iface /\ job.iface \notin Owned
    /\ AllocateName(m) \notin Live
    /\ name' = [name EXCEPT ![m] = AllocateName(m)]
    /\ step' = "install"
    /\ job'  = [job EXCEPT !.mac = m, !.iface = AllocateName(m)]
    /\ UNCHANGED <<rules, key, unit, history>>

RenameIface(m) ==
    /\ step = "rename"
    /\ name[m] = job.iface /\ job.iface \notin Owned
    /\ AllocateName(m) \notin Live
    /\ name' = [name EXCEPT ![m] = AllocateName(m)]
    /\ step' = "pin"
    /\ job'  = [job EXCEPT !.mac = m, !.iface = AllocateName(m)]
    /\ UNCHANGED <<rules, key, unit, history>>

\* The rules are read, the file is opened for writing, the rules are written.
OpenRules ==
    /\ step = "pin"
    /\ step' = "write"
    /\ job' = [job EXCEPT !.pins = [rules EXCEPT ![job.mac] = job.iface]]
    /\ rules' = NoRules
    /\ UNCHANGED <<name, key, unit, history>>

WriteRules ==
    /\ step = "write"
    /\ step' = "install"
    /\ rules' = job.pins
    /\ UNCHANGED <<name, key, unit, job, history>>

(***************************************************************************)
(* install_service, and bin/beachedmesh-uninstall                          *)
(***************************************************************************)
\* The unit is opened for writing, and written; an empty one is no service.
OpenUnit ==
    /\ step = "install"
    /\ step' = "unit"
    /\ unit' = None /\ target' = None
    /\ UNCHANGED <<name, rules, key, job, forced, crashes, uninstalls>>

InstallService ==
    /\ step = "unit"
    /\ step' = "idle"
    /\ unit' = job.iface
    /\ job' = NoJob
    /\ target' = IF \E m \in Macs : name[m] = job.iface
                 THEN CHOOSE m \in Macs : name[m] = job.iface ELSE job.mac
    /\ UNCHANGED <<name, rules, key, forced, crashes, uninstalls>>

\* The interface keeps its name; the identity goes only with --purge.
Uninstall(purge) ==
    /\ step = "idle"
    /\ uninstalls < MaxUninstalls
    /\ uninstalls' = uninstalls + 1
    /\ unit' = None /\ target' = None
    /\ rules' = NoRules
    /\ key' = IF purge THEN "none" ELSE key
    /\ UNCHANGED <<name, step, job, forced, crashes>>

(***************************************************************************)
(* The kernel and udev                                                     *)
(***************************************************************************)
Unplug(m) ==
    /\ name[m] # None
    /\ name' = [name EXCEPT ![m] = None]
    /\ UNCHANGED <<rules, key, unit, step, job, history>>

\* A rule gives its name unless another interface has it.
Pinned(m) == rules[m] # None /\ rules[m] \notin Live

Plug(m) ==
    /\ name[m] = None
    /\ \E n \in IF Pinned(m) THEN {rules[m]} ELSE KernelNames \ Live :
          name' = [name EXCEPT ![m] = n]
    /\ UNCHANGED <<rules, key, unit, step, job, history>>

\* Names in the order of probing, but for those that rules give.
BootNames ==
    {f \in [Macs -> Names \cup {None}] :
        /\ \A m \in Macs : \/ name[m] = None /\ f[m] = None
                           \/ name[m] # None /\ rules[m] # None /\ f[m] = rules[m]
                           \/ name[m] # None /\ rules[m] = None /\ f[m] \in KernelNames
        /\ \A m, n \in Macs : m # n /\ f[m] # None => f[m] # f[n]}

Reboot ==
    /\ step = "idle"
    /\ name' \in BootNames
    /\ UNCHANGED <<rules, key, unit, step, job, history>>

PowerLoss ==
    /\ step # "idle"
    /\ crashes < MaxCrashes
    /\ crashes' = crashes + 1
    /\ step' = "idle" /\ job' = NoJob
    /\ name' \in BootNames
    /\ UNCHANGED <<rules, key, unit, target, forced, uninstalls>>

\* Setup is interrupted, or fails between two steps, and the machine stays up.
Abort ==
    /\ step # "idle"
    /\ crashes < MaxCrashes
    /\ crashes' = crashes + 1
    /\ step' = "idle" /\ job' = NoJob
    /\ UNCHANGED <<machine, target, forced, uninstalls>>

(***************************************************************************)
(* Specification                                                           *)
(***************************************************************************)
Init ==
    /\ name \in {f \in [Macs -> KernelNames \cup {None}] :
                    \A m, n \in Macs : m # n /\ f[m] # None => f[m] # f[n]}
    /\ rules = NoRules /\ key = "none" /\ unit = None
    /\ step = "idle" /\ job = NoJob
    /\ target = None /\ forced = FALSE
    /\ crashes = 0 /\ uninstalls = 0

\* The administrator names an interface that is there, or was.
SetupIdentity(iface, force) ==
    LoadFails \/ LoadKey(iface) \/ GenerateKey(iface, force)

Next ==
    \/ \E iface \in KernelNames \cup Live, force \in BOOLEAN : SetupIdentity(iface, force)
    \/ SaveKey
    \/ KeepName
    \/ \E m \in Macs : RenameIface(m) \/ Plug(m) \/ Unplug(m)
    \/ OpenRules
    \/ WriteRules
    \/ OpenUnit
    \/ InstallService
    \/ \E purge \in BOOLEAN : Uninstall(purge)
    \/ Reboot
    \/ PowerLoss
    \/ Abort

Spec == Init /\ [][Next]_vars

(***************************************************************************)
(* Properties                                                              *)
(***************************************************************************)

\* Every variable has its type.
TypeOK ==
    /\ name \in [Macs -> Names \cup {None}]
    /\ rules \in Rules
    /\ key \in {"none", "cut", "whole"}
    /\ unit \in Names \cup {None}
    /\ step \in {"idle", "save", "rename", "pin", "write", "install", "unit"}
    /\ job \in Job
    /\ target \in Macs \cup {None} /\ forced \in BOOLEAN
    /\ crashes \in 0..MaxCrashes /\ uninstalls \in 0..MaxUninstalls

\* allocate_name: "claimed by no rule and held by no interface".  No name is
\* pinned to two adapters, and an interface with a pinned name is that of the
\* adapter it is pinned to, whatever was cut short, unplugged or uninstalled.
PinsAreExclusive ==
    \A m, n \in Macs : rules[m] # None /\ m # n =>
        rules[n] # rules[m] /\ name[n] # rules[m]

\* What makes PinsAreExclusive inductive: an adapter's name is its own, the name
\* that a running setup is about to pin is pinned to nobody else and held by
\* nobody else, and while the file is open no rule gives a name away.
NamesAreExclusive ==
    \A m, n \in Macs : m # n /\ name[m] # None => name[n] # name[m]
NewPinIsExclusive ==
    step = "pin" =>
        /\ job.mac \in Macs /\ job.iface \in Owned
        /\ \A n \in Macs \ {job.mac} : rules[n] # job.iface /\ name[n] # job.iface
WrittenPinsAreExclusive ==
    step = "write" =>
        /\ rules = NoRules
        /\ \A m, n \in Macs : job.pins[m] # None /\ m # n =>
              job.pins[n] # job.pins[m] /\ name[n] # job.pins[m]
PinsInduct ==
    NamesAreExclusive /\ PinsAreExclusive /\ NewPinIsExclusive /\ WrittenPinsAreExclusive

RebootRenames ==
    /\ Reboot
    /\ unit \in Owned /\ target # None /\ name[target] # None
    /\ name'[target] # unit

\* rename_iface's "a name of ours, now and after every reboot": a service that
\* was installed for an adapter under a name of ours finds that adapter by that
\* name when the machine has been rebooted, whatever was plugged in meanwhile,
\* as long as no setup has been cut short and nothing uninstalled.
FirstNameSurvivesReboot ==
    [][crashes = 0 /\ uninstalls = 0 => ~RebootRenames]_vars

\* The daemon's "no identity -- run beachedmesh-setup first": wherever setup was
\* cut, no service is installed whose key does not load, unless what was cut is
\* the replacement of an identity by --force-keys.
ServiceHasIdentity == step # "save" /\ unit # None => key = "whole" \/ forced

\* What makes ServiceHasIdentity inductive: a setup that has passed the identity
\* has a key, one that is saving it has replaced a key under the service's feet,
\* and a machine without a key has no service.
IdentityInduct ==
    /\ ServiceHasIdentity
    /\ step \notin {"idle", "save"} => key = "whole"
    /\ step = "save" => key = "cut" /\ (unit # None => forced)
    /\ key = "none" => unit = None

\* The rules as they will be when a running setup has written them.
PinsToBe ==
    CASE step = "pin"   -> [rules EXCEPT ![job.mac] = job.iface]
      [] step = "write" -> job.pins
      [] OTHER          -> rules

\* What makes FirstNameSurvivesReboot inductive: no name of ours is held, and no
\* service uses one, that is not pinned or about to be; a setup that pins a name
\* replaces no other, and hands on the name that it pinned.
NamesArePinned ==
    crashes = 0 /\ uninstalls = 0 =>
        /\ \A m \in Macs : name[m] \in Owned => PinsToBe[m] = name[m]
        /\ unit \in Owned /\ target # None => PinsToBe[target] = unit
        /\ step = "pin" => rules[job.mac] \in {None, job.iface}
        /\ step \in {"save", "rename"} => job.mac = None
        /\ step \in {"pin", "write"} => job.mac # None
        /\ job.mac # None => PinsToBe[job.mac] = job.iface
=============================================================================
