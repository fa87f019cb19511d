-------------------------- MODULE DdosMitigation ---------------------------
(***************************************************************************)
(* Flood detection and mitigation of examples/campus_controller.py.        *)
(*                                                                         *)
(* The data plane path reads port statistics: a host-facing port whose     *)
(* packet rate reaches DDOS_PPS_THRESHOLD is attributed to a host, whose   *)
(* address is dropped by a rule with a hard timeout.  The control plane    *)
(* path counts packet-ins per switch in a short window and drops the port  *)
(* of the packet that fills it.  Both keep books of what they mitigated,   *)
(* cleaned up by the monitor greenlet some grace after the rules expire,   *)
(* and share the flags ddos_active and ddos_attack_type.                   *)
(*                                                                         *)
(* Time advances by Tick, of which the hard timeouts, the grace and the    *)
(* suppression period are multiples; one tick is at least one packet-in    *)
(* window, so the window is empty after it.  Which hosts really flood is   *)
(* part of the environment ("flooding"), which the controller never reads. *)
(***************************************************************************)
EXTENDS Integers, Sequences, FiniteSets

CONSTANTS
    Switches,           \* datapath identifiers
    Hosts,              \* host addresses
    HostPorts,          \* the host-facing keys <<dpid, port_no>>
    Attached,           \* the host really attached to a host-facing port
    PortMapOf,          \* for a switch, its client port map: a sequence of
                        \* [ip, port] in the order of the Python dict
    NoHost,             \* an unknown host
    Excusable,          \* the hosts that a simulated probe or the security
                        \* policy may concern
    Threshold,          \* packet-ins of one window that make a flood
    HardTimeout,        \* hard timeout of every drop rule, in ticks
    Grace,              \* ticks between a rule's expiry and its bookkeeping's
    SuppressTime        \* SECURITY_BLOCK_SUPPRESS_DDOS_S, in ticks

ASSUME DdosAssumption ==
    /\ HostPorts \subseteq Switches \X Nat
    /\ Attached \in [HostPorts -> Hosts]
    /\ DOMAIN PortMapOf \subseteq Switches
    /\ \A s \in DOMAIN PortMapOf :
          PortMapOf[s] \in Seq([ip : Hosts, port : Nat])
    /\ NoHost \notin Hosts /\ Excusable \subseteq Hosts
    /\ Threshold \in Nat \ {0} /\ HardTimeout \in Nat \ {0}
    /\ Grace \in Nat \ {0} /\ SuppressTime \in Nat \ {0}

\* DDOS_DROP_HARD_TIMEOUT_S + 2.0, and the same for the control plane.
Expiry == HardTimeout + Grace

VARIABLES
    datapaths,      \* the connected switches, in the order of the dict
    flooding,       \* the hosts that really flood
    probes,         \* simulation_probe_ips
    attackers,      \* ddos_attacker_ips: address -> age in ticks
    blocked,        \* recent_security_block_src: address -> age in ticks
    ctrlSwitches,   \* ctrl_flood_switches: switch -> age in ticks
    window,         \* ctrl_pkt_in_times: the in_ports of the window's packet-ins
    ddosActive, ctrlActive, attackType,
    dropRules,      \* <<switch, address>> -> age of its drop rule
    portRules       \* <<switch, port>> -> age of its port drop rule

envVars == <<datapaths, flooding, probes>>
ddosVars == <<attackers, dropRules, blocked>>
ctrlVars == <<ctrlSwitches, ctrlActive, window, portRules>>
flagVars == <<ddosActive, attackType>>
vars == <<envVars, ddosVars, ctrlVars, flagVars>>

Connected == {datapaths[i] : i \in DOMAIN datapaths}

\* Tables from keys to ages: none, one more key, fewer keys, a tick later.
NoEntry == [x \in {} |-> 0]
With(f, x) == [y \in DOMAIN f \cup {x} |-> IF y = x THEN 0 ELSE f[y]]
Without(f, S) == [x \in DOMAIN f \ S |-> f[x]]
Aged(f, bound) == [x \in DOMAIN f |-> IF f[x] < bound THEN f[x] + 1 ELSE f[x]]
Overdue(f, age) == {x \in DOMAIN f : f[x] >= age}

Init ==
    /\ datapaths = << >> /\ flooding = {} /\ probes = {}
    /\ attackers = NoEntry /\ blocked = NoEntry /\ dropRules = NoEntry
    /\ ctrlSwitches = NoEntry /\ portRules = NoEntry
    /\ window = [s \in Switches |-> << >>]
    /\ ddosActive = FALSE /\ ctrlActive = FALSE /\ attackType = "none"

-----------------------------------------------------------------------------
(* Data plane *)

\* The first address the switch's port map gives for the port.
HostIpForPort(s, port) ==
    LET map == IF s \in DOMAIN PortMapOf THEN PortMapOf[s] ELSE << >>
        first == {i \in DOMAIN map : /\ map[i].port = port
                                     /\ \A j \in 1..i - 1 : map[j].port # port}
    IN  IF first = {} THEN NoHost ELSE map[CHOOSE i \in first : TRUE].ip

\* A host the security policy blocked lately is not treated as an attacker.
Suppressed(ip) == ip \in DOMAIN blocked /\ blocked[ip] < SuppressTime

\* Installing the drop rule lists the attacker, so the loop over the switches
\* stops having an effect after the first of them.
InstallDdosDrop(ip) ==
    /\ dropRules' = With(dropRules, <<datapaths[1], ip>>)
    /\ attackers' = With(attackers, ip)
    /\ ddosActive' = TRUE
    /\ attackType' = IF attackType = "none" THEN "data_plane" ELSE attackType

\* A statistics sample of a host-facing port; its rate is over the threshold
\* when the attached host floods (received packets count even if dropped).
PortSample(s, port) ==
    LET ip == HostIpForPort(s, port)
    IN  /\ s \in Connected /\ Attached[<<s, port>>] \in flooding
        /\ ip # NoHost /\ ip \notin DOMAIN attackers
        /\ ip \notin probes /\ ~Suppressed(ip)
        /\ InstallDdosDrop(ip)
        /\ blocked' = Without(blocked, {ip})
        /\ UNCHANGED <<envVars, ctrlVars>>

\* _drop_security_flow: the policy drops a flow of this address.
SecurityBlock(ip) ==
    /\ blocked' = With(blocked, ip)
    /\ UNCHANGED <<envVars, attackers, dropRules, ctrlVars, flagVars>>

-----------------------------------------------------------------------------
(* Control plane *)

MitigateCtrlFlood(s, port) ==
    /\ ctrlSwitches' = With(ctrlSwitches, s)
    /\ portRules' = With(portRules, <<s, port>>)
    /\ ctrlActive' = TRUE /\ ddosActive' = TRUE /\ attackType' = "ctrl_plane"

\* Mutant of PacketIn: timestamps outside the window are never dropped.
PacketInKeepsAll(s, port) ==
    LET filled == Append(window[s], port)
    IN  /\ s \in Connected /\ <<s, port>> \notin DOMAIN portRules
        /\ window' = [window EXCEPT ![s] = filled]
        /\ IF Len(filled) >= Threshold /\ s \notin DOMAIN ctrlSwitches
           THEN MitigateCtrlFlood(s, port)
           ELSE UNCHANGED <<ctrlSwitches, portRules, ctrlActive, flagVars>>
        /\ UNCHANGED <<envVars, ddosVars>>

\* Every packet-in is counted; the one that fills the window is answered by a
\* drop of its own port, unless the switch is mitigated already.  Only the
\* length of a full window matters, so its oldest entry is forgotten.
PacketIn(s, port) ==
    LET filled == Append(window[s], port)
    IN  /\ s \in Connected /\ <<s, port>> \notin DOMAIN portRules
        /\ window' = [window EXCEPT ![s] =
                         IF Len(filled) > Threshold THEN Tail(filled) ELSE filled]
        /\ IF Len(filled) >= Threshold /\ s \notin DOMAIN ctrlSwitches
           THEN MitigateCtrlFlood(s, port)
           ELSE UNCHANGED <<ctrlSwitches, portRules, ctrlActive, flagVars>>
        /\ UNCHANGED <<envVars, ddosVars>>

-----------------------------------------------------------------------------
(* The monitor greenlet, time and the environment *)

\* Mutant of Cleanup: the control-plane books are cleaned on the data plane's terms.
CleanupForgetsCtrl ==
    /\ attackers' = Without(attackers, Overdue(attackers, Expiry))
    /\ ddosActive' = (DOMAIN attackers' # {})
    /\ attackType' = IF ddosActive' THEN attackType ELSE "none"
    /\ ctrlSwitches' = Without(ctrlSwitches, Overdue(ctrlSwitches, Expiry))
    /\ ctrlActive' = (DOMAIN ctrlSwitches' # {})
    /\ window' = window
    /\ UNCHANGED <<envVars, blocked, dropRules, portRules>>

\* Mutant of Cleanup: the attackers are never taken off the books.
CleanupKeepsAttackers ==
    /\ ctrlSwitches' = Without(ctrlSwitches, Overdue(ctrlSwitches, Expiry))
    /\ ctrlActive' = (DOMAIN ctrlSwitches' # {})
    /\ UNCHANGED <<envVars, ddosVars, window, portRules, flagVars>>

\* Mutant of Cleanup: the books are closed a tick before the rules expire.
CleanupEarly ==
    /\ attackers' = Without(attackers, Overdue(attackers, HardTimeout - 1))
    /\ ctrlSwitches' = Without(ctrlSwitches, Overdue(ctrlSwitches, HardTimeout - 1))
    /\ ddosActive' = (DOMAIN attackers' # {})
    /\ ctrlActive' = (DOMAIN ctrlSwitches' # {})
    /\ UNCHANGED <<envVars, blocked, dropRules, window, portRules, attackType>>

\* _cleanup_ddos_state and _cleanup_ctrl_flood in one monitor pass: overdue
\* entries go, and the flags are recomputed when something went.
Cleanup ==
    LET goneIps == Overdue(attackers, Expiry)
        goneSwitches == Overdue(ctrlSwitches, Expiry)
        active == IF goneIps = {} THEN ddosActive ELSE DOMAIN attackers # goneIps
        ctrl == IF goneSwitches = {} THEN ctrlActive
                ELSE DOMAIN ctrlSwitches # goneSwitches
    IN  /\ attackers' = Without(attackers, goneIps)
        /\ ctrlSwitches' = Without(ctrlSwitches, goneSwitches)
        /\ window' = [s \in Switches |-> IF s \in goneSwitches THEN << >> ELSE window[s]]
        /\ ddosActive' = active
        /\ ctrlActive' = ctrl
        /\ attackType' = IF \/ goneIps # {} /\ ~active /\ ~ctrlActive
                            \/ goneSwitches # {} /\ ~ctrl /\ ~active
                         THEN "none" ELSE attackType
        /\ UNCHANGED <<envVars, blocked, dropRules, portRules>>

\* Rules that reach their hard timeout leave the switches; windows empty.
Tick ==
    /\ attackers' = Aged(attackers, Expiry)
    /\ ctrlSwitches' = Aged(ctrlSwitches, Expiry)
    /\ blocked' = Aged(blocked, SuppressTime)
    /\ dropRules' = LET aged == Aged(dropRules, HardTimeout)
                    IN  Without(aged, Overdue(aged, HardTimeout))
    /\ portRules' = LET aged == Aged(portRules, HardTimeout)
                    IN  Without(aged, Overdue(aged, HardTimeout))
    /\ window' = [s \in Switches |-> << >>]
    /\ UNCHANGED <<envVars, ctrlActive, flagVars>>

Connect(s) ==
    /\ s \notin Connected
    /\ datapaths' = Append(datapaths, s)
    /\ UNCHANGED <<flooding, probes, ddosVars, ctrlVars, flagVars>>

Disconnect(s) ==
    /\ \E i \in DOMAIN datapaths :
          /\ datapaths[i] = s
          /\ datapaths' = SubSeq(datapaths, 1, i - 1)
                             \o SubSeq(datapaths, i + 1, Len(datapaths))
    /\ UNCHANGED <<flooding, probes, ddosVars, ctrlVars, flagVars>>

HostFloods(h) ==
    /\ h \notin flooding
    /\ flooding' = flooding \cup {h}
    /\ UNCHANGED <<datapaths, probes, ddosVars, ctrlVars, flagVars>>

HostCalms(h) ==
    /\ flooding' = flooding \ {h}
    /\ UNCHANGED <<datapaths, probes, ddosVars, ctrlVars, flagVars>>

\* A simulated security probe starts or stops on a host.
LoadSimulationContext(h) ==
    /\ probes' = IF h \in probes THEN probes \ {h} ELSE probes \cup {h}
    /\ UNCHANGED <<datapaths, flooding, ddosVars, ctrlVars, flagVars>>

-----------------------------------------------------------------------------

PortNumbers == {p[2] : p \in HostPorts}

Next ==
    \/ \E p \in HostPorts : PortSample(p[1], p[2])
    \/ \E h \in Excusable : SecurityBlock(h) \/ LoadSimulationContext(h)
    \/ \E s \in Switches, port \in PortNumbers : PacketIn(s, port)
    \/ Cleanup
    \/ Tick
    \/ \E s \in Switches : Connect(s) \/ Disconnect(s)
    \/ \E h \in Hosts : HostFloods(h) \/ HostCalms(h)

Spec == Init /\ [][Next]_vars

\* Time passes, the monitor greenlet runs, and connected switches are polled.
FairSpec ==
    /\ Spec /\ WF_vars(Tick) /\ WF_vars(Cleanup)
    /\ \A p \in HostPorts : WF_vars(PortSample(p[1], p[2]))

-----------------------------------------------------------------------------
(* Properties *)

IsAges(f, keys, bound) == f \in [DOMAIN f -> 0..bound] /\ DOMAIN f \subseteq keys

\* Every table has keys of its kind and ages within its bound; no rule on a
\* switch has reached its hard timeout, and no window outgrows the threshold.
TypeOK ==
    /\ datapaths \in Seq(Switches)
    /\ flooding \subseteq Hosts /\ probes \subseteq Hosts
    /\ IsAges(attackers, Hosts, Expiry)
    /\ IsAges(blocked, Hosts, SuppressTime)
    /\ IsAges(ctrlSwitches, Switches, Expiry)
    /\ IsAges(dropRules, Switches \X Hosts, HardTimeout - 1)
    /\ IsAges(portRules, Switches \X PortNumbers, HardTimeout - 1)
    /\ window \in [Switches -> Seq(PortNumbers)]
    /\ \A s \in Switches : Len(window[s]) <= Threshold
    /\ ddosActive \in BOOLEAN /\ ctrlActive \in BOOLEAN
    /\ attackType \in {"none", "data_plane", "ctrl_plane"}

\* A drop rule is never older or younger than the entry that accounts for it, so
\* an address or a switch leaves the books only after its rules have left the
\* switches, and no rule is installed over a live one.
BooksOutliveRules ==
    /\ \A r \in DOMAIN dropRules :
          r[2] \in DOMAIN attackers /\ attackers[r[2]] = dropRules[r]
    /\ \A r \in DOMAIN portRules :
          r[1] \in DOMAIN ctrlSwitches /\ ctrlSwitches[r[1]] = portRules[r]

\* While either path mitigates something the dashboard sees an attack of a type,
\* whichever of the two cleanups runs first and whatever it finds overdue.
FlagsCoverAttacks ==
    /\ DOMAIN attackers # {} => ddosActive
    /\ ctrlActive <=> DOMAIN ctrlSwitches # {}
    /\ DOMAIN attackers # {} \/ ctrlActive => attackType # "none"

\* Both paths are what TimedDrop promises: an address is dropped on switches, a
\* switch's packet-ins on its ports, and either leaves the books only when no
\* rule against it is live.
HostDrop == INSTANCE TimedDrop WITH
                Subjects <- Hosts, Places <- Switches,
                books <- DOMAIN attackers, enforced <- DOMAIN dropRules

PortDrop == INSTANCE TimedDrop WITH
                Subjects <- Switches, Places <- PortNumbers,
                books <- DOMAIN ctrlSwitches,
                enforced <- {<<r[2], r[1]>> : r \in DOMAIN portRules}

HostsImplementTimedDrop == HostDrop!Spec
PortsImplementTimedDrop == PortDrop!Spec

\* A host that floods for good from a connected port that is attributed to it,
\* without an excuse, is under a drop rule again and again.
FloodIsDropped ==
    \A p \in HostPorts :
        LET h == Attached[p]
        IN  HostIpForPort(p[1], p[2]) = h =>
            ( <>[](/\ h \in flooding /\ p[1] \in Connected
                   /\ h \notin probes /\ ~Suppressed(h))
              => []<>(\E s \in Switches : <<s, h>> \in DOMAIN dropRules) )

\* No mitigation lasts: every address on the books leaves them.
MitigationExpires ==
    \A h \in Hosts : h \in DOMAIN attackers ~> h \notin DOMAIN attackers

\* A flood is dropped on all connected switches.
DroppedEverywhere ==
    [][\A h \in DOMAIN attackers' \ DOMAIN attackers :
          \A s \in Connected : <<s, h>> \in DOMAIN dropRules']_vars

=============================================================================
