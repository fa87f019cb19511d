------------------------------ MODULE VlanConfig ------------------------------
(***************************************************************************)
(* VLAN configurations of the campus network: what the dashboard's edits   *)
(* make of one (examples/campus_dashboard.py, from                         *)
(* _cleanup_switch_automation to set_vlan_interconnect) and the flow rules *)
(* the controller derives from it (campus_controller.py,                   *)
(* _install_vlan_automation_flows).                                        *)
(*                                                                         *)
(* A switch's configuration is a set of members (VLAN, device) and a set   *)
(* of links, the pairs of VLANs that may talk.  A VLAN exists when it has  *)
(* a member.  A device is the number of its port.                          *)
(*                                                                         *)
(* The dashboard assigns any device.  The controller makes rules only for  *)
(* the ports it knows, those of its static table PORT_CAPACITY_MBPS: a     *)
(* member on another port, where hosts added at run time are attached, has *)
(* none.                                                                   *)
(***************************************************************************)
EXTENDS Integers, FiniteSets, Sequences

CONSTANTS
    Switches,   \* names s1, s2, ... of the access switches
    Devices,    \* port numbers of the end devices
    Attach,     \* the switch of each device in the topology's state file; a
                \* device that was removed has none
    Vlans,      \* VLAN numbers requests may use, within 1..4094
    Plans,      \* lists of different VLANs, for automatic configuration
    Uplink,     \* the other port of a switch
    KnownPorts  \* the ports of a switch in PORT_CAPACITY_MBPS

ASSUME ConfigAssumption ==
    /\ Devices \subseteq Nat \ {0} /\ IsFiniteSet(Devices)
    /\ DOMAIN Attach \subseteq Devices /\ Attach \in [DOMAIN Attach -> Switches]
    /\ Vlans \subseteq 1..4094
    /\ \A plan \in Plans :
          /\ plan \in Seq(Vlans) /\ plan # <<>>
          /\ \A i, j \in DOMAIN plan : plan[i] = plan[j] => i = j
    /\ Uplink \in Nat \ (Devices \cup {0})
    /\ KnownPorts \subseteq Devices \cup {Uplink}

Members == [vlan : Vlans, dev : Devices]
Pairs == {p \in SUBSET Vlans : \E v, w \in Vlans : v # w /\ p = {v, w}}
SwitchConfigs == [members : SUBSET Members, links : SUBSET Pairs]
Configs == [Switches -> SwitchConfigs]

NoConfig == [members |-> {}, links |-> {}]
Nothing == [s \in Switches |-> NoConfig]

VlansOf(cfg) == {m.vlan : m \in cfg.members}
At(s) == {d \in DOMAIN Attach : Attach[d] = s}

\* _cleanup_switch_automation: links of VLANs that have no member go.
Clean(cfg) == [cfg EXCEPT !.links = {p \in @ : p \subseteq VlansOf(cfg)}]

-----------------------------------------------------------------------------
(* The edits, each with the condition under which it does not raise *)

\* Every switch forgets the device.
Evict(cfg, d) == Clean([cfg EXCEPT !.members = {m \in @ : m.dev # d}])

\* Mutant of Assign: the device and the VLAN are swapped.
AssignSwapped(c, d, v) ==
    [c EXCEPT ![Attach[d]].members = @ \cup {[vlan |-> d, dev |-> v]}]

\* assign_device_vlan, to the switch the device is attached to.
Assign(c, d, v) ==
    LET evicted == [s \in Switches |-> Evict(c[s], d)]
    IN [evicted EXCEPT ![Attach[d]].members = @ \cup {[vlan |-> v, dev |-> d]}]

\* Devices in the order of their ports get the VLANs in the order of the plan.
Place(d) == Cardinality({e \in At(Attach[d]) : e <= d})
Planned(s, plan, links) ==
    Clean([members |-> {[vlan |-> plan[Place(d)], dev |-> d] : d \in At(s)},
           links |-> links])

Fits(plan, s) == Cardinality(At(s)) <= Len(plan)

CanConfigure(s, plan) == At(s) # {} /\ Fits(plan, s)
AutoConfigure(c, s, plan, links) == [c EXCEPT ![s] = Planned(s, plan, links)]

CanConfigureAll(plan) == DOMAIN Attach # {} /\ \A s \in Switches : Fits(plan, s)
AutoConfigureAll(plan, links) == [s \in Switches |-> Planned(s, plan, links)]

\* restore_open_connectivity; clear_switch_automation does the same, and raises
\* when the switch has no configuration.
RestoreOpen(c, s) == [c EXCEPT ![s] = NoConfig]

\* Mutant of Without: the links of the VLAN stay.
WithoutMembers(cfg, v, devices) ==
    [cfg EXCEPT !.members = {m \in @ : ~(m.vlan = v /\ m.dev \in devices)}]

\* A VLAN loses members, and its links even when it keeps others.
Without(cfg, v, devices) ==
    Clean([members |-> {m \in cfg.members : ~(m.vlan = v /\ m.dev \in devices)},
           links |-> {p \in cfg.links : v \notin p}])

CanRemove(c, s, v) == v \in VlansOf(c[s])
Remove(c, s, v, devices) == [c EXCEPT ![s] = Without(@, v, devices)]

CanRemoveEverywhere(c, v) == \E s \in Switches : v \in VlansOf(c[s])
RemoveEverywhere(c, v) ==
    [s \in Switches |-> IF v \in VlansOf(c[s]) THEN Without(c[s], v, Devices) ELSE c[s]]

Linked(cfg, p, enabled) ==
    [cfg EXCEPT !.links = IF enabled THEN @ \cup {p} ELSE @ \ {p}]

CanLink(c, s, p) == p \subseteq VlansOf(c[s])
Link(c, s, p, enabled) == [c EXCEPT ![s] = Clean(Linked(@, p, enabled))]

LinkEverywhere(c, p, enabled) ==
    [s \in Switches |->
        IF CanLink(c, s, p) THEN Clean(Linked(c[s], p, enabled)) ELSE c[s]]

\* What every edit keeps: links only between VLANs that exist, and no device in
\* two VLANs of a switch.  A device that moved may still be a member on the switch
\* it left.
LinksExist(cfg) == \A p \in cfg.links : p \subseteq VlansOf(cfg)
OneVlanEach(cfg) == \A m, n \in cfg.members : m.dev = n.dev => m.vlan = n.vlan
WellFormed(c) ==
    c \in Configs /\ \A s \in Switches : LinksExist(c[s]) /\ OneVlanEach(c[s])

-----------------------------------------------------------------------------
(* The flow rules of a switch, for unicast frames to one of its ports and   *)
(* for ARP broadcasts                                                       *)

Broadcast == 0
Ports == Devices \cup {Uplink}
AnyDest == Ports \cup {Broadcast}
Rule(prio, in, to, out) == [prio |-> prio, in |-> in, to |-> to, out |-> out]

\* What the controller keeps of a configuration: the members on known ports.
Served(cfg) == [cfg EXCEPT !.members = {m \in @ : m.dev \in KnownPorts}]

\* The devices of the VLANs that v may talk to, its own among them.
Peers(served, v) ==
    {m.dev : m \in {n \in served.members : n.vlan = v \/ {n.vlan, v} \in served.links}}
Managed(served) == {m.dev : m \in served.members}

\* Mutant of MemberRules: the ports of other VLANs are not blocked.
MemberRulesOpen(served, m) ==
    LET allowed == Peers(served, m.vlan) \ {m.dev}
    IN {Rule(395, m.dev, {d}, {d}) : d \in allowed}
       \cup {Rule(390, m.dev, {Broadcast}, allowed) : x \in 1..Cardinality(allowed)}
       \cup {Rule(380, m.dev, AnyDest, {})}

\* A member reaches its peers and nothing else; no other known port reaches it.
MemberRules(served, m) ==
    LET allowed == Peers(served, m.vlan) \ {m.dev}
        blocked == (KnownPorts \ {m.dev}) \ allowed
    IN {Rule(395, m.dev, {d}, {d}) : d \in allowed}
       \cup {Rule(390, m.dev, {Broadcast}, allowed) : x \in 1..Cardinality(allowed)}
       \cup {Rule(380, m.dev, AnyDest, {})}
       \cup {Rule(385, p, {m.dev}, {}) : p \in blocked}

\* No member, no rule.
ServedRules(served) ==
    IF served.members = {} THEN {}
    ELSE (UNION {MemberRules(served, m) : m \in served.members})
         \cup {Rule(384, p, {Broadcast}, {}) : p \in KnownPorts \ Managed(served)}

\* _install_vlan_automation_flows
VlanRules(cfg) == ServedRules(Served(cfg))

\* Where the rules of highest priority that match send a frame; no element when
\* the frame is left to the rules of lower priority.
Decision(rules, p, dest) ==
    LET matching == {r \in rules : r.in = p /\ dest \in r.to}
    IN {r.out : r \in {x \in matching : \A y \in matching : y.prio <= x.prio}}

\* What the rules are for: two ports talk when their VLANs are equal or linked.
MayTalk(served, p, d) ==
    \E m, n \in served.members :
        m.dev = p /\ n.dev = d /\ (m.vlan = n.vlan \/ {m.vlan, n.vlan} \in served.links)

\* Known ports are isolated from each other and from the rest; a frame from another
\* port is left to the rules of lower priority, wherever it goes.
Isolates(cfg) ==
    LET served == Served(cfg)
        table == VlanRules(cfg)
    IN /\ \A p \in KnownPorts : \A d \in Ports \ {p} :
             Decision(table, p, d) =
                 IF MayTalk(served, p, d) THEN {{d}}
                 ELSE IF {p, d} \cap Managed(served) # {} THEN {{}} ELSE {}
       /\ \A p \in KnownPorts :
             Decision(table, p, Broadcast) =
                 IF Managed(served) = {} THEN {}
                 ELSE {{d \in Devices \ {p} : MayTalk(served, p, d)}}
       /\ \A p \in Ports \ KnownPorts : \A x \in AnyDest : Decision(table, p, x) = {}

=============================================================================
