------------------------------ MODULE Forwarding ------------------------------
(***************************************************************************)
(* Forwarding in the campus network: the learning switch and the security  *)
(* policy of the controller (campus_controller.py, packet_in_handler with  *)
(* _enforce_security_policy, _load_security_policy_hook), the rules it     *)
(* gives a switch that connects (switch_features_handler,                  *)
(* _install_policy_engine_flows), and what the switches do with packets.   *)
(*                                                                         *)
(* The network is a tree.  Hosts know each other's MAC addresses           *)
(* (autoStaticArp), so all packets are unicast IP packets.  Packets,       *)
(* packet-ins and messages to the switches are sets: those under way are   *)
(* handled in any order.                                                   *)
(***************************************************************************)
EXTENDS Naturals

CONSTANTS
    Bridges,        \* switches
    Jacks,          \* port numbers
    Endpoints,      \* hosts
    HostAt,         \* the switch and port of each host
    Trunk,          \* the other end of a port that leads to a switch
    Toward,         \* the port of each switch that leads to each host
    Primary, Backup,    \* the servers that rules are preset for
    BackupPort,     \* ports of the preset rules to Backup, on some switches
    PolicyMap,      \* _policy_map_for_switch, of the switches that have one
    Policies,       \* sets of blocked pairs the policy file may name
    MaxSends, MaxPolicies, MaxRestarts  \* bounds on the environment

Sockets == Bridges \X Jacks
HostPairs == {pr \in Endpoints \X Endpoints : pr[1] # pr[2]}

\* Whatever a switch sends away from a host, and nothing else, comes from that
\* host's direction; the way to a host ends at its port, where no other host is.
ASSUME TreeAssumption ==
    /\ HostAt \in [Endpoints -> Sockets]
    /\ DOMAIN Trunk \subseteq Sockets /\ \A e \in DOMAIN Trunk : Trunk[e] \in Sockets
    /\ Toward \in [Bridges -> [Endpoints -> Jacks]]
    /\ \A h \in Endpoints :
          /\ Toward[HostAt[h][1]][h] = HostAt[h][2]
          /\ \A g \in Endpoints \ {h} : Toward[HostAt[g][1]][h] # HostAt[g][2]
          /\ \A e \in DOMAIN Trunk :
                Toward[e[1]][h] # e[2] <=> Toward[Trunk[e][1]][h] = Trunk[e][2]
          /\ \A s \in Bridges :
                <<s, Toward[s][h]>> = HostAt[h] \/ <<s, Toward[s][h]>> \in DOMAIN Trunk
    /\ Primary \in Endpoints /\ Backup \in Endpoints
    /\ DOMAIN BackupPort \subseteq Bridges /\ DOMAIN PolicyMap \subseteq Bridges
    /\ \A s \in DOMAIN BackupPort : BackupPort[s] \in Jacks
    /\ \A s \in DOMAIN PolicyMap :
          /\ DOMAIN PolicyMap[s] = {"uplink", "clients"} /\ PolicyMap[s].uplink \in Jacks
          /\ DOMAIN PolicyMap[s].clients \subseteq Endpoints
          /\ \A h \in DOMAIN PolicyMap[s].clients : PolicyMap[s].clients[h] \in Jacks
    /\ Jacks \subseteq Nat \ {0}
    /\ Policies \subseteq SUBSET HostPairs
    /\ MaxSends \in Nat /\ MaxPolicies \in Nat /\ MaxRestarts \in Nat

VARIABLES
    macToPort,      \* mac_to_port
    learned,        \* flows [at, port, dst, out], without a timeout
    blocks,          \* security flows [at, port, src, dst], with a hard timeout
    air,            \* packets [at, port, src, dst] that reach a switch
    asked,          \* packet-ins
    orders,         \* messages to the switches
    policyFile, policy,     \* blocked pairs in the file, in the controller
    sent,           \* history: pairs of which a packet was sent,
    arrived,        \* and arrived,
    excused,        \* or was blocked or lost in a restart of the controller
    sends, policies, restarts

tableVars == <<macToPort, learned, blocks>>
wireVars == <<air, asked, orders>>
policyVars == <<policyFile, policy, policies>>
fateVars == <<sent, arrived, excused>>
forwardingVars == <<tableVars, wireVars, policyVars, fateVars, sends, restarts>>

\* OFPP_FLOOD, where a packet goes whose destination is not in mac_to_port.
FloodPort == 0

Packets == [at : Bridges, port : Jacks, src : Endpoints, dst : Endpoints]
Flows == [at : Bridges, port : Jacks, dst : Endpoints, out : Jacks]
Orders ==
    [do : {"learn"}, flow : Flows] \cup [do : {"drop"}, packet : Packets]
        \cup [do : {"output"}, packet : Packets, out : Jacks \cup {FloodPort}]

PairOf(k) == <<k.src, k.dst>>

ForwardingInit ==
    /\ macToPort = [s \in Bridges |-> [h \in Endpoints |-> FloodPort]]
    /\ learned = {} /\ blocks = {}
    /\ air = {} /\ asked = {} /\ orders = {}
    /\ policyFile \in Policies /\ policy = {} /\ policies = 0
    /\ sent = {} /\ arrived = {} /\ excused = {}
    /\ sends = 0 /\ restarts = 0

-----------------------------------------------------------------------------
(* Rules that switch_features_handler installs, above the learned flows *)

BackupRules ==
    {[at |-> s, ports |-> Jacks, srcs |-> Endpoints, dst |-> Backup, out |-> BackupPort[s]] :
        s \in DOMAIN BackupPort}

\* To the primary server through the uplink, and from it to the clients of the
\* switch's map; the classes of traffic differ in their queues only.
ToPrimary(s) ==
    [at |-> s, ports |-> Jacks, srcs |-> Endpoints, dst |-> Primary,
     out |-> PolicyMap[s].uplink]
FromPrimary(s) ==
    {[at |-> s, ports |-> {PolicyMap[s].uplink}, srcs |-> {Primary}, dst |-> h,
      out |-> PolicyMap[s].clients[h]] : h \in DOMAIN PolicyMap[s].clients}
PolicyEngineRules == UNION {{ToPrimary(s)} \cup FromPrimary(s) : s \in DOMAIN PolicyMap}

\* The pairs that some of these rules sends elsewhere than towards the
\* destination, as the one to Primary does on the switch it is attached to.
Misdirected ==
    UNION {r.srcs \X {r.dst} :
        r \in {x \in BackupRules \cup PolicyEngineRules : x.out # Toward[x.at][x.dst]}}

-----------------------------------------------------------------------------
(* Switches *)

\* A switch never sends a packet back through the port it came from.
Outputs(k, out) == (IF out = FloodPort THEN Jacks ELSE {out}) \ {k.port}

\* The packets at the next switches, and whether one is at its destination.
Hops(k, out) ==
    {[k EXCEPT !.at = Trunk[e][1], !.port = Trunk[e][2]] :
        e \in {<<k.at, p>> : p \in Outputs(k, out)} \cap DOMAIN Trunk}
Reaches(k, out) == HostAt[k.dst] \in {<<k.at, p>> : p \in Outputs(k, out)}

Emit(rest, k, out) ==
    /\ air' = rest \cup Hops(k, out)
    /\ arrived' = IF Reaches(k, out) THEN arrived \cup {PairOf(k)} ELSE arrived

\* A host sends a packet to another one, once the fate of the last is known.
Send ==
    \E pr \in HostPairs :
        LET k == [at |-> HostAt[pr[1]][1], port |-> HostAt[pr[1]][2],
                  src |-> pr[1], dst |-> pr[2]] IN
        /\ sends < MaxSends /\ (pr \in sent => pr \in arrived \cup excused)
        /\ sends' = sends + 1
        /\ air' = air \cup {k}
        /\ sent' = sent \cup {pr} /\ arrived' = arrived \ {pr} /\ excused' = excused \ {pr}
        /\ UNCHANGED <<tableVars, asked, orders, policyVars, restarts>>

PresetFor(k) ==
    {r \in BackupRules \cup PolicyEngineRules : r.at = k.at /\ k.port \in r.ports /\ k.src \in r.srcs /\ r.dst = k.dst}
LearnedFor(k) == {f \in learned : f.at = k.at /\ f.port = k.port /\ f.dst = k.dst}

\* The flow tables by priority: security flows, preset rules, learned flows, and
\* the table-miss rule.
Forward(k) ==
    /\ k \in air
    /\ \/ /\ k \in blocks
          /\ air' = air \ {k} /\ excused' = excused \cup {PairOf(k)}
          /\ UNCHANGED <<arrived, asked>>
       \/ /\ k \notin blocks /\ PresetFor(k) # {}
          /\ \E r \in PresetFor(k) : Emit(air \ {k}, k, r.out)
          /\ UNCHANGED <<excused, asked>>
       \/ /\ k \notin blocks /\ PresetFor(k) = {} /\ LearnedFor(k) # {}
          /\ \E f \in LearnedFor(k) : Emit(air \ {k}, k, f.out)
          /\ UNCHANGED <<excused, asked>>
       \/ /\ k \notin blocks /\ PresetFor(k) = {} /\ LearnedFor(k) = {}
          /\ air' = air \ {k} /\ asked' = asked \cup {k}
          /\ UNCHANGED <<arrived, excused>>
    /\ UNCHANGED <<tableVars, orders, policyVars, sent, sends, restarts>>

\* A message from the controller.
Execute(o) ==
    /\ o \in orders /\ orders' = orders \ {o}
    /\ \/ /\ o.do = "learn"
          /\ learned' = learned \cup {o.flow}
          /\ UNCHANGED <<blocks, air, arrived>>
       \/ /\ o.do = "drop"
          /\ blocks' = blocks \cup {o.packet}
          /\ UNCHANGED <<learned, air, arrived>>
       \/ /\ o.do = "output"
          /\ Emit(air, o.packet, o.out)
          /\ UNCHANGED <<learned, blocks>>
    /\ UNCHANGED <<macToPort, asked, policyVars, sent, excused, sends, restarts>>

Expire(k) ==
    /\ k \in blocks /\ blocks' = blocks \ {k}
    /\ UNCHANGED <<macToPort, learned, wireVars, policyVars, fateVars, sends, restarts>>

-----------------------------------------------------------------------------
(* packet_in_handler *)

\* Mutant of Learn: the destination is learned in place of the source.
LearnDestination(k) == macToPort' = [macToPort EXCEPT ![k.at][k.dst] = k.port]

Learn(k) == macToPort' = [macToPort EXCEPT ![k.at][k.src] = k.port]

\* _drop_security_flow
Block(k) ==
    /\ orders' = orders \cup {[do |-> "drop", packet |-> k]}
    /\ excused' = excused \cup {PairOf(k)}

\* Mutant of Route: the first packet of a learned flow is not sent on.
RouteByFlow(k, out) ==
    /\ orders' = orders \cup
          {IF out = FloodPort THEN [do |-> "output", packet |-> k, out |-> out]
           ELSE [do |-> "learn", flow |->
                    [at |-> k.at, port |-> k.port, dst |-> k.dst, out |-> out]]}
    /\ UNCHANGED excused

\* A flow for a destination that is known, and the packet itself.
Route(k, out) ==
    /\ orders' = orders \cup {[do |-> "output", packet |-> k, out |-> out]}
          \cup (IF out = FloodPort THEN {}
                ELSE {[do |-> "learn", flow |->
                          [at |-> k.at, port |-> k.port, dst |-> k.dst, out |-> out]]})
    /\ UNCHANGED excused

PacketIn(k) ==
    LET known == macToPort'[k.at][k.dst] IN
    /\ k \in asked /\ asked' = asked \ {k}
    /\ Learn(k)
    /\ IF PairOf(k) \in policy THEN Block(k) ELSE Route(k, known)
    /\ UNCHANGED <<learned, blocks, air, policyVars, sent, arrived, sends, restarts>>

-----------------------------------------------------------------------------
(* The policy *)

WritePolicy ==
    /\ policies < MaxPolicies /\ policies' = policies + 1
    /\ policyFile' \in Policies
    /\ UNCHANGED <<tableVars, wireVars, policy, fateVars, sends, restarts>>

\* Mutant of LoadSecurityPolicyHook: a policy that blocks nothing is not loaded.
LoadOnlyBlocking ==
    /\ policy # policyFile /\ policyFile # {} /\ policy' = policyFile
    /\ UNCHANGED <<tableVars, wireVars, policyFile, policies, fateVars, sends, restarts>>

\* _load_security_policy_hook
LoadSecurityPolicyHook ==
    /\ policy # policyFile /\ policy' = policyFile
    /\ UNCHANGED <<tableVars, wireVars, policyFile, policies, fateVars, sends, restarts>>

\* The controller starts again: it knows no port, nor the policy, and what was
\* under way between it and the switches is gone; the flows are not.
Restart ==
    /\ restarts < MaxRestarts /\ restarts' = restarts + 1
    /\ macToPort' = [s \in Bridges |-> [h \in Endpoints |-> FloodPort]]
    /\ policy' = {}
    /\ asked' = {} /\ orders' = {}
    /\ excused' = excused \cup {PairOf(k) : k \in asked}
          \cup {PairOf(o.packet) : o \in {x \in orders : x.do = "output"}}
    /\ UNCHANGED <<learned, blocks, air, policyFile, policies, sent, arrived, sends>>

-----------------------------------------------------------------------------
Switching == \E k \in air : Forward(k)
Obeying == \E o \in orders : Execute(o)
Deciding == \E k \in asked : PacketIn(k)

ForwardingNext ==
    \/ Send \/ Switching \/ Obeying \/ Deciding
    \/ \E k \in blocks : Expire(k)
    \/ WritePolicy \/ LoadSecurityPolicyHook \/ Restart

\* Switches and controller work; timeouts come; nothing else need happen.
ForwardingFairness ==
    /\ WF_forwardingVars(Switching) /\ WF_forwardingVars(Obeying) /\ WF_forwardingVars(Deciding)
    /\ WF_forwardingVars(LoadSecurityPolicyHook)
    /\ WF_forwardingVars(\E k \in blocks : Expire(k))

ForwardingSpec == ForwardingInit /\ [][ForwardingNext]_forwardingVars /\ ForwardingFairness

-----------------------------------------------------------------------------
(* Properties *)

ForwardingTypeOK ==
    /\ macToPort \in [Bridges -> [Endpoints -> Jacks \cup {FloodPort}]]
    /\ learned \subseteq Flows /\ blocks \subseteq Packets
    /\ air \subseteq Packets /\ asked \subseteq Packets /\ orders \subseteq Orders
    /\ policyFile \subseteq HostPairs /\ policy \subseteq HostPairs /\ policies \in 0..MaxPolicies
    /\ sent \subseteq HostPairs /\ arrived \subseteq sent /\ excused \subseteq sent
    /\ sends \in 0..MaxSends /\ restarts \in 0..MaxRestarts

\* Whatever is flooded and whenever the controller restarts, what it has learned
\* and every flow made from it leads to the host.
FlowsLeadToHost ==
    /\ \A s \in Bridges, h \in Endpoints : macToPort[s][h] \in {Toward[s][h], FloodPort}
    /\ \A f \in learned : f.out = Toward[f.at][f.dst]

\* Every packet arrives, unless the policy has blocked it, the controller was
\* restarted meanwhile, or a preset rule sends packets of its pair the wrong way.
Delivery == []<>(sent \ Misdirected \subseteq arrived \cup excused)

\* Once the policy file does not change, controller and switches come to block
\* nothing that it does not block, whatever was blocked before.
PolicySettles == <>[](policy = policyFile /\ \A k \in blocks : PairOf(k) \in policyFile)

=============================================================================
