-------------------------- MODULE Forwarding_proofs --------------------------
(***************************************************************************)
(* Theorems of Forwarding for every tree of switches and whatever rules    *)
(* are preset on them.                                                     *)
(*                                                                         *)
(* A packet that reaches a switch comes in at the port towards its source: *)
(* a switch emits it only through other ports, and in a tree whatever goes *)
(* away from a host comes from that host's direction at the next switch.   *)
(* So what the controller learns from packets leads to their source, and   *)
(* the flows it makes from that lead to their destination.                 *)
(***************************************************************************)
EXTENDS Forwarding, TLAPS

\* A packet that was sent and is at a port towards its source.
FromSource(k) ==
    /\ k \in Packets /\ PairOf(k) \in sent
    /\ k.port = Toward[k.at][k.src]

LeadsThere(o) ==
    /\ o.do \in {"learn", "drop", "output"}
    /\ o.do = "learn" => o.flow \in Flows /\ o.flow.out = Toward[o.flow.at][o.flow.dst]
    /\ o.do = "drop" => o.packet \in Packets
    /\ o.do = "output" => FromSource(o.packet)

ForwardingInv ==
    /\ ForwardingTypeOK
    /\ FlowsLeadToHost
    /\ \A k \in air \cup asked : FromSource(k)
    /\ \A o \in orders : LeadsThere(o)

\* What a switch emits comes in at the next switch towards its source.
LEMMA HopsComeFromSource ==
    ASSUME NEW k, FromSource(k), NEW out, NEW j \in Hops(k, out)
    PROVE  FromSource(j)
<1>1. PICK e \in {<<k.at, p>> : p \in Outputs(k, out)} \cap DOMAIN Trunk :
         j = [k EXCEPT !.at = Trunk[e][1], !.port = Trunk[e][2]]
  BY Zenon DEF Hops
<1>2. PICK p \in Outputs(k, out) : e = <<k.at, p>>
  BY <1>1
<1>3. /\ k \in Packets /\ e \in DOMAIN Trunk /\ e[1] = k.at /\ e[2] = p
      /\ p # k.port
  BY <1>1, <1>2 DEF FromSource, Outputs
<1>4. Trunk[e] \in Bridges \X Jacks
  BY <1>3, TreeAssumption DEF Sockets
<1>5. j \in Packets /\ j.at = Trunk[e][1] /\ j.port = Trunk[e][2] /\ j.src = k.src /\ j.dst = k.dst
  BY <1>1, <1>3, <1>4 DEF Packets
<1>6. k.src \in Endpoints /\ Toward[e[1]][k.src] # e[2]
  BY <1>3 DEF FromSource, Packets
<1>7. Toward[Trunk[e][1]][k.src] = Trunk[e][2]
  BY <1>3, <1>6, TreeAssumption
<1> QED
  BY <1>5, <1>7 DEF FromSource, PairOf

\* Emitting a packet brings only packets from their sources.
LEMMA EmitFromSource ==
    ASSUME NEW rest, NEW k, NEW out, FromSource(k), arrived \subseteq sent,
           \A j \in rest : FromSource(j), Emit(rest, k, out)
    PROVE  /\ \A j \in air' : FromSource(j)
           /\ arrived' \subseteq sent
BY HopsComeFromSource DEF Emit, FromSource

\* The pairs sent only change when a packet is sent.
LEMMA SentKept ==
    ASSUME sent \subseteq sent'
    PROVE  /\ \A k : FromSource(k) => FromSource(k)'
           /\ \A o : LeadsThere(o) => LeadsThere(o)'
BY DEF FromSource, LeadsThere, PairOf, Packets, Flows

LEMMA OrdersTyped ==
    ASSUME NEW o
    PROVE  /\ o \in Orders /\ o.do = "learn" => o.flow \in Flows
           /\ o \in Orders /\ o.do # "learn" => o.packet \in Packets
BY DEF Orders

LEMMA InitForwardingInv == ForwardingInit => ForwardingInv
BY TreeAssumption DEF ForwardingInit, ForwardingInv, ForwardingTypeOK, FlowsLeadToHost

LEMMA SendInv ==
    ASSUME ForwardingInv, Send
    PROVE  ForwardingInv'
<1>1. PICK pr \in HostPairs :
        LET k == [at |-> HostAt[pr[1]][1], port |-> HostAt[pr[1]][2],
                  src |-> pr[1], dst |-> pr[2]] IN
        /\ sends < MaxSends /\ sends' = sends + 1
        /\ air' = air \cup {k}
        /\ sent' = sent \cup {pr} /\ arrived' = arrived \ {pr} /\ excused' = excused \ {pr}
        /\ UNCHANGED <<tableVars, asked, orders, policyVars, restarts>>
  BY DEF Send
<1> DEFINE k == [at |-> HostAt[pr[1]][1], port |-> HostAt[pr[1]][2],
                 src |-> pr[1], dst |-> pr[2]]
<1>2. pr[1] \in Endpoints /\ pr[2] \in Endpoints /\ pr = <<pr[1], pr[2]>>
  BY DEF HostPairs
<1>3. HostAt[pr[1]] \in Bridges \X Jacks /\ Toward[HostAt[pr[1]][1]][pr[1]] = HostAt[pr[1]][2]
  BY <1>2, TreeAssumption DEF Sockets
<1>4. FromSource(k)'
  BY <1>1, <1>2, <1>3 DEF FromSource, Packets, PairOf
<1>5. \A j \in air \cup asked : FromSource(j)'
  BY <1>1, SentKept DEF ForwardingInv
<1>6. \A o \in orders : LeadsThere(o)'
  BY <1>1, SentKept DEF ForwardingInv
<1>7. ForwardingTypeOK'
  <2>1. air' \subseteq Packets
    BY <1>1, <1>4 DEF ForwardingInv, ForwardingTypeOK, FromSource
  <2>2. sends' \in 0..MaxSends
    BY <1>1, TreeAssumption DEF ForwardingInv, ForwardingTypeOK
  <2> QED
    BY <1>1, <2>1, <2>2
       DEF ForwardingInv, ForwardingTypeOK, tableVars, policyVars
<1> QED
  BY <1>1, <1>4, <1>5, <1>6, <1>7 DEF ForwardingInv, FlowsLeadToHost, tableVars

LEMMA ForwardInv ==
    ASSUME ForwardingInv, NEW k \in air, Forward(k)
    PROVE  ForwardingInv'
<1>1. FromSource(k)
  BY DEF ForwardingInv
<1>2. /\ sent' = sent
      /\ UNCHANGED <<macToPort, learned, blocks, orders, policyFile, policy, policies,
                     sends, restarts>>
  BY DEF Forward, tableVars, policyVars
<1>3. /\ \A j \in air' \cup asked' : FromSource(j)
      /\ arrived' \subseteq sent /\ excused' \subseteq sent
  <2>1. arrived \subseteq sent /\ excused \subseteq sent /\ \A j \in air \cup asked : FromSource(j)
    BY DEF ForwardingInv, ForwardingTypeOK
  <2>2. PairOf(k) \in sent
    BY <1>1 DEF FromSource
  <2>3. CASE k \in blocks
    BY <2>1, <2>2, <2>3 DEF Forward
  <2>4. CASE k \notin blocks /\ PresetFor(k) # {}
    <3>1. PICK r \in PresetFor(k) : Emit(air \ {k}, k, r.out)
      BY <2>4 DEF Forward
    <3>2. UNCHANGED <<excused, asked>>
      BY <2>4 DEF Forward
    <3> QED
      BY <1>1, <2>1, <3>1, <3>2, EmitFromSource
  <2>5. CASE k \notin blocks /\ PresetFor(k) = {} /\ LearnedFor(k) # {}
    <3>1. PICK f \in LearnedFor(k) : Emit(air \ {k}, k, f.out)
      BY <2>5 DEF Forward
    <3>2. UNCHANGED <<excused, asked>>
      BY <2>5 DEF Forward
    <3> QED
      BY <1>1, <2>1, <3>1, <3>2, EmitFromSource
  <2>6. CASE k \notin blocks /\ PresetFor(k) = {} /\ LearnedFor(k) = {}
    BY <2>1, <2>6 DEF Forward
  <2> QED
    BY <2>3, <2>4, <2>5, <2>6
<1>4. /\ \A j \in air' \cup asked' : FromSource(j)'
      /\ \A o \in orders' : LeadsThere(o)'
  BY <1>2, <1>3, SentKept DEF ForwardingInv
<1>5. ForwardingTypeOK'
  BY <1>2, <1>3 DEF ForwardingInv, ForwardingTypeOK, FromSource
<1> QED
  BY <1>2, <1>4, <1>5 DEF ForwardingInv, FlowsLeadToHost

LEMMA ExecuteInv ==
    ASSUME ForwardingInv, NEW o \in orders, Execute(o)
    PROVE  ForwardingInv'
<1>1. /\ LeadsThere(o) /\ o \in Orders /\ orders' \subseteq orders
      /\ sent' = sent
      /\ UNCHANGED <<macToPort, asked, excused, policyFile, policy, policies, sends, restarts>>
  BY DEF ForwardingInv, ForwardingTypeOK, Execute, policyVars
<1>2. /\ learned' \subseteq Flows /\ blocks' \subseteq Packets
      /\ \A f \in learned' : f.out = Toward[f.at][f.dst]
      /\ \A j \in air' : FromSource(j)
      /\ arrived' \subseteq sent
  <2>1. /\ learned \subseteq Flows /\ blocks \subseteq Packets /\ arrived \subseteq sent
        /\ \A f \in learned : f.out = Toward[f.at][f.dst]
        /\ \A j \in air : FromSource(j)
    BY DEF ForwardingInv, ForwardingTypeOK, FlowsLeadToHost
  <2>2. CASE o.do = "learn"
    BY <1>1, <2>1, <2>2 DEF Execute, LeadsThere
  <2>3. CASE o.do = "drop"
    BY <1>1, <2>1, <2>3 DEF Execute, LeadsThere
  <2>4. CASE o.do = "output"
    <3>1. Emit(air, o.packet, o.out) /\ UNCHANGED <<learned, blocks>>
      BY <2>4 DEF Execute
    <3>2. FromSource(o.packet)
      BY <1>1, <2>4 DEF LeadsThere
    <3> QED
      BY <2>1, <3>1, <3>2, EmitFromSource
  <2> QED
    BY <1>1, <2>2, <2>3, <2>4 DEF LeadsThere
<1>3. /\ \A j \in air' \cup asked' : FromSource(j)'
      /\ \A p \in orders' : LeadsThere(p)'
  BY <1>1, <1>2, SentKept DEF ForwardingInv
<1>4. ForwardingTypeOK'
  BY <1>1, <1>2 DEF ForwardingInv, ForwardingTypeOK, FromSource
<1> QED
  BY <1>1, <1>2, <1>3, <1>4 DEF ForwardingInv, FlowsLeadToHost

LEMMA PacketInInv ==
    ASSUME ForwardingInv, NEW k \in asked, PacketIn(k)
    PROVE  ForwardingInv'
<1> DEFINE known == macToPort'[k.at][k.dst]
<1>1. /\ FromSource(k) /\ k.at \in Bridges /\ k.src \in Endpoints /\ k.dst \in Endpoints
      /\ k.port \in Jacks
  BY DEF ForwardingInv, FromSource, Packets
<1>2. /\ asked' \subseteq asked /\ sent' = sent
      /\ macToPort' = [macToPort EXCEPT ![k.at][k.src] = k.port]
      /\ UNCHANGED <<learned, blocks, air, policyFile, policy, policies, arrived, sends,
                     restarts>>
      /\ IF PairOf(k) \in policy THEN Block(k) ELSE Route(k, known)
  BY DEF PacketIn, Learn, policyVars
<1>3. /\ macToPort' \in [Bridges -> [Endpoints -> Jacks \cup {FloodPort}]]
      /\ \A s \in Bridges, h \in Endpoints : macToPort'[s][h] \in {Toward[s][h], FloodPort}
  <2>1. macToPort \in [Bridges -> [Endpoints -> Jacks \cup {FloodPort}]]
    BY DEF ForwardingInv, ForwardingTypeOK
  <2>2. \A s \in Bridges, h \in Endpoints :
          macToPort'[s][h] = IF s = k.at /\ h = k.src THEN k.port ELSE macToPort[s][h]
    BY <1>1, <1>2, <2>1
  <2>3. k.port = Toward[k.at][k.src]
    BY <1>1 DEF FromSource
  <2>4. macToPort' \in [Bridges -> [Endpoints -> Jacks \cup {FloodPort}]]
    BY <1>1, <1>2, <2>1
  <2>5. \A s \in Bridges, h \in Endpoints : macToPort[s][h] \in {Toward[s][h], FloodPort}
    BY DEF ForwardingInv, FlowsLeadToHost
  <2> QED
    BY <2>2, <2>3, <2>4, <2>5
<1>4. /\ \A o \in orders' : o \in Orders /\ LeadsThere(o)
      /\ excused' \subseteq sent
  <2>1. /\ \A o \in orders : o \in Orders /\ LeadsThere(o)
        /\ excused \subseteq sent /\ PairOf(k) \in sent /\ k \in Packets
    BY <1>1 DEF ForwardingInv, ForwardingTypeOK, FromSource
  <2>2. CASE PairOf(k) \in policy
    <3> DEFINE drop == [do |-> "drop", packet |-> k]
    <3>1. orders' = orders \cup {drop} /\ excused' = excused \cup {PairOf(k)}
      BY <1>2, <2>2 DEF Block
    <3>2. drop \in Orders /\ LeadsThere(drop)
      BY <2>1 DEF Orders, LeadsThere
    <3> QED
      BY <2>1, <3>1, <3>2
  <2>3. CASE PairOf(k) \notin policy
    <3> DEFINE output == [do |-> "output", packet |-> k, out |-> known]
               flow == [at |-> k.at, port |-> k.port, dst |-> k.dst, out |-> known]
               learn == [do |-> "learn", flow |-> flow]
    <3>1. orders' = orders \cup {output} \cup (IF known = FloodPort THEN {} ELSE {learn})
          /\ excused' = excused
      BY <1>2, <2>3 DEF Route
    <3>2. known \in Jacks \cup {FloodPort} /\ known \in {Toward[k.at][k.dst], FloodPort}
      BY <1>1, <1>3
    <3>3. output \in Orders /\ LeadsThere(output)
      BY <1>1, <2>1, <3>2 DEF Orders, LeadsThere
    <3>4. ASSUME known # FloodPort
          PROVE  learn \in Orders /\ LeadsThere(learn)
      <4>1. known \in Jacks /\ known = Toward[k.at][k.dst]
        BY <3>2, <3>4
      <4>2. flow \in Flows /\ flow.out = Toward[flow.at][flow.dst]
        BY <1>1, <4>1 DEF Flows
      <4> HIDE DEF flow
      <4> QED
        BY <4>2 DEF Orders, LeadsThere
    <3> HIDE DEF output, learn, known
    <3> QED
      BY <2>1, <3>1, <3>3, <3>4
  <2> QED
    BY <2>2, <2>3
<1>5. /\ \A j \in air' \cup asked' : FromSource(j)'
      /\ \A o \in orders' : LeadsThere(o)'
  BY <1>2, <1>4, SentKept DEF ForwardingInv
<1>6. ForwardingTypeOK'
  BY <1>2, <1>3, <1>4 DEF ForwardingInv, ForwardingTypeOK
<1> QED
  BY <1>2, <1>3, <1>5, <1>6 DEF ForwardingInv, FlowsLeadToHost

LEMMA RestartInv ==
    ASSUME ForwardingInv, Restart
    PROVE  ForwardingInv'
<1>1. /\ sent' = sent /\ asked' = {} /\ orders' = {} /\ policy' = {}
      /\ restarts < MaxRestarts /\ restarts' = restarts + 1
      /\ macToPort' = [s \in Bridges |-> [h \in Endpoints |-> FloodPort]]
      /\ UNCHANGED <<learned, blocks, air, policyFile, policies, arrived, sends>>
  BY DEF Restart
<1>2. excused' \subseteq sent
  <2>1. \A o \in orders : o.do = "output" => PairOf(o.packet) \in sent
    BY DEF ForwardingInv, LeadsThere, FromSource
  <2>2. \A k \in asked : PairOf(k) \in sent
    BY DEF ForwardingInv, FromSource
  <2> QED
    BY <2>1, <2>2 DEF Restart, ForwardingInv, ForwardingTypeOK
<1>3. restarts' \in 0..MaxRestarts
  BY <1>1, TreeAssumption DEF ForwardingInv, ForwardingTypeOK
<1>4. ForwardingTypeOK'
  BY <1>1, <1>2, <1>3 DEF ForwardingInv, ForwardingTypeOK
<1>5. \A j \in air' \cup asked' : FromSource(j)'
  BY <1>1, SentKept DEF ForwardingInv
<1> QED
  BY <1>1, <1>4, <1>5 DEF ForwardingInv, FlowsLeadToHost

\* The other steps leave what is learned, and what is under way, alone.
LEMMA QuietInv ==
    ASSUME ForwardingInv,
           \/ \E k \in blocks : Expire(k)
           \/ WritePolicy \/ LoadSecurityPolicyHook
           \/ UNCHANGED forwardingVars
    PROVE  ForwardingInv'
<1>1. /\ UNCHANGED <<macToPort, learned, air, asked, orders, sent, arrived, excused, sends,
                     restarts>>
      /\ blocks' \subseteq blocks
  BY DEF Expire, WritePolicy, LoadSecurityPolicyHook, forwardingVars, tableVars, wireVars,
         policyVars, fateVars
<1>2. policyFile' \subseteq HostPairs /\ policy' \subseteq HostPairs /\ policies' \in 0..MaxPolicies
  BY TreeAssumption
  DEF ForwardingInv, ForwardingTypeOK, Expire, WritePolicy, LoadSecurityPolicyHook,
      forwardingVars, policyVars
<1>3. ForwardingTypeOK'
  BY <1>1, <1>2 DEF ForwardingInv, ForwardingTypeOK
<1>4. /\ \A j \in air' \cup asked' : FromSource(j)'
      /\ \A o \in orders' : LeadsThere(o)'
  BY <1>1, SentKept DEF ForwardingInv
<1> QED
  BY <1>1, <1>3, <1>4 DEF ForwardingInv, FlowsLeadToHost

LEMMA NextForwardingInv == ForwardingInv /\ [ForwardingNext]_forwardingVars => ForwardingInv'
<1> SUFFICES ASSUME ForwardingInv, [ForwardingNext]_forwardingVars PROVE ForwardingInv'
  OBVIOUS
<1>1. CASE Send
  BY <1>1, SendInv
<1>2. CASE Switching
  BY <1>2, ForwardInv DEF Switching
<1>3. CASE Obeying
  BY <1>3, ExecuteInv DEF Obeying
<1>4. CASE Deciding
  BY <1>4, PacketInInv DEF Deciding
<1>5. CASE Restart
  BY <1>5, RestartInv
<1>6. CASE \/ \E k \in blocks : Expire(k)
           \/ WritePolicy \/ LoadSecurityPolicyHook
           \/ UNCHANGED forwardingVars
  BY <1>6, QuietInv
<1> QED
  BY <1>1, <1>2, <1>3, <1>4, <1>5, <1>6 DEF ForwardingNext

\* For every tree of switches and whatever rules are preset: what the controller
\* learns of a host, and every flow it makes from that, leads to the host,
\* whatever is flooded and whenever the controller restarts.
THEOREM LearnedFlowsLeadToHost == ForwardingSpec => []FlowsLeadToHost
<1>1. ForwardingInv => FlowsLeadToHost
  BY DEF ForwardingInv
<1> QED
  BY <1>1, InitForwardingInv, NextForwardingInv, PTL DEF ForwardingSpec

\* Every switch gets packets only at the port towards their source, so none
\* meets the network twice on its way back.
THEOREM PacketsComeFromSource == ForwardingSpec => [](\A k \in air : FromSource(k))
<1>1. ForwardingInv => \A k \in air : FromSource(k)
  BY DEF ForwardingInv
<1> QED
  BY <1>1, InitForwardingInv, NextForwardingInv, PTL DEF ForwardingSpec

\* Packets, packet-ins, messages and flows stay what the code makes of them.
THEOREM ForwardingIsTyped == ForwardingSpec => []ForwardingTypeOK
<1>1. ForwardingInv => ForwardingTypeOK
  BY DEF ForwardingInv
<1> QED
  BY <1>1, InitForwardingInv, NextForwardingInv, PTL DEF ForwardingSpec

-----------------------------------------------------------------------------
(* The safety half of Delivery.  Of the copies that flooding makes of a    *)
(* packet, one is on the way from its source to its destination: at a      *)
(* switch of that way the two are in different directions, so the switch   *)
(* sends the copy on whether it floods it or follows a rule, except by a   *)
(* rule that misdirects its pair.                                          *)

\* The copy is at a switch between its source and its destination.
OnTheWay(k) == FromSource(k) /\ k.port # Toward[k.at][k.dst]

Outputting(o) == o.do = "output"

\* At a switch, at the controller, or in a message from it to a switch.
UnderWay ==
    {k \in air \cup asked : OnTheWay(k)}
        \cup {o.packet : o \in {x \in orders : Outputting(x) /\ OnTheWay(x.packet)}}

\* What is told to be output goes where it should, or everywhere.
OutputsLeadThere ==
    \A o \in orders : Outputting(o) =>
        o.out \in {Toward[o.packet.at][o.packet.dst], FloodPort}

\* What was sent and has neither arrived nor been excused is under way.
NoPacketLost ==
    \A pr \in sent \ (arrived \cup excused \cup Misdirected) :
        \E k \in UnderWay : PairOf(k) = pr

DeliveryInv == OutputsLeadThere /\ NoPacketLost

\* A copy on its way that is sent on the right way arrives or is on its way at
\* the next switch.
LEMMA EmitGoesOn ==
    ASSUME NEW k, OnTheWay(k), NEW out \in {Toward[k.at][k.dst], FloodPort}
    PROVE  Reaches(k, out) \/ \E j \in Hops(k, out) : OnTheWay(j) /\ PairOf(j) = PairOf(k)
<1> DEFINE p == Toward[k.at][k.dst]
           e == <<k.at, p>>
<1>1. /\ k \in Packets /\ k.at \in Bridges /\ k.dst \in Endpoints /\ k.src \in Endpoints
      /\ FromSource(k) /\ p # k.port
  BY DEF OnTheWay, FromSource, Packets
<1>2. p \in Jacks
  BY <1>1, TreeAssumption
<1>3. p \in Outputs(k, out)
  BY <1>1, <1>2 DEF Outputs
<1>4. CASE e = HostAt[k.dst]
  BY <1>3, <1>4 DEF Reaches
<1>5. CASE e \in DOMAIN Trunk
  <2> DEFINE j == [k EXCEPT !.at = Trunk[e][1], !.port = Trunk[e][2]]
  <2>1. j \in Hops(k, out)
    BY <1>3, <1>5 DEF Hops
  <2>2. FromSource(j)
    BY <1>1, <2>1, HopsComeFromSource
  <2>3. Trunk[e] \in Bridges \X Jacks
    BY <1>5, TreeAssumption DEF Sockets
  <2>4. j.at = Trunk[e][1] /\ j.port = Trunk[e][2] /\ j.src = k.src /\ j.dst = k.dst
    BY <1>1, <2>3 DEF Packets
  <2>5. Toward[e[1]][k.dst] = e[2]
    OBVIOUS
  <2>6. Toward[Trunk[e][1]][k.dst] # Trunk[e][2]
    BY <1>1, <1>5, <2>5, TreeAssumption
  <2>7. OnTheWay(j) /\ PairOf(j) = PairOf(k)
    BY <2>2, <2>4, <2>6 DEF OnTheWay, PairOf
  <2> QED
    BY <2>1, <2>7
<1> QED
  BY <1>1, <1>4, <1>5, TreeAssumption

\* What happens to a copy on its way leaves none of its pair lost, if the others
\* of other pairs are left alone.
LEMMA StillUnderWay ==
    ASSUME DeliveryInv, UNCHANGED sent, arrived \subseteq arrived', excused \subseteq excused',
           \A k \in UnderWay :
               \/ PairOf(k) \in arrived' \cup excused' \cup Misdirected
               \/ \E j \in UnderWay' : PairOf(j) = PairOf(k)
    PROVE  NoPacketLost'
<1> SUFFICES ASSUME NEW pr \in sent', pr \notin arrived' \cup excused' \cup Misdirected
             PROVE  \E j \in UnderWay' : PairOf(j) = pr
  BY DEF NoPacketLost, Misdirected, BackupRules, PolicyEngineRules, ToPrimary, FromPrimary, PairOf
<1>1. PICK k \in UnderWay : PairOf(k) = pr
  BY DEF DeliveryInv, NoPacketLost
<1> QED
  BY <1>1

\* What is on its way stays so while no packet is sent.
LEMMA OnTheWayKept ==
    ASSUME UNCHANGED sent
    PROVE  \A k : OnTheWay(k) <=> OnTheWay(k)'
BY DEF OnTheWay, FromSource, PairOf, Packets

\* A switch that sends a copy on its way in the right direction.
LEMMA EmitDelivers ==
    ASSUME NEW k, OnTheWay(k), NEW out \in {Toward[k.at][k.dst], FloodPort},
           NEW rest, Emit(rest, k, out), UNCHANGED sent
    PROVE  PairOf(k) \in arrived' \/ \E j \in UnderWay' : PairOf(j) = PairOf(k)
<1>1. CASE Reaches(k, out)
  BY <1>1 DEF Emit
<1>2. CASE \E j \in Hops(k, out) : OnTheWay(j) /\ PairOf(j) = PairOf(k)
  <2>1. PICK j \in Hops(k, out) : OnTheWay(j) /\ PairOf(j) = PairOf(k)
    BY <1>2
  <2>2. j \in air' /\ OnTheWay(j)'
    BY <2>1, OnTheWayKept DEF Emit
  <2>3. j \in UnderWay'
    BY <2>2 DEF UnderWay
  <2> QED
    BY <2>1, <2>3
<1> QED
  BY <1>1, <1>2, EmitGoesOn

LEMMA ForwardDelivers ==
    ASSUME ForwardingInv, DeliveryInv, NEW k \in air, Forward(k)
    PROVE  DeliveryInv'
<1>1. /\ UNCHANGED <<sent, orders>> /\ excused \subseteq excused' /\ arrived \subseteq arrived'
      /\ asked \subseteq asked' /\ air \ {k} \subseteq air'
  BY DEF Forward, Emit
<1>2. \A j \in UnderWay : j # k \/ j \in asked => j \in UnderWay'
  BY <1>1, OnTheWayKept DEF UnderWay, Outputting
<1>3. ASSUME OnTheWay(k)
      PROVE  \/ PairOf(k) \in arrived' \cup excused' \cup Misdirected
             \/ \E j \in UnderWay' : PairOf(j) = PairOf(k)
  <2>1. CASE k \in blocks
    BY <2>1 DEF Forward
  <2>2. ASSUME NEW r \in PresetFor(k), Emit(air \ {k}, k, r.out)
        PROVE  \/ PairOf(k) \in arrived' \cup excused' \cup Misdirected
               \/ \E j \in UnderWay' : PairOf(j) = PairOf(k)
    <3>1. /\ r \in BackupRules \cup PolicyEngineRules
          /\ r.at = k.at /\ r.dst = k.dst /\ k.src \in r.srcs
      BY DEF PresetFor
    <3>2. CASE r.out = Toward[r.at][r.dst]
      <4>1. r.out \in {Toward[k.at][k.dst], FloodPort}
        BY <3>1, <3>2
      <4> QED
        BY <1>1, <1>3, <2>2, <4>1, EmitDelivers
    <3>3. CASE r.out # Toward[r.at][r.dst]
      <4>1. PairOf(k) \in r.srcs \X {r.dst}
        BY <3>1 DEF PairOf
      <4> QED
        BY <3>1, <3>3, <4>1 DEF Misdirected
    <3> QED
      BY <3>2, <3>3
  <2>3. ASSUME NEW f \in LearnedFor(k), Emit(air \ {k}, k, f.out)
        PROVE  \/ PairOf(k) \in arrived' \cup excused' \cup Misdirected
               \/ \E j \in UnderWay' : PairOf(j) = PairOf(k)
    <3>1. f.out \in {Toward[k.at][k.dst], FloodPort}
      BY DEF LearnedFor, ForwardingInv, FlowsLeadToHost
    <3> QED
      BY <1>1, <1>3, <2>3, <3>1, EmitDelivers
  <2>4. ASSUME k \in asked'
        PROVE  k \in UnderWay'
    BY <1>1, <1>3, <2>4, OnTheWayKept DEF UnderWay
  <2> QED
    BY <2>1, <2>2, <2>3, <2>4 DEF Forward
<1>4. ASSUME NEW j \in UnderWay
      PROVE  \/ PairOf(j) \in arrived' \cup excused' \cup Misdirected
             \/ \E i \in UnderWay' : PairOf(i) = PairOf(j)
  BY <1>2, <1>3 DEF UnderWay
<1>5. NoPacketLost'
  BY <1>1, <1>4, StillUnderWay
<1> QED
  BY <1>1, <1>5 DEF DeliveryInv, OutputsLeadThere, Outputting

LEMMA ExecuteDelivers ==
    ASSUME ForwardingInv, DeliveryInv, NEW o \in orders, Execute(o)
    PROVE  DeliveryInv'
<1>1. /\ UNCHANGED <<sent, asked, excused>> /\ orders' = orders \ {o}
      /\ arrived \subseteq arrived' /\ air \subseteq air'
  BY DEF Execute, Emit
<1>2. ASSUME NEW k \in UnderWay, k \notin UnderWay'
      PROVE  Outputting(o) /\ OnTheWay(k) /\ k = o.packet
  BY <1>1, <1>2, OnTheWayKept DEF UnderWay, Outputting
<1>3. ASSUME Outputting(o), OnTheWay(o.packet)
      PROVE  \/ PairOf(o.packet) \in arrived'
             \/ \E j \in UnderWay' : PairOf(j) = PairOf(o.packet)
  <2>1. Emit(air, o.packet, o.out)
    BY <1>3 DEF Execute, Outputting
  <2>2. o.out \in {Toward[o.packet.at][o.packet.dst], FloodPort}
    BY <1>3 DEF DeliveryInv, OutputsLeadThere
  <2> QED
    BY <1>1, <1>3, <2>1, <2>2, EmitDelivers
<1>4. ASSUME NEW j \in UnderWay
      PROVE  \/ PairOf(j) \in arrived' \cup excused' \cup Misdirected
             \/ \E i \in UnderWay' : PairOf(i) = PairOf(j)
  BY <1>2, <1>3
<1>5. NoPacketLost'
  BY <1>1, <1>4, StillUnderWay
<1> QED
  BY <1>1, <1>5 DEF DeliveryInv, OutputsLeadThere, Outputting

LEMMA PacketInDelivers ==
    ASSUME ForwardingInv, ForwardingInv', DeliveryInv, NEW k \in asked, PacketIn(k)
    PROVE  DeliveryInv'
<1> DEFINE known == macToPort'[k.at][k.dst]
           output == [do |-> "output", packet |-> k, out |-> known]
<1>1. k \in Packets /\ k.at \in Bridges /\ k.dst \in Endpoints
  BY DEF ForwardingInv, FromSource, Packets
<1>2. /\ UNCHANGED <<sent, air, arrived>> /\ asked' = asked \ {k}
      /\ orders \subseteq orders' /\ excused \subseteq excused'
  BY DEF PacketIn, Block, Route
<1>3. known \in {Toward[k.at][k.dst], FloodPort}
  BY <1>1 DEF ForwardingInv, FlowsLeadToHost
<1>4. CASE PairOf(k) \in policy
  <2>1. /\ PairOf(k) \in excused'
        /\ \A o \in orders' : o \in orders \/ ~Outputting(o)
    BY <1>4 DEF PacketIn, Block, Outputting
  <2>2. \A j \in UnderWay : j = k \/ j \in UnderWay'
    BY <1>2, OnTheWayKept DEF UnderWay, Outputting
  <2>3. NoPacketLost'
    BY <1>2, <2>1, <2>2, StillUnderWay
  <2> QED
    BY <2>1, <2>3 DEF DeliveryInv, OutputsLeadThere, Outputting
<1>5. CASE PairOf(k) \notin policy
  <2>1. /\ output \in orders'
        /\ \A o \in orders' : o \in orders \/ ~Outputting(o) \/ o = output
    BY <1>5 DEF PacketIn, Route, Outputting
  <2>2. Outputting(output) /\ output.packet = k /\ output.out = known
    BY DEF Outputting
  <2> HIDE DEF output, known
  <2>3. \A j \in UnderWay : j \in UnderWay'
    BY <1>2, <2>1, <2>2, OnTheWayKept DEF UnderWay, Outputting
  <2>4. NoPacketLost'
    BY <1>2, <2>3, StillUnderWay
  <2>5. OutputsLeadThere'
    BY <1>3, <2>1, <2>2 DEF DeliveryInv, OutputsLeadThere, Outputting
  <2> QED
    BY <2>4, <2>5 DEF DeliveryInv
<1> QED
  BY <1>4, <1>5

LEMMA SendDelivers ==
    ASSUME ForwardingInv, DeliveryInv, Send
    PROVE  DeliveryInv'
<1>1. PICK pr \in HostPairs :
        LET k == [at |-> HostAt[pr[1]][1], port |-> HostAt[pr[1]][2],
                  src |-> pr[1], dst |-> pr[2]] IN
        /\ air' = air \cup {k}
        /\ sent' = sent \cup {pr} /\ arrived' = arrived \ {pr} /\ excused' = excused \ {pr}
        /\ UNCHANGED <<asked, orders>>
  BY DEF Send
<1> DEFINE k == [at |-> HostAt[pr[1]][1], port |-> HostAt[pr[1]][2],
                 src |-> pr[1], dst |-> pr[2]]
<1>2. pr[1] \in Endpoints /\ pr[2] \in Endpoints \ {pr[1]} /\ pr = <<pr[1], pr[2]>>
  BY DEF HostPairs
<1>3. /\ HostAt[pr[1]] \in Bridges \X Jacks
      /\ Toward[HostAt[pr[1]][1]][pr[1]] = HostAt[pr[1]][2]
      /\ Toward[HostAt[pr[1]][1]][pr[2]] # HostAt[pr[1]][2]
  BY <1>2, TreeAssumption DEF Sockets
<1>4. PairOf(k) = pr /\ OnTheWay(k)' /\ k \in air'
  BY <1>1, <1>2, <1>3 DEF OnTheWay, FromSource, Packets, PairOf
<1> HIDE DEF k
<1>5. k \in UnderWay'
  BY <1>4 DEF UnderWay
<1>6. \A j : OnTheWay(j) => OnTheWay(j)'
  BY <1>1 DEF OnTheWay, FromSource, Packets, PairOf
<1>7. \A j \in UnderWay : j \in UnderWay'
  BY <1>1, <1>6 DEF UnderWay, Outputting
<1>8. ASSUME NEW qr \in sent', qr \notin arrived' \cup excused' \cup Misdirected, qr # pr
      PROVE  \E j \in UnderWay' : PairOf(j) = qr
  <2>1. qr \in sent /\ qr \notin arrived \cup excused \cup Misdirected
    BY <1>1, <1>8
  <2> QED
    BY <1>7, <2>1 DEF DeliveryInv, NoPacketLost
<1>9. NoPacketLost'
  BY <1>4, <1>5, <1>8
  DEF NoPacketLost, Misdirected, BackupRules, PolicyEngineRules, ToPrimary, FromPrimary, PairOf
<1> QED
  BY <1>1, <1>9 DEF DeliveryInv, OutputsLeadThere, Outputting

LEMMA RestartDelivers ==
    ASSUME ForwardingInv, DeliveryInv, Restart
    PROVE  DeliveryInv'
<1>1. /\ UNCHANGED <<sent, air, arrived>> /\ orders' = {} /\ excused \subseteq excused'
      /\ \A k \in asked : PairOf(k) \in excused'
      /\ \A o \in orders : Outputting(o) => PairOf(o.packet) \in excused'
  BY DEF Restart, Outputting
<1>2. \A k \in UnderWay : PairOf(k) \in excused' \/ k \in UnderWay'
  BY <1>1, OnTheWayKept DEF UnderWay, Outputting
<1>3. NoPacketLost'
  BY <1>1, <1>2, StillUnderWay
<1> QED
  BY <1>1, <1>3 DEF DeliveryInv, OutputsLeadThere

LEMMA QuietDelivers ==
    ASSUME DeliveryInv,
           \/ \E k \in blocks : Expire(k)
           \/ WritePolicy \/ LoadSecurityPolicyHook
           \/ UNCHANGED forwardingVars
    PROVE  DeliveryInv'
<1>1. UNCHANGED <<air, asked, orders, sent, arrived, excused>>
  BY DEF Expire, WritePolicy, LoadSecurityPolicyHook, forwardingVars, wireVars, fateVars
<1>2. \A k \in UnderWay : k \in UnderWay'
  BY <1>1, OnTheWayKept DEF UnderWay, Outputting
<1>3. NoPacketLost'
  BY <1>1, <1>2, StillUnderWay
<1> QED
  BY <1>1, <1>3 DEF DeliveryInv, OutputsLeadThere, Outputting

LEMMA NextDeliveryInv ==
    ForwardingInv /\ DeliveryInv /\ [ForwardingNext]_forwardingVars => DeliveryInv'
<1> SUFFICES ASSUME ForwardingInv, DeliveryInv, [ForwardingNext]_forwardingVars
             PROVE  DeliveryInv'
  OBVIOUS
<1>1. CASE Send
  BY <1>1, SendDelivers
<1>2. CASE Switching
  BY <1>2, ForwardDelivers DEF Switching
<1>3. CASE Obeying
  BY <1>3, ExecuteDelivers DEF Obeying
<1>4. CASE Deciding
  BY <1>4, NextForwardingInv, PacketInDelivers DEF Deciding
<1>5. CASE Restart
  BY <1>5, RestartDelivers
<1>6. CASE \/ \E k \in blocks : Expire(k)
           \/ WritePolicy \/ LoadSecurityPolicyHook
           \/ UNCHANGED forwardingVars
  BY <1>6, QuietDelivers
<1> QED
  BY <1>1, <1>2, <1>3, <1>4, <1>5, <1>6 DEF ForwardingNext

\* When nothing is under way, everything sent has arrived, except what Delivery
\* excepts too.
AllDelivered ==
    air = {} /\ asked = {} /\ (\A o \in orders : ~Outputting(o))
        => sent \ Misdirected \subseteq arrived \cup excused

\* A packet that has not arrived, that the policy has not blocked and that a
\* restart of the controller has not lost is on its way to its destination at a
\* switch, at the controller or in a message from it, unless a preset rule sends
\* its pair the wrong way: flooding, learning and the packet that the controller
\* outputs itself while the flow for it is under way leave no gap.  So a network
\* that is at rest has delivered everything.
THEOREM PacketsKeepGoing == ForwardingSpec => [](NoPacketLost /\ AllDelivered)
<1>1. ForwardingInit => DeliveryInv
  BY DEF ForwardingInit, DeliveryInv, OutputsLeadThere, NoPacketLost
<1>2. DeliveryInv => NoPacketLost /\ AllDelivered
  BY DEF DeliveryInv, NoPacketLost, AllDelivered, UnderWay
<1> QED
  BY <1>1, <1>2, InitForwardingInv, NextForwardingInv, NextDeliveryInv, PTL
  DEF ForwardingSpec

=============================================================================
