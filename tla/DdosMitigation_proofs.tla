----------------------- MODULE DdosMitigation_proofs ------------------------
(***************************************************************************)
(* Theorems of DdosMitigation for every topology, port map and threshold.  *)
(*                                                                         *)
(* The tables of ages share three lemmas.  Types, the equality of a rule's *)
(* age with its entry's and the agreement of the flags with the tables are *)
(* one inductive invariant: cleanup removes entries of age at least        *)
(* HardTimeout + Grace only, which no live rule's entry has, and the flags *)
(* of one path are recomputed from the other path's.                       *)
(***************************************************************************)
EXTENDS DdosMitigation, TLAPS

\* One more key of age zero.
LEMMA WithTyped ==
    ASSUME NEW f, NEW K, NEW n \in Nat, IsAges(f, K, n), NEW x \in K
    PROVE  IsAges(With(f, x), K, n)
<1>1. DOMAIN With(f, x) = DOMAIN f \cup {x}
  BY DEF With
<1>2. \A y \in DOMAIN f : f[y] \in 0..n
  BY DEF IsAges
<1>3. With(f, x) \in [DOMAIN With(f, x) -> 0..n]
  BY <1>1, <1>2 DEF With
<1> QED
  BY <1>1, <1>3 DEF IsAges

LEMMA WithValues ==
    ASSUME NEW f, NEW x
    PROVE  /\ DOMAIN With(f, x) = DOMAIN f \cup {x}
           /\ With(f, x)[x] = 0
           /\ \A y \in DOMAIN f : y # x => With(f, x)[y] = f[y]
BY DEF With

\* Fewer keys.
LEMMA WithoutTyped ==
    ASSUME NEW f, NEW K, NEW n, NEW S, IsAges(f, K, n)
    PROVE  IsAges(Without(f, S), K, n)
BY DEF IsAges, Without

\* A tick later.
LEMMA AgedTyped ==
    ASSUME NEW f, NEW K, NEW n \in Nat, IsAges(f, K, n)
    PROVE  IsAges(Aged(f, n), K, n)
BY DEF IsAges, Aged

\* A tick later, without what reached the bound.
LEMMA ExpiredTyped ==
    ASSUME NEW f, NEW K, NEW n \in Nat \ {0}, IsAges(f, K, n - 1),
           NEW g, g = Without(Aged(f, n), Overdue(Aged(f, n), n))
    PROVE  /\ IsAges(g, K, n - 1)
           /\ \A x \in DOMAIN g : x \in DOMAIN f /\ g[x] = f[x] + 1 /\ f[x] \in 0..n - 2
<1> DEFINE aged == Aged(f, n)
<1>1. /\ DOMAIN aged = DOMAIN f
      /\ \A x \in DOMAIN f : aged[x] = f[x] + 1 /\ f[x] \in 0..n - 1
  BY DEF Aged, IsAges
<1>2. /\ DOMAIN g \subseteq DOMAIN f
      /\ \A x \in DOMAIN g : g[x] = aged[x] /\ ~(aged[x] >= n)
      /\ g = [x \in DOMAIN g |-> g[x]]
  BY <1>1 DEF Without, Overdue
<1> HIDE DEF aged
<1>3. \A x \in DOMAIN g : g[x] \in 0..n - 1 /\ f[x] \in 0..n - 2 /\ g[x] = f[x] + 1
  BY <1>1, <1>2
<1>4. g \in [DOMAIN g -> 0..n - 1]
  BY <1>2, <1>3
<1> QED
  BY <1>2, <1>3, <1>4 DEF IsAges

\* A sequence has its members at every index.
LEMMA SeqMembers ==
    ASSUME NEW S, NEW q \in Seq(S)
    PROVE  \A i \in DOMAIN q : q[i] \in S
OBVIOUS

\* A known host of a port is a host.
LEMMA AttributedHost ==
    ASSUME NEW s, NEW port, HostIpForPort(s, port) # NoHost
    PROVE  HostIpForPort(s, port) \in Hosts
<1> DEFINE map == IF s \in DOMAIN PortMapOf THEN PortMapOf[s] ELSE << >>
           first == {i \in DOMAIN map : /\ map[i].port = port
                                        /\ \A j \in 1..i - 1 : map[j].port # port}
<1>1. map \in Seq([ip : Hosts, port : Nat])
  <2>1. CASE s \in DOMAIN PortMapOf
    BY <2>1, DdosAssumption
  <2>2. CASE s \notin DOMAIN PortMapOf
    BY <2>2
  <2> QED
    BY <2>1, <2>2
<1>2. first # {} /\ HostIpForPort(s, port) = map[CHOOSE i \in first : TRUE].ip
  BY DEF HostIpForPort
<1>3. (CHOOSE i \in first : TRUE) \in DOMAIN map
  BY <1>2
<1> HIDE DEF map, first
<1>4. \A i \in DOMAIN map : map[i].ip \in Hosts
  <2>1. \A i \in DOMAIN map : map[i] \in [ip : Hosts, port : Nat]
    BY <1>1, SeqMembers
  <2> QED
    BY <2>1
<1> QED
  BY <1>2, <1>3, <1>4

-----------------------------------------------------------------------------
(* The inductive invariant *)

IInv == TypeOK /\ BooksOutliveRules /\ FlagsCoverAttacks

LEMMA Times ==
    /\ HardTimeout \in Nat \ {0} /\ Expiry \in Nat /\ Expiry > HardTimeout
    /\ SuppressTime \in Nat /\ Threshold \in Nat \ {0}
BY DdosAssumption DEF Expiry

LEMMA InitIInv == Init => IInv
<1> SUFFICES ASSUME Init PROVE IInv
  OBVIOUS
<1>1. \A K, n : IsAges(NoEntry, K, n)
  BY DEF IsAges, NoEntry
<1>2. DOMAIN NoEntry = {}
  BY DEF NoEntry
<1>3. /\ datapaths \in Seq(Switches)
      /\ window \in [Switches -> Seq(PortNumbers)]
      /\ \A s \in Switches : Len(window[s]) <= Threshold
  <2>1. << >> \in Seq(Switches) /\ << >> \in Seq(PortNumbers) /\ Len(<< >>) = 0
    OBVIOUS
  <2> QED
    BY <2>1, Times DEF Init
<1>4. TypeOK
  BY <1>1, <1>3 DEF Init, TypeOK
<1>5. BooksOutliveRules /\ FlagsCoverAttacks
  BY <1>2 DEF Init, BooksOutliveRules, FlagsCoverAttacks
<1> QED
  BY <1>4, <1>5 DEF IInv

LEMMA PortSampleIInv ==
    ASSUME IInv, NEW p \in HostPorts, PortSample(p[1], p[2])
    PROVE  IInv'
<1> DEFINE ip == HostIpForPort(p[1], p[2])
           rule == <<datapaths[1], ip>>
<1>1. /\ ip \in Hosts /\ ip \notin DOMAIN attackers
      /\ dropRules' = With(dropRules, rule)
      /\ attackers' = With(attackers, ip)
      /\ ddosActive' = TRUE
      /\ attackType' = IF attackType = "none" THEN "data_plane" ELSE attackType
      /\ blocked' = Without(blocked, {ip})
      /\ UNCHANGED <<envVars, ctrlVars>>
  BY AttributedHost DEF PortSample, InstallDdosDrop
<1>2. rule \in Switches \X Hosts
  <2>1. datapaths \in Seq(Switches) /\ datapaths # << >>
    BY DEF IInv, TypeOK, PortSample, Connected
  <2> QED
    BY <1>1, <2>1
<1> HIDE DEF ip
<1>3. /\ IsAges(attackers', Hosts, Expiry)
      /\ DOMAIN attackers' = DOMAIN attackers \cup {ip} /\ attackers'[ip] = 0
      /\ \A y \in DOMAIN attackers : attackers'[y] = attackers[y]
  <2>1. IsAges(attackers, Hosts, Expiry)
    BY DEF IInv, TypeOK
  <2>2. ip \in Hosts /\ Expiry \in Nat
    BY <1>1, Times
  <2>3. IsAges(With(attackers, ip), Hosts, Expiry)
    BY <2>1, <2>2, WithTyped
  <2>4. /\ DOMAIN With(attackers, ip) = DOMAIN attackers \cup {ip}
        /\ With(attackers, ip)[ip] = 0
        /\ \A y \in DOMAIN attackers : y # ip => With(attackers, ip)[y] = attackers[y]
    BY WithValues
  <2> QED
    BY <1>1, <2>3, <2>4
<1>4. /\ IsAges(dropRules', Switches \X Hosts, HardTimeout - 1)
      /\ DOMAIN dropRules' = DOMAIN dropRules \cup {rule} /\ dropRules'[rule] = 0
      /\ \A r \in DOMAIN dropRules : r # rule => dropRules'[r] = dropRules[r]
  <2>1. IsAges(dropRules, Switches \X Hosts, HardTimeout - 1)
    BY DEF IInv, TypeOK
  <2>2. HardTimeout - 1 \in Nat
    BY Times
  <2> HIDE DEF rule
  <2>3. IsAges(With(dropRules, rule), Switches \X Hosts, HardTimeout - 1)
    BY <1>2, <2>1, <2>2, WithTyped
  <2> QED
    BY <1>1, <2>3, WithValues
<1>5. IsAges(blocked', Hosts, SuppressTime)
  BY <1>1, WithoutTyped DEF IInv, TypeOK
<1>6. TypeOK'
  BY <1>1, <1>3, <1>4, <1>5 DEF IInv, TypeOK, envVars, ctrlVars
<1>7. BooksOutliveRules'
  <2>1. rule[2] = ip
    OBVIOUS
  <2> HIDE DEF rule
  <2> QED
    BY <1>1, <1>3, <1>4, <2>1 DEF IInv, BooksOutliveRules, ctrlVars
<1>8. FlagsCoverAttacks'
  BY <1>1 DEF IInv, FlagsCoverAttacks, ctrlVars
<1> QED
  BY <1>6, <1>7, <1>8 DEF IInv

LEMMA PacketInIInv ==
    ASSUME IInv, NEW s \in Switches, NEW port \in PortNumbers, PacketIn(s, port)
    PROVE  IInv'
<1> DEFINE filled == Append(window[s], port)
           kept == IF Len(filled) > Threshold THEN Tail(filled) ELSE filled
           mitigate == Len(filled) >= Threshold /\ s \notin DOMAIN ctrlSwitches
           rule == <<s, port>>
<1>1. /\ window' = [window EXCEPT ![s] = kept]
      /\ mitigate => MitigateCtrlFlood(s, port)
      /\ ~mitigate => UNCHANGED <<ctrlSwitches, portRules, ctrlActive, flagVars>>
      /\ UNCHANGED <<envVars, ddosVars>>
  BY DEF PacketIn
<1>2. /\ window' \in [Switches -> Seq(PortNumbers)]
      /\ \A d \in Switches : Len(window'[d]) <= Threshold
  <2>1. window[s] \in Seq(PortNumbers) /\ Len(window[s]) <= Threshold
    BY DEF IInv, TypeOK
  <2>2. filled \in Seq(PortNumbers) /\ Len(filled) = Len(window[s]) + 1
    BY <2>1
  <2>3. kept \in Seq(PortNumbers) /\ Len(kept) <= Threshold
    <3>1. CASE Len(filled) > Threshold
      <4>1. filled # << >> /\ kept = Tail(filled)
        BY <2>2, <3>1, Times
      <4>2. kept \in Seq(PortNumbers) /\ Len(kept) = Len(filled) - 1
        BY <2>2, <4>1
      <4> QED
        BY <2>1, <2>2, <4>2, Times
    <3>2. CASE ~(Len(filled) > Threshold)
      BY <2>1, <2>2, <3>2, Times
    <3> QED
      BY <3>1, <3>2
  <2> HIDE DEF kept
  <2> QED
    BY <1>1, <2>3 DEF IInv, TypeOK
<1>3. CASE mitigate
  <2>1. /\ s \notin DOMAIN ctrlSwitches
        /\ ctrlSwitches' = With(ctrlSwitches, s)
        /\ portRules' = With(portRules, rule)
        /\ ctrlActive' = TRUE /\ ddosActive' = TRUE /\ attackType' = "ctrl_plane"
    BY <1>1, <1>3 DEF MitigateCtrlFlood
  <2>2. /\ IsAges(ctrlSwitches', Switches, Expiry)
        /\ DOMAIN ctrlSwitches' = DOMAIN ctrlSwitches \cup {s} /\ ctrlSwitches'[s] = 0
        /\ \A y \in DOMAIN ctrlSwitches : ctrlSwitches'[y] = ctrlSwitches[y]
    <3>1. IsAges(ctrlSwitches, Switches, Expiry)
      BY DEF IInv, TypeOK
    <3>2. Expiry \in Nat
      BY Times
    <3>3. IsAges(With(ctrlSwitches, s), Switches, Expiry)
      BY <3>1, <3>2, WithTyped
    <3>4. /\ DOMAIN With(ctrlSwitches, s) = DOMAIN ctrlSwitches \cup {s}
          /\ With(ctrlSwitches, s)[s] = 0
          /\ \A y \in DOMAIN ctrlSwitches :
                y # s => With(ctrlSwitches, s)[y] = ctrlSwitches[y]
      BY WithValues
    <3> QED
      BY <2>1, <3>3, <3>4
  <2>3. rule \in Switches \X PortNumbers /\ rule[1] = s
    OBVIOUS
  <2> HIDE DEF rule
  <2>4. /\ IsAges(portRules', Switches \X PortNumbers, HardTimeout - 1)
        /\ DOMAIN portRules' = DOMAIN portRules \cup {rule} /\ portRules'[rule] = 0
        /\ \A r \in DOMAIN portRules : r # rule => portRules'[r] = portRules[r]
    <3>1. IsAges(portRules, Switches \X PortNumbers, HardTimeout - 1)
      BY DEF IInv, TypeOK
    <3>2. HardTimeout - 1 \in Nat
      BY Times
    <3>3. IsAges(With(portRules, rule), Switches \X PortNumbers, HardTimeout - 1)
      BY <2>3, <3>1, <3>2, WithTyped
    <3>4. /\ DOMAIN With(portRules, rule) = DOMAIN portRules \cup {rule}
          /\ With(portRules, rule)[rule] = 0
          /\ \A r \in DOMAIN portRules :
                r # rule => With(portRules, rule)[r] = portRules[r]
      BY WithValues
    <3> QED
      BY <2>1, <3>3, <3>4
  <2>5. TypeOK'
    BY <1>1, <1>2, <2>1, <2>2, <2>4 DEF IInv, TypeOK, envVars, ddosVars
  <2>6. BooksOutliveRules'
    BY <1>1, <2>2, <2>3, <2>4 DEF IInv, BooksOutliveRules, ddosVars
  <2>7. FlagsCoverAttacks'
    BY <2>1, <2>2 DEF FlagsCoverAttacks
  <2> QED
    BY <2>5, <2>6, <2>7 DEF IInv
<1>4. CASE ~mitigate
  BY <1>1, <1>2, <1>4
     DEF IInv, TypeOK, IsAges, BooksOutliveRules, FlagsCoverAttacks, envVars, ddosVars, flagVars
<1> QED
  BY <1>3, <1>4

LEMMA CleanupIInv ==
    ASSUME IInv, Cleanup
    PROVE  IInv'
<1> DEFINE goneIps == Overdue(attackers, Expiry)
           goneSwitches == Overdue(ctrlSwitches, Expiry)
           active == IF goneIps = {} THEN ddosActive ELSE DOMAIN attackers # goneIps
           ctrl == IF goneSwitches = {} THEN ctrlActive
                   ELSE DOMAIN ctrlSwitches # goneSwitches
<1>1. /\ attackers' = Without(attackers, goneIps)
      /\ ctrlSwitches' = Without(ctrlSwitches, goneSwitches)
      /\ window' = [s \in Switches |-> IF s \in goneSwitches THEN << >> ELSE window[s]]
      /\ ddosActive' = active /\ ctrlActive' = ctrl
      /\ attackType' = IF \/ goneIps # {} /\ ~active /\ ~ctrlActive
                          \/ goneSwitches # {} /\ ~ctrl /\ ~active
                       THEN "none" ELSE attackType
      /\ UNCHANGED <<envVars, blocked, dropRules, portRules>>
  BY DEF Cleanup
<1>2. /\ goneIps \subseteq DOMAIN attackers /\ goneSwitches \subseteq DOMAIN ctrlSwitches
      /\ \A h \in goneIps : attackers[h] >= Expiry
      /\ \A s \in goneSwitches : ctrlSwitches[s] >= Expiry
  BY DEF Overdue
<1>3. /\ \A r \in DOMAIN dropRules : r[2] \notin goneIps
      /\ \A r \in DOMAIN portRules : r[1] \notin goneSwitches
  <2>1. /\ \A r \in DOMAIN dropRules : dropRules[r] \in 0..HardTimeout - 1
        /\ \A r \in DOMAIN portRules : portRules[r] \in 0..HardTimeout - 1
    BY DEF IInv, TypeOK, IsAges
  <2> HIDE DEF goneIps, goneSwitches
  <2> QED
    BY <1>2, <2>1, Times DEF IInv, BooksOutliveRules
<1> HIDE DEF goneIps, goneSwitches
<1>4. IsAges(attackers', Hosts, Expiry) /\ IsAges(ctrlSwitches', Switches, Expiry)
  BY <1>1, WithoutTyped DEF IInv, TypeOK
<1>5. /\ window' \in [Switches -> Seq(PortNumbers)]
      /\ \A s \in Switches : Len(window'[s]) <= Threshold
  <2>1. << >> \in Seq(PortNumbers) /\ Len(<< >>) = 0
    OBVIOUS
  <2> QED
    BY <1>1, <2>1, Times DEF IInv, TypeOK
<1>6. TypeOK'
  BY <1>1, <1>4, <1>5 DEF IInv, TypeOK, envVars
<1>7. BooksOutliveRules'
  BY <1>1, <1>3 DEF IInv, BooksOutliveRules, Without
<1>8. FlagsCoverAttacks'
  <2>1. /\ DOMAIN attackers' = DOMAIN attackers \ goneIps
        /\ DOMAIN ctrlSwitches' = DOMAIN ctrlSwitches \ goneSwitches
    BY <1>1 DEF Without
  <2>2. DOMAIN attackers' # {} => active
    BY <1>2, <2>1 DEF IInv, FlagsCoverAttacks
  <2>3. ctrl <=> DOMAIN ctrlSwitches' # {}
    BY <1>2, <2>1 DEF IInv, FlagsCoverAttacks
  <2>4. ASSUME DOMAIN attackers' # {} \/ ctrl PROVE attackType' # "none"
    <3>1. DOMAIN attackers # {} \/ ctrlActive
      BY <1>2, <2>1, <2>3, <2>4 DEF IInv, FlagsCoverAttacks
    <3>2. attackType # "none"
      BY <3>1 DEF IInv, FlagsCoverAttacks
    <3>3. ~(goneSwitches # {} /\ ~ctrl /\ ~active)
      BY <2>2, <2>4
    <3>4. ~(goneIps # {} /\ ~active /\ ~ctrlActive)
      BY <1>2, <2>1, <2>2, <2>3, <2>4 DEF IInv, FlagsCoverAttacks
    <3> QED
      BY <1>1, <3>2, <3>3, <3>4
  <2> QED
    BY <1>1, <2>2, <2>3, <2>4 DEF FlagsCoverAttacks
<1> QED
  BY <1>6, <1>7, <1>8 DEF IInv

LEMMA TickIInv ==
    ASSUME IInv, Tick
    PROVE  IInv'
<1>1. /\ IsAges(attackers', Hosts, Expiry) /\ IsAges(ctrlSwitches', Switches, Expiry)
      /\ IsAges(blocked', Hosts, SuppressTime)
  BY Times, AgedTyped DEF IInv, TypeOK, Tick
<1>2. /\ IsAges(dropRules', Switches \X Hosts, HardTimeout - 1)
      /\ \A r \in DOMAIN dropRules' :
            /\ r \in DOMAIN dropRules /\ dropRules'[r] = dropRules[r] + 1
            /\ dropRules[r] \in 0..HardTimeout - 2
  BY Times, ExpiredTyped DEF IInv, TypeOK, Tick
<1>3. /\ IsAges(portRules', Switches \X PortNumbers, HardTimeout - 1)
      /\ \A r \in DOMAIN portRules' :
            /\ r \in DOMAIN portRules /\ portRules'[r] = portRules[r] + 1
            /\ portRules[r] \in 0..HardTimeout - 2
  BY Times, ExpiredTyped DEF IInv, TypeOK, Tick
<1>4. TypeOK'
  <2>1. window' = [s \in Switches |-> << >>]
    BY DEF Tick
  <2>2. << >> \in Seq(PortNumbers) /\ Len(<< >>) = 0
    OBVIOUS
  <2>3. /\ window' \in [Switches -> Seq(PortNumbers)]
        /\ \A s \in Switches : Len(window'[s]) <= Threshold
    BY <2>1, <2>2, Times
  <2> QED
    BY <1>1, <1>2, <1>3, <2>3 DEF IInv, TypeOK, Tick, envVars, flagVars
<1>5. /\ DOMAIN attackers' = DOMAIN attackers /\ DOMAIN ctrlSwitches' = DOMAIN ctrlSwitches
      /\ \A h \in DOMAIN attackers : attackers[h] < Expiry => attackers'[h] = attackers[h] + 1
      /\ \A s \in DOMAIN ctrlSwitches :
            ctrlSwitches[s] < Expiry => ctrlSwitches'[s] = ctrlSwitches[s] + 1
  BY DEF Tick, Aged
<1>6. BooksOutliveRules'
  <2>1. \A r \in DOMAIN dropRules' :
           r[2] \in DOMAIN attackers' /\ attackers'[r[2]] = dropRules'[r]
    BY <1>2, <1>5, Times DEF IInv, BooksOutliveRules
  <2>2. \A r \in DOMAIN portRules' :
           r[1] \in DOMAIN ctrlSwitches' /\ ctrlSwitches'[r[1]] = portRules'[r]
    BY <1>3, <1>5, Times DEF IInv, BooksOutliveRules
  <2> QED
    BY <2>1, <2>2 DEF BooksOutliveRules
<1>7. FlagsCoverAttacks'
  BY <1>5 DEF IInv, FlagsCoverAttacks, Tick, flagVars
<1> QED
  BY <1>4, <1>6, <1>7 DEF IInv

\* The security policy, the connections and the environment touch no rule, no
\* entry and no flag.
LEMMA OtherIInv ==
    ASSUME IInv,
           \/ \E h \in Excusable : SecurityBlock(h) \/ LoadSimulationContext(h)
           \/ \E h \in Hosts : HostFloods(h) \/ HostCalms(h)
           \/ \E s \in Switches : Connect(s) \/ Disconnect(s)
           \/ UNCHANGED vars
    PROVE  IInv'
<1>1. /\ UNCHANGED <<attackers, dropRules, ctrlVars, flagVars>>
      /\ \/ UNCHANGED blocked
         \/ \E h \in Hosts : blocked' = With(blocked, h)
  BY DdosAssumption DEF SecurityBlock, HostFloods, HostCalms, LoadSimulationContext, Connect,
         Disconnect, vars, envVars, ddosVars
<1>2. IsAges(blocked', Hosts, SuppressTime)
  <2>1. IsAges(blocked, Hosts, SuppressTime) /\ SuppressTime \in Nat
    BY Times DEF IInv, TypeOK
  <2>2. \A h \in Hosts : IsAges(With(blocked, h), Hosts, SuppressTime)
    BY <2>1, WithTyped
  <2> QED
    BY <1>1, <2>1, <2>2
<1>3. flooding' \subseteq Hosts /\ probes' \subseteq Hosts
  BY DdosAssumption DEF IInv, TypeOK, SecurityBlock, HostFloods, HostCalms, LoadSimulationContext,
         Connect, Disconnect, vars, envVars
<1>4. datapaths' \in Seq(Switches)
  <2>1. datapaths \in Seq(Switches)
    BY DEF IInv, TypeOK
  <2>2. CASE \E s \in Switches : Connect(s)
    BY <2>1, <2>2 DEF Connect
  <2>3. CASE \E s \in Switches : Disconnect(s)
    <3>1. PICK i \in DOMAIN datapaths :
              datapaths' = SubSeq(datapaths, 1, i - 1) \o SubSeq(datapaths, i + 1, Len(datapaths))
      BY <2>3 DEF Disconnect
    <3>2. i \in 1..Len(datapaths) /\ Len(datapaths) \in Nat
      BY <2>1
    <3>3. /\ SubSeq(datapaths, 1, i - 1) \in Seq(Switches)
          /\ SubSeq(datapaths, i + 1, Len(datapaths)) \in Seq(Switches)
      BY <2>1, <3>2
    <3> QED
      BY <3>1, <3>3
  <2>4. CASE UNCHANGED datapaths
    BY <2>1, <2>4
  <2> QED
    BY <2>2, <2>3, <2>4 DEF SecurityBlock, HostFloods, HostCalms,
       LoadSimulationContext, vars, envVars
<1> QED
  BY <1>1, <1>2, <1>3, <1>4
     DEF IInv, TypeOK, BooksOutliveRules, FlagsCoverAttacks, ctrlVars, flagVars

LEMMA NextIInv == IInv /\ [Next]_vars => IInv'
<1> SUFFICES ASSUME IInv, [Next]_vars PROVE IInv'
  OBVIOUS
<1>1. CASE \E p \in HostPorts : PortSample(p[1], p[2])
  BY <1>1, PortSampleIInv
<1>2. CASE \E s \in Switches, port \in PortNumbers : PacketIn(s, port)
  BY <1>2, PacketInIInv
<1>3. CASE Cleanup
  BY <1>3, CleanupIInv
<1>4. CASE Tick
  BY <1>4, TickIInv
<1>5. CASE \/ \E h \in Excusable : SecurityBlock(h) \/ LoadSimulationContext(h)
           \/ \E h \in Hosts : HostFloods(h) \/ HostCalms(h)
           \/ \E s \in Switches : Connect(s) \/ Disconnect(s)
           \/ UNCHANGED vars
  BY <1>5, OtherIInv
<1> QED
  BY <1>1, <1>2, <1>3, <1>4, <1>5 DEF Next

\* Rules, books and flags agree for ever, whatever order the two detectors, the
\* two cleanups, time and the connections act in.
THEOREM RulesBooksAndFlagsAgree ==
    Spec => [](TypeOK /\ BooksOutliveRules /\ FlagsCoverAttacks)
<1>1. Spec => []IInv
  BY InitIInv, NextIInv, PTL DEF Spec
<1> QED
  BY <1>1 DEF IInv

\* No rule, entry or flag leaves its type: ages stay below their expiry.
COROLLARY DdosTypeCorrect == Spec => []TypeOK
BY RulesBooksAndFlagsAgree, PTL

-----------------------------------------------------------------------------
(* Refinement of TimedDrop *)

\* What a cleanup takes off the books has no live rule.
LEMMA OverdueHaveNoRules ==
    ASSUME IInv
    PROVE  /\ \A x \in Overdue(attackers, Expiry) : ~HostDrop!Live(x)
           /\ \A x \in Overdue(ctrlSwitches, Expiry) : ~PortDrop!Live(x)
<1>1. /\ \A r \in DOMAIN dropRules : dropRules[r] \in 0..HardTimeout - 1
      /\ \A r \in DOMAIN portRules : portRules[r] \in 0..HardTimeout - 1
  BY DEF IInv, TypeOK, IsAges
<1>2. /\ \A r \in DOMAIN dropRules : r[2] \notin Overdue(attackers, Expiry)
      /\ \A r \in DOMAIN portRules : r[1] \notin Overdue(ctrlSwitches, Expiry)
  BY <1>1, Times DEF IInv, BooksOutliveRules, Overdue
<1>3. \A x \in Overdue(attackers, Expiry) : ~HostDrop!Live(x)
  <2>1. \A s \in Switches, x \in Overdue(attackers, Expiry) :
           <<s, x>> \notin DOMAIN dropRules
    BY <1>2
  <2> QED
    BY <2>1 DEF HostDrop!Live
<1>4. \A x \in Overdue(ctrlSwitches, Expiry) : ~PortDrop!Live(x)
  BY <1>2 DEF PortDrop!Live
<1> QED
  BY <1>3, <1>4

\* An attack that is mitigated had no live rule.
LEMMA HostStepsMap == IInv /\ [Next]_vars => [HostDrop!Next]_(HostDrop!vars)
<1> SUFFICES ASSUME IInv, [Next]_vars PROVE [HostDrop!Next]_(HostDrop!vars)
  OBVIOUS
<1>1. ASSUME NEW p \in HostPorts, PortSample(p[1], p[2]) PROVE HostDrop!Next
  <2> DEFINE ip == HostIpForPort(p[1], p[2])
             places == {datapaths[1]}
  <2>1. /\ ip \in Hosts /\ ip \notin DOMAIN attackers
        /\ dropRules' = With(dropRules, <<datapaths[1], ip>>)
        /\ attackers' = With(attackers, ip)
    BY <1>1, AttributedHost DEF PortSample, InstallDdosDrop
  <2>2. datapaths[1] \in Switches
    <3>1. datapaths \in Seq(Switches) /\ datapaths # << >>
      BY <1>1 DEF IInv, TypeOK, PortSample, Connected
    <3> QED
      BY <3>1
  <2> HIDE DEF ip
  <2>3. \A s \in Switches : <<s, ip>> \notin DOMAIN dropRules
    BY <2>1 DEF IInv, BooksOutliveRules
  <2>4. ~HostDrop!Live(ip)
    BY <2>3 DEF HostDrop!Live
  <2>5. /\ DOMAIN dropRules' = DOMAIN dropRules \cup (places \X {ip})
        /\ DOMAIN attackers' = DOMAIN attackers \cup {ip}
    <3>1. {<<datapaths[1], ip>>} = places \X {ip}
      OBVIOUS
    <3>2. /\ DOMAIN dropRules' = DOMAIN dropRules \cup {<<datapaths[1], ip>>}
          /\ DOMAIN attackers' = DOMAIN attackers \cup {ip}
      BY <2>1 DEF With
    <3> QED
      BY <3>1, <3>2
  <2>6. HostDrop!Enforce(ip, places)
    BY <2>4, <2>5 DEF HostDrop!Enforce
  <2>7. places \in (SUBSET Switches) \ {{}}
    BY <2>2
  <2> QED
    BY <2>1, <2>6, <2>7 DEF HostDrop!Next
<1>2. ASSUME Cleanup PROVE HostDrop!Next
  <2>1. DOMAIN attackers' = DOMAIN attackers \ Overdue(attackers, Expiry)
        /\ UNCHANGED dropRules
    BY <1>2 DEF Cleanup, Without
  <2>2. HostDrop!Forget
    BY <2>1, OverdueHaveNoRules DEF HostDrop!Forget
  <2> QED
    BY <2>2 DEF HostDrop!Next
<1>3. ASSUME Tick PROVE HostDrop!Next
  <2>1. DOMAIN attackers' = DOMAIN attackers /\ DOMAIN dropRules' \subseteq DOMAIN dropRules
    BY <1>3 DEF Tick, Aged, Without
  <2>2. HostDrop!Lapse
    BY <2>1 DEF HostDrop!Lapse
  <2> QED
    BY <2>2 DEF HostDrop!Next
<1>4. ASSUME NEW s \in Switches, NEW port \in PortNumbers, PacketIn(s, port)
      PROVE  UNCHANGED HostDrop!vars
  BY <1>4 DEF PacketIn, ddosVars, HostDrop!vars
<1>5. ASSUME \/ \E h \in Excusable : SecurityBlock(h) \/ LoadSimulationContext(h)
             \/ \E h \in Hosts : HostFloods(h) \/ HostCalms(h)
             \/ \E s \in Switches : Connect(s) \/ Disconnect(s)
             \/ UNCHANGED vars
      PROVE  UNCHANGED HostDrop!vars
  BY <1>5 DEF SecurityBlock, HostFloods, HostCalms, LoadSimulationContext, Connect,
         Disconnect, vars, ddosVars, HostDrop!vars
<1> QED
  BY <1>1, <1>2, <1>3, <1>4, <1>5 DEF Next

\* One more rule adds its flipped pair.
LEMMA FlippedUnion ==
    ASSUME NEW R, NEW q
    PROVE  {<<r[2], r[1]>> : r \in R \cup {q}}
              = {<<r[2], r[1]>> : r \in R} \cup {<<q[2], q[1]>>}
BY Zenon

\* A switch whose packet-in flood is mitigated had no live port rule.
LEMMA PortStepsMap == IInv /\ [Next]_vars => [PortDrop!Next]_(PortDrop!vars)
<1> SUFFICES ASSUME IInv, [Next]_vars PROVE [PortDrop!Next]_(PortDrop!vars)
  OBVIOUS
<1> DEFINE flipped == {<<r[2], r[1]>> : r \in DOMAIN portRules}
<1>1. ASSUME NEW s \in Switches, NEW port \in PortNumbers, PacketIn(s, port)
      PROVE  [PortDrop!Next]_(PortDrop!vars)
  <2>1. CASE s \notin DOMAIN ctrlSwitches /\ MitigateCtrlFlood(s, port)
    <3>1. \A r \in DOMAIN portRules : r[1] # s
      BY <2>1 DEF IInv, BooksOutliveRules
    <3>2. ~PortDrop!Live(s)
      BY <3>1 DEF PortDrop!Live
    <3>3. /\ DOMAIN ctrlSwitches' = DOMAIN ctrlSwitches \cup {s}
          /\ DOMAIN portRules' = DOMAIN portRules \cup {<<s, port>>}
      BY <2>1 DEF MitigateCtrlFlood, With
    <3>4. flipped' = flipped \cup ({port} \X {s})
      <4>1. {port} \X {s} = {<<port, s>>}
        OBVIOUS
      <4>2. flipped' = {<<r[2], r[1]>> : r \in DOMAIN portRules \cup {<<s, port>>}}
        BY <3>3
      <4>3. flipped' = flipped \cup {<<port, s>>}
        <5> DEFINE q == <<s, port>>
        <5>1. q[2] = port /\ q[1] = s
          OBVIOUS
        <5> HIDE DEF q
        <5>2. flipped' = flipped \cup {<<q[2], q[1]>>}
          BY <4>2, FlippedUnion DEF q
        <5> QED
          BY <5>1, <5>2
      <4> QED
        BY <4>1, <4>3
    <3>5. PortDrop!Enforce(s, {port})
      BY <3>2, <3>3, <3>4 DEF PortDrop!Enforce
    <3> QED
      BY <3>5 DEF PortDrop!Next
  <2>2. CASE UNCHANGED <<ctrlSwitches, portRules>>
    BY <2>2 DEF PortDrop!vars
  <2> QED
    BY <1>1, <2>1, <2>2 DEF PacketIn
<1>2. ASSUME Cleanup PROVE PortDrop!Next
  <2>1. DOMAIN ctrlSwitches' = DOMAIN ctrlSwitches \ Overdue(ctrlSwitches, Expiry)
        /\ UNCHANGED portRules
    BY <1>2 DEF Cleanup, Without
  <2>2. PortDrop!Forget
    BY <2>1, OverdueHaveNoRules DEF PortDrop!Forget
  <2> QED
    BY <2>2 DEF PortDrop!Next
<1>3. ASSUME Tick PROVE PortDrop!Next
  <2>1. /\ DOMAIN ctrlSwitches' = DOMAIN ctrlSwitches
        /\ DOMAIN portRules' \subseteq DOMAIN portRules
    BY <1>3 DEF Tick, Aged, Without
  <2>2. flipped' \in SUBSET flipped
    BY <2>1
  <2>3. PortDrop!Lapse
    BY <2>1, <2>2 DEF PortDrop!Lapse
  <2> QED
    BY <2>3 DEF PortDrop!Next
<1>4. ASSUME NEW p \in HostPorts, PortSample(p[1], p[2]) PROVE UNCHANGED PortDrop!vars
  BY <1>4 DEF PortSample, ctrlVars, PortDrop!vars
<1>5. ASSUME \/ \E h \in Excusable : SecurityBlock(h) \/ LoadSimulationContext(h)
             \/ \E h \in Hosts : HostFloods(h) \/ HostCalms(h)
             \/ \E s \in Switches : Connect(s) \/ Disconnect(s)
             \/ UNCHANGED vars
      PROVE  UNCHANGED PortDrop!vars
  BY <1>5 DEF SecurityBlock, HostFloods, HostCalms, LoadSimulationContext, Connect,
         Disconnect, vars, ctrlVars, PortDrop!vars
<1> QED
  BY <1>1, <1>2, <1>3, <1>4, <1>5 DEF Next

\* The data plane's mitigation is a timed drop: an address is dropped only while
\* no rule against it is live, and leaves the books only when none is
\* (_install_ddos_drop, _cleanup_ddos_state).
THEOREM HostMitigationsAreTimedDrops == Spec => HostsImplementTimedDrop
<1>1. Init => HostDrop!Init
  BY DEF Init, NoEntry, HostDrop!Init
<1>2. Spec => []IInv
  BY InitIInv, NextIInv, PTL DEF Spec
<1>3. Spec => HostDrop!Spec
  BY <1>1, <1>2, HostStepsMap, PTL DEF Spec, HostDrop!Spec
<1> QED
  BY <1>3 DEF HostsImplementTimedDrop

\* So is the control plane's: the port of the packet that fills a switch's window
\* is dropped only while no port of the switch is, and the switch leaves the books
\* only when none is (_mitigate_ctrl_flood, _cleanup_ctrl_flood).
THEOREM PortMitigationsAreTimedDrops == Spec => PortsImplementTimedDrop
<1>1. Init => PortDrop!Init
  BY DEF Init, NoEntry, PortDrop!Init
<1>2. Spec => []IInv
  BY InitIInv, NextIInv, PTL DEF Spec
<1>3. Spec => PortDrop!Spec
  BY <1>1, <1>2, PortStepsMap, PTL DEF Spec, PortDrop!Spec
<1> QED
  BY <1>3 DEF PortsImplementTimedDrop

-----------------------------------------------------------------------------
(* Locality: what is true of the mitigations that DroppedEverywhere refutes *)

\* No address is dropped on two switches at a time, and no switch drops two ports:
\* a mitigation is one rule, and the next one waits until the books are closed
\* (the early returns of _check_port_ddos and _mitigate_ctrl_flood).
OneRuleEach ==
    /\ \A r, q \in DOMAIN dropRules : r[2] = q[2] => r = q
    /\ \A r, q \in DOMAIN portRules : r[1] = q[1] => r = q

\* A rule added to a table that has none of its kind stays alone of its kind.
LEMMA OneMoreRule ==
    ASSUME NEW R, NEW new, NEW i \in {1, 2},
           \A r, q \in R : r[i] = q[i] => r = q,
           \A r \in R : r[i] # new[i]
    PROVE  \A r, q \in R \cup {new} : r[i] = q[i] => r = q
OBVIOUS

LEMMA NextOneRuleEach == IInv /\ OneRuleEach /\ [Next]_vars => OneRuleEach'
<1> SUFFICES ASSUME IInv, OneRuleEach, [Next]_vars PROVE OneRuleEach'
  OBVIOUS
<1>1. ASSUME NEW p \in HostPorts, PortSample(p[1], p[2]) PROVE OneRuleEach'
  <2> DEFINE ip == HostIpForPort(p[1], p[2])
             new == <<datapaths[1], ip>>
  <2>1. /\ DOMAIN dropRules' = DOMAIN dropRules \cup {new}
        /\ ip \notin DOMAIN attackers /\ portRules' = portRules
    BY <1>1 DEF PortSample, InstallDdosDrop, With, ctrlVars
  <2>2. \A r \in DOMAIN dropRules : r[2] # new[2]
    BY <2>1 DEF IInv, BooksOutliveRules
  <2> HIDE DEF new
  <2>3. \A r, q \in DOMAIN dropRules \cup {new} : r[2] = q[2] => r = q
    BY <2>2, OneMoreRule DEF OneRuleEach
  <2> QED
    BY <2>1, <2>3 DEF OneRuleEach
<1>2. ASSUME NEW s \in Switches, NEW port \in PortNumbers, PacketIn(s, port)
      PROVE  OneRuleEach'
  <2> DEFINE new == <<s, port>>
  <2>1. CASE s \notin DOMAIN ctrlSwitches /\ MitigateCtrlFlood(s, port)
    <3>1. DOMAIN portRules' = DOMAIN portRules \cup {new} /\ dropRules' = dropRules
      BY <1>2, <2>1 DEF PacketIn, MitigateCtrlFlood, With, ddosVars
    <3>2. \A r \in DOMAIN portRules : r[1] # new[1]
      BY <2>1 DEF IInv, BooksOutliveRules
    <3> HIDE DEF new
    <3>3. \A r, q \in DOMAIN portRules \cup {new} : r[1] = q[1] => r = q
      BY <3>2, OneMoreRule DEF OneRuleEach
    <3> QED
      BY <3>1, <3>3 DEF OneRuleEach
  <2>2. CASE UNCHANGED portRules
    BY <1>2, <2>2 DEF PacketIn, ddosVars, OneRuleEach
  <2> QED
    BY <1>2, <2>1, <2>2 DEF PacketIn
<1>3. ASSUME Cleanup PROVE OneRuleEach'
  BY <1>3 DEF Cleanup, OneRuleEach
<1>4. ASSUME Tick PROVE OneRuleEach'
  <2>1. /\ DOMAIN dropRules' \subseteq DOMAIN dropRules
        /\ DOMAIN portRules' \subseteq DOMAIN portRules
    BY <1>4 DEF Tick, Aged, Without
  <2> QED
    BY <2>1 DEF OneRuleEach
<1>5. ASSUME \/ \E h \in Excusable : SecurityBlock(h) \/ LoadSimulationContext(h)
             \/ \E h \in Hosts : HostFloods(h) \/ HostCalms(h)
             \/ \E s \in Switches : Connect(s) \/ Disconnect(s)
             \/ UNCHANGED vars
      PROVE  UNCHANGED <<dropRules, portRules>>
  BY <1>5 DEF SecurityBlock, HostFloods, HostCalms, LoadSimulationContext, Connect,
         Disconnect, vars, ddosVars, ctrlVars
<1> QED
  BY <1>1, <1>2, <1>3, <1>4, <1>5 DEF Next, OneRuleEach

\* The controller's mitigations are local: at most one switch drops an attacker.
THEOREM MitigationsAreLocal == Spec => []OneRuleEach
<1>1. Init => OneRuleEach
  BY DEF Init, NoEntry, OneRuleEach
<1> QED
  BY <1>1, InitIInv, NextIInv, NextOneRuleEach, PTL DEF Spec

=============================================================================
