------------------------- MODULE VlanAutomation_proofs -------------------------
(***************************************************************************)
(* Theorems of VlanAutomation for any number of requests, switches and     *)
(* lost connections: its invariants, and that the published configuration  *)
(* implements the register of VlanRegister.                                *)
(*                                                                         *)
(* The first half is about the operators of VlanConfig: every edit of the  *)
(* dashboard turns a well formed configuration into one, for all switches, *)
(* devices and VLANs, and the rules the controller derives from a switch's *)
(* configuration isolate its VLANs.                                        *)
(***************************************************************************)
EXTENDS VlanAutomation, FiniteSetTheorems, TLAPS

\* What WellFormed says of one switch.
Sound(cfg) == cfg \in SwitchConfigs /\ LinksExist(cfg) /\ OneVlanEach(cfg)

LEMMA WellFormedIsSound ==
    ASSUME NEW c
    PROVE  WellFormed(c) <=> c \in [Switches -> SwitchConfigs] /\ \A s \in Switches : Sound(c[s])
BY DEF WellFormed, Configs, Sound

LEMMA NothingWellFormed == NoConfig \in SwitchConfigs /\ Sound(NoConfig) /\ WellFormed(Nothing)
BY DEF WellFormed, Configs, SwitchConfigs, Nothing, NoConfig, Sound, LinksExist, OneVlanEach

-----------------------------------------------------------------------------
(* Edits of one switch *)

LEMMA CleanFields ==
    ASSUME NEW cfg \in SwitchConfigs
    PROVE  /\ Clean(cfg) \in SwitchConfigs
           /\ Clean(cfg).members = cfg.members
           /\ Clean(cfg).links = {p \in cfg.links : p \subseteq VlansOf(cfg)}
BY DEF Clean, SwitchConfigs

LEMMA CleanSound ==
    ASSUME NEW cfg \in SwitchConfigs, OneVlanEach(cfg)
    PROVE  Sound(Clean(cfg))
BY CleanFields DEF Sound, LinksExist, OneVlanEach, VlansOf

LEMMA EvictSound ==
    ASSUME NEW cfg, Sound(cfg), NEW d
    PROVE  /\ Sound(Evict(cfg, d))
           /\ \A m \in Evict(cfg, d).members : m.dev # d
<1> DEFINE rest == [cfg EXCEPT !.members = {m \in @ : m.dev # d}]
<1>1. rest \in SwitchConfigs /\ rest.members = {m \in cfg.members : m.dev # d}
  BY DEF Sound, SwitchConfigs
<1>2. OneVlanEach(rest)
  BY <1>1 DEF Sound, OneVlanEach
<1> HIDE DEF rest
<1>3. Sound(Clean(rest)) /\ Clean(rest).members = rest.members
  BY <1>1, <1>2, CleanSound, CleanFields
<1> QED
  BY <1>1, <1>3 DEF Evict, rest

LEMMA AdmitSound ==
    ASSUME NEW cfg, Sound(cfg), NEW d \in Devices, NEW v \in Vlans,
           \A m \in cfg.members : m.dev # d
    PROVE  Sound([cfg EXCEPT !.members = @ \cup {[vlan |-> v, dev |-> d]}])
<1> DEFINE more == [cfg EXCEPT !.members = @ \cup {[vlan |-> v, dev |-> d]}]
<1>1. [vlan |-> v, dev |-> d] \in Members
  BY DEF Members
<1>2. /\ more \in SwitchConfigs /\ more.links = cfg.links
      /\ more.members = cfg.members \cup {[vlan |-> v, dev |-> d]}
  BY <1>1 DEF Sound, SwitchConfigs
<1> HIDE DEF more
<1>3. LinksExist(more)
  BY <1>2 DEF Sound, LinksExist, VlansOf
<1>4. OneVlanEach(more)
  BY <1>2 DEF Sound, OneVlanEach
<1> QED
  BY <1>2, <1>3, <1>4 DEF Sound, more

LEMMA WithoutSound ==
    ASSUME NEW cfg, Sound(cfg), NEW v, NEW devices
    PROVE  Sound(Without(cfg, v, devices))
<1> DEFINE rest == [members |-> {m \in cfg.members : ~(m.vlan = v /\ m.dev \in devices)},
                    links |-> {p \in cfg.links : v \notin p}]
<1>1. rest \in SwitchConfigs
  BY DEF Sound, SwitchConfigs
<1>2. OneVlanEach(rest)
  BY DEF Sound, OneVlanEach
<1> HIDE DEF rest
<1> QED
  BY <1>1, <1>2, CleanSound DEF Without, rest

LEMMA LinkedSound ==
    ASSUME NEW cfg, Sound(cfg), NEW p \in Pairs, NEW enabled \in BOOLEAN
    PROVE  Sound(Clean(Linked(cfg, p, enabled)))
<1>1. Linked(cfg, p, enabled) \in SwitchConfigs /\ Linked(cfg, p, enabled).members = cfg.members
  BY DEF Sound, SwitchConfigs, Linked
<1>2. OneVlanEach(Linked(cfg, p, enabled))
  BY <1>1 DEF Sound, OneVlanEach
<1> QED
  BY <1>1, <1>2, CleanSound

\* The place of a device among those of its switch is one of the plan's.
LEMMA PlaceInPlan ==
    ASSUME NEW plan \in Plans, NEW s \in Switches, NEW d \in At(s), Fits(plan, s)
    PROVE  plan[Place(d)] \in Vlans
<1> DEFINE upto == {e \in At(Attach[d]) : e <= d}
<1>1. d \in Devices /\ d \in Nat /\ Attach[d] = s
  BY ConfigAssumption DEF At
<1>2. IsFiniteSet(At(s))
  BY ConfigAssumption, FS_Subset DEF At
<1>3. upto \subseteq At(s) /\ d \in upto
  BY <1>1
<1>4. IsFiniteSet(upto) /\ Cardinality(upto) <= Cardinality(At(s))
  BY <1>2, <1>3, FS_Subset
<1>5. Cardinality(upto) \in Nat /\ Cardinality(At(s)) \in Nat /\ Cardinality(upto) # 0
  BY <1>2, <1>3, <1>4, FS_CardinalityType, FS_EmptySet
<1>6. plan \in Seq(Vlans) /\ Len(plan) \in Nat /\ Cardinality(At(s)) <= Len(plan)
  BY ConfigAssumption DEF Fits
<1>7. Place(d) = Cardinality(upto)
  BY DEF Place
<1> HIDE DEF upto
<1>8. Place(d) \in 1..Len(plan)
  BY <1>4, <1>5, <1>6, <1>7
<1> QED
  BY <1>6, <1>8

LEMMA PlannedSound ==
    ASSUME NEW plan \in Plans, NEW s \in Switches, Fits(plan, s), NEW links \in SUBSET Pairs
    PROVE  Sound(Planned(s, plan, links))
<1> DEFINE cfg == [members |-> {[vlan |-> plan[Place(d)], dev |-> d] : d \in At(s)},
                   links |-> links]
<1>1. cfg.members \in SUBSET Members
  BY PlaceInPlan, ConfigAssumption DEF Members, At
<1>2. cfg \in SwitchConfigs
  BY <1>1 DEF SwitchConfigs
<1>3. OneVlanEach(cfg)
  BY DEF OneVlanEach
<1> HIDE DEF cfg
<1> QED
  BY <1>2, <1>3, CleanSound DEF Planned, cfg

-----------------------------------------------------------------------------
(* Edits of the configuration *)

\* Setting one switch's configuration to a sound one.
LEMMA SetOne ==
    ASSUME NEW c, WellFormed(c), NEW s \in Switches, NEW cfg, Sound(cfg)
    PROVE  WellFormed([c EXCEPT ![s] = cfg])
<1>1. c \in [Switches -> SwitchConfigs] /\ \A x \in Switches : Sound(c[x])
  BY WellFormedIsSound
<1>2. cfg \in SwitchConfigs
  BY DEF Sound
<1>3. /\ [c EXCEPT ![s] = cfg] \in [Switches -> SwitchConfigs]
      /\ \A x \in Switches : [c EXCEPT ![s] = cfg][x] = IF x = s THEN cfg ELSE c[x]
  BY <1>1, <1>2
<1> QED
  BY <1>1, <1>3, WellFormedIsSound

LEMMA AssignWellFormed ==
    ASSUME NEW c, WellFormed(c), NEW d \in DOMAIN Attach, NEW v \in Vlans
    PROVE  WellFormed(Assign(c, d, v))
<1> DEFINE evicted == [s \in Switches |-> Evict(c[s], d)]
           a == Attach[d]
           admitted == [evicted[a] EXCEPT !.members = @ \cup {[vlan |-> v, dev |-> d]}]
<1>1. \A s \in Switches : Sound(Evict(c[s], d))
  BY WellFormedIsSound, EvictSound
<1>2. WellFormed(evicted)
  BY <1>1, WellFormedIsSound DEF Sound
<1>3. a \in Switches /\ d \in Devices
  BY ConfigAssumption
<1>4. Sound(evicted[a]) /\ \A m \in evicted[a].members : m.dev # d
  BY <1>1, <1>3, WellFormedIsSound, EvictSound
<1>5. Sound(admitted)
  BY <1>3, <1>4, AdmitSound
<1>6. Assign(c, d, v) = [evicted EXCEPT ![a] = admitted]
  BY <1>3 DEF Assign
<1> HIDE DEF evicted, a, admitted
<1>7. WellFormed([evicted EXCEPT ![a] = admitted])
  BY <1>2, <1>3, <1>5, SetOne
<1> QED
  BY <1>6, <1>7

LEMMA AutoConfigureWellFormed ==
    ASSUME NEW c, WellFormed(c), NEW plan \in Plans, NEW links \in SUBSET Pairs
    PROVE  /\ \A s \in Switches :
                CanConfigure(s, plan) => WellFormed(AutoConfigure(c, s, plan, links))
           /\ CanConfigureAll(plan) => WellFormed(AutoConfigureAll(plan, links))
<1>1. ASSUME NEW s \in Switches, CanConfigure(s, plan)
      PROVE  WellFormed(AutoConfigure(c, s, plan, links))
  BY <1>1, PlannedSound, SetOne DEF CanConfigure, AutoConfigure
<1>2. ASSUME CanConfigureAll(plan)
      PROVE  WellFormed(AutoConfigureAll(plan, links))
  <2>1. \A s \in Switches : Sound(Planned(s, plan, links))
    BY <1>2, PlannedSound DEF CanConfigureAll
  <2> QED
    BY <2>1, WellFormedIsSound DEF AutoConfigureAll, Sound
<1> QED
  BY <1>1, <1>2

LEMMA RestoreOpenWellFormed ==
    ASSUME NEW c, WellFormed(c), NEW s \in Switches
    PROVE  WellFormed(RestoreOpen(c, s))
BY NothingWellFormed, SetOne DEF RestoreOpen

LEMMA RemoveWellFormed ==
    ASSUME NEW c, WellFormed(c), NEW v
    PROVE  /\ \A s \in Switches, devices \in SUBSET Devices : WellFormed(Remove(c, s, v, devices))
           /\ WellFormed(RemoveEverywhere(c, v))
<1>1. ASSUME NEW s \in Switches, NEW devices \in SUBSET Devices
      PROVE  WellFormed(Remove(c, s, v, devices))
  <2>1. Sound(Without(c[s], v, devices))
    BY WellFormedIsSound, WithoutSound
  <2>2. Remove(c, s, v, devices) = [c EXCEPT ![s] = Without(c[s], v, devices)]
    BY DEF Remove
  <2>3. WellFormed([c EXCEPT ![s] = Without(c[s], v, devices)])
    BY <2>1, SetOne
  <2> QED
    BY <2>2, <2>3
<1>2. WellFormed(RemoveEverywhere(c, v))
  <2>1. \A s \in Switches : Sound(c[s]) /\ Sound(Without(c[s], v, Devices))
    BY WellFormedIsSound, WithoutSound
  <2> QED
    BY <2>1, WellFormedIsSound DEF RemoveEverywhere, Sound
<1> QED
  BY <1>1, <1>2

LEMMA LinkWellFormed ==
    ASSUME NEW c, WellFormed(c), NEW p \in Pairs, NEW enabled \in BOOLEAN
    PROVE  /\ \A s \in Switches : WellFormed(Link(c, s, p, enabled))
           /\ WellFormed(LinkEverywhere(c, p, enabled))
<1>1. \A s \in Switches : Sound(c[s]) /\ Sound(Clean(Linked(c[s], p, enabled)))
  BY WellFormedIsSound, LinkedSound
<1>2. ASSUME NEW s \in Switches
      PROVE  WellFormed(Link(c, s, p, enabled))
  <2>1. Link(c, s, p, enabled) = [c EXCEPT ![s] = Clean(Linked(c[s], p, enabled))]
    BY DEF Link
  <2>2. WellFormed([c EXCEPT ![s] = Clean(Linked(c[s], p, enabled))])
    BY <1>1, SetOne
  <2> QED
    BY <2>1, <2>2
<1>3. WellFormed(LinkEverywhere(c, p, enabled))
  BY <1>1, WellFormedIsSound DEF LinkEverywhere, Sound
<1> QED
  BY <1>2, <1>3

-----------------------------------------------------------------------------
(* The rules of a switch *)

Allowed(cfg, m) == Peers(cfg, m.vlan) \ {m.dev}

\* The rules one member has, those for broadcasts only if it may talk to some device.
RuleFor(cfg, m, r) ==
    \/ \E d \in Allowed(cfg, m) : r = Rule(395, m.dev, {d}, {d})
    \/ Allowed(cfg, m) # {} /\ r = Rule(390, m.dev, {Broadcast}, Allowed(cfg, m))
    \/ r = Rule(380, m.dev, AnyDest, {})
    \/ \E p \in (KnownPorts \ {m.dev}) \ Allowed(cfg, m) : r = Rule(385, p, {m.dev}, {})

LEMMA RulesOfMember ==
    ASSUME NEW cfg \in SwitchConfigs, NEW m \in cfg.members, NEW r
    PROVE  r \in MemberRules(cfg, m) <=> RuleFor(cfg, m, r)
<1>1. Allowed(cfg, m) \subseteq Devices
  BY DEF Allowed, Peers, SwitchConfigs, Members
<1>2. IsFiniteSet(Allowed(cfg, m))
  BY <1>1, ConfigAssumption, FS_Subset
<1>3. Cardinality(Allowed(cfg, m)) \in Nat
      /\ (Cardinality(Allowed(cfg, m)) = 0 <=> Allowed(cfg, m) = {})
  BY <1>2, FS_CardinalityType, FS_EmptySet
<1>4. 1..Cardinality(Allowed(cfg, m)) = {} <=> Allowed(cfg, m) = {}
  BY <1>3
<1> DEFINE A == Allowed(cfg, m)
           peers == {Rule(395, m.dev, {d}, {d}) : d \in A}
           calls == {Rule(390, m.dev, {Broadcast}, A) : x \in 1..Cardinality(A)}
           rest == {Rule(380, m.dev, AnyDest, {})}
           others == {Rule(385, p, {m.dev}, {}) : p \in (KnownPorts \ {m.dev}) \ A}
<1>5. MemberRules(cfg, m) = peers \cup calls \cup rest \cup others
  BY Zenon DEF MemberRules, Allowed
<1>6. r \in calls <=> A # {} /\ r = Rule(390, m.dev, {Broadcast}, A)
  BY <1>4
<1>7. /\ r \in peers <=> \E d \in A : r = Rule(395, m.dev, {d}, {d})
      /\ r \in rest <=> r = Rule(380, m.dev, AnyDest, {})
      /\ r \in others <=> \E p \in (KnownPorts \ {m.dev}) \ A : r = Rule(385, p, {m.dev}, {})
  BY Zenon
<1> HIDE DEF A, peers, calls, rest, others
<1>8. r \in MemberRules(cfg, m) <=> r \in peers \/ r \in calls \/ r \in rest \/ r \in others
  BY <1>5
<1> QED
  BY <1>6, <1>7, <1>8, Zenon DEF A, RuleFor

LEMMA RulesOfSwitch ==
    ASSUME NEW cfg, NEW r
    PROVE  r \in ServedRules(cfg) <=>
              \/ \E m \in cfg.members : r \in MemberRules(cfg, m)
              \/ /\ cfg.members # {}
                 /\ r \in {Rule(384, p, {Broadcast}, {}) : p \in KnownPorts \ Managed(cfg)}
<1> DEFINE others == {Rule(384, p, {Broadcast}, {}) : p \in KnownPorts \ Managed(cfg)}
           own == UNION {MemberRules(cfg, m) : m \in cfg.members}
<1>1. CASE cfg.members = {}
  BY <1>1 DEF ServedRules
<1>2. CASE cfg.members # {}
  <2>1. ServedRules(cfg) = own \cup others
    BY <1>2, Zenon DEF ServedRules
  <2>2. r \in own <=> \E m \in cfg.members : r \in MemberRules(cfg, m)
    BY Zenon
  <2> HIDE DEF own, others
  <2>3. r \in ServedRules(cfg) <=> r \in own \/ r \in others
    BY <2>1
  <2> QED
    BY <1>2, <2>2, <2>3, Zenon DEF others
<1> QED
  BY <1>1, <1>2

\* Two devices may talk when one is allowed to a member on the port of the other.
LEMMA TalkIsAllowed ==
    ASSUME NEW cfg \in SwitchConfigs, NEW p, NEW d, p # d
    PROVE  /\ MayTalk(cfg, p, d) <=> \E m \in cfg.members : m.dev = p /\ d \in Allowed(cfg, m)
           /\ MayTalk(cfg, p, d) <=> \E m \in cfg.members : m.dev = d /\ p \in Allowed(cfg, m)
<1> DEFINE Near(v, w) == v = w \/ {v, w} \in cfg.links
<1>1. \A v, w : Near(v, w) <=> Near(w, v)
  <2>1. \A v, w : {v, w} = {w, v}
    OBVIOUS
  <2> QED
    BY <2>1
<1>2. \A x : \A m \in cfg.members :
        x \in Peers(cfg, m.vlan) <=> \E n \in cfg.members : n.dev = x /\ Near(n.vlan, m.vlan)
  BY DEF Peers
<1>3. MayTalk(cfg, p, d) <=>
        \E m, n \in cfg.members : m.dev = p /\ n.dev = d /\ Near(m.vlan, n.vlan)
  BY DEF MayTalk
<1> HIDE DEF Near
<1> QED
  BY <1>1, <1>2, <1>3 DEF Allowed

\* A rule that a unicast frame matches admits it or drops it.
LEMMA UnicastMatches ==
    ASSUME NEW cfg \in SwitchConfigs, NEW p \in KnownPorts, NEW d \in Ports \ {p},
           NEW r \in ServedRules(cfg), r.in = p, d \in r.to
    PROVE  \/ MayTalk(cfg, p, d) /\ r.prio = 395 /\ r.out = {d}
           \/ {p, d} \cap Managed(cfg) # {} /\ r.prio \in {380, 385} /\ r.out = {}
<1>1. d # Broadcast
  BY ConfigAssumption DEF Ports, Broadcast
<1>2. r \notin {Rule(384, q, {Broadcast}, {}) : q \in KnownPorts \ Managed(cfg)}
  BY <1>1 DEF Rule
<1>3. PICK m \in cfg.members : r \in MemberRules(cfg, m)
  BY <1>2, RulesOfSwitch
<1>4. m.dev \in Managed(cfg)
  BY DEF Managed
<1>5. CASE \E x \in Allowed(cfg, m) : r = Rule(395, m.dev, {x}, {x})
  <2>1. PICK x \in Allowed(cfg, m) : r = Rule(395, m.dev, {x}, {x})
    BY <1>5
  <2>2. m.dev = p /\ x = d /\ r.prio = 395 /\ r.out = {d}
    BY <2>1 DEF Rule
  <2>3. MayTalk(cfg, p, d)
    BY <2>1, <2>2, TalkIsAllowed, Zenon
  <2> QED
    BY <2>2, <2>3
<1>6. CASE r = Rule(390, m.dev, {Broadcast}, Allowed(cfg, m))
  BY <1>1, <1>6 DEF Rule
<1>7. CASE r = Rule(380, m.dev, AnyDest, {})
  BY <1>4, <1>7 DEF Rule
<1>8. CASE \E q \in (KnownPorts \ {m.dev}) \ Allowed(cfg, m) : r = Rule(385, q, {m.dev}, {})
  BY <1>4, <1>8 DEF Rule
<1>9. RuleFor(cfg, m, r)
  BY <1>3, RulesOfMember
<1> QED
  BY <1>5, <1>6, <1>7, <1>8, <1>9 DEF RuleFor

\* A rule that matches, and that no other one with another output outranks.
Decides(top, table, p, dest) ==
    /\ top \in table /\ top.in = p /\ dest \in top.to /\ top.prio \in Nat
    /\ \A r \in table : r.in = p /\ dest \in r.to =>
          r.prio \in Nat /\ r.prio <= top.prio /\ (r.prio = top.prio => r.out = top.out)

LEMMA DecisionOfTop ==
    ASSUME NEW table, NEW p, NEW dest, NEW top, Decides(top, table, p, dest)
    PROVE  Decision(table, p, dest) = {top.out}
<1> DEFINE matching == {r \in table : r.in = p /\ dest \in r.to}
           deciding == {x \in matching : \A y \in matching : y.prio <= x.prio}
<1>1. top \in deciding
  BY DEF Decides
<1>2. \A x \in deciding : x.prio = top.prio
  <2> SUFFICES ASSUME NEW x \in deciding PROVE x.prio = top.prio
    OBVIOUS
  <2>1. x \in matching /\ top \in matching /\ top.prio <= x.prio
    BY DEF Decides
  <2>2. x.prio \in Nat /\ x.prio <= top.prio /\ top.prio \in Nat
    BY <2>1 DEF Decides
  <2> QED
    BY <2>1, <2>2
<1>3. \A x \in deciding : x.out = top.out
  BY <1>2 DEF Decides
<1>4. Decision(table, p, dest) = {r.out : r \in deciding}
  BY DEF Decision
<1> HIDE DEF deciding
<1> QED
  BY <1>1, <1>3, <1>4

LEMMA NoDecision ==
    ASSUME NEW table, NEW p, NEW dest, \A r \in table : ~(r.in = p /\ dest \in r.to)
    PROVE  Decision(table, p, dest) = {}
BY DEF Decision

LEMMA RuleInstalled ==
    ASSUME NEW cfg \in SwitchConfigs, NEW m \in cfg.members, NEW r, RuleFor(cfg, m, r)
    PROVE  r \in ServedRules(cfg)
<1>1. r \in MemberRules(cfg, m)
  BY RulesOfMember
<1> QED
  BY <1>1, RulesOfSwitch

\* Unicast frames pass exactly between ports that may talk.
LEMMA UnicastIsolated ==
    ASSUME NEW cfg \in SwitchConfigs, NEW p \in KnownPorts, NEW d \in Ports \ {p}
    PROVE  Decision(ServedRules(cfg), p, d) =
              IF MayTalk(cfg, p, d) THEN {{d}}
              ELSE IF {p, d} \cap Managed(cfg) # {} THEN {{}} ELSE {}
<1> DEFINE R == ServedRules(cfg)
<1>1. \A r \in R : r.in = p /\ d \in r.to =>
        \/ MayTalk(cfg, p, d) /\ r.prio = 395 /\ r.out = {d}
        \/ {p, d} \cap Managed(cfg) # {} /\ r.prio \in {380, 385} /\ r.out = {}
  BY UnicastMatches
<1>2. CASE MayTalk(cfg, p, d)
  <2>1. PICK m \in cfg.members : m.dev = p /\ d \in Allowed(cfg, m)
    BY <1>2, TalkIsAllowed
  <2> DEFINE top == Rule(395, p, {d}, {d})
  <2>2. RuleFor(cfg, m, top)
    BY <2>1 DEF RuleFor
  <2>3. top \in R
    BY <2>2, RuleInstalled
  <2>4. top.in = p /\ d \in top.to /\ top.prio = 395 /\ top.out = {d}
    BY DEF Rule
  <2> HIDE DEF top, R
  <2>5. Decides(top, R, p, d)
    BY <1>1, <2>3, <2>4 DEF Decides
  <2>6. Decision(R, p, d) = {{d}}
    BY <2>4, <2>5, DecisionOfTop
  <2> QED
    BY <1>2, <2>6 DEF R
<1>3. ASSUME ~MayTalk(cfg, p, d)
      PROVE  \A r \in R : r.in = p /\ d \in r.to => (r.prio = 380 \/ r.prio = 385) /\ r.out = {}
  BY <1>3, <1>1
<1>4. CASE ~MayTalk(cfg, p, d) /\ \E r \in R : r.in = p /\ d \in r.to /\ r.prio = 385
  <2>1. PICK top \in R : top.in = p /\ d \in top.to /\ top.prio = 385
    BY <1>4
  <2> HIDE DEF R
  <2>2. \A r \in R : r.in = p /\ d \in r.to => (r.prio = 380 \/ r.prio = 385) /\ r.out = {}
    BY <1>3, <1>4 DEF R
  <2>3. top.out = {}
    BY <2>1, <2>2
  <2>4. Decides(top, R, p, d)
    BY <2>1, <2>2, <2>3 DEF Decides
  <2>5. Decision(R, p, d) = {{}}
    BY <2>3, <2>4, DecisionOfTop
  <2>6. {p, d} \cap Managed(cfg) # {}
    BY <1>1, <1>4, <2>1
  <2> QED
    BY <1>4, <2>6, <2>5 DEF R
<1>5. CASE /\ ~MayTalk(cfg, p, d) /\ ~(\E r \in R : r.in = p /\ d \in r.to /\ r.prio = 385)
           /\ \E r \in R : r.in = p /\ d \in r.to
  <2>1. PICK top \in R : top.in = p /\ d \in top.to
    BY <1>5
  <2> HIDE DEF R
  <2>2. \A r \in R : r.in = p /\ d \in r.to => r.prio = 380 /\ r.out = {}
    BY <1>3, <1>5 DEF R
  <2>3. top.prio = 380 /\ top.out = {}
    BY <2>1, <2>2
  <2>4. Decides(top, R, p, d)
    BY <2>1, <2>2, <2>3 DEF Decides
  <2>5. Decision(R, p, d) = {{}}
    BY <2>3, <2>4, DecisionOfTop
  <2>6. {p, d} \cap Managed(cfg) # {}
    BY <1>1, <1>5, <2>1
  <2> QED
    BY <1>5, <2>6, <2>5 DEF R
<1>6. CASE ~MayTalk(cfg, p, d) /\ ~(\E r \in R : r.in = p /\ d \in r.to)
  <2>1. Decision(R, p, d) = {}
    BY <1>6, NoDecision
  <2>2. ASSUME NEW m \in cfg.members, m.dev = p
        PROVE  FALSE
    <3>1. Rule(380, p, AnyDest, {}) \in R
      <4>1. RuleFor(cfg, m, Rule(380, p, AnyDest, {}))
        BY <2>2 DEF RuleFor
      <4> QED
        BY <4>1, RuleInstalled
    <3> QED
      BY <1>6, <3>1 DEF Rule, AnyDest
  <2>3. ASSUME NEW m \in cfg.members, m.dev = d
        PROVE  FALSE
    <3>1. p \in (KnownPorts \ {d}) \ Allowed(cfg, m)
      BY <1>6, <2>3, TalkIsAllowed
    <3>2. Rule(385, p, {d}, {}) \in R
      <4>1. RuleFor(cfg, m, Rule(385, p, {d}, {}))
        BY <2>3, <3>1 DEF RuleFor
      <4> QED
        BY <4>1, RuleInstalled
    <3> QED
      BY <1>6, <3>2 DEF Rule
  <2>4. {p, d} \cap Managed(cfg) = {}
    BY <2>2, <2>3 DEF Managed
  <2> QED
    BY <1>6, <2>1, <2>4
<1> QED
  BY <1>2, <1>4, <1>5, <1>6

\* A broadcast reaches the devices that may hear it.  The members of a port are
\* one, so the port has one list of them.
LEMMA BroadcastIsolated ==
    ASSUME NEW cfg \in SwitchConfigs, OneVlanEach(cfg), NEW p \in KnownPorts
    PROVE  Decision(ServedRules(cfg), p, Broadcast) =
              IF Managed(cfg) = {} THEN {} ELSE {{d \in Devices \ {p} : MayTalk(cfg, p, d)}}
<1> DEFINE R == ServedRules(cfg)
           hearing == {d \in Devices \ {p} : MayTalk(cfg, p, d)}
<1>1. cfg \in SwitchConfigs /\ OneVlanEach(cfg)
  OBVIOUS
<1>2. \A m \in cfg.members :
        /\ m \in Members /\ m.dev \in Devices
        /\ Allowed(cfg, m) \subseteq Devices \ {m.dev}
        /\ m.dev # Broadcast /\ Broadcast \notin Allowed(cfg, m)
  <2>1. Broadcast \notin Devices
    BY ConfigAssumption DEF Broadcast
  <2>2. cfg.members \subseteq Members /\ \A m \in cfg.members : m.dev \in Devices
    BY <1>1 DEF SwitchConfigs, Members
  <2>3. \A v : Peers(cfg, v) \subseteq Devices
    BY <2>2 DEF Peers
  <2> QED
    BY <2>1, <2>2, <2>3 DEF Allowed
<1>3. ASSUME NEW m \in cfg.members, m.dev = p
      PROVE  Allowed(cfg, m) = hearing
  <2>1. \A n \in cfg.members : n.dev = p => n = m
    BY <1>1, <1>2, <1>3 DEF OneVlanEach, Members
  <2> QED
    BY <1>1, <1>2, <1>3, <2>1, TalkIsAllowed
<1>4. ASSUME NEW r \in R, r.in = p, Broadcast \in r.to
      PROVE  \/ p \in Managed(cfg) /\ hearing # {} /\ r.prio = 390 /\ r.out = hearing
             \/ p \in Managed(cfg) /\ r.prio = 380 /\ r.out = {}
             \/ p \notin Managed(cfg) /\ r.prio = 384 /\ r.out = {}
  <2>1. CASE r \in {Rule(384, q, {Broadcast}, {}) : q \in KnownPorts \ Managed(cfg)}
    BY <1>4, <2>1 DEF Rule
  <2>2. CASE \E m \in cfg.members : r \in MemberRules(cfg, m)
    <3>1. PICK m \in cfg.members : r \in MemberRules(cfg, m)
      BY <2>2
    <3>2. RuleFor(cfg, m, r)
      BY <1>1, <3>1, RulesOfMember
    <3>3. \/ Allowed(cfg, m) # {} /\ r = Rule(390, m.dev, {Broadcast}, Allowed(cfg, m))
          \/ r = Rule(380, m.dev, AnyDest, {})
      <4>1. Broadcast \notin Allowed(cfg, m) /\ m.dev # Broadcast
        BY <1>2
      <4> QED
        BY <1>4, <3>2, <4>1 DEF Rule, RuleFor
    <3>4. m.dev = p /\ p \in Managed(cfg)
      BY <1>4, <3>3 DEF Rule, Managed
    <3> QED
      BY <1>3, <3>3, <3>4 DEF Rule
  <2> QED
    BY <2>1, <2>2 DEF ServedRules
<1>5. CASE Managed(cfg) = {}
  <2>1. R = {}
    <3>1. cfg.members = {}
      BY <1>5 DEF Managed
    <3> QED
      BY <3>1 DEF ServedRules
  <2> QED
    BY <1>5, <2>1, NoDecision
<1>6. CASE p \in Managed(cfg)
  <2>1. PICK m \in cfg.members : m.dev = p
    BY <1>6 DEF Managed
  <2>2. CASE hearing # {}
    <3> DEFINE top == Rule(390, p, {Broadcast}, hearing)
    <3>1. RuleFor(cfg, m, top)
      <4>1. Allowed(cfg, m) = hearing
        BY <1>3, <2>1
      <4> HIDE DEF hearing
      <4> QED
        BY <2>1, <2>2, <4>1 DEF RuleFor
    <3>2. top \in R
      BY <1>1, <3>1, RuleInstalled
    <3>3. top.in = p /\ Broadcast \in top.to /\ top.prio = 390 /\ top.out = hearing
      BY DEF Rule
    <3> HIDE DEF top, R, hearing
    <3>4. Decides(top, R, p, Broadcast)
      BY <1>4, <1>6, <3>2, <3>3 DEF Decides
    <3>5. Decision(R, p, Broadcast) = {hearing}
      BY <3>3, <3>4, DecisionOfTop
    <3> QED
      BY <1>6, <3>5 DEF R, hearing
  <2>3. CASE hearing = {}
    <3> DEFINE top == Rule(380, p, AnyDest, {})
    <3>1. RuleFor(cfg, m, top)
      BY <2>1 DEF RuleFor
    <3>2. top \in R
      BY <1>1, <3>1, RuleInstalled
    <3>3. top.in = p /\ Broadcast \in top.to /\ top.prio = 380 /\ top.out = {}
      BY DEF Rule, AnyDest
    <3> HIDE DEF top, R, hearing
    <3>4. Decides(top, R, p, Broadcast)
      BY <1>4, <1>6, <2>3, <3>2, <3>3 DEF Decides
    <3>5. Decision(R, p, Broadcast) = {{}}
      BY <3>3, <3>4, DecisionOfTop
    <3> QED
      BY <1>6, <2>3, <3>5 DEF R, hearing
  <2> QED
    BY <2>2, <2>3
<1>7. CASE Managed(cfg) # {} /\ p \notin Managed(cfg)
  <2>1. hearing = {}
    BY <1>7 DEF MayTalk, Managed
  <2> DEFINE top == Rule(384, p, {Broadcast}, {})
  <2>2. cfg.members # {}
    BY <1>7 DEF Managed
  <2>3. top \in R
    <3>1. top \in {Rule(384, q, {Broadcast}, {}) : q \in KnownPorts \ Managed(cfg)}
      BY <1>7
    <3> HIDE DEF top
    <3> QED
      BY <2>2, <3>1, RulesOfSwitch
  <2>4. top.in = p /\ Broadcast \in top.to /\ top.prio = 384 /\ top.out = {}
    BY DEF Rule
  <2> HIDE DEF top, R, hearing
  <2>5. Decides(top, R, p, Broadcast)
    BY <1>4, <1>7, <2>3, <2>4 DEF Decides
  <2>6. Decision(R, p, Broadcast) = {{}}
    BY <2>4, <2>5, DecisionOfTop
  <2> QED
    BY <1>7, <2>1, <2>6 DEF R, hearing
<1> QED
  BY <1>5, <1>6, <1>7

\* No rule is made for a port the controller does not know.
LEMMA UnknownUntouched ==
    ASSUME NEW cfg \in SwitchConfigs, Managed(cfg) \subseteq KnownPorts,
           NEW p, p \notin KnownPorts, NEW dest
    PROVE  Decision(ServedRules(cfg), p, dest) = {}
<1>1. ASSUME NEW r \in ServedRules(cfg)
      PROVE  r.in # p
  <2>1. CASE r \in {Rule(384, q, {Broadcast}, {}) : q \in KnownPorts \ Managed(cfg)}
    BY <2>1 DEF Rule
  <2>2. CASE \E m \in cfg.members : r \in MemberRules(cfg, m)
    <3>1. PICK m \in cfg.members : RuleFor(cfg, m, r)
      BY <2>2, RulesOfMember
    <3>2. m.dev \in KnownPorts
      BY DEF Managed
    <3>3. r.in = m.dev \/ r.in \in KnownPorts
      BY <3>1 DEF RuleFor, Rule
    <3> QED
      BY <3>2, <3>3
  <2> QED
    BY <2>1, <2>2, RulesOfSwitch
<1> QED
  BY <1>1, NoDecision

\* What the controller keeps of a sound configuration.
LEMMA ServedKept ==
    ASSUME NEW cfg, Sound(cfg)
    PROVE  /\ Served(cfg) \in SwitchConfigs /\ OneVlanEach(Served(cfg))
           /\ Managed(Served(cfg)) \subseteq KnownPorts
<1>1. /\ Served(cfg) \in SwitchConfigs
      /\ Served(cfg).members = {m \in cfg.members : m.dev \in KnownPorts}
  BY DEF Sound, SwitchConfigs, Served
<1> QED
  BY <1>1 DEF Sound, OneVlanEach, Managed

\* For every configuration in which no device is in two VLANs, and every set of
\* known ports: the rules made from it let a known port reach exactly the devices on
\* known ports in the same or a linked VLAN, and leave every other port alone.
THEOREM RulesMadeIsolate ==
    ASSUME NEW cfg, Sound(cfg)
    PROVE  Isolates(cfg)
<1> DEFINE served == Served(cfg)
<1>1. /\ served \in SwitchConfigs /\ OneVlanEach(served)
      /\ Managed(served) \subseteq KnownPorts
  BY ServedKept
<1>2. VlanRules(cfg) = ServedRules(served)
  BY DEF VlanRules
<1> HIDE DEF served
<1>3. \A p \in KnownPorts : \A d \in Ports \ {p} :
        Decision(VlanRules(cfg), p, d) =
            IF MayTalk(served, p, d) THEN {{d}}
            ELSE IF {p, d} \cap Managed(served) # {} THEN {{}} ELSE {}
  BY <1>1, <1>2, UnicastIsolated, Zenon
<1>4. \A p \in KnownPorts :
        Decision(VlanRules(cfg), p, Broadcast) =
            IF Managed(served) = {} THEN {}
            ELSE {{d \in Devices \ {p} : MayTalk(served, p, d)}}
  BY <1>1, <1>2, BroadcastIsolated, Zenon
<1>5. \A p \in Ports \ KnownPorts : \A x \in AnyDest : Decision(VlanRules(cfg), p, x) = {}
  BY <1>1, <1>2, UnknownUntouched, Zenon
<1> QED
  BY <1>3, <1>4, <1>5, Zenon DEF Isolates, served

-----------------------------------------------------------------------------
(* Edits *)

\* One of the edits of the register turns one configuration into the other.
EditOf(old, new) ==
    \/ \E d \in DOMAIN Attach, v \in Vlans : new = Assign(old, d, v)
    \/ \E s \in Switches, plan \in Plans, links \in SUBSET Pairs :
           CanConfigure(s, plan) /\ new = AutoConfigure(old, s, plan, links)
    \/ \E plan \in Plans, links \in SUBSET Pairs :
           CanConfigureAll(plan) /\ new = AutoConfigureAll(plan, links)
    \/ \E s \in Switches : new = RestoreOpen(old, s)
    \/ new = Nothing
    \/ \E s \in Switches, v \in Vlans, devices \in {{d} : d \in Devices} \cup {Devices} :
           CanRemove(old, s, v) /\ new = Remove(old, s, v, devices)
    \/ \E v \in Vlans : CanRemoveEverywhere(old, v) /\ new = RemoveEverywhere(old, v)
    \/ \E s \in Switches, p \in Pairs, b \in BOOLEAN :
           CanLink(old, s, p) /\ new = Link(old, s, p, b)
    \/ \E p \in Pairs, b \in BOOLEAN :
           (\E s \in Switches : CanLink(old, s, p)) /\ new = LinkEverywhere(old, p, b)

LEMMA EditWellFormed ==
    ASSUME NEW old, WellFormed(old), NEW new, EditOf(old, new)
    PROVE  WellFormed(new)
<1>1. CASE \E d \in DOMAIN Attach, v \in Vlans : new = Assign(old, d, v)
  BY <1>1, AssignWellFormed
<1>2. CASE \E s \in Switches, plan \in Plans, links \in SUBSET Pairs :
             CanConfigure(s, plan) /\ new = AutoConfigure(old, s, plan, links)
  BY <1>2, AutoConfigureWellFormed
<1>3. CASE \E plan \in Plans, links \in SUBSET Pairs :
             CanConfigureAll(plan) /\ new = AutoConfigureAll(plan, links)
  BY <1>3, AutoConfigureWellFormed
<1>4. CASE \E s \in Switches : new = RestoreOpen(old, s)
  BY <1>4, RestoreOpenWellFormed
<1>5. CASE new = Nothing
  BY <1>5, NothingWellFormed
<1>6. CASE \E s \in Switches, v \in Vlans, devices \in {{d} : d \in Devices} \cup {Devices} :
             CanRemove(old, s, v) /\ new = Remove(old, s, v, devices)
  <2>1. {{d} : d \in Devices} \cup {Devices} \subseteq SUBSET Devices
    OBVIOUS
  <2> QED
    BY <1>6, <2>1, RemoveWellFormed
<1>7. CASE \E v \in Vlans : CanRemoveEverywhere(old, v) /\ new = RemoveEverywhere(old, v)
  BY <1>7, RemoveWellFormed
<1>8. CASE \E s \in Switches, p \in Pairs, b \in BOOLEAN :
             CanLink(old, s, p) /\ new = Link(old, s, p, b)
  BY <1>8, LinkWellFormed
<1>9. CASE \E p \in Pairs, b \in BOOLEAN :
             (\E s \in Switches : CanLink(old, s, p)) /\ new = LinkEverywhere(old, p, b)
  BY <1>9, LinkWellFormed
<1> QED
  BY <1>1, <1>2, <1>3, <1>4, <1>5, <1>6, <1>7, <1>8, <1>9 DEF EditOf

\* Every request edits what is published.
LEMMA RequestEdits ==
    ASSUME NEW c \in Clients, Request(c)
    PROVE  \E new : EditOf(Published, new) /\ Hold(c, new)
<1>1. CASE AssignDeviceVlan(c)
  BY <1>1 DEF AssignDeviceVlan, EditOf
<1>2. CASE AutoConfigureSwitchVlans(c)
  BY <1>2 DEF AutoConfigureSwitchVlans, EditOf
<1>3. CASE AutoConfigureWholeNetwork(c)
  BY <1>3 DEF AutoConfigureWholeNetwork, EditOf
<1>4. CASE RestoreOpenConnectivity(c) \/ ClearSwitchAutomation(c) \/ ClearAllNetworkAutomation(c)
  BY <1>4 DEF RestoreOpenConnectivity, ClearSwitchAutomation, ClearAllNetworkAutomation, EditOf
<1>5. CASE RemoveVlanAssignment(c)
  BY <1>5 DEF RemoveVlanAssignment, EditOf
<1>6. CASE RemoveVlanFromAllSwitches(c)
  BY <1>6 DEF RemoveVlanFromAllSwitches, EditOf
<1>7. CASE SetVlanInterconnect(c)
  BY <1>7 DEF SetVlanInterconnect, EditOf
<1>8. CASE SetVlanInterconnectScope(c)
  BY <1>8 DEF SetVlanInterconnectScope, EditOf
<1> QED
  BY <1>1, <1>2, <1>3, <1>4, <1>5, <1>6, <1>7, <1>8 DEF Request

-----------------------------------------------------------------------------
(* Modification times *)

LEMMA ClocksCount == IsFiniteSet(Clocks) /\ Cardinality(Clocks) = 3
<1>1. IsFiniteSet({}) /\ Cardinality({}) = 0
  BY FS_EmptySet
<1>2. IsFiniteSet({"state"}) /\ Cardinality({"state"}) = 1
  BY <1>1, FS_AddElement
<1>3. IsFiniteSet({"state", "tmp"}) /\ Cardinality({"state", "tmp"}) = 2
  <2>1. {"state", "tmp"} = {"state"} \cup {"tmp"} /\ "tmp" \notin {"state"}
    OBVIOUS
  <2> QED
    BY <1>2, <2>1, FS_AddElement
<1>4. Clocks = {"state", "tmp"} \cup {"seen"} /\ "seen" \notin {"state", "tmp"}
  BY DEF Clocks
<1> QED
  BY <1>3, <1>4, FS_AddElement

LEMMA AtMostTwo ==
    ASSUME NEW x, NEW y, NEW T, T \subseteq {x, y}
    PROVE  IsFiniteSet(T) /\ Cardinality(T) \in 0..2
<1>1. IsFiniteSet({x}) /\ Cardinality({x}) = 1
  <2>1. {x} = {} \cup {x}
    OBVIOUS
  <2> QED
    BY <2>1, FS_EmptySet, FS_AddElement
<1>2. IsFiniteSet({x, y}) /\ Cardinality({x, y}) <= 2
  <2>1. {x, y} = {x} \cup {y}
    OBVIOUS
  <2> QED
    BY <1>1, <2>1, FS_AddElement
<1>3. IsFiniteSet(T) /\ Cardinality(T) <= Cardinality({x, y})
  BY <1>2, FS_Subset
<1> QED
  BY <1>2, <1>3, FS_CardinalityType

\* A rank is the number of values below, so equal values have equal ranks.
LEMMA RankedTyped ==
    ASSUME NEW m \in [Clocks -> Nat]
    PROVE  /\ Ranked(m) \in [Clocks -> 0 .. Cardinality(Clocks) - 1]
           /\ \A j, k \in Clocks : Ranked(m)[j] = Ranked(m)[k] <=> m[j] = m[k]
<1> DEFINE below(k) == {m[j] : j \in {c \in Clocks : m[c] < m[k]}}
<1>1. \A k \in Clocks : IsFiniteSet(below(k)) /\ Cardinality(below(k)) \in 0..2
  <2>1. below("state") \subseteq {m["tmp"], m["seen"]}
    BY DEF Clocks
  <2>2. below("tmp") \subseteq {m["state"], m["seen"]}
    BY DEF Clocks
  <2>3. below("seen") \subseteq {m["state"], m["tmp"]}
    BY DEF Clocks
  <2> HIDE DEF below
  <2> QED
    BY <2>1, <2>2, <2>3, AtMostTwo DEF Clocks
<1>2. Ranked(m) = [k \in Clocks |-> Cardinality(below(k))]
  BY DEF Ranked
<1>3. \A j, k \in Clocks :
        /\ m[j] = m[k] => below(j) = below(k)
        /\ m[j] < m[k] => below(j) \subseteq below(k) /\ m[j] \in below(k) \ below(j)
  OBVIOUS
<1> HIDE DEF below
<1>4. ASSUME NEW j \in Clocks, NEW k \in Clocks, m[j] < m[k]
      PROVE  Cardinality(below(j)) # Cardinality(below(k))
  BY <1>1, <1>3, <1>4, FS_Subset
<1>5. ASSUME NEW j \in Clocks, NEW k \in Clocks
      PROVE  Ranked(m)[j] = Ranked(m)[k] <=> m[j] = m[k]
  <2>1. m[j] = m[k] \/ m[j] < m[k] \/ m[k] < m[j]
    OBVIOUS
  <2> QED
    BY <1>2, <1>3, <1>4, <2>1
<1> QED
  BY <1>1, <1>2, <1>5, ClocksCount

LEMMA TouchedTyped ==
    ASSUME mtime \in [Clocks -> 0 .. Cardinality(Clocks) - 1], NEW k
    PROVE  Touched(k) \in [Clocks -> 0 .. Cardinality(Clocks) - 1]
<1>1. mtime \in [Clocks -> Nat] /\ Cardinality(Clocks) \in Nat
  BY ClocksCount
<1> QED
  <2>1. [mtime EXCEPT ![k] = Cardinality(Clocks)] \in [Clocks -> Nat]
    BY <1>1
  <2> QED
    BY <2>1, RankedTyped DEF Touched

\* A file that is touched gets a time of its own, and the others keep theirs apart
\* or equal.
LEMMA TouchedIsApart ==
    ASSUME mtime \in [Clocks -> 0 .. Cardinality(Clocks) - 1], NEW k \in Clocks
    PROVE  /\ \A j \in Clocks \ {k} : Touched(k)[j] # Touched(k)[k]
           /\ \A i, j \in Clocks \ {k} : Touched(k)[i] = Touched(k)[j] <=> mtime[i] = mtime[j]
<1> DEFINE m == [mtime EXCEPT ![k] = Cardinality(Clocks)]
<1>1. /\ m \in [Clocks -> Nat] /\ m[k] = 3
      /\ \A j \in Clocks \ {k} : m[j] = mtime[j] /\ m[j] # 3
  BY ClocksCount
<1> HIDE DEF m
<1>2. Touched(k) = Ranked(m)
  BY DEF Touched, m
<1> QED
  BY <1>1, <1>2, RankedTyped

-----------------------------------------------------------------------------
(* The invariant *)

FileSound(f) == f \in FileContents /\ WellFormed(f.conf)

\* Everything that is or may become a configuration is well formed.
DataInv ==
    /\ FileSound(stateFile) /\ FileSound(tmpFile)
    /\ \A c \in Clients : WellFormed(held[c])
    /\ WellFormed(applied)
    /\ \A s \in Switches : Sound(rules[s])

\* A client has a file open only while it writes.
HandleInv == \A c \in Clients : handle[c] # "none" <=> pc[c] = "write"

\* A request that meets no other one publishes an edit of what is published.
AloneInv ==
    \A c \in Active : alone[c] =>
        /\ Active = {c}
        /\ pc[c] \in {"open", "write"} => EditOf(Published, held[c])
        /\ pc[c] = "write" => handle[c] = "tmp" /\ tmpFile.is = "empty"
        /\ pc[c] = "replace" => tmpFile.is = "config" /\ EditOf(Published, tmpFile.conf)

\* A switch that has sent its features has the rules of the applied configuration,
\* unless the pass has yet to reach it or it connected late.
RulesInv ==
    \A s \in Switches :
        conn[s] = "config" \/ (Reachable(s) /\ s \notin targets) =>
            late[s] \/ rules[s] = applied[s]

AutomationInv == TypeOK /\ DataInv /\ HandleInv /\ AloneInv /\ RulesInv

LEMMA UnreadableSound ==
    ASSUME NEW how \in {"missing", "empty", "torn"}
    PROVE  FileSound(Unreadable(how)) /\ Unreadable(how).is = how /\ Unreadable(how).conf = Nothing
BY NothingWellFormed DEF FileSound, FileContents, Unreadable, WellFormed

LEMMA HoldingSound ==
    ASSUME NEW c, WellFormed(c)
    PROVE  FileSound(Holding(c)) /\ Holding(c).is = "config" /\ Holding(c).conf = c
BY DEF FileSound, FileContents, Holding, WellFormed

LEMMA InitAutomationInv == Init => AutomationInv
<1> SUFFICES ASSUME Init PROVE AutomationInv
  OBVIOUS
<1>1. FileSound(stateFile)
  BY AutomationAssumption DEF Init, FileSound, FileContents
<1>2. FileSound(tmpFile)
  BY UnreadableSound DEF Init
<1>3. mtime \in [Clocks -> 0 .. Cardinality(Clocks) - 1]
  BY ClocksCount DEF Init
<1>4. TypeOK
  BY <1>1, <1>2, <1>3, AutomationAssumption, NothingWellFormed
  DEF Init, TypeOK, FileSound, WellFormed
<1>5. DataInv
  BY <1>1, <1>2, NothingWellFormed DEF Init, DataInv
<1>6. HandleInv /\ AloneInv /\ RulesInv
  BY DEF Init, HandleInv, AloneInv, RulesInv, Active, Reachable
<1> QED
  BY <1>4, <1>5, <1>6 DEF AutomationInv

LEMMA RequestInv ==
    ASSUME AutomationInv, NEW c \in Clients, Request(c)
    PROVE  AutomationInv'
<1>1. PICK new : EditOf(Published, new) /\ Hold(c, new)
  BY RequestEdits
<1>2. WellFormed(new)
  BY <1>1, EditWellFormed DEF AutomationInv, DataInv, FileSound, Published
<1>3. /\ c \in Clients /\ pc[c] = "idle" /\ requests < MaxRequests
      /\ pc' = [pc EXCEPT ![c] = "open"] /\ held' = [held EXCEPT ![c] = new]
      /\ requests' = requests + 1
      /\ alone' = [x \in Clients |->
                      IF x = c THEN Active = {} ELSE alone[x] /\ x \notin Active]
      /\ UNCHANGED <<stateFile, tmpFile, mtime, handle, hook, applied, targets, conn, dp, zombie,
                     rules, late, drops>>
  BY <1>1 DEF Hold, Goto, Active, fileVars, hookVars, switchVars
<1>4. TypeOK'
  <2>1. alone' \in [Clients -> BOOLEAN]
    <3>1. \A x \in Clients :
            (IF x = c THEN Active = {} ELSE alone[x] /\ x \notin Active) \in BOOLEAN
      BY Zenon
    <3> QED
      BY <1>3, <3>1
  <2>2. held' \in [Clients -> Configs]
    BY <1>2, <1>3 DEF AutomationInv, TypeOK, WellFormed
  <2>3. requests' \in 0..MaxRequests
    BY <1>3, AutomationAssumption DEF AutomationInv, TypeOK
  <2>4. pc' \in [Clients -> {"idle", "open", "write", "replace"}]
    BY <1>3 DEF AutomationInv, TypeOK
  <2> QED
    BY <1>3, <2>1, <2>2, <2>3, <2>4 DEF AutomationInv, TypeOK
<1>5. DataInv'
  BY <1>2, <1>3 DEF AutomationInv, DataInv, TypeOK
<1>6. HandleInv'
  BY <1>3 DEF AutomationInv, HandleInv, TypeOK
<1>7. AloneInv'
  <2>1. Active' = Active \cup {c}
    BY <1>3 DEF AutomationInv, TypeOK, Active
  <2>2. ASSUME NEW x \in Active', alone'[x]
        PROVE  x = c /\ Active = {}
    BY <1>3, <2>1, <2>2 DEF Active
  <2>3. pc'[c] = "open" /\ held'[c] = new /\ Published' = Published
    BY <1>3 DEF AutomationInv, TypeOK, Published
  <2> QED
    BY <1>1, <2>1, <2>2, <2>3 DEF AloneInv, EditOf
<1>8. RulesInv'
  BY <1>3 DEF AutomationInv, RulesInv, Reachable
<1> QED
  BY <1>4, <1>5, <1>6, <1>7, <1>8 DEF AutomationInv

LEMMA OpenTmpInv ==
    ASSUME AutomationInv, NEW c \in Clients, OpenTmp(c)
    PROVE  AutomationInv'
<1>1. /\ pc[c] = "open" /\ pc' = [pc EXCEPT ![c] = "write"]
      /\ handle' = [handle EXCEPT ![c] = "tmp"]
      /\ tmpFile' = Unreadable("empty") /\ mtime' = Touched("tmp")
      /\ UNCHANGED <<stateFile, held, requests, alone, hook, applied, targets, conn, dp, zombie,
                     rules, late, drops>>
  BY DEF OpenTmp, Goto, hookVars, switchVars
<1>2. FileSound(tmpFile') /\ tmpFile'.is = "empty"
  BY <1>1, UnreadableSound
<1>3. TypeOK'
  <2>1. mtime' \in [Clocks -> 0 .. Cardinality(Clocks) - 1]
    BY <1>1, TouchedTyped DEF AutomationInv, TypeOK
  <2> QED
    BY <1>1, <1>2, <2>1 DEF AutomationInv, TypeOK, FileSound
<1>4. DataInv'
  BY <1>1, <1>2 DEF AutomationInv, DataInv, FileSound
<1>5. HandleInv'
  BY <1>1 DEF AutomationInv, HandleInv, TypeOK
<1>6. AloneInv'
  <2>1. Active' = Active /\ c \in Active /\ Published' = Published
    BY <1>1 DEF AutomationInv, TypeOK, Active, Published
  <2>2. ASSUME NEW x \in Active', alone'[x]
        PROVE  x = c /\ Active = {c} /\ EditOf(Published, held[c])
    BY <1>1, <2>1, <2>2 DEF AutomationInv, AloneInv
  <2>3. pc'[c] = "write" /\ handle'[c] = "tmp" /\ held'[c] = held[c]
    BY <1>1 DEF AutomationInv, TypeOK
  <2> QED
    BY <1>2, <2>1, <2>2, <2>3 DEF AloneInv, EditOf
<1>7. RulesInv'
  BY <1>1 DEF AutomationInv, RulesInv, Reachable
<1> QED
  BY <1>3, <1>4, <1>5, <1>6, <1>7 DEF AutomationInv

LEMMA WrittenSound ==
    ASSUME NEW old, NEW new, WellFormed(new), NEW f \in Written(old, new)
    PROVE  /\ FileSound(f)
           /\ old.is = "empty" => f.is = "config" /\ f.conf = new
BY UnreadableSound, HoldingSound DEF Written

LEMMA WriteCloseInv ==
    ASSUME AutomationInv, NEW c \in Clients, WriteClose(c)
    PROVE  AutomationInv'
<1>1. /\ pc[c] = "write" /\ pc' = [pc EXCEPT ![c] = "replace"]
      /\ handle' = [handle EXCEPT ![c] = "none"] /\ held' = [held EXCEPT ![c] = Nothing]
      /\ tmpFile' \in IF handle[c] = "tmp" THEN Written(tmpFile, held[c]) ELSE {tmpFile}
      /\ stateFile' \in IF handle[c] = "state" THEN Written(stateFile, held[c]) ELSE {stateFile}
      /\ mtime' = IF handle[c] = "unlinked" THEN mtime ELSE Touched(handle[c])
      /\ UNCHANGED <<requests, alone, hook, applied, targets, conn, dp, zombie, rules, late, drops>>
  BY DEF WriteClose, Goto, hookVars, switchVars
<1>2. FileSound(stateFile') /\ FileSound(tmpFile')
  <2>1. WellFormed(held[c]) /\ FileSound(stateFile) /\ FileSound(tmpFile)
    BY DEF AutomationInv, DataInv
  <2> QED
    BY <1>1, <2>1, WrittenSound
<1>3. TypeOK'
  <2>1. mtime' \in [Clocks -> 0 .. Cardinality(Clocks) - 1]
    BY <1>1, TouchedTyped DEF AutomationInv, TypeOK
  <2> QED
    BY <1>1, <1>2, <2>1, NothingWellFormed DEF AutomationInv, TypeOK, FileSound, WellFormed
<1>4. DataInv'
  BY <1>1, <1>2, NothingWellFormed DEF AutomationInv, DataInv, TypeOK
<1>5. HandleInv'
  BY <1>1 DEF AutomationInv, HandleInv, TypeOK
<1>6. AloneInv'
  <2>1. Active' = Active /\ c \in Active
    BY <1>1 DEF AutomationInv, TypeOK, Active
  <2>2. ASSUME NEW x \in Active', alone'[x]
        PROVE  /\ x = c /\ Active = {c} /\ EditOf(Published, held[c])
               /\ handle[c] = "tmp" /\ tmpFile.is = "empty"
    BY <1>1, <2>1, <2>2 DEF AutomationInv, AloneInv
  <2>3. pc'[c] = "replace"
    BY <1>1 DEF AutomationInv, TypeOK
  <2>4. ASSUME NEW x \in Active', alone'[x]
        PROVE  tmpFile'.is = "config" /\ tmpFile'.conf = held[c] /\ stateFile' = stateFile
    <3>1. tmpFile' \in Written(tmpFile, held[c]) /\ stateFile' = stateFile
      BY <1>1, <2>2, <2>4
    <3>2. WellFormed(held[c])
      BY DEF AutomationInv, DataInv
    <3> QED
      BY <2>2, <2>4, <3>1, <3>2, WrittenSound
  <2>5. ASSUME NEW x \in Active', alone'[x]
        PROVE  EditOf(Published', tmpFile'.conf)
    BY <2>2, <2>4, <2>5 DEF Published
  <2> QED
    BY <2>1, <2>2, <2>3, <2>4, <2>5 DEF AloneInv, EditOf
<1>7. RulesInv'
  BY <1>1 DEF AutomationInv, RulesInv, Reachable
<1> QED
  BY <1>3, <1>4, <1>5, <1>6, <1>7 DEF AutomationInv

LEMMA ReplaceInv ==
    ASSUME AutomationInv, NEW c \in Clients, Replace(c)
    PROVE  AutomationInv'
<1>1. /\ pc[c] = "replace" /\ pc' = [pc EXCEPT ![c] = "idle"]
      /\ alone' = [alone EXCEPT ![c] = TRUE]
      /\ UNCHANGED <<held, requests, hook, applied, targets, conn, dp, zombie, rules, late, drops>>
  BY DEF Replace, Goto, hookVars, switchVars
<1>2. \/ UNCHANGED <<stateFile, tmpFile, mtime, handle>>
      \/ /\ stateFile' = tmpFile /\ tmpFile' = Unreadable("missing")
         /\ mtime' = Ranked([mtime EXCEPT !["state"] = mtime["tmp"]])
         /\ handle' = Renamed
  BY DEF Replace, fileVars
<1>3. FileSound(stateFile') /\ FileSound(tmpFile')
  BY <1>2, UnreadableSound DEF AutomationInv, DataInv
<1>4. /\ handle' \in [Clients -> {"none", "tmp", "state", "unlinked"}]
      /\ \A x \in Clients : handle'[x] # "none" <=> handle[x] # "none"
  BY <1>2 DEF AutomationInv, TypeOK, Renamed
<1>5. TypeOK'
  <2>1. mtime' \in [Clocks -> 0 .. Cardinality(Clocks) - 1]
    <3>1. mtime \in [Clocks -> 0 .. Cardinality(Clocks) - 1]
      BY DEF AutomationInv, TypeOK
    <3>2. [mtime EXCEPT !["state"] = mtime["tmp"]] \in [Clocks -> Nat]
      BY <3>1, ClocksCount DEF Clocks
    <3> QED
      BY <1>2, <3>1, <3>2, RankedTyped
  <2> QED
    BY <1>1, <1>3, <1>4, <2>1 DEF AutomationInv, TypeOK, FileSound
<1>6. DataInv'
  BY <1>1, <1>3 DEF AutomationInv, DataInv
<1>7. HandleInv'
  BY <1>1, <1>4 DEF AutomationInv, HandleInv, TypeOK
<1>8. AloneInv'
  <2>1. Active' = Active \ {c} /\ c \in Active
    BY <1>1 DEF AutomationInv, TypeOK, Active
  <2>2. \A x \in Active' : x \in Active /\ x # c /\ alone'[x] = alone[x]
    BY <1>1, <2>1 DEF AutomationInv, TypeOK
  <2>3. \A x \in Active' : ~alone[x]
    BY <2>1, <2>2 DEF AutomationInv, AloneInv
  <2> QED
    BY <2>2, <2>3 DEF AloneInv
<1>9. RulesInv'
  BY <1>1 DEF AutomationInv, RulesInv, Reachable
<1> QED
  BY <1>5, <1>6, <1>7, <1>8, <1>9 DEF AutomationInv

-----------------------------------------------------------------------------
(* The controller's steps leave the requests alone *)

LEMMA ClientsKept ==
    ASSUME AutomationInv, UNCHANGED <<stateFile, tmpFile, pc, held, handle, alone>>
    PROVE  HandleInv' /\ AloneInv'
<1>1. Active' = Active /\ Published' = Published
  BY DEF Active, Published
<1> QED
  BY <1>1 DEF AutomationInv, HandleInv, AloneInv, EditOf

LEMMA HookInv ==
    ASSUME AutomationInv, Hook
    PROVE  AutomationInv'
<1>1. CASE HookStat
  <2>1. /\ mtime' = Ranked([mtime EXCEPT !["seen"] = mtime["state"]]) /\ hook' = "read"
        /\ UNCHANGED <<stateFile, tmpFile, pc, held, handle, requests, alone, applied, targets,
                       conn, dp, zombie, rules, late, drops>>
    BY <1>1 DEF HookStat, clientVars, switchVars
  <2>2. [mtime EXCEPT !["seen"] = mtime["state"]] \in [Clocks -> Nat]
    <3>1. mtime \in [Clocks -> 0 .. Cardinality(Clocks) - 1]
      BY DEF AutomationInv, TypeOK
    <3> QED
      BY <3>1, ClocksCount DEF Clocks
  <2>3. TypeOK'
    BY <2>1, <2>2, RankedTyped DEF AutomationInv, TypeOK
  <2> QED
    BY <2>1, <2>3, ClientsKept DEF AutomationInv, DataInv, RulesInv, Reachable
<1>2. CASE HookRead
  <2>1. /\ hook' \in {"stat", "read", "install"}
        /\ UNCHANGED <<stateFile, tmpFile, mtime, pc, held, handle, requests, alone, conn, dp,
                       zombie, rules, drops>>
    BY <1>2 DEF HookRead, fileVars, clientVars
  <2>2. CASE stateFile.is = "config" /\ stateFile.conf # applied
    <3>1. /\ applied' = stateFile.conf /\ targets' = {s \in Switches : Enrolled(s)}
          /\ late' = [s \in Switches |-> late[s] \/ conn[s] = "config"]
      BY <1>2, <2>2 DEF HookRead
    <3>2. WellFormed(applied')
      BY <3>1 DEF AutomationInv, DataInv, FileSound
    <3>3. TypeOK'
      BY <2>1, <3>1, <3>2 DEF AutomationInv, TypeOK, WellFormed
    <3>4. DataInv'
      BY <2>1, <3>2 DEF AutomationInv, DataInv
    <3>5. RulesInv'
      BY <2>1, <3>1 DEF RulesInv, Reachable, Enrolled
    <3> QED
      BY <2>1, <3>3, <3>4, <3>5, ClientsKept DEF AutomationInv
  <2>3. CASE ~(stateFile.is = "config" /\ stateFile.conf # applied)
    <3>1. UNCHANGED <<applied, targets, late>>
      BY <1>2, <2>3 DEF HookRead
    <3> QED
      BY <2>1, <3>1, ClientsKept DEF AutomationInv, TypeOK, DataInv, RulesInv, Reachable
  <2> QED
    BY <2>2, <2>3
<1>3. ASSUME NEW s \in Switches, HookInstall(s)
      PROVE  AutomationInv'
  <2>1. /\ targets' = targets \ {s} /\ hook' \in {"stat", "install"}
        /\ rules' = IF dp[s] = "live" THEN [rules EXCEPT ![s] = applied[s]] ELSE rules
        /\ UNCHANGED <<stateFile, tmpFile, mtime, pc, held, handle, requests, alone, applied,
                       conn, dp, zombie, late, drops>>
    BY <1>3 DEF HookInstall, fileVars, clientVars
  <2>2. Sound(applied[s]) /\ applied[s] \in SwitchConfigs
    BY WellFormedIsSound DEF AutomationInv, DataInv, Sound
  <2>3. TypeOK'
    BY <2>1, <2>2 DEF AutomationInv, TypeOK
  <2>4. DataInv'
    BY <2>1, <2>2 DEF AutomationInv, DataInv, TypeOK
  <2>5. RulesInv'
    BY <2>1 DEF AutomationInv, TypeOK, RulesInv, Reachable
  <2> QED
    BY <2>1, <2>3, <2>4, <2>5, ClientsKept DEF AutomationInv
<1> QED
  BY <1>1, <1>2, <1>3 DEF Hook

LEMMA SwitchInv ==
    ASSUME AutomationInv, NEW s \in Switches,
           SwitchFeatures(s) \/ Controller(s) \/ Disconnect(s)
    PROVE  AutomationInv'
<1>1. UNCHANGED <<stateFile, tmpFile, mtime, pc, held, handle, requests, alone, hook, applied,
                  targets>>
  BY DEF SwitchFeatures, Controller, EnterMain, HandleDead, Disconnect, fileVars, clientVars,
         hookVars
<1>2. CASE SwitchFeatures(s)
  <2>1. /\ conn' = [conn EXCEPT ![s] = "config"] /\ rules' = [rules EXCEPT ![s] = applied[s]]
        /\ late' = [late EXCEPT ![s] = FALSE] /\ UNCHANGED <<dp, zombie, drops>>
    BY <1>2 DEF SwitchFeatures
  <2>2. Sound(applied[s]) /\ applied[s] \in SwitchConfigs
    BY WellFormedIsSound DEF AutomationInv, DataInv, Sound
  <2>3. TypeOK'
    BY <1>1, <2>1, <2>2 DEF AutomationInv, TypeOK
  <2>4. DataInv'
    BY <1>1, <2>1, <2>2 DEF AutomationInv, DataInv, TypeOK
  <2>5. RulesInv'
    BY <1>1, <2>1 DEF AutomationInv, TypeOK, RulesInv, Reachable
  <2> QED
    BY <1>1, <2>3, <2>4, <2>5, ClientsKept DEF AutomationInv
<1>3. CASE EnterMain(s)
  <2>1. /\ conn[s] = "config" /\ conn' = [conn EXCEPT ![s] = "main"]
        /\ dp' = [dp EXCEPT ![s] = "live"] /\ UNCHANGED <<zombie, rules, late, drops>>
    BY <1>3 DEF EnterMain
  <2>2. TypeOK' /\ DataInv'
    BY <1>1, <2>1 DEF AutomationInv, TypeOK, DataInv
  <2>3. RulesInv'
    BY <1>1, <2>1 DEF AutomationInv, TypeOK, RulesInv, Reachable
  <2> QED
    BY <1>1, <2>2, <2>3, ClientsKept DEF AutomationInv
<1>4. CASE HandleDead(s)
  <2>1. /\ zombie' = [zombie EXCEPT ![s] = FALSE] /\ dp' = [dp EXCEPT ![s] = "none"]
        /\ UNCHANGED <<conn, rules, late, drops>>
    BY <1>4 DEF HandleDead
  <2>2. TypeOK' /\ DataInv'
    BY <1>1, <2>1 DEF AutomationInv, TypeOK, DataInv
  <2>3. RulesInv'
    BY <1>1, <2>1 DEF AutomationInv, TypeOK, RulesInv, Reachable
  <2> QED
    BY <1>1, <2>2, <2>3, ClientsKept DEF AutomationInv
<1>5. CASE Disconnect(s)
  <2>1. /\ drops < MaxDrops /\ drops' = drops + 1
        /\ conn' = [conn EXCEPT ![s] = "down"]
        /\ dp' = [dp EXCEPT ![s] = IF @ = "live" THEN "stale" ELSE @]
        /\ zombie' = [zombie EXCEPT ![s] = TRUE] /\ UNCHANGED <<rules, late>>
    BY <1>5 DEF Disconnect
  <2>2. TypeOK' /\ DataInv'
    BY <1>1, <2>1, AutomationAssumption DEF AutomationInv, TypeOK, DataInv
  <2>3. RulesInv'
    BY <1>1, <2>1 DEF AutomationInv, TypeOK, RulesInv, Reachable
  <2> QED
    BY <1>1, <2>2, <2>3, ClientsKept DEF AutomationInv
<1> QED
  BY <1>2, <1>3, <1>4, <1>5 DEF Controller

LEMMA NextAutomationInv == AutomationInv /\ [Next]_vars => AutomationInv'
<1> SUFFICES ASSUME AutomationInv, [Next]_vars PROVE AutomationInv'
  OBVIOUS
<1>1. CASE \E c \in Clients : Request(c) \/ Write(c)
  BY <1>1, RequestInv, OpenTmpInv, WriteCloseInv, ReplaceInv DEF Write
<1>2. CASE Hook
  BY <1>2, HookInv
<1>3. CASE \E s \in Online : SwitchFeatures(s) \/ Controller(s) \/ Disconnect(s)
  BY <1>3, SwitchInv, AutomationAssumption
<1>4. CASE UNCHANGED vars
  BY <1>4, ClientsKept
  DEF AutomationInv, TypeOK, DataInv, RulesInv, Reachable, vars, fileVars, clientVars, hookVars,
      switchVars
<1> QED
  BY <1>1, <1>2, <1>3, <1>4 DEF Next

LEMMA AutomationInvariant == Spec => []AutomationInv
BY InitAutomationInv, NextAutomationInv, PTL DEF Spec

-----------------------------------------------------------------------------
(* The properties *)

\* Every variable of the dashboard, the hook and the connections keeps its type.
THEOREM AutomationTypeCorrect == Spec => []TypeOK
<1>1. AutomationInv => TypeOK
  BY DEF AutomationInv
<1> QED
  BY <1>1, AutomationInvariant, PTL

\* However many requests overlap in the one .tmp file: the published configuration
\* and the one the controller follows name no link of a VLAN without members and
\* have no device in two VLANs of a switch.
THEOREM PublishedWellFormed == Spec => []ConfigsWellFormed
<1>1. AutomationInv => ConfigsWellFormed
  BY DEF AutomationInv, DataInv, FileSound, Published, ConfigsWellFormed
<1> QED
  BY <1>1, AutomationInvariant, PTL

\* However switches come and go during a pass of the hook: a switch that the
\* controller reaches has the rules of the configuration it follows, once the pass
\* has reached it, unless it connected late.
THEOREM ReachableHasApplied == Spec => []InstalledIsApplied
<1>1. AutomationInv => InstalledIsApplied
  BY DEF AutomationInv, RulesInv, InstalledIsApplied
<1> QED
  BY <1>1, AutomationInvariant, PTL

\* At any time, the rules on every switch let two ports talk exactly when their
\* VLANs are equal or linked.
THEOREM SwitchesIsolate == Spec => []RulesIsolate
<1>1. AutomationInv => RulesIsolate
  BY RulesMadeIsolate DEF AutomationInv, DataInv, RulesIsolate
<1> QED
  BY <1>1, AutomationInvariant, PTL

-----------------------------------------------------------------------------
(* The register *)

\* The register's operators are those of VlanConfig.
LEMMA SameEdits ==
    /\ \A c, d, v : Register!Assign(c, d, v) = Assign(c, d, v)
    /\ \A c, s, plan, links :
          Register!AutoConfigure(c, s, plan, links) = AutoConfigure(c, s, plan, links)
    /\ \A plan, links : Register!AutoConfigureAll(plan, links) = AutoConfigureAll(plan, links)
    /\ \A c, s : Register!RestoreOpen(c, s) = RestoreOpen(c, s)
    /\ Register!Nothing = Nothing
    /\ \A c, s, v, d : Register!Remove(c, s, v, d) = Remove(c, s, v, d)
    /\ \A c, v : Register!RemoveEverywhere(c, v) = RemoveEverywhere(c, v)
    /\ \A c, s, p, b : Register!Link(c, s, p, b) = Link(c, s, p, b)
    /\ \A c, p, b : Register!LinkEverywhere(c, p, b) = LinkEverywhere(c, p, b)
<1>1. \A c, d, v : Register!Assign(c, d, v) = Assign(c, d, v)
  BY DEF Register!Assign, Register!Evict, Register!Clean, Register!VlansOf,
         Assign, Evict, Clean, VlansOf
<1>2. /\ \A c, s, plan, links :
            Register!AutoConfigure(c, s, plan, links) = AutoConfigure(c, s, plan, links)
      /\ \A plan, links : Register!AutoConfigureAll(plan, links) = AutoConfigureAll(plan, links)
  BY DEF Register!AutoConfigure, Register!AutoConfigureAll, Register!Planned, Register!Place,
         Register!Cardinality, Register!At, Register!Clean, Register!VlansOf,
         AutoConfigure, AutoConfigureAll, Planned, Place, Cardinality, At, Clean, VlansOf
<1>3. (\A c, s : Register!RestoreOpen(c, s) = RestoreOpen(c, s)) /\ Register!Nothing = Nothing
  BY DEF Register!RestoreOpen, Register!Nothing, Register!NoConfig, RestoreOpen, Nothing, NoConfig
<1>4. /\ \A c, s, v, d : Register!Remove(c, s, v, d) = Remove(c, s, v, d)
      /\ \A c, v : Register!RemoveEverywhere(c, v) = RemoveEverywhere(c, v)
  BY DEF Register!Remove, Register!RemoveEverywhere, Register!Without, Register!Clean,
         Register!VlansOf, Remove, RemoveEverywhere, Without, Clean, VlansOf
<1>5. /\ \A c, s, p, b : Register!Link(c, s, p, b) = Link(c, s, p, b)
      /\ \A c, p, b : Register!LinkEverywhere(c, p, b) = LinkEverywhere(c, p, b)
  BY DEF Register!Link, Register!LinkEverywhere, Register!Linked, Register!CanLink,
         Register!Clean, Register!VlansOf, Link, LinkEverywhere, Linked, CanLink, Clean, VlansOf
<1> QED
  BY <1>1, <1>2, <1>3, <1>4, <1>5

LEMMA SameConditions ==
    /\ \A s, plan : Register!CanConfigure(s, plan) <=> CanConfigure(s, plan)
    /\ \A plan : Register!CanConfigureAll(plan) <=> CanConfigureAll(plan)
    /\ \A c, s, v : Register!CanRemove(c, s, v) <=> CanRemove(c, s, v)
    /\ \A c, v : Register!CanRemoveEverywhere(c, v) <=> CanRemoveEverywhere(c, v)
    /\ \A c, s, p : Register!CanLink(c, s, p) <=> CanLink(c, s, p)
    /\ Register!Pairs = Pairs
<1>1. \A plan, s : Register!Fits(plan, s) <=> Fits(plan, s)
  BY DEF Register!Fits, Register!At, Register!Cardinality, Fits, At, Cardinality
<1>2. /\ \A s, plan : Register!CanConfigure(s, plan) <=> CanConfigure(s, plan)
      /\ \A plan : Register!CanConfigureAll(plan) <=> CanConfigureAll(plan)
  BY <1>1 DEF Register!CanConfigure, Register!CanConfigureAll, Register!At,
              CanConfigure, CanConfigureAll, At
<1>3. /\ \A c, s, v : Register!CanRemove(c, s, v) <=> CanRemove(c, s, v)
      /\ \A c, v : Register!CanRemoveEverywhere(c, v) <=> CanRemoveEverywhere(c, v)
      /\ \A c, s, p : Register!CanLink(c, s, p) <=> CanLink(c, s, p)
  BY DEF Register!CanRemove, Register!CanRemoveEverywhere, Register!CanLink, Register!VlansOf,
         CanRemove, CanRemoveEverywhere, CanLink, VlansOf
<1>4. Register!Pairs = Pairs
  BY DEF Register!Pairs, Pairs
<1> QED
  BY <1>1, <1>2, <1>3, <1>4

LEMMA RegisterEdits ==
    ASSUME EditOf(Published, Published')
    PROVE  Register!Edit
<1>1. CASE \E d \in DOMAIN Attach, v \in Vlans : Published' = Assign(Published, d, v)
  BY <1>1, SameEdits DEF Register!Edit, Register!Become
<1>2. CASE \E s \in Switches, plan \in Plans, links \in SUBSET Pairs :
             CanConfigure(s, plan) /\ Published' = AutoConfigure(Published, s, plan, links)
  BY <1>2, SameEdits, SameConditions DEF Register!Edit, Register!Become
<1>3. CASE \E plan \in Plans, links \in SUBSET Pairs :
             CanConfigureAll(plan) /\ Published' = AutoConfigureAll(plan, links)
  BY <1>3, SameEdits, SameConditions DEF Register!Edit, Register!Become
<1>4. CASE \E s \in Switches : Published' = RestoreOpen(Published, s)
  BY <1>4, SameEdits DEF Register!Edit, Register!Become
<1>5. CASE Published' = Nothing
  BY <1>5, SameEdits DEF Register!Edit, Register!Become
<1>6. CASE \E s \in Switches, v \in Vlans, devices \in {{d} : d \in Devices} \cup {Devices} :
             CanRemove(Published, s, v) /\ Published' = Remove(Published, s, v, devices)
  BY <1>6, SameEdits, SameConditions DEF Register!Edit, Register!Become
<1>7. CASE \E v \in Vlans :
             CanRemoveEverywhere(Published, v) /\ Published' = RemoveEverywhere(Published, v)
  BY <1>7, SameEdits, SameConditions DEF Register!Edit, Register!Become
<1>8. CASE \E s \in Switches, p \in Pairs, b \in BOOLEAN :
             CanLink(Published, s, p) /\ Published' = Link(Published, s, p, b)
  BY <1>8, SameEdits, SameConditions DEF Register!Edit, Register!Become
<1>9. CASE \E p \in Pairs, b \in BOOLEAN :
             /\ \E s \in Switches : CanLink(Published, s, p)
             /\ Published' = LinkEverywhere(Published, p, b)
  BY <1>9, SameEdits, SameConditions DEF Register!Edit, Register!Become
<1> QED
  BY <1>1, <1>2, <1>3, <1>4, <1>5, <1>6, <1>7, <1>8, <1>9 DEF EditOf

LEMMA RegisterWellFormed == \A c : Register!WellFormed(c) <=> WellFormed(c)
BY DEF Register!WellFormed, Register!Configs, Register!SwitchConfigs, Register!Members,
       Register!Pairs, Register!LinksExist, Register!OneVlanEach, Register!VlansOf,
       WellFormed, Configs, SwitchConfigs, Members, Pairs, LinksExist, OneVlanEach, VlansOf

Contended == \E c \in Active : ~alone[c]

\* Only the end of a write and a rename change what is published.
LEMMA PublishedKept ==
    ASSUME [Next]_vars, Published' # Published
    PROVE  \E c \in Clients : WriteClose(c) \/ Replace(c)
<1>1. stateFile' # stateFile
  BY DEF Published
<1> QED
  BY <1>1
  DEF Next, vars, Request, AssignDeviceVlan, AutoConfigureSwitchVlans, AutoConfigureWholeNetwork,
      RestoreOpenConnectivity, ClearSwitchAutomation, ClearAllNetworkAutomation,
      RemoveVlanAssignment, RemoveVlanFromAllSwitches, SetVlanInterconnect,
      SetVlanInterconnectScope, Hold, Write, OpenTmp, Hook, HookStat, HookRead, HookInstall,
      SwitchFeatures, Controller, EnterMain, HandleDead, Disconnect, fileVars

\* A request that meets no other one publishes a whole edit; in any case the
\* configuration stays well formed.
LEMMA PublishedStep ==
    ASSUME AutomationInv, AutomationInv', [Next]_vars
    PROVE  Published' = Published \/ EditOf(Published, Published') \/ (Contended /\ WellFormed(Published'))
<1>1. WellFormed(Published')
  BY DEF AutomationInv, DataInv, FileSound, Published
<1> SUFFICES ASSUME Published' # Published, ~Contended
             PROVE  EditOf(Published, Published')
  BY <1>1
<1>2. PICK c \in Clients : WriteClose(c) \/ Replace(c)
  BY PublishedKept
<1>3. c \in Active /\ alone[c]
  BY <1>2 DEF WriteClose, Replace, Active, Contended
<1>4. CASE WriteClose(c)
  <2>1. handle[c] = "tmp"
    BY <1>3, <1>4 DEF AutomationInv, AloneInv, WriteClose
  <2> QED
    BY <1>4, <2>1 DEF WriteClose, Published
<1>5. CASE Replace(c)
  <2>1. tmpFile.is = "config" /\ EditOf(Published, tmpFile.conf)
    BY <1>3, <1>5 DEF AutomationInv, AloneInv, Replace
  <2>2. Published' = tmpFile.conf
    BY <1>5, <2>1 DEF Replace, Published
  <2> QED
    BY <2>1, <2>2
<1> QED
  BY <1>2, <1>4, <1>5

\* The published configuration changes as the register promises: by whole edits of
\* what was published while no requests overlap, and never to one that is not well
\* formed.
THEOREM DashboardImplementsRegister == Spec => RegisterSpec
<1>1. Init => Register!Init
  <2> SUFFICES ASSUME Init PROVE Register!Init
    OBVIOUS
  <2>1. Active = {}
    BY DEF Init, Active
  <2>2. WellFormed(Published)
    BY InitAutomationInv DEF AutomationInv, DataInv, FileSound, Published
  <2> QED
    BY <2>1, <2>2, RegisterWellFormed DEF Register!Init
<1>2. AutomationInv /\ AutomationInv' /\ [Next]_vars => [Register!Next]_<<Published, Contended>>
  <2> SUFFICES ASSUME AutomationInv, AutomationInv', [Next]_vars
               PROVE  Register!Next
    OBVIOUS
  <2>1. Contended' \in BOOLEAN
    BY Zenon DEF Contended
  <2> QED
    BY <2>1, PublishedStep, RegisterEdits, RegisterWellFormed DEF Register!Next, Contended
<1> QED
  BY <1>1, <1>2, AutomationInvariant, PTL DEF Spec, RegisterSpec, Register!Spec, Contended

-----------------------------------------------------------------------------
(* The safety half of Settles.  A file whose time the hook has recorded has *)
(* not been written since, as every write makes it the newest, nor did it   *)
(* come by a rename: while the .tmp file exists its time is that of no      *)
(* other file (TmpApart).                                                   *)

TmpApart ==
    tmpFile.is # "missing" => mtime["tmp"] # mtime["seen"] /\ mtime["tmp"] # mtime["state"]

\* But for the moment between recording the time and reading, a configuration of
\* the recorded time is the one that is applied.
SeenIsApplied ==
    hook # "read" /\ stateFile.is = "config" /\ mtime["seen"] = mtime["state"]
        => applied = Published

SeenInv == TmpApart /\ SeenIsApplied

LEMMA ClocksAre == "state" \in Clocks /\ "tmp" \in Clocks /\ "seen" \in Clocks
BY DEF Clocks

LEMMA InitSeenInv == Init => SeenInv
BY ClocksAre DEF Init, SeenInv, TmpApart, SeenIsApplied, Unreadable

\* Writing a file, under either name.
LEMMA TouchKeepsSeen ==
    ASSUME TypeOK, SeenInv, UNCHANGED hookVars,
           \/ mtime' = Touched("tmp") /\ UNCHANGED stateFile
           \/ mtime' = Touched("state") /\ UNCHANGED tmpFile
    PROVE  SeenInv'
<1> USE DEF SeenInv, TmpApart, SeenIsApplied, hookVars
<1>1. mtime \in [Clocks -> 0 .. Cardinality(Clocks) - 1]
  BY DEF TypeOK
<1>2. CASE mtime' = Touched("tmp") /\ UNCHANGED stateFile
  <2>1. /\ mtime'["tmp"] # mtime'["seen"] /\ mtime'["tmp"] # mtime'["state"]
        /\ mtime'["seen"] = mtime'["state"] <=> mtime["seen"] = mtime["state"]
    BY <1>1, <1>2, ClocksAre, TouchedIsApart
  <2> QED
    BY <1>2, <2>1 DEF Published
<1>3. CASE mtime' = Touched("state") /\ UNCHANGED tmpFile
  <2>1. /\ mtime'["state"] # mtime'["seen"] /\ mtime'["tmp"] # mtime'["state"]
        /\ mtime'["tmp"] = mtime'["seen"] <=> mtime["tmp"] = mtime["seen"]
    BY <1>1, <1>3, ClocksAre, TouchedIsApart
  <2> QED
    BY <1>3, <2>1
<1> QED
  BY <1>2, <1>3

LEMMA WriteKeepsSeen ==
    ASSUME TypeOK, HandleInv, SeenInv, NEW c \in Clients, Write(c)
    PROVE  SeenInv'
<1>1. CASE OpenTmp(c)
  BY <1>1, TouchKeepsSeen DEF OpenTmp
<1>2. CASE WriteClose(c)
  <2>1. handle[c] \in {"tmp", "state", "unlinked"}
    BY <1>2 DEF WriteClose, HandleInv, TypeOK
  <2>2. CASE handle[c] = "unlinked"
    BY <1>2, <2>2
    DEF WriteClose, hookVars, SeenInv, TmpApart, SeenIsApplied, Published
  <2> QED
    BY <1>2, <2>1, <2>2, TouchKeepsSeen DEF WriteClose
<1>3. CASE Replace(c)
  <2>1. CASE tmpFile.is = "missing"
    BY <1>3, <2>1
    DEF Replace, fileVars, hookVars, SeenInv, TmpApart, SeenIsApplied, Published
  <2>2. CASE tmpFile.is # "missing"
    <3> DEFINE m == [mtime EXCEPT !["state"] = mtime["tmp"]]
    <3>1. m \in [Clocks -> Nat] /\ m["state"] # m["seen"]
      BY <2>2, ClocksAre, ClocksCount DEF TypeOK, SeenInv, TmpApart
    <3>2. mtime' = Ranked(m) /\ tmpFile' = Unreadable("missing")
      BY <1>3, <2>2 DEF Replace
    <3> HIDE DEF m
    <3>3. mtime'["seen"] # mtime'["state"] /\ tmpFile'.is = "missing"
      BY <3>1, <3>2, ClocksAre, RankedTyped DEF Unreadable
    <3> QED
      BY <3>3 DEF SeenInv, TmpApart, SeenIsApplied
  <2> QED
    BY <2>1, <2>2
<1> QED
  BY <1>1, <1>2, <1>3 DEF Write

LEMMA HookKeepsSeen ==
    ASSUME TypeOK, SeenInv, Hook
    PROVE  SeenInv'
<1>1. CASE HookStat
  <2> DEFINE m == [mtime EXCEPT !["seen"] = mtime["state"]]
  <2>1. /\ m \in [Clocks -> Nat] /\ m["tmp"] = mtime["tmp"]
        /\ m["state"] = mtime["state"] /\ m["seen"] = mtime["state"]
    BY ClocksAre, ClocksCount DEF TypeOK
  <2>2. mtime' = Ranked(m) /\ hook' = "read" /\ tmpFile' = tmpFile
    BY <1>1 DEF HookStat
  <2> HIDE DEF m
  <2>3. mtime["tmp"] # mtime["state"]
            => mtime'["tmp"] # mtime'["seen"] /\ mtime'["tmp"] # mtime'["state"]
    BY <2>1, <2>2, ClocksAre, RankedTyped
  <2> QED
    BY <2>2, <2>3 DEF SeenInv, TmpApart, SeenIsApplied
<1>2. CASE HookRead
  BY <1>2 DEF HookRead, fileVars, SeenInv, TmpApart, SeenIsApplied, Published
<1>3. ASSUME NEW s \in Switches, HookInstall(s)
      PROVE  SeenInv'
  BY <1>3 DEF HookInstall, fileVars, SeenInv, TmpApart, SeenIsApplied, Published
<1> QED
  BY <1>1, <1>2, <1>3 DEF Hook

LEMMA NextSeenInv == TypeOK /\ HandleInv /\ SeenInv /\ [Next]_vars => SeenInv'
<1> SUFFICES ASSUME TypeOK, HandleInv, SeenInv, [Next]_vars PROVE SeenInv'
  OBVIOUS
<1>1. CASE UNCHANGED <<fileVars, hookVars>>
  BY <1>1 DEF fileVars, hookVars, SeenInv, TmpApart, SeenIsApplied, Published
<1>2. ASSUME NEW c \in Clients, Request(c) PROVE SeenInv'
  <2>1. \E new : Hold(c, new)
    BY <1>2, Zenon
    DEF Request, AssignDeviceVlan, AutoConfigureSwitchVlans, AutoConfigureWholeNetwork,
        RestoreOpenConnectivity, ClearSwitchAutomation, ClearAllNetworkAutomation,
        RemoveVlanAssignment, RemoveVlanFromAllSwitches, SetVlanInterconnect,
        SetVlanInterconnectScope
  <2> QED
    BY <1>1, <2>1 DEF Hold
<1>3. ASSUME NEW s \in Online, SwitchFeatures(s) \/ Controller(s) \/ Disconnect(s)
      PROVE  SeenInv'
  BY <1>1, <1>3 DEF SwitchFeatures, Controller, EnterMain, HandleDead, Disconnect
<1>4. CASE UNCHANGED vars
  BY <1>1, <1>4 DEF vars
<1> QED
  BY <1>2, <1>3, <1>4, WriteKeepsSeen, HookKeepsSeen DEF Next

\* A switch that connected in time, is reached and is not waiting for the pass has
\* the rules of the published configuration, if the controller has read that.
FollowsPublished ==
    hook # "read" /\ stateFile.is = "config" /\ mtime["seen"] = mtime["state"] =>
        \A s \in Switches : Reachable(s) /\ s \notin targets /\ ~late[s] => rules[s] = Published[s]

\* However requests cross in their files: the hook never takes a configuration it
\* has not applied for one already seen.  A configuration that is not applied can
\* still be told from what is by its time, or a rename gave it an older time than
\* that of a file already read, which Settles excepts.
THEOREM NoConfigurationIsSkipped == Spec => [](SeenIsApplied /\ FollowsPublished)
<1>1. AutomationInv /\ SeenInv => SeenIsApplied /\ FollowsPublished
  BY DEF AutomationInv, RulesInv, SeenInv, SeenIsApplied, FollowsPublished
<1>2. AutomationInv => TypeOK /\ HandleInv
  BY DEF AutomationInv
<1> QED
  BY <1>1, <1>2, AutomationInvariant, InitSeenInv, NextSeenInv, PTL DEF Spec

=============================================================================
