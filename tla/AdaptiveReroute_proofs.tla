----------------------- MODULE AdaptiveReroute_proofs -----------------------
(***************************************************************************)
(* Theorems of AdaptiveReroute for every topology, every set of rates and  *)
(* every content of the files.                                             *)
(*                                                                         *)
(* The handlers pass a record [thr, reroute, pending] from step to step.   *)
(* The first lemmas show that every step keeps it well formed, which means *)
(* typed and with both hysteresis bands in order; type correctness, the    *)
(* order of the thresholds and the bound on a request's age then form one  *)
(* inductive invariant, and the action properties follow from it, among    *)
(* them what is true of orphans and of manual settings.                    *)
(***************************************************************************)
EXTENDS AdaptiveReroute, TLAPS

WellFormed(s) ==
    /\ s \in [thr : Thresholds, reroute : BOOLEAN, pending : BOOLEAN]
    /\ Ordered(s.thr)

\* Correcting thresholds whose highs are positive puts both bands in order.
LEMMA CorrectedOrdered ==
    ASSUME NEW t \in Thresholds,
           t.congest_high_mbps > 0, t.port_congest_high_pct > 0
    PROVE  Corrected(t) \in Thresholds /\ Ordered(Corrected(t))
<1>1. \A n \in Nat : n > 0 => /\ (n * 7) \div 10 \in Nat /\ (n * 7) \div 10 < n
                              /\ (n * 8) \div 10 \in Nat /\ (n * 8) \div 10 < n
  OBVIOUS
<1> DEFINE low == IF t.congest_low_mbps >= t.congest_high_mbps
                  THEN (t.congest_high_mbps * 7) \div 10 ELSE t.congest_low_mbps
           portLow == IF t.port_congest_low_pct >= t.port_congest_high_pct
                      THEN (t.port_congest_high_pct * 8) \div 10
                      ELSE t.port_congest_low_pct
<1>2. /\ t.congest_low_mbps \in Nat /\ t.congest_high_mbps \in Nat
      /\ t.port_congest_low_pct \in Nat /\ t.port_congest_high_pct \in Nat
  BY DEF Thresholds, ThresholdKeys
<1>3. /\ low \in Nat /\ low < t.congest_high_mbps
      /\ portLow \in Nat /\ portLow < t.port_congest_high_pct
  BY <1>1, <1>2
<1>4. Corrected(t) = [t EXCEPT !.congest_low_mbps = low, !.port_congest_low_pct = portLow]
  BY DEF Corrected
<1> HIDE DEF low, portLow
<1> QED
  BY <1>2, <1>3, <1>4 DEF Thresholds, ThresholdKeys, Ordered

\* So does merging any settings payload into ordered thresholds.
LEMMA ApplySettingsOrdered ==
    ASSUME NEW t \in Thresholds, Ordered(t), NEW p, IsSettings(p)
    PROVE  ApplySettings(t, p) \in Thresholds /\ Ordered(ApplySettings(t, p))
<1> DEFINE merged == [k \in ThresholdKeys |-> IF k \in DOMAIN p THEN p[k] ELSE t[k]]
<1>1. merged \in Thresholds
  BY DEF Thresholds, IsSettings
<1>2. merged.congest_high_mbps > 0 /\ merged.port_congest_high_pct > 0
  BY DEF Thresholds, ThresholdKeys, IsSettings, HighKeys, Ordered
<1> HIDE DEF merged
<1>3. Corrected(merged) \in Thresholds /\ Ordered(Corrected(merged))
  BY <1>1, <1>2, CorrectedOrdered
<1> QED
  BY <1>3 DEF ApplySettings, merged

\* Whatever the manual settings file holds, applying it keeps the bands in order.
LEMMA ApplyManualOrdered ==
    ASSUME TypeOK, NEW t \in Thresholds, Ordered(t)
    PROVE  ApplyManual(t) \in Thresholds /\ Ordered(ApplyManual(t))
<1>1. CASE manualFile = NoFile
  BY <1>1 DEF ApplyManual
<1>2. CASE manualFile # NoFile
  <2>1. IsSettings(manualFile)
    BY <1>2, InputAssumption DEF TypeOK
  <2> QED
    BY <1>2, <2>1, ApplySettingsOrdered DEF ApplyManual
<1> QED
  BY <1>1, <1>2

\* The timetable writes an ordered pair and leaves the port band alone.
LEMMA TimetableOrdered ==
    ASSUME NEW t \in Thresholds, Ordered(t)
    PROVE  TimetableThresholds(t) \in Thresholds /\ Ordered(TimetableThresholds(t))
<1>1. \A m : EffectsOf(m).high \in Nat /\ EffectsOf(m).low \in Nat
             /\ EffectsOf(m).low < EffectsOf(m).high
  BY ThresholdAssumption DEF EffectsOf
<1> QED
  BY <1>1 DEF TimetableThresholds, Thresholds, ThresholdKeys, Ordered

\* Consuming an action keeps the handler's record well formed.
LEMMA ConsumeWellFormed ==
    ASSUME TypeOK, NEW s, WellFormed(s), NEW a \in MlActions, NEW ports, NEW rate
    PROVE  WellFormed(ConsumeMlAction(s, a, ports, rate))
<1> DEFINE s1 == IF manualFile = NoFile
                 THEN [s EXCEPT !.thr = ApplySettings(@, a.set)] ELSE s
<1>1. ApplySettings(s.thr, a.set) \in Thresholds /\ Ordered(ApplySettings(s.thr, a.set))
  BY ApplySettingsOrdered, InputAssumption DEF WellFormed
<1>2. WellFormed(s1)
  BY <1>1 DEF WellFormed
<1> HIDE DEF s1
<1>3. ForcedReroute(s1, a) \in BOOLEAN
  BY <1>2 DEF ForcedReroute, WellFormed
<1>4. WellFormed([s1 EXCEPT !.reroute = ForcedReroute(s1, a)])
  BY <1>2, <1>3 DEF WellFormed
<1>5. ResolveDqnRoutingChoice(s1, a, ports, rate) \in BOOLEAN
  BY DEF ResolveDqnRoutingChoice
<1>6. WellFormed(ApplyDqnRoutingDecision(s1, a, ports, rate))
  BY <1>2, <1>5 DEF WellFormed, ApplyDqnRoutingDecision
<1> QED
  BY <1>2, <1>4, <1>6 DEF ConsumeMlAction, s1

LEMMA HookWellFormed ==
    ASSUME TypeOK, NEW s, WellFormed(s), NEW ports, NEW rate
    PROVE  WellFormed(ApplyMlActionHook(s, ports, rate))
<1> DEFINE s1 == IF mlFresh THEN ConsumeMlAction(s, mlFile, ports, rate) ELSE s
<1>1. WellFormed(s1)
  BY ConsumeWellFormed DEF TypeOK
<1> HIDE DEF s1
<1>2. ApplyManual(s1.thr) \in Thresholds /\ Ordered(ApplyManual(s1.thr))
  BY <1>1, ApplyManualOrdered DEF WellFormed
<1>3. WellFormed([s1 EXCEPT !.thr = ApplyManual(@)])
  BY <1>1, <1>2 DEF WellFormed
<1> QED
  BY <1>3 DEF ApplyMlActionHook, s1

LEMMA EvaluateWellFormed ==
    ASSUME TypeOK, NEW s, WellFormed(s), NEW ports, NEW rate
    PROVE  WellFormed(EvaluateCongestion(s, ports, rate))
<1> DEFINE asking == ApplyMlActionHook([s EXCEPT !.pending = TRUE], ports, rate)
<1>1. WellFormed([s EXCEPT !.pending = TRUE])
  BY DEF WellFormed
<1>2. WellFormed(asking)
  BY <1>1, HookWellFormed
<1> HIDE DEF asking
<1>3. /\ WellFormed([asking EXCEPT !.reroute = @ \/ ~asking.pending])
      /\ WellFormed([asking EXCEPT !.reroute = @ /\ asking.pending])
      /\ WellFormed([s EXCEPT !.reroute = TRUE])
      /\ WellFormed([s EXCEPT !.reroute = FALSE])
  BY <1>2 DEF WellFormed
<1> QED
  BY <1>3 DEF EvaluateCongestion, asking

LEMMA TimeoutWellFormed ==
    ASSUME NEW s, WellFormed(s), NEW waited
    PROVE  WellFormed(CheckDqnDecisionTimeout(s, waited))
BY DEF WellFormed, CheckDqnDecisionTimeout

-----------------------------------------------------------------------------
(* The inductive invariant *)

IInv == TypeOK /\ ThresholdOrder /\ PendingBounded

\* The controller's own record is well formed in every state of the invariant.
LEMMA CurrentWellFormed == IInv => WellFormed(Current)
BY DEF IInv, TypeOK, ThresholdOrder, WellFormed, Current

\* Switching the policy keeps the flow tables on the switches that can hold it.
LEMMA PolicyFlowsTyped ==
    ASSUME TypeOK, NEW s, WellFormed(s), SetReroutePolicy(s)
    PROVE  reroute' \in BOOLEAN /\ flows' \subseteq PolicySwitches
BY DEF SetReroutePolicy, WellFormed, TypeOK

LEMMA UpdatePortsTyped ==
    ASSUME NEW ports \in SUBSET Ports, NEW ps \in SUBSET Ports, NEW rate, NEW t
    PROVE  UpdatePortCongestion(ports, ps, rate, t) \in SUBSET Ports
BY DEF UpdatePortCongestion

LEMMA ChoiceTyped ==
    ASSUME TypeOK, mlFresh
    PROVE  ChoiceAfter(mlFile) \in {"backup", "primary", "load_balance", "absent"}
BY InputAssumption DEF ChoiceAfter, TypeOK

LEMMA InitInv == Init => IInv
<1> SUFFICES ASSUME Init PROVE IInv
  OBVIOUS
<1>1. thr \in Thresholds /\ ThresholdOrder
  BY ThresholdAssumption DEF Init, ThresholdOrder
<1>2. PendingBounded
  BY DEF Init, PendingBounded
<1>3. TypeOK
  BY <1>1, ControlAssumption DEF Init, TypeOK
<1> QED
  BY <1>1, <1>2, <1>3 DEF IInv

\* A core sample: every field it writes comes out of a well-formed record.
LEMMA CoreSampleInv ==
    ASSUME IInv, NEW rate \in [PortsOf(CoreSwitch) -> Rates],
           NEW earlier \in SUBSET (PortsOf(CoreSwitch) \ {CorePort}),
           CoreStatsReply(rate, earlier)
    PROVE  IInv'
<1> DEFINE ports1 == UpdatePortCongestion(congested, earlier \cup {CorePort}, rate, thr)
           s == EvaluateCongestion(Current, ports1, rate[CorePort])
<1>1. WellFormed(s)
  BY CurrentWellFormed, EvaluateWellFormed DEF IInv
<1>2. PortsOf(CoreSwitch) \subseteq Ports /\ CorePort \in PortsOf(CoreSwitch)
  BY TopologyAssumption DEF PortsOf
<1>3. ports1 \in SUBSET Ports
  BY <1>2, UpdatePortsTyped DEF IInv, TypeOK
<1>4. congested' \subseteq Ports
  <2> HIDE DEF ports1
  <2>1. congested' = UpdatePortCongestion(ports1,
                        PortsOf(CoreSwitch) \ (earlier \cup {CorePort}), rate, s.thr)
    BY DEF CoreStatsReply, ports1
  <2> QED
    BY <1>2, <1>3, <2>1, UpdatePortsTyped
<1>5. /\ thr' = s.thr /\ pending' = s.pending /\ SetReroutePolicy(s)
      /\ age' = IF s.pending /\ pending THEN age ELSE 0
      /\ UNCHANGED <<datapaths, sampled, mode, dqnEnabled, mlFile, manualFile, ttFile, ttFresh>>
      /\ asked' = asked \ {CoreSwitch} /\ mbps' = rate[CorePort]
      /\ throughput' = UpdateThroughput(rate[CorePort])
  BY DEF CoreStatsReply
<1>6. /\ mlFresh' \in BOOLEAN /\ (mlFresh' => mlFile' # NoFile)
      /\ lastChoice' \in {"backup", "primary", "load_balance", "absent"}
  BY ChoiceTyped DEF CoreStatsReply, IInv, TypeOK
<1> HIDE DEF s
<1>7. TypeOK'
  <2>1. thr' \in Thresholds /\ pending' \in BOOLEAN
    BY <1>1, <1>5 DEF WellFormed
  <2>2. reroute' \in BOOLEAN /\ flows' \subseteq PolicySwitches
    BY <1>1, <1>5, PolicyFlowsTyped DEF IInv
  <2>3. throughput' \in BOOLEAN /\ mbps' \in Nat
    <3>1. mbps' \in Nat
      BY <1>2, <1>5, TopologyAssumption
    <3>2. UpdateThroughput(rate[CorePort]) \in BOOLEAN
      BY DEF UpdateThroughput
    <3> QED
      BY <1>5, <3>1, <3>2
  <2>4. age' \in Nat /\ dqnEnabled' \in BOOLEAN
    BY <1>5 DEF IInv, TypeOK
  <2> QED
    BY <1>4, <1>5, <1>6, <2>1, <2>2, <2>3, <2>4 DEF IInv, TypeOK
<1>8. ThresholdOrder'
  BY <1>1, <1>5 DEF WellFormed, ThresholdOrder
<1>9. PendingBounded'
  BY <1>5, ControlAssumption DEF IInv, PendingBounded
<1> QED
  BY <1>7, <1>8, <1>9 DEF IInv

\* A monitor pass: the hooks keep the record well formed, and the timeout check
\* lets no request survive that has reached its age.
LEMMA MonitorInv ==
    ASSUME IInv, Monitor
    PROVE  IInv'
<1> DEFINE s1 == ApplyMlActionHook(Current, congested, mbps)
           s2 == [s1 EXCEPT !.thr = TimetableThresholds(@)]
           s3 == CheckDqnDecisionTimeout(s2, age + 1)
<1>1. WellFormed(s1)
  BY CurrentWellFormed, HookWellFormed DEF IInv
<1>2. WellFormed(s2)
  <2> HIDE DEF s1
  <2>1. s1.thr \in Thresholds /\ Ordered(s1.thr)
    BY <1>1 DEF WellFormed
  <2>2. TimetableThresholds(s1.thr) \in Thresholds /\ Ordered(TimetableThresholds(s1.thr))
    BY <2>1, TimetableOrdered
  <2> QED
    BY <1>1, <2>2 DEF WellFormed
<1> HIDE DEF s2
<1>3. WellFormed(s3)
  BY <1>2, TimeoutWellFormed
<1>4. s3.pending => age + 1 < DecisionTimeout
  <2>1. age \in Nat /\ DecisionTimeout \in Nat
    BY ControlAssumption DEF IInv, TypeOK
  <2>2. CASE s2.pending /\ age + 1 >= DecisionTimeout
    BY <1>2, <2>2 DEF CheckDqnDecisionTimeout, WellFormed
  <2>3. CASE ~(s2.pending /\ age + 1 >= DecisionTimeout)
    BY <2>1, <2>3 DEF CheckDqnDecisionTimeout
  <2> QED
    BY <2>2, <2>3
<1>5. /\ thr' = s3.thr /\ pending' = s3.pending /\ SetReroutePolicy(s3)
      /\ age' = IF s3.pending THEN age + 1 ELSE 0
      /\ mode' = IF ttFresh THEN ttFile ELSE mode
      /\ lastChoice' = IF mlFresh THEN ChoiceAfter(mlFile) ELSE lastChoice
      /\ asked' = datapaths /\ mlFresh' = FALSE /\ ttFresh' = FALSE
      /\ UNCHANGED <<datapaths, sampled, sampleVars, dqnEnabled, mlFile, manualFile, ttFile>>
  BY DEF Monitor, s2
<1> HIDE DEF s3
<1>6. TypeOK'
  <2>1. thr' \in Thresholds /\ pending' \in BOOLEAN
    BY <1>3, <1>5 DEF WellFormed
  <2>2. reroute' \in BOOLEAN /\ flows' \subseteq PolicySwitches
    BY <1>3, <1>5, PolicyFlowsTyped DEF IInv
  <2>3. age' \in Nat
    BY <1>5 DEF IInv, TypeOK
  <2>4. lastChoice' \in {"backup", "primary", "load_balance", "absent"}
    BY <1>5, ChoiceTyped DEF IInv, TypeOK
  <2> QED
    BY <1>5, <2>1, <2>2, <2>3, <2>4 DEF IInv, TypeOK, sampleVars
<1>7. ThresholdOrder'
  BY <1>3, <1>5 DEF WellFormed, ThresholdOrder
<1>8. PendingBounded'
  BY <1>4, <1>5 DEF PendingBounded
<1> QED
  BY <1>6, <1>7, <1>8 DEF IInv

\* Every step keeps the invariant; only samples and passes touch thresholds.
LEMMA NextInv == IInv /\ [Next]_vars => IInv'
<1> SUFFICES ASSUME IInv, [Next]_vars PROVE IInv'
  OBVIOUS
<1> USE DEF IInv, TypeOK, ThresholdOrder, PendingBounded
<1>1. ASSUME NEW s \in Switches, FirstStatsReply(s) PROVE IInv'
  BY <1>1 DEF FirstStatsReply, sampleVars, policyVars, fileVars
<1>2. ASSUME NEW s \in Switches, NEW rate \in [PortsOf(s) -> Rates], EdgeStatsReply(s, rate)
      PROVE IInv'
  <2>1. congested' \in SUBSET Ports
    <3>1. PortsOf(s) \in SUBSET Ports
      BY DEF PortsOf
    <3> QED
      BY <1>2, <3>1, UpdatePortsTyped DEF EdgeStatsReply
  <2> QED
    BY <1>2, <2>1 DEF EdgeStatsReply, policyVars, fileVars
<1>3. CASE CoreSample
  BY <1>3, CoreSampleInv DEF CoreSample
<1>4. CASE Monitor
  BY <1>4, MonitorInv
<1>5. ASSUME NEW s \in Switches, Connect(s) PROVE IInv'
  BY <1>5 DEF Connect, sampleVars, policyVars, fileVars
<1>6. ASSUME NEW s \in Switches, Disconnect(s) PROVE IInv'
  BY <1>6 DEF Disconnect, sampleVars, policyVars, fileVars
<1>7. CASE PacketInFastPath
  BY <1>7, TopologyAssumption DEF PacketInFastPath, sampleVars, policyVars, fileVars
<1>8. ASSUME NEW s \in Switches, FlowsIdleOut(s) PROVE IInv'
  BY <1>8 DEF FlowsIdleOut, sampleVars, policyVars, fileVars
<1>9. CASE Restart
  BY <1>9, ThresholdAssumption, ControlAssumption DEF Restart, Ordered
<1>10. CASE SomeAgentWrite
  BY <1>10, InputAssumption
     DEF SomeAgentWrite, AgentWrite, switchVars, sampleVars, policyVars
<1>11. ASSUME NEW m \in ManualSettings, ManualWrite(m) PROVE IInv'
  BY <1>11 DEF ManualWrite, switchVars, sampleVars, policyVars
<1>12. CASE ManualRemove
  BY <1>12 DEF ManualRemove, switchVars, sampleVars, policyVars
<1>13. ASSUME NEW m \in Modes, TimetableWrite(m) PROVE IInv'
  BY <1>13, InputAssumption DEF TimetableWrite, switchVars, sampleVars, policyVars
<1>14. CASE UNCHANGED vars
  BY <1>14 DEF vars, switchVars, sampleVars, policyVars, fileVars
<1> QED
  BY <1>1, <1>2, <1>3, <1>4, <1>5, <1>6, <1>7, <1>8, <1>9, <1>10, <1>11, <1>12,
     <1>13, <1>14 DEF Next

\* The controller stays typed, its hysteresis bands stay in order and no request
\* outlives its timeout: the three invariants TLC checks, for every instance.
THEOREM RerouteSafe == Spec => [](TypeOK /\ ThresholdOrder /\ PendingBounded)
<1>1. Spec => []IInv
  BY InitInv, NextInv, PTL DEF Spec
<1> QED
  BY <1>1, PTL DEF IInv

\* Every field, file and switch table keeps its type.
COROLLARY RerouteTypeCorrect == Spec => []TypeOK
BY RerouteSafe, PTL

\* A decision request is answered or timed out, however often samples ask.
COROLLARY RequestsTimeOut == Spec => []PendingBounded
BY RerouteSafe, PTL

-----------------------------------------------------------------------------
(* The action properties *)

\* Only the core's reply hands over a usable core sample.
LEMMA OnlySamplesSample ==
    ASSUME IInv, [Next]_vars, CoreSampleStep
    PROVE  CoreSample
<1> USE DEF CoreSampleStep, IInv, TypeOK
<1>1. ASSUME NEW s \in Switches, FirstStatsReply(s) PROVE FALSE
  BY <1>1 DEF FirstStatsReply
<1>2. ASSUME NEW s \in Switches, NEW rate \in [PortsOf(s) -> Rates], EdgeStatsReply(s, rate)
      PROVE FALSE
  BY <1>2 DEF EdgeStatsReply
<1>3. CASE Monitor
  BY <1>3 DEF Monitor
<1>4. ASSUME NEW s \in Switches, Connect(s) \/ Disconnect(s) PROVE FALSE
  BY <1>4 DEF Connect, Disconnect
<1>5. ASSUME NEW s \in Switches, FlowsIdleOut(s) PROVE FALSE
  BY <1>5 DEF FlowsIdleOut
<1>6. CASE PacketInFastPath \/ Restart
  BY <1>6 DEF PacketInFastPath, Restart
<1>7. CASE SomeAgentWrite \/ ManualRemove
  BY <1>7 DEF SomeAgentWrite, AgentWrite, ManualRemove, switchVars
<1>8. ASSUME NEW m, ManualWrite(m) \/ TimetableWrite(m) PROVE FALSE
  BY <1>8 DEF ManualWrite, TimetableWrite, switchVars
<1>9. CASE UNCHANGED vars
  BY <1>9 DEF vars, switchVars
<1> QED
  BY <1>1, <1>2, <1>3, <1>4, <1>5, <1>6, <1>7, <1>8, <1>9 DEF Next

\* With the integration on, consuming an action while the policy is active, and
\* the whole hook with it, leaves the policy active: the override sees reroute.
LEMMA HookKeepsReroute ==
    ASSUME TypeOK, dqnEnabled, NEW s, WellFormed(s), s.reroute, NEW ports, NEW rate
    PROVE  ApplyMlActionHook(s, ports, rate).reroute
<1> DEFINE a == mlFile
           s1 == IF manualFile = NoFile
                 THEN [s EXCEPT !.thr = ApplySettings(@, a.set)] ELSE s
<1>1. s1.reroute /\ s1 \in [thr : {s1.thr}, reroute : BOOLEAN, pending : BOOLEAN]
  BY DEF WellFormed
<1> HIDE DEF s1
<1>2. IsCongested(s1, ports, rate)
  BY <1>1 DEF IsCongested
<1>3. ConsumeMlAction(s, a, ports, rate) = ApplyDqnRoutingDecision(s1, a, ports, rate)
  BY <1>2 DEF ConsumeMlAction, s1
<1>4. ApplyDqnRoutingDecision(s1, a, ports, rate).reroute
  BY <1>1, <1>2 DEF ApplyDqnRoutingDecision, ResolveDqnRoutingChoice
<1> DEFINE s2 == IF mlFresh THEN ConsumeMlAction(s, a, ports, rate) ELSE s
<1>5. s2.reroute
  BY <1>3, <1>4
<1>6. WellFormed(s2)
  BY ConsumeWellFormed DEF TypeOK
<1> HIDE DEF s2
<1>7. [s2 EXCEPT !.thr = ApplyManual(@)].reroute = s2.reroute
  BY <1>6 DEF WellFormed
<1> QED
  BY <1>5, <1>7 DEF ApplyMlActionHook, s2

\* Without a fresh action the hook leaves a request pending.
LEMMA HookKeepsPending ==
    ASSUME TypeOK, NEW s, WellFormed(s), s.pending, ~mlFresh, NEW ports, NEW rate
    PROVE  ApplyMlActionHook(s, ports, rate).pending
BY DEF ApplyMlActionHook, WellFormed

\* No core sample at or above the high threshold is dropped.
THEOREM SamplesAreAnswered == Spec => CongestionAnswered
<1>1. ASSUME IInv, [Next]_vars
      PROVE  CoreSampleStep /\ mbps' >= thr.congest_high_mbps => reroute' \/ pending'
  <2> SUFFICES ASSUME CoreSampleStep, mbps' >= thr.congest_high_mbps
               PROVE  reroute' \/ pending'
    OBVIOUS
  <2>1. PICK rate \in [PortsOf(CoreSwitch) -> Rates],
             earlier \in SUBSET (PortsOf(CoreSwitch) \ {CorePort}) :
               CoreStatsReply(rate, earlier)
    BY <1>1, OnlySamplesSample DEF CoreSample
  <2> DEFINE ports1 == UpdatePortCongestion(congested, earlier \cup {CorePort}, rate, thr)
             r == rate[CorePort]
             s == EvaluateCongestion(Current, ports1, r)
             asking == ApplyMlActionHook([Current EXCEPT !.pending = TRUE], ports1, r)
  <2>2. /\ mbps' = r /\ pending' = s.pending /\ reroute' = s.reroute
    BY <2>1 DEF CoreStatsReply, SetReroutePolicy
  <2>3. /\ Current.reroute = reroute /\ Current.thr = thr
        /\ WellFormed(Current) /\ WellFormed([Current EXCEPT !.pending = TRUE])
    BY <1>1, CurrentWellFormed DEF Current, WellFormed
  <2>4. WellFormed(asking)
    BY <1>1, <2>3, HookWellFormed DEF IInv
  <2> HIDE DEF ports1, r, asking
  <2>5. CASE ~reroute /\ dqnEnabled
    <3>1. s = [asking EXCEPT !.reroute = @ \/ ~asking.pending]
      BY <2>2, <2>3, <2>5 DEF EvaluateCongestion, asking
    <3>2. s.pending = asking.pending /\ s.reroute = (asking.reroute \/ ~asking.pending)
      BY <2>4, <3>1 DEF WellFormed
    <3> QED
      BY <2>2, <3>2
  <2>6. CASE ~reroute /\ ~dqnEnabled
    <3>1. s = [Current EXCEPT !.reroute = TRUE]
      BY <2>2, <2>3, <2>6 DEF EvaluateCongestion
    <3> QED
      BY <2>2, <2>3, <3>1 DEF WellFormed
  <2>7. CASE reroute
    <3>1. ~(r <= thr.congest_low_mbps)
      <4>1. thr.congest_low_mbps \in Nat /\ thr.congest_high_mbps \in Nat /\ r \in Nat
        <5>1. CorePort \in PortsOf(CoreSwitch) /\ Rates \subseteq Nat
          BY TopologyAssumption DEF PortsOf
        <5> QED
          BY <1>1, <5>1 DEF IInv, TypeOK, Thresholds, ThresholdKeys, r
      <4> QED
        BY <1>1, <2>2, <4>1 DEF IInv, ThresholdOrder, Ordered
    <3>2. s = Current
      BY <2>3, <2>7, <3>1 DEF EvaluateCongestion
    <3> QED
      BY <2>2, <2>3, <2>7, <3>2
  <2> QED
    BY <1>1, <2>5, <2>6, <2>7 DEF IInv, TypeOK
<1>2. Spec => []IInv
  BY InitInv, NextInv, PTL DEF Spec
<1> QED
  BY <1>1, <1>2, PTL DEF Spec, CongestionAnswered

\* The running controller gives the policy up only on a low core sample that
\* finds an unread action: a pass cannot, because its hook keeps an active policy.
THEOREM ReleaseNeedsLowSample == Spec => ReleaseOnlyOnLowSample
<1>1. ASSUME IInv, [Next]_vars
      PROVE  dqnEnabled /\ reroute /\ ~reroute' =>
                Restart \/ ( /\ CoreSampleStep /\ mbps' <= thr.congest_low_mbps
                             /\ mlFresh /\ ~mlFresh' )
  <2> SUFFICES ASSUME dqnEnabled, reroute, ~reroute', ~Restart
               PROVE  /\ CoreSampleStep /\ mbps' <= thr.congest_low_mbps
                      /\ mlFresh /\ ~mlFresh'
    OBVIOUS
  <2>0. TypeOK /\ WellFormed(Current) /\ Current.reroute
    BY <1>1, CurrentWellFormed DEF IInv, Current
  <2>1. CASE Monitor
    <3> DEFINE s1 == ApplyMlActionHook(Current, congested, mbps)
               s2 == [s1 EXCEPT !.thr = TimetableThresholds(@)]
               s3 == CheckDqnDecisionTimeout(s2, age + 1)
    <3>1. s1.reroute /\ WellFormed(s1)
      BY <2>0, HookKeepsReroute, HookWellFormed
    <3>2. reroute' = s3.reroute
      BY <2>1 DEF Monitor, SetReroutePolicy
    <3> HIDE DEF s1
    <3>3. s2.reroute /\ s2 \in [thr : {s2.thr}, reroute : BOOLEAN, pending : BOOLEAN]
      BY <3>1 DEF WellFormed
    <3> HIDE DEF s2
    <3>4. s3.reroute
      BY <3>3 DEF CheckDqnDecisionTimeout
    <3> QED
      BY <3>2, <3>4
  <2>2. CASE CoreSample
    <3>1. PICK rate \in [PortsOf(CoreSwitch) -> Rates],
               earlier \in SUBSET (PortsOf(CoreSwitch) \ {CorePort}) :
                 CoreStatsReply(rate, earlier)
      BY <2>2 DEF CoreSample
    <3> DEFINE ports1 == UpdatePortCongestion(congested, earlier \cup {CorePort}, rate, thr)
               r == rate[CorePort]
               s == EvaluateCongestion(Current, ports1, r)
               asked1 == [Current EXCEPT !.pending = TRUE]
               asking == ApplyMlActionHook(asked1, ports1, r)
    <3>2. /\ mbps' = r /\ reroute' = s.reroute /\ CoreSampleStep
          /\ mlFresh' = (mlFresh /\ ~(mlFresh /\ HookRuns(Current, r)))
      BY <2>0, <3>1 DEF CoreStatsReply, SetReroutePolicy, CoreSampleStep, TypeOK
    <3>3. WellFormed(asked1) /\ asked1.pending /\ asked1.reroute
      BY <2>0 DEF WellFormed
    <3>4. asking.reroute /\ WellFormed(asking)
      BY <2>0, <3>3, HookKeepsReroute, HookWellFormed
    <3>5. ~mlFresh => asking.pending
      BY <2>0, <3>3, HookKeepsPending
    <3> HIDE DEF ports1, r, asked1
    <3>6. r <= thr.congest_low_mbps /\ s = [asking EXCEPT !.reroute = @ /\ asking.pending]
      <4>1. Current.thr = thr
        BY DEF Current
      <4>2. CASE r <= thr.congest_low_mbps
        BY <2>0, <4>1, <4>2 DEF EvaluateCongestion, asked1
      <4>3. CASE ~(r <= thr.congest_low_mbps)
        <5>1. s = Current
          BY <2>0, <4>1, <4>3 DEF EvaluateCongestion
        <5> QED
          BY <2>0, <3>2, <5>1
      <4> QED
        BY <4>2, <4>3
    <3> HIDE DEF asking
    <3>7. mlFresh
      BY <3>2, <3>4, <3>5, <3>6 DEF WellFormed
    <3>8. HookRuns(Current, r)
      BY <2>0, <3>6 DEF HookRuns, Current
    <3> QED
      BY <3>2, <3>6, <3>7, <3>8
  <2>3. CASE \/ \E s \in Switches : FirstStatsReply(s) \/ Connect(s)
             \/ \E s \in Switches : Disconnect(s) \/ FlowsIdleOut(s)
             \/ PacketInFastPath
    BY <2>3 DEF FirstStatsReply, Connect, Disconnect, FlowsIdleOut, PacketInFastPath,
                policyVars
  <2>4. CASE \E s \in Switches : \E rate \in [PortsOf(s) -> Rates] : EdgeStatsReply(s, rate)
    BY <2>4 DEF EdgeStatsReply, policyVars
  <2>5. CASE SomeAgentWrite \/ ManualRemove
    BY <2>5 DEF SomeAgentWrite, AgentWrite, ManualRemove, policyVars
  <2>6. CASE \/ \E m \in ManualSettings : ManualWrite(m)
             \/ \E m \in Modes : TimetableWrite(m)
    BY <2>6 DEF ManualWrite, TimetableWrite, policyVars
  <2>7. CASE UNCHANGED vars
    BY <2>7 DEF vars, policyVars
  <2> QED
    BY <1>1, <2>1, <2>2, <2>3, <2>4, <2>5, <2>6, <2>7 DEF Next
<1>2. Spec => []IInv
  BY InitInv, NextInv, PTL DEF Spec
<1> QED
  BY <1>1, <1>2, PTL DEF Spec, ReleaseOnlyOnLowSample

\* What a request closed in a pass leaves: the timeout falls back to the policy
\* when there is congestion, and so does the override of the agent's answer.
LEMMA PassAnswersCongestion ==
    ASSUME IInv, Monitor, pending, ~pending', ~reroute'
    PROVE  /\ congested = {}
           /\ \/ thr' # thr
              \/ mlFresh /\ ttFresh
              \/ mbps < thr.congest_high_mbps
<1> DEFINE m == IF manualFile = NoFile
                THEN [Current EXCEPT !.thr = ApplySettings(@, mlFile.set)] ELSE Current
           s1 == ApplyMlActionHook(Current, congested, mbps)
           s2 == [s1 EXCEPT !.thr = TimetableThresholds(@)]
           s3 == CheckDqnDecisionTimeout(s2, age + 1)
<1>1. thr' = s3.thr /\ ~s3.pending /\ ~s3.reroute
  BY DEF Monitor, SetReroutePolicy
<1>2. mbps \in Nat /\ thr.congest_high_mbps \in Nat /\ TypeOK
  BY DEF IInv, TypeOK, Thresholds, ThresholdKeys
<1>3. WellFormed(Current) /\ WellFormed(s1) /\ Current.pending /\ Current.thr = thr
  BY CurrentWellFormed, HookWellFormed DEF Current, IInv
<1>4. /\ s2.pending = s1.pending /\ s2.reroute = s1.reroute
      /\ s2.thr = TimetableThresholds(s1.thr)
  <2> HIDE DEF s1
  <2> QED
    BY <1>3 DEF WellFormed
<1>5. CASE s1.pending
  <2> HIDE DEF s1
  <2>1. s2 \in [thr : {s2.thr}, reroute : BOOLEAN, pending : BOOLEAN]
    BY <1>3 DEF WellFormed
  <2> HIDE DEF s2
  <2>2. s3.thr = s2.thr /\ ~IsCongested(s2, congested, mbps)
    BY <1>1, <1>4, <1>5, <2>1 DEF CheckDqnDecisionTimeout
  <2>3. congested = {} /\ ~(mbps >= s2.thr.congest_high_mbps) /\ thr' = s2.thr
    BY <1>1, <2>2 DEF IsCongested
  <2> QED
    BY <1>2, <2>3
<1>6. CASE ~s1.pending
  <2>1. mlFresh
    BY <1>2, <1>3, <1>6, HookKeepsPending
  <2> DEFINE c == ConsumeMlAction(Current, mlFile, congested, mbps)
  <2>2. WellFormed(c)
    BY <1>2, <1>3, <2>1, ConsumeWellFormed DEF TypeOK
  <2>3. s1 = [c EXCEPT !.thr = ApplyManual(@)]
    BY <2>1 DEF ApplyMlActionHook
  <2> HIDE DEF c
  <2>4. s1.pending = c.pending /\ s1.reroute = c.reroute /\ s1.thr = ApplyManual(c.thr)
    BY <2>2, <2>3 DEF WellFormed
  <2>5. m.pending /\ m \in [thr : {m.thr}, reroute : BOOLEAN, pending : BOOLEAN]
    BY <1>3 DEF WellFormed
  <2>6. m.thr = thr \/ manualFile = NoFile
    BY <1>3
  <2>7. c = ApplyDqnRoutingDecision(m, mlFile, congested, mbps)
    <3> HIDE DEF m
    <3>1. CASE dqnEnabled
      BY <2>5, <3>1 DEF c, ConsumeMlAction, m
    <3>2. CASE ~dqnEnabled
      <4>1. c = [m EXCEPT !.reroute = ForcedReroute(m, mlFile)]
        BY <3>2 DEF c, ConsumeMlAction, m
      <4> QED
        BY <1>6, <2>4, <2>5, <4>1
    <3> QED
      BY <3>1, <3>2
  <2> HIDE DEF m, s1
  <2>8. c.thr = m.thr /\ (IsCongested(m, congested, mbps) => c.reroute)
    BY <2>5, <2>7 DEF ApplyDqnRoutingDecision, ResolveDqnRoutingChoice
  <2>9. s3 = s2
    BY <1>4, <1>6 DEF CheckDqnDecisionTimeout
  <2>10. ~IsCongested(m, congested, mbps)
    BY <1>1, <1>4, <2>4, <2>8, <2>9
  <2>11. ttFresh \/ thr' = ApplyManual(m.thr)
    BY <1>1, <1>4, <2>4, <2>8, <2>9 DEF TimetableThresholds
  <2>12. ttFresh \/ m.thr = thr \/ thr' = m.thr
    BY <2>6, <2>11 DEF ApplyManual
  <2>13. congested = {} /\ ~(mbps >= m.thr.congest_high_mbps)
    BY <2>10 DEF IsCongested
  <2> QED
    BY <1>2, <2>1, <2>12, <2>13
<1> QED
  BY <1>5, <1>6

\* No pass of the monitor closes a request and leaves congestion unanswered.
THEOREM GiveUpNeedsCalm == Spec => NoCongestedGiveUp
<1>1. ASSUME IInv, [Next]_vars
      PROVE  pending /\ ~pending' /\ ~reroute' /\ ~CoreSampleStep =>
                Restart \/ ( /\ congested = {}
                             /\ \/ thr' # thr
                                \/ mlFresh /\ ttFresh
                                \/ mbps < thr.congest_high_mbps )
  <2> SUFFICES ASSUME pending, ~pending', ~reroute', ~CoreSampleStep, ~Restart
               PROVE  Monitor
    BY <1>1, PassAnswersCongestion
  <2>1. CASE CoreSample
    BY <1>1, <2>1 DEF CoreSample, CoreStatsReply, CoreSampleStep, IInv, TypeOK
  <2>2. CASE \/ \E s \in Switches : FirstStatsReply(s) \/ Connect(s)
             \/ \E s \in Switches : Disconnect(s) \/ FlowsIdleOut(s)
             \/ PacketInFastPath
    BY <2>2 DEF FirstStatsReply, Connect, Disconnect, FlowsIdleOut, PacketInFastPath,
                policyVars
  <2>3. CASE \E s \in Switches : \E rate \in [PortsOf(s) -> Rates] : EdgeStatsReply(s, rate)
    BY <2>3 DEF EdgeStatsReply, policyVars
  <2>4. CASE SomeAgentWrite \/ ManualRemove
    BY <2>4 DEF SomeAgentWrite, AgentWrite, ManualRemove, policyVars
  <2>5. CASE \/ \E w \in ManualSettings : ManualWrite(w)
             \/ \E w \in Modes : TimetableWrite(w)
    BY <2>5 DEF ManualWrite, TimetableWrite, policyVars
  <2>6. CASE UNCHANGED vars
    BY <2>6 DEF vars, policyVars
  <2> QED
    BY <1>1, <2>1, <2>2, <2>3, <2>4, <2>5, <2>6 DEF Next
<1>2. Spec => []IInv
  BY InitInv, NextInv, PTL DEF Spec
<1> QED
  BY <1>1, <1>2, PTL DEF Spec, NoCongestedGiveUp

-----------------------------------------------------------------------------
(* Orphans: the switches NoOrphanPolicy finds.  What is true of them *)

\* A connected switch that throttles and reroutes although the policy is inactive.
Orphan(s) == ~reroute /\ s \in flows \cap datapaths

\* Deactivation reaches every connected switch, and nothing installs policy flows
\* while the policy is inactive: a switch is an orphan only because it comes back
\* with the flows it kept while it, or the controller, was away
\* (_set_reroute_policy, state_change_handler).
OrphansComeBack ==
    [][\A s \in Switches : Orphan(s)' => Orphan(s) \/ (s \notin datapaths /\ s \in flows)]_vars

\* A handler that passes the policy on to SetReroutePolicy makes no orphan.
LEMMA PolicyMakesNoOrphan ==
    ASSUME IInv, NEW r, SetReroutePolicy(r), datapaths' = datapaths,
           NEW s \in Switches, Orphan(s)'
    PROVE  Orphan(s)
<1>1. CASE reroute
  <2>1. flows' = flows \ datapaths
    BY <1>1 DEF SetReroutePolicy, Orphan
  <2> QED
    BY <2>1 DEF Orphan
<1>2. CASE ~reroute
  <2>1. flows' = flows
    BY <1>2 DEF SetReroutePolicy, Orphan
  <2> QED
    BY <1>2, <2>1 DEF Orphan
<1> QED
  BY <1>1, <1>2

\* A switch is an orphan only since it connected, with flows of an earlier policy.
THEOREM OrphansReturn == Spec => OrphansComeBack
<1>1. ASSUME IInv, [Next]_vars
      PROVE  \A s \in Switches : Orphan(s)' => Orphan(s) \/ (s \notin datapaths /\ s \in flows)
  <2> SUFFICES ASSUME NEW s \in Switches, Orphan(s)'
               PROVE  Orphan(s) \/ (s \notin datapaths /\ s \in flows)
    OBVIOUS
  <2>1. CASE Monitor
    BY <1>1, <2>1, PolicyMakesNoOrphan DEF Monitor
  <2>2. CASE CoreSample
    BY <1>1, <2>2, PolicyMakesNoOrphan DEF CoreSample, CoreStatsReply
  <2>3. CASE PacketInFastPath \/ Restart
    BY <1>1, <2>3 DEF PacketInFastPath, Restart, Orphan, policyVars
  <2>4. CASE \E d \in Switches : Connect(d) \/ Disconnect(d) \/ FlowsIdleOut(d)
    BY <1>1, <2>4 DEF Connect, Disconnect, FlowsIdleOut, Orphan, policyVars
  <2>5. CASE \/ \E d \in Switches : FirstStatsReply(d)
             \/ \E d \in Switches : \E rate \in [PortsOf(d) -> Rates] : EdgeStatsReply(d, rate)
    BY <1>1, <2>5 DEF FirstStatsReply, EdgeStatsReply, Orphan, policyVars
  <2>6. CASE SomeAgentWrite \/ ManualRemove
    BY <1>1, <2>6 DEF SomeAgentWrite, AgentWrite, ManualRemove, Orphan, policyVars, switchVars
  <2>7. CASE \/ \E m \in ManualSettings : ManualWrite(m)
             \/ \E m \in Modes : TimetableWrite(m)
    BY <1>1, <2>7 DEF ManualWrite, TimetableWrite, Orphan, policyVars, switchVars
  <2>8. CASE UNCHANGED vars
    BY <1>1, <2>8 DEF vars, Orphan, policyVars, switchVars
  <2> QED
    BY <1>1, <2>1, <2>2, <2>3, <2>4, <2>5, <2>6, <2>7, <2>8 DEF Next
<1>2. Spec => []IInv
  BY InitInv, NextInv, PTL DEF Spec
<1> QED
  BY <1>1, <1>2, PTL DEF Spec, OrphansComeBack

-----------------------------------------------------------------------------
(* Manual settings: the part of ManualSettingsPrevail that is not liveness *)

\* The thresholds already say what the settings do.
Governs(m) == thr = ApplySettings(thr, m)

\* While manual settings stay in place and the timetable has written nothing new, a
\* monitor pass makes them govern, and once they do no action file, sample or pass
\* moves the thresholds away from them (_apply_ml_action_hook).
ManualSettingsHold ==
    [][\A m \in ManualSettings :
          manualFile = m /\ manualFile' = m /\ ~ttFresh /\ ~Restart
            => (Monitor \/ Governs(m) => Governs(m)')]_vars

\* A correction leaves the highs alone, and a low that is below its high.
LEMMA CorrectedFields ==
    ASSUME NEW t \in Thresholds
    PROVE  /\ Corrected(t) = [k \in ThresholdKeys |-> Corrected(t)[k]]
           /\ Corrected(t).congest_high_mbps = t.congest_high_mbps
           /\ Corrected(t).port_congest_high_pct = t.port_congest_high_pct
           /\ Corrected(t).congest_low_mbps
                = IF t.congest_low_mbps >= t.congest_high_mbps
                  THEN (t.congest_high_mbps * 7) \div 10 ELSE t.congest_low_mbps
           /\ Corrected(t).port_congest_low_pct
                = IF t.port_congest_low_pct >= t.port_congest_high_pct
                  THEN (t.port_congest_high_pct * 8) \div 10 ELSE t.port_congest_low_pct
BY DEF Corrected, Thresholds, ThresholdKeys

\* Applying settings twice is applying them once: a key they set keeps its value,
\* and a low that was corrected below its high needs no correction again.
LEMMA SettingsAppliedTwice ==
    ASSUME NEW t \in Thresholds, Ordered(t), NEW p, IsSettings(p)
    PROVE  ApplySettings(ApplySettings(t, p), p) = ApplySettings(t, p)
<1> DEFINE Merged(u) == [k \in ThresholdKeys |-> IF k \in DOMAIN p THEN p[k] ELSE u[k]]
           once == ApplySettings(t, p)
           again == Merged(once)
<1>1. /\ once \in Thresholds /\ Ordered(once)
      /\ once = Corrected(Merged(t)) /\ ApplySettings(once, p) = Corrected(again)
  BY ApplySettingsOrdered DEF ApplySettings
<1>2. Merged(t) \in Thresholds /\ again \in Thresholds
  BY <1>1 DEF Thresholds, IsSettings
<1>3. /\ again.congest_high_mbps = once.congest_high_mbps
      /\ again.port_congest_high_pct = once.port_congest_high_pct
      /\ once.congest_high_mbps = Merged(t).congest_high_mbps
      /\ once.port_congest_high_pct = Merged(t).port_congest_high_pct
  BY <1>1, <1>2, CorrectedFields DEF ThresholdKeys
<1>4. /\ once.congest_low_mbps < once.congest_high_mbps
      /\ once.port_congest_low_pct < once.port_congest_high_pct
      /\ \A k \in ThresholdKeys : once[k] \in Nat
  BY <1>1 DEF Ordered, Thresholds
<1>5. \/ again.congest_low_mbps = Merged(t).congest_low_mbps
      \/ again.congest_low_mbps = once.congest_low_mbps
  BY DEF ThresholdKeys
<1>6. \/ again.port_congest_low_pct = Merged(t).port_congest_low_pct
      \/ again.port_congest_low_pct = once.port_congest_low_pct
  BY DEF ThresholdKeys
<1> DEFINE merged == Merged(t)
<1>7. merged \in Thresholds /\ merged = Merged(t)
  BY <1>2
<1> HIDE DEF merged, again, once
<1>8. Corrected(again).congest_low_mbps = once.congest_low_mbps
  <2>1. CASE again.congest_low_mbps = merged.congest_low_mbps
    BY <1>1, <1>2, <1>3, <1>7, <2>1, CorrectedFields
  <2>2. CASE again.congest_low_mbps = once.congest_low_mbps
    BY <1>4, <1>2, <1>3, <2>2, CorrectedFields DEF ThresholdKeys
  <2> QED
    BY <1>5, <1>7, <2>1, <2>2
<1>9. Corrected(again).port_congest_low_pct = once.port_congest_low_pct
  <2>1. CASE again.port_congest_low_pct = merged.port_congest_low_pct
    BY <1>1, <1>2, <1>3, <1>7, <2>1, CorrectedFields
  <2>2. CASE again.port_congest_low_pct = once.port_congest_low_pct
    BY <1>4, <1>2, <1>3, <2>2, CorrectedFields DEF ThresholdKeys
  <2> QED
    BY <1>6, <1>7, <2>1, <2>2
<1>10. \A k \in ThresholdKeys : Corrected(again)[k] = once[k]
  BY <1>2, <1>3, <1>8, <1>9, CorrectedFields DEF ThresholdKeys
<1>11. Corrected(again) = once
  BY <1>1, <1>2, <1>10, CorrectedFields DEF Thresholds
<1> QED
  BY <1>1, <1>11 DEF once

\* With manual settings in place the action hook applies them and nothing else.
LEMMA HookAppliesManual ==
    ASSUME NEW m \in ManualSettings, manualFile = m,
           NEW s, WellFormed(s), NEW ports, NEW rate
    PROVE  ApplyMlActionHook(s, ports, rate).thr = ApplySettings(s.thr, m)
<1> DEFINE s1 == IF mlFresh THEN ConsumeMlAction(s, mlFile, ports, rate) ELSE s
<1>1. manualFile # NoFile
  BY InputAssumption
<1>2. s1.thr = s.thr /\ s1 \in [thr : {s.thr}, reroute : {s1.reroute}, pending : {s1.pending}]
  BY <1>1 DEF ConsumeMlAction, ApplyDqnRoutingDecision, WellFormed
<1>3. ApplyMlActionHook(s, ports, rate) = [s1 EXCEPT !.thr = ApplyManual(@)]
  BY DEF ApplyMlActionHook
<1> HIDE DEF s1
<1>4. ApplyMlActionHook(s, ports, rate).thr = ApplyManual(s1.thr)
  BY <1>2, <1>3
<1> QED
  BY <1>1, <1>2, <1>4 DEF ApplyManual

\* A sample or a pass that the hook runs in leaves governing settings in force.
LEMMA EvaluationKeepsManual ==
    ASSUME TypeOK, NEW m \in ManualSettings, manualFile = m, Governs(m),
           WellFormed(Current), NEW ports, NEW rate
    PROVE  EvaluateCongestion(Current, ports, rate).thr = thr
<1> DEFINE waiting == [Current EXCEPT !.pending = TRUE]
           asking == ApplyMlActionHook(waiting, ports, rate)
<1>1. WellFormed(waiting) /\ waiting.thr = thr /\ Current.thr = thr
  BY DEF WellFormed, Current
<1> HIDE DEF waiting
<1>2. asking.thr = ApplySettings(waiting.thr, m) /\ WellFormed(asking)
  BY <1>1, HookAppliesManual, HookWellFormed
<1> HIDE DEF asking
<1>3. asking.thr = thr
  BY <1>1, <1>2 DEF Governs
<1>4. /\ [Current EXCEPT !.reroute = TRUE].thr = thr
      /\ [Current EXCEPT !.reroute = FALSE].thr = thr
      /\ [asking EXCEPT !.reroute = @ \/ ~asking.pending].thr = thr
      /\ [asking EXCEPT !.reroute = @ /\ asking.pending].thr = thr
  BY <1>2, <1>3 DEF Current, WellFormed
<1> QED
  BY <1>1, <1>3, <1>4 DEF EvaluateCongestion, asking, waiting

\* Manual settings, once taken up, prevail over the agent and stay in force.
THEOREM ManualSettingsGovern == Spec => ManualSettingsHold
<1> DEFINE Holds == \A m \in ManualSettings :
                       manualFile = m /\ manualFile' = m /\ ~ttFresh /\ ~Restart
                         => (Monitor \/ Governs(m) => Governs(m)')
<1>1. IInv /\ [Next]_vars => [Holds]_vars
  <2> SUFFICES ASSUME IInv, Next, NEW m \in ManualSettings, manualFile = m,
                      manualFile' = m, ~ttFresh, ~Restart, Monitor \/ Governs(m)
               PROVE  Governs(m)'
    BY DEF vars
  <2>0. WellFormed(Current) /\ Current.thr = thr /\ IsSettings(m)
    BY CurrentWellFormed, InputAssumption DEF Current
  <2>1. CASE Monitor
    <3> DEFINE s1 == ApplyMlActionHook(Current, congested, mbps)
               s2 == [s1 EXCEPT !.thr = TimetableThresholds(@)]
    <3>1. WellFormed(s1) /\ s1.thr = ApplySettings(thr, m)
      BY <2>0, HookWellFormed, HookAppliesManual DEF IInv
    <3> HIDE DEF s1
    <3>2. s2 = s1
      BY <3>1 DEF TimetableThresholds, WellFormed
    <3>3. CheckDqnDecisionTimeout(s2, age + 1).thr = s1.thr
      BY <3>1, <3>2 DEF CheckDqnDecisionTimeout, WellFormed
    <3>4. thr' = ApplySettings(thr, m)
      BY <2>1, <3>1, <3>3 DEF Monitor, s1
    <3>5. thr \in Thresholds /\ Ordered(thr)
      BY DEF IInv, TypeOK, ThresholdOrder
    <3> QED
      BY <2>0, <3>4, <3>5, SettingsAppliedTwice DEF Governs
  <2>2. CASE CoreSample /\ Governs(m)
    <3>1. thr' = thr
      BY <2>0, <2>2, EvaluationKeepsManual DEF IInv, CoreSample, CoreStatsReply
    <3> QED
      BY <2>2, <3>1 DEF Governs
  <2>3. CASE Governs(m) /\ thr' = thr
    BY <2>3 DEF Governs
  <2>4. ASSUME ~Monitor, ~CoreSample PROVE thr' = thr
    BY <2>4 DEF Next, FirstStatsReply, EdgeStatsReply, Connect, Disconnect,
           PacketInFastPath, FlowsIdleOut, SomeAgentWrite, AgentWrite, ManualWrite,
           ManualRemove, TimetableWrite, policyVars
  <2> QED
    BY <2>1, <2>2, <2>3, <2>4
<1>2. Spec => []IInv
  BY InitInv, NextInv, PTL DEF Spec
<1> QED
  BY <1>1, <1>2, PTL DEF Spec, ManualSettingsHold

=============================================================================
