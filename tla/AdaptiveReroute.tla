-------------------------- MODULE AdaptiveReroute --------------------------
(***************************************************************************)
(* The adaptive reroute loop of examples/campus_controller.py: port        *)
(* statistics drive two hysteresis detectors, a congested core link asks   *)
(* an external DQN agent for a routing decision, and the decision (or its  *)
(* timeout) installs or removes the policy flows of the switches.          *)
(*                                                                         *)
(* Ryu runs the handlers and the monitor greenlet cooperatively, so every  *)
(* handler, and every pass of the monitor loop, is one action.  The agent, *)
(* the dashboard and the timetable engine are other processes: they talk   *)
(* to the controller through files, which they replace atomically, and     *)
(* the controller compares the modification time with the last one it saw  *)
(* (here: a "fresh" flag).                                                 *)
(***************************************************************************)
EXTENDS Integers

CONSTANTS
    Switches,           \* the datapath identifiers
    CoreSwitch,         \* CORE_DPID
    ItSwitch,           \* IT_DPID, where packet-ins install the fast path
    PolicySwitches,     \* the switches _install_policy_flows knows
    IdleSwitches,       \* switches whose policy flows may see no traffic
    Ports,              \* the monitored (dpid, port) keys
    CorePort,           \* (CORE_DPID, CORE_TO_PRIMARY_PORT)
    SwitchOf,           \* the switch of a port
    Capacity,           \* PORT_CAPACITY_MBPS, 0 for an unlisted port
    Rates,              \* the rates, in Mbps, that a sample may show
    MlActions,          \* what an ML process may write into its action file
    ManualSettings,     \* what the dashboard may write as manual settings
    Modes,              \* the timetable modes an engine may write
    Effects,            \* _TIMETABLE_EFFECTS, which has an entry "normal"
    InitThr,            \* the thresholds read from the environment
    DqnSettings,        \* what CAMPUS_DQN_INTEGRATION_ENABLED may be at a start
    DecisionTimeout,    \* CAMPUS_DQN_DECISION_TIMEOUT_S, in monitor passes
    NoFile              \* the content of a file that does not exist

ThresholdKeys == {"congest_high_mbps", "congest_low_mbps",
                  "port_congest_high_pct", "port_congest_low_pct"}

HighKeys == {"congest_high_mbps", "port_congest_high_pct"}

Thresholds == [ThresholdKeys -> Nat]

\* A settings payload: any of the four keys, the high ones positive.
IsSettings(p) ==
    /\ DOMAIN p \subseteq ThresholdKeys
    /\ \A k \in DOMAIN p : p[k] \in Nat /\ (k \in HighKeys => p[k] > 0)

Ordered(t) ==
    /\ t.congest_low_mbps < t.congest_high_mbps
    /\ t.port_congest_low_pct < t.port_congest_high_pct

ASSUME TopologyAssumption ==
    /\ CoreSwitch \in Switches
    /\ ItSwitch \in PolicySwitches
    /\ PolicySwitches \subseteq Switches
    /\ IdleSwitches \subseteq PolicySwitches
    /\ SwitchOf \in [Ports -> Switches]
    /\ CorePort \in Ports /\ SwitchOf[CorePort] = CoreSwitch
    /\ Capacity \in [Ports -> Nat]
    /\ Rates \subseteq Nat

ASSUME InputAssumption ==
    /\ \A a \in MlActions :
          /\ a.routing_choice \in {"backup", "primary", "load_balance", "absent"}
          /\ a.action_name \in {"backup", "primary", "tighten", "other"}
          /\ a.force_reroute \in {"yes", "no", "absent"}
          /\ IsSettings(a.set)
    /\ \A m \in ManualSettings : IsSettings(m) /\ DOMAIN m # {}
    /\ NoFile \notin MlActions /\ NoFile \notin ManualSettings /\ NoFile \notin Modes

ASSUME ThresholdAssumption ==
    /\ InitThr \in Thresholds /\ Ordered(InitThr)
    /\ "normal" \in DOMAIN Effects
    /\ \A m \in DOMAIN Effects :
          Effects[m].low \in Nat /\ Effects[m].high \in Nat
          /\ Effects[m].low < Effects[m].high

ASSUME ControlAssumption ==
    DqnSettings \subseteq BOOLEAN /\ DecisionTimeout \in Nat \ {0}

VARIABLES
    datapaths,      \* the connected switches
    asked,          \* connected switches owing a port-stats reply
    sampled,        \* switches with an earlier sample in port_samples
    mbps,           \* last_core_primary_mbps
    congested,      \* congested_ports
    throughput,     \* throughput_congested
    thr,            \* the four thresholds
    reroute,        \* reroute_active
    pending,        \* dqn_pending_decision
    age,            \* monitor passes since dqn_last_trigger_ts, while pending
    lastChoice,     \* last_ml_routing_choice
    mode,           \* timetable_mode
    dqnEnabled,     \* dqn_integration_enabled
    flows,          \* switches whose tables hold policy flows
    mlFile, mlFresh,    \* the action file; newer than _ml_action_mtime?
    manualFile,         \* the manual settings file, read on every hook
    ttFile, ttFresh     \* the timetable state file; newer than last seen?

switchVars == <<datapaths, asked, sampled, flows>>
sampleVars == <<mbps, congested, throughput>>
policyVars == <<thr, reroute, pending, age, lastChoice, mode, dqnEnabled>>
fileVars == <<mlFile, mlFresh, manualFile, ttFile, ttFresh>>
vars == <<switchVars, sampleVars, policyVars, fileVars>>

PortsOf(s) == {p \in Ports : SwitchOf[p] = s}

Init ==
    /\ datapaths = {} /\ asked = {} /\ sampled = {} /\ flows = {}
    /\ mbps = 0 /\ congested = {} /\ throughput = FALSE
    /\ thr = InitThr
    /\ reroute = FALSE /\ pending = FALSE /\ age = 0
    /\ lastChoice = "absent" /\ mode = "normal" /\ dqnEnabled \in DqnSettings
    /\ mlFile = NoFile /\ mlFresh = FALSE /\ manualFile = NoFile
    /\ ttFile = NoFile /\ ttFresh = FALSE

-----------------------------------------------------------------------------
(* Thresholds *)

\* Mutant of Corrected: the core pair is not corrected.
CorrectedPortsOnly(t) ==
    [t EXCEPT
        !.port_congest_low_pct =
            IF @ >= t.port_congest_high_pct
            THEN (t.port_congest_high_pct * 8) \div 10 ELSE @]

\* Lows that reach their highs are pulled down, core by 0.7 and ports by 0.8.
Corrected(t) ==
    [t EXCEPT
        !.congest_low_mbps =
            IF @ >= t.congest_high_mbps
            THEN (t.congest_high_mbps * 7) \div 10 ELSE @,
        !.port_congest_low_pct =
            IF @ >= t.port_congest_high_pct
            THEN (t.port_congest_high_pct * 8) \div 10 ELSE @]

ApplySettings(t, p) ==
    Corrected([k \in ThresholdKeys |-> IF k \in DOMAIN p THEN p[k] ELSE t[k]])

ApplyManual(t) ==
    IF manualFile = NoFile THEN t ELSE ApplySettings(t, manualFile)

\* A mode the table does not list takes the thresholds of "normal".
EffectsOf(m) == IF m \in DOMAIN Effects THEN Effects[m] ELSE Effects["normal"]

\* The timetable moves the core thresholds only when the mode changes.
TimetableThresholds(t) ==
    IF ttFresh /\ ttFile # mode
    THEN [t EXCEPT !.congest_high_mbps = EffectsOf(ttFile).high,
                   !.congest_low_mbps = EffectsOf(ttFile).low]
    ELSE t

-----------------------------------------------------------------------------
(* Decisions.  "s" is the part of the controller that the steps of one     *)
(* handler pass on: [thr, reroute, pending].                               *)

Current == [thr |-> thr, reroute |-> reroute, pending |-> pending]

IsCongested(s, ports, rate) ==
    \/ rate >= s.thr.congest_high_mbps
    \/ ports # {}
    \/ s.reroute

\* Mutant of ResolveDqnRoutingChoice: no safety override.
ResolveWithoutOverride(s, a, ports, rate) ==
    CASE a.routing_choice = "backup" -> TRUE
      [] a.routing_choice = "primary" -> FALSE
      [] OTHER -> s.reroute

\* What the action asks for: the routing choice first, then the action name,
\* else the current state; congestion overrides a "no".
ResolveDqnRoutingChoice(s, a, ports, rate) ==
    LET byName == CASE a.action_name = "backup" -> TRUE
                    [] a.action_name = "primary" -> FALSE
                    [] a.action_name = "tighten" -> IsCongested(s, ports, rate)
                    [] OTHER -> s.reroute
        decision == CASE a.routing_choice = "backup" -> TRUE
                      [] a.routing_choice = "primary" -> FALSE
                      [] OTHER -> byName
    IN  decision \/ IsCongested(s, ports, rate)

ApplyDqnRoutingDecision(s, a, ports, rate) ==
    [s EXCEPT !.pending = FALSE,
              !.reroute = ResolveDqnRoutingChoice(s, a, ports, rate)]

ChoiceAfter(a) ==
    IF a.routing_choice = "absent" THEN lastChoice ELSE a.routing_choice

\* Without the DQN integration the file forces the policy directly.
ForcedReroute(s, a) ==
    CASE a.force_reroute = "yes" -> TRUE
      [] a.force_reroute = "no" -> FALSE
      [] ChoiceAfter(a) = "backup" -> TRUE
      [] ChoiceAfter(a) = "primary" -> FALSE
      [] OTHER -> s.reroute

\* A fresh action file, consumed: its thresholds unless manual ones exist,
\* then its routing decision.
ConsumeMlAction(s, a, ports, rate) ==
    LET s1 == IF manualFile = NoFile
              THEN [s EXCEPT !.thr = ApplySettings(@, a.set)] ELSE s
    IN  CASE ~dqnEnabled -> [s1 EXCEPT !.reroute = ForcedReroute(s1, a)]
          [] dqnEnabled /\ (s1.pending \/ IsCongested(s1, ports, rate)) ->
                ApplyDqnRoutingDecision(s1, a, ports, rate)
          [] OTHER -> s1

\* Mutant of ApplyMlActionHook: the early return on a stale action file forgets
\* the manual settings.
MlActionHookForgetsManual(s, ports, rate) ==
    LET s1 == ConsumeMlAction(s, mlFile, ports, rate)
    IN  IF mlFresh THEN [s1 EXCEPT !.thr = ApplyManual(@)] ELSE s

ApplyMlActionHook(s, ports, rate) ==
    LET s1 == IF mlFresh THEN ConsumeMlAction(s, mlFile, ports, rate) ELSE s
    IN  [s1 EXCEPT !.thr = ApplyManual(@)]

\* Mutants of CheckDqnDecisionTimeout: one pass too late; without the fallback.
DqnDecisionTimeoutLate(s, waited) ==
    IF s.pending /\ waited > DecisionTimeout
    THEN [s EXCEPT !.pending = FALSE,
                   !.reroute = @ \/ IsCongested(s, congested, mbps)]
    ELSE s

DqnDecisionTimeoutNoFallback(s, waited) ==
    IF s.pending /\ waited >= DecisionTimeout
    THEN [s EXCEPT !.pending = FALSE] ELSE s

CheckDqnDecisionTimeout(s, waited) ==
    IF s.pending /\ waited >= DecisionTimeout
    THEN [s EXCEPT !.pending = FALSE,
                   !.reroute = @ \/ IsCongested(s, congested, mbps)]
    ELSE s

\* Mutants of EvaluateCongestion: a request answered with "primary" on the spot
\* is left at that; the release is missing.
EvaluateTrustsAnswer(s, ports, rate) ==
    LET asking == ApplyMlActionHook([s EXCEPT !.pending = TRUE], ports, rate)
    IN  IF ~s.reroute /\ rate >= s.thr.congest_high_mbps THEN asking ELSE s

EvaluateNeverReleases(s, ports, rate) ==
    IF ~s.reroute /\ rate >= s.thr.congest_high_mbps
    THEN [s EXCEPT !.reroute = TRUE] ELSE s

\* Crossing a threshold requests a decision and tries the latest file at once;
\* a request answered on the spot settles the matter as the sample says.
EvaluateCongestion(s, ports, rate) ==
    LET asking == ApplyMlActionHook([s EXCEPT !.pending = TRUE], ports, rate)
    IN  CASE ~s.reroute /\ rate >= s.thr.congest_high_mbps ->
                IF dqnEnabled
                THEN [asking EXCEPT !.reroute = @ \/ ~asking.pending]
                ELSE [s EXCEPT !.reroute = TRUE]
          [] s.reroute /\ rate <= s.thr.congest_low_mbps ->
                IF dqnEnabled
                THEN [asking EXCEPT !.reroute = @ /\ asking.pending]
                ELSE [s EXCEPT !.reroute = FALSE]
          [] OTHER -> s

\* The branches of EvaluateCongestion that read the action file.
HookRuns(s, rate) ==
    /\ dqnEnabled
    /\ \/ ~s.reroute /\ rate >= s.thr.congest_high_mbps
       \/ s.reroute /\ rate <= s.thr.congest_low_mbps

\* The controller's fields after a handler; every handler switches the policy
\* at most once, so its flow changes follow from the old and the new flag.
SetReroutePolicy(s) ==
    /\ reroute' = s.reroute
    /\ flows' = CASE ~reroute /\ s.reroute -> flows \cup (datapaths \cap PolicySwitches)
                  [] reroute /\ ~s.reroute -> flows \ datapaths
                  [] OTHER -> flows

-----------------------------------------------------------------------------
(* Port statistics *)

Utilisation(p, rate) ==
    IF Capacity[p] = 0 THEN 0
    ELSE IF rate >= Capacity[p] THEN 100 ELSE (rate * 100) \div Capacity[p]

\* The hysteresis of _update_port_congestion on the ports ps of one reply.
UpdatePortCongestion(ports, ps, rate, t) ==
    (ports \ {p \in ps \cap ports :
                Utilisation(p, rate[p]) <= t.port_congest_low_pct})
    \cup {p \in ps \ ports : Utilisation(p, rate[p]) >= t.port_congest_high_pct}

UpdateThroughput(rate) ==
    \/ throughput /\ rate > thr.congest_low_mbps
    \/ ~throughput /\ rate >= thr.congest_high_mbps

\* The first reply of a switch only stores the counters.
FirstStatsReply(s) ==
    /\ s \in asked /\ s \notin sampled
    /\ asked' = asked \ {s}
    /\ sampled' = sampled \cup {s}
    /\ UNCHANGED <<datapaths, flows, sampleVars, policyVars, fileVars>>

EdgeStatsReply(s, rate) ==
    /\ s \in asked \cap sampled /\ s # CoreSwitch
    /\ asked' = asked \ {s}
    /\ congested' = UpdatePortCongestion(congested, PortsOf(s), rate, thr)
    /\ UNCHANGED <<datapaths, sampled, flows, mbps, throughput, policyVars, fileVars>>

\* The core's reply lists its ports in no fixed order: those in "earlier" are
\* handled before the uplink, whose sample is evaluated on the spot.
CoreStatsReply(rate, earlier) ==
    LET ports1 == UpdatePortCongestion(congested, earlier \cup {CorePort}, rate, thr)
        s == EvaluateCongestion(Current, ports1, rate[CorePort])
        consumed == mlFresh /\ HookRuns(Current, rate[CorePort])
    IN  /\ CoreSwitch \in asked \cap sampled
        /\ asked' = asked \ {CoreSwitch}
        /\ mbps' = rate[CorePort]
        /\ throughput' = UpdateThroughput(rate[CorePort])
        /\ congested' = UpdatePortCongestion(ports1,
                           PortsOf(CoreSwitch) \ (earlier \cup {CorePort}), rate, s.thr)
        /\ thr' = s.thr
        /\ pending' = s.pending
        /\ age' = IF s.pending /\ pending THEN age ELSE 0
        /\ lastChoice' = IF consumed THEN ChoiceAfter(mlFile) ELSE lastChoice
        /\ mlFresh' = (mlFresh /\ ~consumed)
        /\ SetReroutePolicy(s)
        /\ UNCHANGED <<datapaths, sampled, mode, dqnEnabled, mlFile, manualFile, ttFile, ttFresh>>

-----------------------------------------------------------------------------
(* The monitor greenlet and the other events of the controller *)

\* One pass of _monitor: the ML hook, the timetable hook, the decision timeout,
\* then a port-stats request to every connected switch.
Monitor ==
    LET s1 == ApplyMlActionHook(Current, congested, mbps)
        s2 == [s1 EXCEPT !.thr = TimetableThresholds(@)]
        s3 == CheckDqnDecisionTimeout(s2, age + 1)
    IN  /\ thr' = s3.thr
        /\ pending' = s3.pending
        /\ age' = IF s3.pending THEN age + 1 ELSE 0
        /\ lastChoice' = IF mlFresh THEN ChoiceAfter(mlFile) ELSE lastChoice
        /\ mode' = IF ttFresh THEN ttFile ELSE mode
        /\ SetReroutePolicy(s3)
        /\ asked' = datapaths
        /\ mlFresh' = FALSE /\ ttFresh' = FALSE
        /\ UNCHANGED <<datapaths, sampled, sampleVars, dqnEnabled, mlFile, manualFile, ttFile>>

Connect(s) ==
    /\ s \notin datapaths
    /\ datapaths' = datapaths \cup {s}
    /\ UNCHANGED <<asked, sampled, flows, sampleVars, policyVars, fileVars>>

\* Mutant of Disconnect: the request to the lost switch stays outstanding.
DisconnectKeepsRequest(s) ==
    /\ s \in datapaths
    /\ datapaths' = datapaths \ {s}
    /\ UNCHANGED <<asked, sampled, flows, sampleVars, policyVars, fileVars>>

Disconnect(s) ==
    /\ s \in datapaths
    /\ datapaths' = datapaths \ {s}
    /\ asked' = asked \ {s}
    /\ UNCHANGED <<sampled, flows, sampleVars, policyVars, fileVars>>

\* An ICMP packet-in from a lab client while the policy is active.
PacketInFastPath ==
    /\ reroute /\ ItSwitch \in datapaths
    /\ flows' = flows \cup {ItSwitch}
    /\ UNCHANGED <<datapaths, asked, sampled, sampleVars, policyVars, fileVars>>

\* idle_timeout: a switch drops its policy flows when nothing matches them.
FlowsIdleOut(s) ==
    /\ s \in flows \cap IdleSwitches
    /\ flows' = flows \ {s}
    /\ UNCHANGED <<datapaths, asked, sampled, sampleVars, policyVars, fileVars>>

\* The controller process is started again: its fields are those of __init__,
\* its modification times are zero, and the switches keep their tables.
Restart ==
    /\ datapaths # {}
    /\ datapaths' = {} /\ asked' = {} /\ sampled' = {}
    /\ mbps' = 0 /\ congested' = {} /\ throughput' = FALSE
    /\ thr' = InitThr
    /\ reroute' = FALSE /\ pending' = FALSE /\ age' = 0
    /\ lastChoice' = "absent" /\ mode' = "normal" /\ dqnEnabled' \in DqnSettings
    /\ mlFresh' = (mlFile # NoFile) /\ ttFresh' = (ttFile # NoFile)
    /\ UNCHANGED <<flows, mlFile, manualFile, ttFile>>

-----------------------------------------------------------------------------
(* The other processes *)

AgentWrite(a) ==
    /\ mlFile' = a /\ mlFresh' = TRUE
    /\ UNCHANGED <<switchVars, sampleVars, policyVars, manualFile, ttFile, ttFresh>>

ManualWrite(m) ==
    /\ manualFile' = m
    /\ UNCHANGED <<switchVars, sampleVars, policyVars, mlFile, mlFresh, ttFile, ttFresh>>

ManualRemove ==
    /\ manualFile' = NoFile
    /\ UNCHANGED <<switchVars, sampleVars, policyVars, mlFile, mlFresh, ttFile, ttFresh>>

TimetableWrite(m) ==
    /\ ttFile' = m /\ ttFresh' = TRUE
    /\ UNCHANGED <<switchVars, sampleVars, policyVars, mlFile, mlFresh, manualFile>>

-----------------------------------------------------------------------------

CoreSample == \E rate \in [PortsOf(CoreSwitch) -> Rates] :
                 \E earlier \in SUBSET (PortsOf(CoreSwitch) \ {CorePort}) :
                    CoreStatsReply(rate, earlier)

SomeAgentWrite == \E a \in MlActions : AgentWrite(a)

Next ==
    \/ \E s \in Switches : FirstStatsReply(s)
    \/ \E s \in Switches : \E rate \in [PortsOf(s) -> Rates] : EdgeStatsReply(s, rate)
    \/ CoreSample
    \/ Monitor
    \/ \E s \in Switches : Connect(s)
    \/ \E s \in Switches : Disconnect(s)
    \/ PacketInFastPath
    \/ \E s \in Switches : FlowsIdleOut(s)
    \/ Restart
    \/ SomeAgentWrite
    \/ \E m \in ManualSettings : ManualWrite(m)
    \/ ManualRemove
    \/ \E m \in Modes : TimetableWrite(m)

Spec == Init /\ [][Next]_vars

\* The monitor loop always runs again, and a connected core answers a request;
\* nothing is assumed of the agent, the dashboard or the timetable engine.
Fairness ==
    /\ WF_vars(Monitor)
    /\ WF_vars(FirstStatsReply(CoreSwitch))
    /\ WF_vars(CoreSample)

FairSpec == Spec /\ Fairness

\* The DQN agent is alive too: it writes an action again and again.
FairAgentSpec == FairSpec /\ WF_vars(SomeAgentWrite)

-----------------------------------------------------------------------------
(* Properties *)

\* Every field of the controller, every file and every switch table has its type.
TypeOK ==
    /\ datapaths \subseteq Switches
    /\ asked \subseteq datapaths
    /\ sampled \subseteq Switches
    /\ flows \subseteq PolicySwitches
    /\ mbps \in Nat
    /\ congested \subseteq Ports
    /\ thr \in Thresholds
    /\ throughput \in BOOLEAN /\ reroute \in BOOLEAN /\ pending \in BOOLEAN
    /\ dqnEnabled \in BOOLEAN /\ age \in Nat
    /\ lastChoice \in {"backup", "primary", "load_balance", "absent"}
    /\ mlFile \in MlActions \cup {NoFile}
    /\ mlFresh \in BOOLEAN /\ (mlFresh => mlFile # NoFile)
    /\ manualFile \in ManualSettings \cup {NoFile}
    /\ ttFile \in Modes \cup {NoFile}
    /\ mode \in Modes \cup {"normal"}
    /\ ttFresh \in BOOLEAN /\ (ttFresh => ttFile # NoFile)

\* Whatever the agent, the dashboard and the timetable write, and in whatever
\* order the hooks meet them, both hysteresis bands keep low strictly below
\* high: no sample can be over the one and under the other.
ThresholdOrder == Ordered(thr)

\* A decision request never outlives its timeout: between two monitor passes a
\* pending request is younger than dqn_decision_timeout_s, also when samples
\* keep asking and the agent never answers.
PendingBounded == pending => age < DecisionTimeout

\* A step in which the core's reply delivers a usable sample.
CoreSampleStep ==
    /\ CoreSwitch \in asked \cap sampled
    /\ CoreSwitch \in datapaths' \ asked'

\* A core sample at or above the high threshold is never dropped: afterwards the
\* policy is active or a decision is pending, even if the action consumed in the
\* same handler says "primary" or raises the threshold above the sample.
CongestionAnswered ==
    [][CoreSampleStep /\ mbps' >= thr.congest_high_mbps => reroute' \/ pending']_vars

\* With the DQN integration on, the running controller gives the policy up only
\* while handling a core sample at or below the low threshold that finds an
\* action file nobody has consumed: no monitor pass, timeout or agent does it.
ReleaseOnlyOnLowSample ==
    [][dqnEnabled /\ reroute /\ ~reroute' =>
          Restart \/ ( /\ CoreSampleStep /\ mbps' <= thr.congest_low_mbps
                       /\ mlFresh /\ ~mlFresh' )]_vars

\* A request that the timeout or the agent closes without activating the policy
\* leaves no congestion unanswered: no port is congested, and the last core
\* sample is below the high threshold unless the same pass moved the thresholds,
\* perhaps forth for the action it read and back for the timetable.
NoCongestedGiveUp ==
    [][pending /\ ~pending' /\ ~reroute' /\ ~CoreSampleStep =>
          Restart \/ ( /\ congested = {}
                       /\ \/ thr' # thr
                          \/ mlFresh /\ ttFresh
                          \/ mbps < thr.congest_high_mbps )]_vars

\* If the core link stays connected, its load stays at or above the high
\* threshold and the thresholds stop moving, then the policy is active from some
\* time on, with or without an agent, whatever the agent says; without the DQN
\* integration the action file may force the primary path.
SustainedCongestionReroutes ==
    /\ <>[](/\ dqnEnabled /\ CoreSwitch \in datapaths
            /\ mbps >= thr.congest_high_mbps)
    /\ <>[][thr' = thr]_vars
    => <>[]reroute

\* In a controller that keeps running, manual settings that stay in place prevail
\* over the agent for good, and over the timetable once it stops writing.
ManualSettingsPrevail ==
    \A m \in ManualSettings :
        <>[](manualFile = m /\ ~ttFresh) /\ <>[][~Restart]_vars
        => <>[](thr = ApplySettings(thr, m))

\* The load has dropped for good: the core is connected, its samples are at or
\* below the low threshold and no port is congested.
Calm == CoreSwitch \in datapaths /\ mbps <= thr.congest_low_mbps /\ congested = {}

\* When the load drops below the low threshold the policy is deactivated.
CalmReleases == <>[]Calm => []<>~reroute

\* Without the DQN integration that is so, whatever action files come.
CalmReleasesDirectly == <>[](Calm /\ ~dqnEnabled) => []<>~reroute

\* When the policy is inactive, no connected switch throttles or reroutes.
NoOrphanPolicy == ~reroute => flows \cap datapaths = {}

=============================================================================
