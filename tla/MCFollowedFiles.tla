---------------------------- MODULE MCFollowedFiles ----------------------------
(* Small instances of three parts in which a file is written that another      *)
(* process follows, and which share no state: the timetable engine and the     *)
(* controller, forwarding and the security policy, the jobs of the simulation  *)
(* runner.  A behaviour is one of one part: the others stay in an initial      *)
(* state in which nothing has begun.                                           *)
EXTENDS TimetableSync, Forwarding, SimulationRunner, TLC

-----------------------------------------------------------------------------
(* Forwarding: the core switch s1 and the two distribution switches, with the *)
(* ports of the topology; a lab hangs behind its access switch's port         *)

MCHostAt == "server1" :> <<2, 7>> @@ "lab7" :> <<2, 2>>
            @@ "server2" :> <<3, 4>> @@ "lab3" :> <<3, 2>>
MCTrunk == <<1, 1>> :> <<2, 1>> @@ <<2, 1>> :> <<1, 1>>
           @@ <<1, 2>> :> <<3, 1>> @@ <<3, 1>> :> <<1, 2>>
MCToward ==
    1 :> [h \in Endpoints |-> IF h \in {"server1", "lab7"} THEN 1 ELSE 2]
    @@ 2 :> [h \in Endpoints |-> CASE h = "server1" -> 7 [] h = "lab7" -> 2 [] OTHER -> 1]
    @@ 3 :> [h \in Endpoints |-> CASE h = "server2" -> 4 [] h = "lab3" -> 2 [] OTHER -> 1]
MCBackupPort == 1 :> 2 @@ 3 :> 4
MCPolicyMap == 2 :> [uplink |-> 1, clients |-> ("lab7" :> 2)]
               @@ 3 :> [uplink |-> 1, clients |-> ("lab3" :> 2)]
MCPolicies == {{}, {<<"lab3", "lab7">>, <<"lab7", "server2">>}}

-----------------------------------------------------------------------------
VARIABLE part

MCvars == <<vars, forwardingVars, runnerVars, part>>

MCInit ==
    /\ Init /\ ForwardingInit /\ RunnerInit
    /\ part \in {"timetable", "forwarding", "runner"}
    /\ part # "timetable" => slot = Normal
    /\ part # "forwarding" => policyFile = {}

TimetablePart ==
    part = "timetable" /\ Next /\ UNCHANGED <<forwardingVars, runnerVars, part>>
ForwardingPart ==
    part = "forwarding" /\ ForwardingNext /\ UNCHANGED <<vars, runnerVars, part>>
RunnerPart == part = "runner" /\ RunnerNext /\ UNCHANGED <<vars, forwardingVars, part>>

MCNext == TimetablePart \/ ForwardingPart \/ RunnerPart

\* TimetableFairness and ForwardingFairness, each in its part.
MCSpec ==
    /\ MCInit /\ [][MCNext]_MCvars
    /\ WF_vars(part = "timetable" /\ Refresh)
    /\ WF_vars(part = "timetable" /\ ApplyTimetableHook)
    /\ \A t \in Threads : WF_vars(part = "timetable" /\ ThreadStep(t))
    /\ ForwardingFairness

PartsTypeOK == TypeOK /\ ForwardingTypeOK /\ RunnerTypeOK

=============================================================================
