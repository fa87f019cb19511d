-------------------------- MODULE MCScanAndActivity ---------------------------
(* Small instances of two parts that share no state: the port-scan detection *)
(* of the controller, and the activity manager with its workers.  A behaviour *)
(* is one of one part: the other stays in an initial state in which nothing   *)
(* has begun.                                                                 *)
EXTENDS PortScan, PcActivity

-----------------------------------------------------------------------------
(* PcActivity: a PC gets an activity, and loses it for a moment *)

OnePC(x) == [host |-> "wifi1", activity |-> x]
MCRequests == {<<OnePC("idle"), OnePC("exam")>>}

-----------------------------------------------------------------------------
VARIABLE part

MCvars == <<vars, pcVars, part>>

MCInit ==
    /\ Init /\ PcInit
    /\ part \in {"scan", "pc"}
    /\ published = Missing <=> part = "pc"

ScanPart == part = "scan" /\ Next /\ UNCHANGED <<pcVars, part>>
PcPart == part = "pc" /\ PcNext /\ UNCHANGED <<vars, part>>

MCNext == ScanPart \/ PcPart

\* ScanFairness and PcFairness, each in its part.
MCSpec ==
    /\ MCInit /\ [][MCNext]_MCvars
    /\ WF_vars(part = "scan" /\ Tick)
    /\ WF_vars(part = "scan" /\ CleanupPortscanState)
    /\ WF_vars(part = "scan" /\ \E r \in Overdue : RuleExpires(r))
    /\ WF_pcVars(part = "pc" /\ \E c \in Clients : ClientStep(c))
    /\ \A w \in Slots : WF_pcVars(part = "pc" /\ WorkerStep(w))
    /\ WF_pcVars(part = "pc" /\ WriteState(Writer))

\* The block of a source ends; the two sources are interchangeable, so this is
\* asked of one of them.
BlockOfOneExpires == BlockExpires("a")

PartsTypeOK == TypeOK /\ PcTypeOK

=============================================================================
