----------------------------- MODULE VlanRegister -----------------------------
(***************************************************************************)
(* What the dashboard's VLAN requests promise: the published configuration *)
(* changes by whole edits, each applied to the published configuration.    *)
(* The dashboard keeps this promise to requests that meet no other one;    *)
(* while requests are contended, it keeps the configuration well formed.   *)
(***************************************************************************)
EXTENDS VlanConfig

VARIABLES
    conf,       \* the published configuration
    contended   \* whether requests overlap

Init == WellFormed(conf) /\ contended = FALSE

Become(new) == conf' = new

Edit ==
    \/ \E d \in DOMAIN Attach, v \in Vlans : Become(Assign(conf, d, v))
    \/ \E s \in Switches, plan \in Plans, links \in SUBSET Pairs :
           CanConfigure(s, plan) /\ Become(AutoConfigure(conf, s, plan, links))
    \/ \E plan \in Plans, links \in SUBSET Pairs :
           CanConfigureAll(plan) /\ Become(AutoConfigureAll(plan, links))
    \/ \E s \in Switches : Become(RestoreOpen(conf, s))
    \/ Become(Nothing)
    \/ \E s \in Switches, v \in Vlans, devices \in {{d} : d \in Devices} \cup {Devices} :
           CanRemove(conf, s, v) /\ Become(Remove(conf, s, v, devices))
    \/ \E v \in Vlans : CanRemoveEverywhere(conf, v) /\ Become(RemoveEverywhere(conf, v))
    \/ \E s \in Switches, p \in Pairs, b \in BOOLEAN :
           CanLink(conf, s, p) /\ Become(Link(conf, s, p, b))
    \/ \E p \in Pairs, b \in BOOLEAN :
           (\E s \in Switches : CanLink(conf, s, p)) /\ Become(LinkEverywhere(conf, p, b))

Next ==
    /\ contended' \in BOOLEAN
    /\ \/ UNCHANGED conf
       \/ Edit
       \/ contended /\ WellFormed(conf')

Spec == Init /\ [][Next]_<<conf, contended>>

=============================================================================
