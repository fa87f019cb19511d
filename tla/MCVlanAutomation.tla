--------------------------- MODULE MCVlanAutomation ---------------------------
EXTENDS VlanAutomation, TLC

MCAttach == [d \in {1, 2} |-> "s4"]

In(v, d) == [vlan |-> v, dev |-> d]

\* Device 1 came to s4 from s5, which was configured before, and is still a member
\* there.  Device 5 was added at run time, on a port of s4 that the controller does
\* not know; it was removed and is still a member.
MCInitialFiles ==
    {Holding([s \in Switches |->
        IF s = "s4"
        THEN [members |-> {In(10, 5)}, links |-> {}]
        ELSE [members |-> {In(10, 1)}, links |-> {}]])}

MCPlans == {<<10, 20>>}
=============================================================================
