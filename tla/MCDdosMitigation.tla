------------------------- MODULE MCDdosMitigation --------------------------
(* Small instances of DdosMitigation for TLC: two access switches that share *)
(* one port map, as s4 (lab7) and s5 (lab6) do in the controller.            *)
EXTENDS DdosMitigation

MCSwitches == {"s4", "s5"}
MCHosts == {"lab7", "lab6"}
MCHostPorts == {<<"s4", 2>>, <<"s5", 2>>}
MCAttached == [p \in MCHostPorts |-> IF p[1] = "s4" THEN "lab7" ELSE "lab6"]
MCItClientPorts == <<[ip |-> "lab7", port |-> 2], [ip |-> "lab6", port |-> 2]>>
MCPortMapOf == [s \in MCSwitches |-> MCItClientPorts]

=============================================================================
