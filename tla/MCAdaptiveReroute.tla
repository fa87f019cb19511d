------------------------ MODULE MCAdaptiveReroute --------------------------
(* Small instances of AdaptiveReroute for TLC. *)
EXTENDS AdaptiveReroute

\* The core (one uplink, one access port) and the IT switch (one port).
MCSwitches == {"core", "it"}
MCPorts == {"uplink", "access", "edge"}
MCSwitchOf == [p \in MCPorts |-> IF p = "edge" THEN "it" ELSE "core"]
MCCapacity == [p \in MCPorts |-> CASE p = "uplink" -> 20
                                   [] p = "access" -> 10
                                   [] p = "edge" -> 0]
MCUplinkOnly == {"uplink"}
MCUplinkSwitchOf == [p \in MCUplinkOnly |-> "core"]
MCUplinkCapacity == [p \in MCUplinkOnly |-> 20]

\* Rates below the low threshold, inside the band and above the high one.
MCRates == {2, 6, 10}

MCInitThr == [congest_high_mbps |-> 8, congest_low_mbps |-> 4,
              port_congest_high_pct |-> 80, port_congest_low_pct |-> 65]

NoSettings == [k \in {} |-> 0]

\* One action per way the controller reads them: a routing choice, an action
\* name, a forced flag; one raises the core threshold above every rate, one
\* lowers the high below the low in force.
KeepPrimary == [routing_choice |-> "primary", action_name |-> "other", force_reroute |-> "no",
                set |-> [congest_high_mbps |-> 11, congest_low_mbps |-> 4]]
UseBackup == [routing_choice |-> "backup", action_name |-> "other", force_reroute |-> "yes",
              set |-> [congest_high_mbps |-> 3, port_congest_high_pct |-> 60]]
Tighten == [routing_choice |-> "absent", action_name |-> "tighten", force_reroute |-> "absent",
            set |-> NoSettings]

MCMlActions == {KeepPrimary, UseBackup, Tighten}
MCOneAction == {KeepPrimary}

MCManual == {[congest_high_mbps |-> 6, congest_low_mbps |-> 7]}
MCNone == {}
MCItOnly == {"it"}

MCModes == {"normal", "exam"}
MCEffects == [m \in MCModes |-> IF m = "exam" THEN [high |-> 5, low |-> 2]
                                              ELSE [high |-> 8, low |-> 4]]

=============================================================================
