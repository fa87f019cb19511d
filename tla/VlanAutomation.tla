---------------------------- MODULE VlanAutomation ----------------------------
(***************************************************************************)
(* VLAN automation of the campus stack: requests of the dashboard edit the *)
(* network automation file (campus_dashboard.py), the controller's hook    *)
(* follows the file and installs the flow rules on the switches, which     *)
(* connect and disconnect (campus_controller.py).                          *)
(*                                                                         *)
(* The dashboard serves every request on a thread of its own and without a *)
(* lock: a request reads the file, edits the configuration in memory and   *)
(* writes it through one .tmp file that all requests share.  An open file  *)
(* is an inode: a rename turns what another request still has open into    *)
(* the published file.  Only the order of modification times matters.      *)
(*                                                                         *)
(* The controller's greenlets switch where a message to a switch is sent,  *)
(* so switches come and go while the hook reinstalls the rules.  The hook  *)
(* and the switch handlers only reach a switch through its entry in        *)
(* datapaths, which the connection's own events make and remove.           *)
(***************************************************************************)
EXTENDS VlanConfig

CONSTANTS
    Online,         \* switches that connect to the controller
    InitialFiles,   \* what an earlier dashboard may have left in the file
    Clients,        \* 1..n, the requests the dashboard serves at a time
    MaxRequests,    \* bound on the requests that reach the file
    MaxDrops        \* bound on the connections that are lost

ASSUME AutomationAssumption ==
    /\ Online \subseteq Switches /\ Clients \subseteq Nat \ {0}
    /\ InitialFiles \subseteq [is : {"config", "missing"}, conf : Configs]
    /\ \A f \in InitialFiles : WellFormed(f.conf) /\ (f.is = "missing" => f.conf = Nothing)
    /\ MaxRequests \in Nat /\ MaxDrops \in Nat

VARIABLES
    stateFile, tmpFile,     \* contents of the two names
    mtime,                  \* ranks of the times of both files and the recorded one
    pc, held, handle,       \* of each client: next step, edited configuration,
                            \* the inode it has open
    requests,               \* requests begun so far
    alone,                  \* history: the client has met no other request
    hook,                   \* next step of the hook: "stat", "read", "install"
    applied,                \* network_automation_state
    targets,                \* switches the pass of the hook has still to reach
    conn,                   \* of each switch: "down", "config", "main"
    dp,                     \* its entry in datapaths: "none", "live", "stale"
    zombie,                 \* a lost connection whose end is not yet handled
    rules,                  \* the configuration its VLAN rules were made from
    late,                   \* history: the hook changed the configuration
                            \* between its features and its entry in datapaths
    drops

fileVars == <<stateFile, tmpFile, mtime>>
clientVars == <<pc, held, handle, requests, alone>>
hookVars == <<hook, applied, targets>>
switchVars == <<conn, dp, zombie, rules, late, drops>>
vars == <<fileVars, clientVars, hookVars, switchVars>>

\* A file's content: a configuration, or something that is read as none.
Holding(c) == [is |-> "config", conf |-> c]
Unreadable(how) == [is |-> how, conf |-> Nothing]

\* _load_network_automation_state: without a readable file nothing is managed.
Published == stateFile.conf
Active == {c \in Clients : pc[c] # "idle"}

-----------------------------------------------------------------------------
(* Modification times *)

Clocks == {"state", "tmp", "seen"}
Ranked(m) == [k \in Clocks |-> Cardinality({m[j] : j \in {c \in Clocks : m[c] < m[k]}})]
Touched(k) == Ranked([mtime EXCEPT ![k] = Cardinality(Clocks)])

Init ==
    /\ stateFile \in InitialFiles
    /\ tmpFile = Unreadable("missing")
    /\ mtime = [k \in Clocks |-> IF k = "state" /\ stateFile.is = "config" THEN 1 ELSE 0]
    /\ pc = [c \in Clients |-> "idle"]
    /\ held = [c \in Clients |-> Nothing]
    /\ handle = [c \in Clients |-> "none"]
    /\ requests = 0
    /\ alone = [c \in Clients |-> TRUE]
    /\ hook = "stat" /\ applied = Nothing /\ targets = {}
    /\ conn = [s \in Switches |-> "down"]
    /\ dp = [s \in Switches |-> "none"]
    /\ zombie = [s \in Switches |-> FALSE]
    /\ rules = [s \in Switches |-> NoConfig]
    /\ late = [s \in Switches |-> FALSE]
    /\ drops = 0

-----------------------------------------------------------------------------
(* Requests of the dashboard *)

Goto(c, step) == pc' = [pc EXCEPT ![c] = step]

\* A request has read the file and edited what it read.  Threads differ in
\* nothing: a request gets the first one that is free.
Hold(c, new) ==
    /\ c \notin Active /\ {x \in Clients : x < c} \subseteq Active
    /\ requests < MaxRequests
    /\ Goto(c, "open")
    /\ held' = [held EXCEPT ![c] = new]
    /\ requests' = requests + 1
    /\ alone' = [x \in Clients |->
                    IF x = c THEN Active = {} ELSE alone[x] /\ x \notin Active]
    /\ UNCHANGED <<fileVars, handle, hookVars, switchVars>>

\* Mutant of AssignDeviceVlan: the edit ignores what is published.
AssignFromNothing(c) ==
    \E d \in DOMAIN Attach, v \in Vlans : Hold(c, Assign(Nothing, d, v))

AssignDeviceVlan(c) ==
    \E d \in DOMAIN Attach, v \in Vlans : Hold(c, Assign(Published, d, v))

AutoConfigureSwitchVlans(c) ==
    \E s \in Switches, plan \in Plans, links \in SUBSET Pairs :
        CanConfigure(s, plan) /\ Hold(c, AutoConfigure(Published, s, plan, links))

AutoConfigureWholeNetwork(c) ==
    \E plan \in Plans, links \in SUBSET Pairs :
        CanConfigureAll(plan) /\ Hold(c, AutoConfigureAll(plan, links))

RestoreOpenConnectivity(c) ==
    \/ \E s \in Switches : Hold(c, RestoreOpen(Published, s))
    \/ Hold(c, Nothing)

ClearSwitchAutomation(c) ==
    \E s \in Switches : Published[s] # NoConfig /\ Hold(c, RestoreOpen(Published, s))

ClearAllNetworkAutomation(c) == Hold(c, Nothing)

RemoveVlanAssignment(c) ==
    \E s \in Switches, v \in Vlans, devices \in {{d} : d \in Devices} \cup {Devices} :
        CanRemove(Published, s, v) /\ Hold(c, Remove(Published, s, v, devices))

RemoveVlanFromAllSwitches(c) ==
    \E v \in Vlans :
        CanRemoveEverywhere(Published, v) /\ Hold(c, RemoveEverywhere(Published, v))

SetVlanInterconnect(c) ==
    \E s \in Switches, p \in Pairs, enabled \in BOOLEAN :
        CanLink(Published, s, p) /\ Hold(c, Link(Published, s, p, enabled))

SetVlanInterconnectScope(c) ==
    \E p \in Pairs, enabled \in BOOLEAN :
        /\ \E s \in Switches : CanLink(Published, s, p)
        /\ Hold(c, LinkEverywhere(Published, p, enabled))

-----------------------------------------------------------------------------
(* _write_json_atomic *)

\* open(tmp, "w") creates or truncates the file of that name.
OpenTmp(c) ==
    /\ pc[c] = "open"
    /\ Goto(c, "write")
    /\ handle' = [handle EXCEPT ![c] = "tmp"]
    /\ tmpFile' = Unreadable("empty") /\ mtime' = Touched("tmp")
    /\ UNCHANGED <<stateFile, held, requests, alone, hookVars, switchVars>>

\* A text written over a longer one leaves the end of that one behind.
Written(old, new) ==
    IF old.is = "empty" THEN {Holding(new)} ELSE {Holding(new), Unreadable("torn")}

\* The end of the with block: the text reaches the inode, whatever its name.
WriteClose(c) ==
    /\ pc[c] = "write"
    /\ Goto(c, "replace")
    /\ handle' = [handle EXCEPT ![c] = "none"]
    /\ held' = [held EXCEPT ![c] = Nothing]
    /\ tmpFile' \in IF handle[c] = "tmp" THEN Written(tmpFile, held[c]) ELSE {tmpFile}
    /\ stateFile' \in IF handle[c] = "state" THEN Written(stateFile, held[c]) ELSE {stateFile}
    /\ mtime' = IF handle[c] = "unlinked" THEN mtime ELSE Touched(handle[c])
    /\ UNCHANGED <<requests, alone, hookVars, switchVars>>

\* What is open under the old names is open under the new ones.
Renamed ==
    [c \in Clients |-> CASE handle[c] = "tmp" -> "state"
                        [] handle[c] = "state" -> "unlinked"
                        [] OTHER -> handle[c]]

\* The rename publishes the file that has the .tmp name now, and raises when
\* there is none: the request ends with an error.
Replace(c) ==
    /\ pc[c] = "replace"
    /\ Goto(c, "idle")
    /\ alone' = [alone EXCEPT ![c] = TRUE]
    /\ IF tmpFile.is = "missing"
       THEN UNCHANGED <<fileVars, handle>>
       ELSE /\ stateFile' = tmpFile /\ tmpFile' = Unreadable("missing")
            /\ mtime' = Ranked([mtime EXCEPT !["state"] = mtime["tmp"]])
            /\ handle' = Renamed
    /\ UNCHANGED <<held, requests, hookVars, switchVars>>

Request(c) ==
    \/ AssignDeviceVlan(c) \/ AutoConfigureSwitchVlans(c)
    \/ AutoConfigureWholeNetwork(c) \/ RestoreOpenConnectivity(c)
    \/ ClearSwitchAutomation(c) \/ ClearAllNetworkAutomation(c)
    \/ RemoveVlanAssignment(c) \/ RemoveVlanFromAllSwitches(c)
    \/ SetVlanInterconnect(c) \/ SetVlanInterconnectScope(c)

Write(c) == OpenTmp(c) \/ WriteClose(c) \/ Replace(c)

-----------------------------------------------------------------------------
(* _apply_network_automation_hook, once a pass of the monitor loop *)

Enrolled(s) == dp[s] # "none"

\* A file that is not newer than the last one is not read; a newer one's time is
\* recorded before it is.
HookStat ==
    /\ hook = "stat" /\ stateFile.is # "missing" /\ mtime["state"] > mtime["seen"]
    /\ hook' = "read"
    /\ mtime' = Ranked([mtime EXCEPT !["seen"] = mtime["state"]])
    /\ UNCHANGED <<stateFile, tmpFile, clientVars, applied, targets, switchVars>>

\* A file that cannot be parsed, and one that changes nothing, end the pass.
HookRead ==
    /\ hook = "read"
    /\ IF stateFile.is = "config" /\ stateFile.conf # applied
       THEN /\ applied' = stateFile.conf
            /\ targets' = {s \in Switches : Enrolled(s)}
            /\ hook' = IF targets' = {} THEN "stat" ELSE "install"
            /\ late' = [s \in Switches |-> late[s] \/ conn[s] = "config"]
       ELSE hook' = "stat" /\ UNCHANGED <<applied, targets, late>>
    /\ UNCHANGED <<fileVars, clientVars, conn, dp, zombie, rules, drops>>

\* Mutant of HookInstall: the time is recorded when the pass ends.
HookInstallRecords(s) ==
    /\ hook = "install" /\ s \in targets
    /\ targets' = targets \ {s}
    /\ hook' = IF targets' = {} THEN "stat" ELSE "install"
    /\ rules' = IF dp[s] = "live" THEN [rules EXCEPT ![s] = applied[s]] ELSE rules
    /\ mtime' = Ranked([mtime EXCEPT !["seen"] = mtime["state"]])
    /\ UNCHANGED <<stateFile, tmpFile, clientVars, applied, conn, dp, zombie, late, drops>>

\* One switch of the pass: its rules are deleted and pushed again.  Messages to
\* a connection that is lost go nowhere.
HookInstall(s) ==
    /\ hook = "install" /\ s \in targets
    /\ targets' = targets \ {s}
    /\ hook' = IF targets' = {} THEN "stat" ELSE "install"
    /\ rules' = IF dp[s] = "live" THEN [rules EXCEPT ![s] = applied[s]] ELSE rules
    /\ UNCHANGED <<fileVars, clientVars, applied, conn, dp, zombie, late, drops>>

Hook == HookStat \/ HookRead \/ (\E s \in Switches : HookInstall(s))

-----------------------------------------------------------------------------
(* Connections of the switches *)

\* Mutant of SwitchFeatures: a switch keeps the rules it has.
FeaturesOnly(s) ==
    /\ conn[s] = "down"
    /\ conn' = [conn EXCEPT ![s] = "config"]
    /\ late' = [late EXCEPT ![s] = FALSE]
    /\ UNCHANGED <<fileVars, clientVars, hookVars, dp, zombie, rules, drops>>

\* A switch connects: switch_features_handler, before the connection has an entry in datapaths.
SwitchFeatures(s) ==
    /\ conn[s] = "down"
    /\ conn' = [conn EXCEPT ![s] = "config"]
    /\ rules' = [rules EXCEPT ![s] = applied[s]]
    /\ late' = [late EXCEPT ![s] = FALSE]
    /\ UNCHANGED <<fileVars, clientVars, hookVars, dp, zombie, drops>>

\* state_change_handler, MAIN_DISPATCHER
EnterMain(s) ==
    /\ conn[s] = "config"
    /\ conn' = [conn EXCEPT ![s] = "main"]
    /\ dp' = [dp EXCEPT ![s] = "live"]
    /\ UNCHANGED <<fileVars, clientVars, hookVars, zombie, rules, late, drops>>

\* The switch loses its connection and keeps its rules.  The controller learns of
\* it later, perhaps after the switch is back.
Disconnect(s) ==
    /\ conn[s] \in {"config", "main"} /\ ~zombie[s] /\ drops < MaxDrops
    /\ conn' = [conn EXCEPT ![s] = "down"]
    /\ dp' = [dp EXCEPT ![s] = IF @ = "live" THEN "stale" ELSE @]
    /\ zombie' = [zombie EXCEPT ![s] = TRUE]
    /\ drops' = drops + 1
    /\ UNCHANGED <<fileVars, clientVars, hookVars, rules, late>>

\* state_change_handler, DEAD_DISPATCHER: the entry goes, whichever connection
\* it belongs to.
HandleDead(s) ==
    /\ zombie[s]
    /\ zombie' = [zombie EXCEPT ![s] = FALSE]
    /\ dp' = [dp EXCEPT ![s] = "none"]
    /\ UNCHANGED <<fileVars, clientVars, hookVars, conn, rules, late, drops>>

Controller(s) == EnterMain(s) \/ HandleDead(s)

-----------------------------------------------------------------------------
Next ==
    \/ \E c \in Clients : Request(c) \/ Write(c)
    \/ Hook
    \/ \E s \in Online : SwitchFeatures(s) \/ Controller(s) \/ Disconnect(s)

\* Threads and greenlets are scheduled; requests and switches need not come.  Each
\* request is served in the end, as finitely many reach the file.
Fairness ==
    /\ WF_pc(\E c \in Clients : Write(c))
    /\ WF_hookVars(Hook)
    /\ \A s \in Online : WF_switchVars(Controller(s))

Spec == Init /\ [][Next]_vars /\ Fairness

-----------------------------------------------------------------------------
(* Properties *)

FileContents == [is : {"config", "missing", "empty", "torn"}, conf : Configs]

TypeOK ==
    /\ stateFile \in FileContents /\ tmpFile \in FileContents
    /\ mtime \in [Clocks -> 0 .. Cardinality(Clocks) - 1]
    /\ pc \in [Clients -> {"idle", "open", "write", "replace"}]
    /\ held \in [Clients -> Configs]
    /\ handle \in [Clients -> {"none", "tmp", "state", "unlinked"}]
    /\ requests \in 0..MaxRequests
    /\ alone \in [Clients -> BOOLEAN]
    /\ hook \in {"stat", "read", "install"}
    /\ applied \in Configs /\ targets \subseteq Switches
    /\ conn \in [Switches -> {"down", "config", "main"}]
    /\ dp \in [Switches -> {"none", "live", "stale"}]
    /\ zombie \in [Switches -> BOOLEAN]
    /\ rules \in [Switches -> SwitchConfigs]
    /\ late \in [Switches -> BOOLEAN]
    /\ drops \in 0..MaxDrops

\* Whatever requests overlap, and whatever mixture of their files is read or
\* published, the file never names a link of a VLAN without members and never
\* has a device in two VLANs, and neither has the controller's configuration.
ConfigsWellFormed == WellFormed(Published) /\ WellFormed(applied)

\* A switch whose connection the controller can reach has the rules of the
\* applied configuration, unless the running pass has yet to reach it, or the
\* configuration changed between its features and its entry in datapaths: such a
\* switch is not told until the next change.
Reachable(s) == conn[s] = "main" /\ dp[s] = "live"
InstalledIsApplied ==
    \A s \in Switches :
        Reachable(s) /\ s \notin targets /\ ~late[s] => rules[s] = applied[s]

\* On a port the controller knows, the rules let frames through exactly to devices
\* on known ports in the same or a linked VLAN, and leave frames between ports
\* without a VLAN alone, broadcasts apart.  They say nothing of frames from a port
\* it does not know, VLAN member or not (_install_vlan_automation_flows).
RulesIsolate == \A s \in Switches : Isolates(rules[s])

\* The published configuration changes by whole edits of what was published, as
\* long as no requests overlap, and is well formed in any case.
Register == INSTANCE VlanRegister WITH
    conf <- Published,
    contended <- \E c \in Active : ~alone[c]
RegisterSpec == Register!Spec

\* Once the requests are served, the controller has the published configuration,
\* if the file is readable and a rename has not given it a time before that of a
\* file already read, and so have the switches it can reach, unless they
\* connected late.
Settles ==
    <>[](stateFile.is = "config" /\ mtime["state"] >= mtime["seen"] =>
            /\ applied = Published
            /\ \A s \in Switches : Reachable(s) /\ ~late[s] => rules[s] = Published[s])

=============================================================================
