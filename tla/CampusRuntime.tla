----------------------------- MODULE CampusRuntime -----------------------------
(***************************************************************************)
(* The runtime API of the campus topology (campus_topology.py,             *)
(* CampusRuntimeAPI), the background traffic beside it                     *)
(* (BackgroundTrafficGenerator) and the controller's hook that follows the *)
(* simulation context it writes (campus_controller.py).                    *)
(*                                                                         *)
(* Every request of the API runs under one lock.  What happens meanwhile   *)
(* is the background traffic, which types its own commands into the same   *)
(* shells without the lock, the end of a process, and the hook.  A request *)
(* that types no command is therefore one step; one that does is a step    *)
(* for each of its commands.  Commands on the server host, which has no    *)
(* background traffic, are part of the step they belong to.                *)
(***************************************************************************)
EXTENDS NodeShell, FiniteSets

CONSTANTS
    Callers,        \* threads that serve requests
    Static,         \* hosts of the built topology
    Dynamic,        \* ids of hosts added later
    Traffic,        \* threads of the background traffic
    TypesOn,        \* hosts on which each of them types its commands
    Addrs, Home,    \* addresses; those of the static hosts
    NewAddrs,       \* those that a request to add a host may give
    Attempts,       \* how often pingall starts over
    Pids,           \* bound on the processes the tables can hold
    MaxCalls        \* bound on the calls, besides polling and adding a host

ASSUME RuntimeAssumption ==
    /\ Hosts = Static \cup Dynamic /\ Static \cap Dynamic = {} /\ Static # {}
    /\ Hosts \subseteq Nat \ {0} /\ IsFiniteSet(Hosts)
    /\ TypesOn \in [Traffic -> SUBSET Static]
    /\ Threads = Callers \cup Traffic /\ Callers \cap Traffic = {}
    /\ Callers \subseteq Nat \ {0}
    /\ Home \in [Static -> Addrs] /\ NewAddrs \subseteq Addrs /\ Addrs \subseteq Nat \ {0}
    /\ Attempts \in Nat \ {0} /\ MaxCalls \in Nat
    /\ Pids \subseteq Nat \ {0} /\ IsFiniteSet(Pids)

VARIABLES
    net,        \* hosts in the network
    addr,       \* their addresses
    meta,       \* added hosts that the API will edit and remove
    queued,     \* how many requests wait for the lock
    owner,      \* the thread of the request that holds it
    doing,      \* its next step
    todo,       \* hosts it has still to type a command on
    goal,       \* the host it adds, or floods from
    tries,      \* attempts pingall has left
    calls,      \* requests served so far that MaxCalls bounds
    alive,      \* processes that run
    floods,     \* those of them that run the flood script
    lost,       \* history: those whose entry their own request overwrote
    sessions, stress, attack,   \* the tables of processes
    context,    \* addresses of running scans in the simulation context file
    fresh,      \* the file is newer than the hook's recorded time
    hookStep,   \* next step of the hook
    probes      \* simulation_probe_ips

hostVars == <<net, addr, meta>>
lockVars == <<owner, doing, todo, goal, tries>>
procVars == <<alive, floods, lost, sessions, stress, attack>>
contextVars == <<context, fresh>>
probeVars == <<hookStep, probes>>
runtimeVars ==
    <<shellVars, hostVars, queued, lockVars, calls, procVars, contextVars, probeVars>>

\* Hosts with background traffic.
Background == UNION {TypesOn[t] : t \in Traffic}

Nobody == 0
NoProc == 0
Least(S) == CHOOSE x \in S : \A y \in S : x <= y

Tracked == {s.proc : s \in sessions} \cup {stress[h] : h \in Hosts} \cup {attack[h] : h \in Hosts}
Free == Pids \ (alive \cup Tracked)
NewPid == CHOOSE p \in Free : TRUE
Attackers == {h \in Hosts : attack[h] # NoProc}

RuntimeInit ==
    /\ ShellInit
    /\ net = Static /\ meta = {}
    /\ addr = [h \in Hosts |-> IF h \in Static THEN Home[h] ELSE 0]
    /\ queued = 0 /\ calls = 0
    /\ owner = Nobody /\ doing = "nothing" /\ todo = {} /\ goal = Nobody /\ tries = 0
    /\ alive = {} /\ floods = {} /\ lost = {} /\ sessions = {}
    /\ stress = [h \in Hosts |-> NoProc] /\ attack = [h \in Hosts |-> NoProc]
    /\ context = {} /\ fresh \in BOOLEAN /\ hookStep = "stat" /\ probes = {}

-----------------------------------------------------------------------------
(* The lock *)

\* Each request has a thread of its own.  Which one the lock lets in makes no
\* difference: what it asks for is chosen once it holds the lock.
Arrive ==
    /\ calls + queued < MaxCalls
    /\ queued' = queued + 1
    /\ UNCHANGED <<shellVars, hostVars, lockVars, calls, procVars, contextVars, probeVars>>

Acquire == owner = Nobody /\ queued > 0 /\ queued' = queued - 1

\* A request that keeps the lock beyond this step.
HoldLock(c, step, hosts, host) ==
    /\ Acquire
    /\ owner' = c /\ doing' = step /\ todo' = hosts /\ goal' = host
    /\ UNCHANGED probeVars

Count == calls' = calls + 1

Quick == Acquire /\ Count /\ UNCHANGED <<shellVars, lockVars, probeVars>>

Release ==
    /\ owner' = Nobody /\ doing' = "nothing" /\ todo' = {} /\ goal' = Nobody /\ tries' = 0
    /\ UNCHANGED <<queued, calls, probeVars>>

\* The request goes on with other hosts.
Continue(step, hosts) ==
    /\ doing' = step /\ todo' = hosts
    /\ UNCHANGED <<queued, owner, goal, tries, calls, probeVars>>

\* A request that is turned down leaves everything as it was.
Refuse == Quick /\ UNCHANGED <<hostVars, procVars, contextVars>>

\* The request types a command: only the background traffic could meet it.
Type(c, h) == IF h \in Background THEN Cmd(c, h) ELSE CmdAlone(c, h)

-----------------------------------------------------------------------------
(* Sessions and the simulation context *)

LiveSessions == {s \in sessions : s.proc \in alive}

\* The addresses of the scans that run, of hosts that are in the network.
Exempted ==
    {addr[s.host] : s \in {x \in sessions : x.probe /\ x.proc \in alive /\ x.host \in net}}

\* _write_simulation_context
WriteContext == context' = Exempted' /\ fresh' = TRUE

\* Mutant of Cleanup: the context is not written.
CleanupOnly == sessions' = LiveSessions /\ UNCHANGED contextVars

\* _cleanup_device_sessions, which ends with a write of the context.
Cleanup ==
    /\ sessions' = LiveSessions
    /\ WriteContext

\* The reply shows the device as get_device finds it, with one command in its
\* shell (Walk), before the lock is given back.
ShowDevice(c, h) ==
    /\ HoldLock(c, "device", {h}, Nobody) /\ Count
    /\ UNCHANGED <<shellVars, hostVars, tries>>

GetDevice(c) == \E h \in net : ShowDevice(c, h) /\ UNCHANGED <<procVars, contextVars>>

GetDeviceWorkspace(c) ==
    \E h \in net :
        ShowDevice(c, h) /\ UNCHANGED <<alive, floods, lost, stress, attack>> /\ Cleanup

LaunchSession(c) ==
    \E h \in net, probe \in BOOLEAN :
        /\ ShowDevice(c, h) /\ Free # {}
        /\ alive' = alive \cup {NewPid}
        /\ sessions' = LiveSessions \cup {[host |-> h, proc |-> NewPid, probe |-> probe]}
        /\ UNCHANGED <<floods, lost, stress, attack>>
        /\ WriteContext

StopSessions(c) ==
    \E h \in net :
        /\ ShowDevice(c, h)
        /\ alive' = alive \ {s.proc : s \in {x \in sessions : x.host = h}}
        /\ sessions' = {s \in LiveSessions : s.host # h}
        /\ UNCHANGED <<floods, lost, stress, attack>>
        /\ WriteContext

\* get_operations, which a page of the dashboard asks for while it is open.
GetOperations ==
    /\ owner = Nobody
    /\ stress' = [h \in Hosts |-> IF stress[h] \in alive THEN stress[h] ELSE NoProc]
    /\ UNCHANGED <<shellVars, hostVars, queued, lockVars, calls, alive, floods, lost,
                   attack, probeVars>>
    /\ Cleanup

\* ping_target and discover_network: one command on the device itself.
DeviceCommand(c) ==
    \E h \in net :
        /\ HoldLock(c, "command", {}, Nobody) /\ Count /\ Type(c, h)
        /\ UNCHANGED <<hostVars, tries, alive, floods, lost, stress, attack>>
        /\ Cleanup

\* The reply shows the device too, unless it was busy.
EndDeviceCommand(c) ==
    /\ doing = "command" /\ call[c].step \in {"done", "raised"}
    /\ Return(c)
    /\ UNCHANGED <<hostVars, alive, floods, lost, stress, attack>>
    /\ IF call[c].step = "done" THEN Continue("device", {call[c].host}) /\ Cleanup
       ELSE Release /\ UNCHANGED <<sessions, contextVars>>

-----------------------------------------------------------------------------
(* Stress clients and floods *)

StressProcs == {stress[h] : h \in Hosts} \ {NoProc}

\* A host that the request names again gets another process, whose entry
\* replaces that of the one before.
StartStress ==
    \E clients \in SUBSET net \ {{}} :
        LET free == Free \cup StressProcs
            given == CHOOSE f \in [clients -> free] :
                        \A g, h \in clients : f[g] = f[h] => g = h
            listed == {given[h] : h \in clients}
        IN /\ Quick /\ Cardinality(free) >= Cardinality(clients)
           /\ stress' = [h \in Hosts |-> IF h \in clients THEN given[h] ELSE NoProc]
           /\ \E replaced \in SUBSET (free \ listed) :
                 /\ alive' = (alive \ StressProcs) \cup listed \cup replaced
                 /\ lost' = lost \cup replaced
           /\ UNCHANGED <<hostVars, floods, sessions, attack, contextVars>>

StopStress ==
    /\ Quick
    /\ alive' = alive \ StressProcs
    /\ stress' = [h \in Hosts |-> NoProc]
    /\ UNCHANGED <<hostVars, floods, lost, sessions, attack, contextVars>>

\* Mutant of StartAttack: a flood that runs is left alone.
StartAttackBesides(c) ==
    \E h \in net :
        HoldLock(c, "kill", {}, h) /\ Count
        /\ UNCHANGED <<shellVars, hostVars, tries, procVars, contextVars>>

\* start_attack and stop_attack begin with _kill_attack_procs.
StartAttack(c) ==
    \E h \in net :
        HoldLock(c, "kill", Attackers, h) /\ Count
        /\ UNCHANGED <<shellVars, hostVars, tries, procVars, contextVars>>

StopAttack(c) ==
    HoldLock(c, "kill", Attackers, Nobody) /\ Count
    /\ UNCHANGED <<shellVars, hostVars, tries, procVars, contextVars>>

\* pkill is typed on the attacker if it is still there.
Kill(c) ==
    /\ doing = "kill" /\ todo # {} /\ call[c] = NoCall
    /\ IF Least(todo) \in net
       THEN Type(c, Least(todo)) /\ UNCHANGED <<queued, lockVars, calls, probeVars, alive, floods>>
       ELSE /\ alive' = alive \ {attack[Least(todo)]}
            /\ floods' = floods \ {attack[Least(todo)]}
            /\ Continue("kill", todo \ {Least(todo)}) /\ UNCHANGED shellVars
    /\ UNCHANGED <<hostVars, lost, sessions, stress, attack, contextVars>>

\* The hosts share their processes, so pkill ends every flood there is.
Killed(c) ==
    /\ doing = "kill" /\ call[c].step = "done"
    /\ Return(c) /\ Continue("kill", todo \ {call[c].host})
    /\ alive' = alive \ (floods \cup {attack[call[c].host]}) /\ floods' = {}
    /\ UNCHANGED <<hostVars, lost, sessions, stress, attack, contextVars>>

\* The table is emptied, and the flood script is written to the attacker.
EndKill(c) ==
    /\ doing = "kill" /\ todo = {} /\ call[c] = NoCall
    /\ attack' = [h \in Hosts |-> NoProc]
    /\ IF goal = Nobody THEN Release /\ UNCHANGED shellVars
       ELSE Type(c, goal) /\ Continue("flood", {})
    /\ UNCHANGED <<hostVars, alive, floods, lost, sessions, stress, contextVars>>

Flood(c) ==
    /\ doing = "flood" /\ call[c].step = "done" /\ Free # {}
    /\ Return(c) /\ Release
    /\ alive' = alive \cup {NewPid} /\ floods' = floods \cup {NewPid}
    /\ attack' = [attack EXCEPT ![goal] = NewPid]
    /\ UNCHANGED <<hostVars, lost, sessions, stress, contextVars>>

\* A busy host ends the request where it stands, and so does a full table.
AttackFails(c) ==
    /\ \/ doing \in {"kill", "flood"} /\ call[c].step = "raised"
       \/ doing = "flood" /\ call[c].step = "done" /\ Free = {}
    /\ Return(c) /\ Release
    /\ UNCHANGED <<hostVars, procVars, contextVars>>

GetAttackStatus ==
    /\ Quick
    /\ attack' = [h \in Hosts |-> IF attack[h] \in alive THEN attack[h] ELSE NoProc]
    /\ UNCHANGED <<hostVars, alive, floods, lost, sessions, stress, contextVars>>

-----------------------------------------------------------------------------
(* Hosts.  staticArp types commands on every host. *)

AddHost(c) ==
    \E d \in Dynamic \ net, a \in NewAddrs :
        /\ HoldLock(c, "arp", net \cup {d}, d)
        /\ net' = net \cup {d} /\ addr' = [addr EXCEPT ![d] = a]
        /\ UNCHANGED <<shellVars, meta, tries, calls, procVars, contextVars>>

\* Only here is an address refused that another host has.
UpdateHost(c) ==
    \E d \in meta : \E a \in Addrs \ {addr[h] : h \in net \ {d}} :
        /\ HoldLock(c, "arp", net, d) /\ Count
        /\ addr' = [addr EXCEPT ![d] = a]
        /\ UNCHANGED <<shellVars, net, meta, tries, procVars, contextVars>>

\* The host's sessions and its flood are not ended.
RemoveHost ==
    \E d \in meta :
        /\ Quick
        /\ net' = net \ {d} /\ meta' = meta \ {d} /\ addr' = [addr EXCEPT ![d] = 0]
        /\ alive' = alive \ {stress[d]} /\ stress' = [stress EXCEPT ![d] = NoProc]
        /\ UNCHANGED <<floods, lost, sessions, attack, contextVars>>

-----------------------------------------------------------------------------
(* pingall, and commands on one host after the other; one host to show it *)

Pingall(c) ==
    /\ HoldLock(c, "settle", {}, Nobody) /\ Count /\ tries' = Attempts
    /\ UNCHANGED <<shellVars, hostVars, procVars, contextVars>>

Busy == {h \in net : waiting[h]}

\* Mutant of Settle: the wait for idle hosts has no end.
SettleForever(c) ==
    /\ doing = "settle" /\ Busy = {}
    /\ Continue("ping", net)
    /\ UNCHANGED <<shellVars, hostVars, procVars, contextVars>>

\* wait_for_idle_hosts: no host is busy, or the time is up.
Settle(c) ==
    /\ doing = "settle"
    /\ IF Busy = {} THEN Continue("ping", net) ELSE Release
    /\ UNCHANGED <<shellVars, hostVars, procVars, contextVars>>

Walk(c) ==
    /\ doing \in {"ping", "arp", "device"} /\ call[c] = NoCall
    /\ Type(c, Least(todo))
    /\ UNCHANGED <<hostVars, queued, lockVars, calls, procVars, contextVars, probeVars>>

\* The commands of one host are done; after the last one the request succeeds,
\* and a new host gets its entry in dynamic_meta.
Walked(c) ==
    LET rest == todo \ {call[c].host} IN
    /\ doing \in {"ping", "arp", "device"} /\ call[c].step = "done"
    /\ Return(c)
    /\ IF rest = {} THEN Release ELSE Continue(doing, rest)
    /\ meta' = IF doing = "arp" /\ rest = {} THEN meta \cup {goal} ELSE meta
    /\ UNCHANGED <<net, addr, procVars, contextVars>>

\* Mutant of WalkRaised: pingall starts over as often as it takes.
WalkRaisedAlways(c) ==
    /\ doing \in {"ping", "arp", "device"} /\ call[c].step = "raised"
    /\ Return(c)
    /\ IF doing = "ping"
       THEN /\ tries' = tries - 1 /\ todo' = net
            /\ UNCHANGED <<queued, owner, doing, goal, calls, probeVars>>
       ELSE Release
    /\ UNCHANGED <<hostVars, procVars, contextVars>>

\* A busy host: pingall starts over, some times; the others give up, and a
\* device is shown without its route.
WalkRaised(c) ==
    /\ doing \in {"ping", "arp", "device"} /\ call[c].step = "raised"
    /\ Return(c)
    /\ IF doing = "ping" /\ tries > 1
       THEN /\ tries' = tries - 1 /\ todo' = net
            /\ UNCHANGED <<queued, owner, doing, goal, calls, probeVars>>
       ELSE Release
    /\ UNCHANGED <<hostVars, procVars, contextVars>>

-----------------------------------------------------------------------------
Serve(c) ==
    \/ Refuse \/ Pingall(c) \/ GetDevice(c) \/ GetDeviceWorkspace(c)
    \/ LaunchSession(c) \/ StopSessions(c) \/ DeviceCommand(c)
    \/ StartStress \/ StopStress \/ StartAttack(c) \/ StopAttack(c) \/ GetAttackStatus
    \/ AddHost(c) \/ UpdateHost(c) \/ RemoveHost

Proceed(c) ==
    /\ owner = c
    /\ \/ Settle(c) \/ Walk(c) \/ Walked(c) \/ WalkRaised(c) \/ EndDeviceCommand(c)
       \/ Kill(c) \/ Killed(c) \/ EndKill(c) \/ Flood(c) \/ AttackFails(c)

apiVars == <<hostVars, queued, lockVars, calls, procVars, contextVars>>

\* _traffic_loop, and _ping_loop beside it.  They leave a busy host alone until
\* the next round.
CallTraffic(t) ==
    \E h \in TypesOn[t] : ~waiting[h] /\ Cmd(t, h) /\ UNCHANGED <<apiVars, probeVars>>
EndTraffic(t) == call[t].step = "done" /\ Return(t) /\ UNCHANGED <<apiVars, probeVars>>

InShell(t) == ShellStep(t) /\ UNCHANGED <<apiVars, probeVars>>
ShellOf(h) == ShellRuns(h) /\ UNCHANGED <<apiVars, probeVars>>

\* A session, a stress client or a flood ends by itself.
ProcessEnds(p) ==
    /\ p \in alive
    /\ alive' = alive \ {p} /\ floods' = floods \ {p} /\ lost' = lost \ {p}
    /\ UNCHANGED <<shellVars, hostVars, queued, lockVars, calls, sessions, stress, attack,
                   contextVars, probeVars>>

-----------------------------------------------------------------------------
(* _load_simulation_context_hook: the time is recorded before the read *)

ContextStat ==
    /\ hookStep = "stat" /\ fresh
    /\ hookStep' = "read" /\ fresh' = FALSE
    /\ UNCHANGED <<shellVars, hostVars, queued, lockVars, calls, procVars, context, probes>>

ContextRead ==
    /\ hookStep = "read"
    /\ hookStep' = "stat" /\ probes' = context
    /\ UNCHANGED <<shellVars, hostVars, queued, lockVars, calls, procVars, contextVars>>

ContextHook == ContextStat \/ ContextRead

\* What follows when two commands crossed in a shell is not modelled.
RuntimeNext ==
    /\ ~crossed
    /\ \/ Arrive
       \/ \E c \in Callers : Serve(c) \/ Proceed(c)
       \/ GetOperations
       \/ \E t \in Traffic : CallTraffic(t) \/ EndTraffic(t)
       \/ \E t \in Threads : InShell(t)
       \/ \E h \in Background : ShellOf(h)
       \/ \E p \in Pids : ProcessEnds(p)
       \/ ContextHook

\* A request gets the lock in the end; threads and shells are scheduled and
\* commands end, unless two commands crossed; requests need not come, polls of
\* the dashboard neither, nor need processes end.
RuntimeFairness ==
    /\ WF_queued(~crossed /\ Acquire)
    /\ \A c \in Callers :
          WF_<<call, owner, doing, todo>>(~crossed /\ owner = c /\ (Proceed(c) \/ InShell(c)))
    /\ \A t \in Traffic : WF_call(~crossed /\ (EndTraffic(t) \/ InShell(t)))
    /\ \A h \in Background : WF_typed(~crossed /\ ShellOf(h))
    /\ WF_hookStep(~crossed /\ ContextHook)

RuntimeSpec == RuntimeInit /\ [][RuntimeNext]_runtimeVars /\ RuntimeFairness

-----------------------------------------------------------------------------
(* Properties *)

RuntimeTypeOK ==
    /\ ShellTypeOK
    /\ net \subseteq Hosts /\ meta \subseteq Dynamic /\ addr \in [Hosts -> Addrs \cup {0}]
    /\ queued \in 0..MaxCalls /\ owner \in Callers \cup {Nobody}
    /\ doing \in {"nothing", "settle", "ping", "arp", "device", "command", "kill",
                "flood"}
    /\ todo \subseteq Hosts /\ goal \in Hosts \cup {Nobody} /\ tries \in 0..Attempts
    /\ calls \in 0..MaxCalls
    /\ alive \subseteq Pids /\ floods \subseteq Pids /\ lost \subseteq Pids
    /\ sessions \subseteq [host : Hosts, proc : Pids, probe : BOOLEAN]
    /\ stress \in [Hosts -> Pids \cup {NoProc}] /\ attack \in [Hosts -> Pids \cup {NoProc}]
    /\ context \subseteq Addrs /\ fresh \in BOOLEAN
    /\ hookStep \in {"stat", "read"} /\ probes \subseteq Addrs

\* Whatever requests fail midway and whatever hosts are removed, every process
\* that runs is named in one of the tables, except those whose entry the request
\* that started them overwrote; and at most one flood runs.  (The sessions of a
\* host that was removed are named, and can be stopped once it is added again.)
NothingRunsUntracked ==
    /\ alive \subseteq Tracked \cup lost
    /\ floods \subseteq alive \cap {attack[h] : h \in Attackers}
    /\ Cardinality(Attackers) <= 1

\* Every request is answered: whatever the background traffic does to the hosts,
\* the lock is given back, unless two commands crossed in a shell.
RequestsEnd == []<>(crossed \/ (queued = 0 /\ owner = Nobody))

\* A page of the dashboard is open and polls.
PagePolls == WF_<<stress, sessions, contextVars>>(~crossed /\ GetOperations)

\* Once there are no more calls but the polls of an open page, the controller
\* exempts from flood detection exactly the addresses whose hosts run a scan.
\* Without such a page a scan that has ended may be exempted for ever.
ProbesSettle == PagePolls => <>[](crossed \/ probes = Exempted)

=============================================================================
