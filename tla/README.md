# Verification of the AI-driven campus SDN framework

TLA+ modules, TLC configurations and TLAPS proofs for the program in this
repository: a Ryu controller that forwards, reroutes and throttles traffic, mitigates
floods and port scans and installs VLANs, and the processes around it that it follows
through files in `/tmp`: a learner, a dashboard, a timetable engine, the runtime API of
the emulated campus, a simulation runner and an activity manager.

Run `tlc -config RUN.cfg MODULE` for a run of the table in section 3 and
`tlapm X_proofs.tla` for the proofs.

## 1. The system

### Components and their state

| component | source | state | operations |
|---|---|---|---|
| adaptive reroute loop | `examples/campus_controller.py` | connected switches, last core rate, congested ports, four thresholds, `reroute_active`, one pending decision, last modification times of three files | port-statistics reply, monitor pass, switch connects or leaves, packet-in fast path |
| flood detection | same | books of attackers and of flooded switches with their times, flags for the dashboard, packet-in windows; drop rules live in the switches | port sample, packet-in, cleanup of either book |
| port-scan detection | same | contacted ports and an alerted flag per source, blocked sources with their times; drop rules in the switches | packet-in, cleanup |
| forwarding and security policy | same | `mac_to_port`, the policy read from a file; learned, security and preset flows in the switches | packet-in, policy hook, switch connects |
| network automation (VLANs) | `examples/campus_dashboard.py`, `campus_controller.py` | the automation file and its `.tmp`, the configuration the controller follows, rules in the switches | ten kinds of request, the controller's hook, switch connects or leaves |
| timetable engine | `examples/timetable_engine.py` | SQLite schedule, override file, state file; a refresh thread and a request thread | refresh, POST override, clear, GET, start, stop |
| timetable hook | `campus_controller.py:2117` | mode and recorded modification time | stat, read |
| topology and runtime API | `examples/campus_topology.py`, `mininet/node.py` | hosts and addresses, tables of processes, the simulation context file, one RLock; a shell per host | requests that add, change and remove hosts, start and stop sessions, stress clients and floods, ping |
| simulation runner | `examples/simulation_runner.py` | job records, one stop event, one overlay file | start, stop, reset |
| PC activity manager | `tumba_sdn/simulation/pc_activity_manager.py` | one worker per host, one lock, state file | set activity, reset, periodic write |
| DQN agent, ML stub | `examples/dqn_routing_agent.py`, `ml_policy_stub.py` | Q-network, action file | write an action |
| dashboard pages | `examples/campus_dashboard.py` | settings file, subprocesses | pages, proxies of the runtime API, publish settings |
| evaluator, monitor, API stub | `examples/performance_evaluator.py`, `traffic_monitor.py`, `runtime_api_stub.py` | sample buffers, globals | sample, report |
| Tumba SDN controller apps | `tumba_sdn/controller/*` | graph and failover flag, blocked hosts, exam flows | link events, detections, timetable poll |
| Tumba SDN learner, topology, dashboard | `tumba_sdn/ml`, `topology`, `dashboard` | | |
| survey and evaluation tools, shell scripts | `examples/*.py`, `*.sh` | files | batch |
| Mininet | `mininet`, `bin`, `util`, `custom`, `debian`, `doc`, most of `examples` | | third-party emulator |

### How they interact

Inside the controller, Ryu runs event handlers and the monitor greenlet cooperatively:
between two messages to switches a handler is not interrupted by another one. The
controller and every other process talk through JSON files, published by writing a
`.tmp` file and renaming it. The controller decides whether a file is new by its
modification time and reads it in a monitor pass (or, for the action file, also inside a
statistics reply). To the switches it sends flow modifications, some with idle or hard
timeouts, so a rule can outlive the state that put it there or be outlived by it. The
dashboard and scripts start and stop the other processes by signals, and the dashboard
passes requests on to the runtime API. That API types commands into the shells of the
emulated hosts, and so does the background traffic beside it.

### What is hard

- A request for a decision is raised in one handler, answered by another process,
  consumed in a monitor pass or in the next sample, or ended by a timeout. The three
  consumers disagree about what an answer means for a policy that is already active.
- Three writers own the same thresholds, two of them with a modification-time filter.
- Bookkeeping by the controller's clock against rules timed by the switch.
- Two detection paths that share flags, and one map of ports for two switches.
- Four programs in which several threads write through one `.tmp` file: a rename can
  publish a file another thread still has open, and two texts can mix in one file.
- Read, edit, write without a lock (VLAN requests), and a state computed some time before
  it is written (timetable, activities).
- A hook that installs rules switch by switch while switches come and go, and a
  connection whose end is handled after the next one has begun.
- A lock held while commands run in shells that another thread uses without the lock,
  where only an assertion on a flag keeps the two apart.
- Workers that outlive the bounded join meant to end them; jobs that outlive the stop
  event a timer clears.
- Switches, the controller and the engines restart at any moment.

### What makes each component correct

- Reroute loop: low thresholds stay below high ones; a request ends; a sample over the
  threshold is never without consequence; nothing but a low sample releases the
  policy; sustained congestion activates it, manual settings prevail, calm ends it;
  switches agree with `reroute_active`.
- Floods: a rule never outlives its entry, an entry ends, a persistent attack is dropped
  again, the flags tell the truth.
- Scans: what the window holds is detected, a detection reaches every switch, a block
  ends, and a source that is not blocked can be detected again.
- Forwarding: what is learned leads to the host, packets arrive unless blocked, and a
  block ends when the policy does not ask for it any more.
- VLANs: the file stays well formed and changes by whole edits, reachable switches have the
  applied configuration, and its rules isolate the VLANs on the ports the controller knows.
- Timetable: the controller settles on the mode that should govern; no newer file is
  taken for one already read; the engine can be stopped and started.
- Runtime API: every request is answered, every process is in a table that can stop it,
  no command gets the output of another one, and the controller exempts exactly the
  hosts that run a scan.
- Simulation runner: an overlay belongs to a job that plays; without one there is none.
- PC activities: one live worker per active PC, and a file that comes to tell the truth.

The hazards behind these lines, each at its place in the source with the properties that
look at it, are listed in `PROJECT.json`.

## 2. Modules

| module | models | composed with |
|---|---|---|
| `AdaptiveReroute`, `MCAdaptiveReroute`, `AdaptiveReroute_proofs` | the reroute loop; agent, dashboard and timetable as writers of files | |
| `TimedDrop` | abstract: a subject is enforced in some places, rules lapse, it is forgotten only without rules | |
| `DdosMitigation`, `MCDdosMitigation`, `DdosMitigation_proofs` | flood detection and mitigation | implements `TimedDrop` twice |
| `PortScan`, `MCPortScan`, `PortScan_proofs` | port-scan detection | |
| `Forwarding`, `Forwarding_proofs` | forwarding, the security policy, the switches and packets | |
| `VlanConfig` | pure: the edits of a VLAN configuration and the rules made from one | |
| `VlanRegister` | abstract: a configuration that changes by whole edits | extends `VlanConfig` |
| `VlanAutomation`, `MCVlanAutomation`, `VlanAutomation_proofs` | requests, files, hook and switches | extends `VlanConfig`, implements `VlanRegister` |
| `TimetableSync` | the engine's threads, its files and the controller's hook | |
| `SimulationRunner` | jobs and their overlay | |
| `FollowedFiles_proofs` | theorems about the two modules above and about the run of `MCFollowedFiles` | extends `MCFollowedFiles`, `Forwarding_proofs` |
| `NodeShell` | `cmd` of a Mininet host called by several threads | |
| `CampusRuntime`, `MCCampusRuntime`, `CampusRuntime_proofs` | the runtime API, the background traffic, the context file and its hook | extends `NodeShell` |
| `PcActivity`, `PcActivity_proofs` | the activity manager; theorems also about the run of `MCScanAndActivity` | the proofs extend it and `PortScan_proofs` |
| `MCFollowedFiles` | one run for `TimetableSync`, `Forwarding` and `SimulationRunner` | |
| `MCScanAndActivity` | one run for `PortScan` and `PcActivity` | |

The two modules that put several components in one run do not let them interact, since
they share no state: a variable `part` picks one component for a whole behaviour and the
others stay in an initial state in which nothing has begun. Fairness holds in the part that
was picked. The states of such a run are the sum of those of its parts.

### AdaptiveReroute

One action per handler: `FirstStatsReply`, `EdgeStatsReply` and `CoreStatsReply` are
`port_stats_reply_handler` for a port's first sample, an access switch and the core;
`Monitor` is one pass of `_monitor` with its hooks in the order of the code;
`Connect`, `Disconnect`, `PacketInFastPath` and `Restart` are the rest of the
controller. `AgentWrite`, `ManualWrite`, `ManualRemove` and `TimetableWrite` are other
processes and `FlowsIdleOut` is the switch. A handler that changes the same fields several
times passes a record `[thr, reroute, pending]` from step to step (`ApplyMlActionHook`,
`EvaluateCongestion`, `CheckDqnDecisionTimeout`), each named for its method.

Rates are three values: under, inside and over the hysteresis band. A file is its
content and a "fresh" flag that stands for a modification time newer than the recorded
one. The decision timeout is counted in monitor passes (`age`), since only a pass looks
at it. What an action file may say is one record per way the controller can read it.
The agent, dashboard and timetable are assumed to publish whole files here. For the
timetable, `TimetableSync` looks at that assumption: a damaged file makes the hook return
early, which is a `Monitor` step without a fresh file.

### DdosMitigation and PortScan

Time is `Tick`. Tables map keys to ages. A flood's rule leaves its switch when its age
reaches the hard timeout; the controller's entry leaves the books in `Cleanup`, `Grace`
ticks later, as the code waits two seconds more. A scan's block has no such grace: it ends
by the controller's clock, its rules begin a little later by the switches', and both last
the same time. So in PortScan `RuleExpires` comes at any moment of the tick in which a rule
is over, before or after `CleanupPortscanState` or a packet that ends the block, and nothing
is claimed of a rule and the books at the same moment. `datapaths` is a sequence in
DdosMitigation because the first connected switch matters there (`_check_port_ddos` loops,
`_install_ddos_drop` returns early after the first turn). A rate is "the attached host
floods" or not. In PortScan the contact times of the code's deque decide nothing, since
nothing reads them except to prune them; the set of ports decides. `recent` is a history
variable for the property about the window.

### Forwarding

A packet is at a port of a switch, with a source and a destination. `Forward` applies the
flow tables by priority: security flows, preset rules, learned flows, table miss. A
miss is a packet-in; `PacketIn` is `packet_in_handler` (`Learn`, then `Block` or `Route`);
its messages are `orders` that switches execute in any order. The rules that
`switch_features_handler` gives a switch are operators of the constants. Hosts know each
other's MAC addresses (autoStaticArp), so all packets are unicast, and the network is a
tree (`TreeAssumption`), as the topology builds it. `sent`, `arrived` and `excused`
record the fate of each pair's last packet. `Misdirected` computes from the constants
which pairs the preset rules send elsewhere than towards their destination.

### VlanConfig, VlanRegister, VlanAutomation

`VlanConfig` has one operator per edit of `campus_dashboard.py` (`Assign`, `AutoConfigure`,
`Remove`, `Link`, ...), the condition under which it does not raise, and the rules of
`_install_vlan_automation_flows`. That method skips every port that is not in the
controller's static table of ports (`KnownPorts`, `Served`), such as those of hosts added at
run time, which the dashboard assigns like any other: no rule isolates them, and `Isolates`
says of which ports the rules speak. In `VlanAutomation` a request reads and edits in one
step (`Hold`) and then opens, writes and renames in steps of their own. As in the
timetable, an open file is an inode, so `Replace` turns another request's open `.tmp` file
into the published one. The hook stats, reads and installs switch by switch. A connection
is `down`, `config` (features answered) or `main`; the controller's entry for it is
`none`, `live` or `stale`, and a lost connection is a `zombie` until its end is handled.
`alone` and `late` are history: requests that met no other one, and switches for which
the configuration changed between their features and their entry in `datapaths`.

### TimetableSync

Grain: one step per file operation. Both threads follow the same path: load the
override and check its expiry, remove it if it has expired, open and truncate the `.tmp`
file, write and close, rename. The schedule's slot is read together with the
override: between the two reads only the slot can change, and that change could as well
come first. A thread's open file is an inode, so `Rename` turns the other thread's
`"tmp"` handle into `"state"` and its `"state"` handle into `"unlinked"`. A shorter text
written over a longer one leaves a damaged file. Modification times are ranks
(`Ranked`), which is exact for comparisons; two writes within one clock tick of the
file system are taken to have different times. The controller's hook records the time
in one step and reads in the next. `Terminate` is the signal handler; it waits for
`serve_forever`, which it interrupted on the same thread.

### SimulationRunner

A scenario is the list of its writes and of the places where it looks whether it is
stopped (`Play`); a job is a position in such a list. `EndScenario` is the `finally`
block of `_run_job`, which removes the overlay whoever wrote it. `StopAll`, its timer and
`ResetRunner` are the requests. Entries carry the job that wrote them.

### NodeShell and CampusRuntime

`NodeShell` is `sendCmd`, `monitor` and `waitOutput` of `mininet/node.py`: the assertion
that the flag `waiting` is down, the command typed, the flag raised, and reads until a
sentinel lowers it. The flag leaves two gaps, before it is raised and after another thread
lowered it. `crossed` records that a command got into one; the model stops there.
`CampusRuntime` adds the API. All requests hold one lock, so those that type no command are
one step (`Quick`), the others one step per command (`HoldLock` ... `Release`) that
interleaves with the background traffic. Replies that show a device (`ShowDevice`) are among
the others, since `get_device` asks the device's shell for its default route
(campus_topology.py:1353): the request for a device or its workspace, launching and stopping
sessions, and the end of a ping or a discovery. Requests that wait are interchangeable: what
one asks for is chosen when it gets the lock, so their number is enough (`queued`). Each
thread of the background traffic types on its own hosts (`TypesOn`), so `_traffic_loop` and
`_ping_loop` meet on one. `StartStress` names hosts, some of them possibly more than once;
the processes whose entry is replaced go to the history variable `lost`. `Cleanup` is
`_cleanup_device_sessions`, which ends with `WriteContext`. Processes are numbers that may
end at any time. `ContextHook` is the controller's side. Hosts share their processes, as
Mininet hosts do, so `pkill` on one ends the floods of all.

### PcActivity

`StopWorker` and `StartWorker` are the two halves of a change of activity, before and
after the bounded join, with the lock held (`holder`) between them. A worker tests its
event, checks its activity under the lock, sends a burst, records it, and leaves. Clients
and the periodic writer publish a snapshot by the same four file steps as above. `Restart`
is the process ended in the middle of anything and started again.

## 3. Runs

| run | checks | result |
|---|---|---|
| RerouteSafety | `TypeOK`, `ThresholdOrder`, `PendingBounded`, `CongestionAnswered`, `ReleaseOnlyOnLowSample`, `NoCongestedGiveUp` | hold, 709,344 states |
| RerouteLiveness | `SustainedCongestionReroutes`, `ManualSettingsPrevail`, `CalmReleasesDirectly` | hold, 118,224 states |
| RerouteStuck | `CalmReleases` | violated |
| RerouteOrphanFlows | `NoOrphanPolicy` | violated |
| DdosMitigation | `TypeOK`, `FlagsCoverAttacks`, both refinements of `TimedDrop`, `FloodIsDropped`, `MitigationExpires` | hold, 89,840 states |
| DdosOneSwitch | `DroppedEverywhere` | violated |
| ScanAndActivity | `PartsTypeOK`; of PortScan `ScansAreAlerted`, `DroppedEverywhere`, `MissedSourcesReturn`, `BlockOfOneExpires`; of PcActivity `OneWorkerEach`, `PcSettles` | hold, 365,550 states |
| PortScanMissed | `ScanDetected` | violated |
| VlanAutomation | `TypeOK`, `ConfigsWellFormed`, `InstalledIsApplied`, `RulesIsolate`, `RegisterSpec`, `Settles` | hold, 618,016 states |
| CampusRuntime | `RuntimeTypeOK`, `NothingRunsUntracked`, `OwnOutput`, `RequestsEnd`, `ProbesSettle` | hold, 1,034,789 states |
| FollowedFiles | `PartsTypeOK`; of TimetableSync `NothingSkipped`, `Settles`; of Forwarding `FlowsLeadToHost`, `Delivery`, `PolicySettles`; of SimulationRunner `OverlayOfActiveJob` | hold, 406,744 states |
| TimetableStop | `StopEnds` | violated |

What the passing runs show beyond the names of their properties:

- RerouteSafety: in every interleaving of samples, passes, file writes, disconnections and
  restarts, a congested sample has a consequence and only a low sample releases the
  policy. `NoCongestedGiveUp` excepts passes that move the thresholds, also those that
  move them forth for the action they read and back for the timetable.
- VlanAutomation: requests may mix their texts and publish each other's files, and still
  the file is well formed, or damaged and read as none. Whole edits are promised only to
  requests that meet no other one. `Settles` excepts two cases the code gets wrong: a
  rename that gives the file a time before that of one already read, and switches that
  connected `late`. `RulesIsolate` isolates the known ports from each other and from the
  rest; a frame from any other port it finds left to the forwarding.
- CampusRuntime: the lock is given back whatever the background traffic does to the hosts,
  also by the requests that only show a device. Requests that fail midway leave no process
  behind that no table names; the one way to lose a process is to name a client twice.
- FollowedFiles: a packet arrives unless the policy has blocked it, the controller was
  restarted meanwhile, or preset rules send its pair the wrong way. An overlay never
  outlives its job, however jobs cross in the `.tmp` file.
- ScanAndActivity: a source with enough ports in the window has been detected, and it is
  free of a block only if it came back between its block's end and the cleanup. Workers that
  outlive their join do no harm to the traffic that is reported, and the state file recovers
  from torn texts and stale snapshots.

### The violated properties

- `CalmReleases` (CAMPUS_RUNBOOK.md:181-183, the policy deactivates when load drops). The
  only release is a low core sample that finds an unread action. A monitor pass that
  reads the action first counts the active policy itself as congestion and keeps it.
  The agent of this run is alive and fair, and still every action may go to the monitor
  pass. Without the DQN integration the release works (`CalmReleasesDirectly`).
- `NoOrphanPolicy` (CAMPUS_RUNBOOK.md:183, the throttle is removed). A switch that is away
  while the policy is deactivated, or any switch across a controller restart, comes
  back with policy flows nothing deletes.
- `DroppedEverywhere` of DdosMitigation (comment at campus_controller.py:1269). The loop
  over all switches installs on the first one only.
- `ScanDetected` (docstring at campus_controller.py:2171). A block that a packet ends,
  before the cleanup does, leaves the alerted flag set for good.
- `StopEnds` (UNIFIED_STACK_QUICKSTART.md:60, the timetable process is stopped). SIGTERM
  makes the main thread wait for itself. The process stays, keeps its port, and the next
  engine writes one state, cannot bind and exits.

### Disagreements seen, without a run

- A data-plane flood at a port of the second IT access switch is attributed to the host
  of the same port number on the first (campus_controller.py:1247). `FloodIsDropped`
  therefore speaks of correctly attributed ports.
- The control-plane mitigation drops the port of the packet that fills the window,
  whichever port filled the rest of it (1167).
- `_cleanup_ctrl_flood` never lowers `ddos_active` (1222), so `FlagsCoverAttacks` is
  stated in one direction.
- A switch that connects while the policy is active gets no policy flows (2071), and
  the congested ports of a switch that left are counted for ever (2066).
- The ports of a scan are never pruned (2205).
- A scan's block has no grace beside its rules' timeout (2209, 2255), so a switch may drop a
  source that the controller has forgotten.
- A host added at run time can be put in a VLAN, and no rule isolates it (1922).
- The preset rules send IP packets for `h_server1` to the uplink on the switch it is
  attached to (1669-1670, 1766-1772), and the clients map of the other distribution switch
  names ports of other devices. CAMPUS_RUNBOOK.md:96 and campus_topology.py:2857-2863 say
  otherwise. `Delivery` excepts such pairs (`Misdirected`).
- A learned flow has no timeout, and the policy is looked at in packet-ins only, so a pair
  that is blocked after it has talked goes on talking (2608).
- A switch that gets its features while the hook changes the configuration keeps the
  older rules until the next change (2062).
- `read_override` removes by name the file it judged by content, so an override posted in
  between is lost (timetable_engine.py:371).
- Removing a host leaves its sessions and its flood running (campus_topology.py:1702). The
  tables still name them, but stop_sessions refuses a host that is not in the network (1415),
  so they can be stopped only once it is added again.
- A client named twice in a request to start stress traffic gets two processes, and the
  entry of the second replaces that of the first, which nothing stops any more (1956).
- A host whose addition fails because another one is busy is in the network without an
  entry in `dynamic_meta`: the API neither edits nor removes it.
- The controller goes on exempting the address of a scan that ended by itself until a request
  rewrites the context file (447); only an open page of the dashboard asks regularly.
- The evaluator measures a failover that it sees one sample after the drop.

### Bounds, and why they are enough

- RerouteSafety: a core with its uplink and one access port, one policy switch with
  one port. The code treats other switches alike and independently. Rates {2, 6, 10}
  around thresholds 8 and 4 give every outcome of every comparison, and two of the
  writers move the thresholds across them. `DecisionTimeout` = 2 tells "a pass later" from
  "timed out". Three actions: keep primary with a threshold above every rate, use
  the backup with a high threshold below the low one in force, tighten without a choice.
  Restarts may switch the DQN integration on and off.
- RerouteLiveness and RerouteStuck: the uplink only and one action, since the
  tableau multiplies the states; both timetable modes in the former.
- DdosMitigation: the two switches that share a port map, one host each, one of them
  excusable; `Threshold` = 2, `HardTimeout` = 2, `Grace` = 1. The refinement of the
  control plane sees one port per switch here; its proof covers any number.
- ScanAndActivity: two sources, three ports with `Limit` = 2, two switches, `BlockTime` = 2,
  `Window` = 1, so a detection can happen with ports left over and a contact can age
  out of the window. `BlockOfOneExpires` asks one of two interchangeable sources. One PC
  that is set idle and then to an exam, by either of two clients, `MaxAsks` = 2,
  two worker slots: an old worker beside a new one, and two clients and the writer in the
  `.tmp` file. A second PC would only add a worker of its own: nothing but the lock and the
  file is shared.
- VlanAutomation: `s4` online with two devices, `s5` as the switch a device moved from,
  two VLANs, and a device that was removed and is still a member, on a port the
  controller does not know; two clients, `MaxRequests` = 2, `MaxDrops` = 1.
  Two requests are what a race in the file takes; one lost connection is what a zombie
  takes. The proofs cover any number of all of these.
- CampusRuntime: one host on which two threads of the background traffic type, and one that
  can be added, with the address of the former or after an update another one;
  `MaxBacklog` = 3, two attempts of pingall, two processes, `MaxCalls` = 2 beside polling and
  adding a host. One thread serves the requests one after the other: the lock lets no two
  in, and who serves makes no difference. Two requests, one of which waits while the other
  has the lock, are enough for each pair of requests to meet, with a host added at any time.
- FollowedFiles, timetable: two modes, either of which may be the slot's or the override's.
  Two threads are what the engine has. No counter is bounded: ranks, ages and flags are
  finite. Forwarding: core and two distribution switches with one server and one lab
  host each and their ports in the topology, `MaxSends` = 2 (a packet and its answer),
  one change of the policy, one restart. Runner: two jobs (a race takes two), the scenario
  with repetitions and one of those without, one timer.

`CHECK_DEADLOCK FALSE` appears where requests, drops and sends are bounded: once the
environment's bound is used up and everything has settled, the system rightly has no step.

### Fairness

- `Monitor`: the greenlet's loop sleeps and runs again for ever. `FirstStatsReply` and
  `CoreSample` of a connected core: it is asked every pass and OpenFlow switches answer.
  Nothing is assumed of the other processes, except in RerouteStuck, where a fair agent
  makes the counterexample stronger.
- `Tick`, `RuleExpires` and `Cleanup`: the clock, the switches' clocks, and the monitor
  loop. `PortSample` per port: the statistics of a connected switch keep coming.
- Timetable: the threads of a running process run, the refresh interval passes, the
  hook runs. Nothing is assumed of requests, starts, or kills.
- VlanAutomation: threads of requests, the hook, and the controller's handling of each switch's
  events. Requests and switches need not come, and finitely many requests do, so that all of
  them are served.
- Forwarding: switches and controller work, the policy hook runs, hard timeouts come. The
  fairness of `Switching`, `Obeying` and `Deciding` is for the whole set of packets, which
  is enough as finitely many are sent.
- CampusRuntime: a request gets the lock in the end, its holder proceeds, threads and shells
  are scheduled and commands end, as long as no two commands have crossed; the hook runs.
  Processes need not end, and nothing in the program asks for operations: that a page of the
  dashboard is open and polls is the premise `PagePolls` of `ProbesSettle`. `RequestsEnd`
  does without it.
- PcActivity: threads are scheduled, bursts end (the code gives iperf3 a timeout), the
  writer's interval passes. Restarts and requests are assumed to stop in `PcSettles`.
- SimulationRunner has safety properties only.

## 4. Proofs

The theorems hold for every value of the constants that meets the modules' assumptions.
Each is proved from an inductive invariant: initial states have it, each action keeps it,
and it implies what is claimed.

**Reroute.** `RerouteSafe` states `ThresholdOrder` and `PendingBounded`, and
`RerouteTypeCorrect` and `RequestsTimeOut` its parts. The invariant is their conjunction:
the order of the thresholds needs the types (the correction `n * 7 \div 10 < n` needs a
positive high), and the age bound needs the timeout check at the end of each monitor
pass. The lemmas say that each step a handler is composed of keeps the record `[thr,
reroute, pending]` well formed. `SamplesAreAnswered`, `ReleaseNeedsLowSample` and
`GiveUpNeedsCalm` are the three action properties, from the same invariant and lemmas
about the action hook: with the integration on it never turns an active policy off, and
without an unread file it never ends a request. Two more action properties are about what
the runs leave open. `OrphansReturn` delimits what RerouteOrphanFlows finds: a connected
switch throttles under an inactive policy only since it came back with its flows.
`ManualSettingsGovern` is the safety half of `ManualSettingsPrevail`: a monitor pass makes
manual settings govern, and then nothing but the timetable, a change of the file or a
restart moves the thresholds. It rests on `SettingsAppliedTwice` (applying settings twice
is applying them once), which needs the order of the bands.

**Floods.** `RulesBooksAndFlagsAgree` (with `DdosTypeCorrect`): that a rule is exactly as old
as its entry is the strengthening. "An entry exists for each rule" alone is not inductive,
since the cleanup looks at the age of the entry. `HostMitigationsAreTimedDrops` and
`PortMitigationsAreTimedDrops` are the refinements: under the invariant each step maps to
`Enforce`, `Lapse`, `Forget` or a stutter. That an entry is forgotten only without live rules
is where the equal ages and the grace are used. `MitigationsAreLocal` says what is true where
DdosOneSwitch finds a violation: an address is dropped on at most one switch at a time, and a
switch drops at most one port.

**Scans.** `PortScanTyped` is the type invariant. `ScansAreDetected` and
`OnlyReturningSourcesAreMissed` say what is true where PortScanMissed finds a violation:
a source with `Limit` ports in the window was detected, and only a step in which it returns
after its block and before the cleanup leaves it detected and without a block.
Their invariant, `EntriesHoldWindow`, is that an entry holds every port of the window and is
marked when it reaches the limit. `DetectionDropsEverywhere` is an action property. None of
these says anything of the age of a rule, which the books do not determine.

**Forwarding.** `LearnedFlowsLeadToHost` and `PacketsComeFromSource`. The invariant
`ForwardingInv` says that packets, packet-ins and outputs are at a port in the direction of
their source, and that every learned entry, flow and flow under way leads to its host.
`TreeAssumption` is what carries a packet's property over a hop, also of a flood.
`ForwardingIsTyped` is the type invariant. `PacketsKeepGoing` is the safety half of
`Delivery`: what was sent and has neither arrived nor been excused is on its way to its
destination at a switch, at the controller or in a message from it, so a network at rest
has delivered everything. Its invariant (`DeliveryInv`) adds that every output order
leads towards the destination or everywhere, and it uses the other half of the tree:
from a switch on the way the next hop is on the way again, or is the destination.

**VLANs.** `RulesMadeIsolate` is about `VlanConfig` alone: the rules made from any
configuration without a device in two VLANs let two known ports talk exactly when their
VLANs are equal or linked, and nothing else reach a managed port from a known one; it rests
on `ServedKept` and `UnknownUntouched`, for members and frames of ports that are not known.
`PublishedWellFormed`, `ReachableHasApplied`, `SwitchesIsolate` and `AutomationTypeCorrect`
follow from `AutomationInv`: every configuration that is held, written, published, applied
or installed is well formed (`DataInv`); who has which inode open (`HandleInv`: only while
it writes); a request that is alone has the `.tmp` file for itself and holds an edit of what
is published (`AloneInv`); and what `InstalledIsApplied` says of each connection state
(`RulesInv`). `DashboardImplementsRegister` uses `AloneInv` to show that an uncontended
rename is an `Edit` of the register. `NoConfigurationIsSkipped` is the safety half of
`Settles`: a configuration whose time is the recorded one is the one applied, and every
reachable switch that connected in time has its rules. As for the timetable, the `.tmp`
file's time must stay apart from the other two (`SeenInv`).

**Timetable and runner.** `NoStateIsSkipped`: every write makes its file the newest, so a
recorded time can only come back by a rename. `TmpApart` excludes that: the `.tmp` file's
time differs from the recorded one and the state file's as long as it exists. The lemmas on
`Ranked` say that ranking keeps the order. `NoOverlayOutlivesItsJob`: the entries in the
`.tmp` file are those of a job that has yet to rename it (`ScratchOfWriter`), so whatever a
rename publishes belongs to a job that plays. `TimetableTyped` and `RunnerIsTyped` are the
type invariants; the former holds the override to one request's and a handle to a thread
that writes (`StateTyped`). `PartsKeepTheirPromises` is the theorem of the composed run
FollowedFiles: the part that moves keeps its invariant, and the others stay where they are.

**Runtime.** `EveryProcessTracked`: tables name different processes (`Apart`), a process
that no table names is one whose entry its own request replaced, floods are those of the
attack table (`FloodsKnown`), there is one attacker at most, and a request between its kill
and its start has ended the others (`Killing`). `CommandsGetOwnOutput`: unless two commands
crossed, one thread at most is inside a shell (`OneInside`), a shell nobody is in is silent,
and what is typed, printed and read is that thread's. `RuntimeTyped` is the type invariant.
`LockHolderGoesOn` is the safety half of `RequestsEnd`: whoever waits in a shell has its
command or its answer in it, and the request with the lock has a next step. Its invariant
(`LockInv`) says which calls are open at which step of a request, and on which hosts, those
of a request that only shows a device among them.

**Activities.** `OneWorkerForEachPC`: the lock is kept by a client in its join
(`LockKept`), an unlocked PC has its worker (`Served`), all others are stopped
(`OthersStopped`), and traffic is that of the activity (`OwnTraffic`). `PcActivityTyped`
adds the clients' file steps and contents (`PublishingTyped`), and `PartsKeepTheirPromises`
is the theorem of the composed run ScanAndActivity.

Besides types, sizes and positive bounds, the theorems assume of the constants that the
switches form a tree in which exactly the right ports are trunks (`TreeAssumption`), that
the built topology has a host (`RuntimeAssumption`), and that there is room for a line in
a shell (`BacklogAssumption`). Each holds in the instance of the run that uses the module,
where TLC evaluates it.

Only model-checked: all liveness (`SustainedCongestionReroutes`, `ManualSettingsPrevail`,
`CalmReleasesDirectly`, `FloodIsDropped`, `MitigationExpires`, `BlockOfOneExpires`,
`PcSettles`, both `Settles`, `Delivery`, `PolicySettles`, `RequestsEnd`, `ProbesSettle`),
since fairness and ENABLED are out of the prover's reach. Of `ManualSettingsPrevail`, the
`Settles` of the VLANs, `Delivery` and `RequestsEnd` the safety halves above are proved.
Every invariant, action property and refinement that a passing run checks is a theorem.

## 5. Not modelled, and why

- Ryu suspends a handler in `send_msg` when sixteen messages to one switch are
  outstanding. Handlers are atomic here, except the VLAN hook, which sends enough for it to
  happen. Ryu is not part of the repository.
- What follows two commands that crossed in a shell: a thread may then wait for output that
  another has read, without a timeout and with the API's lock.
- Metrics, events, labels, log lines: output only. The simulation context is an
  exception and is in DdosMitigation (what the probes suppress) and CampusRuntime (who
  writes them).
- An uncaught exception in the monitor greenlet, which would end it.
- The learner's numbers. Its actions are arbitrary members of a set.
- The dashboard's pages and proxies: pages are views of files, and proxies pass a
  request on to the runtime API, where it is modelled.
- Set-up of the topology: what it builds is the instance of Forwarding.
- Performance evaluator, traffic monitor, API stub: samples turned into reports that
  no other component acts on.
- The activity manager's baseline file, a snapshot for a page.
- The Tumba SDN controller apps. No script of the repository starts them. As written, the
  topology manager waits for itself at its first event (`_write_state` calls
  `get_topology_summary`, which takes the lock its caller holds), the handlers that give
  self-healing, security and monitoring their switches wait for features in
  MAIN_DISPATCHER, where they do not come, and `check_ddos` and `update_exam_mode` have no
  caller. A model would have a single behaviour or one the code cannot reach.
- Mininet beyond `cmd`, the survey tools, batch scripts and generated results.

The definitions translate about 13% of the repository's implementation lines. Of the
others most are HTML and JavaScript inside the dashboard, the emulator's own code and
examples, the set-up of networks, and sequential tools that keep no state.

## 6. Plan

Done: the reroute loop, floods, scans, the timetable, VLAN automation, forwarding, the
runtime API with its shells, the simulation runner and the activity manager, each with
the proofs of section 4. What is left, in this order:

1. A composition of `AdaptiveReroute` with the timetable's writers, as a refinement:
   `TimetableSync` seen from the hook implements "the file changes to a mode".
2. What crossed commands lead to, with the lock of the runtime API.
3. The evaluator, should anything come to act on its reports.
