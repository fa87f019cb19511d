------------------------------ MODULE PortScan ------------------------------
(***************************************************************************)
(* Port-scan detection of examples/campus_controller.py.  Every packet-in  *)
(* with a TCP or UDP destination port is counted for its source; a source  *)
(* that contacts PORTSCAN_PORT_LIMIT ports is blocked for PORTSCAN_BLOCK_S *)
(* seconds by a drop rule on every connected switch.  The monitor greenlet *)
(* forgets a source after its block.                                       *)
(*                                                                         *)
(* Time advances by Tick; the window and the block are multiples of it.    *)
(* The block ends by the controller's clock and a rule by its switch's:    *)
(* both last the same time, the rule begins a little later, and nothing    *)
(* waits for the other.  A rule that has reached its hard timeout leaves   *)
(* its switch at any moment before the next tick, with the block still on  *)
(* the books or already forgotten.                                         *)
(*                                                                         *)
(* "recent" is not a variable of the program: it is the age of a source's  *)
(* latest counted contact with a port, from which the properties read what *)
(* the window holds.                                                       *)
(***************************************************************************)
EXTENDS Integers, FiniteSets

CONSTANTS
    Sources,        \* source addresses
    DstPorts,       \* destination ports
    Switches,       \* datapath identifiers
    Limit,          \* PORTSCAN_PORT_LIMIT
    Window,         \* PORTSCAN_WINDOW_S, in ticks
    BlockTime       \* PORTSCAN_BLOCK_S and PORTSCAN_HARD_TIMEOUT, in ticks

ASSUME PortScanAssumption ==
    /\ Limit \in Nat \ {0} /\ Window \in Nat /\ BlockTime \in Nat \ {0}

VARIABLES
    datapaths,      \* the connected switches
    scan,           \* portscan_state: source -> [ports, alerted]
    blocks,         \* portscan_block_ips: source -> age of its block
    rules,          \* <<switch, source>> -> age of its drop rule
    recent          \* source -> port -> age of the latest contact

vars == <<datapaths, scan, blocks, rules, recent>>

Never == Window + 1

NoEntry == [x \in {} |-> 0]
Without(f, S) == [x \in DOMAIN f \ S |-> f[x]]
Aged(f, bound) == [x \in DOMAIN f |-> IF f[x] < bound THEN f[x] + 1 ELSE f[x]]

NoContacts == [p \in DstPorts |-> Never]

\* The ports a source contacted within the window.
WindowPorts(src) == {p \in DstPorts : recent[src][p] <= Window}

Init ==
    /\ datapaths = {} /\ scan = NoEntry /\ blocks = NoEntry /\ rules = NoEntry
    /\ recent = [src \in Sources |-> NoContacts]

Blocked(src) == src \in DOMAIN blocks /\ blocks[src] < BlockTime

\* Mutant of Counted: the first contact makes the entry and is not counted.
CountedLater(src, port) ==
    IF src \in DOMAIN scan
    THEN [scan[src] EXCEPT !.ports = @ \cup {port}]
    ELSE [ports |-> {}, alerted |-> FALSE]

\* The entry of a source after one more contact; only the time stamps of the
\* entry are pruned, the set of ports is not.
Counted(src, port) ==
    IF src \in DOMAIN scan
    THEN [scan[src] EXCEPT !.ports = @ \cup {port}]
    ELSE [ports |-> {port}, alerted |-> FALSE]

\* Mutant of InstallPortscanDrop: the other switches are forgotten.
InstallOnOneSwitch(s, src) ==
    rules' = [r \in DOMAIN rules \cup {<<s, src>>} |->
                 IF r = <<s, src>> THEN 0 ELSE rules[r]]

\* Mutant of InstallPortscanDrop: switch and source are swapped.
InstallSwapped(s, src) ==
    LET new == {<<src, d>> : d \in datapaths \cup {s}}
    IN  rules' = [r \in DOMAIN rules \cup new |-> IF r \in new THEN 0 ELSE rules[r]]

\* The switch of the packet and all other connected ones.
InstallPortscanDrop(s, src) ==
    LET new == {<<d, src>> : d \in datapaths \cup {s}}
    IN  rules' = [r \in DOMAIN rules \cup new |-> IF r \in new THEN 0 ELSE rules[r]]

\* A packet-in that no drop rule stopped, from a source whose block, if it had
\* one, is over.  A source under a block is ignored.
PacketIn(src, port, s) ==
    LET entry == Counted(src, port)
        detected == Cardinality(entry.ports) >= Limit /\ ~entry.alerted
        known == DOMAIN scan \cup {src}
    IN  /\ s \in datapaths /\ <<s, src>> \notin DOMAIN rules
        /\ ~Blocked(src)
        /\ scan' = [x \in known |-> IF x = src
                                    THEN [entry EXCEPT !.alerted = @ \/ detected]
                                    ELSE scan[x]]
        /\ recent' = [recent EXCEPT ![src][port] = 0]
        /\ IF detected
           THEN /\ blocks' = [x \in DOMAIN blocks \cup {src} |->
                                 IF x = src THEN 0 ELSE blocks[x]]
                /\ InstallPortscanDrop(s, src)
           ELSE /\ blocks' = Without(blocks, {src})
                /\ UNCHANGED rules
        /\ UNCHANGED datapaths

\* Mutants of CleanupPortscanState: the tracking entries stay; blocks stay.
CleanupKeepsEntries ==
    LET gone == {src \in DOMAIN blocks : blocks[src] >= BlockTime}
    IN  /\ gone # {}
        /\ blocks' = Without(blocks, gone)
        /\ UNCHANGED <<datapaths, scan, rules, recent>>

CleanupForgetsBlocks ==
    LET gone == {src \in DOMAIN blocks : blocks[src] >= BlockTime}
    IN  /\ gone # {}
        /\ scan' = Without(scan, gone)
        /\ UNCHANGED <<datapaths, rules, blocks, recent>>

\* Only a source whose block is still on the books is forgotten, whether or not
\* its rules have left the switches.
CleanupPortscanState ==
    LET gone == {src \in DOMAIN blocks : blocks[src] >= BlockTime}
    IN  /\ gone # {}
        /\ blocks' = Without(blocks, gone)
        /\ scan' = Without(scan, gone)
        /\ recent' = [src \in Sources |-> IF src \in gone THEN NoContacts ELSE recent[src]]
        /\ UNCHANGED <<datapaths, rules>>

Overdue == {r \in DOMAIN rules : rules[r] >= BlockTime}

\* A switch removes a rule that has reached its hard timeout.
RuleExpires(r) ==
    /\ r \in Overdue
    /\ rules' = Without(rules, {r})
    /\ UNCHANGED <<datapaths, scan, blocks, recent>>

\* Switches remove what is overdue before the next tick.
Tick ==
    /\ Overdue = {}
    /\ blocks' = Aged(blocks, BlockTime)
    /\ rules' = Aged(rules, BlockTime)
    /\ recent' = [src \in Sources |-> Aged(recent[src], Never)]
    /\ UNCHANGED <<datapaths, scan>>

Connect(s) ==
    /\ s \notin datapaths
    /\ datapaths' = datapaths \cup {s}
    /\ UNCHANGED <<scan, blocks, rules, recent>>

Disconnect(s) ==
    /\ s \in datapaths
    /\ datapaths' = datapaths \ {s}
    /\ UNCHANGED <<scan, blocks, rules, recent>>

Next ==
    \/ \E src \in Sources, port \in DstPorts, s \in Switches : PacketIn(src, port, s)
    \/ CleanupPortscanState
    \/ Tick
    \/ \E r \in Overdue : RuleExpires(r)
    \/ \E s \in Switches : Connect(s) \/ Disconnect(s)

Spec == Init /\ [][Next]_vars

\* Time passes, switches remove overdue rules and the monitor greenlet runs.
ScanFairness ==
    /\ WF_vars(Tick) /\ WF_vars(CleanupPortscanState)
    /\ WF_vars(\E r \in Overdue : RuleExpires(r))

FairSpec == Spec /\ ScanFairness

-----------------------------------------------------------------------------
(* Properties *)

IsAges(f, keys, bound) == f \in [DOMAIN f -> 0..bound] /\ DOMAIN f \subseteq keys

\* Every table has keys of its kind and ages within its bound.
TypeOK ==
    /\ datapaths \subseteq Switches
    /\ scan \in [DOMAIN scan -> [ports : SUBSET DstPorts, alerted : BOOLEAN]]
    /\ DOMAIN scan \subseteq Sources
    /\ IsAges(blocks, Sources, BlockTime)
    /\ IsAges(rules, Switches \X Sources, BlockTime)
    /\ recent \in [Sources -> [DstPorts -> 0..Never]]

\* A source with Limit ports in the window was detected: what the window holds
\* never exceeds what the entry counts, although the two forget at different
\* moments, the entry by the cleanup and the window as time passes
\* (_check_port_scan, _cleanup_portscan_state).
ScansAreAlerted ==
    \A src \in Sources :
        Cardinality(WindowPorts(src)) >= Limit
          => src \in DOMAIN scan /\ scan[src].alerted

\* A source that was detected once, has no block and cannot be detected again.
Missed(src) == src \in DOMAIN scan /\ scan[src].alerted /\ src \notin DOMAIN blocks

\* A packet of the source is counted in this step, when its block is over and the
\* monitor has not yet forgotten it.
Returns(src) ==
    /\ src \in DOMAIN blocks /\ ~Blocked(src)
    /\ \E port \in DstPorts : recent[src][port]' = 0

\* A source is missed only because it returned: nothing else that ends a block,
\* and no rule that runs out before or after it, leaves the alerted entry of a
\* source behind.
MissedSourcesReturn == [][\A src \in Sources : Missed(src)' => Missed(src) \/ Returns(src)]_vars

\* A detected source is dropped on every switch connected at that moment.
DroppedEverywhere ==
    [][\A src \in DOMAIN blocks' \ DOMAIN blocks :
          \A s \in datapaths : <<s, src>> \in DOMAIN rules']_vars

\* A block does not last: its source is forgotten, or counted again.
BlockExpires(src) == src \in DOMAIN blocks ~> src \notin DOMAIN blocks

\* A source with Limit counted ports within the window is blocked.
ScanDetected ==
    \A src \in Sources :
        Cardinality(WindowPorts(src)) >= Limit => src \in DOMAIN blocks

=============================================================================
