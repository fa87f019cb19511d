-------------------------- MODULE PortScan_proofs ---------------------------
(***************************************************************************)
(* Theorems of PortScan for every set of sources, ports and switches and   *)
(* every limit, window and block time.                                     *)
(*                                                                         *)
(* The block of a source and its rules may end in either order: what is    *)
(* proved of detection holds in both.                                      *)
(***************************************************************************)
EXTENDS PortScan, FiniteSetTheorems, TLAPS

\* A tick keeps a table within its bound.
LEMMA AgedTyped ==
    ASSUME NEW f, NEW K, NEW n \in Nat, IsAges(f, K, n)
    PROVE  IsAges(Aged(f, n), K, n)
BY DEF IsAges, Aged

\* Forgetting keys keeps a table within its bound.
LEMMA WithoutTyped ==
    ASSUME NEW f, NEW K, NEW n, NEW S, IsAges(f, K, n)
    PROVE  IsAges(Without(f, S), K, n)
BY DEF IsAges, Without

\* The entry of a source stays an entry after a contact.
LEMMA CountedTyped ==
    ASSUME TypeOK, NEW src \in Sources, NEW port \in DstPorts
    PROVE  Counted(src, port) \in [ports : SUBSET DstPorts, alerted : BOOLEAN]
BY DEF Counted, TypeOK

LEMMA InitTyped == Init => TypeOK
<1> SUFFICES ASSUME Init PROVE TypeOK
  OBVIOUS
<1>1. Never \in Nat
  BY PortScanAssumption DEF Never
<1>2. IsAges(blocks, Sources, BlockTime) /\ IsAges(rules, Switches \X Sources, BlockTime)
  BY DEF Init, NoEntry, IsAges
<1>3. scan \in [DOMAIN scan -> [ports : SUBSET DstPorts, alerted : BOOLEAN]]
      /\ DOMAIN scan \subseteq Sources
  BY DEF Init, NoEntry
<1>4. recent \in [Sources -> [DstPorts -> 0..Never]]
  BY <1>1 DEF Init, NoContacts
<1> QED
  BY <1>2, <1>3, <1>4 DEF Init, TypeOK

LEMMA PacketInTyped ==
    ASSUME TypeOK, NEW src \in Sources, NEW port \in DstPorts, NEW s \in Switches,
           PacketIn(src, port, s)
    PROVE  TypeOK'
<1> DEFINE entry == Counted(src, port)
           detected == Cardinality(entry.ports) >= Limit /\ ~entry.alerted
           new == {<<d, src>> : d \in datapaths \cup {s}}
<1>1. TypeOK /\ BlockTime \in Nat \ {0} /\ Window \in Nat
  BY PortScanAssumption
<1>2. /\ datapaths' \subseteq Switches
      /\ scan' \in [DOMAIN scan' -> [ports : SUBSET DstPorts, alerted : BOOLEAN]]
      /\ DOMAIN scan' \subseteq Sources
  <2>1. entry \in [ports : SUBSET DstPorts, alerted : BOOLEAN]
    BY <1>1, CountedTyped
  <2>2. \E b \in BOOLEAN :
          scan' = [x \in DOMAIN scan \cup {src} |->
                     IF x = src THEN [entry EXCEPT !.alerted = b] ELSE scan[x]]
    BY <2>1 DEF PacketIn
  <2> HIDE DEF entry
  <2>3. PICK b \in BOOLEAN :
          scan' = [x \in DOMAIN scan \cup {src} |->
                     IF x = src THEN [entry EXCEPT !.alerted = b] ELSE scan[x]]
    BY <2>2
  <2>4. [entry EXCEPT !.alerted = b] \in [ports : SUBSET DstPorts, alerted : BOOLEAN]
    BY <2>1
  <2>5. \A x \in DOMAIN scan : scan[x] \in [ports : SUBSET DstPorts, alerted : BOOLEAN]
    BY <1>1 DEF TypeOK
  <2>6. DOMAIN scan' = DOMAIN scan \cup {src}
    BY <2>3
  <2>7. scan' \in [DOMAIN scan' -> [ports : SUBSET DstPorts, alerted : BOOLEAN]]
    BY <2>3, <2>4, <2>5, <2>6
  <2> QED
    BY <1>1, <2>6, <2>7 DEF TypeOK, PacketIn
<1>3. recent' \in [Sources -> [DstPorts -> 0..Never]]
  BY <1>1 DEF TypeOK, PacketIn, Never
<1>4. CASE detected
  <2>1. /\ blocks' = [x \in DOMAIN blocks \cup {src} |-> IF x = src THEN 0 ELSE blocks[x]]
        /\ rules' = [r \in DOMAIN rules \cup new |-> IF r \in new THEN 0 ELSE rules[r]]
    BY <1>4 DEF PacketIn, InstallPortscanDrop
  <2>2. IsAges(blocks', Sources, BlockTime)
    BY <1>1, <2>1 DEF TypeOK, IsAges
  <2>3. new \subseteq Switches \X Sources
    BY <1>1 DEF TypeOK
  <2> HIDE DEF new
  <2>4. IsAges(rules', Switches \X Sources, BlockTime)
    <3>1. 0 \in 0..BlockTime /\ \A r \in DOMAIN rules : rules[r] \in 0..BlockTime
      BY <1>1 DEF TypeOK, IsAges
    <3>2. DOMAIN rules' = DOMAIN rules \cup new
      BY <2>1
    <3>3. rules' \in [DOMAIN rules' -> 0..BlockTime]
      BY <2>1, <3>1, <3>2
    <3> QED
      BY <1>1, <2>3, <3>2, <3>3 DEF TypeOK, IsAges
  <2> QED
    BY <1>2, <1>3, <2>2, <2>4 DEF TypeOK
<1>5. CASE ~detected
  <2>1. blocks' = Without(blocks, {src}) /\ rules' = rules
    BY <1>5 DEF PacketIn
  <2>2. /\ IsAges(blocks', Sources, BlockTime)
        /\ IsAges(rules', Switches \X Sources, BlockTime)
    BY <1>1, <2>1, WithoutTyped DEF TypeOK
  <2> QED
    BY <1>2, <1>3, <2>2 DEF TypeOK
<1> QED
  BY <1>4, <1>5

LEMMA CleanupTyped ==
    ASSUME TypeOK, CleanupPortscanState
    PROVE  TypeOK'
<1> DEFINE gone == {src \in DOMAIN blocks : blocks[src] >= BlockTime}
<1>1. /\ blocks' = Without(blocks, gone) /\ scan' = Without(scan, gone)
      /\ rules' = rules /\ datapaths' = datapaths
      /\ recent' = [src \in Sources |-> IF src \in gone THEN NoContacts ELSE recent[src]]
  BY DEF CleanupPortscanState
<1>2. BlockTime \in Nat \ {0} /\ Never \in Nat
  BY PortScanAssumption DEF Never
<1> HIDE DEF gone
<1>4. IsAges(blocks', Sources, BlockTime)
  BY <1>1, WithoutTyped DEF TypeOK
<1>5. scan' \in [DOMAIN scan' -> [ports : SUBSET DstPorts, alerted : BOOLEAN]]
      /\ DOMAIN scan' \subseteq Sources
  BY <1>1 DEF TypeOK, Without
<1>6. recent' \in [Sources -> [DstPorts -> 0..Never]]
  BY <1>1, <1>2 DEF TypeOK, NoContacts
<1> QED
  BY <1>1, <1>4, <1>5, <1>6 DEF TypeOK

LEMMA TickTyped ==
    ASSUME TypeOK, Tick
    PROVE  TypeOK'
<1>1. BlockTime \in Nat \ {0} /\ BlockTime \in Nat /\ Never \in Nat
  BY PortScanAssumption DEF Never
<1>2. IsAges(blocks', Sources, BlockTime)
  BY <1>1, AgedTyped DEF TypeOK, Tick
<1>3. IsAges(rules', Switches \X Sources, BlockTime)
  BY <1>1, AgedTyped DEF TypeOK, Tick
<1>4. recent' \in [Sources -> [DstPorts -> 0..Never]]
  <2>1. \A src \in Sources : Aged(recent[src], Never) \in [DstPorts -> 0..Never]
    BY <1>1 DEF TypeOK, Aged
  <2> QED
    BY <2>1 DEF Tick
<1> QED
  BY <1>2, <1>3, <1>4 DEF TypeOK, Tick

LEMMA NextTyped == TypeOK /\ [Next]_vars => TypeOK'
<1> SUFFICES ASSUME TypeOK, [Next]_vars PROVE TypeOK'
  OBVIOUS
<1>1. CASE \E src \in Sources, port \in DstPorts, s \in Switches : PacketIn(src, port, s)
  BY <1>1, PacketInTyped
<1>2. CASE CleanupPortscanState
  BY <1>2, CleanupTyped
<1>3. CASE Tick
  BY <1>3, TickTyped
<1>4. CASE \E r \in Overdue : RuleExpires(r)
  BY <1>4, WithoutTyped DEF TypeOK, RuleExpires
<1>5. CASE \E s \in Switches : Connect(s) \/ Disconnect(s)
  BY <1>5 DEF TypeOK, IsAges, Connect, Disconnect
<1>6. CASE UNCHANGED vars
  BY <1>6 DEF TypeOK, IsAges, vars
<1> QED
  BY <1>1, <1>2, <1>3, <1>5, <1>6, <1>4 DEF Next

\* The tables of the detection stay within their bounds, whatever the order in
\* which blocks and rules end.
THEOREM PortScanTyped == Spec => []TypeOK
BY InitTyped, NextTyped, PTL DEF Spec

\* A detected source is dropped on every switch connected at that moment.
THEOREM DetectionDropsEverywhere == Spec => DroppedEverywhere
<1> DEFINE Dropped == \A src \in DOMAIN blocks' \ DOMAIN blocks :
                         \A s \in datapaths : <<s, src>> \in DOMAIN rules'
<1>1. TypeOK /\ [Next]_vars => [Dropped]_vars
  <2> SUFFICES ASSUME TypeOK, Next PROVE Dropped
    BY DEF vars
  <2>1. ASSUME NEW src \in Sources, NEW port \in DstPorts, NEW s \in Switches,
               PacketIn(src, port, s)
        PROVE  Dropped
    <3>1. CASE DOMAIN blocks' \subseteq DOMAIN blocks
      BY <3>1
    <3>2. CASE ~(DOMAIN blocks' \subseteq DOMAIN blocks)
      <4>1. /\ DOMAIN blocks' = DOMAIN blocks \cup {src}
            /\ InstallPortscanDrop(s, src)
        BY <2>1, <3>2 DEF PacketIn, Without
      <4> QED
        BY <4>1 DEF InstallPortscanDrop
    <3> QED
      BY <3>1, <3>2
  <2>2. ASSUME CleanupPortscanState PROVE Dropped
    BY <2>2 DEF CleanupPortscanState, Without
  <2>3. ASSUME Tick \/ \E r \in Overdue : RuleExpires(r) PROVE Dropped
    BY <2>3 DEF Tick, Aged, RuleExpires
  <2>4. ASSUME NEW s \in Switches, Connect(s) \/ Disconnect(s) PROVE Dropped
    BY <2>4 DEF Connect, Disconnect
  <2> QED
    BY <2>1, <2>2, <2>3, <2>4 DEF Next
<1> QED
  BY <1>1, PortScanTyped, PTL DEF Spec, DroppedEverywhere

-----------------------------------------------------------------------------
(* Detection: what is true of the scans that ScanDetected says are blocked *)

\* The entry of a source, and what it holds: every port of the window, a finite
\* set, and fewer ports than the limit as long as the source was not detected.
IsEntry(e) ==
    /\ e \in [ports : SUBSET DstPorts, alerted : BOOLEAN]
    /\ IsFiniteSet(e.ports)
    /\ ~e.alerted => Cardinality(e.ports) < Limit

EntriesHoldWindow ==
    /\ \A src \in DOMAIN scan : IsEntry(scan[src])
    /\ \A src \in Sources, p \in DstPorts :
          recent[src][p] <= Window => src \in DOMAIN scan /\ p \in scan[src].ports

LEMMA InitEntries == Init => EntriesHoldWindow
BY PortScanAssumption DEF Init, EntriesHoldWindow, NoEntry, NoContacts, Never

\* The entry after a contact, detected or not.
LEMMA CountedIsEntry ==
    ASSUME TypeOK, EntriesHoldWindow, NEW src \in Sources, NEW port \in DstPorts,
           NEW b \in BOOLEAN,
           b = (\/ Counted(src, port).alerted
                \/ Cardinality(Counted(src, port).ports) >= Limit)
    PROVE  /\ IsEntry([Counted(src, port) EXCEPT !.alerted = b])
           /\ port \in Counted(src, port).ports
           /\ src \in DOMAIN scan => scan[src].ports \subseteq Counted(src, port).ports
<1> DEFINE entry == Counted(src, port)
<1>1. entry \in [ports : SUBSET DstPorts, alerted : BOOLEAN]
  BY CountedTyped
<1>2. /\ port \in entry.ports
      /\ src \in DOMAIN scan => scan[src].ports \subseteq entry.ports
  BY DEF Counted, TypeOK
<1>3. IsFiniteSet(entry.ports)
  <2>1. CASE src \in DOMAIN scan
    <3>1. IsFiniteSet(scan[src].ports \cup {port})
      BY <2>1, FS_AddElement DEF EntriesHoldWindow, IsEntry
    <3>2. entry.ports = scan[src].ports \cup {port}
      BY <2>1 DEF Counted, TypeOK
    <3> QED
      BY <3>1, <3>2
  <2>2. CASE src \notin DOMAIN scan
    <3>1. IsFiniteSet({port}) /\ entry.ports = {port}
      BY <2>2, FS_Singleton DEF Counted
    <3> QED
      BY <3>1
  <2> QED
    BY <2>1, <2>2
<1> HIDE DEF entry
<1>4. Cardinality(entry.ports) \in Nat /\ Limit \in Nat
  BY <1>3, FS_CardinalityType, PortScanAssumption
<1>5. ~b => Cardinality(entry.ports) < Limit
  BY <1>4 DEF entry
<1>6. IsEntry([entry EXCEPT !.alerted = b])
  BY <1>1, <1>3, <1>5 DEF IsEntry
<1> QED
  BY <1>2, <1>6 DEF entry

LEMMA NextEntries == TypeOK /\ EntriesHoldWindow /\ [Next]_vars => EntriesHoldWindow'
<1> SUFFICES ASSUME TypeOK, EntriesHoldWindow, [Next]_vars PROVE EntriesHoldWindow'
  OBVIOUS
<1>0. TypeOK /\ Window \in Nat
  BY PortScanAssumption
<1>1. ASSUME NEW src \in Sources, NEW port \in DstPorts, NEW s \in Switches,
             PacketIn(src, port, s)
      PROVE  EntriesHoldWindow'
  <2> DEFINE entry == Counted(src, port)
             b == entry.alerted \/ Cardinality(entry.ports) >= Limit
             after == [entry EXCEPT !.alerted = b]
  <2>1. entry \in [ports : SUBSET DstPorts, alerted : BOOLEAN]
    BY <1>0, CountedTyped
  <2>2. /\ b \in BOOLEAN
        /\ (entry.alerted \/ (Cardinality(entry.ports) >= Limit /\ ~entry.alerted)) = b
    BY <2>1
  <2>3. /\ IsEntry(after) /\ port \in entry.ports
        /\ src \in DOMAIN scan => scan[src].ports \subseteq entry.ports
    BY <1>0, <2>2, CountedIsEntry
  <2>4. /\ scan' = [x \in DOMAIN scan \cup {src} |-> IF x = src THEN after ELSE scan[x]]
        /\ recent' = [recent EXCEPT ![src][port] = 0]
    BY <1>1, <2>1, <2>2 DEF PacketIn
  <2>5. after.ports = entry.ports
    BY <2>1
  <2> HIDE DEF entry, b, after
  <2>6. \A x \in DOMAIN scan' : IsEntry(scan'[x])
    BY <2>3, <2>4 DEF EntriesHoldWindow
  <2>7. ASSUME NEW x \in Sources, NEW p \in DstPorts, recent'[x][p] <= Window
        PROVE  x \in DOMAIN scan' /\ p \in scan'[x].ports
    <3>1. CASE x = src /\ p = port
      BY <2>3, <2>4, <2>5, <3>1
    <3>2. CASE ~(x = src /\ p = port)
      <4>1. recent'[x][p] = recent[x][p]
        BY <1>0, <2>4, <3>2 DEF TypeOK
      <4>2. x \in DOMAIN scan /\ p \in scan[x].ports
        BY <2>7, <4>1 DEF EntriesHoldWindow
      <4> QED
        BY <2>3, <2>4, <2>5, <4>2
    <3> QED
      BY <3>1, <3>2
  <2> QED
    BY <2>6, <2>7 DEF EntriesHoldWindow, IsEntry
<1>2. ASSUME CleanupPortscanState PROVE EntriesHoldWindow'
  <2> DEFINE gone == {src \in DOMAIN blocks : blocks[src] >= BlockTime}
  <2>1. /\ scan' = Without(scan, gone)
        /\ recent' = [src \in Sources |-> IF src \in gone THEN NoContacts ELSE recent[src]]
    BY <1>2 DEF CleanupPortscanState
  <2> HIDE DEF gone
  <2>2. \A x \in DOMAIN scan' : IsEntry(scan'[x])
    BY <2>1 DEF EntriesHoldWindow, Without
  <2>3. ASSUME NEW x \in Sources, NEW p \in DstPorts, recent'[x][p] <= Window
        PROVE  x \in DOMAIN scan' /\ p \in scan'[x].ports
    <3>1. x \notin gone /\ recent'[x] = recent[x]
      BY <1>0, <2>1, <2>3 DEF NoContacts, Never
    <3>2. x \in DOMAIN scan /\ p \in scan[x].ports
      BY <2>3, <3>1 DEF EntriesHoldWindow
    <3> QED
      BY <2>1, <3>1, <3>2 DEF Without
  <2> QED
    BY <2>2, <2>3 DEF EntriesHoldWindow, IsEntry
<1>3. ASSUME Tick PROVE EntriesHoldWindow'
  <2>1. scan' = scan /\ recent' = [src \in Sources |-> Aged(recent[src], Never)]
    BY <1>3 DEF Tick
  <2>2. ASSUME NEW x \in Sources, NEW p \in DstPorts, recent'[x][p] <= Window
        PROVE  recent[x][p] <= Window
    <3>1. recent[x][p] \in 0..Never /\ DOMAIN recent[x] = DstPorts
      BY <1>0 DEF TypeOK
    <3>2. recent'[x][p] = IF recent[x][p] < Never THEN recent[x][p] + 1 ELSE recent[x][p]
      BY <2>1, <3>1 DEF Aged
    <3> QED
      BY <1>0, <2>2, <3>1, <3>2 DEF Never
  <2> QED
    BY <2>1, <2>2 DEF EntriesHoldWindow, IsEntry
<1>4. ASSUME \/ \E s \in Switches : Connect(s) \/ Disconnect(s)
             \/ \E r \in Overdue : RuleExpires(r)
             \/ UNCHANGED vars
      PROVE  EntriesHoldWindow'
  BY <1>4 DEF RuleExpires, Connect, Disconnect, vars, EntriesHoldWindow, IsEntry
<1> QED
  BY <1>1, <1>2, <1>3, <1>4 DEF Next

\* A source that contacts Limit ports within the window is detected.
THEOREM ScansAreDetected == Spec => []ScansAreAlerted
<1>1. TypeOK /\ EntriesHoldWindow => ScansAreAlerted
  <2> SUFFICES ASSUME TypeOK, EntriesHoldWindow, NEW src \in Sources,
                      Cardinality(WindowPorts(src)) >= Limit
               PROVE  src \in DOMAIN scan /\ scan[src].alerted
    BY DEF ScansAreAlerted
  <2>1. CASE WindowPorts(src) = {}
    BY <2>1, FS_EmptySet, PortScanAssumption
  <2>2. CASE WindowPorts(src) # {}
    <3>1. src \in DOMAIN scan /\ WindowPorts(src) \subseteq scan[src].ports
      BY <2>2 DEF WindowPorts, EntriesHoldWindow
    <3>2. IsEntry(scan[src])
      BY <3>1 DEF EntriesHoldWindow
    <3>3. /\ Cardinality(scan[src].ports) \in Nat
          /\ Cardinality(WindowPorts(src)) \in Nat
          /\ Cardinality(WindowPorts(src)) <= Cardinality(scan[src].ports)
      BY <3>1, <3>2, FS_Subset, FS_CardinalityType DEF IsEntry
    <3>4. Cardinality(scan[src].ports) >= Limit
      BY <3>3, PortScanAssumption
    <3> QED
      BY <3>1, <3>2, <3>3, <3>4, PortScanAssumption DEF IsEntry
  <2> QED
    BY <2>1, <2>2
<1> QED
  BY <1>1, InitTyped, NextTyped, InitEntries, NextEntries, PTL DEF Spec

\* The only sources ScanDetected misses: those that came back after their block.
THEOREM OnlyReturningSourcesAreMissed == Spec => MissedSourcesReturn
<1> DEFINE Step == \A src \in Sources : Missed(src)' => Missed(src) \/ Returns(src)
<1>1. TypeOK /\ [Next]_vars => Step
  <2> SUFFICES ASSUME TypeOK, [Next]_vars, NEW src \in Sources, Missed(src)'
               PROVE  Missed(src) \/ Returns(src)
    OBVIOUS
  <2>1. ASSUME NEW x \in Sources, NEW port \in DstPorts, NEW s \in Switches,
               PacketIn(x, port, s)
        PROVE  Missed(src) \/ Returns(src)
    <3> DEFINE entry == Counted(x, port)
               detected == Cardinality(entry.ports) >= Limit /\ ~entry.alerted
    <3>1. entry \in [ports : SUBSET DstPorts, alerted : BOOLEAN]
      BY <2>1, CountedTyped
    <3>2. /\ scan' = [y \in DOMAIN scan \cup {x} |->
                        IF y = x THEN [entry EXCEPT !.alerted = entry.alerted \/ detected]
                        ELSE scan[y]]
          /\ ~Blocked(x) /\ recent'[x][port] = 0
      BY <2>1, <3>1 DEF PacketIn, TypeOK
    <3>3. CASE detected
      <4>1. DOMAIN blocks' = DOMAIN blocks \cup {x}
        BY <2>1, <3>3 DEF PacketIn
      <4>2. src # x /\ src \notin DOMAIN blocks
        BY <4>1 DEF Missed
      <4> QED
        BY <3>2, <4>2 DEF Missed
    <3>4. CASE ~detected
      <4>1. DOMAIN blocks' = DOMAIN blocks \ {x}
        BY <2>1, <3>4 DEF PacketIn, Without
      <4>2. CASE src = x
        <5>1. scan'[x] = [entry EXCEPT !.alerted = entry.alerted \/ detected]
          BY <3>2
        <5>2. scan'[x].alerted
          BY <4>2 DEF Missed
        <5>3. scan'[x].alerted = (entry.alerted \/ detected)
          BY <3>1, <5>1
        <5>4. entry.alerted
          BY <3>4, <5>2, <5>3
        <5>5. src \in DOMAIN scan /\ scan[src].alerted
          BY <4>2, <5>4 DEF Counted, TypeOK
        <5> QED
          BY <3>2, <4>2, <5>5 DEF Missed, Returns
      <4>3. CASE src # x
        BY <3>2, <4>1, <4>3 DEF Missed
      <4> QED
        BY <4>2, <4>3
    <3> QED
      BY <3>3, <3>4
  <2>2. ASSUME CleanupPortscanState PROVE Missed(src) \/ Returns(src)
    <3> DEFINE gone == {y \in DOMAIN blocks : blocks[y] >= BlockTime}
    <3>1. scan' = Without(scan, gone) /\ blocks' = Without(blocks, gone)
      BY <2>2 DEF CleanupPortscanState
    <3> HIDE DEF gone
    <3> QED
      BY <3>1 DEF Missed, Without
  <2>3. ASSUME Tick PROVE Missed(src) \/ Returns(src)
    BY <2>3 DEF Tick, Aged, Missed
  <2>4. ASSUME \/ \E s \in Switches : Connect(s) \/ Disconnect(s)
               \/ \E r \in Overdue : RuleExpires(r)
               \/ UNCHANGED vars
        PROVE  Missed(src) \/ Returns(src)
    BY <2>4 DEF RuleExpires, Connect, Disconnect, vars, Missed
  <2> QED
    BY <2>1, <2>2, <2>3, <2>4 DEF Next
<1>2. Spec => []TypeOK
  BY InitTyped, NextTyped, PTL DEF Spec
<1> QED
  BY <1>1, <1>2, PTL DEF Spec, MissedSourcesReturn

=============================================================================
