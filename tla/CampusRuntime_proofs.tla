-------------------------- MODULE CampusRuntime_proofs --------------------------
(***************************************************************************)
(* For any hosts, callers and processes: the runtime API loses sight of no *)
(* process it started, except where a request overwrites its own entry,    *)
(* and runs one flood at most.                                             *)
(*                                                                         *)
(* Three tables hold processes, and a request that ends those of one table *)
(* must not end or forget those of another one: no process is in two       *)
(* tables (Apart).  A request that ends floods types a command on one host *)
(* after the other; until it empties the table, what it has dealt with has *)
(* ended (Killing).                                                        *)
(***************************************************************************)
EXTENDS CampusRuntime, FunctionTheorems, FiniteSetTheorems, WellFoundedInduction, TLAPS

Sessions == [host : Hosts, proc : Pids, probe : BOOLEAN]

TablesTyped ==
    /\ alive \subseteq Pids /\ lost \subseteq Pids
    /\ sessions \subseteq Sessions
    /\ stress \in [Hosts -> Pids \cup {NoProc}]
    /\ attack \in [Hosts -> Pids \cup {NoProc}]

HostsTyped ==
    /\ net \subseteq Hosts /\ meta \subseteq Hosts
    /\ goal \in Hosts \cup {Nobody}
    /\ doing \in {"arp", "flood"} => goal \in Hosts

Apart ==
    /\ \A s \in sessions, h \in Hosts : s.proc # stress[h] /\ s.proc # attack[h]
    /\ \A g, h \in Hosts : stress[g] # NoProc => stress[g] # attack[h]

InTables ==
    \A p \in alive : \/ p \in lost \/ \E s \in sessions : s.proc = p
                     \/ \E h \in Hosts : stress[h] = p \/ attack[h] = p

FloodsKnown == \A p \in floods : p \in alive /\ \E h \in Hosts : attack[h] = p

OneAttacker == \A g, h \in Attackers : g = h

Killing ==
    /\ doing = "kill" => \A h \in Attackers \ todo : attack[h] \notin alive
    /\ doing = "flood" => Attackers = {}

RuntimeInv ==
    /\ TablesTyped /\ HostsTyped
    /\ Apart /\ InTables /\ FloodsKnown /\ OneAttacker /\ Killing

-----------------------------------------------------------------------------
LEMMA NoProcIsNoPid == NoProc \notin Pids
BY RuntimeAssumption DEF NoProc

LEMMA TrackedMeans ==
    \A p : p \in Tracked <=> \/ \E s \in sessions : s.proc = p
                             \/ \E h \in Hosts : stress[h] = p \/ attack[h] = p
BY DEF Tracked

\* A new process is none of those that run or are in a table.
LEMMA NewPidIsNew ==
    ASSUME Free # {}
    PROVE  /\ NewPid \in Pids /\ NewPid # NoProc /\ NewPid \notin alive
           /\ \A s \in sessions : s.proc # NewPid
           /\ \A h \in Hosts : stress[h] # NewPid /\ attack[h] # NewPid
<1>1. NewPid \in Free
  BY DEF NewPid
<1> QED
  BY <1>1, TrackedMeans, NoProcIsNoPid DEF Free

LEMMA InitRuntimeInv == RuntimeInit => RuntimeInv
<1> SUFFICES ASSUME RuntimeInit PROVE RuntimeInv
  OBVIOUS
<1>1. Attackers = {}
  BY DEF RuntimeInit, Attackers
<1>2. TablesTyped
  BY DEF RuntimeInit, TablesTyped
<1>3. HostsTyped
  BY RuntimeAssumption DEF RuntimeInit, HostsTyped
<1>4. Apart /\ InTables /\ FloodsKnown /\ OneAttacker /\ Killing
  BY <1>1 DEF RuntimeInit, Apart, InTables, FloodsKnown, OneAttacker, Killing
<1> QED
  BY <1>2, <1>3, <1>4 DEF RuntimeInv

\* Steps that change no table.
LEMMA TablesKept ==
    ASSUME RuntimeInv, UNCHANGED procVars, HostsTyped', Killing'
    PROVE  RuntimeInv'
BY DEF RuntimeInv, procVars, TablesTyped, Apart, InTables, FloodsKnown, OneAttacker, Attackers

\* Steps that leave the lock, and what its owner does, alone.
LEMMA SameLock ==
    ASSUME RuntimeInv, UNCHANGED <<net, meta, goal, doing, todo>>
    PROVE  HostsTyped'
BY DEF RuntimeInv, HostsTyped

-----------------------------------------------------------------------------
(* Sessions *)

\* Whatever begins or ends is a session, and the tables say so; a stress client
\* that has ended may be forgotten.
LEMMA SessionsChange ==
    ASSUME RuntimeInv, HostsTyped', UNCHANGED <<floods, lost, attack>>,
           doing' \in {"kill", "flood"} => UNCHANGED <<doing, todo>>,
           sessions' \subseteq Sessions, alive' \subseteq Pids,
           stress' \in [Hosts -> Pids \cup {NoProc}],
           \A h \in Hosts : \/ stress'[h] = stress[h]
                            \/ stress'[h] = NoProc /\ stress[h] \notin alive',
           \A s \in sessions' : s \in sessions \/ (Free # {} /\ s.proc = NewPid),
           \A p \in alive' : p \in alive \/ \E s \in sessions' : s.proc = p,
           \A s \in sessions : s.proc \in alive' => \E r \in sessions' : r.proc = s.proc,
           \A p \in alive \ alive' : \E s \in sessions : s.proc = p
    PROVE  RuntimeInv'
<1> USE DEF RuntimeInv
<1>1. TablesTyped'
  BY DEF TablesTyped
<1>2. Apart'
  <2>1. \A s \in sessions' : s.proc \in Pids /\ s.proc # NoProc
    BY NoProcIsNoPid DEF Sessions
  <2>2. \A s \in sessions', h \in Hosts : s.proc # stress[h] /\ s.proc # attack[h]
    BY NewPidIsNew DEF Apart
  <2> QED
    BY <2>1, <2>2 DEF Apart
<1>3. InTables'
  BY DEF InTables
<1>4. FloodsKnown'
  BY DEF FloodsKnown, Apart
<1>5. OneAttacker'
  BY DEF OneAttacker, Attackers
<1>6. Killing'
  <2>1. \A s \in sessions', h \in Hosts : s.proc # attack[h]
    BY <1>2 DEF Apart
  <2> QED
    BY <2>1 DEF Killing, Attackers
<1> QED
  BY <1>1, <1>2, <1>3, <1>4, <1>5, <1>6

LEMMA CleanupKeeps ==
    ASSUME RuntimeInv, Cleanup, HostsTyped', UNCHANGED <<alive, floods, lost, attack>>,
           stress' \in [Hosts -> Pids \cup {NoProc}],
           \A h \in Hosts : \/ stress'[h] = stress[h]
                            \/ stress'[h] = NoProc /\ stress[h] \notin alive,
           doing' \in {"kill", "flood"} => UNCHANGED <<doing, todo>>
    PROVE  RuntimeInv'
<1>1. sessions' = {s \in sessions : s.proc \in alive}
  BY DEF Cleanup, LiveSessions
<1>2. sessions' \subseteq Sessions /\ alive' \subseteq Pids
  BY <1>1 DEF RuntimeInv, TablesTyped
<1> QED
  BY <1>1, <1>2, SessionsChange

\* A request that ends by showing a device leaves nothing to kill.
LEMMA ShowDeviceHolds ==
    ASSUME RuntimeInv, NEW c, NEW h, ShowDevice(c, h)
    PROVE  HostsTyped' /\ doing' \notin {"kill", "flood"}
<1>1. doing' = "device" /\ goal' = Nobody /\ UNCHANGED hostVars
  BY DEF ShowDevice, HoldLock
<1> QED
  BY <1>1 DEF RuntimeInv, HostsTyped, hostVars

LEMMA GetDeviceKeeps ==
    ASSUME RuntimeInv, NEW c \in Callers, GetDevice(c) PROVE RuntimeInv'
<1>1. HostsTyped' /\ doing' \notin {"kill", "flood"} /\ UNCHANGED procVars
  BY ShowDeviceHolds DEF GetDevice
<1> QED
  BY <1>1, TablesKept DEF Killing

LEMMA GetDeviceWorkspaceKeeps ==
    ASSUME RuntimeInv, NEW c \in Callers, GetDeviceWorkspace(c) PROVE RuntimeInv'
<1>1. /\ HostsTyped' /\ doing' \notin {"kill", "flood"} /\ Cleanup
      /\ UNCHANGED <<alive, floods, lost, stress, attack>>
  BY ShowDeviceHolds DEF GetDeviceWorkspace
<1> QED
  BY <1>1, CleanupKeeps DEF RuntimeInv, TablesTyped

LEMMA LaunchSessionKeeps ==
    ASSUME RuntimeInv, NEW c \in Callers, LaunchSession(c) PROVE RuntimeInv'
<1>1. PICK h \in net, probe \in BOOLEAN :
         /\ ShowDevice(c, h) /\ Free # {} /\ alive' = alive \cup {NewPid}
         /\ sessions' = LiveSessions \cup {[host |-> h, proc |-> NewPid, probe |-> probe]}
         /\ UNCHANGED <<floods, lost, stress, attack>>
  BY DEF LaunchSession
<1>2. HostsTyped' /\ doing' \notin {"kill", "flood"}
  BY <1>1, ShowDeviceHolds
<1>3. h \in Hosts /\ NewPid \in Pids
  BY <1>1, NewPidIsNew DEF RuntimeInv, HostsTyped
<1>4. sessions' \subseteq Sessions /\ alive' \subseteq Pids
  BY <1>1, <1>3 DEF RuntimeInv, TablesTyped, LiveSessions, Sessions
<1>5. \A s \in sessions' : s \in sessions \/ (Free # {} /\ s.proc = NewPid)
  BY <1>1 DEF LiveSessions
<1>6. \A p \in alive' : p \in alive \/ \E s \in sessions' : s.proc = p
  <2> DEFINE new == [host |-> h, proc |-> NewPid, probe |-> probe]
  <2>1. new \in sessions' /\ new.proc = NewPid
    BY <1>1
  <2> QED
    BY <1>1, <2>1
<1>7. \A s \in sessions : s.proc \in alive' => s \in sessions'
  BY <1>1, NewPidIsNew DEF LiveSessions
<1> QED
  BY <1>2, <1>1, <1>4, <1>5, <1>6, <1>7, SessionsChange DEF RuntimeInv, TablesTyped

LEMMA StopSessionsKeeps ==
    ASSUME RuntimeInv, NEW c \in Callers, StopSessions(c) PROVE RuntimeInv'
<1>1. PICK h \in net :
         /\ ShowDevice(c, h) /\ UNCHANGED <<floods, lost, stress, attack>>
         /\ alive' = alive \ {s.proc : s \in {x \in sessions : x.host = h}}
         /\ sessions' = {s \in LiveSessions : s.host # h}
  BY DEF StopSessions
<1>2. HostsTyped' /\ doing' \notin {"kill", "flood"}
  BY <1>1, ShowDeviceHolds
<1>3. sessions' \subseteq Sessions /\ alive' \subseteq Pids
  BY <1>1 DEF RuntimeInv, TablesTyped, LiveSessions
<1>4. \A s \in sessions : s.proc \in alive' => s \in sessions'
  BY <1>1 DEF LiveSessions
<1>5. \A p \in alive \ alive' : \E s \in sessions : s.proc = p
  BY <1>1
<1>6. sessions' \subseteq sessions /\ alive' \subseteq alive
  BY <1>1 DEF LiveSessions
<1> QED
  BY <1>2, <1>1, <1>3, <1>4, <1>5, <1>6, SessionsChange DEF RuntimeInv, TablesTyped

LEMMA GetOperationsKeeps ==
    ASSUME RuntimeInv, GetOperations PROVE RuntimeInv'
<1>1. HostsTyped'
  BY SameLock DEF GetOperations, hostVars, lockVars
<1>2. stress' = [h \in Hosts |-> IF stress[h] \in alive THEN stress[h] ELSE NoProc]
  BY DEF GetOperations
<1>3. /\ stress' \in [Hosts -> Pids \cup {NoProc}]
      /\ \A h \in Hosts : \/ stress'[h] = stress[h]
                          \/ stress'[h] = NoProc /\ stress[h] \notin alive
  BY <1>2 DEF RuntimeInv, TablesTyped
<1> QED
  BY <1>1, <1>3, CleanupKeeps DEF GetOperations, lockVars

LEMMA DeviceCommandKeeps ==
    ASSUME RuntimeInv, NEW c \in Callers, DeviceCommand(c) PROVE RuntimeInv'
<1>1. doing' = "command" /\ goal' = Nobody /\ UNCHANGED <<net, meta, alive, floods, lost, stress, attack>>
  BY DEF DeviceCommand, HoldLock, hostVars
<1>2. HostsTyped'
  BY <1>1 DEF RuntimeInv, HostsTyped
<1> QED
  BY <1>1, <1>2, CleanupKeeps DEF DeviceCommand, RuntimeInv, TablesTyped

LEMMA EndDeviceCommandKeeps ==
    ASSUME RuntimeInv, NEW c \in Callers, EndDeviceCommand(c) PROVE RuntimeInv'
<1>1. /\ doing' \in {"nothing", "device"} /\ goal' \in {goal, Nobody}
      /\ UNCHANGED <<net, meta, alive, floods, lost, stress, attack>>
  BY DEF EndDeviceCommand, Release, Continue, hostVars
<1>2. HostsTyped'
  BY <1>1 DEF RuntimeInv, HostsTyped
<1>3. CASE Cleanup
  BY <1>1, <1>2, <1>3, CleanupKeeps DEF RuntimeInv, TablesTyped
<1>4. CASE UNCHANGED sessions
  BY <1>1, <1>2, <1>4, TablesKept DEF Killing, procVars
<1> QED
  BY <1>3, <1>4 DEF EndDeviceCommand

-----------------------------------------------------------------------------
(* Stress clients *)

LEMMA StressChange ==
    ASSUME RuntimeInv, HostsTyped', UNCHANGED <<floods, sessions, attack, doing, todo>>,
           stress' \in [Hosts -> Pids \cup {NoProc}], alive' \subseteq Pids,
           \A h \in Hosts : stress'[h] \in StressProcs \cup Free \cup {NoProc},
           lost' \subseteq Pids, lost \subseteq lost',
           alive' \subseteq alive \cup Free \cup StressProcs,
           \A p \in alive' : p \in alive \cup lost' \/ \E h \in Hosts : stress'[h] = p,
           \A h \in Hosts : stress[h] \in alive' =>
               stress[h] \in lost' \/ \E g \in Hosts : stress'[g] = stress[h],
           \A p \in alive \ alive' : p \in StressProcs
    PROVE  RuntimeInv'
<1> USE DEF RuntimeInv
<1>1. TablesTyped'
  BY DEF TablesTyped
<1>2. Apart'
  BY TrackedMeans, NoProcIsNoPid DEF Apart, StressProcs, Free, TablesTyped, Sessions
<1>3. InTables'
  BY DEF InTables
<1>4. FloodsKnown'
  BY DEF FloodsKnown, Apart, StressProcs
<1>5. OneAttacker'
  BY DEF OneAttacker, Attackers
<1>6. Killing'
  <2>1. \A h \in Attackers : attack[h] \notin Free \cup StressProcs
    BY TrackedMeans DEF Attackers, Apart, StressProcs, Free
  <2> QED
    BY <2>1 DEF Killing, Attackers
<1> QED
  BY <1>1, <1>2, <1>3, <1>4, <1>5, <1>6

\* There is a process for each client.
LEMMA EnoughPids ==
    ASSUME NEW S, NEW T, IsFiniteSet(S), IsFiniteSet(T), Cardinality(T) >= Cardinality(S)
    PROVE  \E f \in [S -> T] : \A g, h \in S : f[g] = f[h] => g = h
<1>1. Cardinality(S) \in Nat /\ Cardinality(T) \in Nat
  BY FS_CardinalityType
<1>2. PICK f \in Bijection(S, 1..Cardinality(S)) : TRUE
  BY FS_CardinalityType, Fun_ExistsBijSymmetric, Fun_ExistsBij
<1>3. PICK b \in Bijection(1..Cardinality(T), T) : TRUE
  BY FS_CardinalityType, Fun_ExistsBij
<1>4. /\ f \in [S -> 1..Cardinality(S)]
      /\ \A g, h \in S : f[g] = f[h] => g = h
  <2> DEFINE numbers == 1..Cardinality(S)
  <2>1. f \in Bijection(S, numbers)
    BY <1>2
  <2> HIDE DEF numbers
  <2>2. f \in [S -> numbers] /\ \A g, h \in S : f[g] = f[h] => g = h
    BY <2>1, Fun_BijectionProperties
  <2> QED
    BY <2>2 DEF numbers
<1>5. /\ b \in [1..Cardinality(T) -> T]
      /\ \A i, j \in 1..Cardinality(T) : b[i] = b[j] => i = j
  BY <1>3, Fun_BijectionProperties
<1>6. \A h \in S : f[h] \in 1..Cardinality(T)
  BY <1>1, <1>4
<1> DEFINE given == [h \in S |-> b[f[h]]]
<1>7. given \in [S -> T] /\ \A g, h \in S : given[g] = given[h] => g = h
  BY <1>4, <1>5, <1>6
<1> QED
  BY <1>7

LEMMA StartStressKeeps ==
    ASSUME RuntimeInv, StartStress PROVE RuntimeInv'
<1>1. HostsTyped'
  BY SameLock DEF StartStress, Quick, hostVars, lockVars
<1> DEFINE free == Free \cup StressProcs
           givenTo(clients) == CHOOSE f \in [clients -> free] :
                                   \A g, h \in clients : f[g] = f[h] => g = h
<1>2. PICK clients \in SUBSET net :
         /\ Cardinality(free) >= Cardinality(clients)
         /\ stress' = [h \in Hosts |-> IF h \in clients THEN givenTo(clients)[h] ELSE NoProc]
         /\ \E replaced \in SUBSET (free \ {givenTo(clients)[h] : h \in clients}) :
               /\ alive' = (alive \ StressProcs) \cup {givenTo(clients)[h] : h \in clients}
                                               \cup replaced
               /\ lost' = lost \cup replaced
         /\ UNCHANGED <<floods, sessions, attack, doing, todo>>
  BY DEF StartStress, Quick, lockVars
<1>3. free \subseteq Pids /\ clients \subseteq Hosts
  BY <1>2 DEF Free, StressProcs, RuntimeInv, TablesTyped, HostsTyped
<1>4. IsFiniteSet(free) /\ IsFiniteSet(clients)
  BY <1>3, RuntimeAssumption, FS_Subset
<1>5. givenTo(clients) \in [clients -> free]
  BY <1>2, <1>4, EnoughPids
<1> DEFINE f == givenTo(clients)
<1> HIDE DEF givenTo
<1>6. PICK replaced \in SUBSET free :
         /\ alive' = (alive \ StressProcs) \cup {f[h] : h \in clients} \cup replaced
         /\ lost' = lost \cup replaced
  BY <1>2
<1>7. \A h \in clients : f[h] \in Free \cup StressProcs /\ f[h] \in Pids
  BY <1>3, <1>5
<1>8. /\ stress' \in [Hosts -> Pids \cup {NoProc}] /\ alive' \subseteq Pids
      /\ lost' \subseteq Pids /\ lost \subseteq lost'
  BY <1>2, <1>3, <1>6, <1>7 DEF RuntimeInv, TablesTyped
<1>9. \A h \in Hosts : stress'[h] \in StressProcs \cup Free \cup {NoProc}
  BY <1>2, <1>7
<1>10. \A p \in alive' : \/ p \in alive /\ p \notin StressProcs
                        \/ p \in lost' \/ \E h \in Hosts : stress'[h] = p
  BY <1>2, <1>3, <1>6
<1>11. \A h \in Hosts : stress[h] \in alive' =>
           stress[h] \in lost' \/ \E g \in Hosts : stress'[g] = stress[h]
  BY <1>8, <1>10, NoProcIsNoPid DEF StressProcs
<1>12. \A p \in alive \ alive' : p \in StressProcs
  BY <1>6
<1>13. alive' \subseteq alive \cup Free \cup StressProcs
  BY <1>6, <1>7
<1> QED
  BY <1>1, <1>2, <1>8, <1>9, <1>10, <1>11, <1>12, <1>13, StressChange

LEMMA StopStressKeeps ==
    ASSUME RuntimeInv, StopStress PROVE RuntimeInv'
<1>1. HostsTyped'
  BY SameLock DEF StopStress, Quick, hostVars, lockVars
<1>2. /\ alive' = alive \ StressProcs /\ stress' = [h \in Hosts |-> NoProc]
      /\ UNCHANGED <<floods, lost, sessions, attack, doing, todo>>
  BY DEF StopStress, Quick, lockVars
<1>3. alive' \subseteq Pids /\ lost' \subseteq Pids /\ \A h \in Hosts : stress[h] \notin alive'
  BY <1>2, NoProcIsNoPid DEF StressProcs, RuntimeInv, TablesTyped
<1> QED
  BY <1>1, <1>2, <1>3, StressChange

LEMMA RemoveHostKeeps ==
    ASSUME RuntimeInv, RemoveHost PROVE RuntimeInv'
<1>1. PICK d \in meta :
         /\ net' = net \ {d} /\ meta' = meta \ {d}
         /\ alive' = alive \ {stress[d]} /\ stress' = [stress EXCEPT ![d] = NoProc]
         /\ UNCHANGED <<goal, floods, lost, sessions, attack, doing, todo>>
  BY DEF RemoveHost, Quick, lockVars
<1>2. HostsTyped' /\ d \in Hosts
  BY <1>1 DEF RuntimeInv, HostsTyped
<1>3. /\ stress' \in [Hosts -> Pids \cup {NoProc}] /\ stress'[d] = NoProc
      /\ \A h \in Hosts \ {d} : stress'[h] = stress[h]
      /\ alive' \subseteq Pids /\ lost' \subseteq Pids
  BY <1>1, <1>2 DEF RuntimeInv, TablesTyped
<1>4. \A h \in Hosts : stress[h] # NoProc => stress[h] \in StressProcs
  BY DEF StressProcs
<1>5. stress[d] \notin alive'
  BY <1>1
<1>6. \A p \in alive \ alive' : p \in StressProcs
  BY <1>1, <1>2, <1>4, NoProcIsNoPid DEF RuntimeInv, TablesTyped
<1> QED
  BY <1>1, <1>2, <1>3, <1>4, <1>5, <1>6, StressChange

-----------------------------------------------------------------------------
(* Floods *)

\* Processes end, and attacks that have ended may be forgotten.
LEMMA ProcessesEnd ==
    ASSUME RuntimeInv, HostsTyped', Killing', UNCHANGED <<sessions, stress>>,
           alive' \subseteq alive, lost' \subseteq lost, lost \cap alive' \subseteq lost', floods' \subseteq floods \cap alive',
           attack' \in [Hosts -> Pids \cup {NoProc}],
           \A h \in Hosts : \/ attack'[h] = attack[h]
                            \/ attack'[h] = NoProc /\ attack[h] \notin alive'
    PROVE  RuntimeInv'
<1> USE DEF RuntimeInv
<1>1. TablesTyped'
  BY DEF TablesTyped
<1>2. Apart'
  BY NoProcIsNoPid DEF Apart, TablesTyped, Sessions
<1>3. InTables'
  BY DEF InTables
<1>4. FloodsKnown'
  BY DEF FloodsKnown
<1>5. OneAttacker'
  BY DEF OneAttacker, Attackers
<1> QED
  BY <1>1, <1>2, <1>3, <1>4, <1>5

\* start_attack and stop_attack begin with every attacker still to be dealt with.
LEMMA BeginKillKeeps ==
    ASSUME RuntimeInv, NEW c \in Callers, StartAttack(c) \/ StopAttack(c) PROVE RuntimeInv'
<1>1. /\ doing' = "kill" /\ todo' = Attackers /\ goal' \in net \cup {Nobody}
      /\ UNCHANGED <<hostVars, procVars>>
  BY DEF StartAttack, StopAttack, HoldLock
<1>2. HostsTyped'
  BY <1>1 DEF RuntimeInv, HostsTyped, hostVars
<1>3. Killing'
  BY <1>1 DEF Killing, Attackers, procVars
<1> QED
  BY <1>1, <1>2, <1>3, TablesKept

LEMMA KillKeeps ==
    ASSUME RuntimeInv, NEW c \in Callers, Kill(c) PROVE RuntimeInv'
<1> DEFINE h == Least(todo)
<1> HIDE DEF h
<1>1. CASE UNCHANGED <<procVars, hostVars, lockVars>>
  BY <1>1, SameLock, TablesKept
  DEF RuntimeInv, Killing, Attackers, procVars, hostVars, lockVars
<1>2. CASE /\ doing = "kill" /\ doing' = "kill" /\ todo' = todo \ {h}
           /\ alive' = alive \ {attack[h]} /\ floods' = floods \ {attack[h]}
           /\ UNCHANGED <<hostVars, goal, lost, sessions, stress, attack>>
  <2>1. HostsTyped'
    BY <1>2 DEF RuntimeInv, HostsTyped, hostVars
  <2>2. Killing'
    BY <1>2 DEF RuntimeInv, Killing, Attackers
  <2>3. floods' \subseteq floods \cap alive'
    BY <1>2 DEF RuntimeInv, FloodsKnown
  <2> QED
    BY <1>2, <2>1, <2>2, <2>3, ProcessesEnd DEF RuntimeInv, TablesTyped
<1> QED
  BY <1>1, <1>2 DEF Kill, Continue, procVars, h

LEMMA KilledKeeps ==
    ASSUME RuntimeInv, NEW c \in Callers, Killed(c) PROVE RuntimeInv'
<1>1. PICK h : /\ doing = "kill" /\ doing' = "kill" /\ todo' = todo \ {h}
               /\ alive' = alive \ (floods \cup {attack[h]}) /\ floods' = {}
               /\ UNCHANGED <<hostVars, goal, lost, sessions, stress, attack>>
  BY DEF Killed, Continue
<1>2. HostsTyped'
  BY <1>1 DEF RuntimeInv, HostsTyped, hostVars
<1>3. Killing'
  BY <1>1 DEF RuntimeInv, Killing, Attackers
<1> QED
  BY <1>1, <1>2, <1>3, ProcessesEnd DEF RuntimeInv, TablesTyped

\* What the emptied table held has ended.
LEMMA EndKillKeeps ==
    ASSUME RuntimeInv, NEW c \in Callers, EndKill(c) PROVE RuntimeInv'
<1>1. /\ doing = "kill" /\ todo = {} /\ attack' = [h \in Hosts |-> NoProc]
      /\ doing' = "nothing" \/ (doing' = "flood" /\ goal \in Hosts)
      /\ goal' = goal \/ (goal' = Nobody /\ doing' = "nothing")
      /\ UNCHANGED <<hostVars, alive, floods, lost, sessions, stress>>
  BY DEF EndKill, Release, Continue, RuntimeInv, HostsTyped
<1>2. HostsTyped'
  BY <1>1 DEF RuntimeInv, HostsTyped, hostVars
<1>3. Attackers' = {}
  BY <1>1 DEF Attackers
<1>4. Killing'
  BY <1>1, <1>3 DEF Killing
<1>5. \A h \in Hosts : attack[h] \notin alive'
  BY <1>1, NoProcIsNoPid DEF RuntimeInv, Killing, Attackers, TablesTyped
<1>6. floods' \subseteq floods \cap alive'
  BY <1>1 DEF RuntimeInv, FloodsKnown
<1> QED
  BY <1>1, <1>2, <1>4, <1>5, <1>6, ProcessesEnd

LEMMA FloodKeeps ==
    ASSUME RuntimeInv, NEW c \in Callers, Flood(c) PROVE RuntimeInv'
<1>1. /\ doing = "flood" /\ Free # {} /\ doing' = "nothing" /\ goal' = Nobody
      /\ alive' = alive \cup {NewPid} /\ floods' = floods \cup {NewPid}
      /\ attack' = [attack EXCEPT ![goal] = NewPid]
      /\ UNCHANGED <<hostVars, lost, sessions, stress>>
  BY DEF Flood, Release
<1>2. goal \in Hosts /\ Attackers = {} /\ NewPid \in Pids
  BY <1>1, NewPidIsNew DEF RuntimeInv, HostsTyped, Killing
<1>3. /\ attack' \in [Hosts -> Pids \cup {NoProc}] /\ attack'[goal] = NewPid
      /\ \A h \in Hosts \ {goal} : attack'[h] = NoProc /\ attack[h] = NoProc
      /\ attack[goal] = NoProc
  BY <1>1, <1>2 DEF RuntimeInv, TablesTyped, Attackers
<1>4. TablesTyped' /\ HostsTyped'
  BY <1>1, <1>2, <1>3 DEF RuntimeInv, TablesTyped, HostsTyped, hostVars
<1>5. floods = {}
  BY <1>3, NoProcIsNoPid DEF RuntimeInv, FloodsKnown, TablesTyped
<1>6. Apart'
  BY <1>1, <1>3, NewPidIsNew, NoProcIsNoPid DEF RuntimeInv, Apart, TablesTyped, Sessions
<1>7. InTables'
  BY <1>1, <1>2, <1>3, NoProcIsNoPid DEF RuntimeInv, InTables, TablesTyped
<1>8. FloodsKnown'
  BY <1>1, <1>2, <1>3, <1>5 DEF FloodsKnown
<1>9. OneAttacker' /\ Killing'
  BY <1>1, <1>3 DEF OneAttacker, Killing, Attackers
<1> QED
  BY <1>4, <1>6, <1>7, <1>8, <1>9 DEF RuntimeInv

LEMMA GetAttackStatusKeeps ==
    ASSUME RuntimeInv, GetAttackStatus PROVE RuntimeInv'
<1>1. HostsTyped'
  BY SameLock DEF GetAttackStatus, Quick, hostVars, lockVars
<1>2. /\ attack' = [h \in Hosts |-> IF attack[h] \in alive THEN attack[h] ELSE NoProc]
      /\ UNCHANGED <<alive, floods, lost, sessions, stress, doing, todo>>
  BY DEF GetAttackStatus, Quick, lockVars
<1>3. /\ attack' \in [Hosts -> Pids \cup {NoProc}]
      /\ \A h \in Hosts : \/ attack'[h] = attack[h]
                          \/ attack'[h] = NoProc /\ attack[h] \notin alive'
  BY <1>2 DEF RuntimeInv, TablesTyped
<1>4. Killing' /\ floods' \subseteq floods \cap alive'
  BY <1>2, <1>3 DEF RuntimeInv, Killing, Attackers, FloodsKnown
<1> QED
  BY <1>1, <1>2, <1>3, <1>4, ProcessesEnd

LEMMA ProcessEndsKeeps ==
    ASSUME RuntimeInv, NEW p \in Pids, ProcessEnds(p) PROVE RuntimeInv'
<1>1. HostsTyped'
  BY SameLock DEF ProcessEnds, hostVars, lockVars
<1>2. /\ alive' = alive \ {p} /\ floods' = floods \ {p} /\ lost' = lost \ {p}
      /\ UNCHANGED <<sessions, stress, attack, doing, todo>>
  BY DEF ProcessEnds, lockVars
<1>3. Killing' /\ floods' \subseteq floods \cap alive'
  BY <1>2 DEF RuntimeInv, Killing, Attackers, FloodsKnown
<1> QED
  BY <1>1, <1>2, <1>3, ProcessesEnd DEF RuntimeInv, TablesTyped

-----------------------------------------------------------------------------
(* The other requests change no table *)

LEMMA HostRequestKeeps ==
    ASSUME RuntimeInv, NEW c \in Callers, AddHost(c) \/ UpdateHost(c) PROVE RuntimeInv'
<1>1. PICK d \in Dynamic \cup meta :
         /\ doing' = "arp" /\ goal' = d /\ net' \in {net, net \cup {d}}
         /\ UNCHANGED <<meta, procVars>>
  BY DEF AddHost, UpdateHost, HoldLock
<1>2. d \in Hosts
  BY RuntimeAssumption DEF RuntimeInv, HostsTyped
<1>3. HostsTyped' /\ Killing'
  BY <1>1, <1>2 DEF RuntimeInv, HostsTyped, Killing
<1> QED
  BY <1>1, <1>3, TablesKept

LEMMA PingallKeeps ==
    ASSUME RuntimeInv, NEW c \in Callers, Pingall(c) PROVE RuntimeInv'
<1>1. doing' = "settle" /\ goal' = Nobody /\ UNCHANGED <<hostVars, procVars>>
  BY DEF Pingall, HoldLock
<1>2. HostsTyped' /\ Killing'
  BY <1>1 DEF RuntimeInv, HostsTyped, Killing, hostVars
<1> QED
  BY <1>1, <1>2, TablesKept

LEMMA WalkingKeeps ==
    ASSUME RuntimeInv, NEW c \in Callers,
           Settle(c) \/ Walk(c) \/ Walked(c) \/ WalkRaised(c) \/ AttackFails(c)
    PROVE  RuntimeInv'
<1>1. /\ UNCHANGED <<net, procVars>>
      /\ meta' = meta \/ (doing = "arp" /\ meta' = meta \cup {goal})
      /\ \/ doing' = "nothing" /\ goal' = Nobody
         \/ doing' \in {"ping", "device"} /\ goal' = goal
         \/ doing' = "arp" /\ doing = "arp" /\ goal' = goal
  <2>1. CASE Settle(c)
    BY <2>1 DEF Settle, Release, Continue, hostVars
  <2>2. CASE Walk(c)
    BY <2>2 DEF Walk, hostVars, lockVars, procVars
  <2>3. CASE Walked(c)
    BY <2>3 DEF Walked, Release, Continue
  <2>4. CASE WalkRaised(c)
    BY <2>4 DEF WalkRaised, Release, hostVars
  <2>5. CASE AttackFails(c)
    BY <2>5 DEF AttackFails, Release, hostVars
  <2> QED
    BY <2>1, <2>2, <2>3, <2>4, <2>5
<1>2. HostsTyped' /\ Killing'
  BY <1>1 DEF RuntimeInv, HostsTyped, Killing
<1> QED
  BY <1>1, <1>2, TablesKept

LEMMA ElsewhereKeeps ==
    ASSUME RuntimeInv, UNCHANGED <<hostVars, lockVars, procVars>> PROVE RuntimeInv'
<1>1. HostsTyped' /\ Killing'
  BY SameLock DEF RuntimeInv, Killing, Attackers, hostVars, lockVars, procVars
<1> QED
  BY <1>1, TablesKept

LEMMA NextRuntimeInv == RuntimeInv /\ [RuntimeNext]_runtimeVars => RuntimeInv'
<1> SUFFICES ASSUME RuntimeInv, [RuntimeNext]_runtimeVars PROVE RuntimeInv'
  OBVIOUS
<1>1. ASSUME NEW c \in Callers, Serve(c) PROVE RuntimeInv'
  <2>1. CASE Refuse
    BY <2>1, ElsewhereKeeps DEF Refuse, Quick
  <2> QED
    BY <1>1, <2>1, PingallKeeps, GetDeviceKeeps, GetDeviceWorkspaceKeeps, LaunchSessionKeeps,
       StopSessionsKeeps, DeviceCommandKeeps, StartStressKeeps, StopStressKeeps,
       BeginKillKeeps, GetAttackStatusKeeps, HostRequestKeeps, RemoveHostKeeps
    DEF Serve
<1>2. ASSUME NEW c \in Callers, Proceed(c) PROVE RuntimeInv'
  BY <1>2, WalkingKeeps, EndDeviceCommandKeeps, KillKeeps, KilledKeeps, EndKillKeeps,
     FloodKeeps DEF Proceed
<1>3. CASE Arrive \/ ContextHook \/ UNCHANGED runtimeVars
  BY <1>3, ElsewhereKeeps DEF Arrive, ContextHook, ContextStat, ContextRead, runtimeVars
<1>4. ASSUME NEW t, CallTraffic(t) \/ EndTraffic(t) \/ InShell(t) \/ ShellOf(t)
      PROVE  RuntimeInv'
  BY <1>4, ElsewhereKeeps DEF CallTraffic, EndTraffic, InShell, ShellOf, apiVars
<1> QED
  BY <1>1, <1>2, <1>3, <1>4, GetOperationsKeeps, ProcessEndsKeeps DEF RuntimeNext

\* Whatever requests fail midway, whatever hosts are removed and whatever
\* processes end by themselves: each process that runs is named in a table, unless
\* the request that started it overwrote its entry, and at most one flood runs
\* (run_device_action, start_stress, start_attack, _kill_attack_procs, remove_host).
THEOREM EveryProcessTracked == RuntimeSpec => []NothingRunsUntracked
<1>1. ASSUME RuntimeInv PROVE NothingRunsUntracked
  <2>1. alive \subseteq Tracked \cup lost
    BY <1>1, TrackedMeans DEF RuntimeInv, InTables
  <2>2. floods \subseteq alive \cap {attack[h] : h \in Attackers}
    BY <1>1, NoProcIsNoPid DEF RuntimeInv, FloodsKnown, TablesTyped, Attackers
  <2>3. Cardinality(Attackers) <= 1
    <3>1. CASE Attackers = {}
      BY <3>1, FS_EmptySet
    <3>2. CASE Attackers # {}
      <4>1. PICK h \in Attackers : TRUE
        BY <3>2
      <4>2. Attackers = {h}
        BY <1>1, <4>1 DEF RuntimeInv, OneAttacker
      <4>3. Cardinality({h}) = 1
        BY FS_Singleton
      <4> QED
        BY <4>2, <4>3
    <3> QED
      BY <3>1, <3>2
  <2> QED
    BY <2>1, <2>2, <2>3 DEF NothingRunsUntracked
<1> QED
  BY <1>1, InitRuntimeInv, NextRuntimeInv, PTL DEF RuntimeSpec

-----------------------------------------------------------------------------
(* The shells.  Unless two threads met in a gap, a shell has one thread in *)
(* it at most, and what it has still to run or printed is that thread's.   *)

InShellNow(t) == call[t].step \in {"checked", "typed", "test", "read"}

ShellTyped ==
    /\ waiting \in [Hosts -> BOOLEAN]
    /\ typed \in [Hosts -> Seq(Threads)] /\ output \in [Hosts -> Seq(Threads)]
    /\ got \in [Threads -> SUBSET Threads]
    /\ DOMAIN call = Threads /\ crossed \in BOOLEAN
    /\ \A t \in Threads : call[t].step \in Steps \cup {"none"}
    /\ \A t \in Threads : InShellNow(t) => call[t] \in [host : Hosts, step : Steps]

Silent(h) == typed[h] = <<>> /\ output[h] = <<>>

HoldsOnly(h, t) ==
    \/ typed[h] = <<t>> /\ output[h] = <<>>
    \/ typed[h] = <<>> /\ output[h] = <<t>>

\* How far a thread is, and what its shell and it have got.
ThreadOK(t) ==
    LET h == call[t].host
        step == call[t].step
    IN  /\ step = "checked" => ~waiting[h] /\ Silent(h) /\ got[t] = {}
        /\ step = "typed" => ~waiting[h] /\ HoldsOnly(h, t) /\ got[t] = {}
        /\ step = "test" => \/ waiting[h] /\ HoldsOnly(h, t) /\ got[t] = {}
                            \/ ~waiting[h] /\ Silent(h) /\ got[t] = {t}
        /\ step = "read" => waiting[h] /\ HoldsOnly(h, t) /\ got[t] = {}
        /\ step = "done" => got[t] = {t}
        /\ step \in {"none", "raised"} => got[t] = {}

OneInside ==
    \A t, u \in Threads :
        InShellNow(t) /\ InShellNow(u) /\ call[t].host = call[u].host => t = u

EmptyIsSilent ==
    \A h \in Hosts : (\A t \in Threads : ~(InShellNow(t) /\ call[t].host = h))
        => Silent(h) /\ ~waiting[h]

ShellInv ==
    /\ ShellTyped
    /\ ~crossed => OneInside /\ EmptyIsSilent /\ \A t \in Threads : ThreadOK(t)

LEMMA InitShellInv == ShellInit => ShellInv
<1> SUFFICES ASSUME ShellInit PROVE ShellInv
  OBVIOUS
<1>1. ShellTyped
  <2>1. crossed \in BOOLEAN
    BY DEF ShellInit
  <2>2. \A t \in Threads : call[t].step = "none"
    BY DEF ShellInit, NoCall
  <2> QED
    BY <2>1, <2>2 DEF ShellInit, ShellTyped, InShellNow
<1>2. OneInside /\ EmptyIsSilent /\ \A t \in Threads : ThreadOK(t)
  BY DEF ShellInit, NoCall, OneInside, EmptyIsSilent, ThreadOK, InShellNow, Silent
<1> QED
  BY <1>1, <1>2 DEF ShellInv

\* A call that begins in a shell nobody is in, or ends outside of it.
LEMMA CmdKeeps ==
    ASSUME ShellInv, NEW t \in Threads, NEW h \in Hosts, Cmd(t, h) PROVE ShellInv'
<1> DEFINE new == [host |-> h, step |-> IF waiting[h] THEN "raised" ELSE "checked"]
<1>1. /\ new \in [host : Hosts, step : Steps]
      /\ new.host = h /\ new.step = IF waiting[h] THEN "raised" ELSE "checked"
  BY DEF Steps
<1> HIDE DEF new
<1>2. /\ call[t] = NoCall /\ call' = [call EXCEPT ![t] = new]
      /\ crossed' = (crossed \/ (~waiting[h] /\ \E u \in Threads : InGap(u, h)))
      /\ UNCHANGED <<waiting, typed, output, got>>
  BY DEF Cmd, new
<1>3. DOMAIN call' = Threads /\ call'[t] = new
      /\ \A u \in Threads \ {t} : call'[u] = call[u]
  BY <1>1, <1>2 DEF ShellInv, ShellTyped
<1>4. ShellTyped'
  BY <1>1, <1>2, <1>3 DEF ShellInv, ShellTyped, InShellNow
<1>5. ASSUME ~crossed' PROVE (OneInside /\ EmptyIsSilent /\ \A u \in Threads : ThreadOK(u))'
  <2>1. OneInside /\ EmptyIsSilent /\ \A u \in Threads : ThreadOK(u)
    BY <1>2, <1>5 DEF ShellInv
  <2>2. call[t].step = "none" /\ got[t] = {} /\ ~InShellNow(t)
    BY <1>2, <2>1 DEF NoCall, ThreadOK, InShellNow
  <2>3. \A u \in Threads \ {t} : InShellNow(u)' <=> InShellNow(u)
    BY <1>3 DEF InShellNow
  <2>4. ~waiting[h] => \A u \in Threads : ~(InShellNow(u) /\ call[u].host = h)
    BY <1>2, <1>5, <2>1 DEF InGap, InShellNow, ThreadOK
  <2>5. InShellNow(t)' <=> ~waiting[h]
    BY <1>1, <1>3 DEF InShellNow
  <2>6. OneInside'
    BY <1>1, <1>3, <2>1, <2>3, <2>4, <2>5 DEF OneInside
  <2>7. EmptyIsSilent'
    BY <1>2, <1>3, <2>1, <2>2, <2>3 DEF EmptyIsSilent, Silent
  <2>8. ThreadOK(t)'
    <3>1. ~waiting[h] => Silent(h)
      BY <2>1, <2>4 DEF EmptyIsSilent
    <3> QED
      BY <1>1, <1>2, <1>3, <2>2, <3>1 DEF ThreadOK, Silent
  <2>9. \A u \in Threads \ {t} : ThreadOK(u)'
    BY <1>2, <1>3, <2>1 DEF ThreadOK, Silent, HoldsOnly
  <2> QED
    BY <2>6, <2>7, <2>8, <2>9
<1> QED
  BY <1>4, <1>5 DEF ShellInv

\* A call that is over begins or ends without the shell.
LEMMA OutsideKeeps ==
    ASSUME ShellInv, NEW t \in Threads, ~InShellNow(t), NEW new, NEW read,
           \/ new.step = "done" /\ read = {t}
           \/ new.step = "none" /\ read = {},
           call' = [call EXCEPT ![t] = new], got' = [got EXCEPT ![t] = read],
           UNCHANGED <<waiting, typed, output, crossed>>
    PROVE  ShellInv'
<1>1. DOMAIN call' = Threads /\ call'[t] = new
      /\ \A u \in Threads \ {t} : call'[u] = call[u]
  BY DEF ShellInv, ShellTyped
<1>2. got' \in [Threads -> SUBSET Threads] /\ got'[t] = read
      /\ \A u \in Threads \ {t} : got'[u] = got[u]
  BY DEF ShellInv, ShellTyped
<1>3. \A u \in Threads : InShellNow(u)' <=> InShellNow(u)
  BY <1>1 DEF InShellNow
<1>4. \A u \in Threads : InShellNow(u) => call'[u] = call[u]
  BY <1>1
<1>5. ShellTyped' /\ ThreadOK(t)'
  <2>1. \A u \in Threads : call'[u].step \in Steps \cup {"none"}
    BY <1>1 DEF ShellInv, ShellTyped, Steps
  <2>2. ShellTyped'
    BY <1>1, <1>2, <1>3, <1>4, <2>1 DEF ShellInv, ShellTyped
  <2>3. ThreadOK(t)'
    BY <1>1, <1>2 DEF ThreadOK
  <2> QED
    BY <2>2, <2>3
<1>6. ASSUME ~crossed, NEW u \in Threads \ {t} PROVE ThreadOK(u)'
  <2>1. ThreadOK(u) /\ call'[u] = call[u] /\ got'[u] = got[u]
    BY <1>1, <1>2, <1>6 DEF ShellInv
  <2> QED
    BY <2>1 DEF ThreadOK, Silent, HoldsOnly
<1>7. ~crossed => (OneInside /\ EmptyIsSilent)'
  BY <1>3, <1>4 DEF ShellInv, OneInside, EmptyIsSilent, Silent
<1> QED
  BY <1>5, <1>6, <1>7 DEF ShellInv

LEMMA CmdAloneKeeps ==
    ASSUME ShellInv, NEW t \in Threads, NEW h, CmdAlone(t, h) PROVE ShellInv'
<1> DEFINE new == [host |-> h, step |-> "done"]
<1>1. new.step = "done"
  OBVIOUS
<1>2. ~InShellNow(t) /\ call' = [call EXCEPT ![t] = new] /\ got' = [got EXCEPT ![t] = {t}]
  BY DEF CmdAlone, InShellNow, NoCall
<1> QED
  BY <1>1, <1>2, OutsideKeeps DEF CmdAlone

LEMMA ReturnKeeps ==
    ASSUME ShellInv, NEW t \in Threads, call[t].step \in {"done", "raised"}, Return(t)
    PROVE  ShellInv'
<1>1. ~InShellNow(t)
  BY DEF InShellNow
<1>2. NoCall.step = "none"
  BY DEF NoCall
<1> QED
  BY <1>1, <1>2, OutsideKeeps DEF Return

\* A thread that goes on in its shell, or leaves it silent.
LEMMA InsideKeeps ==
    ASSUME ShellInv, NEW t \in Threads, InShellNow(t), NEW h \in Hosts, h = call[t].host,
           NEW step \in Steps, call' = Inside(t, step), crossed' = crossed, ShellTyped',
           \A g \in Hosts \ {h} : /\ typed'[g] = typed[g] /\ output'[g] = output[g]
                                  /\ waiting'[g] = waiting[g],
           \A u \in Threads \ {t} : got'[u] = got[u],
           ~crossed => ThreadOK(t)',
           ~crossed /\ step = "done" => typed'[h] = <<>> /\ output'[h] = <<>> /\ ~waiting'[h],
           step # "raised"
    PROVE  ShellInv'
<1>1. /\ call'[t].host = h /\ call'[t].step = step
      /\ \A u \in Threads \ {t} : call'[u] = call[u]
  <2>1. call[t] \in [host : Hosts, step : Steps]
    BY DEF ShellInv, ShellTyped
  <2>2. call'[t] = [call[t] EXCEPT !.step = step]
    BY DEF Inside, ShellInv, ShellTyped
  <2> QED
    BY <2>1, <2>2 DEF Inside, ShellInv, ShellTyped
<1>2. ASSUME ~crossed PROVE (OneInside /\ EmptyIsSilent /\ \A u \in Threads : ThreadOK(u))'
  <2>1. OneInside /\ EmptyIsSilent /\ \A u \in Threads : ThreadOK(u)
    BY <1>2 DEF ShellInv
  <2>2. \A u \in Threads \ {t} : InShellNow(u)' <=> InShellNow(u)
    BY <1>1 DEF InShellNow
  <2>3. OneInside'
    BY <1>1, <2>1, <2>2 DEF OneInside
  <2>4. EmptyIsSilent'
    <3> SUFFICES ASSUME NEW g \in Hosts,
                        \A u \in Threads : ~(InShellNow(u)' /\ call'[u].host = g)
                 PROVE  Silent(g)' /\ ~waiting'[g]
      BY DEF EmptyIsSilent
    <3>1. CASE g = h
      <4>1. step = "done"
        BY <1>1, <3>1 DEF InShellNow, Steps
      <4> QED
        BY <1>2, <3>1, <4>1 DEF Silent
    <3>2. CASE g # h
      <4>1. \A u \in Threads : ~(InShellNow(u) /\ call[u].host = g)
        BY <1>1, <2>2, <3>2
      <4> QED
        BY <2>1, <3>2, <4>1 DEF EmptyIsSilent, Silent
    <3> QED
      BY <3>1, <3>2
  <2>5. ASSUME NEW u \in Threads \ {t} PROVE ThreadOK(u)'
    <3>1. ThreadOK(u) /\ call'[u] = call[u] /\ got'[u] = got[u]
      BY <1>1, <2>1
    <3>2. CASE InShellNow(u)
      <4>1. call[u].host \in Hosts \ {h}
        BY <2>1, <3>2 DEF OneInside, ShellInv, ShellTyped
      <4> QED
        BY <3>1, <4>1 DEF ThreadOK, Silent, HoldsOnly
    <3>3. CASE ~InShellNow(u)
      BY <3>1, <3>3 DEF ThreadOK, InShellNow
    <3> QED
      BY <3>2, <3>3
  <2> QED
    BY <1>2, <2>3, <2>4, <2>5
<1> QED
  BY <1>2 DEF ShellInv

LEMMA InsideTyped ==
    ASSUME ShellTyped, NEW t \in Threads, InShellNow(t), NEW step \in Steps,
           call' = Inside(t, step)
    PROVE  /\ DOMAIN call' = Threads /\ call[t].host \in Hosts
           /\ call'[t].host = call[t].host /\ call'[t].step = step
           /\ \A u \in Threads : InShellNow(u)' => call'[u] \in [host : Hosts, step : Steps]
           /\ \A u \in Threads : call'[u].step \in Steps \cup {"none"}
<1>1. call[t] \in [host : Hosts, step : Steps]
  BY DEF ShellTyped
<1>2. call'[t] = [call[t] EXCEPT !.step = step] /\ DOMAIN call' = Threads
      /\ \A u \in Threads \ {t} : call'[u] = call[u]
  BY DEF Inside, ShellTyped
<1>3. \A u \in Threads \ {t} : InShellNow(u)' => call'[u] \in [host : Hosts, step : Steps]
  BY <1>2 DEF ShellTyped, InShellNow
<1>4. \A u \in Threads \ {t} : call'[u].step \in Steps \cup {"none"}
  BY <1>2 DEF ShellTyped
<1> QED
  BY <1>1, <1>2, <1>3, <1>4

LEMMA TypeCommandKeeps ==
    ASSUME ShellInv, NEW t \in Threads, TypeCommand(t) PROVE ShellInv'
<1> DEFINE h == call[t].host
<1>1. InShellNow(t) /\ "typed" \in Steps /\ call[t].step = "checked"
  BY DEF TypeCommand, InShellNow, Steps
<1>2. /\ h \in Hosts /\ DOMAIN call' = Threads /\ call'[t].host = h /\ call'[t].step = "typed"
      /\ \A u \in Threads : InShellNow(u)' => call'[u] \in [host : Hosts, step : Steps]
      /\ \A u \in Threads : call'[u].step \in Steps \cup {"none"}
  BY <1>1, InsideTyped DEF ShellInv, TypeCommand
<1> HIDE DEF h
<1>3. /\ typed' = [typed EXCEPT ![h] = Append(@, t)]
      /\ call' = Inside(t, "typed") /\ UNCHANGED <<waiting, output, got, crossed>>
  BY DEF TypeCommand, h
<1>4. typed[h] \in Seq(Threads) /\ typed'[h] = Append(typed[h], t)
      /\ \A g \in Hosts \ {h} : typed'[g] = typed[g]
  BY <1>2, <1>3 DEF ShellInv, ShellTyped
<1>5. Append(typed[h], t) \in Seq(Threads)
  BY <1>4
<1>6. ShellTyped'
  BY <1>2, <1>3, <1>5 DEF ShellInv, ShellTyped
<1>7. ~crossed => ThreadOK(t)'
  <2> SUFFICES ASSUME ~crossed PROVE ThreadOK(t)'
    OBVIOUS
  <2>1. ~waiting[h] /\ typed[h] = <<>> /\ output[h] = <<>> /\ got[t] = {}
    BY <1>1 DEF ShellInv, ThreadOK, Silent, h
  <2>2. typed'[h] = <<t>>
    BY <1>4, <2>1
  <2> QED
    BY <1>2, <1>3, <2>1, <2>2 DEF ThreadOK, HoldsOnly
<1> QED
  BY <1>1, <1>2, <1>3, <1>4, <1>6, <1>7, InsideKeeps DEF h

LEMMA RaiseFlagKeeps ==
    ASSUME ShellInv, NEW t \in Threads, RaiseFlag(t) PROVE ShellInv'
<1> DEFINE h == call[t].host
<1>1. InShellNow(t) /\ "test" \in Steps /\ call[t].step = "typed"
  BY DEF RaiseFlag, InShellNow, Steps
<1>2. /\ h \in Hosts /\ DOMAIN call' = Threads /\ call'[t].host = h /\ call'[t].step = "test"
      /\ \A u \in Threads : InShellNow(u)' => call'[u] \in [host : Hosts, step : Steps]
      /\ \A u \in Threads : call'[u].step \in Steps \cup {"none"}
  BY <1>1, InsideTyped DEF ShellInv, RaiseFlag
<1> HIDE DEF h
<1>3. /\ waiting' = [waiting EXCEPT ![h] = TRUE]
      /\ call' = Inside(t, "test") /\ UNCHANGED <<typed, output, got, crossed>>
  BY DEF RaiseFlag, h
<1>4. /\ waiting' \in [Hosts -> BOOLEAN] /\ waiting'[h]
      /\ \A g \in Hosts \ {h} : waiting'[g] = waiting[g]
  BY <1>2, <1>3 DEF ShellInv, ShellTyped
<1>5. ShellTyped'
  BY <1>2, <1>3, <1>4 DEF ShellInv, ShellTyped
<1>6. ~crossed => ThreadOK(t)'
  <2> SUFFICES ASSUME ~crossed PROVE ThreadOK(t)'
    OBVIOUS
  <2>1. HoldsOnly(h, t) /\ got[t] = {}
    BY <1>1 DEF ShellInv, ThreadOK, h
  <2> QED
    BY <1>2, <1>3, <1>4, <2>1 DEF ThreadOK, HoldsOnly
<1> QED
  BY <1>1, <1>2, <1>3, <1>4, <1>5, <1>6, InsideKeeps DEF h

LEMMA TestFlagKeeps ==
    ASSUME ShellInv, NEW t \in Threads, TestFlag(t) PROVE ShellInv'
<1> DEFINE h == call[t].host
           step == IF waiting[h] THEN "read" ELSE "done"
<1>1. InShellNow(t) /\ step \in Steps /\ call[t].step = "test"
  BY DEF TestFlag, InShellNow, Steps
<1>2. /\ h \in Hosts /\ DOMAIN call' = Threads /\ call'[t].host = h /\ call'[t].step = step
      /\ \A u \in Threads : InShellNow(u)' => call'[u] \in [host : Hosts, step : Steps]
      /\ \A u \in Threads : call'[u].step \in Steps \cup {"none"}
  BY <1>1, InsideTyped DEF ShellInv, TestFlag
<1>3. call' = Inside(t, step) /\ UNCHANGED <<waiting, typed, output, got, crossed>>
  BY DEF TestFlag
<1> HIDE DEF h
<1>4. ShellTyped'
  BY <1>2, <1>3 DEF ShellInv, ShellTyped
<1>5. ASSUME ~crossed
      PROVE  /\ ThreadOK(t)'
             /\ step = "done" => typed'[h] = <<>> /\ output'[h] = <<>> /\ ~waiting'[h]
  <2>1. \/ waiting[h] /\ HoldsOnly(h, t) /\ got[t] = {}
        \/ ~waiting[h] /\ Silent(h) /\ got[t] = {t}
    BY <1>1, <1>5 DEF ShellInv, ThreadOK, h
  <2>2. CASE waiting[h]
    <3>1. step = "read" /\ HoldsOnly(h, t) /\ got[t] = {}
      BY <2>1, <2>2
    <3> QED
      BY <1>2, <1>3, <2>2, <3>1 DEF ThreadOK, HoldsOnly
  <2>3. CASE ~waiting[h]
    <3>1. step = "done" /\ Silent(h) /\ got[t] = {t}
      BY <2>1, <2>3
    <3> QED
      BY <1>2, <1>3, <2>3, <3>1 DEF ThreadOK, Silent
  <2> QED
    BY <2>2, <2>3
<1> QED
  BY <1>1, <1>2, <1>3, <1>4, <1>5, InsideKeeps DEF h

LEMMA ReadOutputKeeps ==
    ASSUME ShellInv, NEW t \in Threads, ReadOutput(t) PROVE ShellInv'
<1> DEFINE h == call[t].host
<1>1. InShellNow(t) /\ "test" \in Steps /\ call[t].step = "read"
  BY DEF ReadOutput, InShellNow, Steps
<1>2. /\ h \in Hosts /\ DOMAIN call' = Threads /\ call'[t].host = h /\ call'[t].step = "test"
      /\ \A u \in Threads : InShellNow(u)' => call'[u] \in [host : Hosts, step : Steps]
      /\ \A u \in Threads : call'[u].step \in Steps \cup {"none"}
  BY <1>1, InsideTyped DEF ShellInv, ReadOutput
<1> HIDE DEF h
<1>3. PICK n \in 1..Len(output[h]) :
         /\ got' = [got EXCEPT ![t] = @ \cup {output[h][i] : i \in 1..n}]
         /\ output' = [output EXCEPT ![h] = SubSeq(@, n + 1, Len(@))]
  BY DEF ReadOutput, h
<1>4. /\ waiting' = [waiting EXCEPT ![h] = FALSE]
      /\ call' = Inside(t, "test") /\ UNCHANGED <<typed, crossed>>
  BY DEF ReadOutput, h
<1>5. output[h] \in Seq(Threads) /\ Len(output[h]) \in Nat /\ n \in Nat
  BY <1>2 DEF ShellInv, ShellTyped
<1>6. /\ output'[h] = SubSeq(output[h], n + 1, Len(output[h])) /\ output'[h] \in Seq(Threads)
      /\ \A g \in Hosts \ {h} : output'[g] = output[g]
  BY <1>2, <1>3, <1>5 DEF ShellInv, ShellTyped
<1>7. /\ got'[t] = got[t] \cup {output[h][i] : i \in 1..n} /\ got'[t] \subseteq Threads
      /\ \A u \in Threads \ {t} : got'[u] = got[u]
  BY <1>3, <1>5 DEF ShellInv, ShellTyped
<1>8. /\ waiting' \in [Hosts -> BOOLEAN] /\ ~waiting'[h]
      /\ \A g \in Hosts \ {h} : waiting'[g] = waiting[g]
  BY <1>2, <1>4 DEF ShellInv, ShellTyped
<1>9. ShellTyped'
  BY <1>2, <1>3, <1>4, <1>6, <1>7, <1>8 DEF ShellInv, ShellTyped
<1>10. ~crossed => ThreadOK(t)'
  <2> SUFFICES ASSUME ~crossed PROVE ThreadOK(t)'
    OBVIOUS
  <2>1. HoldsOnly(h, t) /\ got[t] = {}
    BY <1>1 DEF ShellInv, ThreadOK, h
  <2>2. typed[h] = <<>> /\ output[h] = <<t>> /\ n = 1
    <3>1. output[h] # <<>>
      BY <1>3
    <3>2. typed[h] = <<>> /\ output[h] = <<t>>
      BY <2>1, <3>1 DEF HoldsOnly
    <3>3. Len(output[h]) = 1
      BY <3>2
    <3> QED
      BY <1>3, <3>2, <3>3
  <2>3. output'[h] = <<>>
    BY <1>6, <2>2
  <2>4. got'[t] = {t}
    <3>1. {output[h][i] : i \in 1..n} = {t}
      BY <2>2
    <3> QED
      BY <1>7, <2>1, <3>1
  <2> QED
    BY <1>2, <1>4, <1>8, <2>2, <2>3, <2>4 DEF ThreadOK, Silent
<1> QED
  BY <1>1, <1>2, <1>4, <1>6, <1>7, <1>8, <1>9, <1>10, InsideKeeps DEF h

LEMMA ShellRunsKeeps ==
    ASSUME ShellInv, NEW h \in Hosts, ShellRuns(h) PROVE ShellInv'
<1>1. /\ typed[h] \in Seq(Threads) /\ typed[h] # <<>> /\ output[h] \in Seq(Threads)
      /\ UNCHANGED <<waiting, call, got, crossed>>
  BY DEF ShellRuns, ShellInv, ShellTyped
<1>2. /\ typed' \in [Hosts -> Seq(Threads)] /\ typed'[h] = Tail(typed[h])
      /\ output' \in [Hosts -> Seq(Threads)] /\ output'[h] = Append(output[h], Head(typed[h]))
      /\ \A g \in Hosts \ {h} : typed'[g] = typed[g] /\ output'[g] = output[g]
  BY <1>1 DEF ShellRuns, ShellInv, ShellTyped
<1>3. ShellTyped' /\ \A t \in Threads : InShellNow(t)' <=> InShellNow(t)
  BY <1>1, <1>2 DEF ShellInv, ShellTyped, InShellNow
<1>4. ASSUME ~crossed PROVE (OneInside /\ EmptyIsSilent /\ \A t \in Threads : ThreadOK(t))'
  <2>1. OneInside /\ EmptyIsSilent /\ \A t \in Threads : ThreadOK(t)
    BY <1>4 DEF ShellInv
  <2>2. PICK t \in Threads : InShellNow(t) /\ call[t].host = h
    BY <1>1, <2>1 DEF EmptyIsSilent, Silent
  <2>3. HoldsOnly(h, t) /\ typed[h] = <<t>> /\ output[h] = <<>>
    BY <1>1, <2>1, <2>2 DEF ThreadOK, InShellNow, HoldsOnly, Silent
  <2>4. typed'[h] = <<>> /\ output'[h] = <<t>>
    BY <1>2, <2>3
  <2>5. ThreadOK(t)'
    BY <1>1, <2>1, <2>2, <2>3, <2>4 DEF ThreadOK, HoldsOnly, Silent
  <2>6. ASSUME NEW u \in Threads \ {t} PROVE ThreadOK(u)'
    <3>1. CASE InShellNow(u)
      <4>1. call[u].host \in Hosts \ {h}
        BY <2>1, <2>2, <3>1 DEF OneInside, ShellInv, ShellTyped
      <4> QED
        BY <1>1, <1>2, <2>1, <4>1 DEF ThreadOK, HoldsOnly, Silent
    <3>2. CASE ~InShellNow(u)
      BY <1>1, <2>1, <3>2 DEF ThreadOK, InShellNow
    <3> QED
      BY <3>1, <3>2
  <2>7. EmptyIsSilent'
    BY <1>1, <1>2, <1>3, <2>1, <2>2 DEF EmptyIsSilent, Silent
  <2>8. OneInside'
    BY <1>1, <1>3, <2>1 DEF OneInside
  <2> QED
    BY <2>5, <2>6, <2>7, <2>8
<1> QED
  BY <1>1, <1>3, <1>4 DEF ShellInv

LEMMA ShellsAlone ==
    ASSUME ShellInv, UNCHANGED shellVars PROVE ShellInv'
BY DEF ShellInv, ShellTyped, OneInside, EmptyIsSilent, ThreadOK, InShellNow, Silent,
       HoldsOnly, shellVars

\* Requests use the shells through whole calls of cmd.
LEMMA ProceedInShell ==
    ASSUME ShellInv, NEW c \in Callers, Serve(c) \/ Proceed(c) PROVE ShellInv'
<1>1. c \in Threads /\ Background \subseteq Hosts
  BY RuntimeAssumption DEF Background
<1>2. ASSUME NEW h, Type(c, h) PROVE ShellInv'
  BY <1>1, <1>2, CmdKeeps, CmdAloneKeeps DEF Type
<1>3. ASSUME call[c].step \in {"done", "raised"}, Return(c) PROVE ShellInv'
  BY <1>1, <1>3, ReturnKeeps
<1>4. CASE Serve(c)
  <2>1. UNCHANGED shellVars \/ \E h \in net : Type(c, h)
    BY <1>4
    DEF Serve, Refuse, Quick, Pingall, GetDevice, GetDeviceWorkspace, LaunchSession, StopSessions,
        ShowDevice, HoldLock,
        DeviceCommand, StartStress, StopStress, StartAttack, StopAttack, GetAttackStatus,
        AddHost, UpdateHost, RemoveHost
  <2> QED
    BY <1>2, <2>1, ShellsAlone
<1>5. CASE Proceed(c)
  <2>1. \/ UNCHANGED shellVars
        \/ Type(c, Least(todo)) \/ Type(c, goal)
        \/ call[c].step \in {"done", "raised"} /\ Return(c)
    BY <1>5
    DEF Proceed, Settle, Walk, Walked, WalkRaised, EndDeviceCommand, Kill, Killed,
        EndKill, Flood, AttackFails
  <2> QED
    BY <1>2, <1>3, <2>1, ShellsAlone
<1> QED
  BY <1>4, <1>5

LEMMA NextShellInv == ShellInv /\ [RuntimeNext]_runtimeVars => ShellInv'
<1> SUFFICES ASSUME ShellInv, [RuntimeNext]_runtimeVars PROVE ShellInv'
  OBVIOUS
<1>1. Background \subseteq Hosts /\ Traffic \subseteq Threads
      /\ \A t \in Traffic : TypesOn[t] \subseteq Hosts
  BY RuntimeAssumption DEF Background
<1>2. CASE \E c \in Callers : Serve(c) \/ Proceed(c)
  BY <1>2, ProceedInShell
<1>3. CASE \E t \in Traffic : CallTraffic(t) \/ EndTraffic(t)
  BY <1>1, <1>3, CmdKeeps, ReturnKeeps DEF CallTraffic, EndTraffic
<1>4. CASE \E t \in Threads : InShell(t)
  BY <1>4, TypeCommandKeeps, RaiseFlagKeeps, TestFlagKeeps, ReadOutputKeeps
  DEF InShell, ShellStep
<1>5. CASE \E h \in Background : ShellOf(h)
  BY <1>1, <1>5, ShellRunsKeeps DEF ShellOf
<1>6. CASE \/ Arrive \/ GetOperations \/ ContextHook
           \/ \E p \in Pids : ProcessEnds(p)
           \/ UNCHANGED runtimeVars
  BY <1>6, ShellsAlone
  DEF Arrive, GetOperations, ContextHook, ContextStat, ContextRead, ProcessEnds, runtimeVars
<1> QED
  BY <1>2, <1>3, <1>4, <1>5, <1>6 DEF RuntimeNext

\* Unless two threads met in a gap that the flag waiting leaves, each command
\* typed into a shell gets its own output back and nothing else (mininet's cmd as
\* the requests of the API and the background traffic use it).
THEOREM CommandsGetOwnOutput == RuntimeSpec => []OwnOutput
<1>1. RuntimeInit => ShellInv
  BY InitShellInv DEF RuntimeInit
<1>2. ASSUME ShellInv PROVE OwnOutput
  <2> SUFFICES ASSUME ~crossed, NEW t \in Threads
               PROVE  got[t] \subseteq {t} /\ (call[t].step = "done" => got[t] = {t})
    BY DEF OwnOutput
  <2>1. ThreadOK(t)
    BY <1>2 DEF ShellInv
  <2>2. call[t].step \in Steps \cup {"none"}
    BY <1>2 DEF ShellInv, ShellTyped
  <2> QED
    BY <2>1, <2>2 DEF ThreadOK, Steps
<1> QED
  BY <1>1, <1>2, NextShellInv, PTL DEF RuntimeSpec

-----------------------------------------------------------------------------
(* The lock.  Exactly the request that holds it is in the middle of        *)
(* something, and only that one may have a command in a shell.             *)

HostsKnown ==
    /\ Static \subseteq net /\ net \subseteq Hosts /\ meta \subseteq Dynamic \cap net
    /\ doing = "arp" => goal \in Dynamic \cap net
    /\ addr \in [Hosts -> Addrs \cup {0}] /\ \A h \in net : addr[h] \in Addrs
    /\ context \subseteq Addrs /\ probes \subseteq Addrs
    /\ fresh \in BOOLEAN /\ hookStep \in {"stat", "read"}

RequestsFit ==
    /\ queued \in Nat /\ calls \in Nat /\ calls + queued <= MaxCalls
    /\ owner \in Callers \cup {Nobody} /\ (owner = Nobody <=> doing = "nothing")
    /\ doing \in {"nothing", "settle", "ping", "arp", "device", "command", "kill", "flood"}
    /\ todo \subseteq Hosts /\ tries \in 0..Attempts
    /\ doing \in {"ping", "arp", "device"} => todo # {}

CallsFit ==
    /\ call \in [Threads -> Calls]
    /\ \A c \in Callers \ {owner} : call[c] = NoCall
    /\ doing = "settle" => call[owner] = NoCall
    /\ doing \in {"command", "flood"} => call[owner] # NoCall

LockInv == RuntimeInv /\ HostsKnown /\ RequestsFit /\ CallsFit

LEMMA LeastIsIn ==
    ASSUME NEW S \in SUBSET Nat, S # {}
    PROVE  Least(S) \in S
<1>1. PICK x \in S : \A y \in S : ~(<<y, x>> \in OpToRel(<, Nat))
  BY NatLessThanWellFounded, WFMin
<1>2. ASSUME NEW y \in S PROVE x <= y
  <2>1. <<y, x>> \notin OpToRel(<, Nat)
    BY <1>1
  <2>2. ~(y < x)
    BY <2>1, Zenon DEF OpToRel
  <2> QED
    BY <2>2
<1> QED
  BY <1>2 DEF Least

LEMMA InitLockInv == RuntimeInit => LockInv
<1> SUFFICES ASSUME RuntimeInit PROVE LockInv
  OBVIOUS
<1>1. HostsKnown
  BY RuntimeAssumption DEF RuntimeInit, HostsKnown
<1>2. RequestsFit
  BY RuntimeAssumption DEF RuntimeInit, RequestsFit
<1>3. CallsFit
  BY RuntimeAssumption DEF RuntimeInit, ShellInit, CallsFit, Calls
<1> QED
  BY <1>1, <1>2, <1>3, InitRuntimeInv DEF LockInv

\* The context that a request writes holds addresses of hosts.
LEMMA ExemptedAreAddrs ==
    ASSUME HostsKnown PROVE Exempted \subseteq Addrs
BY DEF HostsKnown, Exempted

\* A request that gets the lock is counted, or not, and leaves the queue.
LEMMA AcquireFits ==
    ASSUME RequestsFit, Acquire, Count \/ calls' = calls
    PROVE  queued' \in Nat /\ calls' \in Nat /\ calls' + queued' <= MaxCalls
BY RuntimeAssumption DEF RequestsFit, Acquire, Count

\* A request served in one step leaves the lock as it was.
LEMMA QuickFits ==
    ASSUME LockInv, Quick PROVE RequestsFit' /\ CallsFit'
<1>1. RequestsFit'
  BY AcquireFits DEF LockInv, RequestsFit, Quick, lockVars
<1>2. CallsFit'
  BY DEF LockInv, CallsFit, Quick, lockVars, shellVars
<1> QED
  BY <1>1, <1>2

\* A command that begins, in a shell alone or not, is a call of its thread.
LEMMA TypeCalls ==
    ASSUME call \in [Threads -> Calls], NEW t \in Threads, NEW h \in Hosts,
           Type(t, h) \/ Cmd(t, h)
    PROVE  \E x \in Calls \ {NoCall} : call' = [call EXCEPT ![t] = x]
<1>1. ASSUME NEW step \in Steps
      PROVE  [host |-> h, step |-> step] \in Calls \ {NoCall}
  BY <1>1 DEF Calls, NoCall, Steps
<1>2. "raised" \in Steps /\ "checked" \in Steps /\ "done" \in Steps
  BY DEF Steps
<1> QED
  BY <1>1, <1>2 DEF Type, Cmd, CmdAlone

\* A request that keeps the lock, with a command under way or before the first one.
LEMMA HoldFits ==
    ASSUME LockInv, NEW c \in Callers, NEW hosts \in SUBSET Hosts, NEW host,
           NEW step \in {"settle", "ping", "arp", "device", "command", "kill", "flood"},
           HoldLock(c, step, hosts, host), Count \/ calls' = calls,
           tries' \in 0..Attempts, step \in {"ping", "arp", "device"} => hosts # {},
           \/ call' = call /\ step \notin {"command", "flood"}
           \/ step # "settle" /\ \E x \in Calls \ {NoCall} : call' = [call EXCEPT ![c] = x]
    PROVE  RequestsFit' /\ CallsFit'
<1>1. RequestsFit'
  BY AcquireFits, RuntimeAssumption DEF LockInv, RequestsFit, HoldLock, Nobody
<1>2. /\ call \in [Threads -> Calls] /\ c \in Threads
      /\ \A b \in Callers : call[b] = NoCall
      /\ owner' = c /\ doing' = step
  BY RuntimeAssumption DEF LockInv, CallsFit, HoldLock, Acquire, Nobody
<1>3. CASE call' = call /\ step \notin {"command", "flood"}
  BY <1>1, <1>2, <1>3 DEF CallsFit
<1>4. ASSUME step # "settle", NEW x \in Calls \ {NoCall}, call' = [call EXCEPT ![c] = x]
      PROVE  CallsFit'
  BY <1>2, <1>4 DEF CallsFit
<1> QED
  BY <1>1, <1>3, <1>4

\* Hosts and addresses change only with the three requests about hosts.
LEMMA SameHosts ==
    ASSUME LockInv, UNCHANGED hostVars, doing' = "arp" => UNCHANGED <<doing, goal>>,
           context' \in {context, Exempted'}, UNCHANGED probes,
           fresh' \in BOOLEAN, hookStep' \in {"stat", "read"}
    PROVE  HostsKnown'
<1>1. Exempted' \subseteq Addrs
  BY DEF LockInv, HostsKnown, hostVars, Exempted
<1> QED
  BY <1>1 DEF LockInv, HostsKnown, hostVars

LEMMA CleanupFits ==
    ASSUME Cleanup PROVE context' = Exempted' /\ fresh' = TRUE
BY DEF Cleanup, WriteContext

\* The requests that are served in one step.
LEMMA QuickServes ==
    ASSUME LockInv, Refuse \/ StartStress \/ StopStress \/ GetAttackStatus
    PROVE  HostsKnown' /\ RequestsFit' /\ CallsFit'
<1>1. Quick /\ UNCHANGED <<hostVars, contextVars>>
  BY DEF Refuse, StartStress, StopStress, GetAttackStatus
<1>2. HostsKnown'
  BY <1>1, SameHosts DEF Quick, lockVars, probeVars, contextVars, LockInv, HostsKnown
<1> QED
  BY <1>1, <1>2, QuickFits

\* The requests that end by showing a device.
LEMMA ShowServes ==
    ASSUME LockInv, NEW c \in Callers,
           GetDevice(c) \/ GetDeviceWorkspace(c) \/ LaunchSession(c) \/ StopSessions(c)
    PROVE  HostsKnown' /\ RequestsFit' /\ CallsFit'
<1>1. PICK h \in net :
         /\ ShowDevice(c, h)
         /\ UNCHANGED contextVars \/ (context' = Exempted' /\ fresh' = TRUE)
  BY CleanupFits DEF GetDevice, GetDeviceWorkspace, LaunchSession, StopSessions, WriteContext
<1>2. /\ HoldLock(c, "device", {h}, Nobody) /\ Count
      /\ UNCHANGED <<shellVars, hostVars, tries>>
  BY <1>1 DEF ShowDevice
<1>3. {h} \in SUBSET Hosts /\ {h} # {} /\ tries' \in 0..Attempts /\ call' = call
  BY <1>2 DEF LockInv, HostsKnown, RequestsFit, shellVars
<1>4. HostsKnown'
  BY <1>1, <1>2, SameHosts DEF HoldLock, probeVars, contextVars, LockInv, HostsKnown
<1>5. RequestsFit' /\ CallsFit'
  BY <1>2, <1>3, HoldFits
<1> QED
  BY <1>4, <1>5

LEMMA RemoveHostFits ==
    ASSUME LockInv, RemoveHost
    PROVE  HostsKnown' /\ RequestsFit' /\ CallsFit'
<1>1. PICK d \in meta :
         /\ Quick /\ owner = Nobody
         /\ net' = net \ {d} /\ meta' = meta \ {d} /\ addr' = [addr EXCEPT ![d] = 0]
         /\ UNCHANGED contextVars
  BY DEF RemoveHost, Quick, Acquire
<1>2. d \in Dynamic \cap Hosts /\ doing # "arp"
  BY <1>1 DEF LockInv, HostsKnown, RequestsFit
<1>3. /\ net' \subseteq net /\ Static \subseteq net' /\ meta' \subseteq Dynamic \cap net'
      /\ addr' \in [Hosts -> Addrs \cup {0}] /\ \A h \in net' : addr'[h] \in Addrs
  BY <1>1, <1>2, RuntimeAssumption DEF LockInv, HostsKnown
<1>4. HostsKnown'
  BY <1>1, <1>2, <1>3
  DEF LockInv, HostsKnown, Quick, lockVars, probeVars, contextVars
<1> QED
  BY <1>1, <1>4, QuickFits

\* staticArp begins with every host of the network, the new one included.
LEMMA HostRequestFits ==
    ASSUME LockInv, NEW c \in Callers, AddHost(c) \/ UpdateHost(c)
    PROVE  HostsKnown' /\ RequestsFit' /\ CallsFit'
<1>1. PICK d \in Dynamic, a \in Addrs :
         /\ HoldLock(c, "arp", net \cup {d}, d) /\ (Count \/ calls' = calls)
         /\ net' = net \cup {d} /\ addr' = [addr EXCEPT ![d] = a]
         /\ UNCHANGED <<shellVars, meta, tries, contextVars>>
  <2>1. CASE AddHost(c)
    BY <2>1, RuntimeAssumption DEF AddHost
  <2>2. CASE UpdateHost(c)
    <3>1. PICK d \in meta, a \in Addrs :
             /\ HoldLock(c, "arp", net, d) /\ Count
             /\ addr' = [addr EXCEPT ![d] = a]
             /\ UNCHANGED <<shellVars, net, meta, tries, procVars, contextVars>>
      BY <2>2 DEF UpdateHost
    <3>2. d \in Dynamic /\ net \cup {d} = net
      BY <3>1 DEF LockInv, HostsKnown
    <3> QED
      BY <3>1, <3>2
  <2> QED
    BY <2>1, <2>2
<1>2. d \in Hosts /\ net \cup {d} \subseteq Hosts
  BY RuntimeAssumption DEF LockInv, HostsKnown
<1>3. HostsKnown'
  BY <1>1, <1>2 DEF LockInv, HostsKnown, HoldLock, probeVars, contextVars
<1>4. RequestsFit' /\ CallsFit'
  BY <1>1, <1>2, HoldFits DEF shellVars, LockInv, RequestsFit
<1> QED
  BY <1>3, <1>4

LEMMA HoldServes ==
    ASSUME LockInv, NEW c \in Callers,
           Pingall(c) \/ DeviceCommand(c) \/ StartAttack(c) \/ StopAttack(c)
    PROVE  HostsKnown' /\ RequestsFit' /\ CallsFit'
<1>1. net \subseteq Hosts /\ Attackers \subseteq Hosts /\ tries \in 0..Attempts
      /\ Attempts \in 0..Attempts
  BY RuntimeAssumption DEF LockInv, HostsKnown, RequestsFit, Attackers
<1>2. /\ UNCHANGED hostVars /\ doing' # "arp" /\ UNCHANGED probeVars
      /\ UNCHANGED contextVars \/ (context' = Exempted' /\ fresh' = TRUE)
  BY CleanupFits DEF Pingall, DeviceCommand, StartAttack, StopAttack, HoldLock
<1>3. HostsKnown'
  BY <1>2, SameHosts DEF probeVars, contextVars, LockInv, HostsKnown
<1>4. CASE Pingall(c)
  BY <1>1, <1>3, <1>4, HoldFits DEF Pingall, shellVars
<1>5. CASE DeviceCommand(c)
  <2>1. PICK h \in net : /\ HoldLock(c, "command", {}, Nobody) /\ Count /\ Type(c, h)
                         /\ tries' = tries
    BY <1>5 DEF DeviceCommand
  <2>2. \E x \in Calls \ {NoCall} : call' = [call EXCEPT ![c] = x]
    BY <1>1, <2>1, TypeCalls, RuntimeAssumption DEF LockInv, CallsFit
  <2> QED
    BY <1>1, <1>3, <2>1, <2>2, HoldFits
<1>6. CASE StartAttack(c) \/ StopAttack(c)
  <2>1. PICK host : /\ HoldLock(c, "kill", Attackers, host) /\ Count
                    /\ UNCHANGED <<shellVars, tries>>
    BY <1>6 DEF StartAttack, StopAttack
  <2> QED
    BY <1>1, <1>3, <2>1, HoldFits DEF shellVars
<1> QED
  BY <1>4, <1>5, <1>6

-----------------------------------------------------------------------------
(* The request that holds the lock goes on *)

\* It gives the lock back, and has no command in a shell.
LEMMA ReleaseFits ==
    ASSUME LockInv, NEW c \in Callers, owner = c, Release,
           \/ call[c] = NoCall /\ call' = call
           \/ call' = [call EXCEPT ![c] = NoCall]
    PROVE  RequestsFit' /\ CallsFit'
<1>1. RequestsFit'
  BY RuntimeAssumption DEF LockInv, RequestsFit, Release
<1>2. /\ call' \in [Threads -> Calls] /\ \A b \in Callers : call'[b] = NoCall
      /\ doing' = "nothing"
  BY RuntimeAssumption DEF LockInv, CallsFit, Release, Calls
<1> QED
  BY <1>1, <1>2 DEF CallsFit

\* It goes on: with no command, or one that begins or ends.
LEMMA GoesOnFits ==
    ASSUME LockInv, NEW c \in Callers, owner = c, UNCHANGED <<queued, owner, calls>>,
           doing' \in {"ping", "arp", "device", "kill", "flood"}, todo' \subseteq Hosts,
           tries' \in 0..Attempts, doing' \in {"ping", "arp", "device"} => todo' # {},
           \/ call' = call /\ doing' # "flood"
           \/ call' = [call EXCEPT ![c] = NoCall] /\ doing' # "flood"
           \/ \E x \in Calls \ {NoCall} : call' = [call EXCEPT ![c] = x]
    PROVE  RequestsFit' /\ CallsFit'
<1>1. RequestsFit'
  BY RuntimeAssumption DEF LockInv, RequestsFit, Nobody
<1>2. /\ call \in [Threads -> Calls] /\ c \in Threads /\ owner' = c /\ NoCall \in Calls
      /\ \A b \in Callers \ {c} : call[b] = NoCall
  BY RuntimeAssumption DEF LockInv, CallsFit, Calls
<1>3. CASE call' = call /\ doing' # "flood"
  BY <1>1, <1>2, <1>3 DEF CallsFit
<1>4. CASE call' = [call EXCEPT ![c] = NoCall] /\ doing' # "flood"
  BY <1>1, <1>2, <1>4 DEF CallsFit
<1>5. ASSUME NEW x \in Calls \ {NoCall}, call' = [call EXCEPT ![c] = x] PROVE CallsFit'
  BY <1>2, <1>5 DEF CallsFit
<1> QED
  BY <1>1, <1>3, <1>4, <1>5

\* The owner is a caller that is in the middle of something.
LEMMA OwnerFacts ==
    ASSUME LockInv, NEW c \in Callers, owner = c
    PROVE  /\ c \in Threads /\ doing # "nothing" /\ net \subseteq Hosts /\ net # {}
           /\ todo \subseteq Hosts /\ tries \in 0..Attempts /\ Attempts \in Nat
           /\ todo # {} => Least(todo) \in todo
<1>1. c # Nobody /\ c \in Threads /\ Attempts \in Nat /\ Hosts \subseteq Nat
  BY RuntimeAssumption DEF Nobody
<1>2. /\ doing # "nothing" /\ net \subseteq Hosts /\ net # {} /\ todo \subseteq Hosts
      /\ tries \in 0..Attempts
  BY <1>1, RuntimeAssumption DEF LockInv, RequestsFit, HostsKnown
<1> QED
  BY <1>1, <1>2, LeastIsIn

LEMMA WalkingFits ==
    ASSUME LockInv, NEW c \in Callers, owner = c,
           Settle(c) \/ Walk(c) \/ Walked(c) \/ WalkRaised(c)
    PROVE  RequestsFit' /\ CallsFit'
<1> USE OwnerFacts
<1>1. CASE Settle(c)
  <2>1. call[c] = NoCall /\ call' = call
    BY <1>1 DEF Settle, shellVars, LockInv, CallsFit
  <2>2. CASE Release
    BY <2>1, <2>2, ReleaseFits
  <2>3. CASE Continue("ping", net)
    BY <2>1, <2>3, GoesOnFits DEF Continue
  <2> QED
    BY <1>1, <2>2, <2>3 DEF Settle
<1>2. CASE Walk(c)
  <2>1. doing \in {"ping", "arp", "device"} /\ todo # {} /\ Type(c, Least(todo))
        /\ UNCHANGED <<queued, owner, calls, doing, todo, tries>>
    BY <1>2 DEF Walk, LockInv, RequestsFit, lockVars
  <2>2. \E x \in Calls \ {NoCall} : call' = [call EXCEPT ![c] = x]
    BY <2>1, TypeCalls DEF LockInv, CallsFit
  <2> QED
    BY <2>1, <2>2, GoesOnFits
<1>3. CASE Walked(c)
  <2> DEFINE rest == todo \ {call[c].host}
  <2>1. doing \in {"ping", "arp", "device"} /\ call' = [call EXCEPT ![c] = NoCall]
    BY <1>3 DEF Walked, Return
  <2>2. CASE Release
    BY <2>1, <2>2, ReleaseFits
  <2>3. CASE rest # {} /\ Continue(doing, rest)
    <3>1. doing' = doing /\ todo' = rest /\ UNCHANGED <<queued, owner, calls, tries>>
      BY <2>3 DEF Continue
    <3> QED
      BY <2>1, <2>3, <3>1, GoesOnFits
  <2> QED
    BY <1>3, <2>2, <2>3 DEF Walked
<1>4. CASE WalkRaised(c)
  <2>1. doing \in {"ping", "arp", "device"} /\ call' = [call EXCEPT ![c] = NoCall]
    BY <1>4 DEF WalkRaised, Return
  <2>2. CASE Release
    BY <2>1, <2>2, ReleaseFits
  <2>3. CASE /\ tries > 1 /\ tries' = tries - 1 /\ todo' = net
             /\ UNCHANGED <<queued, owner, doing, goal, calls, probeVars>>
    <3>1. tries' \in 0..Attempts /\ doing' = doing
      BY <2>3
    <3> QED
      BY <2>1, <2>3, <3>1, GoesOnFits
  <2> QED
    BY <1>4, <2>2, <2>3 DEF WalkRaised
<1> QED
  BY <1>1, <1>2, <1>3, <1>4

LEMMA KillingFits ==
    ASSUME LockInv, NEW c \in Callers, owner = c,
           Kill(c) \/ Killed(c) \/ EndKill(c)
    PROVE  RequestsFit' /\ CallsFit'
<1> USE OwnerFacts
<1>1. CASE Kill(c)
  <2>1. doing = "kill" /\ Least(todo) \in Hosts /\ call \in [Threads -> Calls]
    BY <1>1 DEF Kill, LockInv, CallsFit
  <2>2. CASE Type(c, Least(todo)) /\ UNCHANGED <<queued, lockVars, calls>>
    <3>1. \E x \in Calls \ {NoCall} : call' = [call EXCEPT ![c] = x]
      BY <2>1, <2>2, TypeCalls
    <3> QED
      BY <2>1, <2>2, <3>1, GoesOnFits DEF lockVars
  <2>3. CASE Continue("kill", todo \ {Least(todo)}) /\ UNCHANGED shellVars
    BY <2>3, GoesOnFits DEF Continue, shellVars
  <2> QED
    BY <1>1, <2>2, <2>3 DEF Kill
<1>2. CASE Killed(c)
  BY <1>2, GoesOnFits DEF Killed, Continue, Return
<1>3. CASE EndKill(c)
  <2>1. doing = "kill" /\ todo = {} /\ call[c] = NoCall /\ call \in [Threads -> Calls]
    BY <1>3 DEF EndKill, LockInv, CallsFit
  <2>2. CASE Release /\ UNCHANGED shellVars
    BY <2>1, <2>2, ReleaseFits DEF shellVars
  <2>3. CASE goal # Nobody /\ Type(c, goal) /\ Continue("flood", {})
    <3>1. goal \in Hosts
      BY <2>3 DEF LockInv, RuntimeInv, HostsTyped
    <3>2. \E x \in Calls \ {NoCall} : call' = [call EXCEPT ![c] = x]
      BY <2>1, <2>3, <3>1, TypeCalls
    <3>3. /\ doing' = "flood" /\ todo' = {} /\ UNCHANGED <<queued, owner, calls, tries>>
      BY <2>3 DEF Continue
    <3> QED
      BY <3>2, <3>3, GoesOnFits
  <2> QED
    BY <1>3, <2>2, <2>3 DEF EndKill
<1> QED
  BY <1>1, <1>2, <1>3

LEMMA EndingFits ==
    ASSUME LockInv, NEW c \in Callers, owner = c,
           EndDeviceCommand(c) \/ Flood(c) \/ AttackFails(c)
    PROVE  RequestsFit' /\ CallsFit'
<1>1. call' = [call EXCEPT ![c] = NoCall]
  BY DEF EndDeviceCommand, Flood, AttackFails, Return
<1>2. CASE Release
  BY <1>1, <1>2, ReleaseFits
<1>3. CASE doing = "command" /\ Continue("device", {call[c].host})
  <2>1. call[c] \in Calls \ {NoCall}
    BY <1>3, OwnerFacts DEF LockInv, CallsFit
  <2>2. call[c].host \in Hosts
    BY <2>1 DEF Calls
  <2>3. tries' \in 0..Attempts /\ UNCHANGED <<queued, owner, calls>>
    BY <1>3, OwnerFacts DEF Continue
  <2> QED
    BY <1>1, <1>3, <2>2, <2>3, GoesOnFits DEF Continue
<1> QED
  BY <1>2, <1>3 DEF EndDeviceCommand, Flood, AttackFails

\* Only a host that staticArp has dealt with is entered among the added ones.
LEMMA ProceedHosts ==
    ASSUME LockInv, NEW c \in Callers, Proceed(c) PROVE HostsKnown'
<1>1. CASE Walked(c)
  <2>1. /\ meta' = meta \/ (doing = "arp" /\ meta' = meta \cup {goal})
        /\ doing' = "arp" => UNCHANGED <<doing, goal>>
        /\ UNCHANGED <<net, addr, contextVars, probeVars>>
    BY <1>1 DEF Walked, Release, Continue
  <2> QED
    BY <2>1 DEF LockInv, HostsKnown, contextVars, probeVars
<1>2. CASE Settle(c) \/ Walk(c) \/ WalkRaised(c)
  <2>1. /\ UNCHANGED <<hostVars, contextVars, probeVars>>
        /\ doing' = "arp" => UNCHANGED <<doing, goal>>
    BY <1>2 DEF Settle, Walk, WalkRaised, Release, Continue, lockVars
  <2> QED
    BY <2>1, SameHosts DEF contextVars, probeVars, LockInv, HostsKnown
<1>3. CASE EndDeviceCommand(c)
  <2>1. /\ UNCHANGED hostVars /\ doing' # "arp" /\ UNCHANGED probeVars
        /\ UNCHANGED contextVars \/ (context' = Exempted' /\ fresh' = TRUE)
    BY <1>3, CleanupFits DEF EndDeviceCommand, Release, Continue
  <2> QED
    BY <2>1, SameHosts DEF contextVars, probeVars, LockInv, HostsKnown
<1>4. CASE Kill(c) \/ Killed(c) \/ EndKill(c) \/ Flood(c) \/ AttackFails(c)
  <2>1. /\ UNCHANGED <<hostVars, contextVars, probeVars>>
        /\ doing' = "arp" => UNCHANGED <<doing, goal>>
    BY <1>4 DEF Kill, Killed, EndKill, Flood, AttackFails, Release, Continue, lockVars
  <2> QED
    BY <2>1, SameHosts DEF contextVars, probeVars, LockInv, HostsKnown
<1> QED
  BY <1>1, <1>2, <1>3, <1>4 DEF Proceed

\* A step of a background thread, a shell, the hook or a process.
LEMMA OthersFit ==
    ASSUME LockInv, UNCHANGED <<hostVars, queued, lockVars, calls>>,
           UNCHANGED context \/ context' = Exempted',
           UNCHANGED probes \/ probes' = context,
           fresh' \in BOOLEAN, hookStep' \in {"stat", "read"},
           call' \in [Threads -> Calls], \A c \in Callers : call'[c] \in Calls,
           \A c \in Callers \ {owner} : call'[c] = call[c],
           owner \in Callers => (call'[owner] = NoCall <=> call[owner] = NoCall)
    PROVE  HostsKnown' /\ RequestsFit' /\ CallsFit'
<1>1. Exempted' \subseteq Addrs
  BY DEF LockInv, HostsKnown, hostVars, Exempted
<1>2. HostsKnown'
  BY <1>1 DEF LockInv, HostsKnown, hostVars, lockVars
<1>3. RequestsFit'
  BY DEF LockInv, RequestsFit, lockVars
<1>4. doing # "nothing" => owner \in Callers
  BY DEF LockInv, RequestsFit
<1>5. CallsFit'
  BY <1>4 DEF LockInv, CallsFit, lockVars
<1> QED
  BY <1>2, <1>3, <1>5

LEMMA TrafficIsApart ==
    ASSUME NEW t \in Traffic
    PROVE  t \in Threads /\ t \notin Callers /\ TypesOn[t] \subseteq Hosts
BY RuntimeAssumption

\* A step within a shell takes a call on, and ends none.
LEMMA InsideCalls ==
    ASSUME call \in [Threads -> Calls], NEW t \in Threads, NEW step \in Steps,
           call[t].step \in Steps, call' = Inside(t, step)
    PROVE  /\ call' \in [Threads -> Calls] /\ call'[t] # NoCall /\ call[t] # NoCall
           /\ \A u \in Threads \ {t} : call'[u] = call[u]
<1>1. call[t] \in [host : Hosts, step : Steps]
  BY DEF Calls, NoCall, Steps
<1>2. [call[t] EXCEPT !.step = step] \in [host : Hosts, step : Steps]
  BY <1>1
<1>3. [call[t] EXCEPT !.step = step] \in Calls \ {NoCall} /\ call[t] # NoCall
  BY <1>1, <1>2 DEF Calls, NoCall, Steps
<1> QED
  BY <1>3 DEF Inside

LEMMA TrafficFits ==
    ASSUME LockInv, NEW t \in Traffic, CallTraffic(t) \/ EndTraffic(t)
    PROVE  HostsKnown' /\ RequestsFit' /\ CallsFit'
<1>1. PICK x \in Calls : call' = [call EXCEPT ![t] = x]
  <2>1. NoCall \in Calls
    BY DEF Calls
  <2> QED
    BY <2>1, TrafficIsApart, TypeCalls
    DEF CallTraffic, EndTraffic, Return, LockInv, CallsFit
<1>2. /\ call' \in [Threads -> Calls] /\ \A c \in Callers : call'[c] = call[c]
      /\ \A c \in Callers : call'[c] \in Calls
  BY <1>1, TrafficIsApart, RuntimeAssumption DEF LockInv, CallsFit
<1> QED
  BY <1>2, OthersFit
  DEF CallTraffic, EndTraffic, apiVars, contextVars, probeVars, LockInv, HostsKnown

LEMMA ShellStepFits ==
    ASSUME LockInv, NEW t \in Threads, InShell(t)
    PROVE  HostsKnown' /\ RequestsFit' /\ CallsFit'
<1>1. PICK step \in Steps : call[t].step \in Steps /\ call' = Inside(t, step)
  <2>1. "done" \in Steps /\ "typed" \in Steps /\ "test" \in Steps /\ "read" \in Steps
        /\ "checked" \in Steps
    BY DEF Steps
  <2> QED
    BY <2>1 DEF InShell, ShellStep, TypeCommand, RaiseFlag, TestFlag, ReadOutput
<1>2. /\ call' \in [Threads -> Calls] /\ call'[t] # NoCall /\ call[t] # NoCall
      /\ \A u \in Threads \ {t} : call'[u] = call[u]
  BY <1>1, InsideCalls DEF LockInv, CallsFit
<1>3. t \in Callers => t = owner
  BY <1>2 DEF LockInv, CallsFit
<1>4. \A c \in Callers : c \in Threads /\ call'[c] \in Calls
  BY <1>2, RuntimeAssumption
<1> QED
  BY <1>2, <1>3, <1>4, OthersFit
  DEF InShell, apiVars, contextVars, probeVars, LockInv, HostsKnown

\* Steps that touch no call.
LEMMA QuietFits ==
    ASSUME LockInv,
           \/ GetOperations \/ ContextHook \/ UNCHANGED runtimeVars
           \/ \E h \in Background : ShellOf(h)
           \/ \E p \in Pids : ProcessEnds(p)
    PROVE  HostsKnown' /\ RequestsFit' /\ CallsFit'
<1>1. /\ call' = call /\ UNCHANGED <<hostVars, queued, lockVars, calls>>
      /\ \/ context' = Exempted' /\ fresh' = TRUE /\ UNCHANGED probeVars
         \/ /\ UNCHANGED context /\ (fresh' = FALSE \/ fresh' = fresh)
            /\ UNCHANGED probes \/ probes' = context
            /\ hookStep' \in {hookStep, "stat", "read"}
  BY CleanupFits
  DEF GetOperations, ContextHook, ContextStat, ContextRead, ShellOf, ShellRuns,
      ProcessEnds, runtimeVars, shellVars, apiVars, contextVars, probeVars
<1>2. call' \in [Threads -> Calls] /\ \A c \in Callers : call'[c] \in Calls
  BY <1>1, RuntimeAssumption DEF LockInv, CallsFit
<1> QED
  BY <1>1, <1>2, OthersFit DEF probeVars, LockInv, HostsKnown

LEMMA ArriveFits ==
    ASSUME LockInv, Arrive PROVE HostsKnown' /\ RequestsFit' /\ CallsFit'
<1>1. RequestsFit'
  BY RuntimeAssumption DEF Arrive, LockInv, RequestsFit, lockVars
<1>2. HostsKnown' /\ CallsFit'
  BY DEF Arrive, LockInv, HostsKnown, CallsFit, shellVars, hostVars, lockVars, contextVars,
         probeVars
<1> QED
  BY <1>1, <1>2

LEMMA NextLockInv == LockInv /\ [RuntimeNext]_runtimeVars => LockInv'
<1> SUFFICES ASSUME LockInv, [RuntimeNext]_runtimeVars
             PROVE  HostsKnown' /\ RequestsFit' /\ CallsFit'
  BY NextRuntimeInv DEF LockInv
<1>1. ASSUME NEW c \in Callers, Serve(c) PROVE HostsKnown' /\ RequestsFit' /\ CallsFit'
  BY <1>1, QuickServes, ShowServes, RemoveHostFits, HostRequestFits, HoldServes DEF Serve
<1>2. ASSUME NEW c \in Callers, Proceed(c) PROVE HostsKnown' /\ RequestsFit' /\ CallsFit'
  BY <1>2, ProceedHosts, WalkingFits, KillingFits, EndingFits DEF Proceed
<1> QED
  BY <1>1, <1>2, ArriveFits, TrafficFits, ShellStepFits, QuietFits DEF RuntimeNext

\* Every field of the API and of the hook, every table of processes and every
\* shell keeps its type: the owner of the lock is a request, and what it has
\* still to do, on which hosts, are hosts.
THEOREM RuntimeTyped == RuntimeSpec => []RuntimeTypeOK
<1>1. ASSUME LockInv, ShellInv PROVE RuntimeTypeOK
  <2>1. ShellTypeOK
    BY <1>1 DEF ShellTypeOK, ShellInv, ShellTyped, LockInv, CallsFit
  <2>2. floods \subseteq Pids
    BY <1>1 DEF LockInv, RuntimeInv, FloodsKnown, TablesTyped
  <2>3. calls \in 0..MaxCalls /\ queued \in 0..MaxCalls
    BY <1>1, RuntimeAssumption DEF LockInv, RequestsFit
  <2> QED
    BY <1>1, <2>1, <2>2, <2>3
    DEF RuntimeTypeOK, LockInv, RuntimeInv, TablesTyped, HostsTyped, HostsKnown,
        RequestsFit, Sessions
<1>2. RuntimeInit => ShellInv
  BY InitShellInv DEF RuntimeInit
<1> QED
  BY <1>1, <1>2, InitLockInv, NextLockInv, NextShellInv, PTL DEF RuntimeSpec

-----------------------------------------------------------------------------
(* The lock is never held by a request that can only wait.  This is the    *)
(* safety half of RequestsEnd; its liveness stays with TLC.                *)

\* The next step of a thread in a shell is possible, or the shell has to run
\* the command first.
CanGoOn(t) ==
    LET h == call[t].host
    IN  \/ call[t].step = "checked" /\ Len(typed[h]) + Len(output[h]) < MaxBacklog
        \/ call[t].step \in {"typed", "test"}
        \/ call[t].step = "read" /\ (output[h] # <<>> \/ typed[h] # <<>>)

\* A thread that waits in a shell waits for something: the answer to its command
\* is in the shell, or its command is, unless two threads met in a gap of the flag
\* (waitOutput has no timeout).
NobodyWaitsForNothing ==
    ~crossed => \A t \in Threads :
                    InShellNow(t) => call[t].host \in Background /\ CanGoOn(t)

\* The request that holds the lock has a next step, or is in such a shell.
LockIsServed ==
    ~crossed /\ owner # Nobody =>
        \/ doing = "settle"
        \/ doing \in {"ping", "arp", "device"} /\ call[owner] = NoCall /\ todo # {}
        \/ doing = "kill" /\ call[owner] = NoCall
        \/ doing # "nothing" /\ call[owner].step \in {"done", "raised"}
        \/ InShellNow(owner) /\ CanGoOn(owner)

\* Shells without background traffic are used by whole calls only.
BackgroundShells == \A t \in Threads : InShellNow(t) => call[t].host \in Background

LEMMA NextBackgroundShells ==
    ASSUME LockInv, BackgroundShells, [RuntimeNext]_runtimeVars PROVE BackgroundShells'
<1>1. /\ call \in [Threads -> Calls] /\ Callers \subseteq Threads /\ Traffic \subseteq Threads
      /\ \A t \in Traffic : TypesOn[t] \subseteq Background
  BY RuntimeAssumption DEF LockInv, CallsFit, Background
<1>2. ASSUME NEW t \in Threads, NEW h, Type(t, h) \/ (h \in Background /\ Cmd(t, h))
      PROVE  BackgroundShells'
  <2>1. PICK step : /\ call' = [call EXCEPT ![t] = [host |-> h, step |-> step]]
                    /\ step = "done" \/ h \in Background
    BY <1>2 DEF Type, Cmd, CmdAlone
  <2> QED
    BY <1>1, <2>1 DEF BackgroundShells, InShellNow
<1>3. ASSUME NEW t \in Threads, Return(t) PROVE BackgroundShells'
  BY <1>1, <1>3 DEF Return, BackgroundShells, InShellNow, NoCall
<1>4. ASSUME call' = call PROVE BackgroundShells'
  BY <1>4 DEF BackgroundShells, InShellNow
<1>5. CASE \E c \in Callers : Serve(c)
  <2>1. PICK c \in Callers : call' = call \/ \E h \in net : Type(c, h)
    BY <1>5
    DEF Serve, Refuse, Quick, Pingall, GetDevice, GetDeviceWorkspace, LaunchSession, StopSessions,
        ShowDevice, HoldLock,
        DeviceCommand, StartStress, StopStress, StartAttack, StopAttack, GetAttackStatus,
        AddHost, UpdateHost, RemoveHost, shellVars
  <2> QED
    BY <1>1, <1>2, <1>4, <2>1
<1>6. CASE \E c \in Callers : Proceed(c)
  <2>1. PICK c \in Callers : call' = call \/ Return(c) \/ \E h : Type(c, h)
    BY <1>6
    DEF Proceed, Settle, Walk, Walked, WalkRaised, EndDeviceCommand, Kill, Killed,
        EndKill, Flood, AttackFails, shellVars
  <2> QED
    BY <1>1, <1>2, <1>3, <1>4, <2>1
<1>7. CASE \E t \in Traffic : CallTraffic(t) \/ EndTraffic(t)
  BY <1>1, <1>2, <1>3, <1>7 DEF CallTraffic, EndTraffic
<1>8. ASSUME NEW t \in Threads, InShell(t) PROVE BackgroundShells'
  <2>0. InShellNow(t)
    BY <1>8 DEF InShell, ShellStep, TypeCommand, RaiseFlag, TestFlag, ReadOutput, InShellNow
  <2>1. PICK step \in Steps : call' = Inside(t, step)
    <3>1. "done" \in Steps /\ "typed" \in Steps /\ "test" \in Steps /\ "read" \in Steps
      BY DEF Steps
    <3> QED
      BY <1>8, <3>1 DEF InShell, ShellStep, TypeCommand, RaiseFlag, TestFlag, ReadOutput
  <2>2. call[t] \in [host : Hosts, step : Steps]
    BY <1>1, <2>0 DEF Calls, NoCall, InShellNow
  <2>3. [call[t] EXCEPT !.step = step].host = call[t].host
    BY <2>2
  <2> QED
    BY <1>1, <2>0, <2>1, <2>3 DEF Inside, BackgroundShells, InShellNow
<1>9. CASE \/ Arrive \/ GetOperations \/ ContextHook \/ UNCHANGED runtimeVars
           \/ \E h \in Background : ShellOf(h)
           \/ \E p \in Pids : ProcessEnds(p)
  BY <1>4, <1>9
  DEF Arrive, GetOperations, ContextHook, ContextStat, ContextRead, ShellOf, ShellRuns,
      ProcessEnds, runtimeVars, shellVars
<1> QED
  BY <1>5, <1>6, <1>7, <1>8, <1>9 DEF RuntimeNext

LEMMA InitBackgroundShells == RuntimeInit => BackgroundShells
BY DEF RuntimeInit, ShellInit, BackgroundShells, InShellNow, NoCall

\* What a thread in a shell, and the owner of the lock, can do next.
LEMMA NobodyStuck ==
    ASSUME LockInv, ShellInv, BackgroundShells
    PROVE  NobodyWaitsForNothing /\ LockIsServed
<1>1. ASSUME ~crossed, NEW t \in Threads, InShellNow(t) PROVE CanGoOn(t)
  <2> DEFINE h == call[t].host
  <2>1. ThreadOK(t)
    BY <1>1 DEF ShellInv
  <2>2. CASE call[t].step = "checked"
    <3>1. typed[h] = <<>> /\ output[h] = <<>>
      BY <2>1, <2>2 DEF ThreadOK, Silent
    <3>2. Len(typed[h]) + Len(output[h]) < MaxBacklog
      BY <3>1, BacklogAssumption
    <3> QED
      BY <2>2, <3>2 DEF CanGoOn
  <2>3. CASE call[t].step = "read"
    <3>1. <<t>> # <<>>
      OBVIOUS
    <3>2. output[h] # <<>> \/ typed[h] # <<>>
      BY <2>1, <2>3, <3>1 DEF ThreadOK, HoldsOnly
    <3> QED
      BY <2>3, <3>2 DEF CanGoOn
  <2> QED
    BY <1>1, <2>2, <2>3 DEF InShellNow, CanGoOn
<1>2. ASSUME ~crossed, owner # Nobody, doing # "settle"
      PROVE  \/ doing \in {"ping", "arp", "device"} /\ call[owner] = NoCall /\ todo # {}
             \/ doing = "kill" /\ call[owner] = NoCall
             \/ doing # "nothing" /\ call[owner].step \in {"done", "raised"}
             \/ InShellNow(owner)
  <2>1. owner \in Callers /\ owner \in Threads /\ call[owner] \in Calls /\ doing # "nothing"
    BY <1>2, RuntimeAssumption DEF LockInv, RequestsFit, CallsFit
  <2>2. CASE call[owner] = NoCall
    BY <1>2, <2>1, <2>2 DEF LockInv, RequestsFit, CallsFit
  <2>3. CASE call[owner] # NoCall
    <3>1. call[owner].step \in Steps
      BY <2>1, <2>3 DEF Calls
    <3> QED
      BY <2>1, <3>1 DEF Steps, InShellNow
  <2> QED
    BY <2>2, <2>3
<1>3. owner # Nobody => owner \in Threads
  BY RuntimeAssumption DEF LockInv, RequestsFit
<1> QED
  BY <1>1, <1>2, <1>3 DEF NobodyWaitsForNothing, LockIsServed, BackgroundShells

\* Unless two commands crossed: whoever waits in a shell waits for an answer that
\* is there or will be, and the lock is never held by a request that has no next
\* step (sendCmd, waitOutput, the handlers of CampusRuntimeAPI).
THEOREM LockHolderGoesOn == RuntimeSpec => [](NobodyWaitsForNothing /\ LockIsServed)
<1>1. RuntimeInit => ShellInv
  BY InitShellInv DEF RuntimeInit
<1>2. LockInv /\ BackgroundShells /\ [RuntimeNext]_runtimeVars => BackgroundShells'
  BY NextBackgroundShells
<1>3. LockInv /\ ShellInv /\ BackgroundShells => NobodyWaitsForNothing /\ LockIsServed
  BY NobodyStuck
<1> QED
  BY <1>1, <1>2, <1>3, InitLockInv, NextLockInv, NextShellInv, InitBackgroundShells,
     PTL DEF RuntimeSpec

=============================================================================
