--------------------------- MODULE PcActivity_proofs ---------------------------
(***************************************************************************)
(* However many clients, PCs and workers there are: a PC has one worker    *)
(* that was not told to stop, and reports only the traffic of its present  *)
(* activity.  What carries the proof is whose worker the one in the table  *)
(* is (Served), that all others were told to stop (OthersStopped), and     *)
(* that the lock is kept exactly over the join (LockKept).  The last       *)
(* section composes the activities with the port scans.                    *)
(***************************************************************************)
EXTENDS MCScanAndActivity, PortScan_proofs

Sets == [host : PCs, activity : Activities]
Workers ==
    [host : PCs, activity : Activities, stopped : BOOLEAN,
     at : {"test", "verify", "burst", "leave"}]

StateTyped ==
    /\ activity \in [PCs -> Activities] /\ traffic \in [PCs -> Activities]
    /\ worker \in [Slots -> {NoWorker} \cup Workers]
    /\ current \in [PCs -> Slots \cup {0}]
    /\ holder \in Clients \cup {Nobody}
    /\ request \in [Clients -> Seq(Sets)]
    /\ DOMAIN turn = Publishers

LockKept ==
    /\ \A c \in Clients : turn[c] = "join" => holder = c
    /\ holder # Nobody => turn[holder] = "join" /\ request[holder] # <<>>

\* The PC whose worker is being joined.
Joined(h) == holder # Nobody /\ Head(request[holder]).host = h

Served ==
    \A h \in PCs :
        /\ activity[h] = Idle => current[h] = 0
        /\ activity[h] # Idle =>
              /\ current[h] \in Living
              /\ worker[current[h]].host = h
              /\ worker[current[h]].activity = activity[h]
              /\ worker[current[h]].stopped <=> Joined(h)

OthersStopped ==
    \A w \in Living : ~worker[w].stopped =>
        w = current[worker[w].host] /\ worker[w].at # "leave"

OwnTraffic == \A h \in PCs : traffic[h] \in {Idle, activity[h]}

PcInv == StateTyped /\ LockKept /\ Served /\ OthersStopped /\ OwnTraffic

-----------------------------------------------------------------------------
LEMMA NoWorkerIsNone == \A r \in Workers : r # NoWorker
<1> SUFFICES ASSUME NEW r \in Workers, r = NoWorker PROVE FALSE
  OBVIOUS
<1>1. DOMAIN r = {"host", "activity", "stopped", "at"}
  BY DEF Workers
<1>2. DOMAIN r = {"host"}
  BY DEF NoWorker
<1> QED
  BY <1>1, <1>2

LEMMA LivingWorkers ==
    ASSUME StateTyped
    PROVE  /\ Living \subseteq Slots
           /\ \A w \in Living : worker[w] \in Workers
           /\ \A w \in Slots \ Living : worker[w] = NoWorker
BY DEF StateTyped, Living

LEMMA InitPcInv == PcInit => PcInv
<1> SUFFICES ASSUME PcInit PROVE PcInv
  OBVIOUS
<1> USE PcAssumption
<1>1. StateTyped
  BY DEF PcInit, StateTyped, AllIdle, NoWorkers, NoRequests, FirstTurns, Publishers, Writer
<1>2. Living = {}
  BY DEF PcInit, Living, NoWorkers
<1>3. LockKept
  BY DEF PcInit, LockKept, FirstTurns, Publishers, Writer
<1>4. Served /\ OthersStopped /\ OwnTraffic
  BY <1>2 DEF PcInit, Served, OthersStopped, OwnTraffic, AllIdle
<1> QED
  BY <1>1, <1>3, <1>4 DEF PcInv

\* Steps that change none of this.
LEMMA Undisturbed ==
    ASSUME PcInv, UNCHANGED <<stateVars, request>>, DOMAIN turn' = Publishers,
           \A c \in Clients : turn'[c] = "join" <=> turn[c] = "join"
    PROVE  PcInv'
<1>1. Living' = Living
  BY DEF Living, stateVars
<1>2. StateTyped'
  BY DEF PcInv, StateTyped, stateVars
<1>3. LockKept'
  BY DEF PcInv, StateTyped, LockKept, stateVars
<1>4. (Served /\ OthersStopped /\ OwnTraffic)'
  BY <1>1 DEF PcInv, Served, OthersStopped, OwnTraffic, Joined, stateVars
<1> QED
  BY <1>2, <1>3, <1>4 DEF PcInv

-----------------------------------------------------------------------------
(* Requests *)

LEMMA AskKeeps ==
    ASSUME PcInv, NEW c \in Clients, Ask(c) PROVE PcInv'
<1> USE PcAssumption
<1>1. request' \in [Clients -> Seq(Sets)]
  BY DEF PcInv, StateTyped, Ask, Sets
<1>2. holder # c
  BY DEF PcInv, LockKept, Ask, Nobody
<1>3. Living' = Living
  BY DEF Living, Ask, stateVars
<1>4. StateTyped'
  BY <1>1 DEF PcInv, StateTyped, Ask, stateVars, Publishers
<1>5. LockKept'
  BY <1>2 DEF PcInv, StateTyped, LockKept, Ask, stateVars, Publishers
<1>6. \A h \in PCs : Joined(h)' <=> Joined(h)
  BY <1>2 DEF PcInv, StateTyped, Joined, Ask, stateVars
<1>7. (Served /\ OthersStopped /\ OwnTraffic)'
  BY <1>3, <1>6 DEF PcInv, Served, OthersStopped, OwnTraffic, Ask, stateVars
<1> QED
  BY <1>4, <1>5, <1>7 DEF PcInv

LEMMA SetNothingKeeps ==
    ASSUME PcInv, NEW c \in Clients, SetNothing(c) PROVE PcInv'
<1> USE PcAssumption
<1>1. request' \in [Clients -> Seq(Sets)]
  BY DEF PcInv, StateTyped, SetNothing
<1>2. holder = Nobody /\ holder' = Nobody
  BY DEF SetNothing, Unlocked, stateVars
<1>3. Living' = Living
  BY DEF Living, SetNothing, stateVars
<1>4. StateTyped'
  BY <1>1 DEF PcInv, StateTyped, SetNothing, stateVars
<1>5. LockKept'
  BY <1>2 DEF PcInv, LockKept, SetNothing, stateVars
<1>6. (Served /\ OthersStopped /\ OwnTraffic)'
  BY <1>2, <1>3 DEF PcInv, Served, OthersStopped, OwnTraffic, Joined, SetNothing, stateVars
<1> QED
  BY <1>4, <1>5, <1>6 DEF PcInv

LEMMA StopWorkerKeeps ==
    ASSUME PcInv, NEW c \in Clients, StopWorker(c) PROVE PcInv'
<1> USE PcAssumption
<1> DEFINE h == Head(request[c]).host
<1>1. Head(request[c]) \in Sets /\ h \in PCs /\ request[c] # <<>>
  <2>1. request[c] \in Seq(Sets) /\ request[c] # <<>>
    BY DEF PcInv, StateTyped, StopWorker
  <2>2. Head(request[c]) \in Sets
    BY <2>1
  <2> QED
    BY <2>1, <2>2 DEF Sets
<1>2. holder = Nobody /\ holder' = c /\ c # Nobody
  BY DEF StopWorker, Unlocked, Nobody
<1>3. \A k \in PCs : ~Joined(k) /\ (Joined(k)' <=> k = h)
  BY <1>1, <1>2 DEF Joined, StopWorker
<1>4. /\ worker' \in [Slots -> {NoWorker} \cup Workers]
      /\ Living' = Living
      /\ \A w \in Living : /\ worker'[w].host = worker[w].host
                           /\ worker'[w].activity = worker[w].activity
                           /\ worker'[w].at = worker[w].at
                           /\ worker'[w].stopped <=> worker[w].stopped \/ w = current[h]
  <2>1. CASE current[h] \in Living
    <3>1. worker' = [worker EXCEPT ![current[h]].stopped = TRUE]
      BY <2>1 DEF StopWorker, Stop
    <3>2. worker[current[h]] \in Workers /\ current[h] \in Slots
      BY <2>1, LivingWorkers DEF PcInv
    <3>3. worker'[current[h]] = [worker[current[h]] EXCEPT !.stopped = TRUE]
      BY <3>1, <3>2 DEF PcInv, StateTyped
    <3>4. worker'[current[h]] \in Workers
      BY <3>2, <3>3 DEF Workers
    <3>5. \A w \in Slots \ {current[h]} : worker'[w] = worker[w]
      BY <3>1 DEF PcInv, StateTyped
    <3>6. worker' \in [Slots -> {NoWorker} \cup Workers]
      BY <3>1, <3>4, <3>5 DEF PcInv, StateTyped
    <3>7. Living' = Living
      BY <2>1, <3>4, <3>5, NoWorkerIsNone DEF Living
    <3> QED
      BY <2>1, <3>2, <3>3, <3>5, <3>6, <3>7, LivingWorkers DEF PcInv, Workers
  <2>2. CASE current[h] \notin Living
    BY <2>2 DEF StopWorker, PcInv, StateTyped, Living
  <2> QED
    BY <2>1, <2>2
<1>5. StateTyped'
  BY <1>2, <1>4 DEF PcInv, StateTyped, StopWorker, Publishers
<1>6. LockKept'
  <2>1. turn' = [turn EXCEPT ![c] = "join"] /\ request' = request /\ DOMAIN turn = Publishers
    BY DEF PcInv, StateTyped, StopWorker
  <2>2. turn'[c] = "join" /\ \A d \in Clients \ {c} : turn'[d] = turn[d]
    BY <2>1 DEF Publishers
  <2>3. \A d \in Clients : turn[d] # "join"
    BY <1>2 DEF PcInv, LockKept, Nobody
  <2> QED
    BY <1>1, <1>2, <2>1, <2>2, <2>3 DEF LockKept
<1>7. UNCHANGED <<activity, traffic, current>>
  BY DEF StopWorker
<1>8. Served'
  <2> SUFFICES ASSUME NEW k \in PCs, activity[k] # Idle
               PROVE  /\ current[k] \in Living
                      /\ worker'[current[k]].host = k
                      /\ worker'[current[k]].activity = activity[k]
                      /\ worker'[current[k]].stopped <=> Joined(k)'
    BY <1>4, <1>7 DEF PcInv, Served
  <2>1. /\ current[k] \in Living /\ worker[current[k]].host = k
        /\ worker[current[k]].activity = activity[k] /\ ~worker[current[k]].stopped
    BY <1>3 DEF PcInv, Served
  <2>2. current[k] = current[h] => k = h
    <3> SUFFICES ASSUME current[k] = current[h], k # h PROVE FALSE
      OBVIOUS
    <3>1. CASE activity[h] = Idle
      BY <1>1, <2>1, <3>1, LivingWorkers DEF PcInv, Served
    <3>2. CASE activity[h] # Idle
      BY <1>1, <2>1, <3>2 DEF PcInv, Served
    <3> QED
      BY <3>1, <3>2
  <2> QED
    BY <1>3, <1>4, <2>1, <2>2
<1>9. OthersStopped'
  <2> SUFFICES ASSUME NEW w \in Living, ~worker'[w].stopped
               PROVE  w = current[worker[w].host] /\ worker[w].at # "leave"
    BY <1>4, <1>7 DEF OthersStopped
  <2> QED
    BY <1>4 DEF PcInv, OthersStopped
<1>10. OwnTraffic'
  BY <1>7 DEF PcInv, OwnTraffic
<1> QED
  BY <1>5, <1>6, <1>8, <1>9, <1>10 DEF PcInv

LEMMA StartWorkerKeeps ==
    ASSUME PcInv, NEW c \in Clients, StartWorker(c) PROVE PcInv'
<1> USE PcAssumption
<1> DEFINE set == Head(request[c])
           h == set.host
           a == set.activity
<1>1. holder = c /\ holder' = Nobody /\ request[c] # <<>> /\ c # Nobody
  BY DEF PcInv, LockKept, StartWorker, Nobody
<1>2. set \in Sets /\ h \in PCs /\ a \in Activities
  <2>1. request[c] \in Seq(Sets) /\ request[c] # <<>>
    BY <1>1 DEF PcInv, StateTyped
  <2>2. set \in Sets
    BY <2>1
  <2> QED
    BY <2>2 DEF Sets
<1>3. /\ activity' \in [PCs -> Activities] /\ activity'[h] = a
      /\ \A k \in PCs \ {h} : activity'[k] = activity[k]
      /\ traffic' \in [PCs -> Activities] /\ traffic'[h] = Idle
      /\ \A k \in PCs \ {h} : traffic'[k] = traffic[k]
  BY <1>2 DEF PcInv, StateTyped, StartWorker
<1>4. request' \in [Clients -> Seq(Sets)]
  BY <1>1 DEF PcInv, StateTyped, StartWorker
<1>5. DOMAIN turn' = Publishers /\ turn'[c] # "join"
      /\ \A d \in Clients \ {c} : turn'[d] = turn[d]
  BY DEF PcInv, StateTyped, StartWorker, Publishers
<1>6. LockKept'
  BY <1>1, <1>5 DEF PcInv, LockKept
<1>7. OwnTraffic'
  BY <1>3 DEF PcInv, OwnTraffic
<1>8. \A k \in PCs : (Joined(k) <=> k = h) /\ ~Joined(k)'
  BY <1>1 DEF Joined
<1>9. CASE a = Idle
  <2>1. worker' = worker /\ current' = [current EXCEPT ![h] = 0]
    BY <1>9 DEF StartWorker
  <2>2. Living' = Living
    BY <2>1 DEF Living
  <2>3. current' \in [PCs -> Slots \cup {0}] /\ current'[h] = 0
        /\ \A k \in PCs \ {h} : current'[k] = current[k]
    BY <1>2, <2>1 DEF PcInv, StateTyped
  <2>4. StateTyped'
    BY <1>1, <1>3, <1>4, <1>5, <2>1, <2>3 DEF PcInv, StateTyped
  <2>5. Served'
    BY <1>3, <1>8, <1>9, <2>1, <2>2, <2>3 DEF PcInv, Served
  <2>6. OthersStopped'
    <3> SUFFICES ASSUME NEW w \in Living, ~worker[w].stopped
                 PROVE  w = current'[worker[w].host] /\ worker[w].at # "leave"
      BY <2>1, <2>2 DEF OthersStopped
    <3>1. w = current[worker[w].host] /\ worker[w].at # "leave" /\ worker[w].host \in PCs
      BY LivingWorkers DEF PcInv, OthersStopped, Workers
    <3>2. worker[w].host # h
      <4> SUFFICES ASSUME worker[w].host = h PROVE FALSE
        OBVIOUS
      <4>1. w = current[h] /\ w # 0
        BY <3>1, LivingWorkers DEF PcInv
      <4> QED
        BY <1>2, <1>8, <4>1 DEF PcInv, Served
    <3> QED
      BY <2>3, <3>1, <3>2
  <2> QED
    BY <1>6, <1>7, <2>4, <2>5, <2>6 DEF PcInv
<1>10. CASE a # Idle
  <2>1. PICK w \in Slots \ Living :
           /\ worker' = [worker EXCEPT ![w] =
                 [host |-> h, activity |-> a, stopped |-> FALSE, at |-> "test"]]
           /\ current' = [current EXCEPT ![h] = w]
    BY <1>10 DEF StartWorker
  <2>2. current' \in [PCs -> Slots \cup {0}] /\ current'[h] = w
        /\ \A k \in PCs \ {h} : current'[k] = current[k]
    BY <1>2, <2>1 DEF PcInv, StateTyped
  <2>3. /\ worker'[w] = [host |-> h, activity |-> a, stopped |-> FALSE, at |-> "test"]
        /\ \A v \in Slots \ {w} : worker'[v] = worker[v]
    BY <2>1 DEF PcInv, StateTyped
  <2>4. worker'[w] \in Workers
    BY <1>2, <2>3 DEF Workers
  <2>5. worker' \in [Slots -> {NoWorker} \cup Workers]
    BY <2>1, <2>3, <2>4 DEF PcInv, StateTyped
  <2>6. Living' = Living \cup {w}
    BY <2>3, <2>4, NoWorkerIsNone DEF Living
  <2>7. \A v \in Living : v # w /\ v \in Slots /\ worker'[v] = worker[v]
    BY <2>3, LivingWorkers DEF PcInv
  <2>8. StateTyped'
    BY <1>1, <1>3, <1>4, <1>5, <2>2, <2>5 DEF PcInv, StateTyped
  <2>9. Served'
    <3> SUFFICES ASSUME NEW k \in PCs
                 PROVE  /\ activity'[k] = Idle => current'[k] = 0
                        /\ activity'[k] # Idle =>
                              /\ current'[k] \in Living'
                              /\ worker'[current'[k]].host = k
                              /\ worker'[current'[k]].activity = activity'[k]
                              /\ worker'[current'[k]].stopped <=> Joined(k)'
      BY DEF Served
    <3>1. CASE k = h
      BY <1>3, <1>8, <1>10, <2>2, <2>3, <2>6, <3>1
    <3>2. CASE k # h
      BY <1>3, <1>8, <2>2, <2>6, <2>7, <3>2 DEF PcInv, Served
    <3> QED
      BY <3>1, <3>2
  <2>10. OthersStopped'
    <3> SUFFICES ASSUME NEW v \in Living', ~worker'[v].stopped
                 PROVE  v = current'[worker'[v].host] /\ worker'[v].at # "leave"
      BY DEF OthersStopped
    <3>1. CASE v = w
      BY <2>2, <2>3, <3>1
    <3>2. CASE v \in Living
      <4>1. v = current[worker[v].host] /\ worker[v].at # "leave" /\ worker[v].host \in PCs
        BY <2>7, <3>2, LivingWorkers DEF PcInv, OthersStopped, Workers
      <4>2. worker[v].host # h
        <5> SUFFICES ASSUME worker[v].host = h PROVE FALSE
          OBVIOUS
        <5>1. v = current[h] /\ v # 0
          BY <3>2, <4>1, LivingWorkers DEF PcInv
        <5> QED
          BY <1>2, <1>8, <2>7, <3>2, <5>1 DEF PcInv, Served
      <4> QED
        BY <2>2, <2>7, <3>2, <4>1, <4>2
    <3> QED
      BY <2>6, <3>1, <3>2
  <2> QED
    BY <1>6, <1>7, <2>8, <2>9, <2>10 DEF PcInv
<1> QED
  BY <1>9, <1>10

-----------------------------------------------------------------------------
(* Workers *)

LEMMA WorkerMoves ==
    ASSUME PcInv, NEW w \in Slots, NEW step \in {"test", "verify", "burst", "leave"},
           w \in Living, GoTo(w, step), OnlyWorker,
           step = "leave" => worker[w].stopped,
           OwnTraffic', traffic' \in [PCs -> Activities]
    PROVE  PcInv'
<1> USE PcAssumption
<1>1. worker[w] \in Workers
  BY LivingWorkers DEF PcInv
<1>2. worker'[w] = [worker[w] EXCEPT !.at = step] /\ worker'[w] \in Workers
  BY <1>1 DEF GoTo, PcInv, StateTyped, Workers
<1>3. \A v \in Slots \ {w} : worker'[v] = worker[v]
  BY DEF GoTo, PcInv, StateTyped
<1>4. worker' \in [Slots -> {NoWorker} \cup Workers]
  BY <1>2, <1>3 DEF GoTo, PcInv, StateTyped
<1>5. Living' = Living
  BY <1>2, <1>3, NoWorkerIsNone DEF Living
<1>6. \A v \in Living : /\ worker'[v].host = worker[v].host
                        /\ worker'[v].activity = worker[v].activity
                        /\ worker'[v].stopped = worker[v].stopped
                        /\ worker'[v].at = IF v = w THEN step ELSE worker[v].at
  BY <1>1, <1>2, <1>3, LivingWorkers DEF PcInv, Workers
<1>7. StateTyped' /\ LockKept'
  BY <1>4 DEF PcInv, StateTyped, LockKept, OnlyWorker
<1>8. Served'
  <2>1. UNCHANGED <<activity, current>> /\ \A h \in PCs : Joined(h)' <=> Joined(h)
    BY DEF OnlyWorker, Joined
  <2>2. ASSUME NEW h \in PCs, activity[h] # Idle
        PROVE  /\ current[h] \in Living
               /\ worker'[current[h]].host = h
               /\ worker'[current[h]].activity = activity[h]
               /\ worker'[current[h]].stopped <=> Joined(h)
    <3>1. /\ current[h] \in Living
          /\ worker[current[h]].host = h
          /\ worker[current[h]].activity = activity[h]
          /\ worker[current[h]].stopped <=> Joined(h)
      BY <2>2 DEF PcInv, Served
    <3> QED
      BY <1>6, <3>1
  <2>3. \A h \in PCs : activity[h] = Idle => current[h] = 0
    BY DEF PcInv, Served
  <2> QED
    BY <1>5, <2>1, <2>2, <2>3 DEF Served
<1>9. OthersStopped'
  BY <1>5, <1>6 DEF PcInv, OthersStopped, OnlyWorker
<1> QED
  BY <1>7, <1>8, <1>9 DEF PcInv

LEMMA WorkerStepKeeps ==
    ASSUME PcInv, NEW w \in Slots, WorkerStep(w) PROVE PcInv'
<1> USE PcAssumption
<1>1. w \in Living /\ worker[w] \in Workers /\ worker[w].host \in PCs
      /\ worker[w].activity \in Activities
  BY LivingWorkers
     DEF PcInv, WorkerStep, TestEvent, Verify, Record, Leave, At, Workers
<1>2. CASE TestEvent(w)
  <2>1. OwnTraffic' /\ traffic' \in [PCs -> Activities]
    BY <1>2 DEF TestEvent, OnlyWorker, PcInv, StateTyped, OwnTraffic
  <2>2. CASE worker[w].stopped
    BY <1>1, <1>2, <2>1, <2>2, WorkerMoves DEF TestEvent
  <2>3. CASE ~worker[w].stopped
    BY <1>1, <1>2, <2>1, <2>3, WorkerMoves DEF TestEvent
  <2> QED
    BY <2>2, <2>3
<1>3. CASE Verify(w)
  <2>1. OwnTraffic' /\ traffic' \in [PCs -> Activities]
    BY <1>3 DEF Verify, OnlyWorker, PcInv, StateTyped, OwnTraffic
  <2>2. CASE Serves(w)
    BY <1>1, <1>3, <2>1, <2>2, WorkerMoves DEF Verify
  <2>3. CASE ~Serves(w)
    <3>1. worker[w].stopped
      <4> SUFFICES ASSUME ~worker[w].stopped PROVE FALSE
        OBVIOUS
      <4>1. w = current[worker[w].host] /\ w # 0
        BY <1>1 DEF PcInv, OthersStopped
      <4> QED
        BY <1>1, <2>3, <4>1 DEF PcInv, Served, Serves
    <3> QED
      BY <1>1, <1>3, <2>1, <2>3, <3>1, WorkerMoves DEF Verify
  <2> QED
    BY <2>2, <2>3
<1>4. CASE Record(w)
  <2>1. OwnTraffic' /\ traffic' \in [PCs -> Activities]
    BY <1>1, <1>4 DEF Record, Serves, OnlyWorker, PcInv, StateTyped, OwnTraffic
  <2> QED
    BY <1>1, <1>4, <2>1, WorkerMoves DEF Record
<1>5. CASE Leave(w)
  <2>1. OwnTraffic' /\ traffic' \in [PCs -> Activities]
    BY <1>1, <1>5 DEF Leave, OnlyWorker, PcInv, StateTyped, OwnTraffic
  <2>2. worker'[w] = NoWorker /\ \A v \in Slots \ {w} : worker'[v] = worker[v]
    BY <1>5 DEF Leave, PcInv, StateTyped
  <2>3. worker' \in [Slots -> {NoWorker} \cup Workers]
    BY <1>5 DEF Leave, PcInv, StateTyped
  <2>4. Living' = Living \ {w}
    BY <2>2 DEF Living
  <2>5. worker[w].at = "leave" /\ Unlocked /\ OnlyWorker
    BY <1>5 DEF Leave, At
  <2>6. \A h \in PCs : activity[h] # Idle => current[h] # w
    BY <1>1, <2>5 DEF PcInv, Served, OthersStopped, Joined, Unlocked
  <2>7. StateTyped' /\ LockKept'
    BY <2>1, <2>3, <2>5 DEF PcInv, StateTyped, LockKept, OnlyWorker
  <2>8. Served'
    BY <2>2, <2>4, <2>5, <2>6, LivingWorkers DEF PcInv, Served, OnlyWorker, Joined
  <2>9. OthersStopped'
    BY <2>2, <2>4, <2>5, LivingWorkers DEF PcInv, OthersStopped, OnlyWorker
  <2> QED
    BY <2>1, <2>7, <2>8, <2>9 DEF PcInv
<1> QED
  BY <1>2, <1>3, <1>4, <1>5 DEF WorkerStep

-----------------------------------------------------------------------------
LEMMA AnswerKeeps ==
    ASSUME PcInv, NEW c \in Clients, Answer(c) PROVE PcInv'
<1> USE PcAssumption
<1>1. UNCHANGED <<stateVars, request>> /\ DOMAIN turn' = Publishers
  BY DEF Answer, PcInv, StateTyped
<1>2. \A d \in Clients : turn'[d] = "join" <=> turn[d] = "join"
  BY DEF Answer, PcInv, StateTyped, Publishers
<1> QED
  BY <1>1, <1>2, Undisturbed

LEMMA WriteStateKeeps ==
    ASSUME PcInv, NEW t \in Publishers, WriteState(t) PROVE PcInv'
<1>1. UNCHANGED <<stateVars, request>> /\ DOMAIN turn' = Publishers
  BY DEF WriteState, GetState, OpenDraft, WriteText, Publish, PcInv, StateTyped
<1>2. turn[t] # "join" /\ turn'[t] # "join" /\ \A u \in Publishers \ {t} : turn'[u] = turn[u]
  <2>1. CASE GetState(t)
    BY <2>1 DEF GetState, PcInv, StateTyped
  <2>2. CASE OpenDraft(t)
    BY <2>2 DEF OpenDraft, PcInv, StateTyped
  <2>3. CASE WriteText(t)
    BY <2>3 DEF WriteText, PcInv, StateTyped
  <2>4. CASE Publish(t)
    BY <2>4 DEF Publish, PcInv, StateTyped
  <2> QED
    BY <2>1, <2>2, <2>3, <2>4 DEF WriteState
<1>3. \A d \in Clients : turn'[d] = "join" <=> turn[d] = "join"
  BY <1>2 DEF Publishers
<1> QED
  BY <1>1, <1>3, Undisturbed

\* Whatever it was in, a restarted process is idle.
LEMMA RestartKeeps ==
    ASSUME Restart PROVE PcInv'
<1> USE PcAssumption
<1>1. StateTyped'
  BY DEF Restart, StateTyped, AllIdle, NoWorkers, NoRequests, FirstTurns, Publishers, Writer
<1>2. Living' = {}
  BY DEF Restart, Living, NoWorkers
<1>3. LockKept'
  BY DEF Restart, LockKept, FirstTurns, Publishers, Writer
<1>4. (Served /\ OthersStopped /\ OwnTraffic)'
  BY <1>2 DEF Restart, Served, OthersStopped, OwnTraffic, AllIdle
<1> QED
  BY <1>1, <1>3, <1>4 DEF PcInv

LEMMA NextPcInv == PcInv /\ [PcNext]_pcVars => PcInv'
<1> SUFFICES ASSUME PcInv, [PcNext]_pcVars PROVE PcInv'
  OBVIOUS
<1>1. CASE Disturbance
  BY <1>1, RestartKeeps, AskKeeps DEF Disturbance
<1>2. ASSUME NEW c \in Clients, ClientStep(c) PROVE PcInv'
  BY <1>2, AnswerKeeps, SetNothingKeeps, StopWorkerKeeps, StartWorkerKeeps, WriteStateKeeps
     DEF ClientStep, Publishers
<1>3. ASSUME NEW w \in Slots, WorkerStep(w) PROVE PcInv'
  BY <1>3, WorkerStepKeeps
<1>4. CASE WriteState(Writer)
  BY <1>4, WriteStateKeeps DEF Publishers
<1>5. CASE UNCHANGED pcVars
  BY <1>5, Undisturbed DEF pcVars, PcInv, StateTyped
<1> QED
  BY <1>1, <1>2, <1>3, <1>4, <1>5 DEF PcNext

LEMMA PcInvIsEnough == PcInv => OneWorkerEach
<1> SUFFICES ASSUME PcInv PROVE OneWorkerEach
  OBVIOUS
<1>1. 0 \notin Living
  BY PcAssumption, LivingWorkers DEF PcInv
<1>2. ASSUME NEW h \in PCs, Unlocked
      PROVE  {w \in Living : worker[w].host = h /\ ~worker[w].stopped}
             = IF activity[h] = Idle THEN {} ELSE {current[h]}
  <2>1. CASE activity[h] = Idle
    BY <1>1, <1>2, <2>1 DEF PcInv, Served, OthersStopped
  <2>2. CASE activity[h] # Idle
    BY <1>2, <2>2 DEF PcInv, Served, OthersStopped, Joined, Unlocked
  <2> QED
    BY <2>1, <2>2
<1>3. ASSUME NEW h \in PCs, current[h] \in Living
      PROVE  worker[current[h]].activity = activity[h]
  BY <1>1, <1>3 DEF PcInv, Served
<1>4. \A h \in PCs : traffic[h] \in {Idle, activity[h]}
  BY Zenon DEF PcInv, OwnTraffic
<1> QED
  BY Zenon, <1>2, <1>3, <1>4 DEF OneWorkerEach

\* Whoever asks for what, and when: between two changes each PC has one worker
\* that goes on, for its activity, and no traffic of an earlier activity is
\* reported for it (set_activity, _start_worker, _stop_worker, _traffic_loop).
THEOREM OneWorkerForEachPC == PcSpec => []OneWorkerEach
<1>1. PcSpec => []PcInv
  BY InitPcInv, NextPcInv, PTL DEF PcSpec
<1> QED
  BY <1>1, PcInvIsEnough, PTL

-----------------------------------------------------------------------------
(* The publishing of the state file, which nothing above depends on.       *)

PublishingTyped ==
    /\ asks \in 0..MaxAsks
    /\ turn \in [Publishers -> {"idle", "set", "join", "snapshot", "open", "write", "replace"}]
    /\ snapshot \in [Publishers -> [PCs -> Activities]]
    /\ opened \in [Publishers -> {"nothing", "draft", "published", "unlinked"}]
    /\ published \in FileContents /\ draft \in FileContents

PcTyped == PcInv /\ PublishingTyped

LEMMA InitPublishingTyped == PcInit => PublishingTyped
<1> SUFFICES ASSUME PcInit PROVE PublishingTyped
  OBVIOUS
<1>1. AllIdle \in [PCs -> Activities]
  BY PcAssumption DEF AllIdle
<1>2. published \in FileContents /\ draft \in FileContents
  BY <1>1 DEF PcInit, FileContents
<1> QED
  BY <1>1, <1>2, PcAssumption DEF PcInit, PublishingTyped, FirstTurns

LEMMA TextTyped ==
    ASSUME PublishingTyped, NEW t \in Publishers, NEW old
    PROVE  Text(t, old) \subseteq FileContents
BY DEF PublishingTyped, Text, FileContents

LEMMA WriteStateTyped ==
    ASSUME PcInv, PublishingTyped, NEW t \in Publishers, WriteState(t)
    PROVE  PublishingTyped'
<1> USE DEF PublishingTyped
<1>1. CASE GetState(t)
  BY <1>1 DEF GetState, PcInv, StateTyped
<1>2. CASE OpenDraft(t)
  BY <1>2 DEF OpenDraft, FileContents
<1>3. CASE WriteText(t)
  <2>1. AllIdle \in [PCs -> Activities]
    BY PcAssumption DEF AllIdle
  <2>2. published' \in FileContents /\ draft' \in FileContents
    BY <1>3, TextTyped DEF WriteText
  <2> QED
    BY <1>3, <2>1, <2>2 DEF WriteText
<1>4. CASE Publish(t)
  <2>1. published' \in FileContents /\ draft' \in FileContents
    BY <1>4 DEF Publish, FileContents
  <2>2. opened' \in [Publishers -> {"nothing", "draft", "published", "unlinked"}]
    BY <1>4 DEF Publish
  <2> QED
    BY <1>4, <2>1, <2>2 DEF Publish
<1> QED
  BY <1>1, <1>2, <1>3, <1>4 DEF WriteState

LEMMA NextPublishingTyped ==
    PcInv /\ PublishingTyped /\ [PcNext]_pcVars => PublishingTyped'
<1> SUFFICES ASSUME PcInv, PublishingTyped, [PcNext]_pcVars PROVE PublishingTyped'
  OBVIOUS
<1> USE DEF PublishingTyped
<1>1. ASSUME NEW c \in Clients, Ask(c) PROVE PublishingTyped'
  <2>1. asks' \in 0..MaxAsks
    BY <1>1, PcAssumption DEF Ask
  <2> QED
    BY <1>1, <2>1 DEF Ask, publishVars
<1>2. ASSUME NEW c \in Clients,
             Answer(c) \/ SetNothing(c) \/ StopWorker(c) \/ StartWorker(c)
      PROVE  PublishingTyped'
  BY <1>2 DEF Answer, SetNothing, StopWorker, StartWorker, publishVars
<1>3. ASSUME NEW w \in Slots, WorkerStep(w) PROVE PublishingTyped'
  BY <1>3 DEF WorkerStep, TestEvent, Verify, Record, Leave, OnlyWorker, publishVars
<1>4. CASE Restart
  BY <1>4, PcAssumption DEF Restart, AllIdle, FirstTurns
<1>5. CASE UNCHANGED pcVars
  BY <1>5 DEF pcVars, publishVars
<1> QED
  BY <1>1, <1>2, <1>3, <1>4, <1>5, WriteStateTyped
  DEF PcNext, Disturbance, ClientStep, Publishers

LEMMA PcTypedIsTypeOK == PcTyped => PcTypeOK
BY DEF PcTyped, PcInv, StateTyped, PublishingTyped, PcTypeOK, Workers, Sets

\* The state file and its .tmp hold a snapshot of the activities, or are visibly
\* damaged, and whatever is half done at a restart is of its type again.
THEOREM PcActivityTyped == PcSpec => []PcTypeOK
BY PcTypedIsTypeOK, InitPcInv, NextPcInv, InitPublishingTyped, NextPublishingTyped,
   PTL DEF PcSpec, PcTyped

-----------------------------------------------------------------------------
(* Port scans and activities beside each other, as MCScanAndActivity runs    *)
(* them.  A step of one is a step of its specification and leaves the other  *)
(* alone, so the invariants of each are invariants of both.                  *)

\* What the parts promise each for itself, and their types, beside each other.
THEOREM PartsKeepTheirPromises ==
    MCSpec => /\ [](PartsTypeOK /\ ScansAreAlerted /\ OneWorkerEach)
              /\ DroppedEverywhere /\ MissedSourcesReturn
<1> DEFINE PartsInv == TypeOK /\ PcTyped
<1>1. MCInit => Init /\ PartsInv
  BY InitTyped, InitPcInv, InitPublishingTyped DEF MCInit, PcTyped
<1>2. [MCNext]_MCvars => [Next]_vars /\ [PcNext]_pcVars
  BY DEF MCNext, MCvars, ScanPart, PcPart
<1>3. PartsInv /\ [MCNext]_MCvars => PartsInv'
  BY <1>2, NextTyped, NextPcInv, NextPublishingTyped DEF PcTyped
<1>4. PartsInv => PartsTypeOK /\ OneWorkerEach
  BY PcTypedIsTypeOK, PcInvIsEnough DEF PcTyped, PartsTypeOK
<1>5. MCSpec => Spec
  BY <1>1, <1>2, PTL DEF MCSpec, Spec
<1> QED
  BY <1>1, <1>3, <1>4, <1>5, ScansAreDetected, DetectionDropsEverywhere,
   OnlyReturningSourcesAreMissed, PTL DEF MCSpec

=============================================================================
