------------------------------ MODULE PcActivity ------------------------------
(***************************************************************************)
(* The activity manager of the user PCs (pc_activity_manager.py).  A PC    *)
(* that is not idle has a worker, a thread that sends one burst of traffic *)
(* after the other.  A request gives PCs new activities, one after the     *)
(* other; each change stops the old worker, waits three seconds for it and *)
(* starts the new one, all under the one lock, which the old worker needs  *)
(* to end.  So old workers live on for a while beside the new ones.        *)
(*                                                                         *)
(* The clients' threads and a periodic writer publish the state through    *)
(* one .tmp file.  The baseline file is left out.                          *)
(***************************************************************************)
EXTENDS Naturals, Sequences

CONSTANTS
    PCs, Activities, Idle,
    Clients,    \* names of the threads that serve requests
    Requests,   \* what they ask for: sequences of [host, activity]
    MaxAsks,    \* bound on the requests
    Slots       \* numbers of workers, not 0, which bound how many live at once

ASSUME PcAssumption ==
    /\ Idle \in Activities
    /\ Requests \subseteq Seq([host : PCs, activity : Activities])
    /\ MaxAsks \in Nat /\ Slots \subseteq Nat \ {0}
    /\ Clients \cap {"writer", "nobody"} = {}

VARIABLES
    activity,   \* _activity
    traffic,    \* _traffic_mbps: the activity it was measured for, Idle if zero
    worker,     \* the workers that live
    current,    \* _threads: the worker of each PC, 0 if there is none
    holder,     \* who keeps the lock beyond one step
    asks,       \* requests so far
    request,    \* what a client has still to set
    turn,       \* next step of a client, or of the writer
    snapshot,   \* the activities it is about to write
    opened,     \* where the inode it has open is now
    published, draft    \* the state file and its .tmp

stateVars == <<activity, traffic, worker, current, holder>>
publishVars == <<snapshot, opened, published, draft>>
pcVars == <<stateVars, asks, request, turn, publishVars>>

Writer == "writer"
Nobody == "nobody"
Publishers == Clients \cup {Writer}
NoWorker == [host |-> "none"]
Living == {w \in Slots : worker[w] # NoWorker}
Unlocked == holder = Nobody

\* What the state file may hold; a snapshot is the activity of every PC.
Missing == [is |-> "missing"]
Truncated == [is |-> "empty"]
Garbled == [is |-> "torn"]
Activity(s) == [is |-> "state", of |-> s]
FileContents == {Missing, Truncated, Garbled} \cup {Activity(s) : s \in [PCs -> Activities]}

AllIdle == [h \in PCs |-> Idle]
NoWorkers == [w \in Slots |-> NoWorker]
NoRequests == [c \in Clients |-> <<>>]
FirstTurns == [t \in Publishers |-> IF t = Writer THEN "snapshot" ELSE "idle"]

\* The state file is missing, or left behind by a process that was idle.
PcInit ==
    /\ activity = AllIdle /\ traffic = AllIdle
    /\ worker = NoWorkers /\ current = [h \in PCs |-> 0]
    /\ holder = Nobody
    /\ asks = 0 /\ request = NoRequests /\ turn = FirstTurns
    /\ snapshot = [t \in Publishers |-> AllIdle]
    /\ opened = [t \in Publishers |-> "nothing"]
    /\ published \in {Missing, Activity(AllIdle)} /\ draft = Missing

-----------------------------------------------------------------------------
(* Requests *)

\* set_activity of one PC, reset_all or set_scenario of several.
Ask(c) ==
    /\ turn[c] = "idle" /\ asks < MaxAsks /\ asks' = asks + 1
    /\ turn' = [turn EXCEPT ![c] = "set"]
    /\ \E r \in Requests : request' = [request EXCEPT ![c] = r]
    /\ UNCHANGED <<stateVars, publishVars>>

Answer(c) ==
    /\ turn[c] = "set" /\ request[c] = <<>>
    /\ turn' = [turn EXCEPT ![c] = "idle"]
    /\ UNCHANGED <<stateVars, asks, request, publishVars>>

\* Nothing is written for a PC that has the activity already.
SetNothing(c) ==
    /\ turn[c] = "set" /\ request[c] # <<>> /\ Unlocked
    /\ activity[Head(request[c]).host] = Head(request[c]).activity
    /\ request' = [request EXCEPT ![c] = Tail(@)]
    /\ UNCHANGED <<stateVars, asks, turn, publishVars>>

Stop(w) == [worker EXCEPT ![w].stopped = TRUE]

\* A mutant of StopWorker: the lock is not kept while the old worker is joined.
StopUnlocked(c) ==
    LET h == Head(request[c]).host IN
    /\ turn[c] = "set" /\ request[c] # <<>> /\ Unlocked /\ Living # Slots
    /\ activity[h] # Head(request[c]).activity
    /\ worker' = IF current[h] \in Living THEN Stop(current[h]) ELSE worker
    /\ turn' = [turn EXCEPT ![c] = "join"]
    /\ UNCHANGED <<activity, traffic, current, holder, asks, request, publishVars>>

StopWorker(c) ==
    LET h == Head(request[c]).host IN
    /\ turn[c] = "set" /\ request[c] # <<>> /\ Unlocked /\ Living # Slots
    /\ activity[h] # Head(request[c]).activity
    /\ worker' = IF current[h] \in Living THEN Stop(current[h]) ELSE worker
    /\ holder' = c /\ turn' = [turn EXCEPT ![c] = "join"]
    /\ UNCHANGED <<activity, traffic, current, asks, request, publishVars>>

\* The join is over, since the old worker has ended or the time is up.
StartWorker(c) ==
    LET set == Head(request[c]) IN
    /\ turn[c] = "join"
    /\ activity' = [activity EXCEPT ![set.host] = set.activity]
    /\ traffic' = [traffic EXCEPT ![set.host] = Idle]
    /\ IF set.activity = Idle
       THEN worker' = worker /\ current' = [current EXCEPT ![set.host] = 0]
       ELSE \E w \in Slots \ Living :
              /\ \A v \in Slots \ Living : w <= v
              /\ worker' = [worker EXCEPT ![w] =
                    [host |-> set.host, activity |-> set.activity,
                     stopped |-> FALSE, at |-> "test"]]
              /\ current' = [current EXCEPT ![set.host] = w]
    /\ holder' = Nobody
    /\ request' = [request EXCEPT ![c] = Tail(@)]
    /\ turn' = [turn EXCEPT ![c] = "snapshot"]
    /\ UNCHANGED <<asks, publishVars>>

-----------------------------------------------------------------------------
(* _traffic_loop *)

At(w, step) == w \in Living /\ worker[w].at = step
GoTo(w, step) == worker' = [worker EXCEPT ![w].at = step]
Serves(w) == activity[worker[w].host] = worker[w].activity
OnlyWorker == UNCHANGED <<activity, current, holder, asks, request, turn, publishVars>>

\* A mutant of TestEvent: the loop goes on as long as the activity is its own.
TestNothing(w) ==
    At(w, "test") /\ GoTo(w, "verify") /\ UNCHANGED traffic /\ OnlyWorker

TestEvent(w) ==
    /\ At(w, "test")
    /\ GoTo(w, IF worker[w].stopped THEN "leave" ELSE "verify")
    /\ UNCHANGED traffic /\ OnlyWorker

Verify(w) ==
    /\ At(w, "verify") /\ Unlocked
    /\ GoTo(w, IF Serves(w) THEN "burst" ELSE "leave")
    /\ UNCHANGED traffic /\ OnlyWorker

\* iperf3 has ended, with a measurement or without one.
Record(w) ==
    /\ At(w, "burst") /\ Unlocked
    /\ traffic' = IF Serves(w)
                  THEN [traffic EXCEPT ![worker[w].host] = worker[w].activity]
                  ELSE traffic
    /\ GoTo(w, "test") /\ OnlyWorker

Leave(w) ==
    /\ At(w, "leave") /\ Unlocked
    /\ traffic' = IF activity[worker[w].host] = Idle
                  THEN [traffic EXCEPT ![worker[w].host] = Idle]
                  ELSE traffic
    /\ worker' = [worker EXCEPT ![w] = NoWorker]
    /\ OnlyWorker

WorkerStep(w) == TestEvent(w) \/ Verify(w) \/ Record(w) \/ Leave(w)

-----------------------------------------------------------------------------
(* _write_state *)

GetState(t) ==
    /\ turn[t] = "snapshot" /\ Unlocked
    /\ snapshot' = [snapshot EXCEPT ![t] = activity]
    /\ turn' = [turn EXCEPT ![t] = "open"]
    /\ UNCHANGED <<stateVars, asks, request, opened, published, draft>>

OpenDraft(t) ==
    /\ turn[t] = "open"
    /\ draft' = Truncated /\ opened' = [opened EXCEPT ![t] = "draft"]
    /\ turn' = [turn EXCEPT ![t] = "write"]
    /\ UNCHANGED <<stateVars, asks, request, snapshot, published>>

\* The text is longer than a buffer, so that of two writers of one inode either
\* text, or a mixture, may come out.  The snapshot is not needed any more.
Alone(t) == \A u \in Publishers \ {t} : opened[u] # opened[t]
Text(t, old) ==
    {Activity(snapshot[t])} \cup (IF old = Truncated /\ Alone(t) THEN {} ELSE {Garbled})

WriteText(t) ==
    /\ turn[t] = "write"
    /\ draft' \in IF opened[t] = "draft" THEN Text(t, draft) ELSE {draft}
    /\ published' \in IF opened[t] = "published" THEN Text(t, published) ELSE {published}
    /\ opened' = [opened EXCEPT ![t] = "nothing"]
    /\ turn' = [turn EXCEPT ![t] = "replace"]
    /\ snapshot' = [snapshot EXCEPT ![t] = AllIdle]
    /\ UNCHANGED <<stateVars, asks, request>>

\* An error of the rename is only printed.
Publish(t) ==
    /\ turn[t] = "replace"
    /\ IF draft = Missing THEN UNCHANGED <<published, draft, opened>>
       ELSE /\ published' = draft /\ draft' = Missing
            /\ opened' = [u \in Publishers |-> CASE opened[u] = "published" -> "unlinked"
                                                 [] opened[u] = "draft" -> "published"
                                                 [] OTHER -> opened[u]]
    /\ turn' = [turn EXCEPT ![t] = IF t = Writer THEN "snapshot" ELSE "set"]
    /\ UNCHANGED <<stateVars, asks, request, snapshot>>

WriteState(t) == GetState(t) \/ OpenDraft(t) \/ WriteText(t) \/ Publish(t)

-----------------------------------------------------------------------------
\* The process ends, in the middle of whatever it does, and is started again.
Restart ==
    /\ activity' = AllIdle /\ traffic' = AllIdle
    /\ worker' = NoWorkers /\ current' = [h \in PCs |-> 0]
    /\ holder' = Nobody
    /\ request' = NoRequests /\ turn' = FirstTurns
    /\ snapshot' = [t \in Publishers |-> AllIdle]
    /\ opened' = [t \in Publishers |-> "nothing"]
    /\ UNCHANGED <<asks, published, draft>>

ClientStep(c) ==
    Answer(c) \/ SetNothing(c) \/ StopWorker(c) \/ StartWorker(c) \/ WriteState(c)

Disturbance == Restart \/ \E c \in Clients : Ask(c)

PcNext ==
    \/ Disturbance
    \/ \E c \in Clients : ClientStep(c)
    \/ \E w \in Slots : WorkerStep(w)
    \/ WriteState(Writer)

\* Threads are scheduled, bursts end, and the writer's interval passes.  Clients
\* need no fairness among them, since what each of them does comes to an end.
PcFairness ==
    /\ WF_pcVars(\E c \in Clients : ClientStep(c))
    /\ \A w \in Slots : WF_pcVars(WorkerStep(w))
    /\ WF_pcVars(WriteState(Writer))

PcSpec == PcInit /\ [][PcNext]_pcVars /\ PcFairness

-----------------------------------------------------------------------------
(* Properties *)

PcTypeOK ==
    /\ activity \in [PCs -> Activities] /\ traffic \in [PCs -> Activities]
    /\ worker \in [Slots -> {NoWorker} \cup
          [host : PCs, activity : Activities, stopped : BOOLEAN,
           at : {"test", "verify", "burst", "leave"}]]
    /\ current \in [PCs -> Slots \cup {0}]
    /\ asks \in 0..MaxAsks /\ holder \in Clients \cup {Nobody}
    /\ request \in [Clients -> Seq([host : PCs, activity : Activities])]
    /\ turn \in [Publishers -> {"idle", "set", "join", "snapshot", "open", "write", "replace"}]
    /\ snapshot \in [Publishers -> [PCs -> Activities]]
    /\ opened \in [Publishers -> {"nothing", "draft", "published", "unlinked"}]
    /\ published \in FileContents /\ draft \in FileContents

\* However requests and bursts overlap, and although a worker that was replaced
\* may live on: a PC has exactly one worker that was not told to stop, that of
\* its activity, and none if it is idle; and the traffic it reports was measured
\* for its activity, not for an earlier one.
OneWorkerEach ==
    \A h \in PCs :
        /\ Unlocked => {w \in Living : worker[w].host = h /\ ~worker[w].stopped}
                        = IF activity[h] = Idle THEN {} ELSE {current[h]}
        /\ current[h] \in Living => worker[current[h]].activity = activity[h]
        /\ traffic[h] \in {Idle, activity[h]}

\* When no more requests come, the file comes to show the activities for good,
\* whoever wrote last and whatever was torn, and only their workers live on.
PcSettles ==
    <>[][~Disturbance]_pcVars =>
        <>[](published = Activity(activity) /\ Living = {current[h] : h \in PCs} \ {0})

=============================================================================
