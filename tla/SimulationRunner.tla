--------------------------- MODULE SimulationRunner ---------------------------
(***************************************************************************)
(* The simulation runner (simulation_runner.py).  A job is a thread that   *)
(* plays a scenario by writing the overlay file, whose entries the         *)
(* dashboard shows in place of the measured ones.  All jobs write through  *)
(* one .tmp file, without a lock, and an error of a write is only logged;  *)
(* a job removes the overlay, whoever wrote it, when it ends.  Requests    *)
(* stop all jobs or forget them.                                           *)
(*                                                                         *)
(* A scenario is the list of its writes and of the places where it returns *)
(* if it is stopped.  Waits and what it records are left out.              *)
(***************************************************************************)
EXTENDS Naturals, Sequences

CONSTANTS
    Jobs,           \* slots for threads that run
    Scenarios,      \* names of scenarios that are played
    RampSteps, EaseSteps,   \* repetitions in the congestion scenario
    MaxTimers       \* bound on the timers of stop_all that have not fired

ASSUME RunnerAssumption ==
    /\ RampSteps \in Nat /\ EaseSteps \in Nat /\ MaxTimers \in Nat
    /\ Scenarios \subseteq
          {"congestion", "ddos", "exam", "class", "link_failure", "all"}

VARIABLES
    step,       \* of each job: what it does next
    scenario, line,     \* its scenario and where it is in it
    running,    \* its flag
    registered, \* the jobs in _jobs
    stopEvent, timers,
    overlay, scratch,   \* the overlay file and its .tmp
    writing     \* of each job: where the inode it has open is now

jobVars == <<step, scenario, line, writing>>
runnerVars == <<jobVars, running, registered, stopEvent, timers, overlay, scratch>>

\* What the dashboard reads: entries of one job, or none.
Absent == [is |-> "missing", of |-> {}]
Empty == [is |-> "empty", of |-> {}]
Torn == [is |-> "torn", of |-> {}]
Entries(j) == [is |-> "entries", of |-> {j}]
OverlayContents == {Absent, Empty, Torn} \cup {Entries(j) : j \in Jobs}

RunnerInit ==
    /\ step = [j \in Jobs |-> "none"]
    /\ scenario = [j \in Jobs |-> "none"] /\ line = [j \in Jobs |-> 0]
    /\ running = [j \in Jobs |-> FALSE] /\ registered = {}
    /\ stopEvent = FALSE /\ timers = 0
    /\ overlay = Absent /\ scratch = Absent
    /\ writing = [j \in Jobs |-> "nothing"]

-----------------------------------------------------------------------------
(* Scenarios *)

Repeat(n, s) == [i \in 1 .. n * Len(s) |-> s[((i - 1) % Len(s)) + 1]]

Congestion ==
    Repeat(RampSteps, <<"check", "write">>) \o <<"write", "check">>
        \o Repeat(EaseSteps, <<"break", "write">>) \o <<"write">>
Ddos == <<"write", "check", "write", "write">>
Exam == <<"write", "write">>
Class == <<"write", "write">>
LinkFailure == <<"write", "check", "write", "write">>
All == <<"write", "check", "write", "write">>

Play(key) ==
    CASE key = "congestion" -> Congestion [] key = "ddos" -> Ddos
      [] key = "exam" -> Exam [] key = "class" -> Class
      [] key = "link_failure" -> LinkFailure [] key = "all" -> All

Stopped(j) == ~running[j] \/ stopEvent

-----------------------------------------------------------------------------
(* _run_job *)

StartScenario(j) ==
    \E key \in Scenarios :
        /\ step[j] = "none"
        /\ step' = [step EXCEPT ![j] = "play"]
        /\ scenario' = [scenario EXCEPT ![j] = key] /\ line' = [line EXCEPT ![j] = 1]
        /\ running' = [running EXCEPT ![j] = TRUE]
        /\ registered' = registered \cup {j}
        /\ UNCHANGED <<stopEvent, timers, overlay, scratch, writing>>

AtLine(j, what) ==
    /\ step[j] = "play" /\ line[j] <= Len(Play(scenario[j]))
    /\ Play(scenario[j])[line[j]] = what

\* The scenario returns if the job is stopped; the easing of the congestion only
\* goes on to its last write.
Check(j) ==
    /\ AtLine(j, "check") \/ AtLine(j, "break")
    /\ line' = [line EXCEPT ![j] =
                   IF ~Stopped(j) THEN @ + 1
                   ELSE IF AtLine(j, "check") THEN Len(Play(scenario[j])) + 1
                   ELSE Len(Play(scenario[j]))]
    /\ UNCHANGED <<step, scenario, writing, running, registered, stopEvent, timers,
                   overlay, scratch>>

\* _write_overlay: open truncates the file of that name or creates one.
OpenScratch(j) ==
    /\ AtLine(j, "write")
    /\ step' = [step EXCEPT ![j] = "write"]
    /\ scratch' = Empty /\ writing' = [writing EXCEPT ![j] = "scratch"]
    /\ UNCHANGED <<scenario, line, running, registered, stopEvent, timers, overlay>>

Overwritten(old, j) == IF old = Empty THEN {Entries(j)} ELSE {Entries(j), Torn}

WriteScratch(j) ==
    /\ step[j] = "write"
    /\ step' = [step EXCEPT ![j] = "replace"]
    /\ scratch' \in IF writing[j] = "scratch" THEN Overwritten(scratch, j) ELSE {scratch}
    /\ overlay' \in IF writing[j] = "overlay" THEN Overwritten(overlay, j) ELSE {overlay}
    /\ writing' = [writing EXCEPT ![j] = "nothing"]
    /\ UNCHANGED <<scenario, line, running, registered, stopEvent, timers>>

\* The file of a name goes: it is still open under another one, or under none.
Moved(from, to) == [j \in Jobs |-> IF writing[j] = from THEN to ELSE writing[j]]

ReplaceOverlay(j) ==
    /\ step[j] = "replace"
    /\ step' = [step EXCEPT ![j] = "play"] /\ line' = [line EXCEPT ![j] = @ + 1]
    /\ IF scratch = Absent THEN UNCHANGED <<overlay, scratch, writing>>
       ELSE /\ overlay' = scratch /\ scratch' = Absent
            /\ writing' = [i \in Jobs |-> CASE writing[i] = "overlay" -> "unlinked"
                                            [] writing[i] = "scratch" -> "overlay"
                                            [] OTHER -> writing[i]]
    /\ UNCHANGED <<scenario, running, registered, stopEvent, timers>>

\* Mutant of EndScenario: the overlay of another job is spared.
EndSparingOthers(j) ==
    /\ step[j] = "play" /\ line[j] > Len(Play(scenario[j]))
    /\ step' = [step EXCEPT ![j] = "forget"]
    /\ running' = [running EXCEPT ![j] = FALSE]
    /\ IF overlay = Entries(j)
       THEN overlay' = Absent /\ writing' = Moved("overlay", "unlinked")
       ELSE UNCHANGED <<overlay, writing>>
    /\ UNCHANGED <<scenario, line, registered, stopEvent, timers, scratch>>

\* The finally block: _clear_overlay, then the job leaves _jobs.
EndScenario(j) ==
    /\ step[j] = "play" /\ line[j] > Len(Play(scenario[j]))
    /\ step' = [step EXCEPT ![j] = "forget"]
    /\ running' = [running EXCEPT ![j] = FALSE]
    /\ overlay' = Absent /\ writing' = Moved("overlay", "unlinked")
    /\ UNCHANGED <<scenario, line, registered, stopEvent, timers, scratch>>

Forget(j) ==
    /\ step[j] = "forget"
    /\ step' = [step EXCEPT ![j] = "none"]
    /\ scenario' = [scenario EXCEPT ![j] = "none"] /\ line' = [line EXCEPT ![j] = 0]
    /\ registered' = registered \ {j}
    /\ UNCHANGED <<writing, running, stopEvent, timers, overlay, scratch>>

-----------------------------------------------------------------------------
(* Requests *)

StopAll ==
    /\ timers < MaxTimers /\ timers' = timers + 1
    /\ stopEvent' = TRUE
    /\ running' = [j \in Jobs |-> running[j] /\ j \notin registered]
    /\ overlay' = Absent /\ writing' = Moved("overlay", "unlinked")
    /\ UNCHANGED <<step, scenario, line, registered, scratch>>

\* One second after a stop, also one that another followed.
StopTimer ==
    /\ timers > 0 /\ timers' = timers - 1
    /\ stopEvent' = FALSE
    /\ UNCHANGED <<jobVars, running, registered, overlay, scratch>>

\* The jobs go on, but no later stop finds them.
ResetRunner ==
    /\ registered # {}
    /\ registered' = {}
    /\ overlay' = Absent /\ writing' = Moved("overlay", "unlinked")
    /\ UNCHANGED <<step, scenario, line, running, stopEvent, timers, scratch>>

-----------------------------------------------------------------------------
RunJob(j) ==
    \/ Check(j) \/ OpenScratch(j) \/ WriteScratch(j) \/ ReplaceOverlay(j)
    \/ EndScenario(j) \/ Forget(j)

RunnerNext ==
    \/ \E j \in Jobs : StartScenario(j) \/ RunJob(j)
    \/ StopAll \/ StopTimer \/ ResetRunner

RunnerSpec == RunnerInit /\ [][RunnerNext]_runnerVars

-----------------------------------------------------------------------------
(* Properties *)

RunnerTypeOK ==
    /\ step \in [Jobs -> {"none", "play", "write", "replace", "forget"}]
    /\ scenario \in [Jobs -> Scenarios \cup {"none"}] /\ line \in [Jobs -> Nat]
    /\ running \in [Jobs -> BOOLEAN] /\ registered \subseteq Jobs
    /\ stopEvent \in BOOLEAN /\ timers \in 0..MaxTimers
    /\ overlay \in OverlayContents /\ scratch \in OverlayContents
    /\ writing \in [Jobs -> {"nothing", "scratch", "overlay", "unlinked"}]

\* However the jobs' writes cross in the .tmp file, and whenever they are stopped
\* or forgotten, the dashboard shows entries of a job only while that job plays
\* its scenario, and there is no overlay when no job does.
Playing(j) == step[j] \in {"play", "write", "replace"}
OverlayOfActiveJob ==
    /\ \A j \in overlay.of : Playing(j)
    /\ overlay # Absent => \E j \in Jobs : Playing(j)

=============================================================================
