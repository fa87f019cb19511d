---------------------------- MODULE TimetableSync ----------------------------
(***************************************************************************)
(* The timetable engine (examples/timetable_engine.py) and the controller  *)
(* hook that follows it (campus_controller.py, _apply_timetable_hook).     *)
(*                                                                         *)
(* The engine is a process of two threads: "main" serves one HTTP request  *)
(* after another, "refresh" exports the state every interval.  Both build  *)
(* the state from the override file and the schedule and write it through  *)
(* the same .tmp file, which os.replace renames to the state file.  An     *)
(* open file is an inode: the rename of one thread turns the file the      *)
(* other one still has open into the state file.  Contents are buffered    *)
(* and reach the inode when the file is closed.                            *)
(*                                                                         *)
(* The controller, another process, records the modification time of the   *)
(* state file and then reads it, and does neither when the time is not     *)
(* newer than the recorded one.  Only the order of modification times      *)
(* matters, so they are kept as ranks.                                     *)
(***************************************************************************)
EXTENDS Integers, FiniteSets

CONSTANTS
    Modes,          \* keys of TIMETABLE_EFFECTS, those used by the schedule
    OverrideModes,  \* the ones that requests ask for
    Normal          \* "normal", the mode of a time without a slot

ASSUME ModesAssumption ==
    /\ Normal \in Modes /\ OverrideModes \subseteq Modes
    /\ Modes \cap {"missing", "empty", "torn"} = {}

VARIABLES
    slot,           \* mode of the current slot, Normal when there is none
    override,       \* set of at most one override: [mode, live]
    stateFile, tmpFile,     \* contents of the two names
    mtime,          \* ranks of the times of both files and of the recorded one
    engine,         \* "down", "up", "stopping"
    pc, held, handle,       \* of each thread: its next step, the mode it
                            \* computed, the inode it has open
    hook,           \* the hook's next step, "stat" or "read"
    timetableMode   \* timetable_mode of the controller

threadVars == <<pc, held, handle>>
fileVars == <<stateFile, tmpFile, mtime>>
hookVars == <<hook, timetableMode>>
vars == <<slot, override, fileVars, engine, threadVars, hookVars>>

Threads == {"main", "refresh"}
Contents == Modes \cup {"missing", "empty", "torn"}
None == {}

-----------------------------------------------------------------------------
(* Modification times *)

Clocks == {"state", "tmp", "seen"}
Ranked(m) == [k \in Clocks |-> Cardinality({m[j] : j \in {c \in Clocks : m[c] < m[k]}})]
Newest == Cardinality(Clocks)
Touched(k) == Ranked([mtime EXCEPT ![k] = Newest])

\* What build_state computes when nothing interferes.
Effective ==
    IF \E o \in override : o.live
    THEN (CHOOSE o \in override : TRUE).mode
    ELSE slot

Init ==
    /\ slot \in Modes /\ override = None
    /\ stateFile = "missing" /\ tmpFile = "missing"
    /\ mtime = [k \in Clocks |-> 0]
    /\ engine = "down"
    /\ pc = [t \in Threads |-> "idle"]
    /\ held = [t \in Threads |-> Normal]
    /\ handle = [t \in Threads |-> "none"]
    /\ hook = "stat" /\ timetableMode = Normal

Goto(t, step) == pc' = [pc EXCEPT ![t] = step]

-----------------------------------------------------------------------------
(* build_state and write_state, as both threads run them *)

\* Mutant of LoadOverride: an expired override is returned like any other.
LoadIgnoresExpiry(t) ==
    /\ pc[t] \in {"load", "peek"}
    /\ Goto(t, IF pc[t] = "load" THEN "open" ELSE "idle")
    /\ held' = [held EXCEPT ![t] =
                   IF override = None THEN slot ELSE (CHOOSE o \in override : TRUE).mode]
    /\ UNCHANGED <<slot, override, fileVars, engine, handle, hookVars>>

\* read_override up to its expiry check, and get_current_slot.  GET /state
\* ("peek") builds the state and writes nothing.
LoadOverride(t) ==
    /\ pc[t] \in {"load", "peek"}
    /\ IF \E o \in override : ~o.live
       THEN /\ Goto(t, IF pc[t] = "load" THEN "remove" ELSE "removeOnly")
            /\ UNCHANGED held
       ELSE /\ Goto(t, IF pc[t] = "load" THEN "open" ELSE "idle")
            /\ held' = [held EXCEPT ![t] = Effective]
    /\ UNCHANGED <<slot, override, fileVars, engine, handle, hookVars>>

\* The override that was loaded has expired: os.remove removes the file that has
\* its name now.  A file that is already gone raises, with the same result.
RemoveExpired(t) ==
    /\ pc[t] \in {"remove", "removeOnly"}
    /\ override' = None
    /\ Goto(t, IF pc[t] = "remove" THEN "open" ELSE "idle")
    /\ held' = [held EXCEPT ![t] = slot]
    /\ UNCHANGED <<slot, fileVars, engine, handle, hookVars>>

\* open(tmp, "w") creates or truncates the file of that name.
OpenTmp(t) ==
    /\ pc[t] = "open"
    /\ Goto(t, "write")
    /\ handle' = [handle EXCEPT ![t] = "tmp"]
    /\ tmpFile' = "empty" /\ mtime' = Touched("tmp")
    /\ UNCHANGED <<slot, override, stateFile, engine, held, hookVars>>

\* A text written at the start of a file that holds another, longer, one leaves
\* the end of that one behind.
Written(old, new) == IF old = "empty" THEN {new} ELSE {new, "torn"}

\* Mutant of WriteClose: the file stays open.
WriteWithoutClose(t) ==
    /\ pc[t] = "write"
    /\ Goto(t, "replace")
    /\ IF handle[t] = "tmp"
       THEN /\ tmpFile' = held[t] /\ mtime' = Touched("tmp")
            /\ UNCHANGED stateFile
       ELSE UNCHANGED fileVars
    /\ UNCHANGED <<slot, override, engine, held, handle, hookVars>>

\* The end of the with block: the text reaches the inode, whatever its name.
WriteClose(t) ==
    /\ pc[t] = "write"
    /\ Goto(t, "replace")
    /\ handle' = [handle EXCEPT ![t] = "none"]
    /\ \/ /\ handle[t] = "tmp"
          /\ tmpFile' \in Written(tmpFile, held[t]) /\ mtime' = Touched("tmp")
          /\ UNCHANGED stateFile
       \/ /\ handle[t] = "state"
          /\ stateFile' \in Written(stateFile, held[t]) /\ mtime' = Touched("state")
          /\ UNCHANGED tmpFile
       \/ handle[t] = "unlinked" /\ UNCHANGED fileVars
    /\ UNCHANGED <<slot, override, engine, held, hookVars>>

\* The rename: what is open under the old names is open under the new ones.
Rename ==
    /\ stateFile' = tmpFile /\ tmpFile' = "missing"
    /\ mtime' = Ranked([mtime EXCEPT !["state"] = mtime["tmp"]])
    /\ handle' = [t \in Threads |-> CASE handle[t] = "tmp" -> "state"
                                      [] handle[t] = "state" -> "unlinked"
                                      [] OTHER -> handle[t]]

\* Mutant of Replace: an exception ends the refresh thread.
ReplaceUncaught(t) ==
    /\ pc[t] = "replace"
    /\ Goto(t, IF tmpFile = "missing" /\ t = "refresh" THEN "dead" ELSE "idle")
    /\ IF tmpFile = "missing" THEN UNCHANGED <<fileVars, handle>> ELSE Rename
    /\ UNCHANGED <<slot, override, engine, held, hookVars>>

\* os.replace.  When the other thread has renamed the file away it raises; the
\* refresh loop logs it, the request ends without an answer.
Replace(t) ==
    /\ pc[t] = "replace"
    /\ Goto(t, "idle")
    /\ IF tmpFile = "missing" THEN UNCHANGED <<fileVars, handle>> ELSE Rename
    /\ UNCHANGED <<slot, override, engine, held, hookVars>>

ThreadStep(t) ==
    \/ LoadOverride(t) \/ RemoveExpired(t)
    \/ OpenTmp(t) \/ WriteClose(t) \/ Replace(t)

-----------------------------------------------------------------------------
(* What the threads do *)

\* _refresh_loop: the interval is over and the stop event is not set.
Refresh ==
    /\ engine = "up" /\ pc["refresh"] = "idle"
    /\ Goto("refresh", "load")
    /\ UNCHANGED <<slot, override, fileVars, engine, held, handle, hookVars>>

\* POST /override: write_override, whose .tmp file no other thread uses.
PostOverride(mode) ==
    /\ engine = "up" /\ pc["main"] = "idle"
    /\ override' = {[mode |-> mode, live |-> TRUE]}
    /\ Goto("main", "load")
    /\ UNCHANGED <<slot, fileVars, engine, held, handle, hookVars>>

\* POST /override/clear.
ClearOverride ==
    /\ engine = "up" /\ pc["main"] = "idle"
    /\ override' = None
    /\ Goto("main", "load")
    /\ UNCHANGED <<slot, fileVars, engine, held, handle, hookVars>>

GetState ==
    /\ engine = "up" /\ pc["main"] = "idle"
    /\ Goto("main", "peek")
    /\ UNCHANGED <<slot, override, fileVars, engine, held, handle, hookVars>>

\* A slot begins or ends, or the schedule is edited.
SlotChanges(mode) ==
    /\ slot' = mode
    /\ UNCHANGED <<override, fileVars, engine, threadVars, hookVars>>

OverrideExpires ==
    /\ \E o \in override : o.live
    /\ override' = {[o EXCEPT !.live = FALSE] : o \in override}
    /\ UNCHANGED <<slot, fileVars, engine, threadVars, hookVars>>

-----------------------------------------------------------------------------
(* Starting and stopping the engine *)

\* The first state write, before any other thread exists.
WriteFirstState ==
    /\ stateFile' = Effective /\ tmpFile' = "missing" /\ mtime' = Touched("state")
    /\ override' = {o \in override : o.live}

\* A process that still listens on the port lets no other one start: the new one
\* writes its first state, fails to bind and exits.
Start ==
    /\ engine # "up"
    /\ \A t \in Threads : pc[t] \in {"idle", "shutdown"}
    /\ WriteFirstState
    /\ engine' = IF engine = "down" THEN "up" ELSE engine
    /\ UNCHANGED <<slot, threadVars, hookVars>>

\* SIGTERM or SIGINT: the handler runs on the main thread, wherever that is.  It
\* sets the stop event and calls server.shutdown(), which waits until
\* serve_forever returns.  serve_forever is suspended below it on the same
\* thread, so sys.exit is not reached, and what main had open is never flushed.
Terminate ==
    /\ engine = "up"
    /\ engine' = "stopping"
    /\ Goto("main", "shutdown")
    /\ handle' = [handle EXCEPT !["main"] = "none"]
    /\ UNCHANGED <<slot, override, fileVars, held, hookVars>>

\* SIGKILL, or a crash.
Kill ==
    /\ engine # "down"
    /\ engine' = "down"
    /\ pc' = [t \in Threads |-> "idle"]
    /\ handle' = [t \in Threads |-> "none"]
    /\ UNCHANGED <<slot, override, fileVars, held, hookVars>>

-----------------------------------------------------------------------------
(* The controller *)

Unread == stateFile # "missing" /\ mtime["seen"] < mtime["state"]

\* Mutant of ApplyTimetableHook: the time is recorded after the file was read.
HookReadsFirst ==
    /\ \/ /\ hook = "stat" /\ Unread
          /\ timetableMode' = IF stateFile \in Modes THEN stateFile ELSE timetableMode
          /\ hook' = "read"
          /\ UNCHANGED mtime
       \/ /\ hook = "read"
          /\ mtime' = Ranked([mtime EXCEPT !["seen"] = mtime["state"]])
          /\ hook' = "stat"
          /\ UNCHANGED timetableMode
    /\ UNCHANGED <<slot, override, stateFile, tmpFile, engine, threadVars>>

\* A monitor pass: getmtime is recorded before the file is read, and a file that
\* is not JSON is left at that.
ApplyTimetableHook ==
    /\ \/ /\ hook = "stat" /\ Unread
          /\ mtime' = Ranked([mtime EXCEPT !["seen"] = mtime["state"]])
          /\ hook' = "read"
          /\ UNCHANGED timetableMode
       \/ /\ hook = "read"
          /\ timetableMode' = IF stateFile \in Modes THEN stateFile ELSE timetableMode
          /\ hook' = "stat"
          /\ UNCHANGED mtime
    /\ UNCHANGED <<slot, override, stateFile, tmpFile, engine, threadVars>>

RestartController ==
    /\ timetableMode' = Normal /\ hook' = "stat"
    /\ mtime' = Ranked([mtime EXCEPT !["seen"] = -1])
    /\ UNCHANGED <<slot, override, stateFile, tmpFile, engine, threadVars>>

-----------------------------------------------------------------------------

Next ==
    \/ \E t \in Threads : ThreadStep(t)
    \/ Refresh
    \/ \E mode \in OverrideModes : PostOverride(mode)
    \/ ClearOverride \/ GetState
    \/ \E mode \in Modes : SlotChanges(mode)
    \/ OverrideExpires
    \/ Start \/ Terminate \/ Kill
    \/ ApplyTimetableHook \/ RestartController

Spec == Init /\ [][Next]_vars

\* The threads of a process run, the refresh interval passes, and so do the
\* intervals of the controller's monitor loop.
TimetableFairness ==
    /\ WF_vars(Refresh) /\ WF_vars(ApplyTimetableHook)
    /\ \A t \in Threads : WF_vars(ThreadStep(t))

FairSpec == Spec /\ TimetableFairness

-----------------------------------------------------------------------------
(* Properties *)

\* Files hold a mode or are visibly damaged, times are ranks, and a thread has a
\* file open exactly between opening it and the end of its with block.
TypeOK ==
    /\ slot \in Modes
    /\ override \in SUBSET [mode : OverrideModes, live : BOOLEAN]
    /\ Cardinality(override) <= 1
    /\ stateFile \in Contents /\ tmpFile \in Contents
    /\ mtime \in [Clocks -> 0..Newest - 1]
    /\ engine \in {"down", "up", "stopping"}
    /\ pc \in [Threads -> {"idle", "load", "peek", "remove", "removeOnly", "open",
                           "write", "replace", "shutdown"}]
    /\ held \in [Threads -> Modes]
    /\ handle \in [Threads -> {"none", "tmp", "state", "unlinked"}]
    /\ hook \in {"stat", "read"} /\ timetableMode \in Modes
    /\ \A t \in Threads : handle[t] # "none" <=> pc[t] = "write"

\* Between two hooks, a controller whose recorded time is that of the state file
\* follows what the file says: a write that falls between getmtime and the read,
\* into the file or under its name, is never taken for one already seen.
NothingSkipped ==
    hook = "stat" /\ mtime["seen"] = mtime["state"] /\ stateFile \in Modes
        => timetableMode = stateFile

\* Once the mode that should govern stays the same, because requests and slot
\* changes have stopped and overrides have ended, the controller comes to follow
\* it for good: damaged and stale state files, failed renames, skipped times and
\* an expired override in the way are all made good by a later refresh.
Settles ==
    \A m \in Modes :
        /\ <>[](/\ engine = "up" /\ Effective = m
                /\ pc["main"] \in {"idle", "peek", "removeOnly"})
        /\ <>[][~RestartController]_vars
        => <>[](timetableMode = m)

\* An engine that is told to stop ends.
StopEnds == engine = "stopping" ~> engine = "down"

=============================================================================
