-------------------------- MODULE FollowedFiles_proofs --------------------------
(***************************************************************************)
(* Theorems about the files that other processes follow: the timetable's   *)
(* state file (TimetableSync), for any modes, and the overlay of the       *)
(* simulation runner (SimulationRunner), for any number of jobs and        *)
(* scenarios.  Both are written through a .tmp file that several threads   *)
(* share.  The last section composes them with Forwarding.                 *)
(***************************************************************************)
EXTENDS MCFollowedFiles, Forwarding_proofs, FiniteSetTheorems

-----------------------------------------------------------------------------
(* TimetableSync.  A state file whose time the controller has recorded     *)
(* cannot have been written since, because every write makes it the        *)
(* newest, and neither can it come by a rename: the .tmp file is newer or  *)
(* older than both other times while it exists (TmpApart).                 *)

TimesTyped == mtime \in [Clocks -> 0..2]

TmpApart ==
    tmpFile # "missing" => mtime["tmp"] # mtime["seen"] /\ mtime["tmp"] # mtime["state"]

HookTyped == hook \in {"stat", "read"}

TimetableInv == TimesTyped /\ TmpApart /\ HookTyped /\ NothingSkipped

\* Ranks are 0, 1 or 2 and in the order of what is ranked.
LEMMA RankedKeepsOrder ==
    ASSUME NEW m \in [Clocks -> Int]
    PROVE  /\ Ranked(m) \in [Clocks -> 0..2]
           /\ \A j, k \in Clocks : Ranked(m)[j] = Ranked(m)[k] <=> m[j] = m[k]
<1> DEFINE Times == {m["state"], m["tmp"], m["seen"]}
           Below(k) == {m[j] : j \in {c \in Clocks : m[c] < m[k]}}
<1>1. IsFiniteSet(Times) /\ Cardinality(Times) <= 3
  <2>1. IsFiniteSet({m["state"]}) /\ Cardinality({m["state"]}) = 1
    BY FS_Singleton
  <2>2. /\ IsFiniteSet({m["state"]} \cup {m["tmp"]})
        /\ Cardinality({m["state"]} \cup {m["tmp"]}) \in {1, 2}
    BY <2>1, FS_AddElement
  <2>3. /\ IsFiniteSet(({m["state"]} \cup {m["tmp"]}) \cup {m["seen"]})
        /\ Cardinality(({m["state"]} \cup {m["tmp"]}) \cup {m["seen"]}) \in {1, 2, 3}
    BY <2>2, FS_AddElement
  <2>4. Times = ({m["state"]} \cup {m["tmp"]}) \cup {m["seen"]}
    OBVIOUS
  <2> QED
    BY <2>3, <2>4
<1>2. \A k \in Clocks : Below(k) \in SUBSET Times /\ m[k] \in Times \ Below(k)
  BY DEF Clocks
<1> HIDE DEF Times, Below
<1>3. \A k \in Clocks : IsFiniteSet(Below(k)) /\ Cardinality(Below(k)) \in 0..2
  <2> SUFFICES ASSUME NEW k \in Clocks
               PROVE  IsFiniteSet(Below(k)) /\ Cardinality(Below(k)) \in 0..2
    OBVIOUS
  <2>1. /\ IsFiniteSet(Below(k)) /\ Cardinality(Below(k)) <= Cardinality(Times)
        /\ Cardinality(Below(k)) # Cardinality(Times)
    BY <1>1, <1>2, FS_Subset
  <2>2. Cardinality(Below(k)) \in Nat /\ Cardinality(Times) \in Nat
    BY <1>1, <2>1, FS_CardinalityType
  <2> QED
    BY <1>1, <2>1, <2>2
<1>4. ASSUME NEW j \in Clocks, NEW k \in Clocks, m[j] < m[k]
      PROVE  Cardinality(Below(j)) # Cardinality(Below(k))
  <2>1. Below(j) \in SUBSET Below(k) /\ m[j] \in Below(k)
    BY <1>4 DEF Below
  <2>2. m[j] \notin Below(j)
    BY <1>2
  <2> QED
    BY <1>3, <2>1, <2>2, FS_Subset
<1>5. ASSUME NEW j \in Clocks, NEW k \in Clocks, m[j] = m[k]
      PROVE  Below(j) = Below(k)
  BY <1>5 DEF Below
<1>6. Ranked(m) = [k \in Clocks |-> Cardinality(Below(k))]
  BY DEF Ranked, Below
<1>7. Ranked(m) \in [Clocks -> 0..2]
  BY <1>3, <1>6
<1>8. \A j, k \in Clocks : Ranked(m)[j] = Ranked(m)[k] <=> m[j] = m[k]
  <2> SUFFICES ASSUME NEW j \in Clocks, NEW k \in Clocks
               PROVE  Cardinality(Below(j)) = Cardinality(Below(k)) <=> m[j] = m[k]
    BY <1>6
  <2>1. CASE m[j] = m[k]
    BY <1>5, <2>1
  <2>2. CASE m[j] # m[k]
    <3>1. m[j] < m[k] \/ m[k] < m[j]
      BY <2>2
    <3> QED
      BY <1>4, <2>2, <3>1
  <2> QED
    BY <2>1, <2>2
<1> QED
  BY <1>7, <1>8

LEMMA NewestIsThree == Newest = 3
<1>1. IsFiniteSet({"state"}) /\ Cardinality({"state"}) = 1
  BY FS_Singleton
<1>2. IsFiniteSet({"state"} \cup {"tmp"}) /\ Cardinality({"state"} \cup {"tmp"}) = 2
  BY <1>1, FS_AddElement
<1>3. Cardinality(({"state"} \cup {"tmp"}) \cup {"seen"}) = 3
  BY <1>2, FS_AddElement
<1>4. Clocks = ({"state"} \cup {"tmp"}) \cup {"seen"}
  BY DEF Clocks
<1> QED
  BY <1>3, <1>4 DEF Newest

\* A file that is touched gets a time of its own.
LEMMA TouchedIsApart ==
    ASSUME TimesTyped, NEW k \in Clocks
    PROVE  /\ Touched(k) \in [Clocks -> 0..2]
           /\ \A j \in Clocks \ {k} : Touched(k)[j] # Touched(k)[k]
           /\ \A i, j \in Clocks \ {k} : Touched(k)[i] = Touched(k)[j] <=> mtime[i] = mtime[j]
<1> DEFINE m == [mtime EXCEPT ![k] = Newest]
<1>1. /\ m \in [Clocks -> Int] /\ m[k] = 3
      /\ \A j \in Clocks \ {k} : m[j] = mtime[j] /\ m[j] \in 0..2
  BY NewestIsThree DEF TimesTyped
<1> HIDE DEF m
<1>2. Touched(k) = Ranked(m)
  BY DEF Touched, m
<1>3. \A j \in Clocks \ {k} : m[j] # m[k]
  BY <1>1
<1> QED
  BY <1>1, <1>2, <1>3, RankedKeepsOrder

LEMMA InitTimetableInv == Init => TimetableInv
BY ModesAssumption
   DEF Init, TimetableInv, TimesTyped, TmpApart, HookTyped, NothingSkipped, Clocks

\* Writing a file, under either name.
LEMMA TouchKeeps ==
    ASSUME TimetableInv, UNCHANGED hookVars,
           \/ mtime' = Touched("tmp") /\ UNCHANGED stateFile
           \/ mtime' = Touched("state") /\ (UNCHANGED tmpFile \/ tmpFile' = "missing")
    PROVE  TimetableInv'
<1> USE DEF TimetableInv, TmpApart, HookTyped, NothingSkipped, hookVars
<1>1. {"state", "tmp", "seen"} = Clocks
  BY DEF Clocks
<1>2. CASE mtime' = Touched("tmp") /\ UNCHANGED stateFile
  <2>1. TimesTyped' /\ mtime'["tmp"] # mtime'["seen"] /\ mtime'["tmp"] # mtime'["state"]
        /\ (mtime'["seen"] = mtime'["state"] <=> mtime["seen"] = mtime["state"])
    BY <1>1, <1>2, TouchedIsApart DEF TimesTyped
  <2> QED
    BY <1>2, <2>1
<1>3. CASE mtime' = Touched("state") /\ (UNCHANGED tmpFile \/ tmpFile' = "missing")
  <2>1. TimesTyped' /\ mtime'["state"] # mtime'["seen"] /\ mtime'["tmp"] # mtime'["state"]
        /\ (mtime'["tmp"] = mtime'["seen"] <=> mtime["tmp"] = mtime["seen"])
    BY <1>1, <1>3, TouchedIsApart DEF TimesTyped
  <2> QED
    BY <1>3, <2>1
<1> QED
  BY <1>2, <1>3

LEMMA RenameKeeps ==
    ASSUME TimetableInv, Rename, tmpFile # "missing", UNCHANGED hookVars
    PROVE  TimetableInv'
<1> DEFINE m == [mtime EXCEPT !["state"] = mtime["tmp"]]
<1>1. "state" \in Clocks /\ "tmp" \in Clocks /\ "seen" \in Clocks
  BY DEF Clocks
<1>2. m \in [Clocks -> Int] /\ m["state"] # m["seen"] /\ mtime' = Ranked(m)
  BY <1>1 DEF TimetableInv, TimesTyped, TmpApart, Rename
<1> HIDE DEF m
<1>3. TimesTyped' /\ mtime'["seen"] # mtime'["state"]
  BY <1>1, <1>2, RankedKeepsOrder DEF TimesTyped
<1>4. tmpFile' = "missing"
  BY DEF Rename
<1> QED
  BY <1>3, <1>4 DEF TimetableInv, TmpApart, HookTyped, NothingSkipped, hookVars

LEMMA ApplyTimetableHookKeeps ==
    ASSUME TimetableInv, ApplyTimetableHook PROVE TimetableInv'
<1> DEFINE m == [mtime EXCEPT !["seen"] = mtime["state"]]
<1>1. "state" \in Clocks /\ "tmp" \in Clocks /\ "seen" \in Clocks
  BY DEF Clocks
<1>2. CASE /\ hook = "stat" /\ Unread
           /\ mtime' = Ranked([mtime EXCEPT !["seen"] = mtime["state"]])
           /\ hook' = "read" /\ UNCHANGED timetableMode
  <2>1. /\ m \in [Clocks -> Int] /\ m["tmp"] = mtime["tmp"]
        /\ m["state"] = mtime["state"] /\ m["seen"] = mtime["state"]
    BY <1>1 DEF TimetableInv, TimesTyped
  <2>2. mtime' = Ranked(m)
    BY <1>2
  <2> HIDE DEF m
  <2>3. /\ TimesTyped'
        /\ mtime["tmp"] # mtime["state"] =>
              mtime'["tmp"] # mtime'["seen"] /\ mtime'["tmp"] # mtime'["state"]
    BY <1>1, <2>1, <2>2, RankedKeepsOrder DEF TimesTyped
  <2> QED
    BY <1>2, <2>3
    DEF TimetableInv, TmpApart, HookTyped, NothingSkipped, ApplyTimetableHook
<1>3. CASE /\ hook = "read"
           /\ timetableMode' = IF stateFile \in Modes THEN stateFile ELSE timetableMode
           /\ hook' = "stat" /\ UNCHANGED mtime
  BY <1>3
  DEF TimetableInv, TimesTyped, TmpApart, HookTyped, NothingSkipped, ApplyTimetableHook
<1> QED
  BY <1>2, <1>3 DEF ApplyTimetableHook

LEMMA RestartControllerKeeps ==
    ASSUME TimetableInv, RestartController PROVE TimetableInv'
<1> DEFINE m == [mtime EXCEPT !["seen"] = -1]
<1>1. "state" \in Clocks /\ "tmp" \in Clocks /\ "seen" \in Clocks
  BY DEF Clocks
<1>2. /\ m \in [Clocks -> Int] /\ m["state"] # m["seen"] /\ m["tmp"] # m["seen"]
      /\ m["state"] = mtime["state"] /\ m["tmp"] = mtime["tmp"]
  BY <1>1 DEF TimetableInv, TimesTyped
<1>3. mtime' = Ranked(m)
  BY DEF RestartController
<1> HIDE DEF m
<1>4. /\ TimesTyped' /\ mtime'["seen"] # mtime'["state"] /\ mtime'["tmp"] # mtime'["seen"]
      /\ mtime'["tmp"] = mtime'["state"] <=> mtime["tmp"] = mtime["state"]
  BY <1>1, <1>2, <1>3, RankedKeepsOrder DEF TimesTyped
<1> QED
  BY <1>4 DEF TimetableInv, TmpApart, HookTyped, NothingSkipped, RestartController

LEMMA NextTimetableInv == TimetableInv /\ [Next]_vars => TimetableInv'
<1> SUFFICES ASSUME TimetableInv, [Next]_vars PROVE TimetableInv'
  OBVIOUS
<1>1. CASE UNCHANGED <<fileVars, hookVars>>
  BY <1>1
  DEF TimetableInv, TimesTyped, TmpApart, HookTyped, NothingSkipped, fileVars, hookVars
<1>2. ASSUME NEW t \in Threads, ThreadStep(t) PROVE TimetableInv'
  <2>1. CASE LoadOverride(t) \/ RemoveExpired(t)
    BY <1>1, <2>1 DEF LoadOverride, RemoveExpired
  <2>2. CASE OpenTmp(t)
    BY <2>2, TouchKeeps DEF OpenTmp
  <2>3. CASE WriteClose(t)
    BY <1>1, <2>3, TouchKeeps DEF WriteClose
  <2>4. CASE Replace(t)
    BY <1>1, <2>4, RenameKeeps DEF Replace
  <2> QED
    BY <1>2, <2>1, <2>2, <2>3, <2>4 DEF ThreadStep
<1>3. CASE Refresh \/ ClearOverride \/ GetState
  BY <1>1, <1>3 DEF Refresh, ClearOverride, GetState
<1>4. ASSUME NEW mode \in Modes, PostOverride(mode) \/ SlotChanges(mode)
      PROVE  TimetableInv'
  BY <1>1, <1>4 DEF PostOverride, SlotChanges
<1>5. CASE OverrideExpires \/ Terminate \/ Kill
  BY <1>1, <1>5 DEF OverrideExpires, Terminate, Kill
<1>6. CASE Start
  BY <1>6, TouchKeeps DEF Start, WriteFirstState
<1>7. CASE UNCHANGED vars
  BY <1>1, <1>7 DEF vars
<1> QED
  BY <1>2, <1>3, <1>4, <1>5, <1>6, <1>7, ModesAssumption,
     ApplyTimetableHookKeeps, RestartControllerKeeps DEF Next

\* However the two threads of the engine cross in their files, and whenever the
\* engine or the controller is killed and started again: the controller never
\* takes a state it has not read for one it has seen.
THEOREM NoStateIsSkipped == Spec => []NothingSkipped
<1>1. TimetableInv => NothingSkipped
  BY DEF TimetableInv
<1> QED
  BY <1>1, InitTimetableInv, NextTimetableInv, PTL DEF Spec

\* What TypeOK says, with the override as nothing or one request's, which is
\* what keeps it so when it expires.
OverrideTyped ==
    override = None \/ \E o \in [mode : OverrideModes, live : BOOLEAN] : override = {o}

ContentsInv ==
    slot \in Modes /\ OverrideTyped /\ stateFile \in Contents /\ tmpFile \in Contents

ThreadsInv ==
    /\ pc \in [Threads -> {"idle", "load", "peek", "remove", "removeOnly", "open",
                           "write", "replace", "shutdown"}]
    /\ held \in [Threads -> Modes]
    /\ handle \in [Threads -> {"none", "tmp", "state", "unlinked"}]
    /\ \A t \in Threads : handle[t] # "none" <=> pc[t] = "write"

StateTyped ==
    /\ ContentsInv /\ ThreadsInv
    /\ engine \in {"down", "up", "stopping"} /\ timetableMode \in Modes

LEMMA TypedOverrideIsOne ==
    ASSUME OverrideTyped
    PROVE  /\ override \in SUBSET [mode : OverrideModes, live : BOOLEAN]
           /\ Cardinality(override) <= 1
BY FS_EmptySet, FS_Singleton DEF OverrideTyped, None

LEMMA TypedIsTypeOK == TimetableInv /\ StateTyped => TypeOK
BY NewestIsThree, TypedOverrideIsOne
   DEF TimetableInv, TimesTyped, HookTyped, StateTyped, ContentsInv, ThreadsInv, TypeOK

\* What the state says is a mode, whether it is the override's or the slot's.
LEMMA EffectiveTyped == ContentsInv => Effective \in Modes
BY ModesAssumption DEF ContentsInv, OverrideTyped, Effective, None

LEMMA InitStateTyped == Init => StateTyped
BY ModesAssumption
   DEF Init, StateTyped, ContentsInv, ThreadsInv, OverrideTyped, Contents, Threads, None

LEMMA ThreadStepTyped ==
    ASSUME StateTyped, NEW t \in Threads, ThreadStep(t) PROVE StateTyped'
<1> USE DEF StateTyped, ContentsInv, ThreadsInv
<1>1. CASE LoadOverride(t)
  <2>1. Effective \in Modes
    BY EffectiveTyped
  <2> QED
    BY <1>1, <2>1 DEF LoadOverride, Goto, OverrideTyped, fileVars, hookVars
<1>2. CASE RemoveExpired(t)
  BY <1>2 DEF RemoveExpired, Goto, OverrideTyped, fileVars, hookVars
<1>3. CASE OpenTmp(t)
  BY <1>3 DEF OpenTmp, Goto, OverrideTyped, Contents, hookVars
<1>4. CASE WriteClose(t)
  <2>1. held[t] \in Modes /\ \A old : Written(old, held[t]) \subseteq Contents
    BY DEF Written, Contents
  <2>2. stateFile' \in Contents /\ tmpFile' \in Contents
    BY <1>4, <2>1 DEF WriteClose, fileVars
  <2>3. ThreadsInv'
    BY <1>4 DEF WriteClose, Goto
  <2> QED
    BY <1>4, <2>2, <2>3 DEF WriteClose, OverrideTyped, hookVars
<1>5. CASE Replace(t)
  <2>1. stateFile' \in Contents /\ tmpFile' \in Contents
    BY <1>5 DEF Replace, Rename, Contents, fileVars
  <2>2. /\ handle' \in [Threads -> {"none", "tmp", "state", "unlinked"}]
        /\ \A u \in Threads : handle'[u] = "none" <=> handle[u] = "none"
    <3>1. CASE tmpFile = "missing"
      BY <1>5, <3>1 DEF Replace
    <3>2. CASE tmpFile # "missing"
      BY <1>5, <3>2 DEF Replace, Rename
    <3> QED
      BY <3>1, <3>2
  <2>3. ThreadsInv'
    BY <1>5, <2>2 DEF Replace, Goto
  <2> QED
    BY <1>5, <2>1, <2>3 DEF Replace, OverrideTyped, hookVars
<1> QED
  BY <1>1, <1>2, <1>3, <1>4, <1>5 DEF ThreadStep

LEMMA NextStateTyped == StateTyped /\ [Next]_vars => StateTyped'
<1> SUFFICES ASSUME StateTyped, [Next]_vars PROVE StateTyped'
  OBVIOUS
<1> USE DEF StateTyped, ContentsInv, ThreadsInv
<1>1. CASE Refresh \/ ClearOverride \/ GetState
  BY <1>1
  DEF Refresh, ClearOverride, GetState, Goto, OverrideTyped, Threads, fileVars, hookVars
<1>2. ASSUME NEW mode \in OverrideModes, PostOverride(mode) PROVE StateTyped'
  <2>1. ThreadsInv'
    BY <1>2 DEF PostOverride, Goto, Threads
  <2>2. OverrideTyped'
    BY <1>2 DEF PostOverride, OverrideTyped
  <2> QED
    BY <1>2, <2>1, <2>2 DEF PostOverride, fileVars, hookVars
<1>3. ASSUME NEW mode \in Modes, SlotChanges(mode) PROVE StateTyped'
  BY <1>3 DEF SlotChanges, OverrideTyped, fileVars, threadVars, hookVars
<1>4. CASE OverrideExpires
  <2>1. PICK o \in [mode : OverrideModes, live : BOOLEAN] : override = {o}
    BY <1>4 DEF OverrideExpires, OverrideTyped, None
  <2>2. override' = {[o EXCEPT !.live = FALSE]}
    BY <1>4, <2>1 DEF OverrideExpires
  <2>3. OverrideTyped'
    BY <2>2 DEF OverrideTyped
  <2> QED
    BY <1>4, <2>3 DEF OverrideExpires, fileVars, threadVars, hookVars
<1>5. CASE Start
  <2>1. override' = {o \in override : o.live} /\ stateFile' = Effective
    BY <1>5 DEF Start, WriteFirstState
  <2>2. OverrideTyped'
    <3>1. CASE override = None
      BY <2>1, <3>1 DEF OverrideTyped, None
    <3>2. ASSUME NEW o \in [mode : OverrideModes, live : BOOLEAN], override = {o}
          PROVE  OverrideTyped'
      <4>1. override' = {o} \/ override' = {}
        BY <2>1, <3>2
      <4> QED
        BY <4>1 DEF OverrideTyped, None
    <3> QED
      BY <3>1, <3>2 DEF OverrideTyped
  <2> QED
    BY <1>5, <2>1, <2>2, EffectiveTyped
    DEF Start, WriteFirstState, Contents, threadVars, hookVars
<1>6. CASE Terminate \/ Kill
  BY <1>6 DEF Terminate, Kill, Goto, OverrideTyped, Threads, fileVars, hookVars
<1>7. CASE ApplyTimetableHook \/ RestartController
  BY <1>7, ModesAssumption DEF ApplyTimetableHook, RestartController, OverrideTyped, threadVars
<1>8. CASE UNCHANGED vars
  BY <1>8 DEF vars, OverrideTyped, fileVars, threadVars, hookVars
<1> QED
  BY <1>1, <1>2, <1>3, <1>4, <1>5, <1>6, <1>7, <1>8, ThreadStepTyped DEF Next

\* The state file, and the .tmp file, hold a mode or are visibly damaged, and a
\* thread has a file open exactly between its open and the end of its with block,
\* wherever signals, crashes and the other thread's renames find it.
THEOREM TimetableTyped == Spec => []TypeOK
BY TypedIsTypeOK, InitTimetableInv, NextTimetableInv, InitStateTyped, NextStateTyped,
   PTL DEF Spec

-----------------------------------------------------------------------------
(* SimulationRunner.  Jobs cross in the one .tmp file, yet what is in it   *)
(* comes from a job that has still to replace the overlay with it: whoever *)
(* replaces the overlay takes the .tmp away, and every job tries to before *)
(* it ends.                                                                *)

\* The two files hold something a reader can name the job of.
FilesTyped == overlay \in OverlayContents /\ scratch \in OverlayContents

\* What a job wrote to the .tmp file it has yet to move.
ScratchOfWriter == \A j \in scratch.of : step[j] = "replace"

RunnerInv ==
    /\ step \in [Jobs -> {"none", "play", "write", "replace", "forget"}]
    /\ FilesTyped
    /\ ScratchOfWriter
    /\ OverlayOfActiveJob

LEMMA ContentsTyped ==
    /\ Absent \in OverlayContents /\ Empty \in OverlayContents /\ Torn \in OverlayContents
    /\ Absent.of = {} /\ Empty.of = {} /\ Torn.of = {}
    /\ Empty # Absent /\ Torn # Absent
    /\ \A j \in Jobs : Entries(j) \in OverlayContents /\ Entries(j).of = {j} /\ Entries(j) # Absent
BY DEF OverlayContents, Absent, Empty, Torn, Entries

\* Writing to a file leaves it with entries of the writer or of nobody.
LEMMA OverwrittenOfWriter ==
    ASSUME NEW old, NEW j \in Jobs, NEW new \in Overwritten(old, j)
    PROVE  new \in OverlayContents /\ new.of \subseteq {j} /\ new # Absent
BY ContentsTyped DEF Overwritten

LEMMA InitRunnerInv == RunnerInit => RunnerInv
<1> SUFFICES ASSUME RunnerInit PROVE RunnerInv
  OBVIOUS
<1>1. overlay = Absent /\ scratch = Absent /\ step = [j \in Jobs |-> "none"]
  BY DEF RunnerInit
<1> QED
  BY <1>1, ContentsTyped DEF RunnerInv, FilesTyped, ScratchOfWriter, OverlayOfActiveJob

\* A job that begins, goes on or is told to stop keeps playing what it wrote.
LEMMA ProgressInv ==
    ASSUME RunnerInv, NEW j \in Jobs, StartScenario(j) \/ Check(j) \/ Forget(j)
    PROVE  RunnerInv'
<1>1. overlay' = overlay /\ scratch' = scratch
  BY DEF StartScenario, Check, Forget
<1>2. step' \in [Jobs -> {"none", "play", "write", "replace", "forget"}]
  BY DEF RunnerInv, StartScenario, Check, Forget
<1>3. \A i \in Jobs : /\ Playing(i) => Playing(i)'
                      /\ step[i] = "replace" => step'[i] = "replace"
  BY DEF RunnerInv, StartScenario, Check, Forget, Playing
<1>4. overlay.of \subseteq Jobs /\ scratch.of \subseteq Jobs
  BY ContentsTyped DEF RunnerInv, FilesTyped, OverlayContents
<1> QED
  BY <1>1, <1>2, <1>3, <1>4 DEF RunnerInv, FilesTyped, ScratchOfWriter, OverlayOfActiveJob

LEMMA OpenScratchInv ==
    ASSUME RunnerInv, NEW j \in Jobs, OpenScratch(j)
    PROVE  RunnerInv'
<1>1. overlay' = overlay /\ scratch' = Empty
  BY DEF OpenScratch
<1>2. step' \in [Jobs -> {"none", "play", "write", "replace", "forget"}]
  BY DEF RunnerInv, OpenScratch
<1>3. \A i \in Jobs : Playing(i) => Playing(i)'
  BY DEF RunnerInv, OpenScratch, Playing
<1>4. overlay.of \subseteq Jobs
  BY ContentsTyped DEF RunnerInv, FilesTyped, OverlayContents
<1> QED
  BY <1>1, <1>2, <1>3, <1>4, ContentsTyped
  DEF RunnerInv, FilesTyped, ScratchOfWriter, OverlayOfActiveJob

LEMMA WriteScratchInv ==
    ASSUME RunnerInv, NEW j \in Jobs, WriteScratch(j)
    PROVE  RunnerInv'
<1>1. /\ step[j] = "write" /\ step' = [step EXCEPT ![j] = "replace"]
      /\ scratch' = scratch \/ scratch' \in Overwritten(scratch, j)
      /\ overlay' = overlay \/ overlay' \in Overwritten(overlay, j)
  BY DEF WriteScratch
<1>2. step' \in [Jobs -> {"none", "play", "write", "replace", "forget"}] /\ step'[j] = "replace"
  BY <1>1 DEF RunnerInv
<1>3. \A i \in Jobs : /\ Playing(i) => Playing(i)'
                      /\ step[i] = "replace" => step'[i] = "replace"
  BY <1>1 DEF RunnerInv, Playing
<1>4. overlay.of \subseteq Jobs /\ scratch.of \subseteq Jobs
  BY ContentsTyped DEF RunnerInv, FilesTyped, OverlayContents
<1>5. scratch' \in OverlayContents /\ \A i \in scratch'.of : step'[i] = "replace"
  BY <1>1, <1>2, <1>3, <1>4, OverwrittenOfWriter DEF RunnerInv, FilesTyped, ScratchOfWriter
<1>6. overlay' \in OverlayContents /\ \A i \in overlay'.of : Playing(i)'
  BY <1>1, <1>2, <1>3, <1>4, OverwrittenOfWriter
  DEF RunnerInv, FilesTyped, OverlayOfActiveJob, Playing
<1>7. Playing(j)'
  BY <1>2 DEF Playing
<1> QED
  BY <1>2, <1>5, <1>6, <1>7 DEF RunnerInv, FilesTyped, ScratchOfWriter, OverlayOfActiveJob

LEMMA ReplaceOverlayInv ==
    ASSUME RunnerInv, NEW j \in Jobs, ReplaceOverlay(j)
    PROVE  RunnerInv'
<1>1. step[j] = "replace" /\ step' = [step EXCEPT ![j] = "play"]
  BY DEF ReplaceOverlay
<1>2. step' \in [Jobs -> {"none", "play", "write", "replace", "forget"}]
  BY <1>1 DEF RunnerInv
<1>3. \A i \in Jobs : Playing(i) => Playing(i)'
  BY <1>1 DEF RunnerInv, Playing
<1>4. overlay.of \subseteq Jobs /\ scratch.of \subseteq Jobs
  BY ContentsTyped DEF RunnerInv, FilesTyped, OverlayContents
<1>5. Playing(j)'
  BY <1>1, <1>3 DEF Playing
<1>6. CASE scratch = Absent
  <2>1. overlay' = overlay /\ scratch' = Absent
    BY <1>6 DEF ReplaceOverlay
  <2> QED
    BY <1>2, <1>3, <1>4, <2>1, ContentsTyped
    DEF RunnerInv, FilesTyped, ScratchOfWriter, OverlayOfActiveJob
<1>7. CASE scratch # Absent
  <2>1. overlay' = scratch /\ scratch' = Absent
    BY <1>7 DEF ReplaceOverlay
  <2>2. \A i \in overlay'.of : Playing(i)'
    BY <1>3, <1>4, <2>1 DEF RunnerInv, ScratchOfWriter, Playing
  <2> QED
    BY <1>2, <1>5, <2>1, <2>2, ContentsTyped
    DEF RunnerInv, FilesTyped, ScratchOfWriter, OverlayOfActiveJob
<1> QED
  BY <1>6, <1>7

\* A job that ends, and requests that stop or forget the jobs, remove the overlay.
LEMMA ClearInv ==
    ASSUME RunnerInv,
           \/ \E j \in Jobs : EndScenario(j)
           \/ StopAll \/ ResetRunner
    PROVE  RunnerInv'
<1>1. overlay' = Absent /\ scratch' = scratch
  BY DEF EndScenario, StopAll, ResetRunner
<1>2. step' \in [Jobs -> {"none", "play", "write", "replace", "forget"}]
  BY DEF RunnerInv, EndScenario, StopAll, ResetRunner
<1>3. \A i \in Jobs : step[i] = "replace" => step'[i] = "replace"
  BY DEF RunnerInv, EndScenario, StopAll, ResetRunner
<1>4. scratch.of \subseteq Jobs
  BY ContentsTyped DEF RunnerInv, FilesTyped, OverlayContents
<1> QED
  BY <1>1, <1>2, <1>3, <1>4, ContentsTyped
  DEF RunnerInv, FilesTyped, ScratchOfWriter, OverlayOfActiveJob

LEMMA NextRunnerInv == RunnerInv /\ [RunnerNext]_runnerVars => RunnerInv'
<1> SUFFICES ASSUME RunnerInv, [RunnerNext]_runnerVars PROVE RunnerInv'
  OBVIOUS
<1>1. CASE \E j \in Jobs : StartScenario(j) \/ Check(j) \/ Forget(j)
  BY <1>1, ProgressInv
<1>2. CASE \E j \in Jobs : OpenScratch(j)
  BY <1>2, OpenScratchInv
<1>3. CASE \E j \in Jobs : WriteScratch(j)
  BY <1>3, WriteScratchInv
<1>4. CASE \E j \in Jobs : ReplaceOverlay(j)
  BY <1>4, ReplaceOverlayInv
<1>5. CASE (\E j \in Jobs : EndScenario(j)) \/ StopAll \/ ResetRunner
  BY <1>5, ClearInv
<1>6. CASE StopTimer \/ UNCHANGED runnerVars
  BY <1>6
  DEF RunnerInv, FilesTyped, ScratchOfWriter, OverlayOfActiveJob, Playing, StopTimer,
      runnerVars, jobVars
<1> QED
  BY <1>1, <1>2, <1>3, <1>4, <1>5, <1>6 DEF RunnerNext, RunJob

\* However many jobs write through the one .tmp file, in whatever order they are
\* stopped or forgotten: the dashboard shows entries of a job only while it plays
\* its scenario, and no overlay is left when none does.
THEOREM NoOverlayOutlivesItsJob == RunnerSpec => []OverlayOfActiveJob
<1>1. RunnerInv => OverlayOfActiveJob
  BY DEF RunnerInv
<1> QED
  BY <1>1, InitRunnerInv, NextRunnerInv, PTL DEF RunnerSpec

\* What RunnerTypeOK says besides.  The line of a job is one of a scenario that
\* exists, because a job that plays one has its name.
JobsTyped ==
    /\ scenario \in [Jobs -> Scenarios \cup {"none"}] /\ line \in [Jobs -> Nat]
    /\ running \in [Jobs -> BOOLEAN]
    /\ writing \in [Jobs -> {"nothing", "scratch", "overlay", "unlinked"}]
    /\ \A j \in Jobs : Playing(j) => scenario[j] \in Scenarios

RequestsTyped == registered \subseteq Jobs /\ stopEvent \in BOOLEAN /\ timers \in 0..MaxTimers

RunnerTyped == RunnerInv /\ JobsTyped /\ RequestsTyped

LEMMA PairRepeats ==
    ASSUME NEW S, NEW n \in Nat, NEW a \in S, NEW b \in S
    PROVE  Repeat(n, <<a, b>>) \in Seq(S)
<1> DEFINE s == <<a, b>>
<1>1. Len(s) = 2 /\ \A k \in 0..1 : s[k + 1] \in S
  OBVIOUS
<1>2. \A i \in 1..n * 2 : (i - 1) % 2 \in 0..1
  OBVIOUS
<1> HIDE DEF s
<1>3. Repeat(n, s) = [i \in 1..n * 2 |-> s[((i - 1) % 2) + 1]]
  BY <1>1 DEF Repeat
<1>4. Repeat(n, s) \in [1..n * 2 -> S] /\ n * 2 \in Nat
  BY <1>1, <1>2, <1>3
<1>5. Repeat(n, s) \in Seq(S)
  BY <1>4
<1> QED
  BY <1>5 DEF s

LEMMA ScenariosHaveLines == \A key \in Scenarios : Len(Play(key)) \in Nat
<1> DEFINE Ramp == Repeat(RampSteps, <<"check", "write">>)
           Ease == Repeat(EaseSteps, <<"break", "write">>)
           Steps == Seq({"check", "break", "write"})
<1>1. Ramp \in Steps /\ Ease \in Steps
  BY PairRepeats, RunnerAssumption
<1>2. <<"write", "check">> \in Steps /\ <<"write">> \in Steps
  OBVIOUS
<1>3. Congestion = ((Ramp \o <<"write", "check">>) \o Ease) \o <<"write">>
  BY DEF Congestion
<1>4. Play("congestion") = Congestion
  BY DEF Play
<1> HIDE DEF Ramp, Ease
<1>5. Play("congestion") \in Steps
  <2>1. Ramp \o <<"write", "check">> \in Steps
    BY <1>1, <1>2
  <2>2. (Ramp \o <<"write", "check">>) \o Ease \in Steps
    BY <1>1, <2>1
  <2>3. ((Ramp \o <<"write", "check">>) \o Ease) \o <<"write">> \in Steps
    BY <1>2, <2>2
  <2> QED
    BY <1>3, <1>4, <2>3
<1>6. /\ Len(Play("ddos")) = 4 /\ Len(Play("exam")) = 2 /\ Len(Play("class")) = 2
      /\ Len(Play("link_failure")) = 4 /\ Len(Play("all")) = 4
  BY DEF Play, Ddos, Exam, Class, LinkFailure, All
<1> QED
  BY <1>5, <1>6, RunnerAssumption

LEMMA InitRunnerTyped == RunnerInit => RunnerTyped
<1> SUFFICES ASSUME RunnerInit PROVE RunnerTyped
  OBVIOUS
<1>1. JobsTyped
  BY DEF RunnerInit, JobsTyped, Playing
<1>2. registered \subseteq Jobs /\ stopEvent \in BOOLEAN /\ timers = 0
  BY DEF RunnerInit
<1>3. RequestsTyped
  BY <1>2, RunnerAssumption DEF RequestsTyped
<1> QED
  BY <1>1, <1>3, InitRunnerInv DEF RunnerTyped

LEMMA NextRequestsTyped == RequestsTyped /\ [RunnerNext]_runnerVars => RequestsTyped'
<1> SUFFICES ASSUME RequestsTyped, [RunnerNext]_runnerVars PROVE RequestsTyped'
  OBVIOUS
<1>1. registered' \subseteq Jobs
  BY DEF RequestsTyped, RunnerNext, RunJob, StartScenario, Check, OpenScratch,
         WriteScratch, ReplaceOverlay, EndScenario, Forget, StopAll, StopTimer,
         ResetRunner, runnerVars
<1>2. stopEvent' \in {stopEvent, TRUE, FALSE}
  BY DEF RequestsTyped, RunnerNext, RunJob, StartScenario, Check, OpenScratch,
         WriteScratch, ReplaceOverlay, EndScenario, Forget, StopAll, StopTimer,
         ResetRunner, runnerVars
<1>3. \/ timers' = timers
      \/ timers < MaxTimers /\ timers' = timers + 1
      \/ timers > 0 /\ timers' = timers - 1
  BY DEF RequestsTyped, RunnerNext, RunJob, StartScenario, Check, OpenScratch,
         WriteScratch, ReplaceOverlay, EndScenario, Forget, StopAll, StopTimer,
         ResetRunner, runnerVars
<1>4. timers' \in 0..MaxTimers
  BY <1>3, RunnerAssumption DEF RequestsTyped
<1> QED
  BY <1>1, <1>2, <1>4 DEF RequestsTyped

LEMMA NextJobsTyped == RunnerInv /\ JobsTyped /\ [RunnerNext]_runnerVars => JobsTyped'
<1> SUFFICES ASSUME RunnerInv, JobsTyped, [RunnerNext]_runnerVars PROVE JobsTyped'
  OBVIOUS
<1> USE DEF RunnerInv, JobsTyped, Playing
<1>1. ASSUME NEW j \in Jobs, StartScenario(j) PROVE JobsTyped'
  BY <1>1 DEF StartScenario
<1>2. ASSUME NEW j \in Jobs, Check(j) PROVE JobsTyped'
  <2>1. step[j] = "play" /\ Len(Play(scenario[j])) \in Nat
    BY <1>2, ScenariosHaveLines DEF Check, AtLine
  <2>2. line' \in [Jobs -> Nat]
    BY <1>2, <2>1 DEF Check
  <2> QED
    BY <1>2, <2>2 DEF Check
<1>3. ASSUME NEW j \in Jobs, OpenScratch(j) PROVE JobsTyped'
  BY <1>3 DEF OpenScratch, AtLine
<1>4. ASSUME NEW j \in Jobs, WriteScratch(j) PROVE JobsTyped'
  BY <1>4 DEF WriteScratch
<1>5. ASSUME NEW j \in Jobs, ReplaceOverlay(j) PROVE JobsTyped'
  <2>1. writing' \in [Jobs -> {"nothing", "scratch", "overlay", "unlinked"}]
    BY <1>5 DEF ReplaceOverlay
  <2>2. line' \in [Jobs -> Nat]
    BY <1>5 DEF ReplaceOverlay
  <2>3. \A i \in Jobs : Playing(i)' => Playing(i)
    BY <1>5 DEF ReplaceOverlay
  <2> QED
    BY <1>5, <2>1, <2>2, <2>3 DEF ReplaceOverlay
<1>6. ASSUME NEW j \in Jobs, EndScenario(j) PROVE JobsTyped'
  <2>1. writing' \in [Jobs -> {"nothing", "scratch", "overlay", "unlinked"}]
    BY <1>6 DEF EndScenario, Moved
  <2>2. running' \in [Jobs -> BOOLEAN]
    BY <1>6 DEF EndScenario
  <2>3. \A i \in Jobs : Playing(i)' => Playing(i)
    BY <1>6 DEF EndScenario
  <2> QED
    BY <1>6, <2>1, <2>2, <2>3 DEF EndScenario
<1>7. ASSUME NEW j \in Jobs, Forget(j) PROVE JobsTyped'
  <2>1. \A i \in Jobs : Playing(i)' => Playing(i) /\ i # j
    BY <1>7 DEF Forget
  <2>2. scenario' \in [Jobs -> Scenarios \cup {"none"}] /\ line' \in [Jobs -> Nat]
    BY <1>7 DEF Forget
  <2> QED
    BY <1>7, <2>1, <2>2 DEF Forget
<1>8. CASE StopAll \/ ResetRunner
  <2>1. writing' \in [Jobs -> {"nothing", "scratch", "overlay", "unlinked"}]
    BY <1>8 DEF StopAll, ResetRunner, Moved
  <2>2. running' \in [Jobs -> BOOLEAN]
    BY <1>8 DEF StopAll, ResetRunner
  <2> QED
    BY <1>8, <2>1, <2>2 DEF StopAll, ResetRunner
<1>9. CASE StopTimer \/ UNCHANGED runnerVars
  BY <1>9 DEF StopTimer, runnerVars, jobVars
<1> QED
  BY <1>1, <1>2, <1>3, <1>4, <1>5, <1>6, <1>7, <1>8, <1>9 DEF RunnerNext, RunJob

LEMMA NextRunnerTyped == RunnerTyped /\ [RunnerNext]_runnerVars => RunnerTyped'
BY NextRunnerInv, NextJobsTyped, NextRequestsTyped DEF RunnerTyped

LEMMA RunnerTypedIsTypeOK == RunnerTyped => RunnerTypeOK
BY DEF RunnerTyped, RunnerInv, FilesTyped, JobsTyped, RequestsTyped, RunnerTypeOK

\* The overlay and its .tmp file hold entries of one job, or are empty, torn or
\* absent, and a job that plays is at a line of a scenario that exists.
THEOREM RunnerIsTyped == RunnerSpec => []RunnerTypeOK
BY RunnerTypedIsTypeOK, InitRunnerTyped, NextRunnerTyped, PTL DEF RunnerSpec

-----------------------------------------------------------------------------
(* The three parts beside each other, as MCFollowedFiles runs them.  A step  *)
(* of one is a step of its specification and leaves the others alone, so the *)
(* invariants of each are invariants of all.                                 *)

PartsInv == /\ TimetableInv /\ StateTyped
            /\ ForwardingInv /\ DeliveryInv
            /\ RunnerTyped

LEMMA PartsInit == MCInit => PartsInv
<1>1. ForwardingInit => DeliveryInv
  BY DEF ForwardingInit, DeliveryInv, OutputsLeadThere, NoPacketLost
<1> QED
  BY <1>1, InitTimetableInv, InitStateTyped, InitForwardingInv, InitRunnerTyped
  DEF MCInit, PartsInv

LEMMA PartsNext == PartsInv /\ [MCNext]_MCvars => PartsInv'
<1>1. [MCNext]_MCvars => [Next]_vars /\ [ForwardingNext]_forwardingVars /\ [RunnerNext]_runnerVars
  BY DEF MCNext, MCvars, TimetablePart, ForwardingPart, RunnerPart
<1> QED
  BY <1>1, NextTimetableInv, NextStateTyped, NextForwardingInv, NextDeliveryInv,
     NextRunnerTyped DEF PartsInv

\* What the parts promise each for itself, and their types, beside each other.
THEOREM PartsKeepTheirPromises ==
    MCSpec => [](PartsTypeOK /\ NothingSkipped /\ FlowsLeadToHost /\ NoPacketLost
                 /\ OverlayOfActiveJob)
<1>1. PartsInv => PartsTypeOK /\ NothingSkipped /\ FlowsLeadToHost /\ NoPacketLost
                  /\ OverlayOfActiveJob
  BY TypedIsTypeOK, RunnerTypedIsTypeOK
  DEF PartsInv, PartsTypeOK, TimetableInv, ForwardingInv, DeliveryInv, RunnerTyped, RunnerInv
<1> QED
  BY <1>1, PartsInit, PartsNext, PTL DEF MCSpec

=============================================================================
