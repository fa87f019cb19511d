------------------------------- MODULE NodeShell -------------------------------
(***************************************************************************)
(* The shell of a Mininet host (mininet/node.py, sendCmd to cmd), used by  *)
(* several threads.  A call of cmd types a command and a sentinel into the *)
(* one shell of the host and reads the shell's output until the sentinel.  *)
(* The flag waiting is all that keeps two threads apart; it is raised only *)
(* after the command is typed, and lowered before the loop that waits for  *)
(* the output looks at it again.                                           *)
(*                                                                         *)
(* What a command prints is known by the thread that typed it.             *)
(***************************************************************************)
EXTENDS Naturals, Sequences

CONSTANTS
    Hosts,       \* numbers, not 0
    Threads,
    MaxBacklog   \* bound on the commands a shell has not answered

ASSUME BacklogAssumption == MaxBacklog \in Nat \ {0}

VARIABLES
    waiting,    \* of each host: the flag
    typed,      \* commands the shell has still to run
    output,     \* what the shell printed and nobody has read
    call,       \* of each thread: the host and the next step of its cmd
    got,        \* the outputs its cmd has read
    crossed     \* history: a command passed the check while another thread
                \* was in one of the two gaps that the flag leaves

shellVars == <<waiting, typed, output, call, got, crossed>>

NoCall == [host |-> 0, step |-> "none"]
Steps == {"checked", "typed", "test", "read", "done", "raised"}
Calls == {NoCall} \cup [host : Hosts, step : Steps]

\* A thread that has not raised the flag yet, or has lowered it and not looked
\* at it since.
InGap(t, h) ==
    /\ call[t].host = h
    /\ call[t].step \in {"checked", "typed"} \/ (call[t].step = "test" /\ ~waiting[h])

Inside(t, step) == [call EXCEPT ![t].step = step]

ShellInit ==
    /\ waiting = [h \in Hosts |-> FALSE]
    /\ typed = [h \in Hosts |-> <<>>]
    /\ output = [h \in Hosts |-> <<>>]
    /\ call = [t \in Threads |-> NoCall]
    /\ got = [t \in Threads |-> {}]
    /\ crossed = FALSE

\* Mutant of Cmd: the assertion is gone, as under python -O.
CmdUnchecked(t, h) ==
    /\ call[t] = NoCall
    /\ call' = [call EXCEPT ![t] = [host |-> h, step |-> "checked"]]
    /\ crossed' = (crossed \/ \E u \in Threads : InGap(u, h))
    /\ UNCHANGED <<waiting, typed, output, got>>

\* A thread calls cmd: the assertion at the head of sendCmd.
Cmd(t, h) ==
    /\ call[t] = NoCall
    /\ call' = [call EXCEPT ![t] =
                   [host |-> h, step |-> IF waiting[h] THEN "raised" ELSE "checked"]]
    /\ crossed' = (crossed \/ (~waiting[h] /\ \E u \in Threads : InGap(u, h)))
    /\ UNCHANGED <<waiting, typed, output, got>>

\* A whole call of cmd in a shell that nobody else uses meanwhile.
CmdAlone(t, h) ==
    /\ call[t] = NoCall
    /\ call' = [call EXCEPT ![t] = [host |-> h, step |-> "done"]]
    /\ got' = [got EXCEPT ![t] = {t}]
    /\ UNCHANGED <<waiting, typed, output, crossed>>

\* The call returns, or its assertion reaches the caller.
Return(t) ==
    /\ call' = [call EXCEPT ![t] = NoCall]
    /\ got' = [got EXCEPT ![t] = {}]
    /\ UNCHANGED <<waiting, typed, output, crossed>>

TypeCommand(t) ==
    LET h == call[t].host IN
    /\ call[t].step = "checked" /\ Len(typed[h]) + Len(output[h]) < MaxBacklog
    /\ call' = Inside(t, "typed")
    /\ typed' = [typed EXCEPT ![h] = Append(@, t)]
    /\ UNCHANGED <<waiting, output, got, crossed>>

RaiseFlag(t) ==
    /\ call[t].step = "typed"
    /\ call' = Inside(t, "test")
    /\ waiting' = [waiting EXCEPT ![call[t].host] = TRUE]
    /\ UNCHANGED <<typed, output, got, crossed>>

\* The loop of waitOutput ends when the flag is down, whoever lowered it.
TestFlag(t) ==
    /\ call[t].step = "test"
    /\ call' = Inside(t, IF waiting[call[t].host] THEN "read" ELSE "done")
    /\ UNCHANGED <<waiting, typed, output, got, crossed>>

\* monitor waits for output without a timeout.  One read may end anywhere in
\* what is there; any sentinel in it lowers the flag.
ReadOutput(t) ==
    LET h == call[t].host IN
    /\ call[t].step = "read"
    /\ \E n \in 1..Len(output[h]) :
          /\ got' = [got EXCEPT ![t] = @ \cup {output[h][i] : i \in 1..n}]
          /\ output' = [output EXCEPT ![h] = SubSeq(@, n + 1, Len(@))]
    /\ call' = Inside(t, "test")
    /\ waiting' = [waiting EXCEPT ![h] = FALSE]
    /\ UNCHANGED <<typed, crossed>>

ShellStep(t) == TypeCommand(t) \/ RaiseFlag(t) \/ TestFlag(t) \/ ReadOutput(t)

\* The shell runs the next command and prints its sentinel.
ShellRuns(h) ==
    /\ typed[h] # <<>>
    /\ output' = [output EXCEPT ![h] = Append(@, Head(typed[h]))]
    /\ typed' = [typed EXCEPT ![h] = Tail(@)]
    /\ UNCHANGED <<waiting, call, got, crossed>>

ShellTypeOK ==
    /\ waiting \in [Hosts -> BOOLEAN]
    /\ typed \in [Hosts -> Seq(Threads)] /\ output \in [Hosts -> Seq(Threads)]
    /\ call \in [Threads -> Calls]
    /\ got \in [Threads -> SUBSET Threads]
    /\ crossed \in BOOLEAN

\* Unless two threads met in one of the gaps that the flag leaves, a command
\* returns its own output and that of no other one.
OwnOutput ==
    ~crossed => \A t \in Threads :
        got[t] \subseteq {t} /\ (call[t].step = "done" => got[t] = {t})

=============================================================================
