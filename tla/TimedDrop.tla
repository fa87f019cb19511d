----------------------------- MODULE TimedDrop ------------------------------
(***************************************************************************)
(* What a flood mitigation of the campus controller promises, on the data  *)
(* path and on the control path: the controller keeps books of the subjects, the   *)
(* switches enforce drop rules that lapse by themselves.  A subject is     *)
(* enforced in one go, never while a rule against it is live, and it       *)
(* leaves the books only when no switch drops it any more.                 *)
(***************************************************************************)
CONSTANTS
    Subjects,       \* what is dropped: an address, a switch's packet-ins
    Places          \* where: a switch, a port

VARIABLES
    books,          \* the subjects the controller accounts for
    enforced        \* the live rules, as pairs <<place, subject>>

vars == <<books, enforced>>

Live(x) == \E p \in Places : <<p, x>> \in enforced

Init == books = {} /\ enforced = {}

\* A subject without a live rule is put on the books and dropped in some places.
Enforce(x, places) ==
    /\ ~Live(x)
    /\ books' = books \cup {x}
    /\ enforced' = enforced \cup (places \X {x})

\* Some rules reach their timeout.
Lapse ==
    /\ enforced' \in SUBSET enforced
    /\ UNCHANGED books

\* Subjects without a live rule leave the books.
Forget ==
    /\ books' \in SUBSET books
    /\ \A x \in books \ books' : ~Live(x)
    /\ UNCHANGED enforced

Next ==
    \/ \E x \in Subjects, places \in (SUBSET Places) \ {{}} : Enforce(x, places)
    \/ Lapse
    \/ Forget

Spec == Init /\ [][Next]_vars

=============================================================================
