------------------------------ MODULE Schedule -------------------------------
(***************************************************************************)
(* What the scheduler promises: one schedule is in force at a time, every  *)
(* build it starts is for an entry in force then, and putting a list in    *)
(* force builds each of its entries without cron once.                     *)
(***************************************************************************)
EXTENDS RepositoryEntries

CONSTANTS Tasks, None

VARIABLES
    inForce,        \* the entries whose time is waited for
    job             \* job[t]: the entry task t builds, or None

Init ==
    /\ inForce = {}
    /\ job = [t \in Tasks |-> None]

(* Tasks S, none used before, take the entries of E, one each.             *)
Assigned(S, who, E) ==
    /\ \A t \in S : job[t] = None
    /\ \A e \in E : \E t \in S : who[t] = e
    /\ \A t, u \in S : who[t] = who[u] => t = u

Replace(c) ==
    /\ inForce' = Timed(c)
    /\ \E S \in SUBSET Tasks : \E who \in [S -> Immediate(c)] :
         /\ Assigned(S, who, Immediate(c))
         /\ job' = [t \in Tasks |-> IF t \in S THEN who[t] ELSE job[t]]

Fire(t, e) ==
    /\ job[t] = None
    /\ e \in inForce
    /\ job' = [job EXCEPT ![t] = e]
    /\ UNCHANGED inForce

Halt ==
    /\ inForce' = {}
    /\ UNCHANGED job

Next ==
    \/ \E c \in Configs : Replace(c)
    \/ \E t \in Tasks : \E e \in Entries : Fire(t, e)
    \/ Halt

Spec == Init /\ [][Next]_<<inForce, job>>

=============================================================================
