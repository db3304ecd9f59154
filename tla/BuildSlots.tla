------------------------------ MODULE BuildSlots ------------------------------
(***************************************************************************)
(* What TriggerBuild and StopBuild promise their callers, with none of     *)
(* their bookkeeping: a repository index has one build at a time, a build  *)
(* gives its index back, and a build is stopped at most once, while it     *)
(* is still there to be stopped.                                           *)
(***************************************************************************)

CONSTANTS Builds, Stops, Indices, NoIndex, NoBuild

VARIABLES
    status,         \* none, active (holds its index), draining, over
    slot,           \* the index a build was given
    stopped         \* the build a stop request was told it stopped

slotVars == <<status, slot, stopped>>

SlotsInit ==
    /\ status = [b \in Builds |-> "none"]
    /\ slot = [b \in Builds |-> NoIndex]
    /\ stopped = [s \in Stops |-> NoBuild]

Acquire(b, i) ==
    /\ status[b] = "none"
    /\ \A other \in Builds : status[other] = "active" => slot[other] # i
    /\ status' = [status EXCEPT ![b] = "active"]
    /\ slot' = [slot EXCEPT ![b] = i]
    /\ UNCHANGED stopped

GiveBack(b) ==
    /\ status[b] = "active"
    /\ status' = [status EXCEPT ![b] = "draining"]
    /\ UNCHANGED <<slot, stopped>>

Finish(b) ==
    /\ status[b] = "draining"
    /\ status' = [status EXCEPT ![b] = "over"]
    /\ UNCHANGED <<slot, stopped>>

Stop(s, b) ==
    /\ status[b] \in {"active", "draining"}
    /\ stopped[s] = NoBuild
    /\ \A other \in Stops : stopped[other] # b
    /\ stopped' = [stopped EXCEPT ![s] = b]
    /\ UNCHANGED <<status, slot>>

SlotsNext ==
    \E b \in Builds :
        \/ \E i \in Indices : Acquire(b, i)
        \/ GiveBack(b)
        \/ Finish(b)
        \/ \E s \in Stops : Stop(s, b)

SlotsSpec == SlotsInit /\ [][SlotsNext]_slotVars

=============================================================================
