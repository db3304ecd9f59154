-------------------------- MODULE BuildControlProofs --------------------------
(***************************************************************************)
(* Proofs about BuildControl, for any sets of builds, stop requests,       *)
(* indices and repository lists.                                           *)
(***************************************************************************)
EXTENDS BuildControl, TLAPS

(* A stop request has canceled a build exactly when it is past its lookup  *)
(* and did not find the map empty.                                         *)
StopsKnowTarget ==
    \A s \in Stops : spc[s] \in {"idle", "refused", "lookup", "noBuild"} =>
        starget[s] = NoBuild

(* What a stop request cancels has been registered.                        *)
TargetsWereRegistered ==
    \A s \in Stops : \A b \in Builds :
        starget[s] = b => pc[b] \in Registered \cup {"over"}

(* The inductive invariant.  OneBuildPerIndex alone is not inductive: it   *)
(* takes SlotsAreHeld to know that a free index has no build, and          *)
(* ContextsBelong takes OneBuildPerIndex, since Register writes the entry  *)
(* of an index.                                                            *)
Inv ==
    /\ TypeOK
    /\ SlotsAreHeld
    /\ OneBuildPerIndex
    /\ ContextsBelong
    /\ StopsKnowTarget
    /\ TargetsWereRegistered


-----------------------------------------------------------------------------
(* The operators the actions are built from.                               *)

LEMMA GotoType ==
    ASSUME TypeOK, NEW b \in Builds, NEW from, NEW to \in PcStates,
           Goto(b, from, to)
    PROVE  pc' \in [Builds -> PcStates]
BY DEF Goto, TypeOK

LEMMA CancelType ==
    ASSUME CallTypeOK, NEW b \in Builds, Cancel(b)
    PROVE  ctx' \in [Builds -> ContextStates]
BY DEF Cancel, CallTypeOK, ContextStates

LEMMA CallStepType ==
    ASSUME CallTypeOK, NEW b \in Builds, CallStep(b)
    PROVE  CallTypeOK'
BY DEF CallTypeOK, CallStates, CallStep, BranchAnswered, StartClone, Cloned, FetchFails,
       StartDocker, DockerReturns

LEMMA EnterType ==
    ASSUME CallTypeOK, NEW b \in Builds, Enter(b)
    PROVE  call' \in [Builds -> CallStates]
BY DEF CallTypeOK, CallStates, Enter

LEMMA AnnounceType ==
    ASSUME TypeOK, NEW b, NEW note \in Notes, Announce(b, note)
    PROVE  announced' \in [Builds -> SUBSET Notes]
BY DEF TypeOK, Announce

(* Entry i + 1 of a repository list for a valid index is a repository.     *)
LEMMA ValidEntry ==
    ASSUME TypeOK, NEW i \in Indices, ValidIndex(i)
    PROVE  cfg[i + 1] \in Repos
<1>1. cfg \in Seq(Repos) /\ i \in Int /\ 0 <= i /\ i < Len(cfg)
  BY ControlAssumption DEF ControlAssumption, TypeOK, ValidIndex
<1> QED
  BY <1>1

-----------------------------------------------------------------------------
(* Type correctness.                                                       *)

LEMMA InitType == Init => TypeOK
<1> SUFFICES ASSUME Init PROVE TypeOK
  OBVIOUS
<1>1. (CHOOSE i \in Indices : TRUE) \in Indices
  BY ControlAssumption DEF ControlAssumption
<1>2. (CHOOSE r \in Repos : TRUE) \in Repos
  BY ControlAssumption DEF ControlAssumption
<1> QED
  BY <1>1, <1>2, ControlAssumption DEF ControlAssumption, Init, TypeOK, CallInit, CallTypeOK, ContextStates, CallStates,
     PcStates, StopStates, Notes

LEMMA NextType == TypeOK /\ [Next]_vars => TypeOK'
<1> SUFFICES ASSUME TypeOK, [Next]_vars PROVE TypeOK'
  OBVIOUS
<1> USE DEF apiVars, stopVars, callVars
<1>1. ASSUME NEW b \in Builds, NEW i \in Indices, TriggerBuild(b, i)
      PROVE  TypeOK'
  <2>1. pc' \in [Builds -> PcStates]
    BY <1>1, GotoType DEF TriggerBuild, PcStates
  <2>2. cfg[i + 1] \in Repos
    BY <1>1, ValidEntry DEF TriggerBuild
  <2> QED
    BY <1>1, <2>1, <2>2 DEF TriggerBuild, TypeOK, CallTypeOK
<1>2. ASSUME NEW b \in Builds, NEW i \in Indices, RefuseTrigger(b, i)
      PROVE  TypeOK'
  <2>1. pc' \in [Builds -> PcStates]
    BY <1>2, GotoType DEF RefuseTrigger, PcStates
  <2> QED
    BY <1>2, <2>1 DEF RefuseTrigger, TypeOK, CallTypeOK
<1>3. ASSUME NEW b \in Builds, Claim(b)
      PROVE  TypeOK'
  <2>1. pc' \in [Builds -> PcStates]
    BY <1>3, GotoType DEF Claim, PcStates
  <2>2. CallTypeOK'
    BY <1>3 DEF Claim, NewContext, TypeOK, CallTypeOK, ContextStates
  <2>3. buildingRepos' \subseteq Indices
    BY <1>3 DEF Claim, TypeOK
  <2> QED
    BY <1>3, <2>1, <2>2, <2>3 DEF Claim, TypeOK
<1>4. ASSUME NEW b \in Builds, RefuseClaim(b)
      PROVE  TypeOK'
  <2>1. pc' \in [Builds -> PcStates]
    BY <1>4, GotoType DEF RefuseClaim, PcStates
  <2> QED
    BY <1>4, <2>1 DEF RefuseClaim, TypeOK, CallTypeOK
<1>5. ASSUME NEW b \in Builds, Register(b)
      PROVE  TypeOK'
  <2>1. pc' \in [Builds -> PcStates]
    BY <1>5, GotoType DEF Register, PcStates
  <2> QED
    BY <1>5, <2>1 DEF Register, TypeOK, CallTypeOK
<1>6. ASSUME NEW b \in Builds, NoGitClient(b)
      PROVE  TypeOK'
  <2>1. pc' \in [Builds -> PcStates]
    BY <1>6, GotoType DEF NoGitClient, PcStates
  <2> QED
    BY <1>6, <2>1 DEF NoGitClient, TypeOK, CallTypeOK
<1>7. ASSUME NEW b \in Builds, AnnounceStart(b)
      PROVE  TypeOK'
  <2>1. pc' \in [Builds -> PcStates]
    BY <1>7, GotoType DEF AnnounceStart, PcStates
  <2>2. announced' \in [Builds -> SUBSET Notes]
    BY <1>7, AnnounceType DEF AnnounceStart, Notes
  <2>3. CallTypeOK'
    BY <1>7, EnterType DEF AnnounceStart, TypeOK, CallTypeOK
  <2> QED
    BY <1>7, <2>1, <2>2, <2>3 DEF AnnounceStart, TypeOK
<1>8. ASSUME NEW b \in Builds, Build(b)
      PROVE  TypeOK'
  <2>1. CallTypeOK'
    BY <1>8, CallStepType DEF Build, TypeOK
  <2> QED
    BY <1>8, <2>1 DEF Build, TypeOK
<1>9. ASSUME NEW b \in Builds, Conclude(b)
      PROVE  TypeOK'
  <2>1. pc' \in [Builds -> PcStates]
    BY <1>9, GotoType DEF Conclude, PcStates
  <2> QED
    BY <1>9, <2>1 DEF Conclude, TypeOK, CallTypeOK
<1>10. ASSUME NEW b \in Builds, AnnounceEnd(b)
       PROVE  TypeOK'
  <2>1. pc' \in [Builds -> PcStates]
    BY <1>10, GotoType DEF AnnounceEnd, PcStates
  <2>2. announced' \in [Builds -> SUBSET Notes]
    BY <1>10, AnnounceType DEF AnnounceEnd, Notes
  <2> QED
    BY <1>10, <2>1, <2>2 DEF AnnounceEnd, TypeOK, CallTypeOK
<1>11. ASSUME NEW b \in Builds, Release(b)
       PROVE  TypeOK'
  <2>1. pc' \in [Builds -> PcStates]
    BY <1>11, GotoType DEF Release, PcStates
  <2> QED
    BY <1>11, <2>1 DEF Release, TypeOK, CallTypeOK
<1>12. ASSUME NEW b \in Builds, Unregister(b)
       PROVE  TypeOK'
  <2>1. pc' \in [Builds -> PcStates]
    BY <1>12, GotoType DEF Unregister, PcStates
  <2>2. ctx' \in [Builds -> ContextStates]
    BY <1>12, CancelType DEF Unregister, TypeOK
  <2> QED
    BY <1>12, <2>1, <2>2 DEF Unregister, TypeOK, CallTypeOK
<1>13. ASSUME NEW b \in Builds, Deadline(b)
       PROVE  TypeOK'
  BY <1>13 DEF Deadline, Expire, TypeOK, CallTypeOK, ContextStates
<1>14. ASSUME NEW s \in Stops, NEW i \in Indices, StopBuild(s, i) \/ RefuseStop(s, i)
       PROVE  TypeOK'
  BY <1>14 DEF StopBuild, RefuseStop, StopGoto, StopStates, TypeOK, CallTypeOK
<1>15. ASSUME NEW s \in Stops, CancelBuild(s)
       PROVE  TypeOK'
  <2>1. ctx' \in [Builds -> ContextStates]
    BY <1>15, CancelType DEF CancelBuild, TypeOK
  <2>2. starget' \in [Stops -> Builds \cup {NoBuild}]
    BY <1>15 DEF CancelBuild, TypeOK
  <2> QED
    BY <1>15, <2>1, <2>2 DEF CancelBuild, StopGoto, StopStates, TypeOK, CallTypeOK
<1>16. ASSUME NEW s \in Stops, NothingToStop(s)
       PROVE  TypeOK'
  BY <1>16 DEF NothingToStop, StopGoto, StopStates, TypeOK, CallTypeOK
<1>17. ASSUME NEW s \in Stops, AnnounceStop(s)
       PROVE  TypeOK'
  <2>1. announced' \in [Builds -> SUBSET Notes]
    BY <1>17, AnnounceType DEF AnnounceStop, Notes
  <2> QED
    BY <1>17, <2>1 DEF AnnounceStop, StopGoto, StopStates, TypeOK, CallTypeOK
<1>18. CASE ReplaceConfig
  BY <1>18 DEF ReplaceConfig, TypeOK, CallTypeOK
<1>19. CASE UNCHANGED vars
  BY <1>19 DEF vars, TypeOK, CallTypeOK
<1> QED
  BY <1>1, <1>2, <1>3, <1>4, <1>5, <1>6, <1>7, <1>8, <1>9, <1>10, <1>11, <1>12,
     <1>13, <1>14, <1>15, <1>16, <1>17, <1>18, <1>19
     DEF Next, Request, Handler, Goroutine, StopRequest, StopHandler

(* Every variable keeps its type, in BuildControl with any constants.      *)
THEOREM TypeCorrect == Spec => []TypeOK
<1>1. Init => TypeOK
  BY InitType
<1>2. TypeOK /\ [Next]_vars => TypeOK'
  BY NextType
<1> QED
  BY <1>1, <1>2, PTL DEF Spec

-----------------------------------------------------------------------------
(* The inductive invariant.                                                *)

(* A step that neither takes nor gives back an index.                      *)
LEMMA HoldingFrame ==
    ASSUME SlotsAreHeld, OneBuildPerIndex, buildingRepos' = buildingRepos,
           \A b \in Builds : pc'[b] \in Holding <=> pc[b] \in Holding,
           \A b \in Builds : pc[b] \in Holding => index'[b] = index[b]
    PROVE  SlotsAreHeld' /\ OneBuildPerIndex'
<1>1. {c \in Builds : pc'[c] \in Holding} = {c \in Builds : pc[c] \in Holding}
  OBVIOUS
<1>2. SlotsAreHeld'
  BY <1>1 DEF SlotsAreHeld
<1> QED
  BY <1>2 DEF OneBuildPerIndex

(* A step that leaves buildContexts alone and ends no registered build.    *)
LEMMA ContextsFrame ==
    ASSUME ContextsBelong, buildContexts' = buildContexts, starget' = starget,
           \A b \in Builds : pc[b] \in Registered =>
               pc'[b] \in Registered /\ index'[b] = index[b]
    PROVE  ContextsBelong'
BY DEF ContextsBelong

(* A step of one build that stays on its side of claim and release.        *)
LEMMA OwnStepFrame ==
    ASSUME Inv, NEW b \in Builds, NEW from, NEW to, Goto(b, from, to),
           from \in Holding <=> to \in Holding,
           from \in Registered => to \in Registered, from # "over",
           index' = index, buildingRepos' = buildingRepos,
           buildContexts' = buildContexts, starget' = starget, spc' = spc
    PROVE  /\ SlotsAreHeld' /\ OneBuildPerIndex' /\ ContextsBelong'
           /\ StopsKnowTarget' /\ TargetsWereRegistered'
<1>1. \A c \in Builds : /\ pc'[c] \in Holding <=> pc[c] \in Holding
                        /\ pc[c] \in Registered => pc'[c] \in Registered
                        /\ pc[c] = "over" => pc'[c] = "over"
  BY DEF Goto, Inv, TypeOK
<1>2. SlotsAreHeld' /\ OneBuildPerIndex'
  BY <1>1, HoldingFrame DEF Inv
<1>3. ContextsBelong'
  BY <1>1, ContextsFrame DEF Inv
<1> QED
  BY <1>1, <1>2, <1>3 DEF Inv, StopsKnowTarget, TargetsWereRegistered

(* A step of one stop request that leaves the maps alone.                  *)
LEMMA StopStepFrame ==
    ASSUME Inv, pc' = pc, index' = index, buildingRepos' = buildingRepos,
           buildContexts' = buildContexts, starget' = starget
    PROVE  /\ SlotsAreHeld' /\ OneBuildPerIndex' /\ ContextsBelong'
           /\ TargetsWereRegistered'
<1>1. SlotsAreHeld' /\ OneBuildPerIndex'
  BY HoldingFrame DEF Inv
<1> QED
  BY <1>1, ContextsFrame DEF Inv, TargetsWereRegistered

LEMMA InitInv == Init => Inv
<1> SUFFICES ASSUME Init PROVE Inv
  OBVIOUS
<1>1. TypeOK
  BY InitType
<1>2. SlotsAreHeld /\ OneBuildPerIndex
  BY DEF Init, SlotsAreHeld, OneBuildPerIndex, Holding
<1>3. ContextsBelong
  BY ControlAssumption DEF ControlAssumption, Init, ContextsBelong
<1> QED
  BY <1>1, <1>2, <1>3, ControlAssumption DEF Inv, Init, StopsKnowTarget, TargetsWereRegistered,
     ControlAssumption

LEMMA NextInv == Inv /\ [Next]_vars => Inv'
<1> SUFFICES ASSUME Inv, [Next]_vars PROVE Inv'
  OBVIOUS
<1> DEFINE Rest == /\ SlotsAreHeld /\ OneBuildPerIndex /\ ContextsBelong
                   /\ StopsKnowTarget /\ TargetsWereRegistered
<1> USE DEF apiVars, stopVars, callVars
<1>0. TypeOK /\ TypeOK'
  BY NextType DEF Inv
<1>1. ASSUME NEW b \in Builds, NEW i \in Indices, TriggerBuild(b, i)
      PROVE  Rest'
  <2>1. /\ pc[b] = "idle" /\ pc' = [pc EXCEPT ![b] = "claim"]
        /\ index' = [index EXCEPT ![b] = i]
        /\ UNCHANGED <<buildingRepos, buildContexts, stopVars>>
    BY <1>1 DEF TriggerBuild, Goto
  <2>2. \A c \in Builds :
          /\ pc'[c] \in Holding <=> pc[c] \in Holding
          /\ pc[c] \in Registered => pc'[c] \in Registered
          /\ pc[c] = "over" => pc'[c] = "over"
          /\ pc[c] \in Holding \cup Registered => index'[c] = index[c]
    BY <1>0, <2>1 DEF TypeOK, Holding, Registered
  <2>3. SlotsAreHeld' /\ OneBuildPerIndex'
    BY <2>1, <2>2, HoldingFrame DEF Inv
  <2>4. ContextsBelong'
    BY <2>1, <2>2, ContextsFrame DEF Inv
  <2> QED
    BY <2>1, <2>2, <2>3, <2>4 DEF Inv, StopsKnowTarget, TargetsWereRegistered
<1>2. ASSUME NEW b \in Builds, NEW i \in Indices, RefuseTrigger(b, i)
      PROVE  Rest'
  BY <1>2, OwnStepFrame DEF RefuseTrigger, Holding, Registered
<1>3. ASSUME NEW b \in Builds, Claim(b)
      PROVE  Rest'
  <2>1. /\ pc[b] = "claim" /\ pc' = [pc EXCEPT ![b] = "register"]
        /\ index[b] \notin buildingRepos
        /\ buildingRepos' = buildingRepos \cup {index[b]}
        /\ UNCHANGED <<buildContexts, index, stopVars>>
    BY <1>3 DEF Claim, Goto
  <2>2. {c \in Builds : pc'[c] \in Holding} = {c \in Builds : pc[c] \in Holding} \cup {b}
    BY <1>0, <2>1 DEF TypeOK, Holding
  <2>3. SlotsAreHeld'
    BY <2>1, <2>2 DEF Inv, SlotsAreHeld
  <2>4. \A c \in Builds : pc[c] \in Holding => index[c] # index[b]
    BY <2>1 DEF Inv, SlotsAreHeld
  <2>5. OneBuildPerIndex'
    BY <1>0, <2>1, <2>4 DEF Inv, OneBuildPerIndex, TypeOK
  <2>6. ContextsBelong'
    BY <1>0, <2>1, ContextsFrame DEF Inv, TypeOK, Holding, Registered
  <2> QED
    <3>1. TargetsWereRegistered'
      BY <1>0, <2>1 DEF Inv, TargetsWereRegistered, TypeOK, Registered, Holding
    <3> QED
      BY <2>1, <2>3, <2>5, <2>6, <3>1 DEF Inv, StopsKnowTarget
<1>4. ASSUME NEW b \in Builds, RefuseClaim(b)
      PROVE  Rest'
  BY <1>4, OwnStepFrame DEF RefuseClaim, Holding, Registered
<1>5. ASSUME NEW b \in Builds, Register(b)
      PROVE  Rest'
  <2>1. /\ pc[b] = "register" /\ pc' = [pc EXCEPT ![b] = "spawned"]
        /\ buildContexts' = [buildContexts EXCEPT ![index[b]] = b]
        /\ UNCHANGED <<buildingRepos, index, stopVars>>
    BY <1>5 DEF Register, Goto
  <2>2. \A c \in Builds : pc'[c] \in Holding <=> pc[c] \in Holding
    BY <1>0, <2>1 DEF TypeOK, Holding
  <2>3. SlotsAreHeld' /\ OneBuildPerIndex'
    BY <2>1, <2>2, HoldingFrame DEF Inv
  <2>4. ContextsBelong'
    <3> SUFFICES ASSUME NEW i \in Indices, NEW c \in Builds, buildContexts'[i] = c
                 PROVE  /\ index'[c] = i
                        /\ pc'[c] \in Registered
                        /\ \A s \in Stops : starget'[s] # c
      BY DEF ContextsBelong
    <3>1. CASE i = index[b]
      <4>1. c = b
        BY <1>0, <2>1, <3>1 DEF TypeOK
      <4> QED
        BY <1>0, <2>1, <3>1, <4>1 DEF Inv, TargetsWereRegistered, TypeOK, Holding, Registered
    <3>2. CASE i # index[b]
      BY <1>0, <2>1, <3>2 DEF Inv, ContextsBelong, TypeOK, Holding, Registered
    <3> QED
      BY <3>1, <3>2
  <2>5. TargetsWereRegistered'
    BY <1>0, <2>1 DEF Inv, TargetsWereRegistered, TypeOK, Registered, Holding
  <2> QED
    BY <2>1, <2>3, <2>4, <2>5 DEF Inv, StopsKnowTarget
<1>6. ASSUME NEW b \in Builds, NoGitClient(b)
      PROVE  Rest'
  BY <1>6, OwnStepFrame DEF NoGitClient, Holding, Registered
<1>7. ASSUME NEW b \in Builds, AnnounceStart(b)
      PROVE  Rest'
  BY <1>7, OwnStepFrame DEF AnnounceStart, Holding, Registered
<1>8. ASSUME NEW b \in Builds, Build(b) \/ Deadline(b)
      PROVE  Rest'
  <2>1. UNCHANGED <<apiVars, stopVars>>
    BY <1>8 DEF Build, Deadline
  <2> QED
    BY <2>1, StopStepFrame DEF Inv, StopsKnowTarget
<1>9. ASSUME NEW b \in Builds, Conclude(b)
      PROVE  Rest'
  BY <1>9, OwnStepFrame DEF Conclude, Holding, Registered
<1>10. ASSUME NEW b \in Builds, AnnounceEnd(b)
       PROVE  Rest'
  BY <1>10, OwnStepFrame DEF AnnounceEnd, Holding, Registered
<1>11. ASSUME NEW b \in Builds, Release(b)
       PROVE  Rest'
  <2>1. /\ pc[b] = "release" /\ pc' = [pc EXCEPT ![b] = "unregister"]
        /\ buildingRepos' = buildingRepos \ {index[b]}
        /\ UNCHANGED <<buildContexts, index, stopVars>>
    BY <1>11 DEF Release, Goto
  <2>2. {c \in Builds : pc'[c] \in Holding} = {c \in Builds : pc[c] \in Holding} \ {b}
    BY <1>0, <2>1 DEF TypeOK, Holding
  <2>3. \A c \in Builds : pc[c] \in Holding /\ c # b => index[c] # index[b]
    BY <2>1 DEF Inv, OneBuildPerIndex, Holding
  <2>4. SlotsAreHeld'
    BY <2>1, <2>2, <2>3 DEF Inv, SlotsAreHeld, Holding
  <2>5. OneBuildPerIndex'
    BY <1>0, <2>1, <2>2 DEF Inv, OneBuildPerIndex
  <2>6. ContextsBelong'
    BY <1>0, <2>1, ContextsFrame DEF Inv, TypeOK, Holding, Registered
  <2>7. TargetsWereRegistered'
    BY <1>0, <2>1 DEF Inv, TargetsWereRegistered, TypeOK, Registered
  <2> QED
    BY <2>1, <2>4, <2>5, <2>6, <2>7 DEF Inv, StopsKnowTarget
<1>12. ASSUME NEW b \in Builds, Unregister(b)
       PROVE  Rest'
  <2>1. /\ pc[b] = "unregister" /\ pc' = [pc EXCEPT ![b] = "over"]
        /\ buildContexts' = [buildContexts EXCEPT ![index[b]] = NoBuild]
        /\ UNCHANGED <<buildingRepos, index, stopVars>>
    BY <1>12 DEF Unregister, Goto
  <2>2. \A c \in Builds : pc'[c] \in Holding <=> pc[c] \in Holding
    BY <1>0, <2>1 DEF TypeOK, Holding
  <2>3. SlotsAreHeld' /\ OneBuildPerIndex'
    BY <2>1, <2>2, HoldingFrame DEF Inv
  <2>4. ContextsBelong'
    <3> SUFFICES ASSUME NEW i \in Indices, NEW c \in Builds, buildContexts'[i] = c
                 PROVE  /\ index'[c] = i
                        /\ pc'[c] \in Registered
                        /\ \A s \in Stops : starget'[s] # c
      BY DEF ContextsBelong
    <3>1. i # index[b] /\ buildContexts[i] = c
      BY <1>0, <2>1, ControlAssumption DEF TypeOK, ControlAssumption
    <3>2. index[c] = i /\ pc[c] \in Registered /\ \A s \in Stops : starget[s] # c
      BY <3>1 DEF Inv, ContextsBelong
    <3> QED
      BY <1>0, <2>1, <3>1, <3>2 DEF TypeOK
  <2>5. TargetsWereRegistered'
    BY <1>0, <2>1 DEF Inv, TargetsWereRegistered, TypeOK
  <2> QED
    BY <2>1, <2>3, <2>4, <2>5 DEF Inv, StopsKnowTarget
<1>13. ASSUME NEW s \in Stops, NEW i \in Indices, StopBuild(s, i) \/ RefuseStop(s, i)
       PROVE  Rest'
  BY <1>0, <1>13, StopStepFrame DEF StopBuild, RefuseStop, StopGoto, Inv,
     StopsKnowTarget, TypeOK
<1>14. ASSUME NEW s \in Stops, CancelBuild(s)
       PROVE  Rest'
  <2>1. PICK b \in Builds : /\ buildContexts[sindex[s]] = b
                            /\ starget' = [starget EXCEPT ![s] = b]
    BY <1>14 DEF CancelBuild
  <2>2. /\ spc' = [spc EXCEPT ![s] = "announce"]
        /\ buildContexts' = [buildContexts EXCEPT ![sindex[s]] = NoBuild]
        /\ UNCHANGED <<buildingRepos, pc, index, sindex>>
    BY <1>14 DEF CancelBuild, StopGoto
  <2>3. SlotsAreHeld' /\ OneBuildPerIndex'
    BY <2>2, HoldingFrame DEF Inv
  <2>4. index[b] = sindex[s] /\ pc[b] \in Registered
    BY <1>0, <2>1 DEF Inv, ContextsBelong, TypeOK
  <2>5. ContextsBelong'
    <3> SUFFICES ASSUME NEW i \in Indices, NEW c \in Builds, buildContexts'[i] = c
                 PROVE  /\ index'[c] = i
                        /\ pc'[c] \in Registered
                        /\ \A t \in Stops : starget'[t] # c
      BY DEF ContextsBelong
    <3>1. i # sindex[s] /\ buildContexts[i] = c
      BY <1>0, <2>2, ControlAssumption DEF TypeOK, ControlAssumption
    <3>2. index[c] = i /\ pc[c] \in Registered /\ \A t \in Stops : starget[t] # c
      BY <3>1 DEF Inv, ContextsBelong
    <3>3. c # b
      BY <2>4, <3>1, <3>2
    <3> QED
      BY <1>0, <2>1, <2>2, <3>2, <3>3 DEF TypeOK
  <2>6. StopsKnowTarget'
    BY <1>0, <2>1, <2>2 DEF Inv, StopsKnowTarget, TypeOK
  <2>7. TargetsWereRegistered'
    BY <1>0, <2>1, <2>2, <2>4 DEF Inv, TargetsWereRegistered, TypeOK
  <2> QED
    BY <2>3, <2>5, <2>6, <2>7
<1>15. ASSUME NEW s \in Stops, NothingToStop(s)
       PROVE  Rest'
  <2>1. spc[s] = "lookup" /\ spc' = [spc EXCEPT ![s] = "noBuild"] /\ starget' = starget
    BY <1>15 DEF NothingToStop, StopGoto
  <2>2. StopsKnowTarget'
    BY <1>0, <2>1 DEF Inv, StopsKnowTarget, TypeOK
  <2> QED
    BY <1>15, <2>2, StopStepFrame DEF NothingToStop
<1>16. ASSUME NEW s \in Stops, AnnounceStop(s)
       PROVE  Rest'
  <2>1. spc' = [spc EXCEPT ![s] = "stopped"] /\ starget' = starget
    BY <1>16 DEF AnnounceStop, StopGoto
  <2>2. StopsKnowTarget'
    BY <1>0, <2>1 DEF Inv, StopsKnowTarget, TypeOK
  <2> QED
    BY <1>16, <2>2, StopStepFrame DEF AnnounceStop
<1>17. ASSUME ReplaceConfig
       PROVE  Rest'
  <2>1. StopsKnowTarget'
    BY <1>17 DEF ReplaceConfig, Inv, StopsKnowTarget
  <2> QED
    BY <1>17, <2>1, StopStepFrame DEF ReplaceConfig
<1>18. ASSUME UNCHANGED vars
       PROVE  Rest'
  <2>1. StopsKnowTarget'
    BY <1>18 DEF vars, Inv, StopsKnowTarget
  <2> QED
    BY <1>18, <2>1, StopStepFrame DEF vars
<1>19. Rest'
  BY <1>1, <1>2, <1>3, <1>4, <1>5, <1>6, <1>7, <1>8, <1>9, <1>10, <1>11, <1>12,
     <1>13, <1>14, <1>15, <1>16, <1>17, <1>18
     DEF Next, Request, Handler, Goroutine, StopRequest, StopHandler
<1> QED
  BY <1>0, <1>19 DEF Inv

(* Every reachable state satisfies the inductive invariant.                *)
THEOREM Invariance == Spec => []Inv
<1>1. Init => Inv
  BY InitInv
<1>2. Inv /\ [Next]_vars => Inv'
  BY NextInv
<1> QED
  BY <1>1, <1>2, PTL DEF Spec

(* However many builds, requests and reloads interleave, a repository      *)
(* index has at most one build.                                            *)
THEOREM MutualExclusion == Spec => []OneBuildPerIndex
<1>1. Inv => OneBuildPerIndex
  BY DEF Inv
<1> QED
  BY <1>1, Invariance, PTL

(* buildingRepos holds exactly the indices of the builds that hold one.    *)
THEOREM SlotBookkeeping == Spec => []SlotsAreHeld
<1>1. Inv => SlotsAreHeld
  BY DEF Inv
<1> QED
  BY <1>1, Invariance, PTL

(* A registered cancel function is that of an unfinished, unstopped build  *)
(* of the index it is filed under.                                         *)
THEOREM ContextBookkeeping == Spec => []ContextsBelong
<1>1. Inv => ContextsBelong
  BY DEF Inv
<1> QED
  BY <1>1, Invariance, PTL

-----------------------------------------------------------------------------
(* What no step may do.                                                    *)

(* Only the end of a build and a stop request for its index cancel its     *)
(* context.                                                                *)
THEOREM CancelsStayHome == Spec => OnlyOwnStopCancels
<1> DEFINE Allowed(b) ==
      ctx[b] = "live" /\ ctx'[b] = "canceled" /\ pc'[b] # "over" =>
          \E s \in Stops : /\ spc[s] = "lookup" /\ starget'[s] = b
                           /\ sindex[s] = index[b]
<1>1. Inv /\ [Next]_vars => \A b \in Builds : Allowed(b)
  <2> SUFFICES ASSUME Inv, [Next]_vars, NEW b \in Builds,
                      ctx[b] = "live", ctx'[b] = "canceled", pc'[b] # "over"
               PROVE  \E s \in Stops : /\ spc[s] = "lookup" /\ starget'[s] = b
                                       /\ sindex[s] = index[b]
    OBVIOUS
  <2> USE DEF callVars, apiVars, stopVars
  <2>0. TypeOK
    BY DEF Inv
  <2>1. ctx'[b] # ctx[b]
    OBVIOUS
  <2>2. ASSUME NEW c \in Builds, Unregister(c)
        PROVE  FALSE
    BY <2>0, <2>1, <2>2 DEF Unregister, Cancel, Goto, TypeOK, CallTypeOK
  <2>3. ASSUME NEW c \in Builds, Claim(c) \/ Deadline(c)
        PROVE  FALSE
    BY <2>0, <2>1, <2>3 DEF Claim, NewContext, Deadline, Expire, TypeOK, CallTypeOK
  <2>4. ASSUME NEW c \in Builds, Build(c)
        PROVE  FALSE
    BY <2>1, <2>4 DEF Build, CallStep, BranchAnswered, StartClone, Cloned, FetchFails,
       StartDocker, DockerReturns
  <2>5. ASSUME NEW c \in Builds, NEW i \in Indices,
               \/ TriggerBuild(c, i) \/ RefuseTrigger(c, i) \/ RefuseClaim(c)
               \/ Register(c) \/ NoGitClient(c) \/ AnnounceStart(c)
               \/ Conclude(c) \/ AnnounceEnd(c) \/ Release(c)
        PROVE  FALSE
    BY <2>1, <2>5 DEF TriggerBuild, RefuseTrigger, RefuseClaim, Register,
       NoGitClient, AnnounceStart, Conclude, AnnounceEnd, Release
  <2>6. ASSUME NEW s \in Stops, NEW i \in Indices,
               \/ StopBuild(s, i) \/ RefuseStop(s, i)
               \/ NothingToStop(s) \/ AnnounceStop(s)
        PROVE  FALSE
    BY <2>1, <2>6 DEF StopBuild, RefuseStop, NothingToStop, AnnounceStop
  <2>7. ASSUME NEW s \in Stops, CancelBuild(s)
        PROVE  /\ spc[s] = "lookup" /\ starget'[s] = b
               /\ sindex[s] = index[b]
    <3>1. PICK c \in Builds : /\ buildContexts[sindex[s]] = c
                              /\ Cancel(c)
                              /\ starget' = [starget EXCEPT ![s] = c]
      BY <2>7 DEF CancelBuild
    <3>2. c = b
      BY <2>0, <2>1, <3>1 DEF Cancel, TypeOK, CallTypeOK
    <3>3. index[c] = sindex[s]
      BY <2>0, <3>1 DEF Inv, ContextsBelong, TypeOK
    <3>4. spc[s] = "lookup"
      BY <2>7 DEF CancelBuild, StopGoto
    <3> QED
      BY <2>0, <3>1, <3>2, <3>3, <3>4 DEF TypeOK
  <2>8. ASSUME ReplaceConfig \/ UNCHANGED vars
        PROVE  FALSE
    BY <2>1, <2>8 DEF ReplaceConfig, vars
  <2>9. Indices # {}
    BY ControlAssumption DEF ControlAssumption
  <2> QED
    BY <2>2, <2>3, <2>4, <2>5, <2>6, <2>7, <2>8, <2>9
       DEF Next, Request, Handler, Goroutine, StopRequest, StopHandler
<1> QED
  BY <1>1, Invariance, PTL DEF Spec, OnlyOwnStopCancels

(* The entry a registration overwrites is that of a build that has given   *)
(* its index back.                                                         *)
THEOREM DisplacementIsHarmless == Spec => OnlyDrainingDisplaced
<1> DEFINE Allowed(i, a, b) ==
      buildContexts[i] = a /\ buildContexts'[i] = b /\ a # b => pc[a] = "unregister"
<1>1. Inv /\ [Next]_vars => \A i \in Indices : \A a, b \in Builds : Allowed(i, a, b)
  <2> SUFFICES ASSUME Inv, [Next]_vars, NEW i \in Indices,
                      NEW a \in Builds, NEW b \in Builds,
                      buildContexts[i] = a, buildContexts'[i] = b, a # b
               PROVE  pc[a] = "unregister"
    OBVIOUS
  <2> USE DEF callVars, apiVars, stopVars
  <2>0. TypeOK /\ NoBuild \notin Builds
    BY ControlAssumption DEF Inv, ControlAssumption
  <2>1. ASSUME NEW c \in Builds, Register(c)
        PROVE  pc[a] = "unregister"
    <3>1. i = index[c] /\ b = c /\ pc[c] = "register"
      BY <2>0, <2>1 DEF Register, Goto, TypeOK
    <3>2. index[a] = i /\ pc[a] \in Registered
      BY DEF Inv, ContextsBelong
    <3>3. pc[a] \notin Holding
      BY <3>1, <3>2 DEF Inv, OneBuildPerIndex, Holding
    <3> QED
      BY <3>2, <3>3 DEF Registered
  <2>2. ASSUME NEW c \in Builds, Unregister(c)
        PROVE  FALSE
    BY <2>0, <2>2 DEF Unregister, TypeOK
  <2>3. ASSUME NEW s \in Stops, CancelBuild(s)
        PROVE  FALSE
    BY <2>0, <2>3 DEF CancelBuild, TypeOK
  <2>4. ASSUME NEW c \in Builds, NEW j \in Indices,
               \/ TriggerBuild(c, j) \/ RefuseTrigger(c, j) \/ RefuseClaim(c)
               \/ Claim(c) \/ NoGitClient(c) \/ AnnounceStart(c) \/ Build(c)
               \/ Conclude(c) \/ AnnounceEnd(c) \/ Release(c) \/ Deadline(c)
        PROVE  FALSE
    BY <2>4 DEF TriggerBuild, RefuseTrigger, RefuseClaim, Claim, NoGitClient,
       AnnounceStart, Build, Conclude, AnnounceEnd, Release, Deadline
  <2>5. ASSUME NEW s \in Stops, NEW j \in Indices,
               \/ StopBuild(s, j) \/ RefuseStop(s, j)
               \/ NothingToStop(s) \/ AnnounceStop(s)
        PROVE  FALSE
    BY <2>5 DEF StopBuild, RefuseStop, NothingToStop, AnnounceStop
  <2>6. ASSUME ReplaceConfig \/ UNCHANGED vars
        PROVE  FALSE
    BY <2>6 DEF ReplaceConfig, vars
  <2>7. Indices # {}
    BY ControlAssumption DEF ControlAssumption
  <2> QED
    BY <2>1, <2>2, <2>3, <2>4, <2>5, <2>6, <2>7
       DEF Next, Request, Handler, Goroutine, StopRequest, StopHandler
<1> QED
  BY <1>1, Invariance, PTL DEF Spec, OnlyDrainingDisplaced

-----------------------------------------------------------------------------
(* The refinement of BuildSlots.                                           *)

(* A build that moves on without changing its status, and every step of    *)
(* other variables, stutters in BuildSlots.                                *)
LEMMA SlotsStutter ==
    ASSUME \A b \in Builds : SlotStatus(b)' = SlotStatus(b),
           \A b \in Builds : SlotStatus(b) # "none" => index'[b] = index[b],
           starget' = starget
    PROVE  UNCHANGED Slots!slotVars
BY DEF Slots!slotVars

LEMMA OwnStepStutter ==
    ASSUME TypeOK, NEW b \in Builds, NEW from, NEW to, Goto(b, from, to),
           from \in Holding <=> to \in Holding,
           from \notin {"unregister", "over"}, to \notin {"unregister", "over"},
           index' = index, starget' = starget
    PROVE  UNCHANGED Slots!slotVars
<1>1. \A c \in Builds : SlotStatus(c)' = SlotStatus(c)
  BY DEF Goto, SlotStatus, TypeOK
<1> QED
  BY <1>1, SlotsStutter

LEMMA OtherStepStutter ==
    ASSUME pc' = pc, index' = index, starget' = starget
    PROVE  UNCHANGED Slots!slotVars
<1>1. \A c \in Builds : SlotStatus(c)' = SlotStatus(c)
  BY DEF SlotStatus
<1> QED
  BY <1>1, SlotsStutter

LEMMA InitSlots == Init => Slots!SlotsInit
BY DEF Init, Slots!SlotsInit, SlotStatus, Holding

LEMMA NextSlots == Inv /\ [Next]_vars => [Slots!SlotsNext]_(Slots!slotVars)
<1> SUFFICES ASSUME Inv, [Next]_vars
             PROVE  Slots!SlotsNext \/ UNCHANGED Slots!slotVars
  OBVIOUS
<1> USE DEF callVars, apiVars, stopVars
<1>0. TypeOK
  BY DEF Inv
<1>1. ASSUME NEW b \in Builds, NEW i \in Indices, TriggerBuild(b, i)
      PROVE  UNCHANGED Slots!slotVars
  <2>1. \A c \in Builds : SlotStatus(c)' = SlotStatus(c)
    BY <1>0, <1>1 DEF TriggerBuild, Goto, SlotStatus, Holding, TypeOK
  <2>2. SlotStatus(b) = "none"
    BY <1>1 DEF TriggerBuild, Goto, SlotStatus, Holding
  <2>3. \A c \in Builds : SlotStatus(c) # "none" => index'[c] = index[c]
    BY <1>0, <1>1, <2>2 DEF TriggerBuild, TypeOK
  <2> QED
    BY <1>1, <2>1, <2>3, SlotsStutter DEF TriggerBuild
<1>2. ASSUME NEW b \in Builds, NEW i \in Indices, i = index[b], Claim(b)
      PROVE  Slots!Acquire(b, i)
  <2>1. /\ pc[b] = "claim" /\ pc' = [pc EXCEPT ![b] = "register"]
        /\ index[b] \notin buildingRepos
        /\ UNCHANGED <<index, starget>>
    BY <1>2 DEF Claim, Goto
  <2>2. SlotStatus(b) = "none" /\ SlotStatus(b)' = "active"
    BY <1>0, <2>1 DEF SlotStatus, Holding, TypeOK
  <2>3. \A c \in Builds : c # b => SlotStatus(c)' = SlotStatus(c)
    BY <1>0, <2>1 DEF SlotStatus, TypeOK
  <2>4. \A c \in Builds : SlotStatus(c) = "active" => pc[c] \in Holding
    BY DEF SlotStatus
  <2>5. \A c \in Builds : SlotStatus(c) = "active" => index[c] # index[b]
    BY <2>1, <2>4 DEF Inv, SlotsAreHeld
  <2> QED
    BY <1>2, <2>1, <2>2, <2>3, <2>5 DEF Slots!Acquire
<1>3. ASSUME NEW b \in Builds, Release(b)
      PROVE  Slots!GiveBack(b)
  <2>1. /\ pc[b] = "release" /\ pc' = [pc EXCEPT ![b] = "unregister"]
        /\ UNCHANGED <<index, starget>>
    BY <1>3 DEF Release, Goto
  <2>2. SlotStatus(b) = "active" /\ SlotStatus(b)' = "draining"
    BY <1>0, <2>1 DEF SlotStatus, Holding, TypeOK
  <2>3. \A c \in Builds : c # b => SlotStatus(c)' = SlotStatus(c)
    BY <1>0, <2>1 DEF SlotStatus, TypeOK
  <2> QED
    BY <2>1, <2>2, <2>3 DEF Slots!GiveBack
<1>4. ASSUME NEW b \in Builds, Unregister(b)
      PROVE  Slots!Finish(b)
  <2>1. /\ pc[b] = "unregister" /\ pc' = [pc EXCEPT ![b] = "over"]
        /\ UNCHANGED <<index, starget>>
    BY <1>4 DEF Unregister, Goto
  <2>2. SlotStatus(b) = "draining" /\ SlotStatus(b)' = "over"
    BY <1>0, <2>1 DEF SlotStatus, Holding, TypeOK
  <2>3. \A c \in Builds : c # b => SlotStatus(c)' = SlotStatus(c)
    BY <1>0, <2>1 DEF SlotStatus, TypeOK
  <2> QED
    BY <2>1, <2>2, <2>3 DEF Slots!Finish
<1>5. ASSUME NEW s \in Stops, CancelBuild(s)
      PROVE  \E b \in Builds : Slots!Stop(s, b)
  <2>1. PICK b \in Builds : /\ buildContexts[sindex[s]] = b
                            /\ starget' = [starget EXCEPT ![s] = b]
    BY <1>5 DEF CancelBuild
  <2>2. spc[s] = "lookup" /\ pc' = pc /\ index' = index
    BY <1>5 DEF CancelBuild, StopGoto
  <2>3. pc[b] \in Registered /\ \A t \in Stops : starget[t] # b
    BY <1>0, <2>1 DEF Inv, ContextsBelong, TypeOK
  <2>4. SlotStatus(b) \in {"active", "draining"}
    BY <2>3 DEF SlotStatus, Registered, Holding
  <2>5. \A c \in Builds : SlotStatus(c)' = SlotStatus(c)
    BY <2>2 DEF SlotStatus
  <2>6. starget[s] = NoBuild
    BY <2>2 DEF Inv, StopsKnowTarget
  <2>7. Slots!Stop(s, b)
    BY <2>1, <2>2, <2>3, <2>4, <2>5, <2>6 DEF Slots!Stop
  <2> QED
    BY <2>7
<1>6. ASSUME NEW b \in Builds, NEW i \in Indices,
             \/ RefuseTrigger(b, i) \/ RefuseClaim(b) \/ Register(b)
             \/ NoGitClient(b) \/ AnnounceStart(b) \/ Conclude(b) \/ AnnounceEnd(b)
      PROVE  UNCHANGED Slots!slotVars
  <2>1. index' = index /\ starget' = starget
    BY <1>6 DEF RefuseTrigger, RefuseClaim, Register, NoGitClient, AnnounceStart,
       Conclude, AnnounceEnd
  <2>2. PICK from \in PcStates, to \in PcStates :
          /\ Goto(b, from, to)
          /\ from \in Holding <=> to \in Holding
          /\ from \notin {"unregister", "over"} /\ to \notin {"unregister", "over"}
    BY <1>6 DEF RefuseTrigger, RefuseClaim, Register, NoGitClient, AnnounceStart,
       Conclude, AnnounceEnd, Holding, PcStates
  <2> QED
    BY <1>0, <2>1, <2>2, OwnStepStutter
<1>7. ASSUME NEW b \in Builds, Build(b) \/ Deadline(b)
      PROVE  UNCHANGED Slots!slotVars
  BY <1>7, OtherStepStutter DEF Build, Deadline
<1>8. ASSUME NEW s \in Stops, NEW i \in Indices,
             \/ StopBuild(s, i) \/ RefuseStop(s, i)
             \/ NothingToStop(s) \/ AnnounceStop(s)
      PROVE  UNCHANGED Slots!slotVars
  BY <1>8, OtherStepStutter DEF StopBuild, RefuseStop, NothingToStop, AnnounceStop
<1>9. ASSUME ReplaceConfig \/ UNCHANGED vars
      PROVE  UNCHANGED Slots!slotVars
  BY <1>9, OtherStepStutter DEF ReplaceConfig, vars
<1>10. Indices # {}
  BY ControlAssumption DEF ControlAssumption
<1>11. ASSUME NEW b \in Builds, Claim(b) \/ Release(b) \/ Unregister(b)
       PROVE  Slots!SlotsNext
  <2>1. index[b] \in Indices
    BY <1>0 DEF TypeOK
  <2>2. CASE Claim(b)
    <3>1. PICK i \in Indices : i = index[b]
      BY <2>1
    <3>2. Slots!Acquire(b, i)
      BY <1>2, <2>2, <3>1
    <3> QED
      BY <3>2 DEF Slots!SlotsNext
  <2>3. CASE Release(b)
    BY <1>3, <2>3 DEF Slots!SlotsNext
  <2>4. CASE Unregister(b)
    BY <1>4, <2>4 DEF Slots!SlotsNext
  <2> QED
    BY <1>11, <2>2, <2>3, <2>4
<1>12. ASSUME NEW s \in Stops, CancelBuild(s)
       PROVE  Slots!SlotsNext
  BY <1>5, <1>12 DEF Slots!SlotsNext
<1> QED
  BY <1>1, <1>6, <1>7, <1>8, <1>9, <1>10, <1>11, <1>12
     DEF Next, Request, Handler, Goroutine, StopRequest, StopHandler

(* The handlers of handler.go implement BuildSlots: one build at a time    *)
(* per index, given back once, stopped at most once and only while there.  *)
THEOREM Refinement == Spec => ImplementsSlots
<1>1. Init => Slots!SlotsInit
  BY InitSlots
<1>2. Inv /\ [Next]_vars => [Slots!SlotsNext]_(Slots!slotVars)
  BY NextSlots
<1> QED
  BY <1>1, <1>2, Invariance, PTL DEF Spec, ImplementsSlots, Slots!SlotsSpec

-----------------------------------------------------------------------------
(* What is announced, and what becomes of the cancel functions.            *)

BeforeCall == {"idle", "refused", "claim", "register", "spawned"}

Done == {"release", "unregister", "over"}

StopReached(b) == \E s \in Stops : starget[s] = b

(* A success or failure is announced of a call that returned so.           *)
AnnouncedAsReturned ==
    \A b \in Builds :
        /\ pc[b] = "success" \/ "success" \in announced[b] => call[b] = "ok"
        /\ pc[b] = "failure" \/ "failure" \in announced[b] => call[b] = "err"

(* Whoever is about to announce a stop has stopped a build, and who has    *)
(* done so has told the starter of that build.                             *)
StopsAreTold ==
    \A s \in Stops : spc[s] \in {"announce", "stopped"} =>
        /\ starget[s] \in Builds
        /\ spc[s] = "stopped" => "stop" \in announced[starget[s]]

(* The announcement of an end that happened, or a stop request that is     *)
(* about to announce it, accounts for every build whose call was made and  *)
(* that is past its outcome: none ends in silence of its own accord.       *)
EndsAreAccountedFor ==
    \A b \in Builds : pc[b] \in Done /\ call[b] # "idle" =>
        \/ announced[b] \cap {"success", "failure", "stop"} # {}
        \/ \E s \in Stops : spc[s] = "announce" /\ starget[s] = b

(* Only a stop request leaves an unfinished build with a canceled context, *)
(* and a build that ended without a word was reached by one.               *)
SilenceIsStopped ==
    \A b \in Builds :
        /\ pc[b] \in BeforeCall => call[b] = "idle"
        /\ ctx[b] = "canceled" /\ pc[b] # "over" => StopReached(b)
        /\ pc[b] \in Done /\ call[b] # "idle" =>
             announced[b] \cap {"success", "failure"} # {} \/ StopReached(b)

(* An earlier build of the same index has ended; its deferred function     *)
(* empties the entry of the index, whoever registered there since.         *)
EarlierEnded(b) == \E c \in Builds \ {b} : pc[c] = "over" /\ index[c] = index[b]

(* A running build whose cancel function is not filed under its index was  *)
(* reached by a stop request, or an earlier build of the same index ended  *)
(* after giving the index back and took the entry with it.                 *)
LostContextHasCause ==
    \A b \in Builds :
        pc[b] \in Holding \ {"register"} /\ buildContexts[index[b]] # b =>
            StopReached(b) \/ EarlierEnded(b)

ToldInv ==
    /\ Inv
    /\ AnnouncedAsReturned
    /\ StopsAreTold
    /\ SilenceIsStopped
    /\ LostContextHasCause

(* Why an entry of buildContexts is replaced or removed.                   *)
EntryLeaves(i, b) ==
    \/ \E s \in Stops : /\ spc[s] = "lookup" /\ starget'[s] = b
                        /\ sindex[s] = i
    \/ pc[b] = "unregister"
    \/ \E c \in Builds \ {b} : /\ pc[c] = "unregister" /\ pc'[c] = "over"
                               /\ index[c] = i

(* A cancel function leaves buildContexts by a stop request for its index, *)
(* once its build has given the index back, or with the end of another     *)
(* build of the index.                                                     *)
EntriesLeaveFor ==
    [][\A i \in Indices : \A b \in Builds :
         buildContexts[i] = b /\ buildContexts'[i] # b => EntryLeaves(i, b)]_vars

(* The answer "no build in progress for this repo" is wrong about a build  *)
(* only when an earlier build of the index ended under it: how far         *)
(* StopFindsRunningBuild fails.                                            *)
WrongAnswerHasCause ==
    [][\A s \in Stops : spc[s] = "lookup" /\ spc'[s] = "noBuild" =>
         \A b \in Builds :
             pc[b] \in {"spawned", "building"} /\ index[b] = sindex[s] =>
                 StopReached(b) \/ EarlierEnded(b)]_vars

(* How one step moves the goroutine of a build; what else it did.          *)
PcMove(b) ==
    \/ pc'[b] = pc[b] /\ call'[b] = call[b]
    \/ pc'[b] = pc[b] /\ pc[b] = "building" /\ CallStep(b)
    \/ pc[b] \in {"idle", "claim"} /\ pc'[b] \in BeforeCall \ {"spawned"}
       /\ call'[b] = call[b]
    \/ pc[b] = "register" /\ pc'[b] = "spawned" /\ call'[b] = call[b]
       /\ buildContexts'[index[b]] = b
    \/ pc[b] = "spawned" /\ pc'[b] = "release" /\ call'[b] = call[b]
    \/ pc[b] = "spawned" /\ pc'[b] = "building" /\ Enter(b)
    \/ pc[b] = "building" /\ pc'[b] = "success" /\ call[b] = "ok" /\ call'[b] = "ok"
    \/ pc[b] = "building" /\ pc'[b] = "failure" /\ call[b] = "err" /\ call'[b] = "err"
    \/ pc[b] = "building" /\ pc'[b] = "release" /\ call[b] = "err" /\ call'[b] = "err"
       /\ ctx[b] = "canceled"
    \/ pc[b] \in {"success", "failure"} /\ pc'[b] = "release" /\ call'[b] = call[b]
       /\ pc[b] \in announced'[b]
    \/ pc[b] = "release" /\ pc'[b] = "unregister" /\ call'[b] = call[b]
    \/ pc[b] = "unregister" /\ pc'[b] = "over" /\ call'[b] = call[b]

LEMMA PcMoves ==
    ASSUME TypeOK, [Next]_vars, NEW b \in Builds
    PROVE  PcMove(b)
<1> USE DEF callVars, apiVars, stopVars
<1>1. ASSUME NEW c \in Builds, NEW i \in Indices,
             TriggerBuild(c, i) \/ RefuseTrigger(c, i) \/ RefuseClaim(c) \/ Claim(c)
      PROVE  PcMove(b)
  BY <1>1 DEF TriggerBuild, RefuseTrigger, RefuseClaim, Claim, Goto, PcMove,
     BeforeCall, TypeOK, CallTypeOK
<1>2. ASSUME NEW c \in Builds, Register(c)
      PROVE  PcMove(b)
  BY <1>2 DEF Register, Goto, PcMove, TypeOK, CallTypeOK
<1>3. ASSUME NEW c \in Builds, NoGitClient(c)
      PROVE  PcMove(b)
  BY <1>3 DEF NoGitClient, Goto, PcMove, TypeOK, CallTypeOK
<1>4. ASSUME NEW c \in Builds, AnnounceStart(c)
      PROVE  PcMove(b)
  <2>1. CASE c = b
    BY <1>4, <2>1 DEF AnnounceStart, Goto, PcMove, TypeOK, CallTypeOK
  <2>2. CASE c # b
    BY <1>4, <2>2 DEF AnnounceStart, Goto, Enter, PcMove, TypeOK, CallTypeOK
  <2> QED
    BY <2>1, <2>2
<1>5. ASSUME NEW c \in Builds, Build(c)
      PROVE  PcMove(b)
  <2>1. CASE c = b
    BY <1>5, <2>1 DEF Build, PcMove
  <2>2. CASE c # b
    BY <1>5, <2>2 DEF Build, CallStep, BranchAnswered, StartClone, Cloned, FetchFails,
       StartDocker, DockerReturns, PcMove, TypeOK, CallTypeOK
  <2> QED
    BY <2>1, <2>2
<1>6. ASSUME NEW c \in Builds, Conclude(c)
      PROVE  PcMove(b)
  BY <1>6 DEF Conclude, Goto, PcMove, TypeOK, CallTypeOK
<1>7. ASSUME NEW c \in Builds, AnnounceEnd(c)
      PROVE  PcMove(b)
  <2>1. PICK note \in {"success", "failure"} : Goto(c, note, "release") /\ Announce(c, note)
    BY <1>7 DEF AnnounceEnd
  <2> QED
    BY <1>7, <2>1 DEF AnnounceEnd, Goto, Announce, PcMove, TypeOK, CallTypeOK
<1>8. ASSUME NEW c \in Builds, Release(c) \/ Unregister(c) \/ Deadline(c)
      PROVE  PcMove(b)
  BY <1>8 DEF Release, Unregister, Deadline, Expire, Goto, PcMove, TypeOK, CallTypeOK
<1>9. ASSUME NEW s \in Stops, NEW i \in Indices,
             \/ StopBuild(s, i) \/ RefuseStop(s, i)
             \/ NothingToStop(s) \/ AnnounceStop(s) \/ CancelBuild(s)
      PROVE  PcMove(b)
  BY <1>9 DEF StopBuild, RefuseStop, NothingToStop, AnnounceStop, CancelBuild, PcMove
<1>10. ASSUME ReplaceConfig \/ UNCHANGED vars
       PROVE  PcMove(b)
  BY <1>10 DEF ReplaceConfig, vars, PcMove
<1>11. Indices # {}
  BY ControlAssumption DEF ControlAssumption
<1> QED
  BY <1>1, <1>2, <1>3, <1>4, <1>5, <1>6, <1>7, <1>8, <1>9, <1>10, <1>11
     DEF Next, Request, Handler, Goroutine, StopRequest, StopHandler

(* What one step adds to the notifications about a build.                  *)
AnnouncedMove(b) ==
    \/ announced'[b] = announced[b]
    \/ pc[b] = "spawned" /\ announced'[b] = announced[b] \cup {"start"}
    \/ pc[b] \in {"success", "failure"} /\ announced'[b] = announced[b] \cup {pc[b]}
    \/ announced'[b] = announced[b] \cup {"stop"}

LEMMA AnnouncedMoves ==
    ASSUME TypeOK, [Next]_vars, NEW b \in Builds
    PROVE  AnnouncedMove(b)
<1> USE DEF callVars, apiVars, stopVars
<1>1. ASSUME NEW c \in Builds, NEW i \in Indices,
             \/ TriggerBuild(c, i) \/ RefuseTrigger(c, i) \/ RefuseClaim(c)
             \/ Claim(c) \/ Register(c) \/ NoGitClient(c) \/ Build(c) \/ Conclude(c)
             \/ Release(c) \/ Unregister(c) \/ Deadline(c)
      PROVE  AnnouncedMove(b)
  BY <1>1 DEF TriggerBuild, RefuseTrigger, RefuseClaim, Claim, Register, NoGitClient,
     Build, Conclude, Release, Unregister, Deadline, AnnouncedMove
<1>2. ASSUME NEW c \in Builds, AnnounceStart(c)
      PROVE  AnnouncedMove(b)
  BY <1>2 DEF AnnounceStart, Goto, Announce, AnnouncedMove, TypeOK
<1>3. ASSUME NEW c \in Builds, AnnounceEnd(c)
      PROVE  AnnouncedMove(b)
  BY <1>3 DEF AnnounceEnd, Goto, Announce, AnnouncedMove, TypeOK
<1>4. ASSUME NEW s \in Stops, AnnounceStop(s)
      PROVE  AnnouncedMove(b)
  BY <1>4 DEF AnnounceStop, Announce, AnnouncedMove, TypeOK
<1>5. ASSUME NEW s \in Stops, NEW i \in Indices,
             \/ StopBuild(s, i) \/ RefuseStop(s, i)
             \/ NothingToStop(s) \/ CancelBuild(s)
      PROVE  AnnouncedMove(b)
  BY <1>5 DEF StopBuild, RefuseStop, NothingToStop, CancelBuild, AnnouncedMove
<1>6. ASSUME ReplaceConfig \/ UNCHANGED vars
      PROVE  AnnouncedMove(b)
  BY <1>6 DEF ReplaceConfig, vars, AnnouncedMove
<1>7. Indices # {}
  BY ControlAssumption DEF ControlAssumption
<1> QED
  BY <1>1, <1>2, <1>3, <1>4, <1>5, <1>6, <1>7
     DEF Next, Request, Handler, Goroutine, StopRequest, StopHandler

(* What one step does to a context.                                        *)
CtxMove(b) ==
    \/ ctx'[b] = ctx[b]
    \/ ctx[b] = "none" /\ ctx'[b] = "live"
    \/ ctx[b] = "live" /\ ctx'[b] = "expired"
    \/ ctx[b] = "live" /\ ctx'[b] = "canceled" /\ pc'[b] = "over"
    \/ ctx[b] = "live" /\ ctx'[b] = "canceled" /\ \E s \in Stops : starget'[s] = b

LEMMA CtxMoves ==
    ASSUME TypeOK, [Next]_vars, NEW b \in Builds
    PROVE  CtxMove(b)
<1> USE DEF callVars, apiVars, stopVars
<1>1. ASSUME NEW c \in Builds, NEW i \in Indices,
             \/ TriggerBuild(c, i) \/ RefuseTrigger(c, i) \/ RefuseClaim(c)
             \/ Register(c) \/ NoGitClient(c) \/ AnnounceStart(c)
             \/ Conclude(c) \/ AnnounceEnd(c) \/ Release(c)
      PROVE  CtxMove(b)
  BY <1>1 DEF TriggerBuild, RefuseTrigger, RefuseClaim, Register, NoGitClient,
     AnnounceStart, Conclude, AnnounceEnd, Release, CtxMove
<1>2. ASSUME NEW c \in Builds, Build(c)
      PROVE  CtxMove(b)
  BY <1>2 DEF Build, CallStep, BranchAnswered, StartClone, Cloned, FetchFails,
       StartDocker, DockerReturns, CtxMove
<1>3. ASSUME NEW c \in Builds, Claim(c) \/ Deadline(c)
      PROVE  CtxMove(b)
  BY <1>3 DEF Claim, NewContext, Deadline, Expire, CtxMove, TypeOK, CallTypeOK
<1>4. ASSUME NEW c \in Builds, Unregister(c)
      PROVE  CtxMove(b)
  BY <1>4 DEF Unregister, Goto, Cancel, CtxMove, TypeOK, CallTypeOK
<1>5. ASSUME NEW s \in Stops, CancelBuild(s)
      PROVE  CtxMove(b)
  <2>1. PICK c \in Builds : Cancel(c) /\ starget' = [starget EXCEPT ![s] = c]
    BY <1>5 DEF CancelBuild
  <2>2. starget'[s] = c
    BY <2>1 DEF TypeOK
  <2> QED
    BY <2>1, <2>2 DEF Cancel, CtxMove, TypeOK, CallTypeOK
<1>6. ASSUME NEW s \in Stops, NEW i \in Indices,
             \/ StopBuild(s, i) \/ RefuseStop(s, i)
             \/ NothingToStop(s) \/ AnnounceStop(s)
      PROVE  CtxMove(b)
  BY <1>6 DEF StopBuild, RefuseStop, NothingToStop, AnnounceStop, CtxMove
<1>7. ASSUME ReplaceConfig \/ UNCHANGED vars
      PROVE  CtxMove(b)
  BY <1>7 DEF ReplaceConfig, vars, CtxMove
<1>8. Indices # {}
  BY ControlAssumption DEF ControlAssumption
<1> QED
  BY <1>1, <1>2, <1>3, <1>4, <1>5, <1>6, <1>7, <1>8
     DEF Next, Request, Handler, Goroutine, StopRequest, StopHandler

(* A stop request that reached a build has reached it for good.            *)
LEMMA TargetsStay ==
    ASSUME Inv, [Next]_vars, NEW b \in Builds, StopReached(b)
    PROVE  StopReached(b)'
<1> USE DEF callVars, apiVars, stopVars
<1>1. PICK s \in Stops : starget[s] = b
  BY DEF StopReached
<1>2. NoBuild \notin Builds
  BY ControlAssumption DEF ControlAssumption
<1>3. spc[s] # "lookup"
  BY <1>1, <1>2 DEF Inv, StopsKnowTarget
<1>4. ASSUME NEW t \in Stops, CancelBuild(t)
      PROVE  starget'[s] = starget[s]
  BY <1>3, <1>4 DEF CancelBuild, StopGoto, Inv, TypeOK
<1>5. ASSUME NEW t \in Stops, NEW i \in Indices,
             \/ StopBuild(t, i) \/ RefuseStop(t, i)
             \/ NothingToStop(t) \/ AnnounceStop(t)
      PROVE  starget'[s] = starget[s]
  BY <1>5 DEF StopBuild, RefuseStop, NothingToStop, AnnounceStop
<1>6. ASSUME NEW c \in Builds, NEW i \in Indices,
             \/ TriggerBuild(c, i) \/ RefuseTrigger(c, i) \/ RefuseClaim(c)
             \/ Claim(c) \/ Register(c) \/ NoGitClient(c) \/ AnnounceStart(c)
             \/ Build(c) \/ Conclude(c) \/ AnnounceEnd(c)
             \/ Release(c) \/ Unregister(c) \/ Deadline(c)
      PROVE  starget'[s] = starget[s]
  BY <1>6 DEF TriggerBuild, RefuseTrigger, RefuseClaim, Claim, Register, NoGitClient,
     AnnounceStart, Build, Conclude, AnnounceEnd, Release, Unregister, Deadline
<1>7. ASSUME ReplaceConfig \/ UNCHANGED vars
      PROVE  starget'[s] = starget[s]
  BY <1>7 DEF ReplaceConfig, vars
<1>8. Indices # {}
  BY ControlAssumption DEF ControlAssumption
<1>9. starget'[s] = starget[s]
  BY <1>4, <1>5, <1>6, <1>7, <1>8
     DEF Next, Request, Handler, Goroutine, StopRequest, StopHandler
<1> QED
  BY <1>1, <1>9 DEF StopReached

-----------------------------------------------------------------------------
(* The second inductive invariant.                                         *)

LEMMA InitTold == Init => ToldInv
<1> SUFFICES ASSUME Init PROVE ToldInv
  OBVIOUS
<1>1. Inv
  BY InitInv
<1>2. AnnouncedAsReturned /\ StopsAreTold
  BY DEF Init, AnnouncedAsReturned, StopsAreTold
<1>3. SilenceIsStopped
  BY DEF Init, CallInit, SilenceIsStopped, Done
<1>4. LostContextHasCause
  BY DEF Init, LostContextHasCause, Holding
<1> QED
  BY <1>1, <1>2, <1>3, <1>4 DEF ToldInv

LEMMA NextAnnounced == ToldInv /\ [Next]_vars => AnnouncedAsReturned'
<1> SUFFICES ASSUME ToldInv, [Next]_vars, NEW b \in Builds
             PROVE  /\ pc'[b] = "success" \/ "success" \in announced'[b] => call'[b] = "ok"
                    /\ pc'[b] = "failure" \/ "failure" \in announced'[b] => call'[b] = "err"
  BY DEF AnnouncedAsReturned
<1>0. TypeOK /\ PcMove(b) /\ AnnouncedMove(b)
  BY PcMoves, AnnouncedMoves DEF ToldInv, Inv
<1>1. /\ pc[b] = "success" \/ "success" \in announced[b] => call[b] = "ok"
      /\ pc[b] = "failure" \/ "failure" \in announced[b] => call[b] = "err"
  BY DEF ToldInv, AnnouncedAsReturned
<1>2. call[b] \in {"ok", "err"} => call'[b] = call[b]
  BY <1>0 DEF PcMove, CallStep, BranchAnswered, StartClone, Cloned, FetchFails,
       StartDocker, DockerReturns, Enter
<1>3. "success" \in announced'[b] => pc[b] = "success" \/ "success" \in announced[b]
  BY <1>0 DEF AnnouncedMove
<1>4. "failure" \in announced'[b] => pc[b] = "failure" \/ "failure" \in announced[b]
  BY <1>0 DEF AnnouncedMove
<1>5. pc'[b] = "success" => call[b] = "ok"
  BY <1>0, <1>1 DEF PcMove, BeforeCall
<1>6. pc'[b] = "failure" => call[b] = "err"
  BY <1>0, <1>1 DEF PcMove, BeforeCall
<1> QED
  BY <1>1, <1>2, <1>3, <1>4, <1>5, <1>6

LEMMA NextSilence == ToldInv /\ [Next]_vars => SilenceIsStopped'
<1> SUFFICES ASSUME ToldInv, [Next]_vars, NEW b \in Builds
             PROVE  /\ pc'[b] \in BeforeCall => call'[b] = "idle"
                    /\ ctx'[b] = "canceled" /\ pc'[b] # "over" => StopReached(b)'
                    /\ pc'[b] \in Done /\ call'[b] # "idle" =>
                         \/ announced'[b] \cap {"success", "failure"} # {}
                         \/ StopReached(b)'
  BY DEF SilenceIsStopped
<1>0. Inv /\ TypeOK /\ PcMove(b) /\ AnnouncedMove(b) /\ CtxMove(b)
  BY PcMoves, AnnouncedMoves, CtxMoves DEF ToldInv, Inv
<1>1. /\ pc[b] \in BeforeCall => call[b] = "idle"
      /\ ctx[b] = "canceled" /\ pc[b] # "over" => StopReached(b)
      /\ pc[b] \in Done /\ call[b] # "idle" =>
           announced[b] \cap {"success", "failure"} # {} \/ StopReached(b)
  BY DEF ToldInv, SilenceIsStopped
<1>2. StopReached(b) => StopReached(b)'
  BY <1>0, TargetsStay
<1>3. pc'[b] \in BeforeCall => call'[b] = "idle"
  BY <1>0, <1>1 DEF PcMove, BeforeCall
<1>4. ctx'[b] = "canceled" /\ pc'[b] # "over" => StopReached(b)'
  <2>1. pc[b] = "over" => pc'[b] = "over"
    BY <1>0 DEF PcMove
  <2>2. ctx'[b] = "canceled" /\ pc'[b] # "over" =>
          ctx[b] = "canceled" \/ \E s \in Stops : starget'[s] = b
    BY <1>0 DEF CtxMove
  <2> QED
    BY <1>1, <1>2, <2>1, <2>2 DEF StopReached
<1>5. announced[b] \subseteq announced'[b]
  BY <1>0 DEF AnnouncedMove
<1>6. ASSUME pc'[b] \in Done, call'[b] # "idle"
      PROVE  \/ announced'[b] \cap {"success", "failure"} # {}
             \/ StopReached(b)'
  <2>1. CASE pc[b] \in Done
    <3>1. call[b] # "idle"
      BY <1>0, <1>6, <2>1 DEF PcMove, Done
    <3> QED
      BY <1>1, <1>2, <1>5, <2>1, <3>1
  <2>2. CASE pc[b] = "building" /\ pc'[b] = "release"
    <3>1. ctx[b] = "canceled"
      BY <1>0, <2>2 DEF PcMove
    <3> QED
      BY <1>1, <1>2, <2>2, <3>1
  <2>3. CASE pc[b] \in {"success", "failure"}
    <3>1. pc[b] \in announced'[b]
      BY <1>0, <1>6, <2>3 DEF PcMove, Done
    <3> QED
      BY <2>3, <3>1
  <2>4. CASE pc[b] = "spawned"
    BY <1>0, <1>1, <1>6, <2>4 DEF PcMove, Done, BeforeCall
  <2> QED
    BY <1>0, <1>6, <2>1, <2>2, <2>3, <2>4 DEF PcMove, Done, BeforeCall
<1> QED
  BY <1>3, <1>4, <1>6

LEMMA NextStopsTold == ToldInv /\ [Next]_vars => StopsAreTold'
<1> SUFFICES ASSUME ToldInv, [Next]_vars,
                    NEW s \in Stops, spc'[s] \in {"announce", "stopped"}
             PROVE  /\ starget'[s] \in Builds
                    /\ spc'[s] = "stopped" => "stop" \in announced'[starget'[s]]
  BY DEF StopsAreTold
<1> USE DEF callVars, apiVars, stopVars
<1>0. Inv /\ TypeOK /\ StopsAreTold
  BY DEF ToldInv, Inv
<1>1. ASSUME spc'[s] = spc[s], starget'[s] = starget[s]
      PROVE  /\ starget'[s] \in Builds
             /\ spc'[s] = "stopped" => "stop" \in announced'[starget'[s]]
  <2>1. starget[s] \in Builds /\ spc[s] = "stopped" => "stop" \in announced[starget[s]]
    BY <1>0, <1>1 DEF StopsAreTold
  <2>2. starget[s] \in Builds
    BY <1>0, <1>1 DEF StopsAreTold
  <2>3. announced[starget[s]] \subseteq announced'[starget[s]]
    BY <1>0, <2>2, AnnouncedMoves DEF AnnouncedMove
  <2> QED
    BY <1>1, <2>1, <2>2, <2>3
<1>2. ASSUME NEW t \in Stops, CancelBuild(t)
      PROVE  /\ starget'[s] \in Builds
             /\ spc'[s] = "stopped" => "stop" \in announced'[starget'[s]]
  <2>1. CASE t = s
    BY <1>0, <1>2, <2>1 DEF CancelBuild, StopGoto, TypeOK
  <2>2. CASE t # s
    BY <1>0, <1>1, <1>2, <2>2 DEF CancelBuild, StopGoto, TypeOK
  <2> QED
    BY <2>1, <2>2
<1>3. ASSUME NEW t \in Stops, AnnounceStop(t)
      PROVE  /\ starget'[s] \in Builds
             /\ spc'[s] = "stopped" => "stop" \in announced'[starget'[s]]
  <2>1. CASE t = s
    <3>1. spc[s] = "announce" /\ starget' = starget /\ Announce(starget[s], "stop")
      BY <1>3, <2>1 DEF AnnounceStop, StopGoto
    <3>2. starget[s] \in Builds
      BY <1>0, <3>1 DEF StopsAreTold
    <3> QED
      BY <1>0, <3>1, <3>2 DEF Announce, TypeOK
  <2>2. CASE t # s
    BY <1>0, <1>1, <1>3, <2>2 DEF AnnounceStop, StopGoto, TypeOK
  <2> QED
    BY <2>1, <2>2
<1>4. ASSUME NEW t \in Stops, NEW i \in Indices,
             StopBuild(t, i) \/ RefuseStop(t, i) \/ NothingToStop(t)
      PROVE  /\ starget'[s] \in Builds
             /\ spc'[s] = "stopped" => "stop" \in announced'[starget'[s]]
  <2>1. t # s /\ starget' = starget
    BY <1>0, <1>4 DEF StopBuild, RefuseStop, NothingToStop, StopGoto, TypeOK
  <2>2. spc'[s] = spc[s]
    BY <1>0, <1>4, <2>1 DEF StopBuild, RefuseStop, NothingToStop, StopGoto, TypeOK
  <2> QED
    BY <1>1, <2>1, <2>2
<1>5. ASSUME NEW c \in Builds, NEW i \in Indices,
             \/ TriggerBuild(c, i) \/ RefuseTrigger(c, i) \/ RefuseClaim(c)
             \/ Claim(c) \/ Register(c) \/ NoGitClient(c) \/ AnnounceStart(c)
             \/ Build(c) \/ Conclude(c) \/ AnnounceEnd(c)
             \/ Release(c) \/ Unregister(c) \/ Deadline(c)
      PROVE  spc'[s] = spc[s] /\ starget'[s] = starget[s]
  BY <1>5 DEF TriggerBuild, RefuseTrigger, RefuseClaim, Claim, Register, NoGitClient,
     AnnounceStart, Build, Conclude, AnnounceEnd, Release, Unregister, Deadline
<1>6. ASSUME ReplaceConfig \/ UNCHANGED vars
      PROVE  spc'[s] = spc[s] /\ starget'[s] = starget[s]
  BY <1>6 DEF ReplaceConfig, vars
<1>7. Indices # {}
  BY ControlAssumption DEF ControlAssumption
<1> QED
  BY <1>1, <1>2, <1>3, <1>4, <1>5, <1>6, <1>7
     DEF Next, Request, Handler, Goroutine, StopRequest, StopHandler

(* A request that was read keeps its index.                                *)
LEMMA IndexStays ==
    ASSUME TypeOK, [Next]_vars, NEW b \in Builds, pc[b] # "idle"
    PROVE  index'[b] = index[b]
<1> USE DEF callVars, apiVars, stopVars
<1>1. ASSUME NEW c \in Builds, NEW i \in Indices, TriggerBuild(c, i)
      PROVE  index'[b] = index[b]
  BY <1>1 DEF TriggerBuild, Goto, TypeOK
<1>2. ASSUME NEW c \in Builds, NEW i \in Indices,
             \/ RefuseTrigger(c, i) \/ RefuseClaim(c)
             \/ Claim(c) \/ Register(c) \/ NoGitClient(c) \/ AnnounceStart(c)
             \/ Build(c) \/ Conclude(c) \/ AnnounceEnd(c)
             \/ Release(c) \/ Unregister(c) \/ Deadline(c)
      PROVE  index'[b] = index[b]
  BY <1>2 DEF RefuseTrigger, RefuseClaim, Claim, Register, NoGitClient,
     AnnounceStart, Build, Conclude, AnnounceEnd, Release, Unregister, Deadline
<1>3. ASSUME NEW s \in Stops, NEW i \in Indices,
             \/ StopBuild(s, i) \/ RefuseStop(s, i)
             \/ NothingToStop(s) \/ AnnounceStop(s) \/ CancelBuild(s)
      PROVE  index'[b] = index[b]
  BY <1>3 DEF StopBuild, RefuseStop, NothingToStop, AnnounceStop, CancelBuild
<1>4. ASSUME ReplaceConfig \/ UNCHANGED vars
      PROVE  index'[b] = index[b]
  BY <1>4 DEF ReplaceConfig, vars
<1>5. Indices # {}
  BY ControlAssumption DEF ControlAssumption
<1> QED
  BY <1>1, <1>2, <1>3, <1>4, <1>5
     DEF Next, Request, Handler, Goroutine, StopRequest, StopHandler

LEMMA EntryMoves ==
    ASSUME Inv, [Next]_vars, NEW i \in Indices, NEW b \in Builds,
           buildContexts[i] = b, buildContexts'[i] # b
    PROVE  EntryLeaves(i, b)
<1> USE DEF callVars, apiVars, stopVars
<1>0. TypeOK
  BY DEF Inv
<1>1. ASSUME NEW c \in Builds, Register(c)
      PROVE  EntryLeaves(i, b)
  <2>1. i = index[c] /\ b # c /\ pc[c] = "register"
    BY <1>0, <1>1 DEF Register, Goto, TypeOK
  <2>2. index[b] = i /\ pc[b] \in Registered
    BY DEF Inv, ContextsBelong
  <2>3. pc[b] \notin Holding
    BY <2>1, <2>2 DEF Inv, OneBuildPerIndex, Holding
  <2> QED
    BY <2>2, <2>3 DEF Registered, EntryLeaves
<1>2. ASSUME NEW c \in Builds, Unregister(c)
      PROVE  EntryLeaves(i, b)
  <2>1. i = index[c] /\ pc[c] = "unregister" /\ pc'[c] = "over"
    BY <1>0, <1>2 DEF Unregister, Goto, TypeOK
  <2>2. c = b \/ c \in Builds \ {b}
    OBVIOUS
  <2> QED
    BY <2>1, <2>2 DEF EntryLeaves
<1>3. ASSUME NEW s \in Stops, CancelBuild(s)
      PROVE  EntryLeaves(i, b)
  <2>1. i = sindex[s] /\ spc[s] = "lookup"
    BY <1>0, <1>3 DEF CancelBuild, StopGoto, TypeOK
  <2>2. starget'[s] = b
    BY <1>0, <1>3, <2>1 DEF CancelBuild, TypeOK
  <2> QED
    BY <2>1, <2>2 DEF EntryLeaves
<1>4. ASSUME NEW c \in Builds, NEW j \in Indices,
             \/ TriggerBuild(c, j) \/ RefuseTrigger(c, j) \/ RefuseClaim(c)
             \/ Claim(c) \/ NoGitClient(c) \/ AnnounceStart(c) \/ Build(c)
             \/ Conclude(c) \/ AnnounceEnd(c) \/ Release(c) \/ Deadline(c)
      PROVE  FALSE
  BY <1>4 DEF TriggerBuild, RefuseTrigger, RefuseClaim, Claim, NoGitClient,
     AnnounceStart, Build, Conclude, AnnounceEnd, Release, Deadline
<1>5. ASSUME NEW s \in Stops, NEW j \in Indices,
             \/ StopBuild(s, j) \/ RefuseStop(s, j)
             \/ NothingToStop(s) \/ AnnounceStop(s)
      PROVE  FALSE
  BY <1>5 DEF StopBuild, RefuseStop, NothingToStop, AnnounceStop
<1>6. ASSUME ReplaceConfig \/ UNCHANGED vars
      PROVE  FALSE
  BY <1>6 DEF ReplaceConfig, vars
<1>7. Indices # {}
  BY ControlAssumption DEF ControlAssumption
<1> QED
  BY <1>1, <1>2, <1>3, <1>4, <1>5, <1>6, <1>7
     DEF Next, Request, Handler, Goroutine, StopRequest, StopHandler

(* The answer "no build in progress" is given for an empty entry.          *)
LEMMA LookupFails ==
    ASSUME TypeOK, [Next]_vars, NEW s \in Stops,
           spc[s] = "lookup", spc'[s] = "noBuild"
    PROVE  buildContexts[sindex[s]] = NoBuild
<1> USE DEF callVars, apiVars, stopVars
<1>1. ASSUME NEW t \in Stops, NothingToStop(t)
      PROVE  buildContexts[sindex[s]] = NoBuild
  BY <1>1 DEF NothingToStop, StopGoto, TypeOK
<1>2. ASSUME NEW t \in Stops, NEW i \in Indices,
             StopBuild(t, i) \/ RefuseStop(t, i) \/ AnnounceStop(t) \/ CancelBuild(t)
      PROVE  FALSE
  BY <1>2 DEF StopBuild, RefuseStop, AnnounceStop, CancelBuild, StopGoto, TypeOK
<1>3. ASSUME NEW c \in Builds, NEW i \in Indices,
             \/ TriggerBuild(c, i) \/ RefuseTrigger(c, i) \/ RefuseClaim(c)
             \/ Claim(c) \/ Register(c) \/ NoGitClient(c) \/ AnnounceStart(c)
             \/ Build(c) \/ Conclude(c) \/ AnnounceEnd(c)
             \/ Release(c) \/ Unregister(c) \/ Deadline(c)
      PROVE  FALSE
  BY <1>3 DEF TriggerBuild, RefuseTrigger, RefuseClaim, Claim, Register, NoGitClient,
     AnnounceStart, Build, Conclude, AnnounceEnd, Release, Unregister, Deadline
<1>4. ASSUME ReplaceConfig \/ UNCHANGED vars
      PROVE  FALSE
  BY <1>4 DEF ReplaceConfig, vars
<1>5. Indices # {}
  BY ControlAssumption DEF ControlAssumption
<1> QED
  BY <1>1, <1>2, <1>3, <1>4, <1>5
     DEF Next, Request, Handler, Goroutine, StopRequest, StopHandler

LEMMA NextLostContext == ToldInv /\ [Next]_vars => LostContextHasCause'
<1> DEFINE Cause(b) == StopReached(b) \/ EarlierEnded(b)
<1> SUFFICES ASSUME ToldInv, [Next]_vars, NEW b \in Builds,
                    pc'[b] \in Holding \ {"register"},
                    buildContexts'[index'[b]] # b
             PROVE  Cause(b)'
  BY DEF LostContextHasCause
<1>0. Inv /\ TypeOK /\ PcMove(b) /\ LostContextHasCause
  BY PcMoves DEF ToldInv, Inv
<1>1. pc[b] # "idle"
  BY <1>0 DEF PcMove, BeforeCall, Holding
<1>2. index'[b] = index[b]
  BY <1>0, <1>1, IndexStays
<1>3. pc[b] \in Holding \ {"register"}
  BY <1>0, <1>2 DEF PcMove, BeforeCall, Holding
<1>4. ASSUME NEW c \in Builds \ {b}, pc'[c] = "over", pc[c] # "idle",
             index[c] = index[b]
      PROVE  Cause(b)'
  <2>1. index'[c] = index[c]
    BY <1>0, <1>4, IndexStays
  <2> QED
    BY <1>2, <1>4, <2>1 DEF EarlierEnded
<1>5. CASE buildContexts[index[b]] # b
  <2>1. CASE StopReached(b)
    BY <1>0, <2>1, TargetsStay
  <2>2. ASSUME NEW c \in Builds \ {b}, pc[c] = "over", index[c] = index[b]
        PROVE  Cause(b)'
    <3>1. pc'[c] = "over"
      BY <1>0, <2>2, PcMoves DEF PcMove
    <3> QED
      BY <1>4, <2>2, <3>1
  <2> QED
    BY <1>0, <1>3, <1>5, <2>1, <2>2 DEF LostContextHasCause, EarlierEnded
<1>6. CASE buildContexts[index[b]] = b
  <2>1. EntryLeaves(index[b], b)
    BY <1>0, <1>2, <1>6, EntryMoves DEF TypeOK
  <2>2. pc[b] # "unregister"
    BY <1>3 DEF Holding
  <2>3. CASE \E s \in Stops : starget'[s] = b
    BY <2>3 DEF StopReached
  <2>4. ASSUME NEW c \in Builds \ {b}, pc[c] = "unregister", pc'[c] = "over",
               index[c] = index[b]
        PROVE  Cause(b)'
    BY <1>4, <2>4
  <2> QED
    BY <2>1, <2>2, <2>3, <2>4 DEF EntryLeaves
<1> QED
  BY <1>5, <1>6

LEMMA NextTold == ToldInv /\ [Next]_vars => ToldInv'
<1>1. ToldInv /\ [Next]_vars => Inv'
  BY NextInv DEF ToldInv
<1> QED
  BY <1>1, NextAnnounced, NextStopsTold, NextSilence, NextLostContext DEF ToldInv

LEMMA ToldInvariance == Spec => []ToldInv
<1> QED
  BY InitTold, NextTold, PTL DEF Spec

(* No success is announced of a build that failed, no failure of one that  *)
(* succeeded, and so never both, however late a stop request or deadline   *)
(* comes: the notification follows what BuildRepository returned.          *)
THEOREM OutcomesAreTrue == Spec => []AnnouncedAsReturned
<1>1. ToldInv => AnnouncedAsReturned
  BY DEF ToldInv
<1> QED
  BY <1>1, ToldInvariance, PTL

(* What StartIsConcluded rests on, without timers or fairness: a build     *)
(* whose outcome is decided was announced, or a stop request that canceled *)
(* it is still to announce it.                                             *)
THEOREM NoSilentEnd == Spec => []EndsAreAccountedFor
<1>1. ToldInv => EndsAreAccountedFor
  <2> SUFFICES ASSUME ToldInv, NEW b \in Builds, pc[b] \in Done, call[b] # "idle",
                      announced[b] \cap {"success", "failure", "stop"} = {}
               PROVE  \E s \in Stops : spc[s] = "announce" /\ starget[s] = b
    BY DEF EndsAreAccountedFor
  <2>1. StopReached(b)
    BY DEF ToldInv, SilenceIsStopped
  <2>2. PICK s \in Stops : starget[s] = b
    BY <2>1 DEF StopReached
  <2>3. spc[s] \in {"announce", "stopped"}
    BY <2>2, ControlAssumption
       DEF ToldInv, Inv, StopsKnowTarget, TypeOK, StopStates, ControlAssumption
  <2>4. spc[s] # "stopped"
    BY <2>2, <2>3 DEF ToldInv, StopsAreTold
  <2> QED
    BY <2>2, <2>3, <2>4
<1> QED
  BY <1>1, ToldInvariance, PTL

(* A running build can be stopped, has been, or lost its cancel function   *)
(* to an earlier build of its index that ended late.                       *)
THEOREM LostContexts == Spec => []LostContextHasCause
<1>1. ToldInv => LostContextHasCause
  BY DEF ToldInv
<1> QED
  BY <1>1, ToldInvariance, PTL

(* Every step that takes a cancel function out of buildContexts is one of  *)
(* three.                                                                  *)
THEOREM EntriesLeave == Spec => EntriesLeaveFor
<1>1. Inv /\ [Next]_vars =>
        \A i \in Indices : \A b \in Builds :
            buildContexts[i] = b /\ buildContexts'[i] # b => EntryLeaves(i, b)
  BY EntryMoves
<1> QED
  BY <1>1, Invariance, PTL DEF Spec, EntriesLeaveFor

(* StopBuild answers 400 for an index with a running, unstopped build only *)
(* in the way the run control_unstoppable shows.                           *)
THEOREM WrongAnswers == Spec => WrongAnswerHasCause
<1> DEFINE Cause(b) == StopReached(b) \/ EarlierEnded(b)
<1>1. ToldInv /\ [Next]_vars =>
        \A s \in Stops : spc[s] = "lookup" /\ spc'[s] = "noBuild" =>
            \A b \in Builds :
                pc[b] \in {"spawned", "building"} /\ index[b] = sindex[s] => Cause(b)
  <2> SUFFICES ASSUME ToldInv, [Next]_vars, NEW s \in Stops,
                      spc[s] = "lookup", spc'[s] = "noBuild", NEW b \in Builds,
                      pc[b] \in {"spawned", "building"}, index[b] = sindex[s]
               PROVE  Cause(b)
    OBVIOUS
  <2>1. buildContexts[sindex[s]] = NoBuild
    BY LookupFails DEF ToldInv, Inv
  <2>2. buildContexts[index[b]] # b
    BY <2>1, ControlAssumption DEF ControlAssumption
  <2> QED
    BY <2>2 DEF ToldInv, LostContextHasCause, Holding
<1> QED
  BY <1>1, ToldInvariance, PTL DEF Spec, WrongAnswerHasCause

-----------------------------------------------------------------------------
(* A build canceled before docker started.                                 *)

(* It stays so: its call can only fail.                                    *)
Doomed(b) ==
    ctx[b] = "canceled" /\ call[b] \in BeforeDocker \cup {"err"}

LEMMA DoomedStays ==
    ASSUME TypeOK, [Next]_vars, NEW b \in Builds, Doomed(b)
    PROVE  Doomed(b)'
<1>1. PcMove(b) /\ CtxMove(b)
  BY PcMoves, CtxMoves
<1>2. ctx'[b] = "canceled"
  BY <1>1 DEF CtxMove, Doomed
<1>3. call'[b] = call[b] \/ Enter(b) \/ CallStep(b)
  BY <1>1 DEF PcMove
<1>4. call'[b] \in BeforeDocker \cup {"err"}
  <2>1. CASE Enter(b)
    BY <2>1 DEF Enter, BeforeDocker, TypeOK, CallTypeOK
  <2>2. CASE CallStep(b)
    BY <2>2 DEF CallStep, BranchAnswered, StartClone, Cloned, FetchFails,
       StartDocker, DockerReturns, ContextDone, Doomed, BeforeDocker,
       TypeOK, CallTypeOK
  <2> QED
    BY <1>3, <2>1, <2>2 DEF Doomed, BeforeDocker
<1> QED
  BY <1>2, <1>4 DEF Doomed

(* A stop request that comes before docker was started keeps the image     *)
(* from being pushed, for good.                                            *)
THEOREM StoppedInTime == Spec => CanceledEarlyNeverSucceeds
<1>1. ASSUME NEW b \in Builds
      PROVE  Spec => [](ctx[b] = "canceled" /\ call[b] \in BeforeDocker
                          => [](call[b] # "ok" /\ "success" \notin announced[b]))
  <2>1. ctx[b] = "canceled" /\ call[b] \in BeforeDocker => Doomed(b)
    BY DEF Doomed
  <2>2. TypeOK /\ Doomed(b) /\ [Next]_vars => Doomed(b)'
    BY DoomedStays
  <2>3. AnnouncedAsReturned /\ Doomed(b) => call[b] # "ok" /\ "success" \notin announced[b]
    BY DEF AnnouncedAsReturned, Doomed, BeforeDocker
  <2> QED
    BY <2>1, <2>2, <2>3, TypeCorrect, OutcomesAreTrue, PTL DEF Spec
<1> QED
  BY <1>1 DEF CanceledEarlyNeverSucceeds

=============================================================================
