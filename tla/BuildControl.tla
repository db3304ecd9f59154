----------------------------- MODULE BuildControl -----------------------------
(***************************************************************************)
(* The builds the HTTP API starts and stops (internal/api/handler.go).     *)
(*                                                                         *)
(* TriggerBuild claims the slot of a repository index in buildingRepos,    *)
(* registers the cancel function of the build in buildContexts and leaves  *)
(* the build to a goroutine, which gives both back in its deferred         *)
(* function.  StopBuild takes a cancel function out of buildContexts and   *)
(* calls it.  The two maps have a mutex each and no lock covers both, so   *)
(* every critical section is one action and everything else interleaves.   *)
(*                                                                         *)
(* One element of Builds stands for a POST to /build/trigger, its handler  *)
(* and its goroutine; one element of Stops for a POST to /build/stop.      *)
(***************************************************************************)
EXTENDS BuildCall, Integers, Sequences

CONSTANTS
    Stops,          \* the stop requests
    Indices,        \* the values of repo_index clients send
    Repos,          \* entries of the repositories list
    HasClient,      \* those whose auth is a key of gitClients
    Configs,        \* repository lists the server can be given
    NoConfig,       \* cfg is nil
    NoBuild,        \* no entry in buildContexts
    NoIndex         \* the index of a build that has not claimed one

ASSUME ControlAssumption ==
    /\ Indices \subseteq Int /\ Indices # {}
    /\ Repos # {}
    /\ Configs \subseteq Seq(Repos) \ {<<>>}
    /\ NoConfig \notin Configs
    /\ NoBuild \notin Builds
    /\ NoIndex \notin Indices

VARIABLES
    cfg,            \* h.cfg
    buildingRepos,  \* the keys of h.buildingRepos
    buildContexts,  \* the build whose cancel function h.buildContexts holds
    pc,             \* where the handler or goroutine of a trigger request is
    index,          \* req.RepoIndex of a trigger request
    repo,           \* the repository entry it read from cfg
    announced,      \* the notifications sent about a build
    spc,            \* where the handler of a stop request is
    sindex,         \* req.RepoIndex of a stop request
    starget         \* the build a stop request canceled

apiVars == <<cfg, buildingRepos, buildContexts, pc, index, repo, announced>>
stopVars == <<spc, sindex, starget>>
vars == <<callVars, apiVars, stopVars>>

Notes == {"start", "success", "failure", "stop"}

PcStates == {"idle", "refused", "claim", "register", "spawned", "building",
             "success", "failure", "release", "unregister", "over"}

StopStates == {"idle", "refused", "lookup", "announce", "stopped", "noBuild"}

TypeOK ==
    /\ CallTypeOK
    /\ cfg \in Configs \cup {NoConfig}
    /\ buildingRepos \subseteq Indices
    /\ buildContexts \in [Indices -> Builds \cup {NoBuild}]
    /\ pc \in [Builds -> PcStates]
    /\ index \in [Builds -> Indices]
    /\ repo \in [Builds -> Repos]
    /\ announced \in [Builds -> SUBSET Notes]
    /\ spc \in [Stops -> StopStates]
    /\ sindex \in [Stops -> Indices]
    /\ starget \in [Stops -> Builds \cup {NoBuild}]
    /\ \A s \in Stops : starget[s] \in Builds <=> spc[s] \in {"announce", "stopped"}

(* index, repo and sindex mean nothing before their request is read.       *)
Init ==
    /\ CallInit
    /\ cfg \in Configs \cup {NoConfig}
    /\ buildingRepos = {}
    /\ buildContexts = [i \in Indices |-> NoBuild]
    /\ pc = [b \in Builds |-> "idle"]
    /\ index = [b \in Builds |-> CHOOSE i \in Indices : TRUE]
    /\ repo = [b \in Builds |-> CHOOSE r \in Repos : TRUE]
    /\ sindex = [s \in Stops |-> CHOOSE i \in Indices : TRUE]
    /\ announced = [b \in Builds |-> {}]
    /\ spc = [s \in Stops |-> "idle"]
    /\ starget = [s \in Stops |-> NoBuild]

ValidIndex(i) == cfg # NoConfig /\ 0 <= i /\ i < Len(cfg)

Goto(b, from, to) == pc[b] = from /\ pc' = [pc EXCEPT ![b] = to]
StopGoto(s, from, to) == spc[s] = from /\ spc' = [spc EXCEPT ![s] = to]
Announce(b, note) == announced' = [announced EXCEPT ![b] = @ \cup {note}]

-----------------------------------------------------------------------------
(* TriggerBuild, in the handler.                                           *)

TriggerBuild(b, i) ==
    /\ ValidIndex(i)
    /\ Goto(b, "idle", "claim")
    /\ index' = [index EXCEPT ![b] = i]
    /\ repo' = [repo EXCEPT ![b] = cfg[i + 1]]
    /\ UNCHANGED <<callVars, stopVars, cfg, buildingRepos, buildContexts, announced>>

RefuseTrigger(b, i) ==
    /\ ~ValidIndex(i)
    /\ Goto(b, "idle", "refused")
    /\ UNCHANGED <<callVars, stopVars, cfg, buildingRepos, buildContexts,
                   index, repo, announced>>

(* Mutant: the index is taken without looking whether it is free.          *)
ClaimUnchecked(b) ==
    /\ Goto(b, "claim", "register")
    /\ buildingRepos' = buildingRepos \cup {index[b]}
    /\ NewContext(b)
    /\ UNCHANGED <<call, stopVars, cfg, buildContexts, index, repo, announced>>

(* The section under buildingReposMu, and the context made after it.       *)
Claim(b) ==
    /\ index[b] \notin buildingRepos
    /\ Goto(b, "claim", "register")
    /\ buildingRepos' = buildingRepos \cup {index[b]}
    /\ NewContext(b)
    /\ UNCHANGED <<call, stopVars, cfg, buildContexts, index, repo, announced>>

(* 409 "build already in progress".                                        *)
RefuseClaim(b) ==
    /\ index[b] \in buildingRepos
    /\ Goto(b, "claim", "refused")
    /\ UNCHANGED <<callVars, stopVars, cfg, buildingRepos, buildContexts,
                   index, repo, announced>>

(* The section under buildContextsMu; then the goroutine is started.       *)
Register(b) ==
    /\ Goto(b, "register", "spawned")
    /\ buildContexts' = [buildContexts EXCEPT ![index[b]] = b]
    /\ UNCHANGED <<callVars, stopVars, cfg, buildingRepos, index, repo, announced>>

-----------------------------------------------------------------------------
(* The goroutine.                                                          *)

(* Mutant: the early return comes before the deferred function is set up.  *)
NoGitClientLeaks(b) ==
    /\ repo[b] \notin HasClient
    /\ Goto(b, "spawned", "over")
    /\ UNCHANGED <<callVars, stopVars, cfg, buildingRepos, buildContexts,
                   index, repo, announced>>

NoGitClient(b) ==
    /\ repo[b] \notin HasClient
    /\ Goto(b, "spawned", "release")
    /\ UNCHANGED <<callVars, stopVars, cfg, buildingRepos, buildContexts,
                   index, repo, announced>>

(* SendBuildStart reports an error when one of the channels failed, after  *)
(* the others were told; the build is then given up without another word.  *)
AnnounceStart(b) ==
    /\ repo[b] \in HasClient
    /\ Announce(b, "start")
    /\ \/ Goto(b, "spawned", "building") /\ Enter(b) /\ UNCHANGED ctx
       \/ Goto(b, "spawned", "release") /\ UNCHANGED callVars
    /\ UNCHANGED <<stopVars, cfg, buildingRepos, buildContexts, index, repo>>

Build(b) ==
    /\ pc[b] = "building"
    /\ CallStep(b)
    /\ UNCHANGED <<apiVars, stopVars>>

(* Mutant: any error of the context, not only Canceled, ends in silence.   *)
ConcludeSilently(b) ==
    /\ \/ call[b] = "ok" /\ Goto(b, "building", "success")
       \/ call[b] = "err" /\ ContextDone(b) /\ Goto(b, "building", "release")
       \/ call[b] = "err" /\ ~ContextDone(b) /\ Goto(b, "building", "failure")
    /\ UNCHANGED <<callVars, stopVars, cfg, buildingRepos, buildContexts,
                   index, repo, announced>>

(* A build that failed with its context canceled ends in silence.          *)
Conclude(b) ==
    /\ \/ call[b] = "ok" /\ Goto(b, "building", "success")
       \/ call[b] = "err" /\ ctx[b] = "canceled" /\ Goto(b, "building", "release")
       \/ call[b] = "err" /\ ctx[b] # "canceled" /\ Goto(b, "building", "failure")
    /\ UNCHANGED <<callVars, stopVars, cfg, buildingRepos, buildContexts,
                   index, repo, announced>>

AnnounceEnd(b) ==
    /\ \E note \in {"success", "failure"} :
         Goto(b, note, "release") /\ Announce(b, note)
    /\ UNCHANGED <<callVars, stopVars, cfg, buildingRepos, buildContexts, index, repo>>

-----------------------------------------------------------------------------
(* The goroutine's deferred function.                                      *)

Release(b) ==
    /\ Goto(b, "release", "unregister")
    /\ buildingRepos' = buildingRepos \ {index[b]}
    /\ UNCHANGED <<callVars, stopVars, cfg, buildContexts, index, repo, announced>>

(* Mutant: only cancel() is deferred, the entry is left behind.            *)
UnregisterKeepsEntry(b) ==
    /\ Goto(b, "unregister", "over")
    /\ Cancel(b)
    /\ UNCHANGED <<call, stopVars, cfg, buildingRepos, buildContexts, index,
                   repo, announced>>

(* Mutant: the registered function is called in place of one's own.        *)
UnregisterCallsEntry(b) ==
    /\ Goto(b, "unregister", "over")
    /\ buildContexts' = [buildContexts EXCEPT ![index[b]] = NoBuild]
    /\ ctx' = [c \in Builds |->
                 IF ctx[c] = "live" /\ buildContexts[index[b]] = c
                 THEN "canceled" ELSE ctx[c]]
    /\ UNCHANGED <<call, stopVars, cfg, buildingRepos, index, repo, announced>>

(* delete(buildContexts, index): whatever is registered there; cancel().   *)
Unregister(b) ==
    /\ Goto(b, "unregister", "over")
    /\ buildContexts' = [buildContexts EXCEPT ![index[b]] = NoBuild]
    /\ Cancel(b)
    /\ UNCHANGED <<call, stopVars, cfg, buildingRepos, index, repo, announced>>

-----------------------------------------------------------------------------
(* StopBuild.                                                              *)

StopBuild(s, i) ==
    /\ ValidIndex(i)
    /\ StopGoto(s, "idle", "lookup")
    /\ sindex' = [sindex EXCEPT ![s] = i]
    /\ UNCHANGED <<callVars, apiVars, starget>>

RefuseStop(s, i) ==
    /\ ~ValidIndex(i)
    /\ StopGoto(s, "idle", "refused")
    /\ UNCHANGED <<callVars, apiVars, sindex, starget>>

(* Mutant: the cancel function is deleted but not called.                  *)
CancelBuildForgets(s) ==
    /\ StopGoto(s, "lookup", "announce")
    /\ \E b \in Builds :
         /\ buildContexts[sindex[s]] = b
         /\ starget' = [starget EXCEPT ![s] = b]
    /\ buildContexts' = [buildContexts EXCEPT ![sindex[s]] = NoBuild]
    /\ UNCHANGED <<callVars, sindex, cfg, buildingRepos, pc, index, repo, announced>>

(* Mutant: the entry is read without looking whether it exists.            *)
CancelBuildUnchecked(s) ==
    /\ StopGoto(s, "lookup", "announce")
    /\ starget' = [starget EXCEPT ![s] = buildContexts[sindex[s]]]
    /\ ctx' = [b \in Builds |-> IF ctx[b] = "live" /\ buildContexts[sindex[s]] = b
                               THEN "canceled" ELSE ctx[b]]
    /\ buildContexts' = [buildContexts EXCEPT ![sindex[s]] = NoBuild]
    /\ UNCHANGED <<call, sindex, cfg, buildingRepos, pc, index, repo, announced>>

(* The section under buildContextsMu when an entry exists.                 *)
CancelBuild(s) ==
    /\ StopGoto(s, "lookup", "announce")
    /\ \E b \in Builds :
         /\ buildContexts[sindex[s]] = b
         /\ Cancel(b)
         /\ starget' = [starget EXCEPT ![s] = b]
    /\ buildContexts' = [buildContexts EXCEPT ![sindex[s]] = NoBuild]
    /\ UNCHANGED <<call, sindex, cfg, buildingRepos, pc, index, repo, announced>>

(* 400 "no build in progress for this repo".                               *)
NothingToStop(s) ==
    /\ buildContexts[sindex[s]] = NoBuild
    /\ StopGoto(s, "lookup", "noBuild")
    /\ UNCHANGED <<callVars, apiVars, sindex, starget>>

AnnounceStop(s) ==
    /\ StopGoto(s, "announce", "stopped")
    /\ Announce(starget[s], "stop")
    /\ UNCHANGED <<callVars, cfg, buildingRepos, buildContexts, pc, index, repo,
                   sindex, starget>>

-----------------------------------------------------------------------------
(* Any of the ways h.cfg is replaced; it never becomes nil again.          *)
ReplaceConfig ==
    /\ cfg' \in Configs
    /\ UNCHANGED <<callVars, stopVars, buildingRepos, buildContexts, pc, index,
                   repo, announced>>

(* Mutant: context.WithCancel in place of WithTimeout, no timer.           *)
NoDeadline(b) == FALSE /\ UNCHANGED vars

Deadline(b) == Expire(b) /\ UNCHANGED <<apiVars, stopVars>>

Request(b) == \E i \in Indices : TriggerBuild(b, i) \/ RefuseTrigger(b, i)
Handler(b) == Claim(b) \/ RefuseClaim(b) \/ Register(b)
Goroutine(b) ==
    \/ NoGitClient(b)
    \/ AnnounceStart(b)
    \/ Conclude(b)
    \/ AnnounceEnd(b)
    \/ Release(b)
    \/ Unregister(b)
StopRequest(s) == \E i \in Indices : StopBuild(s, i) \/ RefuseStop(s, i)
StopHandler(s) == CancelBuild(s) \/ NothingToStop(s) \/ AnnounceStop(s)

Next ==
    \/ \E b \in Builds : \/ Request(b) \/ Handler(b) \/ Goroutine(b)
                         \/ Build(b) \/ Deadline(b)
    \/ \E s \in Stops : StopRequest(s) \/ StopHandler(s)
    \/ ReplaceConfig

Spec == Init /\ [][Next]_vars

(* Handlers and goroutines are scheduled and the notifiers' HTTP clients   *)
(* time out, so none of them stays at a step for ever.  Of BuildRepository *)
(* it is only assumed that it comes back when its context is over before   *)
(* docker was started (see Unwind): nothing bounds the git server's        *)
(* answer, and nothing makes docker or what it has started end.            *)
PromptFairness ==
    /\ \A b \in Builds : /\ WF_vars(Handler(b))
                         /\ WF_vars(Goroutine(b))
                         /\ WF_vars(Unwind(b) /\ Build(b))
    /\ \A s \in Stops : WF_vars(StopHandler(s))

(* The timer of context.WithTimeout fires.                                 *)
TimerFairness == \A b \in Builds : WF_vars(Deadline(b))

PromptSpec == Spec /\ PromptFairness

-----------------------------------------------------------------------------
(* Safety.                                                                 *)

(* From the claim to the release; see Claim and Release.                   *)
Holding == {"register", "spawned", "building", "success", "failure", "release"}

(* From the start of the goroutine to the end of its deferred function.    *)
Registered == (Holding \ {"register"}) \cup {"unregister"}

(* Two builds never run for the same repository index, however triggers,   *)
(* stops, reloads and the deferred functions interleave (the 409 of        *)
(* TriggerBuild).                                                          *)
OneBuildPerIndex ==
    \A a, b \in Builds :
        pc[a] \in Holding /\ pc[b] \in Holding /\ a # b => index[a] # index[b]

(* buildingRepos, which /build/status shows, has exactly the indices of    *)
(* the builds between claim and release: no index stays taken for a build  *)
(* that is over, and none is given back under a build that runs.           *)
SlotsAreHeld == buildingRepos = {index[b] : b \in {c \in Builds : pc[c] \in Holding}}

(* The cancel function filed under an index is that of a build of this     *)
(* index which is not over and which no stop request has canceled yet.     *)
ContextsBelong ==
    \A i \in Indices : \A b \in Builds : buildContexts[i] = b =>
        /\ index[b] = i
        /\ pc[b] \in Registered
        /\ \A s \in Stops : starget[s] # b

(* A context is canceled by the end of its own build or by a stop request  *)
(* for the index of that build, never by anyone else's.                    *)
OnlyOwnStopCancels ==
    [][\A b \in Builds :
         ctx[b] = "live" /\ ctx'[b] = "canceled" /\ pc'[b] # "over" =>
             \E s \in Stops : /\ spc[s] = "lookup" /\ starget'[s] = b
                              /\ sindex[s] = index[b]]_vars

(* When TriggerBuild files its cancel function over another build's, that  *)
(* build has given its index back: no build that still runs is replaced    *)
(* in buildContexts.                                                       *)
OnlyDrainingDisplaced ==
    [][\A i \in Indices : \A a, b \in Builds :
         buildContexts[i] = a /\ buildContexts'[i] = b /\ a # b =>
             pc[a] = "unregister"]_vars

BeforeDocker == {"idle", "branch", "fetch", "clone", "prepare"}

(* A build canceled before its docker process was started pushes no image  *)
(* and is not announced as a success, whatever happens later.              *)
CanceledEarlyNeverSucceeds ==
    \A b \in Builds :
        [](ctx[b] = "canceled" /\ call[b] \in BeforeDocker
             => [](call[b] # "ok" /\ "success" \notin announced[b]))

(* A stop request that finds no cancel function was for an index under     *)
(* which no unstopped build runs: what its answer, "no build in progress   *)
(* for this repo", says.                                                   *)
StopFindsRunningBuild ==
    [][\A s \in Stops : spc[s] = "lookup" /\ spc'[s] = "noBuild" =>
         ~ \E b \in Builds : /\ pc[b] \in {"spawned", "building"}
                             /\ index[b] = sindex[s]
                             /\ \A t \in Stops : starget[t] # b]_vars

-----------------------------------------------------------------------------
(* Liveness.                                                               *)

(* If timers fire, every build that claimed an index gives it back and     *)
(* ends, on each of its early returns and however it is stopped, unless it *)
(* stays for good in one of the two places that no deadline reaches: the   *)
(* git server never answers, or a process of docker's outlives the kill.   *)
(* There alone an index stays taken for ever.                              *)
SlotFreed ==
    TimerFairness => \A b \in Builds :
        pc[b] = "register" ~> pc[b] = "over" \/ []Stranded(b)

(* If timers fire, an outcome is announced of every build whose start was: *)
(* success, failure or stopped, unless the build is stranded for good.     *)
(* Not so for a build given up since announcing its start failed (pc goes  *)
(* to release, call stays idle).                                           *)
StartIsConcluded ==
    TimerFairness => \A b \in Builds :
        pc[b] = "building" ~> \/ announced[b] \cap {"success", "failure", "stop"} # {}
                              \/ []Stranded(b)

(* A stop request ends the build whose cancel function it called, also     *)
(* when no deadline ever fires, unless the build is stranded for good.     *)
StopEndsBuild ==
    \A b \in Builds :
        (\E s \in Stops : starget[s] = b) ~> pc[b] = "over" \/ []Stranded(b)

(* "build stopped", handler.go: what was stopped ends.                     *)
StoppedEnds ==
    \A b \in Builds : (\E s \in Stops : starget[s] = b) ~> pc[b] = "over"

-----------------------------------------------------------------------------
(* Refinement.                                                             *)

SlotStatus(b) ==
    CASE pc[b] \in Holding -> "active"
      [] pc[b] = "unregister" -> "draining"
      [] pc[b] = "over" -> "over"
      [] OTHER -> "none"

Slots == INSTANCE BuildSlots WITH
    status <- [b \in Builds |-> SlotStatus(b)],
    slot <- [b \in Builds |-> IF SlotStatus(b) = "none" THEN NoIndex ELSE index[b]],
    stopped <- starget

(* TriggerBuild, StopBuild and the goroutine implement BuildSlots: every   *)
(* step is one of its operations or changes nothing it can see.            *)
ImplementsSlots == Slots!SlotsSpec

=============================================================================
