------------------------------ MODULE BuildCall ------------------------------
(***************************************************************************)
(* What the callers of builder.BuildRepository see of a build: the         *)
(* context.Context it runs under and the call itself.  TriggerBuild gives  *)
(* each build a context with a deadline of ten minutes, the scheduler one  *)
(* of thirty; both then call BuildRepository, which asks the git server    *)
(* for the branch, clones the sources into a build directory and runs      *)
(* "docker buildx build --push" on it.  The request to the git server      *)
(* knows nothing of the context; git and docker are started under it.      *)
(***************************************************************************)

CONSTANT Builds          \* every call of BuildRepository, one identity each

VARIABLES
    ctx,                 \* ctx[b]: the state of the context of build b
    call                 \* call[b]: how far the call for b has come

callVars == <<ctx, call>>

(* "canceled" is Err() = context.Canceled, "expired" DeadlineExceeded.     *)
ContextStates == {"none", "live", "canceled", "expired"}

(* "branch": asking the git server which branch there is; "fetch": the     *)
(* branch is known; "clone": git was started; "prepare": listing and       *)
(* Dockerfile; "docker": docker was started; "ok" and "err": returned.     *)
CallStates == {"idle", "branch", "fetch", "clone", "prepare", "docker", "ok", "err"}

CallTypeOK ==
    /\ ctx \in [Builds -> ContextStates]
    /\ call \in [Builds -> CallStates]

CallInit ==
    /\ ctx = [b \in Builds |-> "none"]
    /\ call = [b \in Builds |-> "idle"]

ContextDone(b) == ctx[b] \in {"canceled", "expired"}

-----------------------------------------------------------------------------
(* The context: the first of cancel() and the deadline decides Err().      *)

NewContext(b) ==
    /\ ctx[b] = "none"
    /\ ctx' = [ctx EXCEPT ![b] = "live"]

Cancel(b) == ctx' = [ctx EXCEPT ![b] = IF @ = "live" THEN "canceled" ELSE @]

Expire(b) ==
    /\ ctx[b] = "live"
    /\ ctx' = [ctx EXCEPT ![b] = "expired"]
    /\ UNCHANGED call

-----------------------------------------------------------------------------
(* The call.                                                               *)

(* A repository without a URL is local: no server is asked, none cloned.   *)
Enter(b) ==
    /\ call[b] = "idle"
    /\ \E first \in {"branch", "prepare"} : call' = [call EXCEPT ![b] = first]

(* The branch was validated or the default branch taken instead; the error *)
(* is no client, no default branch, or no build directory before that.     *)
BranchAnswered(b) ==
    /\ call[b] = "branch"
    /\ \E next \in {"fetch", "err"} : call' = [call EXCEPT ![b] = next]
    /\ UNCHANGED ctx

(* exec.Cmd.Start refuses to start a process for a context that is over.   *)
StartClone(b) ==
    /\ call[b] = "fetch"
    /\ ~ContextDone(b)
    /\ call' = [call EXCEPT ![b] = "clone"]
    /\ UNCHANGED ctx

Cloned(b) ==
    /\ call[b] = "clone"
    /\ call' = [call EXCEPT ![b] = "prepare"]
    /\ UNCHANGED ctx

(* The clone was not started, failed or was killed; there is no build      *)
(* directory or Dockerfile; docker was not started.                        *)
FetchFails(b) ==
    /\ call[b] \in {"fetch", "clone", "prepare"}
    /\ call' = [call EXCEPT ![b] = "err"]
    /\ UNCHANGED ctx

(* Mutant: exec.Command in place of exec.CommandContext.                   *)
StartDockerAnyway(b) ==
    /\ call[b] = "prepare"
    /\ call' = [call EXCEPT ![b] = "docker"]
    /\ UNCHANGED ctx

StartDocker(b) ==
    /\ call[b] = "prepare"
    /\ ~ContextDone(b)
    /\ call' = [call EXCEPT ![b] = "docker"]
    /\ UNCHANGED ctx

(* docker may have exited with success just before the context ended, so   *)
(* "ok" is possible for a context that is over.                            *)
DockerReturns(b) ==
    /\ call[b] = "docker"
    /\ \E result \in {"ok", "err"} : call' = [call EXCEPT ![b] = result]
    /\ UNCHANGED ctx

CallStep(b) ==
    \/ BranchAnswered(b) \/ StartClone(b) \/ Cloned(b) \/ FetchFails(b)
    \/ StartDocker(b) \/ DockerReturns(b)

(* exec.CommandContext kills its process when the context is over.  git    *)
(* and ls write to os.Stdout itself, so that Run returns as soon as they   *)
(* are dead: until docker was started the call then comes back.            *)
Unwind(b) == ContextDone(b) /\ FetchFails(b)

(* The two places where no deadline and no stop reaches the call.  The     *)
(* request to the git server has neither the context nor a timeout.        *)
(* docker is killed like the others but writes into a pipe (its Stdout is  *)
(* no *os.File, and there is no WaitDelay): Wait returns only when every   *)
(* process docker has started has closed it.                               *)
Stranded(b) == call[b] = "branch" \/ (call[b] = "docker" /\ ContextDone(b))

-----------------------------------------------------------------------------
(* Calls on their own: what BuildPipeline implements.                      *)

CallNext ==
    \E b \in Builds :
        \/ NewContext(b) /\ UNCHANGED call
        \/ ctx[b] # "none" /\ Enter(b) /\ UNCHANGED ctx
        \/ CallStep(b)
        \/ Cancel(b) /\ UNCHANGED call
        \/ Expire(b)

CallSpec == CallInit /\ [][CallNext]_callVars

=============================================================================
