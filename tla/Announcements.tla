---------------------------- MODULE Announcements ----------------------------
(***************************************************************************)
(* What is sent to whom about a build.  notify.Manager passes each         *)
(* announcement to its channels one after the other; a channel's request   *)
(* may fail, be delivered and reported failed, or be lost without an       *)
(* error.  ReloadNotifier replaces the managers of the API and of the      *)
(* scheduler while builds are under way.  A task of the scheduler keeps    *)
(* the manager it was launched with, the goroutine of TriggerBuild and     *)
(* StopBuild look h.notifier up for each announcement.                     *)
(***************************************************************************)
EXTENDS Naturals, FiniteSets

CONSTANTS
    Builds,         \* builds that were begun
    Stops,          \* requests to StopBuild
    NotifyConfigs,  \* the channels configurations enable
    MaxManagers,    \* bound: managers made
    None

Senders == Builds \cup Stops
Channels == {"ntfy", "dingtalk"}

ASSUME AnnouncementsAssumption ==
    /\ NotifyConfigs # {} /\ NotifyConfigs \subseteq SUBSET Channels
    /\ MaxManagers \in Nat /\ None \notin Builds
    /\ Builds \cap Stops = {}

VARIABLES
    enabled,        \* enabled[m]: what the configuration of manager m enables
    channels,       \* channels[m]: the channels manager m has
    hNotifier,      \* h.notifier
    sNotifier,      \* s.notifier
    reloading,      \* ReloadNotifier has set h.notifier, not yet s.notifier
    kind,           \* who began a build; it never changes
    pc,             \* where a sender is: the announcement it sends, mostly
    manager,        \* the manager it sends with
    left,           \* the channels of that manager still to be tried
    failed,         \* errors of this announcement so far
    ctx,            \* the context of a build
    target,         \* the build a stop request found
    built,          \* builds that called BuildRepository
    result,         \* what it returned
    unregistered,   \* API builds whose cancel function was removed
    tried,          \* tried[x]: announcements sender x made
    heard           \* the starts among them that were delivered

managers == <<enabled, channels, hNotifier, sNotifier, reloading>>
sending == <<manager, left, failed>>
outcome == <<kind, ctx, target, built, result, unregistered>>
vars == <<managers, pc, sending, outcome, tried, heard>>

Notes == {"start", "success", "failure", "stop"}
Announcement == [manager : Nat, channel : Channels, note : Notes]
Made == DOMAIN channels

(* Goroutines of TriggerBuild that got past the claim, and runs of         *)
(* buildRepositoryTaskWithNotify.                                          *)
ApiBuilds == {b \in Builds : kind[b] = "api"}
Tasks == {b \in Builds : kind[b] = "task"}

TypeOK ==
    /\ Made = 1 .. Cardinality(Made) /\ DOMAIN enabled = Made
    /\ \A m \in Made : channels[m] \subseteq enabled[m] /\ enabled[m] \in NotifyConfigs
    /\ {hNotifier, sNotifier} \subseteq Made
    /\ reloading \in BOOLEAN
    /\ kind \in [Builds -> {"api", "task"}]
    /\ pc \in [Senders -> Notes \cup {"idle", "build", "returned", "over"}]
    /\ manager \in [Senders -> Made \cup {0}]
    /\ left \in [Senders -> SUBSET Channels]
    /\ failed \in [Senders -> BOOLEAN]
    /\ ctx \in [Builds -> {"live", "canceled", "expired"}]
    /\ target \in [Stops -> Builds \cup {None}]
    /\ built \subseteq Builds /\ unregistered \subseteq Builds
    /\ result \in [Builds -> {"none", "ok", "err"}]
    /\ \A x \in Senders : tried[x] \subseteq Announcement /\ heard[x] \subseteq tried[x]

(* Mutant: a section's enabled is not looked at.                           *)
NewManagerIgnoresEnabled(c) == {Channels, Channels \ {"dingtalk"}}

(* DingTalk is left out when its access token cannot be had.               *)
NewManager(c) == {c, c \ {"dingtalk"}}

Init ==
    /\ \E c \in NotifyConfigs : \E ch \in NewManager(c) :
         enabled = [m \in {1} |-> c] /\ channels = [m \in {1} |-> ch]
    /\ hNotifier = 1 /\ sNotifier = 1 /\ reloading = FALSE
    /\ kind \in [Builds -> {"api", "task"}]
    /\ pc = [x \in Senders |-> "idle"]
    /\ manager = [x \in Senders |-> 0]
    /\ left = [x \in Senders |-> {}]
    /\ failed = [x \in Senders |-> FALSE]
    /\ ctx = [b \in Builds |-> "live"]
    /\ target = [s \in Stops |-> None]
    /\ built = {} /\ unregistered = {}
    /\ result = [b \in Builds |-> "none"]
    /\ tried = [x \in Senders |-> {}]
    /\ heard = [x \in Senders |-> {}]

-----------------------------------------------------------------------------
(* ReloadNotifier: a new manager for the API, then for the scheduler.      *)

ReloadNotifier ==
    /\ ~reloading /\ Cardinality(Made) < MaxManagers
    /\ \E c \in NotifyConfigs : \E ch \in NewManager(c) :
         LET m == Cardinality(Made) + 1 IN
           /\ enabled' = [n \in 1 .. m |-> IF n = m THEN c ELSE enabled[n]]
           /\ channels' = [n \in 1 .. m |-> IF n = m THEN ch ELSE channels[n]]
           /\ hNotifier' = m
    /\ reloading' = TRUE
    /\ UNCHANGED <<sNotifier, pc, sending, outcome, tried, heard>>

SetSchedulerNotifier ==
    /\ reloading
    /\ sNotifier' = hNotifier
    /\ reloading' = FALSE
    /\ UNCHANGED <<enabled, channels, hNotifier, pc, sending, outcome, tried, heard>>

-----------------------------------------------------------------------------
(* Manager.SendBuildStart, -Success, -Failure and -Stop.                   *)

Send(x, note, m) ==
    /\ pc' = [pc EXCEPT ![x] = note]
    /\ manager' = [manager EXCEPT ![x] = m]
    /\ left' = [left EXCEPT ![x] = channels[m]]
    /\ failed' = [failed EXCEPT ![x] = FALSE]

Sent(x) == pc[x] \in Notes /\ left[x] = {}

NextChannel(x) == IF "ntfy" \in left[x] THEN "ntfy" ELSE "dingtalk"

Record(x, got, err) ==
    LET a == [manager |-> manager[x], channel |-> NextChannel(x), note |-> pc[x]] IN
      /\ tried' = [tried EXCEPT ![x] = @ \cup {a}]
      /\ heard' = [heard EXCEPT ![x] = IF got /\ pc[x] = "start" THEN @ \cup {a} ELSE @]
      /\ failed' = [failed EXCEPT ![x] = @ \/ err]

(* Mutant: the first channel that fails ends the announcement.             *)
TryFirstOnly(x) ==
    /\ left[x] # {}
    /\ \E got, err \in BOOLEAN :
         /\ Record(x, got, err)
         /\ left' = [left EXCEPT ![x] = IF err THEN {} ELSE @ \ {NextChannel(x)}]
    /\ UNCHANGED <<managers, pc, manager, outcome>>

Try(x) ==
    /\ left[x] # {}
    /\ \E got, err \in BOOLEAN :
         /\ Record(x, got, err)
         /\ left' = [left EXCEPT ![x] = @ \ {NextChannel(x)}]
    /\ UNCHANGED <<managers, pc, manager, outcome>>

Over(x) ==
    /\ Sent(x) /\ pc[x] # "start"
    /\ pc' = [pc EXCEPT ![x] = "over"]
    /\ UNCHANGED <<managers, sending, outcome, tried, heard>>

-----------------------------------------------------------------------------
(* The goroutine of TriggerBuild.                                          *)

NoGitClient(b) ==
    /\ pc[b] = "idle"
    /\ pc' = [pc EXCEPT ![b] = "over"]
    /\ UNCHANGED <<managers, sending, outcome, tried, heard>>

AnnounceStart(b) ==
    /\ pc[b] = "idle"
    /\ Send(b, "start", hNotifier)
    /\ UNCHANGED <<managers, outcome, tried, heard>>

(* It gives up when one channel failed ...                                 *)
GiveUp(b) ==
    /\ Sent(b) /\ pc[b] = "start" /\ failed[b]
    /\ pc' = [pc EXCEPT ![b] = "over"]
    /\ UNCHANGED <<managers, sending, outcome, tried, heard>>

Build(b) ==
    /\ Sent(b) /\ pc[b] = "start" /\ ~failed[b]
    /\ pc' = [pc EXCEPT ![b] = "build"]
    /\ built' = built \cup {b}
    /\ UNCHANGED <<managers, sending, kind, ctx, target, result, unregistered, tried, heard>>

(* BuildRepository returns, if it does.                                    *)
Return(b) ==
    /\ pc[b] = "build"
    /\ pc' = [pc EXCEPT ![b] = "returned"]
    /\ \E res \in {"ok", "err"} : result' = [result EXCEPT ![b] = res]
    /\ UNCHANGED <<managers, sending, kind, ctx, target, built, unregistered, tried, heard>>

(* Mutant: a context that expired is taken for a canceled one.             *)
ConcludeQuietly(b) ==
    /\ pc[b] = "returned"
    /\ \/ result[b] = "ok" /\ Send(b, "success", hNotifier)
       \/ result[b] = "err" /\ ctx[b] = "live" /\ Send(b, "failure", hNotifier)
       \/ /\ result[b] = "err" /\ ctx[b] # "live"
          /\ pc' = [pc EXCEPT ![b] = "over"] /\ UNCHANGED sending
    /\ UNCHANGED <<managers, outcome, tried, heard>>

(* ... and says nothing of a build that failed and is canceled by now.     *)
Conclude(b) ==
    /\ pc[b] = "returned"
    /\ \/ result[b] = "ok" /\ Send(b, "success", hNotifier)
       \/ result[b] = "err" /\ ctx[b] # "canceled" /\ Send(b, "failure", hNotifier)
       \/ /\ result[b] = "err" /\ ctx[b] = "canceled"
          /\ pc' = [pc EXCEPT ![b] = "over"] /\ UNCHANGED sending
    /\ UNCHANGED <<managers, outcome, tried, heard>>

(* The deferred function, once the goroutine is through.                   *)
Unregister(b) ==
    /\ pc[b] = "over" /\ b \notin unregistered
    /\ unregistered' = unregistered \cup {b}
    /\ UNCHANGED <<managers, pc, sending, kind, ctx, target, built, result, tried, heard>>

Expire(b) ==
    /\ pc[b] \notin {"idle", "over"} /\ ctx[b] = "live"
    /\ ctx' = [ctx EXCEPT ![b] = "expired"]
    /\ UNCHANGED <<managers, pc, sending, kind, target, built, result, unregistered, tried,
                   heard>>

(* The cancel function is there until the deferred function or a stop      *)
(* request has taken it.                                                   *)
StopBuild(s, b) ==
    /\ pc[s] = "idle" /\ b \notin unregistered /\ \A r \in Stops : target[r] # b
    /\ target' = [target EXCEPT ![s] = b]
    /\ ctx' = [ctx EXCEPT ![b] = IF @ = "live" THEN "canceled" ELSE @]
    /\ Send(s, "stop", hNotifier)
    /\ UNCHANGED <<managers, kind, built, result, unregistered, tried, heard>>

-----------------------------------------------------------------------------
(* buildRepositoryTaskWithNotify.                                          *)

Launch(t) ==
    /\ pc[t] = "idle"
    /\ Send(t, "start", sNotifier)
    /\ UNCHANGED <<managers, outcome, tried, heard>>

(* The error of SendBuildStart is dropped.                                 *)
BuildTask(t) ==
    /\ Sent(t) /\ pc[t] = "start"
    /\ pc' = [pc EXCEPT ![t] = "build"]
    /\ built' = built \cup {t}
    /\ UNCHANGED <<managers, sending, kind, ctx, target, result, unregistered, tried, heard>>

EndNote(t) == IF result[t] = "ok" THEN "success" ELSE "failure"

(* Mutant: the task looks s.notifier up again.                             *)
ConcludeTaskAnew(t) ==
    /\ pc[t] = "returned"
    /\ Send(t, EndNote(t), sNotifier)
    /\ UNCHANGED <<managers, outcome, tried, heard>>

(* A timeout is announced as a failure.                                    *)
ConcludeTask(t) ==
    /\ pc[t] = "returned"
    /\ Send(t, EndNote(t), manager[t])
    /\ UNCHANGED <<managers, outcome, tried, heard>>

-----------------------------------------------------------------------------

Goroutine(b) ==
    /\ b \in ApiBuilds
    /\ \/ AnnounceStart(b) \/ NoGitClient(b) \/ GiveUp(b) \/ Build(b) \/ Conclude(b)
       \/ Unregister(b)

Run(t) == t \in Tasks /\ (BuildTask(t) \/ ConcludeTask(t))
Delivery(x) == Try(x) \/ Over(x)

Next ==
    \/ ReloadNotifier \/ SetSchedulerNotifier
    \/ \E b \in Builds : Goroutine(b) \/ Run(b) \/ Return(b) \/ Expire(b)
    \/ \E t \in Tasks : Launch(t)
    \/ \E s \in Stops : \E b \in ApiBuilds : StopBuild(s, b)
    \/ \E x \in Senders : Delivery(x)

Spec == Init /\ [][Next]_vars

(* Goroutines run, and the channels' requests have a timeout of ten        *)
(* seconds.  That BuildRepository returns is not assumed.                  *)
FairSpec ==
    /\ Spec
    /\ \A b \in Builds : WF_vars(Goroutine(b)) /\ WF_vars(Run(b))
    /\ \A x \in Senders : WF_vars(Delivery(x))

-----------------------------------------------------------------------------
(* The end of b was sent to channel c of manager m, by b or by a stop      *)
(* request for it.                                                         *)
EndTold(b, m, c) ==
    \E x \in {b} \cup {s \in Stops : target[s] = b} : \E a \in tried[x] :
        a.manager = m /\ a.channel = c /\ a.note # "start"

(* A channel that heard an API build start is sent how it ended, though    *)
(* the other channel fail: by the build, or by the stop request that       *)
(* canceled it, unless the build was given up or h.notifier was another    *)
(* manager by then, or still another when the stop request came.  Whether  *)
(* what is sent arrives is the channel's matter.                           *)
StartersAreTold ==
    \A b \in ApiBuilds : \A a \in heard[b] :
        /\ pc[b] = "over" /\ b \in built /\ a.manager = hNotifier
        /\ \A s \in Stops : target[s] = b => pc[s] = "over" /\ manager[s] = a.manager
        => EndTold(b, a.manager, a.channel)

Note(m, c, n) == [manager |-> m, channel |-> c, note |-> n]

(* Sender x has tried every channel of its manager but those left.         *)
Tried(x, n) == \A c \in channels[manager[x]] \ left[x] : Note(manager[x], c, n) \in tried[x]

(* No git client, or a channel that failed after all had been sent the     *)
(* start.                                                                  *)
HasCause(b) ==
    \/ tried[b] = {}
    \/ failed[b] /\ manager[b] \in Made /\ Tried(b, "start")

(* A build whose goroutine ends without building it either announced       *)
(* nothing at all, or sent its start to every channel and one of them      *)
(* failed: nobody is left out by another one's failure.                    *)
GivenUpForCause == \A b \in Builds : pc[b] = "over" /\ b \notin built => HasCause(b)

(* A channel that heard a task start is sent how it ended, through the     *)
(* manager that told it, whatever becomes of the managers in between,      *)
(* unless BuildRepository never returns.                                   *)
TasksAreConcluded ==
    \A b \in Builds : \A m \in 1 .. MaxManagers : \A c \in Channels :
        kind[b] = "task" /\ [manager |-> m, channel |-> c, note |-> "start"] \in heard[b]
            ~> EndTold(b, m, c) \/ [](pc[b] = "build")

(* A build whose request was answered "build started" (handler.go) is at   *)
(* least tried.                                                            *)
StartedIsBuilt == \A b \in ApiBuilds : pc[b] = "over" => b \in built

(* A build whose stop request was answered "build stopped" (handler.go) is *)
(* not announced as a success.                                             *)
StoppedIsNoSuccess ==
    \A s \in Stops : pc[s] = "over" => \A a \in tried[target[s]] : a.note # "success"

(* A manager made with "Dingtalk notification enabled" (manager.go) sends  *)
(* to DingTalk.                                                            *)
EnabledChannelsAreThere == \A m \in Made : channels[m] = enabled[m]

=============================================================================
