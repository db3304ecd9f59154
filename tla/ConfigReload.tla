----------------------------- MODULE ConfigReload -----------------------------
(***************************************************************************)
(* The configuration and its copies.  The process keeps the configuration  *)
(* in the file, in h.cfg of the API handler, in s.cfg of the scheduler and *)
(* in the cron entries made from that; what the notify section says is in  *)
(* a notify.Manager the handler points to and one the scheduler points to. *)
(* Three parties move it from one to the next, none of which holds a lock  *)
(* for longer than one assignment:                                         *)
(*                                                                         *)
(*   UpdateConfig   writes the file, then h.cfg, s.cfg and both pointers;  *)
(*   ReloadConfig   reads the file, then sets h.cfg and s.cfg;             *)
(*   the watcher    on a Write event reads the file, sets s.cfg, restarts  *)
(*                  the scheduler, and reads the file again for h.cfg;     *)
(*                                                                         *)
(* and operators edit the file.  A configuration is its version and        *)
(* whether LoadConfig has derived the names of its repositories.           *)
(***************************************************************************)
EXTENDS Integers

CONSTANTS
    Versions,       \* contents of the file that can be loaded
    FirstVersion,   \* the one the process was started with
    Updaters,       \* POST requests to /config
    Reloaders,      \* requests to /config/reload
    Editors,        \* edits of the file from outside
    Watcher,        \* the goroutine of ConfigWatcher.Start
    ClientKinds,    \* ways those who send requests and edit the file behave
    MaxEvents,      \* bound: Write events not yet taken
    Empty, Torn     \* the file truncated; parts of two versions

ASSUME ReloadAssumption ==
    /\ FirstVersion \in Versions
    /\ ClientKinds \subseteq {"concurrent", "sequential", "patient"}
    /\ Updaters \cap Reloaders = {} /\ Updaters \cap Editors = {}
    /\ Reloaders \cap Editors = {} /\ Watcher \notin Updaters \cup Reloaders \cup Editors
    /\ MaxEvents \in Nat \ {0}
    /\ Empty \notin Versions /\ Torn \notin Versions /\ Empty # Torn

Requests == Updaters \cup Reloaders \cup Editors
Actors == Requests \cup {Watcher}

VARIABLES
    clients,        \* the way they behave; chosen once, it never changes
    file,           \* what the file contains
    events,         \* Write events of the file not yet taken
    hcfg,           \* h.cfg
    scfg,           \* s.cfg
    entries,        \* the configuration the cron entries were made from
    hnotifier,      \* the version h.notifier was made from
    snotifier,      \* the version s.notifier was made from
    pc,             \* where each actor is
    version,        \* the version a request writes
    held            \* the *config.Config an actor holds

copies == <<hcfg, scfg, entries, hnotifier, snotifier>>
vars == <<clients, file, events, copies, pc, version, held>>

Contents == Versions \cup {Empty, Torn}

(* "raw" is what ConfigFromJSON returns, "loaded" what LoadConfig does.    *)
ConfigValues == [ver : Versions \cup {Torn}, form : {"raw", "loaded"}]
Raw(v) == [ver |-> v, form |-> "raw"]
Loaded(v) == [ver |-> v, form |-> "loaded"]

Steps == {"idle", "truncate", "write", "publish", "readForScheduler",
          "setScheduler", "readForNotifier", "setNotifier",
          "setSchedulerNotifier", "load", "restart", "loadAgain", "done", "failed"}

TypeOK ==
    /\ clients \in ClientKinds
    /\ file \in Contents
    /\ events \in 0 .. MaxEvents
    /\ hcfg \in ConfigValues /\ scfg \in ConfigValues /\ entries \in ConfigValues
    /\ hnotifier \in Versions \cup {Torn} /\ snotifier \in Versions \cup {Torn}
    /\ pc \in [Actors -> Steps]
    /\ version \in [Updaters \cup Editors -> Versions]
    /\ held \in [Actors -> ConfigValues]

Init ==
    /\ clients \in ClientKinds
    /\ file = FirstVersion
    /\ events = 0
    /\ hcfg = Loaded(FirstVersion)
    /\ scfg = Loaded(FirstVersion)
    /\ entries = Loaded(FirstVersion)
    /\ hnotifier = FirstVersion
    /\ snotifier = FirstVersion
    /\ pc = [a \in Actors |-> "idle"]
    /\ version = [r \in Updaters \cup Editors |-> FirstVersion]
    /\ held = [a \in Actors |-> Loaded(FirstVersion)]

Goto(a, from, to) == pc[a] = from /\ pc' = [pc EXCEPT ![a] = to]

InProgress(r) == pc[r] \notin {"idle", "done", "failed"}

(* Nobody is at work and every event has been taken.                       *)
Quiet ==
    /\ \A r \in Requests : ~InProgress(r)
    /\ pc[Watcher] = "idle"
    /\ events = 0

(* Concurrent clients begin when they like; sequential ones wait until no  *)
(* update, reload or edit is in progress, patient ones until the watcher   *)
(* has dealt with it too.                                                  *)
MayBegin ==
    /\ clients = "sequential" => \A r \in Requests : ~InProgress(r)
    /\ clients = "patient" => Quiet

-----------------------------------------------------------------------------
(* The file.  inotify merges a Write event with an untaken one before it.  *)

Written ==
    \E n \in {events, events + 1} : 1 <= n /\ n <= MaxEvents /\ events' = n

(* os.WriteFile opens with O_TRUNC ...                                     *)
Truncate(r) ==
    /\ r \in Updaters \cup Editors
    /\ Goto(r, "truncate", "write")
    /\ file' = Empty
    /\ Written
    /\ UNCHANGED <<copies, version, held>>

(* ... and writes from the start: what another write has put there is      *)
(* overwritten wholly, or in part when it is longer.                       *)
WriteContent(r, next) ==
    /\ Goto(r, "write", next)
    /\ \E f \in IF file = Empty THEN {version[r]} ELSE {version[r], Torn} : file' = f
    /\ Written
    /\ UNCHANGED <<copies, version, held>>

(* The file cannot be opened, or the disk is full half way.                *)
WriteFails(u) ==
    /\ u \in Updaters
    /\ \/ Goto(u, "truncate", "failed") /\ UNCHANGED <<file, events>>
       \/ Goto(u, "write", "failed") /\ UNCHANGED <<file, events>>
       \/ Goto(u, "write", "failed") /\ file' = Torn /\ Written
    /\ UNCHANGED <<copies, version, held>>

(* Mutant: an empty document is taken for a configuration without entries. *)
LoadConfigUnchecked(a, from, next, failed) ==
    /\ Goto(a, from, next)
    /\ held' = [held EXCEPT ![a] = Loaded(file)]
    /\ UNCHANGED <<file, events, copies, version>>

(* config.LoadConfig.  An empty file lacks its required fields; what parts *)
(* of two files parse to is open.                                          *)
LoadConfig(a, from, next, failed) ==
    /\ \/ /\ file # Empty
          /\ Goto(a, from, next)
          /\ held' = [held EXCEPT ![a] = Loaded(file)]
       \/ /\ file \notin Versions
          /\ Goto(a, from, failed)
          /\ UNCHANGED held
    /\ UNCHANGED <<file, events, copies, version>>

-----------------------------------------------------------------------------
(* UpdateConfig, once the request has been parsed and validated.           *)

UpdateConfig(u, v) ==
    /\ MayBegin
    /\ Goto(u, "idle", "truncate")
    /\ version' = [version EXCEPT ![u] = v]
    /\ UNCHANGED <<file, events, copies, held>>

(* The section under h.mu.                                                 *)
PublishRaw(u) ==
    /\ Goto(u, "publish", "readForScheduler")
    /\ hcfg' = Raw(version[u])
    /\ UNCHANGED <<file, events, scfg, entries, hnotifier, snotifier, version, held>>

(* ReloadScheduler reads h.cfg, whoever wrote it last ...                  *)
ReadForScheduler(r) ==
    /\ Goto(r, "readForScheduler", "setScheduler")
    /\ held' = [held EXCEPT ![r] = hcfg]
    /\ UNCHANGED <<file, events, copies, version>>

(* Mutant: SetConfig is not called.                                        *)
SetSchedulerNothing(a, next) ==
    /\ Goto(a, "setScheduler", next)
    /\ UNCHANGED <<file, events, copies, version, held>>

(* ... and hands it to SetConfig; the clients it sets as well never change.*)
SetScheduler(a, next) ==
    /\ Goto(a, "setScheduler", next)
    /\ scfg' = held[a]
    /\ UNCHANGED <<file, events, hcfg, entries, hnotifier, snotifier, version, held>>

(* ReloadNotifier.                                                         *)
ReadForNotifier(u) ==
    /\ Goto(u, "readForNotifier", "setNotifier")
    /\ held' = [held EXCEPT ![u] = hcfg]
    /\ UNCHANGED <<file, events, copies, version>>

(* Mutant: the scheduler keeps its manager.                                *)
SetNotifierOnly(u) ==
    /\ Goto(u, "setNotifier", "done")
    /\ hnotifier' = held[u].ver
    /\ UNCHANGED <<file, events, hcfg, scfg, entries, snotifier, version, held>>

SetNotifier(u) ==
    /\ Goto(u, "setNotifier", "setSchedulerNotifier")
    /\ hnotifier' = held[u].ver
    /\ UNCHANGED <<file, events, hcfg, scfg, entries, snotifier, version, held>>

SetSchedulerNotifier(u) ==
    /\ Goto(u, "setSchedulerNotifier", "done")
    /\ snotifier' = held[u].ver
    /\ UNCHANGED <<file, events, hcfg, scfg, entries, hnotifier, version, held>>

Updater(u) ==
    \/ Truncate(u)
    \/ WriteContent(u, "publish")
    \/ WriteFails(u)
    \/ PublishRaw(u)
    \/ ReadForScheduler(u)
    \/ SetScheduler(u, "readForNotifier")
    \/ ReadForNotifier(u)
    \/ SetNotifier(u)
    \/ SetSchedulerNotifier(u)

-----------------------------------------------------------------------------
(* ReloadConfig.                                                           *)

ReloadConfig(r) ==
    /\ MayBegin
    /\ Goto(r, "idle", "load")
    /\ UNCHANGED <<file, events, copies, version, held>>

(* Mutant: the callback discards the events that arrived while it ran.     *)
PublishLoadedDropsEvents(a, next) ==
    /\ Goto(a, "publish", next)
    /\ hcfg' = held[a]
    /\ events' = IF a = Watcher THEN 0 ELSE events
    /\ UNCHANGED <<file, scfg, entries, hnotifier, snotifier, version, held>>

PublishLoaded(a, next) ==
    /\ Goto(a, "publish", next)
    /\ hcfg' = held[a]
    /\ UNCHANGED <<file, events, scfg, entries, hnotifier, snotifier, version, held>>

Reloader(r) ==
    \/ LoadConfig(r, "load", "publish", "failed")
    \/ PublishLoaded(r, "readForScheduler")
    \/ ReadForScheduler(r)
    \/ SetScheduler(r, "done")

-----------------------------------------------------------------------------
(* The watcher and main's callback; one event at a time.                   *)

TakeEvent ==
    /\ events > 0
    /\ Goto(Watcher, "idle", "load")
    /\ events' = events - 1
    /\ UNCHANGED <<file, copies, version, held>>

(* Restart makes the cron entries anew, from s.cfg as it is by then.       *)
Restart ==
    /\ Goto(Watcher, "restart", "loadAgain")
    /\ entries' = scfg
    /\ UNCHANGED <<file, events, hcfg, scfg, hnotifier, snotifier, version, held>>

Watch ==
    \/ TakeEvent
    \/ LoadConfig(Watcher, "load", "setScheduler", "idle")
    \/ SetScheduler(Watcher, "restart")
    \/ Restart
    \/ LoadConfig(Watcher, "loadAgain", "publish", "idle")
    \/ PublishLoaded(Watcher, "idle")

-----------------------------------------------------------------------------
(* An operator saves the file: in place, like os.WriteFile, or by renaming *)
(* a new file over it.  That is no Write event, and no copy follows it     *)
(* until a later one: the clients whose copies follow the file do without. *)

EditInPlace(e, v) ==
    /\ MayBegin
    /\ Goto(e, "idle", "truncate")
    /\ version' = [version EXCEPT ![e] = v]
    /\ UNCHANGED <<file, events, copies, held>>

ReplaceFile(e, v) ==
    /\ clients = "concurrent"
    /\ MayBegin
    /\ Goto(e, "idle", "done")
    /\ file' = v
    /\ version' = [version EXCEPT ![e] = v]
    /\ UNCHANGED <<events, copies, held>>

Editor(e) == Truncate(e) \/ WriteContent(e, "done")

-----------------------------------------------------------------------------

Next ==
    /\ UNCHANGED clients
    /\ \/ \E u \in Updaters : Updater(u) \/ \E v \in Versions : UpdateConfig(u, v)
       \/ \E r \in Reloaders : Reloader(r) \/ ReloadConfig(r)
       \/ \E e \in Editors :
            Editor(e) \/ \E v \in Versions : EditInPlace(e, v) \/ ReplaceFile(e, v)
       \/ Watch

Spec == Init /\ [][Next]_vars

-----------------------------------------------------------------------------
(* Once everything has come to rest with a readable file, the API works    *)
(* from what the file says, however the watcher's two readings of it fell, *)
(* unless requests or edits overlapped.                                    *)
HandlerFollowsFile ==
    clients # "concurrent" /\ Quiet /\ file \in Versions => hcfg.ver = file

(* With patient clients the scheduler and its cron entries do so as well.  *)
(* UpdateConfig leaves the entries to the watcher.                         *)
CopiesFollowFile ==
    clients = "patient" /\ Quiet /\ file \in Versions =>
        hcfg.ver = file /\ scfg.ver = file /\ entries.ver = file

(* When updates and edits come one at a time and have come to rest, the    *)
(* scheduler works from what the last one wrote ("config updated").        *)
SchedulerFollowsFile ==
    clients # "concurrent" /\ Quiet /\ file \in Versions => scfg.ver = file

(* At rest the API's builds and the scheduler's builds are announced on    *)
(* the same channels, unless updates overlapped.                           *)
NotifiersAgree == clients # "concurrent" /\ Quiet => hnotifier = snotifier

(* At rest h.cfg has the generated names a notification is sent with       *)
(* (NameRepo, NameImage: "generated" in their comments).                   *)
NamesGenerated == Quiet => hcfg.form = "loaded"

(* When /config/reload answers "config reloaded" and nothing else is under *)
(* way, the cron entries are those of the file too.                        *)
ReloadReachesEntries ==
    [][\A r \in Reloaders :
         /\ pc[r] = "setScheduler" /\ pc'[r] = "done"
         /\ pc[Watcher] = "idle" /\ events = 0
         => entries'.ver = file]_vars

=============================================================================
