------------------------------ MODULE Scheduler ------------------------------
(***************************************************************************)
(* internal/scheduler and the calls main and the API make of it.  Start,   *)
(* Restart, Stop and the setters hold s.mu, so each is one step; the       *)
(* functions cron calls hold nothing and read s.cfg and s.notifier at some *)
(* time after they were called.  A task is a run of                        *)
(* buildRepositoryTaskWithNotify: how it ends is BuildCall's matter.       *)
(*                                                                         *)
(* Configurations and notifiers are numbered in the order they were set.   *)
(***************************************************************************)
EXTENDS RepositoryEntries, Naturals, FiniteSets

CONSTANTS
    Tasks,          \* runs of a repository, one identity each
    None,
    MaxVersion,     \* bound: calls of SetConfig
    MaxNotifier,    \* bound: calls of SetNotifier
    MaxCron         \* bound: cron.Cron values made

Versions == 0 .. MaxVersion
Notifiers == 0 .. MaxNotifier
Config == [version : Versions, entries : Configs]

ASSUME SchedulerAssumption ==
    /\ MaxVersion \in Nat /\ MaxNotifier \in Nat /\ MaxCron \in Nat
    /\ None \notin Entries \cup Config \cup Notifiers

VARIABLES
    main,           \* what main() has come to
    cfg,            \* s.cfg, as set and the number of its setting
    notifier,       \* s.notifier, its number
    cron,           \* s.cronScheduler
    running,        \* the cron.Cron values whose run loop runs
    jobs,           \* jobs[g]: the entries of cron.Cron g
    madeFrom,       \* madeFrom[g]: the number of the configuration they are from
    watcher,        \* the callback of the watcher
    task            \* task[t]: one run of a repository

settings == <<cfg, notifier>>
crons == <<cron, running, jobs, madeFrom>>
vars == <<main, settings, crons, watcher, task>>

NoTask == [pc |-> "idle", entry |-> None, gen |-> 0, asked |-> 0,
           cfg |-> None, notifier |-> None]

(* "fired": cron called the function; "run": buildRepositoryTaskWithNotify *)
(* has its arguments.  asked: the number of s.cfg when it was fired.       *)
Task == [pc : {"idle", "fired", "run", "done"}, entry : Entries \cup {None},
         gen : Nat, asked : Versions,
         cfg : Config \cup {None}, notifier : Notifiers \cup {None}]

Typed ==
    /\ main \in {"setup", "serving", "stopped", "exited"}
    /\ cfg \in Config
    /\ notifier \in Notifiers
    /\ cron \in Nat \ {0}
    /\ running \subseteq 1 .. cron
    /\ jobs \in [1 .. cron -> SUBSET Entries]
    /\ madeFrom \in [1 .. cron -> Versions]
    /\ watcher \in {"idle", "set"}
    /\ task \in [Tasks -> Task]

BuildsHaveArguments ==
    \A t \in Tasks : task[t].pc \in {"run", "done"} =>
        task[t].cfg # None /\ task[t].notifier # None

TypeOK == Typed /\ BuildsHaveArguments

(* NewScheduler, SetConfig, SetClients and SetNotifier, before anyone else *)
(* knows of the scheduler.                                                 *)
Init ==
    /\ main = "setup"
    /\ \E c \in Configs : cfg = [version |-> 0, entries |-> c]
    /\ notifier = 0
    /\ cron = 1
    /\ running = {}
    /\ jobs = [g \in {1} |-> {}]
    /\ madeFrom = [g \in {1} |-> 0]
    /\ watcher = "idle"
    /\ task = [t \in Tasks |-> NoTask]

Idle == {t \in Tasks : task[t].pc = "idle"}

-----------------------------------------------------------------------------
(* The setters.                                                            *)

SetConfig(c) ==
    /\ cfg.version < MaxVersion
    /\ cfg' = [version |-> cfg.version + 1, entries |-> c]
    /\ UNCHANGED <<notifier, crons, task>>

SetNotifier ==
    /\ notifier < MaxNotifier
    /\ notifier' = notifier + 1
    /\ UNCHANGED <<main, cfg, crons, watcher, task>>

-----------------------------------------------------------------------------
(* Loading the list into cron.Cron g: a task for each entry without cron,  *)
(* all with the same arguments but their entry.                            *)

Assigned(S, who, E) ==
    /\ \A e \in E : \E t \in S : who[t] = e
    /\ \A t, u \in S : who[t] = who[u] => t = u

(* Mutant: main starts the scheduler before it sets the notifier.          *)
BegunBeforeNotifier(e, g) == [pc |-> "run", entry |-> e, gen |-> g, asked |-> cfg.version,
                              cfg |-> cfg, notifier |-> None]

Begun(e, g) == [pc |-> "run", entry |-> e, gen |-> g, asked |-> cfg.version,
                cfg |-> cfg, notifier |-> notifier]

BuildAtOnce(g) ==
    \E S \in SUBSET Idle : \E who \in [S -> Immediate(cfg.entries)] :
        /\ Assigned(S, who, Immediate(cfg.entries))
        /\ task' = [t \in Tasks |-> IF t \in S THEN Begun(who[t], g) ELSE task[t]]

Start ==
    /\ main = "setup"
    /\ main' = "serving"
    /\ BuildAtOnce(cron)
    /\ jobs' = [jobs EXCEPT ![cron] = Timed(cfg.entries)]
    /\ madeFrom' = [madeFrom EXCEPT ![cron] = cfg.version]
    /\ running' = running \cup {cron}
    /\ UNCHANGED <<settings, cron, watcher>>

NewCron(g) ==
    /\ g <= MaxCron
    /\ cron' = g
    /\ jobs' = [h \in 1 .. g |-> IF h = g THEN Timed(cfg.entries) ELSE jobs[h]]
    /\ madeFrom' = [h \in 1 .. g |-> IF h = g THEN cfg.version ELSE madeFrom[h]]

(* Mutant: the old cron.Cron is dropped without Stop.                      *)
RestartWithoutStop ==
    /\ NewCron(cron + 1)
    /\ running' = running \cup {cron + 1}
    /\ BuildAtOnce(cron + 1)
    /\ UNCHANGED <<main, settings>>

(* Mutant: the runs cron has fired are thrown away with it.                *)
RestartDropsFired ==
    /\ NewCron(cron + 1)
    /\ running' = (running \ {cron}) \cup {cron + 1}
    /\ Immediate(cfg.entries) = {}
    /\ task' = [t \in Tasks |-> IF task[t].pc = "fired" THEN NoTask ELSE task[t]]
    /\ UNCHANGED <<main, settings>>

Restart ==
    /\ NewCron(cron + 1)
    /\ running' = (running \ {cron}) \cup {cron + 1}
    /\ BuildAtOnce(cron + 1)
    /\ UNCHANGED <<main, settings>>

Stop ==
    /\ main = "serving"
    /\ main' = "stopped"
    /\ running' = running \ {cron}
    /\ UNCHANGED <<settings, cron, jobs, madeFrom, watcher, task>>

-----------------------------------------------------------------------------
(* The callers.                                                            *)

Serving == main \in {"serving", "stopped"}

(* The watcher's callback loaded the file.                                 *)
WatcherSetsConfig ==
    /\ Serving /\ watcher = "idle"
    /\ watcher' = "set"
    /\ \E c \in Configs : SetConfig(c)
    /\ UNCHANGED main

WatcherRestarts ==
    /\ Serving /\ watcher = "set"
    /\ watcher' = "idle"
    /\ Restart

(* /config/update and /config/reload (ConfigReload has the whole of them). *)
ApiSetsConfig ==
    /\ Serving
    /\ \E c \in Configs : SetConfig(c)
    /\ UNCHANGED <<main, watcher>>

ApiSetsNotifier == Serving /\ SetNotifier

(* main returns: nobody waits for the tasks.                               *)
Exit ==
    /\ main = "stopped"
    /\ main' = "exited"
    /\ UNCHANGED <<settings, crons, watcher, task>>

-----------------------------------------------------------------------------
(* The functions cron calls, and the tasks.                                *)

Alter(t, r) ==
    /\ task' = [task EXCEPT ![t] = r]
    /\ UNCHANGED <<main, settings, crons, watcher>>

Fired(e, g) == [pc |-> "fired", entry |-> e, gen |-> g, asked |-> cfg.version,
                cfg |-> None, notifier |-> None]

(* Mutant: the function captures the variable of the loop, which has moved *)
(* on to another entry (Go before 1.22).                                   *)
FireLast(t, g, e) ==
    /\ task[t].pc = "idle"
    /\ g \in running /\ e \in jobs[g]
    /\ \E last \in cfg.entries :
         Alter(t, Fired(last, g))

Fire(t, g, e) ==
    /\ task[t].pc = "idle"
    /\ g \in running /\ e \in jobs[g]
    /\ Alter(t, Fired(e, g))

(* Mutant: the function captures the configuration of its scheduling.      *)
ReadCapturedConfig(t) ==
    /\ task[t].pc = "fired" /\ task[t].cfg = None
    /\ Alter(t, [task[t] EXCEPT !.cfg = [version |-> madeFrom[task[t].gen],
                                         entries |-> cfg.entries]])

(* The arguments are read in no given order, without s.mu.                 *)
ReadConfig(t) ==
    /\ task[t].pc = "fired" /\ task[t].cfg = None
    /\ Alter(t, [task[t] EXCEPT !.cfg = cfg])

ReadNotifier(t) ==
    /\ task[t].pc = "fired" /\ task[t].notifier = None
    /\ Alter(t, [task[t] EXCEPT !.notifier = notifier])

Launch(t) ==
    /\ task[t].pc = "fired" /\ task[t].cfg # None /\ task[t].notifier # None
    /\ Alter(t, [task[t] EXCEPT !.pc = "run"])

Finish(t) ==
    /\ task[t].pc = "run"
    /\ Alter(t, [task[t] EXCEPT !.pc = "done"])

Begins(t) == ReadConfig(t) \/ ReadNotifier(t) \/ Launch(t)

TaskStep(t) == Begins(t) \/ Finish(t)

Next ==
    /\ main # "exited"
    /\ \/ Start \/ Stop \/ Exit
       \/ WatcherSetsConfig \/ WatcherRestarts
       \/ ApiSetsConfig \/ ApiSetsNotifier
       \/ \E t \in Tasks : \/ TaskStep(t)
                           \/ \E g \in running : \E e \in Entries : Fire(t, g, e)

Spec == Init /\ [][Next]_vars

(* The goroutine cron makes for a run gets to its build.  That the build   *)
(* ends is not assumed.                                                    *)
FairSpec == Spec /\ \A t \in Tasks : WF_vars(main # "exited" /\ Begins(t))

-----------------------------------------------------------------------------
(* One cron runs, the scheduler's own: whatever calls come in whatever     *)
(* order, no schedule that was replaced goes on firing beside the new one. *)
OneCronRuns == running \subseteq {cron}

(* A run is given a configuration no older than its firing, and no run an  *)
(* older one than its entry: credentials set without Restart reach the     *)
(* next run of every entry.                                                *)
RunsUseCurrentConfig ==
    \A t \in Tasks : task[t].cfg # None =>
        /\ task[t].asked <= task[t].cfg.version
        /\ madeFrom[task[t].gen] <= task[t].cfg.version

(* What the scheduler builds is what one schedule after the other says.    *)
Promise == INSTANCE Schedule WITH
    inForce <- UNION {jobs[g] : g \in running},
    job <- [t \in Tasks |-> task[t].entry]

ImplementsSchedule == Promise!Spec

(* A firing becomes a build, though the cron that fired it be replaced or  *)
(* stopped meanwhile and other builds never end, unless the process ends.  *)
FiringIsBuilt ==
    \A t \in Tasks :
        task[t].pc = "fired" ~> task[t].pc \in {"run", "done"} \/ main = "exited"

=============================================================================
