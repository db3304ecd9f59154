--------------------------- MODULE SchedulerProofs ---------------------------
(***************************************************************************)
(* Proofs about Scheduler, for any entries, configurations, tasks and      *)
(* bounds.                                                                 *)
(***************************************************************************)
EXTENDS Scheduler, TLAPS

(* Before Start nothing runs and no task has begun.                        *)
SetupIsQuiet == main = "setup" => running = {} /\ Idle = Tasks

(* A task that has not begun builds nothing.                               *)
IdleTasksAreEmpty == \A t \in Idle : task[t] = NoTask

(* No cron.Cron was made, and no task fired, from a configuration that is  *)
(* still to come.                                                          *)
VersionsGrow ==
    /\ \A g \in 1 .. cron : madeFrom[g] <= cfg.version
    /\ \A t \in Tasks \ Idle :
         /\ task[t].gen \in 1 .. cron
         /\ task[t].asked <= cfg.version

(* The inductive invariant.  RunsUseCurrentConfig needs VersionsGrow (the  *)
(* configuration a task reads is the newest), OneCronRuns stands alone,    *)
(* and the refinement needs the rest: a fresh task has no entry yet.       *)
Inv ==
    /\ Typed
    /\ OneCronRuns
    /\ SetupIsQuiet
    /\ IdleTasksAreEmpty
    /\ VersionsGrow
    /\ RunsUseCurrentConfig

-----------------------------------------------------------------------------
(* The operators the actions are built from.                               *)

LEMMA CronsAreNat == Typed => /\ cron \in Nat \ {0} /\ cron + 1 \in Nat \ {0}
                               /\ cron \in 1 .. cron /\ 1 .. cron \subseteq 1 .. (cron + 1)
BY DEF Typed

LEMMA TimedAreEntries == ASSUME NEW c \in Configs PROVE Timed(c) \subseteq Entries
BY EntriesAssumption DEF EntriesAssumption, Timed

LEMMA ImmediateAreEntries == ASSUME NEW c \in Configs PROVE Immediate(c) \subseteq Entries
BY EntriesAssumption DEF EntriesAssumption, Immediate

LEMMA NoTaskType == NoTask \in Task
BY SchedulerAssumption DEF SchedulerAssumption, NoTask, Task, Versions

LEMMA BegunType ==
    ASSUME Typed, NEW e \in Immediate(cfg.entries), NEW g \in Nat
    PROVE  Begun(e, g) \in Task
<1>1. cfg \in Config /\ cfg.version \in Versions /\ cfg.entries \in Configs
  BY DEF Typed, Config
<1>2. e \in Entries
  BY <1>1, ImmediateAreEntries
<1> QED
  BY <1>1, <1>2 DEF Begun, Task, Typed

(* The tasks BuildAtOnce begins, and the others.                           *)
LEMMA BuildAtOnceTasks ==
    ASSUME Typed, NEW g \in Nat, NEW S \in SUBSET Idle,
           NEW who \in [S -> Immediate(cfg.entries)],
           task' = [t \in Tasks |-> IF t \in S THEN Begun(who[t], g) ELSE task[t]]
    PROVE  /\ task' \in [Tasks -> Task]
           /\ \A t \in Tasks \ S : task'[t] = task[t]
           /\ \A t \in S : t \in Tasks /\ task'[t] = Begun(who[t], g)
<1>1. S \subseteq Tasks
  BY DEF Idle
<1>2. ASSUME NEW t \in S PROVE Begun(who[t], g) \in Task
  BY BegunType
<1>3. ASSUME NEW t \in Tasks \ S PROVE task[t] \in Task
  BY DEF Typed
<1> QED
  BY <1>1, <1>2, <1>3

LEMMA BegunFields ==
    ASSUME NEW e, NEW g
    PROVE  /\ Begun(e, g).pc = "run" /\ Begun(e, g).entry = e /\ Begun(e, g).gen = g
           /\ Begun(e, g).asked = cfg.version /\ Begun(e, g).cfg = cfg
BY DEF Begun

-----------------------------------------------------------------------------

LEMMA InitInv == Init => Inv
<1> SUFFICES ASSUME Init PROVE Inv
  OBVIOUS
<1>1. task = [t \in Tasks |-> NoTask] /\ NoTask.pc = "idle" /\ NoTask.cfg = None
  BY DEF Init, NoTask
<1>2. Typed
  BY <1>1, NoTaskType, SchedulerAssumption
     DEF Init, Typed, SchedulerAssumption, Config, Versions, Notifiers
<1>3. Idle = Tasks
  BY <1>1 DEF Idle
<1>4. SetupIsQuiet /\ IdleTasksAreEmpty /\ OneCronRuns /\ RunsUseCurrentConfig
  BY <1>1, <1>3 DEF Init, SetupIsQuiet, IdleTasksAreEmpty, OneCronRuns, RunsUseCurrentConfig
<1>5. VersionsGrow
  BY <1>3 DEF Init, VersionsGrow
<1> QED
  BY <1>2, <1>4, <1>5 DEF Inv

(* A new list is loaded into cron.Cron g, the tasks of BuildAtOnce begin.  *)
LEMMA LoadInv ==
    ASSUME Inv, NEW g \in Nat \ {0}, BuildAtOnce(g), UNCHANGED settings,
           g = cron' /\ cron' >= cron /\ running' = {g} /\ main' # "setup",
           jobs' \in [1 .. g -> SUBSET Entries], madeFrom' \in [1 .. g -> Versions],
           madeFrom'[g] = cfg.version,
           \A h \in 1 .. cron : madeFrom'[h] = madeFrom[h] \/ Idle = Tasks,
           \A h \in 1 .. g : madeFrom'[h] <= cfg.version,
           main' \in {"setup", "serving", "stopped", "exited"}, watcher' \in {"idle", "set"}
    PROVE  Inv'
<1> USE DEF Inv
<1>0. PICK S \in SUBSET Idle : \E who \in [S -> Immediate(cfg.entries)] :
        task' = [t \in Tasks |-> IF t \in S THEN Begun(who[t], g) ELSE task[t]]
  BY DEF BuildAtOnce
<1>9. PICK who \in [S -> Immediate(cfg.entries)] :
        task' = [t \in Tasks |-> IF t \in S THEN Begun(who[t], g) ELSE task[t]]
  BY <1>0
<1>1. /\ task' \in [Tasks -> Task]
      /\ \A t \in Tasks \ S : task'[t] = task[t]
      /\ \A t \in S : /\ task'[t].pc = "run" /\ task'[t].gen = g
                      /\ task'[t].asked = cfg.version /\ task'[t].cfg = cfg
  BY <1>9, BuildAtOnceTasks, BegunFields
<1>2. S \subseteq Tasks /\ cfg.version \in Nat /\ cron \in Nat /\ g \in 1 .. g
  BY SchedulerAssumption DEF Idle, Typed, Config, Versions
<1>3. Typed'
  BY <1>1 DEF Typed, settings
<1>4. Idle' = Idle \ S
  BY <1>1, <1>2 DEF Idle
<1>5. IdleTasksAreEmpty' /\ OneCronRuns' /\ SetupIsQuiet'
  BY <1>1, <1>2, <1>4 DEF IdleTasksAreEmpty, OneCronRuns, SetupIsQuiet, Idle
<1>6. VersionsGrow'
  <2>1. ASSUME NEW t \in Tasks, t \notin Idle'
        PROVE  task'[t].gen \in 1 .. g /\ task'[t].asked <= cfg.version
    BY <1>1, <1>2, <1>4, <2>1 DEF VersionsGrow
  <2> QED
    BY <2>1 DEF VersionsGrow, settings
<1>7. RunsUseCurrentConfig'
  <2> SUFFICES ASSUME NEW t \in Tasks, task'[t].cfg # None
               PROVE  /\ task'[t].asked <= task'[t].cfg.version
                      /\ madeFrom'[task'[t].gen] <= task'[t].cfg.version
    BY DEF RunsUseCurrentConfig
  <2>1. CASE t \in S
    BY <1>1, <1>2, <2>1
  <2>2. CASE t \notin S
    <3>1. task'[t] = task[t] /\ t \notin Idle
      BY <1>1, <2>2 DEF IdleTasksAreEmpty, NoTask
    <3>2. task[t].gen \in 1 .. cron
      BY <3>1 DEF VersionsGrow
    <3> QED
      BY <3>1, <3>2 DEF RunsUseCurrentConfig, Idle
  <2> QED
    BY <2>1, <2>2
<1> QED
  BY <1>3, <1>5, <1>6, <1>7

(* One task that has begun changes.                                        *)
LEMMA AlterInv ==
    ASSUME Inv, NEW t \in Tasks, NEW r \in Task, Alter(t, r),
           main # "setup", r.pc # "idle",
           r.gen \in 1 .. cron, r.asked <= cfg.version,
           r.cfg # None => r.asked <= r.cfg.version /\ madeFrom[r.gen] <= r.cfg.version
    PROVE  Inv'
<1> USE DEF Inv
<1>1. /\ UNCHANGED <<main, settings, crons, watcher>>
      /\ task' \in [Tasks -> Task] /\ task'[t] = r
      /\ \A u \in Tasks \ {t} : task'[u] = task[u]
  BY DEF Alter, Typed
<1>2. Typed' /\ OneCronRuns' /\ SetupIsQuiet'
  BY <1>1 DEF Typed, OneCronRuns, SetupIsQuiet, settings, crons
<1>3. Idle' = Idle \ {t}
  BY <1>1 DEF Idle
<1>4. IdleTasksAreEmpty'
  BY <1>1, <1>3 DEF IdleTasksAreEmpty, Idle
<1>5. VersionsGrow'
  BY <1>1, <1>3 DEF VersionsGrow, settings, crons
<1>6. RunsUseCurrentConfig'
  BY <1>1 DEF RunsUseCurrentConfig, crons
<1> QED
  BY <1>2, <1>4, <1>5, <1>6

LEMMA NextInv == Inv /\ [Next]_vars => Inv'
<1> SUFFICES ASSUME Inv, [Next]_vars PROVE Inv'
  OBVIOUS
<1> USE DEF Inv
<1>0. /\ cron \in Nat \ {0} /\ cron \in 1 .. cron /\ cfg.version \in Nat
      /\ cfg \in Config /\ cfg.entries \in Configs
  BY CronsAreNat, SchedulerAssumption DEF Typed, Config, Versions
<1>1. CASE Start
  <2>1. Timed(cfg.entries) \subseteq Entries
    BY <1>0, TimedAreEntries
  <2>2. /\ jobs' \in [1 .. cron -> SUBSET Entries]
        /\ madeFrom' \in [1 .. cron -> Versions] /\ madeFrom'[cron] = cfg.version
        /\ \A h \in 1 .. cron : madeFrom'[h] <= cfg.version
    BY <1>0, <1>1, <2>1 DEF Start, Typed, Config, VersionsGrow
  <2>3. Idle = Tasks /\ running' = {cron}
    BY <1>1 DEF Start, SetupIsQuiet
  <2> QED
    BY <1>0, <1>1, <2>2, <2>3, LoadInv DEF Start, Typed
<1>2. CASE WatcherRestarts
  <2> DEFINE g == cron + 1
  <2>1. Timed(cfg.entries) \subseteq Entries
    BY <1>0, TimedAreEntries
  <2>2. g \in Nat \ {0} /\ \A h \in 1 .. g : h = g \/ h \in 1 .. cron
    BY <1>0
  <2>3. /\ cron' = g /\ g >= cron
        /\ jobs' \in [1 .. g -> SUBSET Entries]
        /\ madeFrom' \in [1 .. g -> Versions]
    BY <1>0, <1>2, <2>1, <2>2 DEF WatcherRestarts, Restart, NewCron, Typed, Config
  <2>4. /\ madeFrom'[g] = cfg.version
        /\ \A h \in 1 .. cron : madeFrom'[h] = madeFrom[h]
        /\ \A h \in 1 .. g : madeFrom'[h] <= cfg.version
    BY <1>0, <1>2, <2>2 DEF WatcherRestarts, Restart, NewCron, VersionsGrow
  <2>5. running' = {g} /\ BuildAtOnce(g)
    BY <1>0, <1>2 DEF WatcherRestarts, Restart, OneCronRuns
  <2>6. main' = main /\ main # "setup" /\ UNCHANGED settings /\ watcher' = "idle"
    BY <1>2 DEF WatcherRestarts, Restart, Serving, settings
  <2> HIDE DEF g
  <2> QED
    BY <2>2, <2>3, <2>4, <2>5, <2>6, LoadInv DEF Typed
<1>3. CASE WatcherSetsConfig \/ ApiSetsConfig
  <2>1. /\ cfg' \in Config /\ cfg'.version = cfg.version + 1
        /\ main' = main /\ watcher' \in {"idle", "set"}
        /\ UNCHANGED <<notifier, crons, task>>
    BY <1>0, <1>3, SchedulerAssumption
       DEF WatcherSetsConfig, ApiSetsConfig, SetConfig, Typed, Config, Versions
  <2>2. Idle' = Idle /\ Typed' /\ OneCronRuns' /\ SetupIsQuiet' /\ IdleTasksAreEmpty'
    BY <2>1 DEF Idle, Typed, OneCronRuns, SetupIsQuiet, IdleTasksAreEmpty, crons
  <2>3. VersionsGrow'
    <3>1. ASSUME NEW g \in 1 .. cron PROVE madeFrom[g] <= cfg'.version
      BY <1>0, <2>1, SchedulerAssumption DEF VersionsGrow, Typed, Versions
    <3>2. ASSUME NEW t \in Tasks \ Idle
          PROVE  task[t].gen \in 1 .. cron /\ task[t].asked <= cfg'.version
      BY <1>0, <2>1, SchedulerAssumption DEF VersionsGrow, Typed, Task, Versions
    <3> QED
      BY <2>1, <2>2, <3>1, <3>2 DEF VersionsGrow, crons
  <2>4. RunsUseCurrentConfig'
    BY <2>1 DEF RunsUseCurrentConfig, crons
  <2> QED
    BY <2>2, <2>3, <2>4
<1>4. CASE Stop
  BY <1>4 DEF Stop, settings, Typed, OneCronRuns, SetupIsQuiet, IdleTasksAreEmpty,
     VersionsGrow, RunsUseCurrentConfig, Idle
<1>5. CASE Exit \/ ApiSetsNotifier \/ UNCHANGED vars
  <2>1. /\ notifier' \in Notifiers /\ main' \in {main, "exited"}
        /\ UNCHANGED <<cfg, crons, watcher, task>>
    BY <1>5, SchedulerAssumption
       DEF Exit, ApiSetsNotifier, SetNotifier, vars, settings, Typed, Notifiers
  <2> QED
    BY <2>1 DEF crons, Typed, OneCronRuns, SetupIsQuiet, IdleTasksAreEmpty,
       VersionsGrow, RunsUseCurrentConfig, Idle
<1>6. ASSUME NEW t \in Tasks, NEW g \in running, NEW e \in Entries, Fire(t, g, e)
      PROVE  Inv'
  <2>1. /\ Fired(e, g).pc = "fired" /\ Fired(e, g).gen = g
        /\ Fired(e, g).asked = cfg.version /\ Fired(e, g).cfg = None
    BY DEF Fired
  <2>2. g \in 1 .. cron /\ g \in Nat /\ cfg.version \in Versions
    BY <1>0 DEF Typed, Config
  <2>3. Fired(e, g) \in Task
    BY <2>2 DEF Fired, Task
  <2>4. Alter(t, Fired(e, g))
    BY <1>6 DEF Fire
  <2>5. main # "setup"
    BY <1>6 DEF SetupIsQuiet
  <2> QED
    BY <1>0, <2>1, <2>2, <2>3, <2>4, <2>5, AlterInv
<1>7. ASSUME NEW t \in Tasks, TaskStep(t) PROVE Inv'
  <2>1. task[t].pc \in {"fired", "run"} /\ task[t] \in Task /\ t \notin Idle
    BY <1>7 DEF TaskStep, Begins, ReadConfig, ReadNotifier, Launch, Finish, Typed, Idle
  <2>2. main # "setup" /\ task[t].gen \in 1 .. cron /\ task[t].asked <= cfg.version
    BY <2>1 DEF SetupIsQuiet, VersionsGrow
  <2>3. PICK r : Alter(t, r) /\ r \in Task /\ r.pc \in {"fired", "run", "done"}
                 /\ r.gen = task[t].gen /\ r.asked = task[t].asked
                 /\ r.cfg \in {task[t].cfg, cfg}
    <3>1. CASE ReadConfig(t)
      <4>1. [task[t] EXCEPT !.cfg = cfg] \in Task
        BY <1>0, <2>1 DEF Task
      <4> QED
        BY <2>1, <3>1, <4>1 DEF ReadConfig, Task
    <3>2. CASE ReadNotifier(t)
      <4>1. [task[t] EXCEPT !.notifier = notifier] \in Task
        BY <2>1 DEF Task, Typed
      <4> QED
        BY <2>1, <3>2, <4>1 DEF ReadNotifier, Task
    <3>3. CASE Launch(t)
      <4>1. [task[t] EXCEPT !.pc = "run"] \in Task
        BY <2>1 DEF Task
      <4> QED
        BY <2>1, <3>3, <4>1 DEF Launch, Task
    <3>4. CASE Finish(t)
      <4>1. [task[t] EXCEPT !.pc = "done"] \in Task
        BY <2>1 DEF Task
      <4> QED
        BY <2>1, <3>4, <4>1 DEF Finish, Task
    <3> QED
      BY <1>7, <3>1, <3>2, <3>3, <3>4 DEF TaskStep, Begins
  <2>4. r.cfg # None => r.asked <= r.cfg.version /\ madeFrom[r.gen] <= r.cfg.version
    BY <2>1, <2>2, <2>3 DEF VersionsGrow, RunsUseCurrentConfig
  <2> QED
    BY <2>2, <2>3, <2>4, AlterInv
<1> QED
  BY <1>1, <1>2, <1>3, <1>4, <1>5, <1>6, <1>7 DEF Next

-----------------------------------------------------------------------------

LEMMA Invariance == Spec => []Inv
<1>1. Init => Inv
  BY InitInv
<1>2. Inv /\ [Next]_vars => Inv'
  BY NextInv
<1> QED
  BY <1>1, <1>2, PTL DEF Spec

LEMMA ArgumentsInit == Init => BuildsHaveArguments
<1> SUFFICES ASSUME Init, NEW t \in Tasks PROVE task[t].pc \notin {"run", "done"}
  BY DEF BuildsHaveArguments
<1> QED
  BY DEF Init, NoTask

(* A build's arguments are read before it is launched, or with s.mu held   *)
(* where it begins at once.                                                *)
LEMMA ArgumentsStep ==
    ASSUME Inv, BuildsHaveArguments, [Next]_vars
    PROVE  BuildsHaveArguments'
<1> USE DEF Inv
<1>0. cfg # None /\ notifier # None
  BY SchedulerAssumption DEF Typed
<1>1. ASSUME NEW g, BuildAtOnce(g) PROVE BuildsHaveArguments'
  <2>1. PICK S \in SUBSET Idle : \E who \in [S -> Immediate(cfg.entries)] :
               task' = [t \in Tasks |-> IF t \in S THEN Begun(who[t], g) ELSE task[t]]
    BY <1>1 DEF BuildAtOnce
  <2>2. PICK who \in [S -> Immediate(cfg.entries)] :
               task' = [t \in Tasks |-> IF t \in S THEN Begun(who[t], g) ELSE task[t]]
    BY <2>1
  <2>3. ASSUME NEW t \in Tasks, task'[t].pc \in {"run", "done"}
        PROVE  task'[t].cfg # None /\ task'[t].notifier # None
    <3>1. CASE t \in S
      BY <1>0, <2>2, <3>1 DEF Begun
    <3>2. CASE t \notin S
      BY <2>2, <2>3, <3>2 DEF BuildsHaveArguments
    <3> QED
      BY <3>1, <3>2
  <2> QED
    BY <2>3 DEF BuildsHaveArguments
<1>2. ASSUME NEW t \in Tasks, NEW r, Alter(t, r),
             r.pc \in {"run", "done"} => r.cfg # None /\ r.notifier # None
      PROVE  BuildsHaveArguments'
  BY <1>2 DEF Alter, Typed, BuildsHaveArguments
<1>3. CASE Start \/ WatcherRestarts
  BY <1>1, <1>3 DEF Start, WatcherRestarts, Restart
<1>4. ASSUME NEW t \in Tasks, NEW g, NEW e, Fire(t, g, e) PROVE BuildsHaveArguments'
  BY <1>2, <1>4 DEF Fire, Fired
<1>5. ASSUME NEW t \in Tasks, TaskStep(t) PROVE BuildsHaveArguments'
  <2>0. task[t] \in Task
    BY DEF Typed
  <2>1. CASE ReadConfig(t)
    BY <1>2, <2>0, <2>1 DEF ReadConfig, Task
  <2>2. CASE ReadNotifier(t)
    BY <1>2, <2>0, <2>2 DEF ReadNotifier, Task
  <2>3. CASE Launch(t)
    BY <1>2, <2>0, <2>3 DEF Launch, Task
  <2>4. CASE Finish(t)
    BY <1>2, <2>0, <2>4 DEF Finish, Task, BuildsHaveArguments
  <2> QED
    BY <1>5, <2>1, <2>2, <2>3, <2>4 DEF TaskStep, Begins
<1>6. CASE task' = task
  BY <1>6 DEF BuildsHaveArguments
<1> QED
  BY <1>3, <1>4, <1>5, <1>6
     DEF Next, vars, Stop, Exit, WatcherSetsConfig, ApiSetsConfig, SetConfig, ApiSetsNotifier,
         SetNotifier

(* The scheduler's variables keep their types, and no build runs without   *)
(* the configuration and the notifier it was to be given.                  *)
THEOREM TypeCorrect == Spec => []TypeOK
<1>1. Inv /\ BuildsHaveArguments => TypeOK
  BY DEF Inv, TypeOK
<1>2. Inv /\ BuildsHaveArguments /\ [Next]_vars => BuildsHaveArguments'
  BY ArgumentsStep
<1> QED
  BY <1>1, <1>2, ArgumentsInit, Invariance, PTL DEF Spec

(* Start and Restart never leave two crons running, however the watcher,   *)
(* the API and the shutdown interleave.                                    *)
THEOREM OneCron == Spec => []OneCronRuns
<1>1. Inv => OneCronRuns
  BY DEF Inv
<1> QED
  BY <1>1, Invariance, PTL

(* The arguments cron's functions read without s.mu are never older than   *)
(* the firing or the schedule.                                             *)
THEOREM CurrentConfig == Spec => []RunsUseCurrentConfig
<1>1. Inv => RunsUseCurrentConfig
  BY DEF Inv
<1> QED
  BY <1>1, Invariance, PTL

-----------------------------------------------------------------------------
(* Scheduler implements Schedule.                                          *)

JobOf == [t \in Tasks |-> task[t].entry]
InForce == UNION {jobs[g] : g \in running}

LEMMA SameLists ==
    ASSUME NEW c
    PROVE  Promise!Timed(c) = Timed(c) /\ Promise!Immediate(c) = Immediate(c)
BY DEF Timed, Immediate, Eligible, Promise!Timed, Promise!Immediate, Promise!Eligible

LEMMA InitPromise == Init => Promise!Init
<1> SUFFICES ASSUME Init PROVE Promise!Init
  OBVIOUS
<1>1. UNION {jobs[g] : g \in running} = {}
  BY DEF Init
<1>2. [t \in Tasks |-> task[t].entry] = [t \in Tasks |-> None]
  BY DEF Init, NoTask
<1> QED
  BY <1>1, <1>2 DEF Promise!Init

(* Loading a list into cron.Cron g puts it in force.                       *)
LEMMA LoadReplaces ==
    ASSUME Inv, NEW g \in Nat, BuildAtOnce(g), running' = {g},
           jobs'[g] = Timed(cfg.entries)
    PROVE  Promise!Next
<1> USE DEF Inv
<1>0. PICK c \in Configs : c = cfg.entries
  BY DEF Typed, Config
<1>1. PICK S \in SUBSET Idle : \E who \in [S -> Immediate(c)] :
        /\ Assigned(S, who, Immediate(c))
        /\ task' = [t \in Tasks |-> IF t \in S THEN Begun(who[t], g) ELSE task[t]]
  BY <1>0 DEF BuildAtOnce
<1>2. PICK who \in [S -> Immediate(c)] :
        /\ Assigned(S, who, Immediate(c))
        /\ task' = [t \in Tasks |-> IF t \in S THEN Begun(who[t], g) ELSE task[t]]
  BY <1>1
<1>3. S \in SUBSET Tasks
  BY DEF Idle
<1>4. ASSUME NEW t \in Tasks
      PROVE  task'[t].entry = IF t \in S THEN who[t] ELSE JobOf[t]
  BY <1>2, BegunFields DEF JobOf
<1>5. JobOf' = [t \in Tasks |-> IF t \in S THEN who[t] ELSE JobOf[t]]
  BY <1>4 DEF JobOf
<1>6. \A t \in S : JobOf[t] = None
  BY <1>3 DEF IdleTasksAreEmpty, NoTask, JobOf
<1>7. InForce' = Timed(c)
  BY <1>0 DEF InForce
<1>8. Promise!Assigned(S, who, Immediate(c))
  BY <1>2, <1>6 DEF Assigned, Promise!Assigned, JobOf
<1>9. Promise!Replace(c)
  <2>1. \E T \in SUBSET Tasks : \E w \in [T -> Immediate(c)] :
          /\ Promise!Assigned(T, w, Immediate(c))
          /\ JobOf' = [t \in Tasks |-> IF t \in T THEN w[t] ELSE JobOf[t]]
    <3> WITNESS S \in SUBSET Tasks
    <3> WITNESS who \in [S -> Immediate(c)]
    <3> QED
      BY <1>5, <1>8
  <2> QED
    BY <1>7, <2>1, SameLists DEF Promise!Replace, JobOf, InForce
<1> QED
  BY <1>0, <1>9 DEF Promise!Next

LEMMA NextPromise ==
    Inv /\ [Next]_vars
      => [Promise!Next]_<<UNION {jobs[g] : g \in running}, [t \in Tasks |-> task[t].entry]>>
<1> SUFFICES ASSUME Inv, [Next]_vars
             PROVE  Promise!Next \/ (InForce' = InForce /\ JobOf' = JobOf)
  BY DEF InForce, JobOf
<1> USE DEF Inv
<1>0. cron \in Nat /\ cron \in 1 .. cron
  BY CronsAreNat DEF Typed
<1>1. CASE Start
  <2>1. running' = {cron} /\ jobs'[cron] = Timed(cfg.entries)
    BY <1>0, <1>1 DEF Start, SetupIsQuiet, Typed
  <2> QED
    BY <1>0, <1>1, <2>1, LoadReplaces DEF Start
<1>2. CASE WatcherRestarts
  <2> DEFINE g == cron + 1
  <2>1. g \in Nat /\ g \in 1 .. g
    BY <1>0
  <2>2. running' = {g} /\ jobs'[g] = Timed(cfg.entries) /\ BuildAtOnce(g)
    BY <1>2, <2>1 DEF WatcherRestarts, Restart, NewCron, OneCronRuns
  <2> HIDE DEF g
  <2> QED
    BY <2>1, <2>2, LoadReplaces
<1>3. CASE Stop
  <2>1. running' = {} /\ UNCHANGED task
    BY <1>3 DEF Stop, OneCronRuns
  <2>2. Promise!Halt
    BY <2>1 DEF Promise!Halt
  <2> QED
    BY <2>2 DEF Promise!Next
<1>4. CASE WatcherSetsConfig \/ ApiSetsConfig \/ ApiSetsNotifier \/ Exit \/ UNCHANGED vars
  <2>1. UNCHANGED <<running, jobs, task>>
    BY <1>4 DEF WatcherSetsConfig, ApiSetsConfig, SetConfig, ApiSetsNotifier,
       SetNotifier, Exit, vars, crons
  <2> QED
    BY <2>1 DEF InForce, JobOf
<1>5. ASSUME NEW t \in Tasks, NEW g \in running, NEW e \in Entries, Fire(t, g, e)
      PROVE  Promise!Next
  <2>1. /\ task' = [task EXCEPT ![t] = Fired(e, g)] /\ UNCHANGED <<running, jobs>>
        /\ e \in jobs[g] /\ t \in Idle
    BY <1>5 DEF Fire, Alter, crons, Idle
  <2>2. e \in InForce /\ InForce' = InForce
    BY <2>1 DEF InForce
  <2>3. JobOf[t] = None /\ JobOf' = [JobOf EXCEPT ![t] = e]
    <3>1. \A u \in Tasks : task'[u].entry = IF u = t THEN e ELSE task[u].entry
      BY <2>1 DEF Fired, Typed
    <3>2. task[t].entry = None
      BY <2>1 DEF IdleTasksAreEmpty, NoTask
    <3> QED
      BY <3>1, <3>2 DEF JobOf
  <2>4. Promise!Fire(t, e)
    BY <2>2, <2>3 DEF Promise!Fire, InForce, JobOf
  <2> QED
    BY <2>4 DEF Promise!Next
<1>6. ASSUME NEW t \in Tasks, TaskStep(t)
      PROVE  InForce' = InForce /\ JobOf' = JobOf
  <2>1. task[t] \in Task
    BY DEF Typed
  <2>2. PICK r : Alter(t, r) /\ r.entry = task[t].entry
    <3>1. CASE ReadConfig(t)
      BY <2>1, <3>1 DEF ReadConfig, Task
    <3>2. CASE ReadNotifier(t)
      BY <2>1, <3>2 DEF ReadNotifier, Task
    <3>3. CASE Launch(t)
      BY <2>1, <3>3 DEF Launch, Task
    <3>4. CASE Finish(t)
      BY <2>1, <3>4 DEF Finish, Task
    <3> QED
      BY <1>6, <3>1, <3>2, <3>3, <3>4 DEF TaskStep, Begins
  <2> QED
    BY <2>2 DEF Alter, crons, InForce, JobOf, Typed
<1> QED
  BY <1>1, <1>2, <1>3, <1>4, <1>5, <1>6 DEF Next

(* What the scheduler builds, over any sequence of reloads, is what one    *)
(* schedule after the other promises: nothing for an entry that is no      *)
(* longer listed, an entry without cron once for each loading.             *)
THEOREM Refinement == Spec => ImplementsSchedule
<1>1. Init => Promise!Init
  BY InitPromise
<1>2. Inv /\ [Next]_vars
        => [Promise!Next]_<<UNION {jobs[g] : g \in running}, [t \in Tasks |-> task[t].entry]>>
  BY NextPromise
<1> QED
  BY <1>1, <1>2, Invariance, PTL DEF Spec, ImplementsSchedule, Promise!Spec

-----------------------------------------------------------------------------
(* Which runs there are.                                                   *)

(* No cron waits for an entry that is disabled, has no git client, or has  *)
(* no time.                                                                *)
JobsAreTimed ==
    \A g \in 1 .. cron : \A e \in jobs[g] : Eligible(e) /\ e.cron = "valid"

(* Every run is of an entry the list of its cron gave a time, or of one    *)
(* that list had built at once.                                            *)
RunsAreListed ==
    \A t \in Tasks \ Idle :
        /\ Eligible(task[t].entry)
        /\ task[t].entry \in jobs[task[t].gen] \/ task[t].entry.cron = ""

(* Loading a list builds an entry without cron once, however many runs     *)
(* earlier and later loadings begin.                                       *)
AtOnceIsOnce ==
    \A t, u \in Tasks \ Idle :
        /\ task[t].entry.cron = ""
        /\ task[u].entry = task[t].entry
        /\ task[u].gen = task[t].gen
        => t = u

(* Inductive beside Inv, which says that a run's gen is one that was made: *)
(* a new cron cannot be confused with that of an earlier run.              *)
ListedInv == JobsAreTimed /\ RunsAreListed /\ AtOnceIsOnce

(* A run comes from the cron that runs, for an entry in force, or from the *)
(* loading of a list, with the arguments of the list's configuration.      *)
BeginsDue(t) ==
    \/ /\ task'[t].pc = "fired"
       /\ task'[t].gen = cron /\ cron \in running
       /\ task'[t].entry \in jobs[cron]
    \/ /\ task'[t].pc = "run"
       /\ task'[t].gen = cron' /\ running' = {cron'} /\ jobs'[cron'] = Timed(cfg.entries)
       /\ task'[t].entry \in Immediate(cfg.entries)
       /\ task'[t].cfg = cfg /\ task'[t].notifier = notifier

(* What a run was given stays as it was; its steps come in order.          *)
GoesOn(t) ==
    /\ task'[t].entry = task[t].entry /\ task'[t].gen = task[t].gen
    /\ task'[t].cfg = task[t].cfg \/ (task[t].cfg = None /\ task'[t].cfg = cfg)
    /\ \/ task'[t].notifier = task[t].notifier
       \/ task[t].notifier = None /\ task'[t].notifier = notifier
    /\ \/ task'[t].pc = task[t].pc
       \/ /\ task[t].pc = "fired" /\ task'[t].pc = "run"
          /\ task[t].cfg # None /\ task[t].notifier # None
       \/ task[t].pc = "run" /\ task'[t].pc = "done"

(* Runs begin when they are due and not otherwise: a scheduler that was    *)
(* stopped begins none, unless a later reload starts a new cron.           *)
RunsBeginWhenDue == [][\A t \in Idle : t \in Idle' \/ BeginsDue(t)]_vars

(* No reload, restart or stop drops a run under way, or changes what it    *)
(* builds.                                                                 *)
RunsAreLeftAlone == [][\A t \in Tasks \ Idle : GoesOn(t)]_vars

(* What a loading does to the tasks.                                       *)
LEMMA LoadedTasks ==
    ASSUME Inv, NEW g \in Nat, BuildAtOnce(g)
    PROVE  \E S \in SUBSET Idle :
             /\ \A t \in Tasks \ S : task'[t] = task[t]
             /\ \A t \in S : /\ task'[t].pc = "run" /\ task'[t].gen = g
                             /\ task'[t].entry \in Immediate(cfg.entries)
                             /\ task'[t].cfg = cfg /\ task'[t].notifier = notifier
             /\ \A t, u \in S : task'[t].entry = task'[u].entry => t = u
<1>0. PICK S \in SUBSET Idle : \E who \in [S -> Immediate(cfg.entries)] :
        /\ Assigned(S, who, Immediate(cfg.entries))
        /\ task' = [t \in Tasks |-> IF t \in S THEN Begun(who[t], g) ELSE task[t]]
  BY DEF BuildAtOnce
<1>1. PICK who \in [S -> Immediate(cfg.entries)] :
        /\ Assigned(S, who, Immediate(cfg.entries))
        /\ task' = [t \in Tasks |-> IF t \in S THEN Begun(who[t], g) ELSE task[t]]
  BY <1>0
<1>2. /\ \A t \in Tasks \ S : task'[t] = task[t]
      /\ \A t \in S : task'[t] = Begun(who[t], g)
  BY <1>1, BuildAtOnceTasks DEF Inv
<1>3. \A t \in S : /\ task'[t].pc = "run" /\ task'[t].gen = g /\ task'[t].entry = who[t]
                   /\ task'[t].cfg = cfg /\ task'[t].notifier = notifier
  <2> SUFFICES ASSUME NEW t \in S
               PROVE  /\ task'[t].pc = "run" /\ task'[t].gen = g /\ task'[t].entry = who[t]
                      /\ task'[t].cfg = cfg /\ task'[t].notifier = notifier
    OBVIOUS
  <2>1. task'[t] = Begun(who[t], g)
    BY <1>2
  <2>2. \A e : Begun(e, g).notifier = notifier
    BY DEF Begun
  <2> HIDE <1>2
  <2> QED
    BY <2>1, <2>2, BegunFields
<1>4. \A t, u \in S : who[t] = who[u] => t = u
  BY <1>1 DEF Assigned
<1>5. \A t \in S : who[t] \in Immediate(cfg.entries)
  BY <1>1
<1> QED
  BY <1>2, <1>3, <1>4, <1>5

(* The two loadings.                                                       *)
LEMMA Loadings ==
    ASSUME Inv, Start \/ WatcherRestarts
    PROVE  /\ cron' \in Nat /\ BuildAtOnce(cron') /\ running' = {cron'}
           /\ UNCHANGED settings
           /\ jobs'[cron'] = Timed(cfg.entries)
           /\ cron' \in 1 .. cron => Idle = Tasks
           /\ \A h \in 1 .. cron' : h # cron' => h \in 1 .. cron /\ jobs'[h] = jobs[h]
           /\ \A h \in 1 .. cron : Idle = Tasks \/ (h # cron' /\ h \in 1 .. cron' /\ jobs'[h] = jobs[h])
<1> USE DEF Inv
<1>0. cron \in Nat \ {0} /\ cron \in 1 .. cron
  BY CronsAreNat
<1>1. CASE Start
  BY <1>0, <1>1 DEF Start, SetupIsQuiet, Typed
<1>2. CASE WatcherRestarts
  <2> DEFINE g == cron + 1
  <2>1. g \in Nat /\ g \notin 1 .. cron
        /\ (\A h \in 1 .. g : h = g \/ h \in 1 .. cron)
        /\ (\A h \in 1 .. cron : h # g /\ h \in 1 .. g) /\ g \in 1 .. g
    BY <1>0
  <2>2. /\ cron' = g /\ BuildAtOnce(g) /\ running' = {g} /\ UNCHANGED settings
        /\ jobs' = [h \in 1 .. g |-> IF h = g THEN Timed(cfg.entries) ELSE jobs[h]]
    BY <1>2, <2>1 DEF WatcherRestarts, Restart, NewCron, OneCronRuns
  <2> HIDE DEF g
  <2> QED
    BY <2>1, <2>2
<1> QED
  BY <1>1, <1>2

(* The steps of a task that has begun.                                     *)
LEMMA TaskSteps ==
    ASSUME Inv, NEW t \in Tasks, TaskStep(t)
    PROVE  /\ UNCHANGED <<settings, crons>> /\ t \notin Idle /\ task'[t].pc # "idle"
           /\ GoesOn(t)
           /\ \A u \in Tasks \ {t} : task'[u] = task[u]
<1> USE DEF Inv
<1>0. task[t] \in Task /\ task[t].pc \in {"fired", "run"} /\ t \notin Idle
      /\ task \in [Tasks -> Task]
  BY DEF TaskStep, Begins, ReadConfig, ReadNotifier, Launch, Finish, Typed, Idle
<1>1. ASSUME NEW r, Alter(t, r)
      PROVE  /\ UNCHANGED <<settings, crons>> /\ task'[t] = r
             /\ \A u \in Tasks \ {t} : task'[u] = task[u]
  BY <1>0, <1>1 DEF Alter
<1>2. CASE ReadConfig(t)
  <2> DEFINE r == [task[t] EXCEPT !.cfg = cfg]
  <2>1. /\ r.entry = task[t].entry /\ r.gen = task[t].gen /\ r.pc = task[t].pc
        /\ r.notifier = task[t].notifier /\ r.cfg = cfg
    BY <1>0 DEF Task
  <2>2. Alter(t, r) /\ task[t].cfg = None
    BY <1>2 DEF ReadConfig
  <2> HIDE DEF r
  <2> QED
    BY <1>0, <1>1, <2>1, <2>2 DEF GoesOn
<1>3. CASE ReadNotifier(t)
  <2> DEFINE r == [task[t] EXCEPT !.notifier = notifier]
  <2>1. /\ r.entry = task[t].entry /\ r.gen = task[t].gen /\ r.pc = task[t].pc
        /\ r.notifier = notifier /\ r.cfg = task[t].cfg
    BY <1>0 DEF Task
  <2>2. Alter(t, r) /\ task[t].notifier = None
    BY <1>3 DEF ReadNotifier
  <2> HIDE DEF r
  <2> QED
    BY <1>0, <1>1, <2>1, <2>2 DEF GoesOn
<1>4. CASE Launch(t) \/ Finish(t)
  <2>1. PICK p \in {"run", "done"} :
          /\ Alter(t, [task[t] EXCEPT !.pc = p])
          /\ \/ task[t].pc = "fired" /\ p = "run" /\ task[t].cfg # None /\ task[t].notifier # None
             \/ task[t].pc = "run" /\ p = "done"
    BY <1>4 DEF Launch, Finish
  <2> DEFINE r == [task[t] EXCEPT !.pc = p]
  <2>2. /\ r.entry = task[t].entry /\ r.gen = task[t].gen /\ r.pc = p
        /\ r.notifier = task[t].notifier /\ r.cfg = task[t].cfg
    BY <1>0 DEF Task
  <2>3. Alter(t, r)
    BY <2>1
  <2> HIDE DEF r
  <2> QED
    BY <1>0, <1>1, <2>1, <2>2, <2>3 DEF GoesOn
<1> QED
  BY <1>2, <1>3, <1>4 DEF TaskStep, Begins

(* A firing.                                                               *)
LEMMA Firings ==
    ASSUME Inv, NEW t \in Tasks, NEW g \in running, NEW e \in Entries, Fire(t, g, e)
    PROVE  /\ UNCHANGED <<settings, crons>> /\ t \in Idle /\ task'[t].pc = "fired"
           /\ task'[t].gen = g /\ g = cron /\ task'[t].entry = e /\ e \in jobs[g]
           /\ \A u \in Tasks \ {t} : task'[u] = task[u]
BY DEF Inv, Fire, Alter, Fired, OneCronRuns, Typed, Idle

(* The steps that are none of these begin nothing and touch no run.        *)
LEMMA OtherSteps ==
    ASSUME [Next]_vars, ~Start, ~WatcherRestarts,
           ~\E t \in Tasks : TaskStep(t) \/ \E g \in running : \E e \in Entries : Fire(t, g, e)
    PROVE  UNCHANGED <<task, cron, jobs>>
BY DEF Next, Stop, Exit, WatcherSetsConfig, ApiSetsConfig, SetConfig, ApiSetsNotifier,
   SetNotifier, vars, crons

LEMMA ListedNext == Inv /\ ListedInv /\ [Next]_vars => ListedInv'
<1> SUFFICES ASSUME Inv, ListedInv, [Next]_vars PROVE ListedInv'
  OBVIOUS
<1>0. \A u \in Tasks : u \in Idle' <=> task'[u].pc = "idle"
  BY DEF Idle
<1>5. \A u \in Tasks : u \in Idle <=> task[u].pc = "idle"
  BY DEF Idle
<1>1. CASE Start \/ WatcherRestarts
  <2>1. PICK S \in SUBSET Idle :
             /\ \A t \in Tasks \ S : task'[t] = task[t]
             /\ \A t \in S : /\ task'[t].pc = "run" /\ task'[t].gen = cron'
                             /\ task'[t].entry \in Immediate(cfg.entries)
                             /\ task'[t].cfg = cfg /\ task'[t].notifier = notifier
             /\ \A t, u \in S : task'[t].entry = task'[u].entry => t = u
    BY <1>1, Loadings, LoadedTasks
  <2>2. ASSUME NEW t \in Tasks \ Idle', t \notin S
        PROVE  /\ task'[t] = task[t] /\ t \notin Idle /\ Idle # Tasks
               /\ task[t].gen \in 1 .. cron /\ task[t].gen # cron'
               /\ jobs'[task[t].gen] = jobs[task[t].gen]
    <3>1. task'[t] = task[t] /\ t \notin Idle /\ t \in Tasks
      BY <1>0, <1>5, <2>1, <2>2
    <3>2. task[t].gen \in 1 .. cron
      BY <3>1 DEF Inv, VersionsGrow
    <3> QED
      BY <1>1, <3>1, <3>2, Loadings
  <2>3. JobsAreTimed'
    <3> SUFFICES ASSUME NEW h \in 1 .. cron', NEW e \in jobs'[h]
                 PROVE  Eligible(e) /\ e.cron = "valid"
      BY DEF JobsAreTimed
    <3>1. CASE h = cron'
      BY <1>1, <3>1, Loadings DEF Timed
    <3>2. CASE h # cron'
      BY <1>1, <3>2, Loadings DEF ListedInv, JobsAreTimed
    <3> QED
      BY <3>1, <3>2
  <2>4. RunsAreListed'
    <3> SUFFICES ASSUME NEW t \in Tasks \ Idle'
                 PROVE  /\ Eligible(task'[t].entry)
                        /\ task'[t].entry \in jobs'[task'[t].gen] \/ task'[t].entry.cron = ""
      BY DEF RunsAreListed
    <3>1. CASE t \in S
      BY <2>1, <3>1 DEF Immediate
    <3>2. CASE t \notin S
      BY <2>2, <3>2 DEF ListedInv, RunsAreListed
    <3> QED
      BY <3>1, <3>2
  <2>5. AtOnceIsOnce'
    <3> SUFFICES ASSUME NEW t \in Tasks \ Idle', NEW u \in Tasks \ Idle',
                        task'[t].entry.cron = "", task'[u].entry = task'[t].entry,
                        task'[u].gen = task'[t].gen
                 PROVE  t = u
      BY DEF AtOnceIsOnce
    <3>1. CASE t \in S /\ u \in S
      BY <2>1, <3>1
    <3>2. CASE t \notin S /\ u \notin S
      BY <2>2, <3>2 DEF ListedInv, AtOnceIsOnce
    <3>3. ASSUME NEW a \in Tasks \ Idle', NEW b \in Tasks \ Idle', a \in S, b \notin S
          PROVE  task'[a].gen # task'[b].gen
      BY <2>1, <2>2, <3>3
    <3> QED
      BY <3>1, <3>2, <3>3
  <2> QED
    BY <2>3, <2>4, <2>5 DEF ListedInv
<1>2. ASSUME NEW t \in Tasks, NEW g \in running, NEW e \in Entries, Fire(t, g, e)
      PROVE  ListedInv'
  <2>1. /\ UNCHANGED <<settings, crons>> /\ t \in Idle /\ task'[t].pc = "fired"
        /\ task'[t].gen = g /\ g = cron /\ task'[t].entry = e /\ e \in jobs[g]
        /\ \A u \in Tasks \ {t} : task'[u] = task[u]
    BY <1>2, Firings
  <2>2. Eligible(e) /\ e.cron = "valid" /\ e.cron # ""
    BY <2>1, CronsAreNat DEF ListedInv, JobsAreTimed, Inv
  <2>3. \A u \in Tasks \ Idle' : u = t \/ (u \in Tasks \ Idle /\ task'[u] = task[u])
    BY <1>0, <1>5, <2>1
  <2>4. jobs' = jobs /\ cron' = cron
    BY <2>1 DEF crons
  <2>5. JobsAreTimed' /\ RunsAreListed'
    <3>1. JobsAreTimed'
      BY <2>4 DEF ListedInv, JobsAreTimed
    <3>2. ASSUME NEW u \in Tasks \ Idle'
          PROVE  /\ Eligible(task'[u].entry)
                 /\ task'[u].entry \in jobs'[task'[u].gen] \/ task'[u].entry.cron = ""
      <4>1. CASE u = t
        BY <2>1, <2>2, <2>4, <4>1
      <4>2. CASE u \in Tasks \ Idle /\ task'[u] = task[u]
        BY <2>4, <4>2 DEF ListedInv, RunsAreListed
      <4> QED
        BY <2>3, <4>1, <4>2
    <3> QED
      BY <3>1, <3>2 DEF RunsAreListed
  <2>6. AtOnceIsOnce'
    BY <2>1, <2>2, <2>3 DEF ListedInv, AtOnceIsOnce
  <2> QED
    BY <2>5, <2>6 DEF ListedInv
<1>3. ASSUME NEW t \in Tasks, TaskStep(t) PROVE ListedInv'
  <2>1. /\ jobs' = jobs /\ cron' = cron
        /\ \A u \in Tasks : task'[u].entry = task[u].entry /\ task'[u].gen = task[u].gen
        /\ \A u \in Tasks \ Idle' : u \in Tasks \ Idle
    BY <1>0, <1>5, <1>3, TaskSteps DEF GoesOn, crons
  <2> QED
    BY <2>1 DEF ListedInv, JobsAreTimed, RunsAreListed, AtOnceIsOnce
<1>4. CASE UNCHANGED <<task, cron, jobs>>
  BY <1>4 DEF ListedInv, JobsAreTimed, RunsAreListed, AtOnceIsOnce, Idle
<1> QED
  BY <1>1, <1>2, <1>3, <1>4, OtherSteps

LEMMA ListedInvariance == Spec => []ListedInv
<1>1. Init => ListedInv
  <2> SUFFICES ASSUME Init PROVE ListedInv
    OBVIOUS
  <2>1. Idle = Tasks
    BY InitInv DEF Inv, SetupIsQuiet, Init
  <2>2. \A g \in 1 .. cron : jobs[g] = {}
    BY DEF Init
  <2> QED
    BY <2>1, <2>2 DEF ListedInv, JobsAreTimed, RunsAreListed, AtOnceIsOnce
<1>2. Inv /\ ListedInv /\ [Next]_vars => ListedInv'
  BY ListedNext
<1> QED
  BY <1>1, <1>2, Invariance, PTL DEF Spec

(* What runs is what the lists have run: nothing that is disabled, without *)
(* a git client or malformed, and an entry without cron once a loading.    *)
THEOREM ListsAreObeyed == Spec => [](RunsAreListed /\ AtOnceIsOnce)
<1>1. ListedInv => RunsAreListed /\ AtOnceIsOnce
  BY DEF ListedInv
<1> QED
  BY <1>1, ListedInvariance, PTL

(* Runs begin by a firing of the cron in force or by the loading of a list *)
(* and in no other step: none between a Stop and the next cron.            *)
THEOREM NoRunUncalledFor == Spec => RunsBeginWhenDue
<1>1. ASSUME Inv, [Next]_vars PROVE \A t \in Idle : t \in Idle' \/ BeginsDue(t)
  <2> SUFFICES ASSUME NEW t \in Idle, t \notin Idle' PROVE BeginsDue(t)
    OBVIOUS
  <2>0. t \in Tasks /\ task'[t] # task[t]
    BY DEF Idle
  <2>1. CASE Start \/ WatcherRestarts
    BY <1>1, <2>0, <2>1, Loadings, LoadedTasks DEF BeginsDue
  <2>2. ASSUME NEW u \in Tasks, NEW g \in running, NEW e \in Entries, Fire(u, g, e)
        PROVE  BeginsDue(t)
    BY <1>1, <2>0, <2>2, Firings DEF BeginsDue
  <2>3. ASSUME NEW u \in Tasks, TaskStep(u) PROVE FALSE
    BY <1>1, <2>0, <2>3, TaskSteps
  <2> QED
    BY <1>1, <2>0, <2>1, <2>2, <2>3, OtherSteps
<1> QED
  BY <1>1, Invariance, PTL DEF Spec, RunsBeginWhenDue

(* A run goes on to its end with the entry, the configuration and the      *)
(* notifier it was given, whatever reloads and stops happen beside it.     *)
THEOREM RunsGoOn == Spec => RunsAreLeftAlone
<1>1. ASSUME Inv, [Next]_vars PROVE \A t \in Tasks \ Idle : GoesOn(t)
  <2> SUFFICES ASSUME NEW t \in Tasks \ Idle PROVE GoesOn(t)
    OBVIOUS
  <2>0. task'[t] = task[t] => GoesOn(t)
    BY DEF GoesOn
  <2>1. CASE Start \/ WatcherRestarts
    BY <1>1, <2>0, <2>1, Loadings, LoadedTasks
  <2>2. ASSUME NEW u \in Tasks, NEW g \in running, NEW e \in Entries, Fire(u, g, e)
        PROVE  task'[t] = task[t]
    BY <1>1, <2>2, Firings
  <2>3. ASSUME NEW u \in Tasks, TaskStep(u) PROVE GoesOn(t)
    BY <1>1, <2>0, <2>3, TaskSteps
  <2> QED
    BY <1>1, <2>0, <2>1, <2>2, <2>3, OtherSteps
<1> QED
  BY <1>1, Invariance, PTL DEF Spec, RunsAreLeftAlone

=============================================================================
