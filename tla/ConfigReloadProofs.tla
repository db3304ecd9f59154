------------------------- MODULE ConfigReloadProofs --------------------------
(***************************************************************************)
(* What clients that send one request at a time can rely on, for any       *)
(* number of requests, edits and versions, and however the watcher lags.   *)
(***************************************************************************)
EXTENDS ConfigReload, TLAPS

OneAtATime == clients # "concurrent"

Alone ==
    OneAtATime => \A r, s \in Requests : InProgress(r) /\ InProgress(s) => r = s

(* What the one request in progress knows of the file.                     *)
FileIsKnown ==
    OneAtATime =>
        /\ \A r \in Requests : pc[r] = "write" => file = Empty
        /\ \A u \in Updaters : pc[u] = "publish" => file = version[u]
        /\ \A r \in Reloaders : pc[r] = "publish" => held[r].ver = file

(* A watcher that holds an older version has the event of the newer one    *)
(* ahead of it ...                                                         *)
LastLoadIsFresh ==
    OneAtATime /\ file \in Versions /\ pc[Watcher] = "publish" =>
        held[Watcher].ver = file \/ events > 0

(* ... and while h.cfg is behind the file the watcher has work.            *)
HandlerCatchesUp ==
    OneAtATime /\ file \in Versions =>
        hcfg.ver = file \/ events > 0 \/ pc[Watcher] # "idle"

NotifiersCatchUp ==
    OneAtATime =>
        /\ \A u \in Updaters : pc[u] = "setSchedulerNotifier" => hnotifier = held[u].ver
        /\ hnotifier = snotifier \/ \E u \in Updaters : pc[u] = "setSchedulerNotifier"

(* Patient clients wait for the watcher, so a request that has yet to      *)
(* write the file finds it idle, and what the watcher has loaded stays     *)
(* what the file says until it has passed it on.                           *)
Patient == clients = "patient"

WatcherKeepsUp ==
    Patient =>
        /\ \A r \in Requests : pc[r] = "truncate" => pc[Watcher] = "idle" /\ events = 0
        /\ \A r \in Requests : pc[r] = "write" => pc[Watcher] \in {"idle", "load"}
        /\ pc[Watcher] \in {"setScheduler", "restart", "loadAgain", "publish"} =>
               held[Watcher].ver = file

RequestsAreCurrent ==
    Patient =>
        \A r \in Requests :
            /\ pc[r] = "readForScheduler" => hcfg.ver = file
            /\ pc[r] = "setScheduler" => held[r].ver = file

(* While s.cfg or the cron entries are behind the file, the watcher has an *)
(* event to take or is on its way to them.                                 *)
SchedulerCatchesUp ==
    Patient /\ file \in Versions =>
        scfg.ver = file \/ events > 0 \/ pc[Watcher] \in {"load", "setScheduler"}

EntriesCatchUp ==
    Patient /\ file \in Versions =>
        /\ pc[Watcher] = "restart" => scfg.ver = file
        /\ \/ entries.ver = file \/ events > 0
           \/ pc[Watcher] \in {"load", "setScheduler", "restart"}

Inv ==
    /\ TypeOK /\ Alone /\ FileIsKnown /\ LastLoadIsFresh
    /\ HandlerCatchesUp /\ NotifiersCatchUp
    /\ WatcherKeepsUp /\ RequestsAreCurrent /\ SchedulerCatchesUp /\ EntriesCatchUp

-----------------------------------------------------------------------------

LEMMA EventsGrow == TypeOK /\ Written => events' \in 0 .. MaxEvents /\ events' > 0
BY ReloadAssumption DEF Written, TypeOK

LEMMA TypeInit == Init => TypeOK
BY ReloadAssumption
   DEF Init, TypeOK, Contents, ConfigValues, Loaded, Steps, Actors, Requests

LEMMA LoadTypes ==
    ASSUME TypeOK, NEW a \in Actors, NEW from, NEW next \in Steps, NEW failed \in Steps,
           LoadConfig(a, from, next, failed), UNCHANGED clients
    PROVE  TypeOK'
<1>1. file # Empty => Loaded(file) \in ConfigValues
  BY DEF TypeOK, Contents, ConfigValues, Loaded
<1> QED
  BY <1>1 DEF LoadConfig, Goto, TypeOK, copies

LEMMA TypeStep ==
    ASSUME TypeOK, [Next]_vars
    PROVE  TypeOK'
<1> USE ReloadAssumption DEF TypeOK, Actors, Requests, copies
<1>1. ASSUME UNCHANGED clients, NEW r \in Updaters \cup Editors, NEW v \in Versions,
             \/ r \in Updaters /\ UpdateConfig(r, v)
             \/ r \in Editors /\ (EditInPlace(r, v) \/ ReplaceFile(r, v))
      PROVE  TypeOK'
  BY <1>1 DEF UpdateConfig, EditInPlace, ReplaceFile, Goto, Steps, Contents
<1>2. ASSUME UNCHANGED clients, NEW r \in Updaters \cup Editors, Truncate(r) PROVE TypeOK'
  BY <1>2, EventsGrow DEF Truncate, Goto, Steps, Contents
<1>3. ASSUME UNCHANGED clients, NEW r \in Updaters \cup Editors, NEW next \in Steps,
             WriteContent(r, next)
      PROVE  TypeOK'
  <2>1. file' \in Contents
    BY <1>3 DEF WriteContent, Contents
  <2> QED
    BY <1>3, <2>1, EventsGrow DEF WriteContent, Goto
<1>4. ASSUME UNCHANGED clients, NEW u \in Updaters, WriteFails(u) PROVE TypeOK'
  BY <1>4, EventsGrow DEF WriteFails, Goto, Steps, Contents
<1>5. ASSUME UNCHANGED clients, NEW u \in Updaters, PublishRaw(u) PROVE TypeOK'
  BY <1>5 DEF PublishRaw, Goto, Steps, Raw, ConfigValues
<1>6. ASSUME UNCHANGED clients, NEW r \in Requests, ReadForScheduler(r) \/ ReloadConfig(r)
      PROVE  TypeOK'
  BY <1>6 DEF ReadForScheduler, ReloadConfig, Goto, Steps
<1>7. ASSUME UNCHANGED clients, NEW a \in Actors, NEW next \in Steps,
             SetScheduler(a, next) \/ PublishLoaded(a, next)
      PROVE  TypeOK'
  BY <1>7 DEF SetScheduler, PublishLoaded, Goto
<1>8. ASSUME UNCHANGED clients, NEW u \in Updaters,
             ReadForNotifier(u) \/ SetNotifier(u) \/ SetSchedulerNotifier(u)
      PROVE  TypeOK'
  BY <1>8 DEF ReadForNotifier, SetNotifier, SetSchedulerNotifier, Goto, Steps, ConfigValues
<1>9. ASSUME UNCHANGED clients, TakeEvent \/ Restart PROVE TypeOK'
  BY <1>9 DEF TakeEvent, Restart, Goto, Steps
<1>10. CASE UNCHANGED vars
  BY <1>10 DEF vars
<1>11. {"publish", "done", "readForNotifier", "readForScheduler", "idle", "failed",
        "setScheduler", "restart"} \subseteq Steps
  BY DEF Steps
<1> QED
  BY <1>1, <1>2, <1>3, <1>4, <1>5, <1>6, <1>7, <1>8, <1>9, <1>10, <1>11, LoadTypes
     DEF Next, Updater, Reloader, Editor, Watch

LEMMA InvInit == Init => Inv
<1> SUFFICES ASSUME Init PROVE Inv
  OBVIOUS
<1>1. TypeOK
  BY TypeInit
<1>2. /\ \A a \in Actors : pc[a] = "idle" /\ ~InProgress(a)
      /\ hcfg.ver = file /\ scfg.ver = file /\ entries.ver = file
      /\ hnotifier = snotifier
  BY DEF Init, InProgress, Loaded
<1>3. Requests \subseteq Actors /\ Updaters \subseteq Actors /\ Reloaders \subseteq Actors
      /\ Watcher \in Actors
  BY DEF Requests, Actors
<1> QED
  BY <1>1, <1>2, <1>3
     DEF Inv, Alone, FileIsKnown, LastLoadIsFresh, HandlerCatchesUp, NotifiersCatchUp,
         WatcherKeepsUp, RequestsAreCurrent, SchedulerCatchesUp, EntriesCatchUp

-----------------------------------------------------------------------------
(* What a step of an actor that has begun leaves of the others.            *)

LEMMA AloneGoesOn ==
    ASSUME TypeOK, Alone, UNCHANGED clients,
           NEW a \in Actors, a = Watcher \/ InProgress(a), NEW to, pc' = [pc EXCEPT ![a] = to]
    PROVE  Alone'
<1> USE DEF TypeOK, Actors, Alone, OneAtATime, InProgress
<1>1. \A r \in Requests : InProgress(r)' => InProgress(r) 
  BY ReloadAssumption DEF Requests
<1> QED
  BY <1>1, Zenon

LEMMA AloneBegins ==
    ASSUME TypeOK, MayBegin, Alone, UNCHANGED clients,
           NEW a \in Requests, NEW to, pc' = [pc EXCEPT ![a] = to]
    PROVE  Alone'
<1> USE DEF TypeOK, Actors
<1>1. OneAtATime => \A r \in Requests : ~InProgress(r)
  BY ReloadAssumption DEF MayBegin, Quiet, OneAtATime
<1>2. \A r \in Requests : r # a => pc'[r] = pc[r]
  BY DEF Requests
<1> QED
  BY <1>1, <1>2 DEF Alone, OneAtATime, InProgress

LEMMA AloneStep ==
    ASSUME TypeOK, Alone, [Next]_vars
    PROVE  Alone'
<1> USE DEF Goto
<1>1. ASSUME UNCHANGED clients, NEW r \in Requests, NEW v,
             UpdateConfig(r, v) \/ EditInPlace(r, v) \/ ReplaceFile(r, v) \/ ReloadConfig(r)
      PROVE  Alone'
  BY <1>1, AloneBegins DEF UpdateConfig, EditInPlace, ReplaceFile, ReloadConfig
<1>2. ASSUME UNCHANGED clients, NEW u \in Updaters, Updater(u) PROVE Alone'
  BY <1>2, AloneGoesOn
     DEF Updater, Truncate, WriteContent, WriteFails, PublishRaw, ReadForScheduler, SetScheduler,
         ReadForNotifier, SetNotifier, SetSchedulerNotifier, InProgress, Actors, Requests
<1>3. ASSUME UNCHANGED clients, NEW r \in Reloaders, Reloader(r) PROVE Alone'
  BY <1>3, AloneGoesOn
     DEF Reloader, LoadConfig, PublishLoaded, ReadForScheduler, SetScheduler, InProgress,
         Actors, Requests
<1>4. ASSUME UNCHANGED clients, NEW e \in Editors, Editor(e) PROVE Alone'
  BY <1>4, AloneGoesOn DEF Editor, Truncate, WriteContent, InProgress, Actors, Requests
<1>5. ASSUME UNCHANGED clients, Watch PROVE Alone'
  BY <1>5, AloneGoesOn
     DEF Watch, TakeEvent, LoadConfig, SetScheduler, Restart, PublishLoaded, Actors
<1>6. CASE UNCHANGED vars
  BY <1>6 DEF vars, Alone, OneAtATime, InProgress
<1> QED
  BY <1>1, <1>2, <1>3, <1>4, <1>5, <1>6 DEF Next, Requests

LEMMA FileStep ==
    ASSUME TypeOK, Alone, FileIsKnown, [Next]_vars
    PROVE  FileIsKnown'
<1> USE ReloadAssumption
    DEF TypeOK, Alone, FileIsKnown, OneAtATime, InProgress, Goto, Actors, Requests, copies
<1>1. ASSUME UNCHANGED clients, NEW r \in Requests, NEW v,
             UpdateConfig(r, v) \/ EditInPlace(r, v) \/ ReplaceFile(r, v) \/ ReloadConfig(r)
      PROVE  FileIsKnown'
  BY <1>1 DEF UpdateConfig, EditInPlace, ReplaceFile, ReloadConfig
<1>2. ASSUME UNCHANGED clients, NEW r \in Updaters \cup Editors, Truncate(r)
      PROVE  FileIsKnown'
  BY <1>2 DEF Truncate
<1>3. ASSUME UNCHANGED clients, NEW r \in Updaters \cup Editors, NEW next \in {"publish", "done"},
             WriteContent(r, next)
      PROVE  FileIsKnown'
  BY <1>3 DEF WriteContent
<1>4. ASSUME UNCHANGED clients, NEW u \in Updaters, WriteFails(u) PROVE FileIsKnown'
  BY <1>4 DEF WriteFails
<1>5. ASSUME UNCHANGED clients, NEW u \in Updaters,
             PublishRaw(u) \/ SetNotifier(u) \/ SetSchedulerNotifier(u)
      PROVE  FileIsKnown'
  BY <1>5 DEF PublishRaw, SetNotifier, SetSchedulerNotifier
<1>6. ASSUME UNCHANGED clients, NEW r \in Requests,
             \/ ReadForScheduler(r)
             \/ r \in Updaters /\ ReadForNotifier(r)
             \/ r \in Reloaders /\ LoadConfig(r, "load", "publish", "failed")
      PROVE  FileIsKnown'
  BY <1>6 DEF ReadForScheduler, ReadForNotifier, LoadConfig, Loaded
<1>7. ASSUME UNCHANGED clients, NEW a \in Actors, NEW next \in {"readForNotifier", "done", "restart"},
             SetScheduler(a, next)
      PROVE  FileIsKnown'
  BY <1>7 DEF SetScheduler
<1>8. ASSUME UNCHANGED clients, NEW a \in Actors, NEW next \in {"readForScheduler", "idle"},
             PublishLoaded(a, next)
      PROVE  FileIsKnown'
  BY <1>8 DEF PublishLoaded
<1>9. ASSUME UNCHANGED clients,
             \/ TakeEvent \/ Restart
             \/ LoadConfig(Watcher, "load", "setScheduler", "idle")
             \/ LoadConfig(Watcher, "loadAgain", "publish", "idle")
      PROVE  FileIsKnown'
  BY <1>9 DEF TakeEvent, Restart, LoadConfig
<1>10. CASE UNCHANGED vars
  BY <1>10 DEF vars
<1> QED
  BY <1>1, <1>2, <1>3, <1>4, <1>5, <1>6, <1>7, <1>8, <1>9, <1>10
     DEF Next, Updater, Reloader, Editor, Watch

LEMMA LoadStep ==
    ASSUME TypeOK, FileIsKnown, LastLoadIsFresh, HandlerCatchesUp, [Next]_vars
    PROVE  LastLoadIsFresh' /\ HandlerCatchesUp'
<1> USE ReloadAssumption
    DEF TypeOK, FileIsKnown, LastLoadIsFresh, HandlerCatchesUp, OneAtATime, Goto, Actors,
        Requests, copies
<1> DEFINE Fresh == LastLoadIsFresh /\ HandlerCatchesUp
<1>1. ASSUME UNCHANGED clients, NEW r \in Requests, NEW v,
             UpdateConfig(r, v) \/ EditInPlace(r, v) \/ ReplaceFile(r, v) \/ ReloadConfig(r)
      PROVE  Fresh'
  BY <1>1 DEF UpdateConfig, EditInPlace, ReplaceFile, ReloadConfig
<1>2. ASSUME UNCHANGED clients, NEW r \in Updaters \cup Editors, Truncate(r)
      PROVE  Fresh'
  BY <1>2, EventsGrow DEF Truncate
<1>3. ASSUME UNCHANGED clients, NEW r \in Updaters \cup Editors, NEW next, WriteContent(r, next)
      PROVE  Fresh'
  BY <1>3, EventsGrow DEF WriteContent
<1>4. ASSUME UNCHANGED clients, NEW u \in Updaters, WriteFails(u) PROVE Fresh'
  BY <1>4, EventsGrow DEF WriteFails
<1>5. ASSUME UNCHANGED clients, NEW u \in Updaters,
             PublishRaw(u) \/ SetNotifier(u) \/ SetSchedulerNotifier(u)
      PROVE  Fresh'
  BY <1>5 DEF PublishRaw, SetNotifier, SetSchedulerNotifier, Raw
<1>6. ASSUME UNCHANGED clients, NEW r \in Requests,
             \/ ReadForScheduler(r)
             \/ r \in Updaters /\ ReadForNotifier(r)
             \/ r \in Reloaders /\ LoadConfig(r, "load", "publish", "failed")
      PROVE  Fresh'
  BY <1>6 DEF ReadForScheduler, ReadForNotifier, LoadConfig
<1>7. ASSUME UNCHANGED clients, NEW a \in Actors, NEW next \in {"readForNotifier", "done", "restart"},
             SetScheduler(a, next)
      PROVE  Fresh'
  BY <1>7 DEF SetScheduler
<1>8. ASSUME UNCHANGED clients, NEW r \in Reloaders, PublishLoaded(r, "readForScheduler")
      PROVE  Fresh'
  BY <1>8 DEF PublishLoaded
<1>9. ASSUME UNCHANGED clients, PublishLoaded(Watcher, "idle") PROVE Fresh'
  BY <1>9 DEF PublishLoaded
<1>10. ASSUME UNCHANGED clients,
              \/ TakeEvent \/ Restart
              \/ LoadConfig(Watcher, "load", "setScheduler", "idle")
              \/ LoadConfig(Watcher, "loadAgain", "publish", "idle")
       PROVE  Fresh'
  BY <1>10 DEF TakeEvent, Restart, LoadConfig, Loaded
<1>11. CASE UNCHANGED vars
  BY <1>11 DEF vars
<1> QED
  BY <1>1, <1>2, <1>3, <1>4, <1>5, <1>6, <1>7, <1>8, <1>9, <1>10, <1>11
     DEF Next, Updater, Reloader, Editor, Watch

LEMMA NotifierStep ==
    ASSUME TypeOK, Alone, NotifiersCatchUp, [Next]_vars
    PROVE  NotifiersCatchUp'
<1> USE ReloadAssumption
    DEF TypeOK, Alone, NotifiersCatchUp, OneAtATime, InProgress, Goto, Actors, Requests, copies
<1>1. ASSUME UNCHANGED clients, NEW r \in Requests, NEW v,
             UpdateConfig(r, v) \/ EditInPlace(r, v) \/ ReplaceFile(r, v) \/ ReloadConfig(r)
      PROVE  NotifiersCatchUp'
  BY <1>1 DEF UpdateConfig, EditInPlace, ReplaceFile, ReloadConfig
<1>2. ASSUME UNCHANGED clients, NEW r \in Updaters \cup Editors,
             \/ Truncate(r) \/ WriteContent(r, "publish") \/ WriteContent(r, "done")
             \/ WriteFails(r)
      PROVE  NotifiersCatchUp'
  BY <1>2 DEF Truncate, WriteContent, WriteFails
<1>3. ASSUME UNCHANGED clients, NEW r \in Requests,
             \/ ReadForScheduler(r)
             \/ r \in Updaters /\ (PublishRaw(r) \/ ReadForNotifier(r))
             \/ r \in Reloaders /\ LoadConfig(r, "load", "publish", "failed")
      PROVE  NotifiersCatchUp'
  BY <1>3 DEF ReadForScheduler, PublishRaw, ReadForNotifier, LoadConfig
<1>4. ASSUME UNCHANGED clients, NEW a \in Actors,
             NEW next \in {"readForNotifier", "done", "restart", "readForScheduler", "idle"},
             SetScheduler(a, next) \/ PublishLoaded(a, next)
      PROVE  NotifiersCatchUp'
  BY <1>4 DEF SetScheduler, PublishLoaded
<1>5. ASSUME UNCHANGED clients, NEW u \in Updaters, SetNotifier(u) PROVE NotifiersCatchUp'
  BY <1>5 DEF SetNotifier
<1>6. ASSUME UNCHANGED clients, NEW u \in Updaters, SetSchedulerNotifier(u)
      PROVE  NotifiersCatchUp'
  BY <1>6 DEF SetSchedulerNotifier
<1>7. ASSUME UNCHANGED clients,
             \/ TakeEvent \/ Restart
             \/ LoadConfig(Watcher, "load", "setScheduler", "idle")
             \/ LoadConfig(Watcher, "loadAgain", "publish", "idle")
      PROVE  NotifiersCatchUp'
  BY <1>7 DEF TakeEvent, Restart, LoadConfig
<1>8. CASE UNCHANGED vars
  BY <1>8 DEF vars
<1> QED
  BY <1>1, <1>2, <1>3, <1>4, <1>5, <1>6, <1>7, <1>8 DEF Next, Updater, Reloader, Editor, Watch

-----------------------------------------------------------------------------
(* With patient clients.                                                   *)

LEMMA WatcherStep ==
    ASSUME TypeOK, Alone, FileIsKnown, WatcherKeepsUp, [Next]_vars
    PROVE  WatcherKeepsUp'
<1> USE ReloadAssumption
    DEF TypeOK, Alone, FileIsKnown, WatcherKeepsUp, OneAtATime, Patient, InProgress, Goto, Actors,
        Requests, copies
<1>1. ASSUME UNCHANGED clients, NEW r \in Requests, NEW v,
             UpdateConfig(r, v) \/ EditInPlace(r, v) \/ ReplaceFile(r, v) \/ ReloadConfig(r)
      PROVE  WatcherKeepsUp'
  BY <1>1 DEF UpdateConfig, EditInPlace, ReplaceFile, ReloadConfig, MayBegin, Quiet
<1>2. ASSUME UNCHANGED clients, NEW r \in Updaters \cup Editors, Truncate(r)
      PROVE  WatcherKeepsUp'
  BY <1>2 DEF Truncate
<1>3. ASSUME UNCHANGED clients, NEW r \in Updaters \cup Editors, NEW next \in {"publish", "done"},
             WriteContent(r, next)
      PROVE  WatcherKeepsUp'
  BY <1>3 DEF WriteContent
<1>4. ASSUME UNCHANGED clients, NEW u \in Updaters, WriteFails(u) PROVE WatcherKeepsUp'
  BY <1>4 DEF WriteFails
<1>5. ASSUME UNCHANGED clients, NEW u \in Updaters,
             PublishRaw(u) \/ SetNotifier(u) \/ SetSchedulerNotifier(u)
      PROVE  WatcherKeepsUp'
  BY <1>5 DEF PublishRaw, SetNotifier, SetSchedulerNotifier
<1>6. ASSUME UNCHANGED clients, NEW r \in Requests,
             \/ ReadForScheduler(r)
             \/ r \in Updaters /\ ReadForNotifier(r)
             \/ r \in Reloaders /\ LoadConfig(r, "load", "publish", "failed")
      PROVE  WatcherKeepsUp'
  BY <1>6 DEF ReadForScheduler, ReadForNotifier, LoadConfig
<1>7. ASSUME UNCHANGED clients, NEW a \in Actors, NEW next \in {"readForNotifier", "done", "restart"},
             SetScheduler(a, next), a = Watcher <=> next = "restart"
      PROVE  WatcherKeepsUp'
  BY <1>7 DEF SetScheduler
<1>8. ASSUME UNCHANGED clients, NEW a \in Actors, NEW next \in {"readForScheduler", "idle"},
             PublishLoaded(a, next), a = Watcher <=> next = "idle"
      PROVE  WatcherKeepsUp'
  BY <1>8 DEF PublishLoaded
<1>9. ASSUME UNCHANGED clients, TakeEvent \/ Restart PROVE WatcherKeepsUp'
  BY <1>9 DEF TakeEvent, Restart
<1>10. ASSUME UNCHANGED clients, LoadConfig(Watcher, "load", "setScheduler", "idle")
       PROVE  WatcherKeepsUp'
  BY <1>10 DEF LoadConfig, Loaded
<1>11. ASSUME UNCHANGED clients, LoadConfig(Watcher, "loadAgain", "publish", "idle")
       PROVE  WatcherKeepsUp'
  BY <1>11 DEF LoadConfig, Loaded
<1>12. CASE UNCHANGED vars
  BY <1>12 DEF vars
<1> QED
  BY <1>1, <1>2, <1>3, <1>4, <1>5, <1>6, <1>7, <1>8, <1>9, <1>10, <1>11, <1>12
     DEF Next, Updater, Reloader, Editor, Watch

LEMMA RequestStep ==
    ASSUME TypeOK, Alone, FileIsKnown, WatcherKeepsUp, RequestsAreCurrent, [Next]_vars
    PROVE  RequestsAreCurrent'
<1> USE ReloadAssumption
    DEF TypeOK, Alone, FileIsKnown, RequestsAreCurrent, OneAtATime, Patient, InProgress, Goto,
        Actors, Requests, copies
<1>1. ASSUME UNCHANGED clients, NEW r \in Requests, NEW v,
             UpdateConfig(r, v) \/ EditInPlace(r, v) \/ ReplaceFile(r, v) \/ ReloadConfig(r)
      PROVE  RequestsAreCurrent'
  BY <1>1 DEF UpdateConfig, EditInPlace, ReplaceFile, ReloadConfig
<1>2. ASSUME UNCHANGED clients, NEW r \in Updaters \cup Editors,
             \/ Truncate(r) \/ WriteContent(r, "publish") \/ WriteContent(r, "done")
             \/ WriteFails(r)
      PROVE  RequestsAreCurrent'
  BY <1>2 DEF Truncate, WriteContent, WriteFails
<1>3. ASSUME UNCHANGED clients, NEW u \in Updaters,
             PublishRaw(u) \/ SetNotifier(u) \/ SetSchedulerNotifier(u)
      PROVE  RequestsAreCurrent'
  BY <1>3 DEF PublishRaw, SetNotifier, SetSchedulerNotifier, Raw
<1>4. ASSUME UNCHANGED clients, NEW r \in Requests,
             \/ ReadForScheduler(r)
             \/ r \in Updaters /\ ReadForNotifier(r)
             \/ r \in Reloaders /\ LoadConfig(r, "load", "publish", "failed")
      PROVE  RequestsAreCurrent'
  BY <1>4 DEF ReadForScheduler, ReadForNotifier, LoadConfig
<1>5. ASSUME UNCHANGED clients, NEW a \in Actors, NEW next \in {"readForNotifier", "done", "restart"},
             SetScheduler(a, next)
      PROVE  RequestsAreCurrent'
  BY <1>5 DEF SetScheduler
<1>6. ASSUME UNCHANGED clients, NEW r \in Reloaders, PublishLoaded(r, "readForScheduler")
      PROVE  RequestsAreCurrent'
  BY <1>6 DEF PublishLoaded
<1>7. ASSUME UNCHANGED clients, PublishLoaded(Watcher, "idle") PROVE RequestsAreCurrent'
  BY <1>7 DEF PublishLoaded, WatcherKeepsUp
<1>8. ASSUME UNCHANGED clients,
             \/ TakeEvent \/ Restart
             \/ LoadConfig(Watcher, "load", "setScheduler", "idle")
             \/ LoadConfig(Watcher, "loadAgain", "publish", "idle")
      PROVE  RequestsAreCurrent'
  BY <1>8 DEF TakeEvent, Restart, LoadConfig
<1>9. CASE UNCHANGED vars
  BY <1>9 DEF vars
<1> QED
  BY <1>1, <1>2, <1>3, <1>4, <1>5, <1>6, <1>7, <1>8, <1>9
     DEF Next, Updater, Reloader, Editor, Watch

LEMMA CatchUpStep ==
    ASSUME TypeOK, FileIsKnown, WatcherKeepsUp, RequestsAreCurrent,
           SchedulerCatchesUp, EntriesCatchUp, [Next]_vars
    PROVE  SchedulerCatchesUp' /\ EntriesCatchUp'
<1> USE ReloadAssumption
    DEF TypeOK, SchedulerCatchesUp, EntriesCatchUp, Patient, Goto, Actors, Requests, copies
<1> DEFINE CatchUp == SchedulerCatchesUp /\ EntriesCatchUp
<1>1. ASSUME UNCHANGED clients, NEW r \in Requests, NEW v,
             UpdateConfig(r, v) \/ EditInPlace(r, v) \/ ReplaceFile(r, v) \/ ReloadConfig(r)
      PROVE  CatchUp'
  BY <1>1 DEF UpdateConfig, EditInPlace, ReplaceFile, ReloadConfig
<1>2. ASSUME UNCHANGED clients, NEW r \in Updaters \cup Editors, Truncate(r)
      PROVE  CatchUp'
  BY <1>2, EventsGrow DEF Truncate, WatcherKeepsUp
<1>3. ASSUME UNCHANGED clients, NEW r \in Updaters \cup Editors, NEW next, WriteContent(r, next)
      PROVE  CatchUp'
  BY <1>3, EventsGrow DEF WriteContent, WatcherKeepsUp
<1>4. ASSUME UNCHANGED clients, NEW u \in Updaters, WriteFails(u) PROVE CatchUp'
  BY <1>4, EventsGrow DEF WriteFails, WatcherKeepsUp
<1>5. ASSUME UNCHANGED clients, NEW u \in Updaters,
             PublishRaw(u) \/ SetNotifier(u) \/ SetSchedulerNotifier(u)
      PROVE  CatchUp'
  BY <1>5 DEF PublishRaw, SetNotifier, SetSchedulerNotifier
<1>6. ASSUME UNCHANGED clients, NEW r \in Requests,
             \/ ReadForScheduler(r)
             \/ r \in Updaters /\ ReadForNotifier(r)
             \/ r \in Reloaders /\ LoadConfig(r, "load", "publish", "failed")
      PROVE  CatchUp'
  BY <1>6 DEF ReadForScheduler, ReadForNotifier, LoadConfig
<1>7. ASSUME UNCHANGED clients, NEW r \in Requests, NEW next \in {"readForNotifier", "done"},
             SetScheduler(r, next)
      PROVE  CatchUp'
  BY <1>7 DEF SetScheduler, RequestsAreCurrent
<1>8. ASSUME UNCHANGED clients, SetScheduler(Watcher, "restart") PROVE CatchUp'
  BY <1>8 DEF SetScheduler, WatcherKeepsUp
<1>9. ASSUME UNCHANGED clients, NEW a \in Actors, NEW next \in {"readForScheduler", "idle"},
             PublishLoaded(a, next)
      PROVE  CatchUp'
  BY <1>9 DEF PublishLoaded
<1>10. ASSUME UNCHANGED clients, TakeEvent \/ Restart PROVE CatchUp'
  BY <1>10 DEF TakeEvent, Restart
<1>11. ASSUME UNCHANGED clients,
              \/ LoadConfig(Watcher, "load", "setScheduler", "idle")
              \/ LoadConfig(Watcher, "loadAgain", "publish", "idle")
       PROVE  CatchUp'
  BY <1>11 DEF LoadConfig
<1>12. CASE UNCHANGED vars
  BY <1>12 DEF vars
<1> QED
  BY <1>1, <1>2, <1>3, <1>4, <1>5, <1>6, <1>7, <1>8, <1>9, <1>10, <1>11, <1>12
     DEF Next, Updater, Reloader, Editor, Watch

-----------------------------------------------------------------------------

LEMMA Invariance == Spec => []Inv
<1>1. Inv /\ [Next]_vars => Inv'
  BY TypeStep, AloneStep, FileStep, LoadStep, NotifierStep, WatcherStep, RequestStep, CatchUpStep
     DEF Inv
<1> QED
  BY InvInit, <1>1, PTL DEF Spec

(* The file, its copies and what the actors hold have their types: no copy *)
(* is ever made from a truncated file.                                     *)
THEOREM TypeCorrect == Spec => []TypeOK
<1>1. Inv => TypeOK
  BY DEF Inv
<1> QED
  BY <1>1, Invariance, PTL

(* Whoever waits for the answer to one request before sending the next     *)
(* finds h.cfg in agreement with the file once the watcher has come to     *)
(* rest.                                                                   *)
THEOREM HandlerIsCurrent == Spec => []HandlerFollowsFile
<1>1. Inv => HandlerFollowsFile
  BY DEF Inv, TypeOK, HandlerCatchesUp, OneAtATime, HandlerFollowsFile, Quiet
<1> QED
  BY <1>1, Invariance, PTL

(* ReloadNotifier leaves the API handler and the scheduler with managers   *)
(* made from the same configuration.                                       *)
THEOREM NotifiersAreOne == Spec => []NotifiersAgree
<1>1. Inv => NotifiersAgree
  BY DEF Inv, NotifiersCatchUp, OneAtATime, NotifiersAgree, Quiet, InProgress, Requests
<1> QED
  BY <1>1, Invariance, PTL

(* With clients that wait for the watcher too, the scheduler and its cron  *)
(* entries are made from what the file says.                               *)
THEOREM CopiesAreCurrent == Spec => []CopiesFollowFile
<1>1. Inv => CopiesFollowFile
  BY DEF Inv, TypeOK, HandlerCatchesUp, SchedulerCatchesUp, EntriesCatchUp, OneAtATime, Patient,
         CopiesFollowFile, Quiet
<1> QED
  BY <1>1, Invariance, PTL

-----------------------------------------------------------------------------
(* What an answer means to the client that waited for it.                  *)

AfterWrite == {"publish", "readForScheduler", "setScheduler", "readForNotifier",
               "setNotifier", "setSchedulerNotifier"}

(* An update of a patient client leaves its version in one copy after the  *)
(* other; the watcher, at work on the same file, takes none of them back.  *)
UpdatesTakeHold ==
    Patient => \A u \in Updaters :
        /\ pc[u] \in AfterWrite => file = version[u]
        /\ pc[u] \in AfterWrite \ {"publish"} => hcfg.ver = file
        /\ pc[u] \in {"readForNotifier", "setNotifier", "setSchedulerNotifier"} =>
               scfg.ver = file
        /\ pc[u] \in {"setScheduler", "setNotifier", "setSchedulerNotifier"} =>
               held[u].ver = file
        /\ pc[u] = "setSchedulerNotifier" => hnotifier = file

(* While a reload is the only request, h.cfg and what it hands on have the *)
(* generated names.                                                        *)
ReloadsTakeHold ==
    /\ held[Watcher].form = "loaded"
    /\ OneAtATime => \A r \in Reloaders :
         /\ pc[r] \in {"publish", "setScheduler"} => held[r].form = "loaded"
         /\ pc[r] \in {"readForScheduler", "setScheduler"} => hcfg.form = "loaded"

WriteFailed == \E u \in Updaters : pc[u] = "failed"

(* The file is empty only while somebody is about to write it, or for good *)
(* since that failed.                                                      *)
EmptyIsBeingWritten ==
    file = Empty => WriteFailed \/ \E r \in Updaters \cup Editors : pc[r] = "write"

(* Without overlapping writes parts of two versions come into the file and *)
(* its copies only by a write that failed half way.                        *)
NothingIsTorn ==
    OneAtATime /\ ~WriteFailed =>
        /\ Torn \notin {file, hcfg.ver, scfg.ver, entries.ver, hnotifier, snotifier}
        /\ \A a \in Actors : held[a].ver # Torn

AnswerInv ==
    /\ Inv
    /\ UpdatesTakeHold /\ ReloadsTakeHold
    /\ EmptyIsBeingWritten /\ NothingIsTorn

(* When /config answers "config updated" to a patient client, the file,    *)
(* the handler, the scheduler and both notification managers have what it  *)
(* posted; only the cron entries may have to wait for the watcher.         *)
UpdateTakesEffect ==
    [][\A u \in Updaters :
         pc[u] = "setSchedulerNotifier" /\ pc'[u] = "done" /\ Patient =>
             /\ file' = version[u]
             /\ hcfg'.ver = version[u] /\ scfg'.ver = version[u]
             /\ hnotifier' = version[u] /\ snotifier' = version[u]]_vars

(* When /config/reload answers "config reloaded" and requests come one at  *)
(* a time, the handler and the scheduler have a configuration with the     *)
(* generated names, whatever an update left there before; with a patient   *)
(* client the scheduler's is that of the file.                             *)
ReloadTakesEffect ==
    [][\A r \in Reloaders :
         pc[r] = "setScheduler" /\ pc'[r] = "done" /\ OneAtATime =>
             /\ hcfg'.form = "loaded" /\ scfg'.form = "loaded"
             /\ Patient => scfg'.ver = file]_vars

(* Only a failed write leaves a file that cannot be loaded: at rest it is  *)
(* otherwise not empty, and, unless requests overlapped, whole.            *)
RestsReadable ==
    Quiet /\ ~WriteFailed => /\ file # Empty
                             /\ OneAtATime => file \in Versions

LEMMA TakeHoldStep ==
    ASSUME TypeOK, Alone, FileIsKnown, WatcherKeepsUp, RequestsAreCurrent, UpdatesTakeHold,
           [Next]_vars
    PROVE  UpdatesTakeHold'
<1> USE ReloadAssumption
    DEF TypeOK, Alone, FileIsKnown, UpdatesTakeHold, AfterWrite, OneAtATime, Patient,
        InProgress, Goto, Actors, Requests, copies
<1>1. ASSUME UNCHANGED clients, NEW r \in Requests, NEW v,
             UpdateConfig(r, v) \/ EditInPlace(r, v) \/ ReplaceFile(r, v) \/ ReloadConfig(r)
      PROVE  UpdatesTakeHold'
  BY <1>1 DEF UpdateConfig, EditInPlace, ReplaceFile, ReloadConfig, MayBegin, Quiet
<1>2. ASSUME UNCHANGED clients, NEW r \in Updaters \cup Editors, Truncate(r)
      PROVE  UpdatesTakeHold'
  BY <1>2 DEF Truncate
<1>3. ASSUME UNCHANGED clients, NEW r \in Updaters \cup Editors, NEW next \in {"publish", "done"},
             WriteContent(r, next)
      PROVE  UpdatesTakeHold'
  BY <1>3 DEF WriteContent
<1>4. ASSUME UNCHANGED clients, NEW u \in Updaters, WriteFails(u) PROVE UpdatesTakeHold'
  BY <1>4 DEF WriteFails
<1>5. ASSUME UNCHANGED clients, NEW u \in Updaters,
             PublishRaw(u) \/ SetNotifier(u) \/ SetSchedulerNotifier(u)
      PROVE  UpdatesTakeHold'
  BY <1>5 DEF PublishRaw, SetNotifier, SetSchedulerNotifier, Raw
<1>6. ASSUME UNCHANGED clients, NEW r \in Requests,
             \/ ReadForScheduler(r)
             \/ r \in Updaters /\ ReadForNotifier(r)
             \/ r \in Reloaders /\ LoadConfig(r, "load", "publish", "failed")
      PROVE  UpdatesTakeHold'
  BY <1>6 DEF ReadForScheduler, ReadForNotifier, LoadConfig
<1>7. ASSUME UNCHANGED clients, NEW u \in Updaters, SetScheduler(u, "readForNotifier")
      PROVE  UpdatesTakeHold'
  BY <1>7 DEF SetScheduler
<1>8. ASSUME UNCHANGED clients, NEW r \in Reloaders,
             SetScheduler(r, "done") \/ PublishLoaded(r, "readForScheduler")
      PROVE  UpdatesTakeHold'
  BY <1>8 DEF SetScheduler, PublishLoaded
<1>9. ASSUME UNCHANGED clients, SetScheduler(Watcher, "restart") \/ PublishLoaded(Watcher, "idle")
      PROVE  UpdatesTakeHold'
  BY <1>9 DEF SetScheduler, PublishLoaded, WatcherKeepsUp
<1>10. ASSUME UNCHANGED clients,
              \/ TakeEvent \/ Restart
              \/ LoadConfig(Watcher, "load", "setScheduler", "idle")
              \/ LoadConfig(Watcher, "loadAgain", "publish", "idle")
       PROVE  UpdatesTakeHold'
  BY <1>10 DEF TakeEvent, Restart, LoadConfig
<1>11. CASE UNCHANGED vars
  BY <1>11 DEF vars
<1> QED
  BY <1>1, <1>2, <1>3, <1>4, <1>5, <1>6, <1>7, <1>8, <1>9, <1>10, <1>11
     DEF Next, Updater, Reloader, Editor, Watch

LEMMA ReloadHoldStep ==
    ASSUME TypeOK, Alone, ReloadsTakeHold, [Next]_vars
    PROVE  ReloadsTakeHold'
<1> USE ReloadAssumption
    DEF TypeOK, Alone, ReloadsTakeHold, OneAtATime, InProgress, Goto, Actors, Requests, copies
<1>1. ASSUME UNCHANGED clients, NEW r \in Requests, NEW v,
             UpdateConfig(r, v) \/ EditInPlace(r, v) \/ ReplaceFile(r, v) \/ ReloadConfig(r)
      PROVE  ReloadsTakeHold'
  BY <1>1 DEF UpdateConfig, EditInPlace, ReplaceFile, ReloadConfig
<1>2. ASSUME UNCHANGED clients, NEW r \in Updaters \cup Editors,
             \/ Truncate(r) \/ WriteContent(r, "publish") \/ WriteContent(r, "done")
             \/ r \in Updaters /\ WriteFails(r)
      PROVE  ReloadsTakeHold'
  BY <1>2 DEF Truncate, WriteContent, WriteFails
<1>3. ASSUME UNCHANGED clients, NEW u \in Updaters,
             \/ PublishRaw(u) \/ ReadForNotifier(u) \/ SetNotifier(u)
             \/ SetSchedulerNotifier(u)
      PROVE  ReloadsTakeHold'
  BY <1>3 DEF PublishRaw, ReadForNotifier, SetNotifier, SetSchedulerNotifier
<1>4. ASSUME UNCHANGED clients, NEW r \in Requests, ReadForScheduler(r)
      PROVE  ReloadsTakeHold'
  BY <1>4 DEF ReadForScheduler
<1>5. ASSUME UNCHANGED clients, NEW a \in Actors, NEW next \in {"readForNotifier", "done", "restart"},
             SetScheduler(a, next)
      PROVE  ReloadsTakeHold'
  BY <1>5 DEF SetScheduler
<1>6. ASSUME UNCHANGED clients, NEW r \in Reloaders,
             \/ LoadConfig(r, "load", "publish", "failed")
             \/ PublishLoaded(r, "readForScheduler")
      PROVE  ReloadsTakeHold'
  BY <1>6 DEF LoadConfig, PublishLoaded, Loaded
<1>7. ASSUME UNCHANGED clients,
             \/ LoadConfig(Watcher, "load", "setScheduler", "idle")
             \/ LoadConfig(Watcher, "loadAgain", "publish", "idle")
      PROVE  ReloadsTakeHold'
  BY <1>7 DEF LoadConfig, Loaded
<1>8. ASSUME UNCHANGED clients, TakeEvent \/ Restart \/ PublishLoaded(Watcher, "idle")
      PROVE  ReloadsTakeHold'
  BY <1>8 DEF TakeEvent, Restart, PublishLoaded
<1>9. CASE UNCHANGED vars
  BY <1>9 DEF vars
<1> QED
  BY <1>1, <1>2, <1>3, <1>4, <1>5, <1>6, <1>7, <1>8, <1>9
     DEF Next, Updater, Reloader, Editor, Watch

(* A write that failed has failed for good.                                *)
LEMMA FailureStays ==
    ASSUME TypeOK, [Next]_vars, WriteFailed
    PROVE  WriteFailed'
<1> USE ReloadAssumption DEF TypeOK, Goto, Actors, Requests
<1>1. PICK u \in Updaters : pc[u] = "failed"
  BY DEF WriteFailed
<1>2. ASSUME NEW r \in Updaters \cup Editors, NEW v,
             \/ UpdateConfig(r, v) \/ EditInPlace(r, v) \/ ReplaceFile(r, v)
             \/ Truncate(r) \/ WriteContent(r, "publish") \/ WriteContent(r, "done")
             \/ WriteFails(r)
      PROVE  pc'[u] = pc[u]
  BY <1>1, <1>2 DEF UpdateConfig, EditInPlace, ReplaceFile, Truncate, WriteContent, WriteFails
<1>3. ASSUME NEW r \in Updaters,
             \/ PublishRaw(r) \/ ReadForScheduler(r) \/ SetScheduler(r, "readForNotifier")
             \/ ReadForNotifier(r) \/ SetNotifier(r) \/ SetSchedulerNotifier(r)
      PROVE  pc'[u] = pc[u]
  BY <1>1, <1>3 DEF PublishRaw, ReadForScheduler, SetScheduler, ReadForNotifier, SetNotifier,
     SetSchedulerNotifier
<1>4. ASSUME NEW r \in Reloaders, Reloader(r) \/ ReloadConfig(r)
      PROVE  pc'[u] = pc[u]
  BY <1>1, <1>4 DEF Reloader, ReloadConfig, LoadConfig, PublishLoaded, ReadForScheduler,
     SetScheduler
<1>5. ASSUME Watch
      PROVE  pc'[u] = pc[u]
  BY <1>1, <1>5 DEF Watch, TakeEvent, LoadConfig, SetScheduler, Restart, PublishLoaded
<1>6. ASSUME UNCHANGED vars
      PROVE  pc'[u] = pc[u]
  BY <1>6 DEF vars
<1>7. pc'[u] = "failed"
  BY <1>1, <1>2, <1>3, <1>4, <1>5, <1>6 DEF Next, Updater, Editor
<1> QED
  BY <1>7 DEF WriteFailed

LEMMA EmptyStep ==
    ASSUME TypeOK, EmptyIsBeingWritten, [Next]_vars
    PROVE  EmptyIsBeingWritten'
<1> USE ReloadAssumption DEF TypeOK, EmptyIsBeingWritten, Goto, Actors, Requests
<1> DEFINE Writing == \E r \in Updaters \cup Editors : pc[r] = "write"
<1>1. WriteFailed => WriteFailed'
  BY FailureStays
<1>2. ASSUME file' = file, \A r \in Updaters \cup Editors : pc[r] = "write" => pc'[r] = "write"
      PROVE  EmptyIsBeingWritten'
  BY <1>1, <1>2
<1>3. ASSUME NEW r \in Updaters \cup Editors, Truncate(r)
      PROVE  EmptyIsBeingWritten'
  BY <1>3 DEF Truncate
<1>4. ASSUME NEW r \in Updaters \cup Editors, NEW next, WriteContent(r, next)
      PROVE  EmptyIsBeingWritten'
  <2>1. file' # Empty
    BY <1>4 DEF WriteContent
  <2> QED
    BY <2>1
<1>5. ASSUME NEW u \in Updaters, WriteFails(u)
      PROVE  EmptyIsBeingWritten'
  <2>1. pc'[u] = "failed"
    BY <1>5 DEF WriteFails
  <2> QED
    BY <2>1 DEF WriteFailed
<1>6. ASSUME NEW r \in Updaters \cup Editors, NEW v, UpdateConfig(r, v) \/ EditInPlace(r, v)
      PROVE  EmptyIsBeingWritten'
  BY <1>2, <1>6 DEF UpdateConfig, EditInPlace
<1>7. ASSUME NEW e \in Editors, NEW v \in Versions, ReplaceFile(e, v)
      PROVE  EmptyIsBeingWritten'
  BY <1>7 DEF ReplaceFile
<1>8. ASSUME NEW r \in Updaters,
             \/ PublishRaw(r) \/ ReadForScheduler(r) \/ SetScheduler(r, "readForNotifier")
             \/ ReadForNotifier(r) \/ SetNotifier(r) \/ SetSchedulerNotifier(r)
      PROVE  EmptyIsBeingWritten'
  BY <1>2, <1>8 DEF PublishRaw, ReadForScheduler, SetScheduler, ReadForNotifier, SetNotifier,
     SetSchedulerNotifier
<1>9. ASSUME NEW r \in Reloaders, Reloader(r) \/ ReloadConfig(r)
      PROVE  EmptyIsBeingWritten'
  BY <1>2, <1>9 DEF Reloader, ReloadConfig, LoadConfig, PublishLoaded, ReadForScheduler,
     SetScheduler
<1>10. ASSUME Watch
       PROVE  EmptyIsBeingWritten'
  BY <1>2, <1>10 DEF Watch, TakeEvent, LoadConfig, SetScheduler, Restart, PublishLoaded
<1>11. CASE UNCHANGED vars
  BY <1>2, <1>11 DEF vars
<1> QED
  BY <1>3, <1>4, <1>5, <1>6, <1>7, <1>8, <1>9, <1>10, <1>11 DEF Next, Updater, Editor

LEMMA WholeStep ==
    ASSUME TypeOK, FileIsKnown, NothingIsTorn, [Next]_vars
    PROVE  NothingIsTorn'
<1> USE ReloadAssumption
    DEF TypeOK, NothingIsTorn, OneAtATime, Goto, Actors, Requests, copies
<1>1. WriteFailed => WriteFailed'
  BY FailureStays
<1>2. ASSUME UNCHANGED clients, NEW r \in Requests, NEW v \in Versions,
             UpdateConfig(r, v) \/ EditInPlace(r, v) \/ ReplaceFile(r, v) \/ ReloadConfig(r)
      PROVE  NothingIsTorn'
  BY <1>1, <1>2 DEF UpdateConfig, EditInPlace, ReplaceFile, ReloadConfig
<1>3. ASSUME UNCHANGED clients, NEW r \in Updaters \cup Editors, Truncate(r)
      PROVE  NothingIsTorn'
  BY <1>1, <1>3 DEF Truncate
<1>4. ASSUME UNCHANGED clients, NEW r \in Updaters \cup Editors, NEW next, WriteContent(r, next)
      PROVE  NothingIsTorn'
  <2>1. OneAtATime => file' = version[r]
    BY <1>4 DEF WriteContent, FileIsKnown
  <2>2. version[r] # Torn
    OBVIOUS
  <2> QED
    BY <1>1, <1>4, <2>1, <2>2 DEF WriteContent
<1>5. ASSUME NEW u \in Updaters, WriteFails(u)
      PROVE  NothingIsTorn'
  <2>1. pc'[u] = "failed"
    BY <1>5 DEF WriteFails
  <2> QED
    BY <2>1 DEF WriteFailed
<1>6. ASSUME UNCHANGED clients, NEW u \in Updaters, PublishRaw(u)
      PROVE  NothingIsTorn'
  BY <1>1, <1>6 DEF PublishRaw, Raw
<1>7. ASSUME UNCHANGED clients, NEW u \in Updaters,
             ReadForNotifier(u) \/ SetNotifier(u) \/ SetSchedulerNotifier(u)
      PROVE  NothingIsTorn'
  BY <1>1, <1>7 DEF ReadForNotifier, SetNotifier, SetSchedulerNotifier
<1>8. ASSUME UNCHANGED clients, NEW r \in Requests, ReadForScheduler(r)
      PROVE  NothingIsTorn'
  BY <1>1, <1>8 DEF ReadForScheduler
<1>9. ASSUME UNCHANGED clients, NEW a \in Actors, NEW next,
             SetScheduler(a, next) \/ PublishLoaded(a, next)
      PROVE  NothingIsTorn'
  BY <1>1, <1>9 DEF SetScheduler, PublishLoaded
<1>10. ASSUME UNCHANGED clients, NEW a \in Actors, NEW from, NEW next, NEW failed,
              LoadConfig(a, from, next, failed)
       PROVE  NothingIsTorn'
  <2>1. Loaded(file).ver = file
    BY DEF Loaded
  <2> QED
    BY <1>1, <1>10, <2>1 DEF LoadConfig
<1>11. ASSUME UNCHANGED clients, TakeEvent \/ Restart
       PROVE  NothingIsTorn'
  BY <1>1, <1>11 DEF TakeEvent, Restart
<1>12. CASE UNCHANGED vars
  BY <1>1, <1>12 DEF vars
<1>13. Versions # {}
  OBVIOUS
<1> QED
  BY <1>2, <1>3, <1>4, <1>5, <1>6, <1>7, <1>8, <1>9, <1>10, <1>11, <1>12, <1>13
     DEF Next, Updater, Reloader, Editor, Watch

LEMMA AnswerInvInit == Init => AnswerInv
<1> SUFFICES ASSUME Init PROVE AnswerInv
  OBVIOUS
<1>1. Inv
  BY InvInit
<1>2. Updaters \subseteq Actors /\ Reloaders \subseteq Actors /\ Watcher \in Actors
  BY DEF Requests, Actors
<1>3. UpdatesTakeHold
  BY <1>2 DEF Init, UpdatesTakeHold, AfterWrite
<1>4. ReloadsTakeHold
  BY <1>2 DEF Init, ReloadsTakeHold, Loaded
<1>5. EmptyIsBeingWritten /\ NothingIsTorn
  BY ReloadAssumption DEF Init, EmptyIsBeingWritten, NothingIsTorn, Loaded
<1> QED
  BY <1>1, <1>3, <1>4, <1>5 DEF AnswerInv

LEMMA AnswerInvariance == Spec => []AnswerInv
<1>1. AnswerInv /\ [Next]_vars => AnswerInv'
  BY TypeStep, AloneStep, FileStep, LoadStep, NotifierStep, WatcherStep, RequestStep,
     CatchUpStep, TakeHoldStep, ReloadHoldStep, EmptyStep, WholeStep
     DEF AnswerInv, Inv
<1> QED
  BY AnswerInvInit, <1>1, PTL DEF Spec

(* The last step of an update.                                             *)
LEMMA UpdateEnds ==
    ASSUME TypeOK, [Next]_vars, NEW u \in Updaters,
           pc[u] = "setSchedulerNotifier", pc'[u] = "done"
    PROVE  SetSchedulerNotifier(u)
<1> USE ReloadAssumption DEF TypeOK, Goto, Actors, Requests
<1>1. ASSUME NEW r \in Updaters, Updater(r)
      PROVE  SetSchedulerNotifier(u)
  <2>1. r = u
    BY <1>1 DEF Updater, Truncate, WriteContent, WriteFails, PublishRaw, ReadForScheduler,
       SetScheduler, ReadForNotifier, SetNotifier, SetSchedulerNotifier
  <2> QED
    BY <1>1, <2>1 DEF Updater, Truncate, WriteContent, WriteFails, PublishRaw, ReadForScheduler,
       SetScheduler, ReadForNotifier, SetNotifier
<1>2. ASSUME NEW r \in Requests, NEW v,
             UpdateConfig(r, v) \/ EditInPlace(r, v) \/ ReplaceFile(r, v) \/ ReloadConfig(r)
      PROVE  FALSE
  BY <1>2 DEF UpdateConfig, EditInPlace, ReplaceFile, ReloadConfig
<1>3. ASSUME NEW r \in Reloaders, Reloader(r)
      PROVE  FALSE
  BY <1>3 DEF Reloader, LoadConfig, PublishLoaded, ReadForScheduler, SetScheduler
<1>4. ASSUME NEW e \in Editors, Editor(e)
      PROVE  FALSE
  BY <1>4 DEF Editor, Truncate, WriteContent
<1>5. ASSUME Watch
      PROVE  FALSE
  BY <1>5 DEF Watch, TakeEvent, LoadConfig, SetScheduler, Restart, PublishLoaded
<1>6. ASSUME UNCHANGED vars
      PROVE  FALSE
  BY <1>6 DEF vars
<1> QED
  BY <1>1, <1>2, <1>3, <1>4, <1>5, <1>6 DEF Next

(* The last step of a reload.                                              *)
LEMMA ReloadEnds ==
    ASSUME TypeOK, [Next]_vars, NEW r \in Reloaders,
           pc[r] = "setScheduler", pc'[r] = "done"
    PROVE  SetScheduler(r, "done")
<1> USE ReloadAssumption DEF TypeOK, Goto, Actors, Requests
<1>1. ASSUME NEW s \in Reloaders, Reloader(s)
      PROVE  SetScheduler(r, "done")
  <2>1. s = r
    BY <1>1 DEF Reloader, LoadConfig, PublishLoaded, ReadForScheduler, SetScheduler
  <2> QED
    BY <1>1, <2>1 DEF Reloader, LoadConfig, PublishLoaded, ReadForScheduler
<1>2. ASSUME NEW s \in Requests, NEW v,
             UpdateConfig(s, v) \/ EditInPlace(s, v) \/ ReplaceFile(s, v) \/ ReloadConfig(s)
      PROVE  FALSE
  BY <1>2 DEF UpdateConfig, EditInPlace, ReplaceFile, ReloadConfig
<1>3. ASSUME NEW u \in Updaters, Updater(u)
      PROVE  FALSE
  BY <1>3 DEF Updater, Truncate, WriteContent, WriteFails, PublishRaw, ReadForScheduler,
     SetScheduler, ReadForNotifier, SetNotifier, SetSchedulerNotifier
<1>4. ASSUME NEW e \in Editors, Editor(e)
      PROVE  FALSE
  BY <1>4 DEF Editor, Truncate, WriteContent
<1>5. ASSUME Watch
      PROVE  FALSE
  BY <1>5 DEF Watch, TakeEvent, LoadConfig, SetScheduler, Restart, PublishLoaded
<1>6. ASSUME UNCHANGED vars
      PROVE  FALSE
  BY <1>6 DEF vars
<1> QED
  BY <1>1, <1>2, <1>3, <1>4, <1>5, <1>6 DEF Next

(* "config updated" is true of the file and four of the five copies, for   *)
(* clients that wait for the watcher between requests.                     *)
THEOREM UpdatesTakeEffect == Spec => UpdateTakesEffect
<1>1. AnswerInv /\ [Next]_vars =>
        \A u \in Updaters :
          pc[u] = "setSchedulerNotifier" /\ pc'[u] = "done" /\ Patient =>
             /\ file' = version[u]
             /\ hcfg'.ver = version[u] /\ scfg'.ver = version[u]
             /\ hnotifier' = version[u] /\ snotifier' = version[u]
  <2> SUFFICES ASSUME AnswerInv, [Next]_vars, NEW u \in Updaters,
                      pc[u] = "setSchedulerNotifier", pc'[u] = "done", Patient
               PROVE  /\ file' = version[u]
                      /\ hcfg'.ver = version[u] /\ scfg'.ver = version[u]
                      /\ hnotifier' = version[u] /\ snotifier' = version[u]
    OBVIOUS
  <2>1. SetSchedulerNotifier(u)
    BY UpdateEnds DEF AnswerInv, Inv
  <2> QED
    BY <2>1 DEF SetSchedulerNotifier, AnswerInv, UpdatesTakeHold, AfterWrite
<1> QED
  BY <1>1, AnswerInvariance, PTL DEF Spec, UpdateTakesEffect

(* A reload brings back the names an update's configuration lacks.         *)
THEOREM ReloadsTakeEffect == Spec => ReloadTakesEffect
<1>1. AnswerInv /\ [Next]_vars =>
        \A r \in Reloaders :
          pc[r] = "setScheduler" /\ pc'[r] = "done" /\ OneAtATime =>
             /\ hcfg'.form = "loaded" /\ scfg'.form = "loaded"
             /\ Patient => scfg'.ver = file
  <2> SUFFICES ASSUME AnswerInv, [Next]_vars, NEW r \in Reloaders,
                      pc[r] = "setScheduler", pc'[r] = "done", OneAtATime
               PROVE  /\ hcfg'.form = "loaded" /\ scfg'.form = "loaded"
                      /\ Patient => scfg'.ver = file
    OBVIOUS
  <2>1. SetScheduler(r, "done")
    BY ReloadEnds DEF AnswerInv, Inv
  <2> QED
    BY <2>1 DEF SetScheduler, AnswerInv, Inv, ReloadsTakeHold, RequestsAreCurrent, Requests
<1> QED
  BY <1>1, AnswerInvariance, PTL DEF Spec, ReloadTakesEffect

(* At rest the file is not empty, unless os.WriteFile, which truncates     *)
(* before it writes, failed in UpdateConfig; a whole version it is when    *)
(* requests and edits came one at a time.  What overlapping writes leave   *)
(* may be a mixture that does not parse.                                   *)
THEOREM FileSurvives == Spec => []RestsReadable
<1>1. AnswerInv => RestsReadable
  <2> SUFFICES ASSUME AnswerInv, Quiet, ~WriteFailed
               PROVE  file # Empty /\ (OneAtATime => file \in Versions)
    BY DEF RestsReadable
  <2>1. file # Empty
    BY DEF AnswerInv, EmptyIsBeingWritten, Quiet, InProgress, Requests
  <2> QED
    BY <2>1 DEF AnswerInv, NothingIsTorn, Inv, TypeOK, Contents
<1> QED
  BY <1>1, AnswerInvariance, PTL

(* Nothing torn is published, either.                                      *)
THEOREM CopiesAreWhole == Spec => []NothingIsTorn
<1>1. AnswerInv => NothingIsTorn
  BY DEF AnswerInv
<1> QED
  BY <1>1, AnswerInvariance, PTL

=============================================================================
