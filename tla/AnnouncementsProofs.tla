------------------------- MODULE AnnouncementsProofs -------------------------
(***************************************************************************)
(* For any number of builds, stop requests and replaced managers.  A       *)
(* channel that was sent a start was one of that manager's; managers are   *)
(* numbered as they are made, so the manager of a start that is still      *)
(* h.notifier at the end is the manager of everything in between.          *)
(***************************************************************************)
EXTENDS Announcements, FiniteSetTheorems, TLAPS

Typed ==
    /\ hNotifier \in Nat \ {0} /\ Made = 1 .. hNotifier /\ DOMAIN enabled = 1 .. hNotifier
    /\ \A m \in Made : channels[m] \subseteq enabled[m] /\ enabled[m] \in NotifyConfigs
    /\ sNotifier \in Made
    /\ reloading \in BOOLEAN
    /\ kind \in [Builds -> {"api", "task"}]
    /\ pc \in [Senders -> Notes \cup {"idle", "build", "returned", "over"}]
    /\ manager \in [Senders -> Made \cup {0}]
    /\ left \in [Senders -> SUBSET Channels]
    /\ failed \in [Senders -> BOOLEAN]
    /\ ctx \in [Builds -> {"live", "canceled", "expired"}]
    /\ target \in [Stops -> Builds \cup {None}]
    /\ built \subseteq Builds /\ unregistered \subseteq Builds
    /\ result \in [Builds -> {"none", "ok", "err"}]
    /\ tried \in [Senders -> SUBSET Announcement]
    /\ heard \in [Senders -> SUBSET Announcement]
    /\ \A x \in Senders : heard[x] \subseteq tried[x]

(* What a sender has tried of the announcement it is at.                   *)
Advances(x) ==
    /\ left[x] # {} => pc[x] \in Notes
    /\ pc[x] \in Notes =>
         manager[x] \in Made /\ left[x] \subseteq channels[manager[x]] /\ Tried(x, pc[x])

Stopped(s) ==
    /\ pc[s] \in {"idle", "stop", "over"}
    /\ pc[s] = "idle" <=> target[s] = None
    /\ pc[s] = "over" => manager[s] \in Made /\ Tried(s, "stop")

(* Whom a build told before, it told through a manager no newer than the   *)
(* one it tells now.                                                       *)
ManagersGrow(b) ==
    \A a \in tried[b] :
        a.manager \in Made /\ a.manager <= manager[b] /\ a.channel \in channels[a.manager]

Concluded(b) ==
    /\ pc[b] # "stop"
    /\ pc[b] = "idle" => tried[b] = {}
    /\ pc[b] \in {"idle", "start"} => b \notin built
    /\ pc[b] \in {"build", "returned"} => manager[b] \in Made
    /\ pc[b] = "over" /\ b \in built =>
         \/ ctx[b] = "canceled"
         \/ manager[b] \in Made /\ \E n \in {"success", "failure"} : Tried(b, n)

CancelsHaveStops ==
    \A b \in Builds : ctx[b] = "canceled" => \E s \in Stops : target[s] = b

Inv ==
    /\ Typed
    /\ \A x \in Senders : Advances(x)
    /\ \A s \in Stops : Stopped(s)
    /\ \A b \in Builds : ManagersGrow(b) /\ Concluded(b)
    /\ CancelsHaveStops

-----------------------------------------------------------------------------

(* A step of sender x alone.                                               *)
LEMMA SenderStep ==
    ASSUME Inv, Typed', NEW x \in Senders,
           UNCHANGED <<managers, kind, ctx, target>>,
           \A y \in Senders \ {x} : /\ pc'[y] = pc[y] /\ manager'[y] = manager[y]
                                    /\ left'[y] = left[y] /\ tried'[y] = tried[y]
                                    /\ y \in built' <=> y \in built,
           Advances(x)',
           x \in Stops => Stopped(x)',
           x \in Builds => ManagersGrow(x)' /\ Concluded(x)'
    PROVE  Inv'
<1>1. Builds \cap Stops = {} /\ Senders = Builds \cup Stops
  BY AnnouncementsAssumption DEF Senders
<1>2. \A y \in Senders \ {x} : Advances(y)'
  BY DEF Inv, Advances, Tried, Made, managers
<1>3. \A s \in Stops \ {x} : Stopped(s)'
  BY <1>1 DEF Inv, Stopped, Tried, Made, managers
<1>4. \A b \in Builds \ {x} : ManagersGrow(b)' /\ Concluded(b)'
  BY <1>1 DEF Inv, ManagersGrow, Concluded, Tried, Made, managers
<1>5. CancelsHaveStops'
  BY DEF Inv, CancelsHaveStops
<1> QED
  BY <1>2, <1>3, <1>4, <1>5 DEF Inv

LEMMA InvInit == Init => Inv
<1> SUFFICES ASSUME Init PROVE Inv
  OBVIOUS
<1>1. Typed
  <2>1. PICK c \in NotifyConfigs : \E ch \in NewManager(c) :
             enabled = [m \in {1} |-> c] /\ channels = [m \in {1} |-> ch]
    BY DEF Init
  <2>2. Made = 1 .. 1 /\ DOMAIN enabled = 1 .. 1
    BY <2>1 DEF Made
  <2>3. \A m \in Made : channels[m] \subseteq enabled[m] /\ enabled[m] \in NotifyConfigs
    BY <2>1, <2>2 DEF NewManager
  <2>4. /\ hNotifier \in Nat \ {0} /\ Made = 1 .. hNotifier /\ DOMAIN enabled = 1 .. hNotifier
        /\ sNotifier \in Made
    BY <2>2 DEF Init
  <2>5. /\ tried \in [Senders -> SUBSET Announcement] /\ heard \in [Senders -> SUBSET Announcement]
        /\ \A x \in Senders : heard[x] \subseteq tried[x]
    BY DEF Init
  <2>6. /\ pc \in [Senders -> Notes \cup {"idle", "build", "returned", "over"}]
        /\ manager \in [Senders -> Made \cup {0}] /\ left \in [Senders -> SUBSET Channels]
        /\ failed \in [Senders -> BOOLEAN]
        /\ ctx \in [Builds -> {"live", "canceled", "expired"}]
        /\ target \in [Stops -> Builds \cup {None}]
        /\ result \in [Builds -> {"none", "ok", "err"}]
    BY DEF Init
  <2> QED
    BY <2>3, <2>4, <2>5, <2>6 DEF Init, Typed
<1>2. ASSUME NEW x \in Senders PROVE Advances(x)
  BY <1>2 DEF Init, Advances, Notes
<1>3. ASSUME NEW s \in Stops PROVE Stopped(s)
  BY <1>3 DEF Init, Stopped, Senders
<1>4. ASSUME NEW b \in Builds PROVE ManagersGrow(b) /\ Concluded(b)
  BY <1>4 DEF Init, ManagersGrow, Concluded, Senders
<1>5. CancelsHaveStops
  BY DEF Init, CancelsHaveStops
<1> QED
  BY <1>1, <1>2, <1>3, <1>4, <1>5 DEF Inv

LEMMA MadeIs ==
    ASSUME Typed
    PROVE  Cardinality(Made) = hNotifier
BY FS_Interval DEF Typed

LEMMA ReloadNotifierStep ==
    ASSUME Inv, ReloadNotifier
    PROVE  Inv'
<1> DEFINE m == hNotifier + 1
<1>1. hNotifier \in Nat \ {0} /\ Cardinality(Made) = hNotifier /\ Made = 1 .. hNotifier
  BY MadeIs DEF Inv, Typed
<1>2. PICK c \in NotifyConfigs : \E ch \in NewManager(c) :
           /\ enabled' = [n \in 1 .. m |-> IF n = m THEN c ELSE enabled[n]]
           /\ channels' = [n \in 1 .. m |-> IF n = m THEN ch ELSE channels[n]]
           /\ hNotifier' = m
  BY <1>1 DEF ReloadNotifier
<1>3. UNCHANGED <<sNotifier, pc, sending, outcome, tried, heard>> /\ reloading' = TRUE
  BY DEF ReloadNotifier
<1>4. /\ Made' = 1 .. m /\ \A n \in Made : channels'[n] = channels[n] /\ n \in Made'
      /\ Made' = DOMAIN channels'
  BY <1>1, <1>2 DEF Made
<1>5. Typed'
  <2>1. \A n \in Made' : channels'[n] \subseteq enabled'[n] /\ enabled'[n] \in NotifyConfigs
    <3>1. ASSUME NEW n \in Made'
          PROVE  channels'[n] \subseteq enabled'[n] /\ enabled'[n] \in NotifyConfigs
      <4>1. CASE n = m
        BY <1>1, <1>2, <1>4, <4>1 DEF NewManager
      <4>2. CASE n # m
        <5>1. n \in Made /\ channels'[n] = channels[n] /\ enabled'[n] = enabled[n]
          BY <1>1, <1>2, <1>4, <4>2
        <5> QED
          BY <5>1 DEF Inv, Typed
      <4> QED
        BY <4>1, <4>2
    <3> QED
      BY <3>1
  <2>2. manager' \in [Senders -> Made' \cup {0}]
    BY <1>1, <1>3, <1>4 DEF Inv, Typed, sending
  <2> QED
    BY <1>1, <1>2, <1>3, <1>4, <2>1, <2>2 DEF Inv, Typed, sending, outcome
<1>6. ASSUME NEW x \in Senders PROVE Advances(x)'
  BY <1>3, <1>4 DEF Inv, Advances, Tried, sending
<1>7. ASSUME NEW s \in Stops PROVE Stopped(s)'
  BY <1>3, <1>4 DEF Inv, Stopped, Tried, sending, outcome
<1>8. ASSUME NEW b \in Builds PROVE ManagersGrow(b)' /\ Concluded(b)'
  BY <1>3, <1>4 DEF Inv, ManagersGrow, Concluded, Tried, sending, outcome
<1>9. CancelsHaveStops'
  BY <1>3 DEF Inv, CancelsHaveStops, outcome
<1> QED
  BY <1>5, <1>6, <1>7, <1>8, <1>9 DEF Inv

LEMMA SetSchedulerNotifierStep ==
    ASSUME Inv, SetSchedulerNotifier
    PROVE  Inv'
<1>1. Typed'
  <2>1. hNotifier \in Made /\ Made' = Made
    BY DEF Inv, Typed, Made, SetSchedulerNotifier
  <2> QED
    BY <2>1 DEF Inv, Typed, SetSchedulerNotifier, sending, outcome
<1> QED
  BY <1>1 DEF Inv, Advances, Stopped, ManagersGrow, Concluded, CancelsHaveStops, Tried, Made,
              SetSchedulerNotifier, sending, outcome

-----------------------------------------------------------------------------

LEMMA SendTypes ==
    ASSUME Typed, NEW x \in Senders, NEW n \in Notes, NEW m \in Made, Send(x, n, m)
    PROVE  /\ pc' \in [Senders -> Notes \cup {"idle", "build", "returned", "over"}]
           /\ manager' \in [Senders -> Made \cup {0}]
           /\ left' \in [Senders -> SUBSET Channels]
           /\ failed' \in [Senders -> BOOLEAN]
           /\ pc'[x] = n /\ manager'[x] = m /\ left'[x] = channels[m]
           /\ \A y \in Senders \ {x} : /\ pc'[y] = pc[y] /\ manager'[y] = manager[y]
                                       /\ left'[y] = left[y]
<1>1. channels[m] \subseteq Channels
  BY AnnouncementsAssumption DEF Typed
<1> QED
  BY <1>1 DEF Typed, Send

(* A build turns to its next announcement.                                 *)
LEMMA BuildSends ==
    ASSUME Inv, NEW b \in Builds, NEW n \in {"start", "success", "failure"}, NEW m \in Made,
           Send(b, n, m), manager[b] <= m \/ tried[b] = {}, n = "start" => b \notin built,
           UNCHANGED <<managers, outcome, tried, heard>>
    PROVE  Inv'
<1>1. b \in Senders /\ n \in Notes /\ b \notin Stops
  BY AnnouncementsAssumption DEF Senders, Notes
<1>2. Typed /\ Made' = Made
  BY DEF Inv, Made, managers
<1>3. Typed'
  BY <1>1, <1>2, SendTypes DEF Typed, managers, outcome
<1>4. Advances(b)'
  BY <1>1, <1>2, SendTypes DEF Advances, Tried, managers
<1>5. ManagersGrow(b)'
  <2>1. manager[b] \in Nat /\ m \in Nat /\ manager'[b] = m
    BY <1>1, <1>2, SendTypes DEF Typed
  <2>2. ASSUME NEW a \in tried[b]
        PROVE  a.manager \in Made /\ a.manager <= m /\ a.channel \in channels[a.manager]
    <3>1. a.manager \in Made /\ a.manager <= manager[b] /\ a.channel \in channels[a.manager]
      BY <2>2 DEF Inv, ManagersGrow
    <3>2. a.manager \in Nat
      BY <1>2, <3>1 DEF Typed
    <3> QED
      BY <2>1, <2>2, <3>1, <3>2
  <2> QED
    BY <1>2, <2>1, <2>2 DEF ManagersGrow, managers
<1>6. Concluded(b)'
  BY <1>1, <1>2, SendTypes DEF Inv, Concluded, outcome
<1> QED
  BY <1>1, <1>2, <1>3, <1>4, <1>5, <1>6, SendTypes, SenderStep DEF outcome

(* A build turns to something else than an announcement.                   *)
LEMMA BuildMoves ==
    ASSUME Inv, NEW b \in Builds, NEW to \in {"build", "returned", "over"}, left[b] = {},
           to # "over" => manager[b] \in Made,
           pc' = [pc EXCEPT ![b] = to], built' = built \/ built' = built \cup {b},
           to = "over" /\ b \in built' =>
             ctx[b] = "canceled"
               \/ (manager[b] \in Made /\ \E n \in {"success", "failure"} : Tried(b, n)),
           result' \in [Builds -> {"none", "ok", "err"}],
           UNCHANGED <<managers, sending, kind, ctx, target, unregistered, tried, heard>>
    PROVE  Inv'
<1>1. b \in Senders /\ b \notin Stops
  BY AnnouncementsAssumption DEF Senders
<1>2. Typed /\ Made' = Made
  BY DEF Inv, Made, managers
<1>3. pc'[b] = to /\ \A y \in Senders \ {b} : pc'[y] = pc[y]
  BY <1>1, <1>2 DEF Typed
<1>4. Typed'
  BY <1>1, <1>2 DEF Typed, managers, sending
<1>5. Advances(b)'
  BY <1>3 DEF Advances, Notes, sending
<1>6. ManagersGrow(b)' /\ Concluded(b)'
  BY <1>2, <1>3 DEF Inv, ManagersGrow, Concluded, Tried, managers, sending
<1> QED
  BY <1>1, <1>3, <1>4, <1>5, <1>6, SenderStep DEF sending

LEMMA GoroutineStep ==
    ASSUME Inv, NEW b \in Builds, Goroutine(b)
    PROVE  Inv'
<1>1. b \in Senders /\ hNotifier \in Made /\ manager[b] <= hNotifier
  BY DEF Inv, Typed, Senders
<1>2. ~("idle" \in Notes) /\ ~("returned" \in Notes)
  BY DEF Notes
<1>3. Advances(b) /\ Concluded(b) /\ Typed
  BY <1>1 DEF Inv
<1>4. CASE AnnounceStart(b)
  BY <1>1, <1>3, <1>4, BuildSends DEF AnnounceStart, Concluded
<1>5. CASE NoGitClient(b)
  BY <1>2, <1>3, <1>5, BuildMoves DEF NoGitClient, Concluded, Advances, outcome, Typed
<1>6. CASE GiveUp(b)
  BY <1>3, <1>6, BuildMoves DEF GiveUp, Sent, Concluded, outcome, Typed
<1>7. CASE Build(b)
  BY <1>3, <1>7, BuildMoves DEF Build, Sent, Advances, Typed
<1>8. CASE Conclude(b)
  <2>1. UNCHANGED <<managers, outcome, tried, heard>> /\ pc[b] = "returned"
    BY <1>8 DEF Conclude
  <2>2. CASE Send(b, "success", hNotifier) \/ Send(b, "failure", hNotifier)
    BY <1>1, <2>1, <2>2, BuildSends
  <2>3. CASE ctx[b] = "canceled" /\ pc' = [pc EXCEPT ![b] = "over"] /\ UNCHANGED sending
    BY <1>2, <1>3, <2>1, <2>3, BuildMoves DEF Advances, outcome, Typed
  <2> QED
    BY <1>8, <2>2, <2>3 DEF Conclude
<1>9. CASE Unregister(b)
  <2>1. Typed'
    BY <1>3, <1>9 DEF Typed, Made, Unregister, managers, sending
  <2> QED
    BY <1>9, <2>1 DEF Inv, Advances, Stopped, ManagersGrow, Concluded, CancelsHaveStops, Tried,
                      Made, Unregister, managers, sending
<1> QED
  BY <1>4, <1>5, <1>6, <1>7, <1>8, <1>9 DEF Goroutine

LEMMA ReturnStep ==
    ASSUME Inv, NEW b \in Builds, Return(b)
    PROVE  Inv'
<1>1. Advances(b) /\ Concluded(b) /\ left[b] = {}
  BY DEF Inv, Senders, Advances, Notes, Return
<1>2. result' \in [Builds -> {"none", "ok", "err"}]
  BY DEF Inv, Typed, Return
<1> QED
  BY <1>1, <1>2, BuildMoves DEF Return, Concluded

LEMMA TaskStep ==
    ASSUME Inv, NEW t \in Builds, Launch(t) \/ BuildTask(t) \/ ConcludeTask(t)
    PROVE  Inv'
<1>1. t \in Senders /\ Advances(t) /\ Concluded(t) /\ Typed
  BY DEF Inv, Senders
<1>2. CASE Launch(t)
  <2>1. sNotifier \in Made
    BY DEF Inv, Typed
  <2> QED
    BY <1>1, <1>2, <2>1, BuildSends DEF Launch, Concluded
<1>3. CASE BuildTask(t)
  BY <1>1, <1>3, BuildMoves DEF BuildTask, Sent, Advances, Typed
<1>4. CASE ConcludeTask(t)
  <2>1. manager[t] \in Made /\ manager[t] <= manager[t]
    <3>1. manager[t] \in Made
      BY <1>1, <1>4 DEF ConcludeTask, Concluded
    <3> QED
      BY <3>1 DEF Inv, Typed
  <2> QED
    BY <1>4, <2>1, BuildSends DEF ConcludeTask, EndNote
<1> QED
  BY <1>2, <1>3, <1>4

(* The deadline.                                                           *)
LEMMA ExpireStep ==
    ASSUME Inv, NEW b \in Builds, Expire(b)
    PROVE  Inv'
<1>1. \A d \in Builds : ctx'[d] = "canceled" <=> ctx[d] = "canceled"
  BY DEF Inv, Typed, Expire
<1>2. Typed'
  BY DEF Inv, Typed, Made, Expire, managers, sending
<1> QED
  BY <1>1, <1>2 DEF Inv, Advances, Stopped, ManagersGrow, Concluded, CancelsHaveStops, Tried,
                    Made, Expire, managers, sending

LEMMA StopBuildStep ==
    ASSUME Inv, NEW s \in Stops, NEW b \in Builds, StopBuild(s, b)
    PROVE  Inv'
<1>1. /\ s \in Senders /\ s \notin Builds /\ "stop" \in Notes /\ b # None
      /\ \A d \in Builds : d # s /\ d \in Senders
  BY AnnouncementsAssumption DEF Senders, Notes
<1>2. Typed /\ Made' = Made /\ hNotifier \in Made
  BY DEF Inv, Made, StopBuild, managers, Typed
<1>3. Send(s, "stop", hNotifier) /\ UNCHANGED <<managers, kind, built, result, unregistered, tried, heard>>
  BY DEF StopBuild
<1>4. /\ pc'[s] = "stop" /\ left'[s] = channels[hNotifier] /\ manager'[s] = hNotifier
      /\ \A y \in Senders \ {s} : /\ pc'[y] = pc[y] /\ manager'[y] = manager[y]
                                  /\ left'[y] = left[y]
  BY <1>1, <1>2, <1>3, SendTypes
<1>5. /\ target'[s] = b /\ \A r \in Stops \ {s} : target'[r] = target[r]
      /\ target' \in [Stops -> Builds \cup {None}]
      /\ ctx' \in [Builds -> {"live", "canceled", "expired"}]
      /\ \A d \in Builds : ctx[d] = "canceled" => ctx'[d] = "canceled"
      /\ \A d \in Builds \ {b} : ctx'[d] = ctx[d]
      /\ target[s] = None
  BY DEF Inv, Typed, Stopped, StopBuild
<1>6. Typed'
  BY <1>1, <1>2, <1>3, <1>5, SendTypes DEF Typed, managers
<1>7. ASSUME NEW x \in Senders PROVE Advances(x)'
  <2>1. CASE x = s
    BY <1>1, <1>2, <1>3, <1>4, <2>1 DEF Advances, Tried, managers
  <2>2. CASE x # s
    BY <1>2, <1>3, <1>4, <2>2 DEF Inv, Advances, Tried, managers
  <2> QED
    BY <2>1, <2>2
<1>8. ASSUME NEW r \in Stops PROVE Stopped(r)'
  <2>1. CASE r = s
    BY <1>1, <1>4, <1>5, <2>1 DEF Stopped
  <2>2. CASE r # s
    BY <1>2, <1>3, <1>4, <1>5, <2>2 DEF Inv, Stopped, Tried, managers, Senders
  <2> QED
    BY <2>1, <2>2
<1>9. ASSUME NEW d \in Builds PROVE ManagersGrow(d)' /\ Concluded(d)'
  BY <1>1, <1>2, <1>3, <1>4, <1>5 DEF Inv, ManagersGrow, Concluded, Tried, managers
<1>10. CancelsHaveStops'
  <2>1. ASSUME NEW d \in Builds \ {b}, ctx'[d] = "canceled"
        PROVE  \E r \in Stops : target'[r] = d
    <3>1. PICK r \in Stops : target[r] = d
      BY <1>5, <2>1 DEF Inv, CancelsHaveStops
    <3>2. r # s
      BY <1>1, <1>5, <3>1, AnnouncementsAssumption
    <3> QED
      BY <1>5, <3>1, <3>2
  <2>2. \E r \in Stops : target'[r] = b
    BY <1>5
  <2> QED
    BY <2>1, <2>2 DEF CancelsHaveStops
<1> QED
  BY <1>6, <1>7, <1>8, <1>9, <1>10 DEF Inv

-----------------------------------------------------------------------------

(* The channels of an announcement.                                        *)
LEMMA TryStep ==
    ASSUME Inv, NEW x \in Senders, Try(x)
    PROVE  Inv'
<1> DEFINE c == NextChannel(x)
           a == Note(manager[x], c, pc[x])
<1>1. /\ Typed /\ Made' = Made /\ Builds \cap Stops = {} /\ Senders = Builds \cup Stops
      /\ \A m \in Made : m \in Nat
  BY AnnouncementsAssumption DEF Inv, Try, Made, managers, Senders, Typed
<1>2. /\ left[x] # {} /\ pc[x] \in Notes /\ manager[x] \in Made
      /\ left[x] \subseteq channels[manager[x]] /\ left[x] \subseteq Channels
      /\ Tried(x, pc[x])
  BY <1>1 DEF Try, Inv, Advances, Typed
<1>3. c \in left[x] /\ c \in Channels
  BY <1>2 DEF NextChannel, Channels
<1>4. a \in Announcement
  BY <1>1, <1>2, <1>3 DEF Note, Announcement
<1>5. PICK got \in BOOLEAN, err \in BOOLEAN :
           /\ Record(x, got, err) /\ left' = [left EXCEPT ![x] = @ \ {c}]
  BY DEF Try
<1>6. UNCHANGED <<managers, pc, manager, outcome>>
  BY DEF Try
<1>7. /\ tried' = [tried EXCEPT ![x] = @ \cup {a}]
      /\ heard' = [heard EXCEPT ![x] = IF got /\ pc[x] = "start" THEN @ \cup {a} ELSE @]
      /\ failed' = [failed EXCEPT ![x] = @ \/ err]
  BY <1>5 DEF Record, Note
<1>8. /\ tried'[x] = tried[x] \cup {a} /\ left'[x] = left[x] \ {c}
      /\ heard'[x] \subseteq heard[x] \cup {a}
      /\ \A y \in Senders \ {x} : tried'[y] = tried[y] /\ left'[y] = left[y]
                                  /\ heard'[y] = heard[y]
  BY <1>1, <1>5, <1>7 DEF Typed
<1> HIDE DEF a, c
<1>9. Typed'
  <2>1. tried' \in [Senders -> SUBSET Announcement] /\ heard' \in [Senders -> SUBSET Announcement]
    BY <1>1, <1>4, <1>7 DEF Typed
  <2>2. left' \in [Senders -> SUBSET Channels]
    BY <1>1, <1>5 DEF Typed
  <2>3. failed' \in [Senders -> BOOLEAN]
    <3>1. failed[x] \/ err \in BOOLEAN
      OBVIOUS
    <3> QED
      BY <1>1, <1>7, <3>1 DEF Typed
  <2>4. \A y \in Senders : heard'[y] \subseteq tried'[y]
    BY <1>1, <1>8 DEF Typed
  <2> QED
    BY <1>1, <1>6, <2>1, <2>2, <2>3, <2>4 DEF Typed, managers, outcome
<1>10. Advances(x)'
  <2>1. ASSUME NEW d \in channels[manager[x]] \ left'[x]
        PROVE  Note(manager[x], d, pc[x]) \in tried'[x]
    BY <1>2, <1>8, <2>1 DEF Tried, a
  <2> QED
    BY <1>1, <1>2, <1>6, <1>8, <2>1 DEF Advances, Tried, managers
<1>11. x \in Stops => Stopped(x)'
  <2>1. pc[x] # "over"
    BY <1>2 DEF Notes
  <2> QED
    BY <1>6, <2>1 DEF Inv, Stopped, outcome
<1>12. x \in Builds => ManagersGrow(x)' /\ Concluded(x)'
  <2>1. pc[x] # "over" /\ pc[x] # "idle" /\ a.manager = manager[x] /\ a.channel = c
    BY <1>2 DEF Notes, a, Note
  <2>2. manager[x] <= manager[x] /\ c \in channels[manager[x]]
    BY <1>1, <1>2, <1>3
  <2>3. ASSUME x \in Builds PROVE ManagersGrow(x)'
    BY <1>1, <1>2, <1>6, <1>8, <2>1, <2>2, <2>3 DEF Inv, ManagersGrow, managers
  <2>4. ASSUME x \in Builds PROVE Concluded(x)'
    BY <1>1, <1>6, <2>1, <2>4 DEF Inv, Concluded, outcome, managers
  <2> QED
    BY <2>3, <2>4
<1> QED
  BY <1>6, <1>8, <1>9, <1>10, <1>11, <1>12, SenderStep DEF outcome

LEMMA OverStep ==
    ASSUME Inv, NEW x \in Senders, Over(x)
    PROVE  Inv'
<1>1. /\ Typed /\ Made' = Made /\ Builds \cap Stops = {} /\ Senders = Builds \cup Stops
  BY AnnouncementsAssumption DEF Inv, Over, Made, managers, Senders
<1>2. Advances(x) /\ pc[x] \in Notes \ {"start"} /\ left[x] = {}
  BY DEF Inv, Over, Sent
<1>3. CASE x \in Builds
  <2>1. pc[x] \in {"success", "failure"}
    BY <1>2, <1>3 DEF Inv, Concluded, Notes
  <2> QED
    BY <1>1, <1>2, <1>3, <2>1, BuildMoves DEF Over, Advances, outcome, Typed
<1>4. CASE x \in Stops
  <2>1. pc[x] = "stop"
    BY <1>2, <1>4 DEF Inv, Stopped, Notes
  <2>2. pc'[x] = "over" /\ \A y \in Senders \ {x} : pc'[y] = pc[y]
    BY <1>1 DEF Over, Typed
  <2>3. Typed'
    BY <1>1 DEF Over, Typed, managers, sending, outcome
  <2>4. Advances(x)'
    BY <1>2, <2>2 DEF Advances, Notes, Over, sending
  <2>5. Stopped(x)'
    BY <1>1, <1>2, <1>4, <2>1, <2>2
       DEF Inv, Stopped, Advances, Tried, Over, managers, sending, outcome
  <2> QED
    BY <1>1, <1>4, <2>2, <2>3, <2>4, <2>5, SenderStep DEF Over, sending, outcome
<1> QED
  BY <1>1, <1>3, <1>4

-----------------------------------------------------------------------------

LEMMA InvNext ==
    ASSUME Inv, [Next]_vars
    PROVE  Inv'
<1>1. CASE UNCHANGED vars
  BY <1>1 DEF Inv, Typed, Advances, Stopped, ManagersGrow, Concluded, CancelsHaveStops, Tried,
              Made, vars, managers, sending, outcome
<1> QED
  BY <1>1, ReloadNotifierStep, SetSchedulerNotifierStep, GoroutineStep, ReturnStep, TaskStep, ExpireStep,
     StopBuildStep, TryStep, OverStep DEF Next, Run, Delivery, Tasks, ApiBuilds

LEMMA Invariance == Spec => []Inv
BY InvInit, InvNext, PTL DEF Spec

(* Every variable of Announcements keeps its type; a channel is sent       *)
(* something only by a manager made.                                       *)
THEOREM TypeCorrect == Spec => []TypeOK
<1>1. Inv => TypeOK
  <2> SUFFICES ASSUME Inv PROVE TypeOK
    OBVIOUS
  <2>1. Typed /\ Cardinality(Made) = hNotifier /\ hNotifier \in Made
    BY MadeIs DEF Inv, Typed
  <2> QED
    BY <2>1 DEF Typed, TypeOK
<1> QED
  BY <1>1, Invariance, PTL

(* SendBuildSuccess, -Failure and -Stop after SendBuildStart: whatever     *)
(* other channels fail and whatever stop requests come, a channel that     *)
(* heard an API build start is sent its end through the same manager, if   *)
(* that is still h.notifier and the build was not given up.                *)
THEOREM StartersAreSentTheEnd == Spec => []StartersAreTold
<1>1. ASSUME Inv, NEW b \in ApiBuilds, NEW a \in heard[b],
             pc[b] = "over", b \in built, a.manager = hNotifier,
             \A s \in Stops : target[s] = b => pc[s] = "over" /\ manager[s] = a.manager
      PROVE  EndTold(b, a.manager, a.channel)
  <2>1. /\ b \in Builds /\ b \in Senders /\ a \in tried[b] /\ Typed
        /\ ManagersGrow(b) /\ Concluded(b) /\ left[b] = {}
    BY <1>1 DEF Inv, ApiBuilds, Senders, Typed, Advances, Notes
  <2>2. a.manager \in Made /\ a.manager <= manager[b] /\ a.channel \in channels[a.manager]
    BY <2>1 DEF ManagersGrow
  <2>3. CASE ctx[b] = "canceled"
    <3>1. PICK s \in Stops : target[s] = b
      BY <1>1, <2>1, <2>3 DEF Inv, CancelsHaveStops
    <3>2. /\ pc[s] = "over" /\ manager[s] = a.manager /\ s \in Senders
          /\ left[s] = {} /\ Tried(s, "stop")
      BY <1>1, <3>1 DEF Inv, Stopped, Senders, Advances, Notes
    <3>3. Note(a.manager, a.channel, "stop") \in tried[s]
      BY <2>2, <3>2 DEF Tried
    <3> QED
      BY <3>1, <3>3 DEF EndTold, Note
  <2>4. CASE /\ manager[b] \in Made
             /\ \E n \in {"success", "failure"} : Tried(b, n)
    <3>1. manager[b] = a.manager
      BY <1>1, <2>1, <2>2, <2>4 DEF Typed
    <3>2. PICK n \in {"success", "failure"} : Note(a.manager, a.channel, n) \in tried[b]
      BY <2>1, <2>2, <2>4, <3>1 DEF Tried
    <3> QED
      BY <3>2 DEF EndTold, Note
  <2> QED
    BY <1>1, <2>1, <2>3, <2>4 DEF Concluded
<1>2. Inv => StartersAreTold
  BY <1>1 DEF StartersAreTold
<1> QED
  BY <1>2, Invariance, PTL

-----------------------------------------------------------------------------
(* What the callers of the builds can count on.                            *)

(* A task is built whatever its start announcement came to, is nobody's to *)
(* cancel, and speaks through one manager.                                 *)
KeepsManager(t) ==
    /\ ctx[t] # "canceled"
    /\ \A a \in tried[t] : a.manager = manager[t]
    /\ pc[t] = "over" => t \in built

(* What is said of a build's end is how BuildRepository returned.          *)
Truthful(b) ==
    /\ pc[b] \in {"idle", "start", "build"} => result[b] = "none"
    /\ pc[b] = "returned" => result[b] \in {"ok", "err"}
    /\ pc[b] = "success" => result[b] = "ok"
    /\ pc[b] = "failure" => result[b] = "err"
    /\ \A a \in tried[b] :
         \/ a.note = "start"
         \/ a.note = "success" /\ result[b] = "ok"
         \/ a.note = "failure" /\ result[b] = "err"

(* Inductive beside Inv, which does not tell tasks from API builds nor     *)
(* builds from those that were given up.                                   *)
Follows(b) ==
    /\ Truthful(b)
    /\ pc[b] \in {"build", "returned", "success", "failure"} => b \in built
    /\ pc[b] = "over" /\ b \notin built => HasCause(b)
    /\ kind[b] = "task" => KeepsManager(b)

(* When a task is over, every channel it sent its start was sent success   *)
(* or failure, as BuildRepository returned, and nothing else: neither      *)
(* ReloadNotifier has a say nor channels that fail.                        *)
TaskEndsAreTold ==
    \A t \in Tasks : pc[t] = "over" =>
        /\ t \in built
        /\ \A a \in tried[t] :
             /\ a.note \in {"start", EndNote(t)}
             /\ Note(a.manager, a.channel, EndNote(t)) \in tried[t]

(* When a build is over and so are the stop requests for it, one of them   *)
(* has sent its end to every channel of the manager it found.              *)
EndersOf(b) == {b} \cup {s \in Stops : target[s] = b}
EveryEndIsTold ==
    \A b \in Builds :
        b \in built /\ (\A x \in EndersOf(b) : pc[x] = "over") =>
            \E x \in EndersOf(b) : \E n \in Notes \ {"start"} :
                /\ manager[x] \in Made
                /\ \A c \in channels[manager[x]] : Note(manager[x], c, n) \in tried[x]

-----------------------------------------------------------------------------

(* The managers a build knows of stay what they are.                       *)
LEMMA ManagersStay ==
    ASSUME Inv, [Next]_vars
    PROVE  kind' = kind /\ \A m \in Made : m \in Made' /\ channels'[m] = channels[m]
<1>1. CASE ReloadNotifier
  <2>1. Made = 1 .. hNotifier /\ hNotifier \in Nat /\ Cardinality(Made) = hNotifier
    BY MadeIs DEF Inv, Typed
  <2>2. \E c \in NotifyConfigs : \E ch \in NewManager(c) :
          channels' = [n \in 1 .. hNotifier + 1 |-> IF n = hNotifier + 1 THEN ch ELSE channels[n]]
    BY <1>1, <2>1 DEF ReloadNotifier
  <2> QED
    BY <1>1, <2>1, <2>2 DEF Made, ReloadNotifier, outcome
<1>2. CASE SetSchedulerNotifier
  BY <1>2 DEF SetSchedulerNotifier, Made, outcome
<1>3. CASE \E b \in Builds : Goroutine(b) \/ Run(b) \/ Return(b) \/ Expire(b) \/ Launch(b)
  BY <1>3 DEF Goroutine, AnnounceStart, NoGitClient, GiveUp, Build, Conclude, Unregister, Run,
     BuildTask, ConcludeTask, Return, Expire, Launch, managers, outcome, Made
<1>4. CASE \E s \in Stops : \E b \in ApiBuilds : StopBuild(s, b)
  BY <1>4 DEF StopBuild, managers, Made
<1>5. CASE \E x \in Senders : Delivery(x)
  BY <1>5 DEF Delivery, Try, Over, managers, outcome, Made
<1>6. CASE UNCHANGED vars
  BY <1>6 DEF vars, managers, outcome, Made
<1> QED
  BY <1>1, <1>2, <1>3, <1>4, <1>5, <1>6 DEF Next, Tasks

(* A step that is not b's.                                                 *)
LEMMA FollowsStays ==
    ASSUME Inv, [Next]_vars, NEW b \in Builds, Follows(b),
           pc'[b] = pc[b], manager'[b] = manager[b], tried'[b] = tried[b],
           left'[b] = left[b], failed'[b] = failed[b], result'[b] = result[b], b \in built' <=> b \in built,
           kind[b] = "task" /\ ctx[b] # "canceled" => ctx'[b] # "canceled"
    PROVE  Follows(b)'
<1>1. kind' = kind /\ \A m \in Made : m \in Made' /\ channels'[m] = channels[m]
  BY ManagersStay
<1>2. HasCause(b) => HasCause(b)'
  BY <1>1 DEF HasCause, Tried
<1>3. kind[b] = "task" => KeepsManager(b)'
  BY DEF Follows, KeepsManager
<1>4. Truthful(b)'
  BY DEF Follows, Truthful
<1> QED
  BY <1>1, <1>2, <1>3, <1>4 DEF Follows

(* The steps that are.                                                     *)
LEMMA FollowsSends ==
    ASSUME Inv, NEW b \in Builds, NEW n \in {"start", "success", "failure"}, NEW m \in Made,
           Send(b, n, m), n = "start" => tried[b] = {} /\ result[b] = "none",
           n # "start" => b \in built,
           n = "success" => result[b] = "ok", n = "failure" => result[b] = "err",
           Follows(b), kind[b] = "task" /\ n # "start" => m = manager[b],
           UNCHANGED <<managers, outcome, tried, heard>>
    PROVE  Follows(b)'
<1>1. pc'[b] = n /\ manager'[b] = m
  BY SendTypes DEF Inv, Senders, Notes
<1>2. Truthful(b)'
  BY <1>1 DEF Follows, Truthful, outcome
<1> QED
  BY <1>1, <1>2 DEF Follows, KeepsManager, outcome

LEMMA FollowsMoves ==
    ASSUME Inv, NEW b \in Builds, NEW to \in {"build", "returned", "over"},
           Follows(b), Truthful(b)',
           pc' = [pc EXCEPT ![b] = to], built' = built \/ built' = built \cup {b},
           to # "over" => b \in built',
           to = "over" /\ b \notin built' => HasCause(b) /\ kind[b] = "api",
           UNCHANGED <<managers, sending, kind, ctx, target, unregistered, tried, heard>>
    PROVE  Follows(b)'
<1>1. pc'[b] = to
  BY DEF Inv, Typed, Senders
<1>2. HasCause(b) => HasCause(b)'
  BY DEF HasCause, Tried, Made, managers, sending
<1>3. kind[b] = "task" => KeepsManager(b)'
  BY <1>1 DEF Follows, KeepsManager, sending
<1> QED
  BY <1>1, <1>2, <1>3 DEF Follows

LEMMA FollowsOwn ==
    ASSUME Inv, [Next]_vars, NEW b \in Builds, Follows(b),
           Goroutine(b) \/ Run(b) \/ Return(b) \/ (b \in Tasks /\ Launch(b))
    PROVE  Follows(b)'
<1>1. /\ b \in Senders /\ hNotifier \in Made /\ sNotifier \in Made /\ Advances(b) /\ Concluded(b)
      /\ kind[b] \in {"api", "task"} /\ (b \in ApiBuilds <=> kind[b] = "api")
      /\ (b \in Tasks <=> kind[b] = "task")
      /\ \A to : [pc EXCEPT ![b] = to][b] = to
  BY DEF Inv, Typed, Senders, ApiBuilds, Tasks
<1> DEFINE Moves(to) == pc' = [pc EXCEPT ![b] = to] /\ tried' = tried /\ result' = result
<1>0. /\ Moves("over") => Truthful(b)'
      /\ Moves("build") /\ pc[b] \in {"idle", "start"} => Truthful(b)'
  BY <1>1 DEF Follows, Truthful
<1>2. CASE b \in ApiBuilds /\ AnnounceStart(b)
  BY <1>1, <1>2, FollowsSends DEF AnnounceStart, Concluded, Follows, Truthful
<1>3. CASE b \in ApiBuilds /\ NoGitClient(b)
  BY <1>0, <1>1, <1>3, FollowsMoves DEF NoGitClient, Concluded, HasCause, outcome
<1>4. CASE b \in ApiBuilds /\ GiveUp(b)
  <2>1. HasCause(b)
    BY <1>1, <1>4 DEF GiveUp, Sent, Advances, HasCause
  <2> QED
    BY <1>0, <1>1, <1>4, <2>1, FollowsMoves DEF GiveUp, outcome
<1>5. CASE b \in ApiBuilds /\ Build(b)
  BY <1>0, <1>1, <1>5, FollowsMoves DEF Build, Sent
<1>6. CASE b \in ApiBuilds /\ Conclude(b)
  <2>1. UNCHANGED <<managers, outcome, tried, heard>> /\ b \in built
    BY <1>6 DEF Conclude, Follows
  <2>2. CASE \/ result[b] = "ok" /\ Send(b, "success", hNotifier)
             \/ result[b] = "err" /\ Send(b, "failure", hNotifier)
    BY <1>1, <1>6, <2>1, <2>2, FollowsSends
  <2>3. CASE pc' = [pc EXCEPT ![b] = "over"] /\ UNCHANGED sending
    BY <1>0, <2>1, <2>3, FollowsMoves DEF outcome
  <2> QED
    BY <1>6, <2>2, <2>3 DEF Conclude
<1>7. CASE b \in Tasks /\ Launch(b)
  BY <1>1, <1>7, FollowsSends DEF Launch, Concluded, Follows, Truthful
<1>8. CASE b \in Tasks /\ BuildTask(b)
  BY <1>0, <1>1, <1>8, FollowsMoves DEF BuildTask, Sent
<1>9. CASE b \in Tasks /\ ConcludeTask(b)
  <2>1. manager[b] \in Made /\ b \in built
    BY <1>1, <1>9 DEF ConcludeTask, Concluded, Follows
  <2>2. result[b] \in {"ok", "err"}
    BY <1>9 DEF ConcludeTask, Follows, Truthful
  <2> QED
    BY <1>9, <2>1, <2>2, FollowsSends DEF ConcludeTask, EndNote
<1>10. CASE b \in ApiBuilds /\ Unregister(b)
  BY <1>10, FollowsStays DEF Unregister, sending
<1>11. CASE Return(b)
  <2>1. pc'[b] = "returned" /\ result'[b] \in {"ok", "err"} /\ tried' = tried
    BY <1>1, <1>11 DEF Return, Inv, Typed
  <2>2. pc[b] = "build" /\ result[b] = "none" /\ b \in built
    BY <1>11 DEF Return, Follows, Truthful
  <2>3. Truthful(b)'
    BY <2>1, <2>2 DEF Follows, Truthful
  <2> QED
    BY <1>11, <2>2, <2>3, FollowsMoves DEF Return
<1> QED
  BY <1>2, <1>3, <1>4, <1>5, <1>6, <1>7, <1>8, <1>9, <1>10, <1>11 DEF Goroutine, Run

LEMMA FollowsDelivery ==
    ASSUME Inv, [Next]_vars, NEW b \in Builds, Follows(b), Delivery(b)
    PROVE  Follows(b)'
<1>1. b \in Senders /\ Advances(b) /\ Concluded(b) /\ b \notin Stops
  BY AnnouncementsAssumption DEF Inv, Senders
<1>2. CASE Try(b)
  <2>1. PICK got \in BOOLEAN, err \in BOOLEAN : Record(b, got, err)
    BY <1>2 DEF Try
  <2>2. tried'[b] = tried[b] \cup {Note(manager[b], NextChannel(b), pc[b])}
    BY <1>1, <2>1 DEF Record, Note, Inv, Typed
  <2>3. UNCHANGED <<managers, pc, manager, outcome>> /\ pc[b] \in Notes
    BY <1>1, <1>2 DEF Try, Advances
  <2>4. pc[b] \in {"start", "success", "failure"}
    BY <1>1, <2>3 DEF Concluded, Notes
  <2> HIDE <1>2
  <2>5. Truthful(b)'
    BY <2>2, <2>3, <2>4 DEF Follows, Truthful, Note, outcome
  <2> QED
    BY <2>2, <2>3, <2>5 DEF Follows, KeepsManager, Notes, Note, outcome
<1>3. CASE Over(b)
  <2>1. pc[b] \in {"success", "failure"}
    BY <1>1, <1>3 DEF Over, Sent, Concluded, Notes
  <2>2. Truthful(b)'
    <3>1. pc'[b] = "over" /\ tried' = tried /\ result' = result
      BY <1>1, <1>3 DEF Over, Inv, Typed, outcome
    <3> QED
      BY <3>1 DEF Follows, Truthful
  <2> QED
    BY <1>3, <2>1, <2>2, FollowsMoves DEF Over, Follows, outcome
<1> QED
  BY <1>2, <1>3 DEF Delivery

LEMMA FollowsNext ==
    ASSUME Inv, [Next]_vars, NEW b \in Builds, Follows(b)
    PROVE  Follows(b)'
<1>0. b \in Senders /\ b \notin Stops /\ Typed
  BY AnnouncementsAssumption DEF Inv, Senders
<1>1. CASE ReloadNotifier \/ SetSchedulerNotifier \/ UNCHANGED vars
  BY <1>1, FollowsStays DEF ReloadNotifier, SetSchedulerNotifier, vars, sending, outcome
<1>2. CASE Goroutine(b) \/ Run(b) \/ Return(b) \/ (b \in Tasks /\ Launch(b)) \/ Delivery(b)
  BY <1>2, FollowsOwn, FollowsDelivery
<1>3. ASSUME NEW d \in Builds \ {b}, Goroutine(d) \/ Run(d) \/ Return(d) \/ Launch(d)
      PROVE  Follows(b)'
  <2>1. /\ pc'[b] = pc[b] /\ manager'[b] = manager[b] /\ left'[b] = left[b]
        /\ failed'[b] = failed[b]
    BY <1>0, <1>3 DEF Goroutine, AnnounceStart, NoGitClient, GiveUp, Build, Conclude,
       Unregister, Run, BuildTask, ConcludeTask, Return, Launch, Send, sending, Typed
  <2>2. /\ tried' = tried /\ ctx' = ctx /\ (b \in built' <=> b \in built)
        /\ result'[b] = result[b]
    BY <1>0, <1>3 DEF Goroutine, AnnounceStart, NoGitClient, GiveUp, Build, Conclude,
       Unregister, Run, BuildTask, ConcludeTask, Return, Launch, outcome, Typed
  <2> QED
    BY <2>1, <2>2, FollowsStays
<1>4. ASSUME NEW d \in Builds, Expire(d) PROVE Follows(b)'
  BY <1>0, <1>4, FollowsStays DEF Expire, sending, Typed
<1>5. ASSUME NEW s \in Stops, NEW d \in ApiBuilds, StopBuild(s, d) PROVE Follows(b)'
  <2>1. /\ pc'[b] = pc[b] /\ manager'[b] = manager[b] /\ left'[b] = left[b]
        /\ failed'[b] = failed[b] /\ tried' = tried /\ built' = built /\ result' = result
    BY <1>0, <1>5 DEF StopBuild, Send, Typed
  <2>2. kind[b] = "task" => ctx'[b] = ctx[b]
    BY <1>0, <1>5 DEF StopBuild, ApiBuilds, Typed
  <2> QED
    BY <2>1, <2>2, FollowsStays
<1>6. ASSUME NEW x \in Senders \ {b}, Delivery(x) PROVE Follows(b)'
  <2>1. /\ pc'[b] = pc[b] /\ manager'[b] = manager[b] /\ left'[b] = left[b]
        /\ failed'[b] = failed[b] /\ tried'[b] = tried[b]
    BY <1>0, <1>6 DEF Delivery, Try, Over, Record, sending, Typed
  <2>2. built' = built /\ ctx' = ctx /\ result' = result
    BY <1>6 DEF Delivery, Try, Over, outcome
  <2> QED
    BY <2>1, <2>2, FollowsStays
<1>7. CASE \E d \in Builds :
             Goroutine(d) \/ Run(d) \/ Return(d) \/ Expire(d) \/ (d \in Tasks /\ Launch(d))
  BY <1>2, <1>3, <1>4, <1>7
<1>8. CASE \E x \in Senders : Delivery(x)
  BY <1>2, <1>6, <1>8
<1>9. Tasks \subseteq Builds
  BY DEF Tasks
<1> QED
  BY <1>1, <1>5, <1>7, <1>8, <1>9 DEF Next

LEMMA FollowsInvariance == Spec => [](\A b \in Builds : Follows(b))
<1>1. Init => \A b \in Builds : Follows(b)
  BY DEF Init, Follows, Truthful, KeepsManager, Senders
<1>2. Inv /\ (\A b \in Builds : Follows(b)) /\ [Next]_vars => (\A b \in Builds : Follows(b))'
  BY FollowsNext
<1> QED
  BY <1>1, <1>2, Invariance, PTL DEF Spec

(* A task that is over has sent what BuildRepository returned to every     *)
(* channel it sent its start (buildRepositoryTaskWithNotify keeps its      *)
(* notifier): the safety half of TasksAreConcluded.                        *)
THEOREM TasksTellTheirEnd == Spec => []TaskEndsAreTold
<1>1. ASSUME Inv, \A b \in Builds : Follows(b), NEW t \in Tasks, pc[t] = "over"
      PROVE  /\ t \in built
             /\ \A a \in tried[t] : /\ a.note \in {"start", EndNote(t)}
                                    /\ Note(a.manager, a.channel, EndNote(t)) \in tried[t]
  <2>1. /\ t \in Builds /\ KeepsManager(t) /\ Truthful(t) /\ Concluded(t) /\ ManagersGrow(t) /\ left[t] = {}
    BY <1>1 DEF Tasks, Follows, Inv, Advances, Senders, Notes
  <2>2. PICK n \in {"success", "failure"} : Tried(t, n)
    BY <1>1, <2>1 DEF KeepsManager, Concluded
  <2>3. t \in built
    BY <1>1, <2>1 DEF KeepsManager
  <2>4. ASSUME NEW a \in tried[t] PROVE Note(a.manager, a.channel, n) \in tried[t]
    BY <2>1, <2>2, <2>4 DEF KeepsManager, ManagersGrow, Tried
  <2>5. ASSUME NEW a \in tried[t] PROVE n = EndNote(t)
    <3>1. Note(a.manager, a.channel, n).note = n
      BY DEF Note
    <3> QED
      BY <2>1, <2>2, <2>4, <2>5, <3>1 DEF Truthful, EndNote
  <2>6. ASSUME NEW a \in tried[t] PROVE a.note \in {"start", EndNote(t)}
    BY <2>1, <2>6 DEF Truthful, EndNote
  <2> QED
    BY <2>3, <2>4, <2>5, <2>6
<1>2. Inv /\ (\A b \in Builds : Follows(b)) => TaskEndsAreTold
  BY <1>1 DEF TaskEndsAreTold
<1> QED
  BY <1>2, Invariance, FollowsInvariance, PTL

(* No build that was built ends unannounced: SendBuildSuccess,             *)
(* SendBuildFailure or the SendBuildStop of the request that silenced it   *)
(* was sent to all channels of the manager there was.                      *)
THEOREM EndsAreTold == Spec => []EveryEndIsTold
<1>1. ASSUME Inv, NEW b \in Builds, b \in built, \A x \in EndersOf(b) : pc[x] = "over"
      PROVE  \E x \in EndersOf(b) : \E n \in Notes \ {"start"} :
                /\ manager[x] \in Made
                /\ \A c \in channels[manager[x]] : Note(manager[x], c, n) \in tried[x]
  <2>1. Concluded(b) /\ b \in Senders /\ b \in EndersOf(b) /\ EndersOf(b) \subseteq Senders
    BY <1>1 DEF Inv, Senders, EndersOf
  <2>2. \A x \in EndersOf(b) : left[x] = {}
    BY <1>1, <2>1 DEF Inv, Advances, Notes
  <2>3. CASE ctx[b] = "canceled"
    <3>1. PICK s \in Stops : target[s] = b
      BY <1>1, <2>3 DEF Inv, CancelsHaveStops
    <3>2. s \in EndersOf(b) /\ pc[s] = "over" /\ left[s] = {}
      BY <1>1, <2>2, <3>1 DEF EndersOf
    <3>3. manager[s] \in Made /\ Tried(s, "stop")
      BY <1>1, <3>2 DEF Inv, Stopped
    <3> QED
      BY <3>2, <3>3 DEF Tried, Notes
  <2>4. CASE manager[b] \in Made /\ \E n \in {"success", "failure"} : Tried(b, n)
    BY <2>1, <2>2, <2>4 DEF Tried, Notes
  <2> QED
    BY <1>1, <2>1, <2>3, <2>4 DEF Concluded
<1>2. Inv => EveryEndIsTold
  BY <1>1 DEF EveryEndIsTold
<1> QED
  BY <1>2, Invariance, PTL

(* TriggerBuild's early returns: a build answered "build started" is given *)
(* up only without a git client or after SendBuildStart tried all channels *)
(* and one failed (what refutes StartedIsBuilt, and nothing else does).    *)
THEOREM GivenUpRarely == Spec => []GivenUpForCause
<1>1. (\A b \in Builds : Follows(b)) => GivenUpForCause
  BY DEF Follows, GivenUpForCause
<1> QED
  BY <1>1, FollowsInvariance, PTL

=============================================================================
