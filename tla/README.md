# docker-build, modelled in TLA+

docker-build is one Go process: an HTTP API, a cron scheduler and a file watcher
around one pipeline that clones a repository and runs `docker buildx build --push`.
This directory holds TLA+ modules of it, the TLC instances that check them and TLAPS
proofs of the properties that matter most. Paths below are relative to `src/`.

## Inventory

| component | state | operations | who it talks to |
|---|---|---|---|
| API build control (`internal/api/handler.go`) | `h.cfg` under `h.mu`; `buildingRepos` and `buildContexts`, a mutex each; a context and a goroutine per build | `TriggerBuild`, its goroutine and deferred function, `StopBuild` | builder, notify |
| Build call (`internal/builder`, `internal/docker/build.go`) | a temporary directory, child processes | `BuildRepository`: branch question, clone, Dockerfile, buildx | git clients, git, docker |
| Git clients (`internal/git`) | none | `ValidateBranch`, `GetDefaultBranch` | external services |
| Configuration reload (`internal/api/handler.go`, `main.go`, `internal/config/watcher.go`) | the file; `h.cfg`, `s.cfg`, two notifier pointers | `UpdateConfig`, `ReloadConfig`, the watcher's callback | scheduler, notify |
| Scheduler (`internal/scheduler`) | `s.cfg`, clients, notifier, the cron entries | `Start`, `Restart`, `Stop`, the setters, the functions cron calls | builder, notify |
| Configuration loading (`internal/config/config.go`) | none | `LoadConfig`, `Validate`, `ToYAML`, names | the file |
| Notification (`internal/notify`) | channels; DingTalk's cached access token | `SendBuild*`, `getAccessToken` | external services |
| Log streaming (`StreamLogs`, the viewer in `internal/web/static/index.html`) | a position per connection; what the viewer shows | the tail loop; connecting again | the log file |
| Server, shutdown, log file, assets, status queries, `docker.go` | wiring | start, signal, shutdown | net/http, the file system |

What is hard here: handlers, build goroutines, cron goroutines and the watcher run
concurrently and share state under four mutexes that are never held together. So
nothing can deadlock on locks, and nothing that takes two critical sections is atomic.
Some state has no lock at all: the notifier pointers where they are read, and DingTalk's
token. Builds are canceled, time out and fail at any point; configurations change under
running builds; connections are cut. Only the configuration file and the log outlive
the process.

What makes each component correct:

- Build control: one build per index; the index and the cancel function are given back
  on every path; a stop request reaches the build under its index, once; an end is
  announced of what was announced as started.
- Build call: no phase that runs under the context starts once it is over; an image
  holds the sources its name says, whatever runs beside it; no directory is left behind.
- Reload: once everybody has come to rest, the file, `h.cfg`, `s.cfg`, the cron entries
  and both notifiers agree; everybody does come to rest.
- Scheduler: one cron runs; a firing becomes a build, of an entry in force, with a
  configuration no older than the firing.
- Loading: what the API accepts can be loaded and what loads can be posted; the
  operator's entries are kept; defaults are applied.
- Notification: no expired token is used; one failing channel does not silence others;
  a replaced manager does not swallow the end of a build.
- Log streaming: the viewer shows the lines in order and without gaps, and comes back for
  what an error has cost it; handlers whose clients left or whose deadlines passed return.

`PROJECT.json` lists the hazards line by line.

## Modules

| module | models |
|---|---|
| `BuildCall` | abstract: the context of a build (live, canceled, expired) and the phases of `BuildRepository` its callers depend on, with the two where nothing reaches it |
| `BuildPipeline` | `BuildRepository` stage by stage, many side by side; implements `BuildCall` |
| `BuildControl` | `TriggerBuild`, its goroutine and deferred function, `StopBuild`; extends `BuildCall` |
| `BuildSlots` | abstract: what triggers and stops promise, without the two maps; `BuildControl` implements it |
| `ConfigReload` | the file, `UpdateConfig`, `ReloadConfig`, the watcher and its callback, edits; the copies of the configuration |
| `RepositoryEntries` | what the scheduler reads of an entry: built at once, by time, or not |
| `Schedule` | abstract: one list of entries in force at a time |
| `Scheduler` | `Start`, `Restart`, `Stop`, the setters and their callers, the functions cron calls; implements `Schedule` |
| `Announcements` | `notify.Manager`'s channels and `ReloadNotifier` under running builds of both kinds |
| `DingtalkToken` | the token cache, with a clock |
| `ConfigLoad` | `Validate`, `ToYAML`, `LoadConfig` with its loop, the names, the start of `main` |
| `LogStream` | `StreamLogs`, the server's `ReadTimeout` and `WriteTimeout`, the page's viewer |
| `BuildControlProofs`, `BuildPipelineProofs`, `ConfigReloadProofs`, `SchedulerProofs`, `AnnouncementsProofs`, `DingtalkTokenProofs`, `ConfigLoadProofs`, `LogStreamProofs` | the proofs, one module per detailed model |
| `MC...` | the instances for TLC |

How they fit together. `BuildCall` is the joint between those who start builds and the
build: `BuildControl` extends it and composes with its steps, and `BuildPipeline` is
shown to implement it. Neither `Scheduler` nor `Announcements` assumes that a build ends.
`Announcements` takes from `BuildControl` which announcements a goroutine makes and from
`Scheduler` that a task keeps the manager it was launched with. `ConfigReload` has the
whole of the two reload paths; `Scheduler` sees only their calls of it.

### BuildCall

The phases of `call`: `branch`, the question to the git server; `fetch`, the branch is
known; `clone`, git runs; `prepare`, the listing and the Dockerfile; `docker`, buildx runs.
`StartClone` and `StartDocker` need a context that is not over, since `exec.Cmd.Start`
looks. `Unwind` is the return after the context's end that the code does guarantee: git and
`ls` write to `os.Stdout` itself (`builder.go` 130-131), so `Run` returns when they are
killed. `Stranded` is what it does not: the question to the git server has neither context
nor timeout (`builder.go` 86-95), and docker writes to an `io.MultiWriter` without a
`WaitDelay` (`docker/build.go` 52-58), so `Wait` goes on until every process that has
inherited the pipe is gone, however dead docker is.

### BuildControl

One element of `Builds` is a POST to `/build/trigger` with its handler and goroutine,
one element of `Stops` a POST to `/build/stop`. `pc` and `spc` say where each is; every
critical section is one action, everything between two of them interleaves:

| action | code in `internal/api/handler.go` |
|---|---|
| `TriggerBuild`, `RefuseTrigger` | request and index check against the `cfg` read, 222-247 |
| `Claim`, `RefuseClaim` | section under `buildingReposMu`, `WithTimeout`, 249-258 |
| `Register` | section under `buildContextsMu`, `go`, 260-264 |
| `NoGitClient`, `AnnounceStart` | the goroutine up to the call of the builder, 277-294 |
| `Build` | a phase of `BuildRepository` (from `BuildCall`) |
| `Conclude`, `AnnounceEnd` | `err`, `ctx.Err()`, the final notification, 296-311 |
| `Release`, `Unregister` | the deferred function, 265-275 |
| `StopBuild`, `RefuseStop`, `CancelBuild`, `NothingToStop`, `AnnounceStop` | 321-373 |
| `ReplaceConfig` | any replacement of `h.cfg` |
| `Deadline` | the timer of the context |

`buildContexts[i]` holds the identity of the build whose cancel function is filed
there. `cancel()` in the deferred function follows the deletion without a lock; it is
part of `Unregister`, since nothing reads that context in between. Requests that are
not POST or not JSON change nothing and are left out.

Abstracted: what a notification says (only that it was sent), why a phase fails, the
length of the deadlines. `AnnounceStop` records whose build was stopped; the repository
it names is that of the list the request had read, which after a reload may be another.

### BuildPipeline

| action | code |
|---|---|
| `MakeContext`, `EndContext` | the caller's context, `scheduler/task.go` 47-55 and `handler.go` 258, 350 |
| `BuildRepository` | entry by value, `builder/builder.go` 18-19 |
| `MakeDir`, `NoDir`, `Return` | `MkdirTemp` and the deferred `RemoveAll`, 20-28 |
| `ValidateBranch`, `BranchNotValid`, `NilClient` | `isBranchExist`, 81-93; the client, `git/gitea.go` 67-82, `git/github.go` |
| `GetDefaultBranch`, `NoDefaultBranch` | 95-101; `gitea.go` 54-65 |
| `StartClone`, `NilSection`, `Cloned`, `CloneFails` | `cloneRepository`, 103-133, and what `CloneRepository` does after it, 62-79 |
| `CopyDockerfile`, `NoDockerfile` | 159-174 |
| `StartBuildx`, `Push`, `BuildxFails`, `BuildxDone` | `docker/build.go` 15-57 and `builder.go` 50-61 |

Sources are a repository and a ref; a directory holds sources or none; the registry
keeps the last image pushed under a name. URLs, paths, branches and tags are sequences
of the words they are put together from: `ImageName` and `NameImage` join them the way
`GetImageName` and `updateRepoImageName` do, each on its own, and different repositories
can come out with the same name. `section` says whether the configuration the build was
called with has a gitea section, which `cloneRepository` dereferences for auth gitea
(`HasCredentials`). The question to the git server and the fetch
are two steps, and a failed request looks like an unknown branch, as in the code.
`dir` is a fresh name each time, as `MkdirTemp` makes it; git refuses a directory that
is not empty. The error of `RemoveAll` is dropped (28), so a directory may be `leftBehind`.
`alive` turns false when a nil client or a missing section is dereferenced.

### ConfigReload

A configuration is a version and a form: `raw`, as `ConfigFromJSON` returns it, or
`loaded`, with the names `LoadConfig` derives. The file holds a version, is `Empty`
(truncated by a write under way) or `Torn` (parts of two writes). Each statement that
reads or assigns one copy is an action; `pc` says where a request or the watcher is and
`held` which `*config.Config` it holds in a local variable:

| action | code |
|---|---|
| `UpdateConfig` | `handler.go` 85-118, up to the write |
| `Truncate`, `WriteContent`, `WriteFails` | `os.WriteFile`, `handler.go` 120-123 |
| `PublishRaw` | `h.cfg = newCfg`, `handler.go` 125-127 |
| `ReadForScheduler`, `SetScheduler` | `ReloadScheduler`, `handler.go` 145-160; `SetScheduler` also `main.go` 87 |
| `ReadForNotifier`, `SetNotifier`, `SetSchedulerNotifier` | `ReloadNotifier`, `handler.go` 162-184 |
| `ReloadConfig`, `LoadConfig`, `PublishLoaded` | `handler.go` 387-401 and 55-64, also `main.go` 82-86 and 89 |
| `TakeEvent`, `Restart` | `internal/config/watcher.go` 39-51; `Scheduler.Restart` |
| `EditInPlace`, `ReplaceFile` | an editor outside: writing in place, or renaming a new file over the old one |

A loaded `Torn` file is a configuration no one wrote; whether it parses is left open.
The file watcher is external: a write is an event of the directory, and inotify merges
it with an equal one that has not been taken. A rename over the file shows as a Create,
which `Start` ignores; only concurrent clients do it. Renaming the file away and
deleting it are left out, as are requests that are refused before they write. The
variable `clients`, chosen in `Init` and never changed, is how the world behaves:

- `concurrent`: requests and edits come at any time;
- `sequential`: one at a time, but without regard to the watcher;
- `patient`: the next one waits until the watcher has dealt with the last.

### Scheduler

`Start`, `Restart`, `Stop` and the setters hold `s.mu` throughout, so each is one
action. The functions cron calls hold nothing.

| action | code |
|---|---|
| `Start`, `Stop` | `scheduler/scheduler.go` 50-85, 130-136; called by `main.go` 65-105 |
| `Restart` (`NewCron`, `BuildAtOnce`) | 87-128 |
| `SetConfig`, `SetNotifier` | 31-48 |
| `WatcherSetsConfig`, `WatcherRestarts` | `main.go` 80-88 |
| `ApiSetsConfig`, `ApiSetsNotifier` | `handler.go` 145-160, 179-180 |
| `Fire`, `ReadConfig`, `ReadNotifier`, `Launch` | the function given to `AddFunc`, 116-119: called, its arguments evaluated in any order, the task entered |
| `Finish` | the end of `buildRepositoryTaskWithNotify`, `task.go` 44-81 |
| `Exit` | `main` returns and with it all goroutines |

Configurations and notifiers carry the number of their setting, which is what
"older" means. `asked` is the number in force at the firing. A task that is built at once
gets its arguments under `s.mu`. `Schedule` is seen through `inForce` = the entries of
all crons that run, and `job` = the entry of each task.

### Announcements

| action | code |
|---|---|
| `ReloadNotifier`, `SetSchedulerNotifier` | `handler.go` 162-184 |
| `Send`, `Try`, `Over` | `Manager.SendBuildStart`, and its three siblings which differ only in the wording, `notify/manager.go` 42-62: the channels one by one, errors counted |
| `NoGitClient`, `AnnounceStart`, `GiveUp`, `Build`, `Conclude` | the goroutine of `TriggerBuild`, `handler.go` 277-311 |
| `Return` | the return of `BuildRepository`, `handler.go` 294 and `task.go` 62 |
| `Unregister` | the deferred function, `handler.go` 265-275, in one step |
| `StopBuild` | `handler.go` 347-359 |
| `Launch`, `BuildTask`, `ConcludeTask` | `buildRepositoryTaskWithNotify`, `task.go` 44-81 |

A request to a channel is delivered or not and reported as failed or not, in all four
combinations: ntfy returns no error where url or topic are missing (`ntfy.go` 36-39), and
DingTalk's answer is only looked at for a numeric error code (`dingtalk.go` 181). So
`tried` says what was sent and `heard` which starts arrived; whether an end arrives is
never promised. `result` is what `BuildRepository` returned, which the announcement of the
end depends on. `NewManager` may leave DingTalk out (`dingtalk.go` 55-58). A build is one
of the API or of the scheduler (`kind`, chosen in `Init`).

### DingtalkToken

`accessToken` and `tokenExpiry` are fields without a lock, so `CheckToken`, `SetToken`,
`SetExpiry` and `ReturnToken` are separate actions of every sender (`dingtalk.go`
65-105). A token is the time at which the server stops taking it. `Tick` advances the
clock by one unit and never past the timeout of a stage that has begun, since both
requests are bounded by `client.Timeout` (43-48) and the rest is a few statements. A
racing read of a string or a time that tears is not modelled beyond old or new value.

### ConfigLoad

`Post` is `Validate` and `ToYAML` behind `/config/update` (`handler.go` 85-123), `Write`
an operator; then `LoadConfig` (`config.go` 88-128), its loop `FillDefaults`, `Refuse`,
`PutBack` (130-158), `Loaded`, and `StartMain` (`main.go` 38-56), which may also exit for
want of a docker client. A file may not decode (`decodes`). `web_http` gets its defaults in
the configuration itself (`WithAddress`, 100-106), where they stay. An entry is a record
of the fields the code branches on; a URL is "", one of GitHub or one of gitea. `repo` is
the copy `range` makes, whose loss of the entries' defaults is the point of the model.

### LogStream

`OpenLog` (`handler.go` 403-443), `Tick` (452-472), `ReadChunk` (441-481),
`ContextDone` (456-458); `InitLogViewer`, `Receive`, `Reconnect` and `DoneSeen` are
`index.html` 568-627. `ReadTimeout` and `WriteTimeout` are `server/server.go` 37-38: the
read deadline of the request stays on the connection, where the server's background
read meets it and cancels `r.Context()`; a write after the other deadline, or to nobody,
fails. A handler that returns before the write deadline ends the body cleanly, and the
page leaves its loop for good (605); after it the last chunk cannot be written, the read
fails, and the page connects again (616-627). Lines have equal length: that is how
`tailLines` counts (200 bytes each), and a chunk is `Buf` of them. Lines of other
lengths may be cut at the start and are left out.

### Mutants

The operators named in comments as mutants are slips the code could have had. No
specification uses them; `PROJECT.json` pairs each with the property that catches it.

## Runs

| run | instance | properties |
|---|---|---|
| `control` | 2 builds, 1 stop, 2 indices, 2 lists | `TypeOK`, `OneBuildPerIndex`, `SlotsAreHeld`, `ContextsBelong`, `OnlyOwnStopCancels`, `OnlyDrainingDisplaced`, `ImplementsSlots`, `CanceledEarlyNeverSucceeds`, `SlotFreed`, `StartIsConcluded`, `StopEndsBuild` |
| `reload` | an update, a reload, an edit, 2 versions; clients of all three kinds | `TypeOK`, `HandlerFollowsFile`, `CopiesFollowFile`, `NotifiersAgree` |
| `pipeline` | 2 builds, 3 directories, 4 entries | `TypeOK`, `ImageHoldsItsSources`, `ImagesAreOfBranches`, `DirsHaveOwners`, `ImplementsCall` |
| `scheduler` | 2 tasks, 2 lists, a change of each setting, 2 crons | `TypeOK`, `OneCronRuns`, `RunsUseCurrentConfig`, `ImplementsSchedule`, `FiringIsBuilt` |
| `announce` | 1 build of either kind, 1 stop, 2 managers | `TypeOK`, `StartersAreTold`, `GivenUpForCause`, `TasksAreConcluded` |
| `load` | every combination of an entry's fields, lists of 2, sections missing | `TypeOK`, `PostedIsLoadable`, `LoadedIsPostable`, `EntriesAreKept` |
| `stream` | 2 connections, 3 lines, chunks and tails of 2, 1 truncation, 2 visits | `TypeOK`, `LinesInOrder`, `NoLineIsSkipped`, `LinesAreShown`, `HandlersReturn` |
| `token` | 2 senders, timeout 1, margin 5, lifetime 7, clock to 13 | `TypeOK`, `NoExpiredTokenIsSent` |
| `control_unstoppable` | 2 builds, 1 stop, 1 index | `StopFindsRunningBuild` is violated |
| `reload_scheduler` | 2 updates, sequential | `SchedulerFollowsFile` is violated |
| `pipeline_default` | 1 build of a named branch | `DefaultIsForUnset` is violated |
| `load_defaults` | an entry with a URL only | `DefaultsAreFilledIn` is violated |

Bounds, and why they are enough.

- `control`: a race on an index needs the build that drains and the one that takes its
  place; a stop request can fall into every gap between them. Two indices let a request
  hit the wrong one; the two lists differ in length and in the repository at index 0, so
  a reload changes the meaning of an index and makes one invalid. `r2` has no git client.
  The invariants are proved for any number of builds and stops.
- `reload`: a party goes wrong when it holds a version older than the last one written,
  which takes one to hold and one to write. `MaxEvents` is 2, an event on its way and a
  merged one behind it. The proofs cover any number of requests.
- `pipeline`: two builds of one repository can meet in a directory or under a name; the
  entries name a branch, a tag, none, and a local Dockerfile, and images of two of them
  can have one name. The third directory is for one that was left behind.
- `scheduler`: a cron that is replaced and its successor, a task fired by each. The two
  lists move a repository from cron to at once and back and hold a disabled, an
  unauthenticated and a malformed entry. Safety is proved without these bounds.
- `announce`: a build has at most one start and one end, so a second manager replaces
  the first at every moment that matters; the second one may lack a channel. The proof
  covers any number of builds, stop requests and managers.
- `load`: nothing is bounded but the length of the list, and each step looks at one
  element. The proof covers lists of any length.
- `stream`: more lines than a chunk and than the tail; the second connection exists
  because the viewer opens it while the first handler has not returned. The two
  invariants are proved for any tail, buffer and number of connections.
- `token`: one fetch in the constructor and one by a sender, and time for a token to
  expire; the margin is exactly five timeouts, the smallest that holds. The proof covers
  any number of senders and any values.

No run checks deadlock but `control_unstoppable` and `control`: elsewhere requests,
lines and time run out.

Fairness. Clients, users, operators and editors are never assumed to act.

- `BuildControl`, `PromptFairness`: handlers and goroutines are scheduled by the Go
  runtime, mutexes are held for a few statements, and the notifiers' HTTP clients have
  timeouts. Of `BuildRepository` only `Unwind` is assumed: it returns when its context is
  over before docker was started. Nothing is assumed of the git server, of docker, or of
  a docker that was killed. `SlotFreed`, `StartIsConcluded` and `StopEndsBuild` therefore
  except a build that is `Stranded` for ever, and say by that that there is no third
  place. `TimerFairness`, that the timer of `WithTimeout` fires, is a hypothesis inside
  `SlotFreed` and `StartIsConcluded`, so that `StopEndsBuild` is checked without it.
- `ConfigReload`: none. Its properties are about what holds at rest and in each step.
- `Scheduler`: the goroutine cron makes for a firing gets to its build (`Begins`), until
  the process ends. That a build ends is not assumed.
- `Announcements`: goroutines run, and a request to a channel comes back since it has a
  timeout of ten seconds. Neither a stop request nor the return of `BuildRepository` is
  assumed; `TasksAreConcluded` excepts a task that builds for ever.
- `LogStream`: handlers and the page's event loop run, the deadlines may never come. The
  page's reading has strong fairness: what is on the wire is taken from it when the
  connection ends, and without it the page could find every connection, one after the
  other, ended before it had read a thing, though each lasts for seconds.

What they show. The index discipline holds under every interleaving of triggers, stops,
deadlines and reloads, and `BuildControl` implements `BuildSlots`. An index and a stopped
build come to an end but in two places, which the properties name. The end of a build
that was run and ended is announced, also when stop and deadline race. Images hold the sources
their names were made of, of the branch asked for or the default branch, and directories
are private while their builds are at work. The configuration follows the file at rest,
in the API whenever requests come one at a time, in the scheduler and its cron entries
when each also waits for the watcher; an empty file is never published. Restarts neither
double nor lose a firing, and no run uses a configuration older than its entry. Whoever
hears a scheduled build start is sent its end through the same manager, if the build
ends. Posting and loading accept the same configurations. The log viewer comes back for
the lines that failed writes have cost it; after a clean end it does not.

## Findings

- `control_unstoppable`. The deferred function frees the index and then, in a second
  section, deletes `buildContexts[index]`. A build triggered in between has registered
  there and loses its cancel function: `StopBuild` answers "no build in progress for this
  repo" (`handler.go:364`) while it runs and `/build/status` lists it.
  `OnlyDrainingDisplaced` is the counterpart that holds.
- `reload_scheduler`. `ReloadScheduler` reads `h.cfg` again instead of taking what its
  caller published; the callback of an earlier write may have put the older version
  there, and the scheduler keeps it, after two updates one behind the other.
- `pipeline_default`. A failed request to the git server is taken for an unknown branch,
  and the default branch is built although the entry names another one.
- `load_defaults`. The loop of `LoadConfig` writes the defaults into the list and then
  overwrites the element with the copy made before: none of the entries' defaults
  survives. Those of `web_http` do, they are not in the list.

### Other statements the models refute

Each is stated in its module, beside what the repository says. To see the trace, put
the statement as the only INVARIANT (PROPERTY for `ReloadReachesEntries`,
`NameIsOfOneRepository`, `StoppedEnds` and `ConnectedPagesFollow`) into the cfg named,
with the change named. How far six of them go, for every value of the constants, is a
theorem: `BranchesAreBuilt` (of `TagIsBuilt`), `ImagesAreTrue` (of
`NameIsOfOneRepository`), `OnlyNilClientsPanic`, `GivenUpRarely` (of `StartedIsBuilt`),
`OnlyGiteaPanics` (of `CompleteExampleStarts`), `ReloadsTakeEffect` (of `NamesGenerated`).

| statement | cfg | what happens |
|---|---|---|
| `StoppedEnds` | `BuildControl.cfg` | "build stopped" (`handler.go:371`), and the git server never answers or a child of docker's keeps the pipe: the index stays taken |
| `ConnectedPagesFollow` | `LogStream.cfg` | the read deadline ends the context of a log stream after 15 seconds, the body ends cleanly, the page takes that for the end (`index.html:605`) and shows nothing logged later, under a status "● 已连接" (`:597`) |
| `NameIsOfOneRepository` | `PipelineDefault.cfg`, two builds, two directories, `Entries <- MCSameName` | `app` at `dev` and `app-dev` at its default branch `main` push to one name (`builder.go:152`) |
| `TagIsBuilt` | `PipelineDefault.cfg`, `Entries <- MCOnTag` | a tag is asked for as a branch (`git/github.go:70`), gets 404 and becomes the default branch, against `README.md:20` |
| `PlatformsAreBuilt` | the same, `MCOnArm` | a single platform is replaced by `linux/amd64` (`docker/build.go:19`), against `README.md:145` |
| `NamedImageIsPushed` | the same, `MCUntagged` or `MCOnGone` | announced as `user/app:`, pushed as `user/app:latest` (`config.go:175`); announced with the branch asked for, pushed with the default one |
| `NilClientIsAnError` | the same, `MCOnGitea` | a nil `*GiteaClient` in the map is not nil, and the panic in a build's goroutine ends the process (`builder.go:82`); so does a missing gitea section (`builder.go:108`) |
| `StartedIsBuilt` | `Announcements.cfg` | one failing channel and a build answered "build started" (`handler.go:317`) is never run |
| `StoppedIsNoSuccess` | the same | a stop request after the push is answered "build stopped" (`handler.go:371`) and the build announced as a success |
| `EnabledChannelsAreThere` | the same | DingTalk is logged as enabled (`manager.go:35`) and missing when its token could not be had |
| `ExampleIsLoaded` | `LoadDefaults.cfg`, `Raws <- MCExample` | `config.example.yaml` has a gitea section without url and is refused |
| `CompleteExampleStarts` | the same, `MCComplete` | without a gitea section `main.go:55` dereferences nil |
| `TokenIsOptional` | the same, `MCNoToken` | `github.token` is required (`config.go:120`), `README.md:119` says it is not |
| `NamesGenerated` | `ConfigReload.cfg` | `UpdateConfig` publishes the raw form after the watcher published the loaded one: no names in announcements |
| `ReloadReachesEntries` | `ConfigReload.cfg` | `/config/reload` does not restart the scheduler: a file replaced by a rename never reaches the cron entries |
| `NotifiersAgree` without its first condition | `ConfigReload.cfg`, two updates | overlapping updates set the two notifiers in opposite orders |
| `NoExpiredTokenIsSent` | `DingtalkToken.cfg`, `Lifetimes = {3}` | `ExpiresIn` (`dingtalk.go:89`) is not used: a token shorter-lived than 7200 s is sent after its end, against the comment at `:100` |

## Proofs

TLAPS checks all of these for every value of the constants under the named assumption
of each module. Most modules have a second invariant on top of the first, for what the
caller of a component can count on; the first says why the bookkeeping is right and nothing of outcomes.

`BuildControlProofs` (any `Builds`, `Stops`, `Indices`, `Repos`, `Configs`):
`TypeCorrect`; `MutualExclusion`, `SlotBookkeeping`, `ContextBookkeeping`, the three
invariants; `CancelsStayHome`, `DisplacementIsHarmless`, the two action properties;
`Refinement`, `Spec => ImplementsSlots`. `OneBuildPerIndex` is not inductive: that a free
index has no build is `SlotsAreHeld`, which in turn needs `OneBuildPerIndex` at a
release. `ContextsBelong` needs to know that no stop request has a build as its target
before it is registered (`TargetsWereRegistered`). `NextInv` has a step per action; most
are instances of four frame lemmas.

What is announced needs more (`ToldInv`): a notification follows what `BuildRepository`
returned (`AnnouncedAsReturned`), and a build that ended without one was reached by a
stop request (`SilenceIsStopped`), which has told its starter or is about to
(`StopsAreTold`). Hence `OutcomesAreTrue`; `NoSilentEnd`, what the liveness property
`StartIsConcluded` rests on; and `StoppedInTime`, `Spec => CanceledEarlyNeverSucceeds`:
a call that has not started docker when its context is canceled never returns success,
step by step from `BuildCall`'s phases. `LostContextHasCause` is the exact extent of the
finding `control_unstoppable`: a running build that no stop request reaches has been
reached by one, or an earlier build of its index ended late (`LostContexts`,
`EntriesLeave`, `WrongAnswers`).

`BuildPipelineProofs` (any builds, directories, entries and refs): `TypeCorrect`,
`ImagesAreTrue`, `DirsAreTidy`, and `Refinement`, `Spec => ImplementsCall`. That an image
holds its sources rests on the directory: it exists while the build has it
(`DirsExist`), no other build has it (`DirsDiffer`), it has an owner (`DirsAreOwned`), and
what is in it by the stage is what was cloned (`DirsAreFilled`, with `ClonesAreRemote`:
only a remote repository is cloned; `ContextsAreMade` is for the refinement).

`BranchInv` follows the branch from the entry through `isBranchExist` to the image's
name (`Chosen`): `BranchesAreBuilt`, `Spec => []ImagesAreOfBranches`, which bounds what
refutes `DefaultIsForUnset` and `TagIsBuilt`; `SuccessHasImage`, no error means that the
image is in the registry; and `OnlyNilClientsPanic`, the process ends by a build's panic
only where there is no Gitea client or no gitea section.

`ConfigReloadProofs` (any number of requests, edits and versions): `TypeCorrect`,
`HandlerIsCurrent`, `NotifiersAreOne`, `CopiesAreCurrent`. The properties speak of rest;
the invariant says what is on its way when there is no rest. With one request at a time
(`Alone`) its sender knows the file (`FileIsKnown`), a watcher that holds an older
version has an event ahead of it (`LastLoadIsFresh`), and while `h.cfg` is behind the file
the watcher has work (`HandlerCatchesUp`). The same bookkeeping fails for `s.cfg`, which
is the finding `reload_scheduler`; with patient clients it holds, because a request
finds the watcher idle until it writes, and from then on what the watcher has loaded
is what the file says (`WatcherKeepsUp`, `RequestsAreCurrent`, `SchedulerCatchesUp`,
`EntriesCatchUp`).

`AnswerInv` says what holds at the answer of a request, before there is rest:
`UpdatesTakeEffect`, the file, `h.cfg`, `s.cfg` and both notifiers are what a patient
client has posted; `ReloadsTakeEffect`, a reload brings back the generated names that
`UpdateConfig` loses; `FileSurvives` and `CopiesAreWhole`, the file is left empty only by a
write that failed, and the file or a copy of it mixes versions only through overlapping
writes or one that failed half way.

`SchedulerProofs` (any entries, lists, tasks and bounds): `TypeCorrect`, `OneCron`,
`CurrentConfig`, and `Refinement`, `Spec => ImplementsSchedule`. The invariant adds that
nothing happens before `Start` (`SetupIsQuiet`), that an idle task has no entry
(`IdleTasksAreEmpty`), and that numbers only grow from a cron's making to the present
(`VersionsGrow`). `OneCronRuns` is what makes `Restart` a step of `Schedule`: the union of
the running crons' entries is that of the new one.

`ListedInv` follows a run back to its list: `ListsAreObeyed`, nothing disabled,
malformed or without a git client runs, and an entry without cron once per loading;
`NoRunUncalledFor`, runs begin by a firing of the cron in force or by a loading, and in
no other step; `RunsGoOn`, what reloads and stops do, a run under way keeps what it was
given. `AtOnceIsOnce` needs the number of the cron in every run, so that a new list is
not taken for an old one.

`DingtalkTokenProofs` (any number of senders, any timeout, margin and lifetime with five
timeouts in the margin, as 5 * 10 s <= 60 s): `TypeCorrect`, `NoExpiredToken`,
`CautiousCache`. The hypothesis `LifetimeIsKept`, that the server's tokens live at least
7200 s, is in the statements. The invariant bounds the age of a token by the stage of
who holds it: one timeout in the fetch, one to set the token, one to set the expiry,
one to read it again and one to send it. These are the five.

`AnnouncementsProofs` (any number of builds, stop requests and managers, any channels
enabled): `TypeCorrect` and `StartersAreSentTheEnd`. Managers are numbered as they are made,
and a build never turns to an older one (`ManagersGrow`); so if the manager of a start is
still `h.notifier` at the end, the end went through it. `Concluded` says by whom: the build
itself, or, if it was canceled, the stop request that did it (`CancelsHaveStops`), which
has tried every channel of its manager when it is over (`Stopped`).

`Follows` adds how tasks and API builds differ, per build: `TasksTellTheirEnd`, a task that
is over has sent what `BuildRepository` returned to every channel it sent its start, the
safety half of `TasksAreConcluded`; `EndsAreTold`, the end of a build that was run is sent
to all channels of one manager; `GivenUpRarely`, `Spec => []GivenUpForCause`, the exact
extent of what refutes `StartedIsBuilt`. All of them speak of what is sent.

`ConfigLoadProofs` (any set of configurations with lists of any length): `TypeCorrect`,
`PostedLoads`, `LoadedPosts`, `NothingIsLost`. The loop turns each element it
has passed into the operator's with the two names and nothing else (`ElementsAreNamed`);
`ListIsWalked` is the bookkeeping of its index and copy, and `Accepted` keeps what
`Validate` has seen. The same invariant shows why the defaults are lost.

`WholeInv` adds that nothing but the address and the list changes, and says that
`LoadConfig` is a map (`LoadedFrom`, in `LoadIsCorrect`). From the map follow `OneTest`,
`LoadConfig` and `Validate` refuse the same ones of the configurations that decode;
`RoundTrip`, saving what was shown writes what was loaded with the address filled in, and
from then on the same; `DefaultsNeverCount`, the finding `load_defaults` for the entries of
every file; and `OnlyGiteaPanics`, only a missing gitea section makes `main` panic on a
loaded configuration (`main.go:55`).

`LogStreamProofs` (any number of connections, lines, truncations and visits, any tail
and buffer): `TypeCorrect`, `LinesAreOrdered`, `NothingSkipped`. The file holds the last
lines logged (`FileIsTail`), so a position is a line number. What is on the wire and
what the viewer shows are chains of lines, each after the one before and, unless the
file was emptied, the very next; the first chain continues the second, and the last line
sent is at the handler's position (`WireIsChain`, `ViewerIsChain`), before it only when
a write failed or the file was emptied. A handler that has yet to choose its position
has sent nothing (`NothingIsSent`).

`TailShown` is the safety half of `LinesAreShown`: a viewer that has caught up shows the
last `TailLines` lines. `Inv` says how lines follow one another, not where they begin;
`TailInv` adds that the first one sent is where the tail began when the file was opened
(`FromTail`) and that no handler waits with the tail unsent.

Only model-checked: liveness, which is out of the prover's reach, though several theorems
above state what a liveness property rests on. Every safety property of a run is
stated by a theorem.

## Not modelled

- `buildRepositoryTask` (`task.go` 15-42), `ListBranches` and `HasDockerfileAtPath` in the
  git clients, and most of `docker/docker.go` (`PushImage`, `Login`, `createBuildContext`):
  nothing calls them. The set-up of buildx in `docker.go` runs before anything else does.
- `GetConfig`, `GetSchedulerStatus`, `GetBuildStatus`: they only read. What `GetConfig`
  shows is `ToYAML(cfg)`, which `RoundTrip` is about.
- `StreamLogs` without a log file, and with a negative `?lines=`; lines of unequal length.
- `WebServer.Shutdown`, which shuts down a server made for the purpose and never
  started; the routing. The process ends all the same, which is `Exit`.
- What messages say, and the requests of the webhook and of ntfy, which keep no state.
- What is left in the file after a crash in the middle of `os.WriteFile`: the next start
  refuses it, and no text of the repository promises otherwise.
- New git clients after a reload: `main` makes them once, and they are only passed on.

## Plan

What is left: `ConfigReload` composed with `Scheduler`, for a build of the version in the
file, from the edit to the run. `CopiesFollowFile` and `RunsUseCurrentConfig` are its two
halves; they meet at the entries `Restart` makes.
