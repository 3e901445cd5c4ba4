# llama_proxy in TLA+

llama_proxy is an HTTP proxy in front of LLM inference servers. It balances requests over
static back ends and, when `scheduling` is configured, starts and stops local model processes
so that models which compete for GPU memory take turns. This directory models the parts of it
whose correctness depends on the order in which goroutines, processes and timers act, checks
them with TLC on small instances and proves the main facts with TLAPS.

Run TLC as `tlc -config <run>.cfg <module>.tla` and the proofs as `tlapm <module>.tla`; the runs
are listed below and in `PROJECT.json`, which also maps every definition to its source lines.

## The system's parts

| part | source | state | operations | module |
|---|---|---|---|---|
| model processes and slots | `internal/scheduler/process.go`, `procresolve.go` | the operating system's processes; `procs`, `failCount`, `nextRestartAt` | kill a tree, resolve a listener, adopt, reap | `Processes` |
| switching and loads | `scheduler.go`, `switching.go` | `expected`, `codingModel`, `lastCodingAt`, `switchTarget/Mode/Cancel`, `preempted`, `switchMu`, ready channels | `EnsureModel` (coding, group member, on demand), `switchTo`, preemption, `acquireGPU`, `Start`, `Shutdown` | `Scheduler` |
| Loop | `reconcile.go`, `process.go` | lease timer, `lastActiveAt`, `inflight` | tick, restart, sleep, idle switch back | `Scheduler` |
| load balancer | `internal/balancer` | nodes, per-node request counts | `Update`, `Enter`, `Leave`, choose | `Balancer` |
| node pool, hot reload | `pool.go`, `config_watch.go` | `localNodeSig`, `staticBackends`; the watch, its timer, `cfg`, `yamlCfg` | synchronise, watch, debounce, reload | `Gateway`, `ConfigWatch` |
| proxied requests | `proxy*.go`, `server.go` | cancel registry, the handler's locals | select, forward, fail over, stream, cancel | `Gateway`; the wait for a model in `Scheduler` |
| in-flight list, event hub | `inflight.go`, `internal/events`, `router_ui.go`, `server.go` | list of requests, subscribers' channels, registry of streams | add, remove, broadcast, subscribe, write, cancel | `Panel`; the web page in `PanelPage` |
| request store | `internal/store` | rows, payload files, `retentionDays` | save, insert, finish, delete, repair, clean up | `Store` |
| configuration | `internal/config` | - | load, decode, validate, route | `Validation`, `ConfigWatch`; its guarantee to the scheduler is `ConfigAccepted` |
| statistics, monitor API, UI, metadata, database access | `store_stats.go`, `router*.go`, `ui.go`, `internal/meta`, `internal/httpx`, `internal/db` | - | read, parse and render | not modelled |

How they interact. A proxied request picks a target (`selectBackend`): a node of the balancer's
pool, or, for the id of a scheduled model, that model's process, for which it asks the scheduler
(`EnsureModel`), waits on a ready channel and looks the address up again. The scheduler's Loop
probes, restarts and sleeps processes each second, and its reap goroutines hear of their exits.
A third goroutine copies the ready group members (`LocalNodes`) into the pool each second, a
fourth watches the configuration file, loads and checks it again when it changes and replaces the
pool. A handler whose request was answered writes a row and two payload files, which an hourly
clean-up and the panel's deletion remove beside it; at the next start, before the proxy listens,
rows that were left open are finished from their files. Requests put the list in flight into the
channels of the connected panels. A termination signal cancels requests and event streams.

Hard behaviours: switches that last minutes and hold `switchMu` but not `s.mu`; goroutines that
call `switchTo` without `switchMu`; processes that die, hang, detach or keep a port between any
two steps; ready channels that are replaced under their waiters; leases, backoffs and timeouts
that race late answers; a pool replaced under the requests it counts; a crash between a row and its
file; a file replaced under its watch; a list read in one step and sent in another.

What makes each part correct:

- processes and slots: every live process is one the scheduler can find and stop; a ready slot
  has a process; a gpu holds one model at a time;
- switching: whoever works on processes holds `switchMu`; the state (`expected`, `codingModel`)
  names what runs; residents survive; every request gets an answer; who waits for a resident member
  keeps its channel, and waiters are woken;
- Loop: what dies is restarted, a lapsed lease ends the coding state;
- balancer, pool: a node's count is its load; the pool is backends.list and the ready members;
- requests: failover ends, every path gives counts back, a cancelled request ends unless its own
  client keeps it;
- store: a record is opened once, closed with the answer the client got and never comes back; the
  repair leaves nothing finished open; files live as long as their rows, and no longer than asked;
- event hub: a panel that does not read holds up nobody; what a panel was told last is the list,
  unless it was dropped or overtaken; a shutdown ends the streams;
- configuration: the verdict does not depend on the order of the checks; a saved file that loads is
  served, and one that does not changes nothing.

## Modules

```
Processes <- Scheduler <- SchedulerProperties <- MCScheduler     (TLC)
                      ^-- SchedulerProofs <- SchedulerLocking    (TLAPS)
                         SchedulerLocking <- SchedulerProcesses <- SchedulerWakeups
Modes     <--implements-- Scheduler (SchedulerProperties, proved in SchedulerProcesses)
Balancer  <- Gateway   <- MCGateway                              (TLC)
                      ^-- GatewayProofs                          (TLAPS)
RequestRecord <--implements-- Store <- MCStore                   (TLC)
                                    ^-- StoreProofs              (TLAPS)
Panel <- PanelPage <- MCPanelPage, and <- MCPanel                (TLC)
      ^-- PanelProofs                                            (TLAPS)
Validation <- ConfigWatch <- MCConfigWatch                       (TLC)
                          ^-- ConfigProofs                       (TLAPS)
```

`Processes` is the world: a process is a wrapper (`/bin/sh`, which reap waits for) and a server
that loads and then listens on its model's port. A slot is `procSlot`. `KillTargets` is what
`stopSlotProcess` signals: whoever listens on the port, else the cached server pid, and the
wrapper. `Reap` is the goroutine after `cmd.Wait`. Failures are counted up to 2, which is what
the backoff distinguishes (none after the first failure, some after later ones).

`Scheduler` has one program counter per goroutine: `Caller` (requests; those in `Panel` come from
`POST /_proxy/scheduler/switch`), `Starter` (`Start`) and `Looper` (`Loop`). One action is what the
code does under one `s.mu` section, or one stretch between two of them:

| code | actions |
|---|---|
| `selectScheduledModel`, `apiSchedulerSwitch` | `Refuse`, `Arrive`, `ChannelClosed`, `GiveUp`, `PanelReturns`, `ModelEnter`, `ModelLeave` |
| `ensureCoding`, `ensureOnDemandBackground`, `ensureBackground` | `EnsureAlone`, `EnsureMember`, `Preempt`, `LockHit`, `LockMiss` |
| `switchTo`, `stopAll`, `launchSlot` | `StopAll`, `KillVictims`, `Reuse`, `LeaveAsleep`, `Spawn`, `Register`, `PublishSwitch`, `PublishOnDemand` |
| `waitReady`, `markSlotReady` | `ProbeAnswered`, `ProbeGivenUp`, `MarkReady`, `SwitchDone` |
| `acquireGPU`, `suspendSlot`, `restartMember`, `sleepMember` | `GpuFree`, `GpuTaken`, `Suspend`, `StopSlot`, `Suspended`, `RestartNot`, `RestartBegins`, `RestartEnds`, `SleepNot`, `SleepBegins` |
| `Loop`, `reconcile` | `SwitchBack`, `ForgetCoding`, `ClearCoding`, `Scan`, `LoopItem`, `ItemMarked`, `TickEnds`, `LoopReturns` |
| `Start`, `Shutdown`, `main` | `StartBegins`, `Signal`, `Shutdown` |

Abstractions: drain, kill and GPU-memory waits, all bounded by timeouts in the code, are the gap
between two steps; `startup_timeout` may pass at any time of a readiness wait (`ProbeGivenUp`), for
any model and whoever waits; times are three-valued (`never`, within, past); a caller asks once;
`lastActiveAt` is kept only for models with a `sleep_timeout`. The ready channel that a goroutine holds is
kept as its relation to the slot: `open` while it is the one in the slot and not closed, `closed`, and `dead`
when it is in no slot any more, so that no `markSlotReady` will close it and who waits on it is stranded
until its context ends. `stopAll` and a new registration (`Drop`) and `suspendSlot` (`Turn` in `Suspended`) do
this to callers; `dead` is never counted as woken. `suspendSlot` is three steps: readiness is taken
away under `s.mu` (`Suspend`), the process is stopped without the lock (`StopSlot`), and the slot gets
a new channel under the lock (`Suspended`); reap may run between any two of them.

Known simplifications: an item of a tick whose slot was replaced meanwhile is looked at through
the new slot, where the code keeps the old one; a process that the proxy kills is gone with all its
descendants (`stopSlotProcess` sends SIGTERM only to some of them, `process.go:120-135`); ports are
compared by number, while validation compares origins as strings, so that the configurations of
`PortsApart` are fewer than those accepted (`validate.go:62-68`). A resident owner is
never met by `acquireGPU` in a configuration that validation accepts, so that branch of
`GpuTaken` is in the model and is not reached.

`Modes` is what the scheduler promises of the machine it runs models on, without goroutines, slots or
locks: the stage of a change of mode, the mode (the background group or one coding model) and the
models that run. A change stops all but what lasts (`Clear`), then starts the models of the mode
(`Start`); between changes only background models start. A gpu holds one model. A process ends by
itself (`End`), for its gpu (`Evict`), for its own sleep_timeout (`Sleep`), or because another model
starts on its port. `Scheduler` implements it (`ModesKept`) under this mapping: `Stage` is "stopping"
while a switch is between `stopAll`'s two halves, "starting" until it publishes, "void" once two switches
have overlapped or `Shutdown` ran; `Mode` is the targets of the switch under way, else what
`codingModel` says; `Loaded` is the models with a live process, whatever the slots say.

`Gateway` has one program counter per request handler and one each for the synchronisation and
the reload goroutine; `Balancer` is what they do under `bb.mu`. `Orders` keeps that `LocalNodes`
iterates a map, so that the signature of a set is not unique. `StaticRead` is the read of
`staticBackends` without `cfgMu`: while reload writes the slice header, the reader may see either
list or part of one (a header torn beyond its array is undefined and left out). The rotation of
the strategies is a choice among the nodes that tie. What the scheduler does is external here:
`LocalNodes` may return anything at any time and a scheduled model may become ready or fail, which
allows more than `Scheduler` does. Weights belong to names; a reload that changes weights alone
changes no count. A handler may wait for its own client: in `body` while the request's body is read
(`proxy.go:53`), in `write` while a part of the answer is written (`proxy_stream.go:48`, `87`). A server
without balancer is one with an empty pool: what a reload then builds is what `Update` leaves behind
(`config_watch.go:155-161`).

`Store` has a row (status, age, paths) and two files per request; time counts half days, because
rows go by their exact age and files by the midnight of their directory.

| code | actions |
|---|---|
| `handleProxy`, `recordRequest`, `SaveRawPayload`, `InsertRequest`, `FinishRequest` | `Arrive`, `SaveRequest`, `InsertRequest`, `SaveResponse`, `ResponseSaved`, `FinishRequest` |
| `CleanupLoop`, `Cleanup` | `CleanRows`, `CleanFiles` |
| `DeleteRequestByID` | `DeleteReads`, `DeleteFiles`, `DeleteRow` |
| `main`, `RepairStuckRequests` | `Crash`, `Start`, `Repair`, `Listen`, `SetRetention` |

A clean-up leaves behind any of the outdated directories (`RemoveAll` ignores errors). Every write may
fail for good (after `RetryWrite`'s five attempts), every file may be written in
part, and the process may end between any two steps; `unwritten` and `asked` are history, for the
properties. `RequestRecord` is what the store promises of one record: answered, opened, closed with
that answer, forgotten for ever. `Store` implements it (`RecordsKept`) under the mapping `Record`: a
row that does not exist is one still to be opened, or one that is gone.

`Panel` has one program counter per request between its change of the list and the broadcast, and one
per panel's connection. A channel is a sequence of at most `Cap` events, `Other` stands for events of
the other types, which fill the same channel. `told`, `alone` and `blurred` are history: the last list
put into a channel, the request whose change nobody overlapped, the panels whose last list was
dropped or overtaken. `PanelPage` adds the page: what it shows, its request for the list, and when it
asks for it. The heartbeat of a connection (`router_ui.go:50-52`) is left out, and a page has one
connection at a time.

`Validation` is the checks `Load` makes across sections, as predicates of a configuration, and the walk
of `ValidatePortCollisions` step by step in any order of its map; `PortsApart` states pair by pair what
that walk is for. `ConfigWatch` is `Load`'s two reads of the file, the start, watchConfig's loop and the
reload, against editors that write in place, rename a new file over the old one, or remove it and
create it again. The watch is on an inode, as inotify's is, and never delivers the `Create` that
`config_watch.go:55-57` has a branch for. Decoding, defaults and the declarative
checks of single fields are one flag of a file, the settings that need a restart outside of
`scheduling` another.

## Runs

The `MC` modules define the instances; `Proc` bounds the processes alive or unreaped at once and is
large enough that `Spawn` finds a free one where the run's properties are about processes.

| run | instance | shows |
|---|---|---|
| `demand` | three requests, two coding models on two gpus, two on-demand models, faulty commands | `OneModelPerGpu`, `OneCodingProcess`, `NothingOrphaned`, `CodingRegistered`, `LockHeld` under evictions, preemptions and coding switches; `ModesKept` (the refinement) |
| `group` | two requests, one of them the panel's, a group of two, one resident and sleepy, and a coding model | `TypeOK`, `ReadyRuns`, `ExpectedHasSlot`, `ResidentStaysUp`, `ResidentWaitersKept`, `ModesKept` under Start, Loop and group switches, no process dying by itself |
| `live` | one request, Start and Loop, a coding model and a group of one whose process keeps dying, on one gpu | `RequestAnswered`, `CodingEnds`, `MemberRestarted` |
| `adopt` | a proxied and a panel request, Loop, a coding model whose launcher detaches its server, a lease, a shutdown | `Woken`: one request's switch may time out while the model loads, the other waits on its channel, Loop adopts the server and wakes it |
| `gateway` | one request, two static back ends, a local model | `GatewayTypeOK`, `LoadNeverOverstated`, `LoadExact`, `PoolMatchesAtFirst`, `ForwardedEnds`, `CancelledEnds` |
| `store` | one request, three retentions, five half days | `StoreTypeOK`, `NothingLeftStuck`, `RetainedFilesKept`, `RecordsKept` (the refinement), `ExpiredPurged` |
| `panel` | two requests, a panel with a channel of two | `PanelTypeOK`, `StreamExact`, `RequestsGoOn`, `EventsEnd` |
| `config` | 17 files that take every branch of the checks, three edits | `ConfigTypeOK`, `VerdictRight`, `CaughtUp`, `WarnedOfRestart`, `EditServed` |
| `v_ready` | three requests, on-demand models on one gpu, Loop | `ReadyRuns` fails: the disagreement below |
| `v_serial` | one request, Start and Loop, a group of one and a coding model | `SwitchesSerial` fails: the disagreement below |
| `v_pool`, `v_shown` | | the disagreements below |

The bounds are small and meant to be just enough. Two models on one gpu, or two coding models,
are the fewest that compete; a third request is what arrives while one holds the lock and another
waits for it. Each scheduler instance leaves out what its question does not need (`LeaseOn = FALSE`
stops Loop, `Sleepy = {}` and `Faulty = {}` remove sleeping and faults) so that the rest is explored
completely. One request is enough for `gateway`'s liveness; the counts, which several requests share,
are proved for any number of them. One request meets every writer of the store (handler, clean-up,
deletion, repair), since none of them relates two rows; five half days are what a retention of two
days takes to expire a row, its directory, and to straddle a midnight. Two requests are what overlaps
in a broadcast, and a channel of two is full with a list and another event before it. Three edits are
one that the reload is under way for, one that replaces the file meanwhile, and one after it. The
bounds `MaxTime` and `MaxEdits` end the clock and the edits, not the system: what is due then still
happens. `SYMMETRY` is used over callers, in safety runs only.

No run has restarts, sleeps and evictions of one gpu at once: what they could break is proved for every
instance (`OnePerGpu`, `ExpectedSlots`, `NoOrphans`, below). What the runs leave out: an eviction or a
sleep beside an adopted server (`adopt` has one model; `ReadyRuns` would fail there as in `v_ready`), a
coding model that dies by itself beside a group (`live` has the group's member die), and retentions
longer than what the five half days show (`RetentionRespected` has them).

`group` and `live` carry `CONSTRAINT SwitchesSerial`, and the promises about processes are stated
until two switches have overlapped: those promises rest on `switchMu`, which Start and Loop bypass
(`v_serial`). Beyond that point the code gives no guarantee that could be stated, and what it may
do is described below. `adopt` has no group, so that neither Start nor Loop switches.

`group` is also bounded by `StartFirst`: requests come when Start is done. Before that a request can
arrive, wait for `switchMu` or for a channel, but any switch, restart or sleep of its own would overlap
Start's, which the other constraint leaves out; a request that comes while Start runs is in `live`, and
the theorems bound nothing.

Every property of a passing run has a mutant of a mapped definition that breaks it, beside the
definition in the module and marked as such.

## Fairness

`Scheduler`'s `Fairness` assumes: every goroutine that can step does (`WF` of `Advance`,
which has Start's and Loop's own steps); the
mutex is not starved (`SF` of `LockStep`; Go's mutex hands over to a waiter after 1 ms); a lease
timer that has fired stays readable on its channel and Loop's `select` picks it at some time (`SF`
of `SwitchBack`); exits are reaped; a process that is not faulty finishes loading or fails to
bind; a command whose start may fail does not fail for ever; a backoff elapses. Waits in a switch
need no assumption of their own: each is bounded by a timeout (`startup_timeout`, `kill_timeout`, the 60 s
of the GPU wait) that the model lets pass at any time, whoever waits and for whatever model
(`ProbeGivenUp` has no other condition). Nothing is assumed of requests (they may give up or not come), of the death of faulty
processes, or of the signal.

`Gateway`'s `Fairness` assumes that handlers run, that the exchange with a back end does not go on for
ever while the proxy is up, however many parts of the answer were copied
(`request_timeout_seconds` is validated to be positive and covers the body; `SF` because the handler leaves the
wait for the back end with each part that it writes), and that a canceled context ends the wait for
a model or a back end. After the signal nothing is assumed of the back ends, and never anything of
the client: `http.Server` has no timeouts (`main.go:176`), so that a client that does not send its
body, or does not read its answer, holds its handler. `ForwardedEnds` and `CancelledEnds` say so: the request
ends, or waits for its client for ever. A request that waits for `switchMu` does not look at its
context; the holder's waits are bounded, which is `RequestAnswered`.

`Store` assumes that `CleanupLoop` comes back each hour, and that a deletion tried hour after hour
succeeds at some time (`SF` of a round that removes something): `Cleanup` ignores the errors of one round. Nothing is assumed of handlers
or crashes; `ExpiredPurged` is about a proxy that stays up. `Panel` assumes that handlers of requests
run, and of a stream's `select` that it picks the finished context at some time (`SF` of `Ends`, Go
picks at random among what is ready). It assumes nothing of a page: it may never read, which blocks
the write, and `EventsEnd` is about streams whose writes end. `ConfigWatch` assumes that the watcher's
goroutine runs, timers expire and inotify delivers (`WF` of `Watcher`); nobody has to edit.

## Proofs

| theorem | module | statement |
|---|---|---|
| `TypeCorrect` | `SchedulerProofs` | `Spec => []TypeOK` |
| `MutualExclusion` | `SchedulerLocking` | `Spec => []LockHeld` |
| `ExpectedSlots` | `SchedulerProcesses` | `Spec => []ExpectedHasSlot` |
| `SerialWithoutGroup` | `SchedulerProcesses` | `Spec => []SwitchesSerial`, without a background group |
| `NoOrphans` | `SchedulerProcesses` | `Spec => []NothingOrphaned`, if no command detaches its server |
| `OneCoding` | `SchedulerProcesses` | `Spec => []OneCodingProcess`, likewise |
| `CodingIsRegistered` | `SchedulerProcesses` | `Spec => []CodingRegistered`, likewise, with a group or without a lease |
| `OnePerGpu` | `SchedulerProcesses` | `Spec => []OneModelPerGpu`, likewise, if no model with a gpu shares its port |
| `ResidentsStayUp` | `SchedulerProcesses` | `Spec => ResidentStaysUp`, likewise, if no model shares the port of a resident one |
| `SchedulerImplementsModes` | `SchedulerProcesses` | `Spec => ModesKept`, that is `Spec => M!Spec`, with the hypotheses of `CodingIsRegistered` and `OnePerGpu` |
| `ReadyMeansRunning` | `SchedulerWakeups` | `Spec => [](SwitchesSerial => ...)`: of every model that does not fail and has its port alone, a ready slot has a live process while the proxy is up; hence `ReadyRuns` if all models are such. If no command detaches its server and `Uncontested` (see below) |
| `ResidentWaiters` | `SchedulerWakeups` | `Spec => ResidentWaitersKept`, if no command detaches its server, `Uncontested`, and the resident members of the group that do not fail have their ports alone |
| `GatewayTypeCorrect` | `GatewayProofs` | `Spec => []GatewayTypeOK` |
| `NoLeakedLoad` | `GatewayProofs` | `Spec => []LoadNeverOverstated` |
| `ExactLoad` | `GatewayProofs` | `Spec => []LoadExact` |
| `PoolCorrectAtFirst` | `GatewayProofs` | `Spec => []PoolMatchesAtFirst` |
| `StoreTypeCorrect` | `StoreProofs` | `Spec => []StoreTypeOK` |
| `RepairComplete` | `StoreProofs` | `Spec => []NothingLeftStuck` |
| `RetentionRespected` | `StoreProofs` | `Spec => []RetainedFilesKept` |
| `StoreImplementsRecord` | `StoreProofs` | `Spec => RecordsKept`, that is `Spec => RR!Spec` |
| `PanelTypeCorrect` | `PanelProofs` | `Spec => []PanelTypeOK` |
| `StreamIsExact` | `PanelProofs` | `Spec => []StreamExact` |
| `ConfigTypeCorrect` | `ConfigProofs` | `Spec => []ConfigTypeOK` |
| `VerdictCorrect` | `ConfigProofs` | `Spec => []VerdictRight` |
| `NoEditMissed` | `ConfigProofs` | `Spec => []CaughtUp` |
| `RestartAnnounced` | `ConfigProofs` | `Spec => []WarnedOfRestart` |

They hold for every number of requests, models, nodes, processes, panels, files and edits, from the
assumptions on the constants that the modules name (`ConfigAccepted`, `ActorAssumption`,
`WeightAssumption`, `NodeAssumption`, `StoreAssumption`, `PanelAssumption`, `ConfigAssumption`), which
TLC evaluates in every run. The theorems of `SchedulerProcesses` and `SchedulerWakeups` have the hypotheses that the table
names, which only some configurations satisfy; they are discussed below.

`TypeOK` is not inductive: an action takes a model out of the local state of its goroutine, and
only some program counters guarantee that one is there. `Typed` adds `WellFormed`: what each program
counter implies about `want`, `kind` and `cur`. `Locked` is `Typed` and `LockHeld`; every action falls
into one of five classes, each with its lemma (`StaysOut`, `StaysIn`, `TakesLock`, `NeedsNoLock`,
`Leaves`), and the registry's part needs that a goroutine enters `wait` only as it registers and
leaves it only as it clears the registration.

The theorems of `SchedulerProcesses` are about who may touch a process. Each step of `Next` is first
reduced to a summary (`NextSummary`): a step of the world or of a goroutine that works on no process
(`Still`, `Quiet`), the start of a piece of work (`Enters`), or one of twelve steps of a switch, a load, a
restart or a sleep, reduced to the processes, slots and fields it changes. All invariants are carried over
these summaries and not over the actions. They build on each other:

- `EquippedInv` is what a goroutine carries at each position whatever the others do (a load's model
  is a background one, a switch's victims are no survivors). It needs no hypothesis.
- `SlotInv` holds until two switches overlap: who works on processes works alone (`Serial`: by
  `switchMu`, and by the definition of an overlap for Start and Loop, which do not take it), finds the
  slots as its position promises (`Placed`: a load's slot has no command, only survivors and what
  the switch itself started are in procs), and what is expected is what has a slot
  (`Matched`), from which `ExpectedSlots` follows.
- `Owned` says of each live process that it is the command of its model's slot, the one just started and
  not yet registered, or one of the victims of a `stopAll` under way. It needs that a live process
  has its launcher (`Foreground`), hence `Detaching = {}`: between the exit of a launcher and the first
  listening of its server, reap finds nobody and empties the slot (`process.go:145-162`). `NoOrphans` is
  `Owned`; a model has one live process (`OneProcess`), and `OneCoding` follows since a coding switch
  starts its model when `stopAll` has killed what did not survive.
- `RegisteredInv` adds what a switch owes: a live coding process is registered, or it is a
  switch's own, between `stopAll` and the registration. `ClearCoding` breaks it (see below);
  the hypothesis `Autostart # {} \/ ~LeaseOn` is where Loop never comes there (`NoClear`).
- `RefInv` says what recorded process ids stand for: a live one in `cmd` is a process of the model,
  one in `serverPID` has its port. `GpuInv` says that two slots of a gpu never both have a command, and
  what a load has made sure of since it looked (`Cleared`). `OnePerGpu` needs `GpuPortsApart`. Validation
  allows models of one gpu to share a port (`validate.go:49-51`), and then reconcile may adopt
  another model's server for the slot of a model that died: two slots of the gpu count as running,
  `acquireGPU` stops at the first it finds (`scheduler.go:425`), and the other may still be one whose
  process was killed but not reaped when the next load comes. Four models on a gpu, two of them on one
  port, and four requests end with two live processes in the model.
- `ResidentsStayUp` is an action property over the same invariants: what is killed is a victim of `stopAll`,
  which is no survivor, a slot that is evicted, which is not resident, or a listener on their ports,
  hence `ResidentPortsApart`. Validation checks background models for it and leaves a coding model's
  port to the operator (see below).

- `SchedulerImplementsModes` puts them together. Its invariant is the conjunction of those above
  (`ModesInv`), and each summary is mapped to a step of `Modes`: removing the slots is `Change`
  (`codingModel` is reset there, and `RegisteredInv` is why the mode can be read off it afterwards), the
  kills are `Clear`, the publication is `Settle`, a start is `Start` (or `End`, when the command does not
  start and only its port was freed), an eviction `Evict`, a sleep `Sleep`, a death `End`, and all else
  stutters. `Owned` is what makes `Clear` true: a live process that is no victim is a survivor's. The
  instances of TLC have no shared ports; the proof covers them for models without gpu (`SharingPort`).
- `ReadyMeansRunning` is about two steps of different goroutines: a slot is marked ready by whoever
  probed its port (`switching.go:297-334`, `process.go:80-86`), and nothing looks at the process again
  in between. `Fit` says of each healthy model that a slot which is awake has a live command, and
  that whoever awaits it, has probed it or is about to mark it (`Pending`) does so while the slot
  is awake; `Lulled` says who may have put it to sleep: the actor between the two halves of
  `suspendSlot`, which is Loop itself while Loop runs. So a mark never falls on a sleeping slot. The
  lemmas before it say what every step does to readiness (`MarksNext`): a slot becomes ready only by
  the mark of somebody who awaited it or had probed it, and whatever a goroutine begins to await is not
  asleep. That a healthy model's process ends only by
  the scheduler's hand is what `Healthy` means: it is not in `Faulty`, and the port is its own, so
  that no `stopSlotProcess` of another model hits it and no foreign server answers its probe. `Uncontested`
  says that while Loop runs `acquireGPU` finds nobody to evict: a background model that shares its gpu
  is a healthy member of the group that does not sleep. That is the hypothesis `v_ready` breaks: a load
  that evicts what Loop has just probed. Without a lease there is no Loop, and every assignment of
  gpus is covered. TLC checked `Fit` and `Lulled` on the instances of `group` and `demand`, and with one
  failing model beside the healthy ones, before they were proved. `group` satisfies the hypotheses
  with `Healthy = Model`.

- `ResidentWaiters` is about a waiter and the three steps that can take its channel away, and not
  about what they do to it. `Awake` says what a goroutine that holds a channel may rely on (its slot is in
  procs, and not closed while it waits), and `ChannelsNext` which steps strand one (`Stranding`): a `stopAll`
  that the model does not survive, a registration of the model, the end of a `suspendSlot`. The first
  is out since a resident model survives. The second is a switch that finds the member neither running nor
  asleep, and `Fit` (above) says that a healthy member that is awake runs; the third is an eviction, which
  does not touch a resident model, or its own sleep, and there `Shut` says that the channel was closed
  before, so that nobody waits on it: a slot that is ready has closed its channel, and so has one between the halves of
  `sleepMember`. That is the comment of `process.go:219-221`, true where it is needed for residents
  and false for others (see below): `Autostart`, `Resident` and `Faulty` in the property are where the line is.

The hypothesis that switches do not overlap is part of these properties and not of the theorems
(only `ReadyMeansRunning` states it, since `ReadyRuns` does not have it): what
overlaps is Start and Loop, which call `switchTo` without `switchMu`. `SerialWithoutGroup` is the case
where it always holds, since `Start` and `Loop` switch to the group only.

`LoadInv` strengthens the two facts about counts: a node outside the pool has count 0 (which is
why a request whose node came back may find less than its own share, never more), and a node that
is not blurred has exactly the requests in flight. The steps reduce to four kinds: no change of
the set of requests at any node, a request joins (`Joins`), one departs (`Departs`), or the pool is
replaced (`UpdateCounts`); the cardinality facts are the library's.

`PoolCorrectAtFirst` adds what the synchronisation holds in its hands at each step: which static list it
read, and that the pool already has the nodes of the signature. It needs `Local` to be finite, so that
a signature exists for every set of ready models.

`StoreInv` says of each request what its handler's place implies (`HandlerInv`), what a row and its
files say of each other (`RowInv`: a row is open or has the answer of its client; a response file
exists only for a 200), who owes an open row with a readable response its completion (`LeftInv`), and
of the process that nothing works on the store before it listens (`PhaseInv`). The last is why the
repair cannot meet a handler, and the mutant that lets it breaks the run. `RetentionRespected` adds the
ages of what a clean-up and a deletion hold between their steps. For the refinement each action is
shown to be one of `Answer`, `Open`, `Close`, `Forget`, or a stutter: a completion whose row was deleted
meanwhile is a stutter, since `UPDATE` does not insert.

`StreamExact` needs `AloneInv`: a request whose change nobody overlapped still has the current list in
its hands when it broadcasts. `PortsInv` is what the walk of the port check knows half-way: every
visited background entry is the claimant of its origin or swaps with it. Since `SwapInto` with one
claimant makes two entries swap with each other (same gpu, none resident), comparing with the first
claimant alone is enough, and the verdict does not depend on the order. `NoEditMissed` rests on
`BoundInv` (a watch that was not lost is on the file, or the event that rebinds it is queued) and
`OwedInv` (an edit that was not missed is in an event, the timer, a reload under way, or served).

Only model-checked: `ReadyRuns` and `ResidentWaitersKept` beyond the hypotheses of their theorems; the former is
false in general (`v_ready`). All liveness (with `Woken`, `EditServed`, `ExpiredPurged` and the like) is beyond
the prover, as are `ENABLED` and the fairness it needs.

## Where the code and its documentation disagree

Shown by a run:

- `v_pool`: ready group members are said to be in the pool beside `backends.list` (`pool.go:58-61`); a
  configuration reload replaces the pool by `backends.list` alone and the unchanged signature keeps
  them out. The unlocked read of `staticBackends` may also bring back what the reload removed.
- `v_shown`: the page says that it fetches the list of requests after a reconnection to reconcile
  (`frontend/src/App.vue:360`); it fetches in `onerror`, before the EventSource is connected again, and
  misses what changes between the answer and the new subscription. Its first load races with the first
  connection in the same way.

- `v_ready`: a probe that succeeded is said to prove that the model's process listens
  (`switching.go:306-308`), and `suspendSlot` to make a slot not ready at once (`process.go:207`). Loop marks a
  slot after its probe, without a lock between them; an eviction that suspends the slot in between leaves
  it ready, asleep and without a process. reconcile skips it (`reconcile.go:132`), and `BaseURLFor` and
  `LocalNodes` offer it until a request wakes it.
- `v_serial`: `switchMu` is said to serialise whole switches (`scheduler.go:64`, `switching.go:21-22`). Start
  (`scheduler.go:158`) and Loop (`reconcile.go:72`, `98`) call `switchTo` without it, so that each one's
  `stopAll` may kill or forget what the other has just started.

Seen while modelling, most in a counterexample of an earlier instance of these modules, and kept
here in words. Scheduler:

- a process that dies by itself may be reaped between an answered probe and `markSlotReady`, which then
  marks a dead slot ready as in `v_ready`; reconcile does not look at ready slots again.
- reap starts before the slot is registered (`switching.go:239` before `242-244`): a command that
  exits at once is reaped against the old slot and the new slot's dead `cmd` counts as running for
  ever, which `process.go:139-143` rules out. reap also takes a detached server that still loads for
  dead.
- the backoff is tested before `switchMu` only (`scheduler.go:226`, `338`), so that a request which
  waited starts a model that has failed meanwhile (`scheduler.go:85-87`).
- stranded waiters: the old channel is said to be closed and without waiters when `suspendSlot` replaces it
  (`process.go:219`), and a ready channel to be closed once, when its process is ready (`scheduler.go:20`). A
  model that is evicted while it loads, or before Loop marked it, has waiters, and so has the channel that a process
  that died left open, when the model is loaded again by a new slot; nobody closes their
  channel, and they wait until their contexts end. `ResidentWaitersKept` says of whom it is not so.
- a background model is refused while coding runs by a check before `EnsureModel`
  (`proxy_backend.go:99`): it may start next to a coding model (`config/scheduling.go:31-32`). A
  background model without gpu is refused by the panel (`scheduler.go:292-297`) although the proxy
  serves it (`proxy_backend.go:87-88`).
- `Shutdown` clears `cmd` first, so that a process that loads is never signalled (`scheduler.go:159`,
  `176-177`).
- an error of Start ends the proxy (`main.go:133`), also one that a preemption caused
  (`scheduler.go:165-166`).
- `ModelEnter` follows the lookup, so that `sleepMember` may stop a process that a request is about
  to use (`scheduler.go:95`); `restartMember` does not look at `sleeping` (`process.go:182-183`).
- a negative `coding_idle_timeout` ends Loop at once (`reconcile.go:23-25`), and with it every probe
  and restart (`reconcile.go:16-17`).
- the death of an adopted server goes unnoticed (`README.md:67`): nothing waits for it.
- reconcile decides that the coding model died before it was ready (`reconcile.go:88-93`) and, without
  a group, clears `codingModel` in a later section, without `switchMu` (`reconcile.go:102-104`). A coding
  switch in between is forgotten although its process runs, which `scheduler.go:81` rules out: the lease
  never ends it, and background requests are let in. TLC finds it with a coding model that dies, two requests
  for it and `LeaseOn`; it is why `CodingIsRegistered` has its hypothesis.
- a member left asleep by a group switch has no channel: its requester waits until its context
  ends (`switching.go:63-71`).
- a request that is forwarded to a local model before the pool knows its node is not counted, and
  its end takes a count away (`balancer.go:25-27`; `LoadExact` says exactly when counts are exact).

Configuration:

- `ValidateModelIDs` reserves `llama_proxy` (`validate.go:17`) and its comment `llm_proxy`
  (`validate.go:14`), which is the id that the proxy uses (`proxy_routing.go:82`) and that a model may
  therefore take.
- a coding model may declare the port of a resident model or of one without gpu, which survive a coding
  switch, although the check is for what runs at once (`validate.go:48`, `82-88`); hosts are compared as
  strings (`localhost` is not `127.0.0.1`).
- `Load` reads the file twice (`config.go:127`, `134`), so that an edit in between is loaded without the
  check for removed fields.
- an empty file loads; the start refuses a configuration with nothing to forward to (`main.go:49-51`), a
  reload publishes it and with it drops the back ends and the api key until the next save.
- the watch is lost for ever when no file is under the path while the event of its removal is handled
  (`config_watch.go:61` ignores the error of `Add`), and the `Create` that `config_watch.go:54-57` waits for
  never comes for a watch on a file. An edit between the load at the start and `Add` is not seen, and
  constant writes postpone the reload without end.
- a reload compares with what was published last (`config_watch.go:120`): a second reload does not
  repeat that a restart is required. `processLaunch` leaves out `gpu`, `resident`, `sleep_timeout`, `weight`,
  `tags` and `api_key` of an entry, which the scheduler keeps from the start. What "keeps its old value"
  (`config_watch.go:8`) is published in `yamlCfg` all the same.
- `reloadConfig` writes `s.client.Timeout` and `s.balancer` without a lock (`config_watch.go:147`, `157`).
- a negative `retention_days` is documented (`README.md:260`, `409`) and rejected (`config.go:102`).

Requests:

- `cancelAllProxy` is said to make every handler return at once, so that the shutdown takes milliseconds
  (`server.go:100-102`). A handler that reads the body of its request (`proxy.go:53`) or writes to a client that
  does not read (`proxy_stream.go:48`, `87`) does not look at the context, and the server has no timeouts
  (`main.go:176`): the shutdown waits its 60 s for it. `CancelledEnds` excepts exactly these.

Store and panel:

- a date directory goes when its midnight is past the cut-off, up to a day before its last rows
  (`store_cleanup.go:62`, `config.example.yaml:62`); `RetainedFilesKept` says exactly this.
- deleting the record of a request in flight leaves the response file that is written afterwards
  without a row, until the clean-up (`README.md:364`).
- `README.md:407` names `raw/*.gz`; the files are `.zst` (`store_raw.go:71`).
- a row whose process ended before its response was written stays at status 0: the repair passes over
  it (`store_requests.go:37-43`).
- SQLite compares `created_at` as text of varying length (`store.go:138`).
- two overlapping changes may broadcast their lists in the wrong order (`inflight.go:65`); the older one
  stays on the panel until the next change, although the event is said to carry the latest
  (`inflight.go:23`).
- a stream that registers after `cancelAllSSE` ran, or whose page does not read, holds the shutdown up to
  its 60 s (`server.go:134`).

## Not modelled

- Statistics, backend metrics, the monitor's listings, the pages except their list of requests, and
  the SQL behind them: pure reading and rendering over rows; their result is the database's.
- `internal/meta`, `internal/httpx`: parsing of bodies and headers without state. `internal/db`: opening,
  schema and the retry of a busy write, whose two outcomes are in `Store`.
- Decoding of YAML, defaults and single-field checks (`config.go`): one flag of a file. Matching of
  routing rules (`proxy_routing.go`): it narrows the pool that `Gateway` chooses from.
- `gpuwait.go` polls `nvidia-smi` under a bound: the gap between a kill and the next launch.
- `Snapshot` and the scheduler's status: read-only projections of the slots.

## Plan

1. Done: `Processes`, `Scheduler`, `Balancer`, `Gateway`, `Store` with `RequestRecord`, `Panel` with its page,
   `Validation`, `ConfigWatch`, their runs and the theorems above.
2. Done: `Modes`, the abstract specification of the scheduler's modes, and `Scheduler` shown to implement it.
3. Done: proofs of the promises about processes, gpus, residents and registration.
4. The composition of `ConfigWatch` with `Gateway`: which pool a sequence of edits leaves behind.
