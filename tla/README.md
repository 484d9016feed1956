# Verification of the pi companion

This directory models the companion program of the pi plugin
(`src/plugins/pi/scripts`) in TLA+, checks the models with TLC and proves
theorems about them with TLAPS. Every definition is translated from the source
at this commit; `PROJECT.json` names the lines each one stands for.

## The system

The companion is one node script (`pi-companion.mjs`, about 2500 lines, with
30 libraries under `lib/`). Each command is a process of its own. It delegates a
task to the agent `pi`, which is a child process, and keeps what happens to
the task on disk: processes of the companion share nothing but files.

| Component | Source | State | Operations | What makes it correct |
| --- | --- | --- | --- | --- |
| State store | `lib/state.mjs` | `state.json` (the job list, `MAX_JOBS` long), a lock directory, job files, logs, event files, inboxes | `upsertJob`, `updateState`, `withStateLock`, `saveState`, `loadState`, `writeJobFile` | an update is atomic and loses no other; only jobs pushed off the list lose their files; nobody waits for good |
| Job lifecycle | `lib/jobs.mjs`, `lib/process.mjs` | status of a job in its list entry and its job file | `runTrackedJob`, `enrichJob`, `resolveCancelableJob`, `createProgressReporter`, `terminateProcessTree` | answer before status, terminal states are final, no job runs for good on paper |
| Hand-off, cancel | `pi-companion.mjs` | wrapper and pi processes, prompt file | `detachBackgroundRun`, `executeRun`, `announceTerminal`, `cancelJob`, `commandCancel` | cancel is final, keeps what the run stored, and every end is announced |
| RPC engine | `lib/rpc.mjs`, `lib/budget.mjs` | a live `pi --mode rpc` session over two pipes | `runPiRpcTurn`: `handleControl`, continuation, loop nudge, budget stop, settle, shutdown | the run comes back by itself, is not closed while pi works, one message per cut-off answer |
| JSON engine | `lib/pi.mjs` | one pi process per pass | `runPiTurn`, `applyPiEvent`, `recoveryDecision` | the answer is whole, the budget bounds all passes, the proxies close, a timed pass ends |
| Control inbox | `lib/inbox.mjs` | `JOB.inbox.jsonl`, a line cursor | `pushControlMessage`, `createInboxWatcher` | every message is delivered once, in order |
| Fleet events | `lib/fleet-events.mjs`, `commandEvents` | machine-wide log, cursor and seen set of each follower | `recordFleetEvent`, `rotateIfLarge`, `readFleetEvents`, `orphanEvents` | an ending is shown once to each follower |
| Sandbox slots | `lib/sandbox.mjs` | reservation files, docker's containers | `awaitSandboxSlot`, `reserveSlot`, `countReservations` | a pool never holds more containers than its limit; waiting ends |
| Journal | `lib/db.mjs` | SQLite table of jobs | `recordJob`, import, prune, reports | counters rise, measures are kept and not diluted, texts expire in time |
| Credential and git proxies | `lib/credential-proxy.mjs`, `lib/git-proxy.mjs`, `lib/proxy-bind.mjs` | HTTP listeners that live as long as a run | gate, forward, redirect, record, close | only allowed routes pass, each exchange is recorded once, the listener is closed on every exit |
| Meters | `lib/sse-meter.mjs`, `lib/telemetry.mjs`, `lib/jsonl.mjs` | parser state over a stream | push chunk, roll up | the result does not depend on how the stream is cut in chunks |
| Sessions | `lib/sessions.mjs`, `commandContinue` | none of its own: the list of jobs | `collectSessions`, `findSession`, `cacheState` | what is continued is what was asked for, not cold by accident, and nobody else works on it |
| Configuration, container plan | `lib/config.mjs`, `lib/sandbox.mjs` | files of settings, volumes of docker | `buildRunSettings`, `normalizeSandbox`, `buildDockerRunArgs` | layers add up; what an untrusted run wrote reaches no other |
| Agent work | `lib/agent-work.mjs`, `lib/git.mjs` | counters of a pass | `noteToolStart`, `noteToolEnd`, merge of passes | every call is counted once |
| Prompts, models, rendering, hook | the other files of `lib/` | none, or a cache | queries, formatting | formatting |

**How they interact.** `delegate --background` spawns the wrapper (the same
script again) and records the job as pending. The wrapper runs `executeRun`:
it records pending and running, starts the engine, and the engine starts pi.
Progress, the pi pid and the end of the run go through `upsertJob` to
`state.json`, through `writeJobFile` to the job file, and at the start and at
the end to the journal. `steer` and `cancel`, which are other processes, append
lines to the inbox that the engine polls; `cancel` also sends signals and then
overwrites all three records. At the end the wrapper reads the job file back and
appends a line to the fleet log, which followers poll.

**What is hard here.** All of it happens between processes that may be killed
between any two system calls; the lock is a directory whose age decides
whether its holder is alive; every decision of a cancel is made on a snapshot;
the engine learns what pi does only from a pipe that is behind pi, and it arms and
disarms one detector (`settledAt`) from six places. `PROJECT.json` lists these as
hazards, line by line.

## Modules

| Module | What it is |
| --- | --- |
| `JobIndex` | the job list as a value: merge of a patch, sort, slice, overflow (`upsertJob`, `saveState`) |
| `JobRegistry` | abstract specification of the store: atomic updates, results dropped only on overflow, until trust in the lock ends |
| `StateStore` | the locked read-modify-write of `lib/state.mjs`, one action per file-system step, implements `JobRegistry` |
| `JobLifecycle` | one job: parent, wrapper, pi, cancellers and the three records they write |
| `RpcTurn` | the engine of `lib/rpc.mjs` and the pi it talks to over two pipes |
| `JsonTurn` | the one-shot engine: `runPiTurn` with its proxies, slot wait, passes, budget and clocks |
| `SandboxSlots` | the slots of a concurrency pool: runs, reservation files, containers |
| `SandboxPlan` | from the layers of the configuration to the volumes of a container |
| `FleetChannel` | the log of finished runs, those who append to it and those who follow it |
| `ControlInbox` | the control file of a job: senders that append, a watcher that polls |
| `Sessions` | which session a command continues, in the foreground and in the background |
| `Journal` | the merge of a job's records in SQLite, the retention of texts, the shares of a report |
| `CredentialProxy` | the requests of pi for a model on their way to the provider and into the journal |
| `GitProxy` | the fetches of a container: gate, redirects, remembered paths |
| `RequestRecorder` | the batches and the summary of a run's model requests |
| `LineReaders` | three readers of lines that arrive in pieces |
| `AgentWork` | what the tools of a run did, over its passes |
| `Parts` | the ten smaller components side by side, for any values of their constants |
| `MCStateStore`, `MCJobLifecycle`, `MCSandboxSlots`, `MCParts` | the instances TLC checks: initial lists, symmetry, forges, configurations |
| `StateStoreProofs`, `JobLifecycleProofs`, `RpcTurnProofs`, `JsonTurnProofs`, `SandboxSlotsProofs` | theorems about the module of that name |
| `ChannelProofs`, `StorageProofs`, `StreamProofs` | theorems about `Parts`: the fleet log, the inbox, sessions and both proxies; the journal, the request recorder and the container plan; the readers of lines and the work of a run, and the types of all |

### StateStore

A *writer* is one call of `upsertJob` with the `writeJobFile` that comes before
it, by a process of its own. `pc` follows the code: `start`, `try` (the loop of
`withStateLock`), `reclaim` (between the `statSync` that found an old directory
and the `rmdirSync`), `load`, `save`, `write` (the section), `release`. Between any
two of them other writers run. `index`, `readable` and `artifacts` are the disk:
the list, whether `state.json` parses, and the jobs whose files exist. `lock` is
the directory and `lockAge` its age; `view` is the list a call holds in memory
and `victims` what `saveState` decided to remove. A record keeps the time of its
last update and the set of updates merged into it, which is what "no update is
lost" needs; the fields themselves are left out.

Time: `Tick` lets a unit pass, in which a waiting call and the directory grow
older. Nothing renews the directory, as the heartbeat of `withStateLock` is a
timer and the section is synchronous. A run without `"slow"` lets no live holder
keep the lock for `LOCK_TIMEOUT_MS`, one without `"busy"` lets no call wait that
long; the checks with all faults take both restrictions away. The history
variable `breaches` tells how the lock was broken: a call that went ahead
without it (`unlocked`), or a directory removed by a call that had not made it
(`reclaimed`); `trusted` of `JobRegistry` is `breaches = {}`. That the promise
ends there is what the code says of itself (a holder that was declared dead,
an update without the lock), and `StateStoreBusy` and `StateStoreSlow` show what the comments
claim beyond it. With `"write"` the new list cannot be written (`SaveThrows`): the old one
stays, the lock is let go on the way out (`unwind`), and the caller gets the exception
(`thrown`). The files of the jobs that were to fall off the list are gone by then.

### JobLifecycle

Four kinds of process: the parent of a background run, the wrapper, pi, and
cancellers. An update of the list is one step because `StateStore` implements `JobRegistry`.
A write of the job file is two, since `writeFileSync` truncates before it writes and nothing locks
the file: `Truncate...`, then `Write...`, where a file that somebody else has filled in between may be
left with a tail that does not parse (`Torn`). Whoever reads such a file, or an empty one, has
nothing (`readStoredJob`). The spawn, the signals and the reads on which something is decided later
(`PickJob`, `ReadFile`, `ReadForFailure`) are steps of their own. The
wrapper has no signal handler, so `WrapperCrashes` may strike between any two
steps, and pi, in a process group of its own, stays. `WriteThrows` sends the
wrapper to the handler that catches the exception at that line, those of the catch's own writes
included. `CancellerStops` is a cancel that is interrupted or whose write throws, `ParentFails` a parent
that dies, or cannot write, between the spawn and its update of the list. The status
shown to anybody is `enrichJob`'s (`Shown`). Progress patches, which change
neither status nor pid, are left out. So is a `recordJobSafely` that returns false: a row
that could not be written keeps the status it had, and nobody hears of it.
The time between the parent's spawn and its two writes is taken to be shorter than
the start of node, except with `"late"` (`JobLateParent`, `JobLateCancel`).

Two limits of what the code can promise are part of the properties. An answer is only safe while each
rewrite of the job file ends before the next reader or writer comes: the history variable
`answer` says whether it was stored, and whether a rewrite was spoiled since (another one
read or opened the file in between, the rewriter died or its write failed). `AnswerKept` speaks of
the others; `AnswerOutlivesCancels` is the sentence of the comment without that condition, and two cancels
are enough to refute it. And only the parent gives a pending job its pid, so the properties of a background
job are about one that was handed over (`HandedOver`); `EveryJobSettles` names the two ways in
which it may stay as it is for good, one of which refutes `NobodySitsPending`.

### RpcTurn

The engine's handlers are actions on the flags the closure keeps: `settled`
(`settledAt`), `recoverySent`, `nudgeSent`, `nudgePending`, `lastCut`
(`lastStopReason`), the counters, `bloatWindow`. pi is external: it reads
commands from `toPi`, may accept, refuse or lose the prompts that the engine
sends on its own account, and writes events to `fromPi`. An answer is known by
two bits, cut off at the ceiling or not, all reasoning or not. Usage is counted in
answers. Time is left out under three assumptions, each an order of magnitude in
the code: a line spends less time in a local pipe than a model call, than the
1.5 seconds of the settle grace, and than the 60 seconds of the acknowledgement
time-out. The hard timer and the kill at the end of the shutdown grace are the
death of pi (`PiIsGone`), possible at any time and never assumed to come, except
after the end of its input (`PiLeaves`).

### SandboxSlots

A run is a process that takes a slot before it starts its container, and a run of
the JSON engine takes one again for each pass. `pc` has a step for each thing that
another process can come between: `look` (before `docker ps`), `counted` (before the
directory of reservations is read), `claim` (below the limit, not yet reserved),
`claimed` (reserved, not yet spawned). The count of the files is one step; that the
entries are judged one by one makes no difference, as an expired file is not counted
whenever it goes. A reservation is known by its run and pass. `Expire` is its age
passing `RESERVATION_WINDOW_MS`, whoever sweeps the file; `Release` is
`releaseSlotWhenVisible` of a live process, which may still be polling for an
earlier pass. Both may hit a reservation that is still needed only with `"slow"`.

`CapKept` is what the design can promise: the history variable `lapses` records the
four ways in which a check misses a slot that is taken, and nothing else may.
`"overlap"` is the race: a claim while another run is between its first count and
its own claim, or a container that comes up between the two counts of another run
(when its reservation can be gone before the second). `CapHolds`, the sentence of the
docs, has no such condition and fails.

### JsonTurn

One job of the one-shot engine. `phase` is where `runPiTurn` is: the two proxies open,
a pass waits for its slot (`slot`), spawns pi (`spawn`), reads events (`stream`), makes
a result (`exited`), and `decide` is `recoveryDecision`. `state` is the turn state of the
pass, `result` the merged result of those before; its `text` is the sequence of passes
whose last text the answer is joined of, which is what "no half is dropped" needs. pi is
external: it writes events of any kind in any order, may hang, and exits when it
likes. Time is counted, because three clocks meet here (the wait for a slot, the timer of
a pass, the deadline of the job); a timer that is due fires before more time passes.
`said` is a history variable. The callbacks of a run may throw where the pid is recorded
(`"callback"`); `onProgress` may take time (`"progress"`) and does not throw.

### FleetChannel

A run ends and announces itself by `recordFleetEvent` (`LookAtSize`, `Rotate`,
`AppendLine`), or it is killed. A follower arms, polls from its cursor, sweeps for orphans
and announces those in their place. Between any two steps others append or rotate. The
rewrite of a rotation is one step, although `writeFileSync` empties the file first: a
reader of the empty file replays what it has, as after a rotation, and its `seen` set is
the guard against that. `disturbed` tells whose place in the log was upset, by a rotation
or by its own jump over the lines of others; `ShownOnce` holds of them too, `NothingSkipped`
of the others, and `DeathIsShown` needs neither, because the sweep reads the jobs.

### ControlInbox

`steer` looks at the status and appends; an append may be read half done (`"torn"`). The
engine makes its watcher after the job is recorded as running and stops it before the
end is recorded: messages outside of that window, and those read half done, are `lapsed`.

### Sessions

A *job* is one command of a workspace. A command resolves its reference in the list,
refuses what is live or cold, and either runs pi or leaves a `Child` behind that does the
same again with what it inherited. The list learns the session of a job with its last
record. "last" is the session that was last active for `continue` (`Found`), and that of the newest job
that has one for `delegate` (`Resolved`). `decided` keeps what the command decided and on what.

### Journal

A row has one column of each kind that `jobToRow` and the merge tell apart: a counter of the list that is merged
by `MAX` (`turns`), a counter with the same default that is not in the list (`cut`, for `answers_cut` and
`repeat_run`), a measure that an engine may not take (`idle`), a text. `CountersRise` is about the first kind;
the second goes back to 0 with any later record that has no numbers of the proxy, against the comment over
`recordJob` (`NoCounterGoesBack`). A record may fail without a word (`RecordIsLost`). Time is in halves of a
day, since a text expires by its moment and the sweep is due by the calendar day.

### CredentialProxy and GitProxy

An exchange is one connection of the container, any number of them at once. The
credential proxy's timeout, error, abort and end are events that follow one another and
all call `finish`. A body is known by its model and by the spellings of its output ceiling;
`run` is the configuration that decides on the spelling (catalogue, compat entries,
address). The git proxy's gate, redirects and `canonical` map are the code's; `moved` is
where the forges redirect to, and `landed` where the last advertisement of a path was found.

### RequestRecorder, LineReaders, AgentWork

Folds over a stream, as state machines, each checked against a reference on the whole
history: the longest series of answers of one length, the lines of the whole text, the
sums over all calls. `LineReaders` has a character of two bytes that may be cut in the
middle, and the three readers differ in what they do with it, with a partial line, and at
the end. `AgentWork` includes the merge of passes and the union of overlapping calls.

### SandboxPlan

The mounts of a run come from flags, project, preset, defaults and a chain of profiles,
which may loop. `StateStaysApart` relates the volumes of two runs, `EquipmentAddsUp` what
is mounted to what the nearest layer says; both have reference definitions of their own. A writable volume is
replaced by an empty one of the run where the workspace is not trusted, and nothing asks whether it carried the
skills: `EquipmentAddsUp` excepts that case, in which a run starts without them, and `SkillsArrive`
shows it. The
recursion over profiles (`Resolved`) is a function of the profile and of those seen before it.

## Runs

| Run | Instance | Shows |
| --- | --- | --- |
| `store` | 2 writers, 3 jobs, `MAX_JOBS` 2, time-out of 2 units, all faults, fairness; 205 thousand states | types, mutual exclusion, refinement of `JobRegistry`, no lost update, every update of a live process lands |
| `lifecycle` | 2 cancellers, a parent, a wrapper and cancels that may die or fail to write, both engines, foreground and background; 1.8 million states | answer before status, answer kept, cancel final, journal told, every background job settles |
| `lifecycle_silent` (violation) | 1 cancel | a job cancelled by signal is never announced |
| `rpc` | 5 turns, 2 continuations, 1 nudge, 1 user message, abort, budgets; 810 thousand states | the run returns, no work is cut short, one message per cut, few nudges |
| `rpc_stopped` (violation) | 1 answer over the budget, cut, all reasoning | a stopped run is prompted again |
| `slots` | 2 runs of 2 passes, 1 slot, all faults, fairness; 32 thousand states | the cap is kept while nothing lapses, every waiter gets in |
| `json` | 2 passes of up to 4 events, budget of 2, time-out of 2, all faults, fairness; 580 thousand states | proxies live with the run, the answer is whole, the budget bounds the job, a timed pass ends |
| `json_clock` (violation) | a busy pool | a run that waited works past its hard limit |
| `parts` | one instance of each smaller component; 257 thousand states together | the properties of those ten |
| `journal_counters` (violation) | 1 job, recorded twice | a later record sets a counter back to 0 |
| `fleet_silence` (violation) | 2 runs, 1 follower, a log that is never rotated | the jump after an orphan skips another run's ending |
| `sessions_shared` (violation) | 3 commands, 2 sessions | two runs of pi on one session |

`parts` runs `MCParts`, an instance of `Parts`. There the variable `subject` names the component
a behaviour is about; the others keep their initial state. An invariant of one component is thus checked in every state of
its own, and the number of states is the sum and not the product.

Ten more configurations refute sentences of comments or docs, and show what the theorems
have to assume. They are run by hand (`tlc -config X.cfg M`), and each ends in the violation
it is for. `StateStoreThree` is the safety part of `store` with a third writer, and passes (2.8 million states
with symmetry):

| Configuration, module | Refuted | Which shows |
| --- | --- | --- |
| `StateStoreBusy`, `MCStateStore` | `EvictsOnlyOverflow` | an unlocked update makes a locked one remove live results |
| `StateStoreSlow`, `MCStateStore` | `OnlyTheDeadLoseTheirLock` | the heartbeat never beats, the holder loses its lock |
| `JobContradiction`, `MCJobLifecycle` | `AnnouncedAsReported` | a run announced as completed is then reported as cancelled |
| `JobLateParent`, `MCJobLifecycle` | `NeverBackToPending` | with a slow parent running goes back to pending |
| `JobLateCancel`, `MCJobLifecycle` | `CancelledIsFinal` | cancelled before it has a pid, such a job goes on and overwrites it |
| `JobTwoCancels`, `MCJobLifecycle` | `AnswerOutlivesCancels` | a cancel that reads while another one writes takes the answer away |
| `JobPendingForGood`, `MCJobLifecycle` | `NobodySitsPending` | parent and wrapper lost early, the job is pending for good |
| `SkillsReplaced`, `MCParts` | `SkillsArrive` | skills in a writable volume do not reach a workspace that is not trusted |
| `SandboxSlotsRace`, `MCSandboxSlots` | `CapHolds` | two processes take the last slot together |
| `WorkFirstEdit`, `AgentWork` | `FirstEditOfTheJob` | the first edit of a continued run is told relative to its pass |

**Bounds.** Two writers are the least for a stolen lock: one holds, or died holding, and the other
steals; a third would take what the second releases (`StateStoreThree`), and the safety properties of
`store` are proved for any number. Two jobs in a list of two,
and a third, make an eviction happen in each call; `-1 .. 2` are all the times
that old jobs and two calls can have. Two cancellers show every order of a
cancel with the run and with another cancel; a third does nothing the second has
not done. Five turns are one more than the turn budget of four, and hold two
continuations in a row with the window of two and the nudge; the user's one message
may cross any event. The values of `TurnBound` and `SteerBound` are guards of
`PiTakesTurn` and `UserSteers`; `Times` bounds `Load`. Two runs on one slot is the
least pool with a waiter; two passes let a reservation outlive the container it
stands for. What holds for pools of other sizes is proved.

`json`: two passes show every hand-over from one to the next, and a pipe of one event that
an event can be behind a kill; four events let a pass cross the budget of two and go on. The
slot wait and the deadline need `Horizon` to be twice the time-out. `parts`: two followers
record the same death, and a log of one line is rotated by the third; three senders put a
message on each side of a torn one; two hops are the fewest that chain or circle; a
text of five bytes holds two lines and a cut character; two passes of two calls are the
fewest in which overlap, repetition and a continued loop differ; three commands are the least for a
session that is continued while it is live and stops being the last; the configurations
of `SandboxPlan` vary each of its layers by one or two values. `Horizon`, `PassBound`,
`PipeBound`, `MaxRequests`, `MaxBytes`, `PassCalls` and `MaxJobs` are guards of the actions that
count; the theorems hold for all of them.

**Fairness.** `StateStore`: the scheduler runs each process (weak fairness per
writer) and time passes. `JobLifecycle`: parent, wrapper and the cancellers that
have begun run on; pi ends while a wrapper watches it, because both engines have a
hard timer; a pi that nobody watches need not end. `RpcTurn`: pi goes on with its
run and leaves when its input has ended (the shutdown grace kills it otherwise);
the event loop handles what is in the pipe, and polls. Nothing there makes pi die
before and no hard timer is assumed, since the property is that the run
does not need it. `SandboxSlots`: each process runs, docker starts what it is
told to start, an agent ends (its run has a time-out), and time passes; a release is
never assumed, since expiry must be enough, and no waiter has to give up. Nothing
queues the waiters: with runs that come for ever one could starve until its
time-out, which is why the property is about a bounded number of passes. `JsonTurn`: the
event loop of the engine handles what is due, and time passes; pi is not assumed to do
anything. `FleetChannel`: a process that has begun to record goes on, a follower polls, and
since its loop comes to the sweep again and again, the sweep is strongly fair.

CHECK_DEADLOCK is off where the system stops: in the runs of `JobLifecycle` (the
job is over), of `RpcTurn` and `JsonTurn` (the run has returned, or its pi hangs and has no
timer), of `SandboxSlots` (every run is over), and of the parts and `Sessions` (the commands,
the text or the time of the instance are used up). In `StateStore` time goes on.

## Proofs

`StateStoreProofs` holds for any finite or infinite set of writers, any jobs, any
`MAX_JOBS`, time-out and set of faults:

- `TypeCorrect`; it rests on `SlicedIsIndex` and `EmptyIsIndex`.
- `LockOwnership`: the inductive invariant `LockInv`. Mutual exclusion is not
  inductive: nothing in it says that the directory exists while its maker is
  inside. `LockInv` adds that a call inside with `held = TRUE` is the maker of the
  directory as long as nobody removed a foreign one, and that a call without the
  lock has left its mark in `breaches`. `MutualExclusionHolds` follows.
- `PromptHoldersKeepTheLock`: without crashes and slow holders no directory is
  stolen, that is, breaking the lock takes a fault.
- `ViewIsFresh`: as long as the lock is unbroken, what a call holds in memory
  between load and save is the current list with its update. It needs `LockOwnership`
  (nobody else is inside), and is what makes the rename one atomic `Commit`.
- `StoreImplementsRegistry`: each step maps to a step of `JobRegistry` or a
  stutter; `ListChangesByUpdate` and `ArtifactsChangeOneByOne` are the two ways in
  which the disk changes. `NoUpdateIsLost` follows from the same facts.

`RpcTurnProofs` holds for any ceilings and runs of any length. `Types` is unconditional. "Replies
never outnumber cuts" is not inductive, as a reply adds one; `CountInv` keeps them
apart by one while a cut is still unanswered (its reason is kept, or a nudge waits for
the agent to settle), and keeps the nudges below their limit while one waits.
`OneMessagePerCutHolds` and `NudgesAreFewHolds` follow. `WorkIsNotCutShort` is the action property
`NoWorkCutShort`: the shutdown is decided on `settled`, which the engine sets and clears
on events that are behind pi. Its inductive invariant `CutInv` is about runs that nobody stopped
(`Free`), and says what both pipes may hold and in which order. An answer is the first line of its pipe
(`AnswerFirst`), a start is that of the run pi is at, behind any end (`StartInv`, `OverInv`). The detector is
disarmed while the engine knows of a run (`KnownInv`), from the moment the task or a continuation is on its
way (`WorkInv`), while a message of the engine is awaited (`WaitInv`) and from a cut answer to the end
of its run (`LiveInv`); and a continuation is in one place, asked for or refused (`TokenInv`). TLC checked `CutInv`
on instances larger than that of `rpc` before it was proved.

`SandboxSlotsProofs` holds for any finite set of runs, any limit, passes and
faults. The cap is not inductive. `SlotInv` adds, as long as nothing lapsed, that
each holder docker does not show yet has its reservation (`HiddenIsReserved`), that
what a run counted is still at least what docker shows (`CountStands`), and that a
run which is about to claim leaves room for itself (`HoldersFit`). The step from the
second to the third is `HoldersAreCounted`: the hidden holders map one to one into the
reservations. `CapKeptHolds` follows.

`JobLifecycleProofs` holds for any number of cancels and any faults but the one named: failing writes and
dying processes included. `TypeCorrect` is
unconditional. The other four are about a job in the background that was handed over, and assume that the
parent is ahead of its child (`"late" \notin Faults`), as `JobLateCancel` shows they must. None is
inductive: each rests on what the wrapper can no longer do once a cancel is past its kill.
`BackgroundInv` says so: `HandOff` orders the
parent before the child, `Listing` ties the list to the place of the wrapper while it may
still change it, `Answered` ties the job file to it, as one who truncates it does, and `Cancelling` says that a cancel which
found the job alive knows the pid of its wrapper, and is past its kill only when the
wrapper is dead or has made its last change. `Keeping` is about a stored answer of which no rewrite was
spoiled: it is in the file or with the one writer that truncated it, whoever is about to truncate the file has read it
(`Carried`), and no two are between truncation and content. `AnswerComesFirst`,
`JournalHearsOfIt` and `AnswerStays` follow, and from each step that keeps the invariant the
action property `CancelledStays`. What `AnswerStays` does not say, that the rewrites are not spoiled, is what
the code does not do (`JobTwoCancels`).

`JsonTurnProofs` holds for any ceilings, bounds and faults. `JobInv` relates the place of the
run to the count of its passes (`PassCount`), to what is open (`ProxyInv`), to pi (`PiInv`), to the
answer so far (`AnswerInv`: a pass that is being read is above all those in the answer, so that
the order survives its merge) and to what was spent (`BudgetInv`: a pass that is not stopped is
within the budget together with all before it, and a stopped one adds what is in the pipe at
most). The step that ends a pass is the hard one; `Extended` is its lemma about sequences.

`ChannelProofs`, `StorageProofs` and `StreamProofs` are about `Parts`, hence about the very definitions that
`parts` checks: a behaviour of `Parts` is one of each component (`FleetPart`, `JournalPart`, ...), and
the rest is about that component.

`ChannelProofs`. `ToldExactlyOnce`: that nothing is printed twice needs that a sweep records only
what its follower has not seen (`Told`); that nothing is skipped needs that the line a sweep
appended is before its cursor until it jumps (`Ahead`). `MessagesGetThrough`: that order and
completeness survive a torn line needs that what is delivered is before the cursor, that every line before it was delivered or lapsed,
and that nobody writes twice (`InboxInv`). `ContinuedOnPurpose`: what a detached child
does rests on what was decided by its parent, under another state of the list (`SessionInv`).
Of the proxies, `CeilingsAreFit` follows from how a body is made, whatever the
entries say; `RowsAreKept` needs that an exchange has its row exactly when something has
happened to it (`Accounted`). `OnlyAllowedGoesOut` needs that every location
a request is at has passed the gate, the remembered ones too; `PackGoesAlong` needs that
nothing unremembers where an advertisement landed (`Remembers`, `Landed`), while other
requests are rewritten and redirected. All hold for any number of
exchanges at once, where the run has one.

`StorageProofs`. `CountersOnlyRise` (of the columns in the list of `MAX`, and of those only) and `MeasuresAreKept`
are about the merge of rows and the sweep, with records that fail and come late, whose two
clocks (the calendar day and the moment) differ by a day at most (`DaysOfText`, `Expiry`);
`Undiluted` is about sums over a set of rows. `SummaryIsTrue`: the recorder keeps an anchor and a count,
the property speaks of any two requests of the stream; `SeriesInv` says that the count is that of the
answers since the anchor, and that what the summary tells was the running one at some time. `NothingStaysBehind` says where the
skills come from and that they are there, but for the volume that is replaced by an empty one. It and `NothingIsShared`
rest on `ChainsEnd`: a recursive function is a choice in TLA+, and equals its body only if
some function does. Such a function exists for every configuration because a call has fewer profiles
left than the one before it; the induction is by a least counterexample (`LeastNumber`, from the
library's `WFMin`), which needs no operator as a parameter. `Says` then relates the mounts that were
merged to the chain of layers they were merged from.

`StreamProofs`. `LinesHandedOnce` says that the cut of a text does not matter: what a reader made of the
bytes so far (`Was`) and makes of the next piece is what it would make of both at once (`CutAnywhere`,
`ParsedTogether`). That is an induction over texts, by a least counterexample again (`SetOfAllSequences`), over
recursions that exist because each is over a shorter text (`FoldsAreThere`); `LineReaders` takes a text byte by
byte for that reason, and filters by a recursion of its own, as the prover cannot expand `SelectSeq`. The meter
garbles a character that is cut in two, so that its lines are only `Alike` those of the text; `CutAlike`
and `ParsedAlike` say that likeness survives the cut into lines and the parser, and that a half of a character
is never taken for the end of a line. `ReadersInv` has one part per reader; that of the journal's reader
is why its cursor may count lines while it reads from the start of the file each time.
`ReportAddsUp` says that what is reported of a run is what was done in it, for any number of passes, calls and files. `WorkInv`
relates the counters to the calls: what the passes before and this one count is the calls there were (`Counts`),
a line read is a file read first or a reread, in this pass and in those before (`Reads`), the calls of this pass
are the last ones and the loop that is being counted is the last of them (`ThisPass`), and no
loop of a single pass is longer than the one reported (`Longest`). That tools which ran at once are counted once is
`TimeIsOfTheUnion`: the recursion over intervals by their starts (`mergeIntervals`) gives the size of their
union, in whatever order those that start together are taken. It is an induction on the number of intervals left, and
the recursion is a recursive function because the prover cannot expand a fold over a sorted sequence.
`TypesAreKept` is the type invariant of all parts. Most of it is in the invariants above; what is added is that
a request is of the past (`PrunedInv`), that the recorder's series has a length (`SummaryInv`) and that no record of a
job is of the future, so that how long a session lay idle is a time (`UseInv`).

Assumptions are those of the modules (`IndexAssumption`, `StoreAssumption`,
`TurnAssumption`, `SlotsAssumption`, `JsonTurnAssumption`, `PartsAssumption`), and those named in a
theorem: limits are positive, the old list is a list, `Free` is not a writer, and a pool has finitely
many runs. `PartsAssumption` says what the constants stand for: runs are not followers, the forges redirect
locations to locations, no session is called as a reference is (`last`), times and lengths are
numbers, a run has a pass at least, the profiles are finitely many, and no container is named as a volume of
the agent is, and that the agent's `.gitconfig` is not the directory of its skills.

Every safety property that a run checks is proved. Only model-checked is liveness (`EveryUpdateLands`,
`EveryJobSettles`, `RunReturns`, `EveryWaiterGetsIn`, `TimedPassEnds`, `DeathIsShown`), which is out of the
prover's reach.

## What is not modelled

- `wait`, `runs`, `rerun`, `sandbox`, `setup` and `watch --follow`. `wait` and the reports only read.
  `watch --follow` reads the events and then the status, so that what a run writes between the
  two is never shown (`pi-companion.mjs:1745`); `LineReaders` has the reader under it only.
- The join of the pieces of a cut answer in the rpc engine (`foldRecoveredAnswer`) and the statistics
  of a result: recursion over text. The hard timer of that engine is any death of pi.
- A job evicted from the list while it runs: the store and the lifecycle composed are
  out of TLC's reach at sizes where an eviction happens.
- In the journal: migrations, the import of old jobs, the reports other than the shares.
- In the configuration: prompts, arguments, the sanitising of an untrusted workspace, and all
  keys but `sandbox` and `mounts`. Of the container: environment variables, the slices of
  credentials, the preflight.
- Models and capabilities (a cache on disk of what pi offers), the finish hook (one synchronous
  command whose outcome is logged), rendering, redaction and logs: no state that another
  part decides on.
- pids that the system gives to another process.

## Plan

Done: every component that keeps state or decides, with the theorems above. What would add most:

1. `foldRecoveredAnswer` as a recursive function, against "each series of
   pieces joined", by the same least counterexamples as `ChainsEnd` and `CutAnywhere`.
2. `ControlInbox` composed with the user's messages of `RpcTurn`, and `FleetChannel` with the end of
   `JobLifecycle`, instead of the flags that stand for them.
3. A job evicted while it runs, with an abstract lifecycle over `JobRegistry`.
4. `watch --follow` with its two reads.
