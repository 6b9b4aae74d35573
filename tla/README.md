# A TLA+ model of oh-my-claudecode-RS

TLA+ modules, TLC runs and machine-checked proofs about the parts of this
workspace where several threads, processes or machines share state. Paths below
are relative to `crates/`.

## The system

`omc-shared` is the foundation (types, resilience, state files). `omc-team`
orchestrates agents: it imports an issue of a tracker as a task card, claims
it, launches runtimes, watches workers and hands the result back. `omc-host`,
`omc-mcp`, `omc-hooks`, `omc-skills` and `omc-hud` connect it to the coding
agents; `omc-interop` shares tasks and messages with a sister tool.

| component | state | operations | what is hard | what makes it correct |
|---|---|---|---|---|
| background manager (`omc-team/src/background/manager.rs`) | map of tasks, JSON file per task, notifications by parent | launch, resume, report status and progress, remove, prune, cleanup, load at start | threads share it through `&self`; every method takes and drops several locks; launch blocks; restart | limits hold; no task waits forever; removed stays removed; each end is announced once, none is lost |
| concurrency manager (`background/concurrency.rs`) | a semaphore and a count per agent, under two locks | acquire, release, clear, queries | the permit is given back by hand; two structures for one number; two mutexes nested in both orders | the two agree; capacity is neither lost nor invented; nobody waits in a circle |
| tracker claims (`trackers.rs`, `lib.rs`, `main.rs`) | comments, labels and state of an issue; a record file per run | import, claim, mark started, hand off | runs on different machines; every request can fail or stall; leases expire | one holder; one start; a closed issue is done; no handoff comment twice |
| circuit breaker (`omc-shared/src/resilience.rs`) | state in a mutex, atomic mirror, counter, time stamp | allow_call, record_success, record_failure | four fields written at different moments by several threads | fast and slow path agree; failures are not lost; it recovers |
| dispatch queue (`dispatch.rs`) | queue, tasks in flight, a timer each | enqueue, dequeue, acknowledge, complete, fail, cancel, time out | late answers after a time-out; a full queue; workers that die | a task is in one place; timers match; the queue moves |
| task graph (`task_graph.rs`) | dependencies, search stack, tasks run | validate, execute in waves | order of hash maps; concurrent tasks, the first error drops the rest | cycles are found; nothing runs before its dependencies |
| priority scheduler (`task_graph.rs`), work stealing (`work_stealing.rs`) | levels, enqueue times, weights; local and global queues | enqueue, age, dequeue, steal | long legal sequences | no task is lost; old tasks are not overtaken |
| worker health (`worker_health.rs`, `heartbeat.rs`, `idle_nudge.rs`) | status, last heartbeat, errors in a row, restarts | heartbeat, success, error, check, restart | late heartbeats and answers | workers with errors are not chosen; restarts end |
| lifecycle, fault tolerance (`agent_lifecycle.rs`, `fault_tolerance.rs`) | state of an agent, retries, quarantine, tasks of a swarm | transitions, recovery strategies, redistribution | failures in sequence | every task has exactly one agent |
| phases, governance (`phase_controller.rs`, `governance.rs`) | phase and history; audit log | transition, infer, check | two tables of the same transitions | the tables agree; terminal phases are final |
| communication (`communication/`) | inbox, outbox and signal files | append, read, clear, rotate, consume | processes share files without locks; appends in two writes | a message is read or waiting, in order; a signal is consumed once |
| session pools (`omc-shared/src/session_pool.rs`, `omc-host/src/process_adapter_pool.rs`) | entries, diagnostics | open or reuse, remove, reap | capacity and expiry together | capacity holds; diagnostics add up |
| state, memory and notepad tools (`omc-mcp/src/{state,memory,notepad}_tools.rs`) | a JSON file per mode and session, one for the memory, a text of three sections | write, clear, merge, add | several servers, killed at any time; three ways of writing a file | files are whole; calls that do not meet are atomic; an acknowledged note stays |
| goal ledger (`goal_contract.rs`, `state/goal_ledger.rs`, `omc-mcp/src/goal_tools.rs`) | one JSON file per goal | create, start, block, complete, checkpoint | load, change, save by several servers | a completed goal stays so; checkpoints are kept |
| interop (`omc-interop/src/`) | shared tasks and messages as files | add, update, mark read, clean up | two tools, no locks | updates are not lost; deleted stays deleted |
| catalog (`omc-host/src/catalog.rs`) | six files of one directory: active, previous, staged and three helpers | status, refresh, rollback, recovery | a command killed or failing between two renames; what the next one finds | there is always a catalog, and it is the one activated last or the one rolled back to |
| hosts, MCP server, hooks, skills, installer, HUD, wiki, context, notifications, git providers, autoresearch, Python kernels | configuration, caches, child processes | parsing, rendering, copying, requests | mostly input to output in one process | — |

How they meet: the tracker commands of `omc-team` write the record that the
handoff looks up; the background manager owns its concurrency manager and calls
it under its own locks; the dispatch queue picks workers by what worker health
says of them; refresh and rollback of the catalog call active, which repairs
what an earlier command left; MCP tools and CLI commands of several processes meet only in files.

`PROJECT.json` lists every component with its status, and under `hazards` what
in this code is hard to test, each at its line.

## Modules

### SlotPool, BackgroundManager

`BackgroundManager` models both managers. A method is one action per region in
which it holds a lock, or per file it writes outside of every lock, so that
everything that can happen between two regions does. A launch is a blocked
thread, and `launch[t]` says where it is:

    new -> admitted -> inserted -> persisted -> waiting -> permitted -> acquired -> ran -> returned
       \-> refused               \-> failed                                          \-> panicked

`tasks` is the map (status or absent), `files` the directory, `semaphores` the
keys that have a semaphore, `permits[g]` the permits of the semaphores of
generation `g`, `arc[t]` the generation a thread holds an `Arc` to (cleanup
drops the map while threads wait on what was in it), `counts` active_counts,
`marking` the tasks cloned for notification under one lock and not pushed under
the other yet, `reclaim` where each remove or prune of a task is.

Abstracted: ids (a launch has its own), prompts and results, the times that
make a task stale (prune may take any set of tasks in flight), which
notifications are old, the parent session that a resume changes (`ParentOf` is
constant). Not represented: errors of writing files (the code ignores them).
`cleared` is a history variable: the announcements a parent has cleared.
Waiting for a mutex is a matter of `ConcurrencyLocks`; no method of the manager
calls the one that closes a circle. `Restart` kills every thread, loads the
files, and may find one torn, because `fs::write` truncates before it writes.

`SlotPool` is what the managers promise, with no thread in sight: a task asks
for a slot, is granted one when fewer than the limit are held, gives it back
once. A task waits from the time it is persisted and holds a slot from its
permit to its report: that is the refinement mapping `Slot` in
`BackgroundManagerProperties`.

### ConcurrencyLocks

The two mutexes of the concurrency manager, one action per lock taken or
dropped: `holder`, and for each thread its method, key and place in it.
`acquire` never holds both, `clear` neither, `release` takes `semaphores` under
`active_counts`, and `get_queue_length` takes them the other way round: together
they can wait for each other for ever. The effect of the methods on permits and
counts is `BackgroundManager`'s.

### TrackerClaims

Runs on different machines compete for one issue. Each HTTP request is an
action. `start` imports the card, `claim` looks for a ready issue; both read
the issue again, post a lease as a comment, list the comments and win if theirs
is the earliest lease not expired. `start` goes on to mark the issue (GitHub:
two labels added, one removed, a comment; Linear: a comment, then the state)
and saves its run record, without which no handoff finds the run. A handoff
posts or patches one comment, relabels the issue request by request and saves
the record. `LoseAnswer` is the comment that was created although its answer
was lost, `FailRun` and `FailHandoff` any other request failing or the process
dying: nothing is undone.

Abstracted: one issue; one clock (machines whose clocks differ are not
modelled); a Linear state is a label, one progress state at a time; lists are
fetched whole (`first: 100` and pages are not modelled); the labels and the
comments that `claim` reads are read in one step, because both are read again;
a run has a root and a run id of its own, and hands off one thing at a time.
Linear's ids are random but its times are fine enough to differ; GitHub's ids
grow and the code compares them as strings, which is `IdLess`, assumed to
compare like numbers (`IdsCompareAsNumbers`).

### CircuitBreaker

Every atomic operation of the four fields is an action; a region of the mutex
that writes is two, since the mirror is stored after the state. The clock is
kept as ages that stop at the timeout and the counter stops at the threshold,
so behaviours are infinite in a finite state space and liveness needs no bound.
Nothing in the workspace calls the breaker outside of its tests: the callers
that ask, call and record are modelled from what its methods are for, and marked
external in the map. `sure` is a history variable: how many failures were
counted since the last success was over.

### FileSystem, ToolServers

`FileSystem` is what `std::fs` and the operating system give: contents by name,
a temporary file beside each (`with_extension("json.tmp")` gives all writers of
a file the same name for it), and descriptors bound to the file, not the name,
so that a rename carries a writer's descriptor along. It is external.

`ToolServers` models the MCP tools that keep state in files: goals, mode
states, project memory and notepad. Each host has a server process of its own,
which serves one call at a time; `call`, `pc` and `held` are the handler's local
variables. A call is `Call`, `Load` (read, check, compute), `Open` (create or
truncate), `Write`, `Rename`, `Reply`, with `Unlink` for the ledger's clean-up
after a rename that failed and `Clear` for state_clear, which removes one file
after another. The notepad is written in place, the others to the temporary
file. `Crash` kills a server anywhere. Contents are what the properties tell
apart: status and checkpoint ids of a goal, one value for a mode's state or the
memory's base fields, and the notes. A memory's notes are a set, or something
that is no array (`NoList`), which takes no note; a write or merge may bring its
own list, none, or no array. The notepad is one text of lines, and every call
on it takes the sections out of that text (`Section`, which ends where the code
finds a line that starts with `## `) and builds a new one (`Build`), so an entry
with such a line is cut by the next call. Blank lines, trimming and empty
notes are left out; a marker is taken to be found at the start of a line only. A
write over a longer content leaves its end (`Torn`, `Leftover`).

`expected` is the reference: what a file may hold if each answered call took
effect at its answer, and a killed one at once or not at all. It is a reference
for atomicity only, since it follows what each call makes of what it finds.
`acked` is the one for loss: the notes and entries that have been answered for
and that no call has replaced, as long as the file stays clean (`Clean`).
`mishap` notes that two calls are on a file, until one of them, or a later call,
leaves it alone and whole; what it holds then is what `expected` goes on from.

### TeamBounds, TeamMailboxes

`TeamMailboxes` models `communication/`: each access to a file is an action of
a lead's or a worker's process. `writeln!` on a `File` is two writes, `PutLine`
and `PutNewline`, so a text is a sequence of message ids and newlines.
`rotate_outbox` is read, open, write, rename; its copy is written in one
action, since nothing reads it before the rename and two writers of it are
exempt from the properties. A worker's receive is `ReadInbox`, `ClearInbox`; a
check is `ReadSignal`, `RemoveSignal`. The drain signal, which is written by
the same code and read by none, is not told apart from the shutdown signal.
`TeamBounds` holds the budget of operations that bounds behaviours.

### WorkerPool

The dispatch queue and the health monitor, and the only composition the code
has among the team's structures: select_worker takes healthy or degraded
workers. Each method is one action. The lead's loop and the workers are not in
these files: a worker that is alive and has a task may answer at any time, in
time or not, or die; the lead may make any call, with two restrictions from the
methods' purpose: a task is submitted once, or again once it has failed
(`Enqueue`; the code itself pushes any id, and `TaskInOnePlace` rests on callers
that do not submit one that waits or is in flight), and only unresponsive workers are restarted or removed. Instants are
ages up to one tick more than the limit they are compared with.

### Swarm, TaskGraph, PriorityScheduler

`Swarm` is on_agent_failure with its four strategies, over members, lists of
tasks and quarantine; round-robin goes over a hash map, so any order of
recipients. `TaskGraph` has the recursive search as an explicit stack, one
action per call and return, and the execution in waves whose tasks answer in
any order. Every graph over three ids is executed, those with dependencies on
ids that are no tasks included. `PriorityScheduler` counts waits up to the
threshold; ageing, which loops until nothing is promoted, is the operator
`AgedLevels`, and the deficit of a weighted level is compared as integers, with
ties left open.

### Interop

Shared tasks and messages, one file each, and the mailboxes of omx workers,
used by hosts of either side; every file is written in place. Read, open,
write, look and delete are actions; a listing is one (its files are looked at
one by one again in what follows). Ids are random in the code and never reused
here. A task's `closed` says that its completion time is set. Directory
errors, and what omx itself does to its files, are left out.

### Catalog

The catalog of profiles in force, under the commands `omc catalog status`,
`refresh` and `rollback`, each a process that makes one call. A call is a walk
over the steps of active, activate and rollback, one action per access to a
file, with the question whether a file is there as an access of its own;
`command[p].at` names the step, `new` the catalog a refresh brings, `got` the
one it has read. rename is atomic, a write is not: it leaves a torn file when
the process is killed in it. `Kill` ends a call anywhere; `IOFault` makes one
access fail, and the call then goes on where the code handles the error
(`Survives`) or ends. A refresh begins where its catalog has passed digest,
signature and schema; trusted sources and the download come before. Every
valid catalog stays valid: an upgrade of omc that rejects the active one is
not modelled, nor is an is_file that fails on a file that is there.

`may` is the reference: the catalogs that may be in force. A call that has
reported or activated one leaves it alone in `may`; a refresh adds its own when
it opens the staged file; a rollback, and a call that could not read active, add
what recovery may find (`Others`). That includes what an earlier refresh staged
without activating it: a rollback that is cut off after it moved active aside
may bring up that one instead of the previous, because recovery prefers it
(`catalog.rs:193-200`). After such a cut the catalog that was swapped out
may be gone, so "rollback atomically swaps it back"
(`../docs/universal-runtime-profiles.md:64`) holds only of rollbacks that end.
`overlapped` is set once two calls were made at the same time, which the code
does not guard against: a status in the window of a refresh takes its staged
file for the leftover of a dead one.

### Team

The side-by-side composition of the seven components above: none of them calls
another or reads its state in the code, so a step of the team is a step of one.
Each budget of `MCTeam` lets one of them move, so their state spaces add up;
what may meet within one module is in the same budget.

### Property, MC and proof modules

`*Properties` state the properties and the inductive invariants; `MC*` give the
constants their values; `*_proofs` hold the theorems. Operators commented
"Faulty" are variants of an action with a plausible bug in it; no specification
uses them, and each shows that a property notices that bug.

`Team_proofs` holds the proofs of the pool, the swarm, the graph, the scheduler
and the composition, and extends those of the mailboxes, interop and the
catalog. `Selection` says what a filter keeps of a sequence by positions
(`Kept`): rotations and ageing are written with it and not with SelectSeq,
whose recursive definition cannot be reasoned about by the provers. The two
parsers disagree on `SUBSET A \ B`, hence the parentheses around `SUBSET A`.

## Runs

| run | bounds | shows |
|---|---|---|
| `workers` | four launches, three of an agent with two slots and one of an unlimited agent, at most 3 tasks in flight, 2 queued, one report each | `RunningWithinLimit`, `AtCapacityMeansNoPermits`, `QueuedHasLauncher`, `AnnouncedOnce`; every admitted launch returns (`AdmittedLaunchReturns`); the manager implements the slot pool, its fairness included (`ImplementsPool`) |
| `calls` | two launches of one agent with one slot, two further calls of any kind, one cleanup | whatever is called when, capacity is not lost between the structures (`CapacityNeverShrinks`) and a removed task is not put back (`RemovedStaysOut`) |
| `removed` | as `calls`, with one remove_task | violation: a slot is released twice, a permit is free at a full count |
| `race` | two launches, at most one task in flight | violation: both are admitted |
| `together` | three threads, two keys, every method | violation: release and get_queue_length wait for each other (`NoCircle`) |
| `github` | two starts and a claim, leases of 3 ticks, the clock to 4, a stall of one tick, one handoff, one failure | `OneHolder`, `StartedOnce`, `ClosedIsDone`; without failures somebody wins (`SomeRunWins`) |
| `linear` | two starts, leases of 5 ticks, the clock to 8, a stall of two ticks, two handoffs, one failure | `StartedOnce`, `OneHandoffComment` |
| `named` | two starts and a claim, leases of 3 ticks, no failure | violation: a start loses to the lease of a run that lost |
| `threads` | three threads, threshold 2, timeout 2 ticks, no bound on calls or time | `MirrorAgrees`, `Trips`, `Recovers` |
| `servers` | two servers, one goal with two checkpoint ids, two sessions; notes of one or two lines, two of them with a heading below the first; up to 5 goal, 3 state, 3 memory or 3 notepad calls with a crash, or one of each kind without (`MCToolServers`) | `WholeRecords`, `AsIfOneAtATime`, `EntriesKept`, `GoalSteps` |
| `team` | two leads, two workers, two tasks, three agents, graphs over three ids, two hosts, two commands with two catalogs (two refreshes, a status and a rollback, with a failing access or a killed command); a budget per component (`MCTeam`) | mailboxes: `ParsesUnlessSpoiled`, `ReadOrWaiting`, `ReceivedInOrder`, `KeepsNewest`, `SignalTakenOnce`; pool: `TaskInOnePlace`, `TimersMatch`, `ErrorsKeepWorkAway`, `QueueMoves`; swarm: `TasksSurvive`; graph: `GraphRun`; scheduler: `NoneOvertakesAged`; interop: `MailboxKeepsAll`, `SharedRecordsHold`; catalog: `CatalogHolds` |
| `lines` | as `team`, up to three messages | violation: two messages share a line |

Why the bounds are enough to meet the interesting cases: three tasks of an
agent with two slots make one wait; a further launch of another agent fills the
queue and is refused. In `calls` a call is split into up to five regions, so
two calls interleave with both launches in all ways, and a cleanup makes a
second generation of semaphores. With `2 * MaxStall < TTL < MaxTime` leases
expire while other runs are anywhere in their protocol. Three threads let a
success, a failure and a caller that asks overlap. In `servers` and `team` two
processes are enough for every race on a file: each property is about one file,
and a third process adds no access the first two do not make. The pool has a
task that waits while another is in flight, a worker that dies or falls silent
and one to take over, and a resubmission under the same id. Three agents and
three tasks make redistribution uneven; three ids give every shape of cycle,
diamond and missing dependency up to that size.

The catalog's run has a command cut off at every step, then commands that repair
what it left and may meet it; the proof has no bound.

Several properties exempt what the code does not protect: files whose calls
overlapped (`mishap`, `spoilt`), calls on the catalog made at once
(`overlapped`), lines written between a read and the truncation after it
(`late`), a worker found unresponsive (`fellSilent`). The
histories record which file or line a meeting was on, so the properties
still say what holds of the others, after crashes too. They differ in how long:
`mishap` forgets an overlap as soon as a call leaves the file alone and whole,
`spoilt`, `late` and `fellSilent` stay for the file, the message or, until it
registers again, the worker, and `overlapped` stays for the whole behaviour.

`CHECK_DEADLOCK FALSE` stands where the system may really stop: a launch may
wait forever once the process was restarted or capacity was released wrongly
(`calls`, `removed`, `race`), the commands of the tracker end, and budgets of
calls run out (`servers`, `team`, `lines`); in `together` the circle is what `NoCircle` is to find.

### Fairness

`workers`: threads are scheduled (weak fairness of each launch), tokio's
semaphore serves its waiters first come, first served (strong fairness of
taking a permit), and workers report and notifications are pushed (weak). That
workers report is an assumption: nothing in the code forces them to, and
prune_stale_tasks, which is there for those that do not, is in `calls`.
`github`: a run that is not dead goes on, and time passes. `threads`: threads
run, calls end, callers that were turned away ask again, time passes. Weak
fairness is enough: once the circuit is Open and stays so, the mutex is taken
finitely often. `team`: `PoolFairness` (the lead keeps calling dequeue and
check_timeouts, which is what they are for, time passes, and a worker that
lives finishes its task), all weak. `QueueMoves` also supposes that
acknowledged tasks of dead workers do not hold every place for ever, because
then the code's queue stands still.

### What the violations say

* `removed`: `get_queue_length` relies on "Available permits is 0" when the
  count is at the limit (`concurrency.rs:90`). remove_task and prune release
  the slot of a task whatever its status is, so a finished task gives its slot
  back twice, and a task removed before its launcher counted itself leaves a
  count that hides a free permit. The agent then runs more than its limit.
* `together`: `release` holds `active_counts` and waits for `semaphores`,
  `get_queue_length` the reverse (`concurrency.rs:68-74` and `85-88`, `81`), so its
  "approximation" (91) never comes. The manager does not call it, but the
  type is exported.
* `race`: the number of tasks is read under the read lock and the task inserted
  under the write lock later, against the message at `manager.rs:118` and the
  test at 674.
* `named`: losers leave their lease comments, and later starts are told that
  they lost to them (`trackers.rs:909`).
* `lines`: append_jsonl calls itself "Safe for concurrent writers"
  (`communication/mod.rs:27`), but `writeln!` writes line and newline apart, and
  a mailbox with two messages on a line can no longer be read.

## Proofs

TLAPS proves, for every value of the constants that meets the assumptions:

**BackgroundManager.** `TypeCorrect`. `CapacityKept`: free permits + threads
that have a permit and are not counted + the count make up the limit at least.
It is inductive together with the types: each region moves a unit between the
three, and the only regions that touch one alone (a saturated release) add to
it. `NeverPutBack`: no action but LaunchInsert and Restart makes an absent task
present. For callers that only launch, report, read and clear (`WorkersOnly`):
`LimitRespected`, `CapacityAgrees`, `QueuedKeepsItsLauncher`,
`AnnouncedExactlyOnce` and `ImplementsSlotPool`, all from `WorkersInv`: nothing else is under way
(`Undisturbed`), the status of a task goes with the place of its launcher
(`Placed`), a finished task is being announced, announced or cleared, once
(`Announced`), and permits and holders
make up the limit while the count lags by those that have not counted
themselves (`Balanced`). RunningWithinLimit is not inductive alone: launch marks
a task Running long after it took its permit, so the invariant has to follow
the permit from the semaphore on. `removed` shows why `WorkersOnly` is needed.

**TrackerClaims.** `TypeCorrect`. `LeaseInvariant`: the leases are in the order
in which they were posted (`Order`), who listed the comments has every lease
before its own (`Fetched`), and whoever precedes a winner has expired
(`First`). `HolderIsUnique` follows, whatever fails and however long requests
take. `StartIsUnique` needs two assumptions, `StartsInTime`: a run takes less
than half the life of a lease from reading the issue to marking it (the code
has no such limit, the model has `MaxStall`), and a Linear team has the state
that start moves an issue to. `StartInv` then says that while somebody has
started, the issue shows it, and that who read the issue before is bound to
decide while the starter's lease is active (`Covered`). `ClosedStaysDone` has the
same assumptions: `HandInv` follows a handoff through its requests (who hands
off has started, and each place says which labels it has left behind), and
`ClosedInv` adds that an issue is closed only by a run that has started, so by
`StartInv` no other run is about to mark it anew; without that, closed would not
stay done. `CommentIsUnique` needs no assumption: while nothing has failed, a
run that is between handoffs and does not know its comment has not made one
(`CommentInv`).

**CircuitBreaker.** `TypeCorrect`. `MirrorCorrect`: threads between setting the
state and publishing it hold the mutex, one at a time (`MutexInv`).
`TripsCorrect`: the counter is ahead of the failures that are sure
(`CountInv`), so the failure that completes the threshold sees it reached.

**WorkerPool.** `PoolTypeCorrect`. `WorkInOnePlace`: TaskInOnePlace is inductive once
said by status (`PlaceInv`: the queue has no duplicates, each task is where its
status says, no more than MaxConcurrent are in flight) and joined with
TimersMatch (`Timers`), since check_timeouts takes by timer and not by status. `ErrorsKeep`:
a worker at the threshold is Unhealthy or Unresponsive, or fell silent since
(`Explained`); the middle case is what makes ErrorsKeepWorkAway inductive, as a
heartbeat turns Unresponsive into Healthy.

**ToolServers.** For any number of servers, goals, sessions and calls:
`TypeCorrect`; `Whole`: in a file whose calls did not overlap, at most one call
is under way (`Alone`), its descriptor is on the file it is writing (`Hands`)
and the temporary file has the content its place says (`Stage`), so the rename
publishes a whole record. WholeRecords alone says nothing of the temporary
file and is not inductive. `Transitions`: what a call holds to write is what
the contract makes of the record that is in the file (`Point`). `OneAtATime`:
the file is always one of the expected contents, or, after the rename and
before the answer, what the call makes of one (`Effects`); between calls only
the first case is left. `KeptEntries`: whatever the file may hold, what has been
answered for is in it (`EntriesInv`). A step keeps it because the sections of a
clean text are the parts it was built of (`BuiltSection`, from where the lines of
a concatenation lie, `Layout`), so a call that adds to one section carries the
entries of all three over (`NotepadKeeps`). Without cleanliness that is false,
and nothing is claimed (see below for what the code does).

**Catalog.** `CatalogTypeCorrect`; `CatalogStands`: CatalogHolds for any number
of commands, catalogs, failures and kills. The invariant (`CatalogInv`) says
that active, if it is there, may be in force; if it is not, so may everything
recovery could find, and previous is there or the bundled catalog was never
replaced (`Safe`); and what the call under way knows of the files where it is
(`Knows`). CatalogHolds alone is not inductive: it does not say that the file
about to be renamed over active still holds what was read of it, nor that
previous is whole while active is gone (`NoneTorn`).

**Swarm.** `SwarmTypeCorrect`; `TasksNeverLost`: TasksSurvive for any number of
agents and tasks. To be inductive it also needs that a list holds nothing that
was not handed out (`Within`), or a new task could already be there. Both
redistribution and succession are shown to rearrange the lists one to one
(`Rearranged`); for round-robin this rests on arithmetic (`ShareLength`,
`ShareCovers`, `ShareDisjoint`): the shares of n recipients cover every position
of the list, and no two have one in common.

**Interop.** `InteropTypeCorrect`; `MailKept` and `RecordsHold`: MailboxKeepsAll
and SharedRecordsHold for any number of hosts, files and crashes. Neither says
what a host has in its hands, so neither is inductive. The invariant
(`InteropInv`) adds that who holds an unspoilt file holds it alone (`Sole`),
that what it will write follows from what was there (`HeldInv`), and that an
unspoilt file is settled but while it is written (`SettledInv`). That a message
is never unread again holds of spoilt ones too: only add writes an unread one,
and who adds a file is the only one to know its id until it is there
(`AddInv`), while a mark that meets a removed file writes it back as read, so
the invariant follows removed messages as well (`ReadInv`).

**TeamMailboxes.** `MailTypeCorrect`, and from `MailInvariant` five theorems, for
any number of leads, workers and operations, any limit of a rotation and deaths
anywhere. What each place of a process says of its operation and its
descriptor is `Stages`; each property then needs something of its own:

* `LinesParse`: a mailbox may end in a line without its newline only while
  somebody is in that line, and then that one process alone; a rotation holds
  finished lines in memory and in its copy (`LinesInv`).
* `MessagesKept`: what a worker is about to clear it has read or it came late
  (`InboxInv`). ReadOrWaiting says nothing of the text in the worker's hands.
* `InOrder`: an id is used by one process, is not yet in the files it has still
  to be written to, and is appended to each once (`IdsInv`); so the history of
  appends orders the messages, and file and reader agree with it (`OrderInv`).
* `RotationsKeep`: the text being copied by a rotation is itself a tail of the
  history, long enough (`NewestInv`), said by positions in the text.
* `SignalsTaken`: the id of a signal is in the file, in the temporary file, in a
  check or in what earlier checks returned, and in no two of them but the file
  and the check that has just read it (`SignalInv`).

**TaskGraph.** `GraphRunsInOrder`: GraphRun for every finite graph. The stack is a
path of dependencies, and what the search has returned from depends only on
such tasks (`SearchInv`), so an edge back into the stack is a cycle, and a
search that ends without one has shown that there is none. Acyclic is said
by sets (every non-empty set of tasks has one that depends on none of them),
which makes both directions steps of an invariant: a task is returned from
after all it depends on, so a set it joins keeps a task of that kind; and the
stack from the task met again on is a set without one. No induction over paths
is needed. `WaveInv` is the rest: nothing runs before the validation.

**PriorityScheduler.** `AgedNotOvertaken`: each entry is in one position of one
level or of what was served (`OnePlace`, said with positions rather than the
cardinalities of EachOnce); promotions append the old entries of a level to the
one above, in their order, so what is before an aged entry was enqueued before
the dequeue that found it old.

**Team.** `TeamTypeCorrect`, `TeamKeepsAll`: the types and all fourteen safety
properties that the run `team` checks hold at once. The invariant is the conjunction of those
of the parts. A step of the team is for every part a step of it or leaves its
variables alone (`TeamSteps`), and each part's invariant was shown to survive
`[XNext]_xVars` whatever happens to the shared budget, so the lemmas of the
parts apply as they are. The side-by-side composition is as much as the code
has, so this says that the parts' variables and files are disjoint, and nothing
about a protocol between them.

Every safety property of a passing run is a theorem. Only
model-checked: liveness (`AdmittedLaunchReturns`, the fairness of `ImplementsPool`,
`SomeRunWins`, `Recovers`, `QueueMoves`), which is out of the prover's reach, as
is ENABLED.

## Not modelled

`PROJECT.json` gives the reason for each component. In short:

* Most of the workspace maps input to output in one sequential process:
  command lines, prompts, parsing, rendering, templates, installers, search,
  formatting of requests. It has no behaviour for a model to explore, which is
  why the map covers a small share of the lines.
* Tables and single records behind `&mut self` (agent lifecycle, phases,
  governance, session pools, work stealing): a property would restate them.
* Wire protocols whose other end is outside of the repository (LSP, DAP, Python
  kernels, trackers' pagination), and the log files of observability, whose
  in-place rewriting by one process is that of `Interop`.
* Of modelled components: which worker a policy prefers, restart back-off,
  notepad_prune and listings, interop's session config, the catalog's registry
  of trusted sources; in `TrackerClaims` doctor, several issues in one root and clocks that differ; for
  `BackgroundManager` what a restart should do with finished tasks.

More disagreements were met; they have no run of their own:

* "Content in this section is never auto-pruned" (`notepad_tools.rs:379`), but
  extract_section ends a section at the first line that starts with `## ` (61),
  and the next call, whatever section it is for, writes the rest away. `servers`
  reaches such states (`Section`, `NotepadAfter`), with one server and no crash;
  `EntriesKept` stops there.
* "Successfully added note" (`memory_tools.rs:376`) is also the answer when
  customNotes is no array and nothing was pushed (366); `MemoryAfter` does the
  same.
* "rollback atomically swaps it back" (`universal-runtime-profiles.md:64`): cut
  off between its renames (`catalog.rs:327-329`) it may bring up what an earlier
  refresh had staged; `may` allows for it (`Others`).
* "Opens the circuit when the threshold is reached", "Resets the failure count
  and closes the circuit" (`resilience.rs:83`, `75`): a success that resets the
  counter before it takes the lock (77) and a failure in between leave the
  circuit Closed with the counter at the threshold.
* eligible_agents is documented as "neither the failed one nor quarantined"
  (`fault_tolerance.rs:122`) and does not look at the quarantine; `Redistribute`
  models what it does.

## Plan

Done: `SlotPool`, `BackgroundManager`, `ConcurrencyLocks`, `TrackerClaims`, `CircuitBreaker`,
`FileSystem`, `ToolServers`, `TeamMailboxes`, `WorkerPool`, `Swarm`,
`TaskGraph`, `PriorityScheduler`, `Interop`, `Catalog`, `Team`; every safety
property of their passing runs is proved.

Left, in order:

1. What the liveness properties rest on, as invariants: that a launch that waits
   has a holder whose report will wake it, that a queue that stands has a timer
   or a worker that will answer.
2. A run for each of the disagreements above that has none.
3. `ToolServers` as an implementation of an abstract record store, with
   `expected` as its state.
4. Profiles: installation and rollback with a failure at each file.
