# A TLA+ verification of the ruvos coordination core

ruvos is a local coordination server for coding agents: an MCP server (one per
editor or agent session), a command line and a daemon, all working on the files
of one data root. The processes share no memory. What they share are files,
one SQLite database and, per process, a tokio runtime with the registry, the
budget and the vector cache that its concurrent calls use. What can go wrong is
therefore what several processes, detached tasks, concurrent calls, crashes and
files in an arbitrary order can do to the shared state, and that is what these
modules model, together with the two algorithms that decide what is done next
(the planner and the rework loop of `orchestrate`).

Paths below are relative to `crates/ruvos-mcp/src/` unless they start with
`crates/`, `substrate/` or `docs/`.

## 1. Inventory

### Components with state of their own

| component | state | operations | shared with |
|---|---|---|---|
| task graph (`runtime.rs`) | nodes with a state and `depends_on` | `add_task`, `add_dependency`, `set_state`, `would_create_cycle`, `blocked_by`, `propagate_failure` | inside `SwarmState` |
| task scheduler (`runtime.rs`) | queue of ids over a task graph, a saved copy | `next_ready`, `mark_*`, `graph_mut`, `save_to_path`, `load_from_path` | in memory |
| policy and budget (`runtime.rs`) | counters of `ResourceTracker` behind a mutex | `authorize`, `can_start_tool`, `record_tool_call` | concurrent calls of one server |
| swarm control plane (`tools/swarm.rs`, `tools/auto_swarm.rs`) | `swarm.json`: members, lists of tasks, task graph, status | create, assign, heartbeat, join, leave, rebalance, complete, fail; auto-create | all processes, under `swarm::state_lock` |
| swarm policy and learning (`swarm.rs`) | policy, history and learning files | written by create, complete and fail | all processes |
| durable task queue (`task_queue.rs`, `server_rmcp.rs`) | rows of `tasks.db`, detached executions | `enqueue`, `recover_pending`, `mark_completed`, `mark_failed`, `prune_old_failures` | all servers of a data root |
| store files (`paths.rs`, `relay.rs`, `tools/memory.rs`) | JSON files, temporary files, lock files | `lock_store`, `atomic_write`, load | all processes |
| relay (`relay.rs`, `tools/relay.rs`) | presence files, inbox directories, contracts file | announce, list, send, contract operations | all processes, no lock |
| relay daemon (`daemon.rs`) | poll counter, mail in hand | poll, announce, drain, dispatch | relay files |
| tool registry (`tools/handler.rs`) | the calls under way | `execute` | concurrent calls of one server |
| event store handle (`store.rs`) | the open handle of `store.redb` | `try_store` | all processes; one handle at a time |
| orchestrate, graphflow and planner (`tools/orchestrate*.rs`, `substrate/ruvos-graphflow`, `substrate/ruvos-goap`) | open and closed sets of a search; visits and steps of a run | plan, run, rework | one call |
| agent exec (`tools/agent_exec.rs`) | journal of a list of ops | run, resume, parallel groups, purge | one directory per journal |
| rulake cache (`substrate/rulake`) | pointers, entries with reference counts, snapshot directory | search, prime, save, publish, warm, refresh, invalidate | threads of one process; the directory with others |
| agents, sessions, memory, hooks, governance | records in redb or JSON | create, read, update | one transaction or one locked cycle each |

Parts without coordination logic (text compression, LLM clients, the
vulnerability scanner, host adapters, vendored vector indexes, the command
line's presentation, benchmarks) are listed in `PROJECT.json` with the reason
why they are left out.

### How they interact

* A swarm handler takes `swarm::state_lock`, loads `swarm.json`, changes it,
  writes it with `atomic_write` and releases the lock. `StoreFile` models that
  cycle step by step and shows it to be one atomic update, which is what
  entitles `Swarm` to make every handler one action.
* `swarm.assign` and `swarm.heartbeat` change the task graph only through the
  operators of `TaskGraph`.
* The post-task hook enqueues its learning work on the durable queue; `serve` replays what
  is pending before it answers the first call.
* The contracts file of the relay runs the same load/change/write/rename cycle
  as the other stores, without the lock and with one temporary name for all
  processes: it is another instance of `StoreFile`.
* Every tool call goes through `ToolRegistry::execute`, which publishes its
  events through `try_store`; the budget's mutex is held while one of these
  events is published, so the calls of a server and the holders of the store
  wait for each other.
* `orchestrate.run` plans with `ruvos-goap` and runs the plan over the graph of
  `ruvos-graphflow`: `Orchestrate` extends `GoapPlanner` and runs what it finds.
* The memory tools search through rulake's cache, whose searches, installs and
  invalidations interleave at the granularity of its mutex.
* `relay.list` both prunes other processes' files and drains the caller's own
  inbox; the daemon drains its inbox on a timer and announces itself only
  between two polls.

### What is hard here, and the properties that make a component correct

`PROJECT.json` lists the hazards line by line. In short:

* task graph and swarm: edges are added to tasks that already have states and
  dependents; lists of tasks are never shortened by a completion; members
  expire, leave, come back and are rebalanced in any order. Correct means: no
  cycle, no task left queued behind a failure, no running task without a
  holder, no assigned work lost.
* queue: a process may end between any two statements, any statement may fail
  and its error is dropped, and a second server replays rows of the first.
  Correct means: a committed task is never lost, a deleted row stays deleted,
  every pending row is settled in the end.
* stores: readers take no lock; a writer may stop anywhere and leave its
  temporary file. Correct means: readers always find a complete value, and an
  update that was acknowledged is still there.
* relay: nothing is locked, everybody prunes, the calls of one server drain the
  same inbox, and failed file operations are passed over. Correct means: mail is
  lost, or handed out twice, only where one of these is the cause, and a daemon
  handles the rest of its mail.
* tool registry: the budget is compared before a call and charged after it, and
  an event can be dropped. Correct means: the overrun is bounded, every call
  that was let in is charged once, the reported usage never goes back, every
  call ends.
* agent exec: checkpoints are written best effort around effects that cannot be
  undone. Correct means: success stands for the whole list, nothing recorded is
  done again, nothing overtakes.
* orchestrate: failures send a run backwards. Correct means: the plan is valid
  and cheapest, a completed run stands on the last runs, a failed one has a
  reason, every run ends.
* scheduler: ids stay in the queue while their tasks change. Correct means:
  nothing starts before its dependencies, nothing that has ended is given out,
  nothing ready is forgotten.
* cache: pointer, entry and count are changed by searches that read their bundle
  long ago. Correct means: every pointer resolves, every entry is referenced, an
  entry is no older than its name, a Fresh search is fresh.

## 2. Modules

```
TaskGraph
    |---- Swarm ----- TaskGraphWalks (the code's loops) ---- MCSwarm
    \---- TaskScheduler
          (all of these) ---------- TaskGraph_proofs
TaskQueue ----------- DurableWork (abstract), TaskQueue_proofs
StoreFile ----------- AtomicStore (abstract), MCStoreFile, StoreFile_proofs
Relay --------------- MCRelay, Relay_proofs
ToolRegistry -------- MCToolRegistry, ToolRegistry_proofs
AgentExec ----------- MCAgentExec, AgentExec_proofs
GoapPlanner --------- Orchestrate ------- MCOrchestrate, Orchestrate_proofs
LakeCache ----------- MCLakeCache, LakeCache_proofs
```

`PROJECT.json`'s map gives the source lines of each definition; the definitions
keep the source's names where the code has one.

**TaskGraph** is `TaskGraph` of `runtime.rs` as pure operators on a pair of
functions (state of each node, `depends_on` of each node). The two loops of the
code are stated by the set they compute: `Reachable` is the least set that
contains the start and the dependencies of its members, `Cascade` the least set
of waiting tasks closed under depending on a failure.

**TaskGraphWalks** has the loops themselves: a step of a loop gives, from a
stack (or work list) and a visited set, the states one iteration can lead to, as
ids that are pushed together are pushed in any order (a `Vec` kept in the order
of insertion, or a `HashMap`'s); a loop is the function from a number of
iterations to the states it can be in then. `MCSwarm` puts every graph a swarm
reaches through them: every order of a loop ends, and computes what `TaskGraph`
says, and `assign`'s check of one dependency after the other while edges are
added is the check of all of them beforehand.

**Swarm** is the stored `SwarmState` and one action per handler that changes
it. A handler that returns an error stores nothing, so error paths are guards.
`members` and `assigned_tasks` are vectors in the code and sets here: handlers
never add an entry twice, and the only place where the order counts, the
round-robin of `rebalance`, tries every order. A heartbeat timestamp is reduced
to whether it is within `TTL_SECS`; `Expire` is the passage of time.

**TaskQueue** has the rows of `tasks.db`, and for each process and task an
execution: live (with retries), replayed (one attempt), or returned and not yet
recorded. One SQLite statement is one step. In the behaviours with `dbMayFail`
a statement may be lost where the code drops its error. `Crash` ends a process
with all its executions at any point.

**DurableWork** is what the queue promises per task, without processes or
database: owed until done or recorded as failed; only recorded failures are
forgotten. `TaskQueue` refines it under the mapping `Duty`. That what is owed is
settled in the end is `PendingRowIsSettled`: a task is owed exactly while its row
is pending.

**StoreFile** is one file-backed store at the level of directory entries,
inodes, open handles and lock. The value of a store is the set of updates it
contains; the bytes of an inode are the set of values written since it was
truncated, so that an empty or overlaid file is distinguishable from a whole
one. `Abandon` is an error return or the end of the process at any point of the
cycle. **AtomicStore** is the store its users see.

**Relay** has the presence files and inboxes on disk and, for every call a
server is working on and for every daemon's loop, the program counter of that
thread: the MCP runtime serves calls concurrently, so two `relay.list` of one
server can drain one inbox at the same time. Every file operation is one step.
`drain_inbox` is `Drain` (the directory is opened), then per file `ReadMail`
(read, or there and unreadable, or gone) and `RemoveMail` (removed in any case,
or the removal fails and its error is dropped). `prune` may likewise fail at
either of its two removals, and a daemon's announcement may fail. Three things
are one step where the code has more: `remove_dir_all` (of which any part may
fail), `atomic_write` (its temporary name is the sender's or the owner's own; it
may fail, which is `SendError`), and the daemon's dispatch of one message with
the storing of its result. `read_dir` succeeds and yields what was there when it
was opened. The history variables record, per message and not per node, what can
befall it: `exposed` (it was in an inbox, or written to one, while the owner was
stale or being pruned, or it was in hand when the process ended), `spoilt` (the
file could not be read), `stuck` (it could not be removed), `shared` (two calls
read it before either removed it).

**ToolRegistry** follows each request of a server through `execute`: the stage
of a call is the event it publishes or the thing it does next. Publishing is
opening the store (which another call or another process may have open), the
retries, and `put_event`, which may fail; the outcome decides nothing, but the
time it takes does, because the charge's guard is held over it. A registry
without a tracker charges nothing and is left out.

**AgentExec** is one journal through all the runs that are given its id: the
loop of `run_exec`, its checkpoint files (which may be lost, torn or unreadable), the
children of a `parallel_group` in any order, crashes at any point, the purge of
a day-old directory by this run or another, and a caller who repairs the op at
which the last run stopped. History variables count the successes of each op
and remember where one went unrecorded (`excused`) and where a checkpoint
outlived its op (`outdated`).

**GoapPlanner** is the A* search, one popped node per step, with the heap's
choice among equals left open (the library is a set where the code has a `Vec`,
which affects how often the same node is pushed); the reference for it is
`Costs`, the set of worlds reachable at each cost, which counts one action per
unit of cost; free actions in a row are covered by `ExactSearch`. **Orchestrate** composes it with the driver: the
pipeline is the plan found, or the static template; it is run in a line or over
the name-keyed graph of `build_graph`, with the visit cap and the step budget
computed modulo `Usize`.

**TaskScheduler** uses `TaskGraph`'s operators for the graph and adds the queue,
the workers its caller runs, and the copy on disk, which `fs::write` may leave
torn. Tasks that become ready together are queued in any order. The caller's
part (no task outside the repository's tests plays it yet) is: dependencies are
given with the task, workers report on what they were given, only failed tasks
are reset.

**LakeCache** has the cache's pointers, entries and reference counts, and per
thread the step it takes next: a step is one critical section of the mutex, one
call of the backend or one file operation. An index is the generation it was
built from, the witness a pair of data reference and generation (`compute_witness`
hashes both; collisions are left out). `floor` remembers what a Fresh search may
rely on, `reinstalled` that a key was pointed at the witness it had.

## 3. Runs

| run | instance | checks |
|---|---|---|
| `swarm_tasks` | 1 agent, 3 tasks | `DependenciesFormDAG`, `NoTaskWaitsOnFailure`, `CycleWalkIsReachability`, `FailureWalkIsLeastCascade`, `AcceptLoopIsOrderFree` |
| `swarm_members` | 2 agents, 2 tasks, 2 swarms, members created with or without tasks | `RunningTaskIsHeld`, `AssignedWorkIsConserved` |
| `queue` | 2 servers, 2 tasks, 3 attempts, 2 crashes, a database that fails or not | `TypeOK`, `DeletedRowStaysDeleted`, `ImplementsDurableWork`, `PendingRowIsSettled` |
| `store_locked` | 2 processes, 3 updates, shared and private temporary names | `TypeOK`, `StoreIsWhole`, `AcknowledgedUpdatesSurvive`, `ImplementsAtomicStore` |
| `relay_mail` | 1 server with 2 calls at a time, 1 daemon, 1 message, 1 crash | `PresentNodeLosesNoMail`, `MailIsHandledOnce` |
| `relay_live` | 1 server with 1 call at a time, 1 daemon, 1 message, 2 crashes, heartbeat at every third poll | `DaemonHandlesItsMail` |
| `exec_resume` | 3 ops of 3 kinds, groups of 2, 3 runs, 3 faults | `SuccessMeansAllDone`, `RecordedWorkIsNotRepeated`, `EffectsFollowOrder` |
| `tool_calls` | 2 slots, 2 tools, budget 1, 2 tries, 4 calls | `OverrunIsBounded`, `AdmittedCallsAreCharged`, `UsageLogIsOrdered`, `CallsEnd` |
| `orchestrate` | 3 archetypes, 33 goals, 2 templates, 4 sets of capabilities, retries up to the wrap-around of a 4-bit `usize` | `PlanIsMinimal`, `UnreachableHasNoPlan`, `CompletedOnLastRuns`, `FailedForAReason`, `BudgetIsSlack`, `RunEnds` |
| `scheduler` | 3 tasks, 1 crash, 1 reset | `SchedulerTypeOK`, `StartsAfterDependencies`, `EndedWorkIsNotStarted`, `WorkEndsOrHasAReason` |
| `lake_cache` | 2 keys of one collection, 2 threads, 2 generations, cap 1 | `EveryEntryIsReferenced`, `ExactUntilReinstall`, `EntriesHoldWhatTheyName`, `FreshAnswers` |
| `lake_dangling` | 1 key, 2 threads, 1 generation, cap 1 | `PointersResolve`, violated |

The type invariants that are not in the table (Swarm, Relay, AgentExec,
ToolRegistry, LakeCache) are proved, each as the `TypeCorrect` of its module.

Why the bounds are enough to be interesting:

* three tasks are what a cycle, and a failure cascade, through an intermediate
  task needs; two tasks suffice for everything that concerns holders;
* two agents are a stale holder of two tasks and a live target, so that
  rebalance has more orphans than targets; that nothing is lost with more
  agents is proved (`WorkIsConserved`);
* two servers and one task already produce a replay that races a live
  execution; the second task makes the sequential replay and the pruning of a
  set of failures visible; two crashes let a recovery itself crash; the real
  `MAX_RETRIES` is 3;
* two writers and three updates let one process run a second cycle between two
  steps of the other; four inodes are one for the store, one per temporary name
  and one more, so that opening never blocks for want of an inode;
* two calls and a daemon are enough for every pair of threads that meet at the
  same file: two drains of one inbox, a drain and a prune, a sender and a prune,
  two prunes, a send to the server's own id included. The daemon is the recipient
  that is alone with its inbox and the one that comes back after an exit. More
  servers, calls and messages are covered by the proofs;
* three ops put one before and one after the op that fails; three runs are a
  first run, a resume that fails as well, and one more; three faults let a checkpoint
  be unreadable and both writes over it be lost, the shortest way to an outdated
  checkpoint. Longer lists, larger groups
  and more faults are covered by the proofs;
* two slots against a budget of one is the smallest overrun, and with four calls
  a slot comes back for a call that must be refused; two tries are one that is
  repeated and one that is not;
* a library of three archetypes (a design step, coder, tester) has a step with
  two effects and a chain, and is searched in at most `MaxIterations` = 20 pops
  or aborted. The goals are every set of five conditions, two of which only a
  caller's capability supplies, and one nothing supplies. The capabilities are
  none, one that plans, one that repeats the name "coder", and one that makes
  the heuristic inconsistent. With a `Usize` of 16 the budget wraps for 7 and 15
  retries;
* three tasks let one be queued while its dependency is cancelled, reset or
  loaded from a copy that is out of date;
* two keys that name the same data share an entry; two generations are an old
  and a new one; the cap of 1 makes every second entry one too many. Two threads
  are a search and whatever overtakes it. More of each is covered by the proofs.

Symmetry is used over sets that the specification treats alike, and in no run
that checks liveness. Deadlock is checked in the swarm and cache runs. It is
not checked elsewhere, because there the bounds on tasks, updates, calls and
crashes let the system come to rest.

### The run that exhibits a disagreement

`lake_dangling` checks a sentence of `cache.rs` ("live pointers are never
orphaned", lines 441-442; `lake.rs` says of a dangling pointer that it
"shouldn't happen") and ends with a counterexample of one key and two threads:

1. thread 1 searches the key, finds no witness, pulls, and goes to build;
2. thread 2 searches it and finds no witness either;
3. thread 1 installs entry and pointer (count 1);
4. thread 2 pulls and, in `prime_interned`, finds the witness cached. It installs
   the pointer: `inner_install_pointer_unlocked` takes the key's old witness,
   which is the same one, from count 1 to 0, removes the entry, and inserts the
   pointer; there is no entry left to count it at.

Every later search finds the witness it expects and ends with
`UnknownCollection`, until the collection changes or the key is invalidated.
`warm_from_dir` of a key that is already primed with that bundle does the same
with one thread. `ExactUntilReinstall`, which is proved, says that this is the
only way: as long as no key is pointed at the witness it has, every pointer
resolves and every count is exact. In ruvos itself the memory tools take one
mutex around the lake, so that the first searches of a key do not overlap there.

### Other behaviours worth knowing

The models, or the reading they required, show a few more behaviours that a
reader of the documents would not expect. They have no run of their own.

Swarm:

* A heartbeat sets the states of the member's own tasks and looks at no other
  task: a task whose last dependency it completes stays Blocked until it is
  assigned again; `docs/spec/adr-023` (line 34) says "Dependency evaluation runs
  on every heartbeat tick".
* `propagate_failure` fails only Pending and Blocked dependents. A task that is
  Running when a dependency fails goes on running; adr-023 speaks of "no
  orphaned in-progress agents waiting on a failed prerequisite". A dependency
  can fail late because a completion does not shorten `assigned_tasks`.
* Assigning again, with a new dependency, a task that a member holds makes it
  Blocked and leaves it on the member's list.
* `leave` refreshes the heartbeat, so any handler that overwrites the state
  "left" (assign, heartbeat, rebalance) makes the member live again.

Queue and stores:

* `recover_pending` takes every pending row, those another server is executing
  too (`task_queue.rs` line 265: "left `pending` by a previous process"); a replay
  marks a task failed after one failed attempt, not after `MAX_RETRIES`.
* The contracts file of the relay runs the cycle of `StoreFile` without the lock
  (`Locked = FALSE`): of two concurrent stores that both return Ok one can be
  gone, and as its temporary file has one name for all processes, one may rename
  a file that another has just truncated. `AcknowledgedUpdatesSurvive` and
  `StoreIsWhole` fail in that instance.

Relay:

* `list` tests staleness before it skips the caller, so an instance that
  announced itself more than `TTL_SECS` ago deletes its own inbox and then drains
  an empty one; adr-002 (line 66) says that the recipient receives a message "the
  next time it calls `relay.list`".
* `list` removes a presence on what it read before, even if its owner has
  announced itself since. Mail written in that window, to a node that is present,
  goes with it although `send` returned its id.
* A message whose file cannot be read or parsed is removed undelivered; one whose
  file cannot be removed is handed out again at every drain.
* Two overlapping `relay.list` calls of a server can both return the same message.
* A daemon that dispatches for longer than `TTL_SECS` is stale meanwhile, and what
  lies in its inbox may be pruned.

Tool registry: a call refused for its budget publishes no closing event, only
"resource.budget.exhausted" after "tool.call.started". In this repository a
policy or a tracker is set only by tests.

Agent exec:

* A `parallel_group` is one checkpoint. Its children's own checkpoints are never
  read, so the ones that succeeded run again on resume; adr-019 says "No
  double-writes". This is the one excuse of `RecordedWorkIsNotRepeated` that
  needs no fault.
* Ops are identified by position: a list changed before a completed position has
  other ops skipped. A resumed sandbox run gets a new, empty directory. The
  journal's id is only in the response, which a crash prevents.
* A completed checkpoint that cannot be read makes its op run again; if it cannot
  be overwritten either (a process out of file descriptors fails at all three) and
  the op fails this time, the checkpoint still says completed. A caller who then
  replaces the op and resumes has the new one skipped and success reported
  (`outdated`).
* The purge runs after `create_dir_all`, so that a run that resumes a journal
  older than a day goes on without a directory and records nothing.

Orchestrate:

* Edges go by name: with a caller's capability that repeats an archetype's name,
  the run follows the first one's edges (`CompletedOnLastRuns` and
  `FailedForAReason` say so with `Distinct`). `max_retries` near 2^64 wraps the
  budget (`NoOverflow`); a debug build panics there.
* A caller's capability with several effects can make the heuristic inconsistent,
  and the plan is then not the cheapest one (`Consistent`). A search that is
  aborted after 1000 iterations is reported as unreachable.
* A step that cannot be spawned ends the call with an error, after
  "orchestrate.run.started" and without a closing event or skill feedback. In the
  graph, a repeated step takes the swarm role of its step number, not of its
  archetype, and no scratch slots are written.

Scheduler: a task that was Running when the copy was saved stays Running after
loading, and nobody will report on it (`Orphan`). Adding a dependency to a task
that is already queued, which the model's caller does not do, would let it start
early: `next_ready` looks at the state of the task only.

Cache:

* A Fresh search may answer from a generation older than its start if an earlier
  search of the key is still under way: that one installs its older pointer after
  the newer search has checked and before it looks up. `FreshAnswers` makes
  exactly this excuse, and fails without it.
* The data is pulled after the bundle was read, so an entry may be newer than the
  witness it is filed under.
* A save renames the index and then publishes the bundle of that later moment; if
  the collection has changed in between, or the process ends there, the directory
  names data that the index does not hold, and `warm_from_dir` compares only
  dimension and rerank factor. This is why `EntriesHoldWhatTheyName` speaks of
  primed entries.
* Since an entry goes with its last pointer, there is never an unpinned entry,
  and `max_entries` never evicts anything (`EveryEntryIsReferenced`). The comment
  in `substrate/rulake/tests/federation_smoke.rs` (lines 457-458) expects it to
  evict the entry that invalidation leaves unpinned; the test passes because
  invalidation removes that entry itself.
* `prime_interned` adds vectors under their positions and `save_cache_to_dir`
  drops `pos_to_id`, so a warmed index answers with positions for external ids;
  the comment at `lake.rs` line 457 says they round-trip.

### Fairness

* `TaskQueue`: weak fairness of a process's own steps. tokio polls its tasks,
  an attempt that is awaited returns (one of `AttemptOk` and `AttemptErr`; no
  fairness forces success), and a server that ended is started again, which is
  the premise of recovery. Enqueueing and crashing are not fair. The
  liveness properties are about the behaviours without `dbMayFail`: the code
  drops database errors, so with a database that fails for ever nothing is
  settled.
* `Relay`: a call that has begun runs to its end, and a daemon's interval keeps
  ticking. Calls of the tools and crashes are not fair. `DaemonHandlesItsMail`
  excuses the single messages that were exposed or spoilt, not the daemon: what
  arrives after it has announced itself again, or been started again, is
  dispatched.
* `ToolRegistry`: weak fairness of each call's own steps: its future is polled
  and its handler returns. Other processes need not be fair; one may keep the
  store for ever, and the bounded retries then let the call go on.
* `Orchestrate`: the call is one future that is polled to its end, and agents
  return. Which of success, failure or a failed spawn they return is open.
* `TaskScheduler`: callers go on asking for tasks and workers report, with any
  of the three outcomes. Saving, crashing and loading are not fair.

## 4. Proofs

All theorems are checked by TLAPS for every value of the constants, from the
assumptions named in the modules: finitely many tasks and agents (the walks and
rebalance count them), `CreateLoads` of the right type, `MaxRetries` positive and `Heartbeat` at
least 2 (with 1 the test `poll_count % N == 1` of the daemon would never hold),
servers, calls and daemons disjoint and a server for each call, finitely many slots and keys (in-flight calls and
pointers are counted), at least one try of the store and one generation; for the
planner, finite goals and sets of capabilities, known templates, and costs that
are naturals. The
bounds `MaxSwarms`, `MaxCrashes`, `MaxCalls`, `MaxRuns`, `MaxFaults` and `MaxGen`
are arbitrary naturals, so the theorems hold for any number of swarms, crashes,
calls, runs, faults and changes of the data.

**TaskGraph_proofs** has the graph and the two state machines over it.

*Graph.* `Reachable` is closed and least; adding edges out of `t` to ids that do
not lead back to `t` keeps a graph acyclic; `Cascade` contains only waiting tasks,
is closed, and leaves no waiting task behind a failed one. The central argument
is that a new cycle would have to use a new edge out of `t`, hence come back to
`t` along old edges, which the check has excluded.

*Swarm*: `TypeCorrect`, `DependenciesStayDAG`, `RunningWorkStaysHeld`,
`FailureReachesWaiters`, `WorkIsConserved`. The DAG needs that absent tasks
have no edges at either end, which is why `DependenciesFormDAG` has three
conjuncts. That no task waits on a failure is inductive only together with it:
when `assign` registers a task, no old task may already depend on it. That
running work is held is inductive with the type invariant; `Rebalance` needs a
lemma that the round-robin assigns every orphan to some target, which is where
finiteness and `% k` enter.

*Scheduler*: `SchedulerTyped`, `StartedInOrder`, `EndedStaysEnded`. The invariant
`Sound` is about a graph and a queue: no id is queued twice, a queued task is
pending or failed and everything it depends on is completed, and so is everything
a running or completed task depends on. It holds of the memory and, separately,
of a whole copy on disk, which is why loading an old copy is harmless. A queued id
may be of a failed task, because `graph_mut` cancels behind the queue's back and
a reset makes the same id pending again; it may not be of a running one.

*Walks*: `CycleWalkDecidesReachability`, `FailureWalkIsLeast`,
`AcceptanceIsOrderFree`, on graphs of any size. `CycleInvariant` is the loop
invariant of `would_create_cycle`: everything on the stack is reachable, the
dependencies of what is visited are visited or on the stack, and the iterations
so far and the length of the stack are together at most 1 + tasks * visited,
which is why the loop ends. `FailInvariant` is that of `propagate_failure`: what
was failed belongs to the cascade, a task that still waits has its failed
dependencies on the work list, and each iteration takes one from the sum of the
work list's length and the number of waiting tasks. `FailAllOneMore` shows that
failing one more task afterwards is failing it at once with the others.

**TaskQueue_proofs**: `TypeCorrect`, `DeletedStaysDeleted`,
`QueueImplementsDurableWork`. The refinement needs `Traceable`: a task that was
never enqueued has no trace in any execution or replay list; a row that is
pending or failed is of a committed task; an execution that has returned Ok is
of a task in `done`. Without it, recording "ok" could take an owed task to
"forgotten".

**StoreFile_proofs**: for every instance with `Locked = TRUE`, whatever the
naming of temporary files: `LockedTypeCorrect`, `LockedStoreIsWhole`,
`LockedUpdatesSurvive`, `LockedCycleIsAtomic`. The inductive invariant says that only
the holder of the lock is inside its cycle (`Prepared`): its buffer is the
visible value and its update, the inode it writes is the one its temporary name
refers to and not the store's, and that inode contains exactly its buffer once
it is written. Processes outside the cycle have no open handle.

**Relay_proofs**: `TypeCorrect`, `MailStaysHandledOnce`, `PresentNodesKeepMail`.
`Addressed`: an undelivered message is with one sender at most, and a delivered
one is found only in its recipient's inbox and calls. `SafeMail` carries the loss
property over `PruneInbox`: whoever prunes has found the owner stale, what lay in
the inbox when the presence ran out is exposed, and so is what is written from
then to the end of the removal; hence an inbox with unexposed mail is never one
that a list may remove. `OnePlace` carries both over the drains: unless its
removal failed or two calls met at its file, a message in some call's hands whose
file is still there is the one that call is about to remove, no other call has
it, and it has not been handled. A second call that reads it therefore finds the
first between its read and its removal, which is what `shared` records, and the
two are calls of a server, as a daemon has one loop.

**ToolRegistry_proofs**: `TypeCorrect`, `BudgetOverrun`, `ChargedOnce`,
`UsageOrdered`. The overrun is not inductive; `Counted` bounds the calls charged
together with those in flight: a call is admitted only when fewer than `Limit`
are charged, and then at most the other slots are in flight. `Holders` says who
has the mutex (exactly the call whose stage is "recorded") and that only a call
with an event has the store open. For the order of the log, `LogBehindUsage`:
nothing stored exceeds the usage, and while a call holds the mutex between its
charge and its event everything stored is strictly less than the usage.

**AgentExec_proofs**: `TypeCorrect`, `SuccessIsWhole`, `NoNeedlessRepeat`,
`InOrder`. `Recorded` says that a completed checkpoint stands for an op that is
done, unless the op was replaced under it, and that the op being run has one only
if it could not be read; `Progress` that every op before the current one is done,
hidden by an outdated checkpoint or a failed `read_file`; `Once` that a unit which has
succeeded is either recorded, excused, or part of the op being run. A success
can be reported only at the end of the list, where `Progress` covers all of it.

**LakeCache_proofs**: `TypeCorrect`, `Referenced`, `Exact`, `HoldsWhatItNames`,
`Fresh`. `Held` says what each thread has in hand at each step; `Stored` holds
between two critical sections: an empty place has no count, a primed entry is no
older than its witness, counts lie between 1 and the number of pointers, and are
that number until a reinstallation. Its core are lemmas about `Release` and
`Repointed` on cardinalities: the pointers at a witness change by the one key
that moves. `FreshInv` bounds `floor` for every Fresh search by the witnesses in
the hands of the searches of its key and by the pointer, once it has compared.

**Orchestrate_proofs** has two parts.

*Search*: `PlanMinimal`, `UnreachableNoPlan`, and their stronger forms
`UnreachableIsHopeless` (any cost) and `ExactSearch` (action sequences of any
length). A set of pairs of a world and a cost *covers* if it contains the empty
world at 0 and with a pair every valid action's result (`Covers`): every
sequence of actions stays in it. While the search runs, `Frontier` gives every
expanded world the cost of its first visit, such that each valid action from it
leads to an expanded world (at no higher a cost, where the heuristic is
consistent) or to a node in the open set at no higher a cost; when the search
ends, a covering set is read off from it, the certificate that nothing cheaper,
or nothing at all, meets the goal. That a world's first visit is its cheapest
needs the heuristic to be consistent. The archetype library's is inconsistent at
worlds without a design, of which only the empty one is ever met (`Region`), and
this is what `DefaultLibrary` stands for in `PlanIsMinimal`. For a goal that is
reported unreachable consistency is not needed.

*Run*: `RunInvariantHolds`, `CompletedStands`, `FailureHasAReason`, `BudgetSlack`.
`InBudget` counts the steps as pairs of an archetype (by its first place in the
pipeline) and the number of its visit, so that the visit caps bound their number,
whatever the pipeline repeats; `InGraph` says of the place the loop is at that
everything before it was last run with success and in order, and that of two
neighbours rework can reach the later one has not been visited more often
(`Stands`), so that a step that goes well never leads to one that has used up its
visits; `InLine` is the corresponding fact about the line.

Three lemmas at the start of this module and in `TaskGraph_proofs` carry
induction: every non-empty set of naturals has a least number (from the
well-foundedness of `<`), a set that contains 0 and successors contains `Nat`, and
a step function can be iterated. With the last one a recursive definition can be
unfolded, and the first two then prove what it computes.

Only model-checked: the liveness properties (`PendingRowIsSettled`,
`DaemonHandlesItsMail`, `CallsEnd`, `RunEnds`,
`WorkEndsOrHasAReason`), which rest on fairness and on `ENABLED`, which the prover
does not handle. Every other property of a passing run is stated by a theorem.

## 5. What is not modelled

* The policy, history and learning files written by `finalize_swarm` and
  `create`: averages that advise a later `create` on the topology and do not
  enter the swarm's state.
* `enqueue_and_wait`, which keeps no state and no row; `rate_limiter.rs`, which
  nothing calls.
* In the relay, the fields of presences and contracts and the scope argument of
  `list`; in the queue, payloads and the delays between attempts; in agent exec,
  what an op does, the slots and the post-write check; in the registry, a budget
  without a limit, which behaves as one the calls never reach; in orchestrate,
  skills, roles, artifacts and repair events, and of graphflow the graphs that
  `build_graph` does not make (`EdgeCond::Always`); in the cache, statistics, vectors, the
  merging of federated results, and two saves at once in one process, which share
  a temporary file.
* Numerical and textual parts: embeddings, SONA, compression, ranking.
* Pure I/O: LLM clients, the scanner, host adapters, the WASM sandbox.
* Most of `substrate/` by size (ruvllm, rvf-runtime, ruvector-raft,
  ruvector-cluster, ruvector-replication and others): imported code that
  `Cargo.toml` (lines 4-13) holds out of the workspace, so that the program
  neither builds nor runs it. It is why the map covers a small share of the
  repository's lines: what is modelled is the coordination logic of the server
  that is built.

## 6. Plan

1. `SwarmLearning`: the files written next to `swarm.json` when a swarm is
   finished, possibly more than once, and their agreement with the history.
2. The composition of `Swarm`'s handlers with `StoreFile`'s cycle as one
   specification, instead of by the argument of section 1.
3. The agent records and governance issues in redb, whose operations are single
   transactions, against the event log that `ToolRegistry` models.
