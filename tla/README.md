# Zilli in TLA+

Zilli routes requests between a strong planner model and a local executor, learns
from what the planner does, and replaces its local model when a better one has been
trained.  This directory models the parts of it that decide something over time: who
may run, who is in service, what a budget admits, what a consent allows, when a loop
stops, what may leave the house, what survives a crash.  The modules are translated from the Python
package `src/zilli`; `PROJECT.json` names, for each definition, the lines it stands for.

    tlc -workers 2 -config MCDAGExecutor.cfg MCDAGExecutor
    tlapm DAGExecutor_proofs.tla

## 1. The system

| Component | Source (`src/zilli/`) | State it keeps | Operations | Talks to |
|---|---|---|---|---|
| DAG engine | `dag/engine.py` | node statuses, in-progress tasks, a semaphore | `execute`, `_run_node`, `_cascade_skip` | task functions, `on_complete` |
| Celery executor | `workflow/celery_executor.py` | records of submitted tasks | `submit`, `_iterate_ready` | `TaskDAG`, a broker |
| Task runner, core agent | `core/runner.py`, `core/agent.py` | the done set; the retry count | `run` | agents, models |
| Champion/challenger arena | `training/champion_challenger.py` | models, champion, matches, counters | `register_model`, `run_match`, `rollback` | deploy and rollback callbacks |
| Hybrid router | `routing/router.py`, `routing/classifier.py` | none of its own | `run`, `execute_batch` | planner budget, registry, cache |
| Planner budget | `envs/planner_budget.py` | a window of recent calls | `may_use_planner`, `record_call` | router, a file |
| Frequency controller, cost controller, SOTA scheduler | `routing/frequency_controller.py`, `envs/cost_controller.py`, `adaptive/sota_scheduler.py` | counters, budgets, thresholds | `record_call`, `should_call_sota`, resets | files, router, training run |
| Model registry | `models/` | models per role | `generate` with fallback | backends |
| Response cache | `cache/engine.py` | entries in memory and on disk, an index | `get`, `set`, `invalidate`, `clear` | router, threads, files |
| Consent manager | `privacy/consent.py` | a list of records | `grant`, `revoke`, `check`, `expire_all` | gatekeeper |
| Privacy engine, policies, sandbox | `privacy/` | policies and their file; sandbox budget and life | `evaluate`, the setting of a policy, `execute`, `destroy` | gatekeeper, audit |
| Hybrid gatekeeper and executor, audit log | `hybrid/`, `audit/` | a log | `decide`, `execute`, `log` | privacy engine, models |
| Loop runner, meta loop, memory | `loops/runner.py`, `loops/memory.py` | retry limit, cycle count, memory, traces | `run`, `run_forever`, `_tune` | process, verifier, trigger |
| Harness orchestrator, weakness miner | `loops/harness_orchestrator.py`, `loops/failure_analyzer.py` | records, accepted versions | `run_cycle`, `_validate` | meta loop, evaluation tasks |
| Rollout scheduler, training run | `infra/async_scheduler.py`, `run_training.py`, `infra/length_controller.py` | tasks in flight, retries, stage | `schedule`, `main` | models, arena, distillation |
| Distillation scheduler | `training/distillation.py` | records, cycles, checkpoints | `add_sample`, `run_cycle`, `save_checkpoint`, `load_checkpoint` | training run |
| Continuous learner, replay | `learner/continuous_learner.py`, `data/experience_replay.py` | three lists of trajectories, a directory of files | `run`, `stop`, `add_trajectory` | producers of files, a training callback |
| Evolution pipeline, meta evaluator, optimiser, skill evolution | `pipeline/evolution.py`, `evaluation/meta_evaluator.py`, `adaptive/moo.py`, `evolution/` | samples, deployed version and rollback list, a population | `run_cycle`, `record`, `optimize`, `evolve` | models, cost controller |
| Server, industry workflows | `server/app.py`, `industry/workflows.py` | registry, router, rate-limit deques | endpoints, `check`, start-up | router, privacy engine, audit log |
| SWE agent | `swe/` | a working copy, a context, a patch, a container | `run`, attempts, `apply`, `revert` | models, tests, docker, `LoopRunner` |

The remaining components (losses, fusion, evaluation, vector store, text security helpers,
DSL, configuration, CLI, the Rust port) hold no state that outlives a call, or compute over
floating-point data or text; `PROJECT.json` lists each with the reason it is left out.

**How they interact.**  The server calls the router; the router awaits the classifier,
asks the planner budget, awaits the registry through the cache and records the call in
the budget.  Loops call agents and verifiers and feed failed cycles to the miner.  The
training run awaits the rollout scheduler, then distillation; the arena calls back into
whatever deploys the models it promotes.  Almost
everything is one process with one asyncio event loop.  Threads occur only in the
cache, the cost controller and the budgets, which hold locks.

**What is hard.**

- *Interleaving at awaits*: node tasks in the DAG engine, concurrent requests in the router, threads in the cache.
- *State read before an await and used after it*: the budget check of the router, `get_ready_nodes`, cache files written after the lock is released.
- *Partial failure*: a callback that raises, a model that returns an error instead of raising it, an evaluation task that raises, a file that is written half-way.
- *Retries inside retries*: cycles within runs within iterations, with a limit that tuning changes.
- *Boundaries*: warm-up counts, "last five" windows, expiry at the very instant, bounded deques.
- *Restart*: debounced saves, counters that are read back, a store in memory beside files on disk.

**What makes each component correct.**

- DAG engine: slots bounded; a child runs only on completed parents; final statuses are final; the results account for every node; it returns on every graph; what `validate` orders is what runs.
- Arena: one champion; counters that add up; promotions that were earned; rollback to the champion replaced last; the model in service is the champion.
- Router, budget, registry: the ratio is overrun by no more than the concurrency; what an answer leaves in the budget; which failures may reach the caller; every request is answered; a closed budget reopens.
- Consent: `check` is the ledger of consents in force; a withdrawal ends every older consent.
- Loops: the best run is returned; no failure escapes the miner; versions improve; the loops end.
- Learner: what is archived was learnt; nothing is learnt twice without an error; golden trajectories go last; files are archived in the end.
- Training and distillation: the planner's reserve is missed by at most one batch; counters agree with what was returned; no sample is lost or used twice across resumed runs; training ends.
- Privacy: restricted texts reach no model and confidential ones only sanitized, wherever the model runs; what passes the gatekeeper stays local, whatever changes between decision and call; a sandbox spends no more than its budget.
- Server: the rate in every window; how many events a compliance report can miss, and when there is none.
- Cache: whatever is evicted, reloaded, refused or restarted, no text older than the one stored last comes back.
- Evolution: an evaluation reads the newest samples; a rollback finds the version before; no survivor is dominated by a dropped candidate; what the budget forgets is recent.
- SWE agent: the context tells the last change; a diagnosis sees the last test of the copy it is about; `revert` gives the copy back up to its line ends.

`PROJECT.json` lists the hazards one by one, each at its line and with the properties
that would catch it.

## 2. The modules

| Module | Models | Composes |
|---|---|---|
| `DAGExecutor` | one call of `DAGExecutor.execute` | refines `DependencyRun` |
| `DependencyRun` | abstract: what a dependency-respecting run of a graph promises | |
| `TaskDAG` | `TaskDAG` and its orders, `TaskRunner.run`, what `CeleryExecutor` submits, as operators | |
| `DAGRun` | a graph that is ordered and then executed | `DAGExecutor`, `TaskDAG` |
| `ChampionChallenger` | `ChampionChallenger` and its two callbacks | |
| `HybridRouter` | `LocalHybridRouter.run` with `PlannerBudget` and `ModelRegistry.generate` | |
| `Consent` | `ConsentManager` | refines `ConsentLedger` |
| `ConsentLedger` | abstract: the consents in force for each subject and use | |
| `MetaLoop` | `LoopRunner.run`, `run_forever`, `MetaLoopRunner`, `CycleMemory`, `WeaknessMiner`, `HarnessOrchestrator` | |
| `ContinuousLearner` | `ContinuousLearner.run` and `stop`, `TrajectoryStore.add_trajectory` | |
| `TrainingRun` | `run_training.main` and `zilli distill` over `AsyncRolloutScheduler`, `DynamicSOTAScheduler`, `DistillationScheduler` | |
| `PrivacyEngine` | `classify`, `assess`, `evaluate`, as operators | |
| `PrivateInference` | gatekeeper, executor, policy store, server endpoints, sandbox | `PrivacyEngine` |
| `Server` | rate limiter, industry endpoint, audit log, compliance report | |
| `ResponseCache` | `CacheEngine` with its threads, files and restarts | |
| `Evolution` | `EvolutionPipeline`, `MetaEvaluator`, `MultiObjectiveOptimizer`, `SkillEvolutionEngine`, `CostController` | |
| `SWEAgent` | `SWEAgent.run` with `SWEPatch`, `Sandbox` and the loop around it | |
| `MC*` | values and bounds for TLC | the module named after the prefix (`MCDAGExecutor`: `DAGRun`; `MCVersions`: `ChampionChallenger` and `Evolution`; `MCService`: `PrivateInference` and `Server`) |
| `*_proofs` | theorems and their proofs | the module named before the suffix, and with `DAGExecutor` also `TaskDAG` and `DAGRun`, with `HybridRouter` also `ResponseCache`, with `PrivateInference` `Server`, with `ChampionChallenger` `Evolution`, with `MetaLoop` `SWEAgent` |

Operators whose name is that of another definition and a suffix (`Better_Latest`,
`Promote_KeepsOld`, `Check_AnyGrant`) are deliberately wrong variants.  Nothing uses
them; `PROJECT.json` pairs each with the property that must fail when the variant takes
the place of the definition, which shows that the property depends on the code.

### DAGExecutor

The code between two awaits is one step.  `main` says where the coroutine of `execute`
is, `phase[n]` where the task of node `n` is; `completed`, `in_progress` and `harvest`
are the local variables `completed`, `in_progress` and what is left of `done`.  `Scan`
is one turn of the `while` up to `asyncio.wait`, `Wake` and `HarvestOne` handle what it
returned, and `Acquire`, `TaskSucceeds`, `TaskRaises`, `CallbackRaises`, `CallbackEnds`
and `BackoffEnds` are `_run_node`.  A node that sleeps before a retry or awaits
`on_complete` keeps its semaphore slot, and a callback that raises is caught by the
handler of the task itself, as in the code.  `execute` does not call `validate`, so
`Init` takes every graph without self-loops (which `DAGEdge` refuses), cyclic ones too.
asyncio's semaphore serves waiters in order; `Acquire` serves them in any order, so
what is shown holds for either.  `_cascade_skip` is a breadth-first search; the model
states what it computes, the least set closed under "unsettled child of a marked node".

### TaskDAG and DAGRun

A graph is two sequences, its nodes and its edges in the order of insertion, as the order
decides ties in `validate`, and an edge may be there twice.  `TopoSort`, `CriticalPath`,
`ParallelGroups`, `ToDict` and `FromDict` are the methods of `TaskDAG`; `Rounds` and
`RunReturns` are `TaskRunner.run`, `Submitted` is what one call of the Celery executor
submits, which is checked by a run of its own (section 5).  `Blocked` (the nodes on a cycle or below one) and `Paths` are the reference
definitions they are compared with.  `DAGRun` puts them beside `DAGExecutor`, so that
what `validate` ordered is compared with what `execute` completed, for each graph, for
the same graph built the other way round and with its edges doubled, and for it without each
of its nodes.  Every loop of the code is a `FoldLeft` over the nodes, the edges or the order, also
where the code filters a list (`Keep`), so that each can be taken apart into its steps in
a proof; a `while` over a queue makes at most one turn per node, and further turns of the fold
leave its state as it is.

### ChampionChallenger

A match is appended, counted and then judged by `_should_deploy`; `RunMatch` is all of
it.  The five metrics are reduced to the winner `_evaluate_match` derives from them.
Dates are the number of changes of champion, which orders them as `time.time()` does.
`live` is outside the arena: what the callbacks put in service.  `register_model`
overwrites whatever it finds; `careful` records that it was used as every caller in the
repository uses it, and the properties that need this say so.  `Last5` is a set of
positions in the match list; `PromotionEarned` says independently of it which positions
count: a set of a challenger's matches that is closed towards the later ones and has five
members, or is all of them.

### HybridRouter

A slot is a coroutine that serves one request after another.  `Arrive` is `run` up to
its first await, including `may_use_planner`; each `...Reply` is what happens after one
of its awaits, up to the next; `Healthy` to `AllModelsFailed` are the fallback loop of
`ModelRegistry.generate`.  Texts are reduced to whether the reply carries an error, the
classifier's decision is an input, and a cache lookup may hit or miss at any time.

### Consent

One action per method.  `revoke` marks only the newest granted record; `expire_all`
overwrites expiry times.  Reading methods that change nothing (`list_for_user`,
`list_active`) are left out.  The refinement maps the record list to `Book`: the expiry
times of the granted records that no later record revokes.

### MetaLoop

`driver` says who calls `LoopRunner.run`: the meta loop in either of its modes or
`run_forever`.  Cycles pass, fail or raise at will; evaluation tasks pass, fail or
raise; triggers fire or time out.  `failed` collects the failed cycles by number so that
properties can ask what became of each.  `traces` and `records` are the buffer of the
meta loop and the bag the miner clusters.  Rates count in units of `1/Scale`, and an
evaluation set with no counted task has rate 0, as in the code.  The memory may hold
entries of an earlier process, since `CycleMemory` loads its file: `Init` lets it hold
any.  `1.0 - success_rate > 0.5`, `< 0.2` and the convergence test are written over
integers, with the one rounding case (exactly one failure in five) as Python evaluates
it.  Edits are assumed to apply without raising.

### ContinuousLearner

`pc` is where `run` is.  Files of the data directory are absent, unfinished while a
producer writes, written, or moved; a producer writes each name once.  What a producer has written so far may end
between two characters (`partial`) or inside one (`cut`).  `LoopTest` takes
the listing, `ReadFile`, `SkipFile` and `ReadRaises` are one turn of the reading loop,
`AddTrajectory` and `AddRaises` one turn of the adding loop, and `CycleFails` is the
`except` clause around a cycle.  A partial file is skipped as a `JSONDecodeError`.  A file that is not UTF-8, or
is cut when its turn comes, raises `UnicodeDecodeError`, which the reader does not catch, and a
trajectory that is no dictionary raises half-way through the additions: all of these end the cycle with every
file in place, so as long as such a file is there no file is archived and the trajectories added before
the error are added again in every cycle.  `FilesArchived` and `AddedOnce` state exactly what holds around that.  A
crash empties the store, which is never saved; the archived files are not read again.
`seen`, `again` and `excused` are history variables for the properties.  The training
callback ends, returning or raising, and the log after it may fail.  The model starts one
`run` at a time, and `stop` before `run` has begun has no effect, because `run` sets the
flag.  The SFT trigger compares the size of the whole store, not of what is new, so once
reached it fires in every cycle.

### TrainingRun

Two programs and the process that runs one at a time.  `pc` is where `main` of
`run_training.py`, or `_run_distill` of the CLI, is.  `st`, `tries` and `useSota` are the
`run_single` coroutines of a batch: `StartRollout` asks `should_call_sota`,
`Completes` charges what was decided then, `RetryOrFail` is `run_single` calling itself.
`WindowCloses` is the timeout of `schedule`, which cancels what is pending without
awaiting it: `late` holds the coroutines that were cancelled while running, and
`LateEnd` is their end, which may still be counted.  The event loop runs those ends before
the next batch's tasks.  Samples are counted, not kept: `distill` has the buffer, the
total, the recorded cycles and the samples in them; `saved` is the checkpoint file, which a
crash can cut short and which then raises on loading.  `MayDistill` is
`should_distill` with its interval as a choice.  With the environment that `main` builds a rollout never
suspends between the check and the charge; the model lets the rollouts of a batch interleave there as well, as an
environment that awaits something would, so what it shows holds for either.  `main` registers no LoRA callback and
its final checkpoint is read by nobody.

### PrivacyEngine and PrivateInference

A text is what the code tells it apart by: the classes of its PII, its highest keyword
class, its quasi-identifiers, and whether the sanitizer leaves PII in it.  `Evaluate` is
`PrivacyEngine.evaluate`.  `Execute` is the decision of the gatekeeper and the start of the
first call, which have no await between them; `CallAnswers` and `CallFails` end the call,
and a decision for both targets then calls the cloud with the text of the decision,
whatever has been revoked meanwhile.  `SetPolicy` changes the memory before the file;
`Crash` and `Restart` read the file again, and a file cut short keeps the process down.  The
endpoints of the server (`Admit`) evaluate with the default policy and no user, and hand the text they admit to the router,
which asks `ModelRegistry.generate` for a model of a role; `generate` does not look at where that model
runs, so it may be any of `RoleModels`.  `/v1/industry` (`ServeIndustry`) does not evaluate at all.  `last` is the text
handed over last, with the path it took and where the model runs.  The sandbox checks its budget before a handler and charges
after it; `open` is the stack of handlers that run, since a handler may query the sandbox it
runs for.

### Server

`Check` is `RateLimiter.check` with the periodic cleanup that any client's request may
trigger; `admitted` is the history the bound is stated over, the times of all requests of a
client that this process let through.  (The deques are in memory, so a restart begins a new
count, in the code as in the model.)  `Recent` drops expired times from the front only, as the
`while` loop does; that nothing expired is left behind is part of what is proved.  `IndustryRequest`, `Answer` and
`AnswerFails` are the endpoint with `audit_call`, which logs one event or two.  The audit
file is its whole lines per tenant and what stands after its last newline: a write that
fails or a crash leaves nothing, part of a line, or all of it but the newline, and the next
event is appended to that.  Lines are written with `ensure_ascii=False`, so part of a line may also end inside a
character (`audit.cut`).  `Report` is what `ComplianceReporter.generate` returns: lines that are no JSON are skipped,
but a cut character raises `UnicodeDecodeError` outside the `except`, and there is no report then or ever after.

### ResponseCache

The lock covers the memory, not the files, so a `set` is `SetMemory` and `Trim` under the lock, then `Truncate`, `Write`,
`SaveIndex` (which lists the memory and truncates the index) and `WriteIndex`, with `WriteFails` and `IndexFails` beside
them; `invalidate` is a step under the lock and an `Unlink` after it.  `clear` takes no lock: it can come where a
`get` has read a file and not yet loaded it (`GetFromDisk`, `Load`), or between an addition and its trimming, which may
then raise (`TrimRaises`).  `set` of a text over `max_entry_size` returns at once (`SetTooLarge`), and the key
keeps the text it had: `latest` is the text of the last `set` that stored one.  A text is the number of the
`set` that stored it; `Trimmed` drops an entry with the least `hit_count`.  `mixed` are the keys two calls of which overlapped or one of which
failed: about those the code promises nothing, and the property says so.

### Evolution

`run_cycle` has no await.  `Record` is `MetaEvaluator.record` with its trimming, `ModelCycle` a cycle
that asks a model, `OptimizerCycle`, `NextGeneration` and `CycleEnds` one that runs the
optimiser, whose crossover and mutation may make any offspring.  The sort is the code's: `FirstFront` counts the
dominators of each candidate, `NextFront` counts a front off from what it dominates and takes the candidates whose count comes
down to zero, and `Fronts` are the fronts one after another; `Survivors` fills the population with them.
`Evaluate` deploys or rolls back.  `Evolve`, `EvolveStrategy`, `TrainEpoch` and `EvaluationStep` are the callers of the cost
controller; `Recorded` is `record_planner_call` with its debounced save, `Save` the write of the
budget file, which a failure or a crash leaves empty once `open` has truncated it; `Kept` is what the next process reads.  A command ends without a last save (`NextCommand`).  Errors are squared and
whole, so that the mean is compared without division.

### SWEAgent

`step` is where the run is, `attempt` counts the attempts of the `LoopRunner` around it.
`Explore`, `Diagnose` and `Propose` are the three questions to the model, `Write`,
`WriteFails` and `Applied` are `SWEPatch.apply` file by file, `TestsPass` and `TestsFail`
the verifier, `Cleanup` and `Cancel` the two ways the container is left.  Texts are
versions of a file, and `Universal` gives a text as `read_text` reads it, with newlines for its line ends: that is the old
text an entry of the patch has, and what `revert` writes.  (`write_text` leaves newlines as they are on the POSIX systems the
package runs on; it imports `fcntl`.)  A file may hold no UTF-8 (`Garbled`), from the start or after a write was cut: an
attempt that explores one raises (`ReadFails`).  `output` is the copy whose test failure the agent remembers, and `before`
and `torn` are history variables.  `ReportedFiles` are the files of the result's patch.  What `cleanup` leaves of the
container is modelled for the control around it; no property is about it.  Nothing an attempt wrote is taken back, as in the code, and
`Reverted` is `SWEPatch.revert`, which no step of a run calls.

## 3. The runs

| Run | Bounds | States | What it shows |
|---|---|---|---|
| `dag_executor` | all graphs on 3 nodes, 2 slots, 0 or 1 retries, no, safe or raising callback | 63 063 | dependencies, final statuses, results, return, refinement of `DependencyRun`; the orders of `TaskDAG` against reference definitions; `validate`, `execute` and `TaskRunner` against each other |
| `celery_submits` | the same graphs | | violated: a call of the Celery executor does not submit each node (section 5) |
| `versions` | *arena*: 3 models, warm-up 2, 4 matches, 3 registrations, 2 rollbacks; *pipeline*: windows of 1 sample of 3 kinds, 4 samples, 2 candidates with 2 objectives of 4 points, 1 generation, 3 versions; *budget*: a reserve of 3 calls, 6 calls, a debounce of 3; 2 faults | 1.99 million | one champion, earned promotions, rollback, service; what evaluations read, versions, fronts; what the budget forgets |
| `hybrid_router` | 2 slots, a window of 4 at one half, 2 planners, 2 executors, 1 reviewer; endless requests | 14 574 | the overrun bound, what answers record, which failures surface, answers, reopening |
| `consent` | 2 subjects, 2 uses, 3 grants of 0 to 2 ticks, 3 ticks | 80 382 | `check` answers as the ledger, and the list refines it |
| `meta_loop` | 3 iterations, limits 0 and 1 tuned up to 2, memory of 3, windows of 2 and 3, 2 held-in tasks and 1 held out | 55 614 | mined failures, accepted versions, termination |
| `learner` | 4 files (two good, one malformed, one not UTF-8), a store of 2, 2 faults | 357 831 | archiving, double learning, eviction, progress |
| `training` | 2 epochs of 3 tasks (one always raises), 1 retry, threshold 2, 3 samples per distill command, reserve 1, 2 programs, 1 fault | 450 789 | the reserve, the counters, the samples, termination |
| `service` | *texts*: 4 from public to regulated, 1 provider, the default policy, a stricter and a laxer one, models of the roles local and in the cloud; *sandbox*: a budget of 2 in queries of 1 and 2, handlers 2 deep; *server*: 2 clients, 2 tenants, 2 requests in a window of 2, 3 times kept, cleanup after 3, 4 ticks, 3 events; 1 fault each | 859 606 | what reaches a model; the budget of the sandbox; the rate in every window; what a report can miss |
| `cache` | 2 threads, 2 keys, 1 entry in memory, 3 sets, hits up to 3, 1 fault | 2.14 million | which text a key can have |
| `swe_agent` | 2 files and one that is not there, 3 texts of which two differ in line ends, 3 attempts, 2 searches, 2 faults | 541 450 | what the context tells, what a diagnosis sees, what `revert` gives back |
| `swe_report` | the same | | violated: the patch of a result does not have the changes made (section 5) |

`versions` and `service` each check parts of the system that do not read one another's state: the next-state
relation of the `MC` module lets one of them move while the others are still in their initial state.  A behaviour
of the parts side by side is an interleaving of behaviours of each, and the properties speak of one part
at a time, so nothing is missed, and the state spaces add up instead of multiplying.  (The sandbox and the
endpoints share the life of the process, planner calls and cycles the command that ends; both are in each of the explored parts.)

Why the bounds are enough.  *DAG*: three nodes contain the shapes the code tells apart:
a chain, two parents of one child, two children of one parent, a failed and a
completed parent of the same child, cycles with and without an entry, and more ready
nodes than slots, an edge that is there twice; the theorems cover the other sizes.  *Arena*: a third model makes
"displaced last" differ from "displaced first", four matches pass the warm-up and
still promote twice, and the last-five window, which four matches do not fill, is stated
so that it is checked where it is reached (two to five matches of a challenger).
*Router*: two slots suffice for a stale check, and a window of four fills and evicts.
*Consent*: three grants let one revoked record lie between two granted ones, and a TTL
of 0 expires at once.  *Learner*: a store of two overflows in
every list, two faults let an error follow the recovery from another, and the good files stand
before and after the poisonous ones.
*Loops*: three iterations let an accepted version be followed by
another and by a rejection, and every window overflows.
*Training*: three tasks put a completed, a failing and a cancelled rollout in one batch, the
second epoch receives the late ends of the first, and two programs let one resume what the
other saved.  *Service*: the texts take each branch of `decide` (an internal text takes that of a
public one), the policies change every field `decide` or `evaluate` reads, and two queries inside each other are
what the budget check misses.  Three kept times exceed the two admitted, the cleanup falls
inside and after a window, and a torn line is followed by two more events.
*Cache*: one entry in memory evicts at every second key, and three sets make an old, an
evicted and a new text.  *Evolution*: a history of windows of one is trimmed at the fourth
sample, two versions are replaced and restored, the four points have two that do not dominate each other and chains
of three, whose last one is counted down twice, and six calls with a debounce of three have saves that are due, that are
not, and that fail one after another.  *SWE agent*: the third attempt follows one that wrote and one
that raised, a diagnosis names the same file twice, and of the two files one has newlines and the other has not.

`CHECK_DEADLOCK FALSE` appears where the system stops: the arena when its bounds on
calls are used up, the loops when they are done, training, cache and evolution when their bounds on
programs, calls and faults are used up, the service when those on time, events and faults are, or the process is down and its
policy file is broken, the SWE agent when its run has ended.
`DAGExecutor` has an explicit `Stop` instead, and the router and the consents never stop.

**Fairness.**  `DAGExecutor!FairSpec` is weakly fair to `main` and to each node's task:
the event loop runs whatever is ready, and task functions, callbacks and sleeps end.
`HybridRouter!FairSpec` is weakly fair to each slot's reply, because the backends'
clients time out, and strongly fair to the arrival of full-route requests, which is
an assumption on the environment, used by `BudgetReopens` alone: without further requests
nothing moves the window.  `MetaLoop!FairSpec` is weakly fair to `Next`: the loop is
sequential and each of its awaits comes back; `MaxSuccesses` bounds `run_forever`,
which succeeds for ever otherwise, so there `LoopsEnd` says that failing ends it.
`ContinuousLearner` is weakly fair to the steps of `run`: reads, sleeps and the callback come
back.  Producers, `stop` and restarts are not fair, and errors and crashes are finitely many.
`TrainingRun` is weakly fair to the steps of `main` and of the distill command: `schedule`
waits with a timeout, so the window closes whatever a rollout does.  The service,
cache, evolution and SWE agent state safety only and assume no fairness.

## 4. The theorems

All hold for every value of the constants under the named assumptions (finite sets of
nodes, slots and tasks, positive limits and windows).  TLC has checked the invariants they
state, or that they are proved from, on the instances above.

- **`DAGExecutor_proofs`.**  `TypeCorrect`; `ConcurrencyBounded`; and, from the inductive invariant
  `DependencyInv`, `DependenciesRespected`, `TerminalStatusFinal` and `Refinement`.  Parents
  staying completed is not inductive by itself: a step of the skip cascade could
  overwrite a running node.  `SafeInv` adds that the status of a node fits the phase of
  its task and that only finished tasks are harvested.  Then the unstarted nodes are
  closed under the cascade's rule, and because `CascadeSkip` is the least closed set
  (`CascadeInsideClosed`) the cascade marks unstarted nodes only.  `CascadeHasParent`
  gives the abstract `Skip` its reason for each node.  `ReturnCorrect` needs more
  (`AccountInv`): `get_ready_nodes` marks a node SKIPPED without settling it and the cascade
  settles what it marks, so that while tasks run a SKIPPED node may have PENDING children; what is
  inductive is that everything below a *settled* failed or skipped node is settled and
  skipped (`Cascaded`), and that an unsettled skipped node has a FAILED parent whose task
  is still in progress.  When nothing is in progress the two give the claim.

  *Termination*: `ExecuteReturns` is a liveness property and out of the prover's reach, but what it rests
  on is proved for every graph, cyclic ones and raising callbacks included.  `ExecuteRunsOut`: every step
  makes the natural number `WorkLeft` smaller, the steps each task has left under its retry policy
  (`StepsLeft`) and three of the main coroutine for each node not yet harvested.  `ExecuteNeverStalls`: until
  execute has returned and its tasks are done, some coroutine can run (`CanStep`, which TLC found equal to
  ENABLED on the instance of the run), as a task that waits for a slot waits for one that holds
  it.  Both use `ProgressInv`: no attempt beyond the policy, every created task is in
  progress or harvested, and the main coroutine waits only for something.  Only the fairness is left to TLC.

  *TaskDAG and DAGRun*: `ValidateCorrect` and `AllExecutorsAgree`, from theorems about any well-formed graph
  (`GraphsOn`: distinct nodes, edges between two different ones), which `GraphStaysWellFormed` shows to
  be what adding and removing leave.  A fold is defined by choosing a function on sets of positions;
  `FoldExists` shows that one exists and `FoldValues` that it gives the steps of the loop one
  after the other, so each loop has a lemma that its steps exist (`KeepSteps`,
  `SortSteps`, ...) and an invariant over them.
  `OrderCorrect` and `ValidMeansAcyclic` come from `SortInv`: the degree of a node counts its edges from
  what is not yet ordered, and is zero exactly for what was queued.  Each visit orders one node, so as many
  visits as nodes empty the queue; then each node that is left has a parent that is left, which makes it blocked
  (`BlockedSet`), and a first blocked node in the order would have an earlier blocked parent.
  `CriticalPathCorrect` comes from `WayInv`: every distance is that of the node it says plus its
  latency, and no edge from a node already passed makes a longer way; the children of a node come later in the
  order, so what was passed is final (`WayKeeps`).  The walk back follows these edges, is a path because it
  descends in the order (`ChainIsPath`), and has therefore reached its start after one step per node.
  `RoundsAreGroups` keeps the rounds and the groups equal step by step: the degrees of the
  groups count the edges from nodes that have not run (`SameGroups`); `RunReturnsIfValid` follows with the
  argument about the nodes that are left.  `StoredGraphIsSame` follows the three loops of `from_dict`: the nodes, then the edges,
  and then no dependency is missing.  For `AllExecutorsAgree` the order is compared with `execute` through
  `UnblockedInv`: no node of a set in which each has a parent ever gets a task, and without a failure none
  is skipped, so what is neither is completed at the return.
- **`ChampionChallenger_proofs`.**  `TypeCorrect`, `MatchesAccounted`, and, from the invariant
  `Succession`, `ChampionUnique`, `ServiceFollowsArena` and `RollbackFindsDisplaced`.
  `DatesInOrder` is the strengthening: every other retired model has an earlier date than
  the displaced champion, so the sort of `rollback` finds it (`OneTarget`) even after
  self-matches have left dates on a champion.  `PromotionsEarned` is an action property: only
  `run_match` deploys, and `Last5Unique` shows the window of the code to be the one set of
  matches the property asks about, for any number of matches (the run has at most four).
  *Evolution*: `PipelineInOrder`, `FrontsKept` and `OnlyRecentCallsLost`, from one invariant of type,
  order of samples and versions, and debounce (`SavesAreDebounced`); the last is an action property (`LostCallsStep`), and says
  of each step that gives calls back which excuse it has, a crash inside a save among them.  `FrontsKept` follows the
  counting down: after each front, the count of a candidate is the number of its dominators that no front has yet
  (`SortCounted`, from `FirstFrontCounted` and `NextFrontCounted`).  Since domination is a strict order
  (`DominationOrders`), a candidate that is left has a dominator that is left or a count of zero, so as many fronts as
  candidates empty the population (`AllCountedDown`); and a count comes down to zero only when every dominator is in an earlier front.
  That is `FrontsAreRight`: each candidate is in one front, behind all its dominators.  Then a survivor dominated by a
  dropped candidate would be in a later front than it.
- **`HybridRouter_proofs`.**  `TypeCorrect` and `OverrunBounded`: the planner calls in the window plus
  those under way exceed the ratio by at most one per slot.  Steps are sorted into four
  kinds: those that leave window and planners alone, that admit a planner (the check
  gives the room), that turn an admitted planner into a recorded one, and that record an
  executor (which only dilutes).  Eviction is covered by `CountTail` and `CountAppend`.
  `RecordsMatch` (the record is exactly the sequence of calls `RecordFor` gives the answer) and `FailuresExplained` come from
  one invariant of a slot, `SlotInv`: where
  a request is says what it has recorded, and the models its fallback loop has left
  behind are unreliable, so that a loop that is exhausted shows a role to lack a reliable model
  (`ExhaustedLacks`).
  *ResponseCache*: `CacheCoherent`.  What is inductive says of a key no two calls have mixed up
  that one call at most has it in hand (`OneHand`, `KeyInOneHand`), and, by how far that call is,
  which of memory and file still has an older text; a `clear` without the lock mixes up every key another call has in hand.
- **`Consent_proofs`.**  `TypeCorrect`, `Refinement`, one lemma per action, and
  `CheckAnswersLedger`: the newest decisive record exists (`LastPosition`, from the
  well-foundedness of the naturals) and decides as the ledger does.
- **`MetaLoop_proofs`.**  `TypeCorrect`, `HarnessImproves`, `BestReturned` and `FailuresMined`.  The
  first needs that
  rates never exceed `Scale` (`RateBounded`): this is why the held-out rate of every
  version is exactly `Scale`, as the comparison starts from full marks.  `FailuresMined` rests on
  `FailuresKept`, which says where a failed cycle is until the miner has it.
  *SWEAgent*: `ChangeTold`, `DiagnosisFresh` and `RevertGivesBack`.  `PatchOfAttempt` says
  that every entry of the patch has the text read before the attempt, since all answers are
  asked for before the first write, and that nothing outside the patch has changed; the other two
  need it.  `ChangeInProgress` says which entries the copy holds while a patch is being written (`WriteHolds`: a file
  listed twice holds the last one), and `OutputOfCopy` when a remembered test failure is that of the copy.
- **`ContinuousLearner_proofs`.**  `TypeCorrect`, with the limit of the store: one list is always
  enough to trim, because additions are trimmed one by one (`EnforceFits`).  `ArchiveSafe`
  from `BatchInv`: each trajectory of a processed file is in the batch or was added, and the
  batch is empty when files are moved.  `LearnedOnce` adds that the batch has no duplicates
  and that a trajectory already added belongs to a moved file, an excused one, or one of
  this cycle and is no longer in the batch (`OnceInv`).  `GoldenProtected` is an action property.
- **`TrainingRun_proofs`.**  `TypeCorrect`; `SamplesKept`; `ReserveKept`, from `BudgetInv`: the calls
  charged and the ones decided but not yet charged stay below the reserve plus one batch,
  and while late ends are outstanding no new rollout has decided anything; `CountersAgree`, from
  `CountsInv`, which compares the counters with the coroutines of the batch and the late ones.
- **`PrivateInference_proofs`.**  `TypeCorrect`; `PrivacyKept`, from `PrivacyInv`: every decision that is not
  a rejection is for a local call of a text that is not above confidential (`DecisionIsLocal`,
  `LocalCall`), so that no fallback has anything to send, and that what an endpoint admits is not either, and sanitized
  where it must be (`AdmittedText`), whatever model the role has; `SandboxBudget`, with one invariant for queries one after another
  (`FlatInv`) and one for queries inside each other (`NestedInv`).
  *Server*: `RateHolds` from `TimesAreLatest`: the deque of a client is the newest part of its
  admitted times, and what the deque lacks has left the window, whether `check`, the cleanup
  or the capacity dropped it.  `FewEventsMissed` from `MissesAccounted`: the events a report
  misses and those the tail of the file puts at stake (`AtStake`) are at most two per failed
  write; the bound of the report alone is not inductive, as a torn line costs the next event.  A report that raises is counted as
  none: it takes a failed write to have a cut character.

Model-checked only: the liveness properties (`ExecuteReturns`, `RequestsAnswered`, `BudgetReopens`,
`LoopsEnd`, `FilesArchived`, `TrainingEnds`), which are out of the prover's reach (for
`ExecuteReturns`, `ExecuteRunsOut` and `ExecuteNeverStalls` say all but the fairness).  Every invariant and
every action property of the runs is also a theorem.  Proved and in no run: the type invariants,
`ConcurrencyBound`, `MatchAccounting` and `BestOfRuns`, which restate or follow from
what the runs check.  The strengthenings were checked by TLC on the same instances before they were
proved, and are not listed as invariants of the runs.

## 5. Where the code and its texts disagree

The models follow the code.  Where a comment, a name or a document says something else, the
modules have the behaviour of the code and the properties are stated around it:

- `on_complete` is awaited inside the `try` of the task (`dag/engine.py:314`): a callback that
  raises makes a COMPLETED node run again or fail.  The properties of `DAGExecutor` are for callbacks that do not raise.
- "Each DAG node is submitted as a Celery task so execution survives worker restarts" (`workflow/celery_executor.py:28`): the
  executor walks the graph once and nothing it submits has completed by then (line 98), so children are never
  submitted and the run is reported as completed.  The run `celery_submits` shows it (`EachNodeSubmitted`).  `TaskRunner.run` raises
  `KeyError` on a cycle after it has logged the deadlock (`core/runner.py:48`).
- The planner budget calls itself a hard enforcement (`envs/planner_budget.py:12-15`), but the check and
  the record have awaits between them (`routing/router.py:235`): concurrent requests overrun it, by
  as much as `OverrunBound` says.
- `ModelRegistry.generate` logs "trying next" for exceptions and unhealthy models only
  (`models/registry.py:110-116`): an error returned as a result is not tried elsewhere.
- The miner is given the whole trace buffer in every iteration (`loops/runner.py:289`), so one failure
  is counted again each time; a held-out task that raises drops out of the rate it should
  lower (`loops/harness_orchestrator.py:192-196`).
- Above the hourly quota the threshold of the SOTA scheduler becomes 0.9
  (`adaptive/sota_scheduler.py:104`), and as the planner is asked when the confidence is
  below it, it is asked more often.
- The gatekeeper has three targets that name the cloud and reaches none of them: `evaluate`
  grants the cloud only with `require_cloud`, which is asked for restricted and regulated
  texts only, and those `can_use_cloud` excludes.  "Local default with cloud fallback"
  (`hybrid/gatekeeper.py:94`) never happens.  `decide` does not look at `passed` either, so that the highest
  class of a tenant's policy has no effect there.
- A model has a deployment type, local or cloud (`config.py:25`), but `ModelRegistry.generate` looks for a role alone
  (`models/registry.py:98`): what `/v1/route`, `/v1/chat/completions` and the stream hand over goes to the cloud if the model of
  the role runs there.  What holds is that it is not restricted, and sanitized if it is confidential.
- A text that is cut inside a character raises `UnicodeDecodeError`, which is neither of the errors that the
  learner (`learner/continuous_learner.py:123`) and the compliance report (`audit/compliance.py:86`) skip a file or line for: the first
  fails in each cycle while the file is there, the second for good, as audit files are only appended to.
- `set` of a text that is too large logs nothing and returns (`cache/engine.py:138`): the older text stays readable.
- The budget file is emptied before it is written (`envs/cost_controller.py:82`): a crash in between gives the whole monthly budget
  back.  `LostCallsAreRecent` names that step as an exception.
- `revert` writes what `read_text` returned (`swe/patch.py:51`, `:70`): a file with other line ends comes back with newlines.
- "`patch.to_diff()`: unified diff of changes made" (`docs/howto-common-tasks.md:168`): the result's patch is a new one with a
  description and no files (`swe/agent.py:125`), so `zilli swe` prints none (`cli.py:631`); the diff is in the context.  The run
  `swe_report` shows it (`PatchIsReported`), and `ContextTellsChange` is about the context only.  The correction passes
  on only the exit code, and tests run on the host with a sandbox, too.

## 6. What is not modelled

*Left out of modelled components*: `execute_batch` of the router and the persistence of `PlannerBudget`, which
nothing calls; the total cost of a loop, which nothing increases; sampling, augmentation and `purify` of
the replay store; retries and timeouts inside `TaskRunner`, which end in a result either
way; the broker and workers of Celery; the bandit thresholds, the length controller and
the trainer of a training run; the noise and query limit of the sandbox; metrics and read-only
endpoints of the server; the statistics of the cache; the crowding arithmetic of the optimiser;
the hourly counter of the cost controller; the texts of prompts, edits, suggestions and logs.

*Left out for good*: floating-point algebra (losses, scores, quality functions), text rules (request
classifier, PII, sanitiser, verifiers), parsing and printing (DSL, configuration, CLI) and backends'
network protocols.  Where their results matter they are inputs of a model, chosen freely.
`PlannerFrequencyController` is used by no other module of the package.  Two processes on one budget
file (`envs/cost_controller.py:83`) overwrite each other's counts by design of the
code, which keeps no lock; there is no property to state.
