# A verification development for ansiblers

ansiblers is an Ansible-compatible automation engine in Rust: a playbook is
parsed, its plays are run against the hosts of an inventory, and a module is
invoked for each task on each host. This directory holds TLA+ models of the
parts of the engine that decide *what runs, where, after what, and what is
reported*, of every module it runs on a machine, TLC configurations that check
them, and TLAPS proofs about them. Paths below are relative to
`src/ansiblers/crates/`.

## 1. Inventory of the system

| Part | State it keeps | Operations | Interacts with |
|---|---|---|---|
| command line tool (`ansiblers-playbook/src/main.rs`) | one `ExecutionContext`, `overall_success` | for each file: parse, run, recap; exit code | play executor |
| play executor (`ansiblers-executor/src/play.rs`) | `HostState` per host of the play, results | `run_playbook`, `run_play`, `run_task_list`, `run_block`, handlers | strategies (several hosts), task executor (one host) |
| multi-host strategies (`ansiblers-executor/src/strategy.rs`) | shared result and state maps, thread handles, a context (linear) or a clone per host (the others) | linear, free, batch, async fan-out, block walker | task executor, called from each thread |
| task executor (`ansiblers-executor/src/task.rs`) | none of its own; reads and writes the context | `when`, loop, module call, `changed_when`, `failed_when`, `ignore_errors`, `register` | resolver, templates, module registry |
| context, results, host state (`ansiblers-core`) | `playbook_vars`, `registered_vars`, `facts[host]` | insert and look up | everything above |
| variable resolution (`ansiblers-vars`) | none | `merged(host)`: later layers hide earlier ones | context, inventory |
| inventory (`ansiblers-core/src/inventory.rs`, `ansiblers-inventory`) | hosts and groups | `matching_hosts`, `expand_group`, `host_vars`; loaders for INI, YAML, scripts, group_vars | play executor |
| parser (`ansiblers-parser`), templates (`ansiblers-templates`) | none | text to AST, text to text | everything |
| modules (`ansiblers-modules`, 49 files) | the managed machine | ask, decide, act, report `changed` | subprocesses, file system |
| module cache (`module_cache.rs`) | results by (module, host, argument hash), counters | look up, invoke, insert, invalidate | module registry |
| molecule (`ansiblers-molecule`) | instances and their believed state; the containers themselves | create, converge, idempotence, verify, destroy, test | container engine, play executor |
| roles, sandbox, connections, test runner, build, compat | see `PROJECT.json` | | |

What is hard about this code:

* **Concurrency.** Three strategies start a thread (or blocking Tokio task) per
  host, chunk by chunk; threads publish into two maps under two locks and the
  caller joins, takes the maps apart with `Arc::try_unwrap` and merges them. A
  thread's error detaches the rest of its chunk.
* **Early returns.** An `Err` (not a failed result) unwinds through blocks,
  plays and files; every `?` is a place where results, states and containers
  are left as they are.
* **Shared state that outlives its purpose.** One context lives through all
  plays and files, and, under linear, through all hosts.
* **Two implementations of the same idea.** Blocks are walked by `run_block`
  and again by `execute_block_single_host`; the batch size is clamped in one
  path and not in the other.
* **Crashes.** A molecule process that dies leaves containers a later process
  does not know of; an engine killed between two commands of a module leaves a
  machine the next run must bring to its goal.
* **One machine for all hosts.** Modules run on the controller. Two hosts of a
  fan-out are two invocations that ask, decide and act on the same packages and
  files at the same time.
* **`changed` by hand.** Each of the 49 module files decides on its own what to
  ask, which exit statuses to look at and which words of a tool's output mean a
  change.

What makes each part correct: strategies run every host's node list in order
up to its first failure and report exactly that; blocks lose no failure and
always run `always`; a registered variable holds what the task returned; the
exit code follows from the tasks; a molecule phase runs against the instances
this process created, and its exit code is true of the phases and containers; a
module that reports ok or changed has left every item it was given in the state
asked for, reports ok only if it moved nothing and changed only if it did.
`PROJECT.json` lists the hazards line by line with the properties that watch
them.

## 2. Modules

| Module | Models | Notes |
|---|---|---|
| `HostRuns` | what a strategy promises | abstract specification: runs of hosts, one verdict, one report |
| `Nodes` | `HostState`, outcomes, counters, `register` of a node | shared by the strategies |
| `FanOut` | `execute_free`, `execute_batched`, `execute_tasks_multi_host_async` | implements `HostRuns` |
| `Linear` | `execute_linear` | implements `HostRuns` |
| `BlockWalk` | `run_task_list`/`run_block` and `execute_block_single_host` | recursion as a stack of frames |
| `TaskRunner` | `TaskExecutor` | `run`, `run_loop`, `run_single`, `post_task` |
| `Inventory` | `matching_hosts`, `expand_group` | used by `Playbook` (EXTENDS) and `Molecule` (INSTANCE); the result of `all` is any order, of a group the one sorted order |
| `Playbook` | `main.rs` `run`, `run_playbook`, `run_play`, the resolver's layers | composes node outcomes with plays, files and variables |
| `Molecule` | `lifecycle.rs`, `scenario.rs`, `driver.rs`, `main.rs` | processes, containers, kills |
| `ModuleCache` | `module_cache.rs` | threads, two stores, invalidation, restart |
| `Steps` | what a module is made of | questions, early returns, commands and reports as steps of a plan; what a command does to an item |
| `LinuxPackages`, `UnixPackages`, `LanguagePackages`, `OtherPackages` | the package manager modules | one plan per module and one operator per function of it |
| `Deployments` | `ostree.rs`, `rpm_ostree.rs`, `dnf_history.rs` | plans |
| `Files` | `copy`, `template`, `file`, `lineinfile`, `git`, `command`, `shell`, `stat`, `find`, `setup`, `debug`, `fail`, `set_fact`, `python_wrapper`, `preview` | plans |
| `Registry` | `registry.rs` `with_defaults` and `invoke`; what results promise | the table of plans |
| `Managed` | one machine and the invocations threads run on it | gives the steps their meaning |
| `*MC` | instances for TLC | constants |
| `FanOutProofs`, `LinearProofs`, `BlockWalkProofs`, `TaskRunnerProofs`, `PlaybookProofs`, `MoleculeProofs`, `ModuleCacheProofs`, `ManagedProofs` | TLAPS proofs about the module of that name | section 4 |

The models nest by abstraction: `TaskRunner` shows what one task can come to,
`BlockWalk` what a list with blocks can come to, and the strategies and
`Playbook` take these as one nondeterministic *outcome* per node
(`skipped`/`ok`/`changed`/`failed` for a task, active/failed for a block).
`Managed` is the level below `TaskRunner`: how a module comes to its result.

### How state and actions correspond to the code

**FanOut.** `mode`/`batchArg` are the strategy and its argument; a host is its
position in `hosts`. `main`, `lo`, `spawned`, `joined` are the caller's program
counter: in which chunk it is, how many of its threads it has started and
joined. `pc[h]`, `state[h]`, `results[h]`, `reg[h]` are the locals of a thread;
`sharedResults`/`sharedStates` the two maps. Each statement that another thread
can see is an action: `Spawn`, `RunNode`, `NodeErr`, `PublishResults`,
`PublishState` (two locks, two steps), `JoinOk`, `JoinErr`, `MergeChunk`,
`ReturnOk`, `PanicOnZeroChunk`. `batch_size: None` of the async path is a batch
size of `hosts.len()`, which any argument of at least `NHosts` behaves like.
`join` and `await` return only after the closure has ended and dropped its
clones of the maps, which is what `pc[h] = "done"` stands for. A thread that
panics is a thread that returns `Err`: `join` maps both to an early return.

**Linear.** `node` and `host` are the cursors of the two loops; `reg` is the
*one* registered variable of the shared context. The caller's `hostStates` is
updated in place.

**BlockWalk.** One frame per list being walked, with its section, the nodes
left, `block_failed` of the strategy walker and `saved_failed`. `walker` selects
`run_block` or `execute_block_single_host`; the operators `Breaks`, `Notices`
and `MainFailed` are the three places where they differ. `changed_count` and
`ok_count` are written by the walkers and read by nothing, and are left out
here. `log` is the list of results, with an entry for each block that was
entered; no action reads what is in it. An entry holds the frames it was made
in, and a frame the number of the entry that entered its block: that is enough
to say of a log which failures a `rescue` took (`Escapes`) and whether each
section was run in order (`StartsRight`, `GoesOnRight`, `EndsRight`) without a
recursion over the list.

**TaskRunner.** A task is its control fields. A condition is one of the texts
`evaluate_bool` distinguishes, a reading of the registered variable, or a
template that does not render (which falls back to its own text and is true).
Modules return any result, including the `ok`-but-`changed` of `set_fact`.
`snap` is the variable map a step works with: merged once, before the module
runs. `calls` is history: of every module call of the task, in a loop one per
turn, the variables it was given, what the module returned and what `run_single`
made of that. `FailureReported` judges each of them (`Settled`), not the last
one only. What it grants the overrides is what the code does: `ignore_errors`
and a false `changed_when` lose a failure of the module, and `failed_when` is
rendered against the variables merged *before* the call, so that
`register: r` with `failed_when: r.failed` looks at an older `r`. A registered
result is stored with its status; `as_register_value` stores `failed` and
`changed`, which is all a condition can ask. A variable registered under the
name of the loop variable is removed by the next loop (`task.rs:103`), and a
loop that fails leaves its variable: both are followed, and neither is called
wrong by a property, no document saying otherwise.

**Playbook.** One variable name `v` is followed through `-e`, play vars,
`register` and `set_fact`; a value is *who set it*, so that a value read too
late, on the wrong host or in the wrong play differs from the right one. A log
entry says which layers its task wrote (`wrote`): a block may register the
variable, set the fact, do both or neither, as its tasks do; a `set_fact` that
`failed_when` fails has set its fact. `BadArguments` is the `?` on an inventory
or a `-e` that cannot be read, before the first file. `-e` is put into
`playbook_vars` (`main.rs:136`), which is all the code does with it. Plays
with several hosts follow `execute_linear`, plays with one `run_task_list`,
which visit the same nodes in the same order.

**Molecule.** `running` is what the process believes (`InstanceState`),
`exists` what the container engine has. `docker run` may fail and leave a
container; a name in use makes it fail; `rm -f` may fail, which the code
ignores. `create` and `destroy` on their own are sequences of one phase without
a `ScenarioResult`. `Kill` ends the process at any point; commands run one
after the other.

**Module cache.** `pc[t]` walks through `CachingModuleRegistry::invoke`: count
the lookup, look up, then count the hit or run the module and store its result;
each is a step of its own because each takes its own lock. The SQLite store
differs from the map in three ways: it survives `Restart`, a row may not be read
back, an insert may be lost. A failed delete changes nothing and is a stutter.
The arguments are a `HashMap`, so equal arguments may serialise in more than one
order (`Orders`) and then miss; two different texts are taken not to collide.
`OneRunPerThread` says what is left of the promise of `module_cache.rs:16`: one
run for each text, and one altogether for arguments that have one text only.
`process`, `inval`, `began`, `ran`, `misses` and `calls` are history. The
context of the caller is left out: a miss of `setup` writes facts to it
(`setup.rs:50`), a hit does not, although the module documentation calls the
wrapper transparent.

**Managed.** A module is a stateless `invoke(args, host, ctx)`; what it does is a
*plan*, the sequence of steps it takes when nothing ends it early. `Registry`
gives the plan of a task (`module`, `state`, the names it is given, and the
flags: arguments and circumstances its code looks at). The steps are those the
code is written in: `Ask` an item at a time (`dpkg-query` for each package),
`List` once and `Pick` from the listing later, `Stop` (an early return, `if`
telling when), and a command, with what an exit status other than 0 and what a
command that cannot be started lead to (`?`, `return Ok(failed)`, ignored,
`or_else`). `Return` marks what still runs after the result is made
(`apt autoremove`).

`disk[i]` is the version of item i (absent, old, the wanted one): a package, the
content or the mode of a file, or a line of one (`lineinfile`). `booted` is the
machine questions are answered from; it differs from `disk` for rpm-ostree only,
whose commands stage the next boot. `call[t]` is one invocation: the task, the
steps it has left (`todo`), `needs` (the code's `missing`, `to_install`,
`installed` vectors), `listing`, what the commands said (`did`, `met`,
`succeeded`) and the verdict. Each step is one transition, so that calls of two
threads interleave between any question and any command. A command may succeed,
end with another status having done any part of its work, a half-written file
included, or not be there. `Crash` kills the process between two steps or
reboots the machine. `asked`, `blind`, `stale`, `moved`, `trampled`,
`overtaken`, `undone` and `shared` are history, for the properties only.

What a result promises is `Promise` in `Registry`, read off each module: all of
`state: present`, `absent`, `latest` where the code looks at it. The four
properties hold of every module with the exceptions that `Registry` and the
properties name, and each exception is a behaviour of the code:

* `LatestIsPresence`: `apk`, `pacman`, `flatpak`, `svr4pkg` and `pkgsrc` ask
  nothing but presence for `latest`. `LatestOfPresent`: `apt` and `yum` may
  return ok for `latest` of a package that is absent, because their question is
  about upgrades.
  A package on hold (`held`) has the status "hold ok installed", which `apt`
  does not look for, and a `zypper` that pads its columns does not print
  "Installed : Yes" (`padded`): both read as not installed (`Unread`), so that
  nothing is promised of `absent` and `latest`.
* `RemovePath` and `removes`/`creates` ask `Path::exists()`, which follows
  links: where the path is a dangling link, `absent` is ok and leaves it, a
  directory or a hard link is an error. `lineinfile` with `backrefs` and no
  matching line is ok and inserts nothing: only that no old line is left is
  promised.
* `Sweeps`: `apt` with `autoremove` runs it after its result, so that an orphan
  the task itself names may be gone again; `GoalReached` leaves that item out.
* `MayHide` (ok although something moved): `apt autoremove`; `pkg_add -u` comes before the result and is not part of it;
  `chocolatey`, `zopen` and `macports` look for "already installed" in the
  output of all packages, so that one that was there hides the others; `uv`
  looks for words on stdout that may be printed elsewhere; `file` does not count
  a mode; `git` compares HEADs, which `checkout --force` and the submodules leave
  as they are; `lineinfile` with `create` writes an empty file before it looks
  for lines. What these last three change no item stands for (`Unseen`): a call
  that may have done it counts as having moved something. Directories made on
  the way to a file are not items.
* `MayInvent` (changed although nothing moved): `pip -r`, `yum autoremove`,
  `pacman` sysupgrade report changed whatever the tool did; `file` with
  `state: file`, which is also what it makes of a state it does not know, too.
  `apt` with `latest` asks whether "Inst NAME" is printed, true of a current
  package when one whose name begins with NAME can be upgraded (the question
  `apt upgrade` may be answered either way); packages that are `Unread` are
  installed again.
* `ChangedIsReal` is about calls that asked first. Those that never ask report
  changed each time: `template` without `force: false`, `conda` when its JSON
  has no actions, the z/OS operations (`curl` without `-f` makes a change of
  every HTTP error), the summary view of `ostree`, and `pkg5 unfreeze`, which
  runs `pkg freeze -n`.
* `WholeSystem`: upgrades of everything and autoremovals touch what the task
  does not name.
* `Unbound`: `ostree`, `zos`, `dnf_history`, the Python wrappers and the like
  act on things no item stands for.
* `blind`: a question whose command fails reads as "not installed".
  `stale`: rpm-ostree judged by the booted deployment while another was staged.
  `undone` and `overtaken`: another call moved the item meanwhile.
* `MovesOnlyItsOwn` fails for `lineinfile` when another call writes between its
  read and its write, and when the write stops half way.

Met while reading the modules, and followed by the plans: `copy` and `template`
write before they apply the mode, and `copy` never looks at the mode again;
`appimage` takes a half-finished download for the image; `git clone` ignores a
checkout that fails; `dnf_history undo` is tried again through Python when
`dnf` fails, having possibly done its work; `nix` with a flake and no names
fails; `ostree admin_upgrade` with `reboot` reboots after a mere check; an exit
status 4 of `pkg install` ("nothing to do") is a failure; preview's sandbox
runs a script that prints the arguments and never the module.

## 3. Runs

All passing runs together fire every action. `CHECK_DEADLOCK FALSE` is set in
every cfg because each of these systems stops: the call returns, the walk or
process ends, the bound on commands or tasks is reached.

| Run | Instance | What it shows |
|---|---|---|
| `FanOut` | 3 hosts, 2 nodes (a registering task, a block), all modes, batch argument 0 and 2 | `ConcurrencyBound`, `UnwrapSucceeds`, `OkReportsTheRun`, `ErrKeepsMergedChunks`, `RegisterIsolation`, `ImplementsHostRuns`, `CallReturns` |
| `Linear` | 3 hosts, 3 nodes, every subset of targets | `Lockstep`, `StatesMatchResults`, `ImplementsHostRuns`, `CallReturns` |
| `BlockWalk` | both walkers on every block whose sections are empty, a task, or an inner block and a task; plus lists with several blocks in a section | `FailedFlagExact`, `PlayRunsAsWritten`, `AlwaysRuns`, `WalkEnds` |
| `TaskRunner` | two tasks in a row out of 34, facts that hide nothing, the loop variable, or the registered one | `FailureReported`, `LoopCoversItems`, `RegisterHoldsResult` |
| `Playbook` | six command lines over two hosts, three groups and localhost, with and without `-e`, blocks that write the variable | `VariableSource`, `PlayCovers`, `ExitCodeOfTasks`, `RunEnds` |
| `Molecule` | two platforms, container and none driver, optional playbooks all or none, three commands | `TargetsAreTheInstances`, `ExitTellsThePhases`, `CommandEnds` |
| `ModuleCache` | two threads, two hosts, one cached and one other module, two arguments with one and with two texts, three calls, one invalidation per host, one restart | `ResultBelongs`, `OneRunPerThread`, `CountersAgree` |
| `Managed` | every module, one machine, two threads, two packages and an orphan in every version, every operation of every module, failing and missing commands, kills and reboots | `GoalReached`, `OkHidesNothing`, `ChangedIsReal`, `MovesOnlyItsOwn` |
| `LinearRegister` | as `Linear` | **violated**: `RegisterIsolation` |
| `PlaybookExit` | as `Playbook` | **violated**: `ExitZeroMeansNoneFailed` |
| `PlaybookExtra` | as `Playbook` | **violated**: `ExtraVarsWin` |
| `MoleculeDestroy` | one command | **violated**: `FailureDestroys` |

### Bounds and why they are enough

* `NHosts = 3`, batch size 2: the smallest instance with a full chunk, a last
  chunk that is not full, and a chunk after a merged one. Two threads in a
  chunk are enough for one to fail while the other runs; `free` runs all three
  at once. Batch argument 0 reaches the clamp and the panic. Larger instances
  are covered by the proofs.
* `NNodes = 2` (3 for `Linear`): a node before and a node after the one that
  registers or fails.
* `BlockWalk`: nesting depth 2 in each section; depth 3 repeats the same frame
  transitions. The proofs cover lists of any length and depth.
* `MaxRuns = 2`: a task that registers and one that reads or overwrites.
* `MaxCommands = 3`: leave a container behind, trip over it, clean up.
* `ModuleCache`: three calls let a thread miss, store, be invalidated and look
  up again beside another thread. One of the two arguments serialises in one way
  and the other in two, which is what tells the two halves of `OneRunPerThread`
  apart. The threads are interchangeable, and so are the hosts (symmetry); 1.9
  million distinct states.
  `OneRunPerThread` is stated for the in-memory store: SQLite may lose a row.

* `Managed`: the two packages are interchangeable, so are the two threads
  (symmetry). Two items are what it takes to have one that is there and one that
  is not, or one moved and one left; the third is what nobody asked for. Three
  versions tell absent, outdated and wanted apart. `MaxCost = 2`: of the common
  tasks two calls, at once, one after the other, or with a kill or a reboot
  between them; a task with an argument or a rare operation takes the whole
  bound and is checked alone. Two calls reach what one leaves to the next; a
  third would start from a machine the initial states already contain, since
  every initial version of every item is tried. `NameSets` takes no name and
  both; tasks with several arguments at once are not tried. 650 thousand distinct
  states.

### Fairness

`FanOut`: weak fairness of the caller and of every thread; the operating system
schedules runnable threads, and a module call that never returns is outside
the model (the code has no timeout). `Linear`, `BlockWalk`, `Playbook`: weak
fairness of the single thread. `Molecule`: weak fairness of the work of a
process, none of starting commands nor of killing; `CommandEnds` holds because a
killed process has ended too. `TaskRunner`, `ModuleCache` and `Managed` state
safety only and assume no fairness.

### Disagreements between code and documentation

1. *Register isolation* (`LinearRegister`). `docs/design/PHASES.md:149` promises
   "Register variable isolation per-host"; the linear strategy, which every
   play with several hosts uses, shares one context.
2. *Extra variables* (`PlaybookExtra`). `resolver.rs:13` gives "Extra vars (-e
   flag), highest precedence" and `main.rs:7` announces the "full 9-tier Ansible
   precedence"; the command line tool puts them into `playbook_vars`, where the vars of a play, a registered
   variable or a fact hide them. The resolver itself keeps the order, as its test
   shows: its extra layer is the one nobody fills. `VariableSource` is therefore
   about runs without `-e`.
3. *Failed handlers and the exit code* (`PlaybookExit`). `main.rs:30` gives exit
   code 2 to "One or more tasks failed"; a failed handler leaves it 0.
4. *Destroy on failure* (`MoleculeDestroy`). `lifecycle.rs:25` promises Destroy
   "when any phase fails"; a phase that is `Err` returns first.

Also met, without a run of their own:

* *Two block walkers*. A failed task of a rescue or always section fails the
  host in a single-host play and does not in a multi-host one, although
  `strategy.rs:231` speaks of delegating to the play executor.
  `FailedFlagExact` says what each of the two does.
* *Equal arguments of a cached module*. `module_cache.rs:16` promises that the
  same module with the same arguments on the same host is not run again;
  `module_cache.rs:59` serialises a `HashMap` in whatever order it iterates, so
  that equal arguments may get different keys and one thread runs the module
  twice. `OneRunPerThread` says what holds.
* The Idempotence phase never looks at `changed` (`lifecycle.rs:199`).
* `--limit` and `--check` have no effect; handlers run without being notified
  (`play.rs:131` says so).

## 4. Proofs

Every theorem is proved for all values of the constants that satisfy the named
assumptions of the module it is about. Each proof module has the same shape:
an invariant is `TypeOK` strengthened until it is inductive (it was
model-checked before it was proved, where TLC can evaluate it: what `HideInv` and
`GoalInv` say of the rest of a plan it cannot), one lemma for the initial states, one per
action or group of actions, `Spec => []` of the invariant, and the properties
from it. A property that needs more than the others gets an invariant of its own
on top of that one.

| Theorem | States | For every |
|---|---|---|
| `FanOutProofs` `TypeCorrect` | `[]TypeOK` | number of hosts and nodes, kinds, registers, batch size |
| `BatchBound` | `[]ConcurrencyBound` | |
| `UnwrapIsSafe` | `[]UnwrapSucceeds` | |
| `ErrIsAtChunkBoundary` | `[]ErrKeepsMergedChunks` | |
| `RegistersIsolated` | `[]RegisterIsolation` | |
| `OkTellsTheRun` | `[]OkReportsTheRun` | |
| `Refinement` | `ImplementsHostRuns` | |
| `LinearProofs` `TypeCorrect` | `[]TypeOK` | number of hosts and nodes |
| `HostsInLockstep` | `[]Lockstep` | |
| `StatesTellResults` | `[]StatesMatchResults` | |
| `Refinement` | `ImplementsHostRuns` | |
| `BlockWalkProofs` `TypeCorrect` | `[]TypeOK` | task lists, of any length and depth, and walkers |
| `FlagExact` | `[]FailedFlagExact` | |
| `AlwaysSectionsRun` | `[]AlwaysRuns` | |
| `RunsAsWritten` | `[]PlayRunsAsWritten` | |
| `TaskRunnerProofs` `TypeCorrect` | `[]TypeOK` | set of tasks, length of loops, number of runs |
| `FailuresReported` | `[]FailureReported` | |
| `LoopsCoverItems` | `[]LoopCoversItems` | |
| `RegistersHoldResults` | `RegisterHoldsResult` (a step property) | |
| `PlaybookProofs` `TypeCorrect` | `[]TypeOK` | inventory and command line |
| `VariablesHaveTheirSource` | `[]VariableSource` | |
| `ExitCodesTellFailures` | `[]ExitCodeOfTasks` | |
| `PlaysCover` | `[]PlayCovers` | |
| `MoleculeProofs` `TypeCorrect` | `[]TypeOK` | platforms, playbooks, number of commands |
| `ExitsTellThePhases` | `[]ExitTellsThePhases` | |
| `TargetsAreInstances` | `[]TargetsAreTheInstances` | also the order of names, and which of the patterns `all` and `molecule` occur |
| `ModuleCacheProofs` `TypeCorrect` | `[]TypeOK` | threads, hosts, modules, arguments, bounds |
| `ResultsBelong` | `[]ResultBelongs` | |
| `RunsOnce` | `[]OneRunPerThread` | |
| `CountersCorrect` | `[]CountersAgree` | |
| `ManagedProofs` `TypeCorrect` | `[]TypeOK` | modules, items, names, threads, arguments and circumstances |
| `OnlyItsOwn` | `[]MovesOnlyItsOwn` | |
| `OkHides` | `[]OkHidesNothing` | |
| `GoalsReached` | `[]GoalReached` | |

**FanOut** (`NodesAssumption`, `FanOutAssumption`). `TypeOK` is not inductive on
its own: merging is only well typed if the maps hold entries for the whole
chunk. `Cursor` ties `spawned` and `joined` to the caller's control state,
`ThreadInv` says a thread exists exactly for the hosts spawned so far, that
joined ones are done and that what a thread published is what it holds,
`MergeInv` that the caller's maps hold exactly the merged chunks, `RegInv` that
a context holds no other host's variable, and `FailInv` that a host is inactive
only because the caller said so or because its last node was fatal. `BatchBound`
counts the live threads with the finite-set theorems: they lie among the spawned
ones of one chunk, also after an `Err`. `Refinement` needs one more invariant
(`LengthInv`, no host runs more nodes than there are) and maps each action to a
step of `HostRuns` or to a stutter. `OkTellsTheRun` needs `TallyInv`: flag and
counters of a thread's HostState are those of the results beside it. A counter is the number of positions of a sequence that
hold an outcome; `TimesAppend` shows, from the finite-set theorems, what one more
node does to such a number, which is all the induction there is.

**Linear** (`NodesAssumption`). `LenInv` says how many nodes each host has run:
an active target exactly `Progress(h)`, the number of nodes the walk has taken
past it, any other at most that; `Lockstep` is a difference of two of these.
`FailInv` is as above; `StatesTellResults` uses the same lemmas on counters as
`FanOut`; `ReturnInv` says where the walk stands when it returns.
The refinement maps a turn of the inner loop to `RunNode` of one host, and the
return to the reports of all.

**BlockWalk** (no assumption on the lists: nothing in the proof depends on how
deep they are nested). The properties speak of a walk that has ended; the
invariants say what is true of it on the way. `NestInv` and `LogInv`: the frames
of the stack began one inside the other, and every entry made since a frame began
has it around it, in a section not later than the one the frame is in now.
`FlagInv`: the failed flag is that of the innermost section's failures in the log
(`Fails`), `block_failed` and `saved_failed` are those of the sections they
stand for. It has a case that is easy to overlook: a strategy enters a block in a
rescue or always section with a host that an earlier block there has failed
already (`FailedBefore`); that flag must survive the block, which `InnerEscapes`
and `FlagLeft` show: what fails in the block fails in the list around it unless
the block's own rescue takes it. `AlwaysInv` keeps a block whose always section
has not begun on the stack. With these `FlagExact` and `AlwaysSectionsRun` hold
of both walkers. `PlayInv` adds the order of `run_block`: a frame is before its
first node or after the last entry of its section, and that entry failed exactly
if the flag is set (`AtStart`, `AfterLast`); a frame inside another belongs to
the last entry of that one (`OfBlock`); a section that is no longer open has
ended with its list or at a failure (`EndInv`); and a block that is past its
block section went to rescue exactly if it failed and has one (`BegunInv`).
`EntryAdded` keeps all that as an entry is added, `SectionEnded` as a section
closes.

**TaskRunner** (`TaskRunnerAssumption`). `LoopInv` holds in the middle of a loop:
the module has been called once for each item so far, none of the turns ended in
a failure, and what the overrides made of each of them is `Settled`.
`OverridesSettle` is the lemma about `run_single`: a failure is lost only to
`ignore_errors` or to a false `changed_when`, and comes only from the module or
from a `failed_when` that can hold of the variables of that call. `RegisterHoldsResult` is a property of
steps and follows from the invariant by cases of the action.

**Playbook** (`InventoryAssumption`, `PlaybookAssumption`: command lines are
sequences of plays whose nodes are of the four kinds). `VariableSource` looks
back at the log when a task has run; the invariant `CtxInv` says the same of the
context *before* the next one runs: a fact is the last `set_fact` of its host in
the log, the registered variable the last `register`, the play variable the last
play reached that sets it, or else `-e`. A block may be among those that wrote.
`SourceInv` says of every entry that it saw the strongest of these as they stood
before it; without `-e` that is `VariableSource`. `FailInv` says that a task has failed exactly if it
has been counted in `success` or a host of the play under way is failed and will
be; `Bounds` keeps the cursors within the plays. `PlayCovers` needs
`CoverInv`, which says of every host where in the list it stands at each
position of the two cursors: hosts the turn has passed are one node ahead of
those it has not reached, and one that failed stopped where it did.

**Molecule** (`MoleculeAssumption`). `PhasesInv`: the phases left are a suffix of
the command's sequence; `ResultsInv`: those over have passed, but for the one
whose failure is being cleaned up after; `DestroyInv`: the instances a Destroy
has passed are gone, but for those `rm -f` failed on, and a `test` that has run
its phases has none left.
The targets of a playbook (`TargetsAssumption`: there is a platform, the order
of names lists each once, patterns are `all` or `molecule`) need an invariant of
their own, `TargetInv`: a process that is creating has run no playbook and
believes exactly the instances before its cursor running; one that comes to a
playbook believes all or, having had no create phase, none. `TargetsAre` shows
from the definitions of `Inventory` what the patterns stand for in both cases,
with the finite-set theorems.

**ModuleCache** (`ModuleCacheAssumption`, `NoEntryAssumption`: finitely many
threads, no text that two different arguments serialise to). `CallInv` and
`ResultInv` say what each control state of a thread stands for, `EntryInv` that
an entry answers the calls its key is computed from and was stored since its
host was last invalidated, `RanInv` that in memory a thread that ran the module
for a key has stored the result or is about to. From it `OneRunPerKey` follows:
a thread about to run a module has not run it for that key. A key is the call
and one of its texts, so that is `OneRunPerThread`: arguments with a single text
have a single key. `CountersAgree` counts the
threads between counting a lookup and counting its hit, with the finite-set
theorems.

**Managed** (`ManagedAssumption`: a task names items of its module, a module
of one file is given that file).
The proof is about every plan of every module at once. A plan is a sequence of
typed steps (`StepsOf`), two deep because a command that cannot be started may
lead to another plan; the lemmas `LinuxPlans` to `FilePlans` show that the plan
of every task of every module is one and `Ends`: it comes to an unconditional
result whatever happens. `TypeInv` keeps that of the steps a call has left
(`Sound`), so a running call always has a next step. `LocalShape` and `MoveShape`
say once what a step that leaves the machine alone and one that acts on it do to
a call and to the machine. `OnlyItsOwn` adds `OwnInv`: without `Staged` the
booted machine is the machine; a command that is pointed at names leaves every
other item (`CommandsKeep`); the plan of `lineinfile` reads the file before its
only write and holds no other command that acts (`Lined`, `Fresh`), so that what
it writes back is what it read unless another call was running beside it
(`Alone`).

`OkHides` needs a predicate on pairs of steps. Of two steps of a plan
(`Paired`), wherever they stand, the first moves nothing (`still`), or the
second never reports `ok` (`mute`), or the first ends the call when it fails
(`firm`) and the second reports `ok` only if nothing was done (`told`): the early
return after the command that may have failed half way is what this is about.
`Honest` plans also are so inside (`Good`). The lemmas `LinuxHonest` to
`FileHonest` show it of the plan of every task that `MayHide` does not name; a
plan that runs something after its result, `apt` with `autoremove`, is one of
those. `HonestGoesOn` keeps it as a plan goes on, and `HideInv` says of a call
that has moved something that no step it has left reports `ok`, or only steps
that look at `did`, which is set (`MaySay`).

`GoalsReached` needs to know, before each step of a plan, how far an item of the
task has come. That is a label: `lost` (nothing is known), `due` (it is on the
list of the needed ones or as wanted), `have` (as wanted if anything is on the
list), `read` and `picked` (as wanted, or on the list, if the listing that was
made is still true), `met` (as wanted). `Claim` says what a label means in a
state, `Does` which label a step leads from and to: a question whose answers tell
the wanted versions from the others leads from `lost` to `due`, a command that is
pointed at the needed ones and brings them to what is wanted from `due` to `met`,
and a success that promises something may only be reported where the item is
`met`, or where nothing is needed and it is `due`. A plan has a `Path` from one label to another if its
steps can be labelled that way, and it `Reaches` if it has one from `lost`.
`WaysJoin`, `StopWays`, `SelectWays` and `CommandWays` give the paths of the
pieces plans are built from, `Effects` and `Tellings` what commands and questions
do to each set of wanted versions, `PackagesHave` and `FileWays` the paths of the
phrases modules share (ask, stop if there are none, act); with these `LinuxReach`
to `ShellReach` find the path of the plan of every module that promises
something. `GoalInv` says of a running call that for every item there is a label
whose claim is true and a path through the steps left, and of one that has
succeeded that the item is as promised. `GoalLocal` and `GoalMove` keep it when
the call itself takes a step, `GoalBeside` when another one does: such a step
leaves an item as wanted, or the call is `undone`, `stale` or `blind` and
claims nothing any more. What commands do after the result (`return`) may not
spoil it (`Tidy`), which is where the exception of `Sweeps` comes from.

Only model-checked:

* liveness (`CallReturns`, `WalkEnds`, `RunEnds`, `CommandEnds`): the prover has
  no rule for fairness;
* `ChangedIsReal` of `Managed`: it relates a question, the answer another call
  may have made old, and the command it leads to in the other direction, that an
  item on the list is one the command moves, and needs a plan predicate of its
  own, established for every module as `Honest` and `Reaches` are.

## 5. What is not modelled

* *Parsers and loaders* (playbooks, inventories in three formats, `group_vars`,
  dynamic scripts) and *templates*: text in, record out, nothing kept. A model
  would restate the grammar. The executor models start from the record, an
  error, or the truth of a rendered condition.
* *Command lines and outputs.* A module's command is what it does to the items
  it is pointed at; options, environment variables, `stdout`, `stderr`, `msg`
  and `extra` of results are left out, and of words in an output only whether
  they were found.
* *Roles*: nothing in the executor loads a role at this commit;
  `resolve_dependencies` is a pure depth-first function of the meta files.
* *Connections*: the executor never opens one, all modules run on the
  controller. The one conversion of a number there, `ansible_port` `as u16`,
  makes 22 of 65558 (`connection.rs:135`).
* *Sandbox*: an argument list and a seccomp filter for one subprocess. *Build
  and compat crates*: generators of text and static tables. *Test runner*: a
  loop over playbooks around the play executor.
* *Cyclic groups*: `expand_group` recurses without end; the models assume that
  no group is its own descendant.
* *Variables other than one*: one name through all layers the executor fills.
  The inventory, task and extra layers of the resolver stay empty on its path.
* *Time*: no module, container call or playbook has a timeout in the code; one
  that never returns is outside the models.
* *Races inside one file operation*, such as `lineinfile` finding a file that is
  created between its check and its read, and the caller's context on a cache
  hit.
* The module cache is not called by the executor at this commit and is modelled
  as the library it is.

The reasons per component are in `PROJECT.json`.

## 6. Plan

1. `Roles`: `resolve_dependencies` against a topological order, once roles are
   loaded by the executor; `Connections`: the registry's choice of provider,
   once the executor opens one.
2. Proofs: a predicate on the plans strong enough for `ChangedIsReal`, as `Honest`
   is for `OkHidesNothing` and `Reaches` for `GoalReached`.
3. Composition of `ModuleCache` with `Managed`: a cached `ok` for a machine that
   has moved since.
