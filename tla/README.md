# A verification of Tsumugi's execution core

Tsumugi is a small script language with two implementations (a tree evaluator
and a bytecode VM) inside an embedding library.  A host makes an `Engine`,
keeps `ExecutionContext`s, and runs scripts in them: at once, in slices of fuel
through execution handles, or as submissions of a REPL.  Scripts are bounded by
a budget, may be cancelled from another thread, may wait for answers of host
functions, and are rolled back when they fail.

This directory models that core in TLA+, checks it with TLC on small
instances, and proves what matters most of it with TLAPS for all instances.
The source is the reference: every definition that stands for code has its
lines in `PROJECT.json` ("map").

- [The system](#the-system): parts, state, operations, interactions
- [The modules](#the-modules): which models what, and how it corresponds
- [The runs](#the-runs): questions, bounds, fairness
- [The proofs](#the-proofs)
- [Where code and documents differ](#where-code-and-documents-differ)
- [What is not modelled](#what-is-not-modelled)
- [The plan](#the-plan)

Names of source files below are relative to `src/src/`, documents to `src/docs/`.

## The system

| Part | Source | State | Operations |
| --- | --- | --- | --- |
| Scheduler | `scheduler.rs` | active count, admission queue, run turn, ids under one mutex; an atomic mirror per slot | `admit`, `release_active`, `release_queued`, `run_turn_*`, `is_head`; Drop of `AdmissionSlot` |
| Execution handles | `engine.rs` | state, outcome, session, ticket, "registered" flag | `create_execution`, `start`, `execute`, `poll`, `pause`, `resume`, `set_waker`, drop |
| Host-call tickets | `host_pending.rs`, `budget.rs` (token) | result and waker under a mutex, atomic `ready` and cancel flags | `complete`, `register_waker`, `try_take`, `cancel` |
| Adapter executor | `host_pending.rs` | jobs outstanding | `submit`, the job's end |
| Budget ledger | `budget.rs` | limits, committed counters, peaks, token, deadline, live heap | `reserve_all`, `commit`, `charge_*`, reset, rearm |
| Language state | `env.rs`, `eval.rs`, `module.rs` | scopes of cells, view of the frame, undo journal, frames, session, resolved modules | begin, statements, commit, rollback, abort |
| Heap accounting | `value.rs`, `budget.rs` | tracked objects with a weak reference to a ledger | new, detach, push, pop, drop |
| Evaluator | `eval.rs`, `ast.rs` | environment, frame list and staged expressions of the driver, pending yield | `run_repl_submission`, `begin_execution`, `run_slice`, `resume_host_call`, `abort_session` |
| Embedding facade | `embedding.rs` | a context's running and poisoned marks, first submission | `run`, `run_for_repl`, `run_audited`, `link` |
| Audit | `audit.rs`, `embedding.rs` | journal with reserved slots, sequence, drain queue | append, deliver, acknowledge, resend |
| Compiler, verifier, VM | `compiler.rs`, `verifier.rs`, `vm.rs`, `opcode.rs`, `chunk.rs` | compiler scopes kept over a session; stack, frames, cells, handlers | compile a line, verify, run a line |
| Builtins, capabilities, sandbox | `builtin*.rs`, `capability.rs`, `sandbox.rs` | mounts, grants, symlink policies | dispatch, charge, resolve, check |
| Linker and module loader | `embedding.rs`, `module.rs` | walk of the import graph; resolved modules | `link`, `link_into`, `forget` |
| Front end and tools | `parser.rs`, `lexer.rs`, `main.rs`, ... | none between calls | parse, print |

### How they interact

- All handles of an engine share one scheduler.  A handle owns an
  `AdmissionSlot`; dropping the handle drops it, which calls the scheduler.
  `poll` calls the scheduler two to four times and is not atomic as a whole.
- A handle borrows a context until it is dropped.  The context holds the
  evaluator, whose session (root frame, journal, imports) outlives a slice but
  not the handle.
- A cooperative host function makes a ticket, hands its completer to a thread
  of the host, and yields.  The answer comes back through the ticket and a
  waker; a cancel comes through the token's flag and its own waker.
- The evaluator charges the ledger before it works; the builtins charge it
  before they act on the host; each run installs a new ledger, each REPL
  submission after the first only new fuel.
- A transactional run opens the undo journal of `Env`, every write goes
  through it, and its end commits or undoes; the module loader's set of
  resolved paths follows the same decision.
- A script is linked against the host's resolver, and then run: the run reads
  the modules again through the loader.  Meanwhile scripts of other executions
  may write, rename and remove the same files through their own capability.
- The same text runs on the tree evaluator (synchronously, or in slices on the
  driver) or on the bytecode machine, and has to mean the same on each.

### What is hard

*Concurrency.* Handles of one engine may live on different threads (their
contexts do not move).  `AdmissionSlot::drop` reads the mirror outside the
mutex; `poll` reads the head of the run turn, releases the lock and works;
`complete` and `register_waker` race; `cancel` may come at any time.

*Ordering.* Admission is first come, first served; the run turn rotates; an
answer may come before its waker, a cancel before its answer, a promotion
between two polls.

*Failure.* A script stops at any statement and any charge; a handle is dropped
in any state; a host function panics; an import fails half-way.

*State that is kept.* A context is used again after a run that failed, was
cancelled or exited: counters, scopes, cells shared by closures and resolved
modules must be what the next run may expect.

*Two of everything.* Two engines for one language, and in the tree engine two
ways to run (recursion, and an explicit list of frames that can stop anywhere);
a linker and a loader.  The documents promise that they agree.

What makes each part correct:

- scheduler: never more active executions than allowed, none lost, nobody
  overtaken, nobody forgotten, only live slots in the run turn;
- handles: one slice at a time, the handle's flag equal to the shared queue,
  bounded waiting, no session without its handle, everybody ends;
- host calls: no answer and no wake is lost, no answer is invented, the count
  of executor jobs is never behind, and exact while no job has panicked;
- budget: limits hold at the edge of the word and when a submission lowers them, counters that belong together
  agree, no effect without its charge, nothing is given back but fuel;
- language state: a rollback is complete, the stack of scopes and the view of
  the innermost call return;
- heap: the ledger owes exactly what is held, the cached depths are true, a
  value that is shared changes for nobody else;
- audit: no work before Started is acknowledged, nothing is reported that the
  sink does not know, the events add up to the usage that is reported, `run`
  returns under every sink, a run leaves no open session;
- engines: the same outcome, fuel and output from both; slicing, waiting and
  giving up leave no trace; compiled code is what the verifier would accept;
- parser: the text of a program is read as that program, and a damaged text is
  refused or read as a program that would be written so;
- linking: the graph is whole, without cycles, and rests on one text of each
  module; the loader agrees with it and forgets what failed;
- files: nothing outside of the mount is read or changed, and nothing without
  the operation that the host granted for it.

`PROJECT.json` lists the components with their status and the hazards, each at
its line and with the properties that watch it.

## The modules

| Module | Models | Uses |
| --- | --- | --- |
| `Admission` | what admission promises (abstract) | |
| `Scheduler` | `scheduler.rs` | refines `Admission` |
| `Execution` | `engine.rs`: handles, contexts, threads | composes and refines `Scheduler` |
| `HostCall` | a ticket, the token and the wakers of one wait | |
| `AdapterExecutor` | the executor's count of jobs | |
| `HostAdapter` | a host call served by an executor job | composes `HostCall`, `AdapterExecutor` |
| `Budget` | the ledger, its charges, runs and submissions | |
| `Transaction` | scopes, cells, journal, frames, imports of a context | |
| `Heap` | tracked values, their charges, sharing and depth | |
| `Audit` | runs of a context under an audit sink: journal, stream, delivery | |
| `Values`, `Ast` | values with the operators and builtins of both engines; syntax trees and the walks of `ast.rs` | |
| `Compiler`, `Verifier` | `compiler.rs`, `verifier.rs` | `Ast`, `Values` |
| `Machine` | `vm.rs`: a session of lines | `Compiler` |
| `Evaluator` | `eval.rs`: expressions, statements, the driver's frames | `Ast`, `Values` |
| `Session` | the same script on `Machine`, then on `Evaluator`, synchronously or in slices with a host | composes `Machine`, `Evaluator` |
| `Parser` | `parser.rs` over tokens, and the text of a program | `Ast` |
| `Files` | `capability.rs`, the file builtins of `builtin_core.rs` | |
| `Linker` | `Engine::link`: the walk over the imports and the graph it builds | |
| `Linking` | the resolver, `module.rs`, the sandbox's path check | composes `Files` and `Linker` |
| `MCScheduler`, `MCExecution`, `MCBudget`, `MCTransaction`, `MCHeap`, `MCAudit`, `MCSession`, `MCLinking` | model values, symmetry, small limits, scripts and file trees | |
| `SchedulerProofs`, `ExecutionProofs`, `BudgetProofs`, `TransactionProofs`, `HostAdapterProofs`, `AuditProofs`, `LinkingProofs`, `HeapProofs` | theorems | `ExecutionProofs` uses `SchedulerProofs` |

**Scheduler.** One action per method, because every method holds the mutex
from begin to end.  Drop of the token is two actions, the read of the mirror
(`DropSlot`) and the release it chose (`ReleaseActive`, `ReleaseQueued`);
`owner` says on which thread a handle lives, and a thread in a Drop does
nothing else.  `Admission` has no mirrors and no tokens: a running set, a line
and a limit for each.  The refinement maps the running set to the slots whose
mirror says active.

**Execution.** A handle is its slot.  `poll` is cut where another thread can
come between: its early returns and the registration (`PollX`), the question
`is_head` (`CheckHead`), and the slice with what poll does afterwards
(`EndSlice`).  `SliceYields`, `SliceCallsHost` and `SliceTerminates` are the
results of `drive_one_slice`.  `execute` is a `CreateExecution` that keeps its
thread until its handle is dropped.  Scheduler actions are used through an
instance, so the methods are called exactly as `Scheduler` defines them, and
`ImplementsScheduler` checks that nothing else touches its state.  The refusal of
`resume_host_call` (`engine.rs:732`) has no action: the session waits for the very
call whose ticket the handle holds, and a ticket gives its answer once.

**HostCall, AdapterExecutor, HostAdapter.** Every load, store and critical
section is a step: `complete` stores the result, sets `ready`, reads the
waker, wakes; `set_waker` stores the waker on the token, then on the ticket,
then looks at `ready`; `poll` looks at the flag, loads `ready`, takes the
result.  The composition starts the completer from the job of an executor with
other jobs, one of which may be refused and any of which may panic.

**Budget.** A charge is one action (the ledger has one owner): the checks in
the code's order (per-item limit, cancel, deadline, cumulative limits with the
priority of the resources), then all counters or none.  Linking and host calls
charge in several steps with a `pc` between them, where a refusal can leave a
part committed.  `Word` stands for `u64::MAX`; sums are tested against it as
`checked_add` does.

**Transaction.** Names are bound to cells and a closure keeps a cell, so
that an assignment is seen elsewhere.  Cells are addresses; a new binding may
take any cell that nobody reaches, as an allocator may.  The journal is a
function from places to what they held first (`Unseen` where there is no
entry), since its log has at most one entry per place.  `Reachable` is
reference counting, but for cycles of closures, which the program never frees and
whose cells may be given out again here; an undo entry owns its cell and its
value, and that is why an address in `seen_cells` cannot be given out again.
A frame on the stack is a block (with a scope) or a call (with a scope and the
saved `frame_base`).  The ends are `Complete`, `Exit` (commit), `Fail`
(unwinds, then rolls back) and `Abort` (`abort_session`, which pops only the
calls).

**Audit.** The facade is one thread, and `at` says where `run_audited_inner`
is: it delivers Started, installs, links, runs slices, flushes after each one,
appends the Terminal and delivers it.  An append to the journal (`AppendEvent`)
and the answer of the sink are two steps, since the answer may be a wait
(`Wait`): then the evaluator adds a Yielded with the charges before it and,
with the acknowledgement, a Resumed; the same flush delivers them, and the sink
may wait again.  `Complete` is the completer of a ticket on a thread of the
sink, `Stop` the token and the clock.  `AtBoundary` is the order in which
`run_driver` asks: end of the script, fuel, queue, stop, next statement.
`GiveUp` is what every failed flush does.  Sequence numbers are places in the
journal.  The bytes of the queue and of the journal are counts of events; the
charges are of one resource, with a small `CHARGE_FLUSH_THRESHOLD`.  The
language state is a count of effects, because `Transaction` has the rest.

**Heap.** Lists, dicts and cells are objects at an address with the bytes they
are charged, the ledger they belong to and the cached summary of their deepest
element; a value is an address.  `Made` and `Dropped` are `Tracked::new` and its
Drop, `MustCopy` and `Write` are `detach` and what follows it.  Statements are two
steps, the expression that leaves a value in `acc` and the statement that uses
it, and each can be refused by the ledger.  `push` puts its element in before it
charges, so a refused push leaves it in; the model does the same.  `Settle` at
the end of every step drops what nobody reaches any more.

**Values, Ast, Evaluator, Compiler, Machine, Session.** These are functions over
records with few steps, since an engine works by itself between two points
where its host can see it.  `Machine!Next` is one instruction; a step of the
driver (`Evaluator!Iterate`) is one round of its loop, which is where a slice
may end.  `Evaluator` has the recursion over expressions (`Eval`) and the
driver's staged expression frames (`StepExpr`) side by side, as the code has.
The captures of closures are by cell in both engines.  Rendering a list or dict charges a
unit of fuel for each one inside (`CompositeNodes`), comparing two for each pair
it comes to (`Compare`), in either engine at the place where its code does.  `Session` runs a script
line by line first on the machine, then on the tree, and keeps for each line its
outcome, fuel and how much it printed.  On the driver the host gives slices of
one unit of fuel, answers a cooperative call after any number of rounds, or
aborts.  Lines of the source code are left out of nodes and errors; errors are
their type.

**Parser.** Recursive descent over a sequence of tokens with the state record of
the code (position, depth, the block's deferred errors).  `BlockText` writes a
program as the tokens it would be written with, with parentheses only where
precedence asks for them.

**Files.** A file system is a function from paths to entries (file, directory,
symlink).  `Translated`, `Routed` and `Verdicts` are what a builtin does with the
path before it asks the handle; `Resolve` is the handle's walk, `Real` and
`Canonical` are the operating system's.  Each builtin is one action, `Call`,
with the paths it touched; the file system does not change inside of it
(`capability.rs:1706` leaves that race to the host).  The walks of the operating
system, of the handle and of `absolutize_lexical` are functions of the number of
names, and what a symlink leads to a function of the symlinks that may follow, so
that they can be reasoned about.

**Linker.** The stack of `resolve_module_imports` with one action per call of
the resolver (`NextImport`), per chunk of a source (`ReadChunk`) and per finished
module (`Return`); any of them may fail or find the link cancelled.  It knows no
files: the text a call of the resolver finds is a parameter of its action, and
what the parser makes of a text is a constant.

**Linking.** `Linker` where each call of the resolver finds what the file system
of `Files` holds at that moment (`Found`).  `Load` is
the whole link phase of `Evaluator::run` and `RunEnds` the end of its statements.
`LinkInto`, the recursion of `link_into`, is a function of the imports that may
still be nested, from a module to what it does with the modules loaded so far.
Builtin calls of another execution come between any two steps.

## The runs

| Run | Expect | Shows |
| --- | --- | --- |
| `scheduler_one_thread` | pass | refinement of `Admission`, exact accounts, no starvation when handles share a thread |
| `scheduler_drop_race` | violation | what two threads can break: a lost slot |
| `execution_handles` | pass | handles on one and two threads, with cancels, host calls, drops and contexts used again: turns, bounds, sessions, and every execution ends |
| `execution_answer` | violation | an answer that is taken and never used |
| `host_calls` | pass | tickets, wakers and jobs, safety and liveness |
| `budget` | pass | limits, balance, effects, REPL sessions |
| `transactions` | pass | rollback, scope stack, call view |
| `heap` | pass | the ledger owes what is held, depths are true, shared values stay apart |
| `audit` | pass | what is reported was delivered, the stream adds up through nested waits, `run` returns |
| `language` | pass | both engines agree on outcome, fuel and output, slicing and aborts leave no trace, compiled code is well formed, texts are read |
| `language_rendering` | violation | the engines charge the rendering of an f-string or a print at different times |
| `linking` | pass | import graphs, the loader after the linker, file builtins inside their mounts, all while files change |

That two threads break nothing but the accounts of admission is part of
`execution_handles` (`ImplementsScheduler`, with the scheduler's types) and of
the theorems, which hold for any number of threads.

Deadlock checking is off in all of them: behaviours stop when the bounds on
admissions, slices, runs or statements are used up, and a host may stop.  The
type invariants of `Execution` (with the scheduler's), `HostCall`,
`AdapterExecutor` and `Audit` are part of `SlicesTakeTurns`, `AnswerIsKept`,
`CountCoversJobs` and `EventsAddUp`; those of `Budget`, `Transaction` and
`Scheduler` are theorems.

### Bounds, and why they are enough

*Scheduler.* Two active, two queued, five admissions: full, full queue,
refusal, promotion of either waiter and withdrawal from the middle all occur,
and a sixth admission meets a state that an earlier one met.  The race needs
one active, one queued and two threads.

*Execution.* A sum of hosts instead of one that does everything, since the run
also checks that every execution ends.  Three handles with two active places and
one in the queue compete for the turn while the third waits for admission: on one
thread with a context that may be cancelled, or on two threads without further
calls of the host.  Two handles cancel, call the host and pause, or come from
`execute`, on one thread or two, with contexts of their own or the same one after
a drop.  Two slices per script (`MaxSlices`): one that yields or calls the host
and one that ends, so that each handle can be in every state; three where an
answer must be taken while another handle keeps yielding.  One context is
cancelled by the host (`MaxCancels`), beside those that a drop cancels.  The
safety properties of this run are theorems for any number of each.

*Host calls.* Two wakers and two calls of `set_waker` after the first: a
replaced waker, a removed one, and one set between any two steps of
`complete`.  Three jobs and room for two: one refusal.

*Budget.* A word of 7, amounts 0, 1, 2 and 7: a sum that wraps (7 + 1), an
amount equal to a limit and one above it.  Two sets of limits, one with room
for host calls and one with room for modules and strings; two runs, in every
combination of run and submission, so that a second submission finds its limits
above or below what the first has used.

*Transactions.* Two names (a function and a variable), two data, three cells,
three scopes, one module and seven statements or runs (`MaxWork`): enough to
define, capture, shadow in a block, call, assign a datum or a function, through
the closure or not, drop a cell, take its address again and fail; or to abort in a call and run again.
A rollback that recorded addresses without owning cells is found within these
bounds, and so is each of the mutants in `PROJECT.json`.

*Audit.* Two runs of a context: the first one of six scripts that work, call
the host, fail, exit, panic or do not link, the second one a single statement
that finds whatever the first one left.  Journals with room for nothing, for
Started and part of a triple, for Started and a triple, and for ten events;
two statements to a slice and three events in the queue, so that slices end by
fuel and by the queue; groups of two charges; two resends.  A wait inside the
delivery of another wait's events occurs, with the yield of a slice below it.

*Heap.* Two variables, six objects, lists of two elements, values two deep, one
frame and five expressions or statements after a start from one of four heaps
that earlier runs left (nothing, a list, one list of two variables, a list in a
list).  The limit of 320 bytes lies between the charges, so that each of them is
the refused one in some behaviour.

*Language.* Fifty-eight scripts of a few lines, each a session.  They cross the
ways to leave (break, continue, an error, an undefined name) with the places to
leave from (loops of both kinds, try, handler, function, top level), with
captured locals of the rounds; then operators, collections, assignments to
elements, shadowing, closures over failed lines, collection and call limits,
exit; lists and dicts that are compared and rendered, which costs fuel for each
one inside, up to a limit that is reached in the middle.  Fuel of 40 and slices of one unit: a slice ends at every boundary where
one can.  A host call may be answered or given up at every round of its wait.
Integers are 64 bit in the code and a small range with the same checks here,
collections have four elements at most, calls are four deep.

*Linking and files.* Two modules beside each other, one in a directory below,
and the script itself as a file or not: nine texts of scripts, five of the
first module, so that chains, diamonds, cycles, modules that are missing, not
UTF-8 or not parsable, and scripts that import themselves occur; a depth limit
of two imports, two runs, one change of the files by another execution.  The
file builtins meet every tree of two entries and a directory (files,
directories, symlinks inside and out of the mount, to each other in a cycle, in
the middle of a path), all policies, partial grants, two mounts, no capability;
host paths meet mounts inside each other.  One builtin call is enough there:
the properties are about a single step from any tree.

Symmetry is used over threads, cells and variables, which no definition tells
apart, and never in a run with a liveness property.

### Fairness

`Scheduler!Fairness`: a Drop that has begun ends, and the host drops the
handles that run.  Nothing is assumed of queued handles.

`Execution!Fairness`: a poll or a drop that has begun ends (weak).  The host
polls every handle again and again, resumes what it paused and drops what is
terminal (strong, since between two polls the thread may be busy with another
handle).  This is the loop of the documents (`execution-control.md` 9) and of
`drive_to_outcome`.  Nothing is assumed of the adapter or of cancels.

`HostCall!Fairness`: threads that are inside `complete`, `cancel`, `set_waker`
or `poll` go on, and the host polls *when the waker it set was called*, and
only then.  This is what makes a lost wake visible.

`Audit`: the thread that called `run` goes on, and `submit` returns (weak, over
all of its actions together).  Nothing is assumed of completers, cancels or the
clock, nor of what the sink answers: `Returns` is about a sink that may answer
Pending for ever.

`Linking`: a link is one call of the host's thread and goes on while it can.
The weak fairness is written out with its condition (`CanLink`), because TLC is
slow to evaluate `ENABLED` of a path lookup.  Nothing is assumed of runs, of
cancels or of the other execution.

### What holds only with a condition

- `EveryoneFinishes` excuses an execution beside another one that waits for a
  host call, because of the finding of `execution_answer`: such a handle may
  sit at the head of the turn without ever working.  It excuses `execute` when
  an unfinished handle of the same thread stands in its way.
- `CancelArrives` (a part of `WakesArrive`) is about hosts that poll once after
  `set_waker`.
- `RestsClean` (a part of `ReportsAreTrue`) excuses a context in which a panic was followed by a refused
  Terminal, and does not look at a context that is poisoned or still marked
  running; `AuditedReports` (the other part) and `StreamAddsUp` leave out runs
  that panicked, since a panic drops the events in flight.
- `EnginesAgree` is about scripts whose `while` conditions have no effect, whose
  dict literals have no key of another type beside a value that fails, that call
  `push` with two arguments and leave no loop outside of one: in each of these
  the engines differ (below).  Nor does a part of an f-string or a print fail, or
  the fuel end, behind a part with a list or a dict: that is `language_rendering`.
  It leaves out sessions with a line that was given up, which the machine has no
  counterpart of.  No collection is compared with itself, nor twice in one
  comparison (the code then charges nothing), because values have no address here.
- `LinesStandAlone` leaves out sessions in which a line was aborted inside an open
  block of the top level, and its scripts make one cooperative call per
  statement: for both see below.  Nothing in such a statement has an effect before
  the call, since the whole statement is evaluated again with the answer, as
  `execution-control.md:1866` says.
- `CountCoversJobs` says that the count of executor jobs is exact while no job has
  panicked, and never below the jobs that are queued or running: see below.
- `LiveIsExact` leaves out runs that changed an object of an earlier ledger in
  place.
- `LoaderFollowsLinker` is about modules beside the script, under the default
  mount, in files that nobody changed since the link, and a sandbox that admits
  them.  Elsewhere the linker (paths from the mount) and the loader (paths from
  the importing file) resolve differently.  That the loader does not fail where
  the link succeeded needs one thing more: no module that an earlier run loaded
  imports a module that none has.  Its text may have been changed since it was
  loaded; the link follows it again and the loader does not, so the loader may
  meet the new module behind another import, deeper than the link did, and
  refuse it for its depth.
- `ScriptsStayInside` is about a mount whose directory no symlink leads to, as
  the host bound it.  A mount that holds the base of another mount and grants
  removals may take that base away and rename a directory with a symlink in it
  to its place.  `BasesStand` proves that this is the only way: where the host
  binds no mounts like that (`RootsApart`), every base stands for good.
- `ExactAccounting`, `ImplementsAdmission` and `NoStarvation` are about
  handles on one thread.

## The proofs

TLAPS proves for all constants what the runs show on small ones.

**`SchedulerProofs`**: types, `NeverOversubscribed`, `QueueMatchesMirrors`,
`NoIdleCapacity` with `NoOvertaking`, and `RunTurnLive` for any number of
threads; with one thread also `ExactAccounting` and the refinement of
`Admission` (initial states map to initial states, every step to a step or a
stutter).  The inductive invariant adds to the checked ones that a held token
has a mirror that is queued or active, that a token in a release is of the
kind the release expects, and that ids at or above `next_slot_id` are unused.
Lemmas about `Append`, `Tail` and `RemoveFirst` on sequences without
repetitions carry the queue.  On one thread, the mirror cannot change between
the two steps of Drop; that is the only place where the assumption is used.

**`ExecutionProofs`**: `ImplementsScheduler`, `SlicesTakeTurns`, `BoundedBypass`
and `NoSessionLeak` for any number of handles, contexts, threads and slots.  An
instance of `SchedulerProofs` gives the scheduler's invariant to the composition:
every step of the engine is a step of the scheduler or a stutter.  To it the
inductive invariant adds `Handles` and that a live handle has a slice left.
`Handles` contains the properties, what a slot that is not given out looks like
(`Blank`) and what a thread inside `poll` may rely on (`StagesFit`).
`BoundedBypass` alone is not inductive: how many slices a handle has watched says
nothing of those to come.  `TurnsBounded` counts both: the slices watched and the
place in the run turn together stay within `MaxActive`.  It holds when a handle
registers because the turn has no repetitions and only active slots (an injection
into them bounds its length), and is kept because who ends a slice leaves the
head.

**`BudgetProofs`**: types, `BooksBalance`, `FuelStartsFull`, `EffectsArePaid` and
the action properties `WithinLimits` and `OnlyFuelIsRenewed`, for every word,
limit, amount and number of runs.  `TypeOK /\ BooksBalance` is inductive.  Two
lemmas do the work: an accepted charge leaves every counter that it raises under
its limit (the sum is tested before it is stored), and whatever a call adds
respects each relation between counters by itself.  That no counter is above its
limit is no invariant: a submission may bring limits below what its session has
used already, and then nothing more of that resource is accepted.

**`TransactionProofs`**: types, `RollbackRestores`, `ScopesReturn` and
`FrameBaseMatches`.
`RollbackRestores` speaks of ended runs, so it is not inductive: the
strengthening `Covered` says that at every moment of a transactional run the
journal and the state together *are* the state the run found: each binding is
in the journal or unchanged, each cell the run found has its value in the
journal or unchanged.  A new binding writes into a fresh cell, and `Covered`
survives only if that cell is not one the run found.  That is `FoundIsOwned`:
every cell the run found is still reached from the scopes or owned by the
journal.  Its proof intersects an arbitrary closed set that contains what is
owned with the found cells, and shows that the intersection is closed under
the old contents.  `Nested` (frames stand above one another, the lowest on
what the run found) gives `ScopesReturn`; `Imported` gives back the modules.
`FrameBaseMatches` needs to know what each frame saved: the frame base that a
call will restore is that of the innermost call below it.

**`HostAdapterProofs`**: `AnswerIsKept` over `HostCall`, and over the
composition the refinement of `HostCall` and `CountCoversJobs`.  `AnswerIsKept`
speaks of sleeping handles; what is inductive says where every thread is.
`StoredFirst`: the result is stored before `ready` is raised, and the ticket is
not discarded while the handle waits.  `Registered`: outside of `set_waker` the
ticket holds the waker that the handle was given.  `Announced`: once `complete`
has read a waker, the handle's has been called or is the one that was read.  The
step that needs all three is `CheckReady`: a completer that read the old waker
has raised `ready` before, so that the handle sees it and wakes itself.  The
jobs that count are a finite set, to which `submit` adds one and from which
leaving a thread takes one; a job that panicked stays in it (`CountInv`), so that
the set has the jobs queued and running, and no others while none has panicked.

**`AuditProofs`**: `ReportsAreTrue`, `EventsAddUp` with the types, and
`TriplesWhole`, for all scripts, budgets, fuels, queue limits and thresholds.
The invariant has two layers.  `ReportInv` is about the facade: what the driver
has returned by the place of the facade (`Control`), that a journal closes with
that outcome and only to be submitted (`Journals`), that the sink has the
journal but for the event in flight (`Acknowledged`), and what the language
state is worth (`Accounts`); from these each return reports what is true.
`AuditInv` adds the stream.  `Told` is what a reader of the whole stream knows
at its end: the charges that were spent and are not open any more, the yields
without a resume, and their number.  `Telling` says that every event so far
follows from what was told before it and that the end tells `Told`.  A flush,
the delivery of an event and the push of a yield or a resume each extend the
stream at its end or only move an event within it, so a step is a lemma about
the events it adds; `Pauses` says which yields are open and that no charge is
open behind a flush, which is what a resume and the Terminal need.  A journal
that ran full is cut before the first event that did not fit: `Reserved` says
that a host call that began in it had the room of three, and the stream, which
is whole, continues the journal.

**`LinkingProofs`**, on the link: `GraphIsWhole` and `OneSourcePerModule` of
`Linker`, where every call of the resolver may find any text.  The invariant
follows the search.
`Placed`: a module that was read is either being resolved, once, or has its
node.  `Divided`: what a frame has resolved and what it has left are the imports
of its text, so a node has them all.  `Behind`: all of the resolved imports of a
frame have nodes, but for the last one, which the next frame or the source being
read stands for.  A node therefore only imports older nodes, which is why
`Acyclic` is kept: a part of the graph without the new node has a module that
imports none of it, and the new node imports none of itself.  `Reaching` says
that a set that holds what the root imports and is closed under the imports of
its nodes and of the modules being resolved holds every module that was read;
when the search is over that is reachability.  The refusal of a cycle is needed
for `Placed`: without it a module under way would count as known.
`LinkingRefinesLinker` carries both over to `Linking`: its steps are steps of
`Linker` that find what the files hold.  The step of another execution is a
stutter, but it must leave texts that the resolver may find; `TextInv` says that
files hold lines and, where a link may read them, texts of modules, and each
builtin is shown to keep that (`CallLeaves`).

*On the files*: `ScriptsStayInside`, `ChangesAreGranted` and `BasesStand`, for any
tree, mounts, policies and paths.  `TreeInv` is all the invariant the first two
need: every entry lies in a directory and no base has a `..`.  It is
kept because an entry is made, written, taken away or moved only where a lookup
arrived, whose directory exists (`Arrives`), and because a removal takes
everything below the entry and a rename moves it all.  That a builtin stays below
its base is an induction on the names of a path: if no symlink is on the way to
the directory reached so far, the next name is a directory in it or a symlink
whose real target was compared with the base (`EnterStays`), and to real targets
no symlink is on the way.  What a handle may reach is one predicate (`Reaches`),
used twice: below the base where the base stands, below the root of the file
system where it does not, so that `ChangesAreGranted` needs no condition.  Most of
the latter is counting: a rename loses at most one entry more than it makes
(`MoveCounts`, an injection of what moves into what appears).  `FileInv` adds that
the bases stand, and is inductive with `RootsApart`.

*On the loader*: `LoadedIsTrue`.  `LoaderInv` ties the modules loaded, the new ones
and those of finished runs together.  A load that is refused half-way must give
back exactly what it had marked, so the proof needs what `link_into` has done at
any moment: `Steady` says that it has marked the new modules, each once, besides
those marked before.  A line of a text keeps this if the walk of the module it
imports does (`LineSteady`), hence so does a text (`LinesSteady`), hence, by induction
on the depth that is left, a module at any depth (`ModulesSteady`); at the limit
nothing is followed.

**`HeapProofs`**: `LiveIsExact`, `DepthsAreTrue` and `ValuesAreSeparate` for any
limit and any number of variables, objects, elements, frames and steps.  The inductive invariant has
four parts.  `Sound`: every handle of a variable, a statement under way, a frame,
the journal or another object leads to an object of the right kind, so that what
is charged for can be summed at all.  `Ledger`: the counter is `Held` (the bytes
of the objects of this ledger) with `Owes` (frames and entries), and within the
limit.  `RunIs`: between runs there are neither frames nor entries, which a new
ledger would not be charged for.  `Measured`: every list and dict keeps the
summary of its elements and none of these is as deep as `MAX_VALUE_DEPTH`.
Each refusal in the middle of an operation is a case of its own: the counter is
followed through every charge made before it and every charge given back.
A release saturates at zero in the code (`Freed`), so exactness needs that what
is released was owed.  The catch body's frame is the place where it would fail:
the charge of the try body is set to 0 before anything can be refused, otherwise
it would be given back twice.  What nobody reaches is dropped at the end of every
step; that the objects that stay are closed under their elements follows from the
number of rounds in `Alive` (each round that adds nothing is the last).
For the summaries, a write changes the depth of the object it writes to.  They
stay true because a backing that is not copied is held by one cell alone: the
count of handles that `detach` reads is one, that one is the cell's, and so no
other summary counts it (`UnsharedIs`).  `note_child_removed` and
`settle_child_depth` are right because the count of deepest elements tells when
the last of them goes.
The sums are folds of the library, whose definition takes the elements in an
unknown order; `SumTake` shows, by induction over the size of the set, that any
element may be taken first, and all else about sums follows from it.
`foreign` is a hypothesis of `LiveIsExact` alone: growth of an object of an
earlier ledger is charged to this one and given back to none.

`ValuesAreSeparate` rests on `HeapInv` and a second inductive invariant,
`SeparateInv`: no object holds a cell, a cell is of one variable, now and after a
rollback, and what the journal would give back (`OldContents`) is what the
variables held when the transaction began.  Every step of a run is shown to be of
one shape, `Touches(x, c, t)`: but for cell `c` of variable `x` and backing `t`,
which is in `c` and nowhere else, not even in the journal, all objects are as they
were, and what is written to was journaled before.  From the shape alone follows
that no other variable changes (`ChangesOne`) and that the rollback would still
give back the same (`OldContentsKept`), and each action is shown to have it,
refusals and the frame of a handler included.  `ContentSame` does the induction
over the depth to which `Contents` reads a value.  The commit leaves all that is
reached (`CommitSeparate`), the rollback restores the old bindings and cells
(`RollbackSeparate`).  A run that is no transaction has an empty journal, so that
its failure leaves what was written, as the property says.

In `AuditProofs` reading a stream is a function of its length, in `HeapProofs`
what is reached a function of the rounds and a content one of its depth, and in
`LinkingProofs` a walk a function of its names and the loader one of its depth.  That these exist and have
their values is proved by induction, written as a lemma about a *set* of numbers
(`Induction`, from the library's theorem that `<` is well-founded), because the
library's own induction rule takes an operator as a parameter.

Assumptions on constants are the `ASSUME`s of the modules: bounds are natural
numbers, a limit on active executions is positive, model values that mean
"none" are not values.  `LinkingAssumption` says of the worlds a host prepares
that their files are a tree, that no symlink is on the way to a mount or to the
script (`capability.rs:1947` has the host bind the real directory), and of texts,
of the initial files and of what scripts write, that they are lines the parser
knows; `FilesAssumption` that a lookup that fails is no path.

Only model-checked: all liveness (`NoStarvation`, `EveryoneFinishes`,
`WakesArrive`, `Returns`, `LinkReturns`), which needs fairness and `ENABLED`;
`LoaderFollowsLinker`, which compares two searches with different orders of their
refusals, link and loader, module by module; and those of `Session`, which rest on
recursive operators over programs and texts that the prover cannot expand.

## Where code and documents differ

With a run that shows it:

1. **A lost active slot** (`scheduler_drop_race`, `scheduler.rs:210`).  Drop
   reads "queued", another thread promotes the entry, `release_queued` finds
   nothing and the active count stays one too high for good.
2. **A lost answer** (`execution_answer`, `engine.rs:731`).  `poll` takes the
   answer of a host call before it asks whether the handle is at the head; if
   it is not, the state stays `HostCallPending` with no ticket.
3. **Fuel of what is rendered** (`language_rendering`, `vm.rs:1757`).  Lists and
   dicts cost fuel when they are rendered.  The tree renders the parts of an
   f-string and the arguments of `print` as it evaluates them, the machine all of
   them after the last.  When a later part fails the fuel differs, and when the
   fuel ends in between, so do output and effects.

In the run `host_calls`, whose property is stated around it:

4. **Jobs that panic** (`host_pending.rs:423`).  Such a job never leaves
   `outstanding`, which by its comment (`:373`) is the number of jobs queued and
   running.  After `max_queued` of them every `submit` is refused.

Met while modelling, without a run of their own.  *Handles and host calls:*

- a paused handle keeps its place in the run turn (`engine.rs:879`;
  `execution-control.md:899` takes it out), and a terminal one its slot until
  it is dropped (`engine.rs:861`; `:900`);
- `execute` beside an unfinished handle polls for ever (`engine.rs:239`; `:902`);
- dropping an unfinished handle cancels the token of its context for good
  (`engine.rs:1026`; the comment at `:1035` and EMB-AT-06 expect a context
  that can be used again);
- handles run without a transaction (`engine.rs:168`), so that nothing is
  rolled back on an error or a drop (`engine.rs:1016`,
  `execution-control.md:877`, `embedding-api.md:514`);
- the waker of a queue entry is never set, so that a promotion wakes nobody
  (`scheduler.rs:60`); a completer that is dropped without an answer leaves its
  ticket pending (`host_pending.rs:184`);
- the token's `register_waker` does not look at the flag again
  (`budget.rs:668`), and `set_waker(None)` leaves the old waker on the ticket
  and on the token (`engine.rs:828`).

*Language:*

- `push` with one argument indexes past its arguments in the compiler
  (`compiler.rs:828`) and panics in the host; the tree reports the arity;
- of two cooperative calls in one statement the first takes the answer of the
  second when the statement is evaluated again, because the answer is not
  matched with its call (`eval.rs:4395`);
- `abort_session` drops the frames of top-level blocks without their scopes
  (`eval.rs:1769`; EMB-AT-07 expects a clean frame), so that the next line
  stands inside the block;
- the tree evaluates the condition of a `while` twice before its first round
  (`eval.rs:3384`);
- a key of another type in a dict literal is reported before its value is
  evaluated by the tree (`eval.rs:3789`), after it by the machine
  (`vm.rs:1637`);
- `break` or `continue` outside of a loop is an error of the line's compilation
  on the machine and of the statement's execution on the tree;
  `language-spec.md:26` lists none of these;
- `exit()` before the statements of an import commits, and the module stays
  resolved though it never ran (`eval.rs:1692`);
- a line of the language may begin with `fn` only to define a function, and a
  lambda of several lines may not begin with an empty one (`parser.rs`).

*Budget and heap:*

- `input` charges what it has read (`builtin.rs:427`), registered host
  functions are not charged as host calls (`eval.rs:4285`), and a per-item
  limit is reported before a deadline that has passed (`budget.rs:1487`);
- an element whose charge is refused stays in its list (`value.rs:1172`); when
  an object of an earlier ledger is changed in place, its bytes are taken from
  or given to a ledger that never had them (`value.rs:294`);
- rearming a REPL's ledger takes over a new configuration (`budget.rs:2144`; the
  comment at `main.rs:537` says that only the first one counts) but not its limit
  on the heap, and `charge_context_baseline` is called by nobody.

*Audit:*

- when a flush fails in the middle of a run (the journal is full; the sink
  refuses, or waits too long) `AuditFailed` is returned and no Terminal is
  appended: the slot reserved for it stays empty (`embedding.rs:2584`;
  `determinism-and-audit.md:542`, `:729`, and `:737` for a deadline);
- a panic whose Terminal the sink then refuses is reported as `AuditFailed`,
  which does not poison: the context keeps an open session and the effects of
  the run (`embedding.rs:2941`; rules 4 and 5 of `embedding-api.md` 10).
  Through `Engine::run` that is a plain `Cancelled`, as is every failed audit,
  also of a run that has committed (`embedding.rs:2956`);
- a panic of the sink while it takes Started or Terminal is outside the catch:
  it reaches the host and leaves the context marked as running for good
  (`embedding.rs:2335`, `:2473`; rule 1 of `embedding-api.md` 11);
- a sink that answers Pending to every event makes one flush record two more
  events for each one it delivers, until the journal, the resends or the
  deadline ends the run (`embedding.rs:3164`);
- when linking fails and its flush too, the capabilities and host functions of
  the request stay installed until the next run (`embedding.rs:2546`).

*Linking and files:*

- a run does not use the graph it was linked to but reads the files again
  (`module.rs:143`; `capability-model.md:25` and `embedding-api.md:317` say so);
- the limit on the depth of imports depends on their order, because a module
  that is resolved is not descended into again: of `a` imports `b`, importing
  `b` and then `a` can pass where `a` and then `b` does not;
- an alias of the import root is resolved by the linker and is part of a file
  name for the loader;
- under `DenyAll`, metadata of a path that ends in a symlink describes its
  target (`capability-model.md:464` rejects it);
- a rename may replace a file of the destination with Delete and Create, without
  Write; a policy name shared by two roots is not checked (`capability-model.md:323`),
  and a rename between them uses the first one's directory for both.  The model
  gives each root a name of its own.

## What is not modelled

- **Characters**: the lexer, printing, number formatting, and the builtins on
  text, JSON, mathematics and time.  They are sequential and keep no state; the
  repository tests them.  Floats are left out of the values.
- **Heap of strings, functions and code**: charged and dropped like the objects
  of `Heap`.  In `Transaction` and `Budget` a refused heap charge is a failure
  at that step.  Cycles of closures, which the program never frees, are left
  out of `Heap`, and so are variables of inner scopes, but for
  those of loops and handlers.
- **Clock**: `Budget` and `Audit` have a deadline; in `Execution` no context has
  a working clock, because `new_with_clock` rejects every clock.
- **Audit data**: encodings, sizes, redaction, hashes, per-resource charges,
  record and replay; a panic inside a slice is one statement.
- **The machine** without imports and without an audit sink: it has its own
  start in `main.rs`, and the loader is the same.
- **File names**: a path is a sequence of names.  Empty names, NUL and colons
  are refused by the parsers of paths and are not among the inputs of host
  paths; case folding and Windows prefixes are left out.  The file system does
  not change within one builtin call.
- **Determinism inputs, errors and limits, host function tables, command line
  arguments and terminal**: data of the host, types and constants, or input and
  output, with no state that a later step depends on.

## The plan

Done: the scheduler, the handles, host calls, the budget, transactions, the heap,
audit, both engines with compiler, verifier and parser, linking and files; the
proofs of scheduler, handles, budget, transactions, host calls, audit, the heap,
the linker, the loader and the files.  Left, in this order:

1. `Linking`: `LoaderFollowsLinker` as a theorem, first that a load that succeeds
   marks what the graph reaches.
2. Imports under the bytecode machine; the heap tokens of function bodies.
