# Verification of J-Gravity's dispatcher and worker

J-Gravity computes an n-body simulation on several machines. One *dispatcher*
(`networking/Dispatcher`) holds the dataset, divides it for each tick into an
octree, groups the leaves of the tree into *bundles* and sends the bundles to the
*workers* (`networking/Worker`) that have connected. A worker takes a bundle
apart into work units, one per leaf, computes the forces of each and sends the
results back. When the dispatcher has counted all the bundles of a tick, the
thread that counted the last one makes the new dataset the current one and
divides it for the next tick.

This directory holds TLA+ models of both processes, TLC configurations that
check them on small instances, and theorems about them checked by TLAPS. Paths
below are relative to `src/`; `D/` is `networking/Dispatcher/` and `W/` is
`networking/Worker/`. `PROJECT.json` lists, for every definition, the lines of
the source it stands for.

## 1. Inventory

### The dispatcher

| Part | State | Operations |
|---|---|---|
| admission (`connect_workers.c`, `configure_worker_settings.c`) | queue `workers` of idle workers, one link per worker | accept, enqueue the link, send settings, take the first message for the answer, start the event thread |
| division (`divide_dataset.c`, `msort*.c`) | bodies, codes, tree, leaves, `neighbors` | Morton codes by eight threads, sort, split the tree by eight threads, enumerate the leaves, choose their neighbourhoods by eight threads |
| bundles (`divide_dataset.c`, `hash.c`) | `cells`, `total_bundles`, `cell_count`, queue `bundles`, semaphore `start_sending` | publish the cells, count the workers twice, make and post bundles by eight threads |
| senders (`sender_thread.c`, `send_workunit.c`) | link and bundle in hand; `sender_thread_mutex` | wait for a token, take a worker and a bundle, queue the bundle for the worker, send it, give the link back |
| event threads (`worker_event_thread.c`, `handle_worker_done_msg.c`, `all_workunits_done.c`) | `new_dataset`, `bundles_done` (under `bundles_done_mutex`), `ticks_done`, per worker `workunit_queue` | integrate a result; at a flagged one pop and free the bundle and count it; at the last one end the tick and divide again, or post `exit_sem` |
| loss (`cleanup_worker.c`, `remove_link.c`) | the same queues | put the bundles back with their tokens, unlink, free |
| queues (`queue_*.c`) | first, last, count, the `next` of each link | enqueue, pop the link, pop the data, count |
| main (`main.c`, `launch_simulation.c`) | `exit_sem` | wait for ENTER, start as many senders as workers, divide, wait for the end |
| messages (`receive_msg.c`, `send_worker_msg.c`) | the socket's byte stream | nine bytes of header, body; one `send`, one `recv` for the header, as many as it takes for the body |
| output file (`async_save.c`, `all_workunits_done.c`) | `fp` under `output_mutex` (not always) | open for the tick, write a result's positions at its offset, close at the end of the tick |
| dataset (`load_dataset.c`, `generate_dataset.c`) | the first dataset | read or generate it, before anything else runs |

### The worker

Four threads in a line, each with a queue and a semaphore in front of it:

    event_thread --bundle_queue--> debundle_thread --todo_work--> calc_thread
                 --completed_work--> sender_thread --> the dispatcher

A fifth semaphore, `ready_for_bundle`, starts at one; the debundler waits for it
before each bundle and the calc thread posts it when it finds `todo_work` empty.
At that moment it also sets `is_last` on the unit in its hands. `main` waits for
the exit semaphore, which the event thread posts when the connection ends.
`bundle.c` takes a bundle apart into units and pads their arrays; `do_workunit.c`
runs the OpenCL kernel on a unit, in work groups of 256 items, 32 to a star.

### How they interact, and what is hard

Dispatcher and worker exchange WORKER_SETTINGS / SETTINGS_APPLIED, WORK_UNIT (a
bundle) and WORK_UNIT_DONE (the result of one unit, with `is_last`). The
dispatcher trusts the flag: it is the only thing that tells it a bundle is done.
Inside a process everything goes through queues with a mutex of their own and
counting semaphores posted separately. What is hard:

* the queue and the semaphore of a stage are changed in two steps on either side;
* `is_last` is decided by a race between the calc thread and the debundler;
* the idle workers are counted twice per tick while senders hold some of them;
* the tick changes while senders and event threads may still hold the old cells,
  bundles and dataset;
* a worker may be lost, and its memory freed, while a sender works with it;
* the links of the worker list are used again with an old `next`;
* a worker is put in the list before its handshake is over;
* two threads of each process write to the same socket, and messages arrive in
  pieces, or half, when the other process goes;
* the output file changes at the end of a tick while results may be on their way
  to it;
* the sort, the search for the borders of octants and the slices of the parallel
  phases have boundaries where one more or one less goes unnoticed;
* the items of a work group share one array between barriers.

`PROJECT.json` lists these hazards at their lines with the properties that cover
them.

### What makes each part correct

Worker: every unit received is answered once and in order; no thread uses an item
that is not there; no thread waits for ever for a token somebody forgot; the flag
means what the dispatcher takes it to mean. Queues: a pop gives a link nobody
else holds. Senders: tokens equal bundles; a bundle is in one place; every cell of
the tick is somewhere until its result is in. Event threads: the tick ends when,
and only when, all its results are integrated, each in its own tick and saved in
its own file; the simulation ends. Connection: each direction carries whole
messages, each once and in order; the settings come before the work; a process
that goes is noticed. Division: codes stay with their bodies and ascend, leaves
tile the bodies, a neighbourhood accounts for every body once. Kernel: nothing is
read that is not there, and a force does not depend on the order of the items.

## 2. Modules

| Module | Models | Role |
|---|---|---|
| `WorkerPipeline` | the worker's threads, queues, semaphores and exit | detailed model |
| `WorkerService` | what a worker promises the dispatcher | abstract specification |
| `WorkerRefinement` | the refinement mapping from the first to the second | property `ImplementsService` |
| `LinkedQueue` | `t_queue` with the next fields of its links, `queue_enqueue`, `queue_pop_link`, `remove_link` | operators |
| `Dispatcher` | admission, senders, bundles, event threads, ticks, output file, loss; contains `LinkedQueue` | detailed model |
| `TickService` | what the dispatcher promises its user | abstract specification, property `ImplementsTicks` |
| `Connection` | the socket between the dispatcher and one worker, with the threads at both ends | detailed model |
| `Channel` | what one direction of it promises | abstract specification, properties `ChannelDown`, `ChannelUp` |
| `Division` | from the bodies to leaves and neighbourhoods, with the sort and the threads | detailed model |
| `Bundling` | the contents of a bundle: `hash.c`, `bundle_leaves`, `serialize_bundle`, `bundle.c` of the worker | detailed model |
| `Kernel` | the padding of a unit and the OpenCL kernel | detailed model |
| `MCWorkerPipeline`, `MCDispatcher`, `MCBundling`, `MCDivision`, `MCConnection` | instances for TLC, and the bounds of their runs; `Kernel` needs none | |
| `SequenceLemmas` | | lemmas about induction, recursive functions and loops, and sequences put together from parts |
| `WorkerProofs` | | theorems about `WorkerPipeline`, and that it implements `WorkerService` |
| `DispatcherProofs` | | theorems about `Dispatcher` with late workers and losses: tokens, types, places of bundles |
| `DispatcherTickProofs` | | theorems about whole ticks of `Dispatcher`, that it implements `TickService`, and whose turn it is within one tick |
| `ConnectionProofs` | | theorems about `Connection`, and that it implements `Channel` each way |
| `KernelProofs` | | theorems about `Kernel` |
| `DivisionProofs` | | theorems about `Division`: the sort, the search, the leaves and the neighbourhoods |
| `BundlingProofs` | | theorems about `Bundling` |

The modules meet at abstract specifications rather than in
one large composition: `Dispatcher` takes a worker to be `WorkerService` and a
connection to be a `Channel` each way, with any flags the service allows; `WorkerPipeline` takes its connection to be
a `Channel` that may be closed; `Division` makes the leaves and neighbourhoods
that `Bundling` packs, and `Bundling` ends with the units whose padding and forces
`Kernel` follows.

The definitions that carry the name of a plausible bug (`InitTwoReady`,
`CalcPostsTwice`, `SenderPeeksWorker`, ...), each above the definition it is a
variant of, are not part of any specification: they are the mutants that
show that a property can fail. `PROJECT.json` pairs them with the properties.

### WorkerPipeline

`pc[t]` says where thread `t` is. Each `sem_wait`, each queue operation and each
`sem_post` is an action. The queue's own mutex makes a queue operation atomic.
`Popped`/`Rest` are `queue_pop`, with NULL for an empty queue. `bundle.index` is
the index `kick_bundle` advances. The two halves of `CalcWork`, `do_workunit` and
the look at `todo_work->count`, are one action: nothing else reads the unit, and
the look is the only one of the two that another thread can see. The look is made
without the queue's mutex; the count is one aligned word, which reads as before or
after the other thread's change.
A bundle is its place in the order of sending and its number of units; a unit is
its bundle, its place in it and its flag. When the dispatcher closes the
connection, `EventClosed` may come before the rest of the inbox is read (a reset
discards it). `SenderSendClosed` leaves open whether a send on a closed
connection is swallowed or ends the process by SIGPIPE, which `main` of the worker
does not ignore.

`WorkerService` keeps the units owed, the results sent and the connection.
`Owed` in `WorkerRefinement` maps the pipeline to it: the units in the hands of
the sender, in `completed_work`, with the calc thread, in `todo_work`, those the
current bundle has still to kick, and those of the bundles queued.

### LinkedQueue and Dispatcher

`LinkedQueue` keeps the `next` of every link, also of links outside of the list.
Only the dispatcher's list of workers needs that, because only its links are
enqueued more than once; the queues of bundles get a fresh link each time, and
are sequences.

`Dispatcher` has one group of actions per thread. `Connect*` is the connect
thread, with the link enqueued before the handshake as in the code. `Divide(d)` is
`divide_dataset` run by main or by the event thread `d`: `DivideAssign` publishes
the cells and reads the number of workers for `total_bundles`, `DivideCount` reads
it again for the size of the bundles, then the bundle threads enqueue and post in
two steps each. `Sender*` follows `sender_thread.c`; what it does under
`sender_thread_mutex` is one step, because only senders pop bundles, all of them
under that mutex, and the only other shared thing it touches in there, the list
of workers, it touches once. `Event*` and `AllBundlesDone` are the event threads;
`bundles_done_mutex` is held from the count to the end of the division
(`BundlesDoneFree`). `EventSave` writes a result to the file that is open then,
after `EventIntegrate` put it into the new dataset; `AllBundlesClose` closes the
file without `output_mutex`. `Cleanup*` is `cleanup_worker`. A tick's tree is a
number of leaves; bundles are sets of consecutive leaves as `bundle_leaves` takes
them.

Actions named `...Faults` are the steps of the code on freed memory or a closed
file. What a process does after that is not modelled: `fault` is set and
everything stops. Properties checked in runs that can reach a fault speak of the
states up to it.

`TickService` keeps the ticks done, the cells computed in this tick and whether
the program has ended. The mapping takes a cell for computed when its place in
`new_dataset` holds a result of this tick.

The worker at the other end is the one of `WorkerService`: it owes answers in
order. A result that is on its way is still counted as owed, so that answering
and receiving are one step; a worker that dies keeps any prefix of what it owes,
the part that was already sent.

The code goes wrong in five ways that nobody notices when they happen, and whose
harm comes later. The model does not exclude them; the history variable `mishaps`,
which no action looks at, records that one has happened:

* `held`: a sender has a worker's link in hand while a division counts the
  workers (`D/sender_thread.c:58` comes after the worker's answer);
* `twice`: a sender takes a link that another sender has in hand (a circular list);
* `flag`: `is_last` on another result than the last of its bundle, or not on that
  one. `WorkerService` leaves the flag open for bundles of several units. For
  bundles of one unit, what the dispatcher makes with as many leaves as workers,
  `SinglesFlagged` is the theorem that it does not happen;
* `reply`: a result is taken for the reply to the settings;
* `orphan`: a bundle is queued for a lost worker whose bundles have gone back.

A property that one of them breaks is stated up to there: `NoFault`,
`SavesInOwnFile`, `ImplementsTicks` and, over several ticks, `BundleInOnePlace`
say what holds as long as `mishaps` is empty; `CellsRemembered` excludes `reply`
and `orphan`, and with a loss `flag`. `TokensMatchPool` needs none of this, nor do
`SingleHolder` and `OneBundleEach` in a tick. So, for workers
that are there from the launch to the end, these are all the ways into the harm the
properties are about (section 5). Every one of them occurs in the runs: `held` is what
`tick_boundary` shows, `flag` what `worker_flag` shows on the worker's side,
`twice` what `circular_list` shows; `reply` and `orphan` occur in
`dispatcher_changes`.

### Connection

One worker, from `accept` to the end of either process. `out[t]` is what thread
`t` has still to write of the message it is sending, `stream[d]` the bytes in the
buffers of direction `d`, bounded by `Capacity`; `reader[d]` is how far
`receive_msg` has got. The reader changes: on the dispatcher's side the connect
thread reads the first message and takes it for the reply to the settings, then
the event thread reads. `RecvHeader` is one `recv` of the header, `RecvBody` the
loop of `read_body` with any number of bytes at a time, `RecvShortHeader` and
`RecvShortHeaderEnds` what is made of half a header: the dispatcher tests a
`recv_bytes` that was never set, so either may happen there. `Goes` ends a
process: its own unsent bytes are lost, and so is any tail of those on the way.
Between a bundle and its result lies the worker's pipeline; a result remembers
whether the settings were there when its bundle came in.

Bytes are pairs of a message and a place, so that a reader out of step is seen as
such: what it reads becomes `Garbage`. Chosen in `Init`: whether the worker
connects while the senders run (`running`), and whether processes may be stopped
(`stops`). Nothing is assumed of the sends or of the network: two threads may send
at a time and their bytes mix byte by byte, and the one `recv` of a header takes
what is there. Two history variables, which no action looks at, record when that
has happened:

* `cut`: a header was received before all of it was there, the connection being up
  (`D/receive_msg.c:42-57`). A header cut by the end of the connection is no such
  case;
* `raced`: a send began while another thread's was under way on the same socket
  (`W/event_thread.c:19` says "may need to mutex the socket").

From then on the stream may be out of step, and no more is claimed of it: `Sound` is
that no header was cut, and for a worker that connects while the senders run that no sends
have raced. A worker in time has one writer at a time each way, so `Sound` does not
mention `raced` for it: there the order of the protocol has to keep the threads apart, and
the properties say that it does.

### Division

`bodies` and `sorts` are the arrays, indexed from 0. The threads of a phase take
one element per step: `MortThread`, `AssembleThread`; `SplitThread` is one step,
because a subtree is nobody else's. A pass of `bsort` up to its swap is one step
(`PartitionPass`); `calls` is its recursion. The tree is a set of nodes named by
the octants that lead to them; `Grown` makes them level after level, where
`split_tree` goes down one branch after the other. `Border` is
`binary_border_search` step by step, as a recursive function on where it stands and
how far it steps. `Far` is the acceptance criterion with its numbers multiplied
out to stay in the integers, `as_single` included. Bodies have mass one.

`PartitionOverrun` and `AssembleOverrun` are reads outside of an array; `fault`
stops the model there. Neither is excluded by the code: see section 4.

### Bundling

A sequential model with an action per call: `Pour` adds one leaf to the hash
table (`bundle_leaves`; `Poured` is its loop over the neighbourhood, `Insert` is
`dict_insert`), `BundleDict` makes arrays of it,
`SerializeBundle` and `DeserializeBundle` write and read the message word by word
in the order of the code, `Transposed` is `transpose_matches`, `KickBundle` makes
a unit. Neighbourhoods, buckets (the hash of an address is any number) and the
slice of the leaves are chosen in `Init`. Bodies and positions are named by their
leaf or cell.

### Kernel

The items of one work group, each with the number of barriers it has passed
(`steps`); an item goes on when all have reached its barrier. Between barriers
they interleave freely, one access to the local array per step. Groups share only
inputs and outputs of their own, so they run one after the other. A force is the
number of times each body of M was added to it; a star's result remembers whose
position, velocity and force went into it. `GroupSize` stands both for
`GROUPSIZE` and for the 256 of `nearest_mult_256`, which are the same number in
the code and must be.

## 3. Runs

| Run | Shows | Bounds |
|---|---|---|
| `worker_pipeline` | types; no pop of an empty queue; `LastAnswerFlagged`; with bundles of one unit exact flags and one bundle at a time; `EverythingAnswered` (liveness); refinement of `WorkerService` | 0 to 2 bundles of 1 or 2 units: two bundles can be in different stages, and a bundle can be outrun by the calc thread |
| `dispatcher_ticks` | the whole simulation, any flags, links back at any time: types, tokens = pool; until the first mishap no fault, one place per bundle, results saved in the file of their tick, refinement of `TickService`; the simulation ends or a mishap has happened | 2 workers, 2 leaves, 3 ticks, so that links are enqueued more than once and the division is done by main and by event threads; of the third tick only what follows no mishap (85,000 states) |
| `dispatcher_changes` | tokens = pool, one place per bundle, one holder per worker, one bundle each, no cell forgotten, any flags, links back at any time, with late connections and losses | 3 workers and leaves, symmetric, 1 tick, while all are admitted before the launch and stay; 2 of them, each of which may come late and one be lost, up to a mishap that with the loss may lose a cell (400,000 states) |
| `connection` | types; until a header is cut or sends have raced each direction refines `Channel`; settings before work and no result lost, for a worker in time; all is answered; both ends close (liveness) | 3 bundles, headers and bodies of 2 bytes, buffers of one message, so that every send can block and every message be cut; 1 bundle where a header was cut or sends have raced |
| `division` | the sort loses and doubles no code, and ends in order if it ends; the leaves tile the bodies; a neighbourhood accounts for every body once; no leaf without one | up to 5 bodies, also equal ones, at 5 places; depth 2, leaves of less than 3 bodies, 4 threads |
| `bundling` | units are the leaves in order; each gets exactly its neighbourhood; each cell is sent once | 3 leaves, 3 cells (one may be empty), 2 buckets so that cells collide, neighbourhoods of 1 or 2 cells, slices for 1 to 3 workers; the cells are symmetric |
| `kernel` | no read outside the arrays or of something else; which bodies go into a force follows from places alone, not from the order of the items; every star is moved | 1 to 4 stars, 1 to 9 bodies, groups of 4 items, 2 per star: one to two groups of stars, one to three chunks, exact multiples among them |
| `worker_flag` | **violation**: a unit flagged that is not the last of its bundle | 1 bundle of 2 units |
| `tick_boundary` | **violation**: a tick ends without one of its results | 2 workers, 2 ticks |
| `circular_list` | **violation**: two senders hold the same worker | 3 workers, 3 leaves, 3 ticks |
| `z_order` | **violation**: the sort leaves bodies with codes of other bodies | 2 bodies |
| `n_cross_m` | **violation**: a force leaves out bodies of M | 1 star, 1 to 4 bodies, one group |

Bounds are in the constants: `MaxBundles`, `UnitCounts`, `Leaves`, `TicksCnt`,
`MaxLosses` and the set `Workers`; `BundleCnt`, `HeaderSize`, `BodySize`,
`Capacity`; `Points`, `MaxBodies`, `Depth`, `LeafThreshold`, `ThreadCnt`;
`GroupSize`, `Tps`, `Unroll`, `MaxLocal`, `MaxNeighbors`. Some runs have a
CONSTRAINT too, defined in their MC module: states that do not meet it are checked
and not continued.

* `TwoTicks` (`dispatcher_ticks`): after a mishap only the first two ticks. All
  that is left to check of the rest is `TokensMatchPool` and the types, which are
  proved. `SimulationCompletes` is true of every state after a mishap, so that
  cutting there hides no counterexample.
* `Bound` (`dispatcher_changes`): two workers as soon as one is lost or still
  connecting at the launch; and
  nothing beyond a loss and a mishap that together may lose a cell. From there
  on `CellsRemembered` claims nothing, and what the other properties claim is proved
  for one tick (section 5).
* `FlagsExact` (`tick_boundary`) and `Smoothly` (`circular_list`) make a
  counterexample simpler: no wrong flags; nothing wrong but a worker taken twice,
  and every link back before its worker's results are handled.
* `OneMore` (`connection`): one bundle once `Sound` is lost. `AllAnswered` allows
  it after a cut; that a process that goes is noticed also on a stream out of step
  (`BothClose`) is checked with up to one bundle.

Every hazard of the
dispatcher's runs is between two threads of a kind or two workers, except one: a
list of three workers has a middle link that is neither first nor last, which is
what matters to `LinkedQueue`. `dispatcher_changes` has it for one tick, with
links put back in any order; theorems state those properties for any number of
workers (section 5). Over several ticks `SingleHolder` is false, as `circular_list`
shows: hence `TicksCnt = 1`.
A third bundle on a connection adds one that is neither being
received nor the next. Five bodies give eight-way splits with empty, single and
full octants and slices that do not come out even. Symmetry is used only for
invariants, never with a temporal property.
Deadlock is not checked: the systems stop legitimately (a process has ended, a
fault, an algorithm that is done); that nothing stops too early is what
`EverythingAnswered`, `SimulationCompletes`, `AllAnswered` and `BothClose` say.
`division` and `kernel` state invariants only: the sort may run for ever, and the
kernel has nothing to wait for but its own items.

With a late worker, a loss and a second tick,
two threads can divide at once, and a bundle be in two places; this is why
`dispatcher_changes` has one tick. With a late worker and a loss `SingleHolder` is
false in one tick too (a circular list); it and `OneBundleEach` speak of ticks in
which nobody has been late or lost (`Undisturbed`).

**Fairness.** Weak fairness of each thread: the operating system schedules a
thread whose `sem_wait`, `recv`, `send` or lock can return. No strong fairness is
assumed. In `Dispatcher` a live worker's answers are part of the event thread's
action, so fairness of `Event(w)` also says that a worker that is alive answers,
which `EverythingAnswered` shows of the worker's model and `AllAnswered` of the
connection. `Connect` is fair only as a whole, and `MainLaunch` is the operator
pressing ENTER. Deaths are never forced, nor is anybody who stops a process in
`Connection`. The dispatcher as the worker's environment has no fairness at all.

## 4. What the violations say

* `worker_flag`: `W/calc_thread.c:30` compares the count of `todo_work` with
  zero at a moment when the debundler may not have kicked the rest of the bundle.
  The dispatcher then counts the bundle done too early, and frees it.
* `tick_boundary`: `D/divide_dataset.c:836` and `:805` count the idle workers
  separately. A worker that a sender holds is missing from the first count.
* `circular_list`: `D/queue_enqueue.c:41-42` keeps the old `next` of a link that is
  enqueued again. The list becomes circular after the first round of a run, and a
  pop may take a worker's link twice. With two workers, as many bundles as workers
  keep this from showing. With three it takes 100 steps, in a simulation in which
  nothing else goes wrong: in the third tick two senders hold the same worker. That
  worker gets two bundles, which the senders may queue in one order and send in the
  other; then a bundle is popped and freed for a result of the other one.
* `z_order`: `msort_swap` (`D/msort.c:24`) exchanges two codes and not the bodies
  they belong to. The codes end in order, so everything after the sort works, on
  cells that hold the wrong bodies.
* `n_cross_m`: the kernel compares each star with the slots from its own `offset`
  on: 8 of every 256 bodies, each 32 times (`W/do_workunit.c:55-60`), where line
  176 has "N CROSS M". `ResultsDetermined` does not say which bodies go in, only
  that it does not depend on the order of the items.

Other disagreements met while modelling, without a run of their own:

* Few leaves: `total_bundles` is the number of workers, but fewer bundles are
  made whenever `ceil(leaves / ceil(leaves / workers)) < workers`; one leaf and
  two workers never finish a tick.
* `cleanup_worker` empties the lost worker's queue before it takes its link out of
  the list, and nothing stops the sender that holds the link: the bundle it queues
  then never goes back to the pool (`orphan`; `D/cleanup_worker.c:23` says "adding
  lost worker's bundle back to the pool!").
* `remove_link` does not touch `last`, and `cleanup_worker` lowers the count also
  when a sender has the link (`D/cleanup_worker.c:33`).
* A worker that connects during the run is in the list before it has its
  settings. It may compute its first bundle with the default time step, and the
  result is dropped in place of the reply (`SettingsFirst` and `ResultsKept` are
  stated for workers in time for this reason).
* When the pivot is the least code of its range, `bsort` looks for a smaller one
  before the range: before the array if the range begins there; otherwise it stops
  just before the range and calls itself on the same range for ever. `mphore`, the
  semaphore of the sort's threads, is a pointer that is never set (`D/msort.c:14`,
  `:127`).
* `mt_assemble_neighborhoods` starts threads beyond the end of the array when
  there are few leaves (`D/divide_dataset.c:424`).
* `multipole_acceptance_criterion` measures from half the width of the cell, not
  from its middle (`D/divide_dataset.c:305`), and from a distance that may become
  negative after line 331, when every cell counts as far, also one that contains
  the leaf. `NeighborhoodCovers` holds whatever it answers.
## 5. What is proved

All of it in TLAPS, for every value of the constants that the assumption named in
each component's module allows.

`WorkerProofs` (assumption `WorkerAssumption`): `InvHolds`, `TypeCorrect`
(`[]TypeOK`) and `QueuesSafe` (`[]NeverPopsEmpty`). Neither `TypeOK` nor
`NeverPopsEmpty` is inductive: a pop is safe only if the token that allowed it
stands for an item. The inductive invariant `Inv` adds that accounting for each
stage: the length of the queue is the value of its semaphore, plus one if the
producer has put an item in and not posted yet, plus one if the consumer has its
token and has not popped yet (`BundleTokens`, `TodoTokens`, `CompletedTokens`).
`InvStep` has a case per action.

For bundles of one unit, `SinglesFlagged` (`[]SingleUnitsFlagged`) and
`BundlesOneByOne` (`[]OneBundleAtATime`). The invariant `SingleInv` says there is
one turn, and exactly one of these has it: the semaphore `ready_for_bundle`, the
debundler until it has kicked the unit, the unit in `todo_work`, the calc thread
until it has posted. Hence `todo_work` is empty whenever a unit is done, and every
unit gets its flag. With larger bundles the turn is multiplied, which is what
`worker_flag` shows.

`LastFlagHolds` (`[]LastAnswerFlagged`) is for bundles of any size, where flags may
come too early. `FlagInv` follows the last unit that was computed, wherever it is:
flagged, or there is more to compute.

`PipelineImplementsService` is the refinement (`ImplementsService`): whatever the
threads do, the worker answers the units it owes in the order in which they were
sent to it, and its last answer is flagged. What it owes is one sequence put
together from six places, from the sender's hands to the bundles queued. A step of
a thread moves an item from the end of one place to the front of the next, so that
the whole stays the same, and only a send takes something off it and only the
arrival of a bundle adds to it. The proof names the parts and joins them by one
associative operator; that a bundle kicked is the first of those queued is the
lemma of `SequenceLemmas` on `FlattenSeq` of a sequence with one more in front or
at the end. The flag is `FlagInv` again. Without a connection the results go nowhere,
one by one, as the service says.

`SequenceLemmas` has what such proofs share. The library's induction theorems take
an operator, which the provers cannot instantiate. For the natural numbers a set
does as well: the set of the `n` for which the statement holds contains 0 and, with
`n`, also `n + 1`. On that rest the lemmas about recursive functions on numbers and
about `FlattenSeq`: `FlattenLayout` says where each element of each part is in the
whole, and that the whole has no others. `TailRecursion` does it for the
loops of `Division`, which are recursive functions on states: a loop that goes from
one state to the next until it is done defines a function, also where it does not end.

`DispatcherProofs` (assumption `DispatcherAssumption`): `TokensAlwaysMatch`
(`[]TokensMatchPool`), with late connections, any number of losses, any flags and
links that come back at any time. The invariant adds the shapes of the variables,
that a thread which divides is in its division and no other's (`DividesInTurn`),
and that a worker joins once (`JoinsOnce`). Without the last two a thread that
starts a division could drop tokens that are still to be posted. The step has a
case per action; the lemmas on cardinalities of filtered sets come first. Under
the same conditions `TypeCorrect` (`[]TypeOK`). It needs more than types: that a
tick does not pass `TicksCnt` rests on one event thread at a time being between
the count of the last bundle and the end of the division (`OneDivides`), on a
division only beginning while ticks remain (`InTime`), and on nothing being about
before main has divided (`Idle`).

`BundlesAreNotCopied` (`[]BundleInOnePlace` for `TicksCnt = 1`) is for one tick, with
late connections and losses. A step moves at most one bundle between the places of
`Spots`; only main divides, and it does so when nothing is about. With a late
worker, a loss and a second tick it is false (section 3), hence the hypothesis.

`DispatcherTickProofs` is about simulations whose workers are all there before the
launch and stay (`Settled`: `~LateJoin`, `MaxLosses = 0`, at least one worker).
Nothing is assumed of the flags or of when links come back; the properties
themselves are stated up to the first mishap. For any number of workers, leaves
and ticks: `FaultsFollowMishaps` (`[]NoFault`), `BundlesAreNotCopiedLater`
(`[]BundleInOnePlace`), `SavesGoToTheirFile` (`[]SavesInOwnFile`) and
`TicksAreServed` (`ImplementsTicks`: until then every step of the dispatcher is a
step of `TickService` or changes nothing of it). With few leaves for the workers
the last bundle is never counted, which is no safety property.
`SmoothAlways` is that the invariant `TickInv` holds, and no fault has happened, while
`mishaps` is empty. It is inductive because a mishap is not forgotten (`MishapsGrow`).
`TickInv` has, besides the types and `OnePlace`:

* `Handed`: no worker is with two senders, and none with any while the bundles are
  sized. This is where an empty `mishaps` is used for the list of workers, about
  whose links nothing is claimed;
* `Admission`: the links in the list and those with senders are as many as the
  workers, so that both counts of a division give the number of workers;
* `Ledger`: the bundles counted, those about to be, and those still about are no
  more than `total_bundles`, so that nothing is about when all are counted;
* `Current`: whatever is about is of the current tick, and not freed;
* `Answered`: a worker's queue has a bundle for each last result it owes, each
  one it is being sent and the one its event thread has still to pop, and a bundle
  that is being sent is the last of the queue, so no pop comes to an empty queue and
  no bundle is freed under its sender;
* `Whole`: every cell has its result in `new_dataset` or has it coming;
* `Files`: the file open is that of the tick, and what is not written belongs to it.

For one tick the list of workers is right without any condition on mishaps, and the
second part of the module says so, with any number
of workers and leaves: `NobodyIsHeldTwice` (`[]SingleHolder`), `NobodyGetsTwoBundles`
(`[]OneBundleEach`) and `NoCellIsForgotten` (`[]CellsRemembered`), for `TicksCnt = 1`
and `Settled`, whatever the flags and whenever links come back. The list of workers
may be circular already in the first tick, because a link that is put back keeps its
old `next`. What saves it is that not so many are ever taken out: `TurnInv` says that
the list begins with a line of workers that have not had their turn, and that the
bundles still to be given out are no more than the line is long; what comes behind
the line, circular or not, is not reached. So a pop takes a worker that nobody holds and that has
no bundle.

`NoCellIsForgotten` does not rest on that. `Kept` says where a cell is: in the division, the
pool, a sender's hands, among what a worker owes, or in `new_dataset`. A step takes
it from one of these to another in one go, so that none is between them (`CellInv`);
which bundle is popped for a flagged result makes no difference, because a sender's bundle
and what its worker owes change in the same step.

`ConnectionProofs` (assumption `ConnectionAssumption`): `SettingsComeFirst`
(`[]SettingsFirst`) and `TypeCorrect` (`[]TypeOK`), also with mixed sends and headers
cut anywhere. The invariant of the first says that as long as the worker has
no settings, it has nothing to say and nobody has sent it a bundle (`Unsettled`);
that a process that is gone does not read; and that all results are informed.

`ResultsStay` (`[]ResultsKept`), `DownImplementsChannel` and `UpImplementsChannel`
(`ChannelDown`, `ChannelUp`) have no hypotheses: what they say holds up to the first
header cut in transit and, of a worker that connects while the senders run, the first sends
that race. Until then the invariant `Safe` holds (`AlwaysSafe`). It
has the framing of each direction (`Flow`): there are offsets,
one per message, at which the messages sent and not yet received lie one after
the other in the bytes in the socket followed by those still to be written; the
reader stands at the first of them or where its own count says within it; bytes
are missing only at the end and only if the writer is gone. It needs that no two
threads of a process write at a time (`Apart`). That is what `raced` would tell
for a worker that comes late (`Alone`); for a worker in time it is proved from the
protocol (`Protocol`: the order of the messages of each
direction and who is the one that may write).

`DivisionProofs` (assumption `DivisionAssumption`): `SortKeepsCodes`
(`[]CodesKept`) and `SortAscends` (`[]CodesAscend`), for any dataset, depth and
number of threads, also with the overruns of the scan. The invariant says that the
codes are those of the bodies in some order (a bijection, which a swap composes
with a transposition), that the ranges still to be sorted do not overlap and are
ascending, that any two elements not both in one such range are in order, and what
the two scans of the pass at work have passed.

From there on, for any `LeafThreshold` too, `LeavesTileTheBodies` (`[]LeavesTile`),
`NeighborhoodsCoverTheBodies` (`[]NeighborhoodCovers`) and `EveryLeafIsAssembled`
(`[]AllAssembled`). The argument has five parts:

* a code below 8^Depth is its octal digits (`DigitFacts`), so that codes which ascend
  and begin alike have their next digits in order (`DigitsAscend`);
* `BorderFinds`: on bodies whose octants are in order the search ends at the border.
  Its steps forward never pass the end of the slice nor those back its start; once
  they are single steps it comes to the border. As written, the search is a recursive
  function that is never shown to end: `TailRecursion` says that a loop has such a
  function in any case, so that its value may be followed from state to state;
* `SplitCuts`, `GoodChild`: the children's slices lie one after the other in that of
  their parent, each with the bodies of its octant. `TreeOk` is what a set of nodes
  keeps that has grown in this way, by whichever thread: each is the root or the child
  of another, with all its siblings, and so no two have the same path (`PathsDiffer`);
* `WalkTiles`: what a walk over the tree collects that takes a node as a whole or
  goes into all its children lies one after the other from the first body to the last
  (`Tiles`). `enumerate_leaves` is such a walk, and so is `assemble_neighborhood`,
  whatever the acceptance criterion answers: the proof does not open `Far`;
* `TilesCover`: in such a row every body is in exactly one place.

`TreeInv` adds to this what the threads have assembled, and that the leaves of the
part of a slice that a thread is done with have their neighbourhoods (`Dealt`).
Neither needs the arrays to hold the right bodies, which after `msort_swap` they do
not: `LeavesTile` is about codes.

`BundlingProofs` (assumption `BundlingAssumption`): `UnitsInOrder`
(`[]LeavesInOrder`), `UnitsHaveTheirNeighborhood` (`[]NeighborhoodKept`) and
`EveryCellSentOnce` (`[]CellsSentOnce`), for any number of leaves, cells, buckets and
workers, and any hash. `BundlingInv` says what there is at each stage:

* while leaves are poured, the chains hold exactly the pairs of a cell and a leaf
  poured so far, each cell in the one entry of its bucket that names it, with its
  leaves once each (`Holds`). A pour is a recursive function over the neighbourhood,
  and `Holds` is carried along it by induction;
* in the bundle, the cells are those of the chains, once each, and the leaves beside
  a cell those of its entry;
* in the message, the leaves begin at the third word and each cell's part where
  `CellOffset` finds it, which are the places where `serialize_bundle` put them: the
  worker reads back what was written (`MessageLayout`, `ReadBack`);
* a unit kicked has the cells of its row of the transposed matrix, which are those
  whose leaves name it (`TransposedRow`).

The leaves are listed backwards, numbered from the end and turned around again;
`LeavesInOrder` is that these three agree.

`KernelProofs` (assumption `KernelAssumption`): `NeverFaults` (`[]NoFault`),
`ResultsAreDetermined` (`[]ResultsDetermined`) and `AllStarsMove`
(`[]EveryStarMoved`), for any group size, items per star and sizes of a unit. The
invariant says that no item is two barriers ahead of another (`Together`), what
each slot of the shared array holds as a function of the barriers passed by the
item that fills it (`SlotsHold`), which bodies an item has counted (`Tally`), and,
from these, the exact sum of a star that has its result (`Summed`: the bodies in the
star's own `Slots`, `Tps` times each). `ResultsDetermined` says less: that the sum
is one of places, the same for bodies in the same slot and stars in the same place of their groups.
The assumption includes `GroupSize <= Tps * Tps`, which the code meets (256 and
32 by 32): the slots a star's items look at are then slots of its own items.

Of the assumptions, `ObjectsDiffer` in `Dispatcher` says that a worker, a bundle
and NULL are different things. TLC checked the invariants `TickInv` and `Safe`,
but for the offsets of `Safe`, on small instances before they were proved.

Only model-checked:

* liveness under fairness (`EverythingAnswered`, `SimulationCompletes`,
  `AllAnswered`, `BothClose`), for which TLAPS is not used;
* `CellsRemembered` in a tick with a late worker or a loss.

## 6. What is not modelled, and why

* The vendored libraries: `lz4-lib`, `TurboTranspose-master`, `Dispatcher/sort.h`.
  They are two thirds of the repository's implementation, so that the share of its
  lines that the modules stand for is small. The program uses LZ4 and
  TurboTranspose only to squeeze the bodies of a result (`compress_locals`,
  `decompress_locals`) and to undo it; bundles go uncompressed, and the tim sort is
  commented out.
* The arithmetic of forces, and the set-up of OpenCL: floating point and system
  calls. Rounding is not modelled anywhere; in particular counts above 2^24 that
  are divided as floats.
* Threads of the sort above 8192 bodies (`qmsort`). They get the address of a dead
  stack frame, nobody joins them, and their semaphore does not exist. For a range
  left empty because the scan stopped before it, `l - start` (`D/msort_helper.c:43`)
  is a `size_t` that wraps around, so that such a thread may be started for a short
  range as well, depending on what `semval` makes of the missing semaphore; it has
  nothing to sort and returns, as `bsort` does in the model.
* Loading and generating datasets: sequential input, before any thread runs.
* The layouts of results and settings: a few fields in a fixed order, written and
  read by one function each, with the compressed bodies of a result at the end.
  `Bundling` has the layout of a bundle, whose fields repeat and refer to each other.
* Code that the program never calls (`receive_simulation_job`,
  `broadcast_worker_msg`, `save_output`, `queue_peak`, the dispatcher's
  `serialize_workunit`, `dict_search`), and WORK_UNITS_READY and
  WORK_UNIT_REQUEST, which nobody sends.
* Semaphore names shared by a dispatcher and a worker on one machine.
* What happens after a use of freed memory or an overrun.
* Metrics and debugging output.

`cell_count` is read by the bundle threads, not copied; within a division it does
not change. More than eight bundles share the eight bundle threads; the model lets
every bundle have its own, which allows all those orders and some more.

## 7. Plan

Done, in this order of importance: the worker's pipeline and its service; the
dispatcher's ticks, pool, worker list and losses; the worker's safety proofs; the
contents of bundles; the connection and its channels; the division with its sort;
the kernel; the output file; `TickService`; the proofs about the flag, the pool
and the settings; types and whole ticks of the dispatcher with the refinement of
`TickService`; framing and results of the connection with the refinement of
`Channel`; the sort; the kernel; the refinement of `WorkerService`; who holds a worker
within a tick; the contents of bundles; the search, the tree and the neighbourhoods.

Next, theorems: `BundleInOnePlace` over
several ticks with losses but without late workers; the accounts of a tick with
losses (`TokensMatchPool` has them already; `Ledger` has not).

Next, modules: start-up of both programs on one machine (`initialize_semaphores`
of either, with its `sem_unlink` and `sem_open` under common names).
