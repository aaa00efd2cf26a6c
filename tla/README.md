# UFTA-VMM: verification project

TLA+ models of the UFTA virtual memory manager (`src/`), model-checked with TLC,
and theorems proved with TLAPS about all of them but the heat of a page: every safety
property and both refinements that the runs check are also proved, for all values of
the constants or under the assumptions section 4 names.

UFTA-VMM is a user-space memory manager in C. It does two things that hardly
meet in the code:

* **transparent paging** (`pagefault.c`, `worker.c`): a region of pages is
  protected with `mprotect`; an access to an evicted page raises SIGSEGV, the
  handler queues the page, a worker thread reads it back, and the access is
  retried;
* **tiering** (`page.c`, `migrate.c`, `pipeline.c`, `predictor.c`, ...): a table
  of page records is walked by a seven-step pipeline that predicts, ranks and
  migrates pages between memory tiers. It moves records and counters, no bytes.

Paths below are relative to the repository; line numbers are those of the
modelled commit.

## 1. Inventory

### Components that act

| component | state | operations | interacts with |
|---|---|---|---|
| **fault ring** `worker.c:88-135` | `head`, `tail`, `seq` (free-running `uint32_t`), 4096 slots of two words | `ufta_ring_init`, `push`, `pop` | the SIGSEGV handler pushes, the worker thread pops; no lock, full barriers |
| **fault worker** `worker.c:137-295` | `running`, the ring, `batch_idx`, a condition variable with `notify_mutex`, 256 waiter words used as futexes | `worker_main`, `start`, `stop`, `notify`, `wait`, `wake_all` | calls back `pf_worker_load_batch`; `wait` runs inside a signal handler |
| **transparent paging** `pagefault.c` | `g_pf_ctx`, `active`, `fault_in_progress`, per page `valid`, `location`, `backing_fd`, the protection of the region, one backing file per slow tier | `pf_init`, `pf_destroy`, `pf_page_alloc`, `evict`, `load`, the SIGSEGV handler | application threads fault at any instruction; kernel calls fail |
| **batching** `worker.c:161-173`, `pagefault.c:213-297` | the drained batch, the current run | insertion sort, walk over runs of contiguous pages capped at 2 MB | between the worker and the load |
| **page table, address map** `page.c` | array of pages with `count` and `next_vaddr`; map entries; per tier `used` and `page_count` | `page_alloc`, `free`, `find`, `access`, `addr_map_insert`, `addr_translate` | shares tier counters with migration; pages are named by id |
| **migration** `migrate.c`, `pipeline.c:153-206` | a queue of at most 1024 decisions, statistics | `compute_gain`, `compute_cost`, `evaluate`, `enqueue`, `execute`, `clear` | evaluates all pages, then executes by page id |
| **pipeline and `run` command** `pipeline.c`, `main.c:45-49, 290-380` | `running`, `cycle_count`, metrics | `pipeline_init`, `tick`, `run`; `sighandler` | the signal handler clears `running`; opens and flushes the backend |
| **backend file** `backend.c` | descriptor, header (magic, page count, offsets), pages | `create`, `open`, `read_page`, `write_page`, `flush`, `sync_metadata`, `close`; pages as text | `cmd_run`, `cmd_create`, library callers; the page cache, crashes |
| **predictor** `predictor.c` | growing array of per-page states, at most 65,536, keyed by page id; per state the error, the confidence and what was predicted | `get`, `step`, `lms_update`, `relativistic_priority` | called for each page in three steps of each tick |
| **tiers and bandwidth** `tier.c`, `pipeline.c:107-163` | the default registry; per channel weight, budget and allocation | `bw_allocate`, `bw_effective`, `pipeline_prioritize`, `pipeline_throttle` | weights come from the predictor's confidence and a page's heat |
| **heat and field engine** `state.c`, `page.c:132-149`, `field.c` | a page's state vector, its heat level; ten operators | `state_heat`, `page_access`, the decay of `pipeline_observe`, `field_engine_apply`, `step_page` | the heat level decides what `pipeline_migrate` looks at |
| **GUI dashboard** `gui.c`, `main.c:1552-1760` | a snapshot of pointers into tiers, metrics, worker and paging; `running`; a chart of the last samples | `gui_pipeline_thread`, the render loop, set-up and shutdown | two threads share everything, no lock |
| **Windows installer** `packaging/windows` | the installer's own file, the directories and files under the prefix | `find_payload_offset`, `extract_payload`, `do_install`, `do_uninstall`; `pack-payload` | a disk whose calls fail, a user who ends it |

### Components that compute or wrap

* **motion** (`state.c:48-87`): `motion_update` is never called, so that
  `motion.speed` stays 0 and the velocity is what a command or a text file sets.
* **validation and benchmark commands** (`validate.c`, parts of `main.c`): call
  the above in a fixed order and print.
* **CUDA backend** (`cuda_backend.cu`), **platform layer** (`platform.h`), the
  **GUI stub**, the **build, packaging for Linux, scripts and release workflow**.

### What is hard about it

* a signal handler as the producer of a lock-free ring, in any thread, and a
  re-entrancy guard that is a plain `bool` for the whole process;
* three ways of waiting (ring, condition variable, futex words), of which the
  futex part registers *after* the request was published;
* a page's four attributes (location, backing descriptor, protection, contents)
  changed by separate system calls, each of which can fail;
* counters that wrap, a batch that is resolved by arithmetic on page indices
  rather than entry by entry;
* decisions taken for all pages, then executed by id, over a table whose ids are
  reused;
* a run loop stopped by a signal that may come before it starts; a dashboard
  reading what another thread writes, freed when the window closes;
* a file whose writes, truncations and flushes reach the disk in any order, by a
  process that may end between any two of them and looks at few results;
* arithmetic with a balance in it: decay against a field that pulls every state to
  length one, weights that may be negative.

`PROJECT.json` lists these as 40 hazards, each at its line; 36 of them have
properties that some run evaluates, and the other four say why none does. One more
that is not listed: the benchmark asks for the ids 0 to n - 1 while ids start at 1
(`main.c:1220`), so that its last page is never accessed.

### What makes each component correct

| component | correctness |
|---|---|
| fault ring | accepted requests come out once, in order, never more than 4096 held, through every wrap; the producer never writes a slot the consumer is copying |
| worker | a queued request is drained; a waiter returns when its page was processed and no slot leaks; `stop` ends, with the thread joined before the region goes |
| paging | a page always holds what was last written to it; `PF_LOC_RAM` means accessible; SIGSEGV is handed back only for stray accesses |
| batching | exactly the requested pages, ascending, each as often as requested; every run within the transfer cap; it ends |
| page table | unique ids, disjoint addresses, counters equal to what the pages add up to, a mapped live page translates to itself |
| migration | no tier filled past its capacity by a move; a page moves one tier at a time and never when pinned; hot pages rise, cold pages sink |
| run command | a stop request in the loop is honoured wherever in a cycle it arrives; the backend is used only when open |
| backend | what was flushed is found after a crash; pages stay apart from each other and from the header; text records are read in order |
| predictor | one state per id, within the limit; a page learns from its own prediction of the tick before |
| bandwidth | the channel with the greatest weight is served, whatever the signs of the weights |
| heat | a page left alone cools down for good, one in steady use gets hot |
| dashboard | nothing is used after it is freed; the chart is the last samples; closing the window ends the command |
| installer | the search finds the first marker and returns; a failed installation leaves the installed program alone |

## 2. Modules

| module | stands for | form |
|---|---|---|
| `BoundedFifo` | what a bounded queue promises | abstract specification |
| `FaultRing` | `ufta_ring_*`, one memory access per action | refines `BoundedFifo` (`ImplementsFifo`) |
| `FaultRingProofs` | | theorems about `FaultRing` |
| `PageFault` | `pagefault.c` and `worker.c` together | threads, worker, kernel |
| `MCPageFault` | thread symmetry | model values |
| `PageFaultProofs` | | theorems about `PageFault` |
| `SortedBatch` | what a batch promises | abstract specification |
| `Batch` | sort and run walk, one loop iteration per action | refines `SortedBatch` (`ImplementsSortedBatch`) |
| `BatchProofs` | | theorems about `Batch` |
| `PageTable` | `page.c` and the tier counters | component |
| `Migration` | `migrate.c`, `pipeline_migrate` | extends `PageTable`; one loop iteration per action |
| `MCMigration` | the first three default tiers, small capacities | definitions for TLC |
| `MigrationProofs` | | theorems about `Migration` and `Bandwidth` |
| `Backend` | `backend.c:9-147`, with the file in the page cache and on the disk | component |
| `RunCommand` | `cmd_run`, `sighandler`, `pipeline_run` | extends `Backend`: the command's backend calls are `Backend`'s actions |
| `TextFormat` | `backend_text_write_page`, `backend_text_read_page` | component |
| `Storage` | the three kinds of clients of `backend.c` | extends `RunCommand` and `TextFormat` |
| `BackendProofs` | | theorems about `Backend`, `Storage` and `TextFormat` |
| `Heat` | `state_heat`, `page_access`, `pipeline_observe`, `field.c` | component |
| `Predictor` | the array of states, and the steps of a tick that use it | component |
| `Bandwidth` | LMS error and confidence, priority, weights, `bw_allocate` | component |
| `Pipeline` | what the ticks do to a page besides moving it | extends `Heat`, `Predictor`, `Bandwidth` |
| `PredictorProofs` | | theorems about `Predictor` |
| `Dashboard` | `cmd_gui`, `gui_pipeline_thread`, `ufta_gui_run` | two threads |
| `DashboardProofs` | | theorems about `Dashboard` |
| `PayloadSearch` | `find_payload_offset` | component |
| `PayloadSearchProofs` | | theorems about `PayloadSearch` and `Installer` |
| `Installer` | `installer-main.c` over what `pack-payload.c` packs | extends `PayloadSearch` |
| `MCInstaller` | the files `build-installer-exe.bat` stages | definition for TLC |

`FaultRing` and `Batch` are the two data-level pieces of the paging layer;
`PageFault` uses the first as a FIFO and the second as "the batch stays sorted,
page by page". That is what the two refinements license, the first one for a
single producer only: a thread that reaches the push while another one is inside
it is not described by `PageFault`, which is why its two-thread runs only show
violations and claim nothing else.

### FaultRing

`head`, `tail`, `seq` and the two words of each slot are the C fields. The
producer and the consumer each have a record of their own with a program counter
and the locals of their call; every read or write of shared memory is an action,
in program order (both functions use `__sync_synchronize`). Counters live in
`0 .. CounterMod-1`; the build has `CounterMod = 2^32`, `RingSize = 4096`. A full
or empty ring returns -1 and changes nothing, so those returns are stuttering.

### PageFault

Shared state is named after the code: `active`, `handler`, `guard`
(`fault_in_progress`), `valid`, `loc`, `fd`, the page's protection `prot` and
contents `mem`, the contents of each backing file `store`, `queue`, `running`,
`started`, `waiters`. `content` is a history variable: what the application last
wrote. `pc`/`call` are a thread's control and locals, `wpc`/`batch`/`wslot` the
worker's. An action is one access to shared state, one system call, or one
critical section of `notify_mutex`; the worker's test of its predicate and its
wait are separate, with the mutex held in between (`MutexFree`).

* *Application*: `Alloc`, `Evict`, `Load`, `StartAccess`/`Access`/`Fault`. A fault
  re-runs the instruction after the handler returns, as the hardware does.
* *Handler*: guard test and set, look-up, push, notify, `ufta_worker_wait` with its
  slot search, claim, loop test, second read of the word and futex call; the
  synchronous fallback; the exit that restores `SIG_DFL`.
* *Worker*: loop test, predicate, park, resume, second test of `running`, drain,
  then per page skip / `mprotect` / `pread` / mark, then `wake_all` slot by slot.
* *Kernel*: `Faults` names the calls that may fail in a run: the three `mprotect`s,
  the three transfers (a short one leaves a mixture, `Torn`) and thread creation.
  Both waits may return for no reason.
* *Life cycle*: `PfInit` and the steps of `pf_destroy`. The application calls them
  while its other threads are outside the region, and the model says so
  (`OthersIdle`).

Left out: `dirty` flags and statistics (nothing reads them to decide), the CUDA
branches, the Windows handler, the early failures of `pf_init` that leave no
trace. Pages are indices; the byte offset `pi * page_size`, a `uint32_t` product
in several places, is not modelled yet. The comments at `worker.h:12-14` and
`pagefault.c:222-223` speak of a single transfer per run; the code reads page by
page, and so does the model.

With one thread the ring never fills (one request is out at a time), so the
handler's full-ring branch is not reached in the one-thread runs; the full ring
itself is covered by `FaultRing`, and the synchronous path by the failing
thread creation.

### Batch

The sort of `worker_main` and the walk of `pf_worker_load_batch`, loop iteration by
loop iteration, on every batch up to `MaxBatch`. `handled` collects the pages
resolved. Array indices are one more than in C.

### PageTable and Migration

`pages` is the array with the fields that decide (id, size, tier, address, pinned,
access count); `used` and `residents` are the tier counters; `addrMap` the entries
present. A tick is `StartTick`, one `Evaluate` per page, `StartExecute`, one
`Execute` per queue entry, `EndTick`; the application acts between ticks because
both run in one thread. Heat level and motion factor are floating-point results of
the other pipeline steps: here any member of `Levels` and `Motions` at each
evaluation.

Gains and costs are exact integers in a common unit. `MCMigration` takes latency,
energy and bandwidth of RAM, VRAM and NVMe from `tier_registry_init_defaults`, so that
the model's approvals are the program's, up to rounding (the unit is 10 ns and
10 nJ, so the energies of 1, 2 and 5 nJ become 0, 0 and 1; at these magnitudes latency
decides): with them a page in VRAM
needs more than 1,000 accesses to pass the 0.001 threshold for RAM at horizon 10,
which is why accesses come in bursts of 515. The capacities are made small.

Two facts met while modelling: `addr_map_insert` indexes by the absolute address over
the page size although addresses start at `0x40000000`, so that the maps of every
command but `run` are too small for their first page and the insertion's
`UFTA_ERR_FULL` goes unread; and `migrate_execute` leaves a decision unexecuted when
the destination is full, while `migrate_enqueue` refuses from entry 1,025 on, so that
pages early in the table whose destination stays full can keep later ones out of the
queue. The model has both (`MapInsert`'s guard, `Enqueue`), and `HotClimbs` is stated
for the pages that come first.

### Backend, RunCommand, TextFormat, Storage

A file is a function from units of one page to contents; unit 0 is the header.
`cached` is what reads see, `durable` what a restart after a power failure finds, and
`WriteBack` carries any unit (or the length) from one to the other whenever it likes;
`fsync` carries all. `be` is the `backend_t`, with the values its descriptor can have
after a failure; `step` says which system call of `backend_create` or `backend_flush`
comes next, so that `Kill` and `PowerFailure` fall between any two. `written` and `saved`
are histories: what each page was last written, and what the file may hold since the
last flush that reported success. `Faults` names the calls that may fail.

`RunCommand` adds the control of `cmd_run`: its backend actions are conjoined with
`Backend`'s, and `Interrupt` is the handler at any point. In `TextFormat` a record is a
sequence of tagged lines; a write may end inside a line (`ShortWrites`), and the
reader's stream moves the shared offset past what it used unless the C library's
`fclose` seeks back (`Resync`). `Storage` lets each behaviour have one kind of client:
the three keep to files of their own and share no state.

### Heat, Predictor, Bandwidth, Pipeline

`Heat` follows one page: no step of it reads another. The state vector is its heat
component `x` and the length `w` of the rest, in units of 1/`One`; every quotient is
rounded both down and up, nondeterministically, so that no property hangs on a
rounding. `Push` is the sum of the ten registered operators as `field_engine_apply`
makes it, operator types missing in `operator_create` included.

`Predictor` has the page table's ids and lives, the array with its capacity, and the
tick as a loop over the pages in three of its steps; `realloc` fails at will. A
prediction is named by the page and the tick it was made for.

`Bandwidth` is one action per tick: errors of the predictions, velocities, heats and
moves by a tier are any; average error, confidence, `LorentzFactor`, `Priority`,
weights, shares and the cut at the physical limit follow the code, in integers. The
speed of a page is 0 or 10, the values that commands give it (`VEL_K * omega` in
`main.c`), and with `motion.speed` always 0 each moving page counts as the fastest.

`Pipeline` composes the three as alternatives: what `Heat` needs of an access,
`Predictor` of the table and `Bandwidth` of both is nondeterministic there already, so
that a joint behaviour shows nothing more.

### Dashboard

`main` and `thread` are the places of the two threads, `live` what `cmd_gui` has
allocated, `tier`/`used`/`stats`/`snap` what they share. A tick moves any pages, in the
two steps of `migrate_execute` (out of the old tier's counter, into the new one's); a
frame samples and then draws tier by tier. Set-up may fail at each of its steps, the
window may fail to open or be closed at any point.

### PayloadSearch and Installer

The search is one action per `fread`, per position and per seek, over a file given by
its length and the offsets of the marker. `Installer` runs it as the first step of an
installation (`FindPayload`), then extraction entry by entry, the copies, the launcher,
the shortcuts and the clean-up; a group of calls whose results the code ignores may
fail in any subset (`Some`). Paths are pairs of directory and name.

## 3. Runs

| run | instance | what it shows |
|---|---|---|
| `fault_ring` | ring of 3, counters modulo 6, 2 pages | no overrun, no slot touched by both sides, FIFO; the counters wrap after two ringfuls and every offset of head and tail against the wrap occurs |
| `fault_solo` | 1 thread, 2 pages, 1 tier, ring 2, failing reads, `evict` writes, synchronous reads and thread creation | no data lost, stored copies current, RAM means open, the handler is given up only for stray accesses, every request drained |
| `fault_failures` | 1 thread, 1 page, 2 tiers, every call may fail | the worker never works while the thread runs, no waiter slot leaks, the worker is gone before the region, stop ends |
| `batch` | pages 0..3, batches up to 5, runs up to 3 | refinement of `SortedBatch`, run cap, termination |
| `migration` | 3 pages, 3 tiers of 4, 8 and unlimited KiB, sizes 4 and 8, queue of 2 | counters, addresses, translation, no overcommit by a move, one tier up at most, hot pages climb |
| `storage` | 2 pages, 2 contents, a file of 2 units, five kinds of failing calls; 4 text records of 4 lines, a buffer of 6 | flushed data and page count survive kills and power failures, pages read back, a signal in the loop ends the command, text pages are read in order while none was cut short |
| `pipeline` | one page at 1/120, heats up to 2; 4 pages, 3 states, 3 ticks; 2 pages on 3 channels | an idle page becomes and stays cold, a busy one hot; one state per id, learning from the tick before; the channel with the greatest weight gets its part |
| `dashboard` | 2 pages, 2 tiers, a chart of 2, 3 samples, 2 moves | no use after free, the chart is the last samples, an undisturbed frame is whole, closing ends |
| `installer` | files of up to 8 bytes, marker 3, block 4; 2 runs, 3 staged files, a failing disk | the first marker is found and the search returns, a failed installation touches nothing installed |
| `lost_wakeup` | 1 thread, 1 page | **violated**: a fault that is loaded and never returns |
| `second_thread` | 2 threads, 1 page | **violated**: a fault on an evicted page uninstalls the handler |
| `id_reuse` | 3 pages | **violated**: two live pages with one id |

The violated runs are findings, each against a sentence of the repository; see
`findings` in `PROJECT.json` for the quotations. In short: the waiter registers after
its request is already public and re-reads the word it waits on; the re-entrancy
guard is neither atomic nor per thread; ids are `count + 1` after `count` was lowered.

**Further configurations.** Each of these `.cfg` files checks one property that a
sentence of the repository suggests and the code does not keep. TLC reports each one
violated; they are kept beside the runs as counterexamples to look at.

| configuration | module | sentence, and what the code does |
|---|---|---|
| `TwoProducers` | `MCPageFault` | `worker.h:46-47` "Single producer (the signal handler, one thread at a time due to the re-entrancy guard)"; the guard is a plain `bool` tested at `pagefault.c:66` and set at 76, and two threads can be inside |
| `FailedEvict` | `MCPageFault` | `pagefault.h:8-9` "This is the key mechanism that makes the VMM transparent"; `pagefault.c:585-604` changes location and descriptor before the `mprotect` that may fail, and a stale copy overwrites what was written |
| `ColdStays` | `MCMigration` | `pipeline.c:193` "Try migrating to slower tier if cold": the gain is never positive, no cold page leaves |
| `LargePage` | `Backend` | `backend.h:96` "Write a single page to backend": any size is written, over the next page |
| `LostHeader` | `Backend` | `backend.h:99` "Sync page table metadata to file header": the result of the write is ignored (`backend.c:144`), the flush reports success |
| `DirtyPages` | `Backend` | `backend.h:90` "Flush dirty pages to disk": `backend_flush` writes the header and no page |
| `EarlySignal` | `RunCommand` | `main.c:343` "(Ctrl+C to stop)": a signal before `pipeline.c:268` is overwritten by `running = true` |
| `NoBackend` | `RunCommand` | `main.c:370` "Flush and close backend": after a failed creation the structure was never filled |
| `TextAhead` | `TextFormat` | `backend.h:110` "Read page from text format": with a C library whose `fclose` does not seek back, the next call starts inside a later record. With `Resync` and `ShortWrites` both TRUE the same property fails by a record cut short on a full disk, whose `dprintf` nobody looks at (`backend.c:170`) |
| `PredictorReuse` | `Predictor` | `pipeline.c:86-88` "compare last tick's prediction against the actual current state": a reused id brings the prediction of a freed page |
| `PredictorFull` | `Predictor` | `pipeline.c:82` "Ensure predictor has state for this page": states of freed pages are never given back |
| `NegativeGrant` | `Bandwidth` | `README.md:68` "allocate bandwidth B_j^{alloc}(t) within budget": the cost term makes the priority of a badly predicted moving page negative, and with it weight, share and allocation of its channel |
| `DemoClock` | `Heat` | `pipeline.c:48` "Decay heat if not accessed recently": `cmd_demo` stamps accesses with the cycle (`main.c:245`), the tick uses the clock |
| `LostOperator` | `Heat` | `field.c:157` "Register cosmic operators": the reaction-diffusion type is not in the switch of `operator_create` and becomes `op_physics` |
| `TornFrame` | `Dashboard` | `gui.h:35` "Snapshot of live metrics": the snapshot is pointers, a frame shows a migrating page twice or not at all |
| `OwnLiteral` | `PayloadSearch` | `installer-main.c:71-72`: the marker is searched from the front, where the program's own string literal comes first |
| `Installed` | `MCInstaller` | `installer-main.c:411` "instalado com sucesso!": the payload has no directories, the copies look for `bin` and `lib` and their results are ignored |

**Bounds.** The paging runs need one request in flight per thread, so a ring of one or
two and as many waiter slots; two pages give a batch something to sort and let one
page be resident while another is not; two values (fresh and other) distinguish any
stale copy; two tiers in `fault_failures` let a page go to one file and come back from
the other. `fault_solo` leaves out `evict_protect`, whose failure is `FailedEvict.cfg`, and
the other `mprotect` failures, which are in `fault_failures`. In `batch`, five requests
over four pages give every duplicate pattern, a run at, below and above the cap,
and a gap. In `migration`, capacities of one and two small pages make every "room"
test go both ways, sizes 4 and 8 make it depend on the page, the queue of two is
shorter than the table, and two rounds of bursts cross the threshold; `MaxAccesses`
and `MaxVaddr` cap the two unbounded counters.

In `storage`, two pages tell an offset that is off by a page from one that is not, and
two contents an old copy from a new one; the number of operations is not bounded.
Failures of `open` and of the header's read leave the descriptor closed and the file
alone and are left out for size (`backend_open` after them is in `NoBackend.cfg`); that
of the header's write is `LostHeader.cfg`. Four records and a buffer of one and a half
let the reader's stream end before, at and behind the end of a record. In `pipeline`,
1/120 is coarse: a rounding may move a heat by half a per cent of the distance between
levels, and both roundings are taken; `MaxHeat` is past the greatest heat at which one
access more changes the level. Capacity 1, 2, 3 of the array stands for 256 to 65,536:
it doubles, is cut at the limit and refuses, and four lives of pages let an id come
back. Errors 0, 0.2 and 2 (a direction and its opposite) bring the average to any
value, heats 0.006 (the floor of the decay), 0.1 and 0.5 give priorities of both
signs. In `dashboard` the third sample is the first that drops one. In `installer`,
eight bytes hold a marker before, at, across and behind two block limits, and two runs
are a failed one and another on what it left.

**Deadlock** is checked in the ring, migration, storage and dashboard runs. It is not
in the `PageFault` runs, where a process that died of SIGSEGV takes no step, nor in
`batch`, `pipeline` and `installer`, where a finished batch, the bound on ticks and the
last run of the installer are the end.

**Fairness.** `PageFault`: weak fairness of the worker and of each thread once it has
begun something, because the kernel runs runnable threads; none of an
application's decision to begin a call, none of spurious returns. Every blocking
point (mutex, join, futex, condition variable) is a disabled action, so weak fairness
does not wake a sleeper. `Migration`: weak fairness of the tick, since `pipeline_run`
and the loops of the commands tick again and again. `Batch`: weak fairness of its
only thread. `Storage`: weak fairness of the command's own steps, none of signals,
kills or of a caller's decision. `Pipeline`: weak fairness of the tick, none of
accesses: `IdleCools` and `BusyHeats` say under which accesses they hold. `Dashboard`:
weak fairness of each thread, none of the user's closing of the window. `Installer`:
weak fairness of the search, none of a run's beginning or end.

**Mutants.** Next to the definitions stand variants with a plausible mistake each
(`FullTooLate`, `PushPagePublished`, `LeaveGuarded`, `HasRoomBefore`, ...; comments say
"Mutant"). They are no part of any specification: each one replaces its original in
one run to see that the property named with it in `PROJECT.json` does notice.

## 4. Proofs

### The ring (`FaultRingProofs`)

For every ring size, counter width and set of pages with `RingAssumption` (the
width is a multiple, at least twofold, of the ring size: 2^32 and 4096):

* `RingInvariant`, `RingTypeCorrect`, `RingNeverOverruns`, `RingSlotsRaceFree`: from
  the inductive invariant `RingInv`. `NoOverrun` alone is not inductive: that a push
  finds its slot free needs the distance of the *published* counters together with
  the copies in each side's locals (`Filled`, `CopyIntact`), and that the contents are
  numbered in order (`SeqInOrder`). There is one lemma per step.
* the modular arithmetic is in lemmas of its own (`DistValue`, `SlotUnique`,
  `SlotWrap`, `SeqWrap`): the distance of two wrapped counters as a case split, and
  distinct counters less than a ringful apart being in distinct slots.
* `RingImplementsFifo`: publishing `head` is `Put`, advancing `tail` is `Take`, all
  else stutters.

### Transparent paging (`PageFaultProofs`)

For every set of pages, tiers and values, every ring and waiter table and every set of
failing calls:

* with **any number of threads**: `PagingTypeCorrect` (`TypeOK`; `TypeInv` adds that a
  page is in hand while the worker resolves it), `WorkerOutlivedByRegion`
  (`WorkerGoneBeforeUnmap`; `LifeInv` ties each step of `pf_init` and `pf_destroy` to what
  exists of the worker) and `WaiterSlotsOwned` (`NoLeakedWaiter`, inductive by itself).
* with **one application thread**: `NoLoadBehindThread` (`NoLoadWhileRunning`). It needs
  where the thread's request is at each step of the handler and of the worker:
  `FlightInv`.
* with one thread and an `evict` whose `mprotect` does not fail: `PagingTransparent`
  (`Transparent`) and `StoredCopiesCurrent` (`StoredCopyCurrent`). `MemInv` is inductive:
  what each page's location, descriptor and protection say about its contents and its
  stored copy, and what the worker or the synchronous path holds between opening a page
  and marking it.
* if moreover the `mprotect` of the synchronous path does not fail: `ResidentPagesOpen`
  (`ResidentIsOpen`) and `ManagedFaultsServed` (`OnlyStrayAccessCrashes`).

The assumptions are those of the code. With two threads the process-wide guard gives
SIGSEGV back for a page that is managed, the `second_thread` finding, and with it none of
the last five holds; a failing `mprotect` in `evict` loses data, which `FailedEvict.cfg`
shows; one in the synchronous path leaves a page marked present and closed. All other
calls may fail in all of these theorems.

### Batching (`BatchProofs`)

For every set of page indices, every batch and every cap: `RunsAreMaximal`
(`RunsCapped`), and `BatchImplementsSorted`, the refinement of `SortedBatch`. `BatchInv`
says that the array, with the key put back into the gap while the sort shifts, is a
permutation of the request (`Rearranged`), where it is sorted already (`SortInv`), and
that what is handled is the prefix before the run at hand (`WalkInv`). Only `Resolve`, one
page of the run, maps to a step of the abstract batch; every other step of sort and walk
stutters.

### Page table, migration and bandwidth (`MigrationProofs`)

For every registry in which access never gets cheaper from a tier to the next
(`MigrationAssumption`), every weight, threshold, horizon, size and capacity
(`PageTableAssumption`):

* `MigrationTypeCorrect`: `TypeOK`, the bound of the queue included, is inductive;
  `FindResult` and `RemoveAtPages` say what the scan and the compaction do, `LessNat` that
  the counters stay naturals.
* `OnlyPromotionsQueued` (`QueuedUp`): the gain towards a slower tier is at most zero
  (`AccessCostMonotone`, `NeverWorthDemoting`), the cost is at least zero and so is the
  threshold, hence the second half of `pipeline_migrate` never enqueues
  (`DecisionsUp`, `EvaluateQueue`). This is the general form of what `ColdStays.cfg` shows.
* `PagesNeverOverlap` (`AddressesDisjoint`): the allocator only bumps, `page_free`'s
  compaction keeps the order, every other step keeps addresses and sizes
  (`PagesStay`, `UpdatePage`).
* `MappedPagesTranslate` (`LiveTranslation`): `MapInv` adds that the indices of the map lie
  below that of the next address, so that no page is inserted over another. The proof
  found the property's hypothesis too weak: besides ids given once it needs pages at
  least as long as the map's page size, since two shorter ones can share an entry. The
  commands allocate such pages only.
* `MovesNeverOvercommit` (`NoOvercommit`) and `TickMovesOneTierUp` (`OneTierUp`), the two
  action properties of a move. `OneTierUp` needs `QueueInv`: each decision still
  waiting in the queue names the tier its page is in, and no page is queued twice;
  `QueuedUp` adds that the target is the next faster tier.
* `CountersExact` (`Accounting`). `used` is a sum over the pages of a tier, computed by a fold
  of the library. `TotalFirst` to `TotalRenamed` are the facts about such sums (a first term,
  any term taken out, another order), each by looking at a least counterexample among the
  subsets of a finite set, which takes the place of induction. `Counted` is `Accounting` in
  these terms; `page_free` shifts the array, which is a renaming of its places.
* `GreatestWeightServed` (`BusiestIsServed`): for any pages, heats, speeds and errors the
  weights are integers (`PriorityInt`, `WeightInt`), and a third of the budget follows for
  the greatest one whatever the sign of the sum (`GreatestShare`). The registry of three
  channels is a constant of the model.

### The backend file (`BackendProofs`)

For any set of pages, contents and file size and any set of failing calls but the
write of the header, with transfers of one page (`Spans = {1}`; `LargePage.cfg` and
`LostHeader.cfg` show that both assumptions are needed):

* `FlushedDataSurvives` (`FlushedSurvives`) and `PagesReadBack` (`ReadBack`), from
  `BackendInvariant`. That the disk holds what was flushed is not inductive: the
  kernel may write back any unit at any time, so that the page cache must hold it too
  (`Holds(cached)`, `Holds(durable)`), no truncation may be pending while something is
  saved (`SavedInv`), creation must have given up what was saved before it cuts the
  file (`CreateInv`), and between the two calls of a flush the header must be there
  (`HeaderInv`). There is one lemma per operation, `PutIsFile` and its companions say
  what a write does to a file, `OffsetsApart` that pages and header do not overlap.
* `ClientsKeepFile`: both again for `StorageSpec`, the specification of the run, with
  `cmd_run` as a client. Each of its steps is one of the backend's or leaves it alone
  (`CommandUsesBackend`), but for the `backend_t` that comes and goes with the stack frame;
  `ClientInv` says that this does not happen inside a flush.
* `TextReadInOrder` (`ReadsInOrder`), for any pages, number of fields, records and order of
  the calls, with a C library whose `fclose` seeks back (`Resync`; `TextAhead.cfg` is what
  happens without). `TextInv`: until a line is cut the file is the records written, one
  after the other, and the reader stands behind the last one it returned.

### The predictor's array (`PredictorProofs`)

For every capacity of table and array, with and without failing `realloc`s and without
a bound on ticks: `StatesStayApart` (`OneStatePerId`) and `UpdatesUseLastTick`
(`LearnsFromLastTick`). The invariant of the first adds that the page at hand has a state
while it learns; the three ways `predictor_get` returns are the cases of `GetStep`. For the
second, `FreshInv` follows each state through the tick: before the page's turn its
prediction is of the tick before, after it of this one.

### The dashboard (`DashboardProofs`)

For any finite set of tiers, any pages, any length of the chart and any number of samples:

* `NothingUsedAfterFree` (`NoUseAfterFree`). The inductive `LifeInv` ties the place of each
  thread to what is allocated and to the other's place; the join is what it turns on.
* `ChartIsLatest` (`WindowIsLatest`), from `ChartInv`: how many samples there are and which
  one each place of the chart holds.
* `StillFramesAreWhole` (`StillFrameIsWhole`), from `TierInv`: between two moves the counters
  agree with the places of the pages, inside one they differ by the page on its way. The
  property says of each tier drawn what its count is; that these add up to the number of
  pages follows.

### The installer (`PayloadSearchProofs`)

* For every block that holds the marker, every file and every placement of markers:
  `SearchFindsFirst` (`FindsFirst`). `SearchInv` says how the code's count of the offset
  goes with the stream's position, and that no marker lies before the scan, which is
  where the overlap of two blocks is needed. `InstallerFindsFirst` is the same in each run
  of the installer: every step of it searches, ends the run or leaves the search alone
  (`InstallerSearches`).
* `FailedInstallHarmless` (`FailureKeepsInstalled`), for any staged files, any failing calls
  and whatever earlier runs left: `UntouchedInv` says that up to the end of the extraction
  nothing outside the temporary directory has changed, and that nothing fails later.

### Only model-checked

Liveness is out of these provers' reach and stays with TLC: `RequestsDrain`,
`StopTerminates`, `BatchEnds`, `HotClimbs`, `LoopStops`, `IdleCools`, `BusyHeats`,
`CloseEnds` and `SearchReturns`. Of the arithmetic of `Heat` nothing is proved: what it
promises, a page that cools for good or gets hot, is liveness. No module uses a
`RECURSIVE` operator.

## 5. Not modelled, and why

* **rotation and gradient** of the predictor: their results show in the errors to
  come, which are any in `Bandwidth`. An observation: a comparison without a difference
  returns before the error and its average are set (`predictor.c:186`), so that a page
  that is predicted exactly from now on keeps its old error and confidence for ever.
* **motion, `state_lerp`, `predictor_update`, `field_engine_add_*`**: never called.
* **validation and benchmark commands**: sequential calls of the modelled components,
  with printing; no state of theirs outlives the command.
* **statistics and printing**: no decision depends on them.
* **CUDA**: another build, wrappers over a driver that cannot be checked here; its
  branches in `pagefault.c` are left out with it.
* **platform layer**: the models follow the Linux build. On Windows, `pf_init` passes a
  NULL `sa_sigaction` (`pagefault.c:374-379`), which `ufta_sigaction` takes for a request
  to uninstall: the fault handler is never installed there. `ufta_pread` and
  `ufta_pwrite` move the shared file position and put it back, which two threads could
  interleave; with no faults to serve, no second thread transfers anything.
* **Linux packaging, scripts, workflow**: no behaviour of the program. Of the Windows
  build, `build-installer-exe.bat:138-153` is modelled as what is staged; its `echo`
  (line 157) puts a space and a line end behind the marker, in front of the archive.
* the byte offset `pi * page_size`, a `uint32_t` product: pages are indices.
* `page_alloc` with a NULL tier: no caller passes one.

## 6. Plan

Done, in this order: ring and its proofs; paging with the worker; batching; page
table and migration with their proofs; backend, run command and text format; heat,
predictor, bandwidth; dashboard; installer; their proofs.

Proved since: paging, batching, the other properties of page table and migration,
bandwidth, the text format, the backend under its clients, chart and frame of the
dashboard, the installer.

Left: that a page which is idle never gets hotter in a tick, and the bounds of a state's
length, as invariants of `Heat` for every resolution `One`; the steps of paging with two
threads that hold in spite of the guard; page index to byte offset in 32 bits, as pure
operators against a reference.
