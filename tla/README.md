# JungeyOS in TLA+

A verification project for the JungeyOS kernel and its driver processes: TLA+
modules translated from the source, TLC configurations that check them on small
instances, and TLAPS proofs for every value of the constants. `PROJECT.json`
holds the same facts in machine-readable form: which definition models which
lines, what each run checks, and for each property a mutated definition that
breaks it.

Paths below are relative to `src/`.

## 1. Inventory

JungeyOS is an AArch64 kernel in Rust with user processes for its drivers. It
runs on several cores, has one lock around its scheduler, talks to drivers
through message channels reached by capabilities, keeps its state on one virtio
block device, pages models in on demand, schedules an accelerator, and shows the
windows of its applications on one screen.

| Component | State | Operations | Interacts with |
|---|---|---|---|
| Scheduler (`kernel/src/sched/`) | thread table, claims (`on_cpu`), per core the round-robin cursor, the current, leaving and idle thread | `schedule`, `finish_switch`, `spawn`, `attach_process`, `sleep_ticks`, `prepare_block`/`block`/`cancel_block`, `wake_all_on`, `tick`, `reschedule_ipi` | called by interrupts, by every blocking syscall, by the kernel's own threads |
| Core bring-up (`kernel/src/smp.rs`, `boot.s`) | which cores are online | `start_cpu`, `secondary_main`, `adopt_as_idle` | writes the scheduler's per-core blocks |
| Time and interrupts (`time.rs`, `irq.rs`) | one timer per core, the TICKLESS flag, pending reschedule interrupts, interrupt counters | arm, tick, kick, device interrupts | drives `tick` and `schedule`; is kicked by every wake-up |
| Capabilities (`cap.rs`, `proc.rs`) | the ledger of everything minted, one table per process | root, derive, install, lookup, revoke | syscalls resolve slots; revoke wakes channel waiters |
| Channels and syscalls (`ipc.rs`, `syscall.rs`) | a queue per channel | send, recv, `recv_or_prepare`, irq wait | scheduler's block/wake |
| JLFS (`fs.rs`) | superblock, two checkpoints, an append-only log; `Fs` in memory | format, mount, write, `set_entry`, read | block client |
| Intents (`intent.rs`) | the registry of intents and their steps | begin, record, commit, undo | JLFS |
| Boot (`main.rs`) | the mounted `Fs` | mount or format, drop after an error, demonstrations | everything |
| Block client (`blk.rs`) | next tag, `IN_FLIGHT` | read, write, info, shutdown with time-out | two channels to the driver |
| Block driver (`user/src/blkdrv.rs`) | the ring, one DMA buffer, last used index | request loop, `wait`, give up | device, interrupt capability |
| A/B updates (`ota.rs`) | control sector, two slots | boot, confirm, stage, initialise | block client |
| Action log (`audit.rs`) | tail of a hash chain on disk | init, append, verify | block client |
| Tensor scheduler (`tensor.rs`) | jobs, temperature, measured cost, the job that ran last | submit with admission, run a segment, preempt, wait | scheduler's block/wake, syscalls |
| Model store (`model.rs`) | models, their pages (absent, loading, resident), who has them mapped | open, attach, fault, reclaim | frames, page tables, block client |
| KV cache (`kv.rs`) | sessions of blocks, resident or spilled; the spill cursor | open, append, read, make room | frames, block client |
| Frames, heap, page tables (`mm/`) | free list and bump pointer, mappings | allocate, free, map, unmap | everything |
| Window manager (`user/src/wm.rs`) | windows with owner, place, height and commands; the damage | create, raise, move, reset, push, hit, paint | inside the display server |
| Display server (`user/src/gpudrv.rs`) | the background, the introduced clients, the device | one message at a time; compose; route a tap | kernel, input driver, applications |
| Display client (`display.rs`, `main.rs`) | the frame being built | introduce, compose, present, wait for windows | two channels to the server |
| Input driver, applications (`user/src/inputdrv.rs`, `app.rs`) | the pointer; an application's rows | send a group; open, draw, react to a tap | the server's channel |
| Device tree, ELF, measurement, console | | once, at boot | |

What is hard here:

* **Concurrency.** Between two sections under `SCHED` a core has marked itself,
  surveyed the table or picked a thread, and any other core may act. The claim
  on a thread is given up by *the next thread on the same core*.
* **Look, then act.** A capability is looked up before the channel is locked, a
  queue is found empty before the receiver is a waiter, a timer is armed from a
  survey that is old by the time it is used.
* **Frames and memory.** The frame allocator has no lock; a page is looked up
  under a lock and mapped after it.
* **Failure.** The machine may lose power between any two sector writes and
  within one; a write answered with an error may have landed; a client gives up
  and the answer comes later.
* **Progress.** Sleepers have to wake on an idle machine without ticks, and an
  update that does not come up has to be abandoned by a counter; a wait for a job
  ends however the job does, a fault ends however its read does.
* **What the user sees.** Only the bounding box of what changed is sent to the
  screen, several processes send to one server, and a late answer is taken for
  the answer to the next request.

`PROJECT.json` lists these hazards one by one at the lines where they bite. What
makes each component correct is stated in section 2 with its module.

## 2. The modules

| Module | Models | Rests on |
|---|---|---|
| `ContextCustody` | abstract: each thread's context is in one place | |
| `Scheduler` | `sched/mod.rs`, `switch.s`, `smp.rs` | implements `ContextCustody` |
| `Tickless`, `MCTickless` | `time.rs`, `irq.rs`, the wake paths | extends and implements `Scheduler` |
| `Capabilities` | `cap.rs`, `proc.rs` | |
| `Ipc` | `ipc.rs`, send and recv of `syscall.rs` | extends `Capabilities` |
| `AtomicFiles` | abstract: updates that happen in one step or not at all | |
| `Jlfs` | `fs.rs`, its use in `main.rs` | implements `AtomicFiles` |
| `Intent`, `MCIntent` | `intent.rs` | extends `Jlfs` |
| `Ota` | `ota.rs`, its use in `main.rs` | |
| `BlockPath`, `MCBlockPath` | `blk.rs`, `blkdrv.rs`, `sys_irq_wait` | |
| `Tensor`, `MCTensor` | `tensor.rs`, its syscalls | |
| `ModelStore` | `model.rs`, `mm/frames.rs`, mapping in `mm/paging.rs`, the fault path, the processes that sweep | |
| `Audit` | `audit.rs` | |
| `KvCache` | `kv.rs`, on the log's disk | extends `Audit` |
| `Windows` | `user/src/wm.rs`, as operators | |
| `Display` | `gpudrv.rs`, `inputdrv.rs`, `app.rs`, `display.rs`, the session in `main.rs` | extends `Windows` |
| `SchedulerProofs` | theorems about `Scheduler` and `Tickless` | extends `Tickless` |
| `IpcProofs`, `IntentProofs`, `OtaProofs`, `BlockPathProofs`, `DisplayProofs` | theorems about the module named | extends it |
| `StorageProofs` | theorems about `Audit` and `KvCache` | extends `KvCache` |
| `InferenceProofs` | theorems about `Tensor` and `ModelStore` | extends both, which is why the specification of the latter is `ModelSpec` |

### Scheduler

A section under `SCHED` is one step; what runs between two such sections is a
step of its own. `pc[c]` is where core `c` stands: `"run"` is the only point at
which it takes interrupts, the others are inside `schedule`, `finish_switch`, an
interrupt handler or the bring-up of the core. `tpc[t]` is where thread `t`
stands in the code that called the scheduler; it is kept while `t` is switched
out and `t` may continue on another core. The fields of a thread (state, claim,
pinning, token, whether its registers are saved, whose page tables it needs) and
the per-core block (current, the thread to release, the stack pointer, TTBR0)
are variables. A deadline passes, and an interrupt arrives, whenever they like:
nothing the module states depends on when.

Correctness: a stack is in use on one core (`OneCorePerStack`); `cpu_switch_to`
loads only contexts that were completely saved (`LoadsCompleteContext`); a thread
runs in its own address space (`AddressSpaceMatches`); `pick_next`, the unchecked
fallback to the idle thread included, returns only threads no other core claims
(`PicksOnlyFreeThreads`); no claim is left behind (`NoLeakedClaim`); a finished
thread stays finished (`ReapableForGood`); and a thread that waits is not passed
over: each decision that prefers another finds it nearer to the core's cursor
(`NobodyIsPassedOver`). The runs check the first, the third and the last two; the
others are parts of the proofs' inductive invariant. `ContextCustody` says the same
without the mechanism: a context is in memory or on one core and moves by being
stored whole or loaded whole. `ContextsInCustody` is the refinement.

### Tickless

Adds timers, the TICKLESS flag, pending reschedule interrupts and the idle
loop's `wfi`. Deadlines and timers are kept as ticks left, because the code only
ever compares them with the current tick. Each action is a `Scheduler` action
with what it does to timers and interrupts, or leaves the scheduler alone; so the
module implements `Scheduler`, and that is checked and proved (`Spec` as a
property of `TSpec`).

Correctness: a sleeper whose deadline comes has a core that will look
(`SleepersCovered`); no core waits in `wfi` past a thread it should run (`NoCoreSleepsThroughWork`); sleepers
wake and runnable threads get a core (`SleeperWakes`, `NoStarvation`).

### Capabilities and Ipc

A capability is its id: object and rights are fixed when it is minted, only the
tombstone belongs to the copy in a process's table. One slot per process.
`sys_send` and `sys_recv` are split where their locks are: lookup, then the
channel, then the wake-up; `kernel_main` may revoke at any point between. Of the
scheduler only its interface is kept.

Correctness: no receiver sleeps on a message (`NoLostWakeup`); revocation reaches
every descendant (`SubtreeIsDead`); each message in a queue was sent through an
unbroken chain of authority (`SendersWereAuthorised`); a revoked waiter is woken
unless it looked up before the revocation (`RevokedWaitersAreWoken`), and a
revoked process finishes at most the send it was in (`RevocationStopsSending`).

### Jlfs, Intent

The disk is a superblock, two checkpoint sectors and the log; a checkpoint is a
whole directory with its sequence number. Writes land in the order they are
issued; a write cut by power leaves the old sector or a torn one; one answered
with an error may have landed. The CRC is modelled by what it decides: a torn
checkpoint does not decode. A machine with a display mounts at boot and formats
when that fails. One without goes through the crash test of `stage3c_demo` from
boot to boot: the phase in its marker sector decides. Phase 0, which is also what a
marker that is missing or torn reads as, formats without looking and writes a file,
and then the marker; phases 1 and 2 write the next marker and then a file with the
power cut on purpose; phase 3 writes once more; none of them formats. The error of
writing the marker is ignored. Whoever has an `Fs` drops it after any error. Intents
run once the test is over; they record the directory entry a
file had before each step and put the entries back, newest first; the registry
is in memory and a power cut forgets it.

Correctness: an update is atomic and, once answered "ok", durable
(`UpdatesAreAtomic`, the refinement of `AtomicFiles`). This holds while the
directory is *settled*: on a machine with a display from the start, without one from
the moment the marker is on the disk. Before that `AtomicFiles` allows its owner to
start over, because the code does (section 5). What a remembered entry
points at is never overwritten (`StepsIntact`); a finished undo leaves every file
as it was before the intent (`UndoRestores`).

The module relies on one thing from the block path: a write the client gave up
is done before any later request is looked at. `BlockPath` shows this for a
device that answers while the driver waits or not at all, and shows how it
fails otherwise (section 5).

### Ota

One device from its first boot on: the control sector with its two slots, the
try counter and the rollback, `boot()` split at each disk request, confirmation
when the system came up, and the two updates `main.rs` offers (the first is one
that does not come up). A slot's image is its version; a slot half written holds
none. Digests are modelled by what comparing them decides.

Correctness: as long as the control sector can be read at boot, a system that came
up once stays bootable over power cuts, failed writes and slots that cannot be read
(`ProvenSystemRemains`); a slot on probation is booted at most
`MAX_TRIES` times plus once per lost write (`TriesAreSpent`); every probation
ends (`ProbationEnds`). The invariant also shows that the branch of the rollback
that gives the same slot one more try, having no other good one, is never taken
from a device that was initialised.

### BlockPath

Kernel threads behind the mutex `IN_FLIGHT`, a request and a reply channel, the
driver's loop with its single buffer and its `wait()`, the interrupt with its
counter, and the device. The device reads a header when it takes a chain off the
ring and moves the data when it carries it out. Clients may time out whenever
they find no reply: nothing bounds how long the driver process waits for a core.

Correctness: an answer of success means that this request was
carried out, or for a read that this was the sector's contents
(`RepliesAreTrue`); a reply dropped for its tag belongs to a request that timed
out (`OnlyLateRepliesAreDropped`); the mutex is held exactly while a call is in its
round trip, so that every way out gives it back (`MutexHasAHolder`); leftover
interrupts end at most two of the waits of a request early, so that the driver's
patience is really spent (`PatienceIsSpent`; two is reached).

### Tensor

The device, its jobs and its one worker thread, and the clients that submit and
wait. A section under `DEVICE` is one step; the wake-ups after it and the segment
are steps of their own. A job is its class, its segments, its deadline, its energy
and its cap; a refusal is a job that is recorded and never queued. Time is device
time: it passes while a segment runs and while the device has nothing to do, and
each unit of it sheds heat. `pick` is the order by class, deadline and age.

Correctness: neither the worker nor a waiter sleeps through its wake-up
(`NoLostWakeup`); admission's arithmetic holds up: the device works for others no
more than admission counted in front of the job, plus what later arrivals that
outrank it bring, plus the one segment of lower class that was running
(`DelayIsAsPromised`); every wait ends, over a job stopped by its cap too
(`WaitersReturn`).

### ModelStore

Two processes open, map and sweep one model whose pages are read when touched.
`fault()` is split where its locks are: look, claim, allocate, fill, publish,
map. `frames::alloc` and `frames::free` have no lock and are two steps each, the
loads and the stores, and calls of different processes and of `reclaim` overlap as
they like; `reclaim` holds the store's lock over its loop, a page at a time. It
takes no notice of faults that have a frame and have still to map it. `Staged` adds
what `stage5a_demo` waits for before it starts the second process and before it
reclaims.

Both of these are races of the code. The module takes them and remembers them in
two ghosts that no action reads, with one exception: `overlap` is set when somebody
enters the allocator while another is in it, and from then on the word `alloc` takes
for the next link is any frame's address, since the frame may be in use and hold
anything (a word that is no frame's address is left out); `late` holds the pairs
of a process and a page that was dropped when the process was about to map it.

Correctness: the only mapping a reclaim leaves behind is a late one, and every other
entry of a page table is the resident page's frame (`OnlyLateMappingsDangle`); until
calls of the allocator have overlapped, every frame belongs to exactly one of the
free list, a page, a page table and a fault that is filling it, after every failed
read and every exhausted allocation (`OneOwnerUnlessOverlapped`); whatever the
allocator does, a page has one reader and is marked as loading exactly while it has
one (`PageHasOneReader`); every fault ends, with the page or with the process
(`FaultsEnd`). Without the exception for late mappings the first is
`MappedPagesAreResident`, what the comment in `reclaim` asks for, and `freed_mapping`
shows that it fails.

### Audit, KvCache

One disk: the log's sectors, then the spill region. A record is its sequence
number, its predecessor's hash, its own, and whether all of it is there; a hash is
the number of the append that computed it, so that comparing two decides what it
decides in the code. `append` is a read of the sector and a write of it; `init`
looks for the end; the self-test alters a record and puts it back. A block of the
cache is in a frame, being written out, or in a sector; `make_room` writes out
one block at a time, between two of its looks at the cache. A request may fail,
and a failed write may have landed; the power may fail anywhere and leave a record
torn. `kernel_main` is the only caller of both.

Correctness: a record that was answered for stays (`RecordsAreKept`);
verification points at the first damaged record and at nothing else, with every
acknowledged record in the part it covers (`VerifyIsExact`); a block's contents
are its own wherever it is, and the count the budget is held against is right
(`BlocksAreIntact`); the budget is exceeded only when the region is full or a
write-out failed (`BudgetHolds`).

### Windows, Display

The screen is a column of points and a rectangle an interval of it: this keeps
the bounding box, the overlap of windows and the title bar above the rows. A
message is handled in one step, since the server shares nothing but its channels;
an application's sends are steps of their own. The kernel's plan is the sequence
of requests in `stage4_setup`, `show_status_screen`, `stage4_report` and
`shutdown`, with each round trip's send, answer and time-out. A frame of the
status screen fits one batch of commands and is its version; an application's
drawing fits one message and is its rows.

Correctness: wherever the screen is neither damaged nor behind a failed transfer,
it shows what background and windows amount to (`ScreenIsCurrent`); an
application's rows are seen as it has them once its messages are handled
(`RowsAreSeen`); the windows open in the order the kernel wants, however late its
answers (`OpensInOrder`); a tap goes to the application seen at that point, unless
the screen is about to change there (`TapsGoWhereSeen`).

## 3. Runs

| Run | Instance | Shows |
|---|---|---|
| `tickless_boot` | 2 cores, 3 threads, sleeps ≤ 1, no idle backstop | from the first instruction after `sched::init`, with a late or refused core: the switch discipline, its refinement, the implementation of `Scheduler`, and that sleepers wake and nobody starves |
| `tickless_steady` | 2 cores up, 4 threads, sleeps ≤ 2, idle ≤ 3 | nobody is left without a timer or a core to look; round robin |
| `ipc` | 2 processes, 1 channel, 3 capabilities, queue ≤ 2 | no lost wake-up, authority, revocation |
| `jlfs` | 2 names, 2 values, directory of 1, log of 3, writes ≤ 2, 5 checkpoints with a display and 3 without (`MaxTestSeq`), 2 steps | atomic updates and undo over power cuts and errors, with the crash test and without |
| `ota` | `MAX_TRIES` = 2 as in the code, 3 failed requests | no device is lost, every probation ends |
| `block_path` | 2 threads, 3 calls, 1 sector, 2 values, 3 looks | answers are true, only late replies are dropped, the mutex comes back |
| `slow_device` | 1 thread, 2 calls, 2 sectors, 1 look | violation, section 5 |
| `tensor` | 1 process and `kernel_main`, 3 submissions of 4 kinds | wake-ups, admission, every wait ends |
| `model_store` | 2 processes, 2 pages, 3 frames, 1 failed read, 1 reclaim, allocator calls overlapping | what a reclaim leaves mapped, owners of frames, readers of pages, every fault ends |
| `freed_mapping` | the same with 4 frames, `stage5a_demo`'s order | violation, section 5 |
| `storage` | log of 4 records, 5 appends, 2 sessions of 2 blocks, budget 2, region of 3, 1 failed request, 1 power cut | log and cache on one disk |
| `display` | 5 points, 2 overlapping windows, 2 input groups, 1 fault | the display session |

Why the bounds are enough to be interesting. Two cores and one thread more than
there are idle threads and `kernel_main` give a thread that migrates, a core that
leaves it while the other wants it, and an idle fallback; the proofs cover the
rest. The fair run has two threads that compete for a core; that a third is not
passed over is `NobodyIsPassedOver`, which is proved. Sleeps of up to two ticks
and an idle sleep of three let a deadline come before, at and after a timer armed
for something else. Three capabilities give a root, a child and a grandchild, so
that a revocation has to reach someone who was never told. A log of three sectors
fills up within a write of two; a directory of one entry refuses a second file;
five checkpoints use both checkpoint sectors twice over; in the crash test three are
enough for its two committed writes, with the format before them. `stage5a_demo` is
the only caller of `reclaim` and calls it once. Three failed requests can
lose the spent try, the confirmation and the rollback of one update. Three calls
give a timed-out request, its late reply, and a third call that finds what the
second left. The driver looks eight times; three is one more than the early-ended
waits that can occur. Three submissions give a job that runs, one that waits
behind it and one that overtakes; the offers are the ones the programs make:
interactive with a deadline, background with and without one, and capped, and heat
and throttle point are such that each kind is also refused. Two processes with two
pages need two frames for the pages and two for the tables: with three there is a
fault that gets none, on each of the two ways. Five appends overflow a log of four
records in two sectors; four blocks are twice the budget and one more than the
spill region takes. Two groups of input are a press with a release, a move or a
second press, at a point of one window and at one of both; the fault is a transfer
that fails or an answer that is late. Model values are permuted where no definition
tells them apart (`MCIntent`, `MCBlockPath`).

Deadlock is not checked where the system really stops: in `block_path` and
`slow_device` the calls run out, in `tensor`, `model_store` and `freed_mapping`
the submissions and sweeps do, `storage` ends with the power cuts and appends, and
`display` ends when the machine is turned off.

## 4. Fairness

* `Tickless`: the clock goes on and a core that is inside the kernel with
  interrupts masked finishes its path (weak). Timer and reschedule interrupts,
  and the steps of a running thread, are strongly fair: they are enabled and
  disabled as a core masks interrupts or switches, and a pending interrupt is
  delivered by the hardware in one of the unmasked stretches.
* `Ipc`: each syscall step is weakly fair: the scheduler runs a runnable thread
  (`NoStarvation`). Nobody is obliged to send or to revoke.
* `Ota`: power comes back and a boot that is left alone ends (weak); each step of
  a boot is strongly fair, that is, power is not cut at the same step for ever.
  `boot()` is a straight line, and a device that loses power at one and the same
  instruction of every boot cannot be helped.
* `Tensor`: the worker and a client inside a system call are runnable threads
  (weak); a client that looks at the clock again and again finds its time over
  (strong). Nobody is obliged to submit.
* `ModelStore`: a process in a fault is a runnable thread whose looks at the
  store's lock, the allocator and a page that is loading come and go with what
  others do (strong); a reclaim goes on (weak).
* `BlockPath`, `KvCache` and `Display` state no liveness: nothing in the code
  bounds the time a process waits, and the power may stay off.

## 5. Findings

* **A freed frame is mapped** (`freed_mapping`, `kernel/src/model.rs:214`).
  `fault()` finds the page resident, drops the store's lock and maps the frame; a
  reclaim in between has unmapped the page from everybody who had it and freed the
  frame. `stage5a_demo` waits for the fault counter before it reclaims, and the
  counter is incremented before the mapping. The comment at `model.rs:308` calls
  this "the worst kind of bug".
* **A late completion answers the next request** (`slow_device`,
  `user/src/blkdrv.rs:267`). After giving up, the driver reuses the descriptors and
  the buffer the device still holds; from then on each answer is one behind, with
  the right tag.

* **A file is formatted away before the marker is written**
  (`kernel/src/main.rs:917-931`). Without a display, phase 0 formats without trying
  to mount. When the power fails between the answered write and a durable
  `write_phase(1)`, when it tears the marker's sector at any phase, or when the
  ignored error of `write_phase` hides that nothing was written, the next boot loses
  a file whose write was answered; `format` then also blanks the first sector of the
  action log and the control sector of the updates. The crash test means to start
  over, so this is stated in the abstract specification (`StartOver`, `Unsettle`)
  and not as a violation; `UpdatesAreAtomic` shows that on a disk
  whose reads succeed there is no other way to lose a file. `Audit` and `Ota` begin after the last format and do not cover it.

More disagreements that an instance shows when a switch is set; the runs above
leave the switch off:

* `Abandons = TRUE` in `TicklessSteady.cfg`: `cancel_block`
  (`kernel/src/sched/mod.rs:486`) makes a thread runnable without the kick every
  other wake-up sends. A core that surveyed the table while the thread was blocked
  sleeps its longest; the thread goes on to `sleep_ticks` and its deadline passes
  with no timer armed (`SleepersCovered`). The idle backstop limits the damage to
  `MAX_IDLE_TICKS`. The boot run takes the step.
* `ReadFaults = TRUE` in `Jlfs.cfg`: every failure of mount is treated as a fresh
  disk, so that one read error reformats a disk with files on it
  (`kernel/src/main.rs:908`, `UpdatesAreAtomic`).
* `ControlReadFaults = TRUE` in `Ota.cfg`: an unreadable control sector is taken
  for a fresh device by `ota::boot` (`ProvenSystemRemains`).
* `ScanFaults = TRUE` in `Storage.cfg`: `audit::init` takes the first sector it
  cannot read for the end of the log, and later appends go over acknowledged
  records (`VerifyIsExact`, then `RecordsAreKept`).

Also met while modelling:

* two cores in `frames::alloc` at once get the same frame, and one in `alloc` beside
  one in `free` can lose a frame or hand out a used one (`kernel/src/mm/frames.rs:96`,
  `:158`). `ModelStore` takes these steps; what holds in spite of them is
  `PageHasOneReader`, `FaultsEnd` and the first half of `OnlyLateMappingsDangle`,
  and `OneOwnerUnlessOverlapped` says that nothing else upsets the frames;
* `derive_for` (`kernel/src/cap.rs:139`) derives from a capability that was revoked
  as from any other. `kernel_main` never installs the result, which is why
  `SubtreeIsDead` holds: `StartProcess` gives no process a capability whose line has
  been cut. `revoke` walks over the tables of all processes while `lookup_cap` reads
  without the lock; one step stands for the walk because a lookup reads one slot of
  its own process, and so falls before or after the walk came to it;
* a receiver revoked between its lookup and `recv_or_prepare`
  (`kernel/src/syscall.rs:162`) waits for ever, on a channel whose waiters have
  already been woken: the exception `RevokedWaitersAreWoken` makes;
* a message taken off the queue is lost when copying it to the receiver faults;
* leaving the kick out of the wake path altogether violates none of the
  properties of `tickless_steady` that allow a tick's delay: what the kick buys
  there is latency;
* dropping the `Fs` after an error is what keeps a checkpoint that landed in
  spite of its error from being overwritten: no code reuses one today;
* the time-out of `sys_tensor_wait` is looked at before the thread blocks and
  nothing wakes it when the time comes: it limits the number of looks, not the
  wait. A wait for a job that does not exist never blocks and ends by the clock;
* admission does not count the segment of lower class that is running: the
  `+ 1` in `DelayIsAsPromised`; a job stopped by its cap counts as preempted by
  the next; the list of jobs is never shortened;
* a process whose page table cannot be extended is ended with the page resident:
  the frame stays the store's;
* reading a block back when the spill region is full takes the cache over its
  budget; the region is never reclaimed, and the sector of a failed write-out is
  not used again; a prefix block is spared only while it has been idle for less
  than 8000 ticks;
* the self-test's alteration stays on the disk when power fails, or a request of
  the second call does, before it is put back;
* a tap on a title bar raises the window without composing: the screen shows the
  old order until somebody composes. The damage says so, and `TapsGoWhereSeen`
  excludes these points;
* a move of a pressed pointer is sent as another press and routed as another tap;
* the damage is cleared whether the transfer succeeded or not;
* window commands are not clipped to their window; the repository's applications
  stay inside theirs;
* after a time-out each answer of the display server is taken for the answer to
  the next request. The number of windows only grows, so the kernel waits too long
  and never too short.

## 6. Proofs

All theorems hold for every value of the constants that satisfies the modules'
named assumptions. Each rests on an inductive invariant, proved by one case per
action; TLC checked the invariants on the runs' instances first. Where a theorem
assumes more of a constant it says so with `ASSUME`. Four of these switches are
about the environment: `ReadFaults`, `ControlReadFaults` and `ScanFaults` let a read
fail that the code takes for a blank disk, and `SlowDevice` is a device that answers
after the driver has given up. The fifth, `Abandons`, is the program's own step: a
wait given up by `cancel_block`. `kernel_main` turns TICKLESS on only in
`stage7a_demo`, where nobody waits that way; for a machine that does both, the
theorems that assume it say nothing. Section 5 or the run that sets the switch shows
what happens then.

* `SchedulerProofs`, `Scheduler`. `IInv` is `TypeOK` and `SwitchInvariant`. The
  safety properties are not inductive by themselves: that two cores do not share a
  stack depends on the claim, the claim on `current` and the thread waiting to be
  released, and these on where each core is in its switch. `SwitchInvariant` says
  how they agree at each `pc`, in named parts (cores, offline cores, claims, saved
  contexts, idle threads, the table, bring-up). From it: `OneCorePerStack`,
  `LoadsCompleteContext`, `AddressSpaceMatches`, `PicksOnlyFreeThreads`,
  `NoLeakedClaim`, `ReapableForGood`, the refinement of `ContextCustody`, and
  `NobodyIsPassedOver`: the distance of a waiting thread from the cursor, modulo the
  length of the table, shrinks with every decision for somebody else.
* `SchedulerProofs`, `Tickless`. `TSpec` implies the scheduler's `Spec`, so all of
  the above carries over to the machine with timers. Where no wait is given up
  (`~Abandons`), `ClockInv` adds that a core which is not within a tick of its next
  interrupt has nothing runnable to miss and a timer no later than any deadline.
  From it `SleepersCovered` and `NoCoreSleepsThroughWork`. The assumption is
  needed for this argument, not a convenience: `cancel_block` makes a thread
  runnable and tells no core, which is the only step that turns a core's survey
  stale behind its back.
* `IpcProofs`. `NoLostWakeup` is strengthened by who is at which point with which
  channel, and by the ghost `stale` (those who looked before they were revoked).
  From it: `NoLostWakeup`, `RevokedWaitersAreWoken`, `RevocationStopsSending`.
  `SubtreeIsDead` and `SendersWereAuthorised` speak of a capability's `Lineage`,
  a recursive function of the ledger. That its equation has exactly one solution is
  itself part of the invariant and is extended with every capability minted; the
  rest says that along a line the channel stays the same and the rights only
  shrink, that a cut line has no live holder, and that what is queued was sent with
  a capability that allowed it.
* `IntentProofs`, assuming that reads succeed while mounting (`~ReadFaults`; with
  them `UpdatesAreAtomic` fails). The invariant relates the two checkpoints,
  what is in memory and what a mount would find: the newest checkpoint that
  decodes is what is in memory or the one being written, the log below its tail
  is what its entries point at, and what intents remember lies below the tail.
  From it: `StepsIntact`, `UndoRestores`, and the refinement of `AtomicFiles`. The
  boot without a display is covered: formatting is a `StartOver` of the abstract
  directory, which it allows only while it is not settled, so the proof has to show
  that no boot formats once the marker is on the disk, and that one with a display
  formats only a disk on which no file could be found.
* `OtaProofs`, assuming that the control sector can be read
  (`~ControlReadFaults`). `ProvenSystemRemains` and `TriesAreSpent` are
  strengthened by: what `boot()` holds in memory is what is on the disk or one
  update ahead (`ActsOnTheDisk`), the slot being written is never the one in use
  (`WritesBeside`), and lost writes are paid from the failed requests.
* `BlockPathProofs`. `BaseInv` says who holds the client's mutex, which call a
  thread is in and how much of the driver's patience is left; `PatienceIsSpent`,
  `OnlyLateRepliesAreDropped` and `MutexHasAHolder` follow for every device.
  `TruthInv` adds what the tags, the waiting client, the descriptors and the data buffer are about; it needs
  a device that answers within the driver's patience (`~SlowDevice`), and gives
  `RepliesAreTrue`: an answer of success is about this request.
* `StorageProofs`. The log's sectors are read as one tape: the answered records are
  a chain from its first place, what `init` takes for the tail is its end, and what a
  call in progress has read is still so.
  `RecordsAreKept` and `VerifyIsExact` follow when the scan at boot can read the
  log (`~ScanFaults`). The types hold without this assumption, so the log and the
  spill region stay apart in any case, and with them the two properties of the
  cache: every block is in one place, whose contents are its own, and the count in
  use is the number of frames. `BudgetHolds` needs a budget of at least one block,
  which `kv.rs` has.
* `InferenceProofs`, `Tensor`. `NoLostWakeup` is strengthened by who can be marked
  as blocked: the worker only on its way into `block` or in it, a client only past
  `finished_or_prepare` and for a job that exists. For `DelayIsAsPromised` the
  ghost `slack` is compared with a number of units, one for each segment still to
  be run of a job in front and one for a segment that is running: every segment run
  for others takes a unit away, and nobody gets in front without being counted. The
  sum that admission computes is a fold over a set; it is shown to be the
  cardinality of the set of units, by induction over finite sets.
* `InferenceProofs`, `ModelStore`, for every interleaving of the faults, the
  allocator and `reclaim`. A process in a fault holds the page and the frame its
  place says, and whoever reads a page is the one that marked it: `ReadInv`, and from
  it `PageHasOneReader`. `FrameInv` says that as long as nothing has overlapped, what
  a call of the allocator has loaded is still so when it stores, the free list is a
  stack of distinct frames that the links spell, and each frame has one kind of owner
  and one owner of that kind; each step moves at most one frame, and a step that
  overlaps another ends the obligation. From it `OneOwnerUnlessOverlapped`, where the
  recursive walk along the list is shown to find the stack. `MapInv` gives
  `OnlyLateMappingsDangle`: every process with a mapping is one that `reclaim` knows
  of, a fault about to map has the resident frame or is in `late`, and the frame of a
  resident page is not written or freed while it is.
* `DisplayProofs`. A state of the window manager has every window below `next_z`.
  Each of its operations is `Covered`: outside the new damage every point's pixel
  is as it was, and the damage has only grown; the argument is that the highest
  window over a point is the same before and after, which needs `next_z` for a
  raise and for a new window. `compose` paints all of the damage, so what it
  clears is shown or in `lost`. Messages in flight are well-formed, and from this
  `ScreenIsCurrent` follows for any screen, number of windows and faults.
  `SessionInv` adds the windows (one to an application, up to date but for what is
  on its way to it), the introductions, and the order of opening: the first window
  is the shell's or nothing of the notes is started yet, and no answer, however
  late, counts more windows than there are. From it: `RowsAreSeen`, `OpensInOrder`
  and `TapsGoWhereSeen`, for a screen of at least one row. The names of the
  applications must differ from "root", the mark of the background.

Where a proof needs induction it takes the least counterexample of a set of
numbers, or of the cardinalities of a set of finite sets: the library's induction
theorems take an operator as a parameter, which the installed provers do not
instantiate.

Only model-checked: liveness (`SleeperWakes`, `NoStarvation`, `ProbationEnds`,
`WaitersReturn`, `FaultsEnd`), which this prover does not do. Every other property
of a passing run is a theorem.

## 7. Not modelled, and what could follow

Not modelled because there is nothing a state machine would add: the device
tree, ELF loading and measurement, register sequences of the interrupt
controller and the timer, the virtio feature negotiation of the three drivers,
exception dumps, the console, glyphs and text, the build scripts. The kernel heap
is one lock around a free list. The wrap of the ring's 16-bit used index and of
the 32-bit tag is not modelled: the driver compares indexes for equality only, and
a tag would have to be outlived by 2^32 requests. Counters that are only printed
are left out everywhere.

Left out of modelled components: more than one capability slot per process;
contiguous allocation (stacks, the heap, the drivers' buffers); the release of a
process's address space.

What could follow:

1. A weaker assumption than `~Abandons`: how long a thread that `cancel_block` made
   runnable can be missed by cores that counted it as blocked.
2. What remains true of the log after a scan that could not read a sector.
3. `Display` with a second client of each kind, and windows in two dimensions.
