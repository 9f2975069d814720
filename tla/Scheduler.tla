----------------------------- MODULE Scheduler -----------------------------
(***************************************************************************)
(* The kernel scheduler: one thread table under one lock (SCHED), and a    *)
(* per-core block reached through TPIDR_EL1 (kernel/src/sched/mod.rs,      *)
(* sched/switch.s, smp.rs).                                                *)
(*                                                                         *)
(* Granularity.  A section executed under SCHED is one step.  What runs    *)
(* between two such sections is a step of its own, and pc[c] says where    *)
(* core c stands: "run" is the only point at which c takes interrupts;     *)
(* every other point is inside schedule(), inside an interrupt handler or  *)
(* in the bring-up of the core, with interrupts masked.  tpc[t] is where   *)
(* thread t stands in the code that called the scheduler; it survives      *)
(* being switched out, and being resumed by another core.                  *)
(*                                                                         *)
(* Time.  Here interrupts arrive whenever they are not masked and a        *)
(* deadline passes whenever the clock likes: nothing in this module        *)
(* depends on when.  Module Tickless adds the timers and the clock.        *)
(***************************************************************************)
EXTENDS Integers, FiniteSets

CONSTANTS
    NCpu,          \* cores in the device tree
    NThreads,      \* bound: the size the thread table may grow to
    Tokens,        \* what threads block on: channels, jobs, the device
    NoToken        \* the token of a thread that is not Blocked

ASSUME SchedulerAssumption ==
    /\ NCpu \in Nat \ {0}
    /\ NThreads \in Nat /\ NThreads >= NCpu + 1
    /\ NoToken \notin Tokens

Cpu == 0 .. (NCpu - 1)
Tid == 0 .. (NThreads - 1)
NoCpu == -1
NoTid == -1
Boot == 0           \* the thread kernel_main became

VARIABLES
    \* The thread table, under SCHED.
    len,            \* threads.len()
    state,          \* Thread.state, without its payload
    token,          \* the payload of Blocked
    on_cpu,         \* Thread.on_cpu
    affinity,       \* Thread.affinity
    ttbr0,          \* Thread.ttbr0: its own address space, or NoTid, the empty one
    \* struct Cpu, written by its own core only.
    current, idle, cursor, release_prev,
    \* What the hardware holds.
    pc,             \* where core c is
    sp,             \* the thread whose stack and registers core c is on
    saved,          \* threads whose Context in memory is complete
    space,          \* TTBR0_EL1 of core c
    \* Threads, and kernel_main's bring-up loop.
    tpc,
    late,           \* threads whose `until`, in sleep_ticks, is in the past
    starting        \* the core the bring-up loop is at

table == <<len, affinity, ttbr0>>
cpuvars == <<current, idle, cursor, release_prev>>
hw == <<sp, saved, space>>
vars == <<len, state, token, on_cpu, affinity, ttbr0, current, idle, cursor,
          release_prev, pc, sp, saved, space, tpc, late, starting>>

States == {"Absent", "New", "Runnable", "Sleeping", "Blocked", "Finished"}
\* "off": never started; "starting": CPU_ON was accepted; "online": counted
\* in ONLINE; "adopted": its idle thread exists, interrupts still masked.
PCs == {"off", "starting", "online", "adopted",
        "run", "resched", "save", "load", "finish"}
TPCs == {"run", "kick", "sleep", "prepared", "block", "exit", "waitcpu", "idle"}

TypeOK ==
    /\ len \in 2 .. NThreads
    /\ state \in [Tid -> States]
    /\ token \in [Tid -> Tokens \cup {NoToken}]
    /\ on_cpu \in [Tid -> Cpu \cup {NoCpu}]
    /\ affinity \in [Tid -> Cpu \cup {NoCpu}]
    /\ ttbr0 \in [Tid -> Tid \cup {NoTid}]
    /\ current \in [Cpu -> Tid] /\ idle \in [Cpu -> Tid] /\ cursor \in [Cpu -> Tid]
    /\ release_prev \in [Cpu -> Tid \cup {NoTid}]
    /\ pc \in [Cpu -> PCs]
    /\ sp \in [Cpu -> Tid \cup {NoTid}]
    /\ saved \in SUBSET Tid
    /\ space \in [Cpu -> Tid \cup {NoTid}]
    /\ tpc \in [Tid -> TPCs]
    /\ late \in SUBSET Tid
    /\ starting \in 1 .. NCpu

(***************************************************************************)
(* The state sched::init leaves: kernel_main adopted as thread 0 on core   *)
(* 0, its idle thread created and started.                                 *)
(***************************************************************************)
Init ==
    /\ len = 2
    /\ state = [t \in Tid |-> IF t < 2 THEN "Runnable" ELSE "Absent"]
    /\ token = [t \in Tid |-> NoToken]
    /\ on_cpu = [t \in Tid |-> IF t = Boot THEN 0 ELSE NoCpu]
    /\ affinity = [t \in Tid |-> IF t = 1 THEN 0 ELSE NoCpu]
    /\ ttbr0 = [t \in Tid |-> NoTid]
    /\ current = [c \in Cpu |-> 0]
    /\ idle = [c \in Cpu |-> IF c = 0 THEN 1 ELSE 0]
    /\ cursor = [c \in Cpu |-> 0]
    /\ release_prev = [c \in Cpu |-> NoTid]
    /\ pc = [c \in Cpu |-> IF c = 0 THEN "run" ELSE "off"]
    /\ sp = [c \in Cpu |-> IF c = 0 THEN Boot ELSE NoTid]
    /\ saved = {1}
    /\ space = [c \in Cpu |-> NoTid]
    /\ tpc = [t \in Tid |-> IF t = 1 THEN "idle" ELSE "run"]
    /\ late = {}
    /\ starting = 1

-----------------------------------------------------------------------------
(***************************************************************************)
(* schedule(): pick, claim, switch, release.                               *)
(***************************************************************************)

\* Mutant of Eligible: on_cpu is not consulted.
EligibleClaimedOrNot(t, c) == state[t] = "Runnable" /\ affinity[t] \in {NoCpu, c}

\* eligible(): a candidate for core c right now.
Eligible(t, c) ==
    /\ state[t] = "Runnable"
    /\ on_cpu[t] = NoCpu
    /\ affinity[t] \in {NoCpu, c}

\* The steps of the scan, counted from the core's cursor, that find a thread.
Hits(c) == {k \in 1 .. len :
              LET i == (cursor[c] + k) % len
              IN  i # idle[c] /\ i # current[c] /\ Eligible(i, c)}

\* Mutant of PickNext: the current thread comes first.
PickNextCurrentFirst(c) ==
    IF state[current[c]] = "Runnable" /\ current[c] # idle[c] THEN current[c]
    ELSE IF Hits(c) # {}
    THEN LET k == CHOOSE k \in Hits(c) : \A j \in Hits(c) : k <= j
         IN  (cursor[c] + k) % len
    ELSE idle[c]

\* pick_next(): the first eligible thread after the cursor; else carry on
\* with the current one if it can; else the core's idle thread, unchecked.
PickNext(c) ==
    IF Hits(c) # {}
    THEN LET k == CHOOSE k \in Hits(c) : \A j \in Hits(c) : k <= j
         IN  (cursor[c] + k) % len
    ELSE IF state[current[c]] = "Runnable" /\ current[c] # idle[c]
    THEN current[c]
    ELSE idle[c]

\* The locked half of schedule().  Nothing else to run: return.
StayOn(c) ==
    /\ pc' = [pc EXCEPT ![c] = "run"]
    /\ UNCHANGED <<on_cpu, current, cursor, release_prev>>

\* Mutant of ClaimNext: the thread being left is released at once.
ClaimNextAndRelease(c, next) ==
    /\ on_cpu' = [on_cpu EXCEPT ![next] = c, ![current[c]] = NoCpu]
    /\ release_prev' = [release_prev EXCEPT ![c] = current[c]]
    /\ cursor' = [cursor EXCEPT ![c] = next]
    /\ current' = [current EXCEPT ![c] = next]
    /\ pc' = [pc EXCEPT ![c] = "save"]

\* Mutant of ClaimNext: the cursor stays where it was.
ClaimNextFromTheStart(c, next) ==
    /\ on_cpu' = [on_cpu EXCEPT ![next] = c]
    /\ release_prev' = [release_prev EXCEPT ![c] = current[c]]
    /\ current' = [current EXCEPT ![c] = next]
    /\ pc' = [pc EXCEPT ![c] = "save"]
    /\ UNCHANGED cursor

\* Otherwise claim the next thread.  The one being left stays claimed too.
ClaimNext(c, next) ==
    /\ on_cpu' = [on_cpu EXCEPT ![next] = c]
    /\ release_prev' = [release_prev EXCEPT ![c] = current[c]]
    /\ cursor' = [cursor EXCEPT ![c] = next]
    /\ current' = [current EXCEPT ![c] = next]
    /\ pc' = [pc EXCEPT ![c] = "save"]

Schedule(c) ==
    /\ pc[c] = "resched"
    /\ LET next == PickNext(c) IN
       \/ next = current[c] /\ StayOn(c)
       \/ next # current[c] /\ ClaimNext(c, next)
    /\ UNCHANGED <<table, state, token, idle, hw, tpc, late, starting>>

\* Mutant of SaveContext: a kernel thread keeps the mappings it finds.
SaveContextLazily(c) ==
    /\ pc[c] = "save"
    /\ space' = IF ttbr0[current[c]] \notin {ttbr0[release_prev[c]], NoTid}
                THEN [space EXCEPT ![c] = ttbr0[current[c]]]
                ELSE space
    /\ saved' = saved \cup {sp[c]}
    /\ pc' = [pc EXCEPT ![c] = "load"]
    /\ UNCHANGED <<table, state, token, on_cpu, cpuvars, sp, tpc, late, starting>>

\* The address space, then the first half of cpu_switch_to: store the
\* callee-saved registers and the stack pointer of the thread being left.
SaveContext(c) ==
    /\ pc[c] = "save"
    /\ space' = IF ttbr0[current[c]] # ttbr0[release_prev[c]]
                THEN [space EXCEPT ![c] = ttbr0[current[c]]]
                ELSE space
    /\ saved' = saved \cup {sp[c]}
    /\ pc' = [pc EXCEPT ![c] = "load"]
    /\ UNCHANGED <<table, state, token, on_cpu, cpuvars, sp, tpc, late, starting>>

\* The second half: load the next thread's context and stand on its stack.
LoadContext(c) ==
    /\ pc[c] = "load"
    /\ sp' = [sp EXCEPT ![c] = current[c]]
    /\ saved' = saved \ {current[c]}
    /\ pc' = [pc EXCEPT ![c] = "finish"]
    /\ UNCHANGED <<table, state, token, on_cpu, cpuvars, space, tpc, late, starting>>

\* finish_switch(), on the new thread's stack: release the one left behind.
FinishSwitch(c) ==
    /\ pc[c] = "finish"
    /\ on_cpu' = [on_cpu EXCEPT ![release_prev[c]] = NoCpu]
    /\ release_prev' = [release_prev EXCEPT ![c] = NoTid]
    /\ pc' = [pc EXCEPT ![c] = "run"]
    /\ UNCHANGED <<table, state, token, current, idle, cursor, hw, tpc, late, starting>>

-----------------------------------------------------------------------------
(***************************************************************************)
(* Interrupts.  The timer's handler and the reschedule interrupt's handler *)
(* do the same to the thread table: wake_sleepers_and_survey(), schedule().*)
(***************************************************************************)
\* Mutant of Due: the deadline alone decides.
DueWhateverItsState == late

Due == {t \in late : state[t] = "Sleeping"}

Interrupt(c) ==
    /\ pc[c] = "run"
    /\ state' = [t \in Tid |-> IF t \in Due THEN "Runnable" ELSE state[t]]
    /\ pc' = [pc EXCEPT ![c] = "resched"]
    /\ UNCHANGED <<table, token, on_cpu, cpuvars, hw, tpc, late, starting>>

\* The clock moves past the deadlines of the threads in T.
InSleep == {t \in Tid \ late : tpc[t] = "sleep"}

ClockPasses(T) ==
    /\ late' = late \cup T
    /\ UNCHANGED <<table, state, token, on_cpu, cpuvars, pc, hw, tpc, starting>>

-----------------------------------------------------------------------------
(***************************************************************************)
(* What the thread running on core c does.  with_current() finds it by the *)
(* core's `current`.                                                       *)
(***************************************************************************)
Me(c) == current[c]

At(c, where) == pc[c] = "run" /\ tpc[Me(c)] = where
Goto(c, where) == tpc' = [tpc EXCEPT ![Me(c)] = where]
CallSchedule(c) == pc' = [pc EXCEPT ![c] = "resched"]
Become(c, st) == state' = [state EXCEPT ![Me(c)] = st]

\* yield_now()
YieldNow(c) ==
    /\ At(c, "run")
    /\ CallSchedule(c)
    /\ UNCHANGED <<table, state, token, on_cpu, cpuvars, hw, tpc, late, starting>>

\* sleep_ticks(n): mark, then loop on the clock.  `now`: n is zero.
SleepTicks(c, now) ==
    /\ At(c, "run")
    /\ Become(c, "Sleeping")
    /\ late' = IF now THEN late \cup {Me(c)} ELSE late \ {Me(c)}
    /\ Goto(c, "sleep")
    /\ UNCHANGED <<table, token, on_cpu, cpuvars, pc, hw, starting>>

\* The loop ends on the clock alone: the thread may go on while its state
\* still says Sleeping, until a sweep finds it.
SleepLoop(c) ==
    /\ At(c, "sleep")
    /\ \/ Me(c) \notin late /\ CallSchedule(c) /\ UNCHANGED tpc
       \/ Me(c) \in late /\ Goto(c, "run") /\ UNCHANGED pc
    /\ UNCHANGED <<table, state, token, on_cpu, cpuvars, hw, late, starting>>

\* prepare_block(token), by any thread but kernel_main's, which polls.
PrepareBlock(c, k) ==
    /\ At(c, "run") /\ Me(c) # Boot
    /\ Become(c, "Blocked")
    /\ token' = [token EXCEPT ![Me(c)] = k]
    /\ Goto(c, "prepared")
    /\ UNCHANGED <<table, on_cpu, cpuvars, pc, hw, late, starting>>

\* cancel_block(): the condition held after all.
CancelBlock(c) ==
    /\ At(c, "prepared")
    /\ Become(c, IF state[Me(c)] = "Blocked" THEN "Runnable" ELSE state[Me(c)])
    /\ token' = [token EXCEPT ![Me(c)] = NoToken]
    /\ Goto(c, "run")
    /\ UNCHANGED <<table, on_cpu, cpuvars, pc, hw, late, starting>>

\* block(token): schedule(), look whether still blocked, again.
Block(c) ==
    /\ At(c, "prepared")
    /\ Goto(c, "block")
    /\ CallSchedule(c)
    /\ UNCHANGED <<table, state, token, on_cpu, cpuvars, hw, late, starting>>

BlockLoop(c) ==
    /\ At(c, "block")
    /\ \/ state[Me(c)] = "Blocked" /\ CallSchedule(c) /\ UNCHANGED tpc
       \/ state[Me(c)] # "Blocked" /\ Goto(c, "run") /\ UNCHANGED pc
    /\ UNCHANGED <<table, state, token, on_cpu, cpuvars, hw, late, starting>>

\* wake_all_on(token), under the lock; with somebody woken, kick_others().
Waiters(k) == {t \in Tid : state[t] = "Blocked" /\ token[t] = k}

WakeAllOn(c, k) ==
    /\ At(c, "run")
    /\ Waiters(k) # {}
    /\ state' = [t \in Tid |-> IF t \in Waiters(k) THEN "Runnable" ELSE state[t]]
    /\ token' = [t \in Tid |-> IF t \in Waiters(k) THEN NoToken ELSE token[t]]
    /\ Goto(c, "kick")
    /\ UNCHANGED <<table, on_cpu, cpuvars, pc, hw, late, starting>>

\* kick_others(), outside the lock.  What it sends is in module Tickless.
KickOthers(c) ==
    /\ At(c, "kick")
    /\ Goto(c, "run")
    /\ UNCHANGED <<table, state, token, on_cpu, cpuvars, pc, hw, late, starting>>

\* thread_exit(), from SYS_EXIT, from the trampoline or from a fatal fault.
ThreadExit(c) ==
    /\ At(c, "run") /\ Me(c) # Boot
    /\ Become(c, "Finished")
    /\ Goto(c, "exit")
    /\ UNCHANGED <<table, token, on_cpu, cpuvars, pc, hw, late, starting>>

ExitLoop(c) ==
    /\ At(c, "exit")
    /\ CallSchedule(c)
    /\ UNCHANGED <<table, state, token, on_cpu, cpuvars, hw, tpc, late, starting>>

\* idle_loop(): after each wfi, schedule().
IdleLoop(c) ==
    /\ At(c, "idle")
    /\ CallSchedule(c)
    /\ UNCHANGED <<table, state, token, on_cpu, cpuvars, hw, tpc, late, starting>>

-----------------------------------------------------------------------------
(***************************************************************************)
(* kernel_main, the only thread that starts cores and creates threads.     *)
(***************************************************************************)
BootAt(c, where) == At(c, where) /\ Me(c) = Boot

\* start_cpu(): the firmware accepts the next core; wait to see it.
StartCpu(c) ==
    /\ BootAt(c, "run") /\ starting \in Cpu
    /\ pc' = [pc EXCEPT ![starting] = "starting"]
    /\ Goto(c, "waitcpu")
    /\ UNCHANGED <<table, state, token, on_cpu, cpuvars, hw, late, starting>>

\* The firmware refuses it: the core stays off.
CpuOnRefused(c) ==
    /\ BootAt(c, "run") /\ starting \in Cpu
    /\ starting' = starting + 1
    /\ UNCHANGED <<table, state, token, on_cpu, cpuvars, pc, hw, tpc, late>>

\* The wait ends when ONLINE has moved, or after a bounded number of spins.
StartCpuReturns(c) ==
    /\ BootAt(c, "waitcpu")
    /\ starting' = starting + 1
    /\ Goto(c, "run")
    /\ UNCHANGED <<table, state, token, on_cpu, cpuvars, pc, hw, late>>

\* spawn_pinned() with no affinity: the thread exists, and is New.  The last
\* two conjuncts are bounds: one New thread, room for the cores to come.
Spawn(c) ==
    /\ BootAt(c, "run") /\ starting \notin Cpu
    /\ len < NThreads
    /\ len' = len + 1
    /\ state' = [state EXCEPT ![len] = "New"]
    /\ saved' = saved \cup {len}
    /\ UNCHANGED <<token, on_cpu, affinity, ttbr0, cpuvars, pc, sp, space, tpc, late, starting>>
    /\ \A t \in Tid : state[t] # "New"
    /\ len + Cardinality({d \in Cpu : pc[d] \in {"starting", "online"}}) < NThreads

\* attach_process(), for a user thread, between spawn_stopped and start.
AttachProcess(c, t) ==
    /\ BootAt(c, "run")
    /\ state[t] = "New" /\ ttbr0[t] = NoTid
    /\ ttbr0' = [ttbr0 EXCEPT ![t] = t]
    /\ UNCHANGED <<len, state, token, on_cpu, affinity, cpuvars, pc, hw, tpc, late, starting>>

\* start(): release it to the run queue, then kick the other cores.
Start(c, t) ==
    /\ BootAt(c, "run")
    /\ state[t] = "New"
    /\ state' = [state EXCEPT ![t] = "Runnable"]
    /\ Goto(c, "kick")
    /\ UNCHANGED <<table, token, on_cpu, cpuvars, pc, hw, late, starting>>

(***************************************************************************)
(* secondary_main(), on the core that was started.                         *)
(***************************************************************************)
ComeOnline(c) ==
    /\ pc[c] = "starting"
    /\ pc' = [pc EXCEPT ![c] = "online"]
    /\ UNCHANGED <<table, state, token, on_cpu, cpuvars, hw, tpc, late, starting>>

\* adopt_as_idle(): the context the core booted on becomes its idle thread.
AdoptAsIdle(c) ==
    /\ pc[c] = "online"
    /\ len < NThreads
    /\ len' = len + 1
    /\ state' = [state EXCEPT ![len] = "Runnable"]
    /\ on_cpu' = [on_cpu EXCEPT ![len] = c]
    /\ affinity' = [affinity EXCEPT ![len] = c]
    /\ current' = [current EXCEPT ![c] = len]
    /\ idle' = [idle EXCEPT ![c] = len]
    /\ cursor' = [cursor EXCEPT ![c] = len]
    /\ sp' = [sp EXCEPT ![c] = len]
    /\ tpc' = [tpc EXCEPT ![len] = "idle"]
    /\ pc' = [pc EXCEPT ![c] = "adopted"]
    /\ UNCHANGED <<token, ttbr0, release_prev, saved, space, late, starting>>

\* time::start(), enable_reschedule_ipi(), interrupts unmasked.
EnableInterrupts(c) ==
    /\ pc[c] = "adopted"
    /\ pc' = [pc EXCEPT ![c] = "run"]
    /\ UNCHANGED <<table, state, token, on_cpu, cpuvars, hw, tpc, late, starting>>

-----------------------------------------------------------------------------
Switching(c) == Schedule(c) \/ SaveContext(c) \/ LoadContext(c) \/ FinishSwitch(c)

Blocking(c) ==
    \/ \E now \in BOOLEAN : SleepTicks(c, now)
    \/ SleepLoop(c)
    \/ \E k \in Tokens : PrepareBlock(c, k) \/ WakeAllOn(c, k)
    \/ CancelBlock(c) \/ Block(c) \/ BlockLoop(c) \/ KickOthers(c)

Leaving(c) == YieldNow(c) \/ ThreadExit(c) \/ ExitLoop(c) \/ IdleLoop(c)

KernelMain(c) ==
    \/ StartCpu(c) \/ CpuOnRefused(c) \/ StartCpuReturns(c) \/ Spawn(c)
    \/ \E t \in Tid : AttachProcess(c, t) \/ Start(c, t)

Secondary(c) == ComeOnline(c) \/ AdoptAsIdle(c) \/ EnableInterrupts(c)

Next ==
    \/ \E c \in Cpu : \/ Switching(c) \/ Interrupt(c) \/ Blocking(c)
                      \/ Leaving(c) \/ KernelMain(c) \/ Secondary(c)
    \/ \E T \in SUBSET InSleep : T # {} /\ ClockPasses(T)

Spec == Init /\ [][Next]_vars
-----------------------------------------------------------------------------
(***************************************************************************)
(* Properties.                                                             *)
(***************************************************************************)

\* smp.rs, on release_prev: "two cores then run the same thread on the same
\* stack".  No two cores ever stand on the same stack, through any
\* interleaving of claims, context switches and releases.
OneCorePerStack ==
    \A c, d \in Cpu : c # d /\ sp[c] # NoTid => sp[c] # sp[d]

\* A context is only ever loaded once the core that left the thread has
\* finished storing it: what finish_switch's delayed release is for.
LoadsCompleteContext ==
    \A c \in Cpu : pc[c] = "load" => current[c] \in saved

\* "The new thread must not run a single instruction against the old one's
\* user mappings": whenever a core can execute the thread it stands on, its
\* TTBR0 is that thread's, although it is only written when it differs.
AddressSpaceMatches ==
    \A c \in Cpu : pc[c] \in {"run", "resched"} => space[c] = ttbr0[sp[c]]

\* pick_next falls back to the idle thread without asking eligible().  It is
\* right not to: whatever schedule() is about to claim is runnable, unclaimed
\* and allowed on this core.
PicksOnlyFreeThreads ==
    \A c \in Cpu : pc[c] = "resched" =>
        PickNext(c) = current[c] \/ Eligible(PickNext(c), c)

\* Every claim has a holder that will give it up: a thread whose on_cpu names
\* a core is what that core runs or what it is about to release.  A claim
\* nobody holds would keep its thread off every core for ever.
NoLeakedClaim ==
    \A t \in Tid : on_cpu[t] # NoCpu =>
        t \in {current[on_cpu[t]], release_prev[on_cpu[t]]}

\* How far thread t is in the scan core c would make now.
ScanSteps(c, t) == IF t > cursor[c] THEN t - cursor[c] ELSE t - cursor[c] + len

\* A thread core c could run and does not run now.
WaitsFor(t, c) == t < len /\ t \notin {idle[c], current[c]} /\ Eligible(t, c)

ScanGoesOn ==
    \A c \in Cpu, t \in Tid :
        pc[c] = "resched" /\ pc'[c] # "resched" /\ WaitsFor(t, c) =>
            /\ pc'[c] = "save" /\ current'[c] # idle[c]
            /\ current'[c] = t \/ ScanSteps(c, t)' < ScanSteps(c, t)

\* Why the shared table starves nobody: as long as somebody waits, schedule()
\* neither stays where it is nor falls back on the idle thread, and each time
\* it prefers another to a thread that waits that thread has come nearer to
\* the core's cursor, however many compete and whatever other cores claim.
NobodyIsPassedOver == [][ScanGoesOn]_vars

Reapable(t) == state[t] = "Finished" /\ on_cpu[t] = NoCpu

StaysReapable ==
    \A t \in Tid : Reapable(t) => Reapable(t)' /\ \A c \in Cpu : sp'[c] # t

\* Once a finished thread's claim has been released its stack is left for
\* good: no later step of any core runs, claims or wakes it, so the stack
\* could be freed ("freed when threads become reapable").
ReapableForGood == [][StaysReapable]_vars

-----------------------------------------------------------------------------
(***************************************************************************)
(* The inductive invariant behind them, in parts.                          *)
(***************************************************************************)
Adopted(c) == pc[c] \notin {"off", "starting", "online"}
InSwitch(c) == pc[c] \in {"save", "load", "finish"}

\* A core that runs the scheduler holds the thread it runs and, during a
\* switch, the one it is leaving; it stands on one of the two.
CoreInv ==
    \A c \in Cpu : Adopted(c) =>
        /\ on_cpu[current[c]] = c
        /\ release_prev[c] # NoTid <=> InSwitch(c)
        /\ InSwitch(c) => /\ release_prev[c] # current[c]
                          /\ on_cpu[release_prev[c]] = c
        /\ sp[c] = IF pc[c] \in {"save", "load"} THEN release_prev[c] ELSE current[c]
        /\ cursor[c] < len
        /\ space[c] = ttbr0[IF pc[c] = "save" THEN release_prev[c] ELSE current[c]]

\* A core that does not is nowhere.
OfflineInv ==
    \A c \in Cpu : ~Adopted(c) =>
        sp[c] = NoTid /\ release_prev[c] = NoTid /\ space[c] = NoTid

\* The only claims there are.
ClaimInv ==
    \A t \in Tid : on_cpu[t] # NoCpu =>
        /\ Adopted(on_cpu[t])
        /\ t \in {current[on_cpu[t]], release_prev[on_cpu[t]]}
        /\ state[t] \notin {"Absent", "New"}

\* Whose context is in memory: of a thread nobody claims, always.
SavedInv ==
    /\ \A t \in Tid : t < len /\ on_cpu[t] = NoCpu => t \in saved
    /\ \A c \in Cpu : Adopted(c) =>
        /\ current[c] \in saved <=> pc[c] \in {"save", "load"}
        /\ InSwitch(c) => (release_prev[c] \in saved <=> pc[c] \in {"load", "finish"})

\* The idle threads: pinned, at home, and never anything but runnable.
IdleInv ==
    /\ \A c \in Cpu : Adopted(c) =>
        /\ affinity[idle[c]] = c
        /\ state[idle[c]] = "Runnable"
        /\ tpc[idle[c]] = "idle"
    /\ \A t \in Tid : affinity[t] # NoCpu =>
        /\ Adopted(affinity[t])
        /\ t = idle[affinity[t]]
        /\ on_cpu[t] \in {NoCpu, affinity[t]}

\* The part of the table that does not exist yet.
TableInv ==
    \A t \in Tid :
        /\ t < len <=> state[t] # "Absent"
        /\ t >= len => /\ on_cpu[t] = NoCpu /\ affinity[t] = NoCpu
                       /\ ttbr0[t] = NoTid /\ t \notin saved

\* The cores kernel_main has not come to yet.
BringUpInv ==
    /\ \A c \in Cpu : c > starting \/ (c = starting /\ tpc[Boot] # "waitcpu") => pc[c] = "off"
    /\ tpc[Boot] = "waitcpu" => starting \in Cpu

\* What schedule() and its callers keep true at every step of every core.
SwitchInvariant ==
    /\ CoreInv /\ OfflineInv /\ ClaimInv /\ SavedInv /\ IdleInv /\ TableInv /\ BringUpInv
-----------------------------------------------------------------------------
(***************************************************************************)
(* The abstraction: where each thread's context is.                        *)
(***************************************************************************)
Memory == NCpu
Nowhere == NCpu + 1

\* In memory when its Context is complete, else with the core that stands
\* on its stack.
Place == [t \in Tid |-> IF t \in saved THEN Memory
                        ELSE IF \E c \in Cpu : sp[c] = t
                        THEN CHOOSE c \in Cpu : sp[c] = t
                        ELSE Nowhere]

Custody == INSTANCE ContextCustody
             WITH Threads <- Tid, Cores <- Cpu, place <- Place

\* The claim-and-release discipline of schedule() and finish_switch keeps
\* every context in one place and moves it whole.
ContextsInCustody == Custody!Spec
=============================================================================
