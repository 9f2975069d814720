------------------------------ MODULE Tickless ------------------------------
(***************************************************************************)
(* When the scheduler runs: each core's timer, the reschedule interrupt,   *)
(* the clock and the idle loop (kernel/src/time.rs, irq.rs, and the wake   *)
(* paths of sched/mod.rs).  Every action is an action of module Scheduler  *)
(* with what it does to the timers and interrupts added, or leaves the     *)
(* scheduler's own state alone, so that this module implements that one.   *)
(*                                                                         *)
(* Deadlines and timers are kept as ticks left: the code compares them     *)
(* with time::ticks() and with nothing else.  arm_next follows its survey  *)
(* in one step: the only thing it reads that another core may write is the *)
(* TICKLESS flag, which the survey does not look at.                       *)
(***************************************************************************)
EXTENDS Scheduler

CONSTANTS
    MaxSleep,      \* bound: longest sleep a thread asks for, in ticks
    MaxIdle,       \* MAX_IDLE_TICKS; Never: a machine without the backstop
    Abandons       \* whether a tensor wait ever times out into cancel_block()

Never == -1

ASSUME TicklessAssumption ==
    /\ MaxSleep \in Nat
    /\ MaxIdle \in (Nat \ {0}) \cup {Never}
    /\ Abandons \in BOOLEAN

VARIABLES
    timer,         \* ticks until core c's timer interrupt
    sgi,           \* the reschedule interrupt is pending at core c
    left,          \* ticks until thread t's deadline
    wfi,           \* where core c's idle thread is in its loop
    ipi_ready,     \* IPI_READY
    tickless       \* TICKLESS

clockvars == <<timer, sgi, left, wfi, ipi_ready, tickless>>
tvars == <<vars, clockvars>>

ClockInit ==
    /\ timer = [c \in Cpu |-> 1]
    /\ sgi = [c \in Cpu |-> FALSE]
    /\ left = [t \in Tid |-> 0]
    /\ wfi = [c \in Cpu |-> "towfi"]
    /\ tickless = FALSE

\* time::start() has run on core 0.
TInit == Init /\ ClockInit /\ ipi_ready = FALSE

-----------------------------------------------------------------------------
(***************************************************************************)
(* wake_sleepers_and_survey() and arm_next().                              *)
(***************************************************************************)

\* Mutant of Work: only what the sweep itself woke counts.
WorkJustWoken == Due # {}

\* What one pass finds: whether there is work once the due are awake, and
\* the earliest of those still asleep.
Asleep == {t \in Tid : state[t] = "Sleeping" /\ t \notin Due}
Work == Due # {} \/ \E t \in Tid : state[t] = "Runnable" /\ affinity[t] = NoCpu
Earliest == left[CHOOSE t \in Asleep : \A u \in Asleep : left[t] <= left[u]]

\* Mutant of ArmNext: with no work it goes for the cap.
ArmNextForTheCap(c) ==
    timer' = [timer EXCEPT ![c] = IF Work \/ ~tickless THEN 1 ELSE MaxIdle]

\* One quantum while there is work, else the earliest sleeper, else the cap.
ArmNext(c) ==
    timer' = [timer EXCEPT ![c] = IF Work \/ ~tickless THEN 1
                                  ELSE IF Asleep # {} THEN Earliest
                                  ELSE MaxIdle]

\* An interrupt ends the wfi the core may be in.
WakesFromWfi(c) ==
    wfi' = IF current[c] = idle[c] /\ wfi[c] = "wfi"
           THEN [wfi EXCEPT ![c] = "woken"] ELSE wfi

\* Mutant of TimerIrq: a tick that does not preempt.
TimerIrqWithoutSchedule(c) ==
    /\ timer[c] = 0 /\ pc[c] = "run"
    /\ state' = [t \in Tid |-> IF t \in Due THEN "Runnable" ELSE state[t]]
    /\ ArmNext(c) /\ WakesFromWfi(c)
    /\ UNCHANGED <<table, token, on_cpu, cpuvars, hw, pc, tpc, late, starting>>
    /\ UNCHANGED <<sgi, left, ipi_ready, tickless>>

TimerIrq(c) ==
    /\ timer[c] = 0
    /\ Interrupt(c) /\ ArmNext(c) /\ WakesFromWfi(c)
    /\ UNCHANGED <<sgi, left, ipi_ready, tickless>>

RescheduleIpi(c) ==
    /\ sgi[c] /\ sgi' = [sgi EXCEPT ![c] = FALSE]
    /\ Interrupt(c) /\ ArmNext(c) /\ WakesFromWfi(c)
    /\ UNCHANGED <<left, ipi_ready, tickless>>

\* A device interrupt owned by a driver process: counted and masked.  No
\* thread blocks on an interrupt's token, so nothing becomes runnable, and
\* the handler does not call schedule(); it does end a wfi.
DeviceIrq(c) ==
    /\ pc[c] = "run" /\ current[c] = idle[c] /\ wfi[c] = "wfi"
    /\ WakesFromWfi(c)
    /\ UNCHANGED <<vars, timer, sgi, left, ipi_ready, tickless>>

\* The counter advances one tick.
Expiring == {t \in InSleep : left[t] = 1}

ClockTick ==
    /\ \/ \E t \in Tid : left[t] > 0
       \/ \E c \in Cpu : timer[c] > 0
    /\ left' = [t \in Tid |-> IF left[t] > 0 THEN left[t] - 1 ELSE 0]
    /\ timer' = [c \in Cpu |-> IF timer[c] > 0 THEN timer[c] - 1 ELSE timer[c]]
    /\ \/ Expiring # {} /\ ClockPasses(Expiring)
       \/ Expiring = {} /\ UNCHANGED vars
    /\ UNCHANGED <<sgi, wfi, ipi_ready, tickless>>

-----------------------------------------------------------------------------
(***************************************************************************)
(* The idle loop, sleeping, and the kick.                                  *)
(***************************************************************************)

\* The instruction itself: the core stops until an interrupt is pending.
EnterWfi(c) ==
    /\ At(c, "idle") /\ wfi[c] = "towfi"
    /\ wfi' = [wfi EXCEPT ![c] = "wfi"]
    /\ UNCHANGED <<vars, timer, sgi, left, ipi_ready, tickless>>

IdleAfterWfi(c) ==
    /\ wfi[c] = "woken" /\ IdleLoop(c)
    /\ wfi' = [wfi EXCEPT ![c] = "towfi"]
    /\ UNCHANGED <<timer, sgi, left, ipi_ready, tickless>>

SleepFor(c, n) ==
    /\ SleepTicks(c, n = 0)
    /\ left' = [left EXCEPT ![Me(c)] = n]
    /\ UNCHANGED <<timer, sgi, wfi, ipi_ready, tickless>>

\* kick_others(): SGI 0 to every core but this one, once IPI_READY is set.
\* A core whose redistributor is still asleep has nothing to keep it in.
Kick(c) ==
    /\ KickOthers(c)
    /\ sgi' = [d \in Cpu |-> sgi[d] \/ ( /\ ipi_ready /\ d # c
                                         /\ pc[d] \notin {"off", "starting"})]
    /\ UNCHANGED <<timer, left, wfi, ipi_ready, tickless>>

\* time::start() on a secondary, before it unmasks interrupts.
StartTimer(c) ==
    /\ EnableInterrupts(c)
    /\ timer' = [timer EXCEPT ![c] = 1]
    /\ UNCHANGED <<sgi, left, wfi, ipi_ready, tickless>>

\* ipi_ready(), after kernel_main's loop over the cores.
IpiReady(c) ==
    /\ BootAt(c, "run") /\ starting \notin Cpu /\ ~ipi_ready
    /\ ipi_ready' = TRUE
    /\ UNCHANGED <<vars, timer, sgi, left, wfi, tickless>>

\* set_tickless(), by kernel_main.
SetTickless(c) ==
    /\ BootAt(c, "run") /\ ipi_ready
    /\ tickless' = ~tickless
    /\ UNCHANGED <<vars, timer, sgi, left, wfi, ipi_ready>>

-----------------------------------------------------------------------------
\* What is no business of the clock's.
Untimed(c) ==
    /\ \/ Switching(c)
       \/ Abandons /\ CancelBlock(c)
       \/ SleepLoop(c) \/ Block(c) \/ BlockLoop(c)
       \/ \E k \in Tokens : PrepareBlock(c, k) \/ WakeAllOn(c, k)
       \/ YieldNow(c) \/ ThreadExit(c) \/ ExitLoop(c)
       \/ StartCpu(c) \/ CpuOnRefused(c) \/ StartCpuReturns(c)
       \/ ipi_ready /\ Spawn(c)
       \/ \E t \in Tid : AttachProcess(c, t) \/ Start(c, t)
       \/ ComeOnline(c) \/ AdoptAsIdle(c)
    /\ UNCHANGED clockvars

Timed(c) ==
    \/ TimerIrq(c) \/ RescheduleIpi(c) \/ DeviceIrq(c)
    \/ EnterWfi(c) \/ IdleAfterWfi(c) \/ Kick(c) \/ StartTimer(c)
    \/ \E n \in 0 .. MaxSleep : SleepFor(c, n)
    \/ IpiReady(c) \/ SetTickless(c)

TNext == ClockTick \/ \E c \in Cpu : Untimed(c) \/ Timed(c)

TSpec == TInit /\ [][TNext]_tvars

\* The code a thread is bound to run once it has a core: the loops around
\* schedule(), the kick it owes, the idle loop.
Bound(t) ==
    \E c \in Cpu :
        /\ Me(c) = t
        /\ \/ Kick(c) \/ EnterWfi(c) \/ IdleAfterWfi(c)
           \/ /\ SleepLoop(c) \/ Block(c) \/ BlockLoop(c) \/ ExitLoop(c)
              /\ UNCHANGED clockvars

\* The counter never stops.  Interrupts are masked inside schedule(), so it
\* is never held up.  An interrupt that stays pending is taken at one of the
\* moments they are unmasked, and a thread that keeps getting a core gets on
\* with its code there: strong fairness, for both come and go.  Of what
\* threads do of their own accord nothing is assumed.
Fairness ==
    /\ WF_tvars(ClockTick)
    /\ \A c \in Cpu : /\ WF_tvars(Switching(c) /\ UNCHANGED clockvars)
                      /\ SF_tvars(TimerIrq(c))
                      /\ SF_tvars(RescheduleIpi(c))
    /\ \A t \in Tid : SF_tvars(Bound(t))

-----------------------------------------------------------------------------
(***************************************************************************)
(* Properties.                                                             *)
(***************************************************************************)
Soon(c) == timer[c] \in {0, 1} \/ sgi[c]
Kicking == \E u \in Tid : tpc[u] = "kick"

\* A tickless kernel must not oversleep: for every thread in Sleeping, some
\* core that takes interrupts will run the sweep no later than its deadline,
\* or within a tick if that is nearer, although each core armed its timer
\* from a survey made before or after the thread went to sleep.
SleepersCovered ==
    \A t \in Tid : state[t] = "Sleeping" =>
        \E c \in Cpu : /\ Adopted(c)
                       /\ Soon(c) \/ timer[c] \in 0 .. left[t]

\* time.rs: "a thread becoming runnable sends an interrupt that wakes every
\* core".  No core stays in wfi with a distant timer while a thread waits,
\* unless the kick is on its way or a core is about to choose a thread: the
\* sweep of the sleepers itself sends no interrupt.
NoCoreSleepsThroughWork ==
    \A c \in Cpu, t \in Tid :
        /\ pc[c] = "run" /\ current[c] = idle[c] /\ wfi[c] = "wfi"
        /\ Eligible(t, c) /\ affinity[t] = NoCpu
        => Soon(c) \/ Kicking \/ \E d \in Cpu : pc[d] = "resched"

\* sleep_ticks ends: a sweep finds every sleeper, whatever the threads that
\* stay awake do, and without the backstop of MAX_IDLE_TICKS.
SleeperWakes == \A t \in Tid : state[t] = "Sleeping" ~> state[t] # "Sleeping"

\* Round robin from the core's own cursor starves nobody: a runnable thread
\* gets a core, although the others may yield, sleep, be woken and run on for
\* as long as they like.
NoStarvation ==
    \A t \in Tid : state[t] = "Runnable" /\ affinity[t] = NoCpu
                   ~> \E c \in Cpu : pc[c] = "run" /\ sp[c] = t
=============================================================================
