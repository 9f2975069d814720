------------------------------- MODULE Tensor -------------------------------
(***************************************************************************)
(* The tensor scheduler (kernel/src/tensor.rs) with the syscalls through   *)
(* which processes reach it (syscall.rs): admission by temperature and     *)
(* deadline, priority between jobs, preemption at segment boundaries,      *)
(* energy caps, and the two block/wake protocols, the worker's and the     *)
(* waiters'.                                                               *)
(*                                                                         *)
(* A section under the DEVICE lock is one step; the wake-ups that follow   *)
(* its release, and the segment itself, are steps of their own.  Time is   *)
(* device time: it passes while a segment runs, and while the device has   *)
(* nothing to do.  A segment takes at least one unit, and a unit of time   *)
(* costs one unit of energy and sheds Decay of heat, whenever that is      *)
(* applied: temperature_locked() is called before every use.               *)
(***************************************************************************)
EXTENDS Integers, Sequences, FiniteSets, FiniteSetsExt

CONSTANTS
    Process,       \* user processes, through the syscalls
    Kernel,        \* kernel_main, which calls submit_with_budget and polls
    Offers,        \* what is submitted: records of class, segments, deadline
                   \* relative to now, and energy cap
    MaxElapsed,    \* bound: longest measured segment
    InitialCost,   \* INITIAL_SEGMENT_US
    Rise, Decay,   \* RISE_PER_SEGMENT_MILLI_C, DECAY_PER_MS_MILLI_C
    Throttle, Critical,
    MaxJobs,       \* bound: submissions
    MaxIdle        \* bound: units of time that pass on an idle device

None == -1

ASSUME TensorAssumption ==
    /\ Kernel \notin Process
    /\ Offers \subseteq [qos : 0 .. 3, segments : Nat \ {0},
                         window : Nat \cup {None}, budget : Nat \cup {None}]
    /\ MaxElapsed \in Nat \ {0} /\ InitialCost \in Nat
    /\ Rise \in Nat /\ Decay \in Nat
    /\ Throttle \in Nat /\ Critical \in Nat
    /\ MaxJobs \in Nat /\ MaxIdle \in Nat

Client == Process \cup {Kernel}

VARIABLES
    jobs,          \* dev.jobs; a job's id is its index
    temp,          \* dev.temp_milli_c
    cost,          \* dev.us_per_segment
    last_run,      \* dev.last_run
    now, idled,    \* time::now_us(), and how much of it passed in idleness
    wpc,           \* where the worker is
    wblocked,      \* the worker is Blocked(DEVICE_TOKEN)
    cpc,           \* where client c is in its system call
    wants,         \* the job client c waits for
    cblocked,      \* client c is Blocked(token(wants[c]))
    slack          \* ghost, per job: how many segments of others may still go
                   \* before it

\* The job whose segment the worker runs or has just run.
running == last_run

device == <<jobs, temp, cost, last_run>>
worker == <<wpc, wblocked>>
clients == <<cpc, wants, cblocked>>
vars == <<device, now, idled, worker, clients, slack>>

Id == 1 .. MaxJobs

Job == [qos : 0 .. 3, segments : Nat \ {0}, done : Nat, deadline : Nat \cup {None},
        state : {"Queued", "Running", "Done", "Refused", "OverBudget"},
        preemptions : Nat, energy : Nat, budget : Nat \cup {None}]

TypeOK ==
    /\ jobs \in Seq(Job) /\ Len(jobs) <= MaxJobs
    /\ temp \in Nat /\ cost \in Nat /\ now \in Nat /\ idled \in 0 .. MaxIdle
    /\ last_run \in 0 .. Len(jobs)
    /\ wpc \in {"choose", "block", "segment", "wake"}
    /\ wblocked \in BOOLEAN
    /\ wpc \in {"segment", "wake"} => running # 0
    /\ cpc \in [Client -> {"run", "kick", "look", "late", "block"}]
    /\ wants \in [Client -> Id \cup {0}]
    /\ cblocked \in [Client -> BOOLEAN]
    /\ slack \in [Id -> Int]

Init ==
    /\ jobs = <<>> /\ temp = 0 /\ cost = InitialCost /\ last_run = 0
    /\ now = 0 /\ idled = 0
    /\ wpc = "choose" /\ wblocked = FALSE
    /\ cpc = [c \in Client |-> "run"]
    /\ wants = [c \in Client |-> 0]
    /\ cblocked = [c \in Client |-> FALSE]
    /\ slack = [i \in Id |-> 0]

-----------------------------------------------------------------------------
(***************************************************************************)
(* pick(): highest class, then nearest deadline, then the order of arrival. *)
(***************************************************************************)
Unfinished(j) == jobs[j].state \in {"Queued", "Running"}
Left(j) == jobs[j].segments - jobs[j].done
Pending == {j \in DOMAIN jobs : Unfinished(j) /\ Left(j) > 0}

\* No deadline is u64::MAX.
Nearer(a, b) == a # None /\ (b = None \/ a < b)
Outranks(i, j) ==
    \/ jobs[i].qos < jobs[j].qos
    \/ jobs[i].qos = jobs[j].qos /\ Nearer(jobs[i].deadline, jobs[j].deadline)

\* Mutant of Pick: by deadline, whatever the class.
PickByDeadline ==
    CHOOSE i \in Pending : \A j \in Pending :
        \/ Nearer(jobs[i].deadline, jobs[j].deadline)
        \/ ~Nearer(jobs[j].deadline, jobs[i].deadline) /\ i <= j

Pick ==
    CHOOSE i \in Pending : \A j \in Pending : Outranks(i, j) \/ (~Outranks(j, i) /\ i <= j)

-----------------------------------------------------------------------------
(***************************************************************************)
(* Submission: submit_with_budget(), and sys_tensor_submit().              *)
(***************************************************************************)
Limit(q) == IF q \in {0, 1} THEN Critical ELSE Throttle

\* Work already queued that a job of class q cannot push in front of.
Ahead(q) == MapThenSumSet(Left, {j \in DOMAIN jobs : Unfinished(j) /\ jobs[j].qos <= q})

Admits(o) ==
    /\ temp < Limit(o.qos)
    /\ o.window = None \/ (o.segments + Ahead(o.qos)) * cost <= o.window

Deadline(o) == IF o.window = None THEN None ELSE now + o.window

NewJob(o) ==
    [qos |-> o.qos, segments |-> o.segments, done |-> 0, deadline |-> Deadline(o),
     state |-> IF Admits(o) THEN "Queued" ELSE "Refused",
     preemptions |-> 0, energy |-> 0, budget |-> o.budget]

\* Ghost: in front of the new job go those admission counted and the segment
\* of lower class the device may be in the middle of; and the new job may go
\* in front of those it outranks.
SlackWith(o) ==
    LET overtaken == {j \in Pending :
            \/ o.qos < jobs[j].qos
            \/ o.qos = jobs[j].qos /\ Nearer(Deadline(o), jobs[j].deadline)} IN
    [j \in Id |-> IF j = Len(jobs) + 1 THEN Ahead(o.qos) + 1
                  ELSE IF j \in overtaken /\ Admits(o) THEN slack[j] + o.segments
                  ELSE slack[j]]

\* sys_tensor_submit() passes no cap.
OffersOf(c) == IF c = Kernel THEN Offers ELSE {o \in Offers : o.budget = None}

\* A refusal is recorded like a job, and answered without waking anybody.
Submit(c, o) ==
    LET id == Len(jobs) + 1 IN
    /\ cpc[c] = "run" /\ id <= MaxJobs
    /\ jobs' = Append(jobs, NewJob(o))
    /\ slack' = SlackWith(o)
    /\ cpc' = [cpc EXCEPT ![c] = IF Admits(o) THEN "kick" ELSE "run"]
    /\ UNCHANGED <<temp, cost, last_run, now, idled, worker, wants, cblocked>>

\* wake_all_on(DEVICE_TOKEN), once the lock is released.
KickWorker(c) ==
    /\ cpc[c] = "kick"
    /\ wblocked' = FALSE
    /\ cpc' = [cpc EXCEPT ![c] = "run"]
    /\ UNCHANGED <<device, now, idled, wpc, wants, cblocked, slack>>

-----------------------------------------------------------------------------
(***************************************************************************)
(* worker().                                                               *)
(***************************************************************************)

\* Nothing to run: blocked while the lock is still held.
Rest ==
    /\ wpc = "choose" /\ Pending = {}
    /\ last_run' = 0
    /\ wblocked' = TRUE /\ wpc' = "block"
    /\ UNCHANGED <<jobs, temp, cost, now, idled, clients, slack>>

\* The job that is counted as preempted when job i is chosen: the one that
\* ran last and still has segments, its state notwithstanding.
Preempted(i) ==
    {p \in DOMAIN jobs : p = last_run /\ p # i /\ jobs[p].done < jobs[p].segments}

Choose ==
    /\ wpc = "choose" /\ Pending # {}
    /\ LET i == Pick IN
       /\ jobs' = [j \in DOMAIN jobs |->
              IF j = i THEN [jobs[j] EXCEPT !.state = "Running"]
              ELSE IF j \in Preempted(i) THEN [jobs[j] EXCEPT !.preemptions = @ + 1]
              ELSE jobs[j]]
       /\ last_run' = i
    /\ wpc' = "segment"
    /\ UNCHANGED <<temp, cost, now, idled, wblocked, clients, slack>>

Cooled(elapsed) == IF temp > elapsed * Decay THEN temp - elapsed * Decay ELSE 0

\* What one more segment, which took e, makes of job j.
SpentOut(j, e) == jobs[j].budget # None /\ jobs[j].energy + e >= jobs[j].budget
StateAfter(j, e) ==
    IF jobs[j].done + 1 >= jobs[j].segments THEN "Done"
    ELSE IF SpentOut(j, e) THEN "OverBudget" ELSE jobs[j].state

Advanced(j, e) ==
    [jobs[j] EXCEPT !.done = @ + 1, !.energy = @ + e, !.state = StateAfter(j, e)]

\* Mutant of FinishSegment: a job its cap has stopped wakes nobody.
FinishSegmentSilently(e) ==
    /\ wpc = "segment"
    /\ cost' = (cost * 3 + e) \div 4
    /\ temp' = Cooled(e) + Rise
    /\ now' = now + e
    /\ jobs' = [jobs EXCEPT ![running] = Advanced(running, e)]
    /\ wpc' = IF StateAfter(running, e) = "Done" THEN "wake" ELSE "choose"
    /\ slack' = [j \in Id |-> IF j \in Pending \ {running} THEN slack[j] - 1 ELSE slack[j]]
    /\ UNCHANGED <<last_run, idled, wblocked, clients>>

\* run_segment() has taken e, and its job is brought up to date.
FinishSegment(e) ==
    /\ wpc = "segment"
    /\ cost' = (cost * 3 + e) \div 4
    /\ temp' = Cooled(e) + Rise
    /\ now' = now + e
    /\ jobs' = [jobs EXCEPT ![running] = Advanced(running, e)]
    /\ wpc' = IF StateAfter(running, e) \in {"Done", "OverBudget"} THEN "wake" ELSE "choose"
    /\ slack' = [j \in Id |-> IF j \in Pending \ {running} THEN slack[j] - 1 ELSE slack[j]]
    /\ UNCHANGED <<last_run, idled, wblocked, clients>>

\* wake_all_on(token(done)).
WakeWaiters ==
    /\ wpc = "wake"
    /\ cblocked' = [c \in Client |-> cblocked[c] /\ wants[c] # running]
    /\ wpc' = "choose"
    /\ UNCHANGED <<device, now, idled, wblocked, cpc, wants, slack>>

\* block(DEVICE_TOKEN) returns.
WorkerResumes ==
    /\ wpc = "block" /\ ~wblocked
    /\ wpc' = "choose"
    /\ UNCHANGED <<device, now, idled, wblocked, clients, slack>>

\* Time passes on an idle device, and it cools.
Idle ==
    /\ Pending = {} /\ idled < MaxIdle
    /\ now' = now + 1 /\ idled' = idled + 1
    /\ temp' = Cooled(1)
    /\ UNCHANGED <<jobs, cost, last_run, worker, clients, slack>>

-----------------------------------------------------------------------------
(***************************************************************************)
(* sys_tensor_wait().                                                      *)
(***************************************************************************)
TensorWait(c, id) ==
    /\ cpc[c] = "run"
    /\ wants' = [wants EXCEPT ![c] = id]
    /\ cpc' = [cpc EXCEPT ![c] = "look"]
    /\ UNCHANGED <<device, now, idled, worker, cblocked, slack>>

\* Mutant of FinishedOrPrepare: marks itself first and forgets to take it back.
PrepareThenLook(c) ==
    LET id == wants[c] IN
    /\ cpc[c] = "look"
    /\ cpc' = [cpc EXCEPT ![c] =
           IF id \in DOMAIN jobs /\ ~Unfinished(id) THEN "run" ELSE "late"]
    /\ cblocked' = [cblocked EXCEPT ![c] = TRUE]
    /\ UNCHANGED <<device, now, idled, worker, wants, slack>>

\* finished_or_prepare(): a job that does not exist neither answers nor marks
\* the caller as waiting.
FinishedOrPrepare(c) ==
    LET id == wants[c] IN
    /\ cpc[c] = "look"
    /\ cpc' = [cpc EXCEPT ![c] =
           IF id \in DOMAIN jobs /\ ~Unfinished(id) THEN "run" ELSE "late"]
    /\ cblocked' = [cblocked EXCEPT ![c] = id \in DOMAIN jobs /\ Unfinished(id)]
    /\ wants' = [wants EXCEPT ![c] = IF cpc'[c] = "run" THEN 0 ELSE id]
    /\ UNCHANGED <<device, now, idled, worker, slack>>

\* The look at the clock, which may be at any time after the caller marked
\* itself: past the deadline it takes the mark back and returns ETIMEDOUT.
TimesOut(c) ==
    /\ cpc[c] = "late"
    /\ cblocked' = [cblocked EXCEPT ![c] = FALSE]
    /\ cpc' = [cpc EXCEPT ![c] = "run"]
    /\ wants' = [wants EXCEPT ![c] = 0]
    /\ UNCHANGED <<device, now, idled, worker, slack>>

GoesToBlock(c) ==
    /\ cpc[c] = "late"
    /\ cpc' = [cpc EXCEPT ![c] = "block"]
    /\ UNCHANGED <<device, now, idled, worker, wants, cblocked, slack>>

\* block(token) returns once the mark is gone; nothing but a wake-up on the
\* token removes it.
Resumes(c) ==
    /\ cpc[c] = "block" /\ ~cblocked[c]
    /\ cpc' = [cpc EXCEPT ![c] = "look"]
    /\ UNCHANGED <<device, now, idled, worker, wants, cblocked, slack>>

-----------------------------------------------------------------------------
Calls(c) == KickWorker(c) \/ FinishedOrPrepare(c) \/ TimesOut(c) \/ GoesToBlock(c) \/ Resumes(c)

Working ==
    \/ Rest \/ Choose \/ WakeWaiters \/ WorkerResumes
    \/ \E e \in 1 .. MaxElapsed : FinishSegment(e)

Next ==
    \/ Working \/ Idle
    \/ \E c \in Client : Calls(c) \/ \E o \in OffersOf(c) : Submit(c, o)
    \/ \E c \in Process, id \in Id : TensorWait(c, id)

Spec == Init /\ [][Next]_vars

\* The worker and a process inside a system call are runnable threads and get
\* a core.  The clock goes on: a loop that keeps looking finds it has passed.
Fairness ==
    /\ WF_vars(Working)
    /\ \A c \in Client : WF_vars(Calls(c)) /\ SF_vars(TimesOut(c))

LiveSpec == Spec /\ Fairness

-----------------------------------------------------------------------------
(***************************************************************************)
(* Properties.                                                             *)
(***************************************************************************)

\* No wake-up is lost, in either direction: the worker does not stay blocked
\* over a queued job unless the submitter is on its way to wake it, and nobody
\* stays blocked on a job that has ended unless the worker is.
NoLostWakeup ==
    /\ wblocked /\ Pending # {} => \E c \in Client : cpc[c] = "kick"
    /\ \A c \in Client : cblocked[c] /\ wants[c] \in DOMAIN jobs /\ ~Unfinished(wants[c])
                         => wpc = "wake" /\ running = wants[c]

\* What admission's arithmetic rests on: whatever the classes, deadlines and
\* caps of the others, the device works for others no more than it counted in
\* front of the job when it came, plus later arrivals that outrank it, plus
\* the one segment of lower class it may have been in the middle of.
DelayIsAsPromised == \A j \in Pending : slack[j] >= 0

\* Every wait ends: with the job, or with the clock for a job that never was.
WaitersReturn == \A c \in Process : cpc[c] = "look" ~> cpc[c] = "run"
=============================================================================
