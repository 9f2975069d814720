-------------------------- MODULE InferenceProofs ---------------------------
(***************************************************************************)
(* Proofs about the two modules of inference, for any constants.           *)
(*                                                                         *)
(* Tensor: its two block/wake protocols lose no wake-up, and no job waits  *)
(* longer than admission counted.  ModelStore: a page is read by one       *)
(* process; as long as no two calls of the allocator overlap every frame   *)
(* has one owner; and the one page table entry that a reclaim leaves       *)
(* behind is that of a fault which was about to map the page.              *)
(***************************************************************************)
EXTENDS Tensor, ModelStore, SequenceTheorems, FiniteSetTheorems, WellFoundedInduction, TLAPS

\* The types the protocols depend on.
WaitTypes ==
    /\ jobs \in Seq(Job) /\ now \in Nat
    /\ wblocked \in BOOLEAN
    /\ cpc \in [Client -> {"run", "kick", "look", "late", "block"}]
    /\ wants \in [Client -> Id \cup {0}]
    /\ cblocked \in [Client -> BOOLEAN]

\* Who can be marked as blocked: the worker on its way to block() or in it,
\* and a client past finished_or_prepare(), for a job there is.
MarksInv ==
    /\ wblocked => wpc = "block"
    /\ \A c \in Client : cblocked[c] => cpc[c] \in {"late", "block"} /\ wants[c] \in DOMAIN jobs

WaitInv == WaitTypes /\ MarksInv /\ NoLostWakeup

\* The state tensor::init leaves.
LEMMA InitWaits == Init => WaitInv
<1> SUFFICES ASSUME Init PROVE WaitInv
  OBVIOUS
<1>1. WaitTypes
  <2>1. jobs \in Seq(Job)
    BY DEF Init
  <2> QED
    BY <2>1 DEF Init, WaitTypes
<1>2. MarksInv /\ NoLostWakeup
  BY DEF Init, MarksInv, NoLostWakeup, Pending
<1> QED
  BY <1>1, <1>2 DEF WaitInv

\* A function on as many indices as there are jobs is a sequence again.
LEMMA StillASequence ==
  ASSUME jobs \in Seq(Job), NEW q, q \in [DOMAIN jobs -> Job]
  PROVE  q \in Seq(Job)
<1>1. DOMAIN jobs = 1 .. Len(jobs) /\ Len(jobs) \in Nat
  OBVIOUS
<1> QED
  BY <1>1, SeqDef

\* What the worker does to a job leaves a job.
States == {"Queued", "Running", "Done", "Refused", "OverBudget"}

LEMMA JobChosen ==
  ASSUME NEW r \in Job
  PROVE  [r EXCEPT !.state = "Running"] \in Job /\ [r EXCEPT !.state = "Running"].state = "Running"
  BY DEF Job

LEMMA JobPreempted ==
  ASSUME NEW r \in Job
  PROVE  /\ [r EXCEPT !.preemptions = @ + 1] \in Job
         /\ [r EXCEPT !.preemptions = @ + 1].state = r.state
<1>1. r.preemptions + 1 \in Nat
  BY DEF Job
<1>2. ASSUME NEW n \in Nat
      PROVE  [r EXCEPT !.preemptions = n] \in Job /\ [r EXCEPT !.preemptions = n].state = r.state
  BY DEF Job
<1> QED
  BY <1>1, <1>2

LEMMA JobAdvanced ==
  ASSUME NEW r \in Job, NEW s \in States, NEW e \in Nat
  PROVE  /\ [r EXCEPT !.done = @ + 1, !.energy = @ + e, !.state = s] \in Job
         /\ [r EXCEPT !.done = @ + 1, !.energy = @ + e, !.state = s].state = s
<1>1. r.done + 1 \in Nat /\ r.energy + e \in Nat
  BY DEF Job
<1>2. ASSUME NEW n \in Nat, NEW m \in Nat
      PROVE  [r EXCEPT !.done = n, !.energy = m, !.state = s] \in Job
  BY Zenon DEF Job, States
<1>3. ASSUME NEW n \in Nat, NEW m \in Nat
      PROVE  [r EXCEPT !.done = n, !.energy = m, !.state = s].state = s
  BY DEF Job
<1> QED
  BY <1>1, <1>2, <1>3

\* A submission: an admitted job comes with a submitter on its way to the
\* worker, a refused one is not pending.
LEMMA SubmitWaits ==
  ASSUME WaitInv, NEW c \in Client, NEW o \in OffersOf(c), Submit(c, o)
  PROVE  WaitInv'
<1>1. /\ jobs \in Seq(Job) /\ now \in Nat /\ o \in Offers
      /\ o.qos \in 0 .. 3 /\ o.segments \in Nat \ {0}
      /\ o.window \in Nat \cup {None} /\ o.budget \in Nat \cup {None}
  BY TensorAssumption DEF WaitInv, WaitTypes, OffersOf
<1>2. NewJob(o) \in Job
  <2>1. Deadline(o) \in Nat \cup {None}
    BY <1>1 DEF Deadline
  <2> QED
    BY <1>1, <2>1 DEF NewJob, Job
<1>3. /\ jobs' \in Seq(Job)
      /\ DOMAIN jobs' = 1 .. Len(jobs) + 1 /\ DOMAIN jobs = 1 .. Len(jobs) /\ Len(jobs) \in Nat
      /\ \A j \in DOMAIN jobs : jobs'[j] = jobs[j]
      /\ jobs'[Len(jobs) + 1] = NewJob(o)
  BY <1>1, <1>2 DEF Submit
<1>4. /\ cpc[c] = "run" /\ cpc' = [cpc EXCEPT ![c] = IF Admits(o) THEN "kick" ELSE "run"]
      /\ UNCHANGED <<now, wpc, wblocked, wants, cblocked, last_run>>
  BY DEF Submit, worker
<1>5. WaitTypes'
  BY <1>3, <1>4 DEF WaitInv, WaitTypes
<1>6. MarksInv'
  BY <1>3, <1>4 DEF WaitInv, WaitTypes, MarksInv
<1>7. (wblocked /\ Pending # {} => \E d \in Client : cpc[d] = "kick")'
  <2>1. CASE Admits(o)
    BY <1>4, <2>1 DEF WaitInv, WaitTypes
  <2>2. CASE ~Admits(o)
    <3>1. NewJob(o).state = "Refused"
      BY <2>2 DEF NewJob
    <3>2. Pending' = Pending
      <4> DEFINE P(j) == jobs[j].state \in {"Queued", "Running"} /\ jobs[j].segments - jobs[j].done > 0
                 Q(j) == jobs'[j].state \in {"Queued", "Running"} /\ jobs'[j].segments - jobs'[j].done > 0
      <4>1. ~Q(Len(jobs) + 1)
        BY <1>3, <3>1
      <4>2. \A j \in DOMAIN jobs : P(j) <=> Q(j)
        BY <1>3
      <4>3. DOMAIN jobs' = DOMAIN jobs \cup {Len(jobs) + 1}
        BY <1>3
      <4>4. Pending = {j \in DOMAIN jobs : P(j)} /\ Pending' = {j \in DOMAIN jobs' : Q(j)}
        BY DEF Pending, Unfinished, Left
      <4> HIDE DEF P, Q
      <4> QED
        BY <4>1, <4>2, <4>3, <4>4
    <3> QED
      BY <1>4, <2>2, <3>2 DEF WaitInv, WaitTypes, NoLostWakeup
  <2> QED
    BY <2>1, <2>2
<1>8. (\A d \in Client : cblocked[d] /\ wants[d] \in DOMAIN jobs /\ ~Unfinished(wants[d])
                         => wpc = "wake" /\ running = wants[d])'
  BY <1>3, <1>4 DEF WaitInv, MarksInv, NoLostWakeup, Unfinished, running
<1> QED
  BY <1>5, <1>6, <1>7, <1>8 DEF WaitInv, NoLostWakeup

\* The worker's choice changes no job that has ended.
LEMMA ChooseWaits ==
  ASSUME WaitInv, Choose
  PROVE  WaitInv'
<1>1. jobs \in Seq(Job)
  BY DEF WaitInv, WaitTypes
<1>2. /\ DOMAIN jobs' = DOMAIN jobs
      /\ \A j \in DOMAIN jobs : jobs'[j] \in Job /\ (Unfinished(j) => Unfinished(j)')
  <2>1. PICK i : jobs' = [j \in DOMAIN jobs |->
                            IF j = i THEN [jobs[j] EXCEPT !.state = "Running"]
                            ELSE IF j \in Preempted(i) THEN [jobs[j] EXCEPT !.preemptions = @ + 1]
                            ELSE jobs[j]]
    BY DEF Choose
  <2>2. ASSUME NEW j \in DOMAIN jobs
        PROVE  jobs'[j] \in Job /\ jobs'[j].state \in {"Running", jobs[j].state}
    <3>1. jobs[j] \in Job
      BY <1>1
    <3>2. CASE jobs'[j] = [jobs[j] EXCEPT !.state = "Running"]
      BY <3>1, <3>2, JobChosen
    <3>3. CASE jobs'[j] = [jobs[j] EXCEPT !.preemptions = @ + 1]
      BY <3>1, <3>3, JobPreempted
    <3>4. CASE jobs'[j] = jobs[j]
      BY <3>1, <3>4
    <3> QED
      BY <2>1, <3>2, <3>3, <3>4
  <2> QED
    BY <2>1, <2>2 DEF Unfinished
<1>3. jobs' \in Seq(Job)
  <2>1. jobs' = [j \in DOMAIN jobs |-> jobs'[j]]
    BY DEF Choose
  <2> QED
    BY <1>1, <1>2, <2>1, StillASequence
<1>4. /\ wpc = "choose" /\ wpc' = "segment"
      /\ UNCHANGED <<now, wblocked, cpc, wants, cblocked>>
  BY DEF Choose, clients
<1>5. WaitTypes' /\ MarksInv'
  BY <1>2, <1>3, <1>4 DEF WaitInv, WaitTypes, MarksInv
<1>6. NoLostWakeup'
  BY <1>2, <1>4 DEF WaitInv, MarksInv, NoLostWakeup
<1> QED
  BY <1>5, <1>6 DEF WaitInv

\* The end of a segment: the only job that may end is the one whose waiters
\* the worker wakes next.
LEMMA FinishWaits ==
  ASSUME WaitInv, NEW e \in 1 .. MaxElapsed, FinishSegment(e)
  PROVE  WaitInv'
<1>1. /\ jobs \in Seq(Job) /\ e \in Nat /\ now \in Nat
  BY TensorAssumption DEF WaitInv, WaitTypes
<1> DEFINE new == Advanced(last_run, e)
<1>2. ASSUME last_run \in DOMAIN jobs
      PROVE  new \in Job /\ new.state = StateAfter(last_run, e)
  <2>1. jobs[last_run] \in Job
    BY <1>1, <1>2
  <2>2. StateAfter(last_run, e) \in States
    BY <2>1 DEF StateAfter, Job, States
  <2> QED
    BY <1>1, <2>1, <2>2, JobAdvanced DEF Advanced
<1>a. jobs' = [jobs EXCEPT ![last_run] = new]
  BY DEF FinishSegment, running
<1> HIDE DEF new
<1>3. /\ DOMAIN jobs' = DOMAIN jobs /\ jobs' = [j \in DOMAIN jobs |-> jobs'[j]]
      /\ \A j \in DOMAIN jobs : j # last_run => jobs'[j] = jobs[j]
      /\ last_run \in DOMAIN jobs => jobs'[last_run].state = StateAfter(last_run, e)
      /\ \A j \in DOMAIN jobs : jobs'[j] \in Job
  <2>1. /\ DOMAIN jobs' = DOMAIN jobs /\ jobs' = [j \in DOMAIN jobs |-> jobs'[j]]
        /\ \A j \in DOMAIN jobs : jobs'[j] = IF j = last_run THEN new ELSE jobs[j]
    BY <1>a
  <2>2. \A j \in DOMAIN jobs : jobs[j] \in Job
    BY <1>1
  <2> QED
    BY <1>2, <2>1, <2>2
<1>4. jobs' \in Seq(Job)
  BY <1>1, <1>3, StillASequence
<1>5. /\ wpc = "segment" /\ UNCHANGED <<wblocked, cpc, wants, cblocked, last_run>>
      /\ now' = now + e
      /\ wpc' = IF StateAfter(last_run, e) \in {"Done", "OverBudget"} THEN "wake" ELSE "choose"
  BY DEF FinishSegment, clients, running
<1>6. WaitTypes' /\ MarksInv'
  BY <1>1, <1>3, <1>4, <1>5 DEF WaitInv, WaitTypes, MarksInv
<1>7. ~wblocked'
  BY <1>5 DEF WaitInv, MarksInv
<1>8. ASSUME NEW d \in Client, cblocked[d], wants[d] \in DOMAIN jobs, ~Unfinished(wants[d])'
      PROVE  wpc' = "wake" /\ last_run = wants[d]
  <2>1. Unfinished(wants[d])
    BY <1>5, <1>8 DEF WaitInv, NoLostWakeup
  <2>2. wants[d] = last_run
    BY <1>3, <1>5, <1>8, <2>1 DEF Unfinished
  <2>4. jobs'[last_run].state = StateAfter(last_run, e)
    BY <1>3, <1>8, <2>2
  <2>5. StateAfter(last_run, e) \in {"Done", "OverBudget"}
    BY <1>5, <1>8, <2>1, <2>2, <2>4 DEF Unfinished, StateAfter
  <2> QED
    BY <1>5, <2>2, <2>5
<1> QED
  BY <1>3, <1>5, <1>6, <1>7, <1>8 DEF WaitInv, NoLostWakeup, running

\* Every other step of the worker, and the clock.
LEMMA WorkerWaits ==
  ASSUME WaitInv, Rest \/ WakeWaiters \/ WorkerResumes \/ Idle
  PROVE  WaitInv'
<1> USE DEF WaitInv, WaitTypes, MarksInv, NoLostWakeup, Pending, Unfinished, Left, running,
            device, clients, worker
<1>1. CASE Rest
  BY <1>1 DEF Rest
<1>2. CASE WakeWaiters
  BY <1>2 DEF WakeWaiters
<1>3. CASE WorkerResumes
  BY <1>3 DEF WorkerResumes
<1>4. CASE Idle
  BY <1>4 DEF Idle
<1> QED
  BY <1>1, <1>2, <1>3, <1>4

\* The clients' system calls.
LEMMA CallWaits ==
  ASSUME WaitInv, NEW c \in Client, Calls(c) \/ \E id \in Id : TensorWait(c, id)
  PROVE  WaitInv'
<1> USE DEF WaitInv, WaitTypes, MarksInv, NoLostWakeup, Pending, Unfinished, Left, running,
            device, worker
<1>1. CASE KickWorker(c)
  BY <1>1 DEF KickWorker
<1>2. CASE FinishedOrPrepare(c)
  BY <1>2 DEF FinishedOrPrepare
<1>3. CASE TimesOut(c)
  BY <1>3 DEF TimesOut
<1>4. CASE GoesToBlock(c)
  BY <1>4 DEF GoesToBlock
<1>5. CASE Resumes(c)
  BY <1>5 DEF Resumes
<1>6. ASSUME NEW id \in Id, TensorWait(c, id) PROVE WaitInv'
  BY <1>6 DEF TensorWait
<1> QED
  BY <1>1, <1>2, <1>3, <1>4, <1>5, <1>6 DEF Calls

LEMMA NextWaits == WaitInv /\ [Next]_vars => WaitInv'
<1> SUFFICES ASSUME WaitInv, [Next]_vars PROVE WaitInv'
  OBVIOUS
<1>1. CASE Working
  BY <1>1, ChooseWaits, FinishWaits, WorkerWaits DEF Working
<1>2. CASE UNCHANGED vars
  BY <1>2 DEF vars, device, worker, clients, WaitInv, WaitTypes, MarksInv, NoLostWakeup,
              Pending, Unfinished, Left, running
<1> QED
  BY <1>1, <1>2, WorkerWaits, CallWaits, SubmitWaits DEF Next, Client

\* The worker never sleeps over a queued job and nobody sleeps over a finished
\* one without a wake-up on its way, for any number of processes and jobs.
THEOREM WakeupsArrive == Spec => []NoLostWakeup
<1>1. WaitInv => NoLostWakeup
  BY DEF WaitInv
<1> QED
  BY <1>1, InitWaits, NextWaits, PTL DEF Spec

-----------------------------------------------------------------------------
(***************************************************************************)
(* Sums over sets of jobs, and the first of a set of jobs.                 *)
(***************************************************************************)

\* A non-empty set of natural numbers has a least member.
LEMMA LeastMember ==
  ASSUME NEW S \in SUBSET Nat, S # {}
  PROVE  \E k \in S : \A j \in S : k <= j
<1> DEFINE R == OpToRel(<, Nat)
<1>1. IsWellFoundedOn(R, Nat)
  BY NatLessThanWellFounded
<1>2. \A j, k \in S : j < k => <<j, k>> \in R
  BY DEF OpToRel
<1> HIDE DEF R
<1>3. PICK k \in S : \A j \in S : <<j, k>> \notin R
  BY <1>1, WFMin
<1>4. \A j \in S : ~(j < k)
  BY <1>2, <1>3
<1>5. \A j \in S : k <= j
  BY <1>4
<1> QED
  BY <1>5

\* Whatever is reached from the empty set by adding some member or other, all
\* the subsets of a finite set are.
LEMMA SubsetsReached ==
  ASSUME NEW S, IsFiniteSet(S), NEW G, {} \in G,
         \A T \in SUBSET S : T # {} => \E x \in T : T \ {x} \in G => T \in G
  PROVE  SUBSET S \subseteq G
<1> SUFFICES ASSUME ~(SUBSET S \subseteq G) PROVE FALSE
  OBVIOUS
<1> DEFINE Bad == {T \in SUBSET S : T \notin G}
           N == {Cardinality(T) : T \in Bad}
<1>1. \A T \in SUBSET S : IsFiniteSet(T) /\ Cardinality(T) \in Nat
  BY FS_Subset, FS_CardinalityType
<1>2. N \in SUBSET Nat /\ N # {}
  BY <1>1
<1> HIDE DEF N
<1>3. PICK k \in N : \A j \in N : k <= j
  BY <1>2, LeastMember
<1>4. PICK T \in Bad : k = Cardinality(T)
  BY <1>3 DEF N
<1>5. PICK x \in T : T \ {x} \in G => T \in G
  <2>1. T \in SUBSET S /\ T \notin G
    BY <1>4
  <2> HIDE DEF Bad
  <2>2. ASSUME T = {} PROVE FALSE
    BY <2>1, <2>2
  <2> QED
    BY <2>1, <2>2, Zenon
<1>6. T \ {x} \in SUBSET S /\ T \ {x} \notin G
  BY <1>4, <1>5
<1>7. Cardinality(T \ {x}) \in N
  BY <1>6 DEF N
<1>8. Cardinality(T \ {x}) = Cardinality(T) - 1
  BY <1>1, <1>4, <1>5, FS_RemoveElement
<1> QED
  BY <1>1, <1>3, <1>4, <1>7, <1>8

\* The segments that the jobs in S have still to run, in the job table q.
Units(q, S) == UNION {{j} \X (q[j].done + 1 .. q[j].segments) : j \in S}

LEMMA UnitIs ==
  ASSUME NEW q, NEW S, NEW u
  PROVE  u \in Units(q, S) <=>
           \E j \in S : \E n \in q[j].done + 1 .. q[j].segments : u = <<j, n>>
<1>1. \A j : u \in {j} \X (q[j].done + 1 .. q[j].segments)
             <=> \E n \in q[j].done + 1 .. q[j].segments : u = <<j, n>>
  OBVIOUS
<1> QED
  BY <1>1 DEF Units

\* One more job: as many more as it has left.
LEMMA UnitsOfOneMore ==
  ASSUME NEW q, NEW S, NEW x \in S, IsFiniteSet(Units(q, S \ {x})),
         q[x].done \in Nat, q[x].segments \in Nat, q[x].done <= q[x].segments
  PROVE  /\ IsFiniteSet(Units(q, S))
         /\ Cardinality(Units(q, S)) = (q[x].segments - q[x].done) + Cardinality(Units(q, S \ {x}))
<1> DEFINE I == q[x].done + 1 .. q[x].segments
           X == {x} \X I
           Y == Units(q, S \ {x})
<1>1. /\ IsFiniteSet(I) /\ Cardinality(I) = q[x].segments - q[x].done
      /\ q[x].segments - q[x].done \in Nat
  <2>1. q[x].done + 1 \in Int /\ q[x].segments \in Int
    OBVIOUS
  <2>2. /\ IsFiniteSet(I)
        /\ Cardinality(I) = IF q[x].done + 1 > q[x].segments THEN 0
                            ELSE q[x].segments - (q[x].done + 1) + 1
    BY <2>1, FS_Interval
  <2> HIDE DEF I
  <2> QED
    BY <2>2
<1>2. IsFiniteSet({x}) /\ Cardinality({x}) = 1
  BY FS_Singleton
<1>3. IsFiniteSet(X) /\ Cardinality(X) = (q[x].segments - q[x].done)
  <2> HIDE DEF I
  <2>1. IsFiniteSet({x} \X I) /\ Cardinality({x} \X I) = Cardinality({x}) * Cardinality(I)
    BY <1>1, <1>2, FS_Product
  <2> QED
    BY <1>1, <1>2, <2>1
<1>4. Units(q, S) = X \cup Y
  BY DEF Units
<1>5. X \cap Y = {}
  <2> SUFFICES ASSUME NEW u, u \in X, u \in Y PROVE FALSE
    OBVIOUS
  <2>1. PICK j \in S \ {x} : \E n \in q[j].done + 1 .. q[j].segments : u = <<j, n>>
    BY UnitIs
  <2>2. u[1] = j /\ u[1] = x
    BY <2>1
  <2> QED
    BY <2>1, <2>2
<1> HIDE DEF X, Y
<1>6. /\ IsFiniteSet(X \cup Y)
      /\ Cardinality(X \cup Y) = Cardinality(X) + Cardinality(Y) - Cardinality(X \cap Y)
  BY <1>3, FS_Union DEF Y
<1>7. Cardinality(X \cap Y) = 0 /\ Cardinality(Y) \in Nat
  BY <1>5, FS_EmptySet, FS_CardinalityType DEF Y
<1> QED
  BY <1>1, <1>3, <1>4, <1>6, <1>7 DEF Y

\* Jobs that have not run further than they were to, in the job table q.
Sound(q, S) == \A j \in S : /\ q[j].done \in Nat /\ q[j].segments \in Nat
                         /\ q[j].done <= q[j].segments

LEMMA NoUnits ==
  ASSUME NEW q
  PROVE  Units(q, {}) = {} /\ IsFiniteSet(Units(q, {})) /\ Cardinality(Units(q, {})) = 0
<1>1. Units(q, {}) = {}
  BY DEF Units
<1> QED
  BY <1>1, FS_EmptySet

LEMMA UnitsAreFinite ==
  ASSUME NEW q, NEW S, IsFiniteSet(S), Sound(q, S)
  PROVE  \A T \in SUBSET S : IsFiniteSet(Units(q, T)) /\ Cardinality(Units(q, T)) \in Nat
<1> DEFINE G == {T \in SUBSET S : IsFiniteSet(Units(q, T))}
<1>1. {} \in G
  BY NoUnits
<1>2. ASSUME NEW T \in SUBSET S, NEW x \in T, T \ {x} \in G PROVE T \in G
  BY <1>2, UnitsOfOneMore DEF Sound
<1>3. SUBSET S \subseteq G
  <2> HIDE DEF G
  <2>1. \A T \in SUBSET S : T # {} => \E x \in T : T \ {x} \in G => T \in G
    BY <1>2
  <2> QED
    BY <1>1, <2>1, SubsetsReached
<1> QED
  BY <1>3, FS_CardinalityType

\* What the fold of the admission computes, whatever order it takes.
SumOn(S, iter) ==
  iter = [s \in SUBSET S |-> IF s = {} THEN 0
                             ELSE Left(CHOOSE x \in s : TRUE) + iter[s \ {CHOOSE x \in s : TRUE}]]

LEMMA SumCounts ==
  ASSUME NEW S, IsFiniteSet(S), Sound(jobs, S)
  PROVE  MapThenSumSet(Left, S) = Cardinality(Units(jobs, S))
<1>1. MapThenSumSet(Left, S) = (CHOOSE iter : SumOn(S, iter))[S]
  BY DEF MapThenSumSet, MapThenFoldSet, SumOn
<1>2. \A T \in SUBSET S : T # {} =>
        LET x == CHOOSE x \in T : TRUE IN
        /\ x \in T /\ T \ {x} \in SUBSET S
        /\ Cardinality(Units(jobs, T)) = Left(x) + Cardinality(Units(jobs, T \ {x}))
  <2> SUFFICES ASSUME NEW T \in SUBSET S, T # {}
               PROVE  LET x == CHOOSE x \in T : TRUE IN
                      /\ x \in T /\ T \ {x} \in SUBSET S
                      /\ Cardinality(Units(jobs, T)) = Left(x) + Cardinality(Units(jobs, T \ {x}))
    OBVIOUS
  <2> DEFINE x == CHOOSE x \in T : TRUE
  <2>1. x \in T
    OBVIOUS
  <2> HIDE DEF x
  <2>2. T \ {x} \in SUBSET S
    OBVIOUS
  <2>3. IsFiniteSet(Units(jobs, T \ {x}))
    BY <2>2, UnitsAreFinite
  <2>4. Cardinality(Units(jobs, T)) = Left(x) + Cardinality(Units(jobs, T \ {x}))
    BY <2>1, <2>3, UnitsOfOneMore DEF Sound, Left
  <2> QED
    BY <2>1, <2>2, <2>4 DEF x
<1> DEFINE count == [s \in SUBSET S |-> Cardinality(Units(jobs, s))]
<1>3. SumOn(S, count)
  BY <1>2, NoUnits, Zenon DEF SumOn
<1> DEFINE iter == CHOOSE iter : SumOn(S, iter)
<1>4. SumOn(S, iter)
  BY <1>3
<1> HIDE DEF iter
<1> DEFINE G == {T \in SUBSET S : iter[T] = Cardinality(Units(jobs, T))}
<1>5. {} \in G
  BY <1>4, NoUnits DEF SumOn
<1>6. \A T \in SUBSET S : T # {} => LET x == CHOOSE x \in T : TRUE IN T \ {x} \in G => T \in G
  BY <1>2, <1>4 DEF SumOn
<1>7. SUBSET S \subseteq G
  <2>1. \A T \in SUBSET S : T # {} => \E x \in T : T \ {x} \in G => T \in G
    <3> SUFFICES ASSUME NEW T \in SUBSET S, T # {}
                 PROVE  \E x \in T : T \ {x} \in G => T \in G
      OBVIOUS
    <3> DEFINE x == CHOOSE x \in T : TRUE
    <3>1. x \in T
      OBVIOUS
    <3>2. T \ {x} \in G => T \in G
      BY <1>6
    <3> HIDE DEF x, G
    <3> QED
      BY <3>1, <3>2
  <2> HIDE DEF G
  <2> QED
    BY <1>5, <2>1, SubsetsReached
<1> QED
  BY <1>1, <1>7 DEF iter

\* Whether pick() prefers job i to job j.
Before(i, j) == Outranks(i, j) \/ (~Outranks(j, i) /\ i <= j)

\* There is always one that pick() prefers to all others: lowest class, then
\* nearest deadline, then first come.
LEMMA PickIsFirst ==
  ASSUME jobs \in Seq(Job), Pending # {}
  PROVE  Pick \in Pending /\ \A j \in Pending : Before(Pick, j)
<1>1. /\ \A i \in Pending : jobs[i].qos \in Nat /\ jobs[i].deadline \in Nat \cup {None}
      /\ Pending \subseteq Nat
  <2>1. Pending \subseteq DOMAIN jobs /\ DOMAIN jobs = 1 .. Len(jobs)
    BY DEF Pending
  <2>2. \A i \in Pending : jobs[i] \in Job
    BY <2>1
  <2>3. \A i \in Pending : jobs[i].qos \in Nat /\ jobs[i].deadline \in Nat \cup {None}
    <3> SUFFICES ASSUME NEW i \in Pending
                 PROVE  jobs[i].qos \in Nat /\ jobs[i].deadline \in Nat \cup {None}
      OBVIOUS
    <3>1. jobs[i] \in Job
      BY <2>2
    <3>2. jobs[i].qos \in 0 .. 3
      BY <3>1 DEF Job
    <3>3. jobs[i].deadline \in Nat \cup {None}
      BY <3>1 DEF Job
    <3> QED
      BY <3>2, <3>3
  <2>4. Pending \subseteq Nat
    BY <2>1
  <2> QED
    BY <2>3, <2>4
<1>2. PICK a \in Pending : \A j \in Pending : jobs[a].qos <= jobs[j].qos
  <2> DEFINE S == {jobs[i].qos : i \in Pending}
  <2>1. S \in SUBSET Nat /\ S # {}
    BY <1>1
  <2>2. \A i \in Pending : jobs[i].qos \in S
    OBVIOUS
  <2>3. \A k \in S : \E i \in Pending : k = jobs[i].qos
    OBVIOUS
  <2> HIDE DEF S
  <2>4. PICK k \in S : \A j \in S : k <= j
    BY <2>1, LeastMember
  <2> QED
    BY <2>2, <2>3, <2>4
<1> DEFINE A == {i \in Pending : jobs[i].qos = jobs[a].qos}
<1>3. PICK b \in A : \A j \in A : ~Nearer(jobs[j].deadline, jobs[b].deadline)
  <2> DEFINE S == {jobs[i].deadline : i \in A} \ {None}
  <2>1. CASE S = {}
    <3>1. \A j \in A : jobs[j].deadline = None
      BY <2>1
    <3> QED
      BY <3>1, <1>2 DEF Nearer
  <2>2. CASE S # {}
    <3>1. S \in SUBSET Nat
      BY <1>1
    <3>2. \A i \in A : jobs[i].deadline \in S \/ jobs[i].deadline = None
      OBVIOUS
    <3>3. \A k \in S : \E i \in A : k = jobs[i].deadline
      OBVIOUS
    <3> HIDE DEF S, A
    <3>4. PICK k \in S : \A j \in S : k <= j
      BY <2>2, <3>1, LeastMember
    <3>5. PICK b \in A : k = jobs[b].deadline
      BY <3>3, <3>4
    <3>6. \A j \in A : ~Nearer(jobs[j].deadline, jobs[b].deadline)
      <4> SUFFICES ASSUME NEW j \in A, Nearer(jobs[j].deadline, jobs[b].deadline) PROVE FALSE
        OBVIOUS
      <4>1. jobs[b].deadline \in Nat /\ jobs[b].deadline # None
        BY <3>1, <3>4, <3>5 DEF None
      <4>2. jobs[j].deadline # None /\ jobs[j].deadline < jobs[b].deadline
        BY <4>1 DEF Nearer
      <4>3. jobs[j].deadline \in S
        BY <3>2, <4>2
      <4>4. jobs[b].deadline <= jobs[j].deadline /\ jobs[j].deadline \in Nat
        BY <3>1, <3>4, <3>5, <4>3
      <4> QED
        BY <4>1, <4>2, <4>4
    <3> QED
      BY <3>5, <3>6
  <2> QED
    BY <2>1, <2>2
<1> DEFINE B == {i \in A : jobs[i].deadline = jobs[b].deadline}
<1>4. PICK c \in B : \A j \in B : c <= j
  <2>1. B \in SUBSET Nat /\ B # {}
    BY <1>1
  <2> HIDE DEF B
  <2> QED
    BY <2>1, LeastMember
<1>5. c \in Pending /\ jobs[c].qos = jobs[a].qos /\ jobs[c].deadline = jobs[b].deadline
  BY <1>4
<1>6. ASSUME NEW j \in Pending PROVE Before(c, j)
  <2>1. jobs[c].qos <= jobs[j].qos /\ jobs[c].qos \in Nat /\ jobs[j].qos \in Nat
    BY <1>1, <1>2, <1>5
  <2>2. CASE jobs[c].qos < jobs[j].qos
    BY <2>2 DEF Before, Outranks
  <2>3. CASE jobs[c].qos = jobs[j].qos
    <3>1. j \in A
      BY <1>5, <2>3
    <3>2. ~Nearer(jobs[j].deadline, jobs[c].deadline)
      BY <1>3, <1>5, <3>1
    <3>3. jobs[c].deadline \in Nat \cup {None} /\ jobs[j].deadline \in Nat \cup {None}
      BY <1>1, <1>5
    <3>4. CASE jobs[j].deadline = jobs[c].deadline
      <4>1. j \in B
        BY <1>5, <3>1, <3>4
      <4>2. c <= j /\ ~Outranks(j, c)
        BY <1>4, <4>1, <2>1, <2>3, <3>2 DEF Outranks
      <4> QED
        BY <4>2 DEF Before
    <3>5. CASE jobs[j].deadline # jobs[c].deadline
      <4>1. Nearer(jobs[c].deadline, jobs[j].deadline)
        BY <3>2, <3>3, <3>5 DEF Nearer, None
      <4> QED
        BY <4>1, <2>3 DEF Before, Outranks
    <3> QED
      BY <3>4, <3>5
  <2> QED
    BY <2>1, <2>2, <2>3
<1>7. c \in Pending /\ \A j \in Pending : Outranks(c, j) \/ (~Outranks(j, c) /\ c <= j)
  BY <1>5, <1>6 DEF Before
<1> HIDE DEF A, B
<1> QED
  BY <1>7 DEF Pick, Before

-----------------------------------------------------------------------------
(***************************************************************************)
(* The delay.  At every moment the slack a job has left is at least the    *)
(* segments of the jobs pick() would take first, plus the one that is      *)
(* running for a job it would not.                                         *)
(***************************************************************************)
Front(j) == {i \in Pending : i # j /\ Before(i, j)}

\* The segment being run is that of a job that would not be chosen before j.
HeldUp(j) == wpc = "segment" /\ last_run # j /\ ~Before(last_run, j)

Load(j) == Cardinality(Units(jobs, Front(j))) + (IF HeldUp(j) THEN 1 ELSE 0)

PlanTypes ==
    /\ slack \in [Id -> Int] /\ Len(jobs) <= MaxJobs
    /\ wpc \in {"choose", "block", "segment", "wake"}
    /\ wpc = "segment" => last_run \in Pending
    /\ \A j \in DOMAIN jobs : Unfinished(j) => jobs[j].done < jobs[j].segments

PlanInv == PlanTypes /\ \A j \in Pending : slack[j] >= Load(j)

\* What the jobs in front of another are, and that their segments can be
\* counted.
LEMMA InFront ==
  ASSUME jobs \in Seq(Job), PlanTypes
  PROVE  /\ IsFiniteSet(DOMAIN jobs)
         /\ Sound(jobs, {j \in DOMAIN jobs : Unfinished(j)})
         /\ Pending = {j \in DOMAIN jobs : Unfinished(j)}
         /\ \A T \in SUBSET Pending : /\ IsFiniteSet(T) /\ Sound(jobs, T)
                                      /\ IsFiniteSet(Units(jobs, T))
                                      /\ Cardinality(Units(jobs, T)) \in Nat
         /\ Pending \subseteq Id /\ \A j : Front(j) \in SUBSET Pending
<1>1. DOMAIN jobs = 1 .. Len(jobs) /\ Len(jobs) \in Nat
  OBVIOUS
<1>2. IsFiniteSet(DOMAIN jobs)
  BY <1>1, FS_Interval
<1>3. \A j \in DOMAIN jobs : jobs[j].done \in Nat /\ jobs[j].segments \in Nat
  <2>1. \A j \in DOMAIN jobs : jobs[j] \in Job
    OBVIOUS
  <2> QED
    BY <2>1 DEF Job
<1>4. Sound(jobs, {j \in DOMAIN jobs : Unfinished(j)})
  BY <1>3 DEF PlanTypes, Sound
<1>5. Pending = {j \in DOMAIN jobs : Unfinished(j)}
  BY <1>3 DEF PlanTypes, Pending, Left
<1>6. IsFiniteSet(Pending) /\ Sound(jobs, Pending)
  BY <1>2, <1>4, <1>5, FS_Subset
<1>7. \A T \in SUBSET Pending : /\ IsFiniteSet(T) /\ Sound(jobs, T)
                                /\ IsFiniteSet(Units(jobs, T))
                                /\ Cardinality(Units(jobs, T)) \in Nat
  BY <1>6, UnitsAreFinite, FS_Subset DEF Sound
<1>8. Pending \subseteq Id
  BY <1>1, TensorAssumption DEF Pending, Id, PlanTypes
<1> QED
  BY <1>2, <1>4, <1>5, <1>7, <1>8 DEF Front

LEMMA InitPlan == Init => PlanInv
<1> SUFFICES ASSUME Init PROVE PlanInv
  OBVIOUS
<1>1. jobs = << >> /\ slack = [i \in Id |-> 0] /\ wpc = "choose"
  BY DEF Init
<1>2. DOMAIN jobs = {} /\ Len(jobs) = 0
  BY <1>1
<1> QED
  BY <1>1, <1>2, TensorAssumption DEF PlanInv, PlanTypes, Pending

\* A step that leaves the jobs and their slack alone and starts no segment.
LEMMA RestPlan ==
  ASSUME jobs \in Seq(Job), PlanInv, UNCHANGED <<jobs, slack>>,
         wpc' \in {"choose", "block", "segment", "wake"},
         wpc' = "segment" => wpc = "segment" /\ last_run' = last_run
  PROVE  PlanInv'
<1>1. /\ Pending' = Pending /\ \A j : Front(j)' = Front(j)
      /\ \A i, j : Before(i, j)' <=> Before(i, j)
  BY DEF Pending, Front, Before, Outranks, Unfinished, Left
<1>2. PlanTypes'
  BY <1>1 DEF PlanInv, PlanTypes, Unfinished
<1>3. ASSUME NEW j \in Pending PROVE slack'[j] >= Load(j)'
  <2>1. slack[j] >= Load(j) /\ slack'[j] = slack[j] /\ slack[j] \in Int
    BY InFront DEF PlanInv, PlanTypes
  <2>2. HeldUp(j)' => HeldUp(j)
    BY <1>1 DEF HeldUp
  <2>3. /\ Cardinality(Units(jobs, Front(j))) \in Nat
        /\ Cardinality(Units(jobs, Front(j)))' = Cardinality(Units(jobs, Front(j)))
    BY <1>1, InFront DEF PlanInv
  <2> QED
    BY <2>1, <2>2, <2>3 DEF Load
<1> QED
  BY <1>1, <1>2, <1>3 DEF PlanInv

\* Choosing: nothing that is pending is held up by the segment about to start.
LEMMA ChoosePlan ==
  ASSUME jobs \in Seq(Job), PlanInv, Choose
  PROVE  PlanInv'
<1> DEFINE i == Pick
<1>1. i \in Pending /\ \A j \in Pending : Before(i, j)
  BY PickIsFirst DEF Choose
<1>2. /\ wpc' = "segment" /\ last_run' = i /\ slack' = slack
      /\ jobs' = [j \in DOMAIN jobs |->
                    IF j = i THEN [jobs[j] EXCEPT !.state = "Running"]
                    ELSE IF j \in Preempted(i) THEN [jobs[j] EXCEPT !.preemptions = @ + 1]
                    ELSE jobs[j]]
  BY DEF Choose
<1> HIDE DEF i
<1>3. /\ DOMAIN jobs' = DOMAIN jobs
      /\ \A j \in DOMAIN jobs :
           /\ jobs'[j].qos = jobs[j].qos /\ jobs'[j].deadline = jobs[j].deadline
           /\ jobs'[j].segments = jobs[j].segments /\ jobs'[j].done = jobs[j].done
           /\ Unfinished(j)' <=> Unfinished(j)
  <2>1. DOMAIN jobs' = DOMAIN jobs
    BY <1>2
  <2>2. ASSUME NEW j \in DOMAIN jobs
        PROVE  /\ jobs'[j].qos = jobs[j].qos /\ jobs'[j].deadline = jobs[j].deadline
               /\ jobs'[j].segments = jobs[j].segments /\ jobs'[j].done = jobs[j].done
               /\ Unfinished(j)' <=> Unfinished(j)
    <3>1. jobs[j] \in Job
      OBVIOUS
    <3>2. CASE jobs'[j] = [jobs[j] EXCEPT !.state = "Running"] /\ j = i
      BY <1>1, <3>1, <3>2 DEF Job, Unfinished, Pending
    <3>3. CASE jobs'[j] = [jobs[j] EXCEPT !.preemptions = @ + 1]
      BY <3>1, <3>3 DEF Job, Unfinished
    <3>4. CASE jobs'[j] = jobs[j]
      BY <3>4 DEF Unfinished
    <3> QED
      BY <1>2, <3>2, <3>3, <3>4
  <2> QED
    BY <2>1, <2>2
<1>4. Pending' = Pending
  BY <1>3 DEF Pending, Left
<1>5. \A j, k \in Pending : Before(j, k)' <=> Before(j, k)
  BY <1>3 DEF Before, Outranks, Pending
<1>6. PlanTypes'
  <2>1. Len(jobs') = Len(jobs)
    BY <1>2
  <2>2. i \in Pending'
    BY <1>1, <1>4
  <2> QED
    BY <1>2, <1>3, <2>1, <2>2 DEF PlanInv, PlanTypes
<1>7. ASSUME NEW j \in Pending PROVE slack'[j] >= Load(j)'
  <2>1. Front(j)' = Front(j)
    BY <1>4, <1>5 DEF Front
  <2>2. Units(jobs, Front(j))' = Units(jobs, Front(j))
    BY <1>3, <2>1 DEF Units, Front, Pending
  <2>3. ~HeldUp(j)'
    BY <1>1, <1>2, <1>5 DEF HeldUp
  <2>4. slack[j] >= Load(j) /\ slack[j] \in Int
    BY InFront DEF PlanInv, PlanTypes
  <2>5. Cardinality(Units(jobs, Front(j))) \in Nat
    BY InFront DEF PlanInv
  <2>6. Load(j)' = Cardinality(Units(jobs, Front(j)))
    BY <2>2, <2>3, <2>5 DEF Load
  <2>7. Load(j) >= Cardinality(Units(jobs, Front(j)))
    BY <2>5 DEF Load
  <2> QED
    BY <1>2, <2>4, <2>5, <2>6, <2>7 DEF Load
<1> QED
  BY <1>4, <1>6, <1>7 DEF PlanInv

\* A segment: whoever it went before has one segment less in front, and whoever
\* it held up is held up no longer.
LEMMA FinishPlan ==
  ASSUME jobs \in Seq(Job), PlanInv, NEW e \in 1 .. MaxElapsed, FinishSegment(e)
  PROVE  PlanInv'
<1> DEFINE r == last_run
<1>1. /\ r \in Pending /\ wpc = "segment" /\ wpc' \in {"choose", "wake"}
      /\ slack' = [j \in Id |-> IF j \in Pending \ {r} THEN slack[j] - 1 ELSE slack[j]]
      /\ jobs' = [jobs EXCEPT ![r] = Advanced(r, e)] /\ r' = r
  BY DEF FinishSegment, PlanInv, PlanTypes, running
<1> HIDE DEF r
<1>2. /\ DOMAIN jobs' = DOMAIN jobs /\ Len(jobs') = Len(jobs) /\ r \in DOMAIN jobs
      /\ \A j \in DOMAIN jobs : j # r => jobs'[j] = jobs[j]
      /\ jobs'[r] = Advanced(r, e)
  BY <1>1 DEF Pending
<1>3. jobs[r] \in Job /\ Unfinished(r) /\ jobs[r].done < jobs[r].segments
      /\ jobs[r].done \in Nat /\ jobs[r].segments \in Nat
  <2>1. jobs[r] \in Job
    BY <1>2
  <2> QED
    BY <1>1, <2>1 DEF PlanInv, PlanTypes, Pending, Job
<1>4. /\ jobs'[r].qos = jobs[r].qos /\ jobs'[r].deadline = jobs[r].deadline
      /\ jobs'[r].segments = jobs[r].segments /\ jobs'[r].done = jobs[r].done + 1
      /\ jobs'[r].state = StateAfter(r, e)
  BY <1>2, <1>3 DEF Advanced, Job
<1>5. Unfinished(r)' => jobs'[r].done < jobs'[r].segments
  <2>1. ASSUME Unfinished(r)' PROVE ~(jobs[r].done + 1 >= jobs[r].segments)
    <3>1. StateAfter(r, e) # "Done"
      BY <1>1, <1>4, <2>1 DEF Unfinished
    <3> QED
      BY <3>1 DEF StateAfter
  <2> QED
    BY <1>3, <1>4, <2>1
<1>6. /\ Pending' \subseteq Pending
      /\ \A j \in DOMAIN jobs : j # r => (Unfinished(j)' <=> Unfinished(j))
  BY <1>1, <1>2 DEF Pending, Unfinished, Left
<1>7. \A j, k \in Pending : Before(j, k)' <=> Before(j, k)
  <2>1. \A j \in DOMAIN jobs : jobs'[j].qos = jobs[j].qos /\ jobs'[j].deadline = jobs[j].deadline
    BY <1>2, <1>4
  <2> QED
    BY <2>1 DEF Before, Outranks, Pending
<1>8. PlanTypes'
  <2>1. slack' \in [Id -> Int]
    BY <1>1 DEF PlanInv, PlanTypes
  <2>2. \A j \in DOMAIN jobs : Unfinished(j)' => jobs'[j].done < jobs'[j].segments
    <3> SUFFICES ASSUME NEW j \in DOMAIN jobs, Unfinished(j)'
                 PROVE  jobs'[j].done < jobs'[j].segments
      OBVIOUS
    <3>1. CASE j = r
      BY <1>1, <1>5, <3>1
    <3>2. CASE j # r
      BY <1>2, <1>6, <3>2 DEF PlanInv, PlanTypes
    <3> QED
      BY <3>1, <3>2
  <2> QED
    BY <1>1, <1>2, <2>1, <2>2 DEF PlanInv, PlanTypes
<1>9. ASSUME NEW j \in Pending' PROVE slack'[j] >= Load(j)'
  <2>1. j \in Pending /\ j \in Id /\ slack[j] >= Load(j) /\ slack[j] \in Int
    BY <1>6, InFront DEF PlanInv, PlanTypes
  <2> DEFINE U == Units(jobs, Front(j))
             V == Units(jobs, Front(j))'
  <2>2. IsFiniteSet(U) /\ Cardinality(U) \in Nat
    BY InFront DEF PlanInv
  <2>3. Front(j)' \subseteq Front(j)
    BY <1>6, <1>7, <2>1 DEF Front
  <2>4. V \subseteq U
    <3> SUFFICES ASSUME NEW u \in V PROVE u \in U
      OBVIOUS
    <3>1. PICK k \in Front(j)' : \E n \in jobs'[k].done + 1 .. jobs'[k].segments : u = <<k, n>>
      BY UnitIs
    <3>2. PICK n \in jobs'[k].done + 1 .. jobs'[k].segments : u = <<k, n>>
      BY <3>1
    <3>3. k \in Front(j) /\ k \in DOMAIN jobs
      BY <2>3 DEF Front, Pending
    <3>4. n \in jobs[k].done + 1 .. jobs[k].segments
      BY <1>2, <1>3, <1>4, <3>2, <3>3
    <3> QED
      BY <3>2, <3>3, <3>4, UnitIs
  <2>5. IsFiniteSet(V) /\ Cardinality(V) \in Nat /\ Cardinality(V) <= Cardinality(U)
    BY <2>2, <2>4, FS_Subset, FS_CardinalityType
  <2>6. Load(j)' = Cardinality(V)
    BY <1>1, <2>5 DEF Load, HeldUp
  <2>7. CASE j = r
    <3>1. Load(j) >= Cardinality(U)
      BY <2>2 DEF Load
    <3>2. Load(j) \in Int /\ slack'[j] = slack[j]
      BY <1>1, <2>1, <2>2, <2>7 DEF Load
    <3> HIDE DEF U, V
    <3> QED
      BY <2>1, <2>2, <2>5, <2>6, <3>1, <3>2
  <2>8. CASE j # r /\ Before(r, j)
    <3> DEFINE u == <<r, jobs[r].done + 1>>
    <3>1. r \in Front(j)
      BY <1>1, <2>8 DEF Front
    <3>2. u \in U
      <4>1. jobs[r].done + 1 \in jobs[r].done + 1 .. jobs[r].segments
        BY <1>3
      <4> QED
        BY <3>1, <4>1, UnitIs
    <3>3. u \notin V
      <4> SUFFICES ASSUME u \in V PROVE FALSE
        OBVIOUS
      <4>1. PICK k \in Front(j)' : \E n \in jobs'[k].done + 1 .. jobs'[k].segments : u = <<k, n>>
        BY UnitIs
      <4>2. PICK n \in jobs'[k].done + 1 .. jobs'[k].segments : u = <<k, n>>
        BY <4>1
      <4>3. k = r /\ n = jobs[r].done + 1
        BY <4>2
      <4> QED
        BY <1>3, <1>4, <4>2, <4>3
    <3> HIDE DEF U, V, u
    <3>4. IsFiniteSet(U \ {u}) /\ Cardinality(U \ {u}) = Cardinality(U) - 1
      BY <2>2, <3>2, FS_RemoveElement
    <3>5. Cardinality(V) <= Cardinality(U) - 1
      BY <2>4, <3>3, <3>4, FS_Subset
    <3>6. Load(j) >= Cardinality(U) /\ Load(j) \in Int
      BY <2>2 DEF Load, U
    <3>7. slack'[j] = slack[j] - 1
      BY <1>1, <2>1, <2>8
    <3> QED
      BY <2>1, <2>2, <2>5, <2>6, <3>5, <3>6, <3>7
  <2>9. CASE j # r /\ ~Before(r, j)
    <3>1. HeldUp(j)
      BY <1>1, <2>9 DEF HeldUp, r
    <3>2. Load(j) = Cardinality(U) + 1
      BY <3>1 DEF Load
    <3>3. slack'[j] = slack[j] - 1
      BY <1>1, <2>1, <2>9
    <3> HIDE DEF U, V
    <3> QED
      BY <2>1, <2>2, <2>5, <2>6, <3>2, <3>3
  <2> QED
    BY <2>7, <2>8, <2>9
<1> QED
  BY <1>8, <1>9 DEF PlanInv

\* A submission: what admission counted, and the segment that is running, go in
\* front of the new job; it goes in front of those it outranks.
LEMMA SubmitPlan ==
  ASSUME WaitInv, PlanInv, NEW c \in Client, NEW o \in OffersOf(c), Submit(c, o)
  PROVE  PlanInv'
<1>1. /\ jobs \in Seq(Job) /\ now \in Nat
      /\ o.qos \in 0 .. 3 /\ o.segments \in Nat \ {0}
      /\ o.window \in Nat \cup {None} /\ o.budget \in Nat \cup {None}
  BY TensorAssumption DEF WaitInv, WaitTypes, OffersOf
<1>m. PICK m \in Nat : m = Len(jobs) + 1
  BY <1>1
<1>2. Deadline(o) \in Nat \cup {None}
  BY <1>1 DEF Deadline
<1>3. NewJob(o) \in Job
  BY <1>1, <1>2 DEF NewJob, Job
<1>4. /\ jobs' \in Seq(Job) /\ Len(jobs') = m /\ m \in Nat /\ m \in Id
      /\ DOMAIN jobs' = DOMAIN jobs \cup {m} /\ m \notin DOMAIN jobs
      /\ \A j \in DOMAIN jobs : jobs'[j] = jobs[j] /\ j < m
      /\ jobs'[m] = NewJob(o)
  BY <1>1, <1>3, <1>m, TensorAssumption DEF Submit, Id
<1>5. /\ slack' = SlackWith(o) /\ wpc' = wpc /\ last_run' = last_run
  BY DEF Submit, worker
<1>6. /\ jobs'[m].qos = o.qos /\ jobs'[m].deadline = Deadline(o) /\ jobs'[m].done = 0
      /\ jobs'[m].segments = o.segments
      /\ jobs'[m].state = IF Admits(o) THEN "Queued" ELSE "Refused"
  BY <1>4 DEF NewJob
<1>7. /\ \A j \in DOMAIN jobs : (Unfinished(j)' <=> Unfinished(j)) /\ Left(j)' = Left(j)
      /\ \A i, j \in DOMAIN jobs : Before(i, j)' <=> Before(i, j)
  BY <1>4 DEF Unfinished, Left, Before, Outranks
<1>8. Pending' = IF Admits(o) THEN Pending \cup {m} ELSE Pending
  <2> DEFINE P(j) == jobs'[j].state \in {"Queued", "Running"} /\ jobs'[j].segments - jobs'[j].done > 0
  <2>1. P(m) <=> Admits(o)
    BY <1>1, <1>6
  <2>2. \A j \in DOMAIN jobs : P(j) <=> j \in Pending
    BY <1>4 DEF Pending, Unfinished, Left
  <2>3. Pending' = {j \in DOMAIN jobs' : P(j)} /\ Pending \subseteq DOMAIN jobs
    BY DEF Pending, Unfinished, Left
  <2> HIDE DEF P
  <2> QED
    BY <1>4, <2>1, <2>2, <2>3
<1> DEFINE sum == Ahead(o.qos)
           overtaken == {j \in Pending :
               \/ o.qos < jobs[j].qos
               \/ o.qos = jobs[j].qos /\ Nearer(Deadline(o), jobs[j].deadline)}
           A == {j \in DOMAIN jobs : Unfinished(j) /\ jobs[j].qos <= o.qos}
<1>9. slack' = [j \in Id |-> IF j = m THEN sum + 1
                             ELSE IF j \in overtaken /\ Admits(o) THEN slack[j] + o.segments
                             ELSE slack[j]]
  BY <1>5, <1>m DEF SlackWith
<1>10. A \in SUBSET Pending /\ sum = Cardinality(Units(jobs, A)) /\ sum \in Nat
  <2>1. A \in SUBSET Pending
    BY <1>1, InFront DEF PlanInv
  <2>2. IsFiniteSet(A) /\ Sound(jobs, A) /\ Cardinality(Units(jobs, A)) \in Nat
    BY <1>1, <2>1, InFront DEF PlanInv
  <2>3. sum = MapThenSumSet(Left, A)
    BY DEF Ahead
  <2> HIDE DEF A, sum
  <2> QED
    BY <2>1, <2>2, <2>3, SumCounts
<1> HIDE DEF sum
<1>11. Pending \subseteq DOMAIN jobs /\ Pending \subseteq Id /\ slack \in [Id -> Int]
  BY <1>1, InFront DEF PlanInv, PlanTypes, Pending
<1>12. PlanTypes'
  <2>1. slack' \in [Id -> Int]
    BY <1>1, <1>9, <1>10, <1>11
  <2>2. wpc' = "segment" => last_run' \in Pending'
    BY <1>5, <1>8 DEF PlanInv, PlanTypes
  <2>3. \A j \in DOMAIN jobs' : Unfinished(j)' => jobs'[j].done < jobs'[j].segments
    BY <1>1, <1>4, <1>6, <1>7 DEF PlanInv, PlanTypes
  <2>4. Len(jobs') <= MaxJobs
    BY <1>4, TensorAssumption DEF Id
  <2> QED
    BY <1>5, <2>1, <2>2, <2>3, <2>4 DEF PlanInv, PlanTypes
<1>13. \A T \in SUBSET DOMAIN jobs : Units(jobs', T) = Units(jobs, T)
  BY <1>4 DEF Units
<1>14. ASSUME NEW j \in Pending PROVE slack'[j] >= Load(j)'
  <2> DEFINE U == Units(jobs, Front(j))
             V == Units(jobs, Front(j))'
             F == Front(j)'
  <2>1. /\ j \in Id /\ slack[j] >= Load(j) /\ slack[j] \in Int /\ Cardinality(U) \in Nat
        /\ IsFiniteSet(U) /\ Front(j) \in SUBSET DOMAIN jobs /\ j # m
    BY <1>1, <1>4, <1>11, InFront DEF PlanInv
  <2>2. HeldUp(j)' <=> HeldUp(j)
    BY <1>5, <1>7, <1>11 DEF HeldUp, PlanInv, PlanTypes
  <2>3. F \ {m} = Front(j)
    BY <1>4, <1>7, <1>8, <1>11 DEF Front
  <2>4. m \in F => j \in overtaken /\ Admits(o)
    <3> SUFFICES ASSUME m \in F PROVE j \in overtaken /\ Admits(o)
      OBVIOUS
    <3>1. m \in Pending' /\ Before(m, j)'
      BY DEF Front
    <3>2. Admits(o)
      BY <1>4, <1>8, <1>11, <3>1
    <3>3. j < m /\ j \in Nat
      BY <1>1, <1>4, <1>11
    <3>4. Outranks(m, j)'
      BY <3>1, <3>3 DEF Before
    <3>5. j \in overtaken
      BY <1>4, <1>6, <1>11, <3>4 DEF Outranks
    <3> QED
      BY <3>2, <3>5
  <2>5. Units(jobs', Front(j)) = U
    BY <1>13, <2>1
  <2>6. Load(j) = Cardinality(U) + (IF HeldUp(j) THEN 1 ELSE 0)
    BY DEF Load
  <2>7. Load(j)' = Cardinality(V) + (IF HeldUp(j) THEN 1 ELSE 0)
    BY <2>2 DEF Load
  <2>8. V = Units(jobs', F)
    OBVIOUS
  <2>9. CASE m \notin F
    <3>1. V = U
      BY <2>3, <2>5, <2>8, <2>9
    <3>2. slack'[j] >= slack[j]
      BY <1>1, <1>9, <2>1
    <3>3. slack'[j] \in Int
      BY <1>12, <2>1 DEF PlanTypes
    <3> HIDE DEF U, V
    <3> QED
      BY <2>1, <2>6, <2>7, <3>1, <3>2, <3>3
  <2>10. CASE m \in F
    <3>1. Units(jobs', F \ {m}) = U
      BY <2>3, <2>5
    <3>2. Cardinality(V) = o.segments + Cardinality(U)
      <4>1. /\ m \in F /\ IsFiniteSet(Units(jobs', F \ {m}))
            /\ jobs'[m].done = 0 /\ jobs'[m].segments = o.segments /\ o.segments \in Nat
        BY <1>1, <1>6, <2>1, <2>10, <3>1
      <4> HIDE DEF F, U, V
      <4>2. Cardinality(Units(jobs', F)) = (o.segments - 0) + Cardinality(Units(jobs', F \ {m}))
        BY <4>1, UnitsOfOneMore
      <4> QED
        BY <2>1, <2>8, <3>1, <4>1, <4>2
    <3>3. slack'[j] = slack[j] + o.segments
      BY <1>9, <2>1, <2>4, <2>10
    <3> HIDE DEF U, V, F
    <3> QED
      BY <1>1, <2>1, <2>6, <2>7, <3>2, <3>3
  <2> QED
    BY <2>9, <2>10
<1>15. ASSUME Admits(o) PROVE slack'[m] >= Load(m)'
  <2> DEFINE V == Units(jobs, Front(m))'
             F == Front(m)'
  <2>1. F \subseteq A
    <3> SUFFICES ASSUME NEW i \in F PROVE i \in A
      OBVIOUS
    <3>1. i \in Pending' /\ i # m /\ Before(i, m)'
      BY DEF Front
    <3>2. i \in Pending /\ i \in DOMAIN jobs /\ Unfinished(i) /\ jobs[i] \in Job
      BY <1>1, <1>8, <1>11, <1>15, <3>1 DEF Pending
    <3>3. jobs[i].qos \in Nat
      BY <3>2 DEF Job
    <3>4. jobs'[i] = jobs[i]
      BY <1>4, <3>2
    <3>5. jobs[i].qos <= o.qos
      BY <1>1, <1>6, <3>1, <3>3, <3>4 DEF Before, Outranks
    <3> QED
      BY <3>2, <3>5
  <2>2. F \in SUBSET A /\ F \in SUBSET DOMAIN jobs /\ V = Units(jobs, F)
    BY <1>10, <1>11, <1>13, <2>1
  <2>3. V \subseteq Units(jobs, A)
    <3> HIDE DEF A, F
    <3> QED
      BY <2>2 DEF Units
  <2>4. IsFiniteSet(Units(jobs, A))
    BY <1>1, <1>10, InFront DEF PlanInv
  <2>5. Cardinality(V) <= sum /\ Cardinality(V) \in Nat
    <3> HIDE DEF A, V
    <3> QED
      BY <1>10, <2>3, <2>4, FS_Subset, FS_CardinalityType
  <2>6. slack'[m] = sum + 1
    BY <1>4, <1>9
  <2>7. Load(m)' <= Cardinality(V) + 1
    BY <2>5 DEF Load
  <2>8. Load(m)' \in Int
    BY <2>5 DEF Load
  <2> HIDE DEF V
  <2> QED
    BY <1>10, <2>5, <2>6, <2>7, <2>8
<1> QED
  BY <1>8, <1>12, <1>14, <1>15 DEF PlanInv

LEMMA NextPlan == WaitInv /\ PlanInv /\ [Next]_vars => PlanInv'
<1> SUFFICES ASSUME WaitInv, PlanInv, [Next]_vars PROVE PlanInv'
  OBVIOUS
<1>1. jobs \in Seq(Job) /\ wpc \in {"choose", "block", "segment", "wake"}
  BY DEF WaitInv, WaitTypes, PlanInv, PlanTypes
<1>2. CASE \/ Rest \/ WakeWaiters \/ WorkerResumes \/ Idle \/ UNCHANGED vars
           \/ \E c \in Client : Calls(c)
           \/ \E c \in Process, id \in Id : TensorWait(c, id)
  <2>1. /\ UNCHANGED <<jobs, slack>> /\ wpc' \in {"choose", "block", "segment", "wake"}
        /\ wpc' = "segment" => wpc = "segment" /\ last_run' = last_run
    BY <1>1, <1>2 DEF Rest, WakeWaiters, WorkerResumes, Idle, Calls, KickWorker, FinishedOrPrepare,
        TimesOut, GoesToBlock, Resumes, TensorWait, device, worker, vars
  <2> QED
    BY <1>1, <2>1, RestPlan
<1> QED
  BY <1>1, <1>2, ChoosePlan, FinishPlan, SubmitPlan DEF Next, Working

\* Whatever classes, deadlines and caps the jobs have, and whatever order they
\* come in: the device works for others no more than admission counted in front
\* of a job, later arrivals that outrank it, and one segment more.
THEOREM DelaysAreAsPromised == Spec => []DelayIsAsPromised
<1>1. WaitInv /\ PlanInv => DelayIsAsPromised
  <2> SUFFICES ASSUME WaitInv, PlanInv, NEW j \in Pending PROVE slack[j] >= 0
    BY DEF DelayIsAsPromised
  <2>1. jobs \in Seq(Job)
    BY DEF WaitInv, WaitTypes
  <2>2. Cardinality(Units(jobs, Front(j))) \in Nat /\ j \in Id
    BY <2>1, InFront DEF PlanInv
  <2>3. Load(j) \in Nat
    BY <2>2 DEF Load
  <2>4. slack[j] >= Load(j) /\ slack[j] \in Int
    BY <2>2 DEF PlanInv, PlanTypes
  <2> QED
    BY <2>3, <2>4
<1>2. WaitInv /\ PlanInv /\ [Next]_vars => (WaitInv /\ PlanInv)'
  BY NextWaits, NextPlan
<1> QED
  BY InitWaits, InitPlan, <1>1, <1>2, PTL DEF Spec
-----------------------------------------------------------------------------
(***************************************************************************)
(* The model store: types.                                                 *)
(***************************************************************************)

\* The page that reclaim() takes next is one.
LEMMA LastResident ==
  ASSUME Resident # {}
  PROVE  Max(Resident) \in Resident
<1>1. NPages \in Nat /\ Resident \subseteq 1 .. NPages
  BY ModelStoreAssumption DEF Resident, Page
<1> DEFINE S == {n \in Nat : \E g \in Resident : n = NPages - g}
<1>2. S \in SUBSET Nat /\ S # {}
  <2>1. PICK g \in Resident : TRUE
    OBVIOUS
  <2>2. NPages - g \in S
    BY <1>1, <2>1
  <2> QED
    BY <2>2
<1>3. \A n \in S : \E g \in Resident : n = NPages - g
  OBVIOUS
<1>4. \A g \in Resident : NPages - g \in S
  BY <1>1
<1> HIDE DEF S
<1>5. PICK k \in S : \A n \in S : k <= n
  BY <1>2, LeastMember
<1>6. PICK g \in Resident : k = NPages - g
  BY <1>3, <1>5
<1>7. \A h \in Resident : g >= h
  <2> SUFFICES ASSUME NEW h \in Resident PROVE g >= h
    OBVIOUS
  <2>1. NPages - g <= NPages - h
    BY <1>4, <1>5, <1>6
  <2>2. g \in Nat /\ h \in Nat
    BY <1>1
  <2> QED
    BY <1>1, <2>1, <2>2
<1> QED
  BY <1>6, <1>7 DEF Max

LEMMA InitModelTypes == ModelInit => ModelTypeOK
<1> SUFFICES ASSUME ModelInit PROVE ModelTypeOK
  OBVIOUS
<1>1. NPages \in Nat /\ NFrames \in Nat /\ MaxReclaims \in Nat /\ MaxErrors \in Nat
  BY ModelStoreAssumption
<1>2. /\ pages \in [Page -> Frame \cup {Absent, Loading}]
      /\ attached \subseteq Proc /\ faults \in 0 .. 2 * NPages /\ resident \in Int
      /\ reclaiming \in 0 .. NPages /\ dropping \in Page \cup {0}
      /\ reclaims \in 0 .. MaxReclaims /\ errors \in 0 .. MaxErrors
  BY <1>1 DEF ModelInit
<1>3. /\ free_list \in Frame \cup {0} /\ link \in [Frame -> Frame \cup {0}]
      /\ bump \in 1 .. NFrames + 1 /\ memory \in [Frame -> Page \cup {0}]
  BY <1>1 DEF ModelInit
<1>4. /\ ppc \in [Proc -> {"new", "opened", "map", "run", "look", "alloc", "take", "fill",
                           "give", "undo", "publish", "enter", "ttake", "dead"}]
      /\ page \in [Proc -> Nat]
      /\ got \in [Proc -> Frame \cup {0}] /\ head \in [Proc \cup {Reclaimer} -> Frame \cup {0}]
      /\ next \in [Proc -> Frame \cup {0, Bumped}]
      /\ table \in [Proc -> Frame \cup {0}]
      /\ pte \in [Proc -> [Page -> Frame \cup {0}]]
      /\ overlap \in BOOLEAN /\ late \subseteq Proc \X Page
  BY DEF ModelInit
<1> QED
  BY <1>2, <1>3, <1>4 DEF ModelTypeOK

\* The allocator's load and store.
LEMMA LoadTypes ==
  ASSUME ModelTypeOK, NEW p \in Proc, NEW l \in {"take", "ttake"}, LoadFrame(p, l)
  PROVE  ModelTypeOK'
<1>1. /\ head' = [head EXCEPT ![p] = IF free_list # 0 THEN free_list ELSE bump]
      /\ next' = [next EXCEPT ![p] = IF free_list # 0 THEN link[free_list] ELSE Bumped]
      /\ ppc' = [ppc EXCEPT ![p] = l] /\ ~Exhausted
      /\ overlap' \in BOOLEAN /\ late' = late
      /\ UNCHANGED <<store, errors, alloc, page, got, table, pte, memory>>
  BY DEF LoadFrame, Goto, Overlaps
<1>2. free_list = 0 => bump \in Frame
  BY <1>1, ModelStoreAssumption DEF Exhausted, ModelTypeOK, Frame
<1>3. /\ head' \in [Proc \cup {Reclaimer} -> Frame \cup {0}]
      /\ next' \in [Proc -> Frame \cup {0, Bumped}]
  BY <1>1, <1>2 DEF ModelTypeOK
<1> QED
  BY <1>1, <1>3 DEF ModelTypeOK, store, alloc

LEMMA StoreTypes ==
  ASSUME ModelTypeOK, NEW p \in Proc, head[p] \in Frame, StoreFrame(p),
         ppc' \in [Proc -> {"new", "opened", "map", "run", "look", "alloc", "take", "fill",
                            "give", "undo", "publish", "enter", "ttake", "dead"}],
         got' \in [Proc -> Frame \cup {0}], table' \in [Proc -> Frame \cup {0}]
  PROVE  ModelTypeOK'
<1>1. /\ \/ next[p] = Bumped /\ bump' = head[p] + 1 /\ UNCHANGED free_list
         \/ next[p] # Bumped /\ free_list' \in Successor(p) /\ UNCHANGED bump
      /\ memory' = [memory EXCEPT ![head[p]] = 0]
      /\ head' = [head EXCEPT ![p] = 0] /\ next' = [next EXCEPT ![p] = 0]
      /\ UNCHANGED <<store, errors, link, page, pte, ghosts>>
  BY DEF StoreFrame
<1>2. next[p] # Bumped => Successor(p) \subseteq Frame \cup {0}
  BY DEF Successor, ModelTypeOK
<1>3. /\ free_list' \in Frame \cup {0} /\ bump' \in 1 .. NFrames + 1
  BY <1>1, <1>2, ModelStoreAssumption DEF ModelTypeOK, Frame
<1>4. /\ memory' \in [Frame -> Page \cup {0}] /\ head' \in [Proc \cup {Reclaimer} -> Frame \cup {0}]
      /\ next' \in [Proc -> Frame \cup {0, Bumped}]
  BY <1>1 DEF ModelTypeOK
<1> QED
  BY <1>1, <1>3, <1>4 DEF ModelTypeOK, store, ghosts

LEMMA FreeTypes ==
  ASSUME ModelTypeOK, NEW p \in Proc \cup {Reclaimer}, NEW f \in Frame, FreeFrame(p, f)
  PROVE  /\ free_list' \in Frame \cup {0} /\ link' \in [Frame -> Frame \cup {0}]
         /\ bump' \in 1 .. NFrames + 1 /\ memory' \in [Frame -> Page \cup {0}]
         /\ head' \in [Proc \cup {Reclaimer} -> Frame \cup {0}]
BY DEF FreeFrame, ModelTypeOK

-----------------------------------------------------------------------------
(***************************************************************************)
(* A process in a fault knows its page, and holds the frame its place in   *)
(* the path says; reclaim() drops a page that is resident.  This holds     *)
(* whatever the other cores do.                                            *)
(***************************************************************************)
InFault == {"look", "alloc", "take", "fill", "give", "undo", "publish", "enter", "ttake"}

PlacesInv ==
    /\ \A p \in Proc :
           /\ ppc[p] \in InFault => page[p] \in Page
           /\ ppc[p] \in {"fill", "give", "publish", "enter", "ttake"} => got[p] \in Frame
           /\ ppc[p] \in {"take", "ttake"} => head[p] \in Frame
           /\ ppc[p] = "ttake" => table[p] = 0
    /\ dropping # 0 => reclaiming > 0 /\ dropping \in Page /\ pages[dropping] \in Frame

\* Every step keeps the types.
LEMMA ModelTypesStep ==
  ASSUME ModelTypeOK, PlacesInv, [ModelNext]_modelvars
  PROVE  ModelTypeOK'
<1>1. NPages \in Nat /\ NFrames \in Nat /\ MaxReclaims \in Nat /\ MaxErrors \in Nat
  BY ModelStoreAssumption
<1> USE DEF ModelTypeOK, store, alloc, local, ghosts, Goto
<1>2. ASSUME NEW p \in Proc, ModelOpen(p) \/ ModelOpenFails(p) \/ Attach(p) \/ AddVma(p)
      PROVE  ModelTypeOK'
  <2>1. CASE ModelOpen(p)
    BY <2>1 DEF ModelOpen
  <2>2. CASE ModelOpenFails(p)
    BY <1>1, <2>2 DEF ModelOpenFails
  <2>3. CASE Attach(p)
    BY <2>3 DEF Attach
  <2>4. CASE AddVma(p)
    BY <2>4 DEF AddVma
  <2> QED
    BY <1>2, <2>1, <2>2, <2>3, <2>4
<1>3. ASSUME NEW p \in Proc, Passes(p) \/ Touch(p) PROVE ModelTypeOK'
  <2>1. CASE Passes(p)
    <3>1. page' \in [Proc -> Nat]
      BY <2>1 DEF Passes
    <3> QED
      BY <2>1, <3>1 DEF Passes
  <2>2. CASE Touch(p)
    BY <2>2 DEF Touch
  <2> QED
    BY <1>3, <2>1, <2>2
<1>4. ASSUME NEW p \in Proc, FindsResident(p) PROVE ModelTypeOK'
  <2>1. pages[page[p]] \in Frame
    BY <1>4 DEF FindsResident, Resident
  <2>2. faults' \in 0 .. 2 * NPages
    BY <1>1, <1>4 DEF FindsResident, CountFault
  <2> QED
    BY <1>4, <2>1, <2>2 DEF FindsResident
<1>5. ASSUME NEW p \in Proc, ClaimsPage(p) PROVE ModelTypeOK'
  <2>1. faults' \in 0 .. 2 * NPages
    BY <1>1, <1>5 DEF ClaimsPage, CountFault
  <2> QED
    BY <1>5, <2>1 DEF ClaimsPage
<1>6. ASSUME NEW p \in Proc, AllocPage(p) \/ AllocTable(p) PROVE ModelTypeOK'
  BY <1>6, LoadTypes DEF AllocPage, AllocTable
<1>7. ASSUME NEW p \in Proc, TakePage(p) \/ TakeTable(p) PROVE ModelTypeOK'
  <2>1. head[p] \in Frame /\ StoreFrame(p)
    BY <1>7 DEF TakePage, TakeTable, PlacesInv
  <2>2. /\ ppc' \in [Proc -> {"new", "opened", "map", "run", "look", "alloc", "take", "fill",
                              "give", "undo", "publish", "enter", "ttake", "dead"}]
        /\ got' \in [Proc -> Frame \cup {0}] /\ table' \in [Proc -> Frame \cup {0}]
    BY <1>7, <2>1 DEF TakePage, TakeTable
  <2> QED
    BY <2>1, <2>2, StoreTypes
<1>8. ASSUME NEW p \in Proc, FillPage(p) PROVE ModelTypeOK'
  BY <1>8 DEF FillPage, PlacesInv, InFault
<1>9. ASSUME NEW p \in Proc, ReadFails(p) \/ GivesBack(p) PROVE ModelTypeOK'
  <2>1. CASE ReadFails(p)
    <3>1. head' \in [Proc \cup {Reclaimer} -> Frame \cup {0}] /\ overlap' \in BOOLEAN /\ late' = late
      BY <2>1 DEF ReadFails, LoadHead, Overlaps
    <3>2. errors' \in 0 .. MaxErrors
      BY <1>1, <2>1 DEF ReadFails
    <3>3. /\ ppc' = [ppc EXCEPT ![p] = "give"]
          /\ UNCHANGED <<store, alloc, page, got, next, table, pte, memory>>
      BY <2>1 DEF ReadFails
    <3> QED
      BY <3>1, <3>2, <3>3
  <2>2. CASE GivesBack(p)
    <3>1. got[p] \in Frame /\ FreeFrame(p, got[p])
      BY <2>2 DEF GivesBack, PlacesInv
    <3>2. /\ free_list' \in Frame \cup {0} /\ link' \in [Frame -> Frame \cup {0}]
          /\ bump' \in 1 .. NFrames + 1 /\ memory' \in [Frame -> Page \cup {0}]
          /\ head' \in [Proc \cup {Reclaimer} -> Frame \cup {0}]
      BY <3>1, FreeTypes
    <3>3. /\ ppc' = [ppc EXCEPT ![p] = "undo"] /\ got' = [got EXCEPT ![p] = 0]
          /\ UNCHANGED <<store, errors, page, next, table, pte, ghosts>>
      BY <2>2 DEF GivesBack
    <3> QED
      BY <3>2, <3>3
  <2> QED
    BY <1>9, <2>1, <2>2
<1>10. ASSUME NEW p \in Proc, NoFrame(p) \/ Unclaims(p) \/ NoTable(p) PROVE ModelTypeOK'
  BY <1>10 DEF NoFrame, Unclaims, NoTable
<1>11. ASSUME NEW p \in Proc, Publish(p) PROVE ModelTypeOK'
  <2>1. got[p] \in Frame
    BY <1>11 DEF Publish, PlacesInv
  <2>2. /\ pages' = [pages EXCEPT ![page[p]] = got[p]] /\ resident' = resident + 1
        /\ ppc' = [ppc EXCEPT ![p] = "enter"]
        /\ UNCHANGED <<attached, faults, reclaiming, dropping, reclaims, errors, free_list, link,
                       bump, page, got, head, next, table, pte, memory, overlap, late>>
    BY <1>11 DEF Publish
  <2>3. resident' \in Int
    BY <2>2
  <2>4. pages' \in [Page -> Frame \cup {Absent, Loading}]
    BY <2>1, <2>2
  <2> QED
    BY <2>2, <2>3, <2>4
<1>12. ASSUME NEW p \in Proc, Enter(p) PROVE ModelTypeOK'
  <2>1. pte' \in [Proc -> [Page -> Frame \cup {0}]]
    BY <1>12 DEF Enter, PlacesInv
  <2> QED
    BY <1>12, <2>1 DEF Enter
<1>13. ASSUME UnmapPage \/ DropPage PROVE ModelTypeOK'
  <2>1. CASE UnmapPage
    <3> DEFINE g == Max(Resident)
    <3>1. g \in Page
      BY <2>1, LastResident DEF UnmapPage, Resident
    <3>2. /\ pte' = [p \in Proc |-> IF p \in attached THEN [pte[p] EXCEPT ![g] = 0] ELSE pte[p]]
          /\ late' = {x \in late : x[2] # g \/ x[1] \notin attached}
                       \cup {<<p, g>> : p \in {q \in Mapping : page[q] = g}}
          /\ dropping' = g /\ head' = [head EXCEPT ![Reclaimer] = free_list] /\ overlap' \in BOOLEAN
          /\ UNCHANGED <<pages, attached, faults, resident, reclaiming, reclaims, errors, alloc,
                         ppc, page, got, next, table, memory>>
      BY <2>1 DEF UnmapPage, LoadHead
    <3> HIDE DEF g
    <3>3. pte' \in [Proc -> [Page -> Frame \cup {0}]]
      BY <3>1, <3>2
    <3>4. late' \subseteq Proc \X Page
      BY <3>1, <3>2 DEF Mapping
    <3> QED
      BY <3>1, <3>2, <3>3, <3>4
  <2>2. CASE DropPage
    <3>1. pages[dropping] \in Frame /\ FreeFrame(Reclaimer, pages[dropping]) /\ reclaiming > 0
      BY <2>2 DEF DropPage, PlacesInv
    <3>2. /\ free_list' \in Frame \cup {0} /\ link' \in [Frame -> Frame \cup {0}]
          /\ bump' \in 1 .. NFrames + 1 /\ memory' \in [Frame -> Page \cup {0}]
          /\ head' \in [Proc \cup {Reclaimer} -> Frame \cup {0}]
      BY <3>1, FreeTypes
    <3>3. /\ pages' = [pages EXCEPT ![dropping] = Absent] /\ resident' = resident - 1
          /\ reclaiming' = reclaiming - 1 /\ dropping' = 0
          /\ UNCHANGED <<attached, faults, reclaims, errors, ppc, page, got, next, table, pte,
                         ghosts>>
      BY <2>2 DEF DropPage
    <3>4. pages' \in [Page -> Frame \cup {Absent, Loading}]
      BY <3>3
    <3>5. reclaiming' \in 0 .. NPages
      BY <1>1, <3>1, <3>3
    <3> QED
      BY <3>2, <3>3, <3>4, <3>5
  <2> QED
    BY <1>13, <2>1, <2>2
<1>14. ASSUME ReclaimEnds PROVE ModelTypeOK'
  BY <1>1, <1>14 DEF ReclaimEnds
<1>15. ASSUME NEW want \in Page, Reclaim(want) PROVE ModelTypeOK'
  BY <1>1, <1>15 DEF Reclaim, Page
<1>16. ASSUME UNCHANGED modelvars PROVE ModelTypeOK'
  BY <1>16 DEF modelvars
<1> QED
  BY <1>2, <1>3, <1>4, <1>5, <1>6, <1>7, <1>8, <1>9, <1>10, <1>11, <1>12, <1>13, <1>14, <1>15,
     <1>16 DEF ModelNext, Faulting, Reclaiming

\* Every step leaves every process where it was with what it had, or one step
\* further with what that place asks for.
LEMMA PlacesStep ==
  ASSUME ModelTypeOK, PlacesInv, [ModelNext]_modelvars
  PROVE  PlacesInv'
<1> USE DEF PlacesInv, ModelTypeOK, InFault, store, alloc, local, ghosts, Goto
<1>1. ASSUME NEW p \in Proc,
             \/ ModelOpen(p) \/ ModelOpenFails(p) \/ Attach(p) \/ AddVma(p)
             \/ NoFrame(p) \/ NoTable(p)
      PROVE  PlacesInv'
  BY <1>1 DEF ModelOpen, ModelOpenFails, Attach, AddVma, NoFrame, NoTable
<1>2. ASSUME NEW p \in Proc, Passes(p) \/ Touch(p) PROVE PlacesInv'
  BY <1>2 DEF Passes, Touch
<1>3. ASSUME NEW p \in Proc, FindsResident(p) PROVE PlacesInv'
  <2>1. pages[page[p]] \in Frame /\ ppc[p] = "look"
    BY <1>3 DEF FindsResident, Resident
  <2> QED
    BY <1>3, <2>1 DEF FindsResident
<1>4. ASSUME NEW p \in Proc, AllocPage(p) \/ AllocTable(p) PROVE PlacesInv'
  <2>1. PICK l \in {"take", "ttake"} : 
            /\ LoadFrame(p, l) /\ ppc[p] \in {"alloc", "enter"}
            /\ l = "ttake" => ppc[p] = "enter" /\ table[p] = 0
    <3>1. CASE AllocPage(p)
      BY <3>1 DEF AllocPage
    <3>2. CASE AllocTable(p)
      BY <3>2 DEF AllocTable
    <3> QED
      BY <1>4, <3>1, <3>2
  <2>2. (IF free_list # 0 THEN free_list ELSE bump) \in Frame
    BY <2>1, ModelStoreAssumption DEF LoadFrame, Exhausted, Frame
  <2> QED
    BY <2>1, <2>2 DEF LoadFrame
<1>5. ASSUME NEW p \in Proc, TakePage(p) PROVE PlacesInv'
  BY <1>5 DEF TakePage, StoreFrame
<1>6. ASSUME NEW p \in Proc, TakeTable(p) PROVE PlacesInv'
  BY <1>6 DEF TakeTable, StoreFrame
<1>7. ASSUME NEW p \in Proc, FillPage(p) PROVE PlacesInv'
  BY <1>7 DEF FillPage
<1>8. ASSUME NEW p \in Proc, ReadFails(p) PROVE PlacesInv'
  <2>1. head' = [head EXCEPT ![p] = free_list]
    BY <1>8 DEF ReadFails, LoadHead
  <2> QED
    BY <1>8, <2>1 DEF ReadFails
<1>9. ASSUME NEW p \in Proc, GivesBack(p) PROVE PlacesInv'
  BY <1>9 DEF GivesBack, FreeFrame
<1>10. ASSUME NEW p \in Proc, ClaimsPage(p) \/ Unclaims(p) \/ Publish(p) PROVE PlacesInv'
  <2>1. dropping = 0 /\ dropping' = 0
    BY <1>10 DEF ClaimsPage, Unclaims, Publish, Unlocked
  <2> QED
    BY <1>10, <2>1 DEF ClaimsPage, Unclaims, Publish
<1>11. ASSUME NEW p \in Proc, Enter(p) PROVE PlacesInv'
  BY <1>11 DEF Enter
<1>12. ASSUME UnmapPage PROVE PlacesInv'
  <2>1. Max(Resident) \in Page /\ pages[Max(Resident)] \in Frame
    BY <1>12, LastResident DEF UnmapPage, Resident
  <2>2. \A p \in Proc : head'[p] = head[p]
    BY <1>12, ModelStoreAssumption DEF UnmapPage, LoadHead, Reclaimer
  <2> QED
    BY <1>12, <2>1, <2>2 DEF UnmapPage
<1>13. ASSUME DropPage PROVE PlacesInv'
  <2>1. \A p \in Proc : head'[p] = head[p]
    BY <1>13, ModelStoreAssumption DEF DropPage, FreeFrame, Reclaimer
  <2> QED
    BY <1>13, <2>1 DEF DropPage
<1>14. ASSUME ReclaimEnds \/ \E want \in Page : Reclaim(want) PROVE PlacesInv'
  BY <1>14 DEF ReclaimEnds, Reclaim, Unlocked
<1>15. ASSUME UNCHANGED modelvars PROVE PlacesInv'
  BY <1>15 DEF modelvars
<1> QED
  BY <1>1, <1>2, <1>3, <1>4, <1>5, <1>6, <1>7, <1>8, <1>9, <1>10, <1>11, <1>12, <1>13, <1>14,
     <1>15 DEF ModelNext, Faulting, Reclaiming

-----------------------------------------------------------------------------
(***************************************************************************)
(* A page is read by one process at a time: whoever reads it has marked    *)
(* it, nobody else takes a page so marked, and the reclaim leaves it be.   *)
(***************************************************************************)
ReadersInv ==
    /\ \A p \in Proc : ppc[p] \in Reading => pages[page[p]] = Loading
    /\ \A p, q \in Proc :
           ppc[p] \in Reading /\ ppc[q] \in Reading /\ page[p] = page[q] => p = q
    /\ \A g \in Page : pages[g] = Loading => \E p \in Proc : ppc[p] \in Reading /\ page[p] = g

\* Every step keeps the readers of a page apart.
LEMMA ReadersStep ==
  ASSUME ModelTypeOK, PlacesInv, ReadersInv, [ModelNext]_modelvars
  PROVE  ReadersInv'
<1>1. Absent # Loading /\ Loading \notin Frame
  BY DEF Absent, Loading, Frame
<1> USE DEF ReadersInv, Reading, PlacesInv, ModelTypeOK, InFault, store, alloc, local, ghosts, Goto
<1>k. ASSUME pages' = pages,
             \A q \in Proc : ppc'[q] \in Reading <=> ppc[q] \in Reading,
             \A q \in Proc : ppc[q] \in Reading => page'[q] = page[q]
      PROVE  ReadersInv'
  BY <1>k
<1>2. ASSUME NEW p \in Proc, ModelOpen(p) \/ ModelOpenFails(p) \/ Attach(p) \/ AddVma(p)
                             \/ NoFrame(p) \/ NoTable(p) \/ FindsResident(p) \/ Touch(p)
      PROVE  ReadersInv'
  <2>1. pages' = pages /\ page' = page
    BY <1>2 DEF ModelOpen, ModelOpenFails, Attach, AddVma, NoFrame, NoTable, FindsResident, Touch
  <2>2. \E l \in {"opened", "dead", "map", "run", "undo", "enter", "look"} :
            ppc' = [ppc EXCEPT ![p] = l] /\ (l = "undo" <=> ppc[p] = "alloc")
            /\ ppc[p] \in {"new", "opened", "map", "run", "look", "alloc", "enter"}
    BY <1>2 DEF ModelOpen, ModelOpenFails, Attach, AddVma, NoFrame, NoTable, FindsResident, Touch
  <2> QED
    BY <2>1, <2>2, <1>k
<1>3. ASSUME NEW p \in Proc, Passes(p) PROVE ReadersInv'
  BY <1>3, <1>k DEF Passes
<1>4. ASSUME NEW p \in Proc, ClaimsPage(p) PROVE ReadersInv'
  <2>1. \A q \in Proc : ppc[q] \in Reading => page[q] # page[p]
    BY <1>1, <1>4 DEF ClaimsPage
  <2>2. /\ pages' = [pages EXCEPT ![page[p]] = Loading] /\ page[p] \in Page /\ page' = page
        /\ ppc' = [ppc EXCEPT ![p] = "alloc"] /\ ppc[p] = "look"
    BY <1>4 DEF ClaimsPage
  <2>3. \A q \in Proc : ppc'[q] \in Reading <=> ppc[q] \in Reading \/ q = p
    BY <2>2
  <2>4. \A g \in Page : pages'[g] = Loading <=> pages[g] = Loading \/ g = page[p]
    BY <2>2
  <2> QED
    BY <2>1, <2>2, <2>3, <2>4
<1>5. ASSUME NEW p \in Proc, AllocPage(p) \/ AllocTable(p) PROVE ReadersInv'
  <2>1. CASE AllocPage(p)
    BY <2>1, <1>k DEF AllocPage, LoadFrame
  <2>2. CASE AllocTable(p)
    BY <2>2, <1>k DEF AllocTable, LoadFrame
  <2> QED
    BY <1>5, <2>1, <2>2
<1>6. ASSUME NEW p \in Proc, TakePage(p) \/ TakeTable(p) PROVE ReadersInv'
  <2>1. CASE TakePage(p)
    BY <2>1, <1>k DEF TakePage, StoreFrame
  <2>2. CASE TakeTable(p)
    BY <2>2, <1>k DEF TakeTable, StoreFrame
  <2> QED
    BY <1>6, <2>1, <2>2
<1>7. ASSUME NEW p \in Proc, FillPage(p) \/ ReadFails(p) \/ GivesBack(p) \/ Enter(p)
      PROVE  ReadersInv'
  <2>1. CASE FillPage(p)
    BY <2>1, <1>k DEF FillPage
  <2>2. CASE ReadFails(p)
    BY <2>2, <1>k DEF ReadFails
  <2>3. CASE GivesBack(p)
    BY <2>3, <1>k DEF GivesBack
  <2>4. CASE Enter(p)
    BY <2>4, <1>k DEF Enter
  <2> QED
    BY <1>7, <2>1, <2>2, <2>3, <2>4
<1>8. ASSUME NEW p \in Proc, Unclaims(p) \/ Publish(p) PROVE ReadersInv'
  <2>1. /\ ppc[p] \in Reading /\ ppc' = [ppc EXCEPT ![p] = ppc'[p]] /\ ppc'[p] \notin Reading
        /\ page' = page
        /\ \E x \in Frame \cup {Absent} : pages' = [pages EXCEPT ![page[p]] = x]
    <3>1. CASE Unclaims(p)
      BY <3>1 DEF Unclaims
    <3>2. CASE Publish(p)
      BY <3>2 DEF Publish
    <3> QED
      BY <1>8, <3>1, <3>2
  <2>2. \A q \in Proc : ppc[q] \in Reading /\ q # p => page[q] # page[p]
    BY <2>1
  <2>3. page[p] \in Page /\ pages'[page[p]] # Loading
        /\ \A g \in Page : g # page[p] => pages'[g] = pages[g]
    BY <1>1, <2>1
  <2>4. \A q \in Proc : ppc'[q] \in Reading <=> ppc[q] \in Reading /\ q # p
    BY <2>1
  <2> QED
    BY <2>1, <2>2, <2>3, <2>4
<1>9. ASSUME DropPage PROVE ReadersInv'
  <2>1. /\ dropping \in Page /\ pages[dropping] \in Frame
        /\ pages' = [pages EXCEPT ![dropping] = Absent] /\ ppc' = ppc /\ page' = page
    BY <1>9 DEF DropPage
  <2>2. \A g \in Page : pages'[g] = Loading <=> pages[g] = Loading
    BY <1>1, <2>1
  <2> QED
    BY <2>1, <2>2
<1>10. ASSUME UnmapPage \/ ReclaimEnds \/ (\E want \in Page : Reclaim(want)) PROVE ReadersInv'
  BY <1>10, <1>k DEF UnmapPage, ReclaimEnds, Reclaim
<1>11. ASSUME UNCHANGED modelvars PROVE ReadersInv'
  BY <1>11, <1>k DEF modelvars
<1> QED
  BY <1>2, <1>3, <1>4, <1>5, <1>6, <1>7, <1>8, <1>9, <1>10, <1>11
     DEF ModelNext, Faulting, Reclaiming

-----------------------------------------------------------------------------
(***************************************************************************)
(* The frame allocator, as long as no two calls of it have overlapped:     *)
(* what a call has loaded is still so when it stores.                      *)
(***************************************************************************)
AllocInv ==
    /\ \A p, q \in InAllocator : p = q
    /\ \A p \in Proc : ppc[p] \in {"take", "ttake"} =>
           \/ free_list # 0 /\ head[p] = free_list /\ next[p] = link[free_list]
           \/ free_list = 0 /\ head[p] = bump /\ bump <= NFrames /\ next[p] = Bumped
    /\ \A p \in Proc : ppc[p] = "give" => head[p] = free_list
    /\ dropping # 0 => head[Reclaimer] = free_list

\* What has overlapped stays so.
LEMMA OverlapStays ==
  ASSUME [ModelNext]_modelvars, ~overlap'
  PROVE  ~overlap
<1> USE DEF ghosts, Overlaps
<1>1. ASSUME NEW p \in Proc, ModelOpen(p) \/ ModelOpenFails(p) \/ Attach(p) \/ AddVma(p)
                             \/ Passes(p) \/ Touch(p)
      PROVE  ~overlap
  BY <1>1 DEF ModelOpen, ModelOpenFails, Attach, AddVma, Passes, Touch
<1>2. ASSUME NEW p \in Proc, FindsResident(p) \/ ClaimsPage(p) \/ AllocPage(p) \/ NoFrame(p)
                             \/ TakePage(p) \/ FillPage(p) \/ ReadFails(p)
      PROVE  ~overlap
  BY <1>2 DEF FindsResident, ClaimsPage, AllocPage, LoadFrame, NoFrame, TakePage, StoreFrame,
              FillPage, ReadFails
<1>3. ASSUME NEW p \in Proc, GivesBack(p) \/ Unclaims(p) \/ Publish(p) \/ AllocTable(p)
                             \/ NoTable(p) \/ TakeTable(p) \/ Enter(p)
      PROVE  ~overlap
  BY <1>3 DEF GivesBack, Unclaims, Publish, AllocTable, LoadFrame, NoTable, TakeTable, StoreFrame,
              Enter
<1>4. ASSUME Reclaiming \/ \E want \in Page : Reclaim(want) PROVE ~overlap
  BY <1>4 DEF Reclaiming, UnmapPage, DropPage, ReclaimEnds, Reclaim
<1>5. ASSUME UNCHANGED modelvars PROVE ~overlap
  BY <1>5 DEF modelvars
<1> QED
  BY <1>1, <1>2, <1>3, <1>4, <1>5 DEF ModelNext, Faulting

\* Whoever comes in is alone, and stores before anybody else comes in.
LEMMA AllocStep ==
  ASSUME ModelTypeOK, PlacesInv, AllocInv, [ModelNext]_modelvars, ~overlap'
  PROVE  AllocInv'
<1>0. Reclaimer \notin Proc
  BY ModelStoreAssumption DEF Reclaimer
<1> USE DEF InAllocator, ModelTypeOK, store, alloc, local, ghosts, Goto
<1>k. ASSUME UNCHANGED <<free_list, link, bump, head, next, dropping>>,
             NEW p \in Proc, NEW l, ppc' = [ppc EXCEPT ![p] = l],
             l \notin {"take", "ttake", "give"}
      PROVE  AllocInv'
  <2>1. \A q \in Proc : ppc'[q] \in {"take", "ttake", "give"} => ppc'[q] = ppc[q]
    BY <1>k
  <2> QED
    BY <1>k, <2>1 DEF AllocInv
<1>s. ASSUME UNCHANGED <<free_list, link, bump, head, next, dropping, ppc>> PROVE AllocInv'
  BY <1>s DEF AllocInv
<1>e. ASSUME InAllocator' = {} PROVE AllocInv'
  BY <1>e DEF AllocInv
<1>1. ASSUME NEW p \in Proc, ModelOpen(p) \/ ModelOpenFails(p) \/ Attach(p) \/ AddVma(p) \/ Touch(p)
      PROVE  AllocInv'
  BY <1>1, <1>k DEF ModelOpen, ModelOpenFails, Attach, AddVma, Touch
<1>2. ASSUME NEW p \in Proc, FindsResident(p) \/ ClaimsPage(p) \/ NoFrame(p) \/ FillPage(p)
      PROVE  AllocInv'
  BY <1>2, <1>k DEF FindsResident, ClaimsPage, NoFrame, FillPage
<1>3. ASSUME NEW p \in Proc, Unclaims(p) \/ Publish(p) \/ NoTable(p) \/ Enter(p)
      PROVE  AllocInv'
  BY <1>3, <1>k DEF Unclaims, Publish, NoTable, Enter
<1>4. ASSUME NEW p \in Proc, AllocPage(p) \/ AllocTable(p) PROVE AllocInv'
  <2>1. PICK l \in {"take", "ttake"} : LoadFrame(p, l)
    BY <1>4 DEF AllocPage, AllocTable
  <2>2. InAllocator = {} /\ UNCHANGED <<free_list, link, bump, dropping>>
        /\ ppc' = [ppc EXCEPT ![p] = l]
    BY <2>1 DEF LoadFrame, Overlaps
  <2>3. free_list = 0 => bump <= NFrames
    BY <2>1, ModelStoreAssumption DEF LoadFrame, Exhausted
  <2>4. /\ head'[p] = IF free_list # 0 THEN free_list ELSE bump
        /\ next'[p] = IF free_list # 0 THEN link[free_list] ELSE Bumped
    BY <2>1 DEF LoadFrame
  <2>5. dropping' = 0 /\ \A q \in Proc : ppc'[q] \in {"take", "ttake", "give"} => q = p
    BY <2>2
  <2> QED
    BY <2>2, <2>3, <2>4, <2>5 DEF AllocInv
<1>5. ASSUME NEW p \in Proc, TakePage(p) \/ TakeTable(p) \/ GivesBack(p) PROVE AllocInv'
  <2>1. /\ ppc[p] \in {"take", "ttake", "give"} /\ dropping' = dropping
        /\ \E l \in {"fill", "enter", "undo"} : ppc' = [ppc EXCEPT ![p] = l]
    BY <1>5 DEF TakePage, TakeTable, GivesBack, StoreFrame
  <2>2. dropping = 0 /\ \A q \in Proc : ppc[q] \in {"take", "ttake", "give"} => q = p
    BY <1>0, <2>1 DEF AllocInv
  <2> QED
    BY <2>1, <2>2, <1>e
<1>6. ASSUME NEW p \in Proc, ReadFails(p) PROVE AllocInv'
  <2>1. InAllocator = {} /\ UNCHANGED <<free_list, link, bump, dropping>>
        /\ ppc' = [ppc EXCEPT ![p] = "give"] /\ head' = [head EXCEPT ![p] = free_list]
    BY <1>6 DEF ReadFails, Overlaps, LoadHead
  <2>2. dropping' = 0 /\ \A q \in Proc : ppc'[q] \in {"take", "ttake", "give"} => q = p
    BY <2>1
  <2>3. ppc'[p] = "give" /\ head'[p] = free_list
    BY <2>1
  <2> QED
    BY <2>1, <2>2, <2>3 DEF AllocInv
<1>7. ASSUME UnmapPage PROVE AllocInv'
  <2>1. InAllocator = {} /\ UNCHANGED <<free_list, ppc>> /\ head' = [head EXCEPT ![Reclaimer] = free_list]
    BY <1>7 DEF UnmapPage, LoadHead
  <2>2. (\A q \in Proc : ppc'[q] \notin {"take", "ttake", "give"}) /\ head'[Reclaimer] = free_list
    BY <2>1
  <2> QED
    BY <2>1, <2>2 DEF AllocInv
<1>8. ASSUME DropPage PROVE AllocInv'
  <2>1. dropping # 0 /\ dropping' = 0 /\ ppc' = ppc
    BY <1>8 DEF DropPage
  <2>2. \A q \in Proc : ppc[q] \notin {"take", "ttake", "give"}
    BY <1>0, <2>1 DEF AllocInv
  <2> QED
    BY <2>1, <2>2, <1>e
<1>9. ASSUME (\E p \in Proc : Passes(p)) \/ ReclaimEnds \/ (\E want \in Page : Reclaim(want))
             \/ UNCHANGED modelvars
      PROVE  AllocInv'
  BY <1>9, <1>s DEF Passes, ReclaimEnds, Reclaim, modelvars
<1> QED
  BY <1>1, <1>2, <1>3, <1>4, <1>5, <1>6, <1>7, <1>8, <1>9 DEF ModelNext, Faulting, Reclaiming

-----------------------------------------------------------------------------
(***************************************************************************)
(* Who has a frame.  The free frames are those that bump has not reached   *)
(* and those of a stack st[1], ..., st[n] that free_list and the links     *)
(* spell from the top; every frame has one kind of owner and, where there  *)
(* are several of a kind, one of them.                                     *)
(***************************************************************************)
IsStack(st, n) ==
    /\ n \in Nat /\ st \in [1 .. n -> Frame]
    /\ \A i, j \in 1 .. n : st[i] = st[j] => i = j
    /\ \A i \in 1 .. n : st[i] < bump /\ link[st[i]] = IF i = 1 THEN 0 ELSE st[i - 1]
    /\ free_list = IF n = 0 THEN 0 ELSE st[n]

IsFree(st, n, f) == f >= bump \/ \E i \in 1 .. n : st[i] = f

Fills(p, f) == ppc[p] \in {"fill", "give", "publish"} /\ got[p] = f

IsOwned(st, n, kind, of) ==
    /\ \A f \in Frame : IsFree(st, n, f) <=> kind[f] = "free"
    /\ \A f \in Frame : kind[f] \in {"free", "page", "table", "filling"}
    /\ \A f \in Frame : kind[f] = "page" => of[f] \in Page
    /\ \A f \in Frame : kind[f] \in {"table", "filling"} => of[f] \in Proc
    /\ \A f \in Frame, g \in Page : pages[g] = f <=> (kind[f] = "page" /\ of[f] = g)
    /\ \A f \in Frame, p \in Proc : table[p] = f <=> (kind[f] = "table" /\ of[f] = p)
    /\ \A f \in Frame, p \in Proc : Fills(p, f) <=> (kind[f] = "filling" /\ of[f] = p)

OwnersInv ==
    \E n \in Nat, kind \in [Frame -> {"free", "page", "table", "filling"}],
       of \in [Frame -> Page \cup Proc] :
        \E st \in [1 .. n -> Frame] : IsStack(st, n) /\ IsOwned(st, n, kind, of)

\* What an allocation stores takes the loaded frame off the free frames.
LEMMA TakenFromFree ==
  ASSUME ModelTypeOK, AllocInv, ~overlap, NEW p \in Proc, ppc[p] \in {"take", "ttake"},
         head[p] \in Frame, StoreFrame(p),
         NEW st, NEW n, IsStack(st, n)
  PROVE  /\ IsFree(st, n, head[p])
         /\ \E m \in Nat : \E s2 \in [1 .. m -> Frame] :
                /\ IsStack(s2, m)'
                /\ \A f \in Frame : IsFree(s2, m, f)' <=> (IsFree(st, n, f) /\ f # head[p])
<1>1. NFrames \in Nat /\ n \in Nat /\ link' = link
      /\ \/ next[p] = Bumped /\ bump' = head[p] + 1 /\ UNCHANGED free_list
         \/ next[p] # Bumped /\ free_list' = next[p] /\ UNCHANGED bump
  BY ModelStoreAssumption DEF StoreFrame, Successor, IsStack
<1>2. CASE free_list # 0
  <2>1. head[p] = free_list /\ next[p] = link[free_list]
    BY <1>2 DEF AllocInv
  <2>2. n # 0 /\ st[n] = head[p] /\ n \in 1 .. n
    BY <1>1, <1>2, <2>1 DEF IsStack
  <2>3. next[p] = IF n = 1 THEN 0 ELSE st[n - 1]
    BY <2>1, <2>2 DEF IsStack
  <2>4. n # 1 => n - 1 \in 1 .. n
    BY <1>1, <2>2
  <2>5. next[p] # Bumped
    BY <2>3, <2>4 DEF IsStack, Bumped, Frame
  <2> DEFINE s2 == [i \in 1 .. n - 1 |-> st[i]]
  <2>6. n - 1 \in Nat /\ \A i \in 1 .. n - 1 : i \in 1 .. n /\ s2[i] = st[i]
    BY <1>1, <2>2
  <2>7. s2 \in [1 .. n - 1 -> Frame]
    BY <2>6 DEF IsStack
  <2>8. bump' = bump /\ free_list' = next[p]
    BY <1>1, <2>5
  <2> HIDE DEF s2
  <2>9. free_list' = IF n - 1 = 0 THEN 0 ELSE s2[n - 1]
    BY <1>1, <2>2, <2>3, <2>6, <2>8
  <2>10. \A i \in 1 .. n - 1 : s2[i] < bump /\ link[s2[i]] = IF i = 1 THEN 0 ELSE s2[i - 1]
    <3> SUFFICES ASSUME NEW i \in 1 .. n - 1
                 PROVE  s2[i] < bump /\ link[s2[i]] = IF i = 1 THEN 0 ELSE s2[i - 1]
      OBVIOUS
    <3>1. i # 1 => i - 1 \in 1 .. n - 1
      BY <1>1
    <3> QED
      BY <2>6, <3>1 DEF IsStack
  <2>11. IsStack(s2, n - 1)'
    BY <1>1, <2>6, <2>7, <2>8, <2>9, <2>10 DEF IsStack
  <2>12. \A i \in 1 .. n : i \in 1 .. n - 1 \/ i = n
    BY <1>1
  <2>13. ~ head[p] >= bump
    BY <2>2 DEF IsStack, ModelTypeOK, Frame
  <2>14. \A i \in 1 .. n - 1 : st[i] # head[p]
    <3> SUFFICES ASSUME NEW i \in 1 .. n - 1, st[i] = head[p] PROVE FALSE
      OBVIOUS
    <3>1. i = n
      BY <2>2, <2>6 DEF IsStack
    <3> QED
      BY <1>1, <3>1
  <2>15. \A f \in Frame : IsFree(s2, n - 1, f)' <=> (IsFree(st, n, f) /\ f # head[p])
    <3> SUFFICES ASSUME NEW f \in Frame
                 PROVE  IsFree(s2, n - 1, f)' <=> (IsFree(st, n, f) /\ f # head[p])
      OBVIOUS
    <3>1. IsFree(s2, n - 1, f)' <=> f >= bump \/ \E i \in 1 .. n - 1 : st[i] = f
      BY <2>6, <2>8 DEF IsFree
    <3>2. (\E i \in 1 .. n : st[i] = f) <=> (f = head[p] \/ \E i \in 1 .. n - 1 : st[i] = f)
      BY <2>2, <2>6, <2>12
    <3> QED
      BY <3>1, <3>2, <2>13, <2>14 DEF IsFree
  <2>16. IsFree(st, n, head[p])
    BY <2>2 DEF IsFree
  <2> QED
    BY <2>6, <2>7, <2>11, <2>15, <2>16
<1>3. CASE free_list = 0
  <2>1. head[p] = bump /\ bump <= NFrames /\ next[p] = Bumped
    BY <1>3 DEF AllocInv
  <2>2. bump' = bump + 1 /\ free_list' = free_list /\ bump \in Nat
    BY <1>1, <2>1 DEF ModelTypeOK
  <2>3. IsStack(st, n)'
    BY <1>1, <2>2 DEF IsStack, Frame
  <2>4. \A f \in Frame : IsFree(st, n, f)' <=> (IsFree(st, n, f) /\ f # head[p])
    BY <1>1, <2>1, <2>2 DEF IsFree, IsStack, Frame
  <2>5. IsFree(st, n, head[p])
    BY <2>1, <2>2 DEF IsFree
  <2> QED
    BY <1>1, <2>3, <2>4, <2>5 DEF IsStack
<1> QED
  BY <1>2, <1>3

\* A frame that is freed goes on top.
LEMMA GivenToFree ==
  ASSUME ModelTypeOK, NEW q \in Proc \cup {Reclaimer}, head[q] = free_list,
         NEW f \in Frame, FreeFrame(q, f),
         NEW st, NEW n, IsStack(st, n), ~IsFree(st, n, f)
  PROVE  \E m \in Nat : \E s2 \in [1 .. m -> Frame] :
             /\ IsStack(s2, m)'
             /\ \A e \in Frame : IsFree(s2, m, e)' <=> (IsFree(st, n, e) \/ e = f)
<1>1. /\ n \in Nat /\ st \in [1 .. n -> Frame] /\ bump \in Nat /\ bump' = bump
      /\ link' = [link EXCEPT ![f] = free_list] /\ free_list' = f
      /\ link \in [Frame -> Frame \cup {0}]
  BY DEF IsStack, FreeFrame, ModelTypeOK
<1>2. f < bump /\ \A i \in 1 .. n : st[i] # f
  BY <1>1 DEF IsFree, Frame
<1> DEFINE s2 == [i \in 1 .. n + 1 |-> IF i = n + 1 THEN f ELSE st[i]]
<1>3. \A i \in 1 .. n + 1 : i = n + 1 \/ (i \in 1 .. n /\ i # n + 1)
  BY <1>1
<1>4. n + 1 \in Nat /\ n + 1 \in 1 .. n + 1 /\ \A i \in 1 .. n : i \in 1 .. n + 1 /\ i # n + 1
  BY <1>1
<1>5. s2 \in [1 .. n + 1 -> Frame]
  BY <1>1, <1>3
<1>6. s2[n + 1] = f /\ \A i \in 1 .. n : s2[i] = st[i]
  BY <1>4
<1> HIDE DEF s2
<1>7. \A i, j \in 1 .. n + 1 : s2[i] = s2[j] => i = j
  BY <1>2, <1>3, <1>6 DEF IsStack
<1>8. \A i \in 1 .. n + 1 : s2[i] < bump /\ link'[s2[i]] = IF i = 1 THEN 0 ELSE s2[i - 1]
  <2> SUFFICES ASSUME NEW i \in 1 .. n + 1
               PROVE  s2[i] < bump /\ link'[s2[i]] = IF i = 1 THEN 0 ELSE s2[i - 1]
    OBVIOUS
  <2>1. CASE i = n + 1
    <3>1. link'[f] = free_list
      BY <1>1
    <3>2. i = 1 <=> n = 0
      BY <1>1, <2>1
    <3>3. n # 0 => i - 1 \in 1 .. n /\ i - 1 = n
      BY <1>1, <2>1
    <3> QED
      BY <2>1, <1>2, <1>6, <3>1, <3>2, <3>3 DEF IsStack
  <2>2. CASE i \in 1 .. n
    <3>1. i # 1 => i - 1 \in 1 .. n
      BY <1>1, <2>2
    <3>2. link'[st[i]] = link[st[i]]
      BY <1>1, <1>2, <2>2
    <3> QED
      BY <2>2, <1>6, <3>1, <3>2 DEF IsStack
  <2> QED
    BY <1>3, <2>1, <2>2
<1>9. IsStack(s2, n + 1)'
  BY <1>1, <1>4, <1>5, <1>6, <1>7, <1>8 DEF IsStack
<1>10. \A e \in Frame : IsFree(s2, n + 1, e)' <=> (IsFree(st, n, e) \/ e = f)
  <2> SUFFICES ASSUME NEW e \in Frame
               PROVE  (\E i \in 1 .. n + 1 : s2[i] = e) <=> (e = f \/ \E i \in 1 .. n : st[i] = e)
    BY <1>1 DEF IsFree
  <2> QED
    BY <1>3, <1>4, <1>6
<1> QED
  BY <1>4, <1>5, <1>9, <1>10

\* Nothing moves: no frame comes or goes anywhere.
LEMMA OwnersStay ==
  ASSUME OwnersInv, UNCHANGED <<free_list, link, bump>>,
         \A f \in Frame, g \in Page : pages'[g] = f <=> pages[g] = f,
         \A f \in Frame, p \in Proc : table'[p] = f <=> table[p] = f,
         \A f \in Frame, p \in Proc : Fills(p, f)' <=> Fills(p, f)
  PROVE  OwnersInv'
<1>o. PICK n \in Nat, kind \in [Frame -> {"free", "page", "table", "filling"}],
           of \in [Frame -> Page \cup Proc] :
               \E st \in [1 .. n -> Frame] : IsStack(st, n) /\ IsOwned(st, n, kind, of)
  BY DEF OwnersInv
<1>1. PICK st \in [1 .. n -> Frame] : IsStack(st, n) /\ IsOwned(st, n, kind, of)
  BY <1>o
<1>2. IsStack(st, n)'
  BY <1>1 DEF IsStack
<1>3. \A f \in Frame : IsFree(st, n, f)' <=> IsFree(st, n, f)
  BY <1>1 DEF IsFree
<1>4. IsOwned(st, n, kind, of)'
  BY <1>1, <1>3 DEF IsOwned
<1> QED
  BY <1>1, <1>2, <1>4 DEF OwnersInv

\* Frame f moves to the owner k, o: the stack, the pages, the tables and the
\* fills agree on where it went, and on all the others as before.
Moves(st, n, s2, m, f, k, o) ==
    /\ \A e \in Frame : IsFree(s2, m, e)' <=> IF e = f THEN k = "free" ELSE IsFree(st, n, e)
    /\ \A e \in Frame, g \in Page :
           pages'[g] = e <=> IF e = f THEN k = "page" /\ o = g ELSE pages[g] = e
    /\ \A e \in Frame, p \in Proc :
           table'[p] = e <=> IF e = f THEN k = "table" /\ o = p ELSE table[p] = e
    /\ \A e \in Frame, p \in Proc :
           Fills(p, e)' <=> IF e = f THEN k = "filling" /\ o = p ELSE Fills(p, e)

\* A frame that moves has one owner afterwards, and so has every other.
LEMMA OwnerMoves ==
  ASSUME NEW n \in Nat, NEW st \in [1 .. n -> Frame],
         NEW kind \in [Frame -> {"free", "page", "table", "filling"}],
         NEW of \in [Frame -> Page \cup Proc], IsOwned(st, n, kind, of),
         NEW m \in Nat, NEW s2 \in [1 .. m -> Frame], IsStack(s2, m)',
         NEW f \in Frame, NEW k \in {"free", "page", "table", "filling"},
         NEW o \in Page \cup Proc,
         k = "page" => o \in Page, k \in {"table", "filling"} => o \in Proc,
         Moves(st, n, s2, m, f, k, o)
  PROVE  OwnersInv'
<1> DEFINE kind2 == [kind EXCEPT ![f] = k]
           of2 == [of EXCEPT ![f] = o]
<1>1. kind2 \in [Frame -> {"free", "page", "table", "filling"}] /\ of2 \in [Frame -> Page \cup Proc]
  OBVIOUS
<1>2. \A e \in Frame : /\ kind2[e] = (IF e = f THEN k ELSE kind[e])
                       /\ of2[e] = (IF e = f THEN o ELSE of[e])
  OBVIOUS
<1> HIDE DEF kind2, of2
<1>3. IsOwned(s2, m, kind2, of2)'
  <2>1. \A e \in Frame : IsFree(s2, m, e)' <=> kind2[e] = "free"
    BY <1>2 DEF IsOwned, Moves
  <2>2. /\ \A e \in Frame : kind2[e] \in {"free", "page", "table", "filling"}
        /\ \A e \in Frame : kind2[e] = "page" => of2[e] \in Page
        /\ \A e \in Frame : kind2[e] \in {"table", "filling"} => of2[e] \in Proc
    BY <1>2 DEF IsOwned, Moves
  <2>3. \A e \in Frame, g \in Page : pages'[g] = e <=> (kind2[e] = "page" /\ of2[e] = g)
    BY <1>2 DEF IsOwned, Moves
  <2>4. \A e \in Frame, p \in Proc : table'[p] = e <=> (kind2[e] = "table" /\ of2[e] = p)
    BY <1>2 DEF IsOwned, Moves
  <2>5. \A e \in Frame, p \in Proc : Fills(p, e)' <=> (kind2[e] = "filling" /\ of2[e] = p)
    BY <1>2 DEF IsOwned, Moves
  <2> QED
    BY <2>1, <2>2, <2>3, <2>4, <2>5 DEF IsOwned
<1> QED
  BY <1>1, <1>3 DEF OwnersInv

\* Every step leaves every frame with one owner.
LEMMA OwnersStep ==
  ASSUME ModelTypeOK, PlacesInv, ReadersInv, AllocInv, OwnersInv, ~overlap,
         [ModelNext]_modelvars
  PROVE  OwnersInv'
<1>z. Absent \notin Frame /\ Loading \notin Frame /\ 0 \notin Frame
  BY DEF Absent, Loading, Frame
<1> USE DEF ModelTypeOK, store, alloc, local, ghosts, Goto
<1>1. ASSUME NEW p \in Proc, ModelOpen(p) \/ ModelOpenFails(p) \/ Attach(p) \/ AddVma(p)
      PROVE  OwnersInv'
  <2>1. UNCHANGED <<free_list, link, bump, pages, table, got>> /\ ppc[p] \notin {"fill", "give", "publish"}
        /\ \E l \in {"opened", "dead", "map", "run"} : ppc' = [ppc EXCEPT ![p] = l]
    BY <1>1 DEF ModelOpen, ModelOpenFails, Attach, AddVma
  <2>2. \A f \in Frame, q \in Proc : Fills(q, f)' <=> Fills(q, f)
    BY <2>1 DEF Fills
  <2> QED
    BY <2>1, <2>2, OwnersStay
<1>2. ASSUME NEW p \in Proc, Passes(p) \/ Touch(p) PROVE OwnersInv'
  <2>1. \A f \in Frame, q \in Proc : Fills(q, f)' <=> Fills(q, f)
    BY <1>2 DEF Fills, Passes, Touch
  <2> QED
    BY <1>2, <2>1, OwnersStay DEF Passes, Touch
<1>3. ASSUME NEW p \in Proc, FindsResident(p) PROVE OwnersInv'
  <2>1. \A f \in Frame, q \in Proc : Fills(q, f)' <=> Fills(q, f)
    BY <1>3 DEF Fills, FindsResident
  <2> QED
    BY <1>3, <2>1, OwnersStay DEF FindsResident
<1>4. ASSUME NEW p \in Proc, ClaimsPage(p) PROVE OwnersInv'
  <2>1. \A f \in Frame, q \in Proc : Fills(q, f)' <=> Fills(q, f)
    BY <1>4 DEF Fills, ClaimsPage
  <2>2. \A f \in Frame, g \in Page : pages'[g] = f <=> pages[g] = f
    BY <1>4, <1>z DEF ClaimsPage
  <2>3. UNCHANGED <<free_list, link, bump, table>>
    BY <1>4 DEF ClaimsPage
  <2> QED
    BY <2>1, <2>2, <2>3, OwnersStay
<1>5. ASSUME NEW p \in Proc, AllocPage(p) \/ AllocTable(p) PROVE OwnersInv'
  <2>1. PICK l \in {"take", "ttake"} : LoadFrame(p, l) /\ ppc[p] \in {"alloc", "enter"}
    BY <1>5 DEF AllocPage, AllocTable
  <2>2. \A f \in Frame, q \in Proc : Fills(q, f)' <=> Fills(q, f)
    BY <2>1 DEF Fills, LoadFrame
  <2> QED
    BY <2>1, <2>2, OwnersStay DEF LoadFrame
<1>6. ASSUME NEW p \in Proc, NoFrame(p) \/ NoTable(p) \/ FillPage(p) \/ ReadFails(p) PROVE OwnersInv'
  <2>1. UNCHANGED <<free_list, link, bump, pages, table, got>>
    BY <1>6 DEF NoFrame, NoTable, FillPage, ReadFails
  <2>2. \E l : ppc' = [ppc EXCEPT ![p] = l]
               /\ (l \in {"fill", "give", "publish"} <=> ppc[p] \in {"fill", "give", "publish"})
    BY <1>6 DEF NoFrame, NoTable, FillPage, ReadFails
  <2>3. \A f \in Frame, q \in Proc : Fills(q, f)' <=> Fills(q, f)
    BY <2>1, <2>2 DEF Fills
  <2> QED
    BY <2>1, <2>3, OwnersStay
<1>7. ASSUME NEW p \in Proc, Unclaims(p) PROVE OwnersInv'
  <2>1. \A f \in Frame, q \in Proc : Fills(q, f)' <=> Fills(q, f)
    BY <1>7 DEF Fills, Unclaims
  <2>2. pages[page[p]] = Loading /\ pages' = [pages EXCEPT ![page[p]] = Absent]
    BY <1>7 DEF Unclaims, ReadersInv, Reading
  <2>3. \A f \in Frame, g \in Page : pages'[g] = f <=> pages[g] = f
    BY <2>2, <1>z
  <2>4. UNCHANGED <<free_list, link, bump, table>>
    BY <1>7 DEF Unclaims
  <2> QED
    BY <2>1, <2>3, <2>4, OwnersStay
<1>8. ASSUME NEW p \in Proc, Enter(p) PROVE OwnersInv'
  <2>1. \A f \in Frame, q \in Proc : Fills(q, f)' <=> Fills(q, f)
    BY <1>8 DEF Fills, Enter
  <2> QED
    BY <1>8, <2>1, OwnersStay DEF Enter
<1>9. ASSUME UnmapPage \/ ReclaimEnds \/ (\E want \in Page : Reclaim(want)) \/ UNCHANGED modelvars
      PROVE  OwnersInv'
  <2>1. UNCHANGED <<free_list, link, bump, pages, table, got, ppc>>
    BY <1>9 DEF UnmapPage, ReclaimEnds, Reclaim, modelvars
  <2>2. \A f \in Frame, q \in Proc : Fills(q, f)' <=> Fills(q, f)
    BY <2>1 DEF Fills
  <2> QED
    BY <2>1, <2>2, OwnersStay
<1>o. PICK n \in Nat, kind \in [Frame -> {"free", "page", "table", "filling"}],
           of \in [Frame -> Page \cup Proc] :
               \E st \in [1 .. n -> Frame] : IsStack(st, n) /\ IsOwned(st, n, kind, of)
  BY DEF OwnersInv
<1>p. PICK st \in [1 .. n -> Frame] : IsStack(st, n) /\ IsOwned(st, n, kind, of)
  BY <1>o
<1>10. ASSUME NEW p \in Proc, TakePage(p) PROVE OwnersInv'
  <2>1. head[p] \in Frame /\ StoreFrame(p) /\ ppc[p] = "take"
    BY <1>10 DEF TakePage, PlacesInv
  <2>2. IsFree(st, n, head[p])
    BY <1>p, <2>1, TakenFromFree
  <2>m. PICK m \in Nat : \E s2 \in [1 .. m -> Frame] :
            /\ IsStack(s2, m)'
            /\ \A f \in Frame : IsFree(s2, m, f)' <=> (IsFree(st, n, f) /\ f # head[p])
    BY <1>p, <2>1, TakenFromFree
  <2>3. PICK s2 \in [1 .. m -> Frame] :
            /\ IsStack(s2, m)'
            /\ \A f \in Frame : IsFree(s2, m, f)' <=> (IsFree(st, n, f) /\ f # head[p])
    BY <2>m
  <2>4. \A e \in Frame, q \in Proc : Fills(q, e)' <=> IF e = head[p] THEN p = q ELSE Fills(q, e)
    <3>1. \A q \in Proc : ~Fills(q, head[p])
      BY <1>p, <2>1, <2>2 DEF IsOwned
    <3> QED
      BY <1>10, <2>1, <3>1 DEF Fills, TakePage
  <2>5. kind[head[p]] = "free" /\ pages' = pages /\ table' = table
    BY <1>p, <1>10, <2>1, <2>2 DEF IsOwned, TakePage, StoreFrame
  <2>6. /\ \A g \in Page : pages[g] # head[p]
        /\ \A q \in Proc : table[q] # head[p]
    BY <1>p, <2>1, <2>5 DEF IsOwned
  <2> DEFINE k == "filling"
  <2>7. Moves(st, n, s2, m, head[p], k, p)
    BY <2>3, <2>4, <2>5, <2>6 DEF Moves
  <2>8. k \in {"free", "page", "table", "filling"} /\ p \in Page \cup Proc
        /\ (k = "page" => p \in Page) /\ (k \in {"table", "filling"} => p \in Proc)
    OBVIOUS
  <2>9. IsOwned(st, n, kind, of) /\ IsStack(s2, m)' /\ head[p] \in Frame
    BY <1>p, <2>1, <2>3
  <2>10. m \in Nat /\ s2 \in [1 .. m -> Frame] /\ n \in Nat /\ st \in [1 .. n -> Frame]
    OBVIOUS
  <2> HIDE DEF k
  <2> QED
    BY ONLY <2>7, <2>8, <2>9, <2>10, OwnerMoves
<1>11. ASSUME NEW p \in Proc, TakeTable(p) PROVE OwnersInv'
  <2>1. head[p] \in Frame /\ StoreFrame(p) /\ table[p] = 0 /\ ppc[p] = "ttake"
    BY <1>11 DEF TakeTable, PlacesInv
  <2>2. IsFree(st, n, head[p])
    BY <1>p, <2>1, TakenFromFree
  <2>m. PICK m \in Nat : \E s2 \in [1 .. m -> Frame] :
            /\ IsStack(s2, m)'
            /\ \A f \in Frame : IsFree(s2, m, f)' <=> (IsFree(st, n, f) /\ f # head[p])
    BY <1>p, <2>1, TakenFromFree
  <2>3. PICK s2 \in [1 .. m -> Frame] :
            /\ IsStack(s2, m)'
            /\ \A f \in Frame : IsFree(s2, m, f)' <=> (IsFree(st, n, f) /\ f # head[p])
    BY <2>m
  <2>4. /\ kind[head[p]] = "free" /\ pages' = pages /\ table' = [table EXCEPT ![p] = head[p]]
        /\ \A f \in Frame, q \in Proc : Fills(q, f)' <=> Fills(q, f)
    <3>1. \A f \in Frame, q \in Proc : Fills(q, f)' <=> Fills(q, f)
      BY <1>11 DEF Fills, TakeTable
    <3> QED
      BY <1>p, <1>11, <2>1, <2>2, <3>1 DEF IsOwned, TakeTable, StoreFrame
  <2>5. /\ \A g \in Page : pages[g] # head[p]
        /\ \A q \in Proc : table[q] # head[p] /\ ~Fills(q, head[p])
    BY <1>p, <2>1, <2>4 DEF IsOwned
  <2>6. \A e \in Frame, q \in Proc :
            table'[q] = e <=> IF e = head[p] THEN p = q ELSE table[q] = e
    BY <1>z, <2>1, <2>4, <2>5
  <2> DEFINE k == "table"
  <2>7. Moves(st, n, s2, m, head[p], k, p)
    BY <2>3, <2>4, <2>5, <2>6 DEF Moves
  <2>8. k \in {"free", "page", "table", "filling"} /\ p \in Page \cup Proc
        /\ (k = "page" => p \in Page) /\ (k \in {"table", "filling"} => p \in Proc)
    OBVIOUS
  <2>9. IsOwned(st, n, kind, of) /\ IsStack(s2, m)' /\ head[p] \in Frame
    BY <1>p, <2>1, <2>3
  <2>10. m \in Nat /\ s2 \in [1 .. m -> Frame] /\ n \in Nat /\ st \in [1 .. n -> Frame]
    OBVIOUS
  <2> HIDE DEF k
  <2> QED
    BY ONLY <2>7, <2>8, <2>9, <2>10, OwnerMoves
<1>12. ASSUME NEW p \in Proc, GivesBack(p) PROVE OwnersInv'
  <2>1. /\ got[p] \in Frame /\ FreeFrame(p, got[p]) /\ Fills(p, got[p])
        /\ head[p] = free_list /\ p \in Proc \cup {Reclaimer}
    BY <1>12 DEF GivesBack, PlacesInv, AllocInv, Fills
  <2>2. kind[got[p]] = "filling" /\ of[got[p]] = p
    BY <1>p, <2>1 DEF IsOwned
  <2>m. PICK m \in Nat : \E s2 \in [1 .. m -> Frame] :
            /\ IsStack(s2, m)'
            /\ \A f \in Frame : IsFree(s2, m, f)' <=> (IsFree(st, n, f) \/ f = got[p])
    <3>1. ~IsFree(st, n, got[p])
      BY <1>p, <2>1, <2>2 DEF IsOwned
    <3> QED
      BY <1>p, <2>1, <3>1, GivenToFree
  <2>3. PICK s2 \in [1 .. m -> Frame] :
            /\ IsStack(s2, m)'
            /\ \A f \in Frame : IsFree(s2, m, f)' <=> (IsFree(st, n, f) \/ f = got[p])
    BY <2>m
  <2>4. /\ \A g \in Page : pages[g] # got[p]
        /\ \A q \in Proc : table[q] # got[p] /\ (Fills(q, got[p]) => q = p)
    BY <1>p, <2>1, <2>2 DEF IsOwned
  <2>5. pages' = pages /\ table' = table
    BY <1>12 DEF GivesBack
  <2>6. \A e \in Frame, q \in Proc : Fills(q, e)' <=> (e # got[p] /\ Fills(q, e))
    <3>1. \A e \in Frame : Fills(p, e) => e = got[p]
      BY DEF Fills
    <3>2. \A e \in Frame : ~Fills(p, e)'
      BY <1>12 DEF GivesBack, Fills
    <3>3. \A e \in Frame, q \in Proc : q # p => (Fills(q, e)' <=> Fills(q, e))
      BY <1>12 DEF GivesBack, Fills
    <3> QED
      BY <2>1, <2>4, <3>1, <3>2, <3>3
  <2> DEFINE k == "free"
  <2>7. Moves(st, n, s2, m, got[p], k, p)
    BY <2>3, <2>4, <2>5, <2>6 DEF Moves
  <2>8. k \in {"free", "page", "table", "filling"} /\ p \in Page \cup Proc
        /\ (k = "page" => p \in Page) /\ (k \in {"table", "filling"} => p \in Proc)
    OBVIOUS
  <2>9. IsOwned(st, n, kind, of) /\ IsStack(s2, m)' /\ got[p] \in Frame
    BY <1>p, <2>1, <2>3
  <2>10. m \in Nat /\ s2 \in [1 .. m -> Frame] /\ n \in Nat /\ st \in [1 .. n -> Frame]
    OBVIOUS
  <2> HIDE DEF k
  <2> QED
    BY ONLY <2>7, <2>8, <2>9, <2>10, OwnerMoves
<1>13. ASSUME NEW p \in Proc, Publish(p) PROVE OwnersInv'
  <2>1. got[p] \in Frame /\ Fills(p, got[p]) /\ page[p] \in Page /\ pages[page[p]] = Loading
    BY <1>13 DEF Publish, PlacesInv, InFault, ReadersInv, Reading, Fills
  <2>2. kind[got[p]] = "filling" /\ of[got[p]] = p
    BY <1>p, <2>1 DEF IsOwned
  <2>3. /\ ~IsFree(st, n, got[p])
        /\ \A g \in Page : pages[g] # got[p]
        /\ \A q \in Proc : table[q] # got[p] /\ (Fills(q, got[p]) => q = p)
    BY <1>p, <2>1, <2>2 DEF IsOwned
  <2>4. /\ table' = table /\ pages' = [pages EXCEPT ![page[p]] = got[p]]
        /\ UNCHANGED <<free_list, link, bump, got>> /\ ppc' = [ppc EXCEPT ![p] = "enter"]
    BY <1>13 DEF Publish
  <2>5. IsStack(st, n)' /\ \A e \in Frame : IsFree(st, n, e)' <=> IsFree(st, n, e)
    BY <1>p, <2>4 DEF IsStack, IsFree
  <2>6. \A e \in Frame, q \in Proc : Fills(q, e)' <=> (e # got[p] /\ Fills(q, e))
    <3>1. \A e \in Frame : Fills(p, e) => e = got[p]
      BY DEF Fills
    <3>2. \A e \in Frame : ~Fills(p, e)'
      BY <2>4 DEF Fills
    <3>3. \A e \in Frame, q \in Proc : q # p => (Fills(q, e)' <=> Fills(q, e))
      BY <2>4 DEF Fills
    <3> QED
      BY <2>1, <2>3, <3>1, <3>2, <3>3
  <2>7. \A e \in Frame, g \in Page : pages'[g] = e <=>
            IF e = got[p] THEN page[p] = g ELSE pages[g] = e
    BY <1>z, <2>1, <2>3, <2>4
  <2> DEFINE k == "page"
             o == page[p]
  <2>8. Moves(st, n, st, n, got[p], k, o)
    BY <2>3, <2>4, <2>5, <2>6, <2>7 DEF Moves
  <2>9. k \in {"free", "page", "table", "filling"} /\ o \in Page \cup Proc
        /\ (k = "page" => o \in Page) /\ (k \in {"table", "filling"} => o \in Proc)
    BY <2>1
  <2> HIDE DEF k, o
  <2> QED
    BY <1>p, <2>1, <2>5, <2>8, <2>9, OwnerMoves
<1>14. ASSUME DropPage PROVE OwnersInv'
  <2> DEFINE g == dropping
  <2>1. /\ g \in Page /\ pages[g] \in Frame /\ FreeFrame(Reclaimer, pages[g])
        /\ pages' = [pages EXCEPT ![g] = Absent]
        /\ head[Reclaimer] = free_list /\ Reclaimer \in Proc \cup {Reclaimer}
    BY <1>14 DEF DropPage, PlacesInv, AllocInv
  <2> DEFINE f == pages[g]
  <2>2. kind[f] = "page" /\ of[f] = g /\ f \in Frame
    BY <1>p, <2>1 DEF IsOwned
  <2>m. PICK m \in Nat : \E s2 \in [1 .. m -> Frame] :
            /\ IsStack(s2, m)'
            /\ \A e \in Frame : IsFree(s2, m, e)' <=> (IsFree(st, n, e) \/ e = f)
    <3>1. ~IsFree(st, n, f)
      BY <1>p, <2>2 DEF IsOwned
    <3> QED
      BY <1>p, <2>1, <3>1, GivenToFree
  <2>3. PICK s2 \in [1 .. m -> Frame] :
            /\ IsStack(s2, m)'
            /\ \A e \in Frame : IsFree(s2, m, e)' <=> (IsFree(st, n, e) \/ e = f)
    BY <2>m
  <2>4. /\ \A h \in Page : pages[h] = f => h = g
        /\ \A q \in Proc : table[q] # f /\ ~Fills(q, f)
    BY <1>p, <2>2 DEF IsOwned
  <2>5. table' = table /\ got' = got /\ ppc' = ppc
    BY <1>14 DEF DropPage
  <2>6. \A e \in Frame, q \in Proc : Fills(q, e)' <=> Fills(q, e)
    BY <2>5 DEF Fills
  <2>7. \A e \in Frame, h \in Page : pages'[h] = e <=> (e # f /\ pages[h] = e)
    BY <1>z, <2>1, <2>4
  <2> DEFINE k == "free"
  <2>8. Moves(st, n, s2, m, f, k, g)
    BY <2>3, <2>4, <2>5, <2>6, <2>7 DEF Moves
  <2>9. k \in {"free", "page", "table", "filling"} /\ g \in Page \cup Proc
        /\ (k = "page" => g \in Page) /\ (k \in {"table", "filling"} => g \in Proc)
    BY <2>1
  <2>10. IsOwned(st, n, kind, of) /\ IsStack(s2, m)' /\ f \in Frame
    BY <1>p, <2>2, <2>3
  <2>11. m \in Nat /\ s2 \in [1 .. m -> Frame] /\ n \in Nat /\ st \in [1 .. n -> Frame]
    OBVIOUS
  <2> HIDE DEF k, f, g
  <2> QED
    BY ONLY <2>8, <2>9, <2>10, <2>11, OwnerMoves
<1> QED
  BY <1>1, <1>2, <1>3, <1>4, <1>5, <1>6, <1>7, <1>8, <1>9, <1>10, <1>11, <1>12, <1>13, <1>14
     DEF ModelNext, Faulting, Reclaiming

\* What one owner means for the pages, for the fills and for a process that
\* allocates: the frames of different pages differ, no frame that is being
\* filled is a page's or another's, and a frame that is about to be handed out
\* is neither.
LEMMA FramesApart ==
  ASSUME ModelTypeOK, PlacesInv, AllocInv, OwnersInv
  PROVE  /\ \A g, h \in Page : pages[g] \in Frame /\ pages[h] = pages[g] => h = g
         /\ \A p \in Proc : ppc[p] \in {"fill", "give", "publish"} =>
                /\ \A g \in Page : pages[g] # got[p]
                /\ \A q \in Proc : ppc[q] \in {"fill", "give", "publish"} /\ got[q] = got[p] => q = p
         /\ \A p \in Proc : ppc[p] \in {"take", "ttake"} =>
                /\ \A g \in Page : pages[g] # head[p]
                /\ \A q \in Proc : ppc[q] \in {"fill", "give", "publish"} => got[q] # head[p]
<1>o. PICK n \in Nat, kind \in [Frame -> {"free", "page", "table", "filling"}],
           of \in [Frame -> Page \cup Proc] :
               \E st \in [1 .. n -> Frame] : IsStack(st, n) /\ IsOwned(st, n, kind, of)
  BY DEF OwnersInv
<1>p. PICK st \in [1 .. n -> Frame] : IsStack(st, n) /\ IsOwned(st, n, kind, of)
  BY <1>o
<1>1. \A g, h \in Page : pages[g] \in Frame /\ pages[h] = pages[g] => h = g
  BY <1>p DEF IsOwned
<1>2. ASSUME NEW p \in Proc, ppc[p] \in {"fill", "give", "publish"}
      PROVE  /\ \A g \in Page : pages[g] # got[p]
             /\ \A q \in Proc : ppc[q] \in {"fill", "give", "publish"} /\ got[q] = got[p] => q = p
  <2>1. got[p] \in Frame /\ Fills(p, got[p])
    BY <1>2 DEF PlacesInv, Fills
  <2>2. kind[got[p]] = "filling" /\ of[got[p]] = p
    BY <1>p, <2>1 DEF IsOwned
  <2>3. \A q \in Proc : Fills(q, got[p]) => q = p
    BY <1>p, <2>1, <2>2 DEF IsOwned
  <2>4. \A g \in Page : pages[g] # got[p]
    BY <1>p, <2>1, <2>2 DEF IsOwned
  <2> QED
    BY <2>3, <2>4 DEF Fills
<1>3. ASSUME NEW p \in Proc, ppc[p] \in {"take", "ttake"}
      PROVE  /\ \A g \in Page : pages[g] # head[p]
             /\ \A q \in Proc : ppc[q] \in {"fill", "give", "publish"} => got[q] # head[p]
  <2>1. head[p] \in Frame
    BY <1>3 DEF PlacesInv
  <2>2. IsFree(st, n, head[p])
    <3>1. CASE free_list # 0
      <4>1. head[p] = st[n] /\ n \in 1 .. n
        BY <1>3, <1>p, <3>1 DEF AllocInv, IsStack
      <4> QED
        BY <4>1 DEF IsFree
    <3>2. CASE free_list = 0
      BY <1>3, <2>1, <3>2 DEF AllocInv, IsFree, Frame, ModelTypeOK
    <3> QED
      BY <3>1, <3>2
  <2>3. kind[head[p]] = "free"
    BY <1>p, <2>1, <2>2 DEF IsOwned
  <2>4. \A g \in Page : pages[g] # head[p]
    BY <1>p, <2>1, <2>3 DEF IsOwned
  <2>5. \A q \in Proc : ~Fills(q, head[p])
    BY <1>p, <2>1, <2>3 DEF IsOwned
  <2> QED
    BY <2>4, <2>5 DEF Fills
<1> QED
  BY <1>1, <1>2, <1>3

-----------------------------------------------------------------------------
(***************************************************************************)
(* The free list is the stack: the walk along the links from free_list     *)
(* finds its entries in turn and then zeros, and the stack is no longer    *)
(* than there are frames.                                                  *)
(***************************************************************************)
IsWalk(c) == c = [n \in 0 .. NFrames |-> IF n = 0 THEN free_list
                                        ELSE IF c[n - 1] = 0 THEN 0 ELSE link[c[n - 1]]]

\* The frames on the free list are those of the stack.
LEMMA FreeListIsTheStack ==
  ASSUME NEW n, NEW st, IsStack(st, n)
  PROVE  FreeList = {st[i] : i \in 1 .. n}
<1>1. n \in Nat /\ st \in [1 .. n -> Frame] /\ NFrames \in Nat /\ 0 \notin Frame
  BY ModelStoreAssumption DEF IsStack, Frame
<1>2. n <= NFrames
  <2>1. IsFiniteSet(1 .. n) /\ Cardinality(1 .. n) = n
    BY <1>1, FS_Interval
  <2>2. IsFiniteSet(Frame) /\ Cardinality(Frame) = NFrames
    BY <1>1, FS_Interval DEF Frame
  <2>3. ASSUME NFrames < n PROVE FALSE
    <3>1. \E i, j \in 1 .. n : i # j /\ st[i] = st[j]
      BY <1>1, <2>1, <2>2, <2>3, FS_PigeonHole
    <3> QED
      BY <3>1 DEF IsStack
  <2> QED
    BY <1>1, <2>3
<1> DEFINE w == [k \in 0 .. NFrames |-> IF k < n THEN st[n - k] ELSE 0]
<1>3. \A k \in 0 .. NFrames : w[k] = IF k < n THEN st[n - k] ELSE 0
  OBVIOUS
<1>4. \A k \in 0 .. NFrames :
          w[k] = IF k = 0 THEN free_list ELSE IF w[k - 1] = 0 THEN 0 ELSE link[w[k - 1]]
  <2> SUFFICES ASSUME NEW k \in 0 .. NFrames
               PROVE  w[k] = IF k = 0 THEN free_list
                             ELSE IF w[k - 1] = 0 THEN 0 ELSE link[w[k - 1]]
    OBVIOUS
  <2> HIDE DEF w
  <2>1. CASE k = 0
    BY <1>1, <1>3, <2>1 DEF IsStack
  <2>2. CASE k # 0 /\ k <= n
    <3>1. k - 1 \in 0 .. NFrames /\ k - 1 < n /\ n - (k - 1) \in 1 .. n
      BY <1>1, <2>2
    <3>2. w[k - 1] = st[n - (k - 1)] /\ w[k - 1] # 0
      BY <1>1, <1>3, <3>1
    <3>3. link[w[k - 1]] = IF n - (k - 1) = 1 THEN 0 ELSE st[n - (k - 1) - 1]
      BY <3>1, <3>2 DEF IsStack
    <3>4. (n - (k - 1) = 1 <=> k = n) /\ n - (k - 1) - 1 = n - k
      BY <1>1
    <3>5. w[k] = IF k = n THEN 0 ELSE st[n - k]
      BY <1>1, <1>3, <2>2
    <3> QED
      BY <2>2, <3>2, <3>3, <3>4, <3>5
  <2>3. CASE k # 0 /\ ~(k <= n)
    <3>1. k - 1 \in 0 .. NFrames /\ ~(k - 1 < n) /\ ~(k < n)
      BY <1>1, <2>3
    <3> QED
      BY <1>3, <2>3, <3>1
  <2> QED
    BY <2>1, <2>2, <2>3
<1>5. IsWalk(w)
  BY <1>4 DEF IsWalk
<1> DEFINE c == CHOOSE c : IsWalk(c)
<1>6. IsWalk(c)
  BY <1>5
<1>7. FreeList = {c[k] : k \in 0 .. NFrames} \ {0}
  BY DEF FreeList, IsWalk
<1> HIDE DEF c, w
<1>8. \A k \in 0 .. NFrames : c[k] = w[k]
  <2> DEFINE Off == {k \in 0 .. NFrames : c[k] # w[k]}
  <2>1. SUFFICES ASSUME Off # {} PROVE FALSE
    OBVIOUS
  <2>2. Off \in SUBSET Nat
    BY <1>1
  <2> HIDE DEF Off
  <2>3. PICK k \in Off : \A j \in Off : k <= j
    BY <2>1, <2>2, LeastMember
  <2>4. k \in 0 .. NFrames /\ c[k] # w[k]
    BY <2>3 DEF Off
  <2>5. c[k] = IF k = 0 THEN free_list ELSE IF c[k - 1] = 0 THEN 0 ELSE link[c[k - 1]]
    BY <1>6, <2>4 DEF IsWalk
  <2>6. w[k] = IF k = 0 THEN free_list ELSE IF w[k - 1] = 0 THEN 0 ELSE link[w[k - 1]]
    BY <1>4, <2>4
  <2>7. CASE k # 0
    <3>1. k - 1 \in 0 .. NFrames /\ ~(k <= k - 1)
      BY <1>1, <2>4, <2>7
    <3>2. c[k - 1] = w[k - 1]
      BY <2>3, <3>1 DEF Off
    <3> QED
      BY <2>4, <2>5, <2>6, <3>2
  <2> QED
    BY <2>4, <2>5, <2>6, <2>7
<1>9. {w[k] : k \in 0 .. NFrames} \ {0} = {st[i] : i \in 1 .. n}
  <2>1. ASSUME NEW k \in 0 .. NFrames, w[k] # 0 PROVE \E i \in 1 .. n : w[k] = st[i]
    <3>1. k < n /\ w[k] = st[n - k]
      BY <1>3, <2>1
    <3>2. n - k \in 1 .. n
      BY <1>1, <3>1
    <3> QED
      BY <3>1, <3>2
  <2>2. ASSUME NEW i \in 1 .. n PROVE \E k \in 0 .. NFrames : w[k] = st[i] /\ w[k] # 0
    <3>1. n - i \in 0 .. NFrames /\ n - i < n /\ n - (n - i) = i
      BY <1>1, <1>2
    <3>2. w[n - i] = st[i]
      BY <1>3, <3>1
    <3> QED
      BY <1>1, <3>1, <3>2
  <2> QED
    BY <2>1, <2>2
<1> QED
  BY <1>7, <1>8, <1>9

\* One owner, as the property counts it.
LEMMA OwnersAreCounted ==
  ASSUME ModelTypeOK, OwnersInv, NEW f \in Frame
  PROVE  Cardinality(Owners(f)) = 1
<1>o. PICK n \in Nat, kind \in [Frame -> {"free", "page", "table", "filling"}],
           of \in [Frame -> Page \cup Proc] :
               \E st \in [1 .. n -> Frame] : IsStack(st, n) /\ IsOwned(st, n, kind, of)
  BY DEF OwnersInv
<1>p. PICK st \in [1 .. n -> Frame] : IsStack(st, n) /\ IsOwned(st, n, kind, of)
  BY <1>o
<1>1. FreeList = {st[i] : i \in 1 .. n}
  BY <1>p, FreeListIsTheStack
<1> DEFINE free == IF f \in FreeList \/ f >= bump THEN {<<"free">>} ELSE {}
           paged == {<<"page", g>> : g \in {h \in Page : pages[h] = f}}
           tables == {<<"table", p>> : p \in {q \in Proc : table[q] = f}}
           filling == {<<"filling", p>> :
                           p \in {q \in Proc : ppc[q] \in {"fill", "give", "publish"} /\ got[q] = f}}
<1>2. Owners(f) = free \cup paged \cup tables \cup filling
  BY DEF Owners
<1>3. free = IF kind[f] = "free" THEN {<<"free">>} ELSE {}
  BY <1>p, <1>1 DEF IsOwned, IsFree
<1>4. /\ {h \in Page : pages[h] = f} = IF kind[f] = "page" THEN {of[f]} ELSE {}
      /\ {q \in Proc : table[q] = f} = IF kind[f] = "table" THEN {of[f]} ELSE {}
      /\ {q \in Proc : ppc[q] \in {"fill", "give", "publish"} /\ got[q] = f} =
             IF kind[f] = "filling" THEN {of[f]} ELSE {}
  BY <1>p DEF IsOwned, Fills
<1>5. /\ paged = IF kind[f] = "page" THEN {<<"page", of[f]>>} ELSE {}
      /\ tables = IF kind[f] = "table" THEN {<<"table", of[f]>>} ELSE {}
      /\ filling = IF kind[f] = "filling" THEN {<<"filling", of[f]>>} ELSE {}
  BY <1>4
<1> HIDE DEF free, paged, tables, filling
<1>6. \E x : Owners(f) = {x}
  <2>1. CASE kind[f] = "free"
    BY <1>2, <1>3, <1>5, <2>1
  <2>2. CASE kind[f] = "page"
    BY <1>2, <1>3, <1>5, <2>2
  <2>3. CASE kind[f] = "table"
    BY <1>2, <1>3, <1>5, <2>3
  <2>4. CASE kind[f] = "filling"
    BY <1>2, <1>3, <1>5, <2>4
  <2> QED
    BY <1>p, <2>1, <2>2, <2>3, <2>4 DEF IsOwned
<1> QED
  BY <1>6, FS_Singleton

-----------------------------------------------------------------------------
(***************************************************************************)
(* The mappings.  reclaim() takes a page out of the page table of every    *)
(* process that has attached, so a mapping of a page that is not resident  *)
(* can only be made by a fault that had the frame before: between a look   *)
(* and a mapping nothing but a reclaim changes what the look has found.    *)
(***************************************************************************)
MapInv ==
    /\ \A p \in Mapping : <<p, page[p]>> \notin late => pages[page[p]] = got[p]
    /\ \A p \in Proc, g \in Page :
           pte[p][g] # 0 /\ <<p, g>> \notin late => pages[g] = pte[p][g]
    /\ \A p \in Proc : p \notin attached => /\ ppc[p] \in {"new", "opened", "dead"}
                                            /\ \A g \in Page : pte[p][g] = 0
    /\ dropping # 0 => /\ \A p \in Mapping : page[p] = dropping => <<p, dropping>> \in late
                       /\ \A p \in Proc : pte[p][dropping] # 0 => <<p, dropping>> \in late

\* Every step keeps the mappings true, whatever the allocator hands out.
LEMMA MapStep ==
  ASSUME ModelTypeOK, PlacesInv, ReadersInv, MapInv, [ModelNext]_modelvars
  PROVE  MapInv'
<1>z. Absent \notin Frame /\ Loading \notin Frame /\ 0 \notin Frame
  BY DEF Absent, Loading, Frame
<1> USE DEF Mapping, ModelTypeOK, store, alloc, local, ghosts, Goto
<1>k. ASSUME UNCHANGED <<pages, pte, late, dropping>>, attached \subseteq attached',
             NEW p \in Proc, NEW l, ppc' = [ppc EXCEPT ![p] = l],
             l \in {"enter", "ttake"} => ppc[p] \in {"enter", "ttake"},
             l \in {"opened", "dead"} \/ p \in attached',
             \A q \in Proc : ppc'[q] \in {"enter", "ttake"} => got'[q] = got[q] /\ page'[q] = page[q]
      PROVE  MapInv'
  <2>1. \A q \in Proc : ppc'[q] \in {"enter", "ttake"} => ppc[q] \in {"enter", "ttake"}
    BY <1>k
  <2>2. \A q \in Proc : q \notin attached' => ppc'[q] \in {"new", "opened", "dead"}
    BY <1>k DEF MapInv
  <2> QED
    BY <1>k, <2>1, <2>2 DEF MapInv
<1>s. ASSUME UNCHANGED <<pages, pte, late, dropping, attached, ppc, got, page>> PROVE MapInv'
  BY <1>s DEF MapInv
<1>a. \A p \in Proc : ppc[p] \notin {"new", "opened", "dead"} => p \in attached
  BY DEF MapInv
<1>1. ASSUME NEW p \in Proc, ModelOpen(p) \/ ModelOpenFails(p) \/ Attach(p) \/ AddVma(p)
                             \/ NoFrame(p) \/ NoTable(p) \/ Touch(p)
      PROVE  MapInv'
  <2>1. UNCHANGED <<pages, page, got, pte, late, dropping>> /\ attached \subseteq attached'
    BY <1>1 DEF ModelOpen, ModelOpenFails, Attach, AddVma, NoFrame, NoTable, Touch
  <2>2. PICK l \in {"opened", "dead", "map", "run", "undo", "look"} :
            ppc' = [ppc EXCEPT ![p] = l] /\ (l \in {"opened", "dead"} \/ p \in attached')
    BY <1>1, <1>a DEF ModelOpen, ModelOpenFails, Attach, AddVma, NoFrame, NoTable, Touch
  <2> QED
    BY <2>1, <2>2, <1>k
<1>2. ASSUME NEW p \in Proc, Passes(p) PROVE MapInv'
  <2>1. /\ ppc[p] = "run" /\ page' = [page EXCEPT ![p] = page'[p]]
        /\ UNCHANGED <<pages, pte, late, dropping, attached, ppc, got>>
    BY <1>2 DEF Passes
  <2>2. \A q \in Proc : ppc[q] \in {"enter", "ttake"} => page'[q] = page[q]
    BY <2>1
  <2> QED
    BY <2>1, <2>2 DEF MapInv
<1>3. ASSUME NEW p \in Proc, FindsResident(p) PROVE MapInv'
  <2>1. /\ ppc[p] = "look" /\ page[p] \in Page /\ got' = [got EXCEPT ![p] = pages[page[p]]]
        /\ ppc' = [ppc EXCEPT ![p] = "enter"] /\ dropping = 0
        /\ UNCHANGED <<pages, page, pte, late, dropping, attached>>
    BY <1>3 DEF FindsResident, Unlocked, PlacesInv, InFault
  <2>2. \A q \in Proc : q # p => ppc'[q] = ppc[q] /\ got'[q] = got[q]
    BY <2>1
  <2>3. ppc'[p] = "enter" /\ got'[p] = pages[page[p]] /\ p \in attached
    BY <1>a, <2>1
  <2> QED
    BY <2>1, <2>2, <2>3 DEF MapInv
<1>4. ASSUME NEW p \in Proc, ClaimsPage(p) \/ Unclaims(p) \/ Publish(p) PROVE MapInv'
  <2>1. /\ dropping = 0 /\ dropping' = 0 /\ page[p] \in Page /\ pages[page[p]] \notin Frame
        /\ UNCHANGED <<attached, page, got, pte, late>> /\ p \in attached
    <3>1. CASE ClaimsPage(p)
      <4>1. /\ ppc[p] = "look" /\ reclaiming = 0 /\ pages[page[p]] = Absent
            /\ UNCHANGED <<attached, page, got, pte, late, dropping>>
        BY <3>1 DEF ClaimsPage, Unlocked
      <4> QED
        BY <4>1, <1>a, <1>z DEF PlacesInv, InFault
    <3>2. CASE Unclaims(p)
      BY <3>2, <1>a, <1>z DEF Unclaims, Unlocked, PlacesInv, InFault, ReadersInv, Reading
    <3>3. CASE Publish(p)
      BY <3>3, <1>a, <1>z DEF Publish, Unlocked, PlacesInv, InFault, ReadersInv, Reading
    <3> QED
      BY <1>4, <3>1, <3>2, <3>3
  <2>2. \A q \in Proc : ppc[q] \in {"enter", "ttake"} => page[q] \in Page /\ got[q] \in Frame
    BY DEF PlacesInv, InFault
  <2>3. \A q \in Proc : ppc[q] \in {"enter", "ttake"} /\ <<q, page[q]>> \notin late =>
            page[q] # page[p]
    BY <2>1, <2>2 DEF MapInv
  <2>4. \A q \in Proc, g \in Page : pte[q][g] # 0 /\ <<q, g>> \notin late => g # page[p]
    BY <2>1 DEF MapInv
  <2>5. \A g \in Page : g # page[p] => pages'[g] = pages[g]
    BY <1>4 DEF ClaimsPage, Unclaims, Publish
  <2>6. \/ /\ ppc'[p] \in {"alloc", "dead"}
        \/ /\ ppc'[p] = "enter" /\ pages'[page[p]] = got[p]
    BY <1>4, <2>1 DEF ClaimsPage, Unclaims, Publish
  <2>7. \A q \in Proc : q # p => ppc'[q] = ppc[q]
    BY <1>4 DEF ClaimsPage, Unclaims, Publish
  <2>8. \A q \in Proc : ppc'[q] \in {"enter", "ttake"} /\ <<q, page[q]>> \notin late =>
            pages'[page[q]] = got[q]
    BY <2>2, <2>3, <2>5, <2>6, <2>7 DEF MapInv
  <2>9. \A q \in Proc, g \in Page :
            pte[q][g] # 0 /\ <<q, g>> \notin late => pages'[g] = pte[q][g]
    BY <2>4, <2>5 DEF MapInv
  <2>10. \A q \in Proc : q \notin attached => ppc'[q] \in {"new", "opened", "dead"}
    BY <2>1, <2>7 DEF MapInv
  <2> QED
    BY <2>1, <2>8, <2>9, <2>10 DEF MapInv
<1>5. ASSUME NEW p \in Proc, AllocPage(p) \/ AllocTable(p) PROVE MapInv'
  <2>1. CASE AllocPage(p)
    <3>1. ppc' = [ppc EXCEPT ![p] = "take"] /\ p \in attached
      BY <2>1, <1>a DEF AllocPage, LoadFrame
    <3>2. UNCHANGED <<pages, pte, late, dropping, attached, got, page>>
      BY <2>1 DEF AllocPage, LoadFrame, Overlaps
    <3> QED
      BY <3>1, <3>2, <1>k
  <2>2. CASE AllocTable(p)
    <3>1. ppc' = [ppc EXCEPT ![p] = "ttake"] /\ p \in attached /\ ppc[p] = "enter"
      BY <2>2, <1>a DEF AllocTable, LoadFrame
    <3>2. UNCHANGED <<pages, pte, late, dropping, attached, got, page>>
      BY <2>2 DEF AllocTable, LoadFrame, Overlaps
    <3> QED
      BY <3>1, <3>2, <1>k
  <2> QED
    BY <1>5, <2>1, <2>2
<1>6. ASSUME NEW p \in Proc, TakePage(p) \/ TakeTable(p) \/ FillPage(p) \/ ReadFails(p) \/ GivesBack(p)
      PROVE  MapInv'
  <2>1. p \in attached /\ UNCHANGED <<pages, pte, late, dropping, attached, page>>
    BY <1>6, <1>a DEF TakePage, TakeTable, StoreFrame, FillPage, ReadFails, GivesBack, Overlaps
  <2>2. PICK l \in {"fill", "enter", "publish", "give", "undo"} :
            ppc' = [ppc EXCEPT ![p] = l] /\ (l = "enter" => ppc[p] = "ttake" /\ got' = got)
    BY <1>6 DEF TakePage, TakeTable, FillPage, ReadFails, GivesBack
  <2>3. \A q \in Proc : q # p => got'[q] = got[q]
    BY <1>6 DEF TakePage, TakeTable, FillPage, ReadFails, GivesBack
  <2>4. \A q \in Proc : ppc'[q] \in {"enter", "ttake"} => got'[q] = got[q]
    BY <2>2, <2>3
  <2> QED
    BY <2>1, <2>2, <2>4, <1>k
<1>7. ASSUME NEW p \in Proc, Enter(p) PROVE MapInv'
  <2>1. /\ ppc[p] = "enter" /\ pte' = [pte EXCEPT ![p][page[p]] = got[p]]
        /\ got' = [got EXCEPT ![p] = 0] /\ ppc' = [ppc EXCEPT ![p] = "run"]
        /\ UNCHANGED <<pages, attached, page, late, dropping>>
    BY <1>7 DEF Enter
  <2>2. p \in attached /\ page[p] \in Page /\ got[p] \in Frame
    BY <1>a, <2>1 DEF PlacesInv, InFault
  <2>3. \A q \in Proc, g \in Page :
            pte'[q][g] = IF q = p /\ g = page[p] THEN got[p] ELSE pte[q][g]
    BY <2>1, <2>2
  <2>4. \A q \in Proc : q # p => ppc'[q] = ppc[q] /\ got'[q] = got[q]
    BY <2>1
  <2>5. ppc'[p] = "run"
    BY <2>1
  <2>6. \A q \in Proc, g \in Page :
            pte'[q][g] # 0 /\ <<q, g>> \notin late => pages[g] = pte'[q][g]
    BY <2>1, <2>3 DEF MapInv
  <2>7. dropping # 0 => \A q \in Proc : pte'[q][dropping] # 0 => <<q, dropping>> \in late
    BY <2>1, <2>3 DEF MapInv, PlacesInv
  <2>8. \A q \in Proc : q \notin attached => /\ ppc'[q] \in {"new", "opened", "dead"}
                                              /\ \A g \in Page : pte'[q][g] = 0
    BY <2>2, <2>3, <2>4 DEF MapInv
  <2>9. \A q \in Proc : ppc'[q] \in {"enter", "ttake"} =>
            ppc[q] \in {"enter", "ttake"} /\ got'[q] = got[q]
    BY <2>4, <2>5
  <2> QED
    BY <2>1, <2>6, <2>7, <2>8, <2>9 DEF MapInv
<1>8. ASSUME UnmapPage PROVE MapInv'
  <2> DEFINE g == Max(Resident)
  <2>1. g \in Page /\ pages[g] \in Frame
    BY <1>8, LastResident DEF UnmapPage, Resident
  <2>2. /\ pte' = [p \in Proc |-> IF p \in attached THEN [pte[p] EXCEPT ![g] = 0] ELSE pte[p]]
        /\ late' = {x \in late : x[2] # g \/ x[1] \notin attached}
                     \cup {<<p, g>> : p \in {q \in Mapping : page[q] = g}}
        /\ dropping' = g
        /\ UNCHANGED <<pages, attached, ppc, page, got>>
    BY <1>8 DEF UnmapPage
  <2> HIDE DEF g
  <2>3. \A q \in Proc : pte'[q][g] = 0
    BY <2>1, <2>2 DEF MapInv
  <2>4. \A q \in Proc, h \in Page : h # g => pte'[q][h] = pte[q][h]
    BY <2>1, <2>2
  <2>5. \A q \in Proc, h \in Page : h # g => (<<q, h>> \in late' <=> <<q, h>> \in late)
    BY <2>2
  <2>6. \A q \in Proc : ppc[q] \in {"enter", "ttake"} /\ page[q] = g => <<q, g>> \in late'
    BY <2>2
  <2>7. \A q \in Proc : ppc[q] \in {"enter", "ttake"} => page[q] \in Page
    BY DEF PlacesInv, InFault
  <2>8. \A q \in Proc : ppc[q] \in {"enter", "ttake"} /\ <<q, page[q]>> \notin late' =>
            pages[page[q]] = got[q]
    BY <2>5, <2>6, <2>7 DEF MapInv
  <2>9. \A q \in Proc, h \in Page :
            pte'[q][h] # 0 /\ <<q, h>> \notin late' => pages[h] = pte'[q][h]
    BY <2>3, <2>4, <2>5 DEF MapInv
  <2>10. \A q \in Proc : q \notin attached => \A h \in Page : pte'[q][h] = 0
    BY <2>3, <2>4 DEF MapInv
  <2>11. \A q \in Proc : q \notin attached => ppc[q] \in {"new", "opened", "dead"}
    BY DEF MapInv
  <2>12. /\ dropping' = g
         /\ \A q \in Mapping' : page'[q] = g => <<q, g>> \in late'
         /\ \A q \in Proc : pte'[q][g] # 0 => <<q, g>> \in late'
    BY <2>2, <2>3, <2>6
  <2> QED
    BY <2>2, <2>8, <2>9, <2>10, <2>11, <2>12 DEF MapInv
<1>9. ASSUME DropPage PROVE MapInv'
  <2>1. /\ dropping # 0 /\ dropping \in Page /\ dropping' = 0
        /\ pages' = [pages EXCEPT ![dropping] = Absent]
        /\ UNCHANGED <<attached, ppc, page, got, pte, late>>
    BY <1>9 DEF DropPage, PlacesInv
  <2>2. \A h \in Page : h # dropping => pages'[h] = pages[h]
    BY <2>1
  <2>3. \A q \in Proc : ppc[q] \in {"enter", "ttake"} => page[q] \in Page
    BY DEF PlacesInv, InFault
  <2> QED
    BY <2>1, <2>2, <2>3 DEF MapInv
<1>10. ASSUME ReclaimEnds \/ (\E want \in Page : Reclaim(want)) \/ UNCHANGED modelvars
       PROVE  MapInv'
  BY <1>10, <1>s DEF ReclaimEnds, Reclaim, modelvars
<1> QED
  BY <1>1, <1>2, <1>3, <1>4, <1>5, <1>6, <1>7, <1>8, <1>9, <1>10 DEF ModelNext, Faulting, Reclaiming

\* What is in the frames, as long as each has one owner: a resident page, and
\* one that is about to be published, is complete.
MemoryInv ==
    /\ \A g \in Page : pages[g] \in Frame => memory[pages[g]] = g
    /\ \A p \in Proc : ppc[p] = "publish" => memory[got[p]] = page[p]

LEMMA MemoryStep ==
  ASSUME ModelTypeOK, PlacesInv, ReadersInv, AllocInv, OwnersInv, MemoryInv,
         [ModelNext]_modelvars
  PROVE  MemoryInv'
<1>z. Absent \notin Frame /\ Loading \notin Frame /\ 0 \notin Frame
  BY DEF Absent, Loading, Frame
<1>a. /\ \A g, h \in Page : pages[g] \in Frame /\ pages[h] = pages[g] => h = g
      /\ \A p \in Proc : ppc[p] \in {"fill", "give", "publish"} =>
             /\ \A g \in Page : pages[g] # got[p]
             /\ \A q \in Proc : ppc[q] \in {"fill", "give", "publish"} /\ got[q] = got[p] => q = p
      /\ \A p \in Proc : ppc[p] \in {"take", "ttake"} =>
             /\ \A g \in Page : pages[g] # head[p]
             /\ \A q \in Proc : ppc[q] \in {"fill", "give", "publish"} => got[q] # head[p]
  BY FramesApart
<1> USE DEF ModelTypeOK, store, alloc, local, ghosts, Goto
<1>k. ASSUME \A g \in Page : pages'[g] \in Frame => pages'[g] = pages[g],
             \A g \in Page : pages'[g] \in Frame => memory'[pages[g]] = memory[pages[g]],
             \A q \in Proc : ppc'[q] = "publish" =>
                 /\ ppc[q] = "publish" /\ got'[q] = got[q] /\ page'[q] = page[q]
                 /\ memory'[got[q]] = memory[got[q]]
      PROVE  MemoryInv'
  BY <1>k DEF MemoryInv
<1>1. ASSUME NEW p \in Proc, ModelOpen(p) \/ ModelOpenFails(p) \/ Attach(p) \/ AddVma(p)
                             \/ NoFrame(p) \/ NoTable(p) \/ Touch(p)
      PROVE  MemoryInv'
  <2>1. UNCHANGED <<pages, page, got, memory>>
    BY <1>1 DEF ModelOpen, ModelOpenFails, Attach, AddVma, NoFrame, NoTable, Touch
  <2>2. \A q \in Proc : ppc'[q] = "publish" => ppc[q] = "publish"
    BY <1>1 DEF ModelOpen, ModelOpenFails, Attach, AddVma, NoFrame, NoTable, Touch
  <2> QED
    BY <2>1, <2>2, <1>k
<1>2. ASSUME NEW p \in Proc, Passes(p) \/ FindsResident(p) \/ ReadFails(p) \/ Enter(p)
      PROVE  MemoryInv'
  <2>1. UNCHANGED <<pages, memory>>
    BY <1>2 DEF Passes, FindsResident, ReadFails, Enter
  <2>2. \A q \in Proc : ppc'[q] = "publish" =>
            ppc[q] = "publish" /\ got'[q] = got[q] /\ page'[q] = page[q]
    BY <1>2 DEF Passes, FindsResident, ReadFails, Enter
  <2> QED
    BY <2>1, <2>2, <1>k
<1>3. ASSUME NEW p \in Proc, AllocPage(p) \/ AllocTable(p) PROVE MemoryInv'
  <2>1. UNCHANGED <<pages, page, got, memory>>
    BY <1>3 DEF AllocPage, AllocTable, LoadFrame
  <2>2. \A q \in Proc : ppc'[q] = "publish" => ppc[q] = "publish"
    BY <1>3 DEF AllocPage, AllocTable, LoadFrame
  <2> QED
    BY <2>1, <2>2, <1>k
<1>4. ASSUME NEW p \in Proc, TakePage(p) \/ TakeTable(p) PROVE MemoryInv'
  <2>1. /\ ppc[p] \in {"take", "ttake"} /\ head[p] \in Frame
        /\ memory' = [memory EXCEPT ![head[p]] = 0] /\ UNCHANGED <<pages, page>>
    BY <1>4 DEF TakePage, TakeTable, StoreFrame, PlacesInv
  <2>2. \A q \in Proc : ppc'[q] = "publish" => ppc[q] = "publish" /\ got'[q] = got[q]
    BY <1>4 DEF TakePage, TakeTable
  <2>3. \A g \in Page : pages[g] \in Frame => memory'[pages[g]] = memory[pages[g]]
    BY <1>a, <2>1
  <2>4. \A q \in Proc : ppc[q] = "publish" => memory'[got[q]] = memory[got[q]]
    BY <1>a, <2>1 DEF PlacesInv
  <2> QED
    BY <2>1, <2>2, <2>3, <2>4, <1>k
<1>5. ASSUME NEW p \in Proc, FillPage(p) PROVE MemoryInv'
  <2>1. /\ memory' = [memory EXCEPT ![got[p]] = page[p]] /\ got[p] \in Frame
        /\ UNCHANGED <<pages, page, got>>
        /\ ppc[p] = "fill" /\ ppc' = [ppc EXCEPT ![p] = "publish"]
    BY <1>5 DEF FillPage, PlacesInv
  <2>2. \A g \in Page : pages[g] \in Frame => memory'[pages[g]] = memory[pages[g]]
    BY <1>a, <2>1
  <2>3. \A q \in Proc : ppc[q] = "publish" => memory'[got[q]] = memory[got[q]]
    BY <1>a, <2>1 DEF PlacesInv
  <2>4. memory'[got[p]] = page[p]
    BY <2>1
  <2> QED
    BY <2>1, <2>2, <2>3, <2>4 DEF MemoryInv
<1>6. ASSUME NEW p \in Proc, GivesBack(p) PROVE MemoryInv'
  <2>1. /\ memory' = [memory EXCEPT ![got[p]] = 0] /\ got[p] \in Frame
        /\ UNCHANGED <<pages, page>>
        /\ ppc[p] = "give" /\ ppc' = [ppc EXCEPT ![p] = "undo"] /\ got' = [got EXCEPT ![p] = 0]
    BY <1>6 DEF GivesBack, FreeFrame, PlacesInv
  <2>2. \A g \in Page : pages[g] \in Frame => memory'[pages[g]] = memory[pages[g]]
    BY <1>a, <2>1
  <2>3. \A q \in Proc : ppc[q] = "publish" => memory'[got[q]] = memory[got[q]]
    BY <1>a, <2>1 DEF PlacesInv
  <2>4. \A q \in Proc : ppc'[q] = "publish" => ppc[q] = "publish" /\ got'[q] = got[q]
    BY <2>1
  <2> QED
    BY <2>1, <2>2, <2>3, <2>4, <1>k
<1>7. ASSUME NEW p \in Proc, ClaimsPage(p) \/ Unclaims(p) PROVE MemoryInv'
  <2>1. UNCHANGED <<page, got, memory>>
    BY <1>7 DEF ClaimsPage, Unclaims
  <2>2. \A g \in Page : pages'[g] \in Frame => pages'[g] = pages[g]
    BY <1>7, <1>z DEF ClaimsPage, Unclaims
  <2>3. \A q \in Proc : ppc'[q] = "publish" => ppc[q] = "publish"
    BY <1>7 DEF ClaimsPage, Unclaims
  <2> QED
    BY <2>1, <2>2, <2>3, <1>k
<1>8. ASSUME NEW p \in Proc, Publish(p) PROVE MemoryInv'
  <2>1. /\ ppc[p] = "publish" /\ ppc' = [ppc EXCEPT ![p] = "enter"] /\ page[p] \in Page
        /\ pages' = [pages EXCEPT ![page[p]] = got[p]] /\ UNCHANGED <<page, got, memory>>
    BY <1>8 DEF Publish, PlacesInv, InFault
  <2> QED
    BY <2>1 DEF MemoryInv
<1>9. ASSUME DropPage PROVE MemoryInv'
  <2>1. /\ dropping \in Page /\ pages[dropping] \in Frame
        /\ memory' = [memory EXCEPT ![pages[dropping]] = 0]
        /\ pages' = [pages EXCEPT ![dropping] = Absent] /\ UNCHANGED <<page, got, ppc>>
    BY <1>9 DEF DropPage, FreeFrame, PlacesInv
  <2>2. \A h \in Page : pages'[h] \in Frame => h # dropping /\ pages'[h] = pages[h]
    BY <1>z, <2>1
  <2>3. \A h \in Page : pages[h] \in Frame /\ h # dropping => memory'[pages[h]] = memory[pages[h]]
    BY <1>a, <2>1
  <2>4. \A q \in Proc : ppc[q] = "publish" => memory'[got[q]] = memory[got[q]]
    BY <1>a, <2>1 DEF PlacesInv
  <2> QED
    BY <2>1, <2>2, <2>3, <2>4, <1>k
<1>10. ASSUME UnmapPage \/ ReclaimEnds \/ (\E want \in Page : Reclaim(want)) \/ UNCHANGED modelvars
       PROVE  MemoryInv'
  <2>1. UNCHANGED <<pages, page, got, memory, ppc>>
    BY <1>10 DEF UnmapPage, ReclaimEnds, Reclaim, modelvars
  <2> QED
    BY <2>1, <1>k
<1> QED
  BY <1>1, <1>2, <1>3, <1>4, <1>5, <1>6, <1>7, <1>8, <1>9, <1>10 DEF ModelNext, Faulting, Reclaiming

-----------------------------------------------------------------------------
(***************************************************************************)
(* The invariants hold from the start.                                     *)
(***************************************************************************)
ReadInv == ModelTypeOK /\ PlacesInv /\ ReadersInv
FrameInv == ~overlap => AllocInv /\ OwnersInv /\ MemoryInv

\* No process is in a fault and every frame is free.
LEMMA InitReadInv == ModelInit => ReadInv
<1> SUFFICES ASSUME ModelInit PROVE ReadInv
  OBVIOUS
<1>1. (\A p \in Proc : ppc[p] = "new") /\ dropping = 0 /\ \A g \in Page : pages[g] # Loading
  BY DEF ModelInit, Absent, Loading
<1> QED
  BY <1>1, InitModelTypes DEF ReadInv, PlacesInv, ReadersInv, Reading, InFault

LEMMA InitFrameInv == ModelInit => FrameInv
<1> SUFFICES ASSUME ModelInit PROVE AllocInv /\ OwnersInv /\ MemoryInv
  BY DEF FrameInv
<1>1. NFrames \in Nat /\ 0 \notin Frame /\ Absent \notin Frame
  BY ModelStoreAssumption DEF Frame, Absent
<1>2. AllocInv /\ MemoryInv
  BY <1>1 DEF AllocInv, MemoryInv, InAllocator, ModelInit
<1> DEFINE st == [i \in 1 .. 0 |-> bump]
           kind == [f \in Frame |-> "free"]
           of == [f \in Frame |-> First]
<1>3. st \in [1 .. 0 -> Frame] /\ 1 .. 0 = {}
  OBVIOUS
<1>4. First \in Proc
  BY ModelStoreAssumption
<1>5. /\ kind \in [Frame -> {"free", "page", "table", "filling"}]
      /\ of \in [Frame -> Page \cup Proc] /\ \A f \in Frame : kind[f] = "free"
  BY <1>4
<1> HIDE DEF st, kind, of
<1>6. IsStack(st, 0)
  BY <1>3 DEF IsStack, ModelInit
<1>7. \A f \in Frame : IsFree(st, 0, f)
  BY <1>1 DEF IsFree, ModelInit, Frame
<1>8. IsOwned(st, 0, kind, of)
  BY <1>1, <1>5, <1>7 DEF IsOwned, Fills, ModelInit
<1> QED
  BY <1>2, <1>3, <1>5, <1>6, <1>8 DEF OwnersInv

\* They are kept together: what holds until calls overlap holds as long as
\* they have not.
LEMMA FrameInvStep ==
  ASSUME ReadInv, FrameInv, [ModelNext]_modelvars
  PROVE  (ReadInv /\ FrameInv)'
<1>1. ReadInv'
  BY ModelTypesStep, PlacesStep, ReadersStep DEF ReadInv
<1>2. ASSUME ~overlap' PROVE (AllocInv /\ OwnersInv /\ MemoryInv)'
  <2>1. ~overlap /\ AllocInv /\ OwnersInv /\ MemoryInv
    BY <1>2, OverlapStays DEF FrameInv
  <2> QED
    BY <1>2, <2>1, AllocStep, OwnersStep, MemoryStep DEF ReadInv
<1> QED
  BY <1>1, <1>2 DEF FrameInv

\* Nothing is mapped and no page is resident.
LEMMA InitMapInv == ModelInit => MapInv
BY DEF ModelInit, MapInv, Mapping

-----------------------------------------------------------------------------
(***************************************************************************)
(* Theorems.                                                               *)
(***************************************************************************)

\* Whatever the cores do in the allocator and whenever the reclaim falls, a
\* page is read by one process at a time, and is marked Loading exactly as long
\* as one reads it: fault() in model.rs reads outside the store's lock, and
\* takes the mark back on every way out.
THEOREM PagesAreReadOnce == ModelSpec => []PageHasOneReader
<1>1. ReadInv /\ [ModelNext]_modelvars => ReadInv'
  BY ModelTypesStep, PlacesStep, ReadersStep DEF ReadInv
<1>2. ReadInv => PageHasOneReader
  <2> SUFFICES ASSUME ReadInv PROVE PageHasOneReader
    OBVIOUS
  <2> QED
    BY DEF ReadInv, ReadersInv, PageHasOneReader
<1> QED
  BY <1>1, <1>2, InitReadInv, PTL DEF ModelSpec

\* As long as no two cores have been in frames.rs at once, every frame is free,
\* or a page of the model, or a page table, or in the hands of the fault that
\* fills it, and only one of these: every path through fault(), map_into() and
\* reclaim(), those that fail included, hands each frame on or gives it back.
THEOREM FramesAreAccounted == ModelSpec => []OneOwnerUnlessOverlapped
<1>1. ReadInv /\ FrameInv /\ [ModelNext]_modelvars => (ReadInv /\ FrameInv)'
  BY FrameInvStep
<1>2. ReadInv /\ FrameInv => OneOwnerUnlessOverlapped
  BY OwnersAreCounted DEF ReadInv, FrameInv, OneOwnerUnlessOverlapped
<1> QED
  BY <1>1, <1>2, InitReadInv, InitFrameInv, PTL DEF ModelSpec

\* reclaim() leaves no page table pointing at a page it has dropped, except
\* through a fault that had the frame and had still to map it (model.rs:214);
\* and as long as no two cores have been in frames.rs at once, what a process
\* reads through any other mapping is the page it asked for, whole.
THEOREM MappingsAreResident == ModelSpec => []OnlyLateMappingsDangle
<1> DEFINE I == ReadInv /\ FrameInv /\ MapInv
<1>1. ModelInit => I
  BY InitReadInv, InitFrameInv, InitMapInv
<1>2. I /\ [ModelNext]_modelvars => I'
  BY FrameInvStep, MapStep DEF ReadInv
<1>3. I => OnlyLateMappingsDangle
  <2>1. SUFFICES ASSUME ReadInv, FrameInv, MapInv, NEW p \in Proc, NEW g \in Page,
                        pte[p][g] # 0, <<p, g>> \notin late
                 PROVE  pages[g] = pte[p][g] /\ (overlap \/ memory[pte[p][g]] = g)
    BY DEF OnlyLateMappingsDangle
  <2>2. pte[p][g] \in Frame
    BY <2>1 DEF ReadInv, ModelTypeOK
  <2>3. pages[g] = pte[p][g]
    BY <2>1 DEF MapInv
  <2> QED
    BY <2>1, <2>2, <2>3 DEF FrameInv, MemoryInv
<1> QED
  BY <1>1, <1>2, <1>3, PTL DEF ModelSpec
=============================================================================
