-------------------------- MODULE SchedulerProofs --------------------------
(***************************************************************************)
(* Proofs about modules Scheduler and Tickless, for any number of cores    *)
(* and threads: first the context switch, then that Tickless implements    *)
(* Scheduler, so that what holds of the one holds of the machine with      *)
(* timers and interrupts too, then the timers themselves.                  *)
(***************************************************************************)
EXTENDS Tickless, WellFoundedInduction, TLAPS

\* The inductive invariant: the types, and how claims, cores and contexts agree
\* at every point of a switch.
IInv == TypeOK /\ SwitchInvariant

\* A non-empty set of natural numbers has a least member.
LEMMA LeastMember ==
  ASSUME NEW S \in SUBSET Nat, S # {}
  PROVE  \E k \in S : \A j \in S : k <= j
<1> DEFINE R == OpToRel(<, Nat)
<1>1. IsWellFoundedOn(R, Nat)
  BY NatLessThanWellFounded
<1>2. \A j, k \in S : j < k => <<j, k>> \in R
  BY DEF OpToRel
<1> HIDE DEF R
<1>3. PICK k \in S : \A j \in S : ~(<<j, k>> \in R)
  BY <1>1, WFMin
<1>4. \A j \in S : ~(j < k)
  BY <1>2, <1>3
<1> QED
  BY <1>4

\* The state sched::init leaves satisfies the invariant.
LEMMA InitEstablishes == Init => IInv
<1> SUFFICES ASSUME Init PROVE IInv
  OBVIOUS
<1> USE SchedulerAssumption DEF Cpu, Tid, NoCpu, NoTid, Boot
<1>1. TypeOK
  BY DEF Init, TypeOK, States, PCs, TPCs
<1>2. CoreInv /\ OfflineInv /\ ClaimInv /\ SavedInv /\ IdleInv /\ TableInv /\ BringUpInv
  BY DEF Init, CoreInv, OfflineInv, ClaimInv, SavedInv, IdleInv, TableInv,
         BringUpInv, Adopted, InSwitch
<1> QED
  BY <1>1, <1>2 DEF IInv, SwitchInvariant

\* pick_next returns a thread of the table: the current one, or one that is
\* free for this core.
LEMMA PickNextIsFree ==
  ASSUME IInv, NEW c \in Cpu, pc[c] = "resched"
  PROVE  /\ PickNext(c) \in Tid
         /\ PickNext(c) < len
         /\ PickNext(c) # current[c] => Eligible(PickNext(c), c)
<1> USE SchedulerAssumption DEF Tid
<1>a. /\ len \in 2 .. NThreads
      /\ cursor[c] \in Tid /\ current[c] \in Tid /\ idle[c] \in Tid
      /\ on_cpu \in [Tid -> Cpu \cup {NoCpu}]
  BY DEF IInv, TypeOK
<1>1. CASE Hits(c) # {}
  <2> DEFINE k == CHOOSE k \in Hits(c) : \A j \in Hits(c) : k <= j
  <2>1. k \in Hits(c)
    <3>1. Hits(c) \in SUBSET Nat
      BY <1>a DEF Hits
    <3> QED
      BY <1>1, <3>1, LeastMember
  <2>2. PickNext(c) = (cursor[c] + k) % len
    BY <1>1 DEF PickNext
  <2> HIDE DEF k
  <2>3. /\ k \in 1 .. len
        /\ Eligible((cursor[c] + k) % len, c)
    BY <2>1 DEF Hits
  <2>4. /\ cursor[c] + k \in Nat
        /\ len \in Nat /\ len > 0
    <3>1. k \in Nat /\ cursor[c] \in Nat /\ len \in Nat /\ len > 0
      BY <2>3, <1>a
    <3> QED
      BY <3>1
  <2>5. (cursor[c] + k) % len \in 0 .. (len - 1)
    BY <2>4
  <2> QED
    BY <2>2, <2>3, <2>5, <1>a
<1>2. CASE Hits(c) = {}
  <2>1. /\ on_cpu[current[c]] = c
        /\ release_prev[c] = NoTid
    BY DEF IInv, SwitchInvariant, CoreInv, Adopted, InSwitch
  <2>2. /\ state[idle[c]] = "Runnable"
        /\ affinity[idle[c]] = c
        /\ on_cpu[idle[c]] \in {NoCpu, c}
    BY <1>a DEF IInv, SwitchInvariant, IdleInv, Adopted, Cpu, NoCpu
  <2>3. on_cpu[idle[c]] = c => idle[c] \in {current[c], release_prev[c]}
    BY <1>a DEF IInv, SwitchInvariant, ClaimInv, Cpu, NoCpu
  <2>4. idle[c] # current[c] => Eligible(idle[c], c)
    BY <1>a, <2>1, <2>2, <2>3 DEF Eligible, NoTid
  <2>5. current[c] < len /\ idle[c] < len
    BY <1>a, <2>1, <2>2 DEF IInv, SwitchInvariant, TableInv, Cpu, NoCpu
  <2> QED
    BY <1>2, <1>a, <2>4, <2>5 DEF PickNext
<1> QED
  BY <1>1, <1>2

-----------------------------------------------------------------------------
(***************************************************************************)
(* A step of core c outside a context switch: only its own pc, and the     *)
(* states and positions of threads that exist and are not idle threads.    *)
(***************************************************************************)
Quiet == {"run", "resched", "adopted"}

LocalStep(c) ==
  /\ UNCHANGED <<len, affinity, ttbr0, on_cpu, current, idle, cursor,
                 release_prev, sp, saved, space, starting>>
  /\ pc[c] \in Quiet
  /\ \E p \in {"run", "resched"} : pc' = pc \/ pc' = [pc EXCEPT ![c] = p]
  /\ \A t \in Tid : state'[t] # state[t] =>
       /\ state[t] # "Absent" /\ affinity[t] = NoCpu
       /\ state'[t] \notin {"Absent", "New"}
  /\ \A t \in Tid : tpc'[t] # tpc[t] =>
       affinity[t] = NoCpu /\ tpc[t] # "waitcpu" /\ tpc'[t] # "waitcpu"

\* Such a step disturbs nothing the switch protocol rests on.
LEMMA LocalStepPreserves ==
  ASSUME IInv, TypeOK', NEW c \in Cpu, LocalStep(c)
  PROVE  SwitchInvariant'
<1> USE DEF LocalStep, Quiet
<1>1. \A d \in Cpu : /\ Adopted(d)' <=> Adopted(d)
                     /\ InSwitch(d)' <=> InSwitch(d)
                     /\ pc'[d] = pc[d] \/ (pc[d] \in Quiet /\ pc'[d] \in Quiet)
  BY DEF IInv, TypeOK, Adopted, InSwitch
<1>2. CoreInv'
  BY <1>1 DEF IInv, SwitchInvariant, CoreInv
<1>3. OfflineInv'
  BY <1>1 DEF IInv, SwitchInvariant, OfflineInv
<1>4. ClaimInv'
  BY <1>1 DEF IInv, TypeOK, SwitchInvariant, ClaimInv, NoCpu, Cpu
<1>5. SavedInv'
  BY <1>1 DEF IInv, SwitchInvariant, SavedInv
<1>6. IdleInv'
  BY <1>1 DEF IInv, TypeOK, SwitchInvariant, IdleInv, NoCpu, Cpu
<1>7. TableInv'
  BY DEF IInv, SwitchInvariant, TableInv
<1>8. BringUpInv'
  <2>1. tpc'[Boot] = "waitcpu" <=> tpc[Boot] = "waitcpu"
    BY SchedulerAssumption DEF Tid, Boot
  <2> QED
    BY <1>1, <2>1 DEF IInv, SwitchInvariant, BringUpInv
<1> QED
  BY <1>2, <1>3, <1>4, <1>5, <1>6, <1>7, <1>8 DEF SwitchInvariant

\* Each of the actions a thread or an interrupt handler takes outside
\* schedule() is such a step.
LEMMA LocalActions ==
  ASSUME IInv, NEW c \in Cpu,
         \/ Interrupt(c) \/ Blocking(c) \/ Leaving(c) \/ EnableInterrupts(c)
         \/ pc[c] = "resched" /\ StayOn(c)
              /\ UNCHANGED <<table, state, token, idle, hw, tpc, late, starting>>
         \/ \E t \in Tid : Start(c, t)
  PROVE  TypeOK' /\ LocalStep(c)
<1>a. \A t \in Tid : tpc[t] # "idle" \/ state[t] # "Runnable" => affinity[t] = NoCpu
  BY DEF IInv, TypeOK, SwitchInvariant, IdleInv, NoCpu, Cpu
<1>b. pc[c] = "run" => state[Me(c)] \notin {"Absent", "New"} /\ Me(c) \in Tid
  BY DEF IInv, TypeOK, SwitchInvariant, CoreInv, ClaimInv, Adopted, Me, NoCpu, Cpu
<1> USE DEF IInv, TypeOK, LocalStep, Quiet, States, PCs, TPCs, table, cpuvars, hw
<1>1. CASE Interrupt(c)
  BY <1>1, <1>a DEF Interrupt, Due
<1>2. ASSUME NEW now \in BOOLEAN, SleepTicks(c, now) PROVE TypeOK' /\ LocalStep(c)
  BY <1>2, <1>a, <1>b DEF SleepTicks, At, Goto, Become
<1>3. CASE SleepLoop(c)
  BY <1>3, <1>a, <1>b DEF SleepLoop, At, Goto, CallSchedule
<1>4. ASSUME NEW k \in Tokens, PrepareBlock(c, k) PROVE TypeOK' /\ LocalStep(c)
  BY <1>4, <1>a, <1>b DEF PrepareBlock, At, Goto, Become
<1>5. ASSUME NEW k \in Tokens, WakeAllOn(c, k) PROVE TypeOK' /\ LocalStep(c)
  BY <1>5, <1>a, <1>b DEF WakeAllOn, Waiters, At, Goto
<1>6. CASE CancelBlock(c)
  BY <1>6, <1>a, <1>b DEF CancelBlock, At, Goto, Become
<1>7. CASE Block(c)
  BY <1>7, <1>a, <1>b DEF Block, At, Goto, CallSchedule
<1>8. CASE BlockLoop(c)
  BY <1>8, <1>a, <1>b DEF BlockLoop, At, Goto, CallSchedule
<1>9. CASE KickOthers(c)
  BY <1>9, <1>a, <1>b DEF KickOthers, At, Goto
<1>10. CASE ThreadExit(c)
  BY <1>10, <1>a, <1>b DEF ThreadExit, At, Goto, Become
<1>11. CASE YieldNow(c) \/ ExitLoop(c) \/ IdleLoop(c)
  BY <1>11 DEF YieldNow, ExitLoop, IdleLoop, At, CallSchedule
<1>12. CASE EnableInterrupts(c)
  BY <1>12 DEF EnableInterrupts
<1>13. CASE pc[c] = "resched" /\ StayOn(c)
              /\ UNCHANGED <<table, state, token, idle, hw, tpc, late, starting>>
  BY <1>13 DEF StayOn
<1>14. ASSUME NEW t \in Tid, Start(c, t) PROVE TypeOK' /\ LocalStep(c)
  BY <1>14, <1>a, <1>b DEF Start, BootAt, At, Goto
<1> QED
  <2> HIDE DEF IInv, TypeOK, LocalStep
  <2> QED
    BY <1>1, <1>2, <1>3, <1>4, <1>5, <1>6, <1>7, <1>8, <1>9, <1>10, <1>11,
       <1>12, <1>13, <1>14 DEF Blocking, Leaving

-----------------------------------------------------------------------------
\* Two cores hold different threads.
LEMMA HoldingsAreDisjoint ==
  ASSUME IInv, NEW c \in Cpu, NEW d \in Cpu, c # d, Adopted(c), Adopted(d)
  PROVE  /\ current[c] # current[d]
         /\ InSwitch(c) => release_prev[c] # current[d]
         /\ InSwitch(d) => current[c] # release_prev[d]
         /\ InSwitch(c) /\ InSwitch(d) => release_prev[c] # release_prev[d]
  BY DEF IInv, SwitchInvariant, CoreInv

\* The entry of the table that the next thread will get is not in use.
LEMMA NextEntryIsUnused ==
  ASSUME IInv, len < NThreads
  PROVE  /\ len \in Tid /\ len \notin saved /\ state[len] = "Absent"
         /\ on_cpu[len] = NoCpu /\ affinity[len] = NoCpu /\ ttbr0[len] = NoTid
         /\ \A d \in Cpu : Adopted(d) =>
              current[d] # len /\ idle[d] # len /\ release_prev[d] # len
<1>1. len \in Tid
  BY SchedulerAssumption DEF IInv, TypeOK, Tid
<1>2. /\ len \notin saved /\ state[len] = "Absent"
      /\ on_cpu[len] = NoCpu /\ affinity[len] = NoCpu /\ ttbr0[len] = NoTid
  BY <1>1 DEF IInv, SwitchInvariant, TableInv, Tid
<1>3. ASSUME NEW d \in Cpu, Adopted(d)
      PROVE  current[d] # len /\ idle[d] # len /\ release_prev[d] # len
  <2>1. d # NoCpu /\ len # NoTid
    BY <1>1, SchedulerAssumption DEF Cpu, Tid, NoCpu, NoTid
  <2>2. current[d] # len /\ idle[d] # len
    BY <1>2, <1>3, <2>1 DEF IInv, SwitchInvariant, CoreInv, IdleInv
  <2>3. release_prev[d] # len
    BY <1>2, <1>3, <2>1 DEF IInv, SwitchInvariant, CoreInv
  <2> QED
    BY <2>2, <2>3
<1> QED
  BY <1>1, <1>2, <1>3

\* Storing the registers of the thread being left (cpu_switch_to, first half)
\* and installing the next one's TTBR0 preserves the invariant.
LEMMA SaveContextPreserves ==
  ASSUME IInv, NEW c \in Cpu, SaveContext(c)
  PROVE  IInv'
<1> USE DEF SaveContext, table, cpuvars, hw
<1>1. TypeOK'
  <2>1. sp[c] \in Tid
    BY DEF IInv, TypeOK, SwitchInvariant, CoreInv, Adopted, InSwitch, NoTid
  <2> QED
    BY <2>1 DEF IInv, TypeOK, PCs
<1>2. CoreInv'
  BY DEF IInv, TypeOK, SwitchInvariant, CoreInv, Adopted, InSwitch
<1>3. OfflineInv'
  BY DEF IInv, SwitchInvariant, OfflineInv, Adopted, InSwitch
<1>4. ClaimInv'
  BY DEF IInv, SwitchInvariant, ClaimInv, Adopted, InSwitch
<1>5. SavedInv'
  BY DEF IInv, TypeOK, SwitchInvariant, SavedInv, Adopted, InSwitch, CoreInv, NoCpu, NoTid, Cpu, Tid
<1>6. IdleInv'
  BY DEF IInv, SwitchInvariant, IdleInv, Adopted, InSwitch
<1>7. TableInv'
  BY DEF IInv, TypeOK, SwitchInvariant, TableInv, Adopted, InSwitch, CoreInv, NoCpu, NoTid, Cpu, Tid
<1>8. BringUpInv'
  BY DEF IInv, SwitchInvariant, BringUpInv, Adopted, InSwitch
<1> QED
  BY <1>1, <1>2, <1>3, <1>4, <1>5, <1>6, <1>7, <1>8 DEF IInv, SwitchInvariant

\* So does loading the next thread's registers (cpu_switch_to, second half).
LEMMA LoadContextPreserves ==
  ASSUME IInv, NEW c \in Cpu, LoadContext(c)
  PROVE  IInv'
<1> USE DEF LoadContext, table, cpuvars, hw
<1>1. TypeOK'
  BY DEF IInv, TypeOK, PCs, TPCs, States
<1>2. CoreInv'
  BY DEF IInv, TypeOK, SwitchInvariant, CoreInv, Adopted, InSwitch
<1>3. OfflineInv'
  BY DEF IInv, SwitchInvariant, OfflineInv, Adopted, InSwitch
<1>4. ClaimInv'
  BY DEF IInv, SwitchInvariant, ClaimInv, Adopted, InSwitch
<1>5. SavedInv'
  BY DEF IInv, TypeOK, SwitchInvariant, SavedInv, Adopted, InSwitch, CoreInv, NoCpu, NoTid, Cpu, Tid
<1>6. IdleInv'
  BY DEF IInv, SwitchInvariant, IdleInv, Adopted, InSwitch
<1>7. TableInv'
  BY DEF IInv, SwitchInvariant, TableInv, Adopted, InSwitch
<1>8. BringUpInv'
  BY DEF IInv, SwitchInvariant, BringUpInv, Adopted, InSwitch
<1> QED
  BY <1>1, <1>2, <1>3, <1>4, <1>5, <1>6, <1>7, <1>8 DEF IInv, SwitchInvariant

\* So does finish_switch: the thread it releases has its context in memory.
LEMMA FinishSwitchPreserves ==
  ASSUME IInv, NEW c \in Cpu, FinishSwitch(c)
  PROVE  IInv'
<1> USE DEF FinishSwitch, table, cpuvars, hw
<1>1. TypeOK'
  BY DEF IInv, TypeOK, PCs, TPCs, States
<1>2. CoreInv'
  BY DEF IInv, TypeOK, SwitchInvariant, CoreInv, Adopted, InSwitch
<1>3. OfflineInv'
  BY DEF IInv, SwitchInvariant, OfflineInv, Adopted, InSwitch
<1>4. ClaimInv'
  BY DEF IInv, TypeOK, SwitchInvariant, ClaimInv, Adopted, InSwitch
<1>5. SavedInv'
  BY DEF IInv, TypeOK, SwitchInvariant, SavedInv, Adopted, InSwitch
<1>6. IdleInv'
  BY DEF IInv, SwitchInvariant, IdleInv, Adopted, InSwitch
<1>7. TableInv'
  BY DEF IInv, SwitchInvariant, TableInv, Adopted, InSwitch
<1>8. BringUpInv'
  BY DEF IInv, SwitchInvariant, BringUpInv, Adopted, InSwitch
<1> QED
  BY <1>1, <1>2, <1>3, <1>4, <1>5, <1>6, <1>7, <1>8 DEF IInv, SwitchInvariant

\* So does start_cpu's CPU_ON: the core it starts was off.
LEMMA StartCpuPreserves ==
  ASSUME IInv, NEW c \in Cpu, StartCpu(c)
  PROVE  IInv'
<1> USE DEF StartCpu, BootAt, At, Goto, Me, table, cpuvars, hw
<1>a. pc[starting] = "off" /\ starting \in Cpu
  BY DEF IInv, SwitchInvariant, BringUpInv, Boot
<1>b. \A d \in Cpu : /\ Adopted(d)' <=> Adopted(d)
                     /\ InSwitch(d)' <=> InSwitch(d)
                     /\ d # starting => pc'[d] = pc[d]
  BY <1>a DEF IInv, TypeOK, Adopted, InSwitch
<1>1. TypeOK'
  BY DEF IInv, TypeOK, PCs, TPCs, States
<1>2. CoreInv'
  BY DEF IInv, SwitchInvariant, CoreInv, Adopted, InSwitch
<1>3. OfflineInv'
  BY <1>b DEF IInv, SwitchInvariant, OfflineInv
<1>4. ClaimInv'
  BY <1>b DEF IInv, TypeOK, SwitchInvariant, ClaimInv, Cpu, NoCpu
<1>5. SavedInv'
  BY DEF IInv, SwitchInvariant, SavedInv, Adopted, InSwitch
<1>6. IdleInv'
  <2>1. tpc[Boot] # "idle" /\ Boot \in Tid
    BY DEF IInv, TypeOK
  <2>2. \A d \in Cpu : Adopted(d) => idle[d] # Boot
    BY <2>1 DEF IInv, SwitchInvariant, IdleInv
  <2> QED
    BY <1>b, <2>1, <2>2 DEF IInv, TypeOK, SwitchInvariant, IdleInv, NoCpu, Cpu
<1>7. TableInv'
  BY DEF IInv, SwitchInvariant, TableInv, Adopted, InSwitch
<1>8. BringUpInv'
  BY DEF IInv, TypeOK, SwitchInvariant, BringUpInv, Adopted, InSwitch
<1> QED
  BY <1>1, <1>2, <1>3, <1>4, <1>5, <1>6, <1>7, <1>8 DEF IInv, SwitchInvariant

\* So does a CPU_ON the firmware refuses.
LEMMA CpuOnRefusedPreserves ==
  ASSUME IInv, NEW c \in Cpu, CpuOnRefused(c)
  PROVE  IInv'
<1> USE DEF CpuOnRefused, BootAt, At, Me, table, cpuvars, hw
<1>1. TypeOK'
  <2>1. starting + 1 \in 1 .. NCpu
    BY SchedulerAssumption DEF IInv, TypeOK, Cpu
  <2> QED
    BY <2>1 DEF IInv, TypeOK
<1>2. CoreInv'
  BY DEF IInv, SwitchInvariant, CoreInv, Adopted, InSwitch
<1>3. OfflineInv'
  BY DEF IInv, SwitchInvariant, OfflineInv, Adopted, InSwitch
<1>4. ClaimInv'
  BY DEF IInv, SwitchInvariant, ClaimInv, Adopted, InSwitch
<1>5. SavedInv'
  BY DEF IInv, SwitchInvariant, SavedInv, Adopted, InSwitch
<1>6. IdleInv'
  BY DEF IInv, SwitchInvariant, IdleInv, Adopted, InSwitch
<1>7. TableInv'
  BY DEF IInv, SwitchInvariant, TableInv, Adopted, InSwitch
<1>8. BringUpInv'
  BY DEF IInv, TypeOK, SwitchInvariant, BringUpInv, Adopted, InSwitch
<1> QED
  BY <1>1, <1>2, <1>3, <1>4, <1>5, <1>6, <1>7, <1>8 DEF IInv, SwitchInvariant

\* So does the end of start_cpu's wait, whether the core was seen or not.
LEMMA StartCpuReturnsPreserves ==
  ASSUME IInv, NEW c \in Cpu, StartCpuReturns(c)
  PROVE  IInv'
<1> USE DEF StartCpuReturns, BootAt, At, Goto, Me, table, cpuvars, hw
<1>1. TypeOK'
  <2>1. starting \in Cpu
    BY DEF IInv, SwitchInvariant, BringUpInv
  <2>2. starting + 1 \in 1 .. NCpu
    BY <2>1, SchedulerAssumption DEF IInv, TypeOK, Cpu
  <2> QED
    BY <2>2 DEF IInv, TypeOK, TPCs
<1>2. CoreInv'
  BY DEF IInv, SwitchInvariant, CoreInv, Adopted, InSwitch
<1>3. OfflineInv'
  BY DEF IInv, SwitchInvariant, OfflineInv, Adopted, InSwitch
<1>4. ClaimInv'
  BY DEF IInv, SwitchInvariant, ClaimInv, Adopted, InSwitch
<1>5. SavedInv'
  BY DEF IInv, SwitchInvariant, SavedInv, Adopted, InSwitch
<1>6. IdleInv'
  BY DEF IInv, SwitchInvariant, IdleInv, Adopted, InSwitch
<1>7. TableInv'
  BY DEF IInv, SwitchInvariant, TableInv, Adopted, InSwitch
<1>8. BringUpInv'
  BY DEF IInv, TypeOK, SwitchInvariant, BringUpInv, Adopted, InSwitch, NoCpu, NoTid, Cpu, Tid
<1> QED
  BY <1>1, <1>2, <1>3, <1>4, <1>5, <1>6, <1>7, <1>8 DEF IInv, SwitchInvariant

\* So does spawn_pinned: the new entry of the table was unused.
LEMMA SpawnPreserves ==
  ASSUME IInv, NEW c \in Cpu, Spawn(c)
  PROVE  IInv'
<1> USE DEF Spawn, BootAt, At, Me, table, cpuvars, hw
<1>a. /\ len \in Tid /\ len \notin saved /\ state[len] = "Absent"
      /\ on_cpu[len] = NoCpu /\ affinity[len] = NoCpu /\ ttbr0[len] = NoTid
      /\ \A d \in Cpu : Adopted(d) =>
           current[d] # len /\ idle[d] # len /\ release_prev[d] # len
  BY NextEntryIsUnused
<1>b. \A d \in Cpu : Adopted(d)' = Adopted(d) /\ (InSwitch(d)' <=> InSwitch(d))
  BY DEF Adopted, InSwitch
<1>1. TypeOK'
  <2>1. len + 1 \in 2 .. NThreads
    BY SchedulerAssumption DEF IInv, TypeOK
  <2> QED
    BY <1>a, <2>1 DEF IInv, TypeOK, States
<1>2. CoreInv'
  BY DEF IInv, TypeOK, SwitchInvariant, CoreInv, Adopted, InSwitch, NoCpu, NoTid, Cpu, Tid
<1>3. OfflineInv'
  BY DEF IInv, SwitchInvariant, OfflineInv, Adopted, InSwitch
<1>4. ClaimInv'
  BY <1>a, <1>b DEF IInv, TypeOK, SwitchInvariant, ClaimInv, Cpu, NoCpu
<1>5. SavedInv'
  BY <1>a, <1>b, SchedulerAssumption DEF IInv, TypeOK, SwitchInvariant, SavedInv, Tid
<1>6. IdleInv'
  BY <1>a, <1>b DEF IInv, TypeOK, SwitchInvariant, IdleInv, Cpu, NoCpu
<1>7. TableInv'
  BY DEF IInv, TypeOK, SwitchInvariant, TableInv, Adopted, InSwitch, NoCpu, NoTid, Cpu, Tid
<1>8. BringUpInv'
  BY DEF IInv, SwitchInvariant, BringUpInv, Adopted, InSwitch
<1> QED
  BY <1>1, <1>2, <1>3, <1>4, <1>5, <1>6, <1>7, <1>8 DEF IInv, SwitchInvariant

\* So does attach_process: a New thread is held by no core.
LEMMA AttachPreserves ==
  ASSUME IInv, NEW c \in Cpu, NEW t \in Tid, AttachProcess(c, t)
  PROVE  IInv'
<1> USE DEF AttachProcess, BootAt, At, Me, table, cpuvars, hw
<1>1. TypeOK'
  BY DEF IInv, TypeOK, PCs, TPCs, States
<1>2. CoreInv'
  <2>1. \A d \in Cpu : Adopted(d) =>
          current[d] # t /\ (release_prev[d] # NoTid => release_prev[d] # t)
    <3>1. on_cpu[t] = NoCpu
      BY DEF IInv, SwitchInvariant, ClaimInv
    <3> QED
      BY <3>1 DEF IInv, SwitchInvariant, CoreInv, Cpu, NoCpu
  <2> QED
    BY <2>1 DEF IInv, TypeOK, SwitchInvariant, CoreInv, Adopted, InSwitch
<1>3. OfflineInv'
  BY DEF IInv, SwitchInvariant, OfflineInv, Adopted, InSwitch
<1>4. ClaimInv'
  BY DEF IInv, SwitchInvariant, ClaimInv, Adopted, InSwitch
<1>5. SavedInv'
  BY DEF IInv, SwitchInvariant, SavedInv, Adopted, InSwitch
<1>6. IdleInv'
  BY DEF IInv, SwitchInvariant, IdleInv, Adopted, InSwitch
<1>7. TableInv'
  BY DEF IInv, TypeOK, SwitchInvariant, TableInv, Adopted, InSwitch, NoCpu, NoTid, Cpu, Tid
<1>8. BringUpInv'
  BY DEF IInv, SwitchInvariant, BringUpInv, Adopted, InSwitch
<1> QED
  BY <1>1, <1>2, <1>3, <1>4, <1>5, <1>6, <1>7, <1>8 DEF IInv, SwitchInvariant

\* So does a secondary announcing itself.
LEMMA ComeOnlinePreserves ==
  ASSUME IInv, NEW c \in Cpu, ComeOnline(c)
  PROVE  IInv'
<1> USE DEF ComeOnline, table, cpuvars, hw
<1>1. TypeOK'
  BY DEF IInv, TypeOK, PCs, TPCs, States
<1>2. CoreInv'
  BY DEF IInv, SwitchInvariant, CoreInv, Adopted, InSwitch
<1>3. OfflineInv'
  BY DEF IInv, SwitchInvariant, OfflineInv, Adopted, InSwitch
<1>4. ClaimInv'
  BY DEF IInv, SwitchInvariant, ClaimInv, Adopted, InSwitch
<1>5. SavedInv'
  BY DEF IInv, SwitchInvariant, SavedInv, Adopted, InSwitch
<1>6. IdleInv'
  BY DEF IInv, SwitchInvariant, IdleInv, Adopted, InSwitch
<1>7. TableInv'
  BY DEF IInv, SwitchInvariant, TableInv, Adopted, InSwitch
<1>8. BringUpInv'
  BY DEF IInv, SwitchInvariant, BringUpInv, Adopted, InSwitch
<1> QED
  BY <1>1, <1>2, <1>3, <1>4, <1>5, <1>6, <1>7, <1>8 DEF IInv, SwitchInvariant

\* So does adopt_as_idle: the core held no thread, the entry was unused.
LEMMA AdoptPreserves ==
  ASSUME IInv, NEW c \in Cpu, AdoptAsIdle(c)
  PROVE  IInv'
<1> USE DEF AdoptAsIdle, table, cpuvars, hw
<1>a. /\ len \in Tid /\ len \notin saved /\ state[len] = "Absent"
      /\ on_cpu[len] = NoCpu /\ affinity[len] = NoCpu /\ ttbr0[len] = NoTid
      /\ \A d \in Cpu : Adopted(d) =>
           current[d] # len /\ idle[d] # len /\ release_prev[d] # len
  BY NextEntryIsUnused
<1>b. \A d \in Cpu : /\ Adopted(d)' <=> Adopted(d) \/ d = c
                     /\ InSwitch(d)' <=> InSwitch(d)
                     /\ d # c => pc'[d] = pc[d]
  BY DEF IInv, TypeOK, Adopted, InSwitch
<1>1. TypeOK'
  <2>1. len + 1 \in 2 .. NThreads
    BY SchedulerAssumption DEF IInv, TypeOK
  <2> QED
    BY <1>a, <2>1 DEF IInv, TypeOK, States, PCs, TPCs
<1>2. CoreInv'
  <2> SUFFICES ASSUME NEW d \in Cpu, Adopted(d)'
               PROVE  /\ on_cpu'[current'[d]] = d
                      /\ release_prev'[d] # NoTid <=> InSwitch(d)'
                      /\ InSwitch(d)' => /\ release_prev'[d] # current'[d]
                                         /\ on_cpu'[release_prev'[d]] = d
                      /\ sp'[d] = IF pc'[d] \in {"save", "load"} THEN release_prev'[d]
                                                                 ELSE current'[d]
                      /\ cursor'[d] < len'
                      /\ space'[d] = ttbr0'[IF pc'[d] = "save" THEN release_prev'[d]
                                                              ELSE current'[d]]
    BY DEF CoreInv
  <2>1. CASE d = c
    <3>1. ~Adopted(c) /\ ~InSwitch(c)'
      BY DEF IInv, TypeOK, Adopted, InSwitch
    <3> QED
      BY <1>a, <2>1, <3>1 DEF IInv, TypeOK, SwitchInvariant, OfflineInv
  <2>2. CASE d # c
    <3>1. /\ Adopted(d) /\ pc'[d] = pc[d] /\ (InSwitch(d)' <=> InSwitch(d))
          /\ current'[d] = current[d] /\ cursor'[d] = cursor[d] /\ sp'[d] = sp[d]
          /\ UNCHANGED <<release_prev, space, ttbr0>>
      BY <1>b, <2>2 DEF IInv, TypeOK
    <3>2. \A t : t # len => on_cpu'[t] = on_cpu[t]
      BY DEF IInv, TypeOK
    <3>3. cursor[d] < len'
      BY <3>1 DEF IInv, TypeOK, SwitchInvariant, CoreInv, Tid
    <3> QED
      BY <1>a, <3>1, <3>2, <3>3 DEF IInv, SwitchInvariant, CoreInv
  <2> QED
    BY <2>1, <2>2
<1>3. OfflineInv'
  BY DEF IInv, TypeOK, SwitchInvariant, OfflineInv, Adopted, InSwitch
<1>4. ClaimInv'
  BY DEF IInv, TypeOK, SwitchInvariant, ClaimInv, Adopted, InSwitch
<1>5. SavedInv'
  <2>1. \A t \in Tid : t < len' /\ on_cpu'[t] = NoCpu => t \in saved'
    BY <1>a, SchedulerAssumption DEF IInv, TypeOK, SwitchInvariant, SavedInv, Cpu, NoCpu, Tid
  <2>2. ASSUME NEW d \in Cpu, Adopted(d)'
        PROVE  /\ current'[d] \in saved' <=> pc'[d] \in {"save", "load"}
               /\ InSwitch(d)' => (release_prev'[d] \in saved' <=> pc'[d] \in {"load", "finish"})
    <3>1. CASE d = c
      BY <1>a, <3>1 DEF IInv, TypeOK, InSwitch
    <3>2. CASE d # c
      BY <1>b, <2>2, <3>2 DEF IInv, TypeOK, SwitchInvariant, SavedInv
    <3> QED
      BY <3>1, <3>2
  <2> QED
    BY <2>1, <2>2 DEF SavedInv
<1>6. IdleInv'
  <2>3. ASSUME NEW d \in Cpu, Adopted(d)'
        PROVE  /\ affinity'[idle'[d]] = d
               /\ state'[idle'[d]] = "Runnable"
               /\ tpc'[idle'[d]] = "idle"
    BY <1>a, <1>b, <2>3 DEF IInv, TypeOK, SwitchInvariant, IdleInv
  <2>4. ASSUME NEW t \in Tid, affinity'[t] # NoCpu
        PROVE  /\ Adopted(affinity[t])'
               /\ t = idle'[affinity'[t]]
               /\ on_cpu'[t] \in {NoCpu, affinity'[t]}
    <3>1. CASE t = len
      BY <1>a, <1>b, <3>1 DEF IInv, TypeOK
    <3>2. CASE t # len
      <4>1. affinity[t] # NoCpu /\ affinity[t] \in Cpu /\ affinity'[t] = affinity[t]
        BY <1>a, <2>4, <3>2 DEF IInv, TypeOK
      <4>2. Adopted(affinity[t]) /\ affinity[t] # c
        BY <4>1 DEF IInv, SwitchInvariant, IdleInv, Adopted
      <4> QED
        BY <1>a, <1>b, <3>2, <4>1, <4>2 DEF IInv, TypeOK, SwitchInvariant, IdleInv
    <3> QED
      BY <3>1, <3>2
  <2> QED
    BY <2>3, <2>4 DEF IdleInv
<1>7. TableInv'
  BY DEF IInv, TypeOK, SwitchInvariant, TableInv, Adopted, InSwitch, NoCpu, NoTid, Cpu, Tid
<1>8. BringUpInv'
  <2>1. Boot # len /\ pc[c] # "off"
    BY SchedulerAssumption DEF IInv, TypeOK, Boot
  <2>2. tpc'[Boot] = tpc[Boot]
    BY <1>a, <2>1 DEF IInv, TypeOK
  <2> QED
    BY <1>b, <2>1, <2>2 DEF IInv, TypeOK, SwitchInvariant, BringUpInv
<1> QED
  BY <1>1, <1>2, <1>3, <1>4, <1>5, <1>6, <1>7, <1>8 DEF IInv, SwitchInvariant

\* So does the claim schedule() makes under the lock.
LEMMA ClaimPreserves ==
  ASSUME IInv, NEW c \in Cpu, pc[c] = "resched", PickNext(c) # current[c], ClaimNext(c, PickNext(c)),
         UNCHANGED <<table, state, token, idle, hw, tpc, late, starting>>
  PROVE  IInv'
<1> USE DEF ClaimNext, Eligible, table, cpuvars, hw
<1>0. /\ PickNext(c) \in Tid /\ PickNext(c) < len
      /\ Eligible(PickNext(c), c)
  BY PickNextIsFree
<1>1. TypeOK'
  BY <1>0 DEF IInv, TypeOK, PCs, TPCs, States
<1>2. CoreInv'
  BY <1>0 DEF IInv, TypeOK, SwitchInvariant, CoreInv, Adopted, InSwitch, NoCpu, NoTid, Cpu, Tid
<1>3. OfflineInv'
  BY <1>0 DEF IInv, SwitchInvariant, OfflineInv, Adopted, InSwitch
<1>4. ClaimInv'
  BY <1>0 DEF IInv, TypeOK, SwitchInvariant, ClaimInv, Adopted, InSwitch, CoreInv, NoCpu, NoTid, Cpu, Tid
<1>5. SavedInv'
  BY <1>0 DEF IInv, TypeOK, SwitchInvariant, SavedInv, Adopted, InSwitch
<1>6. IdleInv'
  BY <1>0 DEF IInv, SwitchInvariant, IdleInv, Adopted, InSwitch
<1>7. TableInv'
  BY <1>0 DEF IInv, TypeOK, SwitchInvariant, TableInv, Adopted, InSwitch, NoCpu, NoTid, Cpu, Tid
<1>8. BringUpInv'
  BY <1>0 DEF IInv, SwitchInvariant, BringUpInv, Adopted, InSwitch
<1> QED
  BY <1>1, <1>2, <1>3, <1>4, <1>5, <1>6, <1>7, <1>8 DEF IInv, SwitchInvariant

-----------------------------------------------------------------------------
\* Every step of every core preserves the invariant.
LEMMA NextPreserves == IInv /\ [Next]_vars => IInv'
<1> SUFFICES ASSUME IInv, [Next]_vars PROVE IInv'
  OBVIOUS
<1>1. ASSUME NEW c \in Cpu, TypeOK' /\ LocalStep(c) PROVE IInv'
  BY <1>1, LocalStepPreserves DEF IInv
<1>2. ASSUME NEW c \in Cpu, Switching(c) PROVE IInv'
  <2>1. CASE Schedule(c)
    <3>1. CASE PickNext(c) = current[c]
      BY <1>1, <2>1, <3>1, LocalActions DEF Schedule
    <3>2. CASE PickNext(c) # current[c]
      BY <2>1, <3>2, ClaimPreserves DEF Schedule
    <3> QED
      BY <3>1, <3>2
  <2> QED
    BY <1>2, <2>1, SaveContextPreserves, LoadContextPreserves, FinishSwitchPreserves
    DEF Switching
<1>3. ASSUME NEW c \in Cpu, Interrupt(c) \/ Blocking(c) \/ Leaving(c) PROVE IInv'
  BY <1>1, <1>3, LocalActions
<1>4. ASSUME NEW c \in Cpu, KernelMain(c) PROVE IInv'
  <2>1. ASSUME NEW t \in Tid, Start(c, t) PROVE IInv'
    BY <1>1, <2>1, LocalActions
  <2> QED
    BY <1>4, <2>1, StartCpuPreserves, CpuOnRefusedPreserves, StartCpuReturnsPreserves,
       SpawnPreserves, AttachPreserves DEF KernelMain
<1>5. ASSUME NEW c \in Cpu, Secondary(c) PROVE IInv'
  BY <1>1, <1>5, ComeOnlinePreserves, AdoptPreserves, LocalActions DEF Secondary
<1>6. ASSUME NEW T \in SUBSET InSleep, ClockPasses(T) PROVE IInv'
  <2>1. T \subseteq Tid
    BY DEF InSleep
  <2>2. TypeOK'
    BY <1>6, <2>1 DEF IInv, TypeOK, ClockPasses, table, cpuvars, hw
  <2>3. SwitchInvariant'
    BY <1>6 DEF IInv, ClockPasses, table, cpuvars, hw, SwitchInvariant, CoreInv, OfflineInv,
                ClaimInv, SavedInv, IdleInv, TableInv, BringUpInv, Adopted, InSwitch
  <2> QED
    BY <2>2, <2>3 DEF IInv
<1>7. CASE UNCHANGED vars
  BY <1>7 DEF IInv, vars, TypeOK, SwitchInvariant, CoreInv, OfflineInv, ClaimInv,
              SavedInv, IdleInv, TableInv, BringUpInv, Adopted, InSwitch
<1> QED
  BY <1>2, <1>3, <1>4, <1>5, <1>6, <1>7 DEF Next

\* The invariant of the claim, switch, release protocol holds in every
\* behaviour of the scheduler.
THEOREM Invariance == Spec => []IInv
  BY InitEstablishes, NextPreserves, PTL DEF Spec

\* Every variable of the scheduler keeps its type: in particular pick_next
\* never runs off the thread table and the bring-up loop ends at the last core.
THEOREM TypeCorrect == Spec => []TypeOK
<1>1. IInv => TypeOK
  BY DEF IInv
<1> QED
  BY <1>1, Invariance, PTL

\* The invariant under the name the runs check it by.
THEOREM SwitchInvariantHolds == Spec => []SwitchInvariant
<1>1. IInv => SwitchInvariant
  BY DEF IInv
<1> QED
  BY <1>1, Invariance, PTL

\* No two cores ever stand on the same stack, for any number of cores: the
\* claim that outlives the switch (release_prev) is enough.
THEOREM MutualExclusion == Spec => []OneCorePerStack
<1>1. IInv => OneCorePerStack
  <2> SUFFICES ASSUME IInv, NEW c \in Cpu, NEW d \in Cpu, c # d, sp[c] # NoTid
               PROVE  sp[c] # sp[d]
    BY DEF OneCorePerStack
  <2>1. CASE ~Adopted(d)
    BY <2>1 DEF IInv, SwitchInvariant, OfflineInv
  <2>2. CASE Adopted(d)
    <3>1. Adopted(c)
      BY DEF IInv, SwitchInvariant, OfflineInv
    <3>2. /\ sp[c] \in {current[c], release_prev[c]}
          /\ sp[c] = release_prev[c] => InSwitch(c)
          /\ sp[d] \in {current[d], release_prev[d]}
          /\ sp[d] = release_prev[d] => InSwitch(d)
      BY <2>2, <3>1 DEF IInv, TypeOK, SwitchInvariant, CoreInv, InSwitch, NoTid, Tid
    <3> QED
      BY <2>2, <3>1, <3>2, HoldingsAreDisjoint
  <2> QED
    BY <2>1, <2>2
<1> QED
  BY <1>1, Invariance, PTL

\* cpu_switch_to only ever loads a context that was stored completely.
THEOREM CompleteContexts == Spec => []LoadsCompleteContext
<1>1. IInv => LoadsCompleteContext
  BY DEF IInv, SwitchInvariant, SavedInv, Adopted, LoadsCompleteContext
<1> QED
  BY <1>1, Invariance, PTL

\* A core that executes a thread has that thread's address space installed,
\* although schedule() writes TTBR0 only when the two threads' differ.
THEOREM AddressSpaces == Spec => []AddressSpaceMatches
<1>1. IInv => AddressSpaceMatches
  BY DEF IInv, SwitchInvariant, CoreInv, Adopted, AddressSpaceMatches
<1> QED
  BY <1>1, Invariance, PTL

\* Whatever schedule() claims was runnable, free and allowed on this core,
\* the unchecked fallback to the idle thread included.
THEOREM PicksAreFree == Spec => []PicksOnlyFreeThreads
<1>1. IInv => PicksOnlyFreeThreads
  BY PickNextIsFree DEF PicksOnlyFreeThreads
<1> QED
  BY <1>1, Invariance, PTL

\* Every claim has a holder that will release it.
THEOREM ClaimsAreHeld == Spec => []NoLeakedClaim
<1>1. IInv => NoLeakedClaim
  BY DEF IInv, SwitchInvariant, ClaimInv, NoLeakedClaim
<1> QED
  BY <1>1, Invariance, PTL

-----------------------------------------------------------------------------
\* A core stands on a thread it holds.
LEMMA StandsOnHeld ==
  ASSUME IInv, NEW c \in Cpu, sp[c] # NoTid
  PROVE  Adopted(c) /\ sp[c] \in Tid /\ on_cpu[sp[c]] = c
<1>1. Adopted(c)
  BY DEF IInv, SwitchInvariant, OfflineInv
<1> QED
  BY <1>1 DEF IInv, TypeOK, SwitchInvariant, CoreInv, InSwitch

\* No step brings back a finished thread that has been released: its stack
\* could be freed, whatever the other cores are doing.
LEMMA ReapableStep ==
  ASSUME IInv, IInv', Next, NEW t \in Tid, Reapable(t)
  PROVE  Reapable(t)'
<1> USE DEF Reapable
<1>a. \A c \in Cpu : Adopted(c) => current[c] # t /\ current[c] \in Tid
  BY DEF IInv, TypeOK, SwitchInvariant, CoreInv, Cpu, NoCpu
<1>b. t # len
  BY SchedulerAssumption DEF IInv, TypeOK, SwitchInvariant, TableInv, Tid
<1>c. state \in [Tid -> States] /\ on_cpu \in [Tid -> Cpu \cup {NoCpu}]
  BY DEF IInv, TypeOK
<1>1. ASSUME NEW c \in Cpu, Switching(c) PROVE Reapable(t)'
  <2>1. CASE Schedule(c)
    BY <1>c, <2>1, PickNextIsFree DEF Schedule, StayOn, ClaimNext, Eligible
  <2>2. CASE SaveContext(c) \/ LoadContext(c)
    BY <2>2 DEF SaveContext, LoadContext
  <2>3. CASE FinishSwitch(c)
    BY <1>c, <2>3 DEF FinishSwitch
  <2> QED
    BY <1>1, <2>1, <2>2, <2>3 DEF Switching
<1>2. ASSUME NEW c \in Cpu, Interrupt(c) PROVE Reapable(t)'
  BY <1>2 DEF Interrupt, Due
<1>3. ASSUME NEW c \in Cpu, Blocking(c) \/ Leaving(c) PROVE Reapable(t)'
  <2>1. pc[c] = "run"
    BY <1>3 DEF Blocking, Leaving, SleepTicks, SleepLoop, PrepareBlock, WakeAllOn,
                CancelBlock, Block, BlockLoop, KickOthers, YieldNow, ThreadExit,
                ExitLoop, IdleLoop, At
  <2>2. Me(c) # t
    BY <1>a, <2>1 DEF Adopted, Me
  <2> QED
    BY <1>3, <1>c, <2>2
    DEF Blocking, Leaving, SleepTicks, SleepLoop, PrepareBlock, WakeAllOn, Waiters,
        CancelBlock, Block, BlockLoop, KickOthers, YieldNow, ThreadExit,
        ExitLoop, IdleLoop, Become
<1>4. ASSUME NEW c \in Cpu, KernelMain(c) PROVE Reapable(t)'
  BY <1>4, <1>b, <1>c DEF KernelMain, StartCpu, CpuOnRefused, StartCpuReturns, Spawn,
                          AttachProcess, Start
<1>5. ASSUME NEW c \in Cpu, Secondary(c) PROVE Reapable(t)'
  BY <1>5, <1>b, <1>c DEF Secondary, ComeOnline, AdoptAsIdle, EnableInterrupts
<1>6. ASSUME NEW T \in SUBSET InSleep, ClockPasses(T) PROVE Reapable(t)'
  BY <1>6 DEF ClockPasses
<1> QED
  BY <1>1, <1>2, <1>3, <1>4, <1>5, <1>6 DEF Next

\* Nobody stands on the stack of a thread that nobody claims.
LEMMA NobodyOnReapable ==
  Spec => [](\A t \in Tid : Reapable(t) => \A c \in Cpu : sp[c] # t)
<1>1. IInv => \A t \in Tid : Reapable(t) => \A c \in Cpu : sp[c] # t
  BY StandsOnHeld DEF Reapable, Cpu, NoCpu, Tid, NoTid
<1> QED
  BY <1>1, Invariance, PTL

\* Once released, a finished thread is never run, claimed or woken again.
THEOREM Reaping == Spec => ReapableForGood
<1> DEFINE Quit == \A t \in Tid : Reapable(t) => \A c \in Cpu : sp[c] # t
<1>1. IInv /\ IInv' /\ Quit' /\ [Next]_vars => [StaysReapable]_vars
  BY ReapableStep DEF Reapable, StaysReapable
<1>2. Spec => [](Quit)
  BY NobodyOnReapable
<1> HIDE DEF Quit
<1> QED
  BY <1>1, <1>2, Invariance, PTL DEF Spec, ReapableForGood

-----------------------------------------------------------------------------
(***************************************************************************)
(* The scan: nobody is passed over.                                        *)
(***************************************************************************)

\* Counting round a table of n.
LEMMA RoundTheTable ==
  ASSUME NEW n \in Nat, n > 0, NEW i \in 0 .. n - 1, NEW k \in 1 .. n
  PROVE  (i + k) % n = IF i + k < n THEN i + k ELSE i + k - n
<1>1. CASE i + k < n
  BY <1>1
<1>2. CASE i + k >= n
  BY <1>2
<1> QED
  BY <1>1, <1>2

\* The scan of pick_next meets a thread that waits after ScanSteps steps.
LEMMA ScanMeets ==
  ASSUME IInv, NEW c \in Cpu, NEW t \in Tid, pc[c] = "resched", WaitsFor(t, c)
  PROVE  /\ ScanSteps(c, t) \in Hits(c)
         /\ (cursor[c] + ScanSteps(c, t)) % len = t
<1>a. /\ len \in 2 .. NThreads /\ cursor[c] \in Tid /\ t < len
  BY DEF IInv, TypeOK, WaitsFor
<1>b. cursor[c] < len
  BY DEF IInv, SwitchInvariant, CoreInv, Adopted
<1>1. /\ len \in Nat /\ len > 0 /\ cursor[c] \in 0 .. len - 1 /\ t \in 0 .. len - 1
  BY <1>a, <1>b, SchedulerAssumption DEF Tid
<1>2. /\ ScanSteps(c, t) \in 1 .. len
      /\ t = IF cursor[c] + ScanSteps(c, t) < len THEN cursor[c] + ScanSteps(c, t)
             ELSE cursor[c] + ScanSteps(c, t) - len
  BY <1>1 DEF ScanSteps
<1>3. (cursor[c] + ScanSteps(c, t)) % len = t
  BY <1>1, <1>2, RoundTheTable
<1> QED
  BY <1>2, <1>3 DEF Hits, WaitsFor

\* What a schedule() that leaves the thread it runs does to those that wait.
LEMMA ScanStep ==
  ASSUME IInv, NEW c \in Cpu, NEW t \in Tid, Schedule(c), WaitsFor(t, c)
  PROVE  /\ pc'[c] = "save" /\ current'[c] # idle[c]
         /\ current'[c] = t \/ ScanSteps(c, t)' < ScanSteps(c, t)
<1>0. pc[c] = "resched"
  BY DEF Schedule
<1>a. /\ len \in 2 .. NThreads /\ t < len
      /\ pc \in [Cpu -> PCs] /\ current \in [Cpu -> Tid] /\ cursor \in [Cpu -> Tid]
  BY DEF IInv, TypeOK, WaitsFor
<1>b. cursor[c] < len
  BY <1>0 DEF IInv, SwitchInvariant, CoreInv, Adopted
<1>1. /\ len \in Nat /\ len > 0 /\ cursor[c] \in 0 .. len - 1 /\ t \in 0 .. len - 1
  BY <1>a, <1>b, SchedulerAssumption DEF Tid
<1> DEFINE j == ScanSteps(c, t)
           k == CHOOSE k \in Hits(c) : \A i \in Hits(c) : k <= i
<1>2. j \in Hits(c) /\ (cursor[c] + j) % len = t
  BY <1>0, ScanMeets
<1>3. k \in Hits(c) /\ \A i \in Hits(c) : k <= i
  <2>1. Hits(c) \in SUBSET Nat
    BY <1>1 DEF Hits
  <2> QED
    BY <1>2, <2>1, LeastMember
<1>4. PickNext(c) = (cursor[c] + k) % len
  BY <1>2 DEF PickNext
<1> HIDE DEF j, k
<1>5. /\ k \in 1 .. len /\ j \in 1 .. len /\ k <= j
      /\ PickNext(c) # idle[c] /\ PickNext(c) # current[c]
  BY <1>2, <1>3, <1>4 DEF Hits
<1>6. /\ pc'[c] = "save" /\ len' = len
      /\ current'[c] = PickNext(c) /\ cursor'[c] = PickNext(c)
  BY <1>a, <1>5 DEF Schedule, ClaimNext, table
<1>7. /\ PickNext(c) = IF cursor[c] + k < len THEN cursor[c] + k ELSE cursor[c] + k - len
      /\ t = IF cursor[c] + j < len THEN cursor[c] + j ELSE cursor[c] + j - len
  BY <1>1, <1>2, <1>4, <1>5, RoundTheTable
<1>8. ASSUME PickNext(c) # t PROVE ScanSteps(c, t)' < j
  <2>1. k < j
    BY <1>5, <1>7, <1>8
  <2>2. ScanSteps(c, t)' = IF t > PickNext(c) THEN t - PickNext(c) ELSE t - PickNext(c) + len
    BY <1>6 DEF ScanSteps
  <2> QED
    BY <1>1, <1>5, <1>7, <1>8, <2>1, <2>2
<1> QED
  BY <1>5, <1>6, <1>8 DEF j

\* Nothing but schedule() takes a core out of "resched".
LEMMA OnlyScheduleGoesOn ==
  ASSUME IInv, Next, NEW c \in Cpu, pc[c] = "resched", pc'[c] # "resched"
  PROVE  Schedule(c)
<1>1. pc \in [Cpu -> PCs]
  BY DEF IInv, TypeOK
<1>2. ASSUME NEW d \in Cpu, Switching(d) PROVE Schedule(c)
  BY <1>1, <1>2 DEF Switching, Schedule, StayOn, ClaimNext, SaveContext, LoadContext, FinishSwitch
<1>3. ASSUME NEW d \in Cpu, Interrupt(d) PROVE FALSE
  BY <1>1, <1>3 DEF Interrupt
<1>4. ASSUME NEW d \in Cpu, Blocking(d) \/ Leaving(d) PROVE FALSE
  BY <1>1, <1>4
  DEF Blocking, Leaving, SleepTicks, SleepLoop, PrepareBlock, WakeAllOn,
      CancelBlock, Block, BlockLoop, KickOthers, YieldNow, ThreadExit,
      ExitLoop, IdleLoop, At, CallSchedule
<1>5. ASSUME NEW d \in Cpu, KernelMain(d) PROVE FALSE
  BY <1>1, <1>5 DEF KernelMain, StartCpu, CpuOnRefused, StartCpuReturns, Spawn,
                    AttachProcess, Start, BootAt, At, BringUpInv, IInv, SwitchInvariant
<1>6. ASSUME NEW d \in Cpu, Secondary(d) PROVE FALSE
  BY <1>1, <1>6 DEF Secondary, ComeOnline, AdoptAsIdle, EnableInterrupts
<1>7. ASSUME NEW T \in SUBSET InSleep, ClockPasses(T) PROVE FALSE
  BY <1>7 DEF ClockPasses
<1> QED
  BY <1>2, <1>3, <1>4, <1>5, <1>6, <1>7 DEF Next

\* Round robin, for any number of cores and threads: a core that goes on to
\* another thread has come nearer to every thread that waits for it.
THEOREM RoundRobin == Spec => NobodyIsPassedOver
<1>1. IInv /\ [Next]_vars => [ScanGoesOn]_vars
  BY ScanStep, OnlyScheduleGoesOn DEF ScanGoesOn
<1> QED
  BY <1>1, Invariance, PTL DEF Spec, NobodyIsPassedOver

-----------------------------------------------------------------------------
(***************************************************************************)
(* The refinement.                                                         *)
(***************************************************************************)

\* Where Place puts a thread.
LEMMA PlaceIs ==
  ASSUME IInv, NEW t \in Tid
  PROVE  /\ t \in saved => Place[t] = Memory
         /\ \A c \in Cpu : t \notin saved /\ sp[c] = t => Place[t] = c
         /\ t \notin saved /\ (\A c \in Cpu : sp[c] # t) => Place[t] = Nowhere
<1>1. ASSUME NEW c \in Cpu, t \notin saved, sp[c] = t PROVE Place[t] = c
  <2>1. \A d \in Cpu : sp[d] = t => on_cpu[t] = d
    BY StandsOnHeld, SchedulerAssumption DEF Tid, NoTid
  <2> QED
    BY <1>1, <2>1 DEF Place
<1> QED
  BY <1>1 DEF Place

\* A step that moves no core to another stack and completes or consumes no
\* Context leaves every thread where it is.
LEMMA PlaceUnchanged ==
  ASSUME UNCHANGED <<sp, saved>>
  PROVE  Place' = Place
  BY DEF Place

\* cpu_switch_to's first half stores the context the core holds.
LEMMA SaveIsStore ==
  ASSUME IInv, IInv', NEW c \in Cpu, SaveContext(c)
  PROVE  Custody!Store(sp[c], c) /\ sp[c] \in Tid
<1>1. /\ sp[c] \in Tid /\ sp[c] \notin saved
      /\ sp' = sp /\ saved' = saved \cup {sp[c]}
  BY DEF SaveContext, IInv, TypeOK, SwitchInvariant, CoreInv, SavedInv, Adopted, InSwitch, NoTid
<1>2. Place[sp[c]] = c
  BY <1>1, PlaceIs
<1>3. Place' = [Place EXCEPT ![sp[c]] = Memory]
  BY <1>1 DEF Place
<1> QED
  BY <1>1, <1>2, <1>3 DEF Custody!Store

\* Its second half loads one that is in memory into a core that holds none.
LEMMA LoadIsLoad ==
  ASSUME IInv, NEW c \in Cpu, LoadContext(c)
  PROVE  Custody!Load(current[c], c) /\ current[c] \in Tid
<1>1. /\ current[c] \in Tid /\ current[c] \in saved
      /\ sp[c] \in saved /\ sp[c] # current[c]
      /\ sp' = [sp EXCEPT ![c] = current[c]] /\ saved' = saved \ {current[c]}
  BY DEF LoadContext, IInv, TypeOK, SwitchInvariant, CoreInv, SavedInv, Adopted, InSwitch, NoTid
<1>2. sp \in [Cpu -> Tid \cup {NoTid}] /\ saved \subseteq Tid
  BY DEF IInv, TypeOK
<1>3. Place[current[c]] = Memory
  BY <1>1, PlaceIs
<1>4. \A t \in Tid : Place[t] # c
  <2>1. ASSUME NEW t \in Tid PROVE Place[t] # c
    <3>1. Memory # c /\ Nowhere # c
      BY SchedulerAssumption DEF Memory, Nowhere, Cpu
    <3>2. t \in saved \/ sp[c] # t
      BY <1>1
    <3> QED
      BY <3>1, <3>2, PlaceIs
  <2> QED
    BY <2>1
<1>5. \A d \in Cpu : sp[d] # current[c]
  <2>1. on_cpu[current[c]] = c /\ current[c] # NoTid
    BY <1>1, SchedulerAssumption DEF LoadContext, IInv, SwitchInvariant, CoreInv, Adopted, Tid, NoTid
  <2> QED
    BY <1>1, <2>1, StandsOnHeld
<1>6. Place' = [Place EXCEPT ![current[c]] = c]
  <2>1. ASSUME NEW t \in Tid PROVE Place'[t] = IF t = current[c] THEN c ELSE Place[t]
    <3>1. CASE t = current[c]
      <4>1. \A d \in Cpu : sp'[d] = t <=> d = c
        BY <1>1, <1>2, <1>5, <3>1
      <4> QED
        BY <1>1, <3>1, <4>1 DEF Place
    <3>2. CASE t # current[c]
      <4>1. t \in saved' <=> t \in saved
        BY <1>1, <3>2
      <4>2. t \notin saved => \A d \in Cpu : sp'[d] = t <=> sp[d] = t
        BY <1>1, <1>2, <3>2
      <4> QED
        BY <3>2, <4>1, <4>2 DEF Place
    <3> QED
      BY <3>1, <3>2
  <2>2. Place = [t \in Tid |-> Place[t]] /\ Place' = [t \in Tid |-> Place'[t]]
    BY DEF Place
  <2> QED
    BY <1>1, <2>1, <2>2
<1> QED
  BY <1>1, <1>3, <1>4, <1>6 DEF Custody!Load, Custody!Empty

\* spawn_pinned and adopt_as_idle create the context of a thread that had
\* none: in memory, or in the core that has been running it since it booted.
LEMMA BirthIsCreate ==
  ASSUME IInv, NEW c \in Cpu, Spawn(c) \/ AdoptAsIdle(c)
  PROVE  len \in Tid /\ (Custody!Create(len) \/ Custody!Adopt(len, c))
<1>1. /\ len \in Tid /\ len \notin saved
      /\ \A d \in Cpu : sp[d] # len
  <2>1. len \in Tid
    BY SchedulerAssumption DEF Spawn, AdoptAsIdle, IInv, TypeOK, Tid
  <2>2. on_cpu[len] = NoCpu /\ len \notin saved
    BY <2>1 DEF IInv, TypeOK, SwitchInvariant, TableInv, Tid
  <2> QED
    BY <2>1, <2>2, StandsOnHeld, SchedulerAssumption DEF Tid, NoTid, Cpu, NoCpu
<1>2. Place[len] = Nowhere
  BY <1>1, PlaceIs
<1>3. Place = [t \in Tid |-> Place[t]] /\ Place' = [t \in Tid |-> Place'[t]]
  BY DEF Place
<1>4. CASE Spawn(c)
  <2>1. Place' = [Place EXCEPT ![len] = Memory]
    BY <1>1, <1>4 DEF Spawn, Place
  <2> QED
    BY <1>1, <1>2, <2>1 DEF Custody!Create
<1>5. CASE AdoptAsIdle(c)
  <2>1. sp[c] = NoTid /\ sp' = [sp EXCEPT ![c] = len] /\ saved' = saved
    BY <1>5 DEF AdoptAsIdle, IInv, SwitchInvariant, OfflineInv, Adopted
  <2>2. sp \in [Cpu -> Tid \cup {NoTid}]
    BY DEF IInv, TypeOK
  <2>3. ASSUME NEW t \in Tid PROVE Place'[t] = IF t = len THEN c ELSE Place[t]
    <3>1. CASE t = len
      <4>1. \A d \in Cpu : sp'[d] = t <=> d = c
        BY <1>1, <2>1, <2>2, <3>1
      <4> QED
        BY <1>1, <2>1, <3>1, <4>1 DEF Place
    <3>2. CASE t # len
      <4>1. \A d \in Cpu : sp'[d] = t <=> sp[d] = t
        BY <2>1, <2>2, <3>2, SchedulerAssumption DEF Tid, NoTid
      <4> QED
        BY <2>1, <3>2, <4>1 DEF Place
    <3> QED
      BY <3>1, <3>2
  <2>4. Place' = [Place EXCEPT ![len] = c]
    BY <1>1, <1>3, <2>3
  <2>5. \A t \in Tid : Place[t] # c
    <3>1. ASSUME NEW t \in Tid PROVE Place[t] # c
      <4>1. Memory # c /\ Nowhere # c
        BY SchedulerAssumption DEF Memory, Nowhere, Cpu
      <4>2. sp[c] # t
        BY <2>1, SchedulerAssumption DEF Tid, NoTid
      <4> QED
        BY <4>1, <4>2, PlaceIs
    <3> QED
      BY <3>1
  <2> QED
    BY <1>1, <1>2, <2>4, <2>5 DEF Custody!Adopt, Custody!Empty
<1> QED
  BY <1>1, <1>4, <1>5

\* The boot thread starts out in core 0 and the first idle thread in memory.
LEMMA InitInCustody == Init => Custody!Init
<1> SUFFICES ASSUME Init PROVE Custody!Init
  OBVIOUS
<1>1. /\ 0 \in Cpu /\ 0 \in Tid /\ 1 \in Tid
      /\ saved = {1} /\ \A c \in Cpu : sp[c] = 0 <=> c = 0
      /\ \A c \in Cpu, t \in Tid : sp[c] = t => t = 0
  BY SchedulerAssumption DEF Init, Cpu, Tid, NoTid, Boot
<1>2. Place = [t \in Tid |-> CASE t = 0 -> 0
                               [] t = 1 -> Memory
                               [] OTHER -> Nowhere]
  <2>1. ASSUME NEW t \in Tid
        PROVE  (IF t \in saved THEN Memory
                ELSE IF \E c \in Cpu : sp[c] = t
                THEN CHOOSE c \in Cpu : sp[c] = t
                ELSE Nowhere)
               = CASE t = 0 -> 0 [] t = 1 -> Memory [] OTHER -> Nowhere
    <3>1. CASE t = 0
      BY <1>1, <3>1
    <3>2. CASE t # 0
      BY <1>1, <3>2
    <3> QED
      BY <3>1, <3>2
  <2> QED
    BY <2>1 DEF Place
<1> QED
  BY <1>1, <1>2 DEF Custody!Init

\* The scheduler implements the custody of contexts: every step of every
\* core moves one context as ContextCustody allows, or none.
THEOREM Refinement == Spec => ContextsInCustody
<1>1. IInv /\ IInv' /\ [Next]_vars => [Custody!Next]_Place
  <2> SUFFICES ASSUME IInv, IInv', [Next]_vars PROVE [Custody!Next]_Place
    OBVIOUS
  <2>1. ASSUME NEW c \in Cpu, SaveContext(c) PROVE Custody!Next
    BY <2>1, SaveIsStore DEF Custody!Next
  <2>2. ASSUME NEW c \in Cpu, LoadContext(c) PROVE Custody!Next
    BY <2>2, LoadIsLoad DEF Custody!Next
  <2>3. ASSUME NEW c \in Cpu, Spawn(c) \/ AdoptAsIdle(c) PROVE Custody!Next
    BY <2>3, BirthIsCreate DEF Custody!Next
  <2>4. ASSUME NEW c \in Cpu, Schedule(c) \/ FinishSwitch(c) \/ Interrupt(c)
        PROVE  UNCHANGED <<sp, saved>>
    BY <2>4 DEF Schedule, FinishSwitch, Interrupt, hw
  <2>5. ASSUME NEW c \in Cpu, Blocking(c) \/ Leaving(c)
        PROVE  UNCHANGED <<sp, saved>>
    BY <2>5 DEF Blocking, Leaving, SleepTicks, SleepLoop, PrepareBlock, WakeAllOn,
                CancelBlock, Block, BlockLoop, KickOthers, YieldNow, ThreadExit,
                ExitLoop, IdleLoop, hw
  <2>6. ASSUME NEW c \in Cpu, \/ StartCpu(c) \/ CpuOnRefused(c) \/ StartCpuReturns(c)
                              \/ ComeOnline(c) \/ EnableInterrupts(c)
                              \/ \E t \in Tid : AttachProcess(c, t) \/ Start(c, t)
        PROVE  UNCHANGED <<sp, saved>>
    BY <2>6 DEF StartCpu, CpuOnRefused, StartCpuReturns, ComeOnline, EnableInterrupts,
                AttachProcess, Start, hw
  <2>7. ASSUME NEW T \in SUBSET InSleep, ClockPasses(T) PROVE UNCHANGED <<sp, saved>>
    BY <2>7 DEF ClockPasses, hw
  <2>8. CASE UNCHANGED vars
    BY <2>8, PlaceUnchanged DEF vars
  <2> QED
    BY <2>1, <2>2, <2>3, <2>4, <2>5, <2>6, <2>7, <2>8, PlaceUnchanged
    DEF Next, Switching, KernelMain, Secondary
<1> QED
  BY <1>1, InitInCustody, Invariance, PTL DEF Spec, ContextsInCustody, Custody!Spec

-----------------------------------------------------------------------------
(***************************************************************************)
(* Tickless implements Scheduler.                                          *)
(***************************************************************************)
\* What a core does without touching the clock is a step of Scheduler.
LEMMA UntimedStep ==
  ASSUME NEW c \in Cpu, Untimed(c)
  PROVE  Next
<1>1. CASE Switching(c)
  BY <1>1 DEF Next
<1>2. CASE \/ Abandons /\ CancelBlock(c)
           \/ SleepLoop(c) \/ Block(c) \/ BlockLoop(c)
           \/ \E k \in Tokens : PrepareBlock(c, k) \/ WakeAllOn(c, k)
  BY <1>2 DEF Next, Blocking
<1>3. CASE YieldNow(c) \/ ThreadExit(c) \/ ExitLoop(c)
  BY <1>3 DEF Next, Leaving
<1>4. CASE \/ StartCpu(c) \/ CpuOnRefused(c) \/ StartCpuReturns(c)
           \/ ipi_ready /\ Spawn(c)
           \/ \E t \in Tid : AttachProcess(c, t) \/ Start(c, t)
  BY <1>4 DEF Next, KernelMain
<1>5. CASE ComeOnline(c) \/ AdoptAsIdle(c)
  BY <1>5 DEF Next, Secondary
<1> QED
  BY <1>1, <1>2, <1>3, <1>4, <1>5 DEF Untimed

\* What a core does with its timer, the interrupts and wfi is one too, or
\* leaves the scheduler's state alone.
LEMMA TimedStep ==
  ASSUME NEW c \in Cpu, Timed(c)
  PROVE  Next \/ UNCHANGED vars
<1>1. CASE TimerIrq(c) \/ RescheduleIpi(c)
  BY <1>1 DEF Next, TimerIrq, RescheduleIpi
<1>2. CASE DeviceIrq(c) \/ EnterWfi(c) \/ IpiReady(c) \/ SetTickless(c)
  BY <1>2 DEF DeviceIrq, EnterWfi, IpiReady, SetTickless
<1>3. CASE IdleAfterWfi(c)
  BY <1>3 DEF Next, Leaving, IdleAfterWfi
<1>4. CASE Kick(c)
  BY <1>4 DEF Next, Blocking, Kick
<1>5. CASE StartTimer(c)
  BY <1>5 DEF Next, Secondary, StartTimer
<1>6. CASE \E n \in 0 .. MaxSleep : SleepFor(c, n)
  <2>1. PICK n \in 0 .. MaxSleep : SleepTicks(c, n = 0)
    BY <1>6 DEF SleepFor
  <2>2. (n = 0) \in BOOLEAN
    OBVIOUS
  <2> QED
    BY <2>1, <2>2 DEF Next, Blocking
<1> QED
  BY <1>1, <1>2, <1>3, <1>4, <1>5, <1>6 DEF Timed

\* The machine with timers, interrupts and a clock is an implementation of
\* the scheduler without them: arm_next, the reschedule interrupt, the idle
\* loop and IPI_READY never make a core do anything else to the threads.
THEOREM TicklessImplements == TSpec => Spec
<1>1. TInit => Init
  BY DEF TInit
<1>2. ClockTick => Next \/ UNCHANGED vars
  <2> SUFFICES ASSUME ClockTick, Expiring # {} PROVE Next
    BY DEF ClockTick
  <2>1. Expiring \in SUBSET InSleep
    BY DEF Expiring
  <2> QED
    BY <2>1 DEF ClockTick, Next
<1>3. [TNext]_tvars => [Next]_vars
  <2>1. TNext => Next \/ UNCHANGED vars
    BY <1>2, UntimedStep, TimedStep DEF TNext
  <2>2. UNCHANGED tvars => UNCHANGED vars
    BY DEF tvars
  <2> QED
    BY <2>1, <2>2
<1> QED
  BY <1>1, <1>3, PTL DEF TSpec, Spec
-----------------------------------------------------------------------------
(***************************************************************************)
(* The timers.  A machine in which no wait is given up by cancel_block,    *)
(* which makes a thread runnable behind the back of the other cores.       *)
(***************************************************************************)
ClockTypes ==
    /\ timer \in [Cpu -> Nat \cup {Never}]
    /\ sgi \in [Cpu -> BOOLEAN]
    /\ left \in [Tid -> Nat]

\* Where a thread stands says whether its deadline is ahead, and what its
\* state may be: one that has left sleep_ticks while still marked Sleeping is
\* past its deadline.
LateInv ==
    \A t \in Tid :
        /\ left[t] > 0 <=> tpc[t] = "sleep" /\ t \notin late
        /\ state[t] = "Sleeping" => tpc[t] = "sleep" \/ t \in late
        /\ state[t] = "Blocked" => tpc[t] \in {"prepared", "block"}
        /\ state[t] = "Finished" => tpc[t] = "exit"
        /\ state[t] \in {"Absent", "New"} => tpc[t] = "run"

\* A core whose timer is more than a tick away and that nobody has kicked
\* armed it when no thread could run; none can now, and it comes back before
\* the first sleeper is due.
Dormant(c) ==
    \A t \in Tid : affinity[t] = NoCpu =>
        /\ state[t] # "Runnable"
        /\ state[t] = "Sleeping" => timer[c] \in 0 .. left[t]

TimersInv ==
    /\ \A c \in Cpu : Adopted(c) => Soon(c) \/ Dormant(c)
    /\ \A c \in Cpu : ~Adopted(c) => timer[c] \in {0, 1}
    /\ Adopted(0)

ClockInv == ClockTypes /\ LateInv /\ TimersInv

\* A thread that runs code of its own is no idle thread, and it is runnable
\* or past its deadline: no core is dormant.
LEMMA RunnerKeepsAwake ==
  ASSUME IInv, ClockInv, NEW c \in Cpu, At(c, "run")
  PROVE  /\ Me(c) \in Tid /\ affinity[Me(c)] = NoCpu
         /\ state[Me(c)] \in {"Runnable", "Sleeping"} /\ left[Me(c)] = 0
         /\ \A d \in Cpu : Adopted(d) => Soon(d)
<1>1. Me(c) \in Tid /\ tpc[Me(c)] = "run" /\ Adopted(c)
  BY DEF At, Me, IInv, TypeOK, Adopted
<1>2. affinity[Me(c)] = NoCpu
  BY <1>1 DEF IInv, SwitchInvariant, IdleInv, TypeOK
<1>3. state[Me(c)] \notin {"Absent", "New"}
  BY <1>1 DEF IInv, SwitchInvariant, CoreInv, ClaimInv, Me, NoCpu, Cpu
<1>4. state[Me(c)] \in {"Runnable", "Sleeping"}
  BY <1>1, <1>3 DEF IInv, TypeOK, States, ClockInv, LateInv
<1>5. left[Me(c)] = 0
  BY <1>1 DEF ClockInv, ClockTypes, LateInv
<1>6. ASSUME NEW d \in Cpu, Adopted(d), Dormant(d) PROVE Soon(d)
  <2>1. timer[d] \in 0 .. 0
    BY <1>6, <1>1, <1>2, <1>4, <1>5 DEF Dormant
  <2> QED
    BY <2>1 DEF Soon
<1> QED
  BY <1>1, <1>2, <1>4, <1>5, <1>6 DEF ClockInv, TimersInv

\* A step that makes no thread runnable or a sleeper, and no core come up,
\* keeps the timers right.
LEMMA QuietForTimers ==
  ASSUME IInv, ClockInv, UNCHANGED <<timer, left>>,
         \A d \in Cpu : Adopted(d)' <=> Adopted(d),
         \A d \in Cpu : sgi[d] => sgi'[d],
         \A t \in Tid : affinity'[t] = affinity[t],
         \A t \in Tid : state'[t] # state[t] => state'[t] \notin {"Runnable", "Sleeping"}
  PROVE  TimersInv'
<1>1. \A d \in Cpu : Soon(d) => Soon(d)'
  BY DEF Soon
<1>2. \A d \in Cpu : Dormant(d) => Dormant(d)'
  BY DEF Dormant
<1>3. 0 \in Cpu
  BY SchedulerAssumption DEF Cpu
<1> QED
  BY <1>1, <1>2, <1>3 DEF ClockInv, TimersInv

\* While no core is dormant the threads may change as they like.
LEMMA AwakeForTimers ==
  ASSUME IInv, ClockInv, UNCHANGED <<timer, sgi>>,
         \A d \in Cpu : Adopted(d)' <=> Adopted(d),
         \A d \in Cpu : Adopted(d) => Soon(d)
  PROVE  TimersInv'
<1>1. \A d \in Cpu : Soon(d) => Soon(d)'
  BY DEF Soon
<1>3. 0 \in Cpu
  BY SchedulerAssumption DEF Cpu
<1> QED
  BY <1>1, <1>3 DEF ClockInv, TimersInv

\* time::start() has armed core 0 for the next tick.
LEMMA ClockInitEstablishes == TInit => ClockInv
<1> SUFFICES ASSUME TInit PROVE ClockInv
  OBVIOUS
<1> USE DEF TInit, Init, ClockInit
<1>1. ClockTypes
  BY DEF ClockTypes
<1>2. LateInv
  BY DEF LateInv, Tid
<1>3. TimersInv
  BY SchedulerAssumption DEF TimersInv, Adopted, Soon, Cpu
<1> QED
  BY <1>1, <1>2, <1>3 DEF ClockInv

\* What a core does inside schedule() is no business of the clock's.
LEMMA SwitchingKeepsClock ==
  ASSUME IInv, ClockInv, NEW c \in Cpu, Switching(c), UNCHANGED clockvars
  PROVE  ClockInv'
<1>1. UNCHANGED <<table, state, tpc, late>>
  BY DEF Switching, Schedule, SaveContext, LoadContext, FinishSwitch
<1>2. /\ pc[c] \in {"resched", "save", "load", "finish"}
      /\ \E w \in {"run", "save", "load", "finish"} : pc' = [pc EXCEPT ![c] = w]
  BY DEF Switching, Schedule, StayOn, ClaimNext, SaveContext, LoadContext, FinishSwitch
<1>3. \A d \in Cpu : Adopted(d)' <=> Adopted(d)
  BY <1>2 DEF IInv, TypeOK, Adopted
<1>4. TimersInv'
  BY <1>1, <1>3, QuietForTimers DEF table, clockvars
<1>5. ClockTypes' /\ LateInv'
  BY <1>1 DEF ClockInv, ClockTypes, LateInv, clockvars
<1> QED
  BY <1>4, <1>5 DEF ClockInv

\* A thread that waits, sleeps, stops or wakes the others.
LEMMA ThreadKeepsClock ==
  ASSUME IInv, ClockInv, NEW c \in Cpu, UNCHANGED clockvars,
         \/ SleepLoop(c) \/ Block(c) \/ BlockLoop(c)
         \/ \E k \in Tokens : PrepareBlock(c, k) \/ WakeAllOn(c, k)
         \/ YieldNow(c) \/ ThreadExit(c) \/ ExitLoop(c) \/ IdleLoop(c)
  PROVE  ClockInv'
<1> USE DEF At, Goto, Become, CallSchedule
<1>1. UNCHANGED <<table, late>> /\ pc[c] = "run" /\ (pc' = pc \/ pc' = [pc EXCEPT ![c] = "resched"])
  BY DEF SleepLoop, Block, BlockLoop, PrepareBlock, WakeAllOn, YieldNow, ThreadExit,
         ExitLoop, IdleLoop
<1>2. \A d \in Cpu : Adopted(d)' <=> Adopted(d)
  BY <1>1 DEF IInv, TypeOK, Adopted
<1>m. Me(c) \in Tid /\ state[Me(c)] \notin {"Absent", "New"}
  BY <1>1 DEF IInv, TypeOK, SwitchInvariant, CoreInv, ClaimInv, Adopted, Me, NoCpu, Cpu
<1>t. /\ state \in [Tid -> States] /\ tpc \in [Tid -> TPCs]
      /\ ClockTypes' /\ UNCHANGED <<left, late>>
  BY <1>1 DEF IInv, TypeOK, ClockInv, ClockTypes, clockvars
<1>l. LateInv
  BY DEF ClockInv
<1>3. CASE SleepLoop(c) \/ Block(c) \/ BlockLoop(c) \/ YieldNow(c) \/ ExitLoop(c) \/ IdleLoop(c)
  <2>1. state' = state
    BY <1>3 DEF SleepLoop, Block, BlockLoop, YieldNow, ExitLoop, IdleLoop
  <2>2. TimersInv'
    BY <2>1, <1>1, <1>2, QuietForTimers DEF table, clockvars
  <2>3. LateInv'
    BY <2>1, <1>3, <1>m, <1>t, <1>l
       DEF LateInv, SleepLoop, Block, BlockLoop, YieldNow, ExitLoop, IdleLoop
  <2> QED
    BY <2>2, <2>3, <1>t DEF ClockInv
<1>4. CASE ThreadExit(c) \/ \E k \in Tokens : PrepareBlock(c, k)
  <2>1. \A t \in Tid : state'[t] # state[t] => state'[t] \notin {"Runnable", "Sleeping"}
    BY <1>4, <1>m, <1>t DEF ThreadExit, PrepareBlock
  <2>2. TimersInv'
    BY <2>1, <1>1, <1>2, QuietForTimers DEF table, clockvars
  <2>3. LateInv'
    BY <1>4, <1>m, <1>t, <1>l DEF LateInv, ThreadExit, PrepareBlock
  <2> QED
    BY <2>2, <2>3, <1>t DEF ClockInv
<1>5. CASE \E k \in Tokens : WakeAllOn(c, k)
  <2>1. At(c, "run")
    BY <1>5 DEF WakeAllOn
  <2>2. TimersInv'
    BY <2>1, <1>2, RunnerKeepsAwake, AwakeForTimers DEF clockvars
  <2>3. LateInv'
    <3>1. PICK k \in Tokens : WakeAllOn(c, k)
      BY <1>5
    <3>2. /\ tpc[Me(c)] = "run" /\ tpc' = [tpc EXCEPT ![Me(c)] = "kick"]
          /\ \A t \in Tid : state'[t] = state[t] \/ (state[t] = "Blocked" /\ state'[t] = "Runnable")
      BY <3>1, <1>t DEF WakeAllOn, Waiters
    <3> QED
      BY <3>2, <1>m, <1>t, <1>l DEF LateInv
  <2> QED
    BY <2>2, <2>3, <1>t DEF ClockInv
<1> QED
  BY <1>3, <1>4, <1>5

\* kernel_main, and a core that comes up.
LEMMA BringUpKeepsClock ==
  ASSUME IInv, ClockInv, NEW c \in Cpu, UNCHANGED clockvars,
         KernelMain(c) \/ ComeOnline(c) \/ AdoptAsIdle(c)
  PROVE  ClockInv'
<1> USE DEF BootAt, At, Goto
<1>t. /\ state \in [Tid -> States] /\ tpc \in [Tid -> TPCs] /\ pc \in [Cpu -> PCs]
      /\ affinity \in [Tid -> Cpu \cup {NoCpu}]
      /\ Boot \in Tid /\ 0 \in Cpu
      /\ ClockTypes' /\ UNCHANGED <<timer, sgi, left>>
  <2>1. Boot \in Tid /\ 0 \in Cpu
    BY SchedulerAssumption DEF Boot, Tid, Cpu
  <2> QED
    BY <2>1 DEF IInv, TypeOK, ClockInv, ClockTypes, clockvars
<1>l. LateInv
  BY DEF ClockInv
<1>1. CASE StartCpu(c) \/ CpuOnRefused(c) \/ StartCpuReturns(c)
  <2>1. UNCHANGED <<table, state, late>>
    BY <1>1 DEF StartCpu, CpuOnRefused, StartCpuReturns
  <2>2. \A d \in Cpu : Adopted(d)' <=> Adopted(d)
    <3>1. CASE StartCpu(c)
      <4>1. starting \in Cpu /\ pc[starting] = "off" /\ pc' = [pc EXCEPT ![starting] = "starting"]
        BY <3>1 DEF StartCpu, IInv, SwitchInvariant, BringUpInv, Me, Boot
      <4> QED
        BY <4>1, <1>t DEF Adopted
    <3>2. CASE ~StartCpu(c)
      BY <3>2, <1>1 DEF CpuOnRefused, StartCpuReturns, Adopted
    <3> QED
      BY <3>1, <3>2
  <2>3. TimersInv'
    BY <2>1, <2>2, <1>t, QuietForTimers DEF table
  <2>4. LateInv'
    <3>1. /\ tpc[Boot] \in {"run", "waitcpu"}
          /\ state[Boot] \notin {"Absent", "New"}
          /\ tpc' = tpc \/ \E w \in {"run", "waitcpu"} : tpc' = [tpc EXCEPT ![Boot] = w]
      <4>1. Me(c) = Boot /\ pc[c] = "run" /\ tpc[Boot] \in {"run", "waitcpu"}
        BY <1>1 DEF StartCpu, CpuOnRefused, StartCpuReturns
      <4>2. state[Boot] \notin {"Absent", "New"}
        BY <4>1, <1>t DEF IInv, TypeOK, SwitchInvariant, CoreInv, ClaimInv, Adopted, Me, NoCpu, Cpu
      <4> QED
        BY <4>1, <4>2, <1>1 DEF StartCpu, CpuOnRefused, StartCpuReturns
    <3> QED
      BY <3>1, <2>1, <1>t, <1>l DEF LateInv
  <2> QED
    BY <2>3, <2>4, <1>t DEF ClockInv
<1>2. CASE Spawn(c)
  <2>1. /\ len \in Tid /\ state[len] = "Absent" /\ state' = [state EXCEPT ![len] = "New"]
        /\ UNCHANGED <<affinity, pc, tpc, late>>
    BY <1>2, NextEntryIsUnused DEF Spawn
  <2>2. TimersInv'
    <3>1. \A d \in Cpu : Adopted(d)' <=> Adopted(d)
      BY <2>1 DEF Adopted
    <3>2. \A t \in Tid : state'[t] # state[t] => state'[t] \notin {"Runnable", "Sleeping"}
      BY <2>1, <1>t
    <3> QED
      BY <2>1, <3>1, <3>2, <1>t, QuietForTimers
  <2>3. LateInv'
    BY <2>1, <1>t, <1>l DEF LateInv
  <2> QED
    BY <2>2, <2>3, <1>t DEF ClockInv
<1>3. CASE \E t \in Tid : AttachProcess(c, t)
  <2>1. UNCHANGED <<affinity, pc, state, tpc, late>>
    BY <1>3 DEF AttachProcess
  <2>2. TimersInv'
    <3>1. \A d \in Cpu : Adopted(d)' <=> Adopted(d)
      BY <2>1 DEF Adopted
    <3> QED
      BY <2>1, <3>1, <1>t, QuietForTimers
  <2>3. LateInv'
    BY <2>1, <1>t, <1>l DEF LateInv
  <2> QED
    BY <2>2, <2>3, <1>t DEF ClockInv
<1>4. CASE \E t \in Tid : Start(c, t)
  <2>1. PICK t \in Tid : Start(c, t)
    BY <1>4
  <2>2. /\ At(c, "run") /\ Me(c) = Boot /\ UNCHANGED <<affinity, pc, late>>
        /\ state[t] = "New" /\ state' = [state EXCEPT ![t] = "Runnable"]
        /\ tpc' = [tpc EXCEPT ![Boot] = "kick"]
    BY <2>1 DEF Start, table
  <2>3. TimersInv'
    <3>1. \A d \in Cpu : Adopted(d)' <=> Adopted(d)
      BY <2>2 DEF Adopted
    <3> QED
      BY <2>2, <3>1, <1>t, RunnerKeepsAwake, AwakeForTimers
  <2>4. LateInv'
    <3>1. tpc[Boot] = "run" /\ state[Boot] \in {"Runnable", "Sleeping"} /\ left[Boot] = 0
      BY <2>2, RunnerKeepsAwake
    <3> QED
      BY <3>1, <2>2, <1>t, <1>l DEF LateInv
  <2> QED
    BY <2>3, <2>4, <1>t DEF ClockInv
<1>5. CASE ComeOnline(c)
  <2>1. /\ UNCHANGED <<table, state, tpc, late>>
        /\ pc[c] = "starting" /\ pc' = [pc EXCEPT ![c] = "online"]
    BY <1>5 DEF ComeOnline
  <2>2. \A d \in Cpu : Adopted(d)' <=> Adopted(d)
    BY <2>1, <1>t DEF Adopted
  <2>3. TimersInv'
    BY <2>1, <2>2, <1>t, QuietForTimers DEF table
  <2>4. LateInv'
    BY <2>1, <1>t, <1>l DEF LateInv
  <2> QED
    BY <2>3, <2>4, <1>t DEF ClockInv
<1>6. CASE AdoptAsIdle(c)
  <2>1. /\ len \in Tid /\ state[len] = "Absent" /\ pc[c] = "online" /\ late' = late
        /\ state' = [state EXCEPT ![len] = "Runnable"]
        /\ affinity' = [affinity EXCEPT ![len] = c]
        /\ tpc' = [tpc EXCEPT ![len] = "idle"]
        /\ pc' = [pc EXCEPT ![c] = "adopted"]
    BY <1>6, NextEntryIsUnused DEF AdoptAsIdle
  <2>2. LateInv'
    BY <2>1, <1>t, <1>l DEF LateInv
  <2>3. /\ \A d \in Cpu : Adopted(d)' <=> Adopted(d) \/ d = c
        /\ ~Adopted(c)
    BY <2>1, <1>t DEF Adopted
  <2>4. \A d \in Cpu : (Soon(d) => Soon(d)') /\ (Dormant(d) => Dormant(d)')
    <3>1. \A t \in Tid : affinity'[t] = NoCpu => affinity[t] = NoCpu /\ state'[t] = state[t]
      BY <2>1, <1>t DEF NoCpu, Cpu
    <3> QED
      BY <3>1, <1>t DEF Soon, Dormant
  <2>5. Soon(c)'
    BY <2>3, <1>t DEF ClockInv, TimersInv, Soon
  <2>6. TimersInv'
    BY <2>3, <2>4, <2>5, <1>t DEF ClockInv, TimersInv
  <2> QED
    BY <2>2, <2>6, <1>t DEF ClockInv
<1> QED
  BY <1>1, <1>2, <1>3, <1>4, <1>5, <1>6 DEF KernelMain

\* The earliest deadline arm_next finds is no later than any sleeper's.
LEMMA EarliestIsFirst ==
  ASSUME ClockTypes, Asleep # {}
  PROVE  Earliest \in Nat /\ \A t \in Asleep : Earliest <= left[t]
<1>0. Asleep \subseteq Tid
  BY DEF Asleep
<1> DEFINE S == {left[t] : t \in Asleep}
<1>1. S \in SUBSET Nat /\ S # {}
  BY <1>0 DEF ClockTypes
<1>2. PICK k \in S : \A j \in S : k <= j
  <2> HIDE DEF S
  <2> QED
    BY <1>1, LeastMember
<1>3. \E t \in Asleep : \A u \in Asleep : left[t] <= left[u]
  BY <1>2
<1> DEFINE e == CHOOSE t \in Asleep : \A u \in Asleep : left[t] <= left[u]
<1>4. e \in Asleep /\ \A u \in Asleep : left[e] <= left[u]
  BY <1>3
<1>5. Earliest = left[e]
  BY DEF Earliest
<1> HIDE DEF e
<1> QED
  BY <1>0, <1>4, <1>5 DEF ClockTypes

\* The core that takes the timer's or the reschedule interrupt surveys all
\* threads and arms its timer by what it finds.
LEMMA InterruptKeepsClock ==
  ASSUME IInv, ClockInv, NEW c \in Cpu, Interrupt(c), ArmNext(c), left' = left,
         sgi' = sgi \/ sgi' = [sgi EXCEPT ![c] = FALSE]
  PROVE  ClockInv'
<1>t. /\ state \in [Tid -> States] /\ tpc \in [Tid -> TPCs] /\ pc \in [Cpu -> PCs]
      /\ ClockTypes /\ 0 \in Cpu
  BY SchedulerAssumption DEF IInv, TypeOK, ClockInv, Cpu
<1>i. /\ UNCHANGED <<affinity, tpc, late>> /\ pc[c] = "run" /\ pc' = [pc EXCEPT ![c] = "resched"]
      /\ state' = [t \in Tid |-> IF t \in Due THEN "Runnable" ELSE state[t]]
  BY DEF Interrupt, table
<1>1. \A d \in Cpu : Adopted(d)' <=> Adopted(d)
  BY <1>i, <1>t DEF Adopted
<1>2. LateInv'
  BY <1>i, <1>t DEF ClockInv, LateInv, Due
<1> DEFINE next == IF Work \/ ~tickless THEN 1 ELSE IF Asleep # {} THEN Earliest ELSE MaxIdle
<1>3. timer' = [timer EXCEPT ![c] = next]
  BY DEF ArmNext
<1>4. next \in Nat \cup {Never}
  BY <1>t, EarliestIsFirst, TicklessAssumption
<1>5. ClockTypes'
  BY <1>3, <1>4, <1>t DEF ClockTypes
<1>6. timer'[c] = next
  BY <1>3, <1>t DEF ClockTypes
<1>7. Soon(c)' \/ Dormant(c)'
  <2>1. CASE Work \/ ~tickless
    BY <2>1, <1>6 DEF Soon
  <2>2. CASE ~Work /\ tickless
    <3>1. Due = {} /\ \A t \in Tid : ~(state[t] = "Runnable" /\ affinity[t] = NoCpu)
      BY <2>2 DEF Work
    <3>2. state' = state
      BY <3>1, <1>i, <1>t
    <3>3. \A t \in Tid : state[t] = "Sleeping" => t \in Asleep
      BY <3>1 DEF Asleep
    <3>4. ASSUME NEW t \in Tid, state[t] = "Sleeping"
          PROVE  timer'[c] \in 0 .. left[t]
      <4>1. t \in Asleep
        BY <3>3, <3>4
      <4>2. Earliest \in Nat /\ Earliest <= left[t]
        BY <4>1, <1>t, EarliestIsFirst
      <4>3. timer'[c] = Earliest
        BY <4>1, <2>2, <1>6
      <4> QED
        BY <4>2, <4>3, <1>t DEF ClockTypes
    <3> QED
      BY <3>1, <3>2, <3>4, <1>i DEF Dormant
  <2> QED
    BY <2>1, <2>2
<1>8. ASSUME NEW d \in Cpu, d # c, Soon(d) \/ Dormant(d) PROVE Soon(d)' \/ Dormant(d)'
  <2>1. timer'[d] = timer[d] /\ sgi'[d] = sgi[d]
    BY <1>8, <1>3, <1>t DEF ClockTypes
  <2>2. Soon(d) => Soon(d)'
    BY <2>1 DEF Soon
  <2>3. ASSUME Dormant(d), ~Soon(d) PROVE Dormant(d)'
    <3>1. Due = {}
      <4> SUFFICES ASSUME NEW t \in Due PROVE FALSE
        OBVIOUS
      <4>1. t \in Tid /\ t \in late /\ state[t] = "Sleeping"
        BY DEF Due, IInv, TypeOK
      <4>2. affinity[t] = NoCpu
        BY <4>1 DEF IInv, TypeOK, SwitchInvariant, IdleInv
      <4>3. left[t] = 0
        BY <4>1, <1>t DEF ClockInv, LateInv, ClockTypes
      <4>4. timer[d] \in 0 .. 0
        BY <4>1, <4>2, <4>3, <2>3 DEF Dormant
      <4> QED
        BY <4>4, <2>3 DEF Soon
    <3>2. state' = state
      BY <3>1, <1>i, <1>t
    <3> QED
      BY <3>2, <2>1, <2>3, <1>i DEF Dormant
  <2> QED
    BY <1>8, <2>2, <2>3
<1>9. \A d \in Cpu : ~Adopted(d) => timer'[d] = timer[d]
  BY <1>3, <1>i, <1>t DEF Adopted, ClockTypes
<1>10. TimersInv'
  BY <1>1, <1>7, <1>8, <1>9, <1>t DEF ClockInv, TimersInv
<1> QED
  BY <1>2, <1>5, <1>10 DEF ClockInv

\* The rest of what a core does with its timer, the interrupts and wfi.
LEMMA TimedKeepsClock ==
  ASSUME IInv, ClockInv, NEW c \in Cpu, Timed(c)
  PROVE  ClockInv'
<1>t. /\ state \in [Tid -> States] /\ tpc \in [Tid -> TPCs] /\ pc \in [Cpu -> PCs]
      /\ current \in [Cpu -> Tid]
      /\ ClockTypes /\ LateInv
  BY DEF IInv, TypeOK, ClockInv
<1>1. CASE TimerIrq(c) \/ RescheduleIpi(c)
  BY <1>1, InterruptKeepsClock DEF TimerIrq, RescheduleIpi
<1>2. CASE DeviceIrq(c) \/ EnterWfi(c) \/ IpiReady(c) \/ SetTickless(c)
  <2>1. UNCHANGED <<affinity, pc, state, tpc, late, timer, sgi, left>>
    BY <1>2 DEF DeviceIrq, EnterWfi, IpiReady, SetTickless, vars
  <2>2. \A d \in Cpu : Adopted(d)' <=> Adopted(d)
    BY <2>1 DEF Adopted
  <2>3. TimersInv'
    BY <2>1, <2>2, QuietForTimers
  <2> QED
    BY <2>1, <2>3, <1>t DEF ClockInv, ClockTypes, LateInv
<1>3. CASE IdleAfterWfi(c)
  <2>1. /\ UNCHANGED <<affinity, state, tpc, late, timer, sgi, left>>
        /\ pc[c] = "run" /\ pc' = [pc EXCEPT ![c] = "resched"]
    BY <1>3 DEF IdleAfterWfi, IdleLoop, At, CallSchedule, table
  <2>2. \A d \in Cpu : Adopted(d)' <=> Adopted(d)
    BY <2>1, <1>t DEF Adopted
  <2>3. TimersInv'
    BY <2>1, <2>2, QuietForTimers
  <2> QED
    BY <2>1, <2>3, <1>t DEF ClockInv, ClockTypes, LateInv
<1>4. CASE Kick(c)
  <2>1. /\ UNCHANGED <<affinity, pc, state, late, timer, left>>
        /\ tpc[Me(c)] = "kick" /\ tpc' = [tpc EXCEPT ![Me(c)] = "run"]
    BY <1>4 DEF Kick, KickOthers, At, Goto, table
  <2>2. sgi' \in [Cpu -> BOOLEAN] /\ \A d \in Cpu : sgi[d] => sgi'[d]
    <3>1. sgi' = [d \in Cpu |-> sgi[d] \/ ( /\ ipi_ready /\ d # c
                                           /\ pc[d] \notin {"off", "starting"})]
      BY <1>4 DEF Kick
    <3>2. \A d \in Cpu : sgi'[d] = (sgi[d] \/ ( /\ ipi_ready /\ d # c
                                           /\ pc[d] \notin {"off", "starting"}))
      BY Zenon, <3>1
    <3>3. sgi' = [d \in Cpu |-> sgi'[d]]
      BY Zenon, <3>1
    <3>4. \A d \in Cpu : sgi'[d] \in BOOLEAN
      BY Zenon, <3>2
    <3> QED
      BY ONLY <3>2, <3>3, <3>4
  <2>3. \A d \in Cpu : Adopted(d)' <=> Adopted(d)
    BY <2>1 DEF Adopted
  <2>4. TimersInv'
    BY <2>1, <2>2, <2>3, QuietForTimers
  <2> QED
    BY <2>1, <2>2, <2>4, <1>t DEF ClockInv, ClockTypes, LateInv, Me
<1>5. CASE StartTimer(c)
  <2>1. /\ UNCHANGED <<affinity, state, tpc, late, sgi, left>>
        /\ pc[c] = "adopted" /\ pc' = [pc EXCEPT ![c] = "run"]
        /\ timer' = [timer EXCEPT ![c] = 1]
    BY <1>5 DEF StartTimer, EnableInterrupts, table
  <2>2. \A d \in Cpu : Adopted(d)' <=> Adopted(d)
    BY <2>1, <1>t DEF Adopted
  <2>3. \A d \in Cpu : timer'[d] = IF d = c THEN 1 ELSE timer[d]
    BY <2>1, <1>t DEF ClockTypes
  <2>4. \A d \in Cpu : (Soon(d) => Soon(d)') /\ (Dormant(d) => Dormant(d)' \/ Soon(d)')
    BY <2>1, <2>3 DEF Soon, Dormant
  <2>5. TimersInv'
    <3>1. 0 \in Cpu
      BY SchedulerAssumption DEF Cpu
    <3> QED
      BY <2>2, <2>3, <2>4, <3>1 DEF ClockInv, TimersInv
  <2>6. ClockTypes'
    BY <2>1, <1>t DEF ClockTypes
  <2> QED
    BY <2>1, <2>5, <2>6, <1>t DEF ClockInv, LateInv
<1>6. CASE \E n \in 0 .. MaxSleep : SleepFor(c, n)
  <2>1. PICK n \in 0 .. MaxSleep : SleepFor(c, n)
    BY <1>6
  <2>2. /\ At(c, "run") /\ UNCHANGED <<affinity, pc, timer, sgi>>
        /\ state' = [state EXCEPT ![Me(c)] = "Sleeping"]
        /\ tpc' = [tpc EXCEPT ![Me(c)] = "sleep"]
        /\ late' = IF n = 0 THEN late \cup {Me(c)} ELSE late \ {Me(c)}
        /\ left' = [left EXCEPT ![Me(c)] = n]
    BY <2>1 DEF SleepFor, SleepTicks, Become, Goto, table
  <2>3. n \in Nat /\ Me(c) \in Tid
    BY <1>t, TicklessAssumption DEF Me
  <2>4. TimersInv'
    <3>1. \A d \in Cpu : Adopted(d)' <=> Adopted(d)
      BY <2>2 DEF Adopted
    <3> QED
      BY <2>2, <3>1, RunnerKeepsAwake, AwakeForTimers
  <2>5. ClockTypes'
    BY <2>2, <2>3, <1>t DEF ClockTypes
  <2>6. LateInv'
    BY <2>2, <2>3, <1>t DEF LateInv, ClockTypes
  <2> QED
    BY <2>4, <2>5, <2>6 DEF ClockInv
<1> QED
  BY <1>1, <1>2, <1>3, <1>4, <1>5, <1>6 DEF Timed

\* The counter advances for every deadline and every timer alike.
LEMMA TickKeepsClock == ASSUME IInv, ClockInv, ClockTick PROVE ClockInv'
<1>t. ClockTypes /\ LateInv /\ late \subseteq Tid /\ 0 \in Cpu
  BY SchedulerAssumption DEF IInv, TypeOK, ClockInv, Cpu
<1>1. /\ left' = [t \in Tid |-> IF left[t] > 0 THEN left[t] - 1 ELSE 0]
      /\ timer' = [c \in Cpu |-> IF timer[c] > 0 THEN timer[c] - 1 ELSE timer[c]]
      /\ UNCHANGED <<affinity, pc, state, tpc, sgi>>
      /\ late' = late \cup Expiring
  BY DEF ClockTick, ClockPasses, vars, table
<1>2. ClockTypes'
  BY <1>1, <1>t DEF ClockTypes, Never
<1>3. LateInv'
  <2>1. \A t \in Tid : t \in Expiring <=> tpc[t] = "sleep" /\ t \notin late /\ left[t] = 1
    BY DEF Expiring, InSleep
  <2> HIDE DEF Expiring
  <2>2. \A t \in Tid : left[t] \in Nat /\ left'[t] = IF left[t] > 0 THEN left[t] - 1 ELSE 0
    BY <1>1, <1>t DEF ClockTypes
  <2>3. \A t \in Tid : left'[t] > 0 <=> tpc'[t] = "sleep" /\ t \notin late'
    BY <2>1, <2>2, <1>1, <1>t DEF LateInv
  <2> QED
    BY <2>3, <1>1, <1>t DEF LateInv
<1>4. \A c \in Cpu : timer[c] \in Nat \cup {Never}
                     /\ timer'[c] = IF timer[c] > 0 THEN timer[c] - 1 ELSE timer[c]
  BY <1>1, <1>t DEF ClockTypes
<1>5. \A c \in Cpu : Soon(c) => Soon(c)'
  BY <1>1, <1>4 DEF Soon
<1>6. \A c \in Cpu : Dormant(c) => Dormant(c)'
  <2> SUFFICES ASSUME NEW c \in Cpu, Dormant(c), NEW t \in Tid, affinity[t] = NoCpu
               PROVE  /\ state[t] # "Runnable"
                      /\ state[t] = "Sleeping" => timer'[c] \in 0 .. left'[t]
    BY <1>1 DEF Dormant
  <2>1. /\ state[t] # "Runnable"
        /\ state[t] = "Sleeping" => timer[c] \in 0 .. left[t]
    BY DEF Dormant
  <2>2. left[t] \in Nat /\ left'[t] = IF left[t] > 0 THEN left[t] - 1 ELSE 0
    BY <1>1, <1>t DEF ClockTypes
  <2> QED
    BY <2>1, <2>2, <1>4
<1>7. \A c \in Cpu : timer[c] \in {0, 1} => timer'[c] \in {0, 1}
  BY <1>4
<1>8. \A c \in Cpu : Adopted(c)' <=> Adopted(c)
  BY <1>1 DEF Adopted
<1>9. TimersInv'
  BY <1>t, <1>5, <1>6, <1>7, <1>8 DEF ClockInv, TimersInv
<1> QED
  BY <1>2, <1>3, <1>9 DEF ClockInv

\* Every step keeps the timers right, as long as no wait is given up.
LEMMA NextKeepsClock ==
  ASSUME ~Abandons, IInv, ClockInv, [TNext]_tvars
  PROVE  ClockInv'
<1>1. CASE ClockTick
  BY <1>1, TickKeepsClock
<1>2. ASSUME NEW c \in Cpu, Untimed(c) PROVE ClockInv'
  BY <1>2, SwitchingKeepsClock, ThreadKeepsClock, BringUpKeepsClock DEF Untimed, KernelMain
<1>3. ASSUME NEW c \in Cpu, Timed(c) PROVE ClockInv'
  BY <1>3, TimedKeepsClock
<1>4. CASE UNCHANGED tvars
  <2>1. UNCHANGED <<affinity, pc, state, tpc, late, timer, sgi, left>>
    BY <1>4 DEF tvars, vars, clockvars
  <2>2. \A d \in Cpu : Adopted(d)' <=> Adopted(d)
    BY <2>1 DEF Adopted
  <2>3. TimersInv'
    BY <2>1, <2>2, QuietForTimers
  <2> QED
    BY <2>1, <2>3 DEF ClockInv, ClockTypes, LateInv
<1> QED
  BY <1>1, <1>2, <1>3, <1>4 DEF TNext

\* The timers' inductive invariant, for any number of cores and threads, with
\* or without the backstop of MAX_IDLE_TICKS.
THEOREM ClockInvariance == ASSUME ~Abandons PROVE TSpec => []ClockInv
<1>1. TSpec => []IInv
  BY TicklessImplements, Invariance, PTL
<1>2. IInv /\ ClockInv /\ [TNext]_tvars => ClockInv'
  BY NextKeepsClock
<1> QED
  BY <1>1, <1>2, ClockInitEstablishes, PTL DEF TSpec

\* A tickless kernel does not oversleep: whoever sleeps, a core that takes
\* interrupts comes to sweep no later than the deadline.
THEOREM TicklessNeverOversleeps == ASSUME ~Abandons PROVE TSpec => []SleepersCovered
<1>1. TSpec => []IInv
  BY TicklessImplements, Invariance, PTL
<1>2. IInv /\ ClockInv => SleepersCovered
  <2> SUFFICES ASSUME IInv, ClockInv, NEW t \in Tid, state[t] = "Sleeping"
               PROVE  \E c \in Cpu : /\ Adopted(c)
                                     /\ Soon(c) \/ timer[c] \in 0 .. left[t]
    BY DEF SleepersCovered
  <2>1. 0 \in Cpu /\ Adopted(0) /\ (Soon(0) \/ Dormant(0))
    BY SchedulerAssumption DEF ClockInv, TimersInv, Cpu
  <2>2. affinity[t] = NoCpu
    BY DEF IInv, TypeOK, SwitchInvariant, IdleInv
  <2> QED
    BY <2>1, <2>2 DEF Dormant
<1> QED
  BY <1>1, <1>2, ClockInvariance, PTL

\* No core sleeps with a distant timer while an unpinned thread waits to run:
\* its own timer is due within a tick or it has been kicked.
THEOREM NoCoreSleeps == ASSUME ~Abandons PROVE TSpec => []NoCoreSleepsThroughWork
<1>1. ClockInv => NoCoreSleepsThroughWork
  <2> SUFFICES ASSUME ClockInv, NEW c \in Cpu, NEW t \in Tid, pc[c] = "run",
                      Eligible(t, c), affinity[t] = NoCpu
               PROVE  Soon(c)
    BY DEF NoCoreSleepsThroughWork
  <2>1. Adopted(c) /\ state[t] = "Runnable"
    BY DEF Adopted, Eligible
  <2> QED
    BY <2>1 DEF ClockInv, TimersInv, Dormant
<1> QED
  BY <1>1, ClockInvariance, PTL

=============================================================================
