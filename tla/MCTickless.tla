----------------------------- MODULE MCTickless -----------------------------
(***************************************************************************)
(* Instances of Tickless for TLC.  SteadyInit is a state of a machine that *)
(* is up: kernel_main runs on core 0, every other core is on its idle      *)
(* thread, the rest of the table are user threads kernel_main has just     *)
(* started and kicked the other cores for.  The bring-up that leads here   *)
(* is explored from TInit, in the other run.                               *)
(***************************************************************************)
EXTENDS Tickless

IdleOf(c) == c + 1
Idles == {IdleOf(c) : c \in Cpu}
User == Tid \ (Idles \cup {Boot})

SteadyInit ==
    /\ len = NThreads
    /\ state = [t \in Tid |-> "Runnable"]
    /\ token = [t \in Tid |-> NoToken]
    /\ on_cpu = [t \in Tid |-> IF t = Boot THEN 0
                               ELSE IF t \in Idles \ {IdleOf(0)} THEN t - 1 ELSE NoCpu]
    /\ affinity = [t \in Tid |-> IF t \in Idles THEN t - 1 ELSE NoCpu]
    /\ ttbr0 = [t \in Tid |-> IF t \in User THEN t ELSE NoTid]
    /\ current = [c \in Cpu |-> IF c = 0 THEN Boot ELSE IdleOf(c)]
    /\ idle = [c \in Cpu |-> IdleOf(c)]
    /\ cursor = current
    /\ release_prev = [c \in Cpu |-> NoTid]
    /\ pc = [c \in Cpu |-> "run"]
    /\ sp = current
    /\ saved = {IdleOf(0)} \cup User
    /\ space = [c \in Cpu |-> NoTid]
    /\ tpc = [t \in Tid |-> IF t \in Idles THEN "idle" ELSE "run"]
    /\ late = {}
    /\ starting = NCpu
    /\ timer = [c \in Cpu |-> 1]
    /\ sgi = [c \in Cpu |-> c # 0]
    /\ left = [t \in Tid |-> 0]
    /\ wfi = [c \in Cpu |-> "towfi"]
    /\ tickless = FALSE /\ ipi_ready = TRUE

SteadySpec == SteadyInit /\ [][TNext]_tvars

\* From sched::init on, under the fairness of the hardware.
TLiveSpec == TSpec /\ Fairness
=============================================================================
