-------------------------- MODULE BlockPathProofs --------------------------
(***************************************************************************)
(* Proofs about module BlockPath, for any clients, sectors, values, calls  *)
(* and number of waits: the mutex and the driver's patience, whatever the  *)
(* device does; then, where it never answers after wait() has given up,    *)
(* that a success told to a client is the truth.                           *)
(***************************************************************************)
EXTENDS BlockPath, TLAPS

(***************************************************************************)
(* Types, the mutex, and the driver's patience: whatever the device does.  *)
(***************************************************************************)

Idle == {"recv", "dispatch", "gone"}
AtDevice == {"look", "irq_wait", "ack"}

\* A driver with a request, and a client with one; what the driver waits for.
JobInv ==
    /\ job = NoRequest <=> pc \in {"recv", "gone"}
    /\ pc \in AtDevice => job.call.op \in {"READ", "WRITE"}
    /\ pc \in {"irq_wait", "ack"} => looks < Looks
    /\ \A k \in Clients : at[k] # "idle" => mine[k] \in Request

\* How many more waits an interrupt that is none of this request's can end
\* early: the one already counted, and the one a line that is still asserted
\* raises again before it is acknowledged.
Leftover ==
    CASE pc = "ack"                -> IF fired \/ (line /\ ~masked) THEN 2 ELSE 1
      [] pc = "irq_wait" /\ line   -> 2
      [] pc = "look" /\ line       -> 2
      [] OTHER                     -> IF fired THEN 1 ELSE 0

PatienceInv ==
    /\ pc \in Idle => looks = 0 /\ full = 0
    /\ pc \in AtDevice /\ used = last_used => looks + Leftover <= full + 2

BaseInv == TypeOK /\ JobInv /\ MutexHasAHolder /\ PatienceInv

LEMMA InitBase == Init => BaseInv
<1> SUFFICES ASSUME Init PROVE BaseInv
  OBVIOUS
<1> USE BlockPathAssumption DEF Init
<1>1. TypeOK
  <2>1. Blank \in Values
    BY DEF Blank
  <2>2. hdr \in Header
    BY DEF Header
  <2>3. reqs \in Seq(Request) /\ reps \in Seq(Reply) /\ dev \in Seq(Header)
    OBVIOUS
  <2>4. /\ at \in [Clients -> {"idle", "mutex", "waiting"}]
        /\ mine \in [Clients -> Request \cup {NoRequest}]
        /\ disk \in [Sectors -> Values]
    BY <2>1
  <2>5. /\ next_tag \in 1 .. MaxCalls + 1 /\ job \in Request \cup {NoRequest}
        /\ looks \in 0 .. Looks /\ full \in 0 .. looks
        /\ avail \in Nat /\ last_used \in 0 .. avail
        /\ used \in last_used .. avail /\ used + Len(dev) <= avail
    OBVIOUS
  <2>6. /\ in_flight \in BOOLEAN /\ pc = "recv" /\ status \in BOOLEAN /\ line \in BOOLEAN
        /\ masked \in BOOLEAN /\ fired \in BOOLEAN /\ alive \in BOOLEAN /\ data \in Values
    BY <2>1
  <2> QED
    BY ONLY <2>2, <2>3, <2>4, <2>5, <2>6 DEF TypeOK
<1>2. JobInv /\ MutexHasAHolder /\ PatienceInv
  BY DEF JobInv, MutexHasAHolder, PatienceInv, Idle, AtDevice
<1> QED
  BY <1>1, <1>2 DEF BaseInv

\* A reply carries the tag of the job it answers.
LEMMA ReplyType ==
  ASSUME NEW q \in Request, NEW ok \in BOOLEAN, NEW bytes \in Values \cup {NoData}
  PROVE  [tag |-> q.tag, ok |-> ok, data |-> bytes] \in Reply
  BY DEF Request, Reply

\* What a request asks for.
LEMMA RequestType ==
  ASSUME NEW q \in Request
  PROVE  /\ q.tag \in 1 .. MaxCalls /\ q.call.op \in {"READ", "WRITE", "INFO", "SHUTDOWN"}
         /\ q.call.sector \in Sectors
         /\ q.call.op = "WRITE" => q.call.data \in Values
<1>1. q.tag \in 1 .. MaxCalls /\ q.call \in Call
  BY DEF Request
<1> QED
  BY <1>1, BlockPathAssumption DEF Call

\* A step of a client.
LEMMA ClientBase == ASSUME BaseInv, NEW k \in Clients, Client(k) PROVE BaseInv'
<1> USE DEF clientvars, drivervars, dma, irqvars, devicevars
<1>t. TypeOK /\ JobInv /\ MutexHasAHolder /\ PatienceInv
  BY DEF BaseInv
<1>u. UNCHANGED <<drivervars, dma, irqvars, devicevars>>
  BY DEF Client, Begin, Submit, DropStale, Accept, TimeOut
<1>1. PatienceInv'
  BY <1>u, <1>t DEF PatienceInv, Leftover
<1>2. ASSUME /\ at' \in [Clients -> {"idle", "mutex", "waiting"}]
             /\ mine' \in [Clients -> Request \cup {NoRequest}]
             /\ in_flight' \in BOOLEAN /\ next_tag' \in 1 .. MaxCalls + 1
             /\ reqs' \in Seq(Request) /\ reps' \in Seq(Reply)
      PROVE  TypeOK'
  BY <1>2, <1>u, <1>t DEF TypeOK
<1>3. CASE Begin(k)
  <2>1. PICK call \in Call : mine' = [mine EXCEPT ![k] = [tag |-> next_tag, call |-> call]]
    BY <1>3 DEF Begin
  <2>2. next_tag \in 1 .. MaxCalls /\ next_tag' = next_tag + 1 /\ next_tag' \in 1 .. MaxCalls + 1
    BY <1>3, <1>t, BlockPathAssumption DEF Begin, TypeOK
  <2>3. [tag |-> next_tag, call |-> call] \in Request
    BY <2>2 DEF Request
  <2>4. TypeOK'
    BY <1>2, <1>3, <2>1, <2>2, <2>3, <1>t DEF Begin, TypeOK
  <2>5. JobInv'
    BY <1>3, <1>u, <2>1, <2>3, <1>t DEF Begin, TypeOK, JobInv
  <2>6. MutexHasAHolder'
    BY <1>3, <1>t DEF Begin, TypeOK, MutexHasAHolder
  <2> QED
    BY <1>1, <2>4, <2>5, <2>6 DEF BaseInv
<1>4. CASE Submit(k)
  <2>1. mine[k] \in Request
    BY <1>4, <1>t DEF Submit, JobInv
  <2>2. reqs' \in Seq(Request)
    BY <1>4, <2>1, <1>t DEF Submit, TypeOK
  <2>3. TypeOK'
    BY <1>2, <1>4, <2>2, <1>t DEF Submit, TypeOK
  <2>4. JobInv'
    BY <1>4, <1>u, <1>t DEF Submit, TypeOK, JobInv
  <2>5. MutexHasAHolder'
    BY <1>4, <1>t DEF Submit, MutexFree, TypeOK, MutexHasAHolder
  <2> QED
    BY <1>1, <2>3, <2>4, <2>5 DEF BaseInv
<1>5. CASE DropStale(k)
  <2>1. reps' \in Seq(Reply) /\ UNCHANGED <<clientvars, reqs>>
    BY <1>5, <1>t DEF DropStale, TypeOK
  <2>2. TypeOK'
    BY <1>2, <2>1, <1>t DEF TypeOK
  <2>3. JobInv' /\ MutexHasAHolder'
    BY <2>1, <1>u, <1>t DEF JobInv, MutexHasAHolder
  <2> QED
    BY <1>1, <2>2, <2>3 DEF BaseInv
<1>6. CASE Accept(k) \/ TimeOut(k)
  <2>1. /\ at' = [at EXCEPT ![k] = "idle"] /\ mine' = [mine EXCEPT ![k] = NoRequest]
        /\ in_flight' = FALSE /\ UNCHANGED <<next_tag, reqs>> /\ at[k] = "waiting"
    BY <1>6 DEF Accept, TimeOut, Return, Released
  <2>2. reps' \in Seq(Reply)
    <3>1. reps \in Seq(Reply) /\ (reps' = reps \/ (reps # << >> /\ reps' = Tail(reps)))
      BY <1>6, <1>t DEF Accept, TimeOut, TypeOK
    <3> QED
      BY <3>1
  <2>3. TypeOK'
    BY <1>2, <2>1, <2>2, <1>t DEF TypeOK
  <2>4. JobInv'
    BY <2>1, <1>u, <1>t DEF TypeOK, JobInv
  <2>5. MutexHasAHolder'
    BY <2>1, <1>t DEF TypeOK, MutexHasAHolder
  <2> QED
    BY <1>1, <2>3, <2>4, <2>5 DEF BaseInv
<1> QED
  BY <1>3, <1>4, <1>5, <1>6 DEF Client

\* A step of the driver process.
LEMMA DriverBase == ASSUME BaseInv, Driver PROVE BaseInv'
<1> USE DEF clientvars, drivervars, dma, irqvars, devicevars
<1>t. TypeOK /\ JobInv /\ MutexHasAHolder /\ PatienceInv
  BY DEF BaseInv
<1>u. UNCHANGED <<clientvars, devicevars>>
  BY DEF Driver, Receive, AnswerAtOnce, Notify, Completed, GiveUp, IrqWait, IrqSeen,
         IrqTimesOut, IrqAck
<1>1. MutexHasAHolder'
  BY <1>u, <1>t DEF MutexHasAHolder
<1>n. /\ looks \in Nat /\ full \in Nat /\ full <= looks /\ looks <= Looks /\ Looks \in Nat
      /\ avail \in Nat /\ last_used \in Nat /\ used \in Nat /\ last_used <= used /\ used <= avail
      /\ Len(dev) \in Nat /\ used + Len(dev) <= avail
  BY <1>t, BlockPathAssumption DEF TypeOK
<1>2. CASE Receive
  <2>1. job' \in Request /\ reqs' \in Seq(Request)
    BY <1>2, <1>t DEF Receive, TypeOK
  <2>2. TypeOK'
    BY <1>2, <1>t, <2>1 DEF Receive, TypeOK
  <2>3. JobInv'
    BY <1>2, <1>t, <2>1, BlockPathAssumption DEF Receive, JobInv, AtDevice
  <2>4. PatienceInv'
    BY <1>2, <1>t DEF Receive, PatienceInv, Leftover, Idle, AtDevice
  <2> QED
    BY <1>1, <2>2, <2>3, <2>4 DEF BaseInv
<1>r. ASSUME NEW ok \in BOOLEAN, NEW bytes \in Values \cup {NoData}, Respond(ok, bytes),
             job # NoRequest, pc' \in {"recv", "gone"},
             UNCHANGED <<reqs, avail, dma, irqvars>>, last_used' \in {last_used, used}
      PROVE  BaseInv'
  <2>1. job \in Request
    BY <1>r, <1>t DEF TypeOK
  <2>2. reps' \in Seq(Reply)
    <3>1. [tag |-> job.tag, ok |-> ok, data |-> bytes] \in Reply
      BY <2>1, ReplyType
    <3> QED
      BY <3>1, <1>r, <1>t DEF Respond, TypeOK
  <2>3. job' = NoRequest /\ looks' = 0 /\ full' = 0
    BY <1>r DEF Respond
  <2>4. TypeOK'
    BY <1>r, <1>t, <1>u, <1>n, <2>2, <2>3 DEF TypeOK
  <2>5. JobInv'
    BY <1>r, <1>t, <1>u, <2>3 DEF JobInv, AtDevice
  <2>6. PatienceInv'
    BY <1>r, <2>3 DEF PatienceInv, Idle, AtDevice
  <2> QED
    BY <1>1, <2>4, <2>5, <2>6 DEF BaseInv
<1>3. CASE Notify
  <2>1. job \in Request /\ job.call.op \in {"READ", "WRITE"} /\ pc = "dispatch"
    BY <1>3, <1>t DEF Notify, JobInv, TypeOK
  <2>2. hdr' \in Header /\ data' \in Values
    BY <1>3, <1>t, <2>1, RequestType DEF Notify, Header, TypeOK
  <2>3. TypeOK'
    <3>1. /\ avail' \in Nat /\ last_used' \in 0 .. avail' /\ used' \in last_used' .. avail'
          /\ used' + Len(dev') <= avail'
      BY <1>3, <1>u, <1>n DEF Notify
    <3>2. /\ UNCHANGED <<reqs, reps, job, looks, full, irqvars>> /\ pc' = "look" /\ status' = FALSE
      BY <1>3 DEF Notify
    <3> QED
      BY <1>t, <1>u, <2>2, <3>1, <3>2 DEF TypeOK
  <2>4. JobInv'
    BY <1>3, <1>t, <1>u, <2>1, BlockPathAssumption DEF Notify, JobInv, AtDevice
  <2>5. PatienceInv'
    BY <1>3, <1>t, <1>n DEF Notify, PatienceInv, Leftover, Idle, AtDevice
  <2> QED
    BY <1>1, <2>3, <2>4, <2>5 DEF BaseInv
<1>4. CASE AnswerAtOnce
  <2>1. /\ Respond(TRUE, NoData) /\ pc = "dispatch" /\ pc' \in {"recv", "gone"}
        /\ UNCHANGED <<reqs, avail, last_used, dma, irqvars>> /\ job # NoRequest
    BY <1>4, <1>t DEF AnswerAtOnce, JobInv
  <2> QED
    BY <2>1, <1>r
<1>5. CASE Completed
  <2> DEFINE bytes == IF status /\ job.call.op = "READ" THEN data ELSE NoData
  <2>1. bytes \in Values \cup {NoData} /\ status \in BOOLEAN
    BY <1>t DEF TypeOK
  <2>2. /\ Respond(status, bytes) /\ pc' = "recv" /\ last_used' = used
        /\ UNCHANGED <<reqs, avail, dma, irqvars>> /\ job # NoRequest
    BY <1>5, <1>t DEF Completed, JobInv
  <2> HIDE DEF bytes
  <2> QED
    BY <2>1, <2>2, <1>r
<1>6. CASE GiveUp
  <2>1. /\ Respond(FALSE, NoData) /\ pc' = "recv" /\ last_used' = used
        /\ UNCHANGED <<reqs, avail, dma, irqvars>> /\ job # NoRequest
    BY <1>6, <1>t DEF GiveUp, JobInv
  <2> QED
    BY <2>1, <1>r
<1>7. CASE IrqWait \/ IrqSeen \/ IrqTimesOut \/ IrqAck
  <2>1. /\ UNCHANGED <<reqs, reps, job, avail, last_used, dma>>
        /\ pc \in AtDevice /\ pc' \in AtDevice /\ looks' \in 0 .. Looks /\ full' \in 0 .. looks'
        /\ masked' \in BOOLEAN /\ fired' \in BOOLEAN /\ line' \in BOOLEAN
        /\ pc' \in {"irq_wait", "ack"} => looks' < Looks
    <3>1. CASE IrqWait
      BY <3>1, <1>t, <1>n DEF IrqWait, WaitsAgain, AtDevice, TypeOK
    <3>2. CASE IrqSeen
      BY <3>2, <1>t, <1>n DEF IrqSeen, AtDevice, TypeOK, JobInv
    <3>3. CASE IrqTimesOut
      BY <3>3, <1>t, <1>n DEF IrqTimesOut, AtDevice, TypeOK, JobInv
    <3>4. CASE IrqAck
      <4>1. /\ looks' = looks + 1 /\ full' = full /\ pc = "ack" /\ pc' = "look" /\ line' = FALSE
            /\ UNCHANGED <<reqs, reps, job, avail, last_used, dma, masked, fired>>
        BY <3>4 DEF IrqAck, Quieted
      <4>2. looks < Looks /\ masked \in BOOLEAN /\ fired \in BOOLEAN
        BY <1>t, <4>1 DEF JobInv, TypeOK
      <4>3. looks' \in 0 .. Looks /\ full' \in 0 .. looks'
        BY <4>1, <4>2, <1>n
      <4> QED
        BY <4>1, <4>2, <4>3 DEF AtDevice
    <3> QED
      BY <1>7, <3>1, <3>2, <3>3, <3>4
  <2>2. TypeOK'
    BY <2>1, <1>t, <1>u DEF TypeOK, AtDevice
  <2>3. JobInv'
    BY <2>1, <1>t, <1>u DEF JobInv, AtDevice
  <2>4. PatienceInv'
    <3>1. CASE IrqWait
      BY <3>1, <1>t, <1>n, <1>u DEF IrqWait, PatienceInv, Leftover, Idle, AtDevice
    <3>2. CASE IrqSeen
      BY <3>2, <1>t, <1>n, <1>u DEF IrqSeen, PatienceInv, Leftover, Idle, AtDevice
    <3>3. CASE IrqTimesOut
      BY <3>3, <1>t, <1>n, <1>u DEF IrqTimesOut, PatienceInv, Leftover, Idle, AtDevice
    <3>4. CASE IrqAck
      BY <3>4, <1>t, <1>n, <1>u DEF IrqAck, Quieted, PatienceInv, Leftover, Idle, AtDevice
    <3> QED
      BY <1>7, <3>1, <3>2, <3>3, <3>4
  <2> QED
    BY <1>1, <2>2, <2>3, <2>4 DEF BaseInv
<1> QED
  BY <1>2, <1>3, <1>4, <1>5, <1>6, <1>7, <1>r, <1>t DEF Driver

\* A step of the device or its interrupt line.
LEMMA DeviceBase == ASSUME BaseInv, Device PROVE BaseInv'
<1> USE DEF clientvars, drivervars, dma, irqvars, devicevars
<1>t. TypeOK /\ JobInv /\ MutexHasAHolder /\ PatienceInv
  BY DEF BaseInv
<1>u. UNCHANGED <<clientvars, reqs, reps, drivervars>>
  BY DEF Device, IrqFires, Fetch, Die, Finish
<1>1. MutexHasAHolder' /\ JobInv'
  BY <1>u, <1>t DEF MutexHasAHolder, JobInv
<1>n. /\ looks \in Nat /\ full \in Nat /\ full <= looks
      /\ avail \in Nat /\ last_used \in Nat /\ used \in Nat /\ last_used <= used /\ used <= avail
      /\ dev \in Seq(Header) /\ Len(dev) \in Nat /\ used + Len(dev) <= avail
  BY <1>t, BlockPathAssumption DEF TypeOK
<1>2. CASE IrqFires \/ Die
  <2>1. UNCHANGED <<dma, line, used, dev, disk>>
    BY <1>2 DEF IrqFires, Die
  <2>2. masked' \in BOOLEAN /\ fired' \in BOOLEAN /\ alive' \in BOOLEAN
    BY <1>2, <1>t DEF IrqFires, Die, TypeOK
  <2>3. TypeOK'
    BY <1>u, <1>t, <2>1, <2>2 DEF TypeOK
  <2>4. PatienceInv'
    BY <1>2, <1>u, <1>t, <1>n DEF IrqFires, Die, PatienceInv, Leftover, AtDevice
  <2> QED
    BY <1>1, <2>3, <2>4 DEF BaseInv
<1>3. CASE Fetch
  <2>1. dev' \in Seq(Header) /\ Len(dev') = Len(dev) + 1 /\ used + Len(dev) < avail
        /\ UNCHANGED <<dma, irqvars, alive, used, disk>>
    BY <1>3, <1>n, <1>t DEF Fetch, TypeOK
  <2>2. TypeOK'
    BY <1>u, <1>t, <1>n, <2>1 DEF TypeOK
  <2>3. PatienceInv'
    BY <1>u, <1>t, <2>1 DEF PatienceInv, Leftover
  <2> QED
    BY <1>1, <2>2, <2>3 DEF BaseInv
<1>4. CASE \E ok \in BOOLEAN : Finish(ok)
  <2>1. PICK ok \in BOOLEAN : Finish(ok)
    BY <1>4
  <2>2. /\ dev # << >> /\ dev' = Tail(dev) /\ status' = ok /\ used' = used + 1 /\ line' = TRUE
        /\ Perform(Head(dev), ok) /\ UNCHANGED <<hdr, masked, fired, alive>>
    BY <2>1 DEF Finish
  <2>3. Head(dev) \in Header /\ dev' \in Seq(Header) /\ Len(dev') = Len(dev) - 1 /\ Len(dev) > 0
    BY <2>2, <1>n
  <2>4. data' \in Values /\ disk' \in [Sectors -> Values]
    <3>1. Head(dev).sector \in Sectors /\ data \in Values /\ disk \in [Sectors -> Values]
      BY <2>3, <1>t DEF Header, TypeOK
    <3> QED
      BY <2>2, <3>1 DEF Perform
  <2>5. TypeOK'
    BY <1>u, <1>t, <1>n, <2>2, <2>3, <2>4 DEF TypeOK
  <2>6. PatienceInv'
    BY <1>u, <1>t, <1>n, <2>2 DEF PatienceInv, Leftover, Idle, AtDevice
  <2> QED
    BY <1>1, <2>5, <2>6 DEF BaseInv
<1> QED
  BY <1>2, <1>3, <1>4 DEF Device

LEMMA NextBase == BaseInv /\ [Next]_vars => BaseInv'
<1> SUFFICES ASSUME BaseInv, [Next]_vars PROVE BaseInv'
  OBVIOUS
<1>1. CASE UNCHANGED vars
  BY <1>1 DEF vars, clientvars, drivervars, dma, irqvars, devicevars, BaseInv, TypeOK, JobInv,
              MutexHasAHolder, PatienceInv, Leftover
<1> QED
  BY <1>1, ClientBase, DriverBase, DeviceBase DEF Next

\* Types, mutex and patience are kept, whatever the device does.
THEOREM BaseInvariance == Spec => []BaseInv
<1> QED
  BY InitBase, NextBase, PTL DEF Spec

\* Every variable of the disk's path keeps its type.
THEOREM TypeCorrect == Spec => []TypeOK
<1>1. BaseInv => TypeOK
  BY DEF BaseInv
<1> QED
  BY BaseInvariance, <1>1, PTL

\* Whatever the driver and the device do, IN_FLIGHT is held exactly as long as
\* one client is in round_trip(): no way out of it leaves the mutex taken.
THEOREM MutexComesBack == Spec => []MutexHasAHolder
<1>1. BaseInv => MutexHasAHolder
  BY DEF BaseInv
<1> QED
  BY BaseInvariance, <1>1, PTL

\* However many waits wait() is given, interrupts left over from earlier
\* requests end at most two of them early.
THEOREM DriverIsPatient == Spec => []PatienceIsSpent
<1>1. BaseInv => PatienceIsSpent
  <2> SUFFICES ASSUME BaseInv, pc = "look", looks = Looks, used = last_used
               PROVE  full >= Looks - 2
    BY DEF PatienceIsSpent
  <2>1. looks + Leftover <= full + 2 /\ full \in Nat /\ Looks \in Nat
    BY BlockPathAssumption DEF BaseInv, TypeOK, PatienceInv, AtDevice
  <2>2. Leftover \in {0, 1, 2}
    BY DEF Leftover
  <2> QED
    BY <2>1, <2>2
<1> QED
  BY BaseInvariance, <1>1, PTL

\* STALE counts late replies only: no client throws away what another one is
\* waiting for, for only one waits at a time.
THEOREM DroppedRepliesAreLate == Spec => OnlyLateRepliesAreDropped
<1> DEFINE A == \A k, l \in Clients :
                  DropStale(k) => ~(at[l] = "waiting" /\ mine[l].tag = Head(reps).tag)
<1>1. BaseInv => A
  BY DEF BaseInv, MutexHasAHolder, DropStale, Answers
<1>2. BaseInv /\ [Next]_vars => [A]_vars
  BY <1>1
<1> QED
  BY BaseInvariance, <1>2, PTL DEF Spec, OnlyLateRepliesAreDropped

-----------------------------------------------------------------------------
(***************************************************************************)
(* Whose reply is whose.                                                   *)
(***************************************************************************)
Untagged(n, s) == \A i \in 1 .. Len(s) : s[i].tag # n

\* Nothing with tag n is on its way to the driver, with it, or on its way back.
NotUnderWay(n) == /\ Untagged(n, reqs) /\ Untagged(n, reps)
                  /\ job # NoRequest => job.tag # n

\* What a reply that reports success says of the disk.
Holds(call, ok, bytes) ==
    ok => /\ call.op = "READ" => bytes = disk[call.sector]
          /\ call.op = "WRITE" => disk[call.sector] = call.data

\* The tags: each taken once, from below the next.
TagsInv ==
    /\ \A n \in Int : n >= next_tag => NotUnderWay(n)
    /\ \A k \in Clients :
        /\ at[k] # "idle" => mine[k].tag < next_tag
        /\ at[k] = "mutex" => NotUnderWay(mine[k].tag)
        /\ \A l \in Clients : at[k] # "idle" /\ at[l] # "idle" /\ k # l
                              => mine[k].tag # mine[l].tag

\* Whatever the waiting client finds before its own request is older.  When
\* its reply is there nothing comes after it, and the reply is still true.
IsLast(q) ==
    LET n == q.tag IN
    /\ reqs # << >> =>
         /\ reqs[Len(reqs)] = q /\ \A i \in 1 .. Len(reqs) - 1 : reqs[i].tag # n
         /\ Untagged(n, reps)
         /\ job # NoRequest => job.tag # n
    /\ reqs = << >> /\ job # NoRequest => job = q /\ Untagged(n, reps)
    /\ reqs = << >> /\ job = NoRequest =>
         /\ \A i \in 1 .. Len(reps) - 1 : reps[i].tag # n
         /\ reps # << >> /\ reps[Len(reps)].tag = n =>
              Holds(q.call, reps[Len(reps)].ok, reps[Len(reps)].data)

WaiterInv == \A k \in Clients : at[k] = "waiting" => IsLast(mine[k])

\* One request at the device, whose bytes are those of the driver's job; what
\* the device has done of it is what the job asks for.
DeviceInv ==
    /\ pc \in Idle => used = last_used /\ (alive => avail = last_used)
    /\ pc \in AtDevice /\ alive => avail = last_used + 1
    /\ pc \in AtDevice /\ alive /\ used = last_used =>
         /\ hdr = [op |-> job.call.op, sector |-> job.call.sector]
         /\ job.call.op = "WRITE" => data = job.call.data
         /\ \A i \in 1 .. Len(dev) : dev[i] = hdr
    /\ used # last_used => used = last_used + 1 /\ Holds(job.call, status, data)

TruthInv == TagsInv /\ WaiterInv /\ DeviceInv

LEMMA InitTruth == Init => TruthInv
<1> SUFFICES ASSUME Init PROVE TruthInv
  OBVIOUS
<1> USE DEF Init
<1>1. TagsInv
  BY DEF TagsInv, NotUnderWay, Untagged
<1>2. WaiterInv /\ DeviceInv
  BY DEF WaiterInv, DeviceInv, Idle, AtDevice
<1> QED
  BY <1>1, <1>2 DEF TruthInv

\* The two ends of a channel.
LEMMA AppendTags ==
  ASSUME NEW S, NEW s \in Seq(S), NEW x \in S, NEW n
  PROVE  /\ Untagged(n, Append(s, x)) <=> Untagged(n, s) /\ x.tag # n
         /\ Append(s, x) # << >> /\ Append(s, x)[Len(Append(s, x))] = x
         /\ \A i \in 1 .. Len(Append(s, x)) - 1 : i \in 1 .. Len(s) /\ Append(s, x)[i] = s[i]
<1>1. /\ Len(Append(s, x)) = Len(s) + 1 /\ Len(s) \in Nat
      /\ \A i \in 1 .. Len(s) : Append(s, x)[i] = s[i]
      /\ Append(s, x)[Len(s) + 1] = x
  OBVIOUS
<1> DEFINE t == Append(s, x)
<1> HIDE DEF t
<1>2. t # << >>
  <2>1. Len(t) = Len(s) + 1 /\ Len(s) \in Nat
    BY <1>1 DEF t
  <2>2. Len(t) # 0
    BY <2>1
  <2> QED
    BY <2>2
<1>3. Untagged(n, t) <=> Untagged(n, s) /\ x.tag # n
  BY <1>1 DEF Untagged, t
<1> QED
  BY <1>1, <1>2, <1>3 DEF t

LEMMA TailTags ==
  ASSUME NEW S, NEW s \in Seq(S), s # << >>, NEW n
  PROVE  /\ Untagged(n, s) <=> Untagged(n, Tail(s)) /\ Head(s).tag # n
         /\ Len(Tail(s)) = Len(s) - 1 /\ Len(s) \in Nat \ {0} /\ Tail(s) \in Seq(S)
         /\ Head(s) = s[1] /\ \A i \in 1 .. Len(Tail(s)) : Tail(s)[i] = s[i + 1]
         /\ Tail(s) = << >> <=> Len(s) = 1
<1>1. /\ Len(Tail(s)) = Len(s) - 1 /\ Len(s) \in Nat \ {0} /\ Tail(s) \in Seq(S)
      /\ Head(s) = s[1] /\ \A i \in 1 .. Len(Tail(s)) : Tail(s)[i] = s[i + 1]
      /\ Tail(s) = << >> <=> Len(s) = 1
  <2>1. /\ Len(Tail(s)) = Len(s) - 1 /\ Len(s) \in Nat \ {0} /\ Tail(s) \in Seq(S)
    OBVIOUS
  <2>2. Head(s) = s[1] /\ \A i \in 1 .. Len(Tail(s)) : Tail(s)[i] = s[i + 1]
    OBVIOUS
  <2>3. \A u \in Seq(S) : u = << >> <=> Len(u) = 0
    OBVIOUS
  <2> QED
    BY <2>1, <2>2, <2>3
<1> DEFINE t == Tail(s)
<1> HIDE DEF t
<1>2. Untagged(n, s) <=> Untagged(n, t) /\ Head(s).tag # n
  <2>1. ASSUME Untagged(n, t), Head(s).tag # n, NEW i \in 1 .. Len(s) PROVE s[i].tag # n
    <3>1. CASE i = 1
      BY <2>1, <3>1, <1>1
    <3>2. CASE i # 1
      <4>1. i - 1 \in 1 .. Len(t) /\ t[i - 1] = s[i]
        BY <3>2, <1>1 DEF t
      <4> QED
        BY <4>1, <2>1 DEF Untagged
    <3> QED
      BY <3>1, <3>2
  <2>2. ASSUME Untagged(n, s) PROVE Head(s).tag # n
    BY <2>2, <1>1 DEF Untagged
  <2>3. ASSUME Untagged(n, s), NEW i \in 1 .. Len(t) PROVE t[i].tag # n
    <3>1. i + 1 \in 1 .. Len(s) /\ t[i] = s[i + 1]
      BY <1>1 DEF t
    <3> QED
      BY <3>1, <2>3 DEF Untagged
  <2> QED
    BY <2>1, <2>2, <2>3 DEF Untagged
<1> QED
  BY <1>1, <1>2 DEF t

\* A client takes a tag, hands its request over, and takes replies away.
LEMMA ClientTruth ==
  ASSUME BaseInv, TruthInv, NEW k \in Clients, Client(k)
  PROVE  TruthInv'
<1> USE DEF clientvars, drivervars, dma, irqvars, devicevars
<1>t. TypeOK /\ JobInv /\ MutexHasAHolder /\ TagsInv /\ WaiterInv /\ DeviceInv
  BY DEF BaseInv, TruthInv
<1>u. UNCHANGED <<drivervars, dma, irqvars, devicevars>>
  BY DEF Client, Begin, Submit, DropStale, Accept, TimeOut
<1>1. DeviceInv'
  BY <1>u, <1>t DEF DeviceInv, Holds
<1>r. /\ at \in [Clients -> {"idle", "mutex", "waiting"}]
      /\ mine \in [Clients -> Request \cup {NoRequest}]
      /\ reqs \in Seq(Request) /\ reps \in Seq(Reply) /\ next_tag \in Nat
  BY <1>t DEF TypeOK
<1>2. CASE Begin(k)
  <2>1. PICK call \in Call : mine' = [mine EXCEPT ![k] = [tag |-> next_tag, call |-> call]]
    BY <1>2 DEF Begin
  <2>2. /\ at[k] = "idle" /\ at' = [at EXCEPT ![k] = "mutex"] /\ next_tag' = next_tag + 1
        /\ UNCHANGED <<reqs, reps, in_flight>>
    BY <1>2 DEF Begin
  <2>3. /\ mine'[k].tag = next_tag /\ \A l \in Clients : l # k => mine'[l] = mine[l] /\ at'[l] = at[l]
        /\ at'[k] = "mutex"
    BY <2>1, <2>2, <1>r
  <2>4. \A n : NotUnderWay(n)' <=> NotUnderWay(n)
    BY <2>2, <1>u DEF NotUnderWay, Untagged
  <2>5. NotUnderWay(next_tag)
    BY <1>t, <1>r DEF TagsInv
  <2>6. TagsInv'
    <3>1. \A n \in Int : n >= next_tag' => NotUnderWay(n)'
      BY <2>2, <2>4, <1>t, <1>r DEF TagsInv
    <3>2. ASSUME NEW l \in Clients
          PROVE  /\ at'[l] # "idle" => mine'[l].tag < next_tag'
                 /\ at'[l] = "mutex" => NotUnderWay(mine[l].tag)'
      <4>1. CASE l = k
        BY <4>1, <2>2, <2>3, <2>4, <2>5, <1>r
      <4>2. CASE l # k
        <5>1. mine[l].tag \in Int \/ at[l] = "idle"
          BY <1>t, RequestType DEF JobInv
        <5> QED
          BY <4>2, <5>1, <2>2, <2>3, <2>4, <1>t, <1>r DEF TagsInv
      <4> QED
        BY <4>1, <4>2
    <3>3. ASSUME NEW l \in Clients, NEW m \in Clients, at'[l] # "idle", at'[m] # "idle", l # m
          PROVE  mine'[l].tag # mine'[m].tag
      <4>1. \A j \in Clients : at[j] # "idle" => mine[j].tag # next_tag
        <5> SUFFICES ASSUME NEW j \in Clients, at[j] # "idle", mine[j].tag = next_tag PROVE FALSE
          OBVIOUS
        <5>1. mine[j].tag < next_tag
          BY <1>t DEF TagsInv
        <5> QED
          BY <5>1, <1>r
      <4> QED
        BY <3>3, <4>1, <2>3, <1>t DEF TagsInv
    <3> QED
      BY <3>1, <3>2, <3>3 DEF TagsInv
  <2>7. WaiterInv'
    <3> SUFFICES ASSUME NEW l \in Clients, at'[l] = "waiting" PROVE IsLast(mine[l])'
      BY DEF WaiterInv
    <3>1. l # k /\ mine'[l] = mine[l] /\ at[l] = "waiting"
      BY <2>3
    <3>2. IsLast(mine[l])
      BY <3>1, <1>t DEF WaiterInv
    <3> QED
      BY <3>1, <3>2, <2>2, <1>u DEF IsLast, Holds, Untagged
  <2> QED
    BY <1>1, <2>6, <2>7 DEF TruthInv
<1>3. CASE Submit(k)
  <2>1. /\ at[k] = "mutex" /\ ~in_flight /\ at' = [at EXCEPT ![k] = "waiting"]
        /\ reqs' = Append(reqs, mine[k]) /\ UNCHANGED <<mine, next_tag, reps>>
    BY <1>3 DEF Submit, MutexFree
  <2>2. mine[k] \in Request /\ NotUnderWay(mine[k].tag) /\ mine[k].tag < next_tag
    BY <2>1, <1>t DEF TagsInv, JobInv
  <2>3. \A n : NotUnderWay(n)' <=> NotUnderWay(n) /\ mine[k].tag # n
    <3>1. \A n : Untagged(n, reqs') <=> Untagged(n, reqs) /\ mine[k].tag # n
      BY <2>1, <2>2, <1>r, AppendTags
    <3>2. \A n : Untagged(n, reps)' <=> Untagged(n, reps)
      BY <2>1
    <3>3. job' = job
      BY <1>u
    <3> QED
      BY <3>1, <3>2, <3>3 DEF NotUnderWay
  <2>4. TagsInv'
    <3>1. ASSUME NEW n \in Int, n >= next_tag' PROVE NotUnderWay(n)'
      <4>1. mine[k].tag # n
        BY <3>1, <2>1, <2>2, <1>r
      <4> QED
        BY <3>1, <4>1, <2>1, <2>3, <1>t DEF TagsInv
    <3>2. \A l \in Clients : at'[l] = "mutex" => l # k /\ at[l] = "mutex"
      BY <2>1, <1>r
    <3>3. \A l \in Clients : at'[l] # "idle" => at[l] # "idle"
      BY <2>1, <1>r
    <3>4. \A l \in Clients : at'[l] = "mutex" => NotUnderWay(mine[l].tag)'
      <4> SUFFICES ASSUME NEW l \in Clients, at'[l] = "mutex" PROVE NotUnderWay(mine[l].tag)'
        OBVIOUS
      <4>1. l # k /\ at[l] = "mutex"
        BY <3>2
      <4>2. NotUnderWay(mine[l].tag) /\ mine[k].tag # mine[l].tag
        BY <4>1, <2>1, <1>t DEF TagsInv
      <4> QED
        BY <4>2, <2>1, <2>3
    <3> QED
      BY <3>1, <3>3, <3>4, <2>1, <1>t DEF TagsInv
  <2>5. WaiterInv'
    <3> SUFFICES ASSUME NEW l \in Clients, at'[l] = "waiting" PROVE IsLast(mine[l])'
      BY DEF WaiterInv
    <3>1. l = k
      BY <2>1, <1>t, <1>r DEF MutexHasAHolder
    <3>2. /\ reqs' # << >> /\ reqs'[Len(reqs')] = mine[k]
          /\ \A i \in 1 .. Len(reqs') - 1 : i \in 1 .. Len(reqs) /\ reqs'[i] = reqs[i]
      BY <2>1, <2>2, <1>r, AppendTags
    <3>3. \A i \in 1 .. Len(reqs') - 1 : reqs'[i].tag # mine[k].tag
      BY <3>2, <2>2 DEF NotUnderWay, Untagged
    <3>4. /\ Untagged(mine[k].tag, reps) /\ job # NoRequest => job.tag # mine[k].tag
      BY <2>2 DEF NotUnderWay
    <3>5. Untagged(mine[k].tag, reps)' /\ job' = job /\ mine'[l] = mine[k]
      BY <3>1, <3>4, <2>1, <2>2, <1>u DEF NotUnderWay
    <3>6. /\ mine[l]' = mine[k] /\ Untagged(mine[l].tag, reps)'
          /\ job' # NoRequest => job'.tag # mine[k].tag
      BY <3>1, <3>4, <3>5, <2>1
    <3> QED
      BY <3>2, <3>3, <3>6 DEF IsLast
  <2> QED
    BY <1>1, <2>4, <2>5 DEF TruthInv
<1>4. ASSUME reps # << >>, reps' = Tail(reps), UNCHANGED <<reqs, next_tag>>,
             \A l \in Clients : \/ at'[l] = at[l] /\ mine'[l] = mine[l]
                                \/ at'[l] = "idle",
             \A l \in Clients : at'[l] = "waiting" => Head(reps).tag # mine[l].tag
      PROVE  TruthInv'
  <2>1. \A n : NotUnderWay(n) => NotUnderWay(n)'
    <3>1. \A n : Untagged(n, reps) => Untagged(n, reps')
      BY <1>4, <1>r, TailTags
    <3>2. \A n : Untagged(n, reqs)' <=> Untagged(n, reqs)
      BY <1>4
    <3>3. job' = job
      BY <1>u
    <3> QED
      BY <3>1, <3>2, <3>3 DEF NotUnderWay
  <2>2. TagsInv'
    <3>1. \A l \in Clients : at'[l] # "idle" => at'[l] = at[l] /\ mine'[l] = mine[l]
      BY <1>4
    <3> QED
      BY <1>4, <2>1, <3>1, <1>t DEF TagsInv
  <2>3. WaiterInv'
    <3> SUFFICES ASSUME NEW l \in Clients, at'[l] = "waiting" PROVE IsLast(mine[l])'
      BY DEF WaiterInv
    <3>1. mine'[l] = mine[l] /\ at[l] = "waiting" /\ Head(reps).tag # mine[l].tag
      BY <1>4
    <3>2. IsLast(mine[l])
      BY <3>1, <1>t DEF WaiterInv
    <3> DEFINE n == mine[l].tag
    <3>3. Untagged(n, reps) => Untagged(n, reps')
      BY <1>4, <1>r, TailTags
    <3>4. /\ Len(reps') = Len(reps) - 1 /\ Len(reps) \in Nat \ {0}
          /\ \A i \in 1 .. Len(reps') : reps'[i] = reps[i + 1]
          /\ reps' = << >> <=> Len(reps) = 1
      BY <1>4, <1>r, TailTags
    <3>5. reqs = << >> /\ job = NoRequest =>
            /\ \A i \in 1 .. Len(reps') - 1 : reps'[i].tag # n
            /\ reps' # << >> => reps'[Len(reps')] = reps[Len(reps)]
      <4>1. reqs = << >> /\ job = NoRequest => \A i \in 1 .. Len(reps) - 1 : reps[i].tag # n
        BY <3>2 DEF IsLast
      <4>2. \A i \in 1 .. Len(reps') - 1 : i + 1 \in 1 .. Len(reps) - 1 /\ reps'[i] = reps[i + 1]
        BY <3>4
      <4>3. reps' # << >> => Len(reps') \in 1 .. Len(reps') /\ Len(reps') + 1 = Len(reps)
        BY <3>4
      <4>4. reps' # << >> => reps'[Len(reps')] = reps[Len(reps)]
        BY <3>4, <4>3
      <4> HIDE DEF n
      <4> QED
        BY <4>1, <4>2, <4>4
    <3> QED
      BY <1>4, <3>1, <3>2, <3>3, <3>4, <3>5, <1>u DEF IsLast, Holds
  <2> QED
    BY <1>1, <2>2, <2>3 DEF TruthInv
<1>5. CASE DropStale(k)
  <2>1. /\ reps # << >> /\ reps' = Tail(reps) /\ UNCHANGED <<clientvars, reqs>>
        /\ at[k] = "waiting" /\ Head(reps).tag # mine[k].tag
    BY <1>5 DEF DropStale, Answers
  <2>2. \A l \in Clients : at'[l] = "waiting" => l = k
    BY <2>1, <1>t DEF MutexHasAHolder
  <2> QED
    BY <2>1, <2>2, <1>4
<1>6. CASE Accept(k)
  <2>1. /\ reps # << >> /\ reps' = Tail(reps) /\ UNCHANGED <<next_tag, reqs>>
        /\ at[k] = "waiting" /\ at' = [at EXCEPT ![k] = "idle"]
        /\ mine' = [mine EXCEPT ![k] = NoRequest]
    BY <1>6 DEF Accept, Return
  <2>2. \A l \in Clients : at'[l] # "waiting"
    BY <2>1, <1>t, <1>r DEF MutexHasAHolder
  <2>3. \A l \in Clients : \/ at'[l] = at[l] /\ mine'[l] = mine[l]
                           \/ at'[l] = "idle"
    BY <2>1, <1>r
  <2> QED
    BY <2>1, <2>2, <2>3, <1>4
<1>7. CASE TimeOut(k)
  <2>1. /\ UNCHANGED <<next_tag, reqs, reps>>
        /\ at[k] = "waiting" /\ at' = [at EXCEPT ![k] = "idle"]
        /\ mine' = [mine EXCEPT ![k] = NoRequest]
    BY <1>7 DEF TimeOut, Return
  <2>2. \A l \in Clients : at'[l] # "waiting"
    BY <2>1, <1>t, <1>r DEF MutexHasAHolder
  <2>3. \A l \in Clients : at'[l] # "idle" => at'[l] = at[l] /\ mine'[l] = mine[l]
    BY <2>1, <1>r
  <2>4. \A n : NotUnderWay(n)' <=> NotUnderWay(n)
    BY <2>1, <1>u DEF NotUnderWay, Untagged
  <2>5. TagsInv'
    BY <2>1, <2>3, <2>4, <1>t DEF TagsInv
  <2>6. WaiterInv'
    BY <2>2 DEF WaiterInv
  <2> QED
    BY <1>1, <2>5, <2>6 DEF TruthInv
<1> QED
  BY <1>2, <1>3, <1>5, <1>6, <1>7 DEF Client

\* The driver takes up a request, gives it to the device, waits and answers.
LEMMA DriverTruth ==
  ASSUME ~SlowDevice, BaseInv, TruthInv, Driver
  PROVE  TruthInv'
<1> USE DEF clientvars, drivervars, dma, irqvars, devicevars
<1>t. TypeOK /\ JobInv /\ MutexHasAHolder /\ TagsInv /\ WaiterInv /\ DeviceInv
  BY DEF BaseInv, TruthInv
<1>u. UNCHANGED <<clientvars, devicevars>>
  BY DEF Driver, Receive, AnswerAtOnce, Notify, Completed, GiveUp, IrqWait, IrqSeen,
         IrqTimesOut, IrqAck
<1>r. /\ reqs \in Seq(Request) /\ reps \in Seq(Reply) /\ dev \in Seq(Header) /\ Len(dev) \in Nat
      /\ avail \in Nat /\ last_used \in Nat /\ used \in Nat /\ used + Len(dev) <= avail
  BY <1>t DEF TypeOK
<1>a. ASSUME \A n : NotUnderWay(n) => NotUnderWay(n)'
      PROVE  TagsInv'
  BY <1>a, <1>u, <1>t DEF TagsInv
<1>2. CASE Receive
  <2>1. /\ pc = "recv" /\ pc' = "dispatch" /\ reqs # << >> /\ job = NoRequest
        /\ reqs' = Tail(reqs) /\ job' = Head(reqs)
        /\ UNCHANGED <<reps, avail, last_used, dma>>
    BY <1>2, <1>t DEF Receive, JobInv
  <2>2. /\ \A n : Untagged(n, reqs) <=> Untagged(n, reqs') /\ job'.tag # n
        /\ Len(reqs') = Len(reqs) - 1 /\ Len(reqs) \in Nat \ {0} /\ reqs' \in Seq(Request)
        /\ job' = reqs[1] /\ \A i \in 1 .. Len(reqs') : reqs'[i] = reqs[i + 1]
        /\ reqs' = << >> <=> Len(reqs) = 1
    BY <2>1, <1>r, TailTags
  <2>3. TagsInv'
    <3>1. ASSUME NEW n, NotUnderWay(n) PROVE NotUnderWay(n)'
      <4>1. Untagged(n, reqs') /\ job'.tag # n /\ Untagged(n, reps)
        BY <3>1, <2>2 DEF NotUnderWay
      <4>2. Untagged(n, reqs)' /\ Untagged(n, reps)'
        BY <4>1, <2>1
      <4> QED
        BY <4>1, <4>2 DEF NotUnderWay
    <3> QED
      BY <3>1, <1>a
  <2>4. WaiterInv'
    <3> SUFFICES ASSUME NEW l \in Clients, at'[l] = "waiting" PROVE IsLast(mine[l])'
      BY DEF WaiterInv
    <3> DEFINE q == mine[l]
               n == q.tag
    <3>1. IsLast(q) /\ q' = q
      BY <1>u, <1>t DEF WaiterInv
    <3>2. /\ reqs[Len(reqs)] = q /\ \A i \in 1 .. Len(reqs) - 1 : reqs[i].tag # n
          /\ Untagged(n, reps)
      BY <3>1, <2>1 DEF IsLast
    <3>3. CASE reqs' = << >>
      <4>1. job' = q
        BY <3>2, <3>3, <2>2
      <4>2. Untagged(n, reps)'
        BY <3>1, <3>2, <2>1
      <4>3. job' # NoRequest => job' = q' /\ Untagged(n, reps)'
        BY <4>1, <4>2, <3>1
      <4>4. job' # NoRequest
        BY <2>2, <1>r, BlockPathAssumption, <2>1
      <4> HIDE DEF q
      <4> QED
        BY <4>3, <4>4, <3>3 DEF IsLast, q
    <3>4. CASE reqs' # << >>
      <4>1. Len(reqs') \in 1 .. Len(reqs') /\ Len(reqs') + 1 = Len(reqs) /\ 1 \in 1 .. Len(reqs) - 1
        BY <3>4, <2>2
      <4>2. reqs'[Len(reqs')] = q /\ job'.tag # n
        BY <4>1, <2>2, <3>2
      <4>3. \A i \in 1 .. Len(reqs') - 1 : i + 1 \in 1 .. Len(reqs) - 1 /\ reqs'[i] = reqs[i + 1]
        BY <2>2
      <4>4. \A i \in 1 .. Len(reqs') - 1 : reqs'[i].tag # n
        BY <4>3, <3>2
      <4>5. Untagged(n, reps)'
        BY <3>1, <3>2, <2>1
      <4> QED
        BY <4>2, <4>4, <4>5, <3>1, <3>4 DEF IsLast
    <3> QED
      BY <3>3, <3>4
  <2>5. DeviceInv'
    BY <2>1, <1>u, <1>t DEF DeviceInv, Idle, AtDevice
  <2> QED
    BY <2>3, <2>4, <2>5 DEF TruthInv
<1>b. ASSUME NEW ok, NEW bytes, Respond(ok, bytes), job # NoRequest, Holds(job.call, ok, bytes),
             ok \in BOOLEAN, bytes \in Values \cup {NoData}, UNCHANGED reqs
      PROVE  TagsInv' /\ WaiterInv'
  <2> DEFINE r == [tag |-> job.tag, ok |-> ok, data |-> bytes]
  <2>1. reps' = Append(reps, r) /\ job' = NoRequest
    BY <1>b DEF Respond
  <2>2. r \in Reply /\ r.tag = job.tag /\ r.ok = ok /\ r.data = bytes
    BY <1>b, <1>t, ReplyType DEF TypeOK
  <2> HIDE DEF r
  <2>3. /\ \A n : Untagged(n, reps') <=> Untagged(n, reps) /\ job.tag # n
        /\ reps' # << >> /\ reps'[Len(reps')] = r
        /\ \A i \in 1 .. Len(reps') - 1 : i \in 1 .. Len(reps) /\ reps'[i] = reps[i]
    <3> DEFINE t == Append(reps, r)
    <3>1. /\ \A n : Untagged(n, t) <=> Untagged(n, reps) /\ r.tag # n
          /\ t # << >> /\ t[Len(t)] = r
          /\ \A i \in 1 .. Len(t) - 1 : i \in 1 .. Len(reps) /\ t[i] = reps[i]
      BY <2>2, <1>r, AppendTags
    <3>2. reps' = t
      BY <2>1
    <3> HIDE DEF t
    <3> QED
      BY <3>1, <3>2, <2>2
  <2>4. TagsInv'
    <3>1. ASSUME NEW n, NotUnderWay(n) PROVE NotUnderWay(n)'
      <4>1. Untagged(n, reps') /\ Untagged(n, reqs)
        BY <3>1, <1>b, <2>3 DEF NotUnderWay
      <4>2. Untagged(n, reps)' /\ Untagged(n, reqs)'
        BY <4>1, <1>b
      <4> QED
        BY <4>2, <2>1 DEF NotUnderWay
    <3> QED
      BY <3>1, <1>a
  <2>5. WaiterInv'
    <3> SUFFICES ASSUME NEW l \in Clients, at'[l] = "waiting" PROVE IsLast(mine[l])'
      BY DEF WaiterInv
    <3> DEFINE q == mine[l]
               n == q.tag
    <3>1. IsLast(q) /\ q' = q
      BY <1>u, <1>t DEF WaiterInv
    <3>2. CASE reqs # << >>
      <4>1. /\ reqs[Len(reqs)] = q /\ \A i \in 1 .. Len(reqs) - 1 : reqs[i].tag # n
            /\ Untagged(n, reps) /\ job.tag # n
        BY <3>1, <3>2, <1>b DEF IsLast
      <4>2. Untagged(n, reps')
        BY <4>1, <2>3
      <4>3. Untagged(n, reps)'
        BY <4>2, <3>1
      <4>4. reqs' = reqs /\ job' = NoRequest
        BY <1>b, <2>1
      <4> QED
        BY <4>1, <4>3, <4>4, <3>1, <3>2 DEF IsLast
    <3>3. CASE reqs = << >>
      <4>1. job = q /\ Untagged(n, reps)
        BY <3>1, <3>3, <1>b DEF IsLast
      <4>2. \A i \in 1 .. Len(reps') - 1 : reps'[i].tag # n
        BY <4>1, <2>3 DEF Untagged
      <4>3. Holds(q.call, reps'[Len(reps')].ok, reps'[Len(reps')].data)
        BY <4>1, <2>2, <2>3, <1>b
      <4>4. Holds(q.call, reps[Len(reps)].ok, reps[Len(reps)].data)'
        BY <4>3, <3>1, <1>u DEF Holds
      <4>5. reqs' = << >> /\ job' = NoRequest
        BY <1>b, <2>1, <3>3
      <4> QED
        BY <4>2, <4>4, <4>5, <3>1 DEF IsLast
    <3> QED
      BY <3>2, <3>3
  <2> QED
    BY <2>4, <2>5
<1>3. CASE AnswerAtOnce
  <2>1. /\ Respond(TRUE, NoData) /\ pc = "dispatch" /\ pc' \in {"recv", "gone"}
        /\ UNCHANGED <<reqs, avail, last_used, dma>> /\ job # NoRequest
        /\ job.call.op \in {"INFO", "SHUTDOWN"}
    BY <1>3, <1>t DEF AnswerAtOnce, JobInv
  <2>2. Holds(job.call, TRUE, NoData)
    BY <2>1 DEF Holds
  <2>3. TagsInv' /\ WaiterInv'
    BY <2>1, <2>2, <1>b
  <2>4. DeviceInv'
    BY <2>1, <1>u, <1>t DEF DeviceInv, Idle, AtDevice
  <2> QED
    BY <2>3, <2>4 DEF TruthInv
<1>4. CASE Completed
  <2> DEFINE bytes == IF status /\ job.call.op = "READ" THEN data ELSE NoData
  <2>1. /\ Respond(status, bytes) /\ pc = "look" /\ pc' = "recv" /\ last_used' = used
        /\ used # last_used /\ UNCHANGED <<reqs, avail, dma>> /\ job # NoRequest
    BY <1>4, <1>t DEF Completed, JobInv
  <2>2. bytes \in Values \cup {NoData} /\ status \in BOOLEAN
    BY <1>t DEF TypeOK
  <2>3. Holds(job.call, status, bytes)
    BY <2>1, <1>t DEF DeviceInv, Holds
  <2> HIDE DEF bytes
  <2>4. TagsInv' /\ WaiterInv'
    BY <2>1, <2>2, <2>3, <1>b
  <2>5. DeviceInv'
    <3>1. used = last_used + 1 /\ (alive => avail = last_used + 1)
      BY <2>1, <1>t DEF DeviceInv, AtDevice
    <3> QED
      BY <2>1, <3>1, <1>u DEF DeviceInv, Idle, AtDevice
  <2> QED
    BY <2>4, <2>5 DEF TruthInv
<1>5. CASE GiveUp
  <2>1. /\ Respond(FALSE, NoData) /\ pc = "look" /\ pc' = "recv" /\ used = last_used /\ ~alive
        /\ UNCHANGED <<reqs, avail, last_used, dma>> /\ job # NoRequest
    BY <1>5, <1>t DEF GiveUp, JobInv
  <2>2. Holds(job.call, FALSE, NoData)
    BY DEF Holds
  <2>3. TagsInv' /\ WaiterInv'
    BY <2>1, <2>2, <1>b
  <2>4. DeviceInv'
    BY <2>1, <1>u DEF DeviceInv, Idle, AtDevice
  <2> QED
    BY <2>3, <2>4 DEF TruthInv
<1>c. ASSUME UNCHANGED <<reqs, reps, job>> PROVE TagsInv' /\ WaiterInv'
  BY <1>c, <1>u, <1>t DEF TagsInv, NotUnderWay, Untagged, WaiterInv, IsLast, Holds
<1>6. CASE Notify
  <2>1. /\ pc = "dispatch" /\ pc' = "look" /\ UNCHANGED <<reqs, reps, job, last_used>>
        /\ hdr' = [op |-> job.call.op, sector |-> job.call.sector]
        /\ data' = IF job.call.op = "WRITE" THEN job.call.data ELSE data
        /\ avail' = avail + 1
    BY <1>6 DEF Notify
  <2>2. used = last_used /\ (alive => avail = last_used /\ Len(dev) = 0)
    BY <2>1, <1>t, <1>r DEF DeviceInv, Idle
  <2>3. DeviceInv'
    BY <2>1, <2>2, <1>u, <1>r DEF DeviceInv, Idle, AtDevice
  <2> QED
    BY <1>c, <2>1, <2>3 DEF TruthInv
<1>7. CASE IrqWait \/ IrqSeen \/ IrqTimesOut \/ IrqAck
  <2>1. /\ UNCHANGED <<reqs, reps, job, avail, last_used, dma>>
        /\ pc \in AtDevice /\ pc' \in AtDevice
    BY <1>7 DEF IrqWait, IrqSeen, IrqTimesOut, IrqAck, AtDevice
  <2>2. DeviceInv'
    BY <2>1, <1>u, <1>t DEF DeviceInv, Idle, AtDevice, Holds
  <2> QED
    BY <1>c, <2>1, <2>2 DEF TruthInv
<1> QED
  BY <1>2, <1>3, <1>4, <1>5, <1>6, <1>7 DEF Driver

\* The device takes a request, carries it out, or dies.
LEMMA DeviceTruth ==
  ASSUME BaseInv, TruthInv, Device
  PROVE  TruthInv'
<1> USE DEF clientvars, drivervars, dma, irqvars, devicevars
<1>t. TypeOK /\ JobInv /\ TagsInv /\ WaiterInv /\ DeviceInv
  BY DEF BaseInv, TruthInv
<1>u. UNCHANGED <<clientvars, reqs, reps, drivervars, hdr>>
  BY DEF Device, IrqFires, Fetch, Die, Finish
<1>n. /\ avail \in Nat /\ last_used \in Nat /\ used \in Nat /\ last_used <= used
      /\ dev \in Seq(Header) /\ Len(dev) \in Nat /\ used + Len(dev) <= avail
      /\ pc \in Idle \cup AtDevice
  BY <1>t DEF TypeOK, Idle, AtDevice
<1>1. TagsInv'
  BY <1>u, <1>t DEF TagsInv, NotUnderWay, Untagged
<1>c. disk' = disk \/ job # NoRequest => WaiterInv'
  <2>1. CASE disk' = disk
    BY <2>1, <1>u, <1>t DEF WaiterInv, IsLast, Untagged, Holds
  <2>2. CASE job # NoRequest
    BY <2>2, <1>u, <1>t DEF WaiterInv, IsLast, Untagged
  <2> QED
    BY <2>1, <2>2
<1>2. CASE IrqFires \/ Die
  <2>1. UNCHANGED <<dma, used, dev, disk>> /\ (alive' => alive)
    BY <1>2 DEF IrqFires, Die
  <2>2. DeviceInv'
    BY <2>1, <1>u, <1>t DEF DeviceInv, Holds
  <2> QED
    BY <1>1, <1>c, <2>1, <2>2 DEF TruthInv
<1>3. CASE Fetch
  <2>1. alive /\ used + Len(dev) < avail /\ dev' = Append(dev, hdr)
        /\ UNCHANGED <<dma, alive, used, disk>>
    BY <1>3 DEF Fetch
  <2>2. hdr \in Header
    BY <1>t DEF TypeOK
  <2>3. \A i \in 1 .. Len(dev') : (i \in 1 .. Len(dev) /\ dev'[i] = dev[i]) \/ dev'[i] = hdr
    BY <2>1, <2>2, <1>n
  <2>4. DeviceInv'
    BY <2>1, <2>3, <1>u, <1>t DEF DeviceInv, Holds
  <2> QED
    BY <1>1, <1>c, <2>1, <2>4 DEF TruthInv
<1>4. CASE \E ok \in BOOLEAN : Finish(ok)
  <2>1. PICK ok \in BOOLEAN : Finish(ok)
    BY <1>4
  <2>2. /\ alive /\ dev # << >> /\ status' = ok /\ used' = used + 1
        /\ Perform(Head(dev), ok) /\ UNCHANGED <<hdr, alive>>
    BY <2>1 DEF Finish
  <2>3. Len(dev) > 0 /\ Head(dev) = dev[1]
    BY <2>2, <1>n
  <2>4. pc \notin Idle
    BY <2>2, <2>3, <1>n, <1>t DEF DeviceInv
  <2>5. pc \in AtDevice /\ avail = last_used + 1 /\ job # NoRequest
    BY <2>2, <2>4, <1>n, <1>t DEF DeviceInv, JobInv, Idle
  <2>6. used = last_used
    BY <2>3, <2>5, <1>n
  <2>7. /\ Head(dev) = [op |-> job.call.op, sector |-> job.call.sector]
        /\ job.call.op = "WRITE" => data = job.call.data
    BY <2>2, <2>3, <2>5, <2>6, <1>n, <1>t DEF DeviceInv
  <2>8. ok => /\ job.call.op = "READ" => data' = disk'[job.call.sector]
              /\ job.call.op = "WRITE" => disk'[job.call.sector] = job.call.data
    <3>1. job.call.sector \in Sectors /\ disk \in [Sectors -> Values]
      BY <2>5, <1>t, RequestType DEF TypeOK
    <3> QED
      BY <3>1, <2>2, <2>7 DEF Perform
  <2>9. Holds(job.call, status, data)'
    BY <2>8, <2>2, <1>u DEF Holds
  <2>10. DeviceInv'
    BY <2>2, <2>4, <2>5, <2>6, <2>9, <1>u, <1>n DEF DeviceInv
  <2> QED
    BY <1>1, <1>c, <2>5, <2>10 DEF TruthInv
<1> QED
  BY <1>2, <1>3, <1>4 DEF Device

LEMMA NextTruth ==
  ASSUME ~SlowDevice
  PROVE  BaseInv /\ TruthInv /\ [Next]_vars => TruthInv'
<1> SUFFICES ASSUME BaseInv, TruthInv, [Next]_vars PROVE TruthInv'
  OBVIOUS
<1>1. CASE UNCHANGED vars
  <2>1. UNCHANGED <<clientvars, reqs, reps, job, disk>>
    BY <1>1 DEF vars, drivervars, devicevars
  <2>2. TagsInv' /\ WaiterInv'
    BY <2>1 DEF clientvars, TruthInv, TagsInv, WaiterInv, IsLast, NotUnderWay, Untagged, Holds
  <2>3. DeviceInv'
    BY <1>1 DEF vars, drivervars, devicevars, dma, TruthInv, DeviceInv, Holds
  <2> QED
    BY <2>2, <2>3 DEF TruthInv
<1> QED
  BY <1>1, ClientTruth, DriverTruth, DeviceTruth DEF Next

\* A call that reports success has read what the sector holds, or left in it
\* what it wrote: where the device never answers after wait() has given up.
THEOREM SuccessesAreTrue ==
  ASSUME ~SlowDevice
  PROVE  Spec => RepliesAreTrue
<1> DEFINE A == \A k \in Clients : Succeeds(k) => True(k, mine[k].call)
<1>1. BaseInv /\ TruthInv /\ [Next]_vars => [A]_vars
  <2> SUFFICES ASSUME BaseInv, TruthInv, [Next]_vars, NEW k \in Clients, Succeeds(k)
               PROVE  True(k, mine[k].call)
    OBVIOUS
  <2>1. at[k] = "waiting" /\ at'[k] = "idle" /\ reps # << >> /\ Head(reps).ok
    BY DEF Succeeds
  <2>2. Accept(k)
    <3>1. at' # at
      BY <2>1
    <3>2. PICK l \in Clients : Client(l)
      BY <3>1 DEF Next, vars, clientvars, Driver, Receive, AnswerAtOnce, Notify, Completed, GiveUp,
                  IrqWait, IrqSeen, IrqTimesOut, IrqAck, Device, IrqFires, Fetch, Die, Finish
    <3>3. at \in [Clients -> {"idle", "mutex", "waiting"}]
      BY DEF BaseInv, TypeOK
    <3> QED
      BY <2>1, <3>2, <3>3 DEF Client, Begin, Submit, DropStale, Accept, TimeOut, Return, clientvars
  <2>3. IsLast(mine[k]) /\ Head(reps).tag = mine[k].tag
    BY <2>1, <2>2 DEF TruthInv, WaiterInv, Accept, Answers
  <2>4. reps \in Seq(Reply) /\ Head(reps) = reps[1] /\ Len(reps) \in Nat \ {0}
    BY <2>1 DEF BaseInv, TypeOK
  <2>5. ~Untagged(mine[k].tag, reps)
    BY <2>3, <2>4 DEF Untagged
  <2>6. reqs = << >> /\ job = NoRequest
    BY <2>3, <2>5 DEF IsLast
  <2>7. \A i \in 1 .. Len(reps) - 1 : reps[i].tag # mine[k].tag
    BY <2>3, <2>6 DEF IsLast
  <2>8. Len(reps) = 1
    <3>1. ~(1 \in 1 .. Len(reps) - 1)
      BY <2>7, <2>3, <2>4
    <3>2. \A m \in Nat \ {0} : m # 1 => 1 \in 1 .. m - 1
      OBVIOUS
    <3> QED
      BY <3>1, <3>2, <2>4, Zenon
  <2>9. Holds(mine[k].call, Head(reps).ok, Head(reps).data)
    BY <2>1, <2>3, <2>4, <2>6, <2>8 DEF IsLast
  <2> QED
    BY <2>1, <2>9 DEF Holds, True
<1>2. BaseInv /\ TruthInv /\ [Next]_vars => (BaseInv /\ TruthInv)'
  BY NextBase, NextTruth
<1> QED
  BY InitBase, InitTruth, <1>1, <1>2, PTL DEF Spec, RepliesAreTrue

==============================================================================
