----------------------------- MODULE BlockPath -----------------------------
(***************************************************************************)
(* The way to the disk: kernel threads that call read_sector, write_sector *)
(* info and shutdown (kernel/src/blk.rs), the driver process that answers  *)
(* them (user/src/blkdrv.rs), its interrupt (irq.rs, sys_irq_wait), and    *)
(* the virtio device.                                                      *)
(*                                                                         *)
(* Clock ticks are left to choice: a client may time out whenever it finds *)
(* the reply channel empty, for nothing in the code bounds how long the    *)
(* driver process waits for a core.  The device reads a request's header   *)
(* when it takes it off the ring and its data when it carries it out.      *)
(***************************************************************************)
EXTENDS Integers, Sequences

CONSTANTS
    Clients,       \* kernel threads
    Sectors,       \* sector numbers, 0 among them
    Values,        \* what a sector may hold
    NoData,        \* a message without data
    NoRequest,     \* a client or a driver without one
    MaxCalls,      \* bound: calls made (NEXT_TAG)
    Looks,         \* how often wait() waits for an interrupt
    SlowDevice     \* whether the device may answer after wait() has given up

\* [op][sector] and the data of a write, under a tag; [status][tag] and the
\* data of a read.
Call ==
    [op : {"READ"}, sector : Sectors, data : {NoData}]
        \cup [op : {"WRITE"}, sector : Sectors, data : Values]
        \cup [op : {"INFO", "SHUTDOWN"}, sector : {0}, data : {NoData}]
Request == [tag : 1 .. MaxCalls, call : Call]
Reply == [tag : 1 .. MaxCalls, ok : BOOLEAN, data : Values \cup {NoData}]
Header == [op : {"READ", "WRITE"}, sector : Sectors]

ASSUME BlockPathAssumption ==
    /\ MaxCalls \in Nat /\ Looks \in Nat \ {0}
    /\ SlowDevice \in BOOLEAN
    /\ 0 \in Sectors /\ Values # {} /\ NoData \notin Values
    /\ NoRequest \notin Request

Blank == CHOOSE v \in Values : TRUE

VARIABLES
    at,            \* where client k is: out of the way, at the mutex, waiting
    mine,          \* the request of client k
    in_flight,     \* IN_FLIGHT
    next_tag,      \* NEXT_TAG
    reqs, reps,    \* the two channels
    pc,            \* where the driver is
    job,           \* the request it is answering
    looks, full,   \* waits done for it; ghost: those that lasted all 50 ticks
    avail, last_used,
    hdr, data, status, \* the DMA region
    line,          \* the device's INTERRUPT_STATUS
    masked, fired, \* the SPI at the GIC; sequence() is ahead of irq_seen
    alive,         \* the device works
    used, dev,     \* its used index, and what it has taken
    disk

clientvars == <<at, mine, in_flight, next_tag>>
drivervars == <<pc, job, looks, full, avail, last_used>>
dma == <<hdr, data, status>>
irqvars == <<line, masked, fired>>
devicevars == <<alive, used, dev, disk>>
vars == <<clientvars, reqs, reps, drivervars, dma, irqvars, devicevars>>

TypeOK ==
    /\ at \in [Clients -> {"idle", "mutex", "waiting"}]
    /\ mine \in [Clients -> Request \cup {NoRequest}]
    /\ in_flight \in BOOLEAN
    /\ next_tag \in 1 .. MaxCalls + 1
    /\ reqs \in Seq(Request) /\ reps \in Seq(Reply)
    /\ pc \in {"recv", "dispatch", "look", "irq_wait", "ack", "gone"}
    /\ job \in Request \cup {NoRequest}
    /\ looks \in 0 .. Looks /\ full \in 0 .. looks
    /\ avail \in Nat /\ last_used \in 0 .. avail
    /\ hdr \in Header /\ data \in Values /\ status \in BOOLEAN
    /\ line \in BOOLEAN /\ masked \in BOOLEAN /\ fired \in BOOLEAN
    /\ alive \in BOOLEAN
    /\ used \in last_used .. avail
    /\ dev \in Seq(Header) /\ used + Len(dev) <= avail
    /\ disk \in [Sectors -> Values]

\* start_block_driver() has attached the channels and enabled the interrupt.
Init ==
    /\ at = [k \in Clients |-> "idle"]
    /\ mine = [k \in Clients |-> NoRequest]
    /\ in_flight = FALSE /\ next_tag = 1
    /\ reqs = << >> /\ reps = << >>
    /\ pc = "recv" /\ job = NoRequest
    /\ looks = 0 /\ full = 0 /\ avail = 0 /\ last_used = 0
    /\ hdr = [op |-> "READ", sector |-> 0] /\ data = Blank /\ status = FALSE
    /\ line = FALSE /\ masked = FALSE /\ fired = FALSE
    /\ alive = TRUE /\ used = 0 /\ dev = << >>
    /\ disk = [s \in Sectors |-> Blank]

-----------------------------------------------------------------------------
(***************************************************************************)
(* The client.                                                             *)
(***************************************************************************)

\* The tag is taken before the mutex.
Begin(k) ==
    /\ at[k] = "idle" /\ next_tag <= MaxCalls
    /\ \E call \in Call : mine' = [mine EXCEPT ![k] = [tag |-> next_tag, call |-> call]]
    /\ at' = [at EXCEPT ![k] = "mutex"]
    /\ next_tag' = next_tag + 1
    /\ UNCHANGED <<in_flight, reqs, reps, drivervars, dma, irqvars, devicevars>>

\* Mutant of MutexFree: nobody waits.
MutexAlwaysFree == TRUE

\* Outstanding::acquire()
MutexFree == ~in_flight

Submit(k) ==
    /\ at[k] = "mutex" /\ MutexFree
    /\ in_flight' = TRUE
    /\ reqs' = Append(reqs, mine[k])
    /\ at' = [at EXCEPT ![k] = "waiting"]
    /\ UNCHANGED <<mine, next_tag, reps, drivervars, dma, irqvars, devicevars>>

\* Mutant of Answers: the first reply there is.
AnswersAnything(k, rep) == TRUE

Answers(k, rep) == rep.tag = mine[k].tag

\* A reply to a request already given up on is dropped.
DropStale(k) ==
    /\ at[k] = "waiting" /\ reps # << >>
    /\ ~Answers(k, Head(reps))
    /\ reps' = Tail(reps)
    /\ UNCHANGED <<clientvars, reqs, drivervars, dma, irqvars, devicevars>>

Return(k) == at' = [at EXCEPT ![k] = "idle"] /\ mine' = [mine EXCEPT ![k] = NoRequest]

\* Mutant of Released: the way out leaves the mutex as it is.
StillHeld == in_flight

\* Outstanding::drop()
Released == FALSE

\* Success or an error, as the driver says.
Accept(k) ==
    /\ at[k] = "waiting" /\ reps # << >>
    /\ Answers(k, Head(reps))
    /\ reps' = Tail(reps)
    /\ Return(k) /\ in_flight' = Released
    /\ UNCHANGED <<next_tag, reqs, drivervars, dma, irqvars, devicevars>>

\* The deadline has passed and nothing has come.
TimeOut(k) ==
    /\ at[k] = "waiting" /\ reps = << >>
    /\ Return(k) /\ in_flight' = Released
    /\ UNCHANGED <<next_tag, reqs, reps, drivervars, dma, irqvars, devicevars>>

-----------------------------------------------------------------------------
(***************************************************************************)
(* The driver process.                                                     *)
(***************************************************************************)
Respond(ok, bytes) ==
    /\ reps' = Append(reps, [tag |-> job.tag, ok |-> ok, data |-> bytes])
    /\ job' = NoRequest /\ looks' = 0 /\ full' = 0

Receive ==
    /\ pc = "recv" /\ reqs # << >>
    /\ reqs' = Tail(reqs) /\ job' = Head(reqs)
    /\ pc' = "dispatch"
    /\ UNCHANGED <<clientvars, reps, looks, full, avail, last_used, dma, irqvars, devicevars>>

\* INFO and SHUTDOWN are answered without the device.
AnswerAtOnce ==
    /\ pc = "dispatch" /\ job.call.op \in {"INFO", "SHUTDOWN"}
    /\ Respond(TRUE, NoData)
    /\ pc' = IF job.call.op = "SHUTDOWN" THEN "gone" ELSE "recv"
    /\ UNCHANGED <<clientvars, reqs, avail, last_used, dma, irqvars, devicevars>>

\* request(): the same header, data and status bytes every time.
Notify ==
    /\ pc = "dispatch" /\ job.call.op \in {"READ", "WRITE"}
    /\ hdr' = [op |-> job.call.op, sector |-> job.call.sector]
    /\ data' = IF job.call.op = "WRITE" THEN job.call.data ELSE data
    /\ status' = FALSE
    /\ avail' = avail + 1
    /\ pc' = "look"
    /\ UNCHANGED <<clientvars, reqs, reps, job, looks, full, last_used, irqvars, devicevars>>

\* wait() sees the used index move, and request() believes it.
Completed ==
    /\ pc = "look" /\ used # last_used
    /\ last_used' = used
    /\ Respond(status, IF status /\ job.call.op = "READ" THEN data ELSE NoData)
    /\ pc' = "recv"
    /\ UNCHANGED <<clientvars, reqs, avail, dma, irqvars, devicevars>>

WaitsAgain == looks < Looks

\* sys_irq_wait() re-arms the line first.
IrqWait ==
    /\ pc = "look" /\ used = last_used /\ WaitsAgain
    /\ pc' = "irq_wait" /\ masked' = FALSE
    /\ UNCHANGED <<clientvars, reqs, reps, job, looks, full, avail, last_used, dma, line, fired,
                   devicevars>>

\* It has fired since the driver last looked.
IrqSeen ==
    /\ pc = "irq_wait" /\ fired
    /\ fired' = FALSE /\ pc' = "ack"
    /\ UNCHANGED <<clientvars, reqs, reps, job, looks, full, avail, last_used, dma, line, masked,
                   devicevars>>

IrqTimesOut ==
    /\ pc = "irq_wait" /\ ~fired
    /\ looks' = looks + 1 /\ full' = full + 1 /\ pc' = "look"
    /\ UNCHANGED <<clientvars, reqs, reps, job, avail, last_used, dma, irqvars, devicevars>>

\* Mutant of Quieted: INTERRUPT_ACK is not written.
LeftAsserted == line

Quieted == FALSE

\* INTERRUPT_STATUS is read and acknowledged.
IrqAck ==
    /\ pc = "ack" /\ line' = Quieted
    /\ looks' = looks + 1 /\ pc' = "look"
    /\ UNCHANGED <<clientvars, reqs, reps, job, full, avail, last_used, dma, masked, fired, devicevars>>

\* The driver has waited long enough: for a device that is dead, or slow.
GiveUp ==
    /\ ~alive \/ SlowDevice
    /\ pc = "look" /\ used = last_used /\ looks = Looks
    /\ Respond(FALSE, NoData)
    /\ pc' = "recv"
    /\ UNCHANGED <<clientvars, reqs, avail, last_used, dma, irqvars, devicevars>>

\* user_irq_fired(): count it, and mask the line.
IrqFires ==
    /\ line /\ ~masked
    /\ fired' = TRUE /\ masked' = TRUE
    /\ UNCHANGED <<clientvars, reqs, reps, drivervars, dma, line, devicevars>>

-----------------------------------------------------------------------------
(***************************************************************************)
(* The virtio device.                                                      *)
(***************************************************************************)
Fetch ==
    /\ alive /\ used + Len(dev) < avail
    /\ dev' = Append(dev, hdr)
    /\ UNCHANGED <<clientvars, reqs, reps, drivervars, dma, irqvars, alive, used, disk>>

\* A request is carried out, or refused; a refused write may have reached
\* the medium.
Perform(header, ok) ==
    \/ /\ header.op = "READ" /\ ok
       /\ data' = disk[header.sector] /\ UNCHANGED disk
    \/ /\ header.op = "WRITE"
       /\ disk' = [disk EXCEPT ![header.sector] = data] /\ UNCHANGED data
    \/ ~ok /\ UNCHANGED <<data, disk>>

Finish(ok) ==
    /\ alive /\ dev # << >> /\ dev' = Tail(dev)
    /\ Perform(Head(dev), ok)
    /\ status' = ok
    /\ used' = used + 1
    /\ line' = TRUE
    /\ UNCHANGED <<clientvars, reqs, reps, drivervars, hdr, masked, fired, alive>>

\* The device stops answering.
Die ==
    /\ alive /\ alive' = FALSE
    /\ UNCHANGED <<clientvars, reqs, reps, drivervars, dma, irqvars, used, dev, disk>>

-----------------------------------------------------------------------------
Client(k) == Begin(k) \/ Submit(k) \/ DropStale(k) \/ Accept(k) \/ TimeOut(k)
Driver == \/ Receive \/ AnswerAtOnce \/ Notify \/ Completed \/ GiveUp
          \/ IrqWait \/ IrqSeen \/ IrqTimesOut \/ IrqAck
Device == IrqFires \/ Fetch \/ Die \/ \E ok \in BOOLEAN : Finish(ok)

Next == (\E k \in Clients : Client(k)) \/ Driver \/ Device

Spec == Init /\ [][Next]_vars

-----------------------------------------------------------------------------
(***************************************************************************)
(* Properties.                                                             *)
(***************************************************************************)
Succeeds(k) == at[k] = "waiting" /\ at'[k] = "idle" /\ reps # << >> /\ Head(reps).ok

True(k, call) ==
    /\ call.op = "READ" => Head(reps).data = disk[call.sector]
    /\ call.op = "WRITE" => disk[call.sector] = call.data

\* blk.rs: without its tags and its mutex it "looks like the disk returning
\* the wrong sector".  A call that reports success has read what the sector
\* holds, or left in it what it wrote.
RepliesAreTrue == [][\A k \in Clients : Succeeds(k) => True(k, mine[k].call)]_vars

\* blk.rs: STALE counts "replies discarded because they answered a request
\* that had already timed out", and nothing else is ever discarded: no
\* client takes, and throws away, what another is waiting for.
OnlyLateRepliesAreDropped ==
    [][\A k, l \in Clients :
          DropStale(k) => ~(at[l] = "waiting" /\ mine[l].tag = Head(reps).tag)]_vars

\* blk.rs, round_trip(): every way out, with a reply, with an error and by the
\* time-out, gives the mutex back.  It is held exactly as long as one client is
\* in its round trip, so that the others never wait for one that has left.
MutexHasAHolder ==
    /\ in_flight <=> \E k \in Clients : at[k] = "waiting"
    /\ \A k, l \in Clients : at[k] = "waiting" /\ at[l] = "waiting" => k = l

\* blkdrv.rs, wait(): eight waits of 50 ticks.  Interrupts left over from
\* earlier requests end at most two of them early, so that a device is given
\* up on only after the others have run their whole length.
PatienceIsSpent == pc = "look" /\ looks = Looks /\ used = last_used => full >= Looks - 2

=============================================================================
