-------------------------------- MODULE Ipc --------------------------------
(***************************************************************************)
(* Channels, and the syscalls that reach them through a capability         *)
(* (kernel/src/ipc.rs, sys_send and sys_recv of kernel/src/syscall.rs)     *)
(* while kernel_main may revoke the capability at any moment.              *)
(*                                                                         *)
(* Of the scheduler only the interface is kept: prepare_block marks the    *)
(* thread, wake_all_on unmarks every thread with the token, block returns  *)
(* once the mark is gone.  Module Scheduler shows what is behind it.       *)
(***************************************************************************)
EXTENDS Capabilities

CONSTANTS
    MaxQueue,      \* bound: messages in a queue (the code has none)
    NoChannel      \* the token of a thread that is not blocked

ASSUME IpcAssumption == MaxQueue \in Nat /\ NoChannel \notin Channels

VARIABLES
    queue,         \* Channel.queue: the sender of each message, oldest first
    at,            \* where process p is in a syscall
    chan,          \* the channel the call resolved to
    blocked,       \* the token its thread is blocked on
    stale          \* ghost: those whose capability died after they looked

ipcvars == <<queue, at, chan, blocked, stale>>
vars == <<capvars, ipcvars>>

TypeOK ==
    /\ CapTypeOK
    /\ queue \in [Channels -> Seq(Procs)]
    /\ at \in [Procs -> {"user", "send", "wake", "lookup", "recv", "wait", "gone"}]
    /\ chan \in [Procs -> Channels \cup {NoChannel}]
    /\ blocked \in [Procs -> Channels \cup {NoChannel}]
    /\ stale \in SUBSET Procs

Init ==
    /\ CapInit
    /\ queue = [ch \in Channels |-> << >>]
    /\ at = [p \in Procs |-> "user"]
    /\ chan = [p \in Procs |-> NoChannel]
    /\ blocked = [p \in Procs |-> NoChannel]
    /\ stale = {}

Goto(p, where) == at' = [at EXCEPT ![p] = where]
Return(p) == Goto(p, "user") /\ chan' = [chan EXCEPT ![p] = NoChannel]
Unblocked(ch) == [p \in Procs |-> IF blocked[p] = ch THEN NoChannel ELSE blocked[p]]

-----------------------------------------------------------------------------
(***************************************************************************)
(* kernel_main.                                                            *)
(***************************************************************************)
Mint == /\ \/ \E ch \in Channels, rights \in SUBSET Rights \ {{}} : Root(ch, rights)
           \/ \E id \in Minted, rights \in SUBSET Rights \ {{}} : Derive(id, rights)
           \/ \E p \in Procs, id \in Minted : StartProcess(p, id)
        /\ UNCHANGED ipcvars

\* A process past its lookup holds a copy of the capability that this does
\* not reach.
CutOff(id) ==
    /\ Revoke(id)
    /\ stale' = stale \cup {p \in Killed(id) : at[p] \in {"send", "recv"}}
    /\ UNCHANGED <<queue, at, chan, blocked>>

\* Mutant of RevokeWakes: nobody is told.
RevokeWakesNobody(ch) ==
    /\ ch \in pending
    /\ pending' = pending \ {ch}
    /\ UNCHANGED <<ledger, slot, revoked, cut, queue, at, chan, blocked, stale>>

\* The rest of revoke(): wake_all_on(), channel by channel.
RevokeWakes(ch) ==
    /\ ch \in pending
    /\ pending' = pending \ {ch}
    /\ blocked' = Unblocked(ch)
    /\ UNCHANGED <<ledger, slot, revoked, cut, queue, at, chan, stale>>

-----------------------------------------------------------------------------
(***************************************************************************)
(* sys_send().                                                             *)
(***************************************************************************)

\* Mutant of SendLookup: the tombstone is not looked at.
SendLookupUnchecked(p) ==
    /\ at[p] = "user"
    /\ slot[p] # NoCap /\ "send" \in ledger[slot[p]].rights
    /\ chan' = [chan EXCEPT ![p] = ledger[slot[p]].chan]
    /\ Goto(p, "send")
    /\ UNCHANGED <<capvars, queue, blocked, stale>>

\* The capability is resolved; with an error code the call returns at once.
SendLookup(p) ==
    /\ at[p] = "user" /\ Allows(p, "send")
    /\ chan' = [chan EXCEPT ![p] = ledger[slot[p]].chan]
    /\ Goto(p, "send")
    /\ UNCHANGED <<capvars, queue, blocked, stale>>

\* copy_from_user fails.
SendFaults(p) ==
    /\ at[p] = "send"
    /\ Return(p)
    /\ stale' = stale \ {p}
    /\ UNCHANGED <<capvars, queue, blocked>>

\* ipc::send(), under CHANNELS: the kernel records who sent it.
Enqueue(p) ==
    /\ at[p] = "send" /\ Len(queue[chan[p]]) < MaxQueue
    /\ queue' = [queue EXCEPT ![chan[p]] = Append(@, p)]
    /\ Goto(p, "wake")
    /\ stale' = stale \ {p}
    /\ UNCHANGED <<capvars, chan, blocked>>

\* ... and, the lock released, wake_all_on().
WakeReceivers(p) ==
    /\ at[p] = "wake"
    /\ blocked' = Unblocked(chan[p])
    /\ Return(p)
    /\ UNCHANGED <<capvars, queue, stale>>

-----------------------------------------------------------------------------
(***************************************************************************)
(* sys_recv().                                                             *)
(***************************************************************************)
RecvCall(p) ==
    /\ at[p] = "user" /\ slot[p] # NoCap
    /\ Goto(p, "lookup")
    /\ UNCHANGED <<capvars, queue, chan, blocked, stale>>

\* Every time round the loop the capability is resolved again.
RecvLookup(p) ==
    /\ at[p] = "lookup"
    /\ \/ Allows(p, "recv") /\ Goto(p, "recv")
          /\ chan' = [chan EXCEPT ![p] = ledger[slot[p]].chan]
       \/ ~Allows(p, "recv") /\ Return(p)
    /\ UNCHANGED <<capvars, queue, blocked, stale>>

\* recv_or_prepare() finds a message.  Whether it can be copied out or not,
\* it has left the queue and the call returns.
TakeMessage(p) ==
    /\ at[p] = "recv" /\ queue[chan[p]] # << >>
    /\ queue' = [queue EXCEPT ![chan[p]] = Tail(@)]
    /\ Return(p)
    /\ stale' = stale \ {p}
    /\ UNCHANGED <<capvars, blocked>>

\* Mutant of PrepareToWait: the queue was looked at some time before.
PrepareToWaitLater(p) ==
    /\ at[p] = "recv"
    /\ blocked' = [blocked EXCEPT ![p] = chan[p]]
    /\ Goto(p, "wait")
    /\ UNCHANGED <<capvars, queue, chan, stale>>

\* recv_or_prepare() finds none and marks the caller, both under CHANNELS.
PrepareToWait(p) ==
    /\ at[p] = "recv" /\ queue[chan[p]] = << >>
    /\ blocked' = [blocked EXCEPT ![p] = chan[p]]
    /\ Goto(p, "wait")
    /\ UNCHANGED <<capvars, queue, chan, stale>>

\* block() returns.
BlockReturns(p) ==
    /\ at[p] = "wait" /\ blocked[p] = NoChannel
    /\ Goto(p, "lookup")
    /\ stale' = stale \ {p}
    /\ UNCHANGED <<capvars, queue, chan, blocked>>

\* SYS_EXIT
Exit(p) ==
    /\ at[p] = "user" /\ slot[p] # NoCap
    /\ Goto(p, "gone")
    /\ UNCHANGED <<capvars, queue, chan, blocked, stale>>

-----------------------------------------------------------------------------
Sending(p) == SendLookup(p) \/ SendFaults(p) \/ Enqueue(p) \/ WakeReceivers(p)
Receiving(p) ==
    RecvCall(p) \/ RecvLookup(p) \/ TakeMessage(p) \/ PrepareToWait(p) \/ BlockReturns(p)
Kernel == \/ Mint
          \/ \E id \in Minted : CutOff(id)
          \/ \E ch \in Channels : RevokeWakes(ch)

Next == Kernel \/ \E p \in Procs : Sending(p) \/ Receiving(p) \/ Exit(p)

Spec == Init /\ [][Next]_vars

\* A call once begun goes on, and so does revoke(): the scheduler starves no
\* thread.  Whether a process makes calls at all is its own affair.
Fairness ==
    /\ \A ch \in Channels : WF_vars(RevokeWakes(ch))
    /\ \A p \in Procs :
        /\ WF_vars(WakeReceivers(p)) /\ WF_vars(RecvLookup(p))
        /\ WF_vars(BlockReturns(p))
        /\ WF_vars(TakeMessage(p) \/ PrepareToWait(p))
        /\ WF_vars(SendFaults(p) \/ Enqueue(p))

LiveSpec == Spec /\ Fairness

-----------------------------------------------------------------------------
(***************************************************************************)
(* Properties.                                                             *)
(***************************************************************************)
Waiting(p, ch) == at[p] = "wait" /\ blocked[p] = ch
WakeComing(ch) == ch \in pending \/ \E q \in Procs : at[q] = "wake" /\ chan[q] = ch

\* ipc.rs: "it either enqueues first - and we see the message - or it finds
\* us already blocked and wakes us".  Nobody is blocked on a channel that
\* holds a message unless a wakeup for that channel is on its way.
NoLostWakeup ==
    \A p \in Procs, ch \in Channels :
        Waiting(p, ch) /\ queue[ch] # << >> => WakeComing(ch)

\* proc.rs: "revoke cap_id and everything derived from it, wherever it ended
\* up".  No process keeps live authority that descends from what was cut, at
\* any depth, whoever else holds some of it.
SubtreeIsDead ==
    \A p \in Procs : slot[p] # NoCap /\ IsCut(slot[p]) => p \in revoked

\* cap.rs: "authority can only shrink as it is delegated".  A message in a
\* channel's queue was put there by a process whose capability, and every
\* capability that one came from, is to this channel and allows sending.
SendersWereAuthorised ==
    \A ch \in Channels : \A k \in 1 .. Len(queue[ch]) :
        LET id == slot[queue[ch][k]] IN
        /\ id # NoCap
        /\ \A a \in Lineage[id] : ledger[a].chan = ch /\ "send" \in ledger[a].rights

\* A receiver that was blocked when its capability was revoked is woken: one
\* that stays blocked with a dead capability got there by a lookup made
\* before the revocation.
RevokedWaitersAreWoken ==
    \A p \in revoked, ch \in Channels :
        Waiting(p, ch) => WakeComing(ch) \/ p \in stale

AtMostTheSendInProgress ==
    \A p \in revoked : at[p] # "wake" /\ at'[p] = "wake" => p \in stale /\ p \notin stale'

\* After its capability is revoked a process completes at most the one send
\* it was already in: its next call is refused.
RevocationStopsSending == [][AtMostTheSendInProgress]_vars

=============================================================================
