----------------------------- MODULE IpcProofs -----------------------------
(***************************************************************************)
(* Proofs about module Ipc, for any processes, channels and capabilities.  *)
(***************************************************************************)
EXTENDS Ipc, TLAPS

\* The table refers to minted capabilities only.
SlotsAreMinted == \A p \in Procs : slot[p] <= Len(ledger)

\* A call past its lookup works on the channel of the capability in its slot,
\* and a thread is blocked on nothing else.
CallInv ==
    \A p \in Procs :
        /\ at[p] \in {"send", "wake", "recv", "wait"} =>
             /\ slot[p] # NoCap
             /\ chan[p] = ledger[slot[p]].chan
        /\ blocked[p] # NoChannel => at[p] = "wait" /\ blocked[p] = chan[p]

\* A revoked process between its lookup and its use of the channel looked
\* before the revocation.
StaleInv == \A p \in revoked : at[p] \in {"send", "recv"} => p \in stale

IInv == /\ TypeOK /\ SlotsAreMinted /\ CallInv /\ StaleInv
        /\ NoLostWakeup /\ RevokedWaitersAreWoken

\* A machine without processes satisfies the invariant.
LEMMA InitEstablishes == Init => IInv
<1> SUFFICES ASSUME Init PROVE IInv
  OBVIOUS
<1> USE IpcAssumption, CapabilitiesAssumption DEF Init, CapInit, NoCap
<1>1. TypeOK
  BY DEF TypeOK, CapTypeOK
<1>2. SlotsAreMinted /\ CallInv /\ StaleInv
  BY DEF SlotsAreMinted, CallInv, StaleInv
<1>3. NoLostWakeup /\ RevokedWaitersAreWoken
  BY DEF NoLostWakeup, RevokedWaitersAreWoken, Waiting
<1> QED
  BY <1>1, <1>2, <1>3 DEF IInv

\* A capability in a table is one of the ledger's.
LEMMA SlotIsCap ==
  ASSUME CapTypeOK, SlotsAreMinted, NEW p \in Procs, slot[p] # NoCap
  PROVE  ledger[slot[p]] \in Cap /\ ledger[slot[p]].chan \in Channels
<1>1. ledger[slot[p]] \in Cap
  BY CapabilitiesAssumption DEF CapTypeOK, SlotsAreMinted, NoCap
<1> QED
  BY <1>1 DEF Cap

\* root() and derive_for() append to the ledger; nothing already there moves.
LEMMA MintPreserves == ASSUME IInv, Mint PROVE IInv'
<1> USE IpcAssumption, CapabilitiesAssumption DEF NoCap
<1>t. /\ ledger \in Seq(Cap) /\ Len(ledger) <= MaxCaps
      /\ slot \in [Procs -> 0 .. MaxCaps]
      /\ SlotsAreMinted /\ CallInv
  BY DEF IInv, TypeOK, CapTypeOK
<1>i. UNCHANGED <<queue, at, chan, blocked, stale, revoked, cut, pending>>
  BY DEF Mint, ipcvars, Root, Derive, StartProcess
<1>1. ASSUME NEW c \in Cap, ledger' = Append(ledger, c), slot' = slot, Len(ledger) < MaxCaps
      PROVE  /\ ledger' \in Seq(Cap) /\ Len(ledger') <= MaxCaps
             /\ SlotsAreMinted'
             /\ \A p \in Procs : slot[p] # NoCap => ledger'[slot'[p]] = ledger[slot[p]]
  BY <1>1, <1>t DEF SlotsAreMinted
<1>2. ASSUME NEW p \in Procs, NEW id \in Minted, StartProcess(p, id)
      PROVE  /\ ledger' = ledger /\ slot' \in [Procs -> 0 .. MaxCaps]
             /\ SlotsAreMinted'
             /\ \A q \in Procs : slot[q] # NoCap => slot'[q] = slot[q]
  BY <1>2, <1>t DEF SlotsAreMinted, StartProcess, Minted
<1>3. /\ ledger' \in Seq(Cap) /\ Len(ledger') <= MaxCaps
      /\ slot' \in [Procs -> 0 .. MaxCaps]
      /\ SlotsAreMinted'
      /\ \A p \in Procs : slot[p] # NoCap =>
           slot'[p] = slot[p] /\ ledger'[slot'[p]] = ledger[slot[p]]
  <2>1. CASE \E ch \in Channels, rights \in SUBSET Rights \ {{}} : Root(ch, rights)
    <3>1. PICK ch \in Channels, rights \in SUBSET Rights : Root(ch, rights)
      BY <2>1
    <3>2. [parent |-> 0, chan |-> ch, rights |-> rights] \in Cap
      BY DEF Cap
    <3> QED
      BY <3>1, <3>2, <1>1, <1>t DEF Root
  <2>2. CASE \E id \in Minted, rights \in SUBSET Rights \ {{}} : Derive(id, rights)
    <3>1. PICK id \in Minted, rights \in SUBSET Rights : Derive(id, rights)
      BY <2>2
    <3>2. ledger[id] \in Cap /\ id \in 0 .. MaxCaps
      BY <1>t DEF Minted
    <3>3. [parent |-> id, chan |-> ledger[id].chan,
           rights |-> ledger[id].rights \cap rights] \in Cap
      BY <3>2 DEF Cap
    <3> QED
      BY <3>1, <3>3, <1>1, <1>t DEF Derive
  <2>3. CASE \E p \in Procs, id \in Minted : StartProcess(p, id)
    BY <2>3, <1>2, <1>t
  <2> QED
    BY <2>1, <2>2, <2>3 DEF Mint
<1>4. TypeOK'
  BY <1>i, <1>3 DEF IInv, TypeOK, CapTypeOK
<1>5. CallInv'
  BY <1>i, <1>3, <1>t DEF CallInv
<1>6. StaleInv' /\ NoLostWakeup' /\ RevokedWaitersAreWoken'
  BY <1>i DEF IInv, StaleInv, NoLostWakeup, RevokedWaitersAreWoken, Waiting, WakeComing
<1> QED
  BY <1>3, <1>4, <1>5, <1>6 DEF IInv

\* The marking half of revoke(): whoever it kills in recv is on a channel it
\* goes on to wake.
LEMMA CutOffPreserves == ASSUME IInv, NEW id \in Minted, CutOff(id) PROVE IInv'
<1>t. TypeOK /\ CapTypeOK /\ SlotsAreMinted /\ CallInv /\ StaleInv
  BY DEF IInv, TypeOK
<1>k. Killed(id) \in SUBSET Procs /\ \A p \in Killed(id) : slot[p] # NoCap
  BY DEF Killed
<1>1. \A p \in Killed(id) : ledger[slot[p]] \in Cap
  BY <1>t, <1>k, SlotIsCap
<1>2. TypeOK'
  <2>1. pending' \in SUBSET Channels
    BY <1>1 DEF CutOff, Revoke, Cap
  <2>2. cut' \in SUBSET Ids
    <3>1. Len(ledger) \in Nat /\ Len(ledger) <= MaxCaps
      BY <1>t DEF CapTypeOK
    <3>2. id \in Ids
      BY <3>1, CapabilitiesAssumption DEF Minted, Ids
    <3> QED
      BY <3>2, <1>t DEF CutOff, Revoke, CapTypeOK
  <2>3. revoked' \in SUBSET Procs /\ stale' \in SUBSET Procs
    BY <1>t, <1>k DEF CutOff, Revoke, CapTypeOK, TypeOK
  <2> QED
    BY <2>1, <2>2, <2>3, <1>t DEF CutOff, Revoke, CapTypeOK, TypeOK
<1>3. SlotsAreMinted' /\ CallInv'
  BY <1>t DEF CutOff, Revoke, SlotsAreMinted, CallInv
<1>4. StaleInv'
  BY <1>t DEF CutOff, Revoke, StaleInv
<1>5. NoLostWakeup'
  BY DEF IInv, CutOff, Revoke, NoLostWakeup, Waiting, WakeComing
<1>6. RevokedWaitersAreWoken'
  <2> SUFFICES ASSUME NEW p \in revoked', NEW ch \in Channels, Waiting(p, ch)'
               PROVE  WakeComing(ch)' \/ p \in stale'
    BY DEF RevokedWaitersAreWoken
  <2>1. CASE p \in revoked
    BY <2>1 DEF IInv, RevokedWaitersAreWoken, CutOff, Revoke, Waiting, WakeComing
  <2>2. CASE p \in Killed(id)
    <3>1. at[p] = "wait" /\ blocked[p] = ch
      BY DEF CutOff, Waiting
    <3>2. ch = ledger[slot[p]].chan
      BY <2>2, <3>1, <1>k, <1>t, IpcAssumption DEF CallInv
    <3> QED
      BY <2>2, <3>2 DEF CutOff, Revoke, WakeComing
  <2> QED
    BY <2>1, <2>2 DEF CutOff, Revoke
<1> QED
  BY <1>2, <1>3, <1>4, <1>5, <1>6 DEF IInv

\* wake_all_on() by revoke().
LEMMA RevokeWakesPreserves ==
  ASSUME IInv, NEW ch \in Channels, RevokeWakes(ch)
  PROVE  IInv'
<1> USE IpcAssumption DEF RevokeWakes
<1>1. TypeOK'
  BY DEF IInv, TypeOK, CapTypeOK, Unblocked
<1>2. SlotsAreMinted' /\ CallInv' /\ StaleInv'
  BY DEF IInv, SlotsAreMinted, CallInv, StaleInv, Unblocked
<1>3. \A p \in Procs, d \in Channels : Waiting(p, d)' => Waiting(p, d) /\ d # ch
  BY DEF Waiting, Unblocked
<1>4. \A d \in Channels : WakeComing(d) /\ d # ch => WakeComing(d)'
  BY DEF WakeComing
<1>5. NoLostWakeup'
  BY <1>3, <1>4 DEF IInv, NoLostWakeup
<1>6. RevokedWaitersAreWoken'
  BY <1>3, <1>4 DEF IInv, TypeOK, CapTypeOK, RevokedWaitersAreWoken
<1> QED
  BY <1>1, <1>2, <1>5, <1>6 DEF IInv

\* What sys_send does.
LEMMA SendingPreserves == ASSUME IInv, NEW p \in Procs, Sending(p) PROVE IInv'
<1> USE IpcAssumption DEF capvars, Goto, Return
<1>t. TypeOK /\ CapTypeOK /\ SlotsAreMinted /\ CallInv /\ StaleInv
  BY DEF IInv, TypeOK
<1>1. CASE SendLookup(p)
  <2>1. ledger[slot[p]].chan \in Channels
    BY <1>1, <1>t, SlotIsCap DEF SendLookup, Allows
  <2>2. TypeOK'
    BY <1>1, <1>t, <2>1 DEF SendLookup, TypeOK, CapTypeOK
  <2>3. SlotsAreMinted' /\ CallInv' /\ StaleInv'
    BY <1>1, <1>t DEF SendLookup, Allows, TypeOK, SlotsAreMinted, CallInv, StaleInv
  <2>4. NoLostWakeup' /\ RevokedWaitersAreWoken'
    BY <1>1, <1>t DEF SendLookup, IInv, TypeOK, NoLostWakeup, RevokedWaitersAreWoken,
                      Waiting, WakeComing
  <2> QED
    BY <2>2, <2>3, <2>4 DEF IInv
<1>2. CASE SendFaults(p)
  <2>1. TypeOK'
    BY <1>2, <1>t DEF SendFaults, TypeOK, CapTypeOK
  <2>2. SlotsAreMinted' /\ CallInv' /\ StaleInv'
    BY <1>2, <1>t DEF SendFaults, TypeOK, SlotsAreMinted, CallInv, StaleInv
  <2>3. NoLostWakeup' /\ RevokedWaitersAreWoken'
    BY <1>2, <1>t DEF SendFaults, IInv, TypeOK, NoLostWakeup, RevokedWaitersAreWoken,
                      Waiting, WakeComing
  <2> QED
    BY <2>1, <2>2, <2>3 DEF IInv
<1>3. CASE Enqueue(p)
  <2>0. chan[p] \in Channels
    BY <1>3, <1>t, SlotIsCap DEF Enqueue, CallInv
  <2>1. TypeOK'
    BY <1>3, <1>t, <2>0 DEF Enqueue, TypeOK, CapTypeOK
  <2>2. SlotsAreMinted' /\ CallInv' /\ StaleInv'
    BY <1>3, <1>t DEF Enqueue, TypeOK, SlotsAreMinted, CallInv, StaleInv
  <2>3. \A ch \in Channels : WakeComing(ch) \/ ch = chan[p] => WakeComing(ch)'
    BY <1>3, <1>t DEF Enqueue, TypeOK, WakeComing
  <2>4. \A q \in Procs, ch \in Channels :
          Waiting(q, ch)' => Waiting(q, ch) /\ (ch # chan[p] => queue'[ch] = queue[ch])
    BY <1>3, <1>t DEF Enqueue, TypeOK, Waiting
  <2>5. NoLostWakeup'
    BY <2>3, <2>4 DEF IInv, NoLostWakeup
  <2>6. RevokedWaitersAreWoken'
    BY <1>3, <1>t, <2>3 DEF Enqueue, IInv, TypeOK, CapTypeOK, RevokedWaitersAreWoken, Waiting
  <2> QED
    BY <2>1, <2>2, <2>5, <2>6 DEF IInv
<1>4. CASE WakeReceivers(p)
  <2>1. TypeOK'
    BY <1>4, <1>t DEF WakeReceivers, TypeOK, CapTypeOK, Unblocked
  <2>2. SlotsAreMinted' /\ CallInv' /\ StaleInv'
    BY <1>4, <1>t DEF WakeReceivers, TypeOK, SlotsAreMinted, CallInv, StaleInv, Unblocked
  <2>3. \A q \in Procs, ch \in Channels : Waiting(q, ch)' => Waiting(q, ch) /\ ch # chan[p]
    BY <1>4, <1>t DEF WakeReceivers, TypeOK, Waiting, Unblocked
  <2>4. \A ch \in Channels : WakeComing(ch) /\ ch # chan[p] => WakeComing(ch)'
    BY <1>4, <1>t DEF WakeReceivers, TypeOK, WakeComing
  <2>5. NoLostWakeup'
    BY <1>4, <2>3, <2>4 DEF WakeReceivers, IInv, NoLostWakeup
  <2>6. RevokedWaitersAreWoken'
    BY <1>4, <1>t, <2>3, <2>4
       DEF WakeReceivers, IInv, TypeOK, CapTypeOK, RevokedWaitersAreWoken
  <2> QED
    BY <2>1, <2>2, <2>5, <2>6 DEF IInv
<1> QED
  BY <1>1, <1>2, <1>3, <1>4 DEF Sending

\* What sys_recv does, and exiting.
LEMMA ReceivingPreserves ==
  ASSUME IInv, NEW p \in Procs, Receiving(p) \/ Exit(p)
  PROVE  IInv'
<1> USE IpcAssumption DEF capvars, Goto, Return
<1>t. TypeOK /\ CapTypeOK /\ SlotsAreMinted /\ CallInv /\ StaleInv
  BY DEF IInv, TypeOK
<1>1. CASE RecvCall(p) \/ Exit(p)
  <2>1. TypeOK'
    BY <1>1, <1>t DEF RecvCall, Exit, TypeOK, CapTypeOK
  <2>2. /\ UNCHANGED <<ledger, slot, revoked, cut, pending, queue, chan, blocked, stale>>
        /\ at[p] = "user" /\ at'[p] \in {"lookup", "gone"}
        /\ \A q \in Procs : q # p => at'[q] = at[q]
    BY <1>1, <1>t DEF RecvCall, Exit, TypeOK
  <2>3. SlotsAreMinted' /\ CallInv' /\ StaleInv'
    BY <1>t, <2>2 DEF SlotsAreMinted, CallInv, StaleInv, CapTypeOK
  <2>4. NoLostWakeup' /\ RevokedWaitersAreWoken'
    BY <1>t, <2>2 DEF IInv, NoLostWakeup, RevokedWaitersAreWoken, Waiting, WakeComing, CapTypeOK
  <2> QED
    BY <2>1, <2>3, <2>4 DEF IInv
<1>2. CASE RecvLookup(p)
  <2>1. Allows(p, "recv") => ledger[slot[p]].chan \in Channels
    BY <1>t, SlotIsCap DEF Allows
  <2>2. TypeOK'
    BY <1>2, <1>t, <2>1 DEF RecvLookup, TypeOK, CapTypeOK
  <2>3. /\ UNCHANGED <<ledger, slot, revoked, cut, pending, queue, blocked, stale>>
        /\ at[p] = "lookup"
        /\ \A q \in Procs : q # p => at'[q] = at[q] /\ chan'[q] = chan[q]
        /\ \/ at'[p] = "user"
           \/ at'[p] = "recv" /\ slot[p] # NoCap /\ p \notin revoked
              /\ chan'[p] = ledger[slot[p]].chan
    BY <1>2, <1>t DEF RecvLookup, Allows, TypeOK
  <2>4. SlotsAreMinted' /\ StaleInv'
    BY <1>t, <2>3 DEF SlotsAreMinted, StaleInv, CapTypeOK
  <2>5. CallInv'
    BY <1>t, <2>3 DEF CallInv
  <2>6. NoLostWakeup' /\ RevokedWaitersAreWoken'
    BY <1>t, <2>3 DEF IInv, NoLostWakeup, RevokedWaitersAreWoken, Waiting, WakeComing, CapTypeOK
  <2> QED
    BY <2>2, <2>4, <2>5, <2>6 DEF IInv
<1>3. CASE TakeMessage(p)
  <2>0. chan[p] \in Channels
    BY <1>3, <1>t, SlotIsCap DEF TakeMessage, CallInv
  <2>1. TypeOK'
    BY <1>3, <1>t, <2>0 DEF TakeMessage, TypeOK, CapTypeOK
  <2>2. SlotsAreMinted' /\ CallInv' /\ StaleInv'
    BY <1>3, <1>t DEF TakeMessage, TypeOK, SlotsAreMinted, CallInv, StaleInv
  <2>3. \A q \in Procs, ch \in Channels : Waiting(q, ch)' => Waiting(q, ch) /\ q # p
    BY <1>3, <1>t DEF TakeMessage, TypeOK, Waiting
  <2>4. \A ch \in Channels : WakeComing(ch) => WakeComing(ch)'
    BY <1>3, <1>t DEF TakeMessage, TypeOK, WakeComing
  <2>5. NoLostWakeup'
    BY <1>3, <1>t, <2>0, <2>3, <2>4 DEF TakeMessage, IInv, TypeOK, NoLostWakeup
  <2>6. RevokedWaitersAreWoken'
    BY <1>3, <1>t, <2>3, <2>4
       DEF TakeMessage, IInv, CapTypeOK, RevokedWaitersAreWoken
  <2> QED
    BY <2>1, <2>2, <2>5, <2>6 DEF IInv
<1>4. CASE PrepareToWait(p)
  <2>0. chan[p] \in Channels
    BY <1>4, <1>t, SlotIsCap DEF PrepareToWait, CallInv
  <2>1. TypeOK'
    BY <1>4, <1>t, <2>0 DEF PrepareToWait, TypeOK, CapTypeOK
  <2>2. SlotsAreMinted' /\ CallInv' /\ StaleInv'
    BY <1>4, <1>t DEF PrepareToWait, TypeOK, SlotsAreMinted, CallInv, StaleInv
  <2>3. \A q \in Procs, ch \in Channels :
          Waiting(q, ch)' => Waiting(q, ch) \/ (q = p /\ ch = chan[p])
    BY <1>4, <1>t DEF PrepareToWait, TypeOK, Waiting
  <2>4. \A ch \in Channels : WakeComing(ch) => WakeComing(ch)'
    BY <1>4, <1>t DEF PrepareToWait, TypeOK, WakeComing
  <2>5. NoLostWakeup'
    BY <1>4, <2>3, <2>4 DEF PrepareToWait, IInv, NoLostWakeup
  <2>6. RevokedWaitersAreWoken'
    BY <1>4, <1>t, <2>3, <2>4
       DEF PrepareToWait, IInv, CapTypeOK, StaleInv, RevokedWaitersAreWoken
  <2> QED
    BY <2>1, <2>2, <2>5, <2>6 DEF IInv
<1>5. CASE BlockReturns(p)
  <2>1. TypeOK'
    BY <1>5, <1>t DEF BlockReturns, TypeOK, CapTypeOK
  <2>2. SlotsAreMinted' /\ CallInv' /\ StaleInv'
    BY <1>5, <1>t DEF BlockReturns, TypeOK, SlotsAreMinted, CallInv, StaleInv
  <2>3. \A q \in Procs, ch \in Channels : Waiting(q, ch)' => Waiting(q, ch) /\ q # p
    BY <1>5, <1>t DEF BlockReturns, TypeOK, Waiting
  <2>4. \A ch \in Channels : WakeComing(ch) => WakeComing(ch)'
    BY <1>5, <1>t DEF BlockReturns, TypeOK, WakeComing
  <2>5. NoLostWakeup'
    BY <1>5, <2>3, <2>4 DEF BlockReturns, IInv, NoLostWakeup
  <2>6. RevokedWaitersAreWoken'
    BY <1>5, <1>t, <2>3, <2>4
       DEF BlockReturns, IInv, CapTypeOK, RevokedWaitersAreWoken
  <2> QED
    BY <2>1, <2>2, <2>5, <2>6 DEF IInv
<1> QED
  BY <1>1, <1>2, <1>3, <1>4, <1>5 DEF Receiving

\* Every step of kernel_main and of every process keeps the invariant.
LEMMA NextPreserves == IInv /\ [Next]_vars => IInv'
<1> SUFFICES ASSUME IInv, [Next]_vars PROVE IInv'
  OBVIOUS
<1>1. CASE Kernel
  BY <1>1, MintPreserves, CutOffPreserves, RevokeWakesPreserves DEF Kernel
<1>2. CASE \E p \in Procs : Sending(p) \/ Receiving(p) \/ Exit(p)
  BY <1>2, SendingPreserves, ReceivingPreserves
<1>3. CASE UNCHANGED vars
  BY <1>3 DEF vars, capvars, ipcvars, IInv, TypeOK, CapTypeOK, SlotsAreMinted, CallInv,
              StaleInv, NoLostWakeup, RevokedWaitersAreWoken, Waiting, WakeComing
<1> QED
  BY <1>1, <1>2, <1>3 DEF Next

\* The inductive invariant of the syscalls and the revocation together.
THEOREM Invariance == Spec => []IInv
<1> QED
  BY InitEstablishes, NextPreserves, PTL DEF Spec

\* Every variable keeps its type, whatever the number of processes.
THEOREM TypeCorrect == Spec => []TypeOK
<1>1. IInv => TypeOK
  BY DEF IInv
<1> QED
  BY Invariance, <1>1, PTL

\* recv_or_prepare leaves no window: no receiver sleeps on a channel that
\* holds a message without a wakeup on its way.
THEOREM WakeupsAreNotLost == Spec => []NoLostWakeup
<1>1. IInv => NoLostWakeup
  BY DEF IInv
<1> QED
  BY Invariance, <1>1, PTL

\* revoke() wakes every receiver it catches blocked; only one that had looked
\* its capability up before can stay behind.
THEOREM RevocationReachesWaiters == Spec => []RevokedWaitersAreWoken
<1>1. IInv => RevokedWaitersAreWoken
  BY DEF IInv
<1> QED
  BY Invariance, <1>1, PTL

\* A revoked process completes at most the send it was in.
THEOREM RevocationIsFinal == Spec => RevocationStopsSending
<1>1. IInv /\ [Next]_vars => [AtMostTheSendInProgress]_vars
  <2> SUFFICES ASSUME IInv, Next, NEW p \in revoked, at[p] # "wake", at'[p] = "wake"
               PROVE  p \in stale /\ p \notin stale'
    BY DEF AtMostTheSendInProgress
  <2>t. p \in Procs /\ at \in [Procs -> {"user", "send", "wake", "lookup", "recv", "wait", "gone"}]
    BY DEF IInv, TypeOK, CapTypeOK
  <2>1. ~Kernel
    BY <2>t DEF Kernel, Mint, CutOff, RevokeWakes, ipcvars
  <2>2. PICK q \in Procs : Sending(q) \/ Receiving(q) \/ Exit(q)
    BY <2>1 DEF Next
  <2>3. ~(Receiving(q) \/ Exit(q))
    BY <2>t DEF Receiving, Exit, RecvCall, RecvLookup, TakeMessage, PrepareToWait,
                BlockReturns, Goto, Return
  <2>4. Enqueue(q) /\ q = p
    BY <2>t, <2>2, <2>3 DEF Sending, SendLookup, SendFaults, Enqueue, WakeReceivers, Goto, Return
  <2> QED
    BY <2>4 DEF IInv, StaleInv, Enqueue
<1> QED
  BY Invariance, <1>1, PTL DEF Spec, RevocationStopsSending
-----------------------------------------------------------------------------
(***************************************************************************)
(* Authority.  The walk of is_descendant() is a recursive definition; that *)
(* it defines one function is itself kept by every step: the ledger only   *)
(* grows, and what is appended comes from what is there.                   *)
(***************************************************************************)

\* One turn of the walk in ledger L, f being what the walk finds further up.
Walk(L, f, i) == {i} \cup IF L[i].parent = 0 THEN {} ELSE f[L[i].parent]
IsLine(L, f) == f = [i \in 1 .. Len(L) |-> Walk(L, f, i)]
IsTheLine(L, f) == IsLine(L, f) /\ \A g : IsLine(L, g) => g = f

\* A parent is minted before its children.
ParentsInv == \A i \in Minted : ledger[i].parent \in 0 .. Len(ledger)

LineInv == IsTheLine(ledger, Lineage)

\* Every ancestor is to the same channel and has every right its descendant has.
DelegationInv ==
    \A i \in Minted :
        /\ i \in Lineage[i] /\ Lineage[i] \subseteq Minted
        /\ \A a \in Lineage[i] : /\ ledger[a].chan = ledger[i].chan
                                 /\ ledger[i].rights \subseteq ledger[a].rights

\* Whoever is about to send, or has a message in a queue, has the capability.
MaySend(p, ch) == /\ slot[p] # NoCap /\ ledger[slot[p]].chan = ch
                  /\ "send" \in ledger[slot[p]].rights
SendersInv ==
    /\ \A p \in Procs : at[p] = "send" => MaySend(p, chan[p])
    /\ \A ch \in Channels : \A k \in 1 .. Len(queue[ch]) : MaySend(queue[ch][k], ch)

AuthorityInv == /\ IInv /\ ParentsInv /\ LineInv /\ DelegationInv
                /\ SendersInv /\ SubtreeIsDead

\* What a solution of the walk's equation says at one id.
LEMMA LineAt ==
  ASSUME NEW L, NEW f, IsLine(L, f), NEW i \in 1 .. Len(L)
  PROVE  f[i] = Walk(L, f, i)
BY Zenon DEF IsLine

\* Appending a capability whose parent is there, or none, extends the one
\* solution by one id.
LEMMA LineGrows ==
  ASSUME NEW L \in Seq(Cap), NEW c \in Cap, NEW f, IsTheLine(L, f),
         \A i \in 1 .. Len(L) : L[i].parent \in 0 .. Len(L),
         c.parent \in 0 .. Len(L)
  PROVE  \E h : /\ IsTheLine(Append(L, c), h)
                /\ \A i \in 1 .. Len(L) : h[i] = f[i]
                /\ h[Len(L) + 1] = {Len(L) + 1} \cup
                                   IF c.parent = 0 THEN {} ELSE f[c.parent]
<1> DEFINE n == Len(L)
           M == Append(L, c)
           top == {n + 1} \cup IF c.parent = 0 THEN {} ELSE f[c.parent]
           h == [i \in 1 .. n + 1 |-> IF i = n + 1 THEN top ELSE f[i]]
<1>1. /\ n \in Nat /\ Len(M) = n + 1 /\ M[n + 1] = c
      /\ \A i \in 1 .. n : M[i] = L[i]
  OBVIOUS
<1>2. /\ h = [i \in 1 .. n + 1 |-> h[i]] /\ h[n + 1] = top
      /\ \A i \in 1 .. n : h[i] = f[i]
  BY <1>1
<1>3. /\ \A i \in 1 .. n : f[i] = Walk(L, f, i)
      /\ f = [i \in 1 .. n |-> f[i]]
      /\ \A g : IsLine(L, g) => g = f
  <2>1. IsLine(L, f) /\ \A g : IsLine(L, g) => g = f
    BY DEF IsTheLine
  <2>2. f = [i \in 1 .. n |-> Walk(L, f, i)]
    BY <2>1 DEF IsLine
  <2> HIDE DEF n
  <2> QED
    BY ONLY <2>1, <2>2
<1>p. /\ c.parent = 0 \/ c.parent \in 1 .. n
      /\ \A i \in 1 .. n : L[i].parent = 0 \/ L[i].parent \in 1 .. n
  BY <1>1
<1> HIDE DEF n, M, h
<1>4. ASSUME NEW i \in 1 .. n + 1 PROVE h[i] = Walk(M, h, i)
  <2>1. CASE i = n + 1
    <3>1. c.parent = 0 \/ h[c.parent] = f[c.parent]
      BY ONLY <1>2, <1>p
    <3> QED
      BY ONLY <3>1, <2>1, <1>1, <1>2 DEF Walk
  <2>2. CASE i \in 1 .. n
    <3>1. L[i].parent = 0 \/ h[L[i].parent] = f[L[i].parent]
      BY ONLY <1>2, <1>p, <2>2
    <3>2. h[i] = f[i] /\ f[i] = Walk(L, f, i) /\ M[i] = L[i]
      BY <1>1, <1>2, <1>3, <2>2
    <3> QED
      BY ONLY <3>1, <3>2 DEF Walk
  <2> QED
    BY <1>1, <2>1, <2>2
<1>5. IsLine(M, h)
  <2>1. h = [i \in 1 .. n + 1 |-> Walk(M, h, i)]
    BY ONLY <1>2, <1>4
  <2> QED
    BY ONLY <2>1, <1>1 DEF IsLine
<1>6. ASSUME NEW g, IsLine(M, g) PROVE g = h
  <2> DEFINE r == [i \in 1 .. n |-> g[i]]
  <2>1. g = [i \in 1 .. n + 1 |-> Walk(M, g, i)]
    BY ONLY <1>6, <1>1 DEF IsLine
  <2>2. \A i \in 1 .. n + 1 : g[i] = Walk(M, g, i)
    BY ONLY <2>1
  <2>g. g = [i \in 1 .. n + 1 |-> g[i]]
    BY ONLY <2>1
  <2>r. \A i \in 1 .. n : r[i] = g[i]
    OBVIOUS
  <2>s. r = [i \in 1 .. n |-> r[i]]
    OBVIOUS
  <2> HIDE DEF r
  <2>3. ASSUME NEW i \in 1 .. n PROVE r[i] = Walk(L, r, i)
    <3>1. L[i].parent = 0 \/ r[L[i].parent] = g[L[i].parent]
      BY ONLY <1>p, <2>r, i \in 1 .. n
    <3>2. i \in 1 .. n + 1
      BY <1>1
    <3>3. r[i] = g[i] /\ g[i] = Walk(M, g, i) /\ M[i] = L[i]
      BY <1>1, <2>2, <2>r, <3>2
    <3> QED
      BY ONLY <3>1, <3>3 DEF Walk
  <2>4. IsLine(L, r)
    <3>1. r = [i \in 1 .. n |-> Walk(L, r, i)]
      BY ONLY <2>s, <2>3
    <3> QED
      BY <3>1 DEF IsLine, n
  <2>5. r = f
    BY ONLY <2>4, <1>3
  <2>6. ASSUME NEW i \in 1 .. n PROVE g[i] = h[i]
    BY <2>5, <2>r, <1>2
  <2>7. g[n + 1] = h[n + 1]
    <3>1. c.parent = 0 \/ g[c.parent] = f[c.parent]
      BY <1>1, <1>p, <2>r, <2>5
    <3>2. g[n + 1] = Walk(M, g, n + 1)
      BY <2>2, <1>1
    <3> QED
      BY ONLY <3>1, <3>2, <1>1, <1>2 DEF Walk
  <2>8. \A i \in 1 .. n + 1 : g[i] = h[i]
    BY <2>6, <2>7, <1>1
  <2> QED
    BY ONLY <2>8, <2>g, <1>2
<1>7. IsTheLine(M, h)
  BY ONLY <1>5, <1>6 DEF IsTheLine
<1> QED
  BY <1>7, <1>2 DEF n, M


\* The lineages after a step that leaves the ledger alone, or appends to it.
LEMMA LineageFollows ==
  ASSUME AuthorityInv, Mint
  PROVE  /\ LineInv' /\ ParentsInv'
         /\ ledger' \in Seq(Cap) /\ Len(ledger') >= Len(ledger)
         /\ \A i \in Minted : Lineage'[i] = Lineage[i] /\ ledger'[i] = ledger[i]
         /\ \A i \in Minted' \ Minted :
              \/ Lineage'[i] = {i}
              \/ \E id \in Minted :
                   /\ Lineage'[i] = {i} \cup Lineage[id]
                   /\ ledger'[i].chan = ledger[id].chan
                   /\ ledger'[i].rights \subseteq ledger[id].rights
<1>l. /\ ledger \in Seq(Cap) /\ Len(ledger) \in Nat /\ Len(ledger) <= MaxCaps
      /\ IsTheLine(ledger, Lineage)
      /\ \A i \in 1 .. Len(ledger) : ledger[i].parent \in 0 .. Len(ledger)
  BY DEF AuthorityInv, IInv, TypeOK, CapTypeOK, LineInv, ParentsInv, Minted
<1>c. Lineage' = CHOOSE g : IsLine(ledger', g)
  BY DEF Lineage, IsLine, Walk, Minted
<1>d. ASSUME NEW h, IsTheLine(ledger', h) PROVE Lineage' = h /\ LineInv'
  <2>1. IsLine(ledger', h) /\ \A g : IsLine(ledger', g) => g = h
    BY <1>d DEF IsTheLine
  <2>2. Lineage' = h
    BY ONLY <2>1, <1>c
  <2> QED
    BY <2>2, <1>d DEF LineInv
<1>a. ASSUME NEW c \in Cap, ledger' = Append(ledger, c), c.parent \in 0 .. Len(ledger)
      PROVE  /\ LineInv' /\ ParentsInv' /\ ledger' \in Seq(Cap)
             /\ Len(ledger') = Len(ledger) + 1
             /\ \A i \in Minted : Lineage'[i] = Lineage[i] /\ ledger'[i] = ledger[i]
             /\ ledger'[Len(ledger) + 1] = c
             /\ Lineage'[Len(ledger) + 1] = {Len(ledger) + 1} \cup
                    IF c.parent = 0 THEN {} ELSE Lineage[c.parent]
  <2>1. PICK h : /\ IsTheLine(Append(ledger, c), h)
                 /\ \A i \in 1 .. Len(ledger) : h[i] = Lineage[i]
                 /\ h[Len(ledger) + 1] = {Len(ledger) + 1} \cup
                        IF c.parent = 0 THEN {} ELSE Lineage[c.parent]
    <3> HIDE DEF Lineage
    <3> QED
      BY <1>l, <1>a, LineGrows
  <2>2. Lineage' = h /\ LineInv'
    BY <2>1, <1>a, <1>d
  <2>3. /\ ledger' \in Seq(Cap) /\ Len(ledger') = Len(ledger) + 1
        /\ \A i \in 1 .. Len(ledger) : ledger'[i] = ledger[i]
        /\ ledger'[Len(ledger) + 1] = c
    BY <1>l, <1>a
  <2>4. ParentsInv'
    BY <2>3, <1>l, <1>a DEF ParentsInv, Minted
  <2> QED
    BY ONLY <2>1, <2>2, <2>3, <2>4 DEF Minted
<1>1. CASE \E ch \in Channels, rights \in SUBSET Rights \ {{}} : Root(ch, rights)
  <2>1. PICK ch \in Channels, rights \in SUBSET Rights : Root(ch, rights)
    BY <1>1
  <2> DEFINE c == [parent |-> 0, chan |-> ch, rights |-> rights]
  <2>2. c \in Cap /\ c.parent = 0
    BY CapabilitiesAssumption DEF Cap
  <2>3. ledger' = Append(ledger, c)
    BY <2>1 DEF Root
  <2> HIDE DEF c
  <2>4. c.parent \in 0 .. Len(ledger)
    BY <2>2, <1>l
  <2>5. /\ LineInv' /\ ParentsInv' /\ ledger' \in Seq(Cap)
        /\ Len(ledger') = Len(ledger) + 1
        /\ \A i \in Minted : Lineage'[i] = Lineage[i] /\ ledger'[i] = ledger[i]
        /\ Lineage'[Len(ledger) + 1] = {Len(ledger) + 1}
    <3>1. /\ LineInv' /\ ParentsInv' /\ ledger' \in Seq(Cap)
          /\ Len(ledger') = Len(ledger) + 1
          /\ \A i \in Minted : Lineage'[i] = Lineage[i] /\ ledger'[i] = ledger[i]
          /\ Lineage'[Len(ledger) + 1] = {Len(ledger) + 1} \cup
                    IF c.parent = 0 THEN {} ELSE Lineage[c.parent]
      BY <2>2, <2>3, <2>4, <1>a
    <3> QED
      BY ONLY <3>1, <2>2
  <2>6. \A i \in Minted' \ Minted : i = Len(ledger) + 1
    BY ONLY <2>5, <1>l DEF Minted
  <2>7. Len(ledger') >= Len(ledger)
    BY <2>5, <1>l
  <2> QED
    BY ONLY <2>5, <2>6, <2>7
<1>2. CASE \E id \in Minted, rights \in SUBSET Rights \ {{}} : Derive(id, rights)
  <2>1. PICK id \in Minted, rights \in SUBSET Rights : Derive(id, rights)
    BY <1>2
  <2> DEFINE c == [parent |-> id, chan |-> ledger[id].chan,
                   rights |-> ledger[id].rights \cap rights]
  <2>0. ledger[id] \in Cap /\ id \in 1 .. Len(ledger) /\ id \in 0 .. MaxCaps
    BY <1>l, CapabilitiesAssumption DEF Minted
  <2>2. /\ c \in Cap /\ c.parent = id /\ c.chan = ledger[id].chan
        /\ c.rights \subseteq ledger[id].rights
    BY <2>0 DEF Cap
  <2>3. ledger' = Append(ledger, c)
    BY <2>1 DEF Derive
  <2> HIDE DEF c
  <2>4. c.parent \in 0 .. Len(ledger) /\ c.parent # 0
    BY <2>2, <2>0, <1>l
  <2>5. /\ LineInv' /\ ParentsInv' /\ ledger' \in Seq(Cap)
        /\ Len(ledger') = Len(ledger) + 1
        /\ \A i \in Minted : Lineage'[i] = Lineage[i] /\ ledger'[i] = ledger[i]
        /\ Lineage'[Len(ledger) + 1] = {Len(ledger) + 1} \cup Lineage[id]
        /\ ledger'[Len(ledger) + 1] = c
    <3>1. /\ LineInv' /\ ParentsInv' /\ ledger' \in Seq(Cap)
          /\ Len(ledger') = Len(ledger) + 1
          /\ \A i \in Minted : Lineage'[i] = Lineage[i] /\ ledger'[i] = ledger[i]
          /\ ledger'[Len(ledger) + 1] = c
          /\ Lineage'[Len(ledger) + 1] = {Len(ledger) + 1} \cup
                    IF c.parent = 0 THEN {} ELSE Lineage[c.parent]
      BY <2>2, <2>3, <2>4, <1>a
    <3> QED
      BY ONLY <3>1, <2>2, <2>4
  <2>6. \A i \in Minted' \ Minted : i = Len(ledger) + 1
    BY ONLY <2>5, <1>l DEF Minted
  <2>7. Len(ledger') >= Len(ledger)
    BY <2>5, <1>l
  <2> QED
    BY ONLY <2>2, <2>5, <2>6, <2>7, <2>1
<1>3. CASE \E p \in Procs, id \in Minted : StartProcess(p, id)
  <2>1. ledger' = ledger
    BY <1>3 DEF StartProcess
  <2>2. Lineage' = Lineage /\ LineInv'
    BY <2>1, <1>l, <1>d
  <2>3. ParentsInv'
    BY <2>1, <1>l DEF ParentsInv, Minted
  <2>4. Minted' = Minted
    BY <2>1 DEF Minted
  <2>5. Len(ledger') >= Len(ledger)
    BY <2>1, <1>l
  <2> QED
    BY ONLY <2>1, <2>2, <2>3, <2>4, <2>5, <1>l
<1> QED
  BY <1>1, <1>2, <1>3 DEF Mint

\* An empty ledger has the empty function for its lineages.
LEMMA InitAuthorised == Init => AuthorityInv
<1> SUFFICES ASSUME Init PROVE AuthorityInv
  OBVIOUS
<1>1. IInv
  BY InitEstablishes
<1>2. ledger = << >> /\ Len(ledger) = 0 /\ \A i \in 1 .. Len(ledger) : FALSE
  BY DEF Init, CapInit
<1>3. LineInv
  <2> DEFINE f == [i \in 1 .. Len(ledger) |-> {}]
  <2>1. \A g : IsLine(ledger, g) <=> g = f
    BY <1>2 DEF IsLine
  <2> HIDE DEF f
  <2>2. Lineage = CHOOSE g : IsLine(ledger, g)
    BY DEF Lineage, IsLine, Walk, Minted
  <2>3. Lineage = f
    BY ONLY <2>1, <2>2
  <2> QED
    BY ONLY <2>1, <2>3 DEF LineInv, IsTheLine
<1>4. ParentsInv /\ DelegationInv
  BY <1>2 DEF ParentsInv, DelegationInv, Minted
<1>5. SendersInv /\ SubtreeIsDead
  BY DEF Init, CapInit, SendersInv, SubtreeIsDead
<1> QED
  BY <1>1, <1>3, <1>4, <1>5 DEF AuthorityInv

\* A step that leaves the ledger alone leaves every lineage alone.
LEMMA LineageStays ==
  ASSUME ParentsInv, LineInv, DelegationInv, ledger' = ledger
  PROVE  Lineage' = Lineage /\ ParentsInv' /\ LineInv' /\ DelegationInv'
<1>1. Lineage' = Lineage /\ Minted' = Minted
  BY DEF Lineage, Minted
<1>2. ParentsInv'
  BY <1>1 DEF ParentsInv
<1>3. LineInv'
  BY <1>1 DEF LineInv
<1>4. DelegationInv'
  BY <1>1 DEF DelegationInv
<1> QED
  BY <1>1, <1>2, <1>3, <1>4

\* What derive_for() mints has no more authority than what it came from, and
\* what start_process() installs has not been cut.
LEMMA MintKeepsAuthority == ASSUME AuthorityInv, Mint PROVE AuthorityInv'
<1>1. IInv /\ IInv'
  BY MintPreserves DEF AuthorityInv
<1>2. /\ LineInv' /\ ParentsInv'
      /\ ledger' \in Seq(Cap) /\ Len(ledger') >= Len(ledger)
      /\ \A i \in Minted : Lineage'[i] = Lineage[i] /\ ledger'[i] = ledger[i]
      /\ \A i \in Minted' \ Minted :
           \/ Lineage'[i] = {i}
           \/ \E id \in Minted :
                /\ Lineage'[i] = {i} \cup Lineage[id]
                /\ ledger'[i].chan = ledger[id].chan
                /\ ledger'[i].rights \subseteq ledger[id].rights
  BY LineageFollows
<1>l. Len(ledger) \in Nat /\ Len(ledger') \in Nat
  BY <1>1, <1>2 DEF IInv, TypeOK, CapTypeOK
<1>m. Minted \subseteq Minted'
  BY <1>2, <1>l DEF Minted
<1>3. DelegationInv'
  <2>d. \A i \in Minted :
          /\ i \in Lineage[i] /\ Lineage[i] \subseteq Minted
          /\ \A a \in Lineage[i] : /\ ledger[a].chan = ledger[i].chan
                                   /\ ledger[i].rights \subseteq ledger[a].rights
    BY DEF AuthorityInv, DelegationInv
  <2> SUFFICES ASSUME NEW i \in Minted'
               PROVE  /\ i \in Lineage'[i] /\ Lineage'[i] \subseteq Minted'
                      /\ \A a \in Lineage'[i] :
                           /\ ledger'[a].chan = ledger'[i].chan
                           /\ ledger'[i].rights \subseteq ledger'[a].rights
    BY DEF DelegationInv
  <2>1. CASE i \in Minted
    <3>1. Lineage'[i] = Lineage[i] /\ \A a \in Lineage[i] \cup {i} : ledger'[a] = ledger[a]
      BY ONLY <1>2, <2>1, <2>d
    <3> QED
      BY ONLY <3>1, <2>1, <2>d, <1>m
  <2>2. CASE i \notin Minted /\ Lineage'[i] = {i}
    BY ONLY <2>2, i \in Minted'
  <2>3. CASE i \notin Minted /\ \E id \in Minted :
               /\ Lineage'[i] = {i} \cup Lineage[id]
               /\ ledger'[i].chan = ledger[id].chan
               /\ ledger'[i].rights \subseteq ledger[id].rights
    <3>1. PICK id \in Minted : /\ Lineage'[i] = {i} \cup Lineage[id]
                               /\ ledger'[i].chan = ledger[id].chan
                               /\ ledger'[i].rights \subseteq ledger[id].rights
      BY <2>3
    <3>2. \A a \in Lineage[id] :
            /\ a \in Minted /\ ledger'[a].chan = ledger[id].chan
            /\ ledger[id].rights \subseteq ledger'[a].rights
      BY ONLY <1>2, <2>d, id \in Minted
    <3> QED
      BY ONLY <3>1, <3>2, <1>m, i \in Minted'
  <2> QED
    BY ONLY <2>1, <2>2, <2>3, <1>2, i \in Minted'
<1>s. /\ UNCHANGED <<queue, at, chan, revoked, cut>>
      /\ \A p \in Procs : slot[p] # NoCap => slot[p] \in Minted /\ slot'[p] = slot[p]
      /\ \A p \in Procs : slot'[p] # slot[p] => slot'[p] \in Minted /\ ~IsCut(slot'[p])
  <2>1. UNCHANGED <<queue, at, chan, revoked, cut>>
    BY DEF Mint, ipcvars, Root, Derive, StartProcess
  <2>2. slot \in [Procs -> 0 .. MaxCaps] /\ \A p \in Procs : slot[p] <= Len(ledger)
    BY <1>1 DEF IInv, TypeOK, CapTypeOK, SlotsAreMinted
  <2>3. \A p \in Procs : slot[p] # NoCap => slot[p] \in Minted
    BY <2>2, <1>l, CapabilitiesAssumption DEF Minted, NoCap
  <2>4. CASE slot' = slot
    BY <2>1, <2>3, <2>4
  <2>5. CASE \E p \in Procs, id \in Minted : StartProcess(p, id)
    <3>1. PICK q \in Procs, id \in Minted : StartProcess(q, id)
      BY <2>5
    <3>2. slot[q] = NoCap /\ ~IsCut(id) /\ slot' = [slot EXCEPT ![q] = id]
      BY <3>1 DEF StartProcess
    <3>3. \A p \in Procs : slot'[p] = IF p = q THEN id ELSE slot[p]
      BY <3>2, <2>2
    <3> HIDE DEF IsCut
    <3> QED
      BY ONLY <2>1, <2>3, <3>2, <3>3, id \in Minted
  <2> QED
    BY <2>4, <2>5 DEF Mint, Root, Derive
<1>4. SubtreeIsDead'
  <2> SUFFICES ASSUME NEW p \in Procs, slot'[p] # NoCap, Lineage'[slot'[p]] \cap cut' # {}
               PROVE  p \in revoked'
    BY DEF SubtreeIsDead, IsCut
  <2>1. slot'[p] \in Minted /\ cut' = cut /\ revoked' = revoked
    BY ONLY <1>s, slot'[p] # NoCap, p \in Procs
  <2>2. IsCut(slot'[p])
    BY ONLY <2>1, <1>2, Lineage'[slot'[p]] \cap cut' # {} DEF IsCut
  <2>3. slot'[p] = slot[p] /\ slot[p] # NoCap
    BY ONLY <2>2, <1>s, slot'[p] # NoCap, p \in Procs
  <2> QED
    BY <2>1, <2>2, <2>3 DEF AuthorityInv, SubtreeIsDead
<1>5. SendersInv'
  <2>1. \A p \in Procs : \A ch : MaySend(p, ch) => MaySend(p, ch)'
    <3> SUFFICES ASSUME NEW p \in Procs, NEW ch, MaySend(p, ch) PROVE MaySend(p, ch)'
      OBVIOUS
    <3>1. slot'[p] = slot[p] /\ ledger'[slot[p]] = ledger[slot[p]]
      BY <1>s, <1>2 DEF MaySend
    <3> QED
      BY <3>1 DEF MaySend
  <2>2. queue \in [Channels -> Seq(Procs)]
    BY <1>1 DEF IInv, TypeOK
  <2>3. \A ch \in Channels : \A k \in 1 .. Len(queue[ch]) : queue[ch][k] \in Procs
    BY <2>2
  <2>4. SendersInv /\ at' = at /\ chan' = chan /\ queue' = queue
    BY <1>s DEF AuthorityInv
  <2> QED
    BY <2>1, <2>3, <2>4 DEF SendersInv
<1> QED
  BY <1>1, <1>2, <1>3, <1>4, <1>5 DEF AuthorityInv

\* revoke() tombstones every live copy of a capability with a cut ancestor.
LEMMA CutOffKeepsAuthority ==
  ASSUME AuthorityInv, NEW id \in Minted, CutOff(id)
  PROVE  AuthorityInv'
<1>1. IInv /\ IInv'
  BY CutOffPreserves DEF AuthorityInv
<1>2. UNCHANGED <<ledger, slot, queue, at, chan>>
  BY DEF CutOff, Revoke
<1>3. Lineage' = Lineage /\ ParentsInv' /\ LineInv' /\ DelegationInv'
  BY <1>2, LineageStays DEF AuthorityInv
<1>4. SubtreeIsDead'
  <2> SUFFICES ASSUME NEW p \in Procs, slot[p] # NoCap, Lineage[slot[p]] \cap cut' # {}
               PROVE  p \in revoked'
    BY <1>2, <1>3 DEF SubtreeIsDead, IsCut
  <2>1. cut' = cut \cup {id} /\ revoked' = revoked \cup Killed(id)
    BY DEF CutOff, Revoke
  <2>2. CASE id \in Lineage[slot[p]]
    BY <2>1, <2>2 DEF Killed, IsDescendant
  <2>3. CASE IsCut(slot[p])
    BY <2>1, <2>3 DEF AuthorityInv, SubtreeIsDead
  <2> QED
    BY <2>1, <2>2, <2>3 DEF IsCut
<1>5. SendersInv'
  BY <1>2 DEF AuthorityInv, SendersInv, MaySend
<1> QED
  BY <1>1, <1>3, <1>4, <1>5 DEF AuthorityInv

\* The syscalls read the tables and put only what they found there in a queue.
LEMMA CallsKeepAuthority ==
  ASSUME AuthorityInv, IInv', NEW p \in Procs, Sending(p) \/ Receiving(p) \/ Exit(p)
  PROVE  AuthorityInv'
<1> USE DEF capvars
<1>1. UNCHANGED <<ledger, slot, revoked, cut>>
  BY DEF Sending, Receiving, Exit, SendLookup, SendFaults, Enqueue, WakeReceivers,
         RecvCall, RecvLookup, TakeMessage, PrepareToWait, BlockReturns
<1>2. Lineage' = Lineage /\ ParentsInv' /\ LineInv' /\ DelegationInv'
  BY <1>1, LineageStays DEF AuthorityInv
<1>3. SubtreeIsDead'
  BY <1>1, <1>2 DEF AuthorityInv, SubtreeIsDead, IsCut
<1>m. \A q, ch : MaySend(q, ch)' <=> MaySend(q, ch)
  BY <1>1 DEF MaySend
<1>t. /\ queue \in [Channels -> Seq(Procs)]
      /\ chan \in [Procs -> Channels \cup {NoChannel}]
      /\ at \in [Procs -> {"user", "send", "wake", "lookup", "recv", "wait", "gone"}]
  BY DEF AuthorityInv, IInv, TypeOK
<1>s. /\ \A q \in Procs : at[q] = "send" => MaySend(q, chan[q])
      /\ \A ch \in Channels : \A k \in 1 .. Len(queue[ch]) : MaySend(queue[ch][k], ch)
  BY DEF AuthorityInv, SendersInv
<1>4. \A q \in Procs : at'[q] = "send" => MaySend(q, chan'[q])
  <2>1. CASE SendLookup(p)
    BY <2>1, <1>s, <1>t DEF SendLookup, Goto, MaySend, Allows
  <2>2. CASE ~SendLookup(p)
    BY <2>2, <1>s, <1>t DEF Sending, Receiving, Exit, SendFaults, Enqueue, WakeReceivers,
         RecvCall, RecvLookup, TakeMessage, PrepareToWait, BlockReturns, Goto, Return
  <2> QED
    BY <2>1, <2>2
<1>5. \A ch \in Channels : \A k \in 1 .. Len(queue'[ch]) : MaySend(queue'[ch][k], ch)
  <2>1. CASE Enqueue(p)
    <3>1. queue' = [queue EXCEPT ![chan[p]] = Append(@, p)] /\ MaySend(p, chan[p])
      BY <2>1, <1>s DEF Enqueue
    <3>2. ASSUME NEW ch \in Channels, NEW k \in 1 .. Len(queue'[ch])
          PROVE  MaySend(queue'[ch][k], ch)
      <4>1. CASE ch = chan[p]
        <5>1. queue[ch] \in Seq(Procs) /\ queue'[ch] = Append(queue[ch], p)
          BY <4>1, <3>1, <1>t
        <5>2. queue'[ch][k] = p \/ (k \in 1 .. Len(queue[ch]) /\ queue'[ch][k] = queue[ch][k])
          BY <5>1
        <5> QED
          BY <5>2, <4>1, <3>1, <1>s
      <4>2. CASE ch # chan[p]
        BY <4>2, <3>1, <1>s, <1>t
      <4> QED
        BY <4>1, <4>2
    <3> QED
      BY <3>2
  <2>2. CASE TakeMessage(p)
    <3>1. /\ queue' = [queue EXCEPT ![chan[p]] = Tail(@)]
          /\ at[p] = "recv" /\ queue[chan[p]] # << >>
      BY <2>2 DEF TakeMessage
    <3>2. ASSUME NEW ch \in Channels, NEW k \in 1 .. Len(queue'[ch])
          PROVE  MaySend(queue'[ch][k], ch)
      <4>1. CASE ch = chan[p]
        <5>1. /\ queue[ch] \in Seq(Procs) /\ queue[ch] # << >>
              /\ queue'[ch] = Tail(queue[ch])
          BY <4>1, <3>1, <1>t
        <5>2. k + 1 \in 1 .. Len(queue[ch]) /\ queue'[ch][k] = queue[ch][k + 1]
          BY <5>1
        <5> QED
          BY <5>2, <1>s
      <4>2. CASE ch # chan[p]
        BY <4>2, <3>1, <1>s, <1>t
      <4> QED
        BY <4>1, <4>2
    <3> QED
      BY <3>2
  <2>3. CASE queue' = queue
    BY <2>3, <1>s
  <2> QED
    BY <2>1, <2>2, <2>3 DEF Sending, Receiving, Exit, SendLookup, SendFaults, WakeReceivers,
         RecvCall, RecvLookup, PrepareToWait, BlockReturns
<1>6. SendersInv'
  BY <1>m, <1>4, <1>5 DEF SendersInv
<1> QED
  BY <1>2, <1>3, <1>6 DEF AuthorityInv

\* Every step keeps what the tables, the ledger and the queues say together.
LEMMA NextKeepsAuthority == AuthorityInv /\ [Next]_vars => AuthorityInv'
<1> SUFFICES ASSUME AuthorityInv, [Next]_vars PROVE AuthorityInv'
  OBVIOUS
<1>1. IInv'
  BY NextPreserves DEF AuthorityInv
<1>2. CASE \E ch \in Channels : RevokeWakes(ch)
  <2>1. UNCHANGED <<ledger, slot, revoked, cut, queue, at, chan>>
    BY <1>2 DEF RevokeWakes
  <2>2. Lineage' = Lineage /\ ParentsInv' /\ LineInv' /\ DelegationInv'
    BY <2>1, LineageStays DEF AuthorityInv
  <2>3. SubtreeIsDead'
    BY <2>1, <2>2 DEF AuthorityInv, SubtreeIsDead, IsCut
  <2>4. SendersInv'
    BY <2>1 DEF AuthorityInv, SendersInv, MaySend
  <2> QED
    BY <1>1, <2>2, <2>3, <2>4 DEF AuthorityInv
<1>3. CASE UNCHANGED vars
  <2>1. UNCHANGED <<ledger, slot, revoked, cut, queue, at, chan>>
    BY <1>3 DEF vars, capvars, ipcvars
  <2>2. Lineage' = Lineage /\ ParentsInv' /\ LineInv' /\ DelegationInv'
    BY <2>1, LineageStays DEF AuthorityInv
  <2>3. SubtreeIsDead'
    BY <2>1, <2>2 DEF AuthorityInv, SubtreeIsDead, IsCut
  <2>4. SendersInv'
    BY <2>1 DEF AuthorityInv, SendersInv, MaySend
  <2> QED
    BY <1>1, <2>2, <2>3, <2>4 DEF AuthorityInv
<1>4. CASE Kernel
  BY <1>4, <1>2, MintKeepsAuthority, CutOffKeepsAuthority DEF Kernel
<1>5. CASE \E p \in Procs : Sending(p) \/ Receiving(p) \/ Exit(p)
  BY <1>1, <1>5, CallsKeepAuthority
<1> QED
  BY <1>3, <1>4, <1>5 DEF Next

\* The inductive invariant of delegation, revocation and the queues.
THEOREM AuthorityInvariance == Spec => []AuthorityInv
<1> QED
  BY InitAuthorised, NextKeepsAuthority, PTL DEF Spec

\* revoke() leaves no live copy of anything derived from what it cut, however
\* long the chain of derivations and whatever is minted afterwards.
THEOREM RevocationIsComplete == Spec => []SubtreeIsDead
<1>1. AuthorityInv => SubtreeIsDead
  BY DEF AuthorityInv
<1> QED
  BY AuthorityInvariance, <1>1, PTL

\* Every message in a queue was sent by a process whose capability, back to
\* the root it was derived from, is to that channel and may send.
THEOREM QueuedMessagesWereAllowed == Spec => []SendersWereAuthorised
<1>1. AuthorityInv => SendersWereAuthorised
  <2> SUFFICES ASSUME AuthorityInv, NEW ch \in Channels, NEW k \in 1 .. Len(queue[ch])
               PROVE  LET id == slot[queue[ch][k]] IN
                      /\ id # NoCap
                      /\ \A a \in Lineage[id] :
                           ledger[a].chan = ch /\ "send" \in ledger[a].rights
    BY DEF SendersWereAuthorised
  <2> DEFINE q == queue[ch][k]
  <2>1. q \in Procs /\ MaySend(q, ch)
    <3>1. queue[ch] \in Seq(Procs)
      BY DEF AuthorityInv, IInv, TypeOK
    <3> QED
      BY <3>1 DEF AuthorityInv, SendersInv
  <2>2. slot[q] \in Minted
    BY <2>1, CapabilitiesAssumption
       DEF MaySend, AuthorityInv, IInv, TypeOK, CapTypeOK, SlotsAreMinted, Minted, NoCap
  <2> HIDE DEF q
  <2>3. \A a \in Lineage[slot[q]] : ledger[a].chan = ch /\ "send" \in ledger[a].rights
    BY <2>1, <2>2 DEF AuthorityInv, DelegationInv, MaySend
  <2> QED
    BY <2>1, <2>3 DEF q, MaySend
<1> QED
  BY AuthorityInvariance, <1>1, PTL

=============================================================================
