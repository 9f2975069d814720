----------------------------- MODULE OtaProofs -----------------------------
(***************************************************************************)
(* The safety of A/B updates, for every MAX_TRIES and any number of failed *)
(* requests, on a device whose control sector can always be read: without  *)
(* that assumption the device is taken for a fresh one and ota.rs installs *)
(* the factory version over whatever slot A holds.                         *)
(***************************************************************************)
EXTENDS Ota, TLAPS

-----------------------------------------------------------------------------
(***************************************************************************)
(* The inductive invariant: what the control block in memory, which the    *)
(* boot acts on, has to do with the one on the disk at each point.         *)
(***************************************************************************)

\* The factory version is never on probation.
NotTheFactory ==
    \A s \in Slots :
        /\ ctl # NoControl /\ ctl.state[s] = "Unverified" => ctl.version[s] # Factory
        /\ c.state[s] = "Unverified" => c.version[s] # Factory

\* A boot acts on what it read, and reaches load() with a try left.
ActsOnTheDisk ==
    /\ pc \in {"off", "boot"} => c = Blank
    /\ pc \in {"decide", "load", "spend"} => ctl # NoControl /\ c = ctl
    /\ pc \in {"load", "spend"} => ~OutOfTries(c)
    /\ pc \in {"spend", "trying"} =>
        /\ ctl # NoControl
        /\ Matches(c, c.active)
        /\ c.version[c.active] # Factory
        /\ c.state[c.active] = "Unverified"

\* The slot s holds what both control blocks call successful, and the disk
\* boots it, now or after the probation of the other one.
SafeToLeave(s) ==
    /\ ctl # NoControl /\ Proven(s)
    /\ ctl.active = s \/ ctl.state[ctl.active] = "Unverified"
    /\ c.state[s] = "Successful" /\ c.version[s] = ctl.version[s]

\* An update is only ever written beside such a slot.
WritesBeside ==
    /\ pc = "service" => ctl # NoControl /\ (Offers => SafeToLeave(c.active))
    /\ pc \in {"wipe", "fill", "seal"} =>
        \/ ctl = NoControl /\ c = Blank /\ job = [slot |-> 0, version |-> Factory]
        \/ SafeToLeave(1 - job.slot) /\ job.version # Factory
    /\ pc = "seal" => img[job.slot] = job.version

IInv == /\ TypeOK /\ unspent <= faults
        /\ NotTheFactory /\ ActsOnTheDisk /\ WritesBeside
        /\ ProvenSystemRemains /\ TriesAreSpent

-----------------------------------------------------------------------------
\* A rollback, field by field.
LEMMA RollbackFields ==
    ASSUME NEW k \in Control, k.state[Other(k)] = "Successful"
    PROVE  /\ RolledBack(k) \in Control
           /\ RolledBack(k).active = Other(k) /\ RolledBack(k).version = k.version
           /\ RolledBack(k).state = [k.state EXCEPT ![k.active] = "Failed"]
<1> USE OtaAssumption DEF Slots, SlotState
<1> DEFINE st == [k.state EXCEPT ![k.active] = "Failed"]
           a  == [k EXCEPT !.state = st]
           b  == [a EXCEPT !.active = Other(k)]
           r  == [b EXCEPT !.rollbacks = 1]
<1>s. st \in [Slots -> SlotState] /\ Other(k) \in Slots
  BY DEF Control, Other
<1>1. a \in Control /\ a.state = st /\ a.active = k.active /\ a.version = k.version
  BY <1>s DEF Control
<1>2. b \in Control /\ b.state = st /\ b.active = Other(k) /\ b.version = k.version
  <2> HIDE DEF a, st
  <2> QED BY <1>s, <1>1 DEF Control
<1>3. r \in Control /\ r.state = st /\ r.active = Other(k) /\ r.version = k.version
  <2> HIDE DEF b, st
  <2> QED BY <1>s, <1>2 DEF Control
<1>4. RolledBack(k) = r
  BY DEF RolledBack, Control
<1> QED
  BY <1>3, <1>4

\* A confirmation, field by field.
LEMMA ConfirmFields ==
    ASSUME NEW k \in Control
    PROVE  /\ Confirmed(k) \in Control
           /\ Confirmed(k).active = k.active /\ Confirmed(k).version = k.version
           /\ Confirmed(k).state[k.active] = "Successful"
           /\ \A s \in Slots : Confirmed(k).state[s] # "Unverified" \/ k.state[s] = "Unverified"
<1> USE OtaAssumption DEF Slots, SlotState
<1> DEFINE st == [s \in Slots |-> IF s = k.active THEN "Successful"
                                  ELSE IF k.state[s] = "Successful" THEN "Empty" ELSE k.state[s]]
           a  == [k EXCEPT !.state = st]
           r  == [a EXCEPT !.tries = 0]
<1>s. /\ st \in [Slots -> SlotState] /\ st[k.active] = "Successful"
      /\ \A s \in Slots : st[s] # "Unverified" \/ k.state[s] = "Unverified"
  BY DEF Control
<1>1. a \in Control /\ a.state = st /\ a.active = k.active /\ a.version = k.version
  <2> HIDE DEF st
  <2> QED BY <1>s DEF Control
<1>2. r \in Control /\ r.state = st /\ r.active = k.active /\ r.version = k.version
  <2> HIDE DEF a, st
  <2> QED BY <1>1 DEF Control
<1>3. Confirmed(k) = r
  BY DEF Confirmed, Control
<1> HIDE DEF r, st
<1> QED
  BY <1>s, <1>2, <1>3

\* The control block stage() and initialise() write, field by field.
LEMMA PointFields ==
    ASSUME NEW k \in Control, job \in [slot : Slots, version : Versions]
    PROVE  LET p == PointedAt(k)
               verdict == IF job.version = Factory THEN "Successful" ELSE "Unverified"
           IN  /\ p \in Control /\ p.active = job.slot
               /\ p.state = [k.state EXCEPT ![job.slot] = verdict]
               /\ p.version = [k.version EXCEPT ![job.slot] = job.version]
               /\ p.tries = IF job.version = Factory THEN 0 ELSE MaxTries
<1> USE OtaAssumption DEF Slots, SlotState
<1> DEFINE verdict == IF job.version = Factory THEN "Successful" ELSE "Unverified"
           st == [k.state EXCEPT ![job.slot] = verdict]
           ve == [k.version EXCEPT ![job.slot] = job.version]
           tr == IF job.version = Factory THEN 0 ELSE MaxTries
           a  == [k EXCEPT !.active = job.slot]
           b  == [a EXCEPT !.version = ve]
           d  == [b EXCEPT !.state = st]
           r  == [d EXCEPT !.tries = tr]
<1>s. /\ st \in [Slots -> SlotState] /\ ve \in [Slots -> Versions \cup {0}]
      /\ tr \in 0 .. MaxTries /\ job.slot \in Slots
  BY DEF Control
<1>1. a \in Control /\ a.active = job.slot /\ a.version = k.version /\ a.state = k.state
  BY <1>s DEF Control
<1>2. b \in Control /\ b.active = job.slot /\ b.version = ve /\ b.state = k.state
  <2> HIDE DEF a, ve
  <2> QED BY <1>s, <1>1 DEF Control
<1>3. d \in Control /\ d.active = job.slot /\ d.version = ve /\ d.state = st
  <2> HIDE DEF b, ve, st
  <2> QED BY <1>s, <1>2 DEF Control
<1>4. r \in Control /\ r.active = job.slot /\ r.version = ve /\ r.state = st /\ r.tries = tr
  <2> HIDE DEF d, ve, st, tr
  <2> QED BY <1>s, <1>3 DEF Control
<1>5. PointedAt(k) = r
  BY DEF PointedAt, Control
<1> QED
  BY <1>4, <1>5

\* A try spent, field by field.
LEMMA SpentFields ==
    ASSUME NEW k \in Control
    PROVE  /\ Spent(k) \in Control /\ Spent(k).active = k.active
           /\ Spent(k).state = k.state /\ Spent(k).version = k.version
           /\ k.tries # 0 => Spent(k).tries = k.tries - 1
  BY OtaAssumption DEF Control, Spent

\* Control::blank() is a control block, with two empty slots.
LEMMA BlankOK == Blank \in Control /\ \A s \in Slots : Blank.state[s] = "Empty"
  BY OtaAssumption DEF Control, Blank, Slots, SlotState

\* A fresh device satisfies the invariant.
LEMMA InitIInv == Init => IInv
<1> SUFFICES ASSUME Init PROVE IInv
  OBVIOUS
<1>1. TypeOK
  BY OtaAssumption DEF Init, TypeOK, Blank, Control, Slots, SlotState, Versions, Factory,
     Faulty, Good, Mixed, PCs
<1>2. NotTheFactory /\ ActsOnTheDisk /\ WritesBeside /\ ProvenSystemRemains /\ TriesAreSpent
  BY BlankOK DEF Init, NotTheFactory, ActsOnTheDisk, WritesBeside, ProvenSystemRemains,
     TriesAreSpent, OnProbation
<1> QED
  BY <1>1, <1>2 DEF IInv, Init

-----------------------------------------------------------------------------
(***************************************************************************)
(* One lemma per action, or per group that touches the same things.        *)
(***************************************************************************)

\* Power comes and goes: only where the boot is, and memory, change.
LEMMA PowerPreserves == IInv /\ (PowerOn \/ PowerCut) => IInv'
<1> SUFFICES ASSUME IInv, PowerOn \/ PowerCut PROVE IInv'
  OBVIOUS
<1> USE DEF PowerOn, PowerCut
<1>1. TypeOK'
  BY BlankOK DEF IInv, TypeOK, PCs
<1>2. ActsOnTheDisk' /\ WritesBeside'
  BY DEF IInv, ActsOnTheDisk, WritesBeside
<1>3. NotTheFactory' /\ ProvenSystemRemains' /\ TriesAreSpent' /\ (unspent <= faults)'
  BY BlankOK DEF IInv, NotTheFactory, ProvenSystemRemains, TriesAreSpent, Proven, OnProbation,
     Matches, Other
<1> QED
  BY <1>1, <1>2, <1>3 DEF IInv

\* The control block is read; with none, memory still holds the blank one.
LEMMA ReadPreserves == IInv /\ ~ControlReadFaults /\ ReadControl => IInv'
<1> SUFFICES ASSUME IInv, ~ControlReadFaults, ReadControl PROVE IInv'
  OBVIOUS
<1>1. TypeOK'
  BY DEF IInv, TypeOK, ReadControl, PCs, Slots, Versions
<1>2. ActsOnTheDisk' /\ WritesBeside'
  BY DEF IInv, ActsOnTheDisk, WritesBeside, ReadControl
<1>3. NotTheFactory' /\ ProvenSystemRemains' /\ TriesAreSpent' /\ (unspent <= faults)'
  BY DEF IInv, NotTheFactory, ProvenSystemRemains, TriesAreSpent, Proven, OnProbation, Matches,
         Other, ReadControl
<1> QED
  BY <1>1, <1>2, <1>3 DEF IInv

\* Out of tries: the other slot is proven, so the rollback goes there.
LEMMA DecidePreserves == IInv /\ Decide => IInv'
<1> SUFFICES ASSUME IInv, Decide PROVE IInv'
  OBVIOUS
<1>t. /\ ctl \in Control /\ ctl # NoControl /\ c = ctl
      /\ img' = img /\ job' = job /\ attempts' = attempts /\ unspent' = unspent
  BY DEF IInv, TypeOK, ActsOnTheDisk, Decide
<1>1. CASE ~OutOfTries(c)
  <2>i. pc' = "load" /\ UNCHANGED <<ctl, c, faults>>
    BY <1>1 DEF Decide
  <2>1. TypeOK' /\ ActsOnTheDisk' /\ WritesBeside'
    BY <1>t, <1>1, <2>i DEF IInv, TypeOK, ActsOnTheDisk, WritesBeside, PCs, OutOfTries
  <2>2. NotTheFactory' /\ ProvenSystemRemains' /\ TriesAreSpent' /\ (unspent <= faults)'
    BY <1>t, <2>i DEF IInv, NotTheFactory, ProvenSystemRemains, TriesAreSpent, Proven,
       OnProbation, Matches, Other
  <2> QED
    BY <2>1, <2>2 DEF IInv
<1>2. CASE OutOfTries(c)
  <2> DEFINE k == RolledBack(c)
  <2>o. PICK o \in Slots : o = Other(c) /\ o # c.active /\ c.active \in Slots
    BY <1>t DEF Control, Other, Slots
  <2>p. Proven(o) /\ c.state[c.active] = "Unverified"
    BY <1>t, <1>2, <2>o DEF IInv, ProvenSystemRemains, OnProbation, OutOfTries, Proven
  <2>k. /\ k \in Control /\ k.active = o /\ k.version = c.version
        /\ k.state = [c.state EXCEPT ![c.active] = "Failed"]
    BY <1>t, <2>o, <2>p, RollbackFields DEF Proven
  <2>s. /\ k.state[o] = "Successful" /\ \A s \in Slots : k.state[s] # "Unverified"
        /\ k # NoControl
    <3> HIDE DEF k
    <3>1. c.state \in [Slots -> SlotState]
      BY <1>t DEF Control
    <3> QED
      BY <1>t, <2>k, <2>o, <2>p, <3>1, OtaAssumption DEF Proven, Slots, Other
  <2> HIDE DEF k
  <2>i. /\ c' = k /\ pc' = "service" /\ ctl' \in {ctl, k}
        /\ faults' \in 0 .. MaxFaults /\ faults <= faults'
    BY <1>2, <1>t, <2>k, <2>o, OtaAssumption DEF Decide, Lands, Errs, k, IInv, TypeOK
  <2>1. TypeOK'
    BY <1>t, <2>i, <2>k DEF IInv, TypeOK, PCs
  <2>2. NotTheFactory' /\ ActsOnTheDisk'
    BY <1>t, <2>i, <2>k, <2>s DEF IInv, NotTheFactory, ActsOnTheDisk
  <2>f. (unspent <= faults)'
    BY <1>t, <2>i, OtaAssumption DEF IInv, TypeOK
  <2>3. Proven(o)' /\ (ctl' = ctl \/ ctl' = k)
    BY <1>t, <2>i, <2>k, <2>p, <2>s, <2>o DEF Proven, Matches
  <2>4. SafeToLeave(c.active)'
    BY <1>t, <2>i, <2>k, <2>p, <2>s, <2>3, <2>o DEF SafeToLeave, Proven
  <2>5. WritesBeside'
    BY <2>i, <2>4, <1>t, <2>s DEF WritesBeside
  <2>6. ProvenSystemRemains' /\ TriesAreSpent'
    BY <1>t, <2>i, <2>k, <2>p, <2>s, <2>3, <2>o
       DEF IInv, ProvenSystemRemains, TriesAreSpent, OnProbation, Other
  <2> QED
    BY <2>1, <2>2, <2>f, <2>5, <2>6 DEF IInv
<1> QED
  BY <1>1, <1>2

\* The slot is measured; a proven one is what the disk boots.
LEMMA MeasurePreserves == IInv /\ Measure => IInv'
<1> SUFFICES ASSUME IInv, Measure PROVE IInv'
  OBVIOUS
<1>t. /\ ctl \in Control /\ ctl # NoControl /\ c = ctl /\ ~OutOfTries(c)
      /\ UNCHANGED <<ctl, img, c, job, attempts, unspent>>
      /\ faults' \in 0 .. MaxFaults /\ faults <= faults'
      /\ \/ pc' = "service"
         \/ pc' = "spend" /\ Matches(c, c.active) /\ c.state[c.active] = "Unverified"
  BY OtaAssumption DEF IInv, TypeOK, ActsOnTheDisk, Measure
<1>1. TypeOK' /\ NotTheFactory' /\ (unspent <= faults)'
  BY <1>t DEF IInv, TypeOK, NotTheFactory, PCs
<1>2. ActsOnTheDisk'
  BY <1>t DEF IInv, ActsOnTheDisk, NotTheFactory, OutOfTries, Matches, Control, Slots
<1>3. ProvenSystemRemains' /\ TriesAreSpent'
  BY <1>t DEF IInv, ProvenSystemRemains, TriesAreSpent, Proven, OnProbation, Matches, Other
<1>4. Offers => SafeToLeave(c.active)
  BY <1>t DEF IInv, Offers, SafeToLeave, ProvenSystemRemains, OnProbation
<1>5. WritesBeside'
  BY <1>t, <1>4 DEF WritesBeside, Offers, SafeToLeave, Proven, Matches
<1> QED
  BY <1>1, <1>2, <1>3, <1>5 DEF IInv

\* A boot on probation: one try fewer on the disk, or one more unspent.
LEMMA SpendPreserves == IInv /\ Spend => IInv'
<1> SUFFICES ASSUME IInv, Spend PROVE IInv'
  OBVIOUS
<1> DEFINE k == Spent(c)
<1>t. /\ ctl \in Control /\ ctl # NoControl /\ c = ctl /\ ctl.tries \in Nat \ {0}
      /\ Matches(c, c.active) /\ c.version[c.active] # Factory
      /\ c.state[c.active] = "Unverified"
      /\ attempts \in Nat /\ unspent \in Nat /\ faults \in Nat /\ unspent <= faults
      /\ MaxTries \in Nat
  BY OtaAssumption DEF IInv, TypeOK, ActsOnTheDisk, Spend, OutOfTries, Control
<1>k. /\ k \in Control /\ k.active = c.active /\ k.state = c.state /\ k.version = c.version
      /\ k.tries = c.tries - 1 /\ k # NoControl
  BY <1>t, SpentFields, OtaAssumption
<1> HIDE DEF k
<1>i. /\ c' = k /\ pc' = "trying" /\ attempts' = attempts + 1 /\ img' = img /\ job' = job
      /\ \/ ctl' = k /\ unspent' = unspent /\ faults' \in {faults, faults + 1}
         \/ ctl' = ctl /\ unspent' = unspent + 1 /\ faults' = faults + 1
      /\ faults' \in 0 .. MaxFaults
  BY OtaAssumption DEF Spend, Lands, Errs, k, IInv, TypeOK
<1>1. TypeOK' /\ (unspent <= faults)'
  BY <1>t, <1>k, <1>i, OtaAssumption DEF IInv, TypeOK, PCs
<1>2. NotTheFactory' /\ ActsOnTheDisk' /\ WritesBeside'
  BY <1>t, <1>k, <1>i DEF IInv, NotTheFactory, ActsOnTheDisk, WritesBeside, Matches
<1>3. ProvenSystemRemains'
  BY <1>t, <1>k, <1>i DEF IInv, ProvenSystemRemains, OnProbation, Proven, Matches, Other
<1>4. ctl.tries + attempts <= MaxTries + unspent
  BY <1>t DEF IInv, TriesAreSpent, OnProbation
<1>5. ctl'.tries + attempts' <= MaxTries + unspent'
  BY <1>t, <1>k, <1>i, <1>4
<1>6. TriesAreSpent'
  BY <1>5 DEF TriesAreSpent
<1> QED
  BY <1>1, <1>2, <1>3, <1>6 DEF IInv

\* The slot that came up holds what the control block says, and is no
\* factory version: the update service has nothing more to offer.
LEMMA ConfirmPreserves == IInv /\ (Confirm \/ SelfTestFails) => IInv'
<1> SUFFICES ASSUME IInv, Confirm \/ SelfTestFails PROVE IInv'
  OBVIOUS
<1>t. /\ c \in Control /\ ctl \in Control /\ ctl # NoControl /\ Matches(c, c.active)
      /\ c.version[c.active] # Factory /\ c.state[c.active] = "Unverified"
      /\ pc' = "service" /\ UNCHANGED <<img, job, attempts, unspent>>
  BY DEF IInv, TypeOK, ActsOnTheDisk, Confirm, SelfTestFails
<1>1. CASE SelfTestFails
  <2>i. UNCHANGED <<ctl, c, faults>>
    BY <1>1 DEF SelfTestFails
  <2>1. TypeOK' /\ ActsOnTheDisk' /\ WritesBeside'
    BY <1>t, <2>i DEF IInv, TypeOK, ActsOnTheDisk, WritesBeside, PCs, Offers
  <2>2. NotTheFactory' /\ ProvenSystemRemains' /\ TriesAreSpent' /\ (unspent <= faults)'
    BY <1>t, <2>i DEF IInv, NotTheFactory, ProvenSystemRemains, TriesAreSpent, Proven,
       OnProbation, Matches, Other
  <2> QED
    BY <2>1, <2>2 DEF IInv
<1>2. CASE Confirm
  <2> DEFINE k == Confirmed(c)
  <2>k. /\ k \in Control /\ k # NoControl /\ k.active = c.active /\ k.version = c.version
        /\ k.state[c.active] = "Successful"
    BY <1>t, ConfirmFields, OtaAssumption
  <2>u. \A s \in Slots : k.state[s] # "Unverified" \/ c.state[s] = "Unverified"
    BY <1>t, ConfirmFields
  <2> HIDE DEF k
  <2>i. /\ c' = k /\ ctl' \in {ctl, k}
        /\ faults' \in 0 .. MaxFaults /\ faults <= faults'
    BY <1>2, OtaAssumption DEF Confirm, Lands, Errs, k, IInv, TypeOK
  <2>1. TypeOK'
    BY <1>t, <2>i, <2>k DEF IInv, TypeOK, PCs
  <2>2. ActsOnTheDisk' /\ WritesBeside'
    BY <1>t, <2>i, <2>k DEF ActsOnTheDisk, WritesBeside, Offers
  <2>3. (unspent <= faults)'
    BY <1>t, <2>i, OtaAssumption DEF IInv, TypeOK
  <2>4. NotTheFactory'
    BY <1>t, <2>i, <2>k, <2>u DEF IInv, NotTheFactory, ActsOnTheDisk
  <2>5. ProvenSystemRemains' /\ TriesAreSpent'
    BY <1>t, <2>i, <2>k DEF IInv, ProvenSystemRemains, TriesAreSpent, Proven, OnProbation,
       Matches, Other
  <2> QED
    BY <2>1, <2>2, <2>3, <2>4, <2>5 DEF IInv
<1> QED
  BY <1>1, <1>2

\* An update is offered into the slot beside the one that is safe to leave.
LEMMA ServicePreserves == IInv /\ Service => IInv'
<1> SUFFICES ASSUME IInv, Service PROVE IInv'
  OBVIOUS
<1>t. /\ c \in Control /\ ctl # NoControl /\ UNCHANGED <<ctl, img, c, faults, attempts, unspent>>
      /\ Offers => SafeToLeave(c.active)
  BY DEF IInv, TypeOK, WritesBeside, Service
<1>1. TypeOK'
  BY <1>t DEF IInv, TypeOK, Service, PCs, Target, Other, Control, Slots, Versions
<1>2. ActsOnTheDisk'
  BY DEF ActsOnTheDisk, Service
<1>3. NotTheFactory' /\ ProvenSystemRemains' /\ TriesAreSpent' /\ (unspent <= faults)'
  BY <1>t DEF IInv, NotTheFactory, ProvenSystemRemains, TriesAreSpent, Proven, OnProbation,
     Matches, Other
<1>4. CASE Offers
  <2>1. /\ job'.slot = 1 - c.active /\ job'.version # Factory
        /\ pc' = "wipe" /\ c.active \in Slots
    BY <1>4, <1>t DEF Service, Target, Other, Factory, Faulty, Good, Control
  <2>2. 1 - job'.slot = c.active
    BY <2>1 DEF Slots
  <2>3. SafeToLeave(1 - job.slot)'
    BY <1>t, <1>4, <2>2 DEF SafeToLeave, Proven, Matches
  <2> QED
    BY <1>1, <1>2, <1>3, <2>1, <2>3 DEF IInv, WritesBeside
<1>5. CASE ~Offers
  BY <1>1, <1>2, <1>3, <1>5 DEF IInv, WritesBeside, Service
<1> QED
  BY <1>4, <1>5

\* Writing the image touches one slot, which nothing relies on.
LEMMA ImagePreserves == IInv /\ (WipeSlot \/ FillSlot \/ WriteFails) => IInv'
<1> SUFFICES ASSUME IInv, WipeSlot \/ FillSlot \/ WriteFails PROVE IInv'
  OBVIOUS
<1> DEFINE j == job.slot
           o == 1 - job.slot
<1>t. /\ job \in [slot : Slots, version : Versions] /\ j \in Slots /\ o \in Slots /\ o # j
      /\ img \in [Slots -> Versions \cup {Mixed}]
      /\ pc \in {"wipe", "fill"} /\ UNCHANGED <<ctl, c, job, attempts, unspent>>
      /\ faults' \in 0 .. MaxFaults /\ faults <= faults'
      /\ \/ ctl = NoControl /\ c = Blank /\ job = [slot |-> 0, version |-> Factory]
         \/ SafeToLeave(o) /\ job.version # Factory
  BY OtaAssumption DEF IInv, TypeOK, WritesBeside, WipeSlot, FillSlot, WriteFails, Slots
<1>i. /\ img' \in [Slots -> Versions \cup {Mixed}] /\ img'[o] = img[o]
      /\ pc' \in {"fill", "seal", "up"}
      /\ pc' = "seal" => img'[j] = job.version
  BY <1>t DEF WipeSlot, FillSlot, WriteFails, Versions
<1>1. TypeOK' /\ (unspent <= faults)'
  BY <1>t, <1>i, OtaAssumption DEF IInv, TypeOK, PCs
<1>2. ActsOnTheDisk' /\ NotTheFactory' /\ TriesAreSpent'
  BY <1>t, <1>i DEF IInv, ActsOnTheDisk, NotTheFactory, TriesAreSpent, OnProbation
<1>3. ASSUME SafeToLeave(o) PROVE SafeToLeave(1 - job.slot)'
  BY <1>3, <1>t, <1>i DEF SafeToLeave, Proven, Matches
<1>4. WritesBeside'
  BY <1>t, <1>i, <1>3 DEF WritesBeside
<1>5. ASSUME ctl # NoControl PROVE ProvenSystemRemains'
  <2>1. SafeToLeave(1 - job.slot)' /\ ctl \in Control
    BY <1>5, <1>t, <1>3 DEF IInv, TypeOK
  <2>2. Proven(1 - job.slot)' /\ (ctl.active = o \/ ctl.state[ctl.active] = "Unverified")
    BY <2>1, <1>t DEF SafeToLeave
  <2>3. CASE ctl.active = o
    BY <2>2, <2>3, <1>t DEF ProvenSystemRemains, Proven, Matches
  <2>4. CASE ctl.active # o /\ ctl.state[ctl.active] = "Unverified"
    <3>1. 1 - ctl.active = o
      BY <2>4, <2>1, <1>t DEF Control, Slots
    <3> QED
      BY <1>5, <2>2, <2>4, <3>1, <1>t DEF ProvenSystemRemains, OnProbation, Proven, Matches, Other
  <2> QED
    BY <2>2, <2>3, <2>4
<1>6. ASSUME ctl = NoControl PROVE ProvenSystemRemains'
  BY <1>6, <1>t DEF ProvenSystemRemains
<1> QED
  BY <1>1, <1>2, <1>4, <1>5, <1>6 DEF IInv

\* The control block names the new slot: proven already, or on probation
\* beside one that is.
LEMMA PointPreserves == IInv /\ PointAtSlot => IInv'
<1> SUFFICES ASSUME IInv, PointAtSlot PROVE IInv'
  OBVIOUS
<1> DEFINE k == PointedAt(c)
           j == job.slot
           o == 1 - job.slot
<1>t. /\ c \in Control /\ ctl \in Control \cup {NoControl}
      /\ job \in [slot : Slots, version : Versions] /\ j \in Slots /\ o \in Slots /\ o # j
      /\ img \in [Slots -> Versions \cup {Mixed}] /\ img[j] = job.version /\ job.version # Mixed
      /\ faults \in 0 .. MaxFaults /\ attempts \in Nat /\ unspent \in Nat /\ unspent <= faults
      /\ c.state \in [Slots -> SlotState] /\ c.version \in [Slots -> Versions \cup {0}]
      /\ MaxTries \in Nat /\ MaxFaults \in Nat
  BY OtaAssumption DEF IInv, TypeOK, WritesBeside, PointAtSlot, Slots, Versions, Mixed, Factory,
     Faulty, Good, Control
<1>w. \/ ctl = NoControl /\ c = Blank /\ job = [slot |-> 0, version |-> Factory]
      \/ SafeToLeave(o) /\ job.version # Factory
  BY DEF IInv, WritesBeside, PointAtSlot
<1>k. /\ k \in Control /\ k # NoControl /\ k.active = j
      /\ k.version[j] = job.version /\ k.version[o] = c.version[o]
      /\ k.state[j] = IF job.version = Factory THEN "Successful" ELSE "Unverified"
      /\ k.state[o] = c.state[o]
      /\ k.tries = IF job.version = Factory THEN 0 ELSE MaxTries
  <2>1. LET verdict == IF job.version = Factory THEN "Successful" ELSE "Unverified"
        IN  /\ k \in Control /\ k.active = j
            /\ k.state = [c.state EXCEPT ![j] = verdict]
            /\ k.version = [c.version EXCEPT ![j] = job.version]
            /\ k.tries = IF job.version = Factory THEN 0 ELSE MaxTries
    BY <1>t, PointFields
  <2> HIDE DEF k
  <2> QED
    BY <1>t, <2>1, OtaAssumption
<1> HIDE DEF k
<1>i. /\ c' = k /\ img' = img /\ job' = job
      /\ faults' \in 0 .. MaxFaults /\ faults <= faults'
      /\ \/ ctl' = k /\ attempts' = 0 /\ unspent' = 0
         \/ ctl' = ctl /\ ctl' # k /\ attempts' = attempts /\ unspent' = unspent
      /\ pc' = "up" \/ (pc' = "service" /\ ctl' = k /\ job.version = Factory)
  BY <1>t DEF PointAtSlot, Lands, Errs, k
<1>1. TypeOK' /\ (unspent <= faults)'
  BY <1>t, <1>i, <1>k DEF IInv, TypeOK, PCs
<1>2. ActsOnTheDisk'
  BY <1>i DEF ActsOnTheDisk
<1>n. \A s \in Slots : s = j \/ s = o
  BY <1>t DEF Slots
<1>3. NotTheFactory'
  BY <1>t, <1>i, <1>k, <1>n DEF IInv, NotTheFactory
<1>4. TriesAreSpent'
  BY <1>t, <1>i, <1>k DEF IInv, TriesAreSpent, OnProbation
<1>5. CASE ctl' = k
  <2>2. CASE job.version = Factory
    <3>1. Proven(ctl.active)' /\ SafeToLeave(c.active)'
      BY <1>i, <1>k, <1>5, <1>t, <2>2 DEF Proven, SafeToLeave, Matches
    <3> QED
      BY <1>1, <1>2, <1>3, <1>4, <1>i, <1>k, <1>5, <3>1 DEF IInv, ProvenSystemRemains, WritesBeside
  <2>3. CASE job.version # Factory
    <3>1. SafeToLeave(o)
      BY <1>w, <2>3
    <3>2. 1 - k.active = o
      BY <1>k
    <3>3. (OnProbation /\ Proven(Other(ctl)))'
      BY <1>i, <1>k, <1>5, <1>t, <2>3, <3>1, <3>2 DEF SafeToLeave, Proven, Matches, OnProbation, Other
    <3> QED
      BY <1>1, <1>2, <1>3, <1>4, <1>i, <1>k, <1>5, <2>3, <3>3 DEF IInv, ProvenSystemRemains, WritesBeside
  <2> QED
    BY <2>2, <2>3
<1>6. CASE ctl' = ctl /\ ctl' # k
  <2>1. ProvenSystemRemains' /\ WritesBeside'
    BY <1>i, <1>6 DEF IInv, ProvenSystemRemains, WritesBeside, OnProbation, Proven, Matches, Other
  <2> QED
    BY <1>1, <1>2, <1>3, <1>4, <2>1 DEF IInv
<1> QED
  BY <1>5, <1>6, <1>i

-----------------------------------------------------------------------------
(***************************************************************************)
(* The theorems.                                                           *)
(***************************************************************************)
LEMMA NextPreserves == IInv /\ ~ControlReadFaults /\ [Next]_vars => IInv'
<1> SUFFICES ASSUME IInv, ~ControlReadFaults, [Next]_vars PROVE IInv'
  OBVIOUS
<1>1. CASE PowerOn \/ PowerCut
  BY <1>1, PowerPreserves
<1>2. CASE Booting
  BY <1>2, ReadPreserves, DecidePreserves, MeasurePreserves, SpendPreserves, ConfirmPreserves
     DEF Booting
<1>3. CASE Installing
  BY <1>3, ServicePreserves, ImagePreserves, PointPreserves DEF Installing
<1>4. CASE UNCHANGED vars
  BY <1>4 DEF vars, IInv, TypeOK, NotTheFactory, ActsOnTheDisk, WritesBeside, SafeToLeave, Offers,
     ProvenSystemRemains, TriesAreSpent, Proven, OnProbation, Matches, Other, OutOfTries
<1> QED
  BY <1>1, <1>2, <1>3, <1>4 DEF Next

\* The inductive invariant of booting and installing together.
THEOREM Invariance == ASSUME ~ControlReadFaults PROVE Spec => []IInv
<1>1. IInv /\ [Next]_vars => IInv'
  BY NextPreserves
<1> QED
  BY InitIInv, <1>1, PTL DEF Spec

\* Every variable keeps its type; in particular the try counter stays within
\* MAX_TRIES through every sequence of boots.
THEOREM TypeCorrect == ASSUME ~ControlReadFaults PROVE Spec => []TypeOK
<1>1. IInv => TypeOK
  BY DEF IInv
<1> QED
  BY Invariance, <1>1, PTL

\* ota.rs: "an interrupted install costs a slot, not a device": as long as the
\* control sector can be read at boot, a slot that came up once stays bootable
\* over power cuts, failed writes and slots that cannot be read.
THEOREM AProvenSystemRemains ==
    ASSUME ~ControlReadFaults PROVE Spec => []ProvenSystemRemains
<1>1. IInv => ProvenSystemRemains
  BY DEF IInv
<1> QED
  BY Invariance, <1>1, PTL

\* ota.rs, boot(): a try is spent before it is used, so that a slot on
\* probation gets MAX_TRIES boots and one more for each lost write.
THEOREM BootsAreCounted == ASSUME ~ControlReadFaults PROVE Spec => []TriesAreSpent
<1>1. IInv => TriesAreSpent
  BY DEF IInv
<1> QED
  BY Invariance, <1>1, PTL
=============================================================================
