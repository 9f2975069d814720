-------------------------------- MODULE Ota --------------------------------
(***************************************************************************)
(* A/B updates: two system slots, a control sector, a boot counter and a   *)
(* rollback rule (kernel/src/ota.rs), with what main.rs does at each boot: *)
(* decide, try or run, confirm, and offer the next update.                 *)
(*                                                                         *)
(* A sector write lands or does not, as ota.rs assumes of the control      *)
(* block; a write answered with an error may have done either.  Power may  *)
(* be cut between any two steps.  An image is its version; a slot that     *)
(* holds a mixture of two images holds none.  The digest is modelled by    *)
(* what comparing it decides.  Control.seq is read by nothing and left     *)
(* out; of rollbacks only zero or not is ever asked.                       *)
(***************************************************************************)
EXTENDS Integers

CONSTANTS
    MaxTries,          \* MAX_TRIES
    MaxFaults,         \* bound: requests answered with an error
    NoControl,         \* a control sector that does not decode
    ControlReadFaults  \* whether reading the control sector may fail

Slots == {0, 1}
Factory == 1           \* the version initialise() installs
Faulty == 2            \* the first update offered: it does not come up
Good == 3              \* the second: it does
Versions == {Factory, Faulty, Good}
Mixed == 0             \* no image, or parts of two

SlotState == {"Empty", "Unverified", "Successful", "Failed"}
Control == [active : Slots, tries : 0 .. MaxTries, rollbacks : {0, 1},
            state : [Slots -> SlotState], version : [Slots -> Versions \cup {0}]]

ASSUME OtaAssumption ==
    /\ MaxTries \in Nat \ {0} /\ MaxFaults \in Nat
    /\ NoControl \notin Control
    /\ ControlReadFaults \in BOOLEAN

VARIABLES
    ctl, img,          \* the disk: the control sector and the two slots
    c,                 \* the control block in memory
    pc,                \* where this boot is
    job,               \* the slot being written, and with what
    faults,            \* requests answered with an error so far
    attempts,          \* ghost: boots into the slot on probation
    unspent            \* ghost: those whose spent try did not reach the disk

vars == <<ctl, img, c, pc, job, faults, attempts, unspent>>

Blank == [active |-> 0, tries |-> 0, rollbacks |-> 0,
          state |-> [s \in Slots |-> "Empty"], version |-> [s \in Slots |-> 0]]

PCs == {"off", "boot", "decide", "load", "spend", "trying", "service",
        "wipe", "fill", "seal", "up"}

TypeOK ==
    /\ ctl \in Control \cup {NoControl}
    /\ img \in [Slots -> Versions \cup {Mixed}]
    /\ c \in Control
    /\ pc \in PCs
    /\ job \in [slot : Slots, version : Versions]
    /\ faults \in 0 .. MaxFaults
    /\ attempts \in Nat /\ unspent \in 0 .. MaxFaults

\* A device that has never been updated.
Init ==
    /\ ctl = NoControl
    /\ img = [s \in Slots |-> Mixed]
    /\ c = Blank
    /\ pc = "off"
    /\ job = [slot |-> 0, version |-> Factory]
    /\ faults = 0 /\ attempts = 0 /\ unspent = 0

Other(k) == 1 - k.active

-----------------------------------------------------------------------------
\* write_control(): answered with success, or with an error.
Lands(k) == ctl' = k /\ UNCHANGED faults
Errs(k) == /\ faults < MaxFaults /\ faults' = faults + 1
           /\ ctl' \in {ctl, k}

PowerOn ==
    /\ pc = "off" /\ pc' = "boot"
    /\ UNCHANGED <<ctl, img, c, job, faults, attempts, unspent>>

\* Power is cut at any moment, or kernel_main switches the machine off.
PowerCut ==
    /\ pc # "off" /\ pc' = "off"
    /\ c' = Blank
    /\ UNCHANGED <<ctl, img, job, faults, attempts, unspent>>

(***************************************************************************)
(* boot(): decide what to boot, and record it before acting on it.         *)
(***************************************************************************)

\* read_control(): nothing that decodes is a fresh device, and so is a
\* sector that could not be read.
ReadControl ==
    /\ pc = "boot"
    /\ \/ /\ ctl # NoControl
          /\ c' = ctl /\ pc' = "decide" /\ UNCHANGED job
       \/ /\ ctl = NoControl \/ ControlReadFaults
          /\ pc' = "wipe"
          /\ job' = [slot |-> 0, version |-> Factory]
          /\ UNCHANGED c
    /\ UNCHANGED <<ctl, img, faults, attempts, unspent>>

OutOfTries(k) == k.state[k.active] = "Unverified" /\ k.tries = 0

\* Mutant of RolledBack: the slot is given up, and stays the active one.
RolledBackNowhere(k) == [k EXCEPT !.state[k.active] = "Failed"]

\* Back to the slot that last came up; with none, one more try.
RolledBack(k) ==
    IF k.state[Other(k)] = "Successful"
    THEN [k EXCEPT !.state[k.active] = "Failed", !.active = Other(k), !.rollbacks = 1]
    ELSE [k EXCEPT !.tries = 1]

\* The error of either write is ignored.
Decide ==
    /\ pc = "decide"
    /\ \/ /\ ~OutOfTries(c)
          /\ pc' = "load" /\ UNCHANGED <<ctl, c, faults>>
       \/ /\ OutOfTries(c)
          /\ c' = RolledBack(c)
          /\ Lands(c') \/ Errs(c')
          /\ pc' = IF c'.active = c.active THEN "load" ELSE "service"
    /\ UNCHANGED <<img, job, attempts, unspent>>

\* load() and the comparison with the control block.
Matches(k, s) == img[s] # Mixed /\ img[s] = k.version[s]

\* Running, Trying, or Corrupt; a slot that cannot be read is Corrupt too.
Measure ==
    /\ pc = "load"
    /\ \/ /\ Matches(c, c.active)
          /\ pc' = IF c.state[c.active] = "Unverified" THEN "spend" ELSE "service"
          /\ UNCHANGED faults
       \/ /\ ~Matches(c, c.active)
          /\ pc' = "service" /\ UNCHANGED faults
       \/ /\ faults < MaxFaults /\ faults' = faults + 1
          /\ pc' = "service"
    /\ UNCHANGED <<ctl, img, c, job, attempts, unspent>>

\* Mutant of Spent: the try is not spent yet.
SpentLater(k) == k

Spent(k) == [k EXCEPT !.tries = IF @ = 0 THEN 0 ELSE @ - 1]

\* The try is written down first.  The write's error is ignored.
Spend ==
    /\ pc = "spend" /\ pc' = "trying"
    /\ c' = Spent(c)
    /\ Lands(c') \/ Errs(c')
    /\ attempts' = attempts + 1
    /\ unspent' = IF ctl' = c' THEN unspent ELSE unspent + 1
    /\ UNCHANGED <<img, job>>

-----------------------------------------------------------------------------
(***************************************************************************)
(* The boot that was tried: it comes up and says so, or it does not.       *)
(***************************************************************************)

\* mark_successful(): the other slot becomes the next install's target.
Confirmed(k) ==
    [k EXCEPT !.state = [s \in Slots |-> IF s = k.active THEN "Successful"
                                         ELSE IF k.state[s] = "Successful" THEN "Empty"
                                         ELSE k.state[s]],
              !.tries = 0]

Confirm ==
    /\ pc = "trying" /\ pc' = "service"
    /\ img[c.active] # Faulty
    /\ c' = Confirmed(c)
    /\ Lands(c') \/ Errs(c')
    /\ UNCHANGED <<img, job, attempts, unspent>>

SelfTestFails ==
    /\ pc = "trying" /\ pc' = "service"
    /\ img[c.active] = Faulty
    /\ UNCHANGED <<ctl, img, c, job, faults, attempts, unspent>>

-----------------------------------------------------------------------------
(***************************************************************************)
(* The update service, stage() and initialise().                           *)
(***************************************************************************)

\* Mutant of Target: the slot that is running.
TargetRunning == c.active

\* Where an update goes.
Target == Other(c)

\* Two updates are offered over the device's life, to the factory version.
Offers == c.state[c.active] = "Successful" /\ c.version[c.active] = Factory

Service ==
    /\ pc = "service"
    /\ \/ /\ Offers
          /\ job' = [slot |-> Target, version |-> IF c.rollbacks = 0 THEN Faulty ELSE Good]
          /\ pc' = "wipe"
       \/ /\ ~Offers
          /\ pc' = "up" /\ UNCHANGED job
    /\ UNCHANGED <<ctl, img, c, faults, attempts, unspent>>

\* The image is written sector by sector: mixed until the last.
WipeSlot ==
    /\ pc = "wipe" /\ pc' = "fill"
    /\ img' = [img EXCEPT ![job.slot] = Mixed]
    /\ UNCHANGED <<ctl, c, job, faults, attempts, unspent>>

FillSlot ==
    /\ pc = "fill" /\ pc' = "seal"
    /\ img' = [img EXCEPT ![job.slot] = job.version]
    /\ UNCHANGED <<ctl, c, job, faults, attempts, unspent>>

\* A sector is answered with an error: the install is given up.
WriteFails ==
    /\ pc \in {"wipe", "fill"} /\ pc' = "up"
    /\ faults < MaxFaults /\ faults' = faults + 1
    /\ img' \in {img, [img EXCEPT ![job.slot] = IF pc = "fill" THEN job.version ELSE Mixed]}
    /\ UNCHANGED <<ctl, c, job, attempts, unspent>>

\* Only then does the control block name it: on probation, but for the
\* factory version, which is what is running.
PointedAt(k) ==
    [k EXCEPT !.active = job.slot, !.version[job.slot] = job.version,
              !.state[job.slot] = IF job.version = Factory THEN "Successful" ELSE "Unverified",
              !.tries = IF job.version = Factory THEN 0 ELSE MaxTries]

PointAtSlot ==
    /\ pc = "seal"
    /\ c' = PointedAt(c)
    /\ \/ /\ Lands(c')
          /\ pc' = IF job.version = Factory THEN "service" ELSE "up"
       \/ Errs(c') /\ pc' = "up"
    /\ attempts' = IF ctl' = c' THEN 0 ELSE attempts
    /\ unspent' = IF ctl' = c' THEN 0 ELSE unspent
    /\ UNCHANGED <<img, job>>

-----------------------------------------------------------------------------
Booting == ReadControl \/ Decide \/ Measure \/ Spend \/ Confirm \/ SelfTestFails
Installing == Service \/ WipeSlot \/ FillSlot \/ WriteFails \/ PointAtSlot

Next == PowerOn \/ PowerCut \/ Booting \/ Installing

Spec == Init /\ [][Next]_vars

\* The machine is switched on again, and a boot that has finished ends.  A
\* power cut may come at any step, but not at the same one for ever.
Fairness ==
    /\ WF_vars(PowerOn)
    /\ WF_vars(pc = "up" /\ PowerCut)
    /\ SF_vars(ReadControl) /\ SF_vars(Decide) /\ SF_vars(Measure) /\ SF_vars(Spend)
    /\ SF_vars(Confirm) /\ SF_vars(SelfTestFails)
    /\ SF_vars(Service) /\ SF_vars(WipeSlot) /\ SF_vars(FillSlot) /\ SF_vars(PointAtSlot)

LiveSpec == Spec /\ Fairness

-----------------------------------------------------------------------------
(***************************************************************************)
(* Properties.                                                             *)
(***************************************************************************)
Proven(s) == ctl.state[s] = "Successful" /\ Matches(ctl, s)
OnProbation == ctl # NoControl /\ ctl.state[ctl.active] = "Unverified"

\* ota.rs: "an interrupted install costs a slot, not a device".  Once the
\* device is initialised, a power cut at any moment leaves a slot that came
\* up once and still holds what the control block says: the active one, or
\* the one a rollback from the active one will choose.
ProvenSystemRemains ==
    ctl # NoControl =>
        \/ Proven(ctl.active)
        \/ OnProbation /\ Proven(Other(ctl))

\* ota.rs: "the try counter is decremented and written to disk before the
\* attempt".  A slot on probation is booted at most MAX_TRIES times, hangs
\* and power cuts included, but for the boots whose ignored write error
\* left the old count on the disk.
TriesAreSpent == OnProbation => ctl.tries + attempts <= MaxTries + unspent

\* main.rs: "a slot that never confirms is abandoned and the previous system
\* comes back, without anybody being there to do it".  Every probation ends,
\* with a slot that came up.
ProbationEnds == OnProbation ~> (ctl # NoControl /\ Proven(ctl.active))
=============================================================================
