---------------------------- MODULE IntentProofs ----------------------------
(***************************************************************************)
(* Proofs about JLFS and undo (modules Jlfs and Intent), for any names,    *)
(* any log and any number of power cuts and write errors, with a display   *)
(* and without one, when reads do not fail while booting and mounting.     *)
(*                                                                         *)
(* The argument.  What the newest checkpoint on the disk can reach lies    *)
(* below its log_head; data is only written above the log_head in memory,  *)
(* and memory, while an Fs is in use, is the newest checkpoint (LiveInv):  *)
(* that is what dropping the Fs after an error is for.  The slot written   *)
(* is the other one, so a torn checkpoint never hides the newest.          *)
(***************************************************************************)
EXTENDS Intent, TLAPS

Fits(e, h) == e # NoEntry => e.start + e.sectors <= h

\* What a checkpoint reaches lies below its log_head.
RootInv == \A k \in Slots : root[k] # Bad =>
             \A n \in Names : Fits(root[k].files[n], root[k].log_head)

\* There is never a doubt which is newer.
SeqInv == root[0] # Bad /\ root[1] # Bad => root[0].seq # root[1].seq

\* A settled disk without a superblock has no checkpoints, and neither has
\* one that is being formatted; the crash test's last phase writes nothing.
BootInv ==
    /\ Settled /\ (~sb \/ pc \in Formatting) => root[0] = Bad /\ root[1] = Bad
    /\ pc \in {"blank", "first"} => sb
    /\ pc = "first" => root[1] = Bad
    /\ pc \in Formatting \cup {"boot"} => result = "failed"
    /\ demo \in {"write", "mark"} => phase < 4

\* An Fs in use is the newest checkpoint, until the next one has landed.
LiveInv ==
    pc \in {"idle", "data", "commit", "landed"} =>
        /\ sb /\ root[slot] = cp
        /\ pc # "landed" => root[1 - slot] = Bad \/ root[1 - slot].seq < cp.seq
        /\ pc = "landed" => root[1 - slot] = NextCheckpoint

\* The call in progress.
OpInv ==
    /\ op = NoOp <=> pc \notin {"data", "commit", "landed"}
    /\ op # NoOp => /\ cp.seq < MaxSeq
                    /\ cp.log_head <= op.head
                    /\ Fits(op.entry, op.head)
    /\ pc = "data" => /\ op.entry # NoEntry
                      /\ op.entry.start = cp.log_head
                      /\ op.head = op.entry.start + op.entry.sectors
                      /\ op.data \in [1 .. op.entry.sectors -> Values]
                      /\ done <= op.entry.sectors
                      /\ \A i \in 1 .. done : log[op.entry.start + i] = op.data[i]
    /\ pc \in {"commit", "landed"} => ContentsOf(op.entry) = op.data

\* What the intent remembers lies below the log_head too.
StepsInv ==
    /\ steps # << >> => Mountable /\ pc \notin Formatting \cup {"boot"}
    /\ todo <= Len(steps)
    /\ \A i \in 1 .. Len(steps) : Fits(steps[i].before, root[Newest].log_head)
    /\ StepsIntact

IInv == TypeOK /\ RootInv /\ SeqInv /\ BootInv /\ LiveInv /\ OpInv /\ StepsInv

-----------------------------------------------------------------------------
USE DEF Slots, Sectors, test, Settled, Phases, Demos, TestOver

\* Neither bound lets a checkpoint's number run past MaxSeq.
LEMMA SaveBound == ASSUME JlfsAssumption, FsTypeOK, MaySave PROVE cp.seq < MaxSeq
  <1>1. cp.seq \in Nat
    BY DEF FsTypeOK, Checkpoint, JlfsAssumption
  <1>2. CASE display
    BY <1>2 DEF MaySave
  <1>3. CASE ~display
    <2>1. cp.seq < MaxTestSeq
      BY <1>3 DEF MaySave
    <2> QED BY <1>1, <2>1 DEF JlfsAssumption
  <1> QED BY <1>2, <1>3

\* What is known of the fields of a checkpoint that decodes.
LEMMA CheckpointFields ==
    ASSUME FsTypeOK, NEW k \in Slots, root[k] # Bad
    PROVE  /\ root[k] \in Checkpoint
           /\ root[k].seq \in 1 .. MaxSeq
           /\ root[k].log_head \in 0 .. LogSize
           /\ root[k].files \in [Names -> Entry \cup {NoEntry}]
  BY DEF FsTypeOK, Checkpoint, Directory

\* A disk with a checkpoint has a newest one.
LEMMA NewestDecodes ==
    ASSUME FsTypeOK, Mountable
    PROVE  Newest \in Slots /\ root[Newest] # Bad
  BY DEF Newest, Mountable, FsTypeOK

\* The newest is the one in use, or the one that has just landed.
LEMMA NewestIsLive ==
    ASSUME JlfsAssumption, FsTypeOK, LiveInv, OpInv,
           pc \in {"idle", "data", "commit", "landed"}
    PROVE  /\ Mountable
           /\ pc # "landed" => Newest = slot /\ root[Newest] = cp
           /\ pc = "landed" => Newest = 1 - slot /\ root[Newest] = NextCheckpoint
  <1>1. slot \in Slots /\ 1 - slot \in Slots /\ root[slot] = cp /\ cp # Bad /\ sb
    BY DEF LiveInv, FsTypeOK, JlfsAssumption
  <1>2. Mountable
    BY <1>1 DEF Mountable
  <1>3. cp.seq \in Nat
    BY JlfsAssumption DEF FsTypeOK, Checkpoint, JlfsAssumption
  <1>4. CASE pc # "landed"
    <2>1. root[1 - slot] = Bad \/ root[1 - slot].seq < cp.seq
      BY <1>4 DEF LiveInv
    <2>2. CASE slot = 0
      <3>1. root[1] = Bad \/ (root[1].seq < cp.seq /\ root[1].seq \in 1 .. MaxSeq)
        BY <2>1, <2>2, CheckpointFields
      <3> QED BY <1>1, <1>2, <1>3, <1>4, <2>2, <3>1 DEF Newest, JlfsAssumption
    <2>3. CASE slot = 1
      <3>1. root[0] = Bad \/ (root[0].seq < cp.seq /\ root[0].seq \in 1 .. MaxSeq)
        BY <2>1, <2>3, CheckpointFields
      <3> QED BY <1>1, <1>2, <1>3, <1>4, <2>3, <3>1 DEF Newest, JlfsAssumption
    <2> QED BY <1>1, <2>2, <2>3
  <1>5. CASE pc = "landed"
    <2>1. root[1 - slot] = NextCheckpoint /\ root[1 - slot].seq = cp.seq + 1
      BY <1>5 DEF LiveInv, NextCheckpoint
    <2>2. NextCheckpoint # Bad
      <3>1. NextCheckpoint \in Checkpoint
        BY <1>5 DEF NextCheckpoint, Checkpoint, Directory, OpInv, FsTypeOK, Op, JlfsAssumption
      <3> QED BY <3>1 DEF JlfsAssumption
    <2>3. CASE slot = 0
      BY <1>1, <1>2, <1>3, <1>5, <2>1, <2>2, <2>3 DEF Newest
    <2>4. CASE slot = 1
      BY <1>1, <1>2, <1>3, <1>5, <2>1, <2>2, <2>4 DEF Newest
    <2> QED BY <1>1, <2>3, <2>4
  <1> QED BY <1>2, <1>4, <1>5

\* Reading back is not disturbed by writes above an entry.
LEMMA ReadBelow ==
    ASSUME JlfsAssumption, NEW l, NEW m, NEW h \in 0 .. LogSize,
           \A s \in Sectors : s <= h => m[s] = l[s]
    PROVE  \A e \in Entry \cup {NoEntry} : Fits(e, h) => Read(m, e) = Read(l, e)
  <1> SUFFICES ASSUME NEW e \in Entry, e.start + e.sectors <= h
               PROVE  [i \in 1 .. e.sectors |-> m[e.start + i]]
                        = [i \in 1 .. e.sectors |-> l[e.start + i]]
    BY DEF Read, Fits
  <1> SUFFICES ASSUME NEW i \in 1 .. e.sectors
               PROVE  m[e.start + i] = l[e.start + i]
    OBVIOUS
  <1>1. e.start \in Nat /\ e.sectors \in Nat
    BY DEF Entry
  <1>2. e.start + i \in Sectors /\ e.start + i <= h
    BY <1>1 DEF JlfsAssumption
  <1> QED BY <1>2

\* What is read below the end of the log is data.
LEMMA ReadType ==
    ASSUME JlfsAssumption, FsTypeOK, NEW h \in 0 .. LogSize,
           NEW e \in Entry \cup {NoEntry}, Fits(e, h)
    PROVE  ContentsOf(e) \in Data \cup {Absent}
  <1> SUFFICES ASSUME e \in Entry, e # NoEntry
               PROVE  [i \in 1 .. e.sectors |-> log[e.start + i]] \in Data
    BY DEF ContentsOf, Read
  <1>1. e.start \in Nat /\ e.sectors \in 0 .. MaxLen /\ e.start + e.sectors <= h
    BY DEF Entry, Fits
  <1>2. \A i \in 1 .. e.sectors : e.start + i \in Sectors
    BY <1>1 DEF JlfsAssumption
  <1>3. [i \in 1 .. e.sectors |-> log[e.start + i]] \in [1 .. e.sectors -> Values \cup {Junk}]
    BY <1>2 DEF FsTypeOK
  <1> QED BY <1>1, <1>3 DEF Data

-----------------------------------------------------------------------------
(***************************************************************************)
(* Init and the steps.                                                     *)
(***************************************************************************)
LEMMA FirstIsCheckpoint ==
    ASSUME JlfsAssumption
    PROVE  FirstCheckpoint \in Checkpoint
  BY DEF FirstCheckpoint, Checkpoint, Directory, JlfsAssumption

\* A fresh disk satisfies the invariant.
LEMMA InitIInv == ASSUME JlfsAssumption, IntentAssumption, Init PROVE IInv
  <1>0. display \in BOOLEAN
    BY DEF Init, FsInit
  <1>a. FsTypeOK
    BY <1>0, FirstIsCheckpoint DEF Init, FsInit, FsTypeOK, PCs, JlfsAssumption
  <1>1. TypeOK
    BY <1>a DEF Init, TypeOK, IntentAssumption
  <1>2. RootInv /\ SeqInv /\ BootInv
    BY DEF Init, FsInit, RootInv, SeqInv, BootInv, Formatting
  <1>3. LiveInv /\ OpInv
    BY DEF Init, FsInit, LiveInv, OpInv
  <1>4. StepsInv
    BY DEF Init, FsInit, StepsInv, StepsIntact
  <1> QED BY <1>1, <1>2, <1>3, <1>4 DEF IInv

\* Steps of the intent alone leave the filesystem as it is.
LEMMA FsUnchanged ==
    ASSUME IInv, UNCHANGED fsvars, TypeOK', UNCHANGED steps, todo' <= Len(steps)
    PROVE  IInv'
  BY DEF IInv, fsvars, RootInv, SeqInv, BootInv, LiveInv, OpInv, StepsInv, StepsIntact,
         Mountable, Newest, NextCheckpoint, ContentsOf

\* record() remembers an entry whose data is on the disk.
LEMMA RecordStep ==
    ASSUME JlfsAssumption, IntentAssumption, IInv,
           NEW n \in Names, NEW u \in BOOLEAN, Record(n, u)
    PROVE  IInv'
  <1> DEFINE new == [name |-> n, before |-> cp.files[n], undoable |-> u,
                     was |-> ContentsOf(cp.files[n])]
  <1>1. Mountable /\ Newest = slot /\ root[slot] = cp /\ root[Newest] = cp /\ slot \in Slots
    BY NewestIsLive DEF IInv, TypeOK, FsTypeOK, Record, LiveInv
  <1>2. cp.files[n] \in Entry \cup {NoEntry} /\ cp.log_head \in 0 .. LogSize /\ cp # Bad
    BY DEF IInv, TypeOK, FsTypeOK, Checkpoint, Directory, JlfsAssumption
  <1>3. Fits(cp.files[n], cp.log_head)
    BY <1>1, <1>2 DEF IInv, RootInv
  <1>4. new \in Step
    BY <1>2, <1>3, ReadType DEF IInv, TypeOK, Step
  <1>5. TypeOK'
    BY <1>4 DEF IInv, TypeOK, FsTypeOK, Record, fsvars, IntentAssumption
  <1>6. /\ Len(steps') = Len(steps) + 1
        /\ steps'[Len(steps) + 1] = new
        /\ \A i \in 1 .. Len(steps) : steps'[i] = steps[i]
    BY <1>4 DEF IInv, TypeOK, Record
  <1>7. UNCHANGED fsvars /\ pc = "idle" /\ Len(steps) \in Nat
    BY DEF Record, IInv, TypeOK
  <1>8. StepsInv'
    <2>1. (steps # << >> => Mountable /\ pc \notin Formatting \cup {"boot"})'
      BY <1>1, <1>7 DEF fsvars, Mountable, Formatting
    <2>2. \A i \in 1 .. Len(steps') :
            /\ Fits(steps'[i].before, root[Newest].log_head)
            /\ ContentsOf(steps'[i].before) = steps'[i].was
      BY <1>1, <1>3, <1>6, <1>7 DEF IInv, StepsInv, StepsIntact
    <2>3. todo' <= Len(steps')
      BY <1>6, <1>7 DEF IInv, TypeOK, StepsInv, Record, IntentAssumption
    <2> QED BY <1>7, <2>1, <2>2, <2>3 DEF StepsInv, StepsIntact, fsvars, Newest, ContentsOf
  <1> QED BY <1>5, <1>7, <1>8 DEF IInv, fsvars, RootInv, SeqInv, BootInv, LiveInv, OpInv,
             NextCheckpoint, ContentsOf

\* Steps that change no sector, and stand between the other steps.
LEMMA MountStep ==
    ASSUME JlfsAssumption, IInv, Mount, UNCHANGED <<state, steps, todo>>
    PROVE  IInv'
  <1>1. Newest \in Slots /\ root[Newest] # Bad /\ root[Newest] \in Checkpoint
    BY NewestDecodes, CheckpointFields DEF IInv, TypeOK, Mount
  <1>2. TypeOK'
    BY <1>1 DEF IInv, TypeOK, FsTypeOK, Mount, disk, PCs
  <1>3. RootInv' /\ SeqInv' /\ BootInv'
    BY DEF IInv, RootInv, SeqInv, BootInv, Mount, disk, Formatting, Mountable
  <1>4. LiveInv'
    <2>1. root[1 - Newest] = Bad \/ root[1 - Newest].seq < root[Newest].seq
      <3>1. CASE Newest = 0
        <4>1. root[1] = Bad \/ ~(root[1].seq > root[0].seq)
          BY <1>1, <3>1 DEF Newest
        <4> QED BY <1>1, <3>1, <4>1, CheckpointFields DEF IInv, TypeOK, SeqInv
      <3>2. CASE Newest = 1
        <4>1. root[0] = Bad \/ root[1].seq > root[0].seq
          BY <3>2 DEF Newest
        <4> QED BY <1>1, <3>2, <4>1, CheckpointFields DEF IInv, TypeOK, SeqInv
      <3> QED BY <1>1, <3>1, <3>2
    <2> QED BY <2>1 DEF LiveInv, Mount, disk, Mountable
  <1>5. OpInv'
    BY DEF IInv, OpInv, Mount, disk
  <1>6. StepsInv'
    BY DEF IInv, StepsInv, StepsIntact, Mount, disk, Mountable, Newest, ContentsOf, Formatting
  <1> QED BY <1>2, <1>3, <1>4, <1>5, <1>6 DEF IInv

\* A boot that could not mount goes on to format, or stays without files.
LEMMA MountFailsStep ==
    ASSUME JlfsAssumption, ~ReadFaults, IInv, MountFails, UNCHANGED <<state, steps, todo>>
    PROVE  IInv'
  <1>1. root[0] = Bad /\ root[1] = Bad
    BY DEF IInv, BootInv, MountFails, Mountable
  <1>2. steps = << >>
    BY DEF IInv, StepsInv, MountFails
  <1> QED BY <1>1, <1>2 DEF IInv, MountFails, disk, TypeOK, FsTypeOK, PCs, Formatting, RootInv,
          SeqInv, BootInv, LiveInv, OpInv, StepsInv, StepsIntact

\* Dropping an Fs forgets memory only.
LEMMA CloseStep ==
    ASSUME JlfsAssumption, IInv, Close, UNCHANGED <<state, steps, todo>>
    PROVE  IInv'
  <1>1. TypeOK'
    BY DEF IInv, TypeOK, FsTypeOK, Close, disk, PCs
  <1>2. StepsInv'
    BY DEF IInv, StepsInv, StepsIntact, Close, disk, Mountable, Newest, ContentsOf, Formatting
  <1> QED BY <1>1, <1>2 DEF IInv, Close, disk, Formatting, RootInv, SeqInv, BootInv, LiveInv, OpInv

\* format() writes a first checkpoint, over nothing on a settled disk, and
\* after the other slot has been blanked.
LEMMA FormatSteps ==
    ASSUME JlfsAssumption, IInv, FormatStep \/ FormatFails, UNCHANGED <<state, steps, todo>>
    PROVE  IInv'
  <1>0. steps = << >> /\ pc \in Formatting /\ (pc = "first" => root[1] = Bad)
        /\ result = "failed" /\ (pc \in {"blank", "first"} => sb)
    BY DEF IInv, StepsInv, BootInv, FormatStep, FormatFails
  <1>a. Settled => root[0] = Bad /\ root[1] = Bad
    BY <1>0 DEF IInv, BootInv
  <1>b. root \in [Slots -> Checkpoint \cup {Bad}] /\ sb \in BOOLEAN
    BY DEF IInv, TypeOK, FsTypeOK
  <1>1. /\ pc' \in {"blank", "first", "closed"} /\ (pc = "first" => pc' = "closed")
        /\ (pc' = "first" => pc = "blank")
        /\ UNCHANGED <<cp, slot, op, done, result, display, marker>>
        /\ UNCHANGED <<demo, phase>> \/ (demo' = "over" /\ phase' = 0)
    BY <1>0 DEF FormatStep, FormatFails, Formatting
  <1>2. /\ sb' \in BOOLEAN /\ log' = log /\ (sb => sb')
        /\ root' \in [Slots -> Checkpoint \cup {Bad}]
        /\ root'[1] \in {root[1], Bad} /\ root'[0] \in {root[0], FirstCheckpoint}
        /\ root'[0] # root[0] => pc = "first" /\ root'[1] = Bad
        /\ pc' \in {"blank", "first"} => sb'
        /\ pc' = "first" => root'[1] = Bad
    <2>1. FormatLands(pc) \/ (UNCHANGED disk /\ pc' = "closed")
      BY DEF FormatStep, FormatFails
    <2>3. CASE UNCHANGED disk /\ pc' = "closed"
      BY <1>b, <2>3 DEF disk
    <2>4. CASE pc = "sb" /\ FormatLands(pc)
      BY <1>b, <1>1, <2>4 DEF FormatLands
    <2>5. CASE pc = "blank" /\ FormatLands(pc)
      BY <1>0, <1>b, <1>1, <2>5 DEF FormatLands
    <2>6. CASE pc = "first" /\ FormatLands(pc)
      BY <1>0, <1>b, <1>1, <2>6, FirstIsCheckpoint DEF FormatLands
    <2> QED BY <1>0, <2>1, <2>3, <2>4, <2>5, <2>6 DEF Formatting
  <1>3. TypeOK'
    BY <1>1, <1>2 DEF IInv, TypeOK, FsTypeOK, PCs, Formatting
  <1>4. RootInv' /\ SeqInv'
    <2>1. RootInv'
      BY <1>2 DEF IInv, RootInv, FirstCheckpoint, Fits
    <2>2. SeqInv'
      BY <1>2 DEF IInv, SeqInv
    <2> QED BY <2>1, <2>2
  <1>5. BootInv'
    <2>1. Settled' => Settled
      BY <1>1
    <2>2. Settled' /\ (~sb' \/ pc' \in Formatting) => root'[0] = Bad /\ root'[1] = Bad
      BY <1>0, <1>1, <1>2, <1>a, <2>1 DEF Formatting
    <2>3. demo' \in {"write", "mark"} => phase' < 4
      BY <1>1 DEF IInv, BootInv
    <2> QED BY <1>0, <1>1, <1>2, <2>2, <2>3 DEF BootInv
  <1>6. LiveInv' /\ OpInv'
    BY <1>0, <1>1 DEF IInv, LiveInv, OpInv, Formatting
  <1>7. StepsInv'
    BY <1>0 DEF IInv, StepsInv, StepsIntact
  <1> QED BY <1>3, <1>4, <1>5, <1>6, <1>7 DEF IInv

\* The crash test's own steps touch the marker and nothing of the
\* filesystem; phase 0, which formats, is not the phase of a settled disk.
LEMMA TestingStep ==
    ASSUME JlfsAssumption, ~ReadFaults, IInv, Testing, UNCHANGED <<state, steps, todo>>
    PROVE  IInv'
  <1>0. marker \in 0 .. 4 /\ phase \in 0 .. 4 /\ display \in BOOLEAN
        /\ UNCHANGED <<disk, cp, slot, op, done, result, display>>
        /\ (demo \in {"write", "mark"} => phase < 4)
    BY DEF IInv, TypeOK, FsTypeOK, BootInv, Testing, BootTest, GiveUp, WritePhase
  <1>1. CASE BootTest
    <2>1. phase' = marker /\ marker' = marker /\ ~display /\ pc = "boot" /\ result = "failed"
          /\ pc' = (IF marker = 0 THEN "sb" ELSE "closed")
      BY <1>1 DEF BootTest, ReadPhase, IInv, BootInv
    <2>2. demo' \in Demos /\ (demo' \in {"write", "mark"} => phase' < 4)
      BY <1>0, <1>1, <2>1 DEF BootTest
    <2>3. steps = << >>
      BY <2>1 DEF IInv, StepsInv
    <2>4. TypeOK'
      BY <1>0, <2>1, <2>2 DEF IInv, TypeOK, FsTypeOK, disk, PCs, Formatting
    <2>5. BootInv'
      BY <1>0, <2>1, <2>2 DEF IInv, BootInv, disk, Formatting
    <2> QED BY <1>0, <2>1, <2>3, <2>4, <2>5 DEF IInv, disk, RootInv, SeqInv, LiveInv, OpInv,
               StepsInv, StepsIntact
  <1>2. CASE GiveUp \/ WritePhase
    <2>1. pc' = pc /\ pc \in {"closed", "idle"} /\ (pc = "closed" => marker' = marker)
      BY <1>2 DEF GiveUp, WritePhase
    <2>2. marker' \in 0 .. 4 /\ phase' \in 0 .. 4 /\ demo' \in {"over", "doomed"}
      BY <1>0, <1>2 DEF GiveUp, WritePhase
    <2>3. TypeOK'
      BY <1>0, <2>1, <2>2 DEF IInv, TypeOK, FsTypeOK, disk
    <2>4. BootInv'
      BY <1>0, <2>1, <2>2 DEF IInv, BootInv, LiveInv, disk, Formatting
    <2> QED BY <1>0, <2>1, <2>3, <2>4 DEF IInv, disk, RootInv, SeqInv, LiveInv, OpInv,
               StepsInv, StepsIntact, Mountable, Newest, NextCheckpoint, ContentsOf
  <1> QED BY <1>1, <1>2 DEF Testing

\* write() reserves log sectors that nothing points at.
LEMMA BeginWriteStep ==
    ASSUME JlfsAssumption, IInv, UNCHANGED <<state, steps, todo>>,
           NEW n \in Names, NEW len \in 0 .. MaxLen, NEW data \in [1 .. len -> Values],
           BeginWrite(n, data, len)
    PROVE  IInv'
  <1>1. cp.seq \in Nat /\ cp.log_head \in 0 .. LogSize
    BY DEF IInv, TypeOK, FsTypeOK, Checkpoint, JlfsAssumption
  <1>2. op' \in Op /\ op' # NoOp
    <2>1. data \in Data
      BY DEF Data
    <2>2. [start |-> cp.log_head, sectors |-> len] \in Entry
      BY <1>1 DEF Entry
    <2>3. cp.log_head + len \in 0 .. LogSize
      BY <1>1 DEF BeginWrite, HasRoom, JlfsAssumption
    <2> QED BY <2>1, <2>2, <2>3 DEF BeginWrite, Op, JlfsAssumption
  <1>3. TypeOK'
    BY <1>2 DEF IInv, TypeOK, FsTypeOK, BeginWrite, disk, PCs, JlfsAssumption
  <1>4. RootInv' /\ SeqInv' /\ BootInv' /\ LiveInv'
    BY DEF IInv, RootInv, SeqInv, BootInv, LiveInv, BeginWrite, disk, Formatting
  <1>5. OpInv'
    <2>0. [start |-> cp.log_head, sectors |-> len] \in Entry
      BY <1>1 DEF Entry
    <2>1. op'.entry \in Entry /\ op'.entry = [start |-> cp.log_head, sectors |-> len]
          /\ op'.head = cp.log_head + len /\ op'.data = data /\ done' = 0
          /\ pc' = "data" /\ UNCHANGED <<cp, log>> /\ MaySave
      BY <2>0 DEF BeginWrite, disk
    <2>a. cp.seq < MaxSeq
      BY <2>1, SaveBound DEF IInv, TypeOK
    <2>2. op'.entry # NoEntry
      BY <2>1 DEF JlfsAssumption
    <2> QED BY <1>1, <1>2, <2>1, <2>a, <2>2 DEF OpInv, Fits
  <1>6. StepsInv'
    BY DEF IInv, StepsInv, StepsIntact, BeginWrite, disk, Mountable, Newest, ContentsOf, Formatting
  <1> QED BY <1>3, <1>4, <1>5, <1>6 DEF IInv

\* set_entry() prepares a checkpoint that names a remembered entry.
LEMMA SetEntryStep ==
    ASSUME JlfsAssumption, IntentAssumption, IInv, UndoStep
    PROVE  IInv'
  <1>0. todo \in 1 .. MaxSteps /\ pc = "idle" /\ cp.seq < MaxSeq /\ steps \in Seq(Step)
    <2>1. MaySave
      BY DEF UndoStep, BeginSetEntry
    <2>2. cp.seq < MaxSeq
      BY <2>1, SaveBound DEF IInv, TypeOK
    <2> QED BY <2>2 DEF IInv, TypeOK, UndoStep, BeginSetEntry, IntentAssumption
  <1> DEFINE st == NextStep
  <1>a. todo <= Len(steps)
    BY DEF IInv, StepsInv
  <1>1. st \in Step /\ st = steps[todo] /\ todo \in 1 .. Len(steps)
    BY <1>0, <1>a DEF NextStep
  <1>2. Newest = slot /\ root[Newest] = cp /\ Mountable
    BY <1>0, NewestIsLive DEF IInv, TypeOK
  <1>3. Fits(st.before, cp.log_head) /\ st.before \in Entry \cup {NoEntry} /\ st.name \in Names
    BY <1>1, <1>2 DEF IInv, StepsInv, Step
  <1>4. cp.seq \in Nat /\ cp.log_head \in 0 .. LogSize
    BY DEF IInv, TypeOK, FsTypeOK, Checkpoint, JlfsAssumption
  <1>5. op' = [name |-> st.name, data |-> ContentsOf(st.before), head |-> cp.log_head,
               entry |-> st.before]
        /\ pc' = "commit" /\ UNCHANGED <<disk, cp, slot, done, result, test, state, steps>>
        /\ todo' = todo - 1
    BY DEF UndoStep, BeginSetEntry
  <1>6. op' \in Op /\ op' # NoOp
    <2>1. ContentsOf(st.before) \in Data \cup {Absent}
      BY <1>3, <1>4, ReadType DEF IInv, TypeOK
    <2> QED BY <1>3, <1>4, <1>5, <2>1 DEF Op, JlfsAssumption
  <1> HIDE DEF st
  <1>7. TypeOK'
    BY <1>0, <1>5, <1>6 DEF IInv, TypeOK, FsTypeOK, disk, PCs, IntentAssumption
  <1>8. RootInv' /\ SeqInv' /\ BootInv' /\ LiveInv'
    BY <1>0, <1>5 DEF IInv, RootInv, SeqInv, BootInv, LiveInv, disk, Formatting
  <1>9. OpInv'
    BY <1>0, <1>3, <1>4, <1>5, <1>6 DEF OpInv, disk, ContentsOf
  <1>10. StepsInv'
    BY <1>0, <1>1, <1>2, <1>5 DEF IInv, StepsInv, StepsIntact, disk, Mountable, Newest, ContentsOf, Formatting
  <1> QED BY <1>7, <1>8, <1>9, <1>10 DEF IInv

\* A data sector goes above everything the newest checkpoint reaches.
LEMMA WritesAbove ==
    ASSUME JlfsAssumption, IInv, pc = "data", done < op.entry.sectors, NEW v
    PROVE  /\ DataSector \in Sectors /\ DataSector > cp.log_head
           /\ Newest = slot /\ root[Newest] = cp
           /\ \A e \in Entry \cup {NoEntry} :
                Fits(e, cp.log_head) => Read([log EXCEPT ![DataSector] = v], e) = Read(log, e)
  <1>1. op \in Op /\ op # NoOp /\ op.entry \in Entry /\ op.head \in 0 .. LogSize
    BY DEF IInv, TypeOK, FsTypeOK, OpInv, Op
  <1>2. op.entry.start \in Nat /\ op.entry.sectors \in Nat /\ done \in Nat
    BY <1>1 DEF IInv, TypeOK, FsTypeOK, Entry, JlfsAssumption
  <1>3. op.entry.start = cp.log_head /\ op.head = op.entry.start + op.entry.sectors
    BY DEF IInv, OpInv
  <1>4. DataSector \in Sectors /\ DataSector > cp.log_head
    BY <1>1, <1>2, <1>3 DEF DataSector, JlfsAssumption
  <1>5. Newest = slot /\ root[Newest] = cp
    BY NewestIsLive DEF IInv, TypeOK
  <1>6. cp.log_head \in 0 .. LogSize /\ log \in [Sectors -> Values \cup {Junk}]
    BY DEF IInv, TypeOK, FsTypeOK, Checkpoint
  <1>7. \A s \in Sectors : s <= cp.log_head => [log EXCEPT ![DataSector] = v][s] = log[s]
    BY <1>4, <1>6
  <1>8. \A e \in Entry \cup {NoEntry} :
          Fits(e, cp.log_head) => Read([log EXCEPT ![DataSector] = v], e) = Read(log, e)
    BY <1>6, <1>7, ReadBelow
  <1> QED BY <1>4, <1>5, <1>8

\* ... so what the intent remembers is not disturbed by it.
LEMMA StepsSurvive ==
    ASSUME JlfsAssumption, IInv, NEW h \in 0 .. LogSize,
           \A e \in Entry \cup {NoEntry} : Fits(e, h) => Read(log', e) = Read(log, e),
           steps # << >> => h = root[Newest].log_head,
           UNCHANGED steps
    PROVE  StepsIntact'
  <1> SUFFICES ASSUME NEW i \in 1 .. Len(steps)
               PROVE  Read(log', steps[i].before) = steps[i].was
    BY DEF StepsIntact, ContentsOf
  <1>1. steps[i] \in Step /\ steps # << >>
    BY DEF IInv, TypeOK
  <1>2. steps[i].before \in Entry \cup {NoEntry}
    BY <1>1 DEF Step
  <1>3. Fits(steps[i].before, h) /\ ContentsOf(steps[i].before) = steps[i].was
    BY <1>1 DEF IInv, StepsInv, StepsIntact
  <1> QED BY <1>2, <1>3 DEF ContentsOf

\* A data sector lands, or is torn, beyond everything referenced.
LEMMA WriteDataStep ==
    ASSUME JlfsAssumption, IInv, WriteData, UNCHANGED <<state, steps, todo>>
    PROVE  IInv'
  <1>0. pc = "data" /\ done < op.entry.sectors /\ log' = [log EXCEPT ![DataSector] = op.data[done + 1]]
        /\ done' = done + 1 /\ UNCHANGED <<sb, root, cp, slot, pc, op, result, test>>
    BY DEF WriteData
  <1>1. op \in Op /\ op # NoOp /\ op.entry \in Entry /\ op.entry.sectors \in 0 .. MaxLen
        /\ op.entry.start \in Nat /\ done \in Nat
        /\ op.data \in [1 .. op.entry.sectors -> Values]
    BY <1>0 DEF IInv, TypeOK, FsTypeOK, OpInv, Op, Entry, JlfsAssumption
  <1>2. DataSector \in Sectors /\ DataSector > cp.log_head /\ Newest = slot /\ root[Newest] = cp
        /\ \A e \in Entry \cup {NoEntry} : Fits(e, cp.log_head) => Read(log', e) = Read(log, e)
    BY <1>0, WritesAbove
  <1>3. op.data[done + 1] \in Values
    BY <1>0, <1>1
  <1>4. TypeOK'
    BY <1>0, <1>1, <1>2, <1>3 DEF IInv, TypeOK, FsTypeOK, JlfsAssumption
  <1>5. RootInv' /\ SeqInv' /\ BootInv' /\ LiveInv'
    BY <1>0 DEF IInv, RootInv, SeqInv, BootInv, LiveInv, NextCheckpoint
  <1>6. OpInv'
    <2>1. \A i \in 1 .. done' : log'[op.entry.start + i] = op.data[i]
      <3> SUFFICES ASSUME NEW i \in 1 .. done' PROVE log'[op.entry.start + i] = op.data[i]
        OBVIOUS
      <3>1. CASE i = done + 1
        <4>1. op.entry.start + i = DataSector
          BY <1>1, <3>1 DEF DataSector
        <4> QED BY <1>0, <1>2, <3>1, <4>1 DEF IInv, TypeOK, FsTypeOK
      <3>2. CASE i \in 1 .. done
        <4>1. log[op.entry.start + i] = op.data[i]
          BY <1>0, <3>2 DEF IInv, OpInv
        <4>2. op.entry.start + i # DataSector
          BY <1>1, <3>2 DEF DataSector
        <4>3. op.entry.start + i \in Sectors
          BY <1>1, <1>2, <3>2 DEF DataSector, JlfsAssumption
        <4> QED BY <1>0, <4>1, <4>2, <4>3 DEF IInv, TypeOK, FsTypeOK
      <3> QED BY <1>0, <1>1, <3>1, <3>2
    <2> QED BY <1>0, <1>1, <2>1 DEF IInv, OpInv
  <1>7. StepsInv'
    <2>1. cp.log_head \in 0 .. LogSize
      BY DEF IInv, TypeOK, FsTypeOK, Checkpoint
    <2>2. StepsIntact'
      BY <1>2, <2>1, StepsSurvive
    <2> QED BY <1>0, <2>2 DEF IInv, StepsInv, Mountable, Newest
  <1> QED BY <1>4, <1>5, <1>6, <1>7 DEF IInv

\* The next checkpoint is built from data that is down.
LEMMA DataWrittenStep ==
    ASSUME JlfsAssumption, IInv, DataWritten, UNCHANGED <<state, steps, todo>>
    PROVE  IInv'
  <1>0. pc = "data" /\ done = op.entry.sectors /\ pc' = "commit"
        /\ UNCHANGED <<disk, cp, slot, op, done, result, test>>
    BY DEF DataWritten
  <1>1. TypeOK'
    BY <1>0 DEF IInv, TypeOK, FsTypeOK, disk, PCs
  <1>2. RootInv' /\ SeqInv' /\ BootInv' /\ LiveInv'
    BY <1>0 DEF IInv, RootInv, SeqInv, BootInv, LiveInv, disk, Formatting
  <1>3. ContentsOf(op.entry) = op.data
    BY <1>0 DEF IInv, OpInv, ContentsOf, Read
  <1>4. OpInv'
    BY <1>0, <1>3 DEF IInv, OpInv, disk, ContentsOf
  <1>5. StepsInv'
    BY <1>0 DEF IInv, StepsInv, StepsIntact, disk, Mountable, Newest, ContentsOf, Formatting
  <1> QED BY <1>1, <1>2, <1>4, <1>5 DEF IInv

\* The checkpoint being written is one, and reaches no further than its head.
LEMMA NextIsCheckpoint ==
    ASSUME JlfsAssumption, IInv, pc \in {"commit", "landed"}
    PROVE  /\ NextCheckpoint \in Checkpoint
           /\ NextCheckpoint.seq = cp.seq + 1
           /\ NextCheckpoint.log_head = op.head
           /\ op.name \in Names /\ op.entry \in Entry \cup {NoEntry}
           /\ \A n \in Names :
                /\ NextCheckpoint.files[n] = IF n = op.name THEN op.entry ELSE cp.files[n]
                /\ Fits(NextCheckpoint.files[n], op.head)
  <1>1. op \in Op /\ op # NoOp /\ cp.seq < MaxSeq /\ cp.log_head <= op.head /\ Fits(op.entry, op.head)
    BY DEF IInv, TypeOK, FsTypeOK, OpInv
  <1>2. op.name \in Names /\ op.entry \in Entry \cup {NoEntry} /\ op.head \in 0 .. LogSize
    BY <1>1 DEF Op
  <1>3. cp.seq \in 1 .. MaxSeq /\ cp.files \in [Names -> Entry \cup {NoEntry}]
        /\ cp.log_head \in 0 .. LogSize /\ cp # Bad /\ root[slot] = cp /\ slot \in Slots
    BY DEF IInv, TypeOK, FsTypeOK, Checkpoint, Directory, LiveInv, JlfsAssumption
  <1>4. NextCheckpoint \in Checkpoint
    BY <1>1, <1>2, <1>3 DEF NextCheckpoint, Checkpoint, Directory, JlfsAssumption
  <1>5. \A n \in Names : NextCheckpoint.files[n] = IF n = op.name THEN op.entry ELSE cp.files[n]
    BY <1>2, <1>3 DEF NextCheckpoint
  <1>6. \A n \in Names : Fits(cp.files[n], cp.log_head)
    BY <1>3 DEF IInv, RootInv
  <1>7. \A n \in Names : Fits(cp.files[n], op.head)
    BY <1>1, <1>2, <1>3, <1>6 DEF Fits, Entry
  <1> QED BY <1>1, <1>2, <1>4, <1>5, <1>7 DEF NextCheckpoint

\* From the moment it lands it is the newest.
LEMMA LandingIsNewest ==
    ASSUME JlfsAssumption, IInv, WriteRoot
    PROVE  Mountable' /\ Newest' = 1 - slot /\ root'[Newest'] = NextCheckpoint
  <1>1. root' = [root EXCEPT ![1 - slot] = NextCheckpoint] /\ sb' = sb /\ pc = "commit"
    BY DEF WriteRoot, Target
  <1>2. slot \in Slots /\ root \in [Slots -> Checkpoint \cup {Bad}]
        /\ root[slot] = cp /\ sb /\ cp # Bad /\ cp.seq \in Nat
    BY <1>1 DEF IInv, TypeOK, FsTypeOK, LiveInv, Checkpoint, JlfsAssumption
  <1>3. NextCheckpoint # Bad /\ NextCheckpoint.seq = cp.seq + 1
    BY <1>1, NextIsCheckpoint DEF JlfsAssumption
  <1>4. root'[slot] = cp /\ root'[1 - slot] = NextCheckpoint
    BY <1>1, <1>2
  <1>5. CASE slot = 0
    BY <1>1, <1>2, <1>3, <1>4, <1>5 DEF Mountable, Newest
  <1>6. CASE slot = 1
    BY <1>1, <1>2, <1>3, <1>4, <1>6 DEF Mountable, Newest
  <1> QED BY <1>2, <1>5, <1>6

\* The checkpoint goes to the slot the newest one is not in.
LEMMA WriteRootStep ==
    ASSUME JlfsAssumption, IInv, WriteRoot, UNCHANGED <<state, steps, todo>>
    PROVE  IInv'
  <1>0. pc = "commit" /\ pc' = "landed" /\ root' = [root EXCEPT ![1 - slot] = NextCheckpoint]
        /\ UNCHANGED <<sb, log, cp, slot, op, done, result, test>>
    BY DEF WriteRoot, Target
  <1>1. slot \in Slots /\ 1 - slot \in Slots /\ root \in [Slots -> Checkpoint \cup {Bad}]
        /\ root[slot] = cp /\ sb /\ cp # Bad /\ cp.seq \in Nat /\ cp.log_head \in 0 .. LogSize
    BY <1>0 DEF IInv, TypeOK, FsTypeOK, LiveInv, Checkpoint, JlfsAssumption
  <1>2. /\ NextCheckpoint \in Checkpoint /\ NextCheckpoint # Bad
        /\ NextCheckpoint.seq = cp.seq + 1
        /\ NextCheckpoint.log_head = op.head
        /\ \A n \in Names : Fits(NextCheckpoint.files[n], NextCheckpoint.log_head)
    BY <1>0, NextIsCheckpoint DEF JlfsAssumption
  <1>3. root'[slot] = cp /\ root'[1 - slot] = NextCheckpoint
    BY <1>0, <1>1
  <1>4. TypeOK'
    BY <1>0, <1>1, <1>2 DEF IInv, TypeOK, FsTypeOK, PCs
  <1>5. RootInv'
    BY <1>1, <1>2, <1>3 DEF IInv, RootInv
  <1>6. SeqInv'
    BY <1>1, <1>2, <1>3 DEF SeqInv
  <1>7. BootInv'
    BY <1>0, <1>1 DEF IInv, BootInv, Formatting
  <1>8. LiveInv'
    BY <1>0, <1>1, <1>3 DEF LiveInv, NextCheckpoint
  <1>9. OpInv'
    BY <1>0 DEF IInv, OpInv, ContentsOf
  <1>10. StepsInv'
    <2>1. Newest = slot /\ root[Newest] = cp
      BY <1>0, NewestIsLive DEF IInv, TypeOK
    <2>2. Mountable' /\ Newest' = 1 - slot /\ root'[Newest'] = NextCheckpoint
      BY LandingIsNewest
    <2>3. \A i \in 1 .. Len(steps) : Fits(steps[i].before, op.head)
      <3> SUFFICES ASSUME NEW i \in 1 .. Len(steps) PROVE Fits(steps[i].before, op.head)
        OBVIOUS
      <3>1. Fits(steps[i].before, cp.log_head)
        BY <2>1 DEF IInv, StepsInv
      <3>2. steps[i] \in Step
        BY DEF IInv, TypeOK
      <3>3. cp.log_head <= op.head /\ op.head \in 0 .. LogSize
        BY <1>0 DEF IInv, OpInv, TypeOK, FsTypeOK, Op
      <3> QED BY <1>1, <3>1, <3>2, <3>3 DEF Fits, Entry, Step
    <2>4. StepsIntact'
      BY <1>0 DEF IInv, StepsInv, StepsIntact, ContentsOf
    <2> QED BY <1>0, <1>2, <2>2, <2>3, <2>4 DEF IInv, StepsInv, Formatting
  <1> QED BY <1>4, <1>5, <1>6, <1>7, <1>8, <1>9, <1>10 DEF IInv

\* A write that returns has made memory agree with the disk.
LEMMA ReturnsStep ==
    ASSUME JlfsAssumption, IInv, Returns, UNCHANGED <<state, steps, todo>>
    PROVE  IInv'
  <1>0. pc = "landed" /\ pc' = "idle" /\ cp' = NextCheckpoint /\ slot' = 1 - slot
        /\ op' = NoOp /\ done' = 0 /\ result' = "ok" /\ UNCHANGED disk
        /\ UNCHANGED <<display, marker, phase>> /\ demo' = IF demo = "write" THEN "mark" ELSE demo
    BY DEF Returns, Target
  <1>1. NextCheckpoint \in Checkpoint /\ NextCheckpoint.seq = cp.seq + 1
    BY <1>0, NextIsCheckpoint
  <1>2. slot \in Slots /\ cp.seq \in Nat /\ sb /\ root[slot] = cp /\ root[1 - slot] = NextCheckpoint
    BY <1>0 DEF IInv, TypeOK, FsTypeOK, Checkpoint, LiveInv
  <1>3. TypeOK'
    BY <1>0, <1>1, <1>2 DEF IInv, TypeOK, FsTypeOK, disk, PCs, JlfsAssumption
  <1>4. RootInv' /\ SeqInv' /\ BootInv'
    BY <1>0, <1>2 DEF IInv, RootInv, SeqInv, BootInv, disk, Formatting
  <1>5. LiveInv'
    <2>1. 1 - slot' = slot
      BY <1>0, <1>2
    <2> QED BY <1>0, <1>1, <1>2, <2>1 DEF LiveInv, disk
  <1>6. OpInv'
    BY <1>0 DEF OpInv
  <1>7. StepsInv'
    BY <1>0 DEF IInv, StepsInv, StepsIntact, disk, Mountable, Newest, ContentsOf, Formatting
  <1> QED BY <1>3, <1>4, <1>5, <1>6, <1>7 DEF IInv

\* A failed request drops the Fs, whatever landed.
LEMMA FailsStep ==
    ASSUME JlfsAssumption, IntentAssumption, IInv, Fails, UNCHANGED <<state, steps>>, todo' \in {-1, todo}
    PROVE  IInv'
  <1>0. pc' = "closed" /\ op' = NoOp /\ done' = 0 /\ result' = "failed"
        /\ UNCHANGED <<sb, root, cp, slot>> /\ pc \in {"data", "commit", "landed"}
        /\ UNCHANGED <<display, marker>> /\ demo' = "over" /\ phase' = 0
    BY DEF Fails, DropFs, disk
  <1>1. log' \in [Sectors -> Values \cup {Junk}] /\ StepsIntact'
    <2>1. CASE UNCHANGED disk
      BY <2>1 DEF IInv, TypeOK, FsTypeOK, disk, StepsInv, StepsIntact, ContentsOf
    <2>2. CASE pc = "data" /\ done < op.entry.sectors
               /\ log' = [log EXCEPT ![DataSector] = op.data[done + 1]]
      <3>1. op.data[done + 1] \in Values
        <4>1. op \in Op /\ op.entry \in Entry /\ op.data \in [1 .. op.entry.sectors -> Values]
          BY <2>2 DEF IInv, TypeOK, FsTypeOK, OpInv, Op
        <4>2. done \in Nat /\ op.entry.sectors \in Nat
          BY <4>1 DEF IInv, TypeOK, FsTypeOK, Entry, JlfsAssumption
        <4> QED BY <2>2, <4>1, <4>2
      <3>2. cp.log_head \in 0 .. LogSize
        BY DEF IInv, TypeOK, FsTypeOK, Checkpoint
      <3>3. root[Newest] = cp
            /\ \A e \in Entry \cup {NoEntry} : Fits(e, cp.log_head) => Read(log', e) = Read(log, e)
        BY <2>2, WritesAbove
      <3>4. StepsIntact'
        BY <3>2, <3>3, StepsSurvive
      <3> QED BY <2>2, <3>1, <3>4 DEF IInv, TypeOK, FsTypeOK
    <2> QED BY <2>1, <2>2 DEF Fails, disk
  <1>2. TypeOK'
    BY <1>0, <1>1 DEF IInv, TypeOK, FsTypeOK, PCs, JlfsAssumption, IntentAssumption
  <1>3. RootInv' /\ SeqInv' /\ BootInv' /\ LiveInv' /\ OpInv'
    BY <1>0 DEF IInv, RootInv, SeqInv, BootInv, LiveInv, OpInv, Formatting
  <1>4. StepsInv'
    <2>1. todo' <= Len(steps)
      BY DEF IInv, TypeOK, StepsInv
    <2> QED BY <1>0, <1>1, <2>1 DEF IInv, StepsInv, Mountable, Newest, Formatting
  <1> QED BY <1>2, <1>3, <1>4 DEF IInv

\* Of a torn sector the newest checkpoint notices nothing.
LEMMA PowerCutStep ==
    ASSUME JlfsAssumption, IntentAssumption, IInv, PowerCut
    PROVE  IInv'
  <1>0. pc' = "boot" /\ op' = NoOp /\ done' = 0 /\ result' = "failed" /\ cp' = FirstCheckpoint
        /\ slot' = 0 /\ state' = "None" /\ steps' = << >> /\ todo' = -1
        /\ (Torn \/ UNCHANGED disk)
        /\ display' = display /\ marker' \in {marker, 0} /\ demo' = "over" /\ phase' = 0
    BY DEF PowerCut, Crash
  <1>a. Settled' => Settled
    BY <1>0
  <1>1. /\ sb' \in BOOLEAN /\ root' \in [Slots -> Checkpoint \cup {Bad}]
        /\ log' \in [Sectors -> Values \cup {Junk}]
        /\ \A k \in Slots : root'[k] \in {root[k], Bad}
        /\ Settled /\ ~sb' => root'[0] = Bad /\ root'[1] = Bad
    <2>0. sb \in BOOLEAN /\ root \in [Slots -> Checkpoint \cup {Bad}]
          /\ log \in [Sectors -> Values \cup {Junk}] /\ slot \in Slots
          /\ (Settled /\ (~sb \/ pc \in Formatting) => root[0] = Bad /\ root[1] = Bad)
      BY DEF IInv, TypeOK, FsTypeOK, BootInv
    <2>1. CASE UNCHANGED disk
      BY <2>0, <2>1 DEF disk
    <2>2. CASE pc = "sb" /\ sb' = FALSE /\ UNCHANGED <<root, log>>
      BY <2>0, <2>2 DEF Formatting
    <2>3. CASE pc \in {"blank", "first", "commit"} /\ UNCHANGED <<sb, log>>
               /\ \E k \in Slots : root' = [root EXCEPT ![k] = Bad]
      BY <2>0, <2>3
    <2>4. CASE pc = "data" /\ done < op.entry.sectors
               /\ log' = [log EXCEPT ![DataSector] = Junk] /\ UNCHANGED <<sb, root>>
      BY <2>0, <2>4, WritesAbove
    <2>5. 1 - slot \in Slots
      BY <2>0
    <2> QED BY <1>0, <2>1, <2>2, <2>3, <2>4, <2>5 DEF Torn, Target
  <1>2. TypeOK'
    BY <1>0, <1>1, FirstIsCheckpoint DEF IInv, TypeOK, FsTypeOK, PCs, JlfsAssumption, IntentAssumption
  <1>3. RootInv' /\ SeqInv' /\ BootInv'
    BY <1>0, <1>1, <1>a DEF IInv, RootInv, SeqInv, BootInv, Formatting
  <1>4. LiveInv' /\ OpInv' /\ StepsInv'
    BY <1>0 DEF LiveInv, OpInv, StepsInv, StepsIntact
  <1> QED BY <1>2, <1>3, <1>4 DEF IInv

\* Every step of the filesystem and of the intents preserves the invariant.
LEMMA NextIInv ==
    ASSUME JlfsAssumption, IntentAssumption, ~ReadFaults, IInv, [Next]_vars
    PROVE  IInv'
  <1>1. CASE NotInUndo /\ Mounting /\ UNCHANGED <<state, steps, todo>>
    BY <1>1, MountStep, MountFailsStep, CloseStep, FormatSteps DEF Mounting
  <1>t. CASE NotInUndo /\ Testing /\ UNCHANGED <<state, steps, todo>>
    BY <1>t, TestingStep
  <1>2. CASE NotInUndo /\ Writing /\ UNCHANGED <<state, steps, todo>>
    BY <1>2, BeginWriteStep DEF Writing
  <1>3. CASE Updating /\ todo' = (IF pc' = "closed" THEN -1 ELSE todo) /\ UNCHANGED <<state, steps>>
    <2>1. CASE Fails
      BY <1>3, <2>1, FailsStep
    <2>2. CASE WriteData \/ DataWritten \/ WriteRoot \/ Returns
      <3>1. pc' # "closed"
        BY <2>2 DEF WriteData, DataWritten, WriteRoot, Returns
      <3> QED BY <1>3, <2>2, <3>1, WriteDataStep, DataWrittenStep, WriteRootStep, ReturnsStep
    <2> QED BY <1>3, <2>1, <2>2 DEF Updating
  <1>4. CASE PowerCut
    BY <1>4, PowerCutStep
  <1>5. CASE Begin \/ Commit \/ BeginUndo \/ SkipStep \/ FinishUndo
    <2>1. UNCHANGED fsvars /\ UNCHANGED steps
      BY <1>5 DEF Begin, Commit, BeginUndo, SkipStep, FinishUndo
    <2>2. TypeOK' /\ todo' <= Len(steps)
      <3>1. steps \in Seq(Step) /\ Len(steps) \in Nat /\ Len(steps) <= MaxSteps
            /\ todo \in -1 .. MaxSteps /\ todo <= Len(steps)
        BY DEF IInv, TypeOK, StepsInv
      <3>2. todo' \in -1 .. MaxSteps /\ todo' <= Len(steps) /\ state' \in {"None", "Open", "Committed", "Undone"}
        BY <1>5, <3>1 DEF Begin, Commit, BeginUndo, SkipStep, FinishUndo, IInv, TypeOK, IntentAssumption
      <3> QED BY <2>1, <3>1, <3>2 DEF IInv, TypeOK, FsTypeOK, fsvars
    <2> QED BY <2>1, <2>2, FsUnchanged
  <1>6. CASE \E n \in Names, undoable \in BOOLEAN : Record(n, undoable)
    BY <1>6, RecordStep
  <1>7. CASE UndoStep
    BY <1>7, SetEntryStep
  <1>8. CASE UNCHANGED vars
    <2>1. UNCHANGED fsvars /\ UNCHANGED <<state, steps, todo>>
      BY <1>8 DEF vars
    <2>2. TypeOK' /\ todo' <= Len(steps)
      BY <2>1 DEF IInv, TypeOK, FsTypeOK, fsvars, StepsInv
    <2> QED BY <2>1, <2>2, FsUnchanged
  <1> QED BY <1>1, <1>t, <1>2, <1>3, <1>4, <1>5, <1>6, <1>7, <1>8 DEF Next, FsStep

\* The inductive invariant.
THEOREM Invariance == ASSUME ~ReadFaults PROVE Spec => []IInv
  <1>1. Init => IInv
    BY InitIInv, JlfsAssumption, IntentAssumption
  <1>2. IInv /\ [Next]_vars => IInv'
    BY NextIInv, JlfsAssumption, IntentAssumption
  <1> QED BY <1>1, <1>2, PTL DEF Spec

\* Every variable of the filesystem and the intent stays in its type: in
\* particular no write, entry or log_head leaves the log's region.
THEOREM TypeCorrect == ASSUME ~ReadFaults PROVE Spec => []TypeOK
  <1>1. IInv => TypeOK
    BY DEF IInv
  <1> QED BY <1>1, Invariance, PTL

\* What an intent remembers is never overwritten: StepsIntact, for every log,
\* every history of writes, failures and undos.
THEOREM NeverOverwritten == ASSUME ~ReadFaults PROVE Spec => []StepsIntact
  <1>1. IInv => StepsIntact
    BY DEF IInv, StepsInv
  <1> QED BY <1>1, Invariance, PTL

-----------------------------------------------------------------------------
(***************************************************************************)
(* JLFS implements AtomicFiles.                                            *)
(***************************************************************************)
absvars == <<Recovered, Asked, Phase, Settled>>

\* What is recovered does not change with the log above the newest log_head.
LEMMA RecoveredSame ==
    ASSUME JlfsAssumption, IInv, UNCHANGED <<sb, root>>, pc = "data",
           \A e \in Entry \cup {NoEntry} : Fits(e, cp.log_head) => Read(log', e) = Read(log, e)
    PROVE  Recovered' = Recovered
  <1>1. Mountable /\ Newest = slot /\ root[Newest] = cp /\ root[slot] = cp /\ slot \in Slots /\ cp # Bad
    BY NewestIsLive DEF IInv, TypeOK, FsTypeOK, LiveInv, JlfsAssumption
  <1>2. \A n \in Names : Fits(cp.files[n], cp.log_head) /\ cp.files[n] \in Entry \cup {NoEntry}
    BY <1>1 DEF IInv, RootInv, TypeOK, FsTypeOK, Checkpoint, Directory
  <1>3. \A n \in Names : Read(log', cp.files[n]) = Read(log, cp.files[n])
    BY <1>2
  <1>4. Mountable' /\ root'[Newest'] = cp
    BY <1>1 DEF Mountable, Newest
  <1> QED BY <1>1, <1>3, <1>4 DEF Recovered, ContentsOf

\* What a mount would recover depends on the disk alone.
LEMMA DiskSame == ASSUME UNCHANGED disk PROVE Recovered' = Recovered
  BY DEF disk, Recovered, Mountable, Newest, ContentsOf

\* What a mount would recover is files.
LEMMA RecoveredType ==
    ASSUME JlfsAssumption, IInv
    PROVE  Recovered \in [Names -> Data \cup {Absent}]
  <1> SUFFICES ASSUME NEW n \in Names, Mountable
               PROVE  ContentsOf(root[Newest].files[n]) \in Data \cup {Absent}
    BY DEF Recovered
  <1>1. Newest \in Slots /\ root[Newest] # Bad
    BY NewestDecodes DEF IInv, TypeOK
  <1>2. root[Newest].log_head \in 0 .. LogSize /\ root[Newest].files[n] \in Entry \cup {NoEntry}
    BY <1>1, CheckpointFields DEF IInv, TypeOK
  <1>3. Fits(root[Newest].files[n], root[Newest].log_head)
    BY <1>1 DEF IInv, RootInv
  <1> QED BY <1>2, <1>3, ReadType DEF IInv, TypeOK

\* Formatting a settled disk shows nobody anything.
LEMMA FormatShowsNothing ==
    ASSUME JlfsAssumption, IInv, FormatStep \/ FormatFails, Settled
    PROVE  Recovered' = Recovered
  <1>0. root[0] = Bad /\ root[1] = Bad /\ pc \in Formatting
    BY DEF IInv, BootInv, FormatStep, FormatFails
  <1>1. Recovered = [n \in Names |-> Absent]
    BY <1>0 DEF Recovered, Mountable
  <1>2. root'[1] = Bad /\ root'[0] \in {Bad, FirstCheckpoint}
    <2>1. FormatLands(pc) \/ UNCHANGED disk
      BY DEF FormatStep, FormatFails
    <2>2. root \in [Slots -> Checkpoint \cup {Bad}]
      BY DEF IInv, TypeOK, FsTypeOK
    <2> QED BY <1>0, <2>1, <2>2 DEF FormatLands, disk
  <1>3. CASE Mountable'
    <2>1. Newest' = 0 /\ root'[Newest'] = FirstCheckpoint
      BY <1>2, <1>3 DEF Mountable, Newest
    <2> QED BY <1>1, <2>1 DEF Recovered, ContentsOf, Read, FirstCheckpoint
  <1>4. CASE ~Mountable'
    BY <1>1, <1>4 DEF Recovered
  <1> QED BY <1>3, <1>4

\* A torn sector is never one that mount() would have needed.
LEMMA CrashShowsNothing ==
    ASSUME JlfsAssumption, IInv, Crash, Settled \/ pc \notin Formatting
    PROVE  Recovered' = Recovered
  <1>0. Torn \/ UNCHANGED disk
    BY DEF Crash
  <1>1. CASE UNCHANGED disk
    BY <1>1, DiskSame
  <1>2. CASE pc \in Formatting /\ Torn
    <2>1. root[0] = Bad /\ root[1] = Bad /\ root \in [Slots -> Checkpoint \cup {Bad}]
      BY <1>2 DEF IInv, BootInv, TypeOK, FsTypeOK
    <2>2. root'[0] = Bad /\ root'[1] = Bad
      BY <1>2, <2>1 DEF Torn, Formatting
    <2> QED BY <2>1, <2>2 DEF Recovered, Mountable
  <1>3. CASE pc = "data" /\ done < op.entry.sectors
             /\ log' = [log EXCEPT ![DataSector] = Junk] /\ UNCHANGED <<sb, root>>
    BY <1>3, WritesAbove, RecoveredSame
  <1>4. CASE pc = "commit" /\ root' = [root EXCEPT ![1 - slot] = Bad] /\ UNCHANGED <<sb, log>>
    <2>1. Mountable /\ Newest = slot /\ root[slot] = cp /\ slot \in Slots /\ cp # Bad /\ sb
          /\ root \in [Slots -> Checkpoint \cup {Bad}]
      BY <1>4, NewestIsLive DEF IInv, TypeOK, FsTypeOK, LiveInv, JlfsAssumption
    <2>2. root'[slot] = cp /\ root'[1 - slot] = Bad
      BY <1>4, <2>1
    <2>3. Mountable' /\ Newest' = slot
      BY <1>4, <2>1, <2>2 DEF Mountable, Newest
    <2> QED BY <1>4, <2>1, <2>2, <2>3 DEF Recovered, ContentsOf
  <1> QED BY <1>0, <1>1, <1>2, <1>3, <1>4 DEF Torn, Target, Formatting

\* The commit is the one step that shows the update, and shows all of it.
LEMMA CommitShowsAll ==
    ASSUME JlfsAssumption, IInv, WriteRoot
    PROVE  Recovered' = [Recovered EXCEPT ![op.name] = op.data]
  <1>0. pc = "commit" /\ log' = log
    BY DEF WriteRoot
  <1>1. Mountable /\ root[Newest] = cp
    BY <1>0, NewestIsLive DEF IInv, TypeOK
  <1>2. Mountable' /\ root'[Newest'] = NextCheckpoint
    BY LandingIsNewest
  <1>3. op.name \in Names
        /\ \A n \in Names : NextCheckpoint.files[n] = IF n = op.name THEN op.entry ELSE cp.files[n]
    BY <1>0, NextIsCheckpoint
  <1>4. Read(log, op.entry) = op.data
    BY <1>0 DEF IInv, OpInv, ContentsOf
  <1> DEFINE before == [n \in Names |-> Read(log, cp.files[n])]
             after == [n \in Names |-> Read(log, NextCheckpoint.files[n])]
  <1>5. Recovered = before
    BY <1>1 DEF Recovered, ContentsOf
  <1>6. Recovered' = after
    BY <1>0, <1>2 DEF Recovered, ContentsOf
  <1>7. after = [before EXCEPT ![op.name] = op.data]
    BY <1>3, <1>4
  <1> QED BY <1>5, <1>6, <1>7

\* An update begun is an update asked for.
LEMMA BeginIsAsk ==
    ASSUME JlfsAssumption, IInv, IInv', UNCHANGED <<disk, test>>, op = NoOp, op' # NoOp,
           pc' \in {"data", "commit"}
    PROVE  Abstract!Next
  <1> DEFINE u == [name |-> op'.name, data |-> op'.data]
  <1>1. op' \in Op
    BY DEF IInv, TypeOK, FsTypeOK
  <1>2. u \in Abstract!Update
    BY <1>1 DEF Op, Abstract!Update
  <1>3. Asked = NoUpdate /\ Asked' = u /\ Phase' = "asked"
    BY DEF Asked, NoUpdate, Phase
  <1>a. Settled' = Settled /\ Recovered' = Recovered
    BY DiskSame
  <1>4. Abstract!Ask(u)
    BY <1>3, <1>a DEF Abstract!Ask
  <1> QED BY <1>2, <1>4 DEF Abstract!Next

\* ... in the next state too.
LEMMA RecoveredTypeNext == IInv' => Recovered' \in [Names -> Data \cup {Absent}]
  <1>1. IInv => Recovered \in [Names -> Data \cup {Absent}]
    BY RecoveredType, JlfsAssumption
  <1>2. IInv' => (Recovered \in [Names -> Data \cup {Absent}])'
    BY <1>1, PTL
  <1> QED BY <1>2

\* Every step is one of the atomic files, or a stutter.
LEMMA RefinementStep ==
    ASSUME JlfsAssumption, IntentAssumption, ~ReadFaults, IInv, IInv', [Next]_vars
    PROVE  [Abstract!Next]_absvars
  <1>a. op = NoOp <=> pc \notin {"data", "commit", "landed"}
    BY DEF IInv, OpInv
  <1>1. CASE Mounting
    <2>1. op = NoOp /\ op' = NoOp /\ result' = result /\ UNCHANGED <<display, marker>>
          /\ {pc, pc'} \cap {"data", "commit", "landed"} = {}
      BY <1>1, <1>a DEF Mounting, Mount, MountFails, Close, FormatStep, FormatFails, Formatting
    <2>2. Asked' = Asked /\ Phase' = Phase /\ Settled' = Settled
      BY <2>1 DEF Asked, Phase
    <2>3. CASE Settled \/ Mount \/ MountFails \/ Close
      <3>1. Recovered' = Recovered
        BY <1>1, <2>3, DiskSame, FormatShowsNothing DEF Mounting, Mount, MountFails, Close
      <3> QED BY <2>2, <3>1 DEF absvars
    <2>4. CASE ~Settled /\ (FormatStep \/ FormatFails)
      <3>1. pc \in Formatting /\ result = "failed"
        BY <2>4 DEF FormatStep, FormatFails, IInv, BootInv
      <3>2. Phase' = "failed" /\ Asked' = NoUpdate
        BY <2>1, <2>2, <3>1 DEF Phase, Asked, NoUpdate, Formatting
      <3>3. Recovered' \in [Names -> Data \cup {Absent}]
        BY RecoveredTypeNext
      <3> QED BY <2>2, <2>4, <3>2, <3>3 DEF Abstract!Next, Abstract!StartOver
    <2> QED BY <1>1, <2>3, <2>4 DEF Mounting
  <1>t. CASE Testing
    <2>1. UNCHANGED <<disk, op, result, display>>
          /\ {pc, pc'} \cap {"data", "commit", "landed"} = {}
          /\ (marker' = marker \/ marker' = phase + 1)
      BY <1>t DEF Testing, BootTest, GiveUp, WritePhase
    <2>2. Asked' = Asked /\ Phase' = Phase /\ Recovered' = Recovered
      BY <2>1, DiskSame DEF Asked, Phase
    <2>3. CASE marker' = marker
      <3>1. Settled' = Settled
        BY <2>1, <2>3
      <3> QED BY <2>2, <3>1 DEF absvars
    <2>4. CASE marker' = phase + 1
      <3>1. phase \in Nat
        BY DEF IInv, TypeOK, FsTypeOK
      <3>2. Settled' = TRUE
        BY <2>4, <3>1
      <3> QED BY <2>2, <3>2 DEF Abstract!Next, Abstract!Settle
    <2> QED BY <2>1, <2>3, <2>4
  <1>2. CASE Writing \/ UndoStep
    <2>1. UNCHANGED <<disk, test>> /\ pc = "idle" /\ pc' \in {"data", "commit"}
      BY <1>2 DEF Writing, BeginWrite, UndoStep, BeginSetEntry
    <2>2. op = NoOp /\ op' # NoOp
      BY <1>a, <2>1 DEF IInv, OpInv
    <2> QED BY <2>1, <2>2, BeginIsAsk
  <1>3. CASE WriteData
    <2>1. UNCHANGED <<sb, root, pc, op, result, test>> /\ pc = "data" /\ done < op.entry.sectors
          /\ log' = [log EXCEPT ![DataSector] = op.data[done + 1]]
      BY <1>3 DEF WriteData
    <2>2. Recovered' = Recovered /\ Settled' = Settled
      BY <2>1, WritesAbove, RecoveredSame
    <2> QED BY <2>1, <2>2 DEF absvars, Asked, Phase
  <1>4. CASE DataWritten
    <2>1. UNCHANGED disk /\ UNCHANGED <<op, result, test>> /\ pc = "data" /\ pc' = "commit"
      BY <1>4 DEF DataWritten
    <2>2. Recovered' = Recovered /\ Settled' = Settled
      BY <2>1, DiskSame
    <2> QED BY <2>1, <2>2 DEF absvars, Asked, Phase
  <1>5. CASE WriteRoot
    <2>1. op # NoOp /\ UNCHANGED <<op, test>> /\ pc = "commit" /\ pc' = "landed"
      BY <1>5, <1>a DEF WriteRoot
    <2>2. Asked = [name |-> op.name, data |-> op.data] /\ Asked' = Asked
          /\ Phase = "asked" /\ Phase' = "done"
      BY <2>1 DEF Asked, Phase
    <2>3. Settled' = Settled
      BY <2>1
    <2> QED BY <1>5, <2>2, <2>3, CommitShowsAll DEF Abstract!Next, Abstract!TakeEffect
  <1>6. CASE Returns
    <2>1. UNCHANGED disk /\ op' = NoOp /\ pc = "landed" /\ pc' = "idle" /\ result' = "ok"
          /\ UNCHANGED <<display, marker>>
      BY <1>6 DEF Returns
    <2>2. Asked' = NoUpdate /\ Phase = "done" /\ Phase' = "ok"
      BY <2>1 DEF Asked, Phase, NoUpdate
    <2>3. Recovered' = Recovered /\ Settled' = Settled
      BY <2>1, DiskSame
    <2> QED BY <2>2, <2>3 DEF Abstract!Next, Abstract!AnswerOk
  <1>7. CASE Fails
    <2>1. op' = NoOp /\ pc' = "closed" /\ result' = "failed" /\ UNCHANGED <<display, marker>>
      BY <1>7 DEF Fails, DropFs
    <2>2. Asked' = NoUpdate /\ Phase' = "failed" /\ Settled' = Settled
      BY <2>1 DEF Asked, Phase, NoUpdate
    <2>3. Recovered' = Recovered
      <3>2. CASE UNCHANGED disk
        BY <3>2, DiskSame
      <3>3. CASE pc = "data" /\ done < op.entry.sectors /\ UNCHANGED <<sb, root>>
                 /\ log' = [log EXCEPT ![DataSector] = op.data[done + 1]]
        BY <3>3, WritesAbove, RecoveredSame
      <3> QED BY <1>7, <3>2, <3>3 DEF Fails, disk
    <2> QED BY <2>2, <2>3 DEF Abstract!Next, Abstract!Fail
  <1>p. CASE PowerCut
    <2>1. op' = NoOp /\ pc' = "boot" /\ result' = "failed" /\ display' = display
          /\ marker' \in {marker, 0} /\ (pc \in Formatting => marker' = marker)
      BY <1>p DEF PowerCut, Crash, Formatting
    <2>2. Asked' = NoUpdate /\ Phase' = "failed"
      BY <2>1 DEF Asked, Phase, NoUpdate
    <2>3. CASE Settled \/ pc \notin Formatting
      <3>1. Recovered' = Recovered
        BY <1>p, <2>3, CrashShowsNothing DEF PowerCut
      <3>2. CASE marker' = marker
        <4>1. Settled' = Settled
          BY <2>1, <3>2
        <4> QED BY <2>2, <3>1, <4>1 DEF Abstract!Next, Abstract!Fail
      <3>3. CASE marker' = 0 /\ ~display
        <4>1. Settled' = FALSE
          BY <2>1, <3>3
        <4> QED BY <2>2, <3>1, <4>1 DEF Abstract!Next, Abstract!Unsettle
      <3>4. CASE display
        <4>1. Settled' = Settled
          BY <2>1, <3>4
        <4> QED BY <2>2, <3>1, <4>1 DEF Abstract!Next, Abstract!Fail
      <3> QED BY <2>1, <3>2, <3>3, <3>4
    <2>4. CASE ~Settled /\ pc \in Formatting
      <3>1. Settled' = Settled
        BY <2>1, <2>4
      <3>2. Recovered' \in [Names -> Data \cup {Absent}]
        BY RecoveredTypeNext
      <3> QED BY <2>2, <2>4, <3>1, <3>2 DEF Abstract!Next, Abstract!StartOver
    <2> QED BY <2>3, <2>4
  <1>8. CASE UNCHANGED fsvars
    <2>1. UNCHANGED disk /\ UNCHANGED <<pc, op, result, test>>
      BY <1>8 DEF fsvars, disk
    <2>2. Recovered' = Recovered /\ Settled' = Settled
      BY <2>1, DiskSame
    <2> QED BY <2>1, <2>2 DEF absvars, Asked, Phase
  <1>9. (\E n \in Names, undoable \in BOOLEAN : Record(n, undoable)) => UNCHANGED fsvars
    BY DEF Record
  <1>10. Begin \/ Commit \/ BeginUndo \/ SkipStep \/ FinishUndo \/ UNCHANGED vars => UNCHANGED fsvars
    BY DEF Begin, Commit, BeginUndo, SkipStep, FinishUndo, vars
  <1> QED BY <1>1, <1>t, <1>2, <1>3, <1>4, <1>5, <1>6, <1>7, <1>p, <1>8, <1>9, <1>10
          DEF Next, FsStep, Updating

\* Crash consistency, for every disk and every history of calls, errors and
\* power cuts: what could be recovered from the disk changes only when an
\* update that was asked for takes effect, and then by all of it.
THEOREM CrashConsistency == ASSUME ~ReadFaults PROVE Spec => UpdatesAreAtomic
  <1>1. Init => Abstract!Init
    BY DEF Init, FsInit, Abstract!Init, Recovered, Mountable, Asked, NoUpdate, Phase
  <1>2. IInv /\ IInv' /\ [Next]_vars => [Abstract!Next]_absvars
    BY RefinementStep, JlfsAssumption, IntentAssumption
  <1>3. Spec => []IInv
    BY Invariance
  <1> QED BY <1>1, <1>2, <1>3, PTL DEF Spec, UpdatesAreAtomic, Abstract!Spec, absvars

-----------------------------------------------------------------------------
(***************************************************************************)
(* undo().  While it runs, the directory that is in use or being written   *)
(* has, for every file among the steps put back so far, the entry of the   *)
(* oldest of them.                                                         *)
(***************************************************************************)
DirectoryNow == IF pc = "idle" THEN cp.files ELSE NextCheckpoint.files

\* Step i is the oldest of its file among those put back down to step k.
Oldest(i, k) ==
    /\ steps[i].undoable
    /\ \A j \in k + 1 .. i - 1 : ~(steps[j].name = steps[i].name /\ steps[j].undoable)

UndoInv ==
    todo # -1 =>
        /\ pc \in {"idle", "commit", "landed"}
        /\ \A i \in todo + 1 .. Len(steps) :
             Oldest(i, todo) => DirectoryNow[steps[i].name] = steps[i].before

\* Going one step back, with step k's file given step k's entry or step k
\* passed over.
LEMMA OneStepBack ==
    ASSUME IInv, UndoInv, pc = "idle", todo \in Nat, todo > 0, NEW dir,
           \A n \in Names : n # steps[todo].name => dir[n] = cp.files[n],
           IF steps[todo].undoable THEN dir[steps[todo].name] = steps[todo].before
                                   ELSE dir[steps[todo].name] = cp.files[steps[todo].name]
    PROVE  \A i \in todo .. Len(steps) :
             Oldest(i, todo - 1) => dir[steps[i].name] = steps[i].before
  <1> SUFFICES ASSUME NEW i \in todo .. Len(steps), Oldest(i, todo - 1)
               PROVE  dir[steps[i].name] = steps[i].before
    OBVIOUS
  <1>0. steps \in Seq(Step) /\ Len(steps) \in Nat /\ todo \in 1 .. Len(steps)
    BY DEF IInv, TypeOK, StepsInv
  <1>1. steps[i] \in Step /\ steps[todo] \in Step
    BY <1>0
  <1>2. steps[i].name \in Names /\ steps[todo].name \in Names
    BY <1>1 DEF Step
  <1>3. CASE i = todo
    BY <1>3 DEF Oldest
  <1>4. CASE i # todo
    <2>1. i \in todo + 1 .. Len(steps) /\ todo \in (todo - 1) + 1 .. i - 1
      BY <1>0, <1>4
    <2>2. ~(steps[todo].name = steps[i].name /\ steps[todo].undoable)
      BY <2>1 DEF Oldest
    <2>3. Oldest(i, todo)
      BY <1>0, <2>1 DEF Oldest
    <2>4. cp.files[steps[i].name] = steps[i].before
      BY <2>1, <2>3 DEF UndoInv, DirectoryNow
    <2> QED BY <1>2, <2>2, <2>4
  <1> QED BY <1>3, <1>4

\* The steps still to be undone lead back to the files before the intent.
LEMMA UndoInvStep ==
    ASSUME JlfsAssumption, IntentAssumption, ~ReadFaults, IInv, UndoInv, [Next]_vars
    PROVE  UndoInv'
  <1>0. steps \in Seq(Step) /\ Len(steps) \in Nat /\ todo \in -1 .. MaxSteps /\ todo <= Len(steps)
    BY DEF IInv, TypeOK, StepsInv
  <1>1. CASE todo = -1 /\ todo' = -1
    BY <1>1 DEF UndoInv
  <1>2. CASE Updating /\ todo' = (IF pc' = "closed" THEN -1 ELSE todo) /\ UNCHANGED steps /\ todo # -1
    <2>1. CASE Fails
      BY <1>2, <2>1 DEF Fails, DropFs, UndoInv
    <2>2. CASE WriteRoot
      <3>1. NextCheckpoint' = NextCheckpoint /\ pc = "commit" /\ pc' = "landed" /\ todo' = todo
        BY <1>2, <2>2 DEF WriteRoot, NextCheckpoint
      <3> QED BY <1>2, <3>1 DEF UndoInv, DirectoryNow, Oldest
    <2>3. CASE Returns
      <3>1. cp' = NextCheckpoint /\ pc = "landed" /\ pc' = "idle" /\ todo' = todo
        BY <1>2, <2>3 DEF Returns
      <3> QED BY <1>2, <3>1 DEF UndoInv, DirectoryNow, Oldest
    <2>4. CASE WriteData \/ DataWritten
      BY <1>2, <2>4 DEF UndoInv, WriteData, DataWritten
    <2> QED BY <1>2, <2>1, <2>2, <2>3, <2>4 DEF Updating
  <1>3. CASE BeginUndo
    BY <1>0, <1>3 DEF BeginUndo, UndoInv, fsvars
  <1>4. CASE SkipStep
    <2>1. pc = "idle" /\ todo > 0 /\ todo' = todo - 1 /\ UNCHANGED <<fsvars, steps>>
          /\ (~steps[todo].undoable \/ cp.files[steps[todo].name] = steps[todo].before)
      BY <1>4 DEF SkipStep, NextStep
    <2>2. \A i \in todo .. Len(steps) : Oldest(i, todo - 1) => cp.files[steps[i].name] = steps[i].before
      BY <1>0, <2>1, OneStepBack
    <2> QED BY <1>0, <2>1, <2>2 DEF UndoInv, DirectoryNow, Oldest, fsvars
  <1>5. CASE UndoStep
    <2>1. pc = "idle" /\ todo > 0 /\ todo' = todo - 1 /\ UNCHANGED <<steps, cp>>
          /\ steps[todo].undoable /\ pc' = "commit"
          /\ op'.name = steps[todo].name /\ op'.entry = steps[todo].before
      BY <1>5 DEF UndoStep, BeginSetEntry, NextStep
    <2>2. steps[todo].name \in Names /\ cp.files \in [Names -> Entry \cup {NoEntry}]
      <3>1. steps[todo] \in Step
        BY <1>0, <2>1
      <3> QED BY <3>1 DEF IInv, TypeOK, FsTypeOK, Checkpoint, Directory, Step
    <2> DEFINE dir == [cp.files EXCEPT ![steps[todo].name] = steps[todo].before]
    <2>3. NextCheckpoint'.files = dir
      BY <2>1 DEF NextCheckpoint
    <2>4. \A i \in todo .. Len(steps) : Oldest(i, todo - 1) => dir[steps[i].name] = steps[i].before
      <3>1. /\ \A n \in Names : n # steps[todo].name => dir[n] = cp.files[n]
            /\ dir[steps[todo].name] = steps[todo].before
        BY <2>2
      <3> HIDE DEF dir
      <3> QED BY <1>0, <2>1, <3>1, OneStepBack
    <2> HIDE DEF dir
    <2> QED BY <1>0, <2>1, <2>3, <2>4 DEF UndoInv, DirectoryNow, Oldest
  <1>6. CASE FinishUndo \/ PowerCut
    BY <1>6 DEF FinishUndo, PowerCut, UndoInv
  <1>7. CASE (Begin \/ Commit \/ UNCHANGED vars) /\ todo # -1
    <2>1. UNCHANGED <<fsvars, steps, todo>>
      BY <1>7 DEF Begin, Commit, vars
    <2> QED BY <2>1 DEF fsvars, UndoInv, DirectoryNow, Oldest, NextCheckpoint
  <1>8. ASSUME NEW n \in Names, NEW u \in BOOLEAN, Record(n, u) PROVE todo = -1 /\ todo' = -1
    BY <1>8 DEF Record, NotInUndo
  <1>9. Begin \/ Commit \/ UNCHANGED vars => todo' = todo
    BY DEF Begin, Commit, vars
  <1>10. CASE FsStep
    <2>1. CASE NotInUndo /\ UNCHANGED <<state, steps, todo>>
      BY <1>1, <2>1 DEF NotInUndo
    <2>2. CASE Updating /\ todo' = (IF pc' = "closed" THEN -1 ELSE todo) /\ UNCHANGED steps
      BY <1>1, <1>2, <2>2
    <2> QED BY <1>10, <2>1, <2>2 DEF FsStep
  <1> QED BY <1>1, <1>3, <1>4, <1>5, <1>6, <1>7, <1>8, <1>9, <1>10 DEF Next

\* Undo puts everything back: UndoRestores, for intents of any length over
\* any files, whatever was written before and between their steps.
THEOREM UndoIsComplete == ASSUME ~ReadFaults PROVE Spec => UndoRestores
  <1>1. Init => UndoInv
    BY DEF Init, UndoInv
  <1>2. IInv /\ UndoInv /\ [Next]_vars => UndoInv'
    BY UndoInvStep, JlfsAssumption, IntentAssumption
  <1>3. IInv /\ UndoInv /\ [Next]_vars => [PutsBack]_vars
    <2> SUFFICES ASSUME IInv, UndoInv, Next, state # "Undone", state' = "Undone",
                        NEW n \in Names, NEW i \in 1 .. Len(steps), First(n, i)
                 PROVE  Recovered[n] = steps[i].was
      BY DEF PutsBack
    <2>1. FinishUndo
      BY DEF Next, FsStep, PowerCut, Begin, Commit, Record, BeginUndo, SkipStep, UndoStep
    <2>2. pc = "idle" /\ todo = 0
      BY <2>1 DEF FinishUndo
    <2>3. Oldest(i, 0) /\ steps[i].name = n
      BY DEF First, Oldest
    <2>4. cp.files[n] = steps[i].before
      BY <2>2, <2>3 DEF UndoInv, DirectoryNow
    <2>5. Mountable /\ root[Newest] = cp
      BY <2>2, NewestIsLive, JlfsAssumption DEF IInv, TypeOK
    <2>6. ContentsOf(steps[i].before) = steps[i].was
      BY DEF IInv, StepsInv, StepsIntact
    <2> QED BY <2>4, <2>5, <2>6 DEF Recovered
  <1> QED BY <1>1, <1>2, <1>3, Invariance, PTL DEF Spec, UndoRestores
=============================================================================
