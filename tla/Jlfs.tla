-------------------------------- MODULE Jlfs --------------------------------
(***************************************************************************)
(* JLFS, the log-structured filesystem (kernel/src/fs.rs), on a disk that  *)
(* may answer a write with an error and whose power may be cut at any      *)
(* moment, and what kernel_main does with it (main.rs): stage3c_demo() at  *)
(* boot, then whole-file updates, dropping the Fs after any error and      *)
(* mounting again.                                                         *)
(*                                                                         *)
(* stage3c_demo() has two halves.  A machine with a display mounts, and    *)
(* formats when that fails.  A machine without one runs the crash test,    *)
(* whose phase is kept in a sector of its own: phase 0, which is also what *)
(* a marker that does not read counts as, formats without looking.         *)
(*                                                                         *)
(* The disk is reached through blk.rs, one request at a time.  A write     *)
(* that is answered with an error may have landed or not; one that is      *)
(* still queued when the client gives up lands before any later request    *)
(* is looked at, so it is as good as landed at once.  A sector write cut   *)
(* by power loss leaves the old sector or a torn one; the CRC (seal,       *)
(* intact) turns a torn checkpoint into one that does not decode.          *)
(*                                                                         *)
(* Lengths are in sectors, sector numbers count from LOG_START, a          *)
(* directory is a function from names (its order is not meaningful).       *)
(***************************************************************************)
EXTENDS Integers, FiniteSets

CONSTANTS
    Names, Values,     \* file names; what a data sector may hold
    Junk,              \* a sector that was never written, or torn
    NoEntry, Absent,   \* no directory entry; the contents of no file
    Bad, NoOp,         \* a checkpoint that does not decode; no call in progress
    MaxFiles,          \* MAX_FILES
    LogSize,           \* log_limit() - LOG_START
    MaxLen,            \* bound: sectors in one write
    MaxSeq,            \* bound: checkpoints written
    MaxTestSeq,        \* bound: checkpoints written without a display
    ReadFaults         \* whether a read may fail while booting and mounting

Slots == {0, 1}
Sectors == 1 .. LogSize
Data == UNION {[1 .. n -> Values \cup {Junk}] : n \in 0 .. MaxLen}
Entry == [start : 0 .. LogSize, sectors : 0 .. MaxLen]
Directory == [Names -> Entry \cup {NoEntry}]
Checkpoint == [seq : 1 .. MaxSeq, log_head : 0 .. LogSize, files : Directory]
Op == [name : Names, data : Data \cup {Absent},
       entry : Entry \cup {NoEntry}, head : 0 .. LogSize]

ASSUME JlfsAssumption ==
    /\ IsFiniteSet(Names)
    /\ MaxFiles \in Nat /\ LogSize \in Nat /\ MaxLen \in Nat /\ MaxSeq \in Nat \ {0}
    /\ MaxTestSeq \in Nat /\ MaxTestSeq <= MaxSeq
    /\ ReadFaults \in BOOLEAN
    /\ Junk \notin Values
    /\ NoEntry \notin Entry /\ Absent \notin Data
    /\ Bad \notin Checkpoint /\ NoOp \notin Op

VARIABLES
    \* The disk.
    sb,            \* the superblock is intact
    root,          \* the two checkpoint sectors
    log,           \* the log
    \* Memory.
    cp, slot,      \* Fs.cp, Fs.slot
    pc,            \* where the only user of the filesystem is
    op,            \* the write() or set_entry() it is in
    done,          \* data sectors of it that were written
    result,        \* what the last one returned
    \* stage3c_demo().
    display,       \* the machine has a display
    marker,        \* the phase its sector on the disk holds; 0: none that reads
    phase,         \* its local variable
    demo           \* what it has still to do

disk == <<sb, root, log>>
test == <<display, marker, phase, demo>>
fsvars == <<sb, root, log, cp, slot, pc, op, done, result, test>>

\* "boot": power just came; "closed": nothing is mounted; "sb", "blank" and
\* "first": format() before each of its writes; then the steps of an update.
Formatting == {"sb", "blank", "first"}
PCs == {"boot", "closed", "idle", "data", "commit", "landed"} \cup Formatting

\* Write a file and then the marker; write the marker; write a file with the
\* power cut on purpose; nothing.
Demos == {"write", "mark", "doomed", "over"}
Phases == 0 .. 4

FsTypeOK ==
    /\ sb \in BOOLEAN
    /\ root \in [Slots -> Checkpoint \cup {Bad}]
    /\ log \in [Sectors -> Values \cup {Junk}]
    /\ cp \in Checkpoint /\ slot \in Slots
    /\ pc \in PCs
    /\ op \in Op \cup {NoOp}
    /\ done \in 0 .. MaxLen
    /\ result \in {"ok", "failed"}
    /\ display \in BOOLEAN /\ marker \in Phases /\ phase \in Phases /\ demo \in Demos

\* Checkpoint::new()
FirstCheckpoint ==
    [seq |-> 1, log_head |-> 0, files |-> [n \in Names |-> NoEntry]]

\* A fresh disk.
FsInit ==
    /\ sb = FALSE
    /\ root = [k \in Slots |-> Bad]
    /\ log = [s \in Sectors |-> Junk]
    /\ cp = FirstCheckpoint /\ slot = 0
    /\ pc = "boot"
    /\ op = NoOp /\ done = 0
    /\ result = "failed"
    /\ display \in BOOLEAN /\ marker = 0 /\ phase = 0 /\ demo = "over"

-----------------------------------------------------------------------------
(***************************************************************************)
(* mount() and format().                                                   *)
(***************************************************************************)

\* The newer of the checkpoints that decode.
Newest == IF root[1] # Bad /\ (root[0] = Bad \/ root[1].seq > root[0].seq)
          THEN 1 ELSE 0

Mountable == sb /\ \E k \in Slots : root[k] # Bad

Mount ==
    /\ pc = "closed" \/ (pc = "boot" /\ display)
    /\ Mountable
    /\ slot' = Newest /\ cp' = root[Newest]
    /\ pc' = "idle"
    /\ UNCHANGED <<disk, op, done, result, test>>

\* Mounting failed, and at the boot of a machine with a display that means
\* format(): no superblock, no checkpoint, or a read answered with an error.
MountFails ==
    /\ pc = "boot" /\ display /\ (~Mountable \/ ReadFaults)
    /\ pc' = "sb"
    /\ UNCHANGED <<disk, cp, slot, op, done, result, test>>

\* read_phase(): 0 for a marker that is not there, is torn or cannot be read.
ReadPhase == {marker} \cup (IF ReadFaults THEN {0} ELSE {})

\* Without a display, phase 0 formats, whatever is there; phases 1 to 3
\* mount and go on; later ones only look.
BootTest ==
    /\ pc = "boot" /\ ~display
    /\ phase' \in ReadPhase
    /\ pc' = IF phase' = 0 THEN "sb" ELSE "closed"
    /\ demo' = CASE phase' \in {0, 3} -> "write"
                 [] phase' \in {1, 2} -> "mark"
                 [] OTHER -> "over"
    /\ UNCHANGED <<disk, cp, slot, op, done, result, display, marker>>

TestOver == demo' = "over" /\ phase' = 0 /\ UNCHANGED <<display, marker>>

\* The test returns early: the mount fails, the file is not what verify()
\* looks for, or the log is full.
GiveUp ==
    /\ demo # "over"
    /\ \/ pc = "closed" /\ (~Mountable \/ ReadFaults)
       \/ pc = "idle" /\ phase # 0 /\ demo # "doomed" /\ result = "failed"
       \/ /\ pc = "idle" /\ demo # "mark"
          /\ \E len \in 0 .. MaxLen : cp.log_head + len > LogSize
    /\ TestOver
    /\ UNCHANGED <<disk, cp, slot, pc, op, done, result>>

\* write_phase(): its error is ignored, and may hide a write that landed.
WritePhase ==
    /\ demo = "mark" /\ pc = "idle"
    /\ marker' \in {marker, phase + 1}
    /\ IF phase \in {1, 2} THEN demo' = "doomed" /\ phase' = phase
                            ELSE demo' = "over" /\ phase' = 0
    /\ UNCHANGED <<disk, cp, slot, pc, op, done, result, display>>

\* The Fs goes out of scope.
Close ==
    /\ pc = "idle" /\ demo = "over" /\ pc' = "closed"
    /\ UNCHANGED <<disk, cp, slot, op, done, result, test>>

\* format()'s writes; the regions it blanks afterwards are not the log's.
FormatLands(where) ==
    \/ where = "sb" /\ sb' = TRUE /\ UNCHANGED <<root, log>>
    \/ where = "blank" /\ root' = [root EXCEPT ![1] = Bad] /\ UNCHANGED <<sb, log>>
    \/ where = "first" /\ root' = [root EXCEPT ![0] = FirstCheckpoint] /\ UNCHANGED <<sb, log>>

FormatStep ==
    /\ pc \in Formatting
    /\ FormatLands(pc)
    /\ pc' = CASE pc = "sb" -> "blank" [] pc = "blank" -> "first" [] pc = "first" -> "closed"
    /\ UNCHANGED <<cp, slot, op, done, result, test>>

FormatFails ==
    /\ pc \in Formatting
    /\ FormatLands(pc) \/ UNCHANGED disk
    /\ pc' = "closed" /\ TestOver
    /\ UNCHANGED <<cp, slot, op, done, result>>

-----------------------------------------------------------------------------
(***************************************************************************)
(* write() and set_entry().                                                *)
(***************************************************************************)

\* read(): the sectors an entry points at.
Read(l, e) == IF e = NoEntry THEN Absent ELSE [i \in 1 .. e.sectors |-> l[e.start + i]]
ContentsOf(e) == Read(log, e)

\* The log stops at the reserved regions.
HasRoom(len) == cp.log_head + len <= LogSize

\* Bound: MaxSeq, MaxTestSeq.
MaySave == cp.seq < (IF display THEN MaxSeq ELSE MaxTestSeq)

\* write(), unless "log is full".
BeginWrite(n, data, len) ==
    /\ pc = "idle" /\ demo # "mark" /\ MaySave
    /\ HasRoom(len)
    /\ op' = [name |-> n, data |-> data, head |-> cp.log_head + len,
              entry |-> [start |-> cp.log_head, sectors |-> len]]
    /\ done' = 0
    /\ pc' = "data"
    /\ UNCHANGED <<disk, cp, slot, result, test>>

\* Mutant of DataSector: from the beginning of the log.
DataSectorWrapped == done + 1

\* Where the next data sector goes.
DataSector == op.entry.start + done + 1

WriteData ==
    /\ pc = "data" /\ done < op.entry.sectors
    /\ log' = [log EXCEPT ![DataSector] = op.data[done + 1]]
    /\ done' = done + 1
    /\ UNCHANGED <<sb, root, cp, slot, pc, op, result, test>>

\* The write that is cut off on purpose never gets here.
DataWritten ==
    /\ pc = "data" /\ done = op.entry.sectors /\ demo # "doomed"
    /\ pc' = "commit"
    /\ UNCHANGED <<disk, cp, slot, op, done, result, test>>

\* set_entry(): an old entry put back, or an entry removed.  With neither
\* there before nor after, it returns at once.
BeginSetEntry(n, e) ==
    /\ pc = "idle" /\ demo = "over" /\ MaySave
    /\ ~(e = NoEntry /\ cp.files[n] = NoEntry)
    /\ op' = [name |-> n, data |-> ContentsOf(e), head |-> cp.log_head, entry |-> e]
    /\ pc' = "commit"
    /\ UNCHANGED <<disk, cp, slot, done, result, test>>

\* Both find the directory full only now.
DirectoryFull ==
    /\ cp.files[op.name] = NoEntry /\ op.entry # NoEntry
    /\ Cardinality({n \in Names : cp.files[n] # NoEntry}) = MaxFiles

NextCheckpoint ==
    [seq |-> cp.seq + 1, log_head |-> op.head,
     files |-> [cp.files EXCEPT ![op.name] = op.entry]]

\* Never the slot of the live root.
Target == 1 - slot

\* The one write that commits.
WriteRoot ==
    /\ pc = "commit" /\ ~DirectoryFull
    /\ root' = [root EXCEPT ![Target] = NextCheckpoint]
    /\ pc' = "landed"
    /\ UNCHANGED <<sb, log, cp, slot, op, done, result, test>>

Returns ==
    /\ pc = "landed"
    /\ cp' = NextCheckpoint /\ slot' = Target
    /\ pc' = "idle" /\ result' = "ok"
    /\ op' = NoOp /\ done' = 0
    /\ demo' = IF demo = "write" THEN "mark" ELSE demo
    /\ UNCHANGED <<disk, display, marker, phase>>

\* Mutant of DropFs: the caller goes on with the Fs it has.
DropFsNot == pc' = "idle"

\* After an error every caller lets go of the Fs.
DropFs == pc' = "closed"

\* An error return: the directory is full, or a write was answered with an
\* error, although (for the root: "landed") it may have reached the disk.
Fails ==
    /\ \/ pc = "commit" /\ UNCHANGED disk
       \/ pc = "landed" /\ UNCHANGED disk
       \/ /\ pc = "data" /\ done < op.entry.sectors
          /\ UNCHANGED <<sb, root>>
          /\ log' \in {log, [log EXCEPT ![DataSector] = op.data[done + 1]]}
    /\ DropFs /\ TestOver
    /\ result' = "failed" /\ op' = NoOp /\ done' = 0
    /\ UNCHANGED <<cp, slot>>

\* Power is lost; of a write in flight the disk may be left with a torn
\* sector.
Torn ==
    \/ pc = "sb" /\ sb' = FALSE /\ UNCHANGED <<root, log>>
    \/ pc = "blank" /\ root' = [root EXCEPT ![1] = Bad] /\ UNCHANGED <<sb, log>>
    \/ pc = "first" /\ root' = [root EXCEPT ![0] = Bad] /\ UNCHANGED <<sb, log>>
    \/ pc = "commit" /\ root' = [root EXCEPT ![Target] = Bad] /\ UNCHANGED <<sb, log>>
    \/ /\ pc = "data" /\ done < op.entry.sectors
       /\ log' = [log EXCEPT ![DataSector] = Junk]
       /\ UNCHANGED <<sb, root>>

\* A torn marker does not read.
Crash ==
    /\ pc # "boot"
    /\ Torn \/ UNCHANGED disk
    /\ marker' \in IF demo = "mark" /\ pc = "idle" THEN {marker, 0} ELSE {marker}
    /\ demo' = "over" /\ phase' = 0 /\ UNCHANGED display
    /\ pc' = "boot"
    /\ cp' = FirstCheckpoint /\ slot' = 0
    /\ result' = "failed" /\ op' = NoOp /\ done' = 0

Mounting == Mount \/ MountFails \/ Close \/ FormatStep \/ FormatFails
Testing == BootTest \/ GiveUp \/ WritePhase
Writing == \E n \in Names, len \in 0 .. MaxLen :
             \E data \in [1 .. len -> Values] : BeginWrite(n, data, len)
Updating == WriteData \/ DataWritten \/ WriteRoot \/ Returns \/ Fails

-----------------------------------------------------------------------------
(***************************************************************************)
(* What a power cut now would leave: the directory of the root that        *)
(* mount() would adopt, and through it the log.                            *)
(***************************************************************************)
Recovered ==
    [n \in Names |-> IF Mountable THEN ContentsOf(root[Newest].files[n]) ELSE Absent]

NoUpdate == NoOp
Phase == IF pc \in {"data", "commit"} THEN "asked"
         ELSE IF pc = "landed" THEN "done" ELSE result
Asked == IF op = NoOp THEN NoUpdate ELSE [name |-> op.name, data |-> op.data]

\* The next boot will not format: the machine has a display, and formats only
\* a disk that holds nothing, or the crash test is past its phase 0.
Settled == display \/ marker # 0

Abstract == INSTANCE AtomicFiles
              WITH Texts <- Data \cup {Absent}, files <- Recovered,
                   update <- Asked, phase <- Phase, settled <- Settled
=============================================================================
