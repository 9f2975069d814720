------------------------------- MODULE Audit -------------------------------
(***************************************************************************)
(* The action log (kernel/src/audit.rs): records in the sectors of a       *)
(* region of the disk, chained by their hashes.  One thread, kernel_main,  *)
(* calls it.  The disk is shared with the cache of module KvCache, whose   *)
(* region begins where this one ends.                                      *)
(*                                                                         *)
(* A hash is the number of the append that computed it: no two records     *)
(* have the same.  A sector read may fail; a write may fail and have       *)
(* landed or not; one cut by the power is done, not begun, or has put only *)
(* part of the new record in its slot.                                     *)
(***************************************************************************)
EXTENDS Integers, FiniteSets, FiniteSetsExt

CONSTANTS
    AuditSectors,  \* sectors of the log's region
    PerSector,     \* RECORDS_PER_SECTOR
    SpillSectors,  \* blocks that fit into the region after it
    MaxAppends,    \* bound: calls of append()
    MaxErrors,     \* bound: requests that fail
    MaxCuts,       \* bound: power cuts
    ScanFaults     \* whether reads may fail while init() looks for the end

ASSUME AuditAssumption ==
    /\ AuditSectors \in Nat /\ PerSector \in Nat \ {0} /\ SpillSectors \in Nat
    /\ MaxAppends \in Nat /\ MaxErrors \in Nat /\ MaxCuts \in Nat
    /\ ScanFaults \in BOOLEAN

VARIABLES
    disk,          \* [0 .. AuditSectors + SpillSectors - 1 -> contents]
    kpc,           \* where kernel_main is: "off", "up", or inside a call
    log,           \* [next_seq, last_hash] of LOG
    buf,           \* the sector append() has read
    rec,           \* the record it is about to put into it, or that is altered
    acked,         \* ghost: the hash append() answered "ok" for, per seq
    damaged,       \* ghost: hashes of records cut short or altered
    appends, errors, cuts

audit == <<log, buf, rec, acked, damaged, appends>>

Sector == 0 .. AuditSectors + SpillSectors - 1
Slot == 0 .. PerSector - 1
Capacity == AuditSectors * PerSector

\* A record; hash 0 is a slot without MAGIC.  `whole': its contents match its
\* hash.
NoRecord == [seq |-> 0, prev |-> 0, hash |-> 0, whole |-> FALSE]
Blank == [i \in Slot |-> NoRecord]

SectorOf(seq) == seq \div PerSector
SlotOf(seq) == seq % PerSector
At(seq) == disk[SectorOf(seq)][SlotOf(seq)]
Put(sector, seq, r) == [sector EXCEPT ![SlotOf(seq)] = r]

AuditInit ==
    /\ disk = [s \in Sector |-> Blank]
    /\ kpc = "off"
    /\ log = [next_seq |-> 0, last_hash |-> 0]
    /\ buf = Blank /\ rec = NoRecord
    /\ acked = [seq \in 0 .. Capacity - 1 |-> 0] /\ damaged = {}
    /\ appends = 0 /\ errors = 0 /\ cuts = 0

-----------------------------------------------------------------------------
(***************************************************************************)
(* init(): the end of the log is the first slot without MAGIC, or where a  *)
(* sector could not be read.                                               *)
(***************************************************************************)

\* Mutant of Log: the end is the last full sector.
LogOfSectors(n) ==
    LET end == (Cardinality({q \in 0 .. n * PerSector - 1 :
                                \A p \in 0 .. q : At(p).hash # 0}) \div PerSector) * PerSector IN
    [next_seq |-> end, last_hash |-> IF end = 0 THEN 0 ELSE At(end - 1).hash]

\* What the scan makes of the first n sectors.
Log(n) ==
    LET read == {q \in 0 .. n * PerSector - 1 : \A p \in 0 .. q : At(p).hash # 0}
        last == At(Max(read)) IN
    IF read = {} THEN [next_seq |-> 0, last_hash |-> 0]
    ELSE [next_seq |-> IF last.seq + 1 < Capacity THEN last.seq + 1 ELSE Capacity,
          last_hash |-> last.hash]

\* All its sectors, or those before the one that fails.
Scan ==
    \E n \in 0 .. AuditSectors :
        LET fails == n < AuditSectors IN
        /\ fails => ScanFaults /\ errors < MaxErrors
        /\ errors' = IF fails THEN errors + 1 ELSE errors
        /\ log' = Log(n)

-----------------------------------------------------------------------------
(***************************************************************************)
(* append(): the tail under the lock, the sector read, changed and         *)
(* written without it, the tail again under the lock.                      *)
(***************************************************************************)
Goto(l) == kpc' = l

NewRecord ==
    [seq |-> log.next_seq, prev |-> log.last_hash, hash |-> appends + 1, whole |-> TRUE]

AppendReads ==
    /\ kpc = "up" /\ appends < MaxAppends /\ log.next_seq < Capacity
    /\ appends' = appends + 1
    /\ rec' = NewRecord
    /\ buf' = disk[SectorOf(log.next_seq)]
    /\ Goto("append")
    /\ UNCHANGED <<disk, log, acked, damaged, errors, cuts>>

\* Written and answered: the tail moves.  A record already there that nobody
\* was promised, from a write that failed and landed, is replaced.
AppendWrites ==
    /\ kpc = "append"
    /\ disk' = [disk EXCEPT ![SectorOf(rec.seq)] = Put(buf, rec.seq, rec)]
    /\ log' = [next_seq |-> rec.seq + 1, last_hash |-> rec.hash]
    /\ acked' = [acked EXCEPT ![rec.seq] = rec.hash]
    /\ buf' = Blank /\ rec' = NoRecord
    /\ Goto("up")
    /\ UNCHANGED <<damaged, appends, errors, cuts>>

\* Mutant of AppendFails: the tail was moved before the write.
AppendFailsMoved ==
    /\ kpc = "append" /\ errors < MaxErrors
    /\ errors' = errors + 1
    /\ log' = [next_seq |-> rec.seq + 1, last_hash |-> rec.hash]
    /\ buf' = Blank /\ rec' = NoRecord
    /\ Goto("up")
    /\ UNCHANGED <<disk, acked, damaged, appends, cuts>>

\* The read or the write fails; the write may have landed.
AppendFails ==
    /\ kpc = "append" /\ errors < MaxErrors
    /\ errors' = errors + 1
    /\ \/ disk' = [disk EXCEPT ![SectorOf(rec.seq)] = Put(buf, rec.seq, rec)]
       \/ UNCHANGED disk
    /\ buf' = Blank /\ rec' = NoRecord
    /\ Goto("up")
    /\ UNCHANGED <<log, acked, damaged, appends, cuts>>

-----------------------------------------------------------------------------
(***************************************************************************)
(* verify(), as far as the disk can be read.                               *)
(***************************************************************************)
HashBefore(seq) == IF seq = 0 THEN 0 ELSE At(seq - 1).hash
Sound(seq) == At(seq).hash # 0 /\ At(seq).prev = HashBefore(seq) /\ At(seq).whole

\* The earliest record that does not verify, or as many as there are.
FirstBad ==
    LET bad == {seq \in 0 .. log.next_seq - 1 : ~Sound(seq)} IN
    IF bad = {} THEN log.next_seq ELSE Min(bad)

-----------------------------------------------------------------------------
(***************************************************************************)
(* corrupt_for_test(), twice: stage6_demo alters a record it has verified, *)
(* the last but one, and flips the byte back.  It looks at no error: when  *)
(* one of the two calls fails the other one stands.                        *)
(***************************************************************************)
TamperBegins ==
    /\ kpc = "up" /\ FirstBad > 0
    /\ rec' = At(IF FirstBad >= 2 THEN FirstBad - 2 ELSE 0)
    /\ Goto("tamper")
    /\ UNCHANGED <<disk, log, buf, acked, damaged, appends, errors, cuts>>

Flip ==
    /\ disk' = [disk EXCEPT ![SectorOf(rec.seq)] = Put(@, rec.seq, [At(rec.seq) EXCEPT !.whole = ~@])]
    /\ damaged' = IF At(rec.seq).whole THEN damaged \cup {rec.hash} ELSE damaged \ {rec.hash}

TamperReturns ==
    /\ Goto(IF kpc = "tamper" THEN "tampered" ELSE "up")
    /\ rec' = IF kpc = "tamper" THEN rec ELSE NoRecord
    /\ UNCHANGED <<log, buf, acked, appends, cuts>>

TamperWrites ==
    /\ kpc \in {"tamper", "tampered"}
    /\ Flip /\ TamperReturns /\ UNCHANGED errors

TamperFails ==
    /\ kpc \in {"tamper", "tampered"} /\ errors < MaxErrors
    /\ errors' = errors + 1
    /\ Flip \/ UNCHANGED <<disk, damaged>>
    /\ TamperReturns

-----------------------------------------------------------------------------
\* Power is cut: nothing in memory survives, and the sector that was being
\* written is as it was, as it was to be, or has the start of its record.
Torn(r) == [r EXCEPT !.whole = FALSE]
CutAudit ==
    \/ UNCHANGED <<disk, damaged>>
    \/ kpc \in {"tamper", "tampered"} /\ Flip
    \/ /\ kpc = "append"
       /\ \/ /\ disk' = [disk EXCEPT ![SectorOf(rec.seq)] = Put(buf, rec.seq, rec)]
             /\ UNCHANGED damaged
          \/ /\ disk' = [disk EXCEPT ![SectorOf(rec.seq)] = Put(buf, rec.seq, Torn(rec))]
             /\ damaged' = damaged \cup {rec.hash}

-----------------------------------------------------------------------------
\* A record that was answered for stays in its place, whatever fails and
\* however often the machine is restarted, as long as init() can read.
RecordsAreKept ==
    \A seq \in DOMAIN acked : acked[seq] # 0 => At(seq).hash = acked[seq]

\* verify() finds what is damaged and nothing else: between two calls the
\* chain is whole up to the first record a power cut or an alteration has
\* damaged, appends that failed half way and were repeated included; and it
\* covers every record that was answered for.
VerifyIsExact ==
    kpc = "up" =>
        /\ \A seq \in DOMAIN acked : acked[seq] # 0 => seq < log.next_seq
        /\ FirstBad = Min({log.next_seq} \cup
                          {seq \in 0 .. log.next_seq - 1 : At(seq).hash \in damaged})
=============================================================================
