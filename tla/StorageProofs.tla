--------------------------- MODULE StorageProofs ---------------------------
(***************************************************************************)
(* Proofs about modules Audit and KvCache: the action log and the cache of *)
(* conversations on their common disk, for every size of the regions, the  *)
(* budget and the bounds, on a disk whose reads succeed while init() looks *)
(* for the end of the log.                                                 *)
(***************************************************************************)
EXTENDS KvCache, FiniteSetTheorems, SequenceTheorems, WellFoundedInduction, TLAPS

Position == 0 .. Capacity - 1
Record == [seq : {q \in Nat : q = 0 \/ q < Capacity}, prev : Nat, hash : Nat, whole : BOOLEAN]

\* The log's region read as one sequence of records.
Tape == [q \in Position |-> At(q)]

Before(T, q) == IF q = 0 THEN 0 ELSE T[q - 1].hash

\* The tape T after n appends, D damaged: the records fill a prefix of it, each
\* in its place and chained to the one before, and no hash was given twice.
IsChain(T, D, n) ==
    /\ T \in [Position -> Record]
    /\ n \in Nat /\ D \subseteq 1 .. n
    /\ \A p, q \in Position : T[q].hash # 0 /\ p < q => T[p].hash # 0
    /\ \A q \in Position : T[q].hash # 0 =>
          /\ T[q].hash <= n
          /\ T[q].seq = q
          /\ T[q].prev = Before(T, q)
          /\ T[q].whole <=> T[q].hash \notin D
    /\ \A p, q \in Position : T[p].hash = T[q].hash /\ T[q].hash # 0 => p = q

\* What was answered for is on the tape.
Keeps(T, A) ==
    /\ A \in [Position -> Nat]
    /\ \A q \in Position : A[q] # 0 => T[q].hash = A[q]

\* The tail l in memory: after it there is at most one record, which nobody was
\* promised.
IsTail(T, A, l) ==
    /\ l \in [next_seq : 0 .. Capacity, last_hash : Nat]
    /\ l.last_hash = Before(T, l.next_seq)
    /\ \A q \in Position : /\ q < l.next_seq => T[q].hash # 0
                           /\ q > l.next_seq => T[q].hash = 0
                           /\ A[q] # 0 => q < l.next_seq

\* The sectors; the spill region holds anything.
DiskType ==
    /\ disk = [s \in Sector |-> disk[s]]
    /\ \A s \in 0 .. AuditSectors - 1 : disk[s] \in [Slot -> Record]

\* What holds even when a read fails while init() looks for the end, and what it
\* takes for the tail is not: the log writes into its own region.
LogTypes ==
    /\ DiskType
    /\ errors \in Nat /\ appends \in Nat
    /\ log \in [next_seq : 0 .. Capacity, last_hash : Nat]
    /\ kpc = "append" => /\ rec \in Record /\ rec.seq \in Position
                         /\ buf = disk[SectorOf(rec.seq)]
    /\ kpc \in {"tamper", "tampered"} => rec.seq \in Position

\* What a call in progress has read is still so.
LogCallInv ==
    /\ kpc = "append" =>
          /\ log.next_seq \in Position /\ appends # 0
          /\ rec = [seq |-> log.next_seq, prev |-> log.last_hash, hash |-> appends, whole |-> TRUE]
          /\ buf = disk[SectorOf(log.next_seq)]
          /\ appends \notin damaged
          /\ \A q \in Position : Tape[q].hash < appends
    /\ kpc \in {"tamper", "tampered"} =>
          rec.seq \in Position /\ Tape[rec.seq].hash = rec.hash /\ rec.hash # 0

LogInv ==
    /\ DiskType
    /\ errors \in Nat
    /\ IsChain(Tape, damaged, appends)
    /\ Keeps(Tape, acked)
    /\ kpc # "off" => IsTail(Tape, acked, log)
    /\ LogCallInv

-----------------------------------------------------------------------------
BlockType ==
    [at : {"resident"}, frame : Frames]
    \cup [at : {"spilling"}, frame : Frames, sector : Nat]
    \cup [at : {"spilled"}, sector : Nat]

\* The types the cache depends on.
CacheTypes ==
    /\ sessions \in Seq(Seq(BlockType))
    /\ Len(sessions) <= MaxSessions
    /\ \A s \in DOMAIN sessions : Len(sessions[s]) <= MaxBlocks
    /\ resident_blocks \in Nat
    /\ spill_next \in SpillStart .. SpillEnd
    /\ mem = [f \in Frames |-> mem[f]]
    /\ free \in SUBSET Frames
    /\ failed \in BOOLEAN

Spots == [b \in Blocks |-> Block(b)]
Held(P) == {b \in DOMAIN P : P[b].at # "spilled"}

\* Where the blocks are, given the disk D, the memory M, the free frames F, the
\* first unused sector n and the block w that is being written out: its sector is
\* the last that was given out, and no other block's.
IsPlaced(P, D, M, F, n, w) ==
    /\ w \in DOMAIN P => P[w].sector = n - 1
    /\ \A b \in DOMAIN P :
          /\ P[b].at = "spilled" => D[P[b].sector] = b /\ (w \in DOMAIN P => P[b].sector < n - 1)
          /\ P[b].at # "spilled" => M[P[b].frame] = b /\ P[b].frame \notin F
          /\ P[b].at # "resident" => P[b].sector \in SpillStart .. n - 1
          /\ P[b].at = "spilling" <=> b = w

IsCounted(P, F, k) ==
    /\ k = Cardinality(Held(P))
    /\ k + Cardinality(F) = Cardinality(Frames)

\* The call in progress, and the block it writes out.
Writing == <<job.s, job.i>>
CacheCallInv ==
    /\ IF kpc = "spill" THEN Writing \in Blocks ELSE job = NoJob
    /\ kpc = "made" => failed
    /\ kpc \in {"room", "spill", "made"} =>
          \/ /\ call.op = "append"
             /\ call.s \in DOMAIN sessions
             /\ call.i = Len(sessions[call.s]) + 1 /\ call.i <= MaxBlocks
          \/ /\ call.op = "read"
             /\ <<call.s, call.i>> \in Blocks /\ Spots[<<call.s, call.i>>].at = "spilled"

CacheInv ==
    /\ CacheTypes
    /\ IsPlaced(Spots, disk, mem, free, spill_next, Writing)
    /\ IsCounted(Spots, free, resident_blocks)
    /\ CacheCallInv
    /\ BudgetHolds

RegionsInv == LogTypes /\ CacheInv
StorageInv == RegionsInv /\ LogInv

-----------------------------------------------------------------------------
(***************************************************************************)
(* Numbers.                                                                *)
(***************************************************************************)

\* A set of naturals that has a member has a least one, which Min chooses.
LEMMA LeastExists ==
  ASSUME NEW S \in SUBSET Nat, S # {}
  PROVE  Min(S) \in S /\ \A x \in S : Min(S) <= x
<1> DEFINE R == OpToRel(<, Nat)
<1>1. IsWellFoundedOn(R, Nat)
  BY NatLessThanWellFounded
<1>2. \A j, k \in S : j < k => <<j, k>> \in R
  BY DEF OpToRel
<1> HIDE DEF R
<1>3. PICK k \in S : \A j \in S : ~(<<j, k>> \in R)
  BY <1>1, WFMin
<1>4. \A j \in S : k <= j
  <2>1. \A j \in S : ~(j < k)
    BY <1>2, <1>3
  <2> QED
    BY <2>1
<1> QED
  BY <1>4 DEF Min

\* Among the first n naturals it has a greatest one, which Max chooses.
LEMMA GreatestExists ==
  ASSUME NEW n \in Nat, NEW S \in SUBSET (0 .. n - 1), S # {}
  PROVE  Max(S) \in S /\ \A x \in S : x <= Max(S)
<1> DEFINE M == {n - x : x \in S}
<1>1. M \in SUBSET Nat /\ M # {}
  OBVIOUS
<1>2. PICK m \in M : \A y \in M : m <= y
  BY <1>1, LeastExists
<1>3. PICK k \in S : m = n - k
  OBVIOUS
<1>4. \A x \in S : n - k <= n - x
  BY <1>2, <1>3
<1>5. \A x \in S : x <= k
  BY <1>4
<1> QED
  BY <1>5 DEF Max

\* A position is in one slot of one of the log's sectors, and no two share one.
LEMMA PlaceOf ==
  ASSUME NEW q \in Position
  PROVE  /\ SectorOf(q) \in 0 .. AuditSectors - 1 /\ SectorOf(q) \in Sector
         /\ SlotOf(q) \in Slot
         /\ q = PerSector * SectorOf(q) + SlotOf(q)
<1>1. q \in Nat /\ q < AuditSectors * PerSector
  BY AuditAssumption DEF Position, Capacity
<1>2. /\ q \div PerSector \in Nat /\ (q % PerSector) \in 0 .. PerSector - 1
      /\ q = PerSector * (q \div PerSector) + (q % PerSector)
  BY <1>1, AuditAssumption
<1> DEFINE d == q \div PerSector
           r == q % PerSector
<1> HIDE DEF d, r
<1>3. PerSector * d + r < AuditSectors * PerSector
  BY <1>1, <1>2 DEF d, r
<1>4. d < AuditSectors
  BY <1>2, <1>3, AuditAssumption DEF d, r
<1> QED
  BY <1>2, <1>4, AuditAssumption DEF d, SectorOf, SlotOf, Slot, Sector

\* A record put into its sector changes the tape there, and the disk nowhere
\* else.
LEMMA PutOnTape ==
  ASSUME DiskType, NEW n \in Position, NEW r \in Record,
         disk' = [disk EXCEPT ![SectorOf(n)] = Put(disk[SectorOf(n)], n, r)]
  PROVE  /\ Tape' = [Tape EXCEPT ![n] = r]
         /\ DiskType'
         /\ \A s \in Sector : s >= AuditSectors => disk'[s] = disk[s]
<1>1. /\ SectorOf(n) \in 0 .. AuditSectors - 1 /\ SectorOf(n) \in Sector
      /\ SlotOf(n) \in Slot
  BY PlaceOf
<1>2. disk[SectorOf(n)] \in [Slot -> Record]
  BY <1>1 DEF DiskType
<1>3. Put(disk[SectorOf(n)], n, r) \in [Slot -> Record]
  BY <1>1, <1>2 DEF Put
<1>4. disk = [s \in Sector |-> disk[s]]
  BY DEF DiskType
<1>5. \A s \in Sector : disk'[s] = IF s = SectorOf(n) THEN Put(disk[SectorOf(n)], n, r) ELSE disk[s]
  BY <1>1, <1>4
<1>6. disk' = [s \in Sector |-> disk'[s]]
  BY <1>1, <1>4
<1>7. \A s \in 0 .. AuditSectors - 1 : s \in Sector
  BY AuditAssumption DEF Sector
<1>8. DiskType'
  BY <1>3, <1>5, <1>6, <1>7 DEF DiskType
<1>9. ASSUME NEW q \in Position
      PROVE  disk'[SectorOf(q)][SlotOf(q)] = IF q = n THEN r ELSE disk[SectorOf(q)][SlotOf(q)]
  <2>1. /\ SectorOf(q) \in Sector /\ SlotOf(q) \in Slot
        /\ q = PerSector * SectorOf(q) + SlotOf(q) /\ n = PerSector * SectorOf(n) + SlotOf(n)
    BY PlaceOf
  <2>2. CASE SectorOf(q) # SectorOf(n)
    BY <1>5, <2>1, <2>2
  <2>3. CASE SectorOf(q) = SectorOf(n)
    <3>1. disk'[SectorOf(q)] = [disk[SectorOf(n)] EXCEPT ![SlotOf(n)] = r]
      BY <1>5, <2>1, <2>3 DEF Put
    <3>2. SlotOf(q) = SlotOf(n) <=> q = n
      BY <2>1, <2>3
    <3> QED
      BY <1>1, <1>2, <2>1, <2>3, <3>1, <3>2
  <2> QED
    BY <2>2, <2>3
<1>10. Tape' = [Tape EXCEPT ![n] = r]
  BY <1>9 DEF Tape, At
<1>11. \A s \in Sector : s >= AuditSectors => disk'[s] = disk[s]
  BY <1>1, <1>5, AuditAssumption DEF Sector
<1> QED
  BY <1>8, <1>10, <1>11

\* A sector of the spill region written leaves the tape as it is.
LEMMA SpillOffTape ==
  ASSUME DiskType, NEW d \in SpillStart .. SpillEnd - 1, NEW x,
         disk' = [disk EXCEPT ![d] = x]
  PROVE  /\ Tape' = Tape /\ DiskType'
         /\ \A s \in Sector : disk'[s] = IF s = d THEN x ELSE disk[s]
<1>1. d \in Sector /\ ~(d \in 0 .. AuditSectors - 1)
  BY AuditAssumption DEF SpillStart, SpillEnd, Sector
<1>2. disk = [s \in Sector |-> disk[s]]
  BY DEF DiskType
<1>3. \A s \in Sector : disk'[s] = IF s = d THEN x ELSE disk[s]
  BY <1>1, <1>2
<1>4. disk' = [s \in Sector |-> disk'[s]]
  BY <1>2
<1>5. \A s \in 0 .. AuditSectors - 1 : s \in Sector
  BY AuditAssumption DEF Sector
<1>6. DiskType'
  BY <1>1, <1>3, <1>4, <1>5 DEF DiskType
<1>7. \A q \in Position : disk'[SectorOf(q)] = disk[SectorOf(q)]
  BY <1>1, <1>3, PlaceOf
<1>8. Tape' = Tape
  BY <1>7 DEF Tape, At
<1> QED
  BY <1>3, <1>6, <1>8

\* The tape is what At reads, in the log's own words.
LEMMA TapeReads ==
  ASSUME DiskType
  PROVE  /\ Tape \in [Position -> Record]
         /\ \A q \in Position : At(q) = Tape[q]
         /\ \A n \in 0 .. Capacity : HashBefore(n) = Before(Tape, n)
<1>1. \A q \in Position : At(q) = Tape[q]
  BY DEF Tape
<1>2. ASSUME NEW q \in Position
      PROVE  At(q) \in Record
  <2>1. SectorOf(q) \in 0 .. AuditSectors - 1 /\ SlotOf(q) \in Slot
    BY PlaceOf
  <2>2. disk[SectorOf(q)] \in [Slot -> Record]
    BY <2>1 DEF DiskType
  <2> QED
    BY <2>1, <2>2 DEF At
<1>3. Tape \in [Position -> Record]
  BY <1>2 DEF Tape
<1>4. Capacity \in Nat
  BY AuditAssumption DEF Capacity
<1>5. \A n \in 0 .. Capacity : n # 0 => n - 1 \in Position
  BY <1>4 DEF Position
<1> QED
  BY <1>1, <1>3, <1>5 DEF HashBefore, Before

-----------------------------------------------------------------------------
(***************************************************************************)
(* The chain.                                                              *)
(***************************************************************************)

\* The record at the tail, whole or torn, may be written: over a record nobody
\* was promised, if there is one.
LEMMA NewRecordOnChain ==
  ASSUME NEW T, NEW D, NEW n, NEW A, NEW l,
         IsChain(T, D, n), Keeps(T, A), IsTail(T, A, l),
         l.next_seq \in Position, n # 0, \A q \in Position : T[q].hash < n,
         NEW r \in Record, NEW E,
         r.seq = l.next_seq, r.prev = l.last_hash, r.hash = n,
         E = D \/ E = D \cup {n}, r.whole <=> n \notin E
  PROVE  LET U == [T EXCEPT ![l.next_seq] = r] IN
         IsChain(U, E, n) /\ Keeps(U, A) /\ IsTail(U, A, l)
<1> DEFINE m == l.next_seq
           U == [T EXCEPT ![m] = r]
<1>0. T \in [Position -> Record] /\ n \in Nat /\ D \subseteq 1 .. n /\ m \in Position
  BY DEF IsChain
<1>1. /\ U \in [Position -> Record] /\ U[m] = r
      /\ \A q \in Position : q # m => U[q] = T[q]
  BY <1>0
<1>2. Position \subseteq Nat
  BY DEF Position
<1>3. \A q \in Position : T[q].hash \in Nat /\ U[q].hash \in Nat
  BY <1>0, <1>1 DEF Record
<1>4. \A q \in Position : (q < m => T[q].hash # 0) /\ (q > m => T[q].hash = 0) /\ (A[q] # 0 => q < m)
  BY DEF IsTail
<1>5. E \subseteq 1 .. n
  <2>1. n \in 1 .. n
    BY <1>0
  <2> QED
    BY <1>0, <2>1
<1> HIDE DEF U, m
<1>6. \A q \in Position : (q < m => U[q].hash # 0) /\ (q > m => U[q].hash = 0)
  BY <1>1, <1>2, <1>4, <1>0
<1>7. \A p, q \in Position : U[q].hash # 0 /\ p < q => U[p].hash # 0
  BY <1>0, <1>2, <1>6
<1>8. \A q \in Position : q <= m /\ q # 0 => q - 1 \in Position /\ U[q - 1] = T[q - 1]
  <2>1. Capacity \in Nat
    BY AuditAssumption DEF Capacity
  <2>2. \A q \in Position : q <= m /\ q # 0 => q - 1 \in Position /\ q - 1 # m
    BY <1>0, <2>1 DEF Position
  <2> QED
    BY <1>1, <2>2
<1>9. \A q \in Position : q <= m => Before(U, q) = Before(T, q)
  BY <1>8 DEF Before
<1>10. l.last_hash = Before(T, m) /\ r.seq = m /\ r.prev = l.last_hash /\ r.hash = n
  BY DEF IsTail, m
<1>11. ASSUME NEW q \in Position, U[q].hash # 0
       PROVE  /\ U[q].hash <= n /\ U[q].seq = q
              /\ U[q].prev = Before(U, q)
              /\ U[q].whole <=> U[q].hash \notin E
  <2>1. q <= m
    BY <1>0, <1>2, <1>6, <1>11
  <2>2. CASE q = m
    BY <1>0, <1>1, <1>9, <1>10, <2>1, <2>2
  <2>3. CASE q # m
    <3>1. U[q] = T[q] /\ T[q].hash # 0 /\ T[q].hash # n
      BY <1>0, <1>1, <1>3, <1>11, <2>3
    <3>2. /\ T[q].hash <= n /\ T[q].seq = q
          /\ T[q].prev = Before(T, q)
          /\ T[q].whole <=> T[q].hash \notin D
      BY <3>1 DEF IsChain
    <3>3. T[q].hash \in E <=> T[q].hash \in D
      BY <3>1
    <3> QED
      BY <1>9, <2>1, <3>1, <3>2, <3>3
  <2> QED
    BY <2>2, <2>3
<1>12. ASSUME NEW p \in Position, NEW q \in Position, U[p].hash = U[q].hash, U[q].hash # 0
       PROVE  p = q
  <2>1. CASE p # m /\ q # m
    BY <1>1, <1>12, <2>1 DEF IsChain
  <2>2. CASE p = m \/ q = m
    BY <1>0, <1>1, <1>3, <1>10, <1>12, <2>2
  <2> QED
    BY <2>1, <2>2
<1>13. IsChain(U, E, n)
  BY <1>0, <1>1, <1>5, <1>7, <1>11, <1>12 DEF IsChain
<1>14. Keeps(U, A)
  BY <1>0, <1>1, <1>2, <1>4 DEF Keeps
<1>15. Before(U, m) = Before(T, m)
  BY <1>0, <1>2, <1>9
<1>16. IsTail(U, A, l)
  BY <1>4, <1>6, <1>15 DEF IsTail, m
<1> QED
  BY <1>13, <1>14, <1>16 DEF U, m

\* Answered for, and the tail moved past it.
LEMMA TailMoves ==
  ASSUME NEW T, NEW D, NEW n, NEW A, NEW l,
         IsChain(T, D, n), Keeps(T, A), IsTail(T, A, l),
         l.next_seq \in Position, T[l.next_seq].hash = n, n # 0
  PROVE  LET B == [A EXCEPT ![l.next_seq] = n] IN
         Keeps(T, B) /\ IsTail(T, B, [next_seq |-> l.next_seq + 1, last_hash |-> n])
<1> DEFINE m == l.next_seq
           B == [A EXCEPT ![m] = n]
           k == [next_seq |-> m + 1, last_hash |-> n]
<1>1. A \in [Position -> Nat] /\ n \in Nat /\ m \in Position
  BY DEF Keeps, IsChain
<1>2. \A q \in Position : B[q] = IF q = m THEN n ELSE A[q]
  BY <1>1
<1>3. B \in [Position -> Nat]
  BY <1>1
<1>4. Keeps(T, B)
  BY <1>2, <1>3 DEF Keeps
<1>5. k \in [next_seq : 0 .. Capacity, last_hash : Nat]
  BY <1>1, AuditAssumption DEF Position, Capacity
<1>6. Before(T, m + 1) = n
  BY <1>1 DEF Before, Position
<1>7. \A q \in Position : (q < m => T[q].hash # 0) /\ (q > m => T[q].hash = 0) /\ (A[q] # 0 => q < m)
  BY DEF IsTail
<1>8. m \in Nat /\ Position \subseteq Nat
  BY <1>1 DEF Position
<1> HIDE DEF m, B
<1>9. \A q \in Position : /\ q < m + 1 => T[q].hash # 0
                          /\ q > m + 1 => T[q].hash = 0
                          /\ B[q] # 0 => q < m + 1
  <2> SUFFICES ASSUME NEW q \in Position
               PROVE  /\ q < m + 1 => T[q].hash # 0
                      /\ q > m + 1 => T[q].hash = 0
                      /\ B[q] # 0 => q < m + 1
    OBVIOUS
  <2>1. q \in Nat /\ T[m].hash = n
    BY <1>8 DEF m
  <2> QED
    BY <1>2, <1>7, <1>8, <2>1
<1>10. IsTail(T, B, k)
  BY <1>5, <1>6, <1>9 DEF IsTail
<1> QED
  BY <1>4, <1>10 DEF B, m

\* A byte of a record flipped.
LEMMA FlipOnChain ==
  ASSUME NEW T, NEW D, NEW n, NEW A, IsChain(T, D, n), Keeps(T, A),
         NEW m \in Position, T[m].hash # 0, NEW E,
         E = IF T[m].whole THEN D \cup {T[m].hash} ELSE D \ {T[m].hash}
  PROVE  LET U == [T EXCEPT ![m] = [T[m] EXCEPT !.whole = ~@]] IN
         /\ IsChain(U, E, n) /\ Keeps(U, A)
         /\ \A l : IsTail(T, A, l) => IsTail(U, A, l)
         /\ \A q \in Position : U[q].hash = T[q].hash
<1> DEFINE r == [T[m] EXCEPT !.whole = ~@]
           U == [T EXCEPT ![m] = r]
<1>0. T \in [Position -> Record] /\ n \in Nat /\ D \subseteq 1 .. n /\ T[m] \in Record
  BY DEF IsChain
<1>1. /\ r \in Record /\ r.hash = T[m].hash /\ r.seq = T[m].seq /\ r.prev = T[m].prev
      /\ r.whole = ~T[m].whole
  BY <1>0 DEF Record
<1> HIDE DEF r
<1>2. /\ U \in [Position -> Record] /\ U[m] = r
      /\ \A q \in Position : q # m => U[q] = T[q]
  BY <1>0, <1>1
<1> HIDE DEF U
<1>3. \A q \in Position : U[q].hash = T[q].hash /\ U[q].seq = T[q].seq /\ U[q].prev = T[q].prev
  BY <1>1, <1>2
<1>4. T[m].hash \in 1 .. n
  <2>1. T[m].hash <= n /\ T[m].hash \in Nat
    BY <1>0 DEF IsChain, Record
  <2> QED
    BY <1>0, <2>1
<1>5. E \subseteq 1 .. n
  BY <1>0, <1>4
<1>6. \A q \in 0 .. Capacity : Before(U, q) = Before(T, q)
  <2>1. \A q \in 0 .. Capacity : q # 0 => q - 1 \in Position
    BY AuditAssumption DEF Position, Capacity
  <2> QED
    BY <1>3, <2>1 DEF Before
<1>7. Position \subseteq 0 .. Capacity
  BY AuditAssumption DEF Position, Capacity
<1>8. ASSUME NEW q \in Position, U[q].hash # 0
      PROVE  U[q].whole <=> U[q].hash \notin E
  <2>1. T[q].whole <=> T[q].hash \notin D
    BY <1>3, <1>8 DEF IsChain
  <2>2. CASE q = m
    <3>1. T[m].whole \in BOOLEAN
      BY <1>0 DEF Record
    <3> QED
      BY <1>1, <1>2, <2>1, <2>2, <3>1
  <2>3. CASE q # m
    <3>1. T[q].hash # T[m].hash
      BY <2>3 DEF IsChain
    <3> QED
      BY <1>2, <2>1, <2>3, <3>1
  <2> QED
    BY <2>2, <2>3
<1>9. IsChain(U, E, n)
  <2>1. \A p, q \in Position : U[q].hash # 0 /\ p < q => U[p].hash # 0
    BY <1>3 DEF IsChain
  <2>2. \A q \in Position : U[q].hash # 0 => U[q].hash <= n /\ U[q].seq = q /\ U[q].prev = Before(U, q)
    BY <1>3, <1>6, <1>7 DEF IsChain
  <2>3. \A p, q \in Position : U[p].hash = U[q].hash /\ U[q].hash # 0 => p = q
    BY <1>3 DEF IsChain
  <2> QED
    BY <1>0, <1>2, <1>5, <1>8, <2>1, <2>2, <2>3 DEF IsChain
<1>10. Keeps(U, A)
  BY <1>3 DEF Keeps
<1>11. ASSUME NEW l, IsTail(T, A, l)
       PROVE  IsTail(U, A, l)
  <2>1. l.next_seq \in 0 .. Capacity
    BY <1>11 DEF IsTail
  <2> QED
    BY <1>3, <1>6, <1>11, <2>1 DEF IsTail
<1> QED
  BY <1>3, <1>9, <1>10, <1>11 DEF U, r

\* init(), when every sector can be read, finds the tail.
LEMMA ScanFindsTail ==
  ASSUME NEW D, NEW n, NEW A, DiskType, IsChain(Tape, D, n), Keeps(Tape, A)
  PROVE  IsTail(Tape, A, Log(AuditSectors))
<1> DEFINE T == Tape
           read == {q \in 0 .. AuditSectors * PerSector - 1 : \A p \in 0 .. q : At(p).hash # 0}
           l == Log(AuditSectors)
<1>1. T \in [Position -> Record] /\ \A q \in Position : At(q) = T[q]
  BY TapeReads
<1>2. Capacity \in Nat /\ Capacity = AuditSectors * PerSector /\ Position \subseteq Nat
  BY AuditAssumption DEF Capacity, Position
<1>3. \A q \in Position : q \in read <=> T[q].hash # 0
  <2> SUFFICES ASSUME NEW q \in Position
               PROVE  (\A p \in 0 .. q : At(p).hash # 0) <=> T[q].hash # 0
    BY <1>2 DEF Position
  <2>1. q \in 0 .. q /\ \A p \in 0 .. q : p \in Position /\ (p = q \/ p < q)
    BY <1>2 DEF Position
  <2>2. \A p \in Position : T[q].hash # 0 /\ p < q => T[p].hash # 0
    BY DEF IsChain
  <2> QED
    BY <1>1, <2>1, <2>2
<1>4. read \subseteq Position
  BY <1>2 DEF Position
<1>5. l = IF read = {} THEN [next_seq |-> 0, last_hash |-> 0]
          ELSE [next_seq |-> IF At(Max(read)).seq + 1 < Capacity THEN At(Max(read)).seq + 1 ELSE Capacity,
                last_hash |-> At(Max(read)).hash]
  BY DEF Log
<1>6. \A q \in Position : A[q] # 0 => T[q].hash # 0
  BY DEF Keeps
<1> HIDE DEF read, T, l
<1>7. CASE read = {}
  <2>1. l = [next_seq |-> 0, last_hash |-> 0]
    BY <1>5, <1>7
  <2>2. \A q \in Position : T[q].hash = 0 /\ A[q] = 0
    BY <1>3, <1>6, <1>7
  <2>3. \A q \in Position : ~(q < 0)
    BY <1>2
  <2> QED
    BY <1>2, <2>1, <2>2, <2>3 DEF IsTail, Before, T, l
<1>8. CASE read # {}
  <2> DEFINE m == Max(read)
  <2>1. m \in read /\ \A x \in read : x <= m
    BY <1>2, <1>4, <1>8, GreatestExists DEF Position
  <2> HIDE DEF m
  <2>2. m \in Position /\ T[m].hash # 0 /\ At(m) = T[m] /\ T[m].hash \in Nat
    BY <1>1, <1>3, <1>4, <2>1 DEF Record
  <2>3. T[m].seq = m
    BY <2>2 DEF IsChain, T
  <2>4. l.next_seq = m + 1 /\ l.last_hash = T[m].hash /\ l \in [next_seq : 0 .. Capacity, last_hash : Nat]
    <3>1. m + 1 \in 0 .. Capacity
      BY <1>2, <2>2 DEF Position
    <3> QED
      BY <1>2, <1>5, <1>8, <2>2, <2>3, <3>1 DEF m
  <2>5. Before(T, m + 1) = T[m].hash
    <3>1. m \in Nat /\ m + 1 # 0 /\ (m + 1) - 1 = m
      BY <1>2, <2>2
    <3> QED
      BY <3>1 DEF Before
  <2>6. ASSUME NEW q \in Position
        PROVE  /\ q < m + 1 => T[q].hash # 0
               /\ q > m + 1 => T[q].hash = 0
               /\ A[q] # 0 => q < m + 1
    <3>1. T[q].hash # 0 => q <= m
      BY <1>3, <2>1
    <3>2. q < m => T[q].hash # 0
      BY <2>2 DEF IsChain, T
    <3> QED
      BY <1>2, <1>6, <2>2, <3>1, <3>2
  <2> QED
    BY <2>4, <2>5, <2>6 DEF IsTail, T, l
<1> QED
  BY <1>7, <1>8

-----------------------------------------------------------------------------
(***************************************************************************)
(* The steps, and the log.                                                 *)
(***************************************************************************)

\* A step that leaves the tape alone and begins no call of the log.
LEMMA LogUntouched ==
  ASSUME LogInv, Tape' = Tape, DiskType', UNCHANGED <<damaged, appends, acked>>,
         errors' \in Nat,
         kpc' \notin {"append", "tamper", "tampered"},
         kpc' = "off" \/ IsTail(Tape, acked, log')
  PROVE  LogInv'
  BY Zenon DEF LogInv, LogCallInv

LEMMA AppendReadsLog ==
  ASSUME LogInv, AppendReads
  PROVE  LogInv'
<1>1. /\ UNCHANGED <<disk, log, acked, damaged, errors>> /\ kpc' = "append" /\ kpc = "up"
      /\ appends' = appends + 1 /\ log.next_seq < Capacity
      /\ rec' = [seq |-> log.next_seq, prev |-> log.last_hash, hash |-> appends + 1, whole |-> TRUE]
      /\ buf' = disk[SectorOf(log.next_seq)]
  BY DEF AppendReads, NewRecord, Goto
<1>2. Tape' = Tape /\ DiskType'
  BY <1>1 DEF Tape, At, DiskType, LogInv
<1>3. /\ IsChain(Tape, damaged, appends) /\ Keeps(Tape, acked) /\ IsTail(Tape, acked, log)
      /\ appends \in Nat
  BY <1>1 DEF LogInv, IsChain
<1>4. damaged \subseteq 1 .. appends /\ Tape \in [Position -> Record]
  BY <1>3 DEF IsChain
<1>5. \A q \in Position : Tape[q].hash \in Nat
  BY <1>4 DEF Record
<1>6. \A q \in Position : Tape[q].hash # 0 => Tape[q].hash <= appends
  BY <1>3 DEF IsChain
<1>7. \A q \in Position : Tape[q].hash < appends + 1
  BY <1>3, <1>5, <1>6
<1>8. damaged \subseteq 1 .. appends + 1 /\ appends + 1 \notin damaged /\ appends + 1 \in Nat /\ appends + 1 # 0
  BY <1>3, <1>4
<1>9. \A q \in Position : Tape[q].hash # 0 => Tape[q].hash <= appends + 1
  BY <1>3, <1>5, <1>6
<1>10. IsChain(Tape, damaged, appends + 1)
  BY <1>3, <1>8, <1>9 DEF IsChain
<1>11. log.next_seq \in Position
  BY <1>1, <1>3, AuditAssumption DEF IsTail, Position, Capacity
<1>12. LogCallInv'
  BY <1>1, <1>2, <1>7, <1>8, <1>11 DEF LogCallInv
<1> QED
  BY <1>1, <1>2, <1>3, <1>10, <1>12 DEF LogInv

\* The write of append(), whole or torn, with the tail as it was.
LEMMA RecordWritten ==
  ASSUME LogInv, kpc = "append", NEW r, NEW E,
         \/ r = rec /\ E = damaged
         \/ r = Torn(rec) /\ E = damaged \cup {rec.hash},
         disk' = [disk EXCEPT ![SectorOf(rec.seq)] = Put(buf, rec.seq, r)]
  PROVE  /\ Tape' = [Tape EXCEPT ![log.next_seq] = r] /\ DiskType'
         /\ \A s \in Sector : s >= AuditSectors => disk'[s] = disk[s]
         /\ IsChain(Tape', E, appends) /\ Keeps(Tape', acked) /\ IsTail(Tape', acked, log)
         /\ log.next_seq \in Position /\ Tape'[log.next_seq].hash = appends
<1>1. /\ log.next_seq \in Position /\ appends # 0
      /\ rec = [seq |-> log.next_seq, prev |-> log.last_hash, hash |-> appends, whole |-> TRUE]
      /\ buf = disk[SectorOf(log.next_seq)]
      /\ appends \notin damaged
      /\ \A q \in Position : Tape[q].hash < appends
  BY DEF LogInv, LogCallInv
<1>2. /\ DiskType /\ IsChain(Tape, damaged, appends) /\ Keeps(Tape, acked) /\ IsTail(Tape, acked, log)
  BY DEF LogInv
<1>3. log.last_hash \in Nat /\ log.next_seq \in {q \in Nat : q = 0 \/ q < Capacity} /\ appends \in Nat
  <2>1. log.next_seq \in Nat /\ log.next_seq < Capacity
    BY <1>1, AuditAssumption DEF Position, Capacity
  <2> QED
    BY <1>2, <2>1 DEF IsTail, IsChain
<1>4. /\ r \in Record /\ r.seq = log.next_seq /\ r.prev = log.last_hash /\ r.hash = appends
      /\ E = damaged \/ E = damaged \cup {appends}
      /\ r.whole <=> appends \notin E
  <2>1. CASE r = rec /\ E = damaged
    BY <1>1, <1>3, <2>1 DEF Record
  <2>2. CASE r = Torn(rec) /\ E = damaged \cup {rec.hash}
    BY <1>1, <1>3, <2>2 DEF Record, Torn
  <2> QED
    BY <2>1, <2>2
<1>5. /\ Tape' = [Tape EXCEPT ![log.next_seq] = r] /\ DiskType'
      /\ \A s \in Sector : s >= AuditSectors => disk'[s] = disk[s]
  <2>1. disk' = [disk EXCEPT ![SectorOf(log.next_seq)] = Put(disk[SectorOf(log.next_seq)], log.next_seq, r)]
    BY <1>1
  <2> QED
    BY <1>1, <1>2, <1>4, <2>1, PutOnTape
<1> DEFINE U == [Tape EXCEPT ![log.next_seq] = r]
<1>6. IsChain(U, E, appends) /\ Keeps(U, acked) /\ IsTail(U, acked, log)
  BY <1>1, <1>2, <1>4, NewRecordOnChain
<1>7. U[log.next_seq].hash = appends
  BY <1>1, <1>2, <1>4 DEF IsChain
<1> QED
  BY <1>1, <1>5, <1>6, <1>7

LEMMA AppendWritesLog ==
  ASSUME LogInv, AppendWrites
  PROVE  LogInv'
<1>1. /\ kpc = "append" /\ kpc' = "up"
      /\ disk' = [disk EXCEPT ![SectorOf(rec.seq)] = Put(buf, rec.seq, rec)]
      /\ log' = [next_seq |-> rec.seq + 1, last_hash |-> rec.hash]
      /\ acked' = [acked EXCEPT ![rec.seq] = rec.hash]
      /\ UNCHANGED <<damaged, appends, errors>>
  BY DEF AppendWrites, Goto
<1>2. rec.seq = log.next_seq /\ rec.hash = appends /\ appends # 0 /\ errors \in Nat
  BY <1>1 DEF LogInv, LogCallInv
<1>3. /\ DiskType' /\ IsChain(Tape', damaged, appends) /\ Keeps(Tape', acked) /\ IsTail(Tape', acked, log)
      /\ log.next_seq \in Position /\ Tape'[log.next_seq].hash = appends
  BY <1>1, RecordWritten
<1>4. Keeps(Tape', acked') /\ IsTail(Tape', acked', log')
  BY <1>1, <1>2, <1>3, TailMoves
<1> QED
  BY <1>1, <1>2, <1>3, <1>4 DEF LogInv, LogCallInv

LEMMA AppendFailsLog ==
  ASSUME LogInv, AppendFails
  PROVE  LogInv'
<1>1. /\ kpc = "append" /\ kpc' = "up" /\ errors' = errors + 1
      /\ UNCHANGED <<damaged, appends, acked, log>>
  BY DEF AppendFails, Goto
<1>2. errors' \in Nat
  BY <1>1 DEF LogInv
<1>3. CASE UNCHANGED disk
  <2>1. Tape' = Tape /\ DiskType' /\ IsTail(Tape, acked, log')
    BY <1>1, <1>3 DEF Tape, At, DiskType, LogInv
  <2> QED
    BY <1>1, <1>2, <2>1, LogUntouched
<1>4. CASE disk' = [disk EXCEPT ![SectorOf(rec.seq)] = Put(buf, rec.seq, rec)]
  <2>1. /\ DiskType' /\ IsChain(Tape', damaged, appends) /\ Keeps(Tape', acked)
        /\ IsTail(Tape', acked, log)
    BY <1>1, <1>4, RecordWritten
  <2> QED
    BY <1>1, <1>2, <2>1 DEF LogInv, LogCallInv
<1> QED
  BY <1>3, <1>4 DEF AppendFails

\* verify()'s answer is a position of the log, or its length.
LEMMA FirstBadInLog ==
  ASSUME log.next_seq \in Nat
  PROVE  FirstBad \in 0 .. log.next_seq
<1> DEFINE bad == {seq \in 0 .. log.next_seq - 1 : ~Sound(seq)}
<1>1. bad # {} => Min(bad) \in bad
  BY LeastExists
<1>2. \A seq \in bad : seq \in 0 .. log.next_seq
  OBVIOUS
<1> HIDE DEF bad
<1>3. FirstBad = IF bad = {} THEN log.next_seq ELSE Min(bad)
  BY DEF FirstBad, bad
<1> QED
  BY <1>1, <1>2, <1>3

LEMMA TamperBeginsLog ==
  ASSUME LogInv, TamperBegins
  PROVE  LogInv'
<1> DEFINE m == IF FirstBad >= 2 THEN FirstBad - 2 ELSE 0
<1>1. /\ kpc = "up" /\ kpc' = "tamper" /\ FirstBad > 0
      /\ rec' = At(m)
      /\ UNCHANGED <<disk, log, acked, damaged, appends, errors>>
  BY DEF TamperBegins, Goto
<1>2. Tape' = Tape /\ DiskType /\ DiskType'
  BY <1>1 DEF Tape, At, DiskType, LogInv
<1>3. IsTail(Tape, acked, log) /\ IsChain(Tape, damaged, appends)
  BY <1>1 DEF LogInv
<1>4. log.next_seq \in 0 .. Capacity /\ Capacity \in Nat
  BY <1>3, AuditAssumption DEF IsTail, Capacity
<1>5. FirstBad \in 0 .. log.next_seq
  BY <1>4, FirstBadInLog
<1>6. m \in Position /\ m < log.next_seq
  BY <1>1, <1>4, <1>5 DEF Position
<1> HIDE DEF m
<1>7. At(m) = Tape[m] /\ Tape[m].hash # 0
  BY <1>2, <1>3, <1>6, TapeReads DEF IsTail
<1>8. rec'.seq = m /\ rec'.hash = Tape[m].hash
  BY <1>1, <1>3, <1>6, <1>7 DEF IsChain
<1>9. LogCallInv'
  BY <1>1, <1>2, <1>6, <1>7, <1>8 DEF LogCallInv
<1> QED
  BY <1>1, <1>2, <1>9 DEF LogInv

\* corrupt_for_test() written, with the tail as it is.
LEMMA FlipWritten ==
  ASSUME LogInv, kpc \in {"tamper", "tampered"}, Flip
  PROVE  /\ DiskType'
         /\ \A s \in Sector : s >= AuditSectors => disk'[s] = disk[s]
         /\ IsChain(Tape', damaged', appends) /\ Keeps(Tape', acked) /\ IsTail(Tape', acked, log)
         /\ \A q \in Position : Tape'[q].hash = Tape[q].hash
<1> DEFINE m == rec.seq
           r == [Tape[m] EXCEPT !.whole = ~@]
           U == [Tape EXCEPT ![m] = r]
<1>1. m \in Position /\ Tape[m].hash = rec.hash /\ rec.hash # 0
  BY DEF LogInv, LogCallInv
<1>2. /\ DiskType /\ IsChain(Tape, damaged, appends) /\ Keeps(Tape, acked) /\ IsTail(Tape, acked, log)
  BY DEF LogInv
<1>3. At(m) = Tape[m] /\ Tape[m] \in Record
  BY <1>1, <1>2, TapeReads
<1>4. r \in Record
  BY <1>3 DEF Record
<1>5. SectorOf(m) \in Sector /\ disk = [s \in Sector |-> disk[s]]
  BY <1>1, <1>2, PlaceOf DEF DiskType
<1>6. disk' = [disk EXCEPT ![SectorOf(m)] = Put(disk[SectorOf(m)], m, r)]
  BY <1>3, <1>5 DEF Flip
<1>7. damaged' = IF Tape[m].whole THEN damaged \cup {Tape[m].hash} ELSE damaged \ {Tape[m].hash}
  BY <1>1, <1>3 DEF Flip
<1>8. /\ IsChain(U, damaged', appends) /\ Keeps(U, acked) /\ IsTail(U, acked, log)
      /\ \A q \in Position : U[q].hash = Tape[q].hash
  <2> HIDE DEF m
  <2>1. Tape[m].hash # 0
    BY <1>1
  <2> QED
    BY <1>1, <1>2, <1>7, <2>1, FlipOnChain, Zenon
<1> HIDE DEF r
<1>9. /\ Tape' = U /\ DiskType'
      /\ \A s \in Sector : s >= AuditSectors => disk'[s] = disk[s]
  BY <1>1, <1>2, <1>4, <1>6, PutOnTape
<1> QED
  BY <1>8, <1>9

LEMMA TamperLog ==
  ASSUME LogInv, TamperWrites \/ TamperFails
  PROVE  LogInv'
<1>1. /\ kpc \in {"tamper", "tampered"}
      /\ UNCHANGED <<log, acked, appends>>
      /\ \/ kpc' = "tampered" /\ rec' = rec
         \/ kpc' = "up"
  BY DEF TamperWrites, TamperFails, TamperReturns, Goto
<1>2. errors' \in Nat
  BY DEF TamperWrites, TamperFails, LogInv
<1>3. CASE Flip
  <2>1. /\ DiskType' /\ IsChain(Tape', damaged', appends) /\ Keeps(Tape', acked) /\ IsTail(Tape', acked, log)
        /\ \A q \in Position : Tape'[q].hash = Tape[q].hash
    BY <1>1, <1>3, FlipWritten
  <2>2. rec.seq \in Position /\ Tape[rec.seq].hash = rec.hash /\ rec.hash # 0
    BY <1>1 DEF LogInv, LogCallInv
  <2>3. LogCallInv'
    BY <1>1, <2>1, <2>2 DEF LogCallInv
  <2> QED
    BY <1>1, <1>2, <2>1, <2>3 DEF LogInv
<1>4. CASE UNCHANGED <<disk, damaged>>
  <2>1. Tape' = Tape /\ DiskType'
    BY <1>4 DEF Tape, At, DiskType, LogInv
  <2>2. LogCallInv'
    BY <1>1, <2>1 DEF LogInv, LogCallInv
  <2> QED
    BY <1>1, <1>2, <1>4, <2>1, <2>2 DEF LogInv
<1> QED
  BY <1>3, <1>4 DEF TamperWrites, TamperFails

LEMMA BootLog ==
  ASSUME LogInv, Boot, ~ScanFaults
  PROVE  LogInv'
<1>1. PICK n \in 0 .. AuditSectors :
         /\ n < AuditSectors => ScanFaults
         /\ errors' = IF n < AuditSectors THEN errors + 1 ELSE errors
         /\ log' = Log(n)
  BY DEF Boot, Scan
<1>2. n = AuditSectors /\ errors' \in Nat
  BY <1>1, AuditAssumption DEF LogInv
<1>3. UNCHANGED <<disk, acked, damaged, appends>> /\ kpc' = "up"
  BY DEF Boot
<1>4. Tape' = Tape /\ DiskType'
  BY <1>3 DEF Tape, At, DiskType, LogInv
<1>5. IsTail(Tape, acked, log')
  BY <1>1, <1>2, ScanFindsTail DEF LogInv
<1> QED
  BY <1>2, <1>3, <1>4, <1>5, LogUntouched

\* The sector of the block that is being written out is not the log's.
LEMMA VictimSector ==
  ASSUME CacheInv, kpc = "spill"
  PROVE  /\ Victim.sector \in SpillStart .. SpillEnd - 1
         /\ Victim.sector = spill_next - 1
         /\ Writing \in Blocks /\ Spots[Writing] = Victim
         /\ Victim.at = "spilling"
<1>1. Writing \in Blocks /\ DOMAIN Spots = Blocks
  BY DEF CacheInv, CacheCallInv, Spots
<1>2. Spots[Writing] = Victim
  BY <1>1 DEF Spots, Block, Victim, Writing
<1>3. Victim.sector = spill_next - 1 /\ Victim.at = "spilling" /\ Victim.sector \in SpillStart .. spill_next - 1
  <2>1. /\ Spots[Writing].sector = spill_next - 1 /\ Spots[Writing].at = "spilling"
        /\ Spots[Writing].at # "resident" => Spots[Writing].sector \in SpillStart .. spill_next - 1
    BY <1>1 DEF CacheInv, IsPlaced
  <2> QED
    BY <1>2, <2>1
<1>4. spill_next \in SpillStart .. SpillEnd /\ SpillStart \in Nat /\ SpillEnd \in Nat
  BY AuditAssumption DEF CacheInv, CacheTypes, SpillStart, SpillEnd
<1> QED
  BY <1>1, <1>2, <1>3, <1>4

LEMMA PowerCutLog ==
  ASSUME LogInv, CacheInv, PowerCut
  PROVE  LogInv'
<1>1. kpc' = "off" /\ UNCHANGED <<acked, appends, errors>> /\ kpc # "off"
  BY DEF PowerCut, Goto
<1>2. /\ IsChain(Tape, damaged, appends) /\ Keeps(Tape, acked) /\ DiskType /\ errors \in Nat
  BY DEF LogInv
<1>3. SUFFICES IsChain(Tape', damaged', appends) /\ Keeps(Tape', acked) /\ DiskType'
  BY <1>1, <1>2 DEF LogInv, LogCallInv
<1>4. CASE UNCHANGED <<disk, damaged>>
  BY <1>2, <1>4 DEF Tape, At, DiskType
<1>5. CASE kpc \in {"tamper", "tampered"} /\ Flip
  BY <1>5, FlipWritten
<1>6. CASE /\ kpc = "append"
           /\ disk' = [disk EXCEPT ![SectorOf(rec.seq)] = Put(buf, rec.seq, rec)]
           /\ UNCHANGED damaged
  BY <1>6, RecordWritten
<1>7. CASE /\ kpc = "append"
           /\ disk' = [disk EXCEPT ![SectorOf(rec.seq)] = Put(buf, rec.seq, Torn(rec))]
           /\ damaged' = damaged \cup {rec.hash}
  BY <1>7, RecordWritten
<1>8. CASE /\ kpc = "spill" /\ UNCHANGED damaged
           /\ disk' = [disk EXCEPT ![Victim.sector] = mem[Victim.frame]]
  <2>1. Tape' = Tape /\ DiskType'
    BY <1>2, <1>8, VictimSector, SpillOffTape
  <2> QED
    BY <1>2, <1>8, <2>1
<1> QED
  BY <1>4, <1>5, <1>6, <1>7, <1>8 DEF PowerCut, CutAudit

\* What the cache does leaves the log alone.
LEMMA CacheStepLog ==
  ASSUME LogInv, CacheInv, CacheNext
  PROVE  LogInv'
<1>1. UNCHANGED audit /\ kpc # "off" /\ kpc' \in {"up", "room", "spill", "made"} /\ errors' \in Nat
  BY DEF CacheNext, Open, BeginAppend, BeginRead, ChooseVictim, WriteOut, WriteOutFails, AppendBlock,
         AppendRefused, Restore, RestoreFails, RoomMade, Done, Goto, LogInv
<1>2. /\ UNCHANGED <<damaged, appends, acked, log>>
      /\ kpc' \notin {"append", "tamper", "tampered"} /\ IsTail(Tape, acked, log)
  BY <1>1 DEF audit, LogInv
<1>3. CASE WriteOut
  <2>1. Tape' = Tape /\ DiskType'
    BY <1>3, VictimSector, SpillOffTape DEF WriteOut, LogInv
  <2> QED
    BY <1>1, <1>2, <2>1, LogUntouched
<1>4. CASE UNCHANGED disk
  <2>1. Tape' = Tape /\ DiskType'
    BY <1>4 DEF Tape, At, DiskType, LogInv
  <2> QED
    BY <1>1, <1>2, <2>1, LogUntouched
<1>5. WriteOut \/ UNCHANGED disk
  BY DEF CacheNext, Open, BeginAppend, BeginRead, ChooseVictim, WriteOutFails, AppendBlock,
         AppendRefused, Restore, RestoreFails, Done
<1> QED
  BY <1>3, <1>4, <1>5

\* Every step keeps the log.
LEMMA StepKeepsLog ==
  ASSUME LogInv, CacheInv, StorageNext, ~ScanFaults
  PROVE  LogInv'
  BY BootLog, PowerCutLog, CacheStepLog, AppendReadsLog, AppendWritesLog, AppendFailsLog,
     TamperBeginsLog, TamperLog
  DEF StorageNext, LogNext

-----------------------------------------------------------------------------
(***************************************************************************)
(* The steps, and the two regions.                                         *)
(***************************************************************************)

\* Whatever append() or corrupt_for_test() writes is in the log's region.
LEMMA LogWrites ==
  ASSUME LogTypes,
         \/ /\ kpc = "append"
            /\ \/ disk' = [disk EXCEPT ![SectorOf(rec.seq)] = Put(buf, rec.seq, rec)]
               \/ disk' = [disk EXCEPT ![SectorOf(rec.seq)] = Put(buf, rec.seq, Torn(rec))]
         \/ kpc \in {"tamper", "tampered"} /\ Flip
         \/ UNCHANGED disk
  PROVE  DiskType' /\ \A s \in Sector : s >= AuditSectors => disk'[s] = disk[s]
<1>1. DiskType
  BY DEF LogTypes
<1>2. CASE UNCHANGED disk
  BY <1>1, <1>2 DEF DiskType
<1>3. CASE kpc = "append"
  <2>1. rec \in Record /\ rec.seq \in Position /\ buf = disk[SectorOf(rec.seq)]
    BY <1>3 DEF LogTypes
  <2>2. Torn(rec) \in Record
    BY <2>1 DEF Torn, Record
  <2> QED
    BY <1>1, <1>2, <1>3, <2>1, <2>2, PutOnTape
<1>4. CASE kpc \in {"tamper", "tampered"} /\ Flip
  <2> DEFINE r == [At(rec.seq) EXCEPT !.whole = ~@]
  <2>1. rec.seq \in Position
    BY <1>4 DEF LogTypes
  <2>2. At(rec.seq) \in Record
    BY <1>1, <2>1, TapeReads
  <2>3. r \in Record
    BY <2>2 DEF Record
  <2>4. SectorOf(rec.seq) \in Sector /\ disk = [s \in Sector |-> disk[s]]
    BY <1>1, <2>1, PlaceOf DEF DiskType
  <2>5. disk' = [disk EXCEPT ![SectorOf(rec.seq)] = Put(disk[SectorOf(rec.seq)], rec.seq, r)]
    BY <1>4, <2>4 DEF Flip
  <2> HIDE DEF r
  <2> QED
    BY <1>1, <2>1, <2>3, <2>5, PutOnTape
<1> QED
  BY <1>2, <1>3, <1>4

\* What the scan finds is a position, however far it comes.
LEMMA ScanTyped ==
  ASSUME DiskType, NEW n \in 0 .. AuditSectors
  PROVE  Log(n) \in [next_seq : 0 .. Capacity, last_hash : Nat]
<1> DEFINE read == {q \in 0 .. n * PerSector - 1 : \A p \in 0 .. q : At(p).hash # 0}
           m == Max(read)
<1>1. /\ n \in Nat /\ n * PerSector \in Nat /\ n * PerSector <= Capacity /\ Capacity \in Nat
  <2>1. PICK k \in Nat : AuditSectors = n + k
    <3>1. AuditSectors - n \in Nat /\ AuditSectors = n + (AuditSectors - n)
      BY AuditAssumption
    <3> QED
      BY <3>1
  <2>2. AuditSectors * PerSector = n * PerSector + k * PerSector /\ n * PerSector \in Nat /\ k * PerSector \in Nat
    BY <2>1, AuditAssumption
  <2> QED
    BY <2>2, AuditAssumption DEF Capacity
<1>2. Log(n) = IF read = {} THEN [next_seq |-> 0, last_hash |-> 0]
               ELSE [next_seq |-> IF At(m).seq + 1 < Capacity THEN At(m).seq + 1 ELSE Capacity,
                     last_hash |-> At(m).hash]
  BY DEF Log
<1>3. read \subseteq 0 .. n * PerSector - 1
  OBVIOUS
<1> HIDE DEF read, m
<1>4. CASE read = {}
  BY <1>1, <1>2, <1>4
<1>5. CASE read # {}
  <2>1. m \in read
    BY <1>1, <1>3, <1>5, GreatestExists DEF m
  <2>2. m \in Position
    BY <1>1, <1>3, <2>1 DEF Position
  <2>3. At(m) \in Record
    BY <2>2, TapeReads
  <2>4. At(m).seq \in Nat /\ At(m).hash \in Nat
    BY <2>3 DEF Record
  <2> QED
    BY <1>1, <1>2, <1>5, <2>4
<1> QED
  BY <1>4, <1>5

LEMMA LogNextTypes ==
  ASSUME LogTypes, LogNext
  PROVE  LogTypes'
<1>0. Capacity \in Nat
  BY AuditAssumption DEF Capacity
<1>1. DiskType'
  BY LogWrites DEF LogNext, AppendReads, AppendWrites, AppendFails, TamperBegins, TamperWrites, TamperFails
<1>2. CASE AppendReads
  <2>1. log.next_seq \in Position /\ log.last_hash \in Nat /\ appends \in Nat
    BY <1>0, <1>2 DEF LogTypes, AppendReads, Position
  <2>2. rec' \in Record /\ rec'.seq = log.next_seq
    BY <1>2, <2>1 DEF AppendReads, NewRecord, Record, Position
  <2> QED
    BY <1>1, <1>2, <2>1, <2>2 DEF LogTypes, AppendReads, Goto
<1>3. CASE AppendWrites
  <2>1. rec \in Record /\ rec.seq \in Position
    BY <1>3 DEF LogTypes, AppendWrites
  <2>2. log' \in [next_seq : 0 .. Capacity, last_hash : Nat]
    <3>1. rec.hash \in Nat /\ rec.seq + 1 \in 0 .. Capacity
      BY <1>0, <2>1 DEF Record, Position
    <3> QED
      BY <1>3, <3>1 DEF AppendWrites
  <2> QED
    BY <1>1, <1>3, <2>2 DEF LogTypes, AppendWrites, Goto
<1>4. CASE AppendFails
  BY <1>1, <1>4 DEF LogTypes, AppendFails, Goto
<1>5. CASE TamperBegins
  <2> DEFINE m == IF FirstBad >= 2 THEN FirstBad - 2 ELSE 0
  <2>1. log.next_seq \in 0 .. Capacity /\ FirstBad \in 0 .. log.next_seq /\ FirstBad > 0
    BY <1>0, <1>5, FirstBadInLog DEF LogTypes, TamperBegins
  <2>2. m \in Position /\ 0 < Capacity
    BY <1>0, <2>1 DEF Position
  <2> HIDE DEF m
  <2>3. At(m) \in Record
    BY <2>2, TapeReads DEF LogTypes
  <2>4. At(m).seq \in Position
    BY <1>0, <2>2, <2>3 DEF Record, Position
  <2>5. rec' = At(m)
    BY <1>5 DEF TamperBegins, m
  <2> QED
    BY <1>1, <1>5, <2>4, <2>5 DEF LogTypes, TamperBegins, Goto
<1>6. CASE TamperWrites \/ TamperFails
  <2>1. rec.seq \in Position /\ errors' \in Nat /\ UNCHANGED <<log, appends>>
    BY <1>6 DEF LogTypes, TamperWrites, TamperFails, TamperReturns
  <2>2. (kpc' = "tampered" /\ rec' = rec) \/ kpc' = "up"
    BY <1>6 DEF TamperWrites, TamperFails, TamperReturns, Goto
  <2> QED
    BY <1>1, <2>1, <2>2 DEF LogTypes
<1> QED
  BY <1>2, <1>3, <1>4, <1>5, <1>6 DEF LogNext

LEMMA StepKeepsTypes ==
  ASSUME LogTypes, CacheInv, StorageNext
  PROVE  LogTypes'
<1>1. CASE Boot
  <2>1. PICK n \in 0 .. AuditSectors :
           errors' = (IF n < AuditSectors THEN errors + 1 ELSE errors) /\ log' = Log(n)
    BY <1>1 DEF Boot, Scan
  <2>2. UNCHANGED <<disk, appends>> /\ kpc' = "up"
    BY <1>1 DEF Boot
  <2>3. log' \in [next_seq : 0 .. Capacity, last_hash : Nat]
    BY <2>1, ScanTyped DEF LogTypes
  <2>4. DiskType' /\ errors' \in Nat
    <3>1. DiskType /\ errors \in Nat
      BY DEF LogTypes
    <3>2. DiskType'
      BY <2>2, <3>1 DEF DiskType
    <3> QED
      BY <2>1, <3>1, <3>2
  <2> QED
    BY <2>2, <2>3, <2>4 DEF LogTypes
<1>2. CASE PowerCut
  <2>1. DiskType'
    <3>1. CASE CutAudit
      BY <3>1, LogWrites DEF CutAudit
    <3>2. CASE kpc = "spill" /\ disk' = [disk EXCEPT ![Victim.sector] = mem[Victim.frame]]
      BY <3>2, VictimSector, SpillOffTape DEF LogTypes
    <3> QED
      BY <1>2, <3>1, <3>2 DEF PowerCut
  <2>2. log' \in [next_seq : 0 .. Capacity, last_hash : Nat]
    BY <1>2, AuditAssumption DEF PowerCut, Capacity
  <2> QED
    BY <1>2, <2>1, <2>2 DEF LogTypes, PowerCut, Goto
<1>3. CASE CacheNext
  <2>1. UNCHANGED <<log, appends>> /\ kpc' \in {"up", "room", "spill", "made"} /\ errors' \in Nat
    BY <1>3 DEF CacheNext, Open, BeginAppend, BeginRead, ChooseVictim, WriteOut, WriteOutFails, AppendBlock,
         AppendRefused, Restore, RestoreFails, Done, Goto, LogTypes, audit
  <2>2. DiskType'
    <3>1. CASE WriteOut
      BY <3>1, VictimSector, SpillOffTape DEF WriteOut, LogTypes
    <3>2. CASE UNCHANGED disk
      BY <3>2 DEF DiskType, LogTypes
    <3> QED
      BY <1>3, <3>1, <3>2 DEF CacheNext, Open, BeginAppend, BeginRead, ChooseVictim, WriteOutFails, AppendBlock,
         AppendRefused, Restore, RestoreFails, Done
  <2> QED
    BY <2>1, <2>2 DEF LogTypes
<1>4. CASE LogNext
  BY <1>4, LogNextTypes
<1> QED
  BY <1>1, <1>2, <1>3, <1>4 DEF StorageNext

-----------------------------------------------------------------------------
(***************************************************************************)
(* The blocks.                                                             *)
(***************************************************************************)

LEMMA SpotsTyped ==
  ASSUME CacheTypes
  PROVE  /\ Spots \in [Blocks -> BlockType] /\ IsFiniteSet(Blocks)
         /\ \A s, i : <<s, i>> \in Blocks <=> s \in DOMAIN sessions /\ i \in DOMAIN sessions[s]
         /\ \A b \in Blocks : b = <<b[1], b[2]>>
         /\ <<0, 0>> \notin Blocks
<1>1. /\ sessions \in Seq(Seq(BlockType)) /\ Len(sessions) <= MaxSessions
      /\ \A s \in DOMAIN sessions : Len(sessions[s]) <= MaxBlocks
  BY DEF CacheTypes
<1>2. \A s \in DOMAIN sessions : sessions[s] \in Seq(BlockType)
  BY <1>1
<1>3. ASSUME NEW s, NEW i
      PROVE  <<s, i>> \in Blocks <=> s \in DOMAIN sessions /\ i \in DOMAIN sessions[s]
  <2>1. ASSUME <<s, i>> \in Blocks
        PROVE  s \in DOMAIN sessions /\ i \in DOMAIN sessions[s]
    <3>1. s \in 1 .. MaxSessions /\ i \in 1 .. MaxBlocks /\ s <= Len(sessions) /\ i <= Len(sessions[s])
      BY <2>1 DEF Blocks
    <3>2. s \in DOMAIN sessions
      BY <1>1, <3>1
    <3> QED
      BY <1>2, <3>1, <3>2
  <2>2. ASSUME s \in DOMAIN sessions, i \in DOMAIN sessions[s]
        PROVE  <<s, i>> \in Blocks
    <3>1. s \in 1 .. MaxSessions /\ s <= Len(sessions)
      BY <1>1, <2>2, KvAssumption
    <3>2. i \in 1 .. MaxBlocks /\ i <= Len(sessions[s])
      BY <1>1, <1>2, <2>2, KvAssumption
    <3> QED
      BY <3>1, <3>2 DEF Blocks
  <2> QED
    BY <2>1, <2>2
<1>4. \A b \in Blocks : b = <<b[1], b[2]>>
  BY DEF Blocks
<1>5. ASSUME NEW b \in Blocks
      PROVE  Block(b) \in BlockType
  <2>1. <<b[1], b[2]>> \in Blocks
    BY <1>4
  <2>2. b[1] \in DOMAIN sessions /\ b[2] \in DOMAIN sessions[b[1]]
    BY <1>3, <2>1
  <2> QED
    BY <1>2, <2>2 DEF Block
<1>6. Spots \in [Blocks -> BlockType]
  BY <1>5 DEF Spots
<1>7. IsFiniteSet(Blocks)
  <2>1. IsFiniteSet(1 .. MaxSessions) /\ IsFiniteSet(1 .. MaxBlocks)
    BY KvAssumption, FS_Interval
  <2>2. IsFiniteSet((1 .. MaxSessions) \X (1 .. MaxBlocks))
    BY <2>1, FS_Product
  <2>3. Blocks \subseteq (1 .. MaxSessions) \X (1 .. MaxBlocks)
    BY DEF Blocks
  <2> QED
    BY <2>2, <2>3, FS_Subset
<1>8. <<0, 0>> \notin Blocks
  BY DEF Blocks
<1> QED
  BY <1>3, <1>4, <1>6, <1>7, <1>8

LEMMA SessionReplaced ==
  ASSUME sessions \in Seq(Seq(BlockType)), NEW s \in DOMAIN sessions, NEW x \in Seq(BlockType),
         sessions' = [sessions EXCEPT ![s] = x]
  PROVE  /\ sessions' \in Seq(Seq(BlockType)) /\ Len(sessions') = Len(sessions)
         /\ DOMAIN sessions' = DOMAIN sessions
         /\ \A t \in DOMAIN sessions : sessions'[t] = IF t = s THEN x ELSE sessions[t]
<1> DEFINE SS == Seq(BlockType)
           old == sessions
           new == sessions'
<1>1. old \in Seq(SS) /\ s \in 1 .. Len(old) /\ x \in SS /\ new = [old EXCEPT ![s] = x]
  OBVIOUS
<1> SUFFICES /\ new \in Seq(SS) /\ Len(new) = Len(old) /\ DOMAIN new = DOMAIN old
             /\ \A t \in DOMAIN old : new[t] = IF t = s THEN x ELSE old[t]
  OBVIOUS
<1> HIDE DEF SS, old, new
<1>2. new \in Seq(SS) /\ Len(new) = Len(old)
  BY <1>1, ExceptSeq
<1> QED
  BY <1>1, <1>2

\* What is written down about one block.
LEMMA SpotChanges ==
  ASSUME CacheTypes, NEW b \in Blocks, NEW x \in BlockType,
         sessions' = [sessions EXCEPT ![b[1]][b[2]] = x]
  PROVE  /\ Blocks' = Blocks /\ Spots' = [Spots EXCEPT ![b] = x]
         /\ sessions' \in Seq(Seq(BlockType)) /\ Len(sessions') = Len(sessions)
         /\ DOMAIN sessions' = DOMAIN sessions
         /\ \A s \in DOMAIN sessions : Len(sessions'[s]) = Len(sessions[s])
<1>1. /\ sessions \in Seq(Seq(BlockType)) /\ b = <<b[1], b[2]>>
      /\ b[1] \in DOMAIN sessions /\ b[2] \in DOMAIN sessions[b[1]]
  BY SpotsTyped DEF CacheTypes
<1> DEFINE old == sessions[b[1]]
           new == [old EXCEPT ![b[2]] = x]
<1>2. old \in Seq(BlockType) /\ sessions' = [sessions EXCEPT ![b[1]] = new]
  BY <1>1
<1>3. new \in Seq(BlockType) /\ Len(new) = Len(old) /\ DOMAIN new = DOMAIN old
      /\ \A i \in DOMAIN old : new[i] = IF i = b[2] THEN x ELSE old[i]
  BY <1>1, <1>2, ExceptSeq
<1> HIDE DEF new
<1>4. /\ sessions' \in Seq(Seq(BlockType)) /\ Len(sessions') = Len(sessions)
      /\ DOMAIN sessions' = DOMAIN sessions
      /\ \A s \in DOMAIN sessions : sessions'[s] = IF s = b[1] THEN new ELSE sessions[s]
  BY <1>1, <1>2, <1>3, SessionReplaced
<1>5. \A s \in DOMAIN sessions : Len(sessions'[s]) = Len(sessions[s])
  BY <1>3, <1>4
<1>6. \A s \in 1 .. MaxSessions : s <= Len(sessions) => s \in DOMAIN sessions
  BY <1>1, KvAssumption
<1>7. Blocks' = Blocks
  BY <1>4, <1>5, <1>6 DEF Blocks
<1>8. ASSUME NEW c \in Blocks
      PROVE  sessions'[c[1]][c[2]] = IF c = b THEN x ELSE sessions[c[1]][c[2]]
  <2>1. c = <<c[1], c[2]>> /\ c[1] \in DOMAIN sessions /\ c[2] \in DOMAIN sessions[c[1]]
    BY SpotsTyped
  <2>2. c = b <=> c[1] = b[1] /\ c[2] = b[2]
    BY <1>1, <2>1
  <2> QED
    BY <1>3, <1>4, <2>1, <2>2
<1>9. Spots' = [Spots EXCEPT ![b] = x]
  BY <1>7, <1>8 DEF Spots, Block
<1> QED
  BY <1>4, <1>5, <1>7, <1>9

\* A block appended to a session.
LEMMA SpotAdded ==
  ASSUME CacheTypes, NEW s \in DOMAIN sessions, Len(sessions[s]) < MaxBlocks, NEW x \in BlockType,
         sessions' = [sessions EXCEPT ![s] = Append(@, x)]
  PROVE  LET n == <<s, Len(sessions[s]) + 1>> IN
         /\ n \notin Blocks /\ Blocks' = Blocks \cup {n}
         /\ Spots' = [b \in Blocks \cup {n} |-> IF b = n THEN x ELSE Spots[b]]
         /\ sessions' \in Seq(Seq(BlockType)) /\ Len(sessions') = Len(sessions)
         /\ \A t \in DOMAIN sessions' : Len(sessions'[t]) <= MaxBlocks
<1> DEFINE k == Len(sessions[s]) + 1
           n == <<s, k>>
           new == Append(sessions[s], x)
<1>1. /\ sessions \in Seq(Seq(BlockType)) /\ Len(sessions) <= MaxSessions
      /\ \A t \in DOMAIN sessions : Len(sessions[t]) <= MaxBlocks
      /\ \A t \in DOMAIN sessions : sessions[t] \in Seq(BlockType)
  BY DEF CacheTypes
<1>2. /\ new \in Seq(BlockType) /\ Len(new) = k /\ new[k] = x
      /\ \A i \in DOMAIN sessions[s] : new[i] = sessions[s][i]
  BY <1>1
<1>3. sessions' = [sessions EXCEPT ![s] = new]
  BY <1>1
<1> HIDE DEF new
<1>4. /\ sessions' \in Seq(Seq(BlockType)) /\ Len(sessions') = Len(sessions)
      /\ DOMAIN sessions' = DOMAIN sessions
      /\ \A t \in DOMAIN sessions : sessions'[t] = IF t = s THEN new ELSE sessions[t]
  BY <1>1, <1>2, <1>3, SessionReplaced
<1>5. \A t \in DOMAIN sessions' : Len(sessions'[t]) <= MaxBlocks
  BY <1>1, <1>2, <1>4, KvAssumption
<1>6. /\ k \in Nat /\ k \notin DOMAIN sessions[s] /\ k <= MaxBlocks
      /\ DOMAIN new = DOMAIN sessions[s] \cup {k}
  BY <1>1, <1>2, KvAssumption
<1>7. n \notin Blocks /\ n \in (1 .. MaxSessions) \X (1 .. MaxBlocks)
  <2>1. s \in 1 .. MaxSessions /\ k \in 1 .. MaxBlocks
    BY <1>1, <1>6, KvAssumption
  <2> QED
    BY <1>6, <2>1, SpotsTyped
<1>8. ASSUME NEW c \in (1 .. MaxSessions) \X (1 .. MaxBlocks)
      PROVE  c[1] <= Len(sessions') /\ c[2] <= Len(sessions'[c[1]])
             <=> c \in Blocks \/ c = n
  <2>1. c = <<c[1], c[2]>> /\ c[1] \in 1 .. MaxSessions /\ c[2] \in 1 .. MaxBlocks
    OBVIOUS
  <2>2. CASE ~(c[1] <= Len(sessions))
    BY <1>1, <1>4, <2>1, <2>2 DEF Blocks
  <2>3. CASE c[1] <= Len(sessions)
    <3>1. c[1] \in DOMAIN sessions
      BY <1>1, <2>1, <2>3
    <3>2. c \in Blocks <=> c[2] <= Len(sessions[c[1]])
      BY <2>3 DEF Blocks
    <3>3. CASE c[1] # s
      BY <1>4, <2>1, <2>3, <3>1, <3>2, <3>3
    <3>4. CASE c[1] = s
      <4>1. Len(sessions'[c[1]]) = k /\ Len(sessions[s]) \in Nat /\ k = Len(sessions[s]) + 1
        BY <1>1, <1>2, <1>4, <3>1, <3>4
      <4>2. c[2] <= k <=> c[2] <= Len(sessions[s]) \/ c[2] = k
        BY <2>1, <4>1
      <4>3. c = n <=> c[2] = k
        BY <2>1, <3>4
      <4> QED
        BY <1>4, <2>3, <3>2, <3>4, <4>1, <4>2, <4>3
    <3> QED
      BY <3>3, <3>4
  <2> QED
    BY <2>2, <2>3
<1>9. Blocks' = Blocks \cup {n}
  <2>1. Blocks \subseteq (1 .. MaxSessions) \X (1 .. MaxBlocks)
    BY DEF Blocks
  <2>2. Blocks' = {c \in (1 .. MaxSessions) \X (1 .. MaxBlocks) :
                      c[1] <= Len(sessions') /\ c[2] <= Len(sessions'[c[1]])}
    BY DEF Blocks
  <2> HIDE DEF n
  <2> QED
    BY <1>7, <1>8, <2>1, <2>2
<1>10. ASSUME NEW c \in Blocks \cup {n}
       PROVE  sessions'[c[1]][c[2]] = IF c = n THEN x ELSE Spots[c]
  <2>1. CASE c = n
    BY <1>2, <1>4, <2>1
  <2>2. CASE c # n
    <3>1. c \in Blocks /\ c[1] \in DOMAIN sessions /\ c[2] \in DOMAIN sessions[c[1]]
      BY <2>2, SpotsTyped
    <3>2. Spots[c] = sessions[c[1]][c[2]]
      BY <3>1 DEF Spots, Block
    <3> QED
      BY <1>2, <1>4, <2>2, <3>1, <3>2
  <2> QED
    BY <2>1, <2>2
<1>11. Spots' = [b \in Blocks \cup {n} |-> IF b = n THEN x ELSE Spots[b]]
  BY <1>9, <1>10 DEF Spots, Block
<1> QED
  BY <1>4, <1>5, <1>7, <1>9, <1>11

\* A new session has no block.
LEMMA SessionOpened ==
  ASSUME CacheTypes, Len(sessions) < MaxSessions, sessions' = Append(sessions, <<>>)
  PROVE  /\ Spots' = Spots
         /\ sessions' \in Seq(Seq(BlockType)) /\ Len(sessions') <= MaxSessions
         /\ \A t \in DOMAIN sessions' : Len(sessions'[t]) <= MaxBlocks
<1>1. /\ sessions \in Seq(Seq(BlockType)) /\ <<>> \in Seq(BlockType)
      /\ \A t \in DOMAIN sessions : Len(sessions[t]) <= MaxBlocks
  BY DEF CacheTypes
<1>2. /\ sessions' \in Seq(Seq(BlockType)) /\ Len(sessions') = Len(sessions) + 1
      /\ \A t \in DOMAIN sessions : sessions'[t] = sessions[t]
      /\ sessions'[Len(sessions) + 1] = <<>>
      /\ DOMAIN sessions' = DOMAIN sessions \cup {Len(sessions) + 1}
  BY <1>1
<1>3. \A t \in DOMAIN sessions' : Len(sessions'[t]) <= MaxBlocks
  BY <1>1, <1>2, KvAssumption
<1>4. ASSUME NEW c \in (1 .. MaxSessions) \X (1 .. MaxBlocks)
      PROVE  (c[1] <= Len(sessions') /\ c[2] <= Len(sessions'[c[1]]))
             <=> (c[1] <= Len(sessions) /\ c[2] <= Len(sessions[c[1]]))
  <2>1. c[1] \in 1 .. MaxSessions /\ c[2] \in 1 .. MaxBlocks /\ Len(sessions) \in Nat
    BY <1>1
  <2>2. CASE c[1] <= Len(sessions)
    <3>1. c[1] \in DOMAIN sessions
      BY <1>1, <2>1, <2>2
    <3> QED
      BY <1>2, <2>1, <2>2, <3>1
  <2>3. CASE c[1] = Len(sessions) + 1
    BY <1>2, <2>1, <2>3
  <2>4. CASE c[1] > Len(sessions) + 1
    BY <1>2, <2>1, <2>4
  <2> QED
    BY <2>1, <2>2, <2>3, <2>4
<1>5. Blocks' = Blocks
  BY <1>4 DEF Blocks
<1>6. \A c \in Blocks : sessions'[c[1]] = sessions[c[1]]
  BY <1>2, SpotsTyped
<1>7. Spots' = Spots
  BY <1>5, <1>6 DEF Spots, Block
<1> QED
  BY <1>1, <1>2, <1>3, <1>7, KvAssumption

\* One more, or one less, in memory.
LEMMA CountChanges ==
  ASSUME NEW B, IsFiniteSet(B), NEW P, DOMAIN P = B,
         NEW Q, NEW b \in DOMAIN Q,
         \/ DOMAIN Q = B /\ b \in B
         \/ DOMAIN Q = B \cup {b} /\ b \notin B,
         \A c \in B : c # b => Q[c] = P[c]
  PROVE  /\ IsFiniteSet(Held(P)) /\ Cardinality(Held(P)) \in Nat
         /\ b \notin Held(P) /\ b \in Held(Q) => Cardinality(Held(Q)) = Cardinality(Held(P)) + 1
         /\ b \in Held(P) /\ b \notin Held(Q) => Cardinality(Held(Q)) = Cardinality(Held(P)) - 1
         /\ b \in Held(P) /\ b \in Held(Q) => Held(Q) = Held(P)
<1>1. Held(P) \subseteq B
  BY DEF Held
<1>2. IsFiniteSet(Held(P)) /\ Cardinality(Held(P)) \in Nat
  BY <1>1, FS_Subset, FS_CardinalityType
<1>3. \A c : c # b => (c \in Held(P) <=> c \in Held(Q))
  BY DEF Held
<1>4. b \notin Held(P) /\ b \in Held(Q) => Held(Q) = Held(P) \cup {b}
  BY <1>3
<1>5. b \in Held(P) /\ b \notin Held(Q) => Held(Q) = Held(P) \ {b}
  BY <1>3
<1>6. b \in Held(P) /\ b \in Held(Q) => Held(Q) = Held(P)
  BY <1>3
<1> QED
  BY <1>2, <1>4, <1>5, <1>6, FS_AddElement, FS_RemoveElement

\* The free frames are finitely many, and so are all.
LEMMA FreeIsFinite ==
  ASSUME CacheTypes
  PROVE  /\ IsFiniteSet(free) /\ Cardinality(free) \in Nat /\ Cardinality(Frames) \in Nat
         /\ free # {} => Min(free) \in free /\ Min(free) \in Frames
<1>1. free \subseteq Frames
  BY DEF CacheTypes
<1>2. IsFiniteSet(free)
  BY <1>1, KvAssumption, FS_Subset
<1>3. free \in SUBSET Nat
  BY <1>1, KvAssumption
<1> QED
  BY <1>1, <1>2, <1>3, KvAssumption, FS_CardinalityType, LeastExists

\* The sectors of the blocks on flash are where the cache keeps them, whatever
\* is written elsewhere.
LEMMA SpillKept ==
  ASSUME CacheInv, UNCHANGED <<sessions, resident_blocks, spill_next, mem, free, job, failed>>,
         \A s \in Sector : s >= AuditSectors => disk'[s] = disk[s],
         CacheCallInv'
  PROVE  CacheInv'
<1>1. Spots' = Spots /\ Writing' = Writing /\ Blocks' = Blocks
  BY DEF Spots, Block, Blocks, Writing
<1>2. IsPlaced(Spots, disk, mem, free, spill_next, Writing) /\ CacheTypes /\ DOMAIN Spots = Blocks
  BY DEF CacheInv, Spots
<1>3. spill_next \in SpillStart .. SpillEnd /\ SpillStart = AuditSectors /\ SpillEnd = AuditSectors + SpillSectors
  BY <1>2 DEF CacheTypes, SpillStart, SpillEnd
<1>4. ASSUME NEW b \in Blocks, Spots[b].at = "spilled"
      PROVE  disk'[Spots[b].sector] = disk[Spots[b].sector]
  <2>1. Spots[b].at # "resident"
    BY <1>4
  <2>2. Spots[b].sector \in SpillStart .. spill_next - 1
    BY <1>2, <2>1 DEF IsPlaced
  <2>3. Spots[b].sector \in Sector /\ Spots[b].sector >= AuditSectors
    BY <1>3, <2>2, AuditAssumption DEF Sector
  <2> QED
    BY <2>3
<1>5. IsPlaced(Spots, disk', mem, free, spill_next, Writing)
  <2>1. /\ Writing \in DOMAIN Spots => Spots[Writing].sector = spill_next - 1
    BY <1>2 DEF IsPlaced
  <2>2. ASSUME NEW b \in DOMAIN Spots
        PROVE  /\ Spots[b].at = "spilled" => disk'[Spots[b].sector] = b /\ (Writing \in DOMAIN Spots => Spots[b].sector < spill_next - 1)
               /\ Spots[b].at # "spilled" => mem[Spots[b].frame] = b /\ Spots[b].frame \notin free
               /\ Spots[b].at # "resident" => Spots[b].sector \in SpillStart .. spill_next - 1
               /\ Spots[b].at = "spilling" <=> b = Writing
    BY <1>2, <1>4 DEF IsPlaced
  <2> QED
    BY <2>1, <2>2 DEF IsPlaced
<1>6. BudgetHolds'
  BY DEF CacheInv, BudgetHolds, RegionFull
<1>7. CacheTypes'
  BY <1>2 DEF CacheTypes
<1>8. IsCounted(Spots, free, resident_blocks)
  BY DEF CacheInv
<1>9. /\ IsPlaced(Spots', disk', mem', free', spill_next', Writing')
      /\ IsCounted(Spots', free', resident_blocks')
  BY <1>1, <1>5, <1>8
<1> QED
  BY <1>6, <1>7, <1>9 DEF CacheInv

-----------------------------------------------------------------------------
(***************************************************************************)
(* The steps, and the cache.                                               *)
(***************************************************************************)

\* What the log does leaves the cache alone.
LEMMA LogStepCache ==
  ASSUME LogTypes, CacheInv, LogNext \/ Boot
  PROVE  CacheInv'
<1>1. /\ UNCHANGED cache
      /\ kpc \notin {"room", "spill", "made"} /\ kpc' \notin {"room", "spill", "made"}
  BY DEF LogNext, Boot, AppendReads, AppendWrites, AppendFails, TamperBegins, TamperWrites, TamperFails,
         TamperReturns, Goto
<1>2. UNCHANGED <<sessions, resident_blocks, spill_next, mem, free, call, job, failed>>
  BY <1>1 DEF cache
<1>3. CacheCallInv'
  BY <1>1, <1>2 DEF CacheInv, CacheCallInv
<1>4. \A s \in Sector : s >= AuditSectors => disk'[s] = disk[s]
  BY LogWrites
  DEF LogNext, Boot, AppendReads, AppendWrites, AppendFails, TamperBegins, TamperWrites, TamperFails
<1> QED
  BY <1>2, <1>3, <1>4, SpillKept

\* Nothing in memory survives a power cut.
LEMMA PowerCutCache ==
  ASSUME PowerCut
  PROVE  CacheInv'
<1>1. /\ sessions' = <<>> /\ resident_blocks' = 0 /\ spill_next' = SpillStart
      /\ mem' = [f \in Frames |-> <<>>] /\ free' = Frames /\ job' = NoJob /\ failed' = FALSE
      /\ kpc' = "off"
  BY DEF PowerCut, Goto
<1>2. Blocks' = {} /\ DOMAIN Spots' = {}
  <2>1. Blocks' = {b \in (1 .. MaxSessions) \X (1 .. MaxBlocks) :
                      b[1] <= Len(<<>>) /\ b[2] <= Len(<<>>[b[1]])}
    BY <1>1 DEF Blocks
  <2>2. \A b \in (1 .. MaxSessions) \X (1 .. MaxBlocks) : ~(b[1] <= Len(<<>>))
    OBVIOUS
  <2>3. Blocks' = {}
    BY <2>1, <2>2
  <2> QED
    BY <2>3 DEF Spots
<1>3. CacheTypes'
  <2>1. /\ <<>> \in Seq(Seq(BlockType)) /\ Len(<<>>) <= MaxSessions /\ DOMAIN <<>> = {}
        /\ SpillStart \in SpillStart .. SpillEnd
    BY AuditAssumption, KvAssumption DEF SpillStart, SpillEnd
  <2> QED
    BY <1>1, <2>1 DEF CacheTypes
<1>4. IsPlaced(Spots', disk', mem', free', spill_next', Writing')
  BY <1>2 DEF IsPlaced
<1>5. IsCounted(Spots', free', resident_blocks')
  <2>1. Held(Spots') = {}
    BY <1>2 DEF Held
  <2>2. Cardinality({}) = 0 /\ Cardinality(Frames) \in Nat
    BY FS_EmptySet, FS_CardinalityType, KvAssumption
  <2> QED
    BY <1>1, <2>1, <2>2 DEF IsCounted
<1>6. CacheCallInv' /\ BudgetHolds'
  BY <1>1, KvAssumption DEF CacheCallInv, BudgetHolds
<1> QED
  BY <1>3, <1>4, <1>5, <1>6 DEF CacheInv

LEMMA OpenCache ==
  ASSUME CacheInv, Open
  PROVE  CacheInv'
<1>1. /\ kpc = "up" /\ kpc' = "up" /\ Len(sessions) < MaxSessions /\ sessions' = Append(sessions, <<>>)
      /\ UNCHANGED <<disk, resident_blocks, spill_next, mem, free, call, job, failed>>
  BY DEF Open
<1>2. CacheTypes
  BY DEF CacheInv
<1>3. /\ Spots' = Spots
      /\ sessions' \in Seq(Seq(BlockType)) /\ Len(sessions') <= MaxSessions
      /\ \A t \in DOMAIN sessions' : Len(sessions'[t]) <= MaxBlocks
  BY <1>1, <1>2, SessionOpened
<1>4. CacheTypes'
  BY <1>1, <1>2, <1>3 DEF CacheTypes
<1>5. Writing' = Writing /\ BudgetHolds' /\ CacheCallInv'
  BY <1>1 DEF Writing, CacheInv, BudgetHolds, RegionFull, CacheCallInv
<1> QED
  BY <1>1, <1>3, <1>4, <1>5 DEF CacheInv

\* Calls that begin or end without having changed anything.
LEMMA CallsCache ==
  ASSUME CacheInv,
         \/ \E s \in DOMAIN sessions : BeginAppend(s)
         \/ \E b \in Blocks : BeginRead(b)
         \/ AppendRefused \/ RestoreFails
  PROVE  CacheInv'
<1>1. /\ UNCHANGED <<disk, sessions, resident_blocks, spill_next, mem, free, job, failed>>
      /\ kpc # "spill" /\ kpc' \in {"up", "room"}
  BY DEF BeginAppend, BeginRead, AppendRefused, RestoreFails, RoomMade, Done, Goto
<1>2. Spots' = Spots /\ Blocks' = Blocks
  BY <1>1 DEF Spots, Block, Blocks
<1>3. CacheTypes
  BY DEF CacheInv
<1>4. kpc' = "room" => \/ /\ call'.op = "append"
                          /\ call'.s \in DOMAIN sessions
                          /\ call'.i = Len(sessions[call'.s]) + 1 /\ call'.i <= MaxBlocks
                       \/ /\ call'.op = "read"
                          /\ <<call'.s, call'.i>> \in Blocks /\ Spots[<<call'.s, call'.i>>].at = "spilled"
  <2>1. ASSUME NEW s \in DOMAIN sessions, BeginAppend(s)
        PROVE  /\ call'.op = "append" /\ call'.s \in DOMAIN sessions
               /\ call'.i = Len(sessions[call'.s]) + 1 /\ call'.i <= MaxBlocks
    <3>1. Len(sessions[s]) \in Nat
      BY <1>3 DEF CacheTypes
    <3> QED
      BY <2>1, <3>1, KvAssumption DEF BeginAppend
  <2>2. ASSUME NEW b \in Blocks, BeginRead(b)
        PROVE  /\ call'.op = "read"
               /\ <<call'.s, call'.i>> \in Blocks /\ Spots[<<call'.s, call'.i>>].at = "spilled"
    <3>1. b = <<b[1], b[2]>> /\ Block(b).at = "spilled" /\ call' = [op |-> "read", s |-> b[1], i |-> b[2]]
      BY <1>3, <2>2, SpotsTyped DEF BeginRead
    <3>2. <<call'.s, call'.i>> = b /\ call'.op = "read"
      BY <3>1
    <3> QED
      BY <3>1, <3>2 DEF Spots
  <2>3. AppendRefused \/ RestoreFails => kpc' # "room"
    BY DEF AppendRefused, RestoreFails, Done, Goto
  <2> QED
    BY <2>1, <2>2, <2>3
<1>5. CacheCallInv'
  <2>1. job' = NoJob
    BY <1>1 DEF CacheInv, CacheCallInv
  <2> QED
    BY <1>1, <1>2, <1>4, <2>1 DEF CacheCallInv
<1> QED
  BY <1>1, <1>5, SpillKept

LEMMA ChooseVictimCache ==
  ASSUME CacheInv, ChooseVictim
  PROVE  CacheInv'
<1> DEFINE P == Spots
           n == spill_next
<1>1. PICK b \in Victims : /\ sessions' = [sessions EXCEPT ![b[1]][b[2]] = Spilling(@.frame, spill_next)]
                           /\ job' = [s |-> b[1], i |-> b[2]]
  BY DEF ChooseVictim
<1>2. /\ kpc = "room" /\ kpc' = "spill" /\ ~RegionFull /\ spill_next' = n + 1
      /\ UNCHANGED <<disk, resident_blocks, mem, free, call, failed>>
  BY DEF ChooseVictim, Goto
<1>3. CacheTypes /\ IsPlaced(P, disk, mem, free, n, Writing) /\ job = NoJob /\ IsCounted(P, free, resident_blocks)
  BY <1>2 DEF CacheInv, CacheCallInv
<1>4. P \in [Blocks -> BlockType] /\ DOMAIN P = Blocks /\ IsFiniteSet(Blocks) /\ Writing \notin Blocks
  BY <1>3, SpotsTyped DEF Writing, NoJob
<1>5. b \in Blocks /\ P[b].at = "resident" /\ P[b] = sessions[b[1]][b[2]] /\ b = <<b[1], b[2]>>
  <2>1. b \in Blocks /\ Block(b).at = "resident"
    BY DEF Victims, Middles, ResidentBlocks
  <2> QED
    BY <1>3, <2>1, SpotsTyped DEF Spots, Block
<1> DEFINE x == Spilling(P[b].frame, n)
<1>6. P[b].frame \in Frames /\ n \in Nat /\ n \in SpillStart .. SpillEnd /\ n < SpillEnd /\ SpillStart \in Nat /\ SpillEnd \in Nat
  <2>1. P[b].frame \in Frames
    BY <1>4, <1>5 DEF BlockType
  <2>2. SpillStart \in Nat /\ SpillEnd \in Nat
    BY AuditAssumption DEF SpillStart, SpillEnd
  <2> QED
    BY <1>2, <1>3, <2>1, <2>2 DEF CacheTypes, RegionFull
<1>7. x \in BlockType /\ x.at = "spilling" /\ x.frame = P[b].frame /\ x.sector = n
  BY <1>6 DEF Spilling, BlockType
<1>8. sessions' = [sessions EXCEPT ![b[1]][b[2]] = x]
  BY <1>1, <1>5
<1> HIDE DEF x
<1>9. /\ Blocks' = Blocks /\ Spots' = [P EXCEPT ![b] = x]
      /\ sessions' \in Seq(Seq(BlockType)) /\ Len(sessions') = Len(sessions)
      /\ DOMAIN sessions' = DOMAIN sessions
      /\ \A s \in DOMAIN sessions : Len(sessions'[s]) = Len(sessions[s])
  BY <1>3, <1>5, <1>7, <1>8, SpotChanges
<1>10. DOMAIN Spots' = Blocks /\ Spots'[b] = x /\ \A c \in Blocks : c # b => Spots'[c] = P[c]
  BY <1>4, <1>5, <1>9
<1>11. CacheTypes'
  BY <1>2, <1>3, <1>6, <1>9 DEF CacheTypes
<1>12. Writing' = b
  BY <1>1, <1>5 DEF Writing
<1>13. IsPlaced(Spots', disk', mem', free', n + 1, b)
  <2>1. Spots'[b].sector = (n + 1) - 1
    BY <1>6, <1>7, <1>10
  <2>2. ASSUME NEW c \in Blocks
        PROVE  /\ Spots'[c].at = "spilled" => disk'[Spots'[c].sector] = c /\ Spots'[c].sector < (n + 1) - 1
               /\ Spots'[c].at # "spilled" => mem'[Spots'[c].frame] = c /\ Spots'[c].frame \notin free'
               /\ Spots'[c].at # "resident" => Spots'[c].sector \in SpillStart .. (n + 1) - 1
               /\ Spots'[c].at = "spilling" <=> c = b
    <3>1. /\ P[c].at = "spilled" => disk[P[c].sector] = c
          /\ P[c].at # "spilled" => mem[P[c].frame] = c /\ P[c].frame \notin free
          /\ P[c].at # "resident" => P[c].sector \in SpillStart .. n - 1
          /\ P[c].at # "spilling"
      BY <1>3, <1>4 DEF IsPlaced
    <3>2. CASE c = b
      BY <1>2, <1>5, <1>6, <1>7, <1>10, <3>1, <3>2
    <3>3. CASE c # b
      <4>1. P[c].at = "spilled" => P[c].at # "resident"
        OBVIOUS
      <4> QED
        BY <1>2, <1>6, <1>10, <3>1, <3>3, <4>1
    <3> QED
      BY <3>2, <3>3
  <2> QED
    BY <1>10, <2>1, <2>2 DEF IsPlaced
<1>14. IsCounted(Spots', free', resident_blocks')
  <2>1. b \in Held(P) /\ b \in Held(Spots')
    BY <1>4, <1>5, <1>7, <1>10 DEF Held
  <2>2. Held(Spots') = Held(P)
    BY <1>4, <1>5, <1>10, <2>1, CountChanges
  <2> QED
    BY <1>2, <1>3, <2>2 DEF IsCounted
<1>15. CacheCallInv'
  <2>1. CASE call.op = "append" /\ call.s \in DOMAIN sessions
             /\ call.i = Len(sessions[call.s]) + 1 /\ call.i <= MaxBlocks
    BY <1>2, <1>5, <1>9, <1>12, <2>1 DEF CacheCallInv
  <2>2. CASE call.op = "read" /\ <<call.s, call.i>> \in Blocks /\ P[<<call.s, call.i>>].at = "spilled"
    <3>1. <<call.s, call.i>> # b
      BY <1>5, <2>2
    <3> QED
      BY <1>2, <1>5, <1>9, <1>10, <1>12, <2>2, <3>1 DEF CacheCallInv
  <2> QED
    BY <1>2, <2>1, <2>2 DEF CacheInv, CacheCallInv
<1>16. BudgetHolds'
  BY <1>2 DEF CacheInv, BudgetHolds
<1> QED
  BY <1>2, <1>11, <1>12, <1>13, <1>14, <1>15, <1>16 DEF CacheInv

\* The two ways a write of make_room() ends.
LEMMA WriteOutCache ==
  ASSUME LogTypes, CacheInv, WriteOut
  PROVE  CacheInv'
<1> DEFINE P == Spots
           n == spill_next
           w == Writing
           f == P[w].frame
           x == Spilled(n - 1)
<1>1. /\ kpc = "spill" /\ kpc' = "room"
      /\ disk' = [disk EXCEPT ![Victim.sector] = mem[Victim.frame]]
      /\ sessions' = [sessions EXCEPT ![job.s][job.i] = Spilled(@.sector)]
      /\ resident_blocks' = resident_blocks - 1
      /\ free' = free \cup {Victim.frame}
      /\ job' = NoJob
      /\ UNCHANGED <<spill_next, mem, call, failed>>
  BY DEF WriteOut, Goto
<1>2. CacheTypes /\ IsPlaced(P, disk, mem, free, n, w) /\ IsCounted(P, free, resident_blocks)
  BY DEF CacheInv
<1>3. /\ P \in [Blocks -> BlockType] /\ DOMAIN P = Blocks /\ IsFiniteSet(Blocks)
      /\ <<0, 0>> \notin Blocks
  BY <1>2, SpotsTyped
<1>4. /\ n - 1 \in SpillStart .. SpillEnd - 1 /\ Victim.sector = n - 1
      /\ w \in Blocks /\ P[w] = Victim /\ P[w].at = "spilling"
  BY <1>1, VictimSector
<1>5. /\ f \in Frames /\ n - 1 \in Nat /\ mem[f] = w /\ f \notin free
      /\ n \in SpillStart .. SpillEnd /\ SpillStart \in Nat /\ SpillEnd \in Nat
  <2>1. f \in Frames
    BY <1>3, <1>4 DEF BlockType
  <2>2. SpillStart \in Nat /\ SpillEnd \in Nat
    BY AuditAssumption DEF SpillStart, SpillEnd
  <2>3. P[w].at # "spilled"
    BY <1>4
  <2>4. mem[f] = w /\ f \notin free
    BY <1>2, <1>3, <1>4, <2>3 DEF IsPlaced
  <2> QED
    BY <1>2, <1>4, <2>1, <2>2, <2>4 DEF CacheTypes
<1>6. /\ disk' = [disk EXCEPT ![n - 1] = w]
      /\ free' = free \cup {f}
  BY <1>1, <1>4, <1>5
<1>7. x \in BlockType /\ x.at = "spilled" /\ x.sector = n - 1
  BY <1>5 DEF Spilled, BlockType
<1>8. sessions' = [sessions EXCEPT ![w[1]][w[2]] = x]
  BY <1>1, <1>4 DEF Writing, Victim
<1> HIDE DEF x, w, n, P, f
<1>9. /\ Blocks' = Blocks /\ Spots' = [P EXCEPT ![w] = x]
      /\ sessions' \in Seq(Seq(BlockType)) /\ Len(sessions') = Len(sessions)
      /\ DOMAIN sessions' = DOMAIN sessions
      /\ \A s \in DOMAIN sessions : Len(sessions'[s]) = Len(sessions[s])
  BY <1>2, <1>4, <1>7, <1>8, SpotChanges DEF P
<1>10. DOMAIN Spots' = Blocks /\ Spots'[w] = x /\ \A c \in Blocks : c # w => Spots'[c] = P[c]
  BY <1>3, <1>4, <1>9
<1>11. \A s \in Sector : disk'[s] = IF s = n - 1 THEN w ELSE disk[s]
  BY <1>4, <1>6, SpillOffTape DEF LogTypes
<1>12. \A s \in SpillStart .. n - 1 : s \in Sector
  BY <1>5, AuditAssumption DEF Sector, SpillStart, SpillEnd
<1>13. Writing' = <<0, 0>>
  BY <1>1 DEF Writing, NoJob
<1>14. IsPlaced(Spots', disk', mem', free', n, Writing')
  <2>1. ASSUME NEW c \in Blocks
        PROVE  /\ Spots'[c].at = "spilled" => disk'[Spots'[c].sector] = c
               /\ Spots'[c].at # "spilled" => mem'[Spots'[c].frame] = c /\ Spots'[c].frame \notin free'
               /\ Spots'[c].at # "resident" => Spots'[c].sector \in SpillStart .. n - 1
               /\ Spots'[c].at # "spilling"
    <3>1. /\ P[c].at = "spilled" => disk[P[c].sector] = c /\ P[c].sector < n - 1
          /\ P[c].at # "spilled" => mem[P[c].frame] = c /\ P[c].frame \notin free
          /\ P[c].at # "resident" => P[c].sector \in SpillStart .. n - 1
          /\ P[c].at = "spilling" <=> c = w
      BY <1>2, <1>3, <1>4 DEF IsPlaced
    <3>2. CASE c = w
      <4>1. n - 1 \in SpillStart .. n - 1 /\ n - 1 \in Sector
        BY <1>4, <1>5, <1>12
      <4> QED
        BY <1>7, <1>10, <1>11, <3>2, <4>1
    <3>3. CASE c # w
      <4>1. CASE P[c].at = "spilled"
        <5>1. P[c].at # "resident"
          BY <4>1
        <5>2. P[c].sector \in Sector /\ P[c].sector # n - 1
          BY <1>5, <1>12, <3>1, <4>1, <5>1
        <5> QED
          BY <1>10, <1>11, <3>1, <3>3, <4>1, <5>1, <5>2
      <4>2. CASE P[c].at # "spilled"
        <5>1. P[c].frame # f
          BY <1>5, <3>1, <3>3, <4>2
        <5> QED
          BY <1>1, <1>6, <1>10, <3>1, <3>3, <4>2, <5>1
      <4> QED
        BY <4>1, <4>2
    <3> QED
      BY <3>2, <3>3
  <2>2. Writing' \notin DOMAIN Spots'
    BY <1>3, <1>10, <1>13
  <2> QED
    BY <1>10, <2>1, <2>2 DEF IsPlaced
<1>15. IsCounted(Spots', free', resident_blocks') /\ resident_blocks' \in Nat /\ resident_blocks \in Nat
  <2>1. w \in Held(P) /\ w \notin Held(Spots')
    BY <1>3, <1>4, <1>7, <1>10 DEF Held
  <2>2. /\ Cardinality(Held(Spots')) = Cardinality(Held(P)) - 1 /\ Cardinality(Held(P)) \in Nat
        /\ IsFiniteSet(Held(P))
    BY <1>3, <1>4, <1>10, <2>1, CountChanges
  <2>3. IsFiniteSet(free) /\ Cardinality(free) \in Nat
    BY <1>2, FreeIsFinite
  <2>4. Cardinality(free \cup {f}) = Cardinality(free) + 1
    BY <1>5, <2>3, FS_AddElement
  <2>5. Cardinality(Held(P)) # 0
    BY <2>1, <2>2, FS_EmptySet
  <2>6. /\ resident_blocks = Cardinality(Held(P))
        /\ resident_blocks + Cardinality(free) = Cardinality(Frames)
    BY <1>2 DEF IsCounted
  <2>7. /\ resident_blocks \in Nat /\ resident_blocks - 1 \in Nat
        /\ resident_blocks - 1 = Cardinality(Held(Spots'))
        /\ (resident_blocks - 1) + Cardinality(free \cup {f}) = Cardinality(Frames)
    BY <2>2, <2>3, <2>4, <2>5, <2>6
  <2> QED
    BY <1>1, <1>6, <2>7 DEF IsCounted
<1>16. CacheTypes'
  BY <1>1, <1>2, <1>5, <1>6, <1>9, <1>15 DEF CacheTypes
<1>17. CacheCallInv'
  <2>1. CASE call.op = "append" /\ call.s \in DOMAIN sessions
             /\ call.i = Len(sessions[call.s]) + 1 /\ call.i <= MaxBlocks
    BY <1>1, <1>9, <2>1 DEF CacheCallInv
  <2>2. CASE call.op = "read" /\ <<call.s, call.i>> \in Blocks /\ P[<<call.s, call.i>>].at = "spilled"
    <3>1. <<call.s, call.i>> # w
      BY <1>4, <2>2
    <3> QED
      BY <1>1, <1>9, <1>10, <2>2, <3>1 DEF CacheCallInv
  <2> QED
    BY <1>1, <2>1, <2>2 DEF CacheInv, CacheCallInv, P
<1>18. BudgetHolds'
  BY <1>1, <1>15, KvAssumption DEF CacheInv, BudgetHolds, RegionFull
<1>19. spill_next' = n
  BY <1>1 DEF n
<1> QED
  BY <1>14, <1>15, <1>16, <1>17, <1>18, <1>19 DEF CacheInv

LEMMA WriteOutFailsCache ==
  ASSUME CacheInv, WriteOutFails
  PROVE  CacheInv'
<1> DEFINE P == Spots
           n == spill_next
           w == Writing
           x == Resident(P[w].frame)
<1>1. /\ kpc = "spill" /\ kpc' = "made"
      /\ sessions' = [sessions EXCEPT ![job.s][job.i] = Resident(@.frame)]
      /\ job' = NoJob /\ failed' = TRUE
      /\ UNCHANGED <<disk, resident_blocks, spill_next, mem, free, call>>
  BY DEF WriteOutFails, Goto
<1>2. CacheTypes /\ IsPlaced(P, disk, mem, free, n, w) /\ IsCounted(P, free, resident_blocks)
  BY DEF CacheInv
<1>3. /\ P \in [Blocks -> BlockType] /\ DOMAIN P = Blocks /\ IsFiniteSet(Blocks)
      /\ <<0, 0>> \notin Blocks
  BY <1>2, SpotsTyped
<1>4. w \in Blocks /\ P[w] = Victim /\ P[w].at = "spilling"
  BY <1>1, VictimSector
<1>5. P[w].frame \in Frames
  BY <1>3, <1>4 DEF BlockType
<1>6. x \in BlockType /\ x.at = "resident" /\ x.frame = P[w].frame
  BY <1>5 DEF Resident, BlockType
<1>7. sessions' = [sessions EXCEPT ![w[1]][w[2]] = x]
  BY <1>1, <1>4 DEF Writing, Victim
<1> HIDE DEF x, w, n, P
<1>8. /\ Blocks' = Blocks /\ Spots' = [P EXCEPT ![w] = x]
      /\ sessions' \in Seq(Seq(BlockType)) /\ Len(sessions') = Len(sessions)
      /\ DOMAIN sessions' = DOMAIN sessions
      /\ \A s \in DOMAIN sessions : Len(sessions'[s]) = Len(sessions[s])
  BY <1>2, <1>4, <1>6, <1>7, SpotChanges DEF P
<1>9. DOMAIN Spots' = Blocks /\ Spots'[w] = x /\ \A c \in Blocks : c # w => Spots'[c] = P[c]
  BY <1>3, <1>4, <1>8
<1>10. Writing' = <<0, 0>>
  BY <1>1 DEF Writing, NoJob
<1>11. IsPlaced(Spots', disk', mem', free', n, Writing')
  <2>1. ASSUME NEW c \in Blocks
        PROVE  /\ Spots'[c].at = "spilled" => disk'[Spots'[c].sector] = c
               /\ Spots'[c].at # "spilled" => mem'[Spots'[c].frame] = c /\ Spots'[c].frame \notin free'
               /\ Spots'[c].at # "resident" => Spots'[c].sector \in SpillStart .. n - 1
               /\ Spots'[c].at # "spilling"
    <3>1. /\ P[c].at = "spilled" => disk[P[c].sector] = c
          /\ P[c].at # "spilled" => mem[P[c].frame] = c /\ P[c].frame \notin free
          /\ P[c].at # "resident" => P[c].sector \in SpillStart .. n - 1
          /\ P[c].at = "spilling" <=> c = w
      BY <1>2, <1>3, <1>4 DEF IsPlaced
    <3>2. CASE c = w
      BY <1>1, <1>4, <1>6, <1>9, <3>1, <3>2
    <3>3. CASE c # w
      BY <1>1, <1>9, <3>1, <3>3
    <3> QED
      BY <3>2, <3>3
  <2>2. Writing' \notin DOMAIN Spots'
    BY <1>3, <1>9, <1>10
  <2> QED
    BY <1>9, <2>1, <2>2 DEF IsPlaced
<1>12. IsCounted(Spots', free', resident_blocks')
  <2>1. w \in Held(P) /\ w \in Held(Spots')
    BY <1>3, <1>4, <1>6, <1>9 DEF Held
  <2>2. Held(Spots') = Held(P)
    BY <1>3, <1>4, <1>9, <2>1, CountChanges
  <2> QED
    BY <1>1, <1>2, <2>2 DEF IsCounted
<1>13. CacheTypes'
  BY <1>1, <1>2, <1>8 DEF CacheTypes
<1>14. CacheCallInv'
  <2>1. CASE call.op = "append" /\ call.s \in DOMAIN sessions
             /\ call.i = Len(sessions[call.s]) + 1 /\ call.i <= MaxBlocks
    BY <1>1, <1>8, <2>1 DEF CacheCallInv
  <2>2. CASE call.op = "read" /\ <<call.s, call.i>> \in Blocks /\ P[<<call.s, call.i>>].at = "spilled"
    <3>1. <<call.s, call.i>> # w
      BY <1>4, <2>2
    <3> QED
      BY <1>1, <1>8, <1>9, <2>2, <3>1 DEF CacheCallInv
  <2> QED
    BY <1>1, <2>1, <2>2 DEF CacheInv, CacheCallInv, P
<1>15. BudgetHolds' /\ spill_next' = n
  BY <1>1 DEF BudgetHolds, n
<1> QED
  BY <1>11, <1>12, <1>13, <1>14, <1>15 DEF CacheInv

\* A free frame taken for the block b, which is new or was on flash.
LEMMA TakeFrame ==
  ASSUME CacheInv, kpc # "spill", free # {}, NEW b, Take(b),
         Spots' \in [Blocks' -> BlockType], Spots'[b] = Resident(Min(free)),
         \/ Blocks' = Blocks /\ b \in Blocks /\ Spots[b].at = "spilled"
         \/ Blocks' = Blocks \cup {b} /\ b \notin Blocks,
         \A c \in Blocks : c # b => Spots'[c] = Spots[c],
         UNCHANGED <<disk, spill_next, job>>, <<0, 0>> # b
  PROVE  /\ IsPlaced(Spots', disk', mem', free', spill_next', Writing')
         /\ IsCounted(Spots', free', resident_blocks')
         /\ resident_blocks' = resident_blocks + 1 /\ resident_blocks' \in Nat
         /\ mem' = [f \in Frames |-> mem'[f]] /\ free' \in SUBSET Frames
<1> DEFINE P == Spots
           n == spill_next
           f == Min(free)
<1>1. CacheTypes /\ IsPlaced(P, disk, mem, free, n, Writing) /\ IsCounted(P, free, resident_blocks) /\ job = NoJob
  BY DEF CacheInv, CacheCallInv
<1>2. /\ P \in [Blocks -> BlockType] /\ DOMAIN P = Blocks /\ IsFiniteSet(Blocks)
      /\ <<0, 0>> \notin Blocks
  BY <1>1, SpotsTyped
<1>3. /\ IsFiniteSet(free) /\ Cardinality(free) \in Nat /\ f \in free /\ f \in Frames
  BY <1>1, FreeIsFinite
<1>4. /\ free' = free \ {f} /\ mem' = [mem EXCEPT ![f] = b] /\ resident_blocks' = resident_blocks + 1
  BY DEF Take
<1> HIDE DEF f
<1>5. /\ mem'[f] = b /\ \A g \in Frames : g # f => mem'[g] = mem[g]
      /\ mem' = [g \in Frames |-> mem'[g]]
  BY <1>1, <1>3, <1>4 DEF CacheTypes
<1>6. DOMAIN Spots' = Blocks' /\ b \in Blocks' /\ Blocks' \subseteq Blocks \cup {b}
  OBVIOUS
<1>7. Spots'[b].at = "resident" /\ Spots'[b].frame = f
  BY DEF Resident, f
<1>8. Writing' = <<0, 0>> /\ Writing = <<0, 0>>
  BY <1>1 DEF Writing, NoJob
<1>9. IsPlaced(Spots', disk', mem', free', n, Writing')
  <2>1. ASSUME NEW c \in Blocks'
        PROVE  /\ Spots'[c].at = "spilled" => disk'[Spots'[c].sector] = c
               /\ Spots'[c].at # "spilled" => mem'[Spots'[c].frame] = c /\ Spots'[c].frame \notin free'
               /\ Spots'[c].at # "resident" => Spots'[c].sector \in SpillStart .. n - 1
               /\ Spots'[c].at # "spilling"
    <3>1. CASE c = b
      BY <1>4, <1>5, <1>7, <3>1
    <3>2. CASE c # b
      <4>1. c \in Blocks /\ Spots'[c] = P[c] /\ P[c] \in BlockType
        BY <1>2, <1>6, <3>2
      <4>2. /\ P[c].at = "spilled" => disk[P[c].sector] = c
            /\ P[c].at # "spilled" => mem[P[c].frame] = c /\ P[c].frame \notin free
            /\ P[c].at # "resident" => P[c].sector \in SpillStart .. n - 1
            /\ P[c].at # "spilling"
        BY <1>1, <1>2, <1>8, <4>1 DEF IsPlaced
      <4>3. P[c].at # "spilled" => P[c].frame \in Frames
        BY <4>1 DEF BlockType
      <4> QED
        BY <1>3, <1>4, <1>5, <4>1, <4>2, <4>3
    <3> QED
      BY <3>1, <3>2
  <2>2. Writing' \notin DOMAIN Spots'
    BY <1>2, <1>6, <1>8
  <2> QED
    BY <1>6, <2>1, <2>2 DEF IsPlaced
<1>10. IsCounted(Spots', free', resident_blocks') /\ resident_blocks' \in Nat
  <2>1. b \notin Held(P) /\ b \in Held(Spots')
    BY <1>2, <1>6, <1>7 DEF Held
  <2>2. Cardinality(Held(Spots')) = Cardinality(Held(P)) + 1 /\ Cardinality(Held(P)) \in Nat
    BY <1>2, <1>6, <2>1, CountChanges
  <2>3. Cardinality(free \ {f}) = Cardinality(free) - 1
    BY <1>3, FS_RemoveElement
  <2>4. /\ resident_blocks = Cardinality(Held(P))
        /\ resident_blocks + Cardinality(free) = Cardinality(Frames)
    BY <1>1 DEF IsCounted
  <2>5. /\ resident_blocks + 1 \in Nat
        /\ resident_blocks + 1 = Cardinality(Held(Spots'))
        /\ (resident_blocks + 1) + Cardinality(free \ {f}) = Cardinality(Frames)
    BY <1>3, <2>2, <2>3, <2>4
  <2> QED
    BY <1>4, <2>5 DEF IsCounted
<1>11. free' \in SUBSET Frames
  BY <1>1, <1>4 DEF CacheTypes
<1> QED
  BY <1>4, <1>5, <1>9, <1>10, <1>11

\* When make_room() has returned, there is room, or nothing can be written out.
LEMMA RoomOrNot ==
  ASSUME CacheInv, RoomMade
  PROVE  resident_blocks + 1 > Budget => RegionFull \/ failed
<1>1. CASE kpc = "made"
  BY <1>1 DEF CacheInv, CacheCallInv
<1>2. CASE kpc = "room" /\ ResidentBlocks = {}
  <2>1. CacheTypes /\ IsPlaced(Spots, disk, mem, free, spill_next, Writing) /\ job = NoJob
    BY <1>2 DEF CacheInv, CacheCallInv
  <2>2. /\ Spots \in [Blocks -> BlockType] /\ <<0, 0>> \notin Blocks
    BY <2>1, SpotsTyped
  <2>3. Writing = <<0, 0>>
    BY <2>1 DEF Writing, NoJob
  <2>4. \A b \in Blocks : Spots[b].at = "spilled"
    <3>1. \A b \in Blocks : Spots[b].at \in {"resident", "spilling", "spilled"}
      BY <2>2 DEF BlockType
    <3>2. \A b \in Blocks : Spots[b].at # "spilling"
      BY <2>1, <2>2, <2>3 DEF IsPlaced
    <3>3. \A b \in Blocks : Spots[b].at # "resident"
      BY <1>2 DEF ResidentBlocks, Spots
    <3> QED
      BY <3>1, <3>2, <3>3
  <2>5. Held(Spots) = {}
    BY <2>2, <2>4 DEF Held
  <2>6. resident_blocks = 0
    BY <2>5, FS_EmptySet DEF CacheInv, IsCounted
  <2> QED
    BY <2>6, KvAssumption
<1>3. CASE EnoughRoom
  BY <1>3, KvAssumption DEF EnoughRoom, CacheInv, CacheTypes
<1> QED
  BY <1>1, <1>2, <1>3 DEF RoomMade

LEMMA AppendBlockCache ==
  ASSUME CacheInv, AppendBlock
  PROVE  CacheInv'
<1> DEFINE b == <<call.s, call.i>>
           x == Resident(Min(free))
<1>1. /\ RoomMade /\ call.op = "append" /\ resident_blocks < Budget /\ free # {}
      /\ Take(b) /\ sessions' = [sessions EXCEPT ![call.s] = Append(@, x)]
      /\ kpc' = "up" /\ UNCHANGED <<disk, spill_next, job, failed>>
  BY DEF AppendBlock, Done, Goto
<1>2. kpc \in {"room", "made"}
  BY <1>1 DEF RoomMade
<1>3. /\ CacheTypes /\ call.s \in DOMAIN sessions /\ job = NoJob
      /\ call.i = Len(sessions[call.s]) + 1 /\ call.i <= MaxBlocks
  BY <1>1, <1>2 DEF CacheInv, CacheCallInv
<1>4. x \in BlockType
  BY <1>1, <1>3, FreeIsFinite DEF Resident, BlockType
<1>5. Len(sessions[call.s]) < MaxBlocks
  <2>1. Len(sessions[call.s]) \in Nat
    BY <1>3 DEF CacheTypes
  <2> QED
    BY <1>3, <2>1, KvAssumption
<1> HIDE DEF x
<1>6. /\ b \notin Blocks /\ Blocks' = Blocks \cup {b}
      /\ Spots' = [c \in Blocks \cup {b} |-> IF c = b THEN x ELSE Spots[c]]
      /\ sessions' \in Seq(Seq(BlockType)) /\ Len(sessions') = Len(sessions)
      /\ \A t \in DOMAIN sessions' : Len(sessions'[t]) <= MaxBlocks
  <2> DEFINE n == <<call.s, Len(sessions[call.s]) + 1>>
  <2>1. b = n
    BY <1>3
  <2>2. /\ n \notin Blocks /\ Blocks' = Blocks \cup {n}
        /\ Spots' = [c \in Blocks \cup {n} |-> IF c = n THEN x ELSE Spots[c]]
        /\ sessions' \in Seq(Seq(BlockType)) /\ Len(sessions') = Len(sessions)
        /\ \A t \in DOMAIN sessions' : Len(sessions'[t]) <= MaxBlocks
    BY <1>1, <1>3, <1>4, <1>5, SpotAdded
  <2> QED
    BY <2>1, <2>2
<1>7. Spots \in [Blocks -> BlockType]
  BY <1>3, SpotsTyped
<1>8. b # <<0, 0>>
  <2>1. call.i # 0
    BY <1>3 DEF CacheTypes
  <2> QED
    BY <2>1
<1> HIDE DEF b
<1>9. /\ Spots' \in [Blocks' -> BlockType] /\ Spots'[b] = x
      /\ \A c \in Blocks : c # b => Spots'[c] = Spots[c]
  BY <1>4, <1>6, <1>7
<1>10. /\ IsPlaced(Spots', disk', mem', free', spill_next', Writing')
       /\ IsCounted(Spots', free', resident_blocks')
       /\ resident_blocks' = resident_blocks + 1 /\ resident_blocks' \in Nat
       /\ mem' = [f \in Frames |-> mem'[f]] /\ free' \in SUBSET Frames
  BY <1>1, <1>2, <1>6, <1>8, <1>9, TakeFrame DEF x
<1>11. CacheTypes'
  BY <1>1, <1>3, <1>6, <1>10 DEF CacheTypes
<1>12. CacheCallInv'
  BY <1>1, <1>3 DEF CacheCallInv
<1>13. BudgetHolds'
  BY <1>1, <1>3, <1>10, KvAssumption DEF BudgetHolds, CacheTypes
<1> QED
  BY <1>10, <1>11, <1>12, <1>13 DEF CacheInv

LEMMA RestoreCache ==
  ASSUME CacheInv, Restore
  PROVE  CacheInv'
<1> DEFINE b == <<call.s, call.i>>
           x == Resident(Min(free))
<1>1. /\ RoomMade /\ call.op = "read" /\ free # {}
      /\ Take(disk[sessions[call.s][call.i].sector])
      /\ sessions' = [sessions EXCEPT ![call.s][call.i] = x]
      /\ kpc' = "up" /\ UNCHANGED <<disk, spill_next, job, failed>>
  BY DEF Restore, Done, Goto
<1>2. kpc \in {"room", "made"}
  BY <1>1 DEF RoomMade
<1>3. /\ CacheTypes /\ b \in Blocks /\ Spots[b].at = "spilled" /\ job = NoJob
      /\ IsPlaced(Spots, disk, mem, free, spill_next, Writing)
  BY <1>1, <1>2 DEF CacheInv, CacheCallInv
<1>4. x \in BlockType
  BY <1>1, <1>3, FreeIsFinite DEF Resident, BlockType
<1>5. /\ Spots \in [Blocks -> BlockType] /\ <<0, 0>> \notin Blocks
      /\ Spots[b] = sessions[call.s][call.i]
  BY <1>3, SpotsTyped DEF Spots, Block
<1>6. Take(b)
  <2>1. disk[Spots[b].sector] = b
    BY <1>3, <1>5 DEF IsPlaced
  <2> QED
    BY <1>1, <1>5, <2>1
<1> HIDE DEF x
<1>7. /\ Blocks' = Blocks /\ Spots' = [Spots EXCEPT ![b] = x]
      /\ sessions' \in Seq(Seq(BlockType)) /\ Len(sessions') = Len(sessions)
      /\ DOMAIN sessions' = DOMAIN sessions
      /\ \A s \in DOMAIN sessions : Len(sessions'[s]) = Len(sessions[s])
  <2>1. sessions' = [sessions EXCEPT ![b[1]][b[2]] = x]
    BY <1>1
  <2> HIDE DEF b
  <2> QED
    BY <1>3, <1>4, <2>1, SpotChanges
<1> HIDE DEF b
<1>8. /\ Spots' \in [Blocks' -> BlockType] /\ Spots'[b] = x /\ b # <<0, 0>>
      /\ \A c \in Blocks : c # b => Spots'[c] = Spots[c]
  BY <1>3, <1>4, <1>5, <1>7
<1>9. /\ IsPlaced(Spots', disk', mem', free', spill_next', Writing')
      /\ IsCounted(Spots', free', resident_blocks')
      /\ resident_blocks' = resident_blocks + 1 /\ resident_blocks' \in Nat
      /\ mem' = [f \in Frames |-> mem'[f]] /\ free' \in SUBSET Frames
  BY <1>1, <1>2, <1>3, <1>6, <1>7, <1>8, TakeFrame DEF x
<1>10. CacheTypes'
  BY <1>1, <1>3, <1>7, <1>9 DEF CacheTypes
<1>11. CacheCallInv'
  BY <1>1, <1>3 DEF CacheCallInv
<1>12. BudgetHolds'
  BY <1>1, <1>9, RoomOrNot DEF BudgetHolds, RegionFull
<1> QED
  BY <1>9, <1>10, <1>11, <1>12 DEF CacheInv

\* Every step keeps the cache.
LEMMA StepKeepsCache ==
  ASSUME LogTypes, CacheInv, StorageNext
  PROVE  CacheInv'
  BY LogStepCache, PowerCutCache, OpenCache, CallsCache, ChooseVictimCache, WriteOutCache, WriteOutFailsCache,
     AppendBlockCache, RestoreCache
  DEF StorageNext, CacheNext

-----------------------------------------------------------------------------
(***************************************************************************)
(* The theorems.                                                           *)
(***************************************************************************)

LEMMA InitStorage ==
  ASSUME StorageInit
  PROVE  StorageInv
<1>1. /\ disk = [s \in Sector |-> Blank] /\ kpc = "off" /\ damaged = {} /\ appends = 0 /\ errors = 0
      /\ acked = [seq \in 0 .. Capacity - 1 |-> 0]
      /\ sessions = <<>> /\ resident_blocks = 0 /\ spill_next = SpillStart
      /\ mem = [f \in Frames |-> <<>>] /\ free = Frames /\ job = NoJob /\ failed = FALSE
  BY DEF StorageInit, AuditInit, CacheInit
<1>2. Blank \in [Slot -> Record] /\ \A i \in Slot : Blank[i].hash = 0
  BY DEF Blank, NoRecord, Record
<1>3. \A s \in 0 .. AuditSectors - 1 : s \in Sector
  BY AuditAssumption DEF Sector
<1>4. DiskType
  BY <1>1, <1>2, <1>3 DEF DiskType
<1>5. Tape \in [Position -> Record] /\ \A q \in Position : At(q) = Tape[q]
  BY <1>4, TapeReads
<1>6. \A q \in Position : Tape[q].hash = 0
  BY <1>1, <1>2, <1>5, PlaceOf DEF At
<1>7. LogInv
  <2>1. IsChain(Tape, damaged, appends)
    BY <1>1, <1>5, <1>6 DEF IsChain
  <2>2. Keeps(Tape, acked)
    BY <1>1 DEF Keeps, Position
  <2> QED
    BY <1>1, <1>4, <2>1, <2>2 DEF LogInv, LogCallInv
<1>8. LogTypes
  BY <1>1, <1>4, AuditAssumption DEF LogTypes, StorageInit, AuditInit, Capacity
<1>9. Blocks = {} /\ DOMAIN Spots = {}
  <2>1. \A b \in (1 .. MaxSessions) \X (1 .. MaxBlocks) : ~(b[1] <= Len(<<>>))
    OBVIOUS
  <2>2. Blocks = {}
    BY <1>1, <2>1 DEF Blocks
  <2> QED
    BY <2>2 DEF Spots
<1>10. CacheTypes
  <2>1. /\ <<>> \in Seq(Seq(BlockType)) /\ Len(<<>>) <= MaxSessions /\ DOMAIN <<>> = {}
        /\ SpillStart \in SpillStart .. SpillEnd
    BY AuditAssumption, KvAssumption DEF SpillStart, SpillEnd
  <2> QED
    BY <1>1, <2>1 DEF CacheTypes
<1>11. IsPlaced(Spots, disk, mem, free, spill_next, Writing)
  BY <1>9 DEF IsPlaced
<1>12. IsCounted(Spots, free, resident_blocks)
  <2>1. Held(Spots) = {}
    BY <1>9 DEF Held
  <2>2. Cardinality({}) = 0 /\ Cardinality(Frames) \in Nat
    BY FS_EmptySet, FS_CardinalityType, KvAssumption
  <2> QED
    BY <1>1, <2>1, <2>2 DEF IsCounted
<1>13. CacheCallInv /\ BudgetHolds
  BY <1>1, KvAssumption DEF CacheCallInv, BudgetHolds
<1> QED
  BY <1>7, <1>8, <1>10, <1>11, <1>12, <1>13 DEF CacheInv, StorageInv, RegionsInv

LEMMA StutterStorage ==
  ASSUME UNCHANGED svars
  PROVE  (RegionsInv => RegionsInv') /\ (StorageInv => StorageInv')
<1>1. /\ UNCHANGED <<disk, kpc, log, buf, rec, acked, damaged, appends, errors>>
      /\ UNCHANGED <<sessions, resident_blocks, spill_next, mem, free, call, job, failed>>
  BY DEF svars, audit, cache
<1>2. Tape' = Tape /\ (DiskType => DiskType')
  BY <1>1 DEF Tape, At, DiskType
<1>3. LogTypes => LogTypes'
  BY <1>1, <1>2 DEF LogTypes
<1>4. LogInv => LogInv'
  BY <1>1, <1>2 DEF LogInv, LogCallInv
<1>5. CacheInv => CacheInv'
  <2> SUFFICES ASSUME CacheInv
               PROVE  CacheInv'
    OBVIOUS
  <2>1. Spots' = Spots /\ Blocks' = Blocks /\ Writing' = Writing
    BY <1>1 DEF Spots, Block, Blocks, Writing
  <2>2. CacheCallInv'
    BY <1>1, <2>1 DEF CacheInv, CacheCallInv
  <2> QED
    BY <1>1, <2>2, SpillKept
<1> QED
  BY <1>3, <1>4, <1>5 DEF StorageInv, RegionsInv

\* The two regions are kept apart whatever init() could read: the log writes
\* into its own, and what is in the cache stays where it is.
THEOREM RegionsInvariance == StorageSpec => []RegionsInv
<1>1. StorageInit => RegionsInv
  BY InitStorage DEF StorageInv
<1>2. RegionsInv /\ [StorageNext]_svars => RegionsInv'
  BY StepKeepsTypes, StepKeepsCache, StutterStorage DEF RegionsInv
<1> QED
  BY <1>1, <1>2, PTL DEF StorageSpec

\* The log keeps its chain and its tail beside the cache, as long as init()
\* can read the sectors it looks through.
THEOREM StorageInvariance ==
  ASSUME ~ScanFaults
  PROVE  StorageSpec => []StorageInv
<1>1. StorageInit => StorageInv
  BY InitStorage
<1>2. StorageInv /\ [StorageNext]_svars => StorageInv'
  BY StepKeepsTypes, StepKeepsLog, StepKeepsCache, StutterStorage DEF StorageInv, RegionsInv
<1> QED
  BY <1>1, <1>2, PTL DEF StorageSpec

LEMMA KeptFollows ==
  ASSUME StorageInv
  PROVE  RecordsAreKept
<1>1. DiskType /\ Keeps(Tape, acked)
  BY DEF StorageInv, LogInv
<1>2. \A q \in Position : At(q) = Tape[q]
  BY <1>1, TapeReads
<1> QED
  BY <1>1, <1>2 DEF Keeps, RecordsAreKept

\* A record append() answered for stays in its place: for every size of the
\* log, every sequence of failed requests, restarts, torn writes and writes
\* that failed and landed.
THEOREM AnsweredRecordsStay ==
  ASSUME ~ScanFaults
  PROVE  StorageSpec => []RecordsAreKept
<1>1. StorageInv => RecordsAreKept
  BY KeptFollows
<1> QED
  BY <1>1, StorageInvariance, PTL

\* Before the tail a record verifies exactly when nothing has damaged it.
LEMMA VerifyFollows ==
  ASSUME StorageInv
  PROVE  VerifyIsExact
<1> SUFFICES ASSUME kpc = "up"
             PROVE  /\ \A seq \in DOMAIN acked : acked[seq] # 0 => seq < log.next_seq
                    /\ FirstBad = Min({log.next_seq} \cup
                                      {seq \in 0 .. log.next_seq - 1 : At(seq).hash \in damaged})
  BY DEF VerifyIsExact
<1> DEFINE n == log.next_seq
           bad == {seq \in 0 .. n - 1 : ~Sound(seq)}
           hit == {seq \in 0 .. n - 1 : At(seq).hash \in damaged}
<1>1. DiskType /\ IsChain(Tape, damaged, appends) /\ Keeps(Tape, acked) /\ IsTail(Tape, acked, log)
  BY DEF StorageInv, LogInv
<1>2. \A seq \in DOMAIN acked : acked[seq] # 0 => seq < n
  BY <1>1 DEF Keeps, IsTail
<1>3. n \in 0 .. Capacity /\ Capacity \in Nat
  BY <1>1, AuditAssumption DEF IsTail, Capacity
<1>4. ASSUME NEW q \in 0 .. n - 1
      PROVE  ~Sound(q) <=> At(q).hash \in damaged
  <2>1. q \in Position /\ q < n /\ q \in 0 .. Capacity
    BY <1>3 DEF Position
  <2>2. At(q) = Tape[q] /\ HashBefore(q) = Before(Tape, q)
    BY <1>1, <2>1, TapeReads
  <2>3. Tape[q].hash # 0
    BY <1>1, <2>1 DEF IsTail
  <2>4. Tape[q].prev = Before(Tape, q) /\ (Tape[q].whole <=> Tape[q].hash \notin damaged)
    BY <1>1, <2>1, <2>3 DEF IsChain
  <2> QED
    BY <2>2, <2>3, <2>4 DEF Sound
<1>5. bad = hit
  BY <1>4
<1>6. bad \in SUBSET (0 .. n - 1) /\ n \in Nat
  BY <1>3
<1>7. FirstBad = IF bad = {} THEN n ELSE Min(bad)
  BY DEF FirstBad
<1> HIDE DEF bad, n
<1>8. FirstBad = Min({n} \cup bad)
  <2> DEFINE S == {n} \cup bad
             m == Min(S)
  <2>1. S \in SUBSET Nat /\ S # {} /\ bad \in SUBSET Nat
    BY <1>6
  <2>2. m \in S /\ \A x \in S : m <= x
    BY <2>1, LeastExists
  <2> HIDE DEF m
  <2>3. CASE bad = {}
    BY <1>7, <2>2, <2>3 DEF m
  <2>4. CASE bad # {}
    <3> DEFINE k == Min(bad)
    <3>1. k \in bad /\ \A x \in bad : k <= x
      BY <2>1, <2>4, LeastExists
    <3> HIDE DEF k
    <3>2. k < n /\ k \in Nat
      BY <1>6, <3>1
    <3>3. m \in Nat /\ m <= k /\ k <= m
      <4>1. m <= k
        BY <2>2, <3>1
      <4>2. CASE m = n
        BY <1>6, <3>2, <4>1, <4>2
      <4>3. CASE m \in bad
        BY <2>1, <3>1, <4>1, <4>3
      <4> QED
        BY <2>2, <4>2, <4>3
    <3>4. m = k
      BY <3>2, <3>3
    <3> QED
      BY <1>7, <2>4, <3>4 DEF k, m
  <2> QED
    BY <2>3, <2>4
<1> QED
  BY <1>2, <1>5, <1>8 DEF n

\* verify() finds the first damaged record and no other: for every log, however
\* it was filled, cut short, altered and restarted.
THEOREM VerifyFindsDamage ==
  ASSUME ~ScanFaults
  PROVE  StorageSpec => []VerifyIsExact
<1>1. StorageInv => VerifyIsExact
  BY VerifyFollows
<1> QED
  BY <1>1, StorageInvariance, PTL

LEMMA IntactFollows ==
  ASSUME RegionsInv
  PROVE  BlocksAreIntact
<1>1. /\ IsPlaced(Spots, disk, mem, free, spill_next, Writing)
      /\ IsCounted(Spots, free, resident_blocks)
      /\ DOMAIN Spots = Blocks /\ \A b \in Blocks : Spots[b] = Block(b)
  BY DEF RegionsInv, CacheInv, Spots
<1>2. Held(Spots) = {b \in Blocks : Block(b).at # "spilled"}
  BY <1>1 DEF Held
<1>3. \A b \in Blocks : IF Block(b).at = "spilled" THEN disk[Block(b).sector] = b
                        ELSE mem[Block(b).frame] = b /\ Block(b).frame \notin free
  BY <1>1 DEF IsPlaced
<1> QED
  BY <1>1, <1>2, <1>3 DEF IsCounted, BlocksAreIntact

\* No block of a conversation is lost or mixed up, in memory or on flash, for
\* every budget, spill region and number of frames, whatever fails.
THEOREM NoBlockIsLost == StorageSpec => []BlocksAreIntact
<1>1. RegionsInv => BlocksAreIntact
  BY IntactFollows
<1> QED
  BY <1>1, RegionsInvariance, PTL

\* The cache is over its budget only when the spill region is used up or a
\* write has failed.
THEOREM CacheStaysInBudget == StorageSpec => []BudgetHolds
<1>1. RegionsInv => BudgetHolds
  BY DEF RegionsInv, CacheInv
<1> QED
  BY <1>1, RegionsInvariance, PTL
=============================================================================
