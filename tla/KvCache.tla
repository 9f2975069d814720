------------------------------ MODULE KvCache ------------------------------
(***************************************************************************)
(* The cache of conversations (kernel/src/kv.rs), on the disk it shares    *)
(* with the action log: a block is in memory or, when the budget is        *)
(* exceeded, in the spill region that begins after the log's.  kernel_main *)
(* is the only caller of both; a disk request gives up the processor, but  *)
(* no other thread enters the cache meanwhile.                             *)
(*                                                                         *)
(* A block's contents are the pair <<session, index>> (pattern()); a block *)
(* takes one spill sector.  Ticks are left out: eviction_score() puts      *)
(* every block after the prefix before every block of it as long as no     *)
(* prefix block has been idle for 8000 ticks, and which of its kind goes   *)
(* is left open.  The counters of hits, spills and restores are left out.  *)
(***************************************************************************)
EXTENDS Audit, Sequences

CONSTANTS
    Frames,        \* physical frames
    Budget,        \* BUDGET_BLOCKS
    PrefixBlocks,  \* PREFIX_BLOCKS
    MaxSessions, MaxBlocks  \* bounds: sessions, and blocks of one

ASSUME KvAssumption ==
    /\ IsFiniteSet(Frames) /\ Frames \subseteq Nat
    /\ Budget \in Nat \ {0} /\ PrefixBlocks \in Nat
    /\ MaxSessions \in Nat /\ MaxBlocks \in Nat

VARIABLES
    sessions,      \* the blocks of each session
    resident_blocks,
    spill_next,    \* the first sector no block was given
    mem,           \* what each frame holds
    free,          \* frames::alloc()'s frames
    call,          \* the append() or read() in progress
    job,           \* the block make_room() is writing out
    failed         \* ghost: a block could not be written out in this boot

cache == <<sessions, resident_blocks, spill_next, mem, free, call, job, failed>>
svars == <<disk, kpc, audit, errors, cuts, cache>>

Resident(f) == [at |-> "resident", frame |-> f]
Spilling(f, d) == [at |-> "spilling", frame |-> f, sector |-> d]
Spilled(d) == [at |-> "spilled", sector |-> d]

NoCall == [op |-> "none", s |-> 0, i |-> 0]
NoJob == [s |-> 0, i |-> 0]

SpillStart == AuditSectors
SpillEnd == AuditSectors + SpillSectors

\* The blocks there are, and those in memory.
Blocks == {b \in (1 .. MaxSessions) \X (1 .. MaxBlocks) :
              b[1] <= Len(sessions) /\ b[2] <= Len(sessions[b[1]])}
Block(b) == sessions[b[1]][b[2]]
ResidentBlocks == {b \in Blocks : Block(b).at = "resident"}

CacheInit ==
    /\ sessions = <<>> /\ resident_blocks = 0 /\ spill_next = SpillStart
    /\ mem = [f \in Frames |-> <<>>] /\ free = Frames
    /\ call = NoCall /\ job = NoJob /\ failed = FALSE

-----------------------------------------------------------------------------
Open ==
    /\ kpc = "up" /\ Len(sessions) < MaxSessions
    /\ sessions' = Append(sessions, <<>>)
    /\ UNCHANGED <<disk, kpc, audit, errors, cuts,
                   resident_blocks, spill_next, mem, free, call, job, failed>>

\* append() for one block; a read() of a block that is on flash.  A read of a
\* block in memory copies it out and moves its tick.
BeginAppend(s) ==
    /\ kpc = "up" /\ Len(sessions[s]) < MaxBlocks
    /\ call' = [op |-> "append", s |-> s, i |-> Len(sessions[s]) + 1]
    /\ Goto("room")
    /\ UNCHANGED <<disk, audit, errors, cuts,
                   sessions, resident_blocks, spill_next, mem, free, job, failed>>

\* Mutant of BeginRead: no room is made first.
BeginReadAtOnce(b) ==
    /\ kpc = "up" /\ Block(b).at = "spilled"
    /\ call' = [op |-> "read", s |-> b[1], i |-> b[2]]
    /\ Goto("made")
    /\ UNCHANGED <<disk, audit, errors, cuts,
                   sessions, resident_blocks, spill_next, mem, free, job, failed>>

BeginRead(b) ==
    /\ kpc = "up" /\ Block(b).at = "spilled"
    /\ call' = [op |-> "read", s |-> b[1], i |-> b[2]]
    /\ Goto("room")
    /\ UNCHANGED <<disk, audit, errors, cuts,
                   sessions, resident_blocks, spill_next, mem, free, job, failed>>

-----------------------------------------------------------------------------
(***************************************************************************)
(* make_room(1): choose under the lock, write without it, finish under it. *)
(***************************************************************************)
Middles == {b \in ResidentBlocks : b[2] > PrefixBlocks}
Victims == IF Middles # {} THEN Middles ELSE ResidentBlocks

EnoughRoom == resident_blocks + 1 <= Budget

RegionFull == spill_next + 1 > SpillEnd

ChooseVictim ==
    /\ kpc = "room" /\ ~EnoughRoom /\ ~RegionFull
    /\ \E b \in Victims :
          /\ sessions' = [sessions EXCEPT ![b[1]][b[2]] = Spilling(@.frame, spill_next)]
          /\ job' = [s |-> b[1], i |-> b[2]]
    /\ spill_next' = spill_next + 1
    /\ Goto("spill")
    /\ UNCHANGED <<disk, audit, errors, cuts, resident_blocks, mem, free, call, failed>>

Victim == sessions[job.s][job.i]

\* Mutant of WriteOut: a failed write is not noticed.
WriteOutUnchecked ==
    /\ kpc = "spill"
    /\ \/ /\ disk' = [disk EXCEPT ![Victim.sector] = mem[Victim.frame]]
          /\ UNCHANGED errors
       \/ /\ errors < MaxErrors /\ errors' = errors + 1 /\ UNCHANGED disk
    /\ sessions' = [sessions EXCEPT ![job.s][job.i] = Spilled(@.sector)]
    /\ resident_blocks' = resident_blocks - 1
    /\ free' = free \cup {Victim.frame}
    /\ job' = NoJob
    /\ Goto("room")
    /\ UNCHANGED <<audit, cuts, spill_next, mem, call, failed>>

WriteOut ==
    /\ kpc = "spill"
    /\ disk' = [disk EXCEPT ![Victim.sector] = mem[Victim.frame]]
    /\ sessions' = [sessions EXCEPT ![job.s][job.i] = Spilled(@.sector)]
    /\ resident_blocks' = resident_blocks - 1
    /\ free' = free \cup {Victim.frame}
    /\ job' = NoJob
    /\ Goto("room")
    /\ UNCHANGED <<audit, errors, cuts, spill_next, mem, call, failed>>

\* Put back rather than lost; its sector is not used again, and make_room()
\* gives up.
WriteOutFails ==
    /\ kpc = "spill" /\ errors < MaxErrors
    /\ errors' = errors + 1
    /\ sessions' = [sessions EXCEPT ![job.s][job.i] = Resident(@.frame)]
    /\ job' = NoJob /\ failed' = TRUE
    /\ Goto("made")
    /\ UNCHANGED <<disk, audit, cuts, resident_blocks, spill_next, mem, free, call>>

\* make_room() has returned.
RoomMade ==
    \/ kpc = "made"
    \/ kpc = "room" /\ (EnoughRoom \/ ResidentBlocks = {} \/ RegionFull)

-----------------------------------------------------------------------------
Done ==
    /\ call' = NoCall /\ Goto("up")
    /\ UNCHANGED <<disk, audit, cuts, spill_next, job, failed>>

\* frames::alloc(), which of the free frames being immaterial, and what is
\* put into it.
Take(contents) ==
    LET f == Min(free) IN
    /\ free' = free \ {f}
    /\ mem' = [mem EXCEPT ![f] = contents]
    /\ resident_blocks' = resident_blocks + 1

AppendBlock ==
    /\ RoomMade /\ call.op = "append"
    /\ resident_blocks < Budget /\ free # {}
    /\ Take(<<call.s, call.i>>)
    /\ sessions' = [sessions EXCEPT ![call.s] = Append(@, Resident(Min(free)))]
    /\ Done /\ UNCHANGED errors

\* "cache is full and nothing could be evicted", "out of memory".
AppendRefused ==
    /\ RoomMade /\ call.op = "append"
    /\ resident_blocks >= Budget \/ free = {}
    /\ Done /\ UNCHANGED <<errors, sessions, resident_blocks, mem, free>>

\* A spilled block comes back, within the budget or not.
Restore ==
    /\ RoomMade /\ call.op = "read" /\ free # {}
    /\ Take(disk[sessions[call.s][call.i].sector])
    /\ sessions' = [sessions EXCEPT ![call.s][call.i] = Resident(Min(free))]
    /\ Done /\ UNCHANGED errors

\* "out of memory restoring a block", or a sector that cannot be read: the
\* frame is given back.
RestoreFails ==
    /\ RoomMade /\ call.op = "read"
    /\ \/ free = {} /\ UNCHANGED errors
       \/ free # {} /\ errors < MaxErrors /\ errors' = errors + 1
    /\ Done /\ UNCHANGED <<sessions, resident_blocks, mem, free>>

-----------------------------------------------------------------------------
(***************************************************************************)
(* The machine starts, the log's end is found, the cache is empty again;   *)
(* and the power fails, in the middle of a call too.                       *)
(***************************************************************************)
Boot ==
    /\ kpc = "off"
    /\ Scan
    /\ kpc' = "up"
    /\ UNCHANGED <<disk, buf, rec, acked, damaged, appends, cuts, cache>>

PowerCut ==
    /\ kpc # "off" /\ cuts < MaxCuts
    /\ cuts' = cuts + 1
    /\ \/ CutAudit
       \/ /\ kpc = "spill" /\ UNCHANGED damaged
          /\ disk' = [disk EXCEPT ![Victim.sector] = mem[Victim.frame]]
    /\ log' = [next_seq |-> 0, last_hash |-> 0] /\ buf' = Blank /\ rec' = NoRecord
    /\ sessions' = <<>> /\ resident_blocks' = 0 /\ spill_next' = SpillStart
    /\ mem' = [f \in Frames |-> <<>>] /\ free' = Frames
    /\ call' = NoCall /\ job' = NoJob /\ failed' = FALSE
    /\ Goto("off")
    /\ UNCHANGED <<acked, appends, errors>>

StorageInit == AuditInit /\ CacheInit

CacheNext ==
    \/ Open
    \/ \E s \in DOMAIN sessions : BeginAppend(s)
    \/ \E b \in Blocks : BeginRead(b)
    \/ ChooseVictim \/ WriteOut \/ WriteOutFails
    \/ AppendBlock \/ AppendRefused \/ Restore \/ RestoreFails

LogNext ==
    /\ AppendReads \/ AppendWrites \/ AppendFails
       \/ TamperBegins \/ TamperWrites \/ TamperFails
    /\ UNCHANGED cache

StorageNext == Boot \/ PowerCut \/ LogNext \/ CacheNext

StorageSpec == StorageInit /\ [][StorageNext]_svars

-----------------------------------------------------------------------------
\* No block is lost or mixed up with another, whatever was spilled, put back
\* or restored and whatever failed on the way: one in memory is in a frame of
\* its own and one on flash in a sector of its own, with the contents it was
\* given, and the count the budget is held against is the number of frames.
BlocksAreIntact ==
    /\ \A b \in Blocks :
          IF Block(b).at = "spilled" THEN disk[Block(b).sector] = b
          ELSE mem[Block(b).frame] = b /\ Block(b).frame \notin free
    /\ resident_blocks = Cardinality({b \in Blocks : Block(b).at # "spilled"})
    /\ resident_blocks + Cardinality(free) = Cardinality(Frames)

\* The cache exceeds its budget only where nothing can be written out: the
\* spill region, which is never reclaimed, is used up, or a write has failed.
BudgetHolds == resident_blocks > Budget => RegionFull \/ failed
=============================================================================
