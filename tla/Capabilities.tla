---------------------------- MODULE Capabilities ----------------------------
(***************************************************************************)
(* Capabilities to channels: the ledger of everything ever minted, the     *)
(* table of each process, derivation and revocation (kernel/src/cap.rs,    *)
(* kernel/src/proc.rs).                                                    *)
(*                                                                         *)
(* A capability is its id: what it points at and its rights are fixed when *)
(* it is minted, and every copy of it shares them.  Only `revoked` belongs *)
(* to the copy in a process's table.  One slot per process is modelled; a  *)
(* syscall resolves one slot.                                              *)
(*                                                                         *)
(* kernel_main is the only caller of root, derive, install_cap and revoke, *)
(* one after the other: it never installs what it has already cut.         *)
(***************************************************************************)
EXTENDS Integers, Sequences, FiniteSets

CONSTANTS
    Procs,         \* processes
    Channels,      \* channels of ipc.rs
    MaxCaps        \* bound: capabilities minted

ASSUME CapabilitiesAssumption == MaxCaps \in Nat

Rights == {"send", "recv"}
NoCap == 0

VARIABLES
    ledger,        \* LEDGER, with each capability's object beside it
    slot,          \* the id in process p's slot, or NoCap
    revoked,       \* the processes whose slot is tombstoned
    cut,           \* the ids revoke() was called with
    pending        \* channels revoke() has still to wake

capvars == <<ledger, slot, revoked, cut, pending>>

Ids == 1 .. MaxCaps
Minted == 1 .. Len(ledger)
Cap == [parent : 0 .. MaxCaps, chan : Channels, rights : SUBSET Rights]

CapTypeOK ==
    /\ ledger \in Seq(Cap) /\ Len(ledger) <= MaxCaps
    /\ slot \in [Procs -> 0 .. MaxCaps]
    /\ revoked \in SUBSET Procs
    /\ cut \in SUBSET Ids
    /\ pending \in SUBSET Channels

CapInit ==
    /\ ledger = << >>
    /\ slot = [p \in Procs |-> NoCap]
    /\ revoked = {}
    /\ cut = {}
    /\ pending = {}

\* The walk of is_descendant(): an id, its parent, and so on to the root.
Lineage ==
    LET line[i \in Minted] ==
          {i} \cup IF ledger[i].parent = 0 THEN {} ELSE line[ledger[i].parent]
    IN  line

IsDescendant(id, ancestor) == ancestor \in Lineage[id]
IsCut(id) == Lineage[id] \cap cut # {}

-----------------------------------------------------------------------------
\* Cap::root()
Root(ch, rights) ==
    /\ Len(ledger) < MaxCaps
    /\ ledger' = Append(ledger, [parent |-> 0, chan |-> ch, rights |-> rights])
    /\ UNCHANGED <<slot, revoked, cut, pending>>

\* Mutant of Derive: the rights asked for, whatever the parent has.
DeriveWidening(id, rights) ==
    /\ Len(ledger) < MaxCaps
    /\ ledger' = Append(ledger, [parent |-> id, chan |-> ledger[id].chan,
                                 rights |-> rights])
    /\ UNCHANGED <<slot, revoked, cut, pending>>

\* Cap::derive_for()
Derive(id, rights) ==
    /\ Len(ledger) < MaxCaps
    /\ ledger' = Append(ledger, [parent |-> id, chan |-> ledger[id].chan,
                                 rights |-> ledger[id].rights \cap rights])
    /\ UNCHANGED <<slot, revoked, cut, pending>>

\* start_process(): the capability is installed before the process runs.
StartProcess(p, id) ==
    /\ slot[p] = NoCap /\ ~IsCut(id)
    /\ slot' = [slot EXCEPT ![p] = id]
    /\ UNCHANGED <<ledger, revoked, cut, pending>>

\* Mutant of Killed: the capability and what was derived from it directly.
KilledNearby(id) == {p \in Procs : slot[p] # NoCap /\ p \notin revoked
                                   /\ id \in {slot[p], ledger[slot[p]].parent}}

\* The copies revoke(id) tombstones: in every table, whatever descends from id.
Killed(id) == {p \in Procs : slot[p] # NoCap /\ p \notin revoked
                             /\ IsDescendant(slot[p], id)}

\* The locked half of revoke(), which also notes the channels to wake.  It goes
\* from table to table while lookup_cap() reads without the lock; a lookup
\* reads one slot of its own process, so one that still finds it alive is one
\* that came before, and one step stands for the walk.
Revoke(id) ==
    /\ pending = {}
    /\ revoked' = revoked \cup Killed(id)
    /\ pending' = {ledger[slot[p]].chan : p \in Killed(id)}
    /\ cut' = cut \cup {id}
    /\ UNCHANGED <<ledger, slot>>

\* lookup_cap(), the revoked check and allows(), in one read of the slot.
Allows(p, right) ==
    /\ slot[p] # NoCap
    /\ p \notin revoked
    /\ right \in ledger[slot[p]].rights
=============================================================================
