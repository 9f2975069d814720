------------------------------- MODULE Intent -------------------------------
(***************************************************************************)
(* Intents and their undo (kernel/src/intent.rs), composed with JLFS: each *)
(* change an agent makes is recorded first, with the directory entry the   *)
(* file had, and undo() puts the entries back, newest step first.  The     *)
(* intent registry lives in memory: a power cut forgets it.  One intent    *)
(* per boot is modelled.                                                   *)
(***************************************************************************)
EXTENDS Jlfs, Sequences

CONSTANTS MaxSteps     \* bound: steps recorded in the intent

ASSUME IntentAssumption == MaxSteps \in Nat

VARIABLES
    state,         \* Intent.state, "None" before begin()
    steps,         \* Intent.steps; `was` is a ghost: what the file held then
    todo           \* steps undo() has still to put back; -1: not in undo()

vars == <<fsvars, state, steps, todo>>

Step == [name : Names, before : Entry \cup {NoEntry}, undoable : BOOLEAN,
         was : Data \cup {Absent}]

TypeOK ==
    /\ FsTypeOK
    /\ state \in {"None", "Open", "Committed", "Undone"}
    /\ steps \in Seq(Step) /\ Len(steps) <= MaxSteps
    /\ todo \in -1 .. MaxSteps

Init == FsInit /\ state = "None" /\ steps = << >> /\ todo = -1

NotInUndo == todo = -1

-----------------------------------------------------------------------------
Begin ==
    /\ pc = "idle" /\ demo = "over" /\ state = "None"
    /\ state' = "Open"
    /\ UNCHANGED <<fsvars, steps, todo>>

\* record(): before the change, with fs.entry() of the file.
Record(n, undoable) ==
    /\ pc = "idle" /\ NotInUndo /\ state = "Open" /\ Len(steps) < MaxSteps
    /\ steps' = Append(steps, [name |-> n, before |-> cp.files[n], undoable |-> undoable,
                               was |-> ContentsOf(cp.files[n])])
    /\ UNCHANGED <<fsvars, state, todo>>

Commit ==
    /\ pc = "idle" /\ NotInUndo /\ state = "Open"
    /\ state' = "Committed"
    /\ UNCHANGED <<fsvars, steps, todo>>

\* undo(), unless "already undone".
BeginUndo ==
    /\ pc = "idle" /\ NotInUndo /\ state \in {"Open", "Committed"}
    /\ todo' = Len(steps)
    /\ UNCHANGED <<fsvars, state, steps>>

\* Mutant of NextStep: oldest first.
NextStepOldest == steps[Len(steps) + 1 - todo]

\* The step undo() is at: newest first.
NextStep == steps[todo]

\* A step that cannot be undone is counted, and one that changes nothing
\* (no entry then, none now) needs no write.
SkipStep ==
    /\ pc = "idle" /\ todo > 0
    /\ ~NextStep.undoable \/ (NextStep.before = NoEntry /\ cp.files[NextStep.name] = NoEntry)
    /\ todo' = todo - 1
    /\ UNCHANGED <<fsvars, state, steps>>

UndoStep ==
    /\ todo > 0 /\ NextStep.undoable
    /\ BeginSetEntry(NextStep.name, NextStep.before)
    /\ todo' = todo - 1
    /\ UNCHANGED <<state, steps>>

FinishUndo ==
    /\ pc = "idle" /\ todo = 0
    /\ state' = "Undone" /\ todo' = -1
    /\ UNCHANGED <<fsvars, steps>>

\* The filesystem's own steps.  set_entry()'s error is undo()'s.
FsStep ==
    \/ NotInUndo /\ (Mounting \/ Testing \/ Writing) /\ UNCHANGED <<state, steps, todo>>
    \/ Updating /\ todo' = (IF pc' = "closed" THEN -1 ELSE todo) /\ UNCHANGED <<state, steps>>

PowerCut == Crash /\ state' = "None" /\ steps' = << >> /\ todo' = -1

Next ==
    \/ FsStep \/ PowerCut \/ Begin \/ Commit
    \/ \E n \in Names, undoable \in BOOLEAN : Record(n, undoable)
    \/ BeginUndo \/ SkipStep \/ UndoStep \/ FinishUndo

Spec == Init /\ [][Next]_vars

-----------------------------------------------------------------------------
(***************************************************************************)
(* Properties.                                                             *)
(***************************************************************************)

\* fs.rs: "There is no order in which a reader sees half of one".  Through
\* power cuts at every point, torn sectors, and errors for writes that
\* reached the disk and for writes that did not, an update takes effect in
\* one step or not at all, an update answered with success has taken effect,
\* and nothing else changes what a reader finds, except the one thing that
\* stage3c_demo() does: a machine without a display whose phase marker is
\* not on the disk, or was torn, formats what it has.
UpdatesAreAtomic == Abstract!Spec

\* fs.rs, set_entry(): "the bytes a file used to contain are still on the
\* disk after it is rewritten".  Every entry an intent remembers still reads
\* what the file held when the step was recorded, through later writes,
\* failed ones included.
StepsIntact ==
    \A i \in 1 .. Len(steps) : ContentsOf(steps[i].before) = steps[i].was

\* The first step recorded for a file, of those undo() puts back.
First(n, i) ==
    /\ steps[i].name = n /\ steps[i].undoable
    /\ \A j \in 1 .. i - 1 : ~(steps[j].name = n /\ steps[j].undoable)

PutsBack ==
    state # "Undone" /\ state' = "Undone" =>
        \A n \in Names, i \in 1 .. Len(steps) :
            First(n, i) => Recovered[n] = steps[i].was

\* intent.rs, undo(): "Put everything an intent changed back".  When undo()
\* succeeds every file has the contents it had at the first step recorded
\* for it, durably, however many steps touched it.
UndoRestores == [][PutsBack]_vars

=============================================================================
