---------------------------- MODULE AtomicFiles ----------------------------
(***************************************************************************)
(* What JLFS promises: a flat directory of files in which an update - one  *)
(* name given new contents, or removed - takes effect in one step or not   *)
(* at all, whatever happens to the machine, and in which "ok" is only ever *)
(* answered after the update has taken effect.  Only while the directory   *)
(* is not settled may its owner start over, and lose what it held.         *)
(***************************************************************************)
CONSTANTS Names, Texts, Absent, NoUpdate

VARIABLES
    files,         \* what a reader who comes after a power cut would find
    update,        \* the update being made, or NoUpdate
    phase,         \* "asked", "done", and its answers "ok" and "failed"
    settled        \* the directory is there to stay

Update == [name : Names, data : Texts]

Init ==
    /\ files = [n \in Names |-> Absent]
    /\ update = NoUpdate
    /\ phase = "failed"
    /\ settled \in BOOLEAN

Ask(u) ==
    /\ update = NoUpdate /\ update' = u
    /\ phase' = "asked"
    /\ UNCHANGED <<files, settled>>

TakeEffect ==
    /\ phase = "asked" /\ phase' = "done"
    /\ files' = [files EXCEPT ![update.name] = update.data]
    /\ UNCHANGED <<update, settled>>

AnswerOk ==
    /\ phase = "done" /\ phase' = "ok"
    /\ update' = NoUpdate
    /\ UNCHANGED <<files, settled>>

\* An error, or a power cut: before the update took effect or after.
Fail ==
    /\ phase' = "failed"
    /\ update' = NoUpdate
    /\ UNCHANGED <<files, settled>>

Settle ==
    /\ settled' = TRUE
    /\ UNCHANGED <<files, update, phase>>

\* A power cut took the note that the directory is settled.
Unsettle ==
    /\ settled' = FALSE
    /\ phase' = "failed" /\ update' = NoUpdate
    /\ UNCHANGED files

StartOver ==
    /\ ~settled
    /\ files' \in [Names -> Texts]
    /\ phase' = "failed" /\ update' = NoUpdate
    /\ UNCHANGED settled

Next ==
    \/ \E u \in Update : Ask(u)
    \/ TakeEffect \/ AnswerOk \/ Fail
    \/ Settle \/ Unsettle \/ StartOver

Spec == Init /\ [][Next]_<<files, update, phase, settled>>
=============================================================================
