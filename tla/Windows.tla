------------------------------ MODULE Windows ------------------------------
(***************************************************************************)
(* The window manager (user/src/wm.rs), as operators on its state.  The    *)
(* screen is a column of points: a rectangle is an interval of it, which   *)
(* keeps the bounding box of the damage, the overlap of windows and the    *)
(* title bar above the rows.  A command is a row's fill.  Its counters are *)
(* left out, and MAX_CMDS: every redraw begins with a reset and is shorter. *)
(***************************************************************************)
EXTENDS Integers, Sequences, FiniteSets

CONSTANTS
    ScreenHeight,  \* HEIGHT
    TitleBar,      \* TITLE_BAR, in points; a row is one point high
    MaxWindows     \* MAX_WINDOWS

ASSUME WindowsAssumption ==
    ScreenHeight \in Nat \ {0} /\ TitleBar \in Nat /\ MaxWindows \in Nat

Point == 0 .. ScreenHeight - 1
Lower(a, b) == IF a <= b THEN a ELSE b
Upper(a, b) == IF a >= b THEN a ELSE b

Rect(y, h) == [y |-> y, h |-> h]
Empty == Rect(0, 0)
Whole == Rect(0, ScreenHeight)
Contains(r, p) == r.h # 0 /\ p >= r.y /\ p < r.y + r.h

\* Mutant of Union: only the last change is remembered.
UnionLast(r, o) == o

Union(r, o) ==
    IF r.h = 0 THEN o ELSE IF o.h = 0 THEN r
    ELSE LET top == Lower(r.y, o.y) IN
         Rect(top, Upper(r.y + r.h, o.y + o.h) - top)

Clamp(r) ==
    LET y == Lower(r.y, ScreenHeight) IN
    Rect(y, Upper(Lower(r.y + r.h, ScreenHeight) - y, 0))

NewWm == [windows |-> <<>>, next_z |-> 1, damage |-> Empty]

Dirty(wm, r) == [wm EXCEPT !.damage = Union(@, Clamp(r))]
DirtyAll(wm) == [wm EXCEPT !.damage = Whole]

Find(wm, owner, id) ==
    {i \in DOMAIN wm.windows : wm.windows[i].owner = owner /\ wm.windows[i].id = id}

Create(wm, owner, id, rect) ==
    IF Find(wm, owner, id) # {} \/ Len(wm.windows) = MaxWindows THEN wm
    ELSE Dirty([windows |-> Append(wm.windows, [owner |-> owner, id |-> id, rect |-> Clamp(rect),
                                                z |-> wm.next_z, cmds |-> <<>>]),
                next_z |-> wm.next_z + 1, damage |-> wm.damage],
               Clamp(rect))

\* The sender's window changed by F, and the screen under it before and after;
\* nothing when the sender has no window of that id.
With(wm, owner, id, F(_)) ==
    IF Find(wm, owner, id) = {} THEN wm
    ELSE LET i == CHOOSE j \in Find(wm, owner, id) : TRUE
             w == F(wm.windows[i]) IN
         Dirty(Dirty([wm EXCEPT !.windows[i] = w], wm.windows[i].rect), w.rect)

Raise(wm, owner, id) ==
    With([wm EXCEPT !.next_z = @ + 1], owner, id, LAMBDA w : [w EXCEPT !.z = wm.next_z])

Reset(wm, owner, id) == With(wm, owner, id, LAMBDA w : [w EXCEPT !.cmds = <<>>])
Push(wm, owner, id, cmds) == With(wm, owner, id, LAMBDA w : [w EXCEPT !.cmds = @ \o cmds])
Move(wm, owner, id, y) ==
    With(wm, owner, id, LAMBDA w : [w EXCEPT !.rect = Clamp(Rect(y, @.h))])

Over(wm, p) == {i \in DOMAIN wm.windows : Contains(wm.windows[i].rect, p)}

\* Mutant of Top: the window opened first.
TopOldest(wm, p) == {i \in Over(wm, p) : \A j \in Over(wm, p) : i <= j}

\* The window a point belongs to, if any: the highest of those over it is the
\* one that is hit, and the one painted last.
Top(wm, p) ==
    {i \in Over(wm, p) : \A j \in Over(wm, p) : wm.windows[j].z <= wm.windows[i].z}

PaintedLast(wm, p) ==
    CHOOSE i \in Over(wm, p) : \A j \in Over(wm, p) : wm.windows[j].z <= wm.windows[i].z

\* What the background and the windows over it amount to at a point: whose it
\* is, and the background's version or the row's colour.
Plain == 0
RowAt(w, p) == p - w.rect.y - TitleBar + 1
Paint(w, p) == <<w.owner, IF RowAt(w, p) \in DOMAIN w.cmds THEN w.cmds[RowAt(w, p)] ELSE Plain>>
Pixel(wm, root, p) ==
    IF Over(wm, p) = {} THEN <<"root", root>> ELSE Paint(wm.windows[PaintedLast(wm, p)], p)
=============================================================================
