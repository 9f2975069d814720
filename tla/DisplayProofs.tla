--------------------------- MODULE DisplayProofs ---------------------------
(***************************************************************************)
(* Proofs about modules Windows and Display, for every screen, number of   *)
(* windows, input and fault: every operation of the window manager damages *)
(* what it changes, and so the screen is current wherever it is not        *)
(* damaged; and the session keeps its windows, the messages on their way,  *)
(* the introductions and the answers together, so that the shell opens     *)
(* first, rows that are seen are current and taps go where they were seen. *)
(***************************************************************************)
EXTENDS Display, SequenceTheorems, WellFoundedInduction, TLAPS

RectType == [y : Nat, h : Nat]
WindowType == [owner : Apps, id : Nat, rect : RectType, z : Nat, cmds : Seq(Nat)]

\* A window manager's state: every window is below next_z.
IsWm(w) ==
    /\ w \in [windows : Seq(WindowType), next_z : Nat, damage : RectType]
    /\ \A i \in DOMAIN w.windows : w.windows[i].z < w.next_z

\* From v to w nothing has changed outside the damage, which has only grown.
Covered(v, w) ==
    \A p \in Point : \/ Contains(w.damage, p)
                     \/ ~Contains(v.damage, p) /\ \A r : Pixel(v, r, p) = Pixel(w, r, p)

-----------------------------------------------------------------------------
(***************************************************************************)
(* Rectangles.                                                             *)
(***************************************************************************)

\* Clamping loses no point of the screen.
LEMMA ClampKeeps ==
  ASSUME NEW r \in RectType
  PROVE  /\ Clamp(r) \in RectType
         /\ \A p \in Point : Contains(Clamp(r), p) <=> Contains(r, p)
  BY WindowsAssumption DEF RectType, Clamp, Rect, Lower, Upper, Contains, Point

\* The bounding box contains both.
LEMMA UnionCovers ==
  ASSUME NEW r \in RectType, NEW o \in RectType
  PROVE  /\ Union(r, o) \in RectType
         /\ \A p \in Point : Contains(r, p) \/ Contains(o, p) => Contains(Union(r, o), p)
  BY WindowsAssumption DEF RectType, Union, Rect, Lower, Upper, Contains, Point

\* dirty() adds the rectangle and touches nothing else.
LEMMA DirtyAdds ==
  ASSUME NEW w, IsWm(w), NEW r \in RectType
  PROVE  /\ IsWm(Dirty(w, r))
         /\ Dirty(w, r).windows = w.windows /\ Dirty(w, r).next_z = w.next_z
         /\ \A p \in Point : Contains(w.damage, p) \/ Contains(r, p) => Contains(Dirty(w, r).damage, p)
<1>1. w.damage \in RectType
  BY DEF IsWm
<1> DEFINE u == Union(w.damage, Clamp(r))
<1>2. /\ u \in RectType
      /\ \A p \in Point : Contains(w.damage, p) \/ Contains(r, p) => Contains(u, p)
  BY <1>1, ClampKeeps, UnionCovers
<1>3. Dirty(w, r) = [w EXCEPT !.damage = u]
  BY DEF Dirty
<1> HIDE DEF u
<1> QED
  BY <1>2, <1>3 DEF IsWm

-----------------------------------------------------------------------------
(***************************************************************************)
(* What a point shows.                                                     *)
(***************************************************************************)

\* Of some windows one is the highest.
LEMMA SomeIsHighest ==
  ASSUME NEW w, IsWm(w), NEW S \in SUBSET DOMAIN w.windows, S # {}
  PROVE  \E i \in S : \A j \in S : w.windows[j].z <= w.windows[i].z
<1> DEFINE Depth(i) == w.next_z - w.windows[i].z
           D == {Depth(i) : i \in S}
           R == OpToRel(<, Nat)
<1>1. \A i \in S : w.windows[i].z \in Nat /\ w.next_z \in Nat /\ w.windows[i].z < w.next_z
  <2>1. w.windows \in Seq(WindowType) /\ w.next_z \in Nat
    BY DEF IsWm
  <2>2. \A i \in DOMAIN w.windows : w.windows[i] \in WindowType
    BY <2>1
  <2>3. \A i \in DOMAIN w.windows : w.windows[i].z \in Nat
    BY <2>2 DEF WindowType
  <2> QED
    BY <2>1, <2>3 DEF IsWm
<1>2. D \subseteq Nat /\ D # {}
  BY <1>1
<1>3. IsWellFoundedOn(R, Nat)
  BY NatLessThanWellFounded
<1>4. \A j, k \in D : j < k => <<j, k>> \in R
  BY <1>2 DEF OpToRel
<1> HIDE DEF R, D
<1>5. PICK k \in D : \A j \in D : ~(<<j, k>> \in R)
  BY <1>2, <1>3, WFMin
<1>6. \A j \in D : k <= j
  <2>1. \A j \in D : ~(j < k)
    BY <1>4, <1>5
  <2> QED
    BY <1>2, <2>1
<1>7. PICK i \in S : k = Depth(i)
  BY DEF D
<1>8. \A j \in S : Depth(i) <= Depth(j)
  BY <1>6, <1>7 DEF D
<1> QED
  BY <1>1, <1>8

\* A point over which the same windows are shows the same.
LEMMA SamePixel ==
  ASSUME NEW v, NEW w, IsWm(v), NEW p, Over(v, p) = Over(w, p),
         \A i \in Over(v, p) : v.windows[i] = w.windows[i]
  PROVE  \A r : Pixel(v, r, p) = Pixel(w, r, p)
<1>1. CASE Over(v, p) = {}
  BY <1>1 DEF Pixel
<1>2. CASE Over(v, p) # {}
  <2>1. \A i \in Over(v, p) :
           (\A j \in Over(v, p) : v.windows[j].z <= v.windows[i].z)
           <=> (\A j \in Over(w, p) : w.windows[j].z <= w.windows[i].z)
    OBVIOUS
  <2>2. PaintedLast(v, p) = PaintedLast(w, p)
    BY <2>1 DEF PaintedLast
  <2>3. Over(v, p) \in SUBSET DOMAIN v.windows
    BY DEF Over
  <2>4. \E i \in Over(v, p) : \A j \in Over(v, p) : v.windows[j].z <= v.windows[i].z
    BY <1>2, <2>3, SomeIsHighest
  <2>5. PaintedLast(v, p) \in Over(v, p)
    BY <2>4 DEF PaintedLast
  <2> QED
    BY <1>2, <2>2, <2>5 DEF Pixel
<1> QED
  BY <1>1, <1>2

-----------------------------------------------------------------------------
(***************************************************************************)
(* The operations of the window manager.                                   *)
(***************************************************************************)
LEMMA CoveredTwice ==
  ASSUME NEW u, NEW v, NEW w, Covered(u, v), Covered(v, w)
  PROVE  Covered(u, w)
  BY Zenon DEF Covered

\* A window replaced by another, with the damage of both.
Changed(w, i, x) == Dirty(Dirty([w EXCEPT !.windows[i] = x], w.windows[i].rect), x.rect)

LEMMA ChangeCovers ==
  ASSUME NEW w, IsWm(w), NEW i \in DOMAIN w.windows, NEW x \in WindowType, x.z < w.next_z,
         NEW v, v = Changed(w, i, x)
  PROVE  /\ IsWm(v) /\ Covered(w, v)
         /\ v.windows = [w.windows EXCEPT ![i] = x]
         /\ \A p \in Point : Contains(x.rect, p) => Contains(v.damage, p)
<1> DEFINE a == [w EXCEPT !.windows[i] = x]
           b == Dirty(a, w.windows[i].rect)
<1>0. v = Dirty(b, x.rect)
  BY DEF Changed
<1>1. /\ w.windows \in Seq(WindowType) /\ w.next_z \in Nat /\ w.damage \in RectType
      /\ \A j \in DOMAIN w.windows : w.windows[j] \in WindowType /\ w.windows[j].z < w.next_z
  BY DEF IsWm
<1>2. /\ a.windows = [w.windows EXCEPT ![i] = x]
      /\ a.next_z = w.next_z /\ a.damage = w.damage
      /\ a = [windows |-> a.windows, next_z |-> a.next_z, damage |-> a.damage]
  <2>1. w \in [windows : Seq(WindowType), next_z : Nat, damage : RectType]
    BY DEF IsWm
  <2> QED
    BY <2>1
<1>3. a.windows \in Seq(WindowType)
  BY <1>1, <1>2, ExceptSeq
<1>4. /\ DOMAIN a.windows = DOMAIN w.windows /\ a.windows[i] = x
      /\ \A j \in DOMAIN w.windows : j # i => a.windows[j] = w.windows[j]
  BY <1>1, <1>2
<1>5. IsWm(a)
  BY <1>1, <1>2, <1>3, <1>4 DEF IsWm
<1>6. w.windows[i].rect \in RectType /\ x.rect \in RectType
  BY <1>1 DEF WindowType
<1> HIDE DEF a
<1>7. /\ IsWm(b) /\ b.windows = a.windows
      /\ \A p \in Point : Contains(w.damage, p) \/ Contains(w.windows[i].rect, p) => Contains(b.damage, p)
  BY <1>2, <1>5, <1>6, DirtyAdds
<1> HIDE DEF b
<1>8. /\ IsWm(v) /\ v.windows = a.windows
      /\ \A p \in Point : Contains(b.damage, p) \/ Contains(x.rect, p) => Contains(v.damage, p)
  BY <1>0, <1>6, <1>7, DirtyAdds
<1>9. ASSUME NEW p \in Point, ~Contains(v.damage, p)
      PROVE  ~Contains(w.damage, p) /\ \A r : Pixel(w, r, p) = Pixel(v, r, p)
  <2>1. ~Contains(w.windows[i].rect, p) /\ ~Contains(x.rect, p) /\ ~Contains(w.damage, p)
    BY <1>7, <1>8, <1>9
  <2>2. Over(w, p) = Over(v, p) /\ i \notin Over(w, p)
    BY <1>4, <1>8, <2>1 DEF Over
  <2>3. \A j \in Over(w, p) : w.windows[j] = v.windows[j]
    BY <1>4, <1>8, <2>2 DEF Over
  <2> QED
    BY <2>1, <2>2, <2>3, SamePixel
<1>10. v.windows = [w.windows EXCEPT ![i] = x]
  BY <1>2, <1>8
<1> QED
  BY <1>8, <1>9, <1>10 DEF Covered

\* create(): a new window, where it is.
LEMMA CreateCovers ==
  ASSUME NEW w, IsWm(w), NEW owner \in Apps, NEW id \in Nat, NEW rect \in RectType
  PROVE  IsWm(Create(w, owner, id, rect)) /\ Covered(w, Create(w, owner, id, rect))
<1>1. CASE Create(w, owner, id, rect) = w
  BY <1>1 DEF Covered
<1>2. CASE Create(w, owner, id, rect) # w
  <2> DEFINE x == [owner |-> owner, id |-> id, rect |-> Clamp(rect), z |-> w.next_z, cmds |-> <<>>]
             a == [windows |-> Append(w.windows, x), next_z |-> w.next_z + 1, damage |-> w.damage]
             n == Len(w.windows) + 1
             v == Create(w, owner, id, rect)
  <2>1. v = Dirty(a, Clamp(rect))
    BY <1>2 DEF Create
  <2>2. Clamp(rect) \in RectType
    BY ClampKeeps
  <2>3. /\ w.windows \in Seq(WindowType) /\ w.next_z \in Nat /\ w.damage \in RectType
        /\ \A j \in DOMAIN w.windows : w.windows[j] \in WindowType /\ w.windows[j].z < w.next_z
    BY DEF IsWm
  <2>4. x \in WindowType /\ x.rect = Clamp(rect) /\ x.z = w.next_z
    BY <2>2, <2>3 DEF WindowType
  <2>5. /\ a.windows = Append(w.windows, x)
        /\ a.next_z = w.next_z + 1 /\ a.damage = w.damage
        /\ a = [windows |-> a.windows, next_z |-> a.next_z, damage |-> a.damage]
    OBVIOUS
  <2> HIDE DEF x, a, v
  <2>6. /\ a.windows \in Seq(WindowType)
        /\ DOMAIN a.windows = DOMAIN w.windows \cup {n} /\ n \notin DOMAIN w.windows
        /\ a.windows[n] = x /\ \A j \in DOMAIN w.windows : a.windows[j] = w.windows[j]
    BY <2>3, <2>4, <2>5
  <2>7. \A j \in DOMAIN a.windows : a.windows[j].z < a.next_z
    <3>1. \A j \in DOMAIN w.windows : w.windows[j].z \in Nat
      BY <2>3 DEF WindowType
    <3> QED
      BY <2>3, <2>4, <2>5, <2>6, <3>1
  <2>8. IsWm(a)
    <3>1. a.next_z \in Nat /\ a.damage \in RectType
      BY <2>3, <2>5
    <3>2. a \in [windows : Seq(WindowType), next_z : Nat, damage : RectType]
      BY <2>5, <2>6, <3>1
    <3> QED
      BY <2>7, <3>2 DEF IsWm
  <2>9. /\ IsWm(v) /\ v.windows = a.windows
        /\ \A p \in Point : Contains(w.damage, p) \/ Contains(x.rect, p) => Contains(v.damage, p)
    BY <2>1, <2>2, <2>4, <2>5, <2>8, DirtyAdds
  <2>10. ASSUME NEW p \in Point, ~Contains(v.damage, p)
         PROVE  ~Contains(w.damage, p) /\ \A r : Pixel(w, r, p) = Pixel(v, r, p)
    <3>1. ~Contains(x.rect, p) /\ ~Contains(w.damage, p)
      BY <2>9, <2>10
    <3>2. Over(w, p) = Over(v, p)
      BY <2>6, <2>9, <3>1 DEF Over
    <3>3. \A j \in Over(w, p) : w.windows[j] = v.windows[j]
      BY <2>6, <2>9 DEF Over
    <3> QED
      BY <3>1, <3>2, <3>3, SamePixel
  <2> QED
    BY <2>9, <2>10 DEF Covered, v
<1> QED
  BY <1>1, <1>2

\* What raise(), reset(), push() and a move make of a window is a window.
LEMMA WindowChanges ==
  ASSUME NEW x \in WindowType
  PROVE  /\ \A z \in Nat : [x EXCEPT !.z = z] \in WindowType /\ [x EXCEPT !.z = z].z = z
         /\ \A q \in Seq(Nat) : [x EXCEPT !.cmds = q] \in WindowType /\ [x EXCEPT !.cmds = q].z = x.z
         /\ \A r \in RectType : [x EXCEPT !.rect = r] \in WindowType /\ [x EXCEPT !.rect = r].z = x.z
  BY DEF WindowType

\* The sender's window, if it has one, is one of the windows.
LEMMA FoundIsWindow ==
  ASSUME NEW w, IsWm(w), NEW owner, NEW id, Find(w, owner, id) # {}
  PROVE  LET i == CHOOSE j \in Find(w, owner, id) : TRUE
         IN  i \in DOMAIN w.windows /\ w.windows[i] \in WindowType /\ w.windows[i].z < w.next_z
<1>1. (CHOOSE j \in Find(w, owner, id) : TRUE) \in DOMAIN w.windows
  BY DEF Find
<1> QED
  BY <1>1 DEF IsWm

\* A number that is taken leaves the windows as they are.
LEMMA RaisedIsWm ==
  ASSUME NEW w, IsWm(w)
  PROVE  IsWm([w EXCEPT !.next_z = @ + 1])
<1> DEFINE u == [w EXCEPT !.next_z = @ + 1]
<1>1. u.windows = w.windows /\ u.next_z = w.next_z + 1 /\ w.next_z \in Nat
  BY DEF IsWm
<1>2. u \in [windows : Seq(WindowType), next_z : Nat, damage : RectType]
  BY DEF IsWm
<1>3. \A j \in DOMAIN w.windows : w.windows[j].z \in Nat /\ w.windows[j].z < w.next_z
  <2>1. \A j \in DOMAIN w.windows : w.windows[j] \in WindowType /\ w.windows[j].z < w.next_z
    BY DEF IsWm
  <2> QED
    BY <2>1 DEF WindowType
<1> QED
  BY <1>1, <1>2, <1>3 DEF IsWm

LEMMA RaiseCovers ==
  ASSUME NEW w, IsWm(w), NEW owner, NEW id
  PROVE  IsWm(Raise(w, owner, id)) /\ Covered(w, Raise(w, owner, id))
<1> DEFINE u == [w EXCEPT !.next_z = @ + 1]
           i == CHOOSE j \in Find(u, owner, id) : TRUE
           x == [u.windows[i] EXCEPT !.z = w.next_z]
<1>1. /\ u.windows = w.windows /\ u.next_z = w.next_z + 1 /\ u.damage = w.damage
      /\ w.next_z \in Nat
  BY DEF IsWm
<1>2. IsWm(u)
  BY RaisedIsWm
<1>3. Covered(w, u)
  BY <1>1 DEF Covered, Pixel, Over, PaintedLast
<1> HIDE DEF u
<1>4. CASE Find(u, owner, id) = {}
  BY <1>2, <1>3, <1>4 DEF Raise, With, u
<1>5. CASE Find(u, owner, id) # {}
  <2>1. i \in DOMAIN u.windows /\ u.windows[i] \in WindowType
    BY <1>2, <1>5, FoundIsWindow
  <2>2. x \in WindowType /\ x.z < u.next_z
    BY <1>1, <2>1, WindowChanges
  <2>3. Raise(w, owner, id) = Changed(u, i, x)
    BY <1>5 DEF Raise, With, Changed, u
  <2> DEFINE v == Raise(w, owner, id)
  <2>6. v = Changed(u, i, x)
    BY <2>3
  <2> HIDE DEF i, x, v
  <2>4. IsWm(v) /\ Covered(u, v)
    BY <1>2, <2>1, <2>2, <2>6, ChangeCovers
  <2>5. Covered(w, v)
    BY <1>3, <2>4, CoveredTwice
  <2> QED
    BY <2>4, <2>5 DEF v
<1> QED
  BY <1>4, <1>5

LEMMA ResetCovers ==
  ASSUME NEW w, IsWm(w), NEW owner, NEW id
  PROVE  IsWm(Reset(w, owner, id)) /\ Covered(w, Reset(w, owner, id))
<1> DEFINE i == CHOOSE j \in Find(w, owner, id) : TRUE
           x == [w.windows[i] EXCEPT !.cmds = <<>>]
<1>1. CASE Find(w, owner, id) = {}
  BY <1>1 DEF Reset, With, Covered
<1>2. CASE Find(w, owner, id) # {}
  <2>1. i \in DOMAIN w.windows /\ w.windows[i] \in WindowType /\ w.windows[i].z < w.next_z
    BY <1>2, FoundIsWindow
  <2>2. x \in WindowType /\ x.z < w.next_z
    <3>1. <<>> \in Seq(Nat)
      OBVIOUS
    <3> QED
      BY <2>1, <3>1, WindowChanges
  <2>3. Reset(w, owner, id) = Changed(w, i, x)
    BY <1>2 DEF Reset, With, Changed
  <2> DEFINE v == Reset(w, owner, id)
  <2>4. v = Changed(w, i, x)
    BY <2>3
  <2> HIDE DEF i, x, v
  <2>5. IsWm(v) /\ Covered(w, v)
    BY <2>1, <2>2, <2>4, ChangeCovers
  <2> QED
    BY <2>5 DEF v
<1> QED
  BY <1>1, <1>2

LEMMA PushCovers ==
  ASSUME NEW w, IsWm(w), NEW owner, NEW id, NEW cmds \in Seq(Nat)
  PROVE  IsWm(Push(w, owner, id, cmds)) /\ Covered(w, Push(w, owner, id, cmds))
<1> DEFINE i == CHOOSE j \in Find(w, owner, id) : TRUE
           x == [w.windows[i] EXCEPT !.cmds = @ \o cmds]
<1>1. CASE Find(w, owner, id) = {}
  BY <1>1 DEF Push, With, Covered
<1>2. CASE Find(w, owner, id) # {}
  <2>1. i \in DOMAIN w.windows /\ w.windows[i] \in WindowType /\ w.windows[i].z < w.next_z
    BY <1>2, FoundIsWindow
  <2>2. x \in WindowType /\ x.z < w.next_z
    <3>1. w.windows[i].cmds \in Seq(Nat)
      BY <2>1 DEF WindowType
    <3>2. w.windows[i].cmds \o cmds \in Seq(Nat)
      BY <3>1
    <3> QED
      BY <2>1, <3>2, WindowChanges
  <2>3. Push(w, owner, id, cmds) = Changed(w, i, x)
    BY <1>2 DEF Push, With, Changed
  <2> DEFINE v == Push(w, owner, id, cmds)
  <2>4. v = Changed(w, i, x)
    BY <2>3
  <2> HIDE DEF i, x, v
  <2>5. IsWm(v) /\ Covered(w, v)
    BY <2>1, <2>2, <2>4, ChangeCovers
  <2> QED
    BY <2>5 DEF v
<1> QED
  BY <1>1, <1>2

LEMMA MoveCovers ==
  ASSUME NEW w, IsWm(w), NEW owner, NEW id, NEW y \in Nat
  PROVE  IsWm(Move(w, owner, id, y)) /\ Covered(w, Move(w, owner, id, y))
<1> DEFINE i == CHOOSE j \in Find(w, owner, id) : TRUE
           x == [w.windows[i] EXCEPT !.rect = Clamp(Rect(y, @.h))]
<1>1. CASE Find(w, owner, id) = {}
  BY <1>1 DEF Move, With, Covered
<1>2. CASE Find(w, owner, id) # {}
  <2>1. i \in DOMAIN w.windows /\ w.windows[i] \in WindowType /\ w.windows[i].z < w.next_z
    BY <1>2, FoundIsWindow
  <2>2. x \in WindowType /\ x.z < w.next_z
    <3>1. Rect(y, w.windows[i].rect.h) \in RectType
      BY <2>1 DEF WindowType, RectType, Rect
    <3>2. Clamp(Rect(y, w.windows[i].rect.h)) \in RectType
      BY <3>1, ClampKeeps
    <3> QED
      BY <2>1, <3>2, WindowChanges
  <2>3. Move(w, owner, id, y) = Changed(w, i, x)
    BY <1>2 DEF Move, With, Changed
  <2> DEFINE v == Move(w, owner, id, y)
  <2>4. v = Changed(w, i, x)
    BY <2>3
  <2> HIDE DEF i, x, v
  <2>5. IsWm(v) /\ Covered(w, v)
    BY <2>1, <2>2, <2>4, ChangeCovers
  <2> QED
    BY <2>5 DEF v
<1> QED
  BY <1>1, <1>2

-----------------------------------------------------------------------------
(***************************************************************************)
(* The server.                                                             *)
(***************************************************************************)

\* What the server takes from a message, when it is one of that kind.
MsgOK(m) ==
    /\ m.op \in {"create", "raise", "draw"} => m.from \in Apps /\ m.id = WinId(m.from)
    /\ m.op = "create" => m.rect = Place(m.from)
    /\ m.op = "draw" => m.rows \in Seq(Nat)
    /\ m.op = "move" => m.from = Notes /\ m.id = WinId(Shell) /\ m.y \in Nat
    /\ m.op = "input" => m.p \in Point

AllOK(s) == \E S : s \in Seq(S) /\ \A m \in S : MsgOK(m)

LEMMA AppendOK ==
  ASSUME NEW s, AllOK(s), NEW m, MsgOK(m)
  PROVE  AllOK(Append(s, m))
<1>1. PICK S : s \in Seq(S) /\ \A x \in S : MsgOK(x)
  BY DEF AllOK
<1> HIDE DEF MsgOK
<1> DEFINE T == S \cup {m}
<1>2. \A x \in T : MsgOK(x)
  BY <1>1
<1>3. s \in Seq(T) /\ m \in T
  BY <1>1
<1> HIDE DEF T
<1>4. Append(s, m) \in Seq(T)
  BY <1>3
<1> QED
  BY <1>2, <1>4 DEF AllOK

LEMMA TailOK ==
  ASSUME NEW s, AllOK(s), s # <<>>
  PROVE  MsgOK(Head(s)) /\ AllOK(Tail(s))
<1>1. PICK S : s \in Seq(S) /\ \A x \in S : MsgOK(x)
  BY DEF AllOK
<1>2. Head(s) \in S /\ Tail(s) \in Seq(S)
  BY <1>1
<1> QED
  BY <1>1, <1>2 DEF AllOK

\* The screen is current for these windows and this background.
Current(w, r) ==
    \A p \in Point : Contains(w.damage, p) \/ p \in lost \/ shown[p] = Pixel(w, r, p)

\* The pointer is on the screen, and only the notes ask for another's window.
SendersInv ==
    /\ on \in [Apps -> Seq({Off, On})]
    /\ apc = [a \in Apps |-> apc[a]] /\ apc[Shell] # "poach"
    /\ pointer.y \in Point

DisplayInv ==
    /\ IsWm(wm)
    /\ AllOK(req)
    /\ SendersInv
    /\ Current(wm, root)

LEMMA CoveredCurrent ==
  ASSUME NEW v, NEW w, NEW r, Current(v, r), Covered(v, w)
  PROVE  Current(w, r)
  BY DEF Current, Covered

\* compose() paints all the damage, or the device has not taken it.
LEMMA ComposeShows ==
  ASSUME NEW w, NEW r, IsWm(w), Current(w, r), Compose(w, r)
  PROVE  IsWm(wm') /\ Current(wm, root)'
<1> DEFINE damaged == {p \in Point : Contains(Clamp(w.damage), p)}
<1>1. wm' = [w EXCEPT !.damage = Empty] /\ root' = r
  BY DEF Compose
<1>2. w.damage \in RectType /\ Empty \in RectType
  BY DEF IsWm, Empty, Rect, RectType
<1>3. wm'.windows = w.windows /\ wm'.next_z = w.next_z
  BY <1>1 DEF IsWm
<1>4. IsWm(wm')
  BY <1>1, <1>2 DEF IsWm
<1>5. \A p \in Point : Pixel(wm', r, p) = Pixel(w, r, p)
  BY <1>3 DEF Pixel, Over, PaintedLast
<1>6. \A p \in Point : p \notin damaged => ~Contains(w.damage, p)
  BY <1>2, ClampKeeps
<1>7. \A p \in Point : p \in lost' \/ shown'[p] = Pixel(w, r, p)
  <2>1. CASE /\ shown' = [p \in Point |-> IF p \in damaged THEN Pixel(w, r, p) ELSE shown[p]]
             /\ lost' = lost \ damaged
    BY <1>6, <2>1 DEF Current
  <2>2. CASE lost' = lost \cup damaged /\ UNCHANGED shown
    BY <1>6, <2>2 DEF Current
  <2> QED
    BY <2>1, <2>2 DEF Compose
<1> QED
  BY <1>1, <1>4, <1>5, <1>7 DEF Current

\* A change that is not shown yet.
LEMMA UnshownCurrent ==
  ASSUME NEW w, IsWm(w), Current(w, root), Unshown(w)
  PROVE  IsWm(wm') /\ Current(wm, root)'
  BY DEF Unshown, Current

\* OP_CLEAR damages every point.
LEMMA AllDirty ==
  ASSUME NEW w, IsWm(w)
  PROVE  IsWm(DirtyAll(w)) /\ \A r : Current(DirtyAll(w), r)
<1>1. Whole \in RectType /\ \A p \in Point : Contains(Whole, p)
  BY WindowsAssumption DEF Whole, Rect, RectType, Point, Contains
<1>2. /\ DirtyAll(w).damage = Whole
      /\ DirtyAll(w).windows = w.windows /\ DirtyAll(w).next_z = w.next_z
  BY DEF DirtyAll, IsWm
<1>3. IsWm(DirtyAll(w))
  BY <1>1 DEF DirtyAll, IsWm
<1> QED
  BY <1>1, <1>2, <1>3 DEF Current

LEMMA ServerKeeps ==
  ASSUME DisplayInv, ServerNext
  PROVE  DisplayInv'
<1> USE DEF DisplayInv
<1>1. /\ req # <<>> /\ req' = Tail(req) /\ UNCHANGED <<on, apc, pointer>>
  BY DEF ServerNext, HandleInput, HandleCreate, HandleRaise, HandleDraw, HandleMove,
         HandleFrame, HandleCompose, HandleStats, HandleClient, HandleShutdown, Takes, apps, input
<1>2. MsgOK(Msg) /\ AllOK(req')
  BY <1>1, TailOK DEF Msg
<1>3. SUFFICES IsWm(wm') /\ Current(wm, root)'
  BY <1>1, <1>2 DEF SendersInv
<1>4. CASE HandleInput
  BY <1>4 DEF HandleInput, server, Current
<1>5. CASE HandleCreate
  <2>1. Msg.from \in Apps /\ Msg.id \in Nat /\ Msg.rect \in RectType
    BY <1>2, <1>5 DEF HandleCreate, Takes, MsgOK, WinId, Place, Rect, RectType
  <2> DEFINE w == Create(wm, Msg.from, Msg.id, Msg.rect)
  <2>2. IsWm(w) /\ Covered(wm, w)
    BY <2>1, CreateCovers
  <2>3. Unshown(w)
    BY <1>5 DEF HandleCreate
  <2> HIDE DEF w
  <2> QED
    BY <2>2, <2>3, CoveredCurrent, UnshownCurrent
<1>6. CASE HandleRaise
  <2> DEFINE w == Raise(wm, Msg.from, Msg.id)
  <2>1. IsWm(w) /\ Covered(wm, w)
    BY RaiseCovers
  <2>2. Unshown(w)
    BY <1>6 DEF HandleRaise
  <2> HIDE DEF w
  <2> QED
    BY <2>1, <2>2, CoveredCurrent, UnshownCurrent
<1>7. CASE HandleDraw
  <2>1. Msg.rows \in Seq(Nat)
    BY <1>2, <1>7 DEF HandleDraw, Takes, MsgOK
  <2> DEFINE v == Reset(wm, Msg.from, Msg.id)
             w == Push(v, Msg.from, Msg.id, Msg.rows)
  <2>2. IsWm(v) /\ Covered(wm, v)
    BY ResetCovers
  <2>3. Compose(w, root)
    BY <1>7 DEF HandleDraw
  <2> HIDE DEF v
  <2>4. IsWm(w) /\ Covered(v, w)
    BY <2>1, <2>2, PushCovers
  <2> HIDE DEF w
  <2>5. Current(w, root)
    BY <2>2, <2>4, CoveredCurrent
  <2> QED
    BY <2>3, <2>4, <2>5, ComposeShows
<1>8. CASE HandleMove
  <2>1. Msg.y \in Nat
    BY <1>2, <1>8 DEF HandleMove, Takes, MsgOK
  <2> DEFINE w == Move(wm, Msg.from, Msg.id, Msg.y)
  <2>2. IsWm(w) /\ Covered(wm, w)
    BY <2>1, MoveCovers
  <2>3. Compose(w, root)
    BY <1>8 DEF HandleMove
  <2> HIDE DEF w
  <2> QED
    BY <2>2, <2>3, CoveredCurrent, ComposeShows
<1>9. CASE HandleFrame
  <2> DEFINE w == DirtyAll(wm)
  <2>1. IsWm(w) /\ Current(w, Msg.version)
    BY AllDirty
  <2>2. Compose(w, Msg.version)
    BY <1>9 DEF HandleFrame
  <2> HIDE DEF w
  <2> QED
    BY <2>1, <2>2, ComposeShows
<1>10. CASE HandleCompose
  BY <1>10, ComposeShows DEF HandleCompose
<1>11. CASE HandleClient
  BY <1>11, UnshownCurrent DEF HandleClient
<1>12. CASE HandleShutdown
  BY <1>12, UnshownCurrent DEF HandleShutdown
<1>13. CASE HandleStats
  BY <1>13, UnshownCurrent DEF HandleStats
<1> QED
  BY <1>4, <1>5, <1>6, <1>7, <1>8, <1>9, <1>10, <1>11, <1>12, <1>13 DEF ServerNext

\* Whoever is not the server leaves the screen alone, and sends what it can read.
LEMMA OthersKeep ==
  ASSUME DisplayInv, UNCHANGED server,
         \/ req' = req
         \/ \E m : MsgOK(m) /\ req' = Append(req, m),
         SendersInv'
  PROVE  DisplayInv'
<1>1. AllOK(req')
  BY AppendOK DEF DisplayInv
<1> QED
  BY <1>1 DEF DisplayInv, Current, server

LEMMA AppKeeps ==
  ASSUME DisplayInv, NEW a \in Apps, AppNext(a)
  PROVE  DisplayInv'
<1>0. /\ SendersInv /\ on \in [Apps -> Seq({Off, On})] /\ on[a] \in Seq({Off, On})
      /\ apc[Shell] # "poach"
  BY DEF DisplayInv, SendersInv
<1>6. /\ pointer' = pointer
      /\ apc' = [b \in Apps |-> apc'[b]] /\ apc'[Shell] # "poach"
  <2>1. PICK l : apc' = [apc EXCEPT ![a] = l] /\ (l = "poach" => a = Notes) /\ pointer' = pointer
    BY DEF AppNext, AwaitStart, OpenWindow, Draw, Poach, AppTap, AppSends, App, input
  <2> QED
    BY <2>1, DisplayAssumption DEF DisplayInv, SendersInv, Apps
<1>7. on' = on => SendersInv'
  BY <1>6, <1>0 DEF SendersInv
<1>1. CASE AwaitStart(a)
  BY <1>1, <1>7, OthersKeep DEF AwaitStart, DisplayInv
<1>2. CASE OpenWindow(a)
  <2> DEFINE m == [op |-> "create", from |-> a, id |-> WinId(a), rect |-> Place(a)]
  <2>1. MsgOK(m)
    BY DEF MsgOK
  <2>2. req' = Append(req, m) /\ on' = on /\ UNCHANGED server
    BY <1>2 DEF OpenWindow, AppSends, Send
  <2> HIDE DEF m
  <2> QED
    BY <1>7, <2>1, <2>2, OthersKeep
<1>3. CASE Draw(a)
  <2> DEFINE m == [op |-> "draw", from |-> a, id |-> WinId(a), rows |-> on[a]]
  <2>1. on[a] \in Seq(Nat)
    <3>1. on[a] \in Seq({Off, On}) /\ {Off, On} \subseteq Nat
      BY <1>0 DEF Off, On
    <3> HIDE DEF Off, On
    <3> QED
      BY <3>1
  <2>2. MsgOK(m)
    BY <2>1 DEF MsgOK
  <2>3. req' = Append(req, m) /\ on' = on /\ UNCHANGED server
    BY <1>3 DEF Draw, AppSends, Send
  <2> HIDE DEF m
  <2> QED
    BY <1>7, <2>2, <2>3, OthersKeep
<1>4. CASE Poach(a)
  <2> DEFINE m == [op |-> "move", from |-> a, id |-> WinId(Shell), y |-> 0]
  <2>1. MsgOK(m)
    BY <1>0, <1>4 DEF MsgOK, Poach, Apps
  <2>2. req' = Append(req, m) /\ on' = on /\ UNCHANGED server
    BY <1>4 DEF Poach, AppSends, Send
  <2> HIDE DEF m
  <2> QED
    BY <1>7, <2>1, <2>2, OthersKeep
<1>5. CASE AppTap(a)
  <2> DEFINE m == [op |-> "raise", from |-> a, id |-> WinId(a)]
             row == Head(ev[a]).y - TitleBar + 1
  <2>1. MsgOK(m)
    BY DEF MsgOK
  <2>2. req' = Append(req, m) /\ UNCHANGED server
    BY <1>5 DEF AppTap, AppSends, Send
  <2>3. on' = on \/ on' = [on EXCEPT ![a][row] = Off + On - @]
    BY <1>5 DEF AppTap, AppSends
  <2> HIDE DEF m, row
  <2>4. on' \in [Apps -> Seq({Off, On})]
    <3>1. on \in [Apps -> Seq({Off, On})] /\ on[a] \in Seq({Off, On})
      BY <1>0
    <3>2. CASE on' = on
      BY <3>1, <3>2
    <3>3. CASE on' = [on EXCEPT ![a][row] = Off + On - @]
      <4> DEFINE q == [on[a] EXCEPT ![row] = Off + On - @]
      <4>1. q \in Seq({Off, On})
        <5>1. CASE row \in DOMAIN on[a]
          <6>1. Off + On - on[a][row] \in {Off, On}
            BY <3>1, <5>1 DEF Off, On
          <6> QED
            BY <3>1, <5>1, <6>1, ExceptSeq
        <5>2. CASE row \notin DOMAIN on[a]
          <6>1. q = on[a]
            BY <3>1, <5>2
          <6> QED
            BY <3>1, <6>1
        <5> QED
          BY <5>1, <5>2
      <4>2. on' = [on EXCEPT ![a] = q]
        BY <3>1, <3>3
      <4> HIDE DEF q
      <4> QED
        BY <3>1, <4>1, <4>2
    <3> QED
      BY <2>3, <3>2, <3>3
  <2>5. SendersInv'
    BY <1>0, <1>6, <2>4 DEF SendersInv
  <2> QED
    BY <2>1, <2>2, <2>5, OthersKeep
<1> QED
  BY <1>1, <1>2, <1>3, <1>4, <1>5 DEF AppNext

\* The pointer stays on the screen: the device's range is scaled to it.
LEMMA ToScreenFits ==
  ASSUME NEW v \in Int
  PROVE  ToScreen(v) \in Point
<1> DEFINE k == Lower(Upper(v, 0), AxisMax)
           h == ScreenHeight - 1
<1>1. k \in Nat /\ k <= AxisMax /\ h \in Nat /\ AxisMax \in Nat \ {0}
  BY WindowsAssumption, DisplayAssumption DEF Lower, Upper
<1> HIDE DEF k, h
<1>2. PICK j \in Nat : AxisMax = k + j
  <2>1. AxisMax - k \in Nat /\ AxisMax = k + (AxisMax - k)
    BY <1>1
  <2> QED
    BY <2>1
<1>3. AxisMax * h = k * h + j * h /\ k * h \in Nat /\ j * h \in Nat
  BY <1>1, <1>2
<1> DEFINE n == k * h
           q == n \div AxisMax
<1>4. q \in Nat /\ (n % AxisMax) \in Nat /\ n = AxisMax * q + (n % AxisMax)
  BY <1>1, <1>3
<1>5. AxisMax * q <= AxisMax * h
  <2> DEFINE x == AxisMax * q
             y == AxisMax * h
             r == n % AxisMax
  <2>1. x \in Nat /\ y \in Nat /\ n <= y /\ n = x + r /\ r \in Nat /\ n \in Nat
    BY <1>1, <1>3, <1>4
  <2> HIDE DEF x, y, r, n
  <2> QED
    BY <2>1 DEF x, y
<1> HIDE DEF q, n
<1>6. q <= h
  <2> SUFFICES ASSUME q >= h + 1
               PROVE  FALSE
    BY <1>1, <1>4
  <2>1. PICK e \in Nat : q = (h + 1) + e
    <3>1. q - (h + 1) \in Nat /\ q = (h + 1) + (q - (h + 1))
      BY <1>1, <1>4
    <3> QED
      BY <3>1
  <2>2. AxisMax * q = AxisMax * h + AxisMax + AxisMax * e /\ AxisMax * e \in Nat /\ AxisMax * h \in Nat
    BY <1>1, <2>1
  <2> QED
    BY <1>1, <1>5, <2>2
<1>7. ToScreen(v) = q
  BY DEF ToScreen, q, n, k, h
<1> QED
  BY <1>1, <1>4, <1>6, <1>7 DEF Point, h

LEMMA InputKeeps ==
  ASSUME DisplayInv, NEW g \in Groups, InputGroup(g)
  PROVE  DisplayInv'
<1> DEFINE m == [op |-> "input", from |-> "inputdrv", p |-> g.y, down |-> g.down]
<1>1. g.y \in Point
  <2>1. g.y \in {pointer.y} \cup {ToScreen(v) : v \in DevValues}
    BY DEF Groups
  <2> QED
    BY <2>1, ToScreenFits, DisplayAssumption DEF DisplayInv, SendersInv
<1>2. MsgOK(m)
  BY <1>1 DEF MsgOK
<1>3. req' = Append(req, m) /\ on' = on /\ UNCHANGED server /\ pointer' = g /\ apc' = apc
  BY DEF InputGroup, Send, apps
<1>4. SendersInv'
  BY <1>1, <1>3 DEF DisplayInv, SendersInv
<1> HIDE DEF m
<1> QED
  BY <1>2, <1>3, <1>4, OthersKeep

LEMMA KernelKeeps ==
  ASSUME DisplayInv, KernelNext
  PROVE  DisplayInv'
<1>1. SendersInv' /\ UNCHANGED server
  BY DEF KernelNext, KernelStarts, KernelSends, KernelAnswered, KernelTimesOut, KernelGivesUp,
         ReportEnds, apps, input, DisplayInv, SendersInv
<1>2. CASE KernelSends
  <2>1. Request.op \in {"client", "frame", "stats", "shutdown", "compose"}
    BY DEF Request, StatusScreen, Frame
  <2>2. MsgOK(Request)
    BY <2>1 DEF MsgOK
  <2> QED
    BY <1>1, <1>2, <2>2, OthersKeep DEF KernelSends, Send
<1>3. CASE ~KernelSends
  <2>1. req' = req
    BY <1>3 DEF KernelNext, KernelStarts, KernelAnswered, KernelTimesOut, KernelGivesUp, ReportEnds
  <2> QED
    BY <1>1, <2>1, OthersKeep
<1> QED
  BY <1>2, <1>3

LEMMA StartsCurrent ==
  ASSUME DisplayInit
  PROVE  DisplayInv
<1>1. IsWm(wm)
  BY DEF DisplayInit, NewWm, IsWm, Empty, Rect, RectType
<1>2. AllOK(req)
  <2> DEFINE S == {}
  <2>1. req \in Seq(S) /\ \A m \in S : MsgOK(m)
    BY DEF DisplayInit
  <2> HIDE DEF S
  <2> QED
    BY <2>1, Zenon DEF AllOK
<1>3. on \in [Apps -> Seq({Off, On})]
  <2>1. \A a \in Apps : Rows(a) \in Nat
    BY DEF Rows
  <2>2. \A n \in Nat : [r \in 1 .. n |-> Off] \in Seq({Off, On})
    BY IsASeq
  <2> QED
    BY <2>1, <2>2 DEF DisplayInit
<1>4. Current(wm, root)
  BY DEF DisplayInit, NewWm, Current, Pixel, Over
<1>5. SendersInv
  BY <1>3, WindowsAssumption DEF DisplayInit, SendersInv, Point, Apps
<1> QED
  BY <1>1, <1>2, <1>4, <1>5 DEF DisplayInv

\* The screen shows what the windows amount to wherever it is not damaged and
\* the device took the last transfer: no operation of wm.rs forgets to damage
\* what it changes, and compose() in gpudrv.rs paints all of it.
THEOREM ScreenStaysCurrent == DisplaySpec => []ScreenIsCurrent
<1>1. DisplayInit => DisplayInv
  BY StartsCurrent
<1>2. DisplayInv /\ [DisplayNext]_dvars => DisplayInv'
  <2> SUFFICES ASSUME DisplayInv, [DisplayNext]_dvars
               PROVE  DisplayInv'
    OBVIOUS
  <2>1. CASE UNCHANGED dvars
    BY <2>1, OthersKeep DEF dvars, apps, input, DisplayInv, SendersInv
  <2>2. CASE DisplayNext
    BY <2>2, ServerKeeps, AppKeeps, InputKeeps, KernelKeeps DEF DisplayNext
  <2> QED
    BY <2>1, <2>2
<1>3. DisplayInv => ScreenIsCurrent
  BY DEF DisplayInv, Current, ScreenIsCurrent
<1> QED
  BY <1>1, <1>2, <1>3, PTL DEF DisplaySpec

-----------------------------------------------------------------------------
(***************************************************************************)
(* The session: which windows there are, what is on its way to them, and   *)
(* who is told of taps.                                                    *)
(***************************************************************************)

\* Each application has at most its own window, in its own place, and no two are
\* equally high.
IsTidy(W) ==
    /\ \A i \in DOMAIN W : W[i].id = WinId(W[i].owner) /\ W[i].rect = Clamp(Place(W[i].owner))
    /\ \A i, j \in DOMAIN W : W[i].owner = W[j].owner \/ W[i].z = W[j].z => i = j

HasWindow(W, a) == \E i \in DOMAIN W : W[i].owner = a
Drawn(W, a, r) == \A i \in DOMAIN W : W[i].owner = a => W[i].cmds = r

\* The places in the queue q of a's messages of one kind.
Sent(q, op, a) == {i \in DOMAIN q : q[i].op = op /\ q[i].from = a}

\* An application at pc with rows r: its window is asked for once, before it is
\* drawn; and the last drawing on its way, or else the window, has the rows.
IsUpToDate(a, q, W, pc, r) ==
    /\ pc \in {"wait", "create", "first", "poach", "loop", "draw"}
    /\ \A i, j \in Sent(q, "create", a) : i = j
    /\ \A i \in Sent(q, "create", a), j \in Sent(q, "draw", a) : i < j
    /\ HasWindow(W, a) => Sent(q, "create", a) = {} /\ pc \notin {"wait", "create"}
    /\ Sent(q, "create", a) # {} => /\ pc \notin {"wait", "create"}
                                    /\ pc # "first" => Sent(q, "draw", a) # {}
    /\ Sent(q, "draw", a) # {} => pc \notin {"wait", "create", "first"}
    /\ pc \in {"poach", "loop"} =>
          /\ \A j \in Sent(q, "draw", a) : (\A k \in Sent(q, "draw", a) : k <= j) => q[j].rows = r
          /\ Sent(q, "draw", a) = {} => Drawn(W, a, r)

\* What the device shows of a window is what the window has there.
IsSeen(W, S, L) ==
    \A p \in Point : S[p][1] \in Apps /\ p \notin L =>
        \E i \in DOMAIN W : Contains(W[i].rect, p) /\ S[p] = Paint(W[i], p)

\* The applications are introduced in the order of their slots, each once: k of
\* them have been, with the messages q on their way.
Introductions(q, pid) == {i \in DOMAIN q : q[i].op = "client" /\ q[i].pid = pid}
IsIntroduced(q, C, k) ==
    /\ C \in Seq(Apps) /\ Len(C) <= 2 /\ (Len(C) >= 1 => C[1] = Shell) /\ (Len(C) = 2 => C[2] = Notes)
    /\ \A i \in DOMAIN q : q[i].op = "client" => q[i].pid \in Apps
    /\ \A pid \in Apps : \A i, j \in Introductions(q, pid) : i = j
    /\ \A i \in Introductions(q, Shell), j \in Introductions(q, Notes) : i < j
    /\ IF k >= 1 THEN Len(C) = 0 <=> Introductions(q, Shell) # {}
                 ELSE Len(C) = 0 /\ Introductions(q, Shell) = {}
    /\ IF k >= 2 THEN Len(C) # 2 <=> Introductions(q, Notes) # {}
                 ELSE Len(C) # 2 /\ Introductions(q, Notes) = {}

Asked == IF at > 2 \/ (at = 2 /\ waiting) THEN 2 ELSE IF at = 2 \/ waiting THEN 1 ELSE 0
ClientsInv == IsIntroduced(req, clients, Asked)

Event == [op : {"start"}] \cup [op : {"tap"}, y : Int]

\* Nothing of the notes is started before the shell's window is there.
NotesWait ==
    /\ at \notin 5 .. 11
    /\ apc[Notes] = "wait" /\ Sent(req, "create", Notes) = {}
    /\ \A i \in DOMAIN ev[Notes] : ev[Notes][i].op # "start"

\* An answer counts windows that are there.
OrderInv ==
    /\ at \in 1 .. 14 /\ waiting \in BOOLEAN /\ (waiting => at \notin {3, 5, 11, 14})
    /\ rep \in Seq(Nat) /\ \A i \in DOMAIN rep : rep[i] <= Len(wm.windows)
    /\ ev \in [Apps -> Seq(Event)]
    /\ \/ wm.windows # <<>> /\ wm.windows[1].owner = Shell
       \/ wm.windows = <<>> /\ NotesWait

\* The windows, with what is on its way to them and what is seen of them.
WindowsInv ==
    /\ IsTidy(wm.windows)
    /\ \A a \in Apps : IsUpToDate(a, req, wm.windows, apc[a], on[a])
    /\ IsSeen(wm.windows, shown, lost)

SessionInv == DisplayInv /\ WindowsInv /\ ClientsInv /\ OrderInv

\* One window of W is another in V; one is added.
Swapped(W, V, i, x) == V = [W EXCEPT ![i] = x]
Added(W, V, x) == V = Append(W, x)

\* create() adds a window on top, or changes nothing.
LEMMA CreateDoes ==
  ASSUME NEW w, IsWm(w), NEW owner \in Apps, NEW id, NEW rect,
         NEW v, v = Create(w, owner, id, rect)
  PROVE  \/ v.windows = w.windows
         \/ \E x : /\ Added(w.windows, v.windows, x)
                   /\ x.owner = owner /\ x.id = id /\ x.rect = Clamp(rect) /\ x.z = w.next_z
<1> DEFINE x == [owner |-> owner, id |-> id, rect |-> Clamp(rect), z |-> w.next_z, cmds |-> <<>>]
           a == [windows |-> Append(w.windows, x), next_z |-> w.next_z + 1, damage |-> w.damage]
<1>1. v = w \/ v = Dirty(a, Clamp(rect))
  BY DEF Create
<1>2. Dirty(a, Clamp(rect)).windows = Append(w.windows, x)
  BY DEF Dirty
<1>3. Added(w.windows, Dirty(a, Clamp(rect)).windows, x)
  BY <1>2 DEF Added
<1>4. x.owner = owner /\ x.id = id /\ x.rect = Clamp(rect) /\ x.z = w.next_z
  OBVIOUS
<1> HIDE DEF x
<1> QED
  BY <1>1, <1>3, <1>4

\* An application that has a window has just that one.
LEMMA FoundIsOwn ==
  ASSUME NEW w, IsTidy(w.windows), NEW i \in DOMAIN w.windows
  PROVE  Find(w, w.windows[i].owner, WinId(w.windows[i].owner)) = {i}
<1>1. i \in Find(w, w.windows[i].owner, WinId(w.windows[i].owner))
  BY DEF Find, IsTidy
<1>2. \A j \in Find(w, w.windows[i].owner, WinId(w.windows[i].owner)) : j = i
  BY DEF Find, IsTidy
<1> QED
  BY <1>1, <1>2

LEMMA ChooseOnly ==
  ASSUME NEW i
  PROVE  (CHOOSE j \in {i} : TRUE) = i
  OBVIOUS

\* reset() and push() on a window that is there.
LEMMA ResetDoes ==
  ASSUME NEW w, IsTidy(w.windows), NEW i \in DOMAIN w.windows, NEW a, a = w.windows[i].owner,
         NEW x, x = [w.windows[i] EXCEPT !.cmds = <<>>]
  PROVE  Reset(w, a, WinId(a)) = Changed(w, i, x)
<1>1. Find(w, a, WinId(a)) = {i} /\ {i} # {}
  BY FoundIsOwn
<1>2. (CHOOSE j \in Find(w, a, WinId(a)) : TRUE) = i
  BY <1>1, ChooseOnly
<1> QED
  BY <1>1, <1>2, Zenon DEF Reset, With, Changed

LEMMA PushDoes ==
  ASSUME NEW w, IsTidy(w.windows), NEW i \in DOMAIN w.windows, NEW a, a = w.windows[i].owner,
         NEW c, NEW x, x = [w.windows[i] EXCEPT !.cmds = @ \o c]
  PROVE  Push(w, a, WinId(a), c) = Changed(w, i, x)
<1>1. Find(w, a, WinId(a)) = {i} /\ {i} # {}
  BY FoundIsOwn
<1>2. (CHOOSE j \in Find(w, a, WinId(a)) : TRUE) = i
  BY <1>1, ChooseOnly
<1> QED
  BY <1>1, <1>2, Zenon DEF Push, With, Changed

\* A window with other commands is where it was.
LEMMA TidyKept ==
  ASSUME NEW W \in Seq(WindowType), IsTidy(W), NEW i \in DOMAIN W, NEW x \in WindowType,
         x.owner = W[i].owner, x.id = W[i].id, x.rect = W[i].rect,
         x.z = W[i].z \/ \A j \in DOMAIN W : W[j].z < x.z,
         NEW V, Swapped(W, V, i, x)
  PROVE  /\ IsTidy(V)
         /\ \A a : HasWindow(V, a) <=> HasWindow(W, a)
         /\ V \in Seq(WindowType) /\ Len(V) = Len(W) /\ DOMAIN V = DOMAIN W
         /\ V[i] = x /\ \A j \in DOMAIN W : j # i => V[j] = W[j]
<1>0. V = [W EXCEPT ![i] = x]
  BY DEF Swapped
<1>1. V \in Seq(WindowType) /\ Len(V) = Len(W) /\ DOMAIN V = DOMAIN W
  BY <1>0, ExceptSeq
<1>2. V[i] = x /\ \A j \in DOMAIN W : j # i => V[j] = W[j]
  BY <1>0
<1>3. \A j \in DOMAIN W : V[j].owner = W[j].owner /\ V[j].id = W[j].id /\ V[j].rect = W[j].rect
  BY <1>2
<1>4. ASSUME NEW j \in DOMAIN V, NEW k \in DOMAIN V, V[j].owner = V[k].owner \/ V[j].z = V[k].z
      PROVE  j = k
  <2>1. CASE V[j].owner = V[k].owner
    BY <1>1, <1>3, <2>1 DEF IsTidy
  <2>2. CASE V[j].z = V[k].z /\ j # i /\ k # i
    BY <1>1, <1>2, <2>2 DEF IsTidy
  <2>3. CASE V[j].z = V[k].z /\ j # k /\ (j = i \/ k = i)
    <3>1. \A l \in DOMAIN W : l # i => V[l].z # x.z
      <4>1. \A l \in DOMAIN W : W[l].z \in Nat /\ x.z \in Nat
        <5>1. \A l \in DOMAIN W : W[l] \in WindowType
          OBVIOUS
        <5> QED
          BY <5>1 DEF WindowType
      <4>2. \A l \in DOMAIN W : l # i => W[l].z # W[i].z
        BY DEF IsTidy
      <4> QED
        BY <1>2, <4>1, <4>2
    <3> QED
      BY <1>1, <1>2, <2>3, <3>1
  <2> QED
    BY <1>4, <2>1, <2>2, <2>3
<1>5. IsTidy(V)
  BY <1>1, <1>3, <1>4 DEF IsTidy
<1>6. \A a : HasWindow(V, a) <=> HasWindow(W, a)
  BY <1>1, <1>3 DEF HasWindow
<1> QED
  BY <1>1, <1>2, <1>5, <1>6

\* A drawing replaces the commands of the sender's window, and damages it.
LEMMA DrawDoes ==
  ASSUME NEW w, IsWm(w), IsTidy(w.windows), NEW i \in DOMAIN w.windows,
         NEW a, a = w.windows[i].owner, NEW rows \in Seq(Nat),
         NEW v, v = Push(Reset(w, a, WinId(a)), a, WinId(a), rows)
  PROVE  \E y \in WindowType :
            /\ y.owner = a /\ y.cmds = rows
            /\ y.id = w.windows[i].id /\ y.rect = w.windows[i].rect /\ y.z = w.windows[i].z
            /\ Swapped(w.windows, v.windows, i, y)
            /\ \A p \in Point : Contains(y.rect, p) => Contains(v.damage, p)
<1> DEFINE y == [w.windows[i] EXCEPT !.cmds = rows]
           u == Reset(w, a, WinId(a))
           x == [w.windows[i] EXCEPT !.cmds = <<>>]
           t == [u.windows[i] EXCEPT !.cmds = @ \o rows]
<1>1. w.windows \in Seq(WindowType) /\ w.windows[i] \in WindowType /\ w.windows[i].z < w.next_z
  BY DEF IsWm
<1>2. /\ y \in WindowType /\ y.owner = a /\ y.cmds = rows
      /\ y.id = w.windows[i].id /\ y.rect = w.windows[i].rect /\ y.z = w.windows[i].z
  BY <1>1 DEF WindowType
<1>3. /\ x \in WindowType /\ x.owner = a /\ x.cmds = <<>>
      /\ x.id = w.windows[i].id /\ x.rect = w.windows[i].rect /\ x.z = w.windows[i].z
  <2>1. <<>> \in Seq(Nat)
    OBVIOUS
  <2> QED
    BY <1>1, <2>1 DEF WindowType
<1>4. [x EXCEPT !.cmds = @ \o rows] = y
  <2>1. <<>> \o rows = rows
    OBVIOUS
  <2> QED
    BY <1>1, <2>1 DEF WindowType
<1>5. u = Changed(w, i, x)
  BY ResetDoes
<1>6. v = Push(u, a, WinId(a), rows)
  OBVIOUS
<1> HIDE DEF u, x, y
<1>7. IsWm(u) /\ u.windows = [w.windows EXCEPT ![i] = x]
  BY <1>1, <1>3, <1>5, ChangeCovers
<1>8. /\ IsTidy(u.windows) /\ DOMAIN u.windows = DOMAIN w.windows /\ u.windows[i] = x
  <2>1. x.owner = w.windows[i].owner
    BY <1>3
  <2> DEFINE W == w.windows
             V == u.windows
  <2>2. W \in Seq(WindowType) /\ IsTidy(W) /\ i \in DOMAIN W /\ Swapped(W, V, i, x)
    BY <1>1, <1>7 DEF Swapped
  <2>3. x.id = W[i].id /\ x.rect = W[i].rect /\ x.z = W[i].z /\ x.owner = W[i].owner
    BY <1>3, <2>1
  <2> HIDE DEF V, W
  <2>4. IsTidy(V) /\ DOMAIN V = DOMAIN W /\ V[i] = x
    BY <1>3, <2>2, <2>3, TidyKept
  <2> QED
    BY <2>4 DEF V, W
<1>9. t = y
  BY <1>4, <1>8
<1>10. v = Changed(u, i, t)
  <2>1. i \in DOMAIN u.windows /\ a = u.windows[i].owner
    BY <1>3, <1>8
  <2>2. t = [u.windows[i] EXCEPT !.cmds = @ \o rows]
    OBVIOUS
  <2> HIDE DEF t
  <2>3. Push(u, a, WinId(a), rows) = Changed(u, i, t)
    BY <1>8, <2>1, <2>2, PushDoes, Zenon
  <2> QED
    BY <1>6, <2>3
<1> HIDE DEF t
<1>11. y.z < u.next_z
  BY <1>2, <1>3, <1>7, <1>8 DEF IsWm
<1>12. /\ v.windows = [u.windows EXCEPT ![i] = y]
       /\ \A p \in Point : Contains(y.rect, p) => Contains(v.damage, p)
  <2>1. i \in DOMAIN u.windows /\ v = Changed(u, i, y)
    BY <1>8, <1>9, <1>10
  <2> QED
    BY <1>2, <1>7, <1>11, <2>1, ChangeCovers
<1>13. Swapped(w.windows, v.windows, i, y)
  BY <1>1, <1>7, <1>12 DEF Swapped
<1> QED
  BY <1>2, <1>12, <1>13

\* raise() puts the sender's window on top, if it has one.
LEMMA RaiseDoes ==
  ASSUME NEW w, IsWm(w), NEW a, NEW id, NEW v, v = Raise(w, a, id)
  PROVE  \/ v.windows = w.windows
         \/ \E i \in DOMAIN w.windows, x \in WindowType :
               /\ Swapped(w.windows, v.windows, i, x)
               /\ x.owner = w.windows[i].owner /\ x.id = w.windows[i].id
               /\ x.rect = w.windows[i].rect /\ x.cmds = w.windows[i].cmds
               /\ x.z = w.next_z
<1> DEFINE u == [w EXCEPT !.next_z = @ + 1]
           i == CHOOSE j \in Find(u, a, id) : TRUE
           x == [u.windows[i] EXCEPT !.z = w.next_z]
<1>1. /\ u.windows = w.windows /\ u.next_z = w.next_z + 1 /\ w.next_z \in Nat
      /\ w.windows \in Seq(WindowType)
  BY DEF IsWm
<1>2. IsWm(u)
  BY RaisedIsWm
<1>0. v = With(u, a, id, LAMBDA q : [q EXCEPT !.z = w.next_z])
  BY DEF Raise
<1> HIDE DEF u
<1>3. CASE Find(u, a, id) = {}
  BY <1>0, <1>1, <1>3 DEF With
<1>4. CASE Find(u, a, id) # {}
  <2>1. i \in DOMAIN u.windows /\ u.windows[i] \in WindowType
    BY <1>2, <1>4, FoundIsWindow
  <2>2. /\ x \in WindowType /\ x.z < u.next_z /\ x.z = w.next_z
        /\ x.owner = w.windows[i].owner /\ x.id = w.windows[i].id
        /\ x.rect = w.windows[i].rect /\ x.cmds = w.windows[i].cmds
    <3> DEFINE k == w.windows[i]
    <3>1. x = [k EXCEPT !.z = w.next_z] /\ k \in WindowType
      BY <1>1, <2>1
    <3> HIDE DEF k, x
    <3>2. /\ x \in WindowType /\ x.z < u.next_z /\ x.z = w.next_z
          /\ x.owner = k.owner /\ x.id = k.id /\ x.rect = k.rect /\ x.cmds = k.cmds
      BY <1>1, <3>1 DEF WindowType
    <3> QED
      BY <3>2 DEF k
  <2>3. v = Changed(u, i, x)
    BY <1>0, <1>4 DEF With, Changed
  <2> HIDE DEF i, x
  <2>5. v.windows = [w.windows EXCEPT ![i] = x]
    BY <1>1, <1>2, <2>1, <2>2, <2>3, ChangeCovers
  <2>6. Swapped(w.windows, v.windows, i, x)
    BY <2>5 DEF Swapped
  <2> QED
    BY <1>1, <2>1, <2>2, <2>6
<1> QED
  BY <1>3, <1>4

-----------------------------------------------------------------------------
(***************************************************************************)
(* What is on its way.                                                     *)
(***************************************************************************)
LEMMA AppendedAt ==
  ASSUME NEW q, AllOK(q), NEW m
  PROVE  /\ Len(q) \in Nat /\ DOMAIN q = 1 .. Len(q)
         /\ DOMAIN Append(q, m) = 1 .. Len(q) + 1
         /\ \A i \in 1 .. Len(q) : Append(q, m)[i] = q[i]
         /\ Append(q, m)[Len(q) + 1] = m
<1>1. PICK S : q \in Seq(S)
  BY DEF AllOK
<1>2. q \in Seq(S \cup {m}) /\ m \in S \cup {m}
  BY <1>1
<1> QED
  BY <1>2

LEMMA TailedAt ==
  ASSUME NEW q, AllOK(q), q # <<>>
  PROVE  /\ Len(q) \in Nat \ {0} /\ DOMAIN q = 1 .. Len(q)
         /\ DOMAIN Tail(q) = 1 .. Len(q) - 1
         /\ \A i \in 1 .. Len(q) - 1 : Tail(q)[i] = q[i + 1]
         /\ Head(q) = q[1]
<1>1. PICK S : q \in Seq(S)
  BY DEF AllOK
<1> QED
  BY <1>1

\* Sending adds at the end, taking removes at the front.
LEMMA SentAppend ==
  ASSUME NEW q, AllOK(q), NEW m, NEW op, NEW a
  PROVE  /\ Sent(q, op, a) \subseteq 1 .. Len(q) /\ Len(q) \in Nat
         /\ Sent(Append(q, m), op, a) =
               IF m.op = op /\ m.from = a THEN Sent(q, op, a) \cup {Len(q) + 1} ELSE Sent(q, op, a)
         /\ \A i \in Sent(q, op, a) : Append(q, m)[i] = q[i]
<1> DEFINE n == Len(q)
           t == Append(q, m)
<1>1. /\ n \in Nat /\ DOMAIN q = 1 .. n /\ DOMAIN t = 1 .. n + 1
      /\ (\A i \in 1 .. n : t[i] = q[i]) /\ t[n + 1] = m
  BY AppendedAt
<1> HIDE DEF n, t
<1>2. 1 .. n + 1 = (1 .. n) \cup {n + 1}
  BY <1>1
<1>3. Sent(t, op, a) = IF m.op = op /\ m.from = a THEN Sent(q, op, a) \cup {n + 1} ELSE Sent(q, op, a)
  BY <1>1, <1>2 DEF Sent
<1> QED
  BY <1>1, <1>3 DEF Sent, n, t

LEMMA SentTail ==
  ASSUME NEW q, AllOK(q), q # <<>>, NEW op, NEW a
  PROVE  /\ Sent(q, op, a) \subseteq Nat \ {0}
         /\ \A i : i \in Sent(Tail(q), op, a) <=> i \in Nat \ {0} /\ i + 1 \in Sent(q, op, a)
         /\ 1 \in Sent(q, op, a) <=> Head(q).op = op /\ Head(q).from = a
         /\ \A i \in Sent(Tail(q), op, a) : Tail(q)[i] = q[i + 1]
<1> DEFINE n == Len(q)
           t == Tail(q)
           h == Head(q)
<1>1. /\ n \in Nat \ {0} /\ DOMAIN q = 1 .. n /\ DOMAIN t = 1 .. n - 1
      /\ (\A i \in 1 .. n - 1 : t[i] = q[i + 1]) /\ h = q[1]
  BY TailedAt
<1> HIDE DEF n, t, h
<1>2. \A i \in Nat \ {0} : i \in 1 .. n - 1 <=> i + 1 \in 1 .. n
  BY <1>1
<1>3. \A i \in 1 .. n - 1 : i \in Nat \ {0}
  BY <1>1
<1>4. \A i : i \in Sent(t, op, a) <=> i \in Nat \ {0} /\ i + 1 \in Sent(q, op, a)
  BY <1>1, <1>2, <1>3 DEF Sent
<1>5. 1 \in Sent(q, op, a) <=> h.op = op /\ h.from = a
  BY <1>1 DEF Sent
<1> QED
  BY <1>1, <1>4, <1>5 DEF Sent, n, t, h

\* A message that is none of a's drawings, nor its request for a window.
Foreign(m, a) == ~(m.from = a /\ m.op \in {"create", "draw"})

LEMMA UpToDateSend ==
  ASSUME NEW q, AllOK(q), NEW a, NEW W, NEW pc, NEW r, IsUpToDate(a, q, W, pc, r), NEW m, Foreign(m, a)
  PROVE  IsUpToDate(a, Append(q, m), W, pc, r)
<1> DEFINE t == Append(q, m)
<1>1. Sent(t, "create", a) = Sent(q, "create", a) /\ Sent(t, "draw", a) = Sent(q, "draw", a)
  BY SentAppend DEF Foreign
<1>2. \A i \in Sent(q, "draw", a) : t[i] = q[i]
  <2>1. \A i \in DOMAIN q : t[i] = q[i]
    BY AppendedAt
  <2> QED
    BY <2>1 DEF Sent
<1> HIDE DEF t
<1>3. pc \in {"poach", "loop"} =>
         \A j \in Sent(q, "draw", a) : (\A k \in Sent(q, "draw", a) : k <= j) => t[j].rows = r
  BY <1>2 DEF IsUpToDate
<1> DEFINE c == Sent(q, "create", a)
           d == Sent(q, "draw", a)
<1>4. /\ pc \in {"wait", "create", "first", "poach", "loop", "draw"}
      /\ \A i, j \in c : i = j
      /\ \A i \in c, j \in d : i < j
      /\ HasWindow(W, a) => c = {} /\ pc \notin {"wait", "create"}
      /\ c # {} => pc \notin {"wait", "create"} /\ (pc # "first" => d # {})
      /\ d # {} => pc \notin {"wait", "create", "first"}
      /\ pc \in {"poach", "loop"} => (d = {} => Drawn(W, a, r))
  BY DEF IsUpToDate
<1> HIDE DEF c, d
<1>5. /\ Sent(t, "create", a) = c /\ Sent(t, "draw", a) = d
      /\ pc \in {"poach", "loop"} => \A j \in d : (\A k \in d : k <= j) => t[j].rows = r
  BY <1>1, <1>3 DEF c, d
<1> QED
  BY <1>4, <1>5 DEF IsUpToDate, t

LEMMA UpToDateTake ==
  ASSUME NEW q, AllOK(q), q # <<>>, NEW a, NEW W, NEW pc, NEW r, IsUpToDate(a, q, W, pc, r),
         Foreign(Head(q), a), NEW V,
         HasWindow(V, a) => HasWindow(W, a), Drawn(W, a, r) => Drawn(V, a, r)
  PROVE  IsUpToDate(a, Tail(q), V, pc, r)
<1> DEFINE t == Tail(q)
           c == Sent(q, "create", a)
           d == Sent(q, "draw", a)
           e == Sent(t, "create", a)
           f == Sent(t, "draw", a)
<1>1. c \subseteq Nat \ {0} /\ 1 \notin c /\ \A i : i \in e <=> i \in Nat \ {0} /\ i + 1 \in c
  BY SentTail DEF Foreign
<1>2. d \subseteq Nat \ {0} /\ 1 \notin d /\ \A i : i \in f <=> i \in Nat \ {0} /\ i + 1 \in d
  BY SentTail DEF Foreign
<1>3. \A i \in f : t[i] = q[i + 1]
  <2>1. \A i \in DOMAIN t : t[i] = q[i + 1]
    BY TailedAt
  <2> QED
    BY <2>1 DEF Sent
<1>4. /\ pc \in {"wait", "create", "first", "poach", "loop", "draw"}
      /\ \A i, j \in c : i = j
      /\ \A i \in c, j \in d : i < j
      /\ HasWindow(W, a) => c = {} /\ pc \notin {"wait", "create"}
      /\ c # {} => pc \notin {"wait", "create"} /\ (pc # "first" => d # {})
      /\ d # {} => pc \notin {"wait", "create", "first"}
      /\ pc \in {"poach", "loop"} =>
            /\ \A j \in d : (\A k \in d : k <= j) => q[j].rows = r
            /\ d = {} => Drawn(W, a, r)
  BY DEF IsUpToDate
<1> SUFFICES
      /\ \A i, j \in e : i = j
      /\ \A i \in e, j \in f : i < j
      /\ HasWindow(V, a) => e = {} /\ pc \notin {"wait", "create"}
      /\ e # {} => pc \notin {"wait", "create"} /\ (pc # "first" => f # {})
      /\ f # {} => pc \notin {"wait", "create", "first"}
      /\ pc \in {"poach", "loop"} =>
            /\ \A j \in f : (\A k \in f : k <= j) => t[j].rows = r
            /\ f = {} => Drawn(V, a, r)
  BY <1>4 DEF IsUpToDate
<1> HIDE DEF t, c, d, e, f
<1>5. (e = {} <=> c = {}) /\ (f = {} <=> d = {})
  <2>1. \A i \in c : i - 1 \in e
    BY <1>1
  <2>2. \A i \in d : i - 1 \in f
    BY <1>2
  <2> QED
    BY <1>1, <1>2, <2>1, <2>2
<1>6. (\A i, j \in e : i = j) /\ (\A i \in e, j \in f : i < j)
  <2>1. ASSUME NEW i \in e, NEW j \in e PROVE i = j
    <3>1. i + 1 \in c /\ j + 1 \in c /\ i \in Nat /\ j \in Nat
      BY <1>1
    <3>2. i + 1 = j + 1
      BY <1>4, <3>1
    <3> QED
      BY <3>1, <3>2
  <2>2. ASSUME NEW i \in e, NEW j \in f PROVE i < j
    <3>1. i + 1 \in c /\ j + 1 \in d /\ i \in Nat /\ j \in Nat
      BY <1>1, <1>2
    <3>2. i + 1 < j + 1
      BY <1>4, <3>1
    <3> QED
      BY <3>1, <3>2
  <2> QED
    BY <2>1, <2>2
<1>7. ASSUME pc \in {"poach", "loop"}, NEW j \in f, \A k \in f : k <= j
      PROVE  t[j].rows = r
  <2>1. j + 1 \in d /\ j \in Nat
    BY <1>2
  <2>2. \A k \in d : k <= j + 1
    <3>1. \A k \in d : k \in Nat \ {0} /\ k - 1 \in f
      BY <1>2
    <3>2. \A k \in d : k - 1 <= j
      BY <1>7, <3>1
    <3> QED
      BY <2>1, <3>1, <3>2
  <2>3. q[j + 1].rows = r
    BY <1>4, <1>7, <2>1, <2>2
  <2> QED
    BY <1>3, <2>3
<1> QED
  BY <1>4, <1>5, <1>6, <1>7

\* The request for a's window is handled: there is no other, and a drawing follows.
LEMMA UpToDateCreated ==
  ASSUME NEW q, AllOK(q), q # <<>>, NEW a, NEW W, NEW pc, NEW r, IsUpToDate(a, q, W, pc, r),
         Head(q).op = "create", Head(q).from = a, NEW V
  PROVE  IsUpToDate(a, Tail(q), V, pc, r) /\ ~HasWindow(W, a)
<1> DEFINE t == Tail(q)
           c == Sent(q, "create", a)
           d == Sent(q, "draw", a)
           e == Sent(t, "create", a)
           f == Sent(t, "draw", a)
<1>1. c \subseteq Nat \ {0} /\ 1 \in c /\ \A i : i \in e <=> i \in Nat \ {0} /\ i + 1 \in c
  BY SentTail
<1>2. d \subseteq Nat \ {0} /\ 1 \notin d /\ \A i : i \in f <=> i \in Nat \ {0} /\ i + 1 \in d
  BY SentTail
<1>3. \A i \in f : t[i] = q[i + 1]
  <2>1. \A i \in DOMAIN t : t[i] = q[i + 1]
    BY TailedAt
  <2> QED
    BY <2>1 DEF Sent
<1>4. /\ pc \in {"wait", "create", "first", "poach", "loop", "draw"}
      /\ \A i, j \in c : i = j
      /\ HasWindow(W, a) => c = {}
      /\ c # {} => pc \notin {"wait", "create"} /\ (pc # "first" => d # {})
      /\ d # {} => pc \notin {"wait", "create", "first"}
      /\ pc \in {"poach", "loop"} =>
            \A j \in d : (\A k \in d : k <= j) => q[j].rows = r
  BY DEF IsUpToDate
<1> SUFFICES
      /\ ~HasWindow(W, a)
      /\ e = {}
      /\ pc \notin {"wait", "create"} /\ (pc # "first" => f # {})
      /\ f # {} => pc \notin {"wait", "create", "first"}
      /\ pc \in {"poach", "loop"} =>
            \A j \in f : (\A k \in f : k <= j) => t[j].rows = r
  BY <1>4 DEF IsUpToDate
<1> HIDE DEF t, c, d, e, f
<1>5. e = {}
  <2>1. ASSUME NEW i \in e PROVE FALSE
    <3>1. i \in Nat \ {0} /\ i + 1 \in c
      BY <1>1
    <3>2. i + 1 = 1
      BY <1>1, <1>4, <3>1
    <3> QED
      BY <3>1, <3>2
  <2> QED
    BY <2>1
<1>6. f = {} <=> d = {}
  <2>2. \A i \in d : i - 1 \in f
    BY <1>2
  <2> QED
    BY <1>2, <2>2
<1>7. ASSUME pc \in {"poach", "loop"}, NEW j \in f, \A k \in f : k <= j
      PROVE  t[j].rows = r
  <2>1. j + 1 \in d /\ j \in Nat
    BY <1>2
  <2>2. \A k \in d : k <= j + 1
    <3>1. \A k \in d : k \in Nat \ {0} /\ k - 1 \in f
      BY <1>2
    <3>2. \A k \in d : k - 1 <= j
      BY <1>7, <3>1
    <3> QED
      BY <2>1, <3>1, <3>2
  <2>3. q[j + 1].rows = r
    BY <1>4, <1>7, <2>1, <2>2
  <2> QED
    BY <1>3, <2>3
<1> QED
  BY <1>1, <1>4, <1>5, <1>6, <1>7

\* A drawing of a is handled: the last one leaves the window with the rows.
LEMMA UpToDateDrawn ==
  ASSUME NEW q, AllOK(q), q # <<>>, NEW a, NEW W, NEW pc, NEW r, IsUpToDate(a, q, W, pc, r),
         Head(q).op = "draw", Head(q).from = a, NEW V,
         HasWindow(V, a) => HasWindow(W, a), Drawn(V, a, Head(q).rows)
  PROVE  IsUpToDate(a, Tail(q), V, pc, r)
<1> DEFINE t == Tail(q)
           c == Sent(q, "create", a)
           d == Sent(q, "draw", a)
           e == Sent(t, "create", a)
           f == Sent(t, "draw", a)
<1>1. c \subseteq Nat \ {0} /\ \A i : i \in e <=> i \in Nat \ {0} /\ i + 1 \in c
  BY SentTail
<1>2. d \subseteq Nat \ {0} /\ 1 \in d /\ \A i : i \in f <=> i \in Nat \ {0} /\ i + 1 \in d
  BY SentTail
<1>3. (\A i \in f : t[i] = q[i + 1]) /\ Head(q) = q[1]
  <2>1. (\A i \in DOMAIN t : t[i] = q[i + 1]) /\ Head(q) = q[1]
    BY TailedAt
  <2> QED
    BY <2>1 DEF Sent
<1>4. /\ pc \in {"wait", "create", "first", "poach", "loop", "draw"}
      /\ \A i \in c, j \in d : i < j
      /\ HasWindow(W, a) => pc \notin {"wait", "create"}
      /\ d # {} => pc \notin {"wait", "create", "first"}
      /\ pc \in {"poach", "loop"} =>
            \A j \in d : (\A k \in d : k <= j) => q[j].rows = r
  BY DEF IsUpToDate
<1> SUFFICES
      /\ e = {}
      /\ pc \notin {"wait", "create", "first"}
      /\ pc \in {"poach", "loop"} =>
            /\ \A j \in f : (\A k \in f : k <= j) => t[j].rows = r
            /\ f = {} => Drawn(V, a, r)
  BY <1>4 DEF IsUpToDate
<1> HIDE DEF t, c, d, e, f
<1>5. e = {}
  <2>1. ASSUME NEW i \in e PROVE FALSE
    <3>1. i \in Nat \ {0} /\ i + 1 \in c
      BY <1>1
    <3>2. i + 1 < 1
      BY <1>2, <1>4, <3>1
    <3> QED
      BY <3>1, <3>2
  <2> QED
    BY <2>1
<1>7. ASSUME pc \in {"poach", "loop"}, NEW j \in f, \A k \in f : k <= j
      PROVE  t[j].rows = r
  <2>1. j + 1 \in d /\ j \in Nat \ {0}
    BY <1>2
  <2>2. \A k \in d : k <= j + 1
    <3>1. \A k \in d : k = 1 \/ (k \in Nat \ {0} /\ k - 1 \in f)
      BY <1>2
    <3>2. \A k \in d : k = 1 \/ (k \in Nat \ {0} /\ k - 1 <= j)
      BY <1>7, <3>1
    <3> QED
      BY <2>1, <3>2
  <2>3. q[j + 1].rows = r
    BY <1>4, <1>7, <2>1, <2>2
  <2> QED
    BY <1>3, <2>3
<1>8. ASSUME pc \in {"poach", "loop"}, f = {}
      PROVE  Drawn(V, a, r)
  <2>1. \A k \in d : k = 1
    <3>1. \A k \in d : k = 1 \/ (k \in Nat \ {0} /\ k - 1 \in f)
      BY <1>2
    <3> QED
      BY <1>8, <3>1
  <2>2. q[1].rows = r
    BY <1>2, <1>4, <1>8, <2>1
  <2> QED
    BY <1>3, <2>2
<1> QED
  BY <1>2, <1>4, <1>5, <1>7, <1>8

\* The application's own steps: it asks for its window, and it draws.
LEMMA UpToDateOpens ==
  ASSUME NEW q, AllOK(q), NEW a, NEW W, NEW r, IsUpToDate(a, q, W, "create", r),
         NEW m, m.op = "create", m.from = a
  PROVE  IsUpToDate(a, Append(q, m), W, "first", r)
<1> DEFINE t == Append(q, m)
           n == Len(q) + 1
<1>1. Sent(q, "create", a) = {} /\ Sent(q, "draw", a) = {} /\ ~HasWindow(W, a)
  BY DEF IsUpToDate
<1>2. Sent(t, "create", a) = {n}
  <2>1. Sent(t, "create", a) = Sent(q, "create", a) \cup {n}
    BY SentAppend
  <2> QED
    BY <1>1, <2>1
<1>3. Sent(t, "draw", a) = {}
  BY <1>1, SentAppend
<1> HIDE DEF n, t
<1>4. IsUpToDate(a, t, W, "first", r)
  BY <1>1, <1>2, <1>3 DEF IsUpToDate
<1> QED
  BY <1>4 DEF t

LEMMA UpToDateDraws ==
  ASSUME NEW q, AllOK(q), NEW a, NEW W, NEW pc \in {"first", "draw"}, NEW r, IsUpToDate(a, q, W, pc, r),
         NEW m, m.op = "draw", m.from = a, m.rows = r, NEW l \in {"poach", "loop"}
  PROVE  IsUpToDate(a, Append(q, m), W, l, r)
<1> DEFINE t == Append(q, m)
           n == Len(q) + 1
           c == Sent(q, "create", a)
           d == Sent(q, "draw", a)
<1>1. /\ \A i, j \in c : i = j
      /\ HasWindow(W, a) => c = {}
  BY DEF IsUpToDate
<1>2. /\ c \subseteq 1 .. Len(q) /\ d \subseteq 1 .. Len(q) /\ Len(q) \in Nat
      /\ Sent(t, "create", a) = c /\ Sent(t, "draw", a) = d \cup {n}
  BY SentAppend
<1>3. (\A i \in d : t[i] = q[i]) /\ t[n] = m
  <2>1. (\A i \in DOMAIN q : t[i] = q[i]) /\ t[n] = m
    BY AppendedAt
  <2> QED
    BY <2>1 DEF Sent
<1>4. /\ n \in d \cup {n} /\ (\A i \in c : i < n) /\ \A j \in d : j < n
  BY <1>2
<1>5. c # {} => \A i \in c, j \in d : i < j
  BY DEF IsUpToDate
<1> HIDE DEF t, c, d, n
<1>6. \A i \in c, j \in d \cup {n} : i < j
  BY <1>4, <1>5
<1>7. \A j \in d \cup {n} : (\A k \in d \cup {n} : k <= j) => t[j].rows = r
  <2>1. \A j \in d : j \in Nat /\ n \in Nat /\ j < n
    BY <1>2, <1>4 DEF n
  <2> QED
    BY <1>3, <2>1
<1>8. IsUpToDate(a, t, W, l, r)
  BY <1>1, <1>2, <1>6, <1>7 DEF IsUpToDate
<1> QED
  BY <1>8 DEF t

\* In its loop an application may begin to redraw.
LEMMA UpToDateLoops ==
  ASSUME NEW q, NEW a, NEW W, NEW r, NEW pc \in {"poach", "loop"}, IsUpToDate(a, q, W, pc, r)
  PROVE  /\ IsUpToDate(a, q, W, "loop", r)
         /\ \A s : IsUpToDate(a, q, W, "draw", s)
  BY DEF IsUpToDate

\* It waits until it is started.
LEMMA UpToDateWaits ==
  ASSUME NEW q, NEW a, NEW W, NEW r, IsUpToDate(a, q, W, "wait", r)
  PROVE  IsUpToDate(a, q, W, "create", r)
  BY DEF IsUpToDate

-----------------------------------------------------------------------------
(***************************************************************************)
(* The windows and what is seen of them.                                   *)
(***************************************************************************)

\* A new window: on top, the only one of its owner.
LEMMA TidyCreated ==
  ASSUME NEW w, IsWm(w), NEW W, W = w.windows, IsTidy(W), NEW x, ~HasWindow(W, x.owner),
         x.id = WinId(x.owner), x.rect = Clamp(Place(x.owner)), x.z = w.next_z,
         NEW V, Added(W, V, x)
  PROVE  /\ IsTidy(V) /\ DOMAIN W \subseteq DOMAIN V
         /\ Len(V) = Len(W) + 1 /\ V[Len(V)] = x /\ \A i \in DOMAIN W : V[i] = W[i]
         /\ \A a : HasWindow(V, a) => HasWindow(W, a) \/ a = x.owner
<1> DEFINE n == Len(W) + 1
<1>1. W \in Seq(WindowType) /\ \A i \in DOMAIN W : W[i] \in WindowType /\ W[i].z < w.next_z
  BY DEF IsWm
<1>2. w.next_z \in Nat /\ \A i \in DOMAIN W : W[i].z \in Nat /\ W[i].z < w.next_z
  BY <1>1 DEF IsWm, WindowType
<1>3. /\ Len(W) \in Nat /\ DOMAIN W = 1 .. Len(W) /\ Len(V) = n /\ DOMAIN V = 1 .. n
      /\ V[n] = x /\ \A i \in DOMAIN W : V[i] = W[i]
  <2>1. W \in Seq(WindowType \cup {x}) /\ x \in WindowType \cup {x}
    BY <1>1
  <2> QED
    BY <2>1 DEF Added
<1>4. \A i \in DOMAIN V : i \in DOMAIN W \/ i = n
  BY <1>3
<1>5. n \notin DOMAIN W /\ DOMAIN W \subseteq DOMAIN V
  BY <1>3
<1> HIDE DEF n
<1>6. \A i \in DOMAIN V : V[i].id = WinId(V[i].owner) /\ V[i].rect = Clamp(Place(V[i].owner))
  BY <1>3, <1>4 DEF IsTidy
<1>7. \A i \in DOMAIN W : V[i].owner # x.owner /\ V[i].z # x.z
  BY <1>2, <1>3 DEF HasWindow
<1>8. ASSUME NEW i \in DOMAIN V, NEW j \in DOMAIN V, V[i].owner = V[j].owner \/ V[i].z = V[j].z
      PROVE  i = j
  <2>1. CASE i \in DOMAIN W /\ j \in DOMAIN W
    BY <1>3, <1>8, <2>1 DEF IsTidy
  <2>2. CASE i = n \/ j = n
    BY <1>3, <1>4, <1>7, <1>8, <2>2
  <2> QED
    BY <1>4, <2>1, <2>2
<1>9. \A a : HasWindow(V, a) => HasWindow(W, a) \/ a = x.owner
  BY <1>3, <1>4 DEF HasWindow
<1> QED
  BY <1>3, <1>5, <1>6, <1>8, <1>9 DEF IsTidy, n

\* What a window looks like does not depend on its height.
LEMMA SeenKept ==
  ASSUME NEW W, NEW V, NEW S, NEW L, IsSeen(W, S, L),
         \A i \in DOMAIN W : /\ i \in DOMAIN V
                             /\ V[i].owner = W[i].owner /\ V[i].rect = W[i].rect /\ V[i].cmds = W[i].cmds
  PROVE  IsSeen(V, S, L)
<1>1. \A i \in DOMAIN W, p \in Point : Paint(V[i], p) = Paint(W[i], p)
  BY DEF Paint, RowAt
<1>2. ASSUME NEW p \in Point, S[p][1] \in Apps, p \notin L
      PROVE  \E i \in DOMAIN V : Contains(V[i].rect, p) /\ S[p] = Paint(V[i], p)
  <2>1. PICK i \in DOMAIN W : Contains(W[i].rect, p) /\ S[p] = Paint(W[i], p)
    BY <1>2 DEF IsSeen
  <2> QED
    BY <1>1, <2>1
<1> QED
  BY <1>2 DEF IsSeen

\* compose() paints windows or background; elsewhere nothing may have changed.
LEMMA SeenComposed ==
  ASSUME NEW w, IsWm(w), NEW r, Compose(w, r),
         \A p \in Point : shown[p][1] \in Apps /\ p \notin lost /\ ~Contains(w.damage, p) =>
            \E i \in DOMAIN w.windows : Contains(w.windows[i].rect, p) /\ shown[p] = Paint(w.windows[i], p)
  PROVE  IsSeen(wm.windows, shown, lost)' /\ wm'.windows = w.windows
<1> DEFINE damaged == {p \in Point : Contains(Clamp(w.damage), p)}
<1>1. wm' = [w EXCEPT !.damage = Empty]
  BY DEF Compose
<1>2. w.damage \in RectType
  BY DEF IsWm
<1>3. wm'.windows = w.windows
  BY <1>1 DEF IsWm
<1>4. \A p \in Point : p \notin damaged => ~Contains(w.damage, p)
  BY <1>2, ClampKeeps
<1>5. ASSUME NEW p \in Point, shown'[p][1] \in Apps, p \notin lost'
      PROVE  \E i \in DOMAIN w.windows : Contains(w.windows[i].rect, p) /\ shown'[p] = Paint(w.windows[i], p)
  <2>1. CASE p \in damaged /\ shown'[p] = Pixel(w, r, p)
    <3>1. Over(w, p) # {}
      <4>1. "root" \notin Apps
        BY DisplayAssumption DEF Apps
      <4>2. Over(w, p) = {} => shown'[p] = <<"root", r>>
        BY <2>1 DEF Pixel
      <4> QED
        BY <1>5, <4>1, <4>2
    <3>2. shown'[p] = Paint(w.windows[PaintedLast(w, p)], p)
      BY <2>1, <3>1 DEF Pixel
    <3>3. Over(w, p) \in SUBSET DOMAIN w.windows
      BY DEF Over
    <3>4. \E i \in Over(w, p) : \A j \in Over(w, p) : w.windows[j].z <= w.windows[i].z
      BY <3>1, <3>3, SomeIsHighest
    <3>5. PaintedLast(w, p) \in Over(w, p)
      BY <3>4 DEF PaintedLast
    <3> QED
      BY <3>2, <3>5 DEF Over
  <2>2. CASE p \notin damaged /\ shown'[p] = shown[p] /\ (p \notin lost' => p \notin lost)
    BY <1>4, <1>5, <2>2
  <2>3. CASE /\ shown' = [k \in Point |-> IF k \in damaged THEN Pixel(w, r, k) ELSE shown[k]]
             /\ lost' = lost \ damaged
    BY <2>1, <2>2, <2>3
  <2>4. CASE lost' = lost \cup damaged /\ UNCHANGED shown
    BY <1>5, <2>2, <2>4
  <2> QED
    BY <2>3, <2>4 DEF Compose
<1> QED
  BY <1>3, <1>5 DEF IsSeen

\* Windows are not closed, and the first stays the first.
Grown(W, V) == Len(W) <= Len(V) /\ (W # <<>> => V # <<>> /\ V[1].owner = W[1].owner)

LEMMA SameGrown ==
  ASSUME NEW W \in Seq(WindowType)
  PROVE  Grown(W, W)
  BY DEF Grown

\* A message that is neither a request for a window nor a drawing.
LEMMA WindowsTake ==
  ASSUME DisplayInv, WindowsInv, req # <<>>, req' = Tail(req), UNCHANGED <<apc, on>>,
         Msg.op \notin {"create", "draw"}, IsTidy(wm'.windows),
         \A a : HasWindow(wm'.windows, a) => HasWindow(wm.windows, a),
         \A a, r : Drawn(wm.windows, a, r) => Drawn(wm'.windows, a, r),
         IsSeen(wm.windows, shown, lost)'
  PROVE  WindowsInv'
<1>1. ASSUME NEW a \in Apps
      PROVE  IsUpToDate(a, req', wm'.windows, apc'[a], on'[a])
  <2>1. AllOK(req) /\ IsUpToDate(a, req, wm.windows, apc[a], on[a])
    BY DEF DisplayInv, WindowsInv
  <2>2. Foreign(Head(req), a)
    BY DEF Foreign, Msg
  <2>3. IsUpToDate(a, Tail(req), wm'.windows, apc[a], on[a])
    BY <2>1, <2>2, UpToDateTake
  <2> QED
    BY <2>3
<1> QED
  BY <1>1 DEF WindowsInv

LEMMA SameWindows ==
  ASSUME DisplayInv, WindowsInv, req # <<>>, req' = Tail(req), UNCHANGED <<apc, on>>,
         Msg.op \notin {"create", "draw"}, wm'.windows = wm.windows,
         IsSeen(wm.windows, shown, lost)'
  PROVE  WindowsInv' /\ Grown(wm.windows, wm'.windows)
<1>1. WindowsInv'
  BY WindowsTake DEF WindowsInv
<1>2. wm.windows \in Seq(WindowType)
  BY DEF DisplayInv, IsWm
<1> QED
  BY <1>1, <1>2, SameGrown

\* Nothing is asked for another's window that has an effect.
LEMMA MoveDoesNothing ==
  ASSUME IsTidy(wm.windows), MsgOK(Msg), Msg.op = "move"
  PROVE  Move(wm, Msg.from, Msg.id, Msg.y) = wm
<1>1. Msg.from = Notes /\ Msg.id = WinId(Shell)
  BY DEF MsgOK
<1>2. WinId(Notes) # WinId(Shell)
  BY DisplayAssumption DEF WinId
<1>3. Find(wm, Msg.from, Msg.id) = {}
  BY <1>1, <1>2 DEF IsTidy, Find
<1> QED
  BY <1>3 DEF Move, With

LEMMA CreateKeepsWindows ==
  ASSUME DisplayInv, WindowsInv, MsgOK(Msg), HandleCreate
  PROVE  /\ WindowsInv' /\ Grown(wm.windows, wm'.windows)
         /\ wm.windows = <<>> => wm'.windows = <<>> \/ wm'.windows[1].owner = Msg.from
<1> DEFINE W == wm.windows
           V == wm'.windows
           b == Msg.from
<1>1. /\ req # <<>> /\ req' = Tail(req) /\ UNCHANGED <<apc, on, shown, lost>>
      /\ wm' = Create(wm, b, Msg.id, Msg.rect) /\ Msg.op = "create"
  BY DEF HandleCreate, Takes, Unshown, apps
<1>2. b \in Apps /\ Msg.id = WinId(b) /\ Msg.rect = Place(b)
  BY <1>1 DEF MsgOK
<1>3. \/ V = W
      \/ \E x : /\ Added(W, V, x)
                /\ x.owner = b /\ x.id = Msg.id /\ x.rect = Clamp(Msg.rect) /\ x.z = wm.next_z
  <2> DEFINE v == wm'
             id == Msg.id
             rect == Msg.rect
  <2>1. v = Create(wm, b, id, rect) /\ V = v.windows /\ IsWm(wm)
    BY <1>1 DEF DisplayInv
  <2> HIDE DEF b, v, id, rect
  <2>2. \/ v.windows = wm.windows
        \/ \E x : /\ Added(wm.windows, v.windows, x)
                  /\ x.owner = b /\ x.id = id /\ x.rect = Clamp(rect) /\ x.z = wm.next_z
    BY <1>2, <2>1, CreateDoes
  <2> QED
    BY <2>1, <2>2 DEF id, rect
<1>4. AllOK(req) /\ IsWm(wm) /\ W \in Seq(WindowType) /\ IsTidy(W) /\ IsSeen(W, shown, lost)
  BY DEF DisplayInv, WindowsInv, IsWm
<1>5. ~HasWindow(W, b)
  <2>1. IsUpToDate(b, req, W, apc[b], on[b]) /\ Head(req).op = "create" /\ Head(req).from = b
    BY <1>1, <1>2 DEF WindowsInv, Msg
  <2> QED
    BY <1>1, <1>4, <2>1, UpToDateCreated
<1> HIDE DEF V, W, b
<1>7. /\ IsTidy(V) /\ Len(W) <= Len(V) /\ \A i \in DOMAIN W : i \in DOMAIN V /\ V[i] = W[i]
      /\ \A a : HasWindow(V, a) => HasWindow(W, a) \/ a = b
      /\ V = W \/ (Len(V) = Len(W) + 1 /\ V[Len(V)].owner = b)
      /\ \A a, r : a # b /\ Drawn(W, a, r) => Drawn(V, a, r)
  <2>1. CASE V = W
    BY <1>4, <2>1
  <2>2. ASSUME NEW x, Added(W, V, x), x.owner = b, x.id = Msg.id, x.rect = Clamp(Msg.rect), x.z = wm.next_z
        PROVE  /\ IsTidy(V) /\ Len(W) <= Len(V) /\ \A i \in DOMAIN W : i \in DOMAIN V /\ V[i] = W[i]
               /\ \A a : HasWindow(V, a) => HasWindow(W, a) \/ a = b
               /\ V = W \/ (Len(V) = Len(W) + 1 /\ V[Len(V)].owner = b)
               /\ \A a, r : a # b /\ Drawn(W, a, r) => Drawn(V, a, r)
    <3>1. /\ IsTidy(V) /\ DOMAIN W \subseteq DOMAIN V
          /\ Len(V) = Len(W) + 1 /\ V[Len(V)] = x /\ \A i \in DOMAIN W : V[i] = W[i]
          /\ \A a : HasWindow(V, a) => HasWindow(W, a) \/ a = x.owner
      <4> DEFINE k == wm
      <4>1. W = k.windows /\ ~HasWindow(W, x.owner) /\ IsWm(k) /\ IsTidy(W)
        BY <1>4, <1>5, <2>2 DEF W
      <4>2. x.id = WinId(x.owner) /\ x.rect = Clamp(Place(x.owner)) /\ x.z = k.next_z
        BY <1>2, <2>2
      <4> HIDE DEF k
      <4> QED
        BY <2>2, <4>1, <4>2, TidyCreated
    <3>2. \A i \in DOMAIN V : i \in DOMAIN W \/ V[i] = x
      <4>1. V = Append(W, x)
        BY <2>2 DEF Added
      <4> QED
        BY <1>4, <3>1, <4>1
    <3>3. \A a, r : a # b /\ Drawn(W, a, r) => Drawn(V, a, r)
      BY <2>2, <3>1, <3>2 DEF Drawn
    <3>4. Len(W) \in Nat
      BY <1>4
    <3> QED
      BY <2>2, <3>1, <3>3, <3>4
  <2> QED
    BY <1>3, <2>1, <2>2
<1>8. IsSeen(V, shown, lost)
  BY <1>4, <1>7, SeenKept
<1>9. ASSUME NEW a \in Apps
      PROVE  IsUpToDate(a, Tail(req), V, apc[a], on[a])
  <2>1. IsUpToDate(a, req, W, apc[a], on[a])
    BY DEF WindowsInv, W
  <2>2. CASE a = b
    <3>1. Head(req).op = "create" /\ Head(req).from = a
      BY <1>1, <2>2 DEF Msg, b
    <3> QED
      BY <1>1, <1>4, <2>1, <3>1, UpToDateCreated
  <2>3. CASE a # b
    <3>1. Foreign(Head(req), a)
      BY <2>3 DEF Foreign, Msg, b
    <3>2. (HasWindow(V, a) => HasWindow(W, a)) /\ (Drawn(W, a, on[a]) => Drawn(V, a, on[a]))
      BY <1>7, <2>3
    <3> QED
      BY <1>1, <1>4, <2>1, <3>1, <3>2, UpToDateTake
  <2> QED
    BY <2>2, <2>3
<1>10. WindowsInv'
  BY <1>1, <1>7, <1>8, <1>9 DEF WindowsInv, V
<1>11. Grown(W, V)
  <2>1. W # <<>> => 1 \in DOMAIN W
    BY <1>4
  <2>2. W # <<>> => V # <<>> /\ V[1].owner = W[1].owner
    BY <1>7, <2>1
  <2> QED
    BY <1>7, <2>2 DEF Grown
<1>12. W = <<>> => V = <<>> \/ V[1].owner = b
  BY <1>7
<1> QED
  BY <1>10, <1>11, <1>12 DEF W, V, b

LEMMA RaiseKeepsWindows ==
  ASSUME DisplayInv, WindowsInv, HandleRaise
  PROVE  WindowsInv' /\ Grown(wm.windows, wm'.windows) /\ (wm.windows = <<>> => wm'.windows = <<>>)
<1> DEFINE W == wm.windows
           V == wm'.windows
<1>1. /\ req # <<>> /\ req' = Tail(req) /\ UNCHANGED <<apc, on, shown, lost>>
      /\ wm' = Raise(wm, Msg.from, Msg.id) /\ Msg.op = "raise"
  BY DEF HandleRaise, Takes, Unshown, apps
<1>2. /\ AllOK(req) /\ IsWm(wm) /\ W \in Seq(WindowType) /\ IsTidy(W) /\ IsSeen(W, shown, lost)
      /\ \A i \in DOMAIN W : W[i].z < wm.next_z
  BY DEF DisplayInv, WindowsInv, IsWm
<1>3. CASE V = W
  BY <1>1, <1>2, <1>3, SameWindows
<1>4. ASSUME NEW i \in DOMAIN W, NEW x \in WindowType,
             Swapped(W, V, i, x),
             x.owner = W[i].owner, x.id = W[i].id,
             x.rect = W[i].rect, x.cmds = W[i].cmds,
             x.z = wm.next_z
      PROVE  WindowsInv' /\ Grown(W, V) /\ (W = <<>> => V = <<>>)
  <2>1. \A j \in DOMAIN W : W[j].z < x.z
    BY <1>2, <1>4
  <2> HIDE DEF W, V
  <2>2. /\ IsTidy(V)
        /\ \A a : HasWindow(V, a) <=> HasWindow(W, a)
        /\ V \in Seq(WindowType) /\ Len(V) = Len(W) /\ DOMAIN V = DOMAIN W
        /\ V[i] = x /\ \A j \in DOMAIN W : j # i => V[j] = W[j]
    BY <1>2, <1>4, <2>1, TidyKept
  <2>3. \A j \in DOMAIN W : V[j].owner = W[j].owner /\ V[j].rect = W[j].rect /\ V[j].cmds = W[j].cmds
    BY <1>4, <2>2
  <2>4. IsSeen(V, shown, lost)
    BY <1>2, <2>2, <2>3, SeenKept
  <2>5. \A a, r : Drawn(W, a, r) => Drawn(V, a, r)
    BY <2>2, <2>3 DEF Drawn
  <2>6. WindowsInv'
    BY <1>1, <1>2, <2>2, <2>4, <2>5, WindowsTake DEF W, V
  <2>7. W # <<>> /\ 1 \in DOMAIN W /\ V # <<>>
    BY <1>2, <2>2
  <2>8. Grown(W, V)
    BY <1>2, <2>2, <2>3, <2>7 DEF Grown
  <2> QED
    BY <2>6, <2>7, <2>8
<1>5. \/ V = W
      \/ \E i \in DOMAIN W, x \in WindowType :
            /\ Swapped(W, V, i, x)
            /\ x.owner = W[i].owner /\ x.id = W[i].id /\ x.rect = W[i].rect /\ x.cmds = W[i].cmds
            /\ x.z = wm.next_z
  <2> DEFINE k == wm
             v == wm'
             from == Msg.from
             id == Msg.id
  <2>1. IsWm(k) /\ v = Raise(k, from, id)
    BY <1>1, <1>2
  <2>2. W = k.windows /\ V = v.windows /\ wm.next_z = k.next_z
    OBVIOUS
  <2> HIDE DEF k, v, from, id, W, V
  <2> QED
    BY <2>1, <2>2, RaiseDoes
<1> QED
  BY <1>3, <1>4, <1>5

\* What is seen is as it was, outside the damage of a drawing.
LEMMA DrawKeepsWindows ==
  ASSUME DisplayInv, WindowsInv, MsgOK(Msg), HandleDraw
  PROVE  WindowsInv' /\ Grown(wm.windows, wm'.windows) /\ (wm.windows = <<>> => wm'.windows = <<>>)
<1> DEFINE W == wm.windows
           b == Msg.from
           v == Push(Reset(wm, b, Msg.id), b, Msg.id, Msg.rows)
           V == v.windows
<1>1. /\ req # <<>> /\ req' = Tail(req) /\ UNCHANGED <<apc, on>>
      /\ Compose(v, root) /\ Msg.op = "draw"
  BY DEF HandleDraw, Takes, apps
<1>2. b \in Apps /\ Msg.id = WinId(b) /\ Msg.rows \in Seq(Nat)
  BY <1>1 DEF MsgOK
<1>3. AllOK(req) /\ IsWm(wm) /\ W \in Seq(WindowType) /\ IsTidy(W) /\ IsSeen(W, shown, lost)
  BY DEF DisplayInv, WindowsInv, IsWm
<1>4. IsWm(v)
  <2> DEFINE u == Reset(wm, b, Msg.id)
  <2>1. IsWm(u) /\ v = Push(u, b, Msg.id, Msg.rows)
    BY <1>3, ResetCovers
  <2> HIDE DEF u
  <2> QED
    BY <1>2, <2>1, PushCovers
<1>5. v = Push(Reset(wm, b, WinId(b)), b, WinId(b), Msg.rows)
  BY <1>2
<1>6. CASE HasWindow(W, b)
  <2>1. PICK i \in DOMAIN W : W[i].owner = b
    BY <1>6 DEF HasWindow
  <2>2. PICK y \in WindowType :
            /\ y.owner = b /\ y.cmds = Msg.rows
            /\ y.id = W[i].id /\ y.rect = W[i].rect /\ y.z = W[i].z
            /\ Swapped(W, V, i, y)
            /\ \A p \in Point : Contains(y.rect, p) => Contains(v.damage, p)
    <3> HIDE DEF b, v
    <3>1. b = wm.windows[i].owner
      BY <2>1
    <3> QED
      <4> DEFINE k == wm
                 rows == Msg.rows
      <4>1. /\ IsWm(k) /\ IsTidy(k.windows) /\ i \in DOMAIN k.windows /\ b = k.windows[i].owner
            /\ rows \in Seq(Nat) /\ v = Push(Reset(k, b, WinId(b)), b, WinId(b), rows)
        BY <1>2, <1>3, <1>5, <3>1
      <4>2. W = k.windows
        OBVIOUS
      <4> HIDE DEF k, rows, W
      <4>3. \E y \in WindowType :
               /\ y.owner = b /\ y.cmds = rows
               /\ y.id = k.windows[i].id /\ y.rect = k.windows[i].rect /\ y.z = k.windows[i].z
               /\ Swapped(k.windows, v.windows, i, y)
               /\ \A p \in Point : Contains(y.rect, p) => Contains(v.damage, p)
        BY <4>1, DrawDoes
      <4> QED
        BY <4>2, <4>3 DEF rows
  <2>3. y.owner = W[i].owner
    BY <2>1, <2>2
  <2> HIDE DEF v, b
  <2> DEFINE U == V
  <2>4. Swapped(W, U, i, y)
    BY <2>2
  <2> HIDE DEF U, W
  <2>5. /\ IsTidy(U)
        /\ \A a : HasWindow(U, a) <=> HasWindow(W, a)
        /\ U \in Seq(WindowType) /\ Len(U) = Len(W) /\ DOMAIN U = DOMAIN W
        /\ U[i] = y /\ \A j \in DOMAIN W : j # i => U[j] = W[j]
    <3>1. /\ y.owner = W[i].owner /\ y.id = W[i].id /\ y.rect = W[i].rect /\ y.z = W[i].z
          /\ y \in WindowType /\ i \in DOMAIN W /\ W \in Seq(WindowType) /\ IsTidy(W)
      BY <1>3, <2>1, <2>2, <2>3
    <3> QED
      BY <2>4, <3>1, TidyKept
  <2>6. \A p \in Point : shown[p][1] \in Apps /\ p \notin lost /\ ~Contains(v.damage, p) =>
            \E j \in DOMAIN U : Contains(U[j].rect, p) /\ shown[p] = Paint(U[j], p)
    <3> SUFFICES ASSUME NEW p \in Point, shown[p][1] \in Apps, p \notin lost, ~Contains(v.damage, p)
                 PROVE  \E j \in DOMAIN U : Contains(U[j].rect, p) /\ shown[p] = Paint(U[j], p)
      OBVIOUS
    <3>1. PICK j \in DOMAIN W : Contains(W[j].rect, p) /\ shown[p] = Paint(W[j], p)
      BY <1>3 DEF IsSeen
    <3>2. j # i
      BY <2>2, <3>1
    <3> QED
      BY <2>5, <3>1, <3>2
  <2>7. IsSeen(wm.windows, shown, lost)' /\ wm'.windows = U
    BY <1>1, <1>4, <2>6, SeenComposed DEF U
  <2>8. ASSUME NEW a \in Apps
        PROVE  IsUpToDate(a, Tail(req), U, apc[a], on[a])
    <3>1. IsUpToDate(a, req, W, apc[a], on[a])
      BY DEF WindowsInv, W
    <3>2. CASE a = b
      <4>1. Head(req).op = "draw" /\ Head(req).from = a
        BY <1>1, <3>2 DEF Msg, b
      <4>2. \A j \in DOMAIN U : U[j].owner = b => j = i
        BY <2>2, <2>5 DEF IsTidy
      <4>3. Drawn(U, a, Head(req).rows)
        BY <2>2, <2>5, <3>2, <4>2 DEF Drawn, Msg
      <4> QED
        BY <1>1, <1>3, <2>5, <3>1, <4>1, <4>3, UpToDateDrawn
    <3>3. CASE a # b
      <4>1. Foreign(Head(req), a)
        BY <3>3 DEF Foreign, Msg, b
      <4>2. Drawn(W, a, on[a]) => Drawn(U, a, on[a])
        BY <2>2, <2>5, <3>3 DEF Drawn
      <4> QED
        BY <1>1, <1>3, <2>5, <3>1, <4>1, <4>2, UpToDateTake
    <3> QED
      BY <3>2, <3>3
  <2>9. WindowsInv'
    BY <1>1, <2>5, <2>7, <2>8 DEF WindowsInv
  <2>10. W # <<>> /\ 1 \in DOMAIN W /\ U # <<>>
    BY <1>3, <2>5
  <2>11. U[1].owner = W[1].owner
    BY <2>3, <2>5, <2>10
  <2>12. Grown(W, U)
    BY <1>3, <2>5, <2>10, <2>11 DEF Grown
  <2> QED
    BY <2>7, <2>9, <2>10, <2>12 DEF W
<1>7. CASE ~HasWindow(W, b)
  <2>1. v = wm
    <3>1. \A i \in DOMAIN wm.windows : wm.windows[i].owner # b
      BY <1>7 DEF HasWindow
    <3>2. Find(wm, b, Msg.id) = {}
      BY <3>1 DEF Find
    <3>3. Reset(wm, b, Msg.id) = wm /\ Push(wm, b, Msg.id, Msg.rows) = wm
      BY <3>2 DEF Reset, Push, With
    <3> QED
      BY <3>3
  <2> HIDE DEF v
  <2>2. IsSeen(wm.windows, shown, lost)' /\ wm'.windows = W
    BY <1>1, <1>3, <1>4, <2>1, SeenComposed DEF IsSeen
  <2>3. ASSUME NEW a \in Apps
        PROVE  IsUpToDate(a, Tail(req), W, apc[a], on[a])
    <3>1. IsUpToDate(a, req, W, apc[a], on[a])
      BY DEF WindowsInv
    <3>2. CASE a = b
      <4>1. Head(req).op = "draw" /\ Head(req).from = a
        BY <1>1, <3>2 DEF Msg
      <4>3. Drawn(W, a, Head(req).rows)
        BY <1>7, <3>2 DEF Drawn, HasWindow
      <4> QED
        BY <1>1, <1>3, <3>1, <4>1, <4>3, UpToDateDrawn
    <3>3. CASE a # b
      <4>1. Foreign(Head(req), a)
        BY <3>3 DEF Foreign, Msg
      <4> QED
        BY <1>1, <1>3, <3>1, <4>1, UpToDateTake
    <3> QED
      BY <3>2, <3>3
  <2>4. WindowsInv'
    BY <1>1, <1>3, <2>2, <2>3 DEF WindowsInv
  <2> QED
    BY <1>3, <2>2, <2>4, SameGrown
<1> QED
  BY <1>6, <1>7

-----------------------------------------------------------------------------
(***************************************************************************)
(* The introductions.                                                      *)
(***************************************************************************)
LEMMA IntroAppend ==
  ASSUME NEW q, AllOK(q), NEW m, NEW pid
  PROVE  /\ Introductions(q, pid) \subseteq 1 .. Len(q) /\ Len(q) \in Nat
         /\ Introductions(Append(q, m), pid) =
               IF m.op = "client" /\ m.pid = pid THEN Introductions(q, pid) \cup {Len(q) + 1}
                                                 ELSE Introductions(q, pid)
<1> DEFINE n == Len(q)
           t == Append(q, m)
<1>1. /\ n \in Nat /\ DOMAIN q = 1 .. n /\ DOMAIN t = 1 .. n + 1
      /\ (\A i \in 1 .. n : t[i] = q[i]) /\ t[n + 1] = m
  BY AppendedAt
<1> HIDE DEF n, t
<1>2. 1 .. n + 1 = (1 .. n) \cup {n + 1}
  BY <1>1
<1>3. Introductions(t, pid) = IF m.op = "client" /\ m.pid = pid THEN Introductions(q, pid) \cup {n + 1}
                                                               ELSE Introductions(q, pid)
  BY <1>1, <1>2 DEF Introductions
<1> QED
  BY <1>1, <1>3 DEF Introductions, n, t

LEMMA IntroTail ==
  ASSUME NEW q, AllOK(q), q # <<>>, NEW pid
  PROVE  /\ Introductions(q, pid) \subseteq Nat \ {0}
         /\ \A i : i \in Introductions(Tail(q), pid) <=> i \in Nat \ {0} /\ i + 1 \in Introductions(q, pid)
         /\ 1 \in Introductions(q, pid) <=> Head(q).op = "client" /\ Head(q).pid = pid
<1> DEFINE n == Len(q)
           t == Tail(q)
           h == Head(q)
<1>1. /\ n \in Nat \ {0} /\ DOMAIN q = 1 .. n /\ DOMAIN t = 1 .. n - 1
      /\ (\A i \in 1 .. n - 1 : t[i] = q[i + 1]) /\ h = q[1]
  BY TailedAt
<1> HIDE DEF n, t, h
<1>2. \A i \in Nat \ {0} : i \in 1 .. n - 1 <=> i + 1 \in 1 .. n
  BY <1>1
<1>3. \A i \in 1 .. n - 1 : i \in Nat \ {0}
  BY <1>1
<1>4. \A i : i \in Introductions(t, pid) <=> i \in Nat \ {0} /\ i + 1 \in Introductions(q, pid)
  BY <1>1, <1>2, <1>3 DEF Introductions
<1>5. 1 \in Introductions(q, pid) <=> h.op = "client" /\ h.pid = pid
  BY <1>1 DEF Introductions
<1> QED
  BY <1>1, <1>4, <1>5 DEF Introductions, n, t, h

\* Other messages do not matter.
LEMMA IntroducedSend ==
  ASSUME NEW q, AllOK(q), NEW C, NEW k, IsIntroduced(q, C, k), NEW m, m.op # "client"
  PROVE  IsIntroduced(Append(q, m), C, k)
<1> DEFINE t == Append(q, m)
<1>1. \A pid : Introductions(t, pid) = Introductions(q, pid)
  BY IntroAppend
<1>2. \A i \in DOMAIN t : t[i].op = "client" => t[i].pid \in Apps
  <2> DEFINE n == Len(q)
  <2>1. /\ n \in Nat /\ DOMAIN q = 1 .. n /\ DOMAIN t = 1 .. n + 1
        /\ (\A i \in 1 .. n : t[i] = q[i]) /\ t[n + 1] = m
    BY AppendedAt
  <2> HIDE DEF n, t
  <2>2. 1 .. n + 1 = (1 .. n) \cup {n + 1}
    BY <2>1
  <2> QED
    BY <2>1, <2>2 DEF IsIntroduced
<1> HIDE DEF t
<1>3. IsIntroduced(t, C, k)
  BY <1>1, <1>2 DEF IsIntroduced
<1> QED
  BY <1>3 DEF t

\* What a message taken from the queue leaves.
LEMMA IntroducedTail ==
  ASSUME NEW q, AllOK(q), q # <<>>, NEW C, NEW k, IsIntroduced(q, C, k)
  PROVE  /\ \A i \in DOMAIN Tail(q) : Tail(q)[i].op = "client" => Tail(q)[i].pid \in Apps
         /\ \A pid \in Apps : \A i, j \in Introductions(Tail(q), pid) : i = j
         /\ \A i \in Introductions(Tail(q), Shell), j \in Introductions(Tail(q), Notes) : i < j
         /\ Head(q).op = "client" => Head(q).pid \in Apps
         /\ \A pid \in Apps : ~(Head(q).op = "client" /\ Head(q).pid = pid) =>
               (Introductions(Tail(q), pid) = {} <=> Introductions(q, pid) = {})
         /\ Head(q).op = "client" => Introductions(Tail(q), Head(q).pid) = {}
<1> DEFINE t == Tail(q)
           h == Head(q)
           n == Len(q)
<1>1. /\ n \in Nat \ {0} /\ DOMAIN q = 1 .. n /\ DOMAIN t = 1 .. n - 1
      /\ (\A i \in 1 .. n - 1 : t[i] = q[i + 1]) /\ h = q[1]
  BY TailedAt
<1>2. \A pid : /\ Introductions(q, pid) \subseteq Nat \ {0}
               /\ \A i : i \in Introductions(t, pid) <=> i \in Nat \ {0} /\ i + 1 \in Introductions(q, pid)
               /\ 1 \in Introductions(q, pid) <=> h.op = "client" /\ h.pid = pid
  BY IntroTail
<1> HIDE DEF t, h, n
<1>3. (\A i \in DOMAIN t : t[i].op = "client" => t[i].pid \in Apps) /\ (h.op = "client" => h.pid \in Apps)
  <2>1. \A i \in 1 .. n - 1 : i + 1 \in 1 .. n
    BY <1>1
  <2>2. 1 \in 1 .. n
    BY <1>1
  <2> QED
    BY <1>1, <2>1, <2>2 DEF IsIntroduced
<1>4. ASSUME NEW pid \in Apps, NEW i \in Introductions(t, pid), NEW j \in Introductions(t, pid)
      PROVE  i = j
  <2>1. i + 1 \in Introductions(q, pid) /\ j + 1 \in Introductions(q, pid) /\ i \in Nat /\ j \in Nat
    BY <1>2
  <2>2. i + 1 = j + 1
    BY <2>1 DEF IsIntroduced
  <2> QED
    BY <2>1, <2>2
<1>5. ASSUME NEW i \in Introductions(t, Shell), NEW j \in Introductions(t, Notes)
      PROVE  i < j
  <2>1. i + 1 \in Introductions(q, Shell) /\ j + 1 \in Introductions(q, Notes) /\ i \in Nat /\ j \in Nat
    BY <1>2
  <2>2. i + 1 < j + 1
    BY <2>1 DEF IsIntroduced
  <2> QED
    BY <2>1, <2>2
<1>6. ASSUME NEW pid \in Apps, ~(h.op = "client" /\ h.pid = pid)
      PROVE  Introductions(t, pid) = {} <=> Introductions(q, pid) = {}
  <2>1. \A i \in Introductions(q, pid) : i - 1 \in Introductions(t, pid)
    <3>1. 1 \notin Introductions(q, pid) /\ Introductions(q, pid) \subseteq Nat \ {0}
      BY <1>2, <1>6
    <3> QED
      BY <1>2, <3>1
  <2>2. \A i \in Introductions(t, pid) : i + 1 \in Introductions(q, pid)
    BY <1>2
  <2> QED
    BY <2>1, <2>2
<1>7. ASSUME h.op = "client", NEW i \in Introductions(t, h.pid)
      PROVE  FALSE
  <2>1. h.pid \in Apps /\ 1 \in Introductions(q, h.pid) /\ i + 1 \in Introductions(q, h.pid) /\ i \in Nat \ {0}
    BY <1>2, <1>3, <1>7
  <2>2. i + 1 = 1
    BY <2>1 DEF IsIntroduced
  <2> QED
    BY <2>1, <2>2
<1>8. h.op = "client" => Introductions(t, h.pid) = {}
  BY <1>7
<1> QED
  BY <1>3, <1>4, <1>5, <1>6, <1>8 DEF t, h

LEMMA IntroducedPass ==
  ASSUME NEW q, AllOK(q), q # <<>>, NEW C, NEW k, IsIntroduced(q, C, k), Head(q).op # "client"
  PROVE  IsIntroduced(Tail(q), C, k)
<1> DEFINE t == Tail(q)
<1>1. /\ \A i \in DOMAIN t : t[i].op = "client" => t[i].pid \in Apps
      /\ \A pid \in Apps : \A i, j \in Introductions(t, pid) : i = j
      /\ \A i \in Introductions(t, Shell), j \in Introductions(t, Notes) : i < j
      /\ Introductions(t, Shell) = {} <=> Introductions(q, Shell) = {}
      /\ Introductions(t, Notes) = {} <=> Introductions(q, Notes) = {}
  BY IntroducedTail DEF Apps
<1> HIDE DEF t
<1>2. IsIntroduced(t, C, k)
  BY <1>1 DEF IsIntroduced
<1> QED
  BY <1>2 DEF t

\* An introduction gets the next slot.
LEMMA IntroducedTaken ==
  ASSUME NEW q, AllOK(q), q # <<>>, NEW C, NEW k \in 0 .. 2, IsIntroduced(q, C, k), Head(q).op = "client"
  PROVE  IsIntroduced(Tail(q), Append(C, Head(q).pid), k) /\ Len(C) < MaxClients
<1> DEFINE t == Tail(q)
           h == Head(q)
<1>1. /\ \A i \in DOMAIN t : t[i].op = "client" => t[i].pid \in Apps
      /\ \A pid \in Apps : \A i, j \in Introductions(t, pid) : i = j
      /\ \A i \in Introductions(t, Shell), j \in Introductions(t, Notes) : i < j
      /\ h.pid \in Apps /\ Introductions(t, h.pid) = {}
      /\ \A pid \in Apps : h.pid # pid => (Introductions(t, pid) = {} <=> Introductions(q, pid) = {})
  BY IntroducedTail
<1>2. 1 \in Introductions(q, h.pid)
  BY IntroTail
<1>3. Introductions(q, Shell) \subseteq Nat \ {0}
  BY IntroTail
<1>4. h.pid \in {Shell, Notes} /\ Shell # Notes /\ Shell \in Apps /\ Notes \in Apps
  BY <1>1, DisplayAssumption DEF Apps
<1> HIDE DEF t, h
<1> DEFINE D == Append(C, h.pid)
<1>7. /\ Len(C) \in Nat /\ D \in Seq(Apps) /\ Len(D) = Len(C) + 1
      /\ D[Len(C) + 1] = h.pid /\ \A i \in 1 .. Len(C) : D[i] = C[i]
  <2>1. C \in Seq(Apps)
    BY DEF IsIntroduced
  <2> QED
    BY <1>1, <2>1, AppendProperties
<1> HIDE DEF D
<1>5. CASE h.pid = Shell
  <2>1. Len(C) = 0 /\ k >= 1
    BY <1>2, <1>5 DEF IsIntroduced
  <2>2. Len(D) = 1 /\ D[1] = Shell
    BY <1>5, <1>7, <2>1
  <2>3. Introductions(t, Shell) = {} /\ (Introductions(t, Notes) = {} <=> Introductions(q, Notes) = {})
    BY <1>1, <1>4, <1>5
  <2>4. IF k >= 2 THEN Introductions(t, Notes) # {} ELSE Introductions(t, Notes) = {}
    BY <2>1, <2>3 DEF IsIntroduced
  <2>5. IsIntroduced(t, D, k)
    BY <1>1, <1>7, <2>1, <2>2, <2>3, <2>4 DEF IsIntroduced
  <2> QED
    BY <2>1, <2>5 DEF MaxClients, t, h, D
<1>6. CASE h.pid = Notes
  <2>1. Introductions(q, Shell) = {}
    <3>1. \A i \in Introductions(q, Shell) : i < 1
      BY <1>2, <1>6 DEF IsIntroduced
    <3> QED
      BY <1>3, <3>1
  <2>2. Len(C) = 1 /\ k >= 2 /\ C[1] = Shell
    <3>1. Introductions(q, Notes) # {}
      BY <1>2, <1>6
    <3>2. k >= 2 /\ Len(C) # 2
      BY <3>1 DEF IsIntroduced
    <3>3. k >= 1
      BY <3>2
    <3>4. Len(C) # 0
      BY <2>1, <3>3 DEF IsIntroduced
    <3>5. Len(C) <= 2 /\ (Len(C) >= 1 => C[1] = Shell)
      BY DEF IsIntroduced
    <3> DEFINE l == Len(C)
    <3>6. l \in Nat /\ l # 2 /\ l # 0 /\ l <= 2 /\ (l >= 1 => C[1] = Shell)
      BY <1>7, <3>2, <3>4, <3>5
    <3> HIDE DEF l
    <3>7. l = 1
      BY <3>6
    <3> QED
      BY <3>2, <3>6, <3>7 DEF l
  <2>3. Len(D) = 2 /\ D[1] = Shell /\ D[2] = Notes
    BY <1>6, <1>7, <2>2
  <2>4. Introductions(t, Notes) = {} /\ Introductions(t, Shell) = {}
    BY <1>1, <1>4, <1>6, <2>1
  <2>5. IsIntroduced(t, D, k)
    BY <1>1, <1>7, <2>2, <2>3, <2>4 DEF IsIntroduced
  <2> QED
    BY <2>2, <2>5 DEF MaxClients, t, h, D
<1> QED
  BY <1>4, <1>5, <1>6

\* The kernel introduces the next one.
LEMMA IntroducedAsk ==
  ASSUME NEW q, AllOK(q), NEW C, NEW k \in 0 .. 1, IsIntroduced(q, C, k),
         NEW m, m.op = "client", m.pid = IF k = 0 THEN Shell ELSE Notes
  PROVE  IsIntroduced(Append(q, m), C, k + 1)
<1> DEFINE t == Append(q, m)
           n == Len(q) + 1
<1>0. Shell # Notes /\ Shell \in Apps /\ Notes \in Apps /\ Apps = {Shell, Notes}
  BY DisplayAssumption DEF Apps
<1>1. \A pid : /\ Introductions(q, pid) \subseteq 1 .. Len(q) /\ Len(q) \in Nat
               /\ Introductions(t, pid) = IF m.pid = pid THEN Introductions(q, pid) \cup {n} ELSE Introductions(q, pid)
  BY IntroAppend
<1>2. \A i \in DOMAIN t : t[i].op = "client" => t[i].pid \in Apps
  <2> DEFINE l == Len(q)
  <2>1. /\ l \in Nat /\ DOMAIN q = 1 .. l /\ DOMAIN t = 1 .. l + 1
        /\ (\A i \in 1 .. l : t[i] = q[i]) /\ t[l + 1] = m
    BY AppendedAt
  <2> HIDE DEF l, t
  <2>2. 1 .. l + 1 = (1 .. l) \cup {l + 1}
    BY <2>1
  <2> QED
    BY <1>0, <2>1, <2>2 DEF IsIntroduced
<1>3. \A i \in Introductions(q, Shell) : i < n
  BY <1>1
<1> HIDE DEF t, n
<1>4. CASE k = 0
  <2>1. Len(C) = 0 /\ Introductions(q, Shell) = {} /\ Introductions(q, Notes) = {} /\ m.pid = Shell
    BY <1>4 DEF IsIntroduced
  <2>2. Introductions(t, Shell) = {n} /\ Introductions(t, Notes) = {}
    BY <1>0, <1>1, <2>1
  <2>3. IsIntroduced(t, C, 1)
    BY <1>0, <1>2, <2>1, <2>2 DEF IsIntroduced
  <2> QED
    BY <1>4, <2>3 DEF t
<1>5. CASE k = 1
  <2>1. /\ (Len(C) = 0 <=> Introductions(q, Shell) # {})
        /\ Len(C) # 2 /\ Introductions(q, Notes) = {} /\ m.pid = Notes
    BY <1>5 DEF IsIntroduced
  <2>2. Introductions(t, Shell) = Introductions(q, Shell) /\ Introductions(t, Notes) = {n}
    BY <1>0, <1>1, <2>1
  <2>3. \A i, j \in Introductions(q, Shell) : i = j
    BY <1>0 DEF IsIntroduced
  <2>4. IsIntroduced(t, C, 2)
    <3>1. C \in Seq(Apps) /\ Len(C) <= 2 /\ (Len(C) >= 1 => C[1] = Shell) /\ (Len(C) = 2 => C[2] = Notes)
      BY DEF IsIntroduced
    <3> QED
      BY <1>0, <1>2, <1>3, <2>1, <2>2, <2>3, <3>1 DEF IsIntroduced
  <2> QED
    BY <1>5, <2>4 DEF t
<1> QED
  BY <1>4, <1>5

-----------------------------------------------------------------------------
(***************************************************************************)
(* The server's messages in the session.                                   *)
(***************************************************************************)
LEMMA ServerTakes ==
  ASSUME ServerNext
  PROVE  /\ req # <<>> /\ req' = Tail(req) /\ UNCHANGED <<apc, on, at, waiting>>
         /\ rep' = rep \/ rep' = Append(rep, Len(wm.windows))
         /\ ev' = ev \/ HandleInput
         /\ Msg.op # "client" => clients' = clients
<1> USE DEF Takes, kernel, apps, Quiet, Answer
<1>1. CASE HandleInput
  BY <1>1 DEF HandleInput, server
<1>2. CASE HandleCreate
  BY <1>2 DEF HandleCreate
<1>3. CASE HandleRaise
  BY <1>3 DEF HandleRaise
<1>4. CASE HandleDraw
  BY <1>4 DEF HandleDraw
<1>5. CASE HandleMove
  BY <1>5 DEF HandleMove
<1>6. CASE HandleFrame
  BY <1>6 DEF HandleFrame
<1>7. CASE HandleCompose
  BY <1>7 DEF HandleCompose
<1>8. CASE HandleStats
  BY <1>8 DEF HandleStats
<1>9. CASE HandleClient
  BY <1>9 DEF HandleClient
<1>10. CASE HandleShutdown
  BY <1>10 DEF HandleShutdown
<1> QED
  BY <1>1, <1>2, <1>3, <1>4, <1>5, <1>6, <1>7, <1>8, <1>9, <1>10 DEF ServerNext

LEMMA ServerKeepsWindows ==
  ASSUME DisplayInv, WindowsInv, ServerNext
  PROVE  /\ WindowsInv' /\ Grown(wm.windows, wm'.windows)
         /\ wm.windows = <<>> => \/ wm'.windows = <<>>
                                 \/ Msg.op = "create" /\ Msg.from \in Apps /\ wm'.windows[1].owner = Msg.from
<1>1. req # <<>> /\ req' = Tail(req) /\ UNCHANGED <<apc, on>>
  BY ServerTakes
<1>2. MsgOK(Msg)
  BY <1>1, TailOK DEF Msg, DisplayInv
<1>3. IsWm(wm) /\ IsSeen(wm.windows, shown, lost) /\ IsTidy(wm.windows)
  BY DEF DisplayInv, WindowsInv
<1>4. CASE HandleCreate
  <2>1. Msg.op = "create" /\ Msg.from \in Apps
    BY <1>2, <1>4 DEF HandleCreate, Takes, MsgOK
  <2> QED
    BY <1>2, <1>4, <2>1, CreateKeepsWindows
<1>5. CASE HandleRaise
  BY <1>5, RaiseKeepsWindows
<1>6. CASE HandleDraw
  BY <1>2, <1>6, DrawKeepsWindows
<1>7. CASE UNCHANGED <<wm, shown, lost>> /\ Msg.op \notin {"create", "draw"}
  <2>1. wm'.windows = wm.windows /\ IsSeen(wm.windows, shown, lost)'
    BY <1>3, <1>7 DEF IsSeen
  <2> QED
    BY <1>1, <1>7, <2>1, SameWindows
<1>8. ASSUME NEW w, NEW r, Compose(w, r), IsWm(w), w.windows = wm.windows, Msg.op \notin {"create", "draw"}
      PROVE  /\ WindowsInv' /\ Grown(wm.windows, wm'.windows)
             /\ wm.windows = <<>> => wm'.windows = <<>>
  <2>1. IsSeen(wm.windows, shown, lost)' /\ wm'.windows = wm.windows
    BY <1>3, <1>8, SeenComposed DEF IsSeen
  <2> QED
    BY <1>1, <1>8, <2>1, SameWindows
<1>9. CASE HandleInput
  BY <1>7, <1>9 DEF HandleInput, Takes, server
<1>10. CASE HandleStats
  BY <1>7, <1>10 DEF HandleStats, Takes, Unshown
<1>11. CASE HandleClient
  BY <1>7, <1>11 DEF HandleClient, Takes, Unshown
<1>12. CASE HandleShutdown
  BY <1>7, <1>12 DEF HandleShutdown, Takes, Unshown
<1>13. CASE HandleMove
  <2>1. Msg.op = "move" /\ Compose(Move(wm, Msg.from, Msg.id, Msg.y), root)
    BY <1>13 DEF HandleMove, Takes
  <2>2. Move(wm, Msg.from, Msg.id, Msg.y) = wm
    BY <1>2, <1>3, <2>1, MoveDoesNothing
  <2> QED
    BY <1>3, <1>8, <2>1, <2>2
<1>14. CASE HandleFrame
  <2> DEFINE w == DirtyAll(wm)
  <2>1. Msg.op = "frame" /\ Compose(w, Msg.version)
    BY <1>14 DEF HandleFrame, Takes
  <2>2. IsWm(w) /\ w.windows = wm.windows
    BY <1>3, AllDirty DEF DirtyAll, IsWm
  <2> HIDE DEF w
  <2> QED
    BY <1>8, <2>1, <2>2
<1>15. CASE HandleCompose
  <2>1. Msg.op = "compose" /\ Compose(wm, root)
    BY <1>15 DEF HandleCompose, Takes
  <2> QED
    BY <1>3, <1>8, <2>1
<1> QED
  BY <1>4, <1>5, <1>6, <1>9, <1>10, <1>11, <1>12, <1>13, <1>14, <1>15 DEF ServerNext

LEMMA ServerKeepsClients ==
  ASSUME SessionInv, ServerNext
  PROVE  ClientsInv'
<1>1. req # <<>> /\ req' = Tail(req) /\ UNCHANGED <<at, waiting>> /\ (Msg.op # "client" => clients' = clients)
  BY ServerTakes
<1>2. AllOK(req) /\ IsIntroduced(req, clients, Asked) /\ Asked' = Asked
  BY <1>1 DEF SessionInv, DisplayInv, ClientsInv, Asked
<1>3. Asked \in 0 .. 2
  BY DEF Asked
<1> HIDE DEF Asked
<1>4. CASE Msg.op # "client"
  <2>1. IsIntroduced(Tail(req), clients, Asked)
    BY <1>1, <1>2, <1>4, IntroducedPass DEF Msg
  <2> QED
    BY <1>1, <1>2, <1>4, <2>1 DEF ClientsInv
<1>5. CASE Msg.op = "client"
  <2>1. HandleClient
    BY <1>5 DEF ServerNext, HandleInput, HandleCreate, HandleRaise, HandleDraw, HandleMove,
                HandleFrame, HandleCompose, HandleStats, HandleShutdown, Takes
  <2>2. IsIntroduced(Tail(req), Append(clients, Msg.pid), Asked) /\ Len(clients) < MaxClients
    BY <1>1, <1>2, <1>3, <1>5, IntroducedTaken DEF Msg
  <2>3. clients' = Append(clients, Msg.pid)
    BY <2>1, <2>2 DEF HandleClient
  <2> QED
    BY <1>1, <1>2, <2>2, <2>3 DEF ClientsInv
<1> QED
  BY <1>4, <1>5

\* Input tells an application of a tap, and nothing else.
LEMMA InputTells ==
  ASSUME DisplayInv, ev \in [Apps -> Seq(Event)], HandleInput
  PROVE  /\ ev' \in [Apps -> Seq(Event)]
         /\ \A a \in Apps : ev'[a] = ev[a] \/ \E e \in Event : e.op = "tap" /\ ev'[a] = Append(ev[a], e)
<1>1. Msg.p \in Point
  <2>1. Msg.op = "input" /\ MsgOK(Msg)
    BY TailOK DEF HandleInput, Takes, Msg, DisplayInv
  <2> QED
    BY <2>1 DEF MsgOK
<1> DEFINE hit == {i \in Top(wm, Msg.p) : SlotOf(wm.windows[i].owner) # {}}
           w == wm.windows[CHOOSE i \in hit : TRUE]
           to == Slots[CHOOSE s \in SlotOf(w.owner) : TRUE]
           e == [op |-> "tap", y |-> Msg.p - w.rect.y]
<1>2. CASE Msg.down /\ hit # {}
  <2>1. ev' = [ev EXCEPT ![to] = Append(@, e)]
    BY <1>2 DEF HandleInput
  <2>2. e \in Event /\ e.op = "tap"
    <3>1. (CHOOSE i \in hit : TRUE) \in DOMAIN wm.windows
      BY <1>2 DEF Top, Over
    <3>2. w \in WindowType
      BY <3>1 DEF DisplayInv, IsWm
    <3>3. Msg.p - w.rect.y \in Int
      BY <1>1, <3>2 DEF WindowType, RectType, Point
    <3> QED
      BY <3>3 DEF Event
  <2> HIDE DEF e, to
  <2>3. CASE to \in Apps
    <3>1. Append(ev[to], e) \in Seq(Event)
      BY <2>2, <2>3
    <3> QED
      BY <2>1, <2>2, <3>1
  <2>4. CASE to \notin Apps
    <3>1. ev' = ev
      BY <2>1, <2>4
    <3> QED
      BY <3>1
  <2> QED
    BY <2>3, <2>4
<1>3. CASE ~(Msg.down /\ hit # {})
  <2>1. ev' = ev
    BY <1>3 DEF HandleInput
  <2> QED
    BY <2>1
<1> QED
  BY <1>2, <1>3

LEMMA NoStartAppend ==
  ASSUME NEW s \in Seq(Event), \A i \in DOMAIN s : s[i].op # "start", NEW e \in Event, e.op = "tap"
  PROVE  \A i \in DOMAIN Append(s, e) : Append(s, e)[i].op # "start"
<1>1. \A i \in DOMAIN Append(s, e) : Append(s, e)[i] = e \/ (i \in DOMAIN s /\ Append(s, e)[i] = s[i])
  OBVIOUS
<1> QED
  BY <1>1

LEMMA ServerKeepsOrder ==
  ASSUME SessionInv, ServerNext
  PROVE  OrderInv'
<1>1. /\ req # <<>> /\ req' = Tail(req) /\ UNCHANGED <<apc, at, waiting>>
      /\ rep' = rep \/ rep' = Append(rep, Len(wm.windows))
      /\ ev' = ev \/ HandleInput
  BY ServerTakes
<1>2. /\ DisplayInv /\ WindowsInv /\ OrderInv /\ AllOK(req)
      /\ wm.windows \in Seq(WindowType)
  BY DEF SessionInv, DisplayInv, IsWm
<1>3. /\ Grown(wm.windows, wm'.windows)
      /\ wm.windows = <<>> => \/ wm'.windows = <<>>
                              \/ Msg.op = "create" /\ Msg.from \in Apps /\ wm'.windows[1].owner = Msg.from
      /\ WindowsInv'
  BY <1>2, ServerKeepsWindows
<1>4. /\ ev' \in [Apps -> Seq(Event)]
      /\ \A a \in Apps : ev'[a] = ev[a] \/ \E e \in Event : e.op = "tap" /\ ev'[a] = Append(ev[a], e)
  BY <1>1, <1>2, InputTells DEF OrderInv
<1> DEFINE n == Len(wm.windows)
           m == Len(wm'.windows)
<1>5. wm'.windows \in Seq(WindowType)
  <2>1. DisplayInv'
    BY <1>2, ServerKeeps
  <2> QED
    BY <2>1 DEF DisplayInv, IsWm
<1>6. n \in Nat /\ m \in Nat /\ n <= m /\ rep \in Seq(Nat) /\ \A i \in DOMAIN rep : rep[i] <= n
  BY <1>2, <1>3, <1>5 DEF Grown, OrderInv
<1>7. rep' = rep \/ rep' = Append(rep, n)
  BY <1>1
<1> HIDE DEF n, m
<1>8. rep' \in Seq(Nat) /\ \A i \in DOMAIN rep' : rep'[i] <= m
  <2>1. \A i \in DOMAIN rep : rep[i] \in Nat /\ rep[i] <= m
    BY <1>6
  <2>2. CASE rep' = rep
    BY <1>6, <2>1, <2>2
  <2>3. CASE rep' = Append(rep, n)
    <3>1. \A i \in DOMAIN rep' : rep'[i] = n \/ (i \in DOMAIN rep /\ rep'[i] = rep[i])
      BY <1>6, <2>3
    <3> QED
      BY <1>6, <2>1, <2>3, <3>1
  <2> QED
    BY <1>7, <2>2, <2>3
<1>9. \/ wm'.windows # <<>> /\ wm'.windows[1].owner = Shell
      \/ wm'.windows = <<>> /\ NotesWait'
  <2>1. CASE wm.windows # <<>> /\ wm.windows[1].owner = Shell
    BY <1>3, <2>1 DEF Grown
  <2>2. CASE wm.windows = <<>> /\ NotesWait
    <3>1. Sent(req, "create", Notes) = {} /\ apc[Notes] = "wait" /\ at \notin 5 .. 11
          /\ \A i \in DOMAIN ev[Notes] : ev[Notes][i].op # "start"
      BY <2>2 DEF NotesWait
    <3>2. Msg.op = "create" => Msg.from # Notes
      BY <1>1, <1>2, <3>1, SentTail DEF Msg
    <3>3. Sent(req', "create", Notes) = {}
      BY <1>1, <1>2, <3>1, SentTail
    <3>4. \A i \in DOMAIN ev'[Notes] : ev'[Notes][i].op # "start"
      <4>1. Notes \in Apps /\ ev[Notes] \in Seq(Event)
        BY <1>2 DEF Apps, OrderInv
      <4>2. CASE ev'[Notes] = ev[Notes]
        BY <3>1, <4>2
      <4>3. ASSUME NEW e \in Event, e.op = "tap", ev'[Notes] = Append(ev[Notes], e)
            PROVE  \A i \in DOMAIN ev'[Notes] : ev'[Notes][i].op # "start"
        BY <3>1, <4>1, <4>3, NoStartAppend
      <4> QED
        BY <1>4, <4>1, <4>2, <4>3
    <3>5. NotesWait'
      BY <1>1, <3>1, <3>3, <3>4 DEF NotesWait
    <3> QED
      <4>1. CASE wm'.windows = <<>>
        BY <3>5, <4>1
      <4>2. CASE wm'.windows # <<>>
        BY <1>3, <2>2, <3>2, <4>2 DEF Apps
      <4> QED
        BY <4>1, <4>2
  <2> QED
    BY <1>2, <2>1, <2>2 DEF OrderInv
<1> QED
  BY <1>1, <1>2, <1>4, <1>8, <1>9 DEF OrderInv, m

-----------------------------------------------------------------------------
(***************************************************************************)
(* The applications, the pointer and the kernel in the session.            *)
(***************************************************************************)

\* Whoever sends something else than an introduction.
LEMMA OthersKeepClients ==
  ASSUME SessionInv, UNCHANGED <<clients, at, waiting>>,
         req' = req \/ \E m : m.op # "client" /\ req' = Append(req, m)
  PROVE  ClientsInv'
<1>1. AllOK(req) /\ IsIntroduced(req, clients, Asked) /\ Asked' = Asked
  BY DEF SessionInv, DisplayInv, ClientsInv, Asked
<1> HIDE DEF Asked
<1>2. IsIntroduced(req', clients, Asked)
  BY <1>1, IntroducedSend
<1> QED
  BY <1>1, <1>2 DEF ClientsInv

\* Whoever sends something else than a request for a window or a drawing.
LEMMA OthersKeepWindows ==
  ASSUME SessionInv, UNCHANGED <<wm, shown, lost, apc, on>>,
         req' = req \/ \E m : m.op \notin {"create", "draw"} /\ req' = Append(req, m)
  PROVE  WindowsInv'
<1>1. AllOK(req) /\ IsTidy(wm.windows) /\ IsSeen(wm.windows, shown, lost)
  BY DEF SessionInv, DisplayInv, WindowsInv
<1>2. ASSUME NEW a \in Apps
      PROVE  IsUpToDate(a, req', wm.windows, apc[a], on[a])
  <2>1. IsUpToDate(a, req, wm.windows, apc[a], on[a])
    BY DEF SessionInv, WindowsInv
  <2>2. CASE req' = req
    BY <2>1, <2>2
  <2>3. ASSUME NEW m, m.op \notin {"create", "draw"}, req' = Append(req, m)
        PROVE  IsUpToDate(a, req', wm.windows, apc[a], on[a])
    <3>1. Foreign(m, a)
      BY <2>3 DEF Foreign
    <3> QED
      BY <1>1, <2>1, <2>3, <3>1, UpToDateSend
  <2> QED
    BY <2>2, <2>3
<1>3. IsSeen(wm.windows, shown, lost)'
  BY <1>1 DEF IsSeen
<1> QED
  BY <1>1, <1>2, <1>3 DEF WindowsInv

LEMMA InputKeepsSession ==
  ASSUME SessionInv, NEW g \in Groups, InputGroup(g)
  PROVE  SessionInv'
<1> DEFINE m == [op |-> "input", from |-> "inputdrv", p |-> g.y, down |-> g.down]
<1>1. /\ req' = Append(req, m) /\ UNCHANGED <<wm, shown, lost, apc, on, clients, at, waiting, rep, ev>>
      /\ m.op = "input" /\ m.from = "inputdrv"
  BY DEF InputGroup, Send, apps, kernel, server
<1> HIDE DEF m
<1>2. DisplayInv'
  BY InputKeeps DEF SessionInv
<1>3. WindowsInv' /\ ClientsInv'
  BY <1>1, OthersKeepWindows, OthersKeepClients
<1>4. OrderInv'
  <2>1. AllOK(req) /\ OrderInv
    BY DEF SessionInv, DisplayInv
  <2>2. Sent(req', "create", Notes) = Sent(req, "create", Notes)
    BY <1>1, <2>1, SentAppend
  <2> QED
    BY <1>1, <2>1, <2>2 DEF OrderInv, NotesWait
<1> QED
  BY <1>2, <1>3, <1>4 DEF SessionInv

\* What an application's step does to its own place and to the channels.
LEMMA AppDoes ==
  ASSUME SessionInv, NEW a \in Apps, AppNext(a)
  PROVE  /\ UNCHANGED <<wm, shown, lost, clients, at, waiting, rep>>
         /\ \A b \in Apps : b # a => apc'[b] = apc[b] /\ on'[b] = on[b] /\ ev'[b] = ev[b]
         /\ ev' \in [Apps -> Seq(Event)]
         /\ apc[a] = "wait" => AwaitStart(a)
         /\ req' = req \/ \E m : m.op # "client" /\ m.from = a /\ req' = Append(req, m)
<1>0. /\ apc = [b \in Apps |-> apc[b]] /\ on \in [Apps -> Seq({Off, On})] /\ ev \in [Apps -> Seq(Event)]
  BY DEF SessionInv, DisplayInv, SendersInv, OrderInv
<1>1. UNCHANGED <<wm, shown, lost, clients, at, waiting, rep>>
  BY DEF AppNext, AwaitStart, OpenWindow, Draw, Poach, AppTap, AppSends, server, kernel
<1>2. apc[a] = "wait" => AwaitStart(a)
  BY DEF AppNext, OpenWindow, Draw, Poach, AppTap
<1>3. req' = req \/ \E m : m.op # "client" /\ m.from = a /\ req' = Append(req, m)
  <2>1. CASE AwaitStart(a)
    BY <2>1 DEF AwaitStart
  <2>2. CASE OpenWindow(a)
    <3> DEFINE m == [op |-> "create", from |-> a, id |-> WinId(a), rect |-> Place(a)]
    <3>1. m.op # "client" /\ m.from = a /\ req' = Append(req, m)
      BY <2>2 DEF OpenWindow, AppSends, Send
    <3> HIDE DEF m
    <3> QED
      BY <3>1
  <2>3. CASE Draw(a)
    <3> DEFINE m == [op |-> "draw", from |-> a, id |-> WinId(a), rows |-> on[a]]
    <3>1. m.op # "client" /\ m.from = a /\ req' = Append(req, m)
      BY <2>3 DEF Draw, AppSends, Send
    <3> HIDE DEF m
    <3> QED
      BY <3>1
  <2>4. CASE Poach(a)
    <3> DEFINE m == [op |-> "move", from |-> a, id |-> WinId(Shell), y |-> 0]
    <3>1. m.op # "client" /\ m.from = a /\ req' = Append(req, m)
      BY <2>4 DEF Poach, AppSends, Send
    <3> HIDE DEF m
    <3> QED
      BY <3>1
  <2>5. CASE AppTap(a)
    <3> DEFINE m == [op |-> "raise", from |-> a, id |-> WinId(a)]
    <3>1. m.op # "client" /\ m.from = a /\ req' = Append(req, m)
      BY <2>5 DEF AppTap, AppSends, Send
    <3> HIDE DEF m
    <3> QED
      BY <3>1
  <2> QED
    BY <2>1, <2>2, <2>3, <2>4, <2>5 DEF AppNext
<1>4. \A b \in Apps : b # a => apc'[b] = apc[b]
  <2>1. PICK l : apc' = [apc EXCEPT ![a] = l]
    BY DEF AppNext, AwaitStart, OpenWindow, Draw, Poach, AppTap, AppSends, App
  <2> QED
    BY <1>0, <2>1
<1>5. \A b \in Apps : b # a => on'[b] = on[b]
  <2>1. on' = on \/ \E row : on' = [on EXCEPT ![a][row] = Off + On - @]
    BY DEF AppNext, AwaitStart, OpenWindow, Draw, Poach, AppTap, AppSends
  <2> QED
    BY <1>0, <2>1
<1>6. (\A b \in Apps : b # a => ev'[b] = ev[b]) /\ ev' \in [Apps -> Seq(Event)]
  <2>1. ev' = ev \/ (ev' = [ev EXCEPT ![a] = Tail(@)] /\ ev[a] # <<>>)
    BY DEF AppNext, AwaitStart, OpenWindow, Draw, Poach, AppTap
  <2>2. ev[a] # <<>> => Tail(ev[a]) \in Seq(Event)
    BY <1>0
  <2> QED
    BY <1>0, <2>1, <2>2
<1> QED
  BY <1>1, <1>2, <1>3, <1>4, <1>5, <1>6

LEMMA AppKeepsWindows ==
  ASSUME SessionInv, NEW a \in Apps, AppNext(a)
  PROVE  WindowsInv'
<1>1. /\ UNCHANGED <<wm, shown, lost>>
      /\ \A b \in Apps : b # a => apc'[b] = apc[b] /\ on'[b] = on[b]
      /\ req' = req \/ \E m : m.op # "client" /\ m.from = a /\ req' = Append(req, m)
  BY AppDoes
<1>2. /\ AllOK(req) /\ IsTidy(wm.windows) /\ IsSeen(wm.windows, shown, lost)
      /\ \A b \in Apps : IsUpToDate(b, req, wm.windows, apc[b], on[b])
      /\ apc = [b \in Apps |-> apc[b]] /\ on \in [Apps -> Seq({Off, On})]
  BY DEF SessionInv, DisplayInv, WindowsInv, SendersInv
<1>3. ASSUME NEW b \in Apps, b # a
      PROVE  IsUpToDate(b, req', wm.windows, apc'[b], on'[b])
  <2>1. apc'[b] = apc[b] /\ on'[b] = on[b]
    BY <1>1, <1>3
  <2>2. CASE req' = req
    BY <1>2, <2>1, <2>2
  <2>3. ASSUME NEW m, m.from = a, req' = Append(req, m)
        PROVE  IsUpToDate(b, req', wm.windows, apc[b], on[b])
    <3>1. Foreign(m, b)
      BY <1>3, <2>3 DEF Foreign
    <3> QED
      BY <1>2, <2>3, <3>1, UpToDateSend
  <2> QED
    BY <1>1, <2>1, <2>2, <2>3
<1> DEFINE W == wm.windows
           pc == apc[a]
           r == on[a]
<1>4. IsUpToDate(a, req, W, pc, r)
  BY <1>2
<1>5. IsUpToDate(a, req', W, apc'[a], on'[a])
  <2>1. CASE AwaitStart(a)
    <3>1. pc = "wait" /\ apc'[a] \in {"wait", "create"} /\ req' = req /\ on' = on
      BY <1>2, <2>1 DEF AwaitStart, App
    <3> HIDE DEF pc, r, W
    <3>2. IsUpToDate(a, req, W, "create", r)
      BY <1>4, <3>1, UpToDateWaits
    <3> QED
      BY <1>4, <3>1, <3>2 DEF r
  <2>2. CASE OpenWindow(a)
    <3> DEFINE m == [op |-> "create", from |-> a, id |-> WinId(a), rect |-> Place(a)]
    <3>1. m.op = "create" /\ m.from = a /\ req' = Append(req, m) /\ pc = "create" /\ apc'[a] = "first" /\ on' = on
      BY <1>2, <2>2 DEF OpenWindow, AppSends, App, Send
    <3> HIDE DEF m, pc, r, W
    <3>2. IsUpToDate(a, Append(req, m), W, "first", r)
      BY <1>2, <1>4, <3>1, UpToDateOpens
    <3> QED
      BY <3>1, <3>2 DEF r
  <2>3. CASE Draw(a)
    <3> DEFINE m == [op |-> "draw", from |-> a, id |-> WinId(a), rows |-> on[a]]
    <3>1. /\ m.op = "draw" /\ m.from = a /\ m.rows = r /\ req' = Append(req, m)
          /\ pc \in {"first", "draw"} /\ apc'[a] \in {"poach", "loop"} /\ on' = on
      BY <1>2, <2>3 DEF Draw, AppSends, App, Send
    <3> HIDE DEF m, pc, r, W
    <3>2. \A l \in {"poach", "loop"} : IsUpToDate(a, Append(req, m), W, l, r)
      BY <1>2, <1>4, <3>1, UpToDateDraws
    <3> QED
      BY <3>1, <3>2 DEF r
  <2>4. CASE Poach(a)
    <3> DEFINE m == [op |-> "move", from |-> a, id |-> WinId(Shell), y |-> 0]
    <3>1. m.op = "move" /\ req' = Append(req, m) /\ pc = "poach" /\ apc'[a] = "loop" /\ on' = on
      BY <1>2, <2>4 DEF Poach, AppSends, App, Send
    <3>2. Foreign(m, a)
      BY DEF Foreign
    <3> HIDE DEF m, pc, r, W
    <3>3. IsUpToDate(a, req, W, "loop", r)
      BY <1>4, <3>1, UpToDateLoops
    <3>4. IsUpToDate(a, Append(req, m), W, "loop", r)
      BY <1>2, <3>2, <3>3, UpToDateSend
    <3> QED
      BY <3>1, <3>4 DEF r
  <2>5. CASE AppTap(a)
    <3> DEFINE m == [op |-> "raise", from |-> a, id |-> WinId(a)]
    <3>1. /\ req' = Append(req, m) /\ pc = "loop"
          /\ apc'[a] = "draw" \/ (apc'[a] = "loop" /\ on' = on)
      BY <1>2, <2>5 DEF AppTap, AppSends, App, Send
    <3>2. Foreign(m, a)
      BY DEF Foreign
    <3> HIDE DEF m, pc, r, W
    <3>3. (\A s : IsUpToDate(a, req, W, "draw", s)) /\ IsUpToDate(a, req, W, "loop", r)
      BY <1>4, <3>1, UpToDateLoops
    <3>4. IsUpToDate(a, Append(req, m), W, "loop", r)
      BY <1>2, <3>2, <3>3, UpToDateSend
    <3>5. \A s : IsUpToDate(a, Append(req, m), W, "draw", s)
      BY <1>2, <3>2, <3>3, UpToDateSend
    <3> QED
      BY <3>1, <3>4, <3>5 DEF r
  <2> QED
    BY <2>1, <2>2, <2>3, <2>4, <2>5 DEF AppNext
<1>6. IsSeen(wm.windows, shown, lost)'
  BY <1>1, <1>2 DEF IsSeen
<1> QED
  BY <1>1, <1>2, <1>3, <1>5, <1>6 DEF WindowsInv

LEMMA AppKeepsSession ==
  ASSUME SessionInv, NEW a \in Apps, AppNext(a)
  PROVE  SessionInv'
<1>1. /\ UNCHANGED <<wm, shown, lost, clients, at, waiting, rep>>
      /\ \A b \in Apps : b # a => apc'[b] = apc[b] /\ on'[b] = on[b] /\ ev'[b] = ev[b]
      /\ ev' \in [Apps -> Seq(Event)]
      /\ apc[a] = "wait" => AwaitStart(a)
      /\ req' = req \/ \E m : m.op # "client" /\ m.from = a /\ req' = Append(req, m)
  BY AppDoes
<1>2. DisplayInv'
  BY AppKeeps DEF SessionInv
<1>3. WindowsInv'
  BY AppKeepsWindows
<1>4. ClientsInv'
  BY <1>1, OthersKeepClients
<1>5. NotesWait => NotesWait'
  <2> SUFFICES ASSUME NotesWait PROVE NotesWait'
    OBVIOUS
  <2>1. AllOK(req) /\ ev \in [Apps -> Seq(Event)] /\ apc = [b \in Apps |-> apc[b]] /\ Notes \in Apps
    BY DEF SessionInv, DisplayInv, OrderInv, SendersInv, Apps
  <2>2. CASE a # Notes
    <3>1. Sent(req', "create", Notes) = {}
      <4>1. Sent(req, "create", Notes) = {}
        BY DEF NotesWait
      <4>2. ASSUME NEW m, m.from = a
            PROVE  Sent(Append(req, m), "create", Notes) = {}
        BY <2>1, <2>2, <4>1, <4>2, SentAppend
      <4> QED
        BY <1>1, <4>1, <4>2
    <3> QED
      BY <1>1, <2>1, <2>2, <3>1 DEF NotesWait
  <2>3. CASE a = Notes
    <3>1. AwaitStart(Notes)
      BY <1>1, <2>3 DEF NotesWait
    <3> DEFINE s == ev[Notes]
    <3>2. s \in Seq(Event) /\ s # <<>> /\ \A i \in DOMAIN s : s[i].op # "start"
      BY <2>1, <3>1 DEF AwaitStart, NotesWait
    <3>3. Head(s).op # "start" /\ \A i \in DOMAIN Tail(s) : Tail(s)[i].op # "start"
      <4> HIDE DEF s
      <4>1. /\ 1 \in DOMAIN s /\ Head(s) = s[1]
            /\ \A i \in DOMAIN Tail(s) : i + 1 \in DOMAIN s /\ Tail(s)[i] = s[i + 1]
        BY <3>2
      <4> QED
        BY <3>2, <4>1
    <3>4. apc'[Notes] = "wait" /\ req' = req /\ ev'[Notes] = Tail(s)
      BY <2>1, <3>1, <3>3 DEF AwaitStart, App
    <3> QED
      BY <1>1, <3>3, <3>4 DEF NotesWait
  <2> QED
    BY <2>2, <2>3
<1>6. OrderInv'
  <2>1. OrderInv
    BY DEF SessionInv
  <2> QED
    BY <1>1, <1>5, <2>1 DEF OrderInv
<1> QED
  BY <1>2, <1>3, <1>4, <1>6 DEF SessionInv

\* What the kernel does at each of its steps.
LEMMA PlanIs ==
  /\ \A k \in 1 .. 14 : /\ Plan[k].do = "client" <=> k \in {1, 2}
                        /\ Plan[k].do = "start" <=> k \in {3, 5}
                        /\ Plan[k].do = "windows" <=> k \in {4, 6}
                        /\ Plan[k].do = "report" <=> k = 8
                        /\ Plan[k].do = "off" <=> k \in {11, 14}
  /\ Plan[1].pid = Shell /\ Plan[2].pid = Notes /\ Plan[3].pid = Shell /\ Plan[4].n = 1
<1>1. /\ Plan[1].do = "client" /\ Plan[2].do = "client" /\ Plan[3].do = "start" /\ Plan[4].do = "windows"
      /\ Plan[5].do = "start" /\ Plan[6].do = "windows" /\ Plan[7].do = "frame" /\ Plan[8].do = "report"
      /\ Plan[9].do = "stats" /\ Plan[10].do = "shutdown" /\ Plan[11].do = "off" /\ Plan[12].do = "frame"
      /\ Plan[13].do = "shutdown" /\ Plan[14].do = "off"
  BY DEF Plan
<1>2. Plan[1].pid = Shell /\ Plan[2].pid = Notes /\ Plan[3].pid = Shell /\ Plan[4].n = 1
  BY DEF Plan
<1>3. \A k \in 1 .. 14 : k \in {1, 2, 3, 4, 5, 6, 7, 8, 9, 10, 11, 12, 13, 14}
  OBVIOUS
<1> HIDE DEF Plan
<1> QED
  BY <1>1, <1>2, <1>3

\* Where each of the kernel's steps can be taken.
LEMMA KernelAt ==
  ASSUME OrderInv, KernelNext
  PROVE  \/ KernelStarts /\ at \in {3, 5} /\ at' = at + 1 /\ waiting' = waiting /\ ~waiting
         \/ KernelSends /\ at \notin {3, 5, 11, 14} /\ at' = at /\ ~waiting /\ waiting' = TRUE
         \/ /\ waiting /\ waiting' = FALSE /\ UNCHANGED <<req, ev>>
            /\ \/ at' = at /\ at \notin {1, 2}
               \/ at' = at + 1 /\ at \notin {4, 6}
               \/ at' = at + 1 /\ at \in {4, 6} /\ rep # <<>> /\ Head(rep) >= Plan[at].n
         \/ /\ at \in {4, 6} /\ at' = GivenUp /\ ~waiting /\ waiting' = waiting /\ UNCHANGED <<req, ev>>
         \/ /\ at = 8 /\ at' = 9 /\ ~waiting /\ waiting' = waiting /\ UNCHANGED <<req, ev>>
<1>0. at \in 1 .. 14 /\ waiting \in BOOLEAN /\ (waiting => at \notin {3, 5, 11, 14}) /\ rep \in Seq(Nat)
  BY DEF OrderInv
<1>1. /\ Step.do = "client" <=> at \in {1, 2}
      /\ Step.do = "start" <=> at \in {3, 5}
      /\ Step.do = "windows" <=> at \in {4, 6}
      /\ Step.do = "report" <=> at = 8
      /\ Step.do = "off" <=> at \in {11, 14}
  BY <1>0, PlanIs DEF Step
<1>2. CASE KernelStarts
  BY <1>0, <1>1, <1>2 DEF KernelStarts
<1>3. CASE KernelSends
  BY <1>1, <1>3 DEF KernelSends
<1>4. CASE KernelAnswered
  <2>1. waiting /\ waiting' = FALSE /\ UNCHANGED <<req, ev>> /\ rep # <<>>
    BY <1>4 DEF KernelAnswered
  <2>2. CASE /\ at' = at
             /\ \/ Step.do = "windows" /\ Head(rep) < Step.n
                \/ Step.do = "frame" /\ drawn < MaxFrames
                \/ Step.do = "report"
    BY <1>0, <1>1, <2>1, <2>2
  <2>3. CASE at' = at + 1 /\ ~(Step.do = "windows" /\ Head(rep) < Step.n)
    <3>1. Step.do = "windows" => Head(rep) >= Step.n
      <4>1. Head(rep) \in Nat
        BY <1>0, <2>1
      <4>2. at \in {4, 6} => Plan[at].n \in Nat
        BY DEF Plan
      <4> QED
        BY <1>1, <2>3, <4>1, <4>2 DEF Step
    <3> QED
      BY <1>0, <1>1, <2>1, <2>3, <3>1 DEF Step
  <2> QED
    BY <1>4, <2>2, <2>3 DEF KernelAnswered
<1>5. CASE KernelTimesOut
  BY <1>0, <1>1, <1>5 DEF KernelTimesOut
<1>6. CASE KernelGivesUp
  BY <1>0, <1>1, <1>6 DEF KernelGivesUp
<1>7. CASE ReportEnds
  BY <1>0, <1>1, <1>7 DEF ReportEnds
<1> QED
  BY <1>2, <1>3, <1>4, <1>5, <1>6, <1>7 DEF KernelNext

LEMMA KernelKeepsClients ==
  ASSUME SessionInv, KernelNext
  PROVE  ClientsInv'
<1>1. OrderInv /\ AllOK(req) /\ IsIntroduced(req, clients, Asked) /\ clients' = clients
  BY DEF SessionInv, DisplayInv, ClientsInv, KernelNext, KernelStarts, KernelSends, KernelAnswered,
         KernelTimesOut, KernelGivesUp, ReportEnds, server
<1>2. at \in 1 .. 14 /\ waiting \in BOOLEAN
  BY <1>1 DEF OrderInv
<1>3. CASE KernelSends /\ at \in {1, 2} /\ at' = at /\ ~waiting /\ waiting' = TRUE
  <2>1. Asked \in 0 .. 1 /\ Asked' = Asked + 1 /\ (Asked = 0 <=> at = 1)
    BY <1>3 DEF Asked
  <2>2. /\ Request.op = "client" /\ Request.pid = IF Asked = 0 THEN Shell ELSE Notes
    BY <1>3, <2>1, PlanIs DEF Request, Step
  <2>3. req' = Append(req, Request)
    BY <1>3 DEF KernelSends, Send
  <2> HIDE DEF Asked
  <2>4. IsIntroduced(req', clients, Asked + 1)
    BY <1>1, <2>1, <2>2, <2>3, IntroducedAsk
  <2> QED
    BY <1>1, <2>1, <2>4 DEF ClientsInv
<1>4. CASE Asked' = Asked /\ (req' = req \/ (KernelSends /\ at \notin {1, 2}))
  <2> HIDE DEF Asked
  <2>1. CASE req' = req
    BY <1>1, <1>4, <2>1 DEF ClientsInv
  <2>2. CASE KernelSends /\ at \notin {1, 2}
    <3>1. Step.do # "client"
      BY <1>2, <2>2, PlanIs DEF Step
    <3>2. Request.op # "client" /\ req' = Append(req, Request)
      BY <2>2, <3>1 DEF Request, StatusScreen, Frame, KernelSends, Send
    <3>3. IsIntroduced(req', clients, Asked)
      BY <1>1, <3>2, IntroducedSend
    <3> QED
      BY <1>1, <1>4, <3>3 DEF ClientsInv
  <2> QED
    BY <1>4, <2>1, <2>2
<1>5. CASE KernelStarts /\ at \in {3, 5} /\ at' = at + 1 /\ waiting' = waiting
  BY <1>4, <1>5 DEF Asked, KernelStarts
<1>6. CASE KernelSends /\ at \notin {1, 2} /\ at' = at
  BY <1>2, <1>4, <1>6 DEF Asked
<1>7. CASE waiting /\ waiting' = FALSE /\ req' = req /\ (at' = at + 1 \/ (at' = at /\ at \notin {1, 2}))
  BY <1>2, <1>4, <1>7 DEF Asked
<1>8. CASE at \in {4, 6, 8} /\ at' \in {9, GivenUp} /\ req' = req
  BY <1>4, <1>8 DEF Asked, GivenUp
<1> QED
  BY <1>1, <1>3, <1>5, <1>6, <1>7, <1>8, KernelAt

LEMMA KernelKeepsOrder ==
  ASSUME SessionInv, KernelNext
  PROVE  OrderInv'
<1>1. OrderInv /\ AllOK(req) /\ UNCHANGED <<wm, apc>> /\ wm.windows \in Seq(WindowType)
  BY DEF SessionInv, DisplayInv, IsWm, KernelNext, KernelStarts, KernelSends, KernelAnswered,
         KernelTimesOut, KernelGivesUp, ReportEnds, server, apps
<1>2. /\ at \in 1 .. 14 /\ waiting \in BOOLEAN /\ (waiting => at \notin {3, 5, 11, 14})
      /\ rep \in Seq(Nat) /\ ev \in [Apps -> Seq(Event)]
      /\ \A i \in DOMAIN rep : rep[i] <= Len(wm.windows)
  BY <1>1 DEF OrderInv
<1>3. at' \in 1 .. 14 /\ waiting' \in BOOLEAN /\ (waiting' => at' \notin {3, 5, 11, 14})
  <2>1. \/ at \in {3, 5} /\ at' = at + 1 /\ waiting' = waiting /\ ~waiting
        \/ at \notin {3, 5, 11, 14} /\ at' = at /\ waiting' = TRUE
        \/ waiting /\ waiting' = FALSE /\ (at' = at \/ at' = at + 1)
        \/ at \in {4, 6} /\ at' = GivenUp /\ ~waiting /\ waiting' = waiting
        \/ at = 8 /\ at' = 9 /\ ~waiting /\ waiting' = waiting
    BY <1>1, KernelAt
  <2>2. at \in 1 .. 14 /\ waiting \in BOOLEAN /\ (waiting => at \notin {3, 5, 11, 14})
    BY <1>2
  <2>3. waiting' \in BOOLEAN
    BY <2>1, <2>2
  <2>4. at' \in 1 .. 14
    BY <2>1, <2>2 DEF GivenUp
  <2>5. waiting' => at' \notin {3, 5, 11, 14}
    BY <2>1, <2>2
  <2> QED
    BY <2>3, <2>4, <2>5
<1>4. rep' \in Seq(Nat) /\ \A i \in DOMAIN rep' : rep'[i] <= Len(wm.windows)
  <2>1. rep' = rep \/ (rep # <<>> /\ rep' = Tail(rep))
    BY DEF KernelNext, KernelStarts, KernelSends, KernelAnswered, KernelTimesOut, KernelGivesUp, ReportEnds
  <2> DEFINE n == Len(wm.windows)
  <2> HIDE DEF n
  <2>2. CASE rep # <<>> /\ rep' = Tail(rep)
    <3>1. \A i \in DOMAIN Tail(rep) : i + 1 \in DOMAIN rep /\ Tail(rep)[i] = rep[i + 1]
      BY <1>2, <2>2
    <3> QED
      BY <1>2, <2>2, <3>1
  <2> QED
    BY <1>2, <2>1, <2>2
<1>5. ev' \in [Apps -> Seq(Event)] /\ (KernelStarts \/ ev' = ev)
  <2>1. CASE KernelStarts
    <3> DEFINE e == [op |-> "start"]
    <3>1. e \in Event /\ ev' = [ev EXCEPT ![Step.pid] = Append(@, e)]
      BY <2>1 DEF KernelStarts, Event
    <3> HIDE DEF e
    <3>2. CASE Step.pid \in Apps
      <4>1. Append(ev[Step.pid], e) \in Seq(Event)
        BY <1>2, <3>1, <3>2
      <4> QED
        BY <1>2, <2>1, <3>1, <4>1
    <3>3. CASE Step.pid \notin Apps
      BY <1>2, <2>1, <3>1, <3>3
    <3> QED
      BY <3>2, <3>3
  <2>2. CASE ~KernelStarts
    BY <1>2, <2>2 DEF KernelNext, KernelSends, KernelAnswered, KernelTimesOut, KernelGivesUp, ReportEnds
  <2> QED
    BY <2>1, <2>2
<1>6. ASSUME wm.windows = <<>>, NotesWait
      PROVE  NotesWait'
  <2>1. at \notin 5 .. 11 /\ apc[Notes] = "wait" /\ Sent(req, "create", Notes) = {}
        /\ \A i \in DOMAIN ev[Notes] : ev[Notes][i].op # "start"
    BY <1>6 DEF NotesWait
  <2>2. rep # <<>> => Head(rep) < 1
    <3>1. Len(wm.windows) = 0
      BY <1>6
    <3>2. rep # <<>> => 1 \in DOMAIN rep /\ Head(rep) = rep[1] /\ rep[1] \in Nat
      BY <1>2
    <3> QED
      BY <1>2, <3>1, <3>2
  <2>3. at' \notin 5 .. 11
    <3>1. at = 4 => Plan[at].n = 1
      BY PlanIs
    <3>2. rep # <<>> => Head(rep) \in Nat
      BY <1>2
    <3>3. ~(at = 4 /\ rep # <<>> /\ Head(rep) >= Plan[at].n)
      BY <2>2, <3>1, <3>2
    <3>4. \/ at \in {3, 5} /\ at' = at + 1
          \/ at' = at
          \/ at' = at + 1 /\ at \notin {4, 6}
          \/ at' = at + 1 /\ at \in {4, 6} /\ rep # <<>> /\ Head(rep) >= Plan[at].n
          \/ at' = GivenUp
          \/ at = 8
      BY <1>1, KernelAt
    <3>5. at \in 1 .. 14
      BY <1>2
    <3> QED
      BY <2>1, <3>3, <3>4, <3>5 DEF GivenUp
  <2>4. Sent(req', "create", Notes) = {}
    <3>1. CASE req' = req
      BY <2>1, <3>1
    <3>2. CASE KernelSends
      <4>1. Request.op \in {"client", "frame", "stats", "shutdown", "compose"}
        BY DEF Request, StatusScreen, Frame
      <4>2. Request.op # "create" /\ req' = Append(req, Request)
        BY <3>2, <4>1 DEF KernelSends, Send
      <4> QED
        BY <1>1, <2>1, <4>2, SentAppend
    <3> QED
      BY <3>1, <3>2 DEF KernelNext, KernelStarts, KernelAnswered, KernelTimesOut, KernelGivesUp, ReportEnds
  <2>5. ev'[Notes] = ev[Notes]
    <3>1. CASE KernelStarts
      <4>1. at = 3
        <5>1. Step.do = "start"
          BY <3>1 DEF KernelStarts
        <5>2. at \in {3, 5}
          BY <1>2, <5>1, PlanIs DEF Step
        <5> QED
          BY <2>1, <5>2
      <4>2. ev' = [ev EXCEPT ![Shell] = Append(@, [op |-> "start"])]
        BY <3>1, <4>1, PlanIs DEF KernelStarts, Step
      <4> QED
        BY <1>2, <4>2, DisplayAssumption DEF Apps
    <3> QED
      BY <1>5, <3>1
  <2> QED
    BY <1>1, <2>1, <2>3, <2>4, <2>5 DEF NotesWait
<1> QED
  BY <1>1, <1>3, <1>4, <1>5, <1>6 DEF OrderInv

LEMMA KernelKeepsSession ==
  ASSUME SessionInv, KernelNext
  PROVE  SessionInv'
<1>1. DisplayInv'
  BY KernelKeeps DEF SessionInv
<1>2. UNCHANGED <<wm, shown, lost, apc, on>>
  BY DEF KernelNext, KernelStarts, KernelSends, KernelAnswered,
         KernelTimesOut, KernelGivesUp, ReportEnds, server, apps
<1>3. req' = req \/ \E m : m.op \notin {"create", "draw"} /\ req' = Append(req, m)
  <2>1. CASE KernelSends
    <3>1. Request.op \in {"client", "frame", "stats", "shutdown", "compose"}
      BY DEF Request, StatusScreen, Frame
    <3> QED
      BY <2>1, <3>1 DEF KernelSends, Send
  <2> QED
    BY <2>1 DEF KernelNext, KernelStarts, KernelAnswered, KernelTimesOut, KernelGivesUp, ReportEnds
<1>4. WindowsInv'
  BY <1>2, <1>3, OthersKeepWindows
<1> QED
  BY <1>1, <1>4, KernelKeepsClients, KernelKeepsOrder DEF SessionInv

LEMMA StartsSession ==
  ASSUME DisplayInit
  PROVE  SessionInv
<1>1. DisplayInv
  BY StartsCurrent
<1>2. wm.windows = <<>> /\ req = <<>> /\ rep = <<>> /\ clients = <<>>
  BY DEF DisplayInit, NewWm
<1>3. \A op, a : Sent(req, op, a) = {}
  BY <1>2 DEF Sent
<1>4. WindowsInv
  <2>1. IsTidy(wm.windows)
    BY <1>2 DEF IsTidy
  <2>2. \A a \in Apps : IsUpToDate(a, req, wm.windows, apc[a], on[a])
    <3>1. \A a \in Apps : apc[a] = "wait" /\ ~HasWindow(wm.windows, a)
      BY <1>2 DEF DisplayInit, HasWindow
    <3> QED
      BY <1>3, <3>1 DEF IsUpToDate
  <2>3. IsSeen(wm.windows, shown, lost)
    <3>1. \A p \in Point : shown[p][1] = "root"
      BY DEF DisplayInit
    <3>2. "root" \notin Apps
      BY DisplayAssumption DEF Apps
    <3> QED
      BY <3>1, <3>2 DEF IsSeen
  <2> QED
    BY <2>1, <2>2, <2>3 DEF WindowsInv
<1>5. ClientsInv
  <2>1. \A pid : Introductions(req, pid) = {}
    BY <1>2 DEF Introductions
  <2>2. Asked = 0
    BY DEF Asked, DisplayInit
  <2>3. clients \in Seq(Apps) /\ Len(clients) = 0 /\ DOMAIN req = {}
    BY <1>2
  <2> QED
    BY <2>1, <2>2, <2>3 DEF ClientsInv, IsIntroduced
<1>6. OrderInv
  <2>1. NotesWait
    BY <1>3 DEF NotesWait, DisplayInit, Apps
  <2>2. at = 1 /\ waiting = FALSE /\ ev \in [Apps -> Seq(Event)]
    BY DEF DisplayInit
  <2>3. rep \in Seq(Nat) /\ \A i \in DOMAIN rep : rep[i] <= Len(wm.windows)
    BY <1>2
  <2>4. at \in 1 .. 14 /\ waiting \in BOOLEAN /\ (waiting => at \notin {3, 5, 11, 14})
    <3>1. at \in 1 .. 14
      BY <2>2
    <3>2. waiting \in BOOLEAN /\ ~waiting
      BY <2>2, Zenon
    <3> QED
      BY <3>1, <3>2, Zenon
  <2> QED
    BY <1>2, <2>1, <2>2, <2>3, <2>4, Zenon DEF OrderInv
<1> QED
  BY <1>1, <1>4, <1>5, <1>6 DEF SessionInv

\* The session's windows, messages, introductions and answers belong together at
\* every step of the server, the applications, the pointer and the kernel.
THEOREM SessionInvariance == DisplaySpec => []SessionInv
<1>1. DisplayInit => SessionInv
  BY StartsSession
<1>2. SessionInv /\ [DisplayNext]_dvars => SessionInv'
  <2> SUFFICES ASSUME SessionInv, [DisplayNext]_dvars
               PROVE  SessionInv'
    OBVIOUS
  <2>1. CASE UNCHANGED dvars
    <3>1. /\ UNCHANGED <<wm, shown, lost, apc, on, clients, at, waiting, rep, ev, req>>
          /\ DisplayInv'
      BY <2>1 DEF dvars, server, kernel, apps, input, SessionInv, DisplayInv, SendersInv, Current
    <3>2. WindowsInv' /\ ClientsInv'
      BY <3>1, OthersKeepWindows, OthersKeepClients
    <3>3. OrderInv'
      BY <3>1 DEF SessionInv, OrderInv, NotesWait
    <3> QED
      BY <3>1, <3>2, <3>3 DEF SessionInv
  <2>2. CASE ServerNext
    <3>1. DisplayInv' /\ WindowsInv'
      BY <2>2, ServerKeeps, ServerKeepsWindows DEF SessionInv
    <3> QED
      BY <2>2, <3>1, ServerKeepsClients, ServerKeepsOrder DEF SessionInv
  <2> QED
    BY <2>1, <2>2, AppKeepsSession, InputKeepsSession, KernelKeepsSession DEF DisplayNext
<1> QED
  BY <1>1, <1>2, PTL DEF DisplaySpec

\* The notes' window never comes before the shell's: stage4_setup() starts the
\* notes after an answer that counted a window, however late that answer was.
THEOREM ShellOpensFirst == DisplaySpec => []OpensInOrder
<1>1. SessionInv => OpensInOrder
  <2> SUFFICES ASSUME SessionInv, NEW i \in DOMAIN wm.windows, wm.windows[i].owner = Notes
               PROVE  \E j \in 1 .. i - 1 : wm.windows[j].owner = Shell
    BY DEF OpensInOrder
  <2>1. wm.windows \in Seq(WindowType)
    BY DEF SessionInv, DisplayInv, IsWm
  <2>2. wm.windows[1].owner = Shell
    BY DEF SessionInv, OrderInv
  <2>3. i # 1
    BY <2>2, DisplayAssumption
  <2>4. 1 \in 1 .. i - 1
    BY <2>1, <2>3
  <2> QED
    BY <2>2, <2>4
<1> QED
  BY <1>1, SessionInvariance, PTL

\* A row that is seen is as the application has it: between a tap and its redraw
\* there is a drawing on its way, and no message of app.rs is applied to another
\* window or out of order by gpudrv.rs.
THEOREM SeenRowsAreCurrent == DisplaySpec => []RowsAreSeen
<1>1. SessionInv => RowsAreSeen
  <2> SUFFICES ASSUME SessionInv, NEW a \in Apps, NEW p \in Point, shown[p][1] = a, ~Drawing(a), p \notin lost
               PROVE  shown[p][2] = ColourAt(a, p)
    BY DEF RowsAreSeen
  <2>1. PICK i \in DOMAIN wm.windows : Contains(wm.windows[i].rect, p) /\ shown[p] = Paint(wm.windows[i], p)
    BY DEF SessionInv, WindowsInv, IsSeen
  <2> DEFINE x == wm.windows[i]
             r == Place(a)
  <2>2. x.owner = a
    BY <2>1 DEF Paint
  <2>3. x.rect = Clamp(r) /\ HasWindow(wm.windows, a)
    BY <2>2 DEF SessionInv, WindowsInv, IsTidy, HasWindow
  <2>4. x.cmds = on[a]
    <3>1. IsUpToDate(a, req, wm.windows, apc[a], on[a])
      BY DEF SessionInv, WindowsInv
    <3>2. apc[a] \notin {"first", "draw"} /\ Sent(req, "draw", a) = {}
      BY DEF Drawing, Sent
    <3>3. Drawn(wm.windows, a, on[a])
      BY <2>3, <3>1, <3>2 DEF IsUpToDate
    <3> QED
      BY <2>2, <3>3 DEF Drawn
  <2>5. r \in RectType /\ Contains(Clamp(r), p)
    BY <2>1, <2>3 DEF Place, Rect, RectType
  <2>6. Clamp(r).y = r.y
    <3>1. Contains(r, p)
      BY <2>5, ClampKeeps
    <3> HIDE DEF r
    <3>2. r.y \in Nat /\ r.y <= p /\ p < ScreenHeight /\ p \in Nat
      BY <2>5, <3>1, WindowsAssumption DEF Contains, RectType, Point
    <3> QED
      BY <3>2, WindowsAssumption DEF Clamp, Rect, Lower
  <2>7. RowAt(x, p) = p - Place(a).y - TitleBar + 1
    BY <2>3, <2>6 DEF RowAt
  <2>8. shown[p][2] = IF RowAt(x, p) \in DOMAIN x.cmds THEN x.cmds[RowAt(x, p)] ELSE Plain
    BY <2>1 DEF Paint
  <2> QED
    BY <2>4, <2>7, <2>8 DEF ColourAt
<1> QED
  BY <1>1, SessionInvariance, PTL

\* A tap goes to the application that is seen where it was made: route_tap()
\* finds the window painted last, and its owner's slot has its owner's channel.
THEOREM TapsReachTheSeen == DisplaySpec => TapsGoWhereSeen
<1>1. SessionInv /\ [DisplayNext]_dvars =>
        [\A a \in Apps :
           serving /\ req # <<>> /\ Msg.op = "input" /\ ev'[a] # ev[a] /\ req' = Tail(req) =>
              Contains(wm.damage, Msg.p) \/ Msg.p \in lost \/ shown[Msg.p][1] = a]_dvars
  <2> SUFFICES ASSUME SessionInv, DisplayNext, NEW a \in Apps,
                      serving, req # <<>>, Msg.op = "input", ev'[a] # ev[a], req' = Tail(req),
                      ~Contains(wm.damage, Msg.p), Msg.p \notin lost
               PROVE  shown[Msg.p][1] = a
    OBVIOUS
  <2> DEFINE p == Msg.p
             q == req
  <2>1. AllOK(req) /\ IsWm(wm) /\ wm.windows \in Seq(WindowType)
    BY DEF SessionInv, DisplayInv, IsWm
  <2>2. \A m : Tail(req) # Append(req, m) /\ Tail(req) # req
    <3>1. PICK S : req \in Seq(S)
      BY <2>1 DEF AllOK
    <3>2. Len(Tail(req)) = Len(req) - 1 /\ Len(req) \in Nat
      BY <3>1
    <3>3. ASSUME NEW m
          PROVE  Len(Append(req, m)) = Len(req) + 1
      <4>1. req \in Seq(S \cup {m}) /\ m \in S \cup {m}
        BY <3>1
      <4> QED
        BY <4>1, AppendProperties
    <3> DEFINE n == Len(req)
    <3>4. n - 1 # n /\ n - 1 # n + 1
      <4>1. n \in Nat
        BY <3>2
      <4> HIDE DEF n
      <4> QED
        BY <4>1
    <3>5. Tail(req) # req
      BY <3>2, <3>4
    <3>6. ASSUME NEW m, Tail(req) = Append(req, m)
          PROVE  FALSE
      <4>1. Len(Append(req, m)) = n - 1
        BY <3>2, <3>6
      <4>2. Len(Append(req, m)) = n + 1
        BY <3>3
      <4> QED
        BY <3>4, <4>1, <4>2
    <3> QED
      BY <3>5, <3>6
  <2>3. HandleInput
    <3>1. ServerNext
      <4>1. ~\E g \in Groups : InputGroup(g)
        BY <2>2 DEF InputGroup, Send
      <4>2. ~\E b \in Apps : AppNext(b)
        BY <2>2, AppDoes
      <4>3. ~KernelNext
        BY <2>2 DEF KernelNext, KernelStarts, KernelSends, KernelAnswered, KernelTimesOut,
                    KernelGivesUp, ReportEnds, Send
      <4> QED
        BY <4>1, <4>2, <4>3 DEF DisplayNext
    <3> QED
      BY <3>1, ServerTakes
  <2>4. p \in Point
    <3>1. MsgOK(Msg)
      BY <2>1, TailOK DEF Msg
    <3> QED
      BY <3>1 DEF MsgOK
  <2> DEFINE hit == {i \in Top(wm, p) : SlotOf(wm.windows[i].owner) # {}}
             k == CHOOSE i \in hit : TRUE
             w == wm.windows[k]
             s == CHOOSE j \in SlotOf(w.owner) : TRUE
             to == Slots[s]
  <2>5. hit # {} /\ ev' = [ev EXCEPT ![to] = Append(@, [op |-> "tap", y |-> p - w.rect.y])]
    BY <2>3 DEF HandleInput
  <2>6. k \in Top(wm, p) /\ SlotOf(w.owner) # {}
    BY <2>5
  <2>7. s \in DOMAIN clients /\ clients[s] = w.owner
    BY <2>6 DEF SlotOf
  <2>8. to = w.owner
    <3>1. /\ clients \in Seq(Apps) /\ Len(clients) <= 2
          /\ (Len(clients) >= 1 => clients[1] = Shell) /\ (Len(clients) = 2 => clients[2] = Notes)
      BY DEF SessionInv, ClientsInv, IsIntroduced
    <3> HIDE DEF s, w
    <3>2. (s = 1 /\ clients[s] = Shell) \/ (s = 2 /\ clients[s] = Notes)
      <4> DEFINE n == Len(clients)
      <4>1. n \in Nat /\ n <= 2 /\ s \in 1 .. n
        BY <2>7, <3>1
      <4>2. (s = 1 /\ n >= 1) \/ (s = 2 /\ n = 2)
        <5> HIDE DEF n
        <5> QED
          BY <4>1
      <4> QED
        BY <3>1, <4>2
    <3> QED
      BY <2>7, <3>2 DEF Slots
  <2>9. a = w.owner
    <3>1. ev \in [Apps -> Seq(Event)]
      BY DEF SessionInv, OrderInv
    <3> HIDE DEF to, w
    <3> QED
      BY <2>5, <2>8, <3>1
  <2>10. PaintedLast(wm, p) = k /\ Over(wm, p) # {}
    <3>1. k \in Over(wm, p) /\ \A j \in Over(wm, p) : wm.windows[j].z <= wm.windows[k].z
      BY <2>6 DEF Top
    <3> HIDE DEF k
    <3> DEFINE l == PaintedLast(wm, p)
    <3>2. l \in Over(wm, p) /\ \A j \in Over(wm, p) : wm.windows[j].z <= wm.windows[l].z
      BY <3>1 DEF PaintedLast
    <3> HIDE DEF l
    <3>3. \A j \in Over(wm, p) : j \in DOMAIN wm.windows /\ wm.windows[j].z \in Nat
      <4>1. \A j \in DOMAIN wm.windows : wm.windows[j] \in WindowType
        BY <2>1
      <4> QED
        BY <4>1 DEF Over, WindowType
    <3>4. wm.windows[l].z = wm.windows[k].z
      BY <3>1, <3>2, <3>3
    <3>5. l = k
      BY <3>1, <3>2, <3>3, <3>4 DEF SessionInv, WindowsInv, IsTidy
    <3> QED
      BY <3>1, <3>5 DEF l
  <2>11. shown[p] = Pixel(wm, root, p)
    BY <2>4 DEF SessionInv, DisplayInv, Current
  <2>12. shown[p] = Paint(w, p)
    BY <2>10, <2>11 DEF Pixel
  <2>13. shown[p][1] = w.owner
    <3> DEFINE c == IF RowAt(w, p) \in DOMAIN w.cmds THEN w.cmds[RowAt(w, p)] ELSE Plain
    <3>1. shown[p] = <<w.owner, c>>
      BY <2>12 DEF Paint
    <3> HIDE DEF c, w
    <3> QED
      BY <3>1
  <2> QED
    BY <2>9, <2>13
<1> QED
  BY <1>1, SessionInvariance, PTL DEF DisplaySpec, TapsGoWhereSeen
=============================================================================
