------------------------------ MODULE Display ------------------------------
(***************************************************************************)
(* The display session: the server that owns the screen                    *)
(* (user/src/gpudrv.rs), the pointer's driver (user/src/inputdrv.rs), two  *)
(* applications (user/src/app.rs), and the kernel that starts them and     *)
(* draws the background (kernel/src/display.rs, stage4_setup).  All of     *)
(* them send to the server's channel; it answers the kernel only, and      *)
(* sends taps on each application's channel.                               *)
(*                                                                         *)
(* A handled message is one step: the server shares nothing with the rest  *)
(* but its channels.  An application's sends are steps of their own.  The  *)
(* session is over when the server has been shut down: the machine is      *)
(* turned off then.                                                        *)
(***************************************************************************)
EXTENDS Windows

CONSTANTS
    Shell, Notes,  \* the applications' pids
    AxisMax,       \* the pointer's range is 0 .. AxisMax
    DevValues,     \* what it reports
    MaxInputs,     \* bound: groups of input events
    MaxFrames,     \* frames of show_status_screen()
    MaxFaults      \* bound: answers that come too late and transfers that fail

ASSUME DisplayAssumption ==
    /\ Shell # Notes /\ "root" \notin {Shell, Notes}
    /\ AxisMax \in Nat \ {0} /\ DevValues \subseteq Int
    /\ MaxInputs \in Nat /\ MaxFrames \in Nat /\ MaxFaults \in Nat

Apps == {Shell, Notes}

VARIABLES
    wm, root,      \* the windows, and the background's version
    clients,       \* the pids introduced, in the order of the server's slots
    serving,       \* the server has not been shut down
    shown,         \* what the device shows at each point
    lost,          \* ghost: points whose last transfer failed
    req, rep, ev,  \* the channels: to the server, to the kernel, to each application
    pointer,       \* inputdrv: where, and whether down
    apc, on,       \* where each application is; which of its rows are on
    at, waiting,   \* the kernel's step, and whether it waits for an answer
    drawn,         \* frames it has begun
    inputs, faults

server == <<wm, root, clients, serving, shown, lost>>
kernel == <<at, waiting, drawn>>
apps == <<apc, on>>
input == <<pointer, inputs>>
dvars == <<server, kernel, apps, input, req, rep, ev, faults>>

\* The applications' windows: the notes over the end of the shell.
WinId(a) == IF a = Shell THEN 0 ELSE 1
Place(a) == IF a = Shell THEN Rect(0, 3) ELSE Rect(2, 2)
Rows(a) == IF a = Shell THEN 2 ELSE 1

\* A row's colour.
Off == 1
On == 2

\* The channel behind each of the server's client slots.
Slots == <<Shell, Notes>>
MaxClients == 4

DisplayInit ==
    /\ wm = NewWm /\ root = 0 /\ clients = <<>> /\ serving = TRUE
    /\ shown = [p \in Point |-> <<"root", 0>>] /\ lost = {}
    /\ req = <<>> /\ rep = <<>> /\ ev = [a \in Apps |-> <<>>]
    /\ pointer = [y |-> 0, down |-> FALSE]
    /\ apc = [a \in Apps |-> "wait"]
    /\ on = [a \in Apps |-> [r \in 1 .. Rows(a) |-> Off]]
    /\ at = 1 /\ waiting = FALSE /\ drawn = 0
    /\ inputs = 0 /\ faults = 0

Send(m) == req' = Append(req, m)

-----------------------------------------------------------------------------
(***************************************************************************)
(* inputdrv: the fields of a group change the position and the button; the *)
(* EV_SYN that ends it sends both.  Its heartbeat, an empty message the    *)
(* server passes over, is left out.                                        *)
(***************************************************************************)
ToScreen(v) == (Lower(Upper(v, 0), AxisMax) * (ScreenHeight - 1)) \div AxisMax

InputGroup(g) ==
    /\ serving /\ inputs < MaxInputs
    /\ inputs' = inputs + 1
    /\ pointer' = g
    /\ Send([op |-> "input", from |-> "inputdrv", p |-> g.y, down |-> g.down])
    /\ UNCHANGED <<server, kernel, apps, rep, ev, faults>>

\* The groups the device can end now: a press, a release, or a move while
\* pressed.  A move of a pointer that is up only decides where the next is.
Groups ==
    {g \in [y : {pointer.y} \cup {ToScreen(v) : v \in DevValues}, down : BOOLEAN] :
        g # pointer /\ (g.down \/ pointer.down)}

-----------------------------------------------------------------------------
(***************************************************************************)
(* An application.                                                         *)
(***************************************************************************)
App(a, l) == apc' = [apc EXCEPT ![a] = l]
AppSends(a, l, m) ==
    /\ Send(m) /\ App(a, l)
    /\ UNCHANGED <<server, kernel, input, rep, faults>>

\* Anything before EV_START is dropped.
AwaitStart(a) ==
    /\ apc[a] = "wait" /\ ev[a] # <<>>
    /\ App(a, IF Head(ev[a]).op = "start" THEN "create" ELSE "wait")
    /\ ev' = [ev EXCEPT ![a] = Tail(@)]
    /\ UNCHANGED <<server, kernel, input, on, req, rep, faults>>

OpenWindow(a) ==
    /\ apc[a] = "create"
    /\ AppSends(a, "first", [op |-> "create", from |-> a, id |-> WinId(a), rect |-> Place(a)])
    /\ UNCHANGED <<on, ev>>

\* draw(): one message that resets, fills the rows and composes.
Draw(a) ==
    /\ apc[a] \in {"first", "draw"}
    /\ AppSends(a, IF apc[a] = "first" /\ a = Notes THEN "poach" ELSE "loop",
                [op |-> "draw", from |-> a, id |-> WinId(a), rows |-> on[a]])
    /\ UNCHANGED <<on, ev>>

\* The notes ask to move the shell's window.
Poach(a) ==
    /\ apc[a] = "poach"
    /\ AppSends(a, "loop", [op |-> "move", from |-> a, id |-> WinId(Shell), y |-> 0])
    /\ UNCHANGED <<on, ev>>

\* A tap raises the window; one on a row changes the row and redraws.
AppTap(a) ==
    /\ apc[a] = "loop" /\ ev[a] # <<>>
    /\ LET e == Head(ev[a])
           row == e.y - TitleBar + 1 IN
       /\ e.op = "tap"
       /\ IF row \in 1 .. Rows(a)
          THEN /\ on' = [on EXCEPT ![a][row] = Off + On - @]
               /\ AppSends(a, "draw", [op |-> "raise", from |-> a, id |-> WinId(a)])
          ELSE /\ AppSends(a, "loop", [op |-> "raise", from |-> a, id |-> WinId(a)])
               /\ UNCHANGED on
    /\ ev' = [ev EXCEPT ![a] = Tail(@)]

-----------------------------------------------------------------------------
(***************************************************************************)
(* The server: one message.                                                *)
(***************************************************************************)
Msg == Head(req)

Takes(op) ==
    /\ serving /\ req # <<>> /\ Msg.op = op
    /\ req' = Tail(req)
    /\ UNCHANGED <<kernel, apps, input>>

\* The kernel alone is answered, with the number of windows among others.
Answer(w) == rep' = Append(rep, Len(w.windows))
Quiet == UNCHANGED rep

\* compose(): the damage is painted, transferred and forgotten, whether the
\* device took it or not.
Compose(w, r) ==
    LET damaged == {p \in Point : Contains(Clamp(w.damage), p)} IN
    /\ wm' = [w EXCEPT !.damage = Empty] /\ root' = r
    /\ \/ /\ shown' = [p \in Point |-> IF p \in damaged THEN Pixel(w, r, p) ELSE shown[p]]
          /\ lost' = lost \ damaged /\ UNCHANGED faults
       \/ /\ damaged # {} /\ faults < MaxFaults
          /\ faults' = faults + 1
          /\ lost' = lost \cup damaged /\ UNCHANGED shown

Unshown(w) ==
    wm' = w /\ UNCHANGED <<root, shown, lost, faults>>

\* route_tap(): to the owner's slot, if the owner was introduced.
SlotOf(pid) == {i \in DOMAIN clients : clients[i] = pid}

HandleInput ==
    /\ Takes("input")
    /\ LET hit == {i \in Top(wm, Msg.p) : SlotOf(wm.windows[i].owner) # {}} IN
       IF Msg.down /\ hit # {}
       THEN LET w == wm.windows[CHOOSE i \in hit : TRUE]
                to == Slots[CHOOSE s \in SlotOf(w.owner) : TRUE] IN
            ev' = [ev EXCEPT ![to] = Append(@, [op |-> "tap", y |-> Msg.p - w.rect.y])]
       ELSE UNCHANGED ev
    /\ Quiet /\ UNCHANGED <<server, faults>>

HandleCreate ==
    /\ Takes("create")
    /\ Unshown(Create(wm, Msg.from, Msg.id, Msg.rect))
    /\ Quiet /\ UNCHANGED <<clients, serving, ev>>

HandleRaise ==
    /\ Takes("raise")
    /\ Unshown(Raise(wm, Msg.from, Msg.id))
    /\ Quiet /\ UNCHANGED <<clients, serving, ev>>

\* Mutant of HandleDraw: shown when somebody else composes.
HandleDrawUnshown ==
    /\ Takes("draw")
    /\ Unshown(Push(Reset(wm, Msg.from, Msg.id), Msg.from, Msg.id, Msg.rows))
    /\ Quiet /\ UNCHANGED <<clients, serving, ev>>

HandleDraw ==
    /\ Takes("draw")
    /\ Compose(Push(Reset(wm, Msg.from, Msg.id), Msg.from, Msg.id, Msg.rows), root)
    /\ Quiet /\ UNCHANGED <<clients, serving, ev>>

HandleMove ==
    /\ Takes("move")
    /\ Compose(Move(wm, Msg.from, Msg.id, Msg.y), root)
    /\ Quiet /\ UNCHANGED <<clients, serving, ev>>

\* OP_CLEAR and what is drawn on it: every point is damaged.
HandleFrame ==
    /\ Takes("frame")
    /\ Compose(DirtyAll(wm), Msg.version)
    /\ Answer(wm) /\ UNCHANGED <<clients, serving, ev>>

HandleCompose ==
    /\ Takes("compose")
    /\ Compose(wm, root)
    /\ Answer(wm) /\ UNCHANGED <<clients, serving, ev>>

\* OP_STATS only prints.
HandleStats ==
    /\ Takes("stats")
    /\ Unshown(wm)
    /\ Answer(wm) /\ UNCHANGED <<clients, serving, ev>>

HandleClient ==
    /\ Takes("client")
    /\ clients' = IF Len(clients) < MaxClients THEN Append(clients, Msg.pid) ELSE clients
    /\ Unshown(wm)
    /\ Answer(wm) /\ UNCHANGED <<serving, ev>>

HandleShutdown ==
    /\ Takes("shutdown")
    /\ serving' = FALSE
    /\ Unshown(wm)
    /\ Answer(wm) /\ UNCHANGED <<clients, ev>>

ServerNext ==
    \/ HandleInput \/ HandleCreate \/ HandleRaise \/ HandleDraw \/ HandleMove
    \/ HandleFrame \/ HandleCompose \/ HandleStats \/ HandleClient \/ HandleShutdown

-----------------------------------------------------------------------------
(***************************************************************************)
(* The kernel: stage4_setup(), show_status_screen(), stage4_report(),      *)
(* shutdown().  A round trip takes the first answer there is: one that     *)
(* came too late is taken for the answer to the next request.              *)
(***************************************************************************)

\* With both windows open, and a pointer, the report follows the status screen;
\* when a window was not opened in time, the shutdown does.
Plan ==
    <<[do |-> "client", pid |-> Shell], [do |-> "client", pid |-> Notes],
      [do |-> "start", pid |-> Shell], [do |-> "windows", n |-> 1],
      [do |-> "start", pid |-> Notes], [do |-> "windows", n |-> 2],
      [do |-> "frame"], [do |-> "report"], [do |-> "stats"],
      [do |-> "shutdown"], [do |-> "off"],
      [do |-> "frame"], [do |-> "shutdown"], [do |-> "off"]>>
Step == Plan[at]
GivenUp == 12

KernelStarts ==
    /\ Step.do = "start"
    /\ ev' = [ev EXCEPT ![Step.pid] = Append(@, [op |-> "start"])]
    /\ at' = at + 1
    /\ UNCHANGED <<server, apps, input, req, rep, waiting, drawn, faults>>

\* A frame fits into one batch of commands, which ends with OP_PRESENT; what
\* show_status_screen() draws on it is its version.
Frame(version) == [op |-> "frame", from |-> "kernel", version |-> version]
StatusScreen == Frame(drawn + 1)

Request ==
    CASE Step.do = "client" -> [op |-> "client", from |-> "kernel", pid |-> Step.pid]
      [] Step.do = "frame" -> StatusScreen
      [] Step.do \in {"stats", "shutdown"} -> [op |-> Step.do, from |-> "kernel"]
      [] OTHER -> [op |-> "compose", from |-> "kernel"]

KernelSends ==
    /\ Step.do \notin {"start", "off"} /\ ~waiting
    /\ Send(Request)
    /\ waiting' = TRUE
    /\ drawn' = IF Step.do = "frame" THEN drawn + 1 ELSE drawn
    /\ UNCHANGED <<server, apps, input, rep, ev, at, faults>>

\* Some(answer): wait_for_windows() asks again until there are enough, the
\* report until it has seen the taps it looks for or its time is over.
KernelAnswered ==
    /\ waiting /\ rep # <<>>
    /\ rep' = Tail(rep) /\ waiting' = FALSE
    /\ IF \/ Step.do = "windows" /\ Head(rep) < Step.n
          \/ Step.do = "frame" /\ drawn < MaxFrames
       THEN at' = at
       ELSE at' = at + 1 \/ (Step.do = "report" /\ at' = at)
    /\ UNCHANGED <<server, apps, input, req, ev, drawn, faults>>

\* None, after REPLY_TIMEOUT_TICKS: the frames end, the loops ask again, the
\* others go on.
KernelTimesOut ==
    /\ waiting /\ rep = <<>> /\ faults < MaxFaults
    /\ faults' = faults + 1
    /\ waiting' = FALSE
    /\ at' = IF Step.do \in {"windows", "report"} THEN at ELSE at + 1
    /\ UNCHANGED <<server, apps, input, req, rep, ev, drawn>>

\* The report's time is over after an answer that did not come.
ReportEnds ==
    /\ Step.do = "report" /\ ~waiting
    /\ at' = at + 1
    /\ UNCHANGED <<server, apps, input, req, rep, ev, waiting, drawn, faults>>

\* Mutant of KernelGivesUp: on with the next application.
KernelGoesOn ==
    /\ Step.do = "windows" /\ ~waiting
    /\ at' = at + 1
    /\ UNCHANGED <<server, apps, input, req, rep, ev, waiting, drawn, faults>>

\* The window was not opened in time: the status screen, and no report.
KernelGivesUp ==
    /\ Step.do = "windows" /\ ~waiting
    /\ at' = GivenUp
    /\ UNCHANGED <<server, apps, input, req, rep, ev, waiting, drawn, faults>>

KernelNext ==
    \/ KernelStarts \/ KernelSends \/ KernelAnswered \/ KernelTimesOut
    \/ KernelGivesUp \/ ReportEnds

AppNext(a) ==
    serving /\ (AwaitStart(a) \/ OpenWindow(a) \/ Draw(a) \/ Poach(a) \/ AppTap(a))

DisplayNext ==
    \/ \E g \in Groups : InputGroup(g)
    \/ \E a \in Apps : AppNext(a)
    \/ ServerNext \/ KernelNext

DisplaySpec == DisplayInit /\ [][DisplayNext]_dvars

-----------------------------------------------------------------------------
\* The damage covers every change: wherever the screen is neither damaged nor
\* behind a failed transfer, it shows what the background and the windows,
\* in their order, now amount to.
ScreenIsCurrent ==
    \A p \in Point :
        Contains(wm.damage, p) \/ p \in lost \/ shown[p] = Pixel(wm, root, p)

\* A tap reaches the application whose window is seen at that point, on that
\* application's channel, unless the screen is about to change there.
TapsGoWhereSeen ==
    [][\A a \in Apps :
          serving /\ req # <<>> /\ Msg.op = "input" /\ ev'[a] # ev[a] /\ req' = Tail(req) =>
             Contains(wm.damage, Msg.p) \/ Msg.p \in lost \/ shown[Msg.p][1] = a]_dvars

\* The notes' window never comes first, however late an answer is: the kernel
\* starts the notes only when the shell's window is there.
OpensInOrder ==
    \A i \in DOMAIN wm.windows : wm.windows[i].owner = Notes =>
        \E j \in 1 .. i - 1 : wm.windows[j].owner = Shell

\* A row that is seen is as the application has it: once it is back in its
\* loop and its messages have been handled, no point shows an older state.
Drawing(a) == apc[a] \in {"first", "draw"} \/ \E i \in DOMAIN req : req[i].from = a /\ req[i].op = "draw"
ColourAt(a, p) ==
    LET row == p - Place(a).y - TitleBar + 1 IN
    IF row \in DOMAIN on[a] THEN on[a][row] ELSE Plain
RowsAreSeen ==
    \A a \in Apps, p \in Point :
        shown[p][1] = a /\ ~Drawing(a) => shown[p][2] = ColourAt(a, p) \/ p \in lost
=============================================================================
