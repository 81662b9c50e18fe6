----------------------------- MODULE GuiClient -----------------------------
(***************************************************************************)
(* lexec-gui (src/src/gui/main.c): one thread, the GLib main loop, that    *)
(* runs the callbacks of socket watches, of 5-second timers and of the     *)
(* user.  connect_to_daemon() is called by three of them, and its success  *)
(* is not looked at by the one that the timers run.                        *)
(*                                                                         *)
(* The sockets are here, the daemon is not: a connection is alive while it *)
(* is in the backlog or its daemon end is held.                            *)
(***************************************************************************)
EXTENDS Integers, Sequences, FiniteSets

CONSTANTS
    NConns,    \* bound: connections that exist at a time
    MaxLinks,  \* bound: timers and watches together
    GuiOpens   \* showing a dialog may open files on a monitored mount

ASSUME GuiAssumption ==
    /\ NConns \in Nat \ {0}
    /\ MaxLinks \in Nat \ {0}
    /\ GuiOpens \in BOOLEAN

VARIABLES
    activated,  \* the application runs
    sock,       \* g_app.daemon_socket, 0 if none; g_app.connected goes with it
    watches,    \* connections with a GLib watch
    fds,        \* connections whose GUI end is open
    timers,     \* 5-second timers that run connect_to_daemon()
    label,      \* the status label says "Connected to daemon"
    dialogs,    \* requests whose dialog is open
    opening,    \* the request whose dialog waits for a file to open
    up,         \* the daemon listens
    backlog,    \* connections it has not accepted yet
    held,       \* connections whose daemon end is open
    toGui,      \* requests in flight on each connection
    toDaemon    \* answered requests in flight on each connection

sockVars == <<sock, watches, fds>>
daemonEnds == <<up, held>>
guiVars == <<activated, sockVars, timers, label, dialogs, opening, daemonEnds,
             backlog, toGui, toDaemon>>

Conns == 1 .. NConns

Alive == held \cup {backlog[i] : i \in DOMAIN backlog}

Busy == Alive \cup watches \cup {sock}

\* The number a new connection gets; which one it is does not matter.
Fresh(c) == c \notin Busy /\ 1 .. c - 1 \subseteq Busy

\* The main loop is not inside a callback that waits for a file.
Loop == activated /\ opening = {}

-----------------------------------------------------------------------------
(* connect_to_daemon() and disconnect_from_daemon().                       *)

\* Mutant: the watch is not installed.
ConnectUnwatched(c) ==
    /\ sock' = c
    /\ fds' = fds \cup {c}
    /\ backlog' = Append(backlog, c)
    /\ toGui' = [toGui EXCEPT ![c] = <<>>]
    /\ toDaemon' = [toDaemon EXCEPT ![c] = <<>>]
    /\ UNCHANGED watches

\* The socket and the watch it replaces are forgotten, not closed.
ConnectOn(c) ==
    /\ sock' = c
    /\ watches' = watches \cup {c}
    /\ fds' = fds \cup {c}
    /\ backlog' = Append(backlog, c)
    /\ toGui' = [toGui EXCEPT ![c] = <<>>]
    /\ toDaemon' = [toDaemon EXCEPT ![c] = <<>>]

Connect == up /\ \E c \in Conns : Fresh(c) /\ ConnectOn(c)

ConnectFails ==
    /\ ~up
    /\ UNCHANGED <<sockVars, backlog, toGui, toDaemon>>

\* From the callback of the watch of c, which is removed with it.
Disconnect(c) ==
    /\ sock' = 0
    /\ watches' = watches \ {sock, c}
    /\ fds' = fds \ {sock}
    /\ UNCHANGED <<backlog, toGui, toDaemon>>

-----------------------------------------------------------------------------
(* Callbacks of the main loop.                                             *)

\* Mutant: a second lost connection starts no timer.
LostOnce(c) ==
    /\ Disconnect(c)
    /\ label' = FALSE
    /\ timers' = IF sock = c THEN timers + 1 ELSE timers
    /\ UNCHANGED <<activated, dialogs, opening, daemonEnds>>

\* Mutant: the status label is not updated.
LostUnseen(c) ==
    /\ Disconnect(c)
    /\ timers' = timers + 1
    /\ UNCHANGED <<activated, label, dialogs, opening, daemonEnds>>

\* The callback drops the current socket, whichever connection was lost.
Lost(c) ==
    /\ Disconnect(c)
    /\ label' = FALSE
    /\ timers' = timers + 1
    /\ UNCHANGED <<activated, dialogs, opening, daemonEnds>>

\* G_IO_HUP comes before G_IO_IN: requests not yet read are lost.
HangUp(c) == Loop /\ c \in watches \ Alive /\ Lost(c)

\* The callback reads the current socket, whichever connection has data.
Readable(c) ==
    /\ Loop
    /\ c \in watches \cap Alive
    /\ toGui[c] # <<>>
    /\ sock # 0
    /\ \/ /\ toGui[sock] # <<>>
          /\ toGui' = [toGui EXCEPT ![sock] = Tail(@)]
          /\ \/ /\ dialogs' = dialogs \cup {Head(toGui[sock])}
                /\ UNCHANGED opening
             \/ /\ GuiOpens
                /\ opening' = {Head(toGui[sock])}
                /\ UNCHANGED dialogs
          /\ UNCHANGED <<activated, sockVars, timers, label, daemonEnds,
                         backlog, toDaemon>>
       \/ /\ toGui[sock] = <<>>
          /\ sock \notin Alive
          /\ Lost(c)

\* The file is open: the kernel has its answer, or nobody to wait for.
Present ==
    /\ activated
    /\ opening # {}
    /\ dialogs' = dialogs \cup opening
    /\ opening' = {}
    /\ UNCHANGED <<activated, sockVars, timers, label, daemonEnds, backlog,
                   toGui, toDaemon>>

\* Mutant: the timer keeps firing after it has connected.
TimerFiresAgain ==
    /\ Loop
    /\ timers > 0
    /\ Connect
    /\ UNCHANGED <<activated, timers, label, dialogs, opening, daemonEnds>>

\* The 0 that connect_to_daemon() returns is G_SOURCE_REMOVE; after a failure
\* the timer stays.  Nothing asks whether the client is connected already.
TimerFires ==
    /\ Loop
    /\ timers > 0
    /\ Connect
    /\ timers' = timers - 1
    /\ UNCHANGED <<activated, label, dialogs, opening, daemonEnds>>

ReconnectClicked ==
    /\ Loop
    /\ sock = 0
    /\ timers + Cardinality(watches) < MaxLinks
    /\ Connect
    /\ label' = TRUE
    /\ UNCHANGED <<activated, timers, dialogs, opening, daemonEnds>>

\* The first activation, or a second start of the single-instance application.
Activate ==
    /\ opening = {}
    /\ activated' = TRUE
    /\ sock = 0
    /\ timers + Cardinality(watches) < MaxLinks
    /\ \/ Connect /\ label' = TRUE /\ UNCHANGED timers
       \/ ConnectFails /\ label' = FALSE /\ timers' = timers + 1
    /\ UNCHANGED <<dialogs, opening, daemonEnds>>

\* The answer goes out on the current socket, if there is one.
Click(r) ==
    /\ Loop
    /\ r \in dialogs
    /\ dialogs' = dialogs \ {r}
    /\ label' = (sock # 0)
    /\ IF sock \in Alive
       THEN toDaemon' = [toDaemon EXCEPT ![sock] = Append(@, r)]
       ELSE UNCHANGED toDaemon
    /\ UNCHANGED <<activated, sockVars, timers, opening, daemonEnds, backlog,
                   toGui>>

\* on_shutdown(), or the process dies; the kernel closes every socket.
GuiExits ==
    /\ activated
    /\ activated' = FALSE
    /\ sock' = 0
    /\ watches' = {}
    /\ fds' = {}
    /\ timers' = 0
    /\ label' = FALSE
    /\ dialogs' = {}
    /\ opening' = {}
    /\ UNCHANGED <<daemonEnds, backlog, toGui, toDaemon>>

GuiInit ==
    /\ activated = FALSE
    /\ sock = 0
    /\ watches = {}
    /\ fds = {}
    /\ timers = 0
    /\ label = FALSE
    /\ dialogs = {}
    /\ opening = {}

-----------------------------------------------------------------------------
(* Properties of the client.                                               *)

\* The connection in use has a watch, so its loss is noticed, however many
\* connections were opened over one another.
WatchedSocket == sock # 0 => sock \in watches

\* A client without a connection has a timer running ("will retry",
\* gui/main.c:487), whichever callback lost the connection.
NeverGivesUp == activated /\ sock = 0 => timers > 0

\* The label never says "Connected to daemon" without a connection.
LabelNotFalselyGreen == label => sock # 0
=============================================================================
