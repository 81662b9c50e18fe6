---------------------------- MODULE LexecSystem ----------------------------
(***************************************************************************)
(* lexec-gui and lexec-daemon together, with deaths and restarts of both.  *)
(* The daemon is IpcServer seen from the socket: one call of               *)
(* ipc_request_permission() at a time, gui_timeout positive, descriptor    *)
(* numbers left out.  While the event loop waits for an answer it serves   *)
(* no other event, the client's own open() calls included.                 *)
(***************************************************************************)
EXTENDS GuiClient

CONSTANTS
    Files,    \* files a prompt may be about
    MaxIds,   \* bound: prompts in all runs of the daemon together
    MaxRuns   \* bound: runs of the daemon

ASSUME SystemAssumption == MaxIds \in Nat /\ MaxRuns \in Nat

VARIABLES
    run,      \* which run of the daemon this is
    next_id,  \* g_server.next_request_id
    prompts,  \* calls of ipc_request_permission() so far, for the bound
    client,   \* the connection client_fd names, 0 if none
    ask       \* the request the event loop waits for

vars == <<guiVars, run, next_id, prompts, client, ask>>

Requests == [id : 1 .. MaxIds, run : 1 .. MaxRuns, file : Files]

-----------------------------------------------------------------------------
(* The accept thread and the readers.                                      *)

\* The client it replaces is closed at once, or stays open for a reader that
\* is blocked in read().
Accept ==
    /\ up
    /\ backlog # <<>>
    /\ client' = Head(backlog)
    /\ backlog' = Tail(backlog)
    /\ held' \in {held \cup {Head(backlog)},
                  (held \ {client}) \cup {Head(backlog)}}
    /\ UNCHANGED <<activated, sockVars, timers, label, dialogs, opening, up,
                   toGui, toDaemon, run, next_id, prompts, ask>>

\* A reader that was replaced holds a number that may be the client's by now:
\* then it clears client_fd and closes the number.
ReaderEnds(c) ==
    \/ /\ held' = held \ {c}
       /\ client' = IF client = c THEN 0 ELSE client
    \/ /\ client \notin {0, c}
       /\ client' = 0
       /\ held' \in {held \ {c}, held \ {c, client}}

ReaderEof(c) ==
    /\ c \in held \ fds
    /\ toDaemon[c] = <<>>
    /\ ReaderEnds(c)
    /\ UNCHANGED <<activated, sockVars, timers, label, dialogs, opening, up,
                   backlog, toGui, toDaemon, run, next_id, prompts, ask>>

\* Mutant: whatever answer comes in is taken for the pending request's.
MatchesAny(r) == ask # {}

Matches(r) == \E q \in ask : q.id = r.id

\* The reader of c matches an answer by its id alone; one that nobody waits
\* for is dropped.  A replaced reader may fail its next read().
Take(c) ==
    /\ c \in held
    /\ toDaemon[c] # <<>>
    /\ LET r == Head(toDaemon[c])
       IN  IF Matches(r)
           THEN ask' = {}
           ELSE UNCHANGED ask
    /\ toDaemon' = [toDaemon EXCEPT ![c] = Tail(@)]
    /\ \/ UNCHANGED <<held, client>>
       \/ c # client /\ ReaderEnds(c)
    /\ UNCHANGED <<activated, sockVars, timers, label, dialogs, opening, up,
                   backlog, toGui, run, next_id, prompts>>

-----------------------------------------------------------------------------
(* The event loop.                                                         *)

\* Mutant: __sync_add_and_fetch().
AskNext(f) ==
    /\ up
    /\ ask = {}
    /\ client # 0
    /\ prompts < MaxIds
    /\ prompts' = prompts + 1
    /\ next_id' = next_id + 1
    /\ LET r == [id |-> next_id + 1, run |-> run, file |-> f]
       IN  IF client \in fds
           THEN /\ ask' = {r}
                /\ toGui' = [toGui EXCEPT ![client] = Append(@, r)]
           ELSE UNCHANGED <<ask, toGui>>
    /\ UNCHANGED <<activated, sockVars, timers, label, dialogs, opening,
                   daemonEnds, backlog, toDaemon, run, client>>

\* The request is written to the client; a closed one means no client.
Ask(f) ==
    /\ up
    /\ ask = {}
    /\ client # 0
    /\ prompts < MaxIds
    /\ prompts' = prompts + 1
    /\ next_id' = next_id + 1
    /\ LET r == [id |-> next_id, run |-> run, file |-> f]
       IN  IF client \in fds
           THEN /\ ask' = {r}
                /\ toGui' = [toGui EXCEPT ![client] = Append(@, r)]
           ELSE UNCHANGED <<ask, toGui>>
    /\ UNCHANGED <<activated, sockVars, timers, label, dialogs, opening,
                   daemonEnds, backlog, toDaemon, run, client>>

\* Mutant: the wait has a deadline only when the client is gone.
TimeoutAlone ==
    /\ ask # {}
    /\ client = 0
    /\ ask' = {}
    /\ UNCHANGED <<guiVars, run, next_id, prompts, client>>

Timeout ==
    /\ ask # {}
    /\ ask' = {}
    /\ UNCHANGED <<guiVars, run, next_id, prompts, client>>

\* The event of the client's open() is answered between two prompts.
ServeGui ==
    /\ ~up \/ ask = {}
    /\ Present
    /\ UNCHANGED <<run, next_id, prompts, client, ask>>

-----------------------------------------------------------------------------
(* Deaths and restarts of the daemon.                                      *)

Die ==
    /\ up
    /\ up' = FALSE
    /\ held' = {}
    /\ backlog' = <<>>
    /\ client' = 0
    /\ ask' = {}
    /\ toGui' = [c \in Conns |-> <<>>]
    /\ toDaemon' = [c \in Conns |-> <<>>]
    /\ UNCHANGED <<activated, sockVars, timers, label, dialogs, opening, run,
                   next_id, prompts>>

\* next_request_id starts again at 1.
Start ==
    /\ ~up
    /\ run < MaxRuns
    /\ up' = TRUE
    /\ run' = run + 1
    /\ next_id' = 1
    /\ UNCHANGED <<activated, sockVars, timers, label, dialogs, opening, held,
                   backlog, toGui, toDaemon, prompts, client, ask>>

-----------------------------------------------------------------------------
Init ==
    /\ GuiInit
    /\ up = FALSE
    /\ backlog = <<>>
    /\ held = {}
    /\ toGui = [c \in Conns |-> <<>>]
    /\ toDaemon = [c \in Conns |-> <<>>]
    /\ run = 0
    /\ next_id = 1
    /\ prompts = 0
    /\ client = 0
    /\ ask = {}

GuiAction(A) == A /\ UNCHANGED <<run, next_id, prompts, client, ask>>

Gui ==
    \/ \E c \in Conns : GuiAction(HangUp(c)) \/ GuiAction(Readable(c))
    \/ GuiAction(TimerFires)
    \/ GuiAction(ReconnectClicked)
    \/ GuiAction(Activate)
    \/ GuiAction(GuiExits)
    \/ \E r \in Requests : GuiAction(Click(r))

Daemon ==
    \/ Accept
    \/ \E c \in Conns : ReaderEof(c) \/ Take(c)
    \/ \E f \in Files : Ask(f)
    \/ Timeout
    \/ ServeGui
    \/ Die
    \/ Start

Next == Gui \/ Daemon

Spec == Init /\ [][Next]_vars

\* Both main loops run, timers fire, and the clock reaches the timeout; the
\* kernel's queue serves the client's open() in its turn.  Nobody has to
\* start, die, click or be asked.
FairSpec ==
    /\ Spec
    /\ \A c \in Conns :
          /\ WF_vars(GuiAction(HangUp(c)))
          /\ WF_vars(GuiAction(Readable(c)))
          /\ WF_vars(ReaderEof(c))
          /\ WF_vars(Take(c))
    /\ WF_vars(GuiAction(TimerFires))
    /\ WF_vars(Accept)
    /\ WF_vars(Timeout)
    /\ SF_vars(ServeGui)

-----------------------------------------------------------------------------
(* Properties.                                                             *)

\* Types of the variables.
TypeOK ==
    /\ {activated, label, up} \subseteq BOOLEAN
    /\ sock \in Conns \cup {0}
    /\ watches \subseteq Conns /\ fds \subseteq Conns /\ held \subseteq Conns
    /\ timers \in Nat
    /\ dialogs \subseteq Requests
    /\ opening \subseteq Requests
    /\ backlog \in Seq(Conns)
    /\ toGui \in [Conns -> Seq(Requests)]
    /\ toDaemon \in [Conns -> Seq(Requests)]
    /\ run \in 0 .. MaxRuns
    /\ next_id \in 1 .. MaxIds + 1 /\ prompts \in next_id - 1 .. MaxIds
    /\ client \in Conns \cup {0}
    /\ ask \subseteq Requests

\* Within one run of the daemon an answer is applied to the file its dialog
\* showed, over whichever connection and however late it comes.  A dialog of
\* an earlier run can answer for another file: ids start again at 1.
SameRunConsent ==
    [][\A c \in Conns : \A q \in ask :
          Take(c) /\ q \notin ask' =>
              \/ Head(toDaemon[c]).run # q.run
              \/ Head(toDaemon[c]).file = q.file]_vars

\* Overlapping connections and timers do not chase each other for ever: once
\* both programs stay up and the user leaves the Reconnect button alone, the
\* client ends up connected, with no timer left.
Settles ==
    /\ <>[](activated /\ up)
    /\ <>[][~GuiAction(ReconnectClicked) /\ ~GuiAction(Activate)]_vars
    => <>[](sock # 0 /\ timers = 0)

\* The client is not stuck in a file open for longer than a prompt lasts.
GuiUnblocked == opening # {} ~> opening = {}
=============================================================================
