----------------------------- MODULE IpcServer -----------------------------
(***************************************************************************)
(* The daemon's side of the GUI socket (src/src/daemon/ipc_server.c): the  *)
(* accept thread, one reader thread per connection, and the event-loop     *)
(* thread that calls ipc_request_permission().  They share client_fd, the  *)
(* pending request and the descriptor table of the process.                *)
(*                                                                         *)
(* A descriptor is a number: close(), read() and write() act on whatever   *)
(* the number names when the call is made, and a call that is already      *)
(* blocked keeps the connection it started on.  The kernel hands out the   *)
(* lowest free number, to connections and to fanotify events alike.        *)
(***************************************************************************)
EXTENDS Integers, Sequences, FiniteSets, Functions

CONSTANTS
    NConns,      \* bound: connections the GUI side ever opens
    NRequests,   \* bound: calls of ipc_request_permission() that reach a slot
    BatchSize,   \* events one read() of the fanotify descriptor returns
    SockCap,     \* requests a socket buffer holds before write() blocks
    Timed,       \* gui_timeout_ms > 0
    Foreground,  \* --foreground: main() does not fork
    MaxLive,     \* bound: connections not yet wound up, 1 if GUIs take turns
    Stray        \* request ids that bytes nobody sent as an answer may show

ASSUME IpcAssumption ==
    /\ NConns \in Nat \ {0}
    /\ NRequests \in Nat \ {0}
    /\ BatchSize \in Nat \ {0}
    /\ SockCap \in Nat \ {0}
    /\ MaxLive \in Nat \ {0}
    /\ {Timed, Foreground} \subseteq BOOLEAN
    /\ Stray \subseteq 1 .. NRequests

VARIABLES
    running,    \* g_server.running; the listening socket is closed with it
    client_fd,  \* g_server.client_fd
    fdt,        \* descriptor table: a connection, EventFd or Free
    made,       \* connections opened so far; those above taken wait in the backlog
    taken,      \* connections accepted so far
    closed,     \* connections the GUI has closed
    toGui,      \* request ids in flight on each connection
    shown,      \* request ids whose dialog is open
    said,       \* request ids the user has answered (read by no action)
    toDaemon,   \* answered ids in flight on each connection, HalfMessage if cut
    acc,        \* accept thread
    rd,         \* reader thread of each connection
    locker,     \* reader that holds g_pending_lock, 0 if none does
    slot,       \* g_pending[0]: one caller, so never a second entry
    next_id,    \* g_server.next_request_id
    batch,      \* descriptors of the events read; the head is in hand
    req         \* event-loop thread, from main() to its exit

guiVars == <<made, closed, shown, said>>
wireVars == <<toGui, toDaemon>>
vars == <<running, client_fd, fdt, made, taken, closed, toGui, shown, said,
          toDaemon, acc, rd, locker, slot, next_id, batch, req>>

Conns == 1 .. NConns
Fds == 1 .. NConns + BatchSize
Ids == 1 .. NRequests
None == -1

\* What a number of the descriptor table names when it is not a connection.
Free == 0
EventFd == -1

\* What is left of an answer whose first four bytes are gone; only the message
\* at the head of a connection can be one.
HalfMessage == 0

LowestFree(k) ==
    CHOOSE F \in SUBSET {f \in Fds : fdt[f] = Free} :
        /\ Cardinality(F) = k
        /\ \A f \in F, g \in Fds \ F : fdt[g] = Free => f < g

Closing(f) == [fdt EXCEPT ![f] = Free]

-----------------------------------------------------------------------------
(* The GUI side, as far as the daemon can see it.                          *)

WoundUp(c) == c \in closed /\ rd[c].pc \in {"done", "never"}

Connect ==
    /\ running
    /\ made < NConns
    /\ Cardinality({c \in 1 .. made : ~WoundUp(c)}) < MaxLive
    /\ made' = made + 1
    /\ UNCHANGED <<running, client_fd, fdt, taken, closed, shown, said, wireVars,
                   acc, rd, locker, slot, next_id, batch, req>>

Linked(c) == c <= made /\ c \notin closed

GuiCloses(c) ==
    /\ Linked(c)
    /\ closed' = closed \cup {c}
    /\ UNCHANGED <<running, client_fd, fdt, made, taken, shown, said, wireVars,
                   acc, rd, locker, slot, next_id, batch, req>>

GuiReads(c) ==
    /\ Linked(c)
    /\ toGui[c] # <<>>
    /\ shown' = shown \cup {Head(toGui[c])}
    /\ toGui' = [toGui EXCEPT ![c] = Tail(@)]
    /\ UNCHANGED <<running, client_fd, fdt, made, taken, closed, said, toDaemon,
                   acc, rd, locker, slot, next_id, batch, req>>

\* A dialog outlives the connection its request came on.
GuiAnswers(c, id) ==
    /\ Linked(c)
    /\ id \in shown
    /\ shown' = shown \ {id}
    /\ said' = said \cup {id}
    /\ toDaemon' = [toDaemon EXCEPT ![c] = Append(@, id)]
    /\ UNCHANGED <<running, client_fd, fdt, made, taken, closed, toGui,
                   acc, rd, locker, slot, next_id, batch, req>>

-----------------------------------------------------------------------------
(* accept_thread_func().                                                   *)

AcceptConn ==
    /\ acc.pc = "poll"
    /\ running
    /\ taken < made
    /\ \E f \in LowestFree(1) :
          /\ fdt' = [fdt EXCEPT ![f] = taken + 1]
          /\ acc' = [pc |-> "install", fd |-> f]
    /\ taken' = taken + 1
    /\ UNCHANGED <<running, client_fd, guiVars, wireVars, rd, locker, slot,
                   next_id, batch, req>>

\* Mutant: the old client is not closed.
AcceptInstallOver ==
    /\ acc.pc = "install"
    /\ client_fd' = acc.fd
    /\ acc' = [acc EXCEPT !.pc = "spawn"]
    /\ UNCHANGED <<running, fdt, guiVars, taken, wireVars, rd, locker, slot,
                   next_id, batch, req>>

AcceptInstall ==
    /\ acc.pc = "install"
    /\ fdt' = IF client_fd # None THEN Closing(client_fd) ELSE fdt
    /\ client_fd' = acc.fd
    /\ acc' = [acc EXCEPT !.pc = "spawn"]
    /\ UNCHANGED <<running, guiVars, taken, wireVars, rd, locker, slot,
                   next_id, batch, req>>

\* Whether pthread_create() made a thread is not looked at.
AcceptSpawn ==
    /\ acc.pc = "spawn"
    /\ \/ rd' = [rd EXCEPT ![taken] = [@ EXCEPT !.pc = "loop", !.fd = acc.fd]]
       \/ rd' = [rd EXCEPT ![taken] = [@ EXCEPT !.pc = "never"]]
    /\ acc' = [pc |-> "poll", fd |-> None]
    /\ UNCHANGED <<running, client_fd, fdt, guiVars, taken, wireVars, locker,
                   slot, next_id, batch, req>>

\* Mutant: poll() without a timeout.
AcceptLeavesOnConnect ==
    /\ acc.pc = "poll"
    /\ ~running
    /\ taken < made
    /\ acc' = [acc EXCEPT !.pc = "exit"]
    /\ UNCHANGED <<running, client_fd, fdt, guiVars, taken, wireVars, rd,
                   locker, slot, next_id, batch, req>>

\* Mutant: a poll() that times out ends the loop.
AcceptLeavesOnTimeout ==
    /\ acc.pc = "poll"
    /\ ~running \/ taken = made
    /\ acc' = [acc EXCEPT !.pc = "exit"]
    /\ UNCHANGED <<running, client_fd, fdt, guiVars, taken, wireVars, rd,
                   locker, slot, next_id, batch, req>>

\* poll() returns at least every second.
AcceptLeaves ==
    /\ acc.pc = "poll"
    /\ ~running
    /\ acc' = [acc EXCEPT !.pc = "exit"]
    /\ UNCHANGED <<running, client_fd, fdt, guiVars, taken, wireVars, rd,
                   locker, slot, next_id, batch, req>>

-----------------------------------------------------------------------------
(* client_reader_thread().                                                 *)

Step(c, pc) == rd' = [rd EXCEPT ![c].pc = pc]

\* The reader has eight bytes that it takes for an answer.
Heard(c, id) == rd' = [rd EXCEPT ![c].pc = "answer", ![c].msg = id]

\* read() is about to block: it keeps the connection its number names now.  On
\* a closed number it fails; on an event's it returns the next bytes of the
\* file or its end.
ReaderReads(c) ==
    /\ rd[c].pc = "loop"
    /\ running
    /\ LET on == fdt[rd[c].fd]
       IN  \/ /\ on \in Conns
              /\ rd' = [rd EXCEPT ![c].pc = "read", ![c].on = on]
           \/ on \notin Conns /\ Step(c, "eof")
           \/ on = EventFd /\ \E id \in Stray \cup {0} : Heard(c, id)
    /\ UNCHANGED <<running, client_fd, fdt, guiVars, taken, wireVars, acc,
                   locker, slot, next_id, batch, req>>

ReaderLeaves(c) ==
    /\ rd[c].pc = "loop"
    /\ ~running
    /\ Step(c, "done")
    /\ UNCHANGED <<running, client_fd, fdt, guiVars, taken, wireVars, acc,
                   locker, slot, next_id, batch, req>>

\* The rest of a cut message is dropped if it is all there is, and else read
\* together with half of the next.
ReaderTakes(c) ==
    /\ rd[c].pc = "read"
    /\ LET on == rd[c].on
           q == toDaemon[on]
       IN  /\ q # <<>>
           /\ \/ /\ Head(q) # HalfMessage
                 /\ Heard(c, Head(q))
                 /\ toDaemon' = [toDaemon EXCEPT ![on] = Tail(q)]
              \/ /\ Head(q) = HalfMessage /\ Tail(q) = <<>>
                 /\ Step(c, "loop")
                 /\ toDaemon' = [toDaemon EXCEPT ![on] = <<>>]
              \/ /\ Head(q) = HalfMessage /\ Tail(q) # <<>>
                 /\ \E id \in Stray \cup {0} : Heard(c, id)
                 /\ toDaemon' = [toDaemon EXCEPT ![on] =
                                    <<HalfMessage>> \o Tail(Tail(q))]
    /\ UNCHANGED <<running, client_fd, fdt, guiVars, taken, toGui, acc,
                   locker, slot, next_id, batch, req>>

ReaderEof(c) ==
    /\ rd[c].pc = "read"
    /\ toDaemon[rd[c].on] = <<>>
    /\ rd[c].on \in closed
    /\ Step(c, "eof")
    /\ UNCHANGED <<running, client_fd, fdt, guiVars, taken, wireVars, acc,
                   locker, slot, next_id, batch, req>>

\* Mutant: client_fd is left alone when its connection ends.
ReaderClearsNothing(c) ==
    /\ rd[c].pc = "eof"
    /\ Step(c, "close")
    /\ UNCHANGED <<running, client_fd, fdt, guiVars, taken, wireVars, acc,
                   locker, slot, next_id, batch, req>>

\* Under g_server.lock; the descriptor is closed after it is released.
ReaderClears(c) ==
    /\ rd[c].pc = "eof"
    /\ client_fd' = IF client_fd = rd[c].fd THEN None ELSE client_fd
    /\ Step(c, "close")
    /\ UNCHANGED <<running, fdt, guiVars, taken, wireVars, acc, locker, slot,
                   next_id, batch, req>>

ReaderCloses(c) ==
    /\ rd[c].pc = "close"
    /\ fdt' = Closing(rd[c].fd)
    /\ Step(c, "done")
    /\ UNCHANGED <<running, client_fd, guiVars, taken, wireVars, acc, locker,
                   slot, next_id, batch, req>>

\* g_pending_lock is taken; an answer nobody waits for is dropped.
ReaderFinds(c) ==
    /\ rd[c].pc = "answer"
    /\ locker = 0
    /\ IF slot.used /\ slot.id = rd[c].msg
       THEN Step(c, "match") /\ locker' = c
       ELSE Step(c, "loop") /\ UNCHANGED locker
    /\ UNCHANGED <<running, client_fd, fdt, guiVars, taken, wireVars, acc,
                   slot, next_id, batch, req>>

\* The slot's mutex is taken and released, then g_pending_lock released.
ReaderCompletes(c) ==
    /\ rd[c].pc = "match"
    /\ slot' = [slot EXCEPT !.completed = TRUE, !.answer = rd[c].msg]
    /\ locker' = 0
    /\ Step(c, "loop")
    /\ UNCHANGED <<running, client_fd, fdt, guiVars, taken, wireVars, acc,
                   next_id, batch, req>>

-----------------------------------------------------------------------------
(* The event-loop thread: main(), the descriptors of its events and        *)
(* ipc_request_permission().                                               *)

\* daemonize() forks after ipc_server_init() has started the accept thread:
\* the child keeps the descriptors and none of the threads.
EnterLoop ==
    /\ req.pc = "boot"
    /\ req' = [req EXCEPT !.pc = "idle"]
    /\ IF Foreground
       THEN UNCHANGED <<acc, rd>>
       ELSE /\ acc' = [acc EXCEPT !.pc = "gone"]
            /\ rd' = [c \in Conns |-> [rd[c] EXCEPT !.pc = "gone"]]
    /\ UNCHANGED <<running, client_fd, fdt, guiVars, taken, wireVars, locker,
                   slot, next_id, batch>>

ReadEvents ==
    /\ req.pc = "idle"
    /\ \E n \in 1 .. BatchSize :
          /\ next_id + n - 1 <= NRequests
          /\ LET F == LowestFree(n)
             IN  /\ batch' = CHOOSE s \in [1 .. n -> F] :
                                \A i, j \in 1 .. n : i < j => s[i] < s[j]
                 /\ fdt' = [f \in Fds |-> IF f \in F THEN EventFd ELSE fdt[f]]
    /\ req' = [req EXCEPT !.pc = "hash"]
    /\ UNCHANGED <<running, client_fd, guiVars, taken, wireVars, acc, rd,
                   locker, slot, next_id>>

\* The user is asked about an unknown executable; whatever else the event is,
\* it is settled without him.
HashEvent ==
    /\ req.pc = "hash"
    /\ fdt[Head(batch)] = EventFd
    /\ \E pc \in {"snapshot", "close"} : req' = [req EXCEPT !.pc = pc]
    /\ UNCHANGED <<running, client_fd, fdt, guiVars, taken, wireVars, acc, rd,
                   locker, slot, next_id, batch>>

\* The number is closed: readlink() fails and the call is allowed.
HashClosed ==
    /\ req.pc = "hash"
    /\ fdt[Head(batch)] = Free
    /\ req' = [req EXCEPT !.pc = "close"]
    /\ UNCHANGED <<running, client_fd, fdt, guiVars, taken, wireVars, acc, rd,
                   locker, slot, next_id, batch>>

\* The number names a connection, which is no shared library: an open is
\* allowed.  An execve() comes to is_elf_file(), whose read() keeps it.
HashConn ==
    /\ req.pc = "hash"
    /\ fdt[Head(batch)] \in Conns
    /\ \/ req' = [req EXCEPT !.pc = "close"]
       \/ req' = [req EXCEPT !.pc = "elf", !.on = fdt[Head(batch)]]
    /\ UNCHANGED <<running, client_fd, fdt, guiVars, taken, wireVars, acc, rd,
                   locker, slot, next_id, batch>>

\* The read() waits for an answer, takes four of its eight bytes, which are not
\* those of an executable, and the call is allowed.
ElfReads ==
    /\ req.pc = "elf"
    /\ LET q == toDaemon[req.on]
       IN  \/ q = <<>> /\ req.on \in closed /\ UNCHANGED toDaemon
           \/ /\ q # <<>> /\ Head(q) = HalfMessage
              /\ toDaemon' = [toDaemon EXCEPT ![req.on] = Tail(q)]
           \/ /\ q # <<>> /\ Head(q) # HalfMessage
              /\ toDaemon' = [toDaemon EXCEPT ![req.on] = <<HalfMessage>> \o Tail(q)]
    /\ req' = [req EXCEPT !.pc = "close"]
    /\ UNCHANGED <<running, client_fd, fdt, guiVars, taken, toGui, acc, rd,
                   locker, slot, next_id, batch>>

Return(res, pc) == req' = [req EXCEPT !.result = res, !.pc = pc]

\* client_fd is read under the lock and used after it.
Snapshot ==
    /\ req.pc = "snapshot"
    /\ IF client_fd = None
       THEN Return("no_client", "close")
       ELSE req' = [req EXCEPT !.fd = client_fd, !.pc = "allocate"]
    /\ UNCHANGED <<running, client_fd, fdt, guiVars, taken, wireVars, acc, rd,
                   locker, slot, next_id, batch>>

\* Mutant: completed is not reset.
AllocateStale ==
    /\ req.pc = "allocate"
    /\ locker = 0
    /\ slot' = [slot EXCEPT !.used = TRUE, !.id = next_id]
    /\ next_id' = next_id + 1
    /\ req' = [req EXCEPT !.pc = "write", !.id = next_id]
    /\ UNCHANGED <<running, client_fd, fdt, guiVars, taken, wireVars, acc, rd,
                   locker, batch>>

\* Mutant: __sync_add_and_fetch().
AllocateNext ==
    /\ req.pc = "allocate"
    /\ locker = 0
    /\ slot' = [used |-> TRUE, id |-> next_id + 1, completed |-> FALSE,
                answer |-> 0]
    /\ next_id' = next_id + 1
    /\ req' = [req EXCEPT !.pc = "write", !.id = next_id + 1]
    /\ UNCHANGED <<running, client_fd, fdt, guiVars, taken, wireVars, acc, rd,
                   locker, batch>>

Allocate ==
    /\ req.pc = "allocate"
    /\ locker = 0
    /\ slot' = [used |-> TRUE, id |-> next_id, completed |-> FALSE, answer |-> 0]
    /\ next_id' = next_id + 1
    /\ req' = [req EXCEPT !.pc = "write", !.id = next_id]
    /\ UNCHANGED <<running, client_fd, fdt, guiVars, taken, wireVars, acc, rd,
                   locker, batch>>

\* write() looks its number up, then may block on what it found.
BeginWrite ==
    /\ req.pc = "write"
    /\ IF fdt[req.fd] \in Conns
       THEN req' = [req EXCEPT !.pc = "send", !.on = fdt[req.fd]]
       ELSE Return("no_client", "cleanup")
    /\ UNCHANGED <<running, client_fd, fdt, guiVars, taken, wireVars, acc, rd,
                   locker, slot, next_id, batch>>

Send ==
    /\ req.pc = "send"
    /\ \/ /\ req.on \in closed
          /\ Return("no_client", "cleanup")
          /\ UNCHANGED toGui
       \/ /\ req.on \notin closed
          /\ Len(toGui[req.on]) < SockCap
          /\ toGui' = [toGui EXCEPT ![req.on] = Append(@, req.id)]
          /\ req' = [req EXCEPT !.pc = "wait"]
    /\ UNCHANGED <<running, client_fd, fdt, guiVars, taken, toDaemon, acc, rd,
                   locker, slot, next_id, batch>>

\* Mutant: pthread_cond_wait() where the deadline was set.
WakeUntimed ==
    /\ req.pc = "wait"
    /\ slot.completed
    /\ Return("answered", "cleanup")
    /\ UNCHANGED <<running, client_fd, fdt, guiVars, taken, wireVars, acc, rd,
                   locker, slot, next_id, batch>>

\* The wait ends with the answer, or with the clock when there is a timeout;
\* an answer that came in before the mutex was retaken still counts.
Wake ==
    /\ req.pc = "wait"
    /\ \/ slot.completed /\ Return("answered", "cleanup")
       \/ ~slot.completed /\ Timed /\ Return("timeout", "cleanup")
    /\ UNCHANGED <<running, client_fd, fdt, guiVars, taken, wireVars, acc, rd,
                   locker, slot, next_id, batch>>

\* Mutant: the entry is removed without g_pending_lock.
CleanupUnlocked ==
    /\ req.pc = "cleanup"
    /\ slot' = [slot EXCEPT !.used = FALSE]
    /\ req' = [req EXCEPT !.pc = "close"]
    /\ UNCHANGED <<running, client_fd, fdt, guiVars, taken, wireVars, acc, rd,
                   locker, next_id, batch>>

Cleanup ==
    /\ req.pc = "cleanup"
    /\ locker = 0
    /\ slot' = [slot EXCEPT !.used = FALSE]
    /\ req' = [req EXCEPT !.pc = "close"]
    /\ UNCHANGED <<running, client_fd, fdt, guiVars, taken, wireVars, acc, rd,
                   locker, next_id, batch>>

\* The decision is written and the number of the event closed.
CloseEvent ==
    /\ req.pc = "close"
    /\ fdt' = Closing(Head(batch))
    /\ batch' = Tail(batch)
    /\ Return("none", IF Tail(batch) = <<>> THEN "idle" ELSE "hash")
    /\ UNCHANGED <<running, client_fd, guiVars, taken, wireVars, acc, rd,
                   locker, slot, next_id>>

-----------------------------------------------------------------------------
(* ipc_server_shutdown(), after the event loop has ended.                  *)

Shutdown ==
    /\ req.pc = "idle"
    /\ running' = FALSE
    /\ req' = [req EXCEPT !.pc = "drop"]
    /\ UNCHANGED <<client_fd, fdt, guiVars, taken, wireVars, acc, rd, locker,
                   slot, next_id, batch>>

DropClient ==
    /\ req.pc = "drop"
    /\ fdt' = IF client_fd # None THEN Closing(client_fd) ELSE fdt
    /\ client_fd' = None
    /\ req' = [req EXCEPT !.pc = "join"]
    /\ UNCHANGED <<running, guiVars, taken, wireVars, acc, rd, locker, slot,
                   next_id, batch>>

\* main() returns and takes the reader threads with it.
JoinAccept ==
    /\ req.pc = "join"
    /\ acc.pc = "exit"
    /\ req' = [req EXCEPT !.pc = "ended"]
    /\ rd' = [c \in Conns |-> [rd[c] EXCEPT !.pc = "gone"]]
    /\ UNCHANGED <<running, client_fd, fdt, guiVars, taken, wireVars, acc,
                   locker, slot, next_id, batch>>

-----------------------------------------------------------------------------
Init ==
    /\ running = TRUE
    /\ client_fd = None
    /\ fdt = [f \in Fds |-> Free]
    /\ made = 0
    /\ taken = 0
    /\ closed = {}
    /\ shown = {}
    /\ said = {}
    /\ toGui = [c \in Conns |-> <<>>]
    /\ toDaemon = [c \in Conns |-> <<>>]
    /\ acc = [pc |-> "poll", fd |-> None]
    /\ rd = [c \in Conns |-> [pc |-> "none", fd |-> None, on |-> 0, msg |-> 0]]
    /\ locker = 0
    /\ slot = [used |-> FALSE, id |-> 0, completed |-> FALSE, answer |-> 0]
    /\ next_id = 1
    /\ batch = <<>>
    /\ req = [pc |-> "boot", fd |-> None, on |-> 0, id |-> 0, result |-> "none"]

Gui(c) ==
    \/ GuiCloses(c)
    \/ GuiReads(c)
    \/ \E id \in Ids : GuiAnswers(c, id)

AcceptThread == AcceptConn \/ AcceptInstall \/ AcceptSpawn \/ AcceptLeaves

ReaderThread(c) ==
    \/ ReaderReads(c)
    \/ ReaderLeaves(c)
    \/ ReaderTakes(c)
    \/ ReaderEof(c)
    \/ ReaderClears(c)
    \/ ReaderCloses(c)
    \/ ReaderFinds(c)
    \/ ReaderCompletes(c)

\* What the event-loop thread does once it has an event in hand.
Request ==
    \/ HashEvent
    \/ HashClosed
    \/ HashConn
    \/ ElfReads
    \/ Snapshot
    \/ Allocate
    \/ BeginWrite
    \/ Send
    \/ Wake
    \/ Cleanup
    \/ CloseEvent

MainThread ==
    \/ EnterLoop
    \/ ReadEvents
    \/ Request
    \/ Shutdown
    \/ DropClient
    \/ JoinAccept

Next ==
    \/ Connect
    \/ \E c \in Conns : Gui(c)
    \/ AcceptThread
    \/ \E c \in Conns : ReaderThread(c)
    \/ MainThread

Spec == Init /\ [][Next]_vars

\* The scheduler runs every thread that can run, and the clock reaches the
\* timeout; a stop request and a new event may never come.
ThreadFairness ==
    /\ WF_vars(AcceptThread)
    /\ \A c \in Conns : WF_vars(ReaderThread(c))
    /\ WF_vars(EnterLoop \/ Request \/ DropClient \/ JoinAccept)

FairSpec == Spec /\ ThreadFairness

\* The same with GUIs whose main loop keeps reading its socket.
LiveSpec == FairSpec /\ \A c \in Conns : WF_vars(GuiReads(c))

-----------------------------------------------------------------------------
(* Properties.                                                             *)

AcceptStates ==
    [pc : {"poll", "install", "spawn", "exit", "gone"},
     fd : Fds \cup {None}]

ReaderStates ==
    [pc : {"none", "loop", "read", "eof", "close", "answer", "match", "done", "never",
           "gone"},
     fd : Fds \cup {None},
     on : Conns \cup {0},
     msg : Ids \cup {0}]

Entries ==
    [used : BOOLEAN,
     id : Ids \cup {0},
     completed : BOOLEAN,
     answer : Ids \cup {0}]

CallStates ==
    [pc : {"boot", "idle", "hash", "elf", "snapshot", "allocate", "write", "send",
           "wait", "cleanup", "close", "drop", "join", "ended"},
     fd : Fds \cup {None},
     on : Conns \cup {0},
     id : Ids \cup {0},
     result : {"none", "no_client", "timeout", "answered"}]

\* Types of the variables.
TypeOK ==
    /\ running \in BOOLEAN
    /\ client_fd \in Fds \cup {None}
    /\ fdt \in [Fds -> Conns \cup {Free, EventFd}]
    /\ made \in 0 .. NConns /\ taken \in 0 .. made
    /\ closed \in SUBSET (1 .. made)
    /\ shown \in SUBSET Ids /\ said \in SUBSET Ids
    /\ toGui \in [Conns -> Seq(Ids)]
    /\ toDaemon \in [Conns -> Seq(Ids \cup {HalfMessage})]
    /\ acc \in AcceptStates
    /\ rd \in [Conns -> ReaderStates]
    /\ locker \in Conns \cup {0}
    /\ slot \in Entries
    /\ next_id \in 1 .. NRequests + 1
    /\ batch \in Seq(Fds)
    /\ req \in CallStates

\* How far the call is, as PermissionCall sees it.
Stage ==
    CASE req.pc \in {"write", "send"} -> "begun"
      [] req.pc = "wait" -> IF req.id \in said THEN "said" ELSE "posed"
      [] OTHER -> "none"

\* A call returns the user's answer to the request of this very call, "no
\* client" only if no GUI got the request, and a timeout only if there is one
\* ("Returns:", ipc_server.h:50), whatever connections are replaced, lost and
\* read from, and however late answers come.
Promise ==
    INSTANCE PermissionCall WITH
        call <- next_id - 1, stage <- Stage, result <- req.result

CallPromise == Promise!Spec

\* A reader that has matched the pending entry finds it still in place when it
\* takes the entry's mutex: the caller cannot destroy it in between, even if
\* its timeout fires at that moment.
SlotAliveForReader ==
    \A c \in Conns : rd[c].pc = "match" => slot.used /\ slot.id = rd[c].msg

\* Every open connection is client_fd's, or one some thread is about to
\* install or close: replacing and losing clients leaks no descriptor.
NoDescriptorLeak ==
    \A f \in Fds : fdt[f] \in Conns /\ req.pc # "ended" =>
        \/ client_fd = f
        \/ acc.pc = "install" /\ acc.fd = f
        \/ \E c \in Conns : rd[c].pc = "close" /\ rd[c].fd = f

\* The event in hand is hashed through the descriptor the kernel gave for it
\* ("No race conditions in allow/deny logic", README.md:224).
EventDescriptorIntact == req.pc = "hash" => fdt[Head(batch)] = EventFd

InCall ==
    req.pc \in {"snapshot", "allocate", "write", "send", "wait", "cleanup"}

\* ipc_request_permission() comes back, whatever the GUI does ("If user doesn't
\* respond within this time, default_deny action is taken", lexec.conf:28).
CallReturns == InCall ~> ~InCall

\* A GUI that connects is accepted before the daemon stops.
BacklogAccepted ==
    \A c \in Conns : made >= c /\ running ~> taken >= c \/ ~running

\* The shutdown reaches the end of main(): the accept thread can be joined.
ShutdownTerminates == ~running ~> req.pc = "ended"
=============================================================================
