-------------------------- MODULE IpcServerProofs --------------------------
(***************************************************************************)
(* For any number of connections, requests and events: the pending entry   *)
(* outlives the reader that matched it, no descriptor is forgotten, every   *)
(* accept() and every event finds a free number, and, if GUIs take turns,   *)
(* the numbers of events in hand stay theirs.  The promise of the call is   *)
(* kept if GUIs take turns or nothing but an answer looks like one.         *)
(***************************************************************************)
EXTENDS IpcServer, NumberSets

\* The variables are tables and records with their fields, which is all that
\* is needed of their types here.
Shapes ==
    /\ DOMAIN rd = Conns
    /\ \A c \in Conns : DOMAIN rd[c] = {"pc", "fd", "on", "msg"}
    /\ DOMAIN slot = {"used", "id", "completed", "answer"}
    /\ slot.used \in BOOLEAN
    /\ DOMAIN req = {"pc", "fd", "on", "id", "result"}
    /\ DOMAIN acc = {"pc", "fd"}
    /\ DOMAIN fdt = Fds
    /\ taken \in Nat

\* g_pending_lock is held from the match to the completion, and the caller
\* removes its entry under the same lock.
SlotInv ==
    /\ \A c \in Conns : rd[c].pc = "match" =>
           locker = c /\ slot.used /\ slot.id = rd[c].msg
    /\ slot.used <=> req.pc \in {"write", "send", "wait", "cleanup"}
    /\ slot.used => /\ slot.id = req.id
                    /\ slot.completed => slot.answer = slot.id
    /\ req.result = "answered" => /\ req.pc \in {"cleanup", "close"}
                                  /\ slot.answer = req.id

\* A connection has no reader yet while the accept thread installs it.
NoReaderYet ==
    \A c \in Conns :
        c > taken \/ (c = taken /\ acc.pc \in {"install", "spawn"}) =>
            rd[c].pc \in {"none", "gone"}

LeakInv == NoDescriptorLeak /\ NoReaderYet

IpcInv == Shapes /\ SlotInv

LEMMA InitIpc == Init => IpcInv /\ LeakInv
<1>. SUFFICES ASSUME Init PROVE IpcInv /\ LeakInv
  OBVIOUS
<1>. USE DEF Init
<1>1. Shapes
  BY DEF Shapes
<1>2. SlotInv
  BY DEF SlotInv
<1>3. LeakInv
  BY IpcAssumption DEF LeakInv, NoReaderYet, NoDescriptorLeak, Free, Conns
<1>. QED  BY <1>1, <1>2, <1>3 DEF IpcInv

\* What Step(c, pc) does to the table of the readers.
LEMMA StepMoves ==
    ASSUME Shapes, NEW c \in Conns, NEW p, Step(c, p)
    PROVE  /\ rd'[c].pc = p /\ rd'[c].fd = rd[c].fd /\ rd'[c].msg = rd[c].msg
           /\ \A d \in Conns : d # c => rd'[d] = rd[d]
           /\ DOMAIN rd' = Conns
           /\ \A d \in Conns : DOMAIN rd'[d] = {"pc", "fd", "on", "msg"}
BY DEF Shapes, Step

LEMMA HeardMoves ==
    ASSUME Shapes, NEW c \in Conns, NEW id, Heard(c, id)
    PROVE  /\ rd'[c].pc = "answer" /\ rd'[c].fd = rd[c].fd /\ rd'[c].msg = id
           /\ \A d \in Conns : d # c => rd'[d] = rd[d]
           /\ DOMAIN rd' = Conns
           /\ \A d \in Conns : DOMAIN rd'[d] = {"pc", "fd", "on", "msg"}
BY DEF Shapes, Heard

\* What a reader takes from its connection, and what it leaves there.
LEMMA TakesOne ==
    ASSUME NEW c, ReaderTakes(c)
    PROVE  /\ (\E id : Heard(c, id)) \/ Step(c, "loop")
           /\ UNCHANGED <<acc, slot, req, locker, taken, fdt, client_fd>>
<1>1. ASSUME NEW q, Heard(c, Head(q))
      PROVE  \E id : Heard(c, id)
  <2>. PICK id : id = Head(q)
    OBVIOUS
  <2>. QED  BY <1>1
<1>. QED  BY <1>1 DEF ReaderTakes

LEMMA TakesMoves ==
    ASSUME DOMAIN rd = Conns, NEW c \in Conns, DOMAIN rd[c] = {"pc", "fd", "on", "msg"},
           ReaderTakes(c)
    PROVE  rd'[c].pc \in {"answer", "loop"} /\ rd'[c].fd = rd[c].fd
<1>1. CASE Step(c, "loop")
  BY <1>1 DEF Step
<1>2. ASSUME NEW id, Heard(c, id)
      PROVE  rd'[c].pc = "answer" /\ rd'[c].fd = rd[c].fd
  BY <1>2 DEF Heard
<1>. QED  BY <1>1, <1>2, TakesOne

\* A reader's step changes its own row only.
LEMMA OtherReaders ==
    ASSUME DOMAIN rd = Conns, NEW c \in Conns, ReaderThread(c)
    PROVE  \A d \in Conns : d # c => rd'[d] = rd[d]
<1>1. CASE ReaderTakes(c)
  BY <1>1, TakesOne DEF Step, Heard
<1>2. CASE ~ReaderTakes(c)
  BY <1>2 DEF ReaderThread, ReaderReads, ReaderLeaves, ReaderEof, ReaderClears,
              ReaderCloses, ReaderFinds, ReaderCompletes, Step, Heard
<1>. QED  BY <1>1, <1>2

\* A step of a reader: only its own row changes, and it gets to "match" with
\* the lock and leaves it by completing the entry.
LEMMA ReaderIpc ==
    ASSUME IpcInv, NEW c \in Conns, ReaderThread(c)
    PROVE  IpcInv'
<1>. USE DEF IpcInv, Conns
<1>1. ASSUME NEW p, p # "match", Step(c, p), UNCHANGED <<acc, slot, req, locker, taken>>,
             DOMAIN fdt' = DOMAIN fdt
      PROVE  IpcInv'
  <2>1. Shapes'
    BY <1>1, StepMoves DEF Shapes
  <2>2. SlotInv'
    BY <1>1, StepMoves DEF SlotInv
  <2>. QED  BY <2>1, <2>2
<1>9. ASSUME NEW id, Heard(c, id), UNCHANGED <<acc, slot, req, locker, taken, fdt>>
      PROVE  IpcInv'
  <2>1. Shapes'
    BY <1>9, HeardMoves DEF Shapes
  <2>2. SlotInv'
    BY <1>9, HeardMoves DEF SlotInv
  <2>. QED  BY <2>1, <2>2
<1>2. CASE ReaderReads(c)
  <2>0. UNCHANGED <<acc, slot, req, locker, taken, fdt>>
    BY <1>2 DEF ReaderReads
  <2>1. CASE Step(c, "eof")
    BY <1>1, <2>0, <2>1
  <2>2. CASE rd' = [rd EXCEPT ![c].pc = "read", ![c].on = fdt[rd[c].fd]]
    <3>1. Shapes'
      BY <2>0, <2>2 DEF Shapes
    <3>2. SlotInv'
      BY <2>0, <2>2 DEF Shapes, SlotInv
    <3>. QED  BY <3>1, <3>2
  <2>3. CASE \E id : Heard(c, id)
    BY <1>9, <2>0, <2>3
  <2>. QED  BY <1>2, <2>1, <2>2, <2>3 DEF ReaderReads
<1>3. CASE ReaderTakes(c)
  BY <1>1, <1>3, <1>9, TakesOne
<1>4. CASE ReaderLeaves(c) \/ ReaderEof(c) \/ ReaderClears(c) \/ ReaderCloses(c)
  <2>1. /\ \E p \in {"done", "eof", "close"} : Step(c, p)
        /\ UNCHANGED <<acc, slot, req, locker, taken>> /\ DOMAIN fdt' = DOMAIN fdt
    BY <1>4 DEF ReaderLeaves, ReaderEof, ReaderClears, ReaderCloses, Closing
  <2>. QED  BY <1>1, <2>1
<1>5. CASE ReaderFinds(c)
  <2>1. CASE slot.used /\ slot.id = rd[c].msg /\ Step(c, "match") /\ locker' = c
    <3>1. Shapes'
      BY <1>5, <2>1, StepMoves DEF ReaderFinds, Shapes
    <3>2. \A d \in Conns : rd[d].pc # "match"
      BY <1>5 DEF ReaderFinds, SlotInv
    <3>3. SlotInv'
      BY <1>5, <2>1, <3>2, StepMoves DEF ReaderFinds, SlotInv
    <3>. QED  BY <3>1, <3>3
  <2>2. CASE Step(c, "loop") /\ UNCHANGED locker
    BY <1>1, <1>5, <2>2 DEF ReaderFinds
  <2>. QED  BY <1>5, <2>1, <2>2 DEF ReaderFinds
<1>6. CASE ReaderCompletes(c)
  <2>1. Shapes'
    BY <1>6, StepMoves DEF ReaderCompletes, Shapes
  <2>2. \A d \in Conns : d # c => rd[d].pc # "match"
    BY <1>6 DEF ReaderCompletes, SlotInv
  <2>3. /\ slot.used /\ slot.id = rd[c].msg /\ slot.id = req.id
        /\ slot'.used = slot.used /\ slot'.id = slot.id /\ slot'.answer = rd[c].msg
    BY <1>6 DEF ReaderCompletes, SlotInv, Shapes
  <2>4. SlotInv'
    BY <1>6, <2>2, <2>3, StepMoves DEF ReaderCompletes, SlotInv
  <2>. QED  BY <2>1, <2>4
<1>. QED  BY <1>2, <1>3, <1>4, <1>5, <1>6 DEF ReaderThread

LEMMA MainIpc ==
    ASSUME IpcInv, MainThread
    PROVE  IpcInv'
<1>. USE DEF IpcInv
<1>1. ASSUME UNCHANGED <<rd, acc, taken, locker>>, DOMAIN fdt' = DOMAIN fdt,
             DOMAIN req' = DOMAIN req, DOMAIN slot' = DOMAIN slot, slot'.used \in BOOLEAN
      PROVE  Shapes'
  BY <1>1 DEF Shapes
<1>2. CASE EnterLoop
  <2>1. CASE UNCHANGED rd
    BY <1>2, <2>1 DEF EnterLoop, Shapes, SlotInv
  <2>2. CASE rd' = [c \in Conns |-> [rd[c] EXCEPT !.pc = "gone"]]
    BY <1>2, <2>2 DEF EnterLoop, Shapes, SlotInv
  <2>. QED  BY <1>2, <2>1, <2>2 DEF EnterLoop
<1>3. CASE JoinAccept
  BY <1>3 DEF JoinAccept, Shapes, SlotInv
<1>4. CASE ReadEvents \/ CloseEvent \/ DropClient
  <2>1. /\ UNCHANGED <<rd, acc, taken, locker, slot>> /\ DOMAIN fdt' = DOMAIN fdt
        /\ DOMAIN req' = DOMAIN req
    BY <1>4 DEF ReadEvents, CloseEvent, DropClient, Closing, Return, Shapes
  <2>2. SlotInv'
    BY <1>4, <2>1 DEF ReadEvents, CloseEvent, DropClient, Return, Shapes, SlotInv
  <2>. QED  BY <1>1, <2>1, <2>2 DEF Shapes
<1>5. CASE HashEvent \/ HashClosed \/ HashConn \/ ElfReads \/ Snapshot \/ Shutdown
  <2>1. /\ UNCHANGED <<rd, acc, taken, locker, slot, fdt>>
        /\ DOMAIN req' = DOMAIN req
    BY <1>5 DEF HashEvent, HashClosed, HashConn, ElfReads, Snapshot, Shutdown, Return,
                Shapes
  <2>2. SlotInv'
    BY <1>5, <2>1 DEF HashEvent, HashClosed, HashConn, ElfReads, Snapshot, Shutdown,
                      Return, Shapes, SlotInv
  <2>. QED  BY <1>1, <2>1, <2>2 DEF Shapes
<1>6. CASE Allocate
  <2>1. \A c \in Conns : rd[c].pc # "match"
    BY <1>6 DEF Allocate, SlotInv, Conns
  <2>2. Shapes'
    BY <1>6 DEF Allocate, Shapes
  <2>3. SlotInv'
    BY <1>6, <2>1 DEF Allocate, Shapes, SlotInv
  <2>. QED  BY <2>2, <2>3
<1>7. CASE BeginWrite \/ Send \/ Wake
  <2>1. /\ UNCHANGED <<rd, acc, taken, locker, slot, fdt>>
        /\ DOMAIN req' = DOMAIN req
    BY <1>7 DEF BeginWrite, Send, Wake, Return, Shapes
  <2>2. SlotInv'
    BY <1>7, <2>1 DEF BeginWrite, Send, Wake, Return, Shapes, SlotInv
  <2>. QED  BY <1>1, <2>1, <2>2 DEF Shapes
<1>8. CASE Cleanup
  <2>1. \A c \in Conns : rd[c].pc # "match"
    BY <1>8 DEF Cleanup, SlotInv, Conns
  <2>2. Shapes'
    BY <1>8 DEF Cleanup, Shapes
  <2>3. SlotInv'
    BY <1>8, <2>1 DEF Cleanup, Shapes, SlotInv
  <2>. QED  BY <2>2, <2>3
<1>. QED
  BY <1>2, <1>3, <1>4, <1>5, <1>6, <1>7, <1>8 DEF MainThread, Request

LEMMA IpcStep ==
    ASSUME IpcInv, [Next]_vars
    PROVE  IpcInv'
<1>. USE DEF IpcInv
<1>1. CASE Connect \/ (\E c \in Conns : Gui(c)) \/ UNCHANGED vars
  <2>1. UNCHANGED <<rd, slot, req, acc, fdt, taken, locker>>
    BY <1>1 DEF Connect, Gui, GuiCloses, GuiReads, GuiAnswers, vars
  <2>. QED  BY <2>1 DEF Shapes, SlotInv
<1>2. CASE AcceptConn \/ AcceptInstall \/ AcceptLeaves
  <2>1. /\ UNCHANGED <<rd, slot, req, locker>> /\ DOMAIN acc' = {"pc", "fd"}
        /\ DOMAIN fdt' = DOMAIN fdt /\ taken' \in Nat
    BY <1>2 DEF AcceptConn, AcceptInstall, AcceptLeaves, Closing, Shapes
  <2>. QED  BY <2>1 DEF Shapes, SlotInv
<1>3. CASE AcceptSpawn
  <2>1. Shapes'
    BY <1>3 DEF AcceptSpawn, Shapes
  <2>2. \A c \in Conns : rd'[c].pc = "match" => rd'[c] = rd[c]
    <3>1. CASE rd' = [rd EXCEPT ![taken] = [@ EXCEPT !.pc = "loop", !.fd = acc.fd]]
      BY <3>1 DEF Shapes
    <3>2. CASE rd' = [rd EXCEPT ![taken] = [@ EXCEPT !.pc = "never"]]
      BY <3>2 DEF Shapes
    <3>. QED  BY <1>3, <3>1, <3>2 DEF AcceptSpawn
  <2>3. UNCHANGED <<slot, req, locker>>
    BY <1>3 DEF AcceptSpawn
  <2>4. SlotInv'
    BY <2>2, <2>3 DEF SlotInv
  <2>. QED  BY <2>1, <2>4
<1>. QED
  BY <1>1, <1>2, <1>3, ReaderIpc, MainIpc DEF Next, AcceptThread

LEMMA IpcInvariant == Spec => []IpcInv
BY InitIpc, IpcStep, PTL DEF Spec

\* The pending entry is in place when its mutex is taken.
THEOREM SlotOutlivesReader == Spec => []SlotAliveForReader
<1>1. IpcInv => SlotAliveForReader
  BY DEF IpcInv, SlotInv, SlotAliveForReader
<1>. QED  BY <1>1, IpcInvariant, PTL

-----------------------------------------------------------------------------
(* Descriptors.                                                            *)

LEMMA LeakReader ==
    ASSUME Shapes, LeakInv, NEW c \in Conns, ReaderThread(c)
    PROVE  LeakInv'
<1>1. UNCHANGED <<acc, taken, req>>
  BY DEF ReaderThread, ReaderReads, ReaderLeaves, ReaderTakes, ReaderEof, ReaderClears,
         ReaderCloses, ReaderFinds, ReaderCompletes
<1>2. rd[c].pc \notin {"none", "gone"}
  BY DEF ReaderThread, ReaderReads, ReaderLeaves, ReaderTakes, ReaderEof, ReaderClears,
         ReaderCloses, ReaderFinds, ReaderCompletes
<1>3. \A d \in Conns : d # c => rd'[d] = rd[d]
  BY OtherReaders DEF Shapes
<1>4. ASSUME NEW d \in Conns, d > taken \/ (d = taken /\ acc.pc \in {"install", "spawn"})
      PROVE  rd'[d].pc \in {"none", "gone"}
  BY <1>2, <1>3, <1>4 DEF LeakInv, NoReaderYet
<1>5. CASE ReaderClears(c)
  <2>1. rd'[c].pc = "close" /\ rd'[c].fd = rd[c].fd /\ UNCHANGED fdt
    BY <1>5, StepMoves DEF ReaderClears
  <2>2. NoDescriptorLeak'
    BY <1>1, <1>3, <1>5, <2>1 DEF ReaderClears, LeakInv, NoDescriptorLeak
  <2>. QED  BY <1>1, <1>4, <2>2 DEF LeakInv, NoReaderYet
<1>6. CASE ReaderCloses(c)
  <2>1. fdt'[rd[c].fd] \notin Conns \/ rd[c].fd \notin Fds
    BY <1>6 DEF ReaderCloses, Closing, Shapes, Conns, Free
  <2>2. \A f \in Fds : f # rd[c].fd => fdt'[f] = fdt[f]
    BY <1>6 DEF ReaderCloses, Closing, Shapes
  <2>3. UNCHANGED client_fd
    BY <1>6 DEF ReaderCloses
  <2>4. NoDescriptorLeak'
    BY <1>1, <1>3, <2>1, <2>2, <2>3 DEF LeakInv, NoDescriptorLeak
  <2>. QED  BY <1>1, <1>4, <2>4 DEF LeakInv, NoReaderYet
<1>7. CASE ReaderReads(c) \/ ReaderLeaves(c) \/ ReaderTakes(c) \/ ReaderEof(c)
           \/ ReaderFinds(c) \/ ReaderCompletes(c)
  <2>1. UNCHANGED <<fdt, client_fd>> /\ rd[c].pc # "close"
    BY <1>7 DEF ReaderReads, ReaderLeaves, ReaderTakes, ReaderEof, ReaderFinds,
                ReaderCompletes
  <2>2. NoDescriptorLeak'
    BY <1>1, <1>3, <2>1 DEF LeakInv, NoDescriptorLeak
  <2>. QED  BY <1>1, <1>4, <2>2 DEF LeakInv, NoReaderYet
<1>. QED  BY <1>5, <1>6, <1>7 DEF ReaderThread

LEMMA LeakAccept ==
    ASSUME Shapes, LeakInv, AcceptThread
    PROVE  LeakInv'
<1>1. CASE AcceptConn
  <2>1. PICK f : /\ fdt' = [fdt EXCEPT ![f] = taken + 1]
                 /\ acc' = [pc |-> "install", fd |-> f]
    BY <1>1 DEF AcceptConn
  <2>2. /\ taken' = taken + 1 /\ taken \in Nat
        /\ acc.pc = "poll" /\ UNCHANGED <<client_fd, rd, req>>
    BY <1>1 DEF AcceptConn, Shapes
  <2>3. \A g \in Fds : g # f => fdt'[g] = fdt[g]
    BY <2>1 DEF Shapes
  <2>4. acc'.pc = "install" /\ acc'.fd = f
    BY <2>1
  <2>5. NoDescriptorLeak'
    BY <2>2, <2>3, <2>4 DEF LeakInv, NoDescriptorLeak
  <2>6. \A c \in Conns : c > taken' \/ c = taken' => c > taken
    BY <2>2 DEF Conns
  <2>. QED  BY <2>2, <2>5, <2>6 DEF LeakInv, NoReaderYet
<1>2. CASE AcceptInstall
  <2>1. /\ acc.pc = "install" /\ acc'.pc = "spawn" /\ client_fd' = acc.fd
        /\ UNCHANGED <<taken, rd, req>>
    BY <1>2 DEF AcceptInstall, Shapes
  <2>2. \A g \in Fds : fdt'[g] \in Conns => fdt'[g] = fdt[g] /\ g # client_fd
    <3>1. CASE client_fd # None
      BY <1>2, <3>1 DEF AcceptInstall, Closing, Shapes, Conns, Free
    <3>2. CASE client_fd = None
      BY <1>2, <3>2, IpcAssumption DEF AcceptInstall, None, Fds
    <3>. QED  BY <3>1, <3>2
  <2>3. NoDescriptorLeak'
    BY <2>1, <2>2 DEF LeakInv, NoDescriptorLeak
  <2>. QED  BY <2>1, <2>3 DEF LeakInv, NoReaderYet
<1>3. CASE AcceptSpawn
  <2>1. /\ acc.pc = "spawn" /\ acc'.pc = "poll" /\ UNCHANGED <<taken, req, fdt, client_fd>>
        /\ \A c \in Conns : c # taken => rd'[c] = rd[c]
        /\ taken \in Conns => rd[taken].pc \in {"none", "gone"}
    BY <1>3 DEF AcceptSpawn, Shapes, LeakInv, NoReaderYet
  <2>2. NoDescriptorLeak'
    BY <2>1 DEF LeakInv, NoDescriptorLeak
  <2>3. \A c \in Conns : c > taken => rd'[c].pc \in {"none", "gone"}
    BY <2>1 DEF LeakInv, NoReaderYet, Shapes, Conns
  <2>. QED  BY <2>1, <2>2, <2>3 DEF LeakInv, NoReaderYet
<1>4. CASE AcceptLeaves
  <2>1. /\ acc.pc = "poll" /\ acc'.pc = "exit" /\ UNCHANGED <<taken, req, fdt, client_fd, rd>>
    BY <1>4 DEF AcceptLeaves, Shapes
  <2>. QED  BY <2>1 DEF LeakInv, NoReaderYet, NoDescriptorLeak
<1>. QED  BY <1>1, <1>2, <1>3, <1>4 DEF AcceptThread

LEMMA LeakMain ==
    ASSUME Foreground, Shapes, LeakInv, MainThread
    PROVE  LeakInv'
<1>1. CASE ReadEvents \/ CloseEvent \/ DropClient
  <2>1. UNCHANGED <<acc, taken, rd>> /\ req.pc # "ended"
    BY <1>1 DEF ReadEvents, CloseEvent, DropClient
  <2>2. \A g \in Fds : fdt'[g] \in Conns =>
            fdt'[g] = fdt[g] /\ (client_fd = g => client_fd' = g)
    <3>1. CASE ReadEvents
      BY <3>1 DEF ReadEvents, EventFd, Conns
    <3>2. CASE CloseEvent
      BY <3>2 DEF CloseEvent, Closing, Shapes, Conns, Free
    <3>3. CASE DropClient /\ client_fd # None
      BY <3>3 DEF DropClient, Closing, Shapes, Conns, Free
    <3>4. CASE DropClient /\ client_fd = None
      BY <3>4 DEF DropClient
    <3>. QED  BY <1>1, <3>1, <3>2, <3>3, <3>4
  <2>3. NoDescriptorLeak'
    BY <2>1, <2>2 DEF LeakInv, NoDescriptorLeak
  <2>. QED  BY <2>1, <2>3 DEF LeakInv, NoReaderYet
<1>2. CASE JoinAccept
  <2>1. req'.pc = "ended" /\ UNCHANGED <<acc, taken>>
        /\ \A c \in Conns : rd'[c].pc = "gone"
    BY <1>2 DEF JoinAccept, Shapes
  <2>. QED  BY <2>1 DEF LeakInv, NoReaderYet, NoDescriptorLeak
<1>3. ASSUME UNCHANGED <<acc, taken, rd, fdt, client_fd>>, req.pc # "ended"
      PROVE  LeakInv'
  BY <1>3 DEF LeakInv, NoReaderYet, NoDescriptorLeak
<1>4. CASE EnterLoop \/ HashEvent \/ HashClosed \/ HashConn \/ ElfReads \/ Snapshot
           \/ Allocate \/ BeginWrite \/ Send \/ Wake \/ Cleanup \/ Shutdown
  BY <1>3, <1>4 DEF EnterLoop, HashEvent, HashClosed, HashConn, ElfReads, Snapshot,
                    Allocate, BeginWrite, Send, Wake, Cleanup, Shutdown
<1>. QED  BY <1>1, <1>2, <1>4 DEF MainThread, Request

LEMMA LeakStep ==
    ASSUME Foreground, Shapes, LeakInv, [Next]_vars
    PROVE  LeakInv'
<1>1. CASE Connect \/ (\E c \in Conns : Gui(c)) \/ UNCHANGED vars
  <2>1. UNCHANGED <<rd, req, acc, fdt, taken, client_fd>>
    BY <1>1 DEF Connect, Gui, GuiCloses, GuiReads, GuiAnswers, vars
  <2>. QED  BY <2>1 DEF LeakInv, NoReaderYet, NoDescriptorLeak
<1>. QED  BY <1>1, LeakReader, LeakAccept, LeakMain DEF Next

\* Replacing and losing clients forgets no descriptor, as long as main() keeps
\* its threads.
THEOREM NothingLeaks == ASSUME Foreground PROVE Spec => []NoDescriptorLeak
<1>1. IpcInv /\ LeakInv /\ [Next]_vars => LeakInv'
  BY LeakStep DEF IpcInv
<1>2. LeakInv => NoDescriptorLeak
  BY DEF LeakInv
<1>. QED  BY <1>1, <1>2, InitIpc, IpcInvariant, PTL DEF Spec

-----------------------------------------------------------------------------
(* The kernel's lowest free numbers: there are always enough, so that      *)
(* every accept() and every event gets one of the table.                   *)

Held(l) == l \notin {"boot", "idle", "drop", "join", "ended"}

\* A connection has one number, and the numbers of events are in the batch.
Numbering ==
    /\ \A f, g \in Fds : fdt[f] \in Conns /\ fdt[f] = fdt[g] => f = g
    /\ \A f \in Fds : fdt[f] \in Conns => fdt[f] <= taken
    /\ \A f \in Fds : fdt[f] = EventFd => \E i \in DOMAIN batch : batch[i] = f

\* The batch is there as long as an event is in hand, and the ids left are
\* enough for the events left.
EventsLeft ==
    /\ Len(batch) <= BatchSize
    /\ batch # <<>> <=> Held(req.pc)
    /\ batch # <<>> =>
           IF req.pc \in {"hash", "elf", "snapshot", "allocate"}
           THEN next_id + Len(batch) <= NRequests + 1
           ELSE next_id + Len(batch) <= NRequests + 2

CallTypes ==
    /\ req.pc \in {"write", "send", "wait", "cleanup"} => req.id \in Ids
    /\ req.pc \in {"send", "elf"} => req.on \in Conns

ReaderTypes == \A c \in Conns : rd[c].pc = "read" => rd[c].on \in Conns

DescInv == Numbering /\ EventsLeft /\ CallTypes /\ ReaderTypes

LEMMA FreeEnough ==
    ASSUME TypeOK, DescInv
    PROVE  /\ {f \in Fds : fdt[f] = Free} \in SUBSET (1 .. NConns + BatchSize)
           /\ Cardinality({f \in Fds : fdt[f] = Free}) \in Nat
           /\ NConns + BatchSize <=
                  Cardinality({f \in Fds : fdt[f] = Free}) + taken + Len(batch)
<1>. DEFINE C == {f \in Fds : fdt[f] \in Conns}
            E == {f \in Fds : fdt[f] = EventFd}
            S == {f \in Fds : fdt[f] = Free}
            n == NConns + BatchSize
<1>1. n \in Nat /\ taken \in Nat /\ Len(batch) \in Nat /\ DOMAIN batch = 1 .. Len(batch)
  BY IpcAssumption DEF TypeOK
<1>2. C \in SUBSET (1 .. n) /\ E \in SUBSET (1 .. n) /\ S \in SUBSET (1 .. n)
  BY DEF Fds
<1>3. /\ IsFiniteSet(C) /\ Cardinality(C) \in Nat
      /\ IsFiniteSet(E) /\ Cardinality(E) \in Nat
      /\ IsFiniteSet(S) /\ Cardinality(S) \in Nat
  <2>. HIDE DEF C, E, S, n
  <2>. QED  BY <1>1, <1>2, PartsFinite
<1>4. Cardinality(C) <= taken
  <2>. DEFINE h == [f \in C |-> fdt[f]]
  <2>1. h \in [C -> 1 .. taken]
    BY <1>1 DEF DescInv, Numbering, Conns
  <2>2. \A f, g \in C : h[f] = h[g] => f = g
    BY DEF DescInv, Numbering
  <2>3. h \in Injection(C, 1 .. taken)
    <3>. HIDE DEF C, h
    <3>. QED  BY <2>1, <2>2 DEF Injection, IsInjective
  <2>4. IsFiniteSet(1 .. taken) /\ Cardinality(1 .. taken) = taken
    BY <1>1, UpTo
  <2>. HIDE DEF C, h
  <2>. QED  BY <2>3, <2>4, FS_Injection
<1>5. Cardinality(E) <= Len(batch)
  <2>. DEFINE m == Len(batch)
              h == [f \in E |-> CHOOSE i \in 1 .. m : batch[i] = f]
  <2>1. \A f \in E : h[f] \in 1 .. m /\ batch[h[f]] = f
    BY <1>1 DEF DescInv, Numbering
  <2>2. h \in Injection(E, 1 .. m)
    <3>1. h = [f \in E |-> h[f]]
      OBVIOUS
    <3>. HIDE DEF E, h
    <3>2. h \in [E -> 1 .. m]
      BY <2>1, <3>1
    <3>3. \A f, g \in E : h[f] = h[g] => f = g
      BY <2>1
    <3>. QED  BY <3>2, <3>3 DEF Injection, IsInjective
  <2>3. IsFiniteSet(1 .. m) /\ Cardinality(1 .. m) = m
    BY <1>1, UpTo
  <2>. HIDE DEF E, h, m
  <2>4. Cardinality(E) <= m
    BY <2>2, <2>3, FS_Injection
  <2>. QED  BY <2>4 DEF m
<1>6. C \cup E \cup S = 1 .. n
  BY DEF TypeOK, Fds
<1>. HIDE DEF C, E, S, n
<1>7. /\ IsFiniteSet(C \cup E) /\ Cardinality(C \cup E) \in Nat
      /\ Cardinality(C \cup E) <= Cardinality(C) + Cardinality(E)
  <2>1. IsFiniteSet(C \cap E) /\ Cardinality(C \cap E) \in Nat
    BY <1>3, FS_Subset, FS_CardinalityType
  <2>2. /\ IsFiniteSet(C \cup E)
        /\ Cardinality(C \cup E) = Cardinality(C) + Cardinality(E) - Cardinality(C \cap E)
    BY <1>3, FS_Union
  <2>. QED  BY <1>3, <2>1, <2>2, FS_CardinalityType
<1>8. Cardinality(1 .. n) <= Cardinality(C \cup E) + Cardinality(S)
  <2>1. IsFiniteSet((C \cup E) \cap S) /\ Cardinality((C \cup E) \cap S) \in Nat
    BY <1>3, FS_Subset, FS_CardinalityType
  <2>2. Cardinality(C \cup E \cup S) =
            Cardinality(C \cup E) + Cardinality(S) - Cardinality((C \cup E) \cap S)
    BY <1>3, <1>7, FS_Union
  <2>3. Cardinality(1 .. n) =
            Cardinality(C \cup E) + Cardinality(S) - Cardinality((C \cup E) \cap S)
    BY <1>6, <2>2
  <2>4. Cardinality(C \cup E) \in Nat /\ Cardinality(S) \in Nat
    BY <1>3, <1>7
  <2>. QED  BY <2>1, <2>3, <2>4
<1>9. Cardinality(1 .. n) = n
  BY <1>1, UpTo
<1>10. n <= Cardinality(S) + taken + Len(batch)
  BY <1>1, <1>3, <1>4, <1>5, <1>7, <1>8, <1>9
<1>. QED  BY <1>2, <1>3, <1>10 DEF S, n

LEMMA LowestFreeIs ==
    ASSUME TypeOK, DescInv, NEW k \in Nat,
           k + taken + Len(batch) <= NConns + BatchSize
    PROVE  /\ LowestFree(k) \in SUBSET Fds
           /\ \A f \in LowestFree(k) : fdt[f] = Free
           /\ Cardinality(LowestFree(k)) = k
<1>. DEFINE S == {f \in Fds : fdt[f] = Free}
            n == NConns + BatchSize
            Lowest(F) == /\ Cardinality(F) = k
                         /\ \A f \in F, g \in Fds \ F : fdt[g] = Free => f < g
<1>1. /\ n \in Nat /\ S \in SUBSET (1 .. n) /\ Cardinality(S) \in Nat
      /\ taken \in Nat /\ Len(batch) \in Nat
      /\ n <= Cardinality(S) + taken + Len(batch)
  BY FreeEnough, IpcAssumption DEF TypeOK
<1>2. k <= Cardinality(S)
  <2>. HIDE DEF S
  <2>. QED  BY <1>1
<1>3. PICK F : AreLowest(F, S, k)
  <2>1. n \in Nat /\ S \in SUBSET (1 .. n)
    BY <1>1
  <2>. HIDE DEF S, n
  <2>. QED  BY <1>2, <2>1, LowestNumbers
<1>4. F \in SUBSET S /\ Lowest(F)
  BY <1>3 DEF AreLowest
<1>5. LowestFree(k) = CHOOSE G \in SUBSET S : Lowest(G)
  BY DEF LowestFree
<1>6. LowestFree(k) \in SUBSET S /\ Lowest(LowestFree(k))
  <2>. HIDE DEF Lowest, S
  <2>. QED  BY <1>4, <1>5
<1>. QED  BY <1>6

\* accept() gets a free number.
LEMMA AcceptConnDoes ==
    ASSUME TypeOK, DescInv, AcceptConn
    PROVE  \E f \in Fds : /\ fdt[f] = Free
                          /\ fdt' = [fdt EXCEPT ![f] = taken + 1]
                          /\ acc' = [pc |-> "install", fd |-> f]
<1>1. 1 + taken + Len(batch) <= NConns + BatchSize
  <2>1. /\ taken \in Nat /\ made \in Nat /\ taken < made /\ made <= NConns
        /\ NConns \in Nat /\ BatchSize \in Nat
    BY IpcAssumption DEF TypeOK, AcceptConn
  <2>2. Len(batch) \in Nat /\ Len(batch) <= BatchSize
    BY DEF TypeOK, DescInv, EventsLeft
  <2>. QED  BY <2>1, <2>2
<1>2. LowestFree(1) \in SUBSET Fds /\ \A f \in LowestFree(1) : fdt[f] = Free
  BY <1>1, LowestFreeIs
<1>. QED  BY <1>2 DEF AcceptConn

\* Every event of a read() gets a free number, and no two the same.
LEMMA ReadEventsDoes ==
    ASSUME TypeOK, DescInv, ReadEvents
    PROVE  \E n \in 1 .. BatchSize :
              /\ next_id + n <= NRequests + 1
              /\ batch' \in [1 .. n -> Fds]
              /\ \A i \in 1 .. n : fdt[batch'[i]] = Free
              /\ \A i, j \in 1 .. n : batch'[i] = batch'[j] => i = j
              /\ fdt' = [f \in Fds |-> IF \E i \in 1 .. n : batch'[i] = f
                                       THEN EventFd ELSE fdt[f]]
<1>1. PICK n \in 1 .. BatchSize :
         /\ next_id + n - 1 <= NRequests
         /\ batch' = CHOOSE s \in [1 .. n -> LowestFree(n)] :
                         \A i, j \in 1 .. n : i < j => s[i] < s[j]
         /\ fdt' = [f \in Fds |-> IF f \in LowestFree(n) THEN EventFd ELSE fdt[f]]
  BY DEF ReadEvents
<1>. DEFINE F == LowestFree(n)
<1>2. n \in Nat /\ n + taken + Len(batch) <= NConns + BatchSize
  <2>1. batch = <<>>
    BY DEF ReadEvents, DescInv, EventsLeft, Held
  <2>2. Len(batch) = 0
    BY <2>1
  <2>3. taken \in Nat /\ made \in Nat /\ taken <= made /\ made <= NConns
    BY IpcAssumption DEF TypeOK
  <2>. QED  BY <2>2, <2>3, IpcAssumption
<1>3. F \in SUBSET (1 .. NConns + BatchSize) /\ Cardinality(F) = n
      /\ \A f \in F : f \in Fds /\ fdt[f] = Free
  BY <1>2, LowestFreeIs DEF Fds
<1>4. NConns + BatchSize \in Nat
  BY IpcAssumption
<1>. HIDE DEF F
<1>5. Increasing(F, n) # {}
  BY <1>3, <1>4, InOrder
<1>6. batch' \in Increasing(F, n)
  BY <1>1, <1>5 DEF F, Increasing
<1>7. /\ \A i, j \in 1 .. n : batch'[i] = batch'[j] => i = j
      /\ \A f \in F : \E i \in 1 .. n : batch'[i] = f
  <2>1. PICK N, s : N = NConns + BatchSize /\ s = batch'
    OBVIOUS
  <2>2. N \in Nat /\ F \in SUBSET (1 .. N) /\ s \in Increasing(F, n) /\ n = Cardinality(F)
    BY <1>3, <1>4, <1>6, <2>1
  <2>3. s \in Bijection(1 .. n, F)
    BY <2>2, OrderCovers
  <2>. QED  BY <2>1, <2>3 DEF Bijection, Injection, IsInjective, Surjection
<1>8. fdt' = [f \in Fds |-> IF \E i \in 1 .. n : batch'[i] = f THEN EventFd ELSE fdt[f]]
  <2>1. \A f : f \in F <=> \E i \in 1 .. n : batch'[i] = f
    BY <1>6, <1>7 DEF Increasing
  <2>. QED  BY <1>1, <2>1 DEF F
<1>9. next_id + n <= NRequests + 1
  BY <1>1, IpcAssumption DEF TypeOK
<1>10. batch' \in [1 .. n -> Fds] /\ \A i \in 1 .. n : fdt[batch'[i]] = Free
  BY <1>3, <1>6 DEF Increasing
<1>. QED  BY <1>7, <1>8, <1>9, <1>10

LEMMA InitTypes == Init => TypeOK /\ DescInv
<1>. SUFFICES ASSUME Init PROVE TypeOK /\ DescInv
  OBVIOUS
<1>. USE DEF Init
<1>1. TypeOK
  BY IpcAssumption DEF TypeOK, AcceptStates, ReaderStates, Entries, CallStates,
                       Conns, Fds, Ids, None, Free
<1>2. Numbering
  BY DEF Numbering, Free, EventFd, Conns
<1>3. EventsLeft
  BY IpcAssumption DEF EventsLeft, Held
<1>4. CallTypes /\ ReaderTypes
  BY DEF CallTypes, ReaderTypes
<1>. QED  BY <1>1, <1>2, <1>3, <1>4 DEF DescInv

\* A closed number is free.
LEMMA ClosingType ==
    ASSUME TypeOK, NEW f
    PROVE  Closing(f) \in [Fds -> Conns \cup {Free, EventFd}]
BY DEF TypeOK, Closing

\* What the fields of the records may be.
LEMMA Fields ==
    ASSUME TypeOK
    PROVE  /\ acc.fd \in Fds \cup {None}
           /\ req.fd \in Fds \cup {None}
           /\ req.id \in Ids \cup {0}
           /\ \A c \in Conns : /\ rd[c].fd \in Fds \cup {None}
                               /\ rd[c].on \in Conns \cup {0}
                               /\ rd[c].msg \in Ids \cup {0}
<1>1. acc \in AcceptStates /\ req \in CallStates /\ \A c \in Conns : rd[c] \in ReaderStates
  BY DEF TypeOK
<1>. QED  BY <1>1 DEF AcceptStates, CallStates, ReaderStates

LEMMA StepType ==
    ASSUME TypeOK, NEW c \in Conns,
           NEW p \in {"loop", "read", "eof", "close", "match", "done"},
           Step(c, p)
    PROVE  rd' \in [Conns -> ReaderStates]
<1>1. rd \in [Conns -> ReaderStates] /\ rd[c] \in ReaderStates
  BY DEF TypeOK
<1>2. [rd[c] EXCEPT !.pc = p] \in ReaderStates
  BY <1>1 DEF ReaderStates
<1>3. rd' = [rd EXCEPT ![c] = [rd[c] EXCEPT !.pc = p]]
  BY DEF Step
<1>. QED  BY <1>1, <1>2, <1>3

LEMMA HeardType ==
    ASSUME TypeOK, NEW c \in Conns, NEW id \in Ids \cup {0}, Heard(c, id)
    PROVE  rd' \in [Conns -> ReaderStates]
<1>1. rd \in [Conns -> ReaderStates] /\ rd[c] \in ReaderStates
  BY DEF TypeOK
<1>2. [rd[c] EXCEPT !.pc = "answer", !.msg = id] \in ReaderStates
  BY <1>1 DEF ReaderStates
<1>3. rd' = [rd EXCEPT ![c] = [rd[c] EXCEPT !.pc = "answer", !.msg = id]]
  BY DEF Heard
<1>. QED  BY <1>1, <1>2, <1>3

\* A message, or what is left of one.
Messages == Ids \cup {HalfMessage}

LEMMA QueueTypes ==
    ASSUME NEW q \in Seq(Messages), q # <<>>
    PROVE  /\ Head(q) \in Messages /\ Tail(q) \in Seq(Messages)
           /\ <<HalfMessage>> \o Tail(q) \in Seq(Messages)
           /\ Tail(q) # <<>> => <<HalfMessage>> \o Tail(Tail(q)) \in Seq(Messages)
<1>1. Head(q) \in Messages /\ Tail(q) \in Seq(Messages)
  OBVIOUS
<1>2. ASSUME NEW r \in Seq(Messages)
      PROVE  <<HalfMessage>> \o r \in Seq(Messages)
  <2>1. <<HalfMessage>> \in Seq(Messages)
    BY DEF Messages
  <2>. HIDE DEF Messages
  <2>. QED  BY <2>1
<1>3. Tail(q) # <<>> => Tail(Tail(q)) \in Seq(Messages)
  <2>. HIDE DEF Messages
  <2>. QED  BY <1>1
<1>. QED  BY <1>1, <1>2, <1>3

LEMMA AllGoneType ==
    ASSUME TypeOK, rd' = [c \in Conns |-> [rd[c] EXCEPT !.pc = "gone"]]
    PROVE  rd' \in [Conns -> ReaderStates]
<1>1. ASSUME NEW c \in Conns
      PROVE  [rd[c] EXCEPT !.pc = "gone"] \in ReaderStates
  <2>1. rd[c] \in ReaderStates
    BY DEF TypeOK
  <2>. QED  BY <2>1 DEF ReaderStates
<1>. QED  BY <1>1

\* The id a call takes is one of those there are.
LEMMA NextId ==
    ASSUME TypeOK, DescInv, Allocate
    PROVE  next_id \in Ids /\ next_id + 1 \in 1 .. NRequests + 1
<1>1. next_id + Len(batch) <= NRequests + 1 /\ Len(batch) \in Nat /\ Len(batch) # 0
  BY DEF TypeOK, Allocate, DescInv, EventsLeft, Held
<1>. QED  BY <1>1, IpcAssumption DEF TypeOK, Ids

\* What the event-loop thread does to its own record.
LEMMA CallType ==
    ASSUME TypeOK, DescInv, MainThread
    PROVE  req' \in CallStates
<1>. DEFINE Pcs == {"idle", "hash", "elf", "snapshot", "allocate", "write", "send",
                    "wait", "cleanup", "close", "drop", "join", "ended"}
<1>1. req \in CallStates
  BY DEF TypeOK
<1>2. ASSUME NEW p \in Pcs, req' = [req EXCEPT !.pc = p]
      PROVE  req' \in CallStates
  BY <1>1, <1>2 DEF CallStates
<1>3. ASSUME NEW p \in Pcs, NEW r \in {"none", "no_client", "timeout", "answered"},
             Return(r, p)
      PROVE  req' \in CallStates
  BY <1>1, <1>3 DEF CallStates, Return
<1>4. CASE Snapshot
  <2>1. client_fd \in Fds \cup {None}
    BY DEF TypeOK
  <2>2. CASE req' = [req EXCEPT !.fd = client_fd, !.pc = "allocate"]
    BY <1>1, <2>1, <2>2 DEF CallStates
  <2>. QED  BY <1>3, <1>4, <2>2 DEF Snapshot
<1>5. CASE Allocate
  <2>1. next_id \in Ids
    BY <1>5, NextId
  <2>2. req' = [req EXCEPT !.pc = "write", !.id = next_id]
    BY <1>5 DEF Allocate
  <2>. QED  BY <1>1, <2>1, <2>2 DEF CallStates
<1>6. CASE BeginWrite
  <2>1. CASE fdt[req.fd] \in Conns /\ req' = [req EXCEPT !.pc = "send", !.on = fdt[req.fd]]
    BY <1>1, <2>1 DEF CallStates
  <2>. QED  BY <1>3, <1>6, <2>1 DEF BeginWrite
<1>7. CASE Send \/ Wake \/ CloseEvent
  BY <1>2, <1>3, <1>7 DEF Send, Wake, CloseEvent
<1>8. CASE EnterLoop \/ ReadEvents \/ HashEvent \/ HashClosed \/ ElfReads \/ Cleanup
           \/ Shutdown \/ DropClient \/ JoinAccept
  BY <1>2, <1>8 DEF EnterLoop, ReadEvents, HashEvent, HashClosed, ElfReads, Cleanup,
                    Shutdown, DropClient, JoinAccept
<1>9. CASE HashConn
  <2>. DEFINE on == fdt[Head(batch)]
  <2>. HIDE DEF on
  <2>1. ASSUME on \in Conns, req' = [req EXCEPT !.pc = "elf", !.on = on]
        PROVE  req' \in CallStates
    BY <1>1, <2>1 DEF CallStates
  <2>. QED  BY <1>2, <1>9, <2>1 DEF HashConn, ElfReads, on
<1>. QED  BY <1>4, <1>5, <1>6, <1>7, <1>8, <1>9 DEF MainThread, Request

LEMMA TypeGui ==
    ASSUME TypeOK, Connect \/ (\E c \in Conns : Gui(c)) \/ UNCHANGED vars
    PROVE  TypeOK'
<1>1. CASE Connect
  <2>1. made' \in 0 .. NConns /\ taken' \in 0 .. made' /\ closed' \in SUBSET (1 .. made')
    BY <1>1, IpcAssumption DEF TypeOK, Connect
  <2>. QED  BY <1>1, <2>1 DEF TypeOK, Connect, wireVars
<1>2. ASSUME NEW c \in Conns, GuiCloses(c)
      PROVE  TypeOK'
  <2>1. closed' \in SUBSET (1 .. made')
    BY <1>2 DEF TypeOK, GuiCloses, Linked, Conns
  <2>. QED  BY <1>2, <2>1 DEF TypeOK, GuiCloses, wireVars
<1>3. ASSUME NEW c \in Conns, GuiReads(c)
      PROVE  TypeOK'
  <2>1. toGui[c] \in Seq(Ids) /\ toGui[c] # <<>>
    BY <1>3 DEF TypeOK, GuiReads
  <2>2. Head(toGui[c]) \in Ids /\ Tail(toGui[c]) \in Seq(Ids)
    BY <2>1
  <2>3. shown' \in SUBSET Ids /\ toGui' \in [Conns -> Seq(Ids)]
    BY <1>3, <2>2 DEF TypeOK, GuiReads
  <2>. QED  BY <1>3, <2>3 DEF TypeOK, GuiReads
<1>4. ASSUME NEW c \in Conns, NEW id \in Ids, GuiAnswers(c, id)
      PROVE  TypeOK'
  <2>1. Append(toDaemon[c], id) \in Seq(Ids \cup {HalfMessage})
    BY DEF TypeOK
  <2>2. /\ shown' \in SUBSET Ids /\ said' \in SUBSET Ids
        /\ toDaemon' \in [Conns -> Seq(Ids \cup {HalfMessage})]
    BY <1>4, <2>1 DEF TypeOK, GuiAnswers
  <2>. QED  BY <1>4, <2>2 DEF TypeOK, GuiAnswers
<1>5. CASE UNCHANGED vars
  BY <1>5 DEF TypeOK, vars, guiVars, wireVars
<1>. QED  BY <1>1, <1>2, <1>3, <1>4, <1>5 DEF Gui

LEMMA TypeAccept ==
    ASSUME TypeOK, DescInv, AcceptThread
    PROVE  TypeOK'
<1>1. CASE AcceptConn
  <2>1. PICK f \in Fds : /\ fdt' = [fdt EXCEPT ![f] = taken + 1]
                         /\ acc' = [pc |-> "install", fd |-> f]
    BY <1>1, AcceptConnDoes
  <2>2. taken + 1 \in Conns /\ taken' \in 0 .. made
    BY <1>1, IpcAssumption DEF TypeOK, AcceptConn, Conns
  <2>3. fdt' \in [Fds -> Conns \cup {Free, EventFd}] /\ acc' \in AcceptStates
    BY <2>1, <2>2 DEF TypeOK, AcceptStates
  <2>. QED  BY <1>1, <2>2, <2>3 DEF TypeOK, AcceptConn, guiVars, wireVars
<1>2. CASE AcceptInstall
  <2>1. fdt' \in [Fds -> Conns \cup {Free, EventFd}]
    BY <1>2, ClosingType DEF TypeOK, AcceptInstall
  <2>2. acc' \in AcceptStates /\ client_fd' \in Fds \cup {None}
    BY <1>2, Fields DEF TypeOK, AcceptInstall, AcceptStates
  <2>. QED  BY <1>2, <2>1, <2>2 DEF TypeOK, AcceptInstall, guiVars, wireVars
<1>3. CASE AcceptSpawn
  <2>1. acc' \in AcceptStates
    BY <1>3 DEF AcceptSpawn, AcceptStates
  <2>2. rd' \in [Conns -> ReaderStates]
    <3>1. rd \in [Conns -> ReaderStates]
      BY DEF TypeOK
    <3>2. ASSUME taken \in Conns
          PROVE  /\ [rd[taken] EXCEPT !.pc = "loop", !.fd = acc.fd] \in ReaderStates
                 /\ [rd[taken] EXCEPT !.pc = "never"] \in ReaderStates
      <4>1. rd[taken] \in ReaderStates
        BY <3>1, <3>2
      <4>. QED  BY <4>1, Fields DEF ReaderStates
    <3>. QED  BY <1>3, <3>1, <3>2 DEF AcceptSpawn
  <2>. QED  BY <1>3, <2>1, <2>2 DEF TypeOK, AcceptSpawn, guiVars, wireVars
<1>4. CASE AcceptLeaves
  <2>1. acc' \in AcceptStates
    BY <1>4 DEF TypeOK, AcceptLeaves, AcceptStates
  <2>. QED  BY <1>4, <2>1 DEF TypeOK, AcceptLeaves, guiVars, wireVars
<1>. QED  BY <1>1, <1>2, <1>3, <1>4 DEF AcceptThread

LEMMA TypeReader ==
    ASSUME TypeOK, DescInv, NEW c \in Conns, ReaderThread(c)
    PROVE  TypeOK'
<1>1. CASE ReaderReads(c)
  <2>. DEFINE on == fdt[rd[c].fd]
  <2>1. ASSUME on \in Conns, rd' = [rd EXCEPT ![c].pc = "read", ![c].on = on]
        PROVE  rd' \in [Conns -> ReaderStates]
    <3>1. rd \in [Conns -> ReaderStates] /\ rd[c] \in ReaderStates
      BY DEF TypeOK
    <3>. HIDE DEF on
    <3>2. [rd[c] EXCEPT !.pc = "read", !.on = on] \in ReaderStates
      BY <2>1, <3>1 DEF ReaderStates
    <3>. QED  BY <2>1, <3>1, <3>2
  <2>2. rd' \in [Conns -> ReaderStates]
    <3>1. \/ on \in Conns /\ rd' = [rd EXCEPT ![c].pc = "read", ![c].on = on]
          \/ Step(c, "eof")
          \/ \E id \in Ids \cup {0} : Heard(c, id)
      BY <1>1, IpcAssumption DEF ReaderReads, Ids
    <3>. QED  BY <2>1, <3>1, StepType, HeardType
  <2>. QED  BY <1>1, <2>2 DEF TypeOK, ReaderReads, guiVars, wireVars
<1>2. CASE ReaderTakes(c)
  <2>. DEFINE on == rd[c].on
              q == toDaemon[on]
  <2>1. on \in Conns /\ q \in Seq(Messages) /\ q # <<>>
    BY <1>2 DEF TypeOK, ReaderTakes, DescInv, ReaderTypes, Messages
  <2>2. /\ Head(q) \in Ids \cup {0} /\ <<>> \in Seq(Messages)
        /\ Tail(q) \in Seq(Messages)
        /\ Tail(q) # <<>> => <<HalfMessage>> \o Tail(Tail(q)) \in Seq(Messages)
    BY <2>1, QueueTypes DEF Messages, HalfMessage
  <2>3. PICK q1 \in Seq(Messages) : toDaemon' = [toDaemon EXCEPT ![on] = q1]
    BY <1>2, <2>2 DEF ReaderTakes
  <2>4. toDaemon' \in [Conns -> Seq(Ids \cup {HalfMessage})]
    BY <2>3 DEF TypeOK, Messages
  <2>5. Step(c, "loop") \/ \E id \in Ids \cup {0} : Heard(c, id)
    <3>1. Stray \subseteq Ids
      BY IpcAssumption DEF Ids
    <3>. HIDE DEF q
    <3>2. ASSUME Heard(c, Head(q))
          PROVE  \E id \in Ids \cup {0} : Heard(c, id)
      BY <2>2, <3>2
    <3>. QED  BY <1>2, <3>1, <3>2 DEF ReaderTakes, q
  <2>6. rd' \in [Conns -> ReaderStates]
    BY <2>5, StepType, HeardType
  <2>. QED  BY <1>2, <2>4, <2>6 DEF TypeOK, ReaderTakes, guiVars
<1>3. CASE ReaderLeaves(c) \/ ReaderEof(c) \/ ReaderClears(c) \/ ReaderFinds(c)
  <2>1. rd' \in [Conns -> ReaderStates]
    <3>1. \E p \in {"done", "eof", "close", "match", "loop"} : Step(c, p)
      BY <1>3 DEF ReaderLeaves, ReaderEof, ReaderClears, ReaderFinds
    <3>. QED  BY <3>1, StepType
  <2>2. client_fd' \in Fds \cup {None} /\ locker' \in Conns \cup {0}
    BY <1>3 DEF TypeOK, ReaderLeaves, ReaderEof, ReaderClears, ReaderFinds
  <2>. QED  BY <1>3, <2>1, <2>2 DEF TypeOK, ReaderLeaves, ReaderEof, ReaderClears,
                                    ReaderFinds, guiVars, wireVars
<1>4. CASE ReaderCloses(c)
  <2>1. fdt' \in [Fds -> Conns \cup {Free, EventFd}]
    BY <1>4, ClosingType DEF ReaderCloses
  <2>2. rd' \in [Conns -> ReaderStates]
    BY <1>4, StepType DEF ReaderCloses
  <2>. QED  BY <1>4, <2>1, <2>2 DEF TypeOK, ReaderCloses, guiVars, wireVars
<1>5. CASE ReaderCompletes(c)
  <2>1. rd' \in [Conns -> ReaderStates]
    BY <1>5, StepType DEF ReaderCompletes
  <2>2. slot' \in Entries
    BY <1>5, Fields DEF TypeOK, ReaderCompletes, Entries
  <2>. QED  BY <1>5, <2>1, <2>2 DEF TypeOK, ReaderCompletes, guiVars, wireVars
<1>. QED  BY <1>1, <1>2, <1>3, <1>4, <1>5 DEF ReaderThread

LEMMA TypeMain ==
    ASSUME TypeOK, DescInv, MainThread
    PROVE  TypeOK'
<1>0. req' \in CallStates
  BY CallType
<1>1. CASE EnterLoop \/ JoinAccept
  <2>1. acc' \in AcceptStates
    BY <1>1 DEF TypeOK, EnterLoop, JoinAccept, AcceptStates
  <2>2. rd' \in [Conns -> ReaderStates]
    BY <1>1, AllGoneType DEF TypeOK, EnterLoop, JoinAccept
  <2>. QED
    BY <1>0, <1>1, <2>1, <2>2 DEF TypeOK, EnterLoop, JoinAccept, guiVars, wireVars
<1>2. CASE ReadEvents
  <2>1. batch' \in Seq(Fds)
    BY <1>2, ReadEventsDoes
  <2>2. fdt' \in [Fds -> Conns \cup {Free, EventFd}]
    BY <1>2 DEF TypeOK, ReadEvents
  <2>. QED  BY <1>0, <1>2, <2>1, <2>2 DEF TypeOK, ReadEvents, guiVars, wireVars
<1>3. CASE ElfReads
  <2>. DEFINE q == toDaemon[req.on]
  <2>1. req.on \in Conns /\ q \in Seq(Messages)
    BY <1>3 DEF TypeOK, ElfReads, DescInv, CallTypes, Messages
  <2>2. q # <<>> => Tail(q) \in Seq(Messages) /\ <<HalfMessage>> \o Tail(q) \in Seq(Messages)
    BY <2>1, QueueTypes
  <2>3. \/ UNCHANGED toDaemon
        \/ \E q1 \in Seq(Messages) : toDaemon' = [toDaemon EXCEPT ![req.on] = q1]
    BY <1>3, <2>2 DEF ElfReads
  <2>4. toDaemon' \in [Conns -> Seq(Ids \cup {HalfMessage})]
    BY <2>3 DEF TypeOK, Messages
  <2>. QED  BY <1>0, <1>3, <2>4 DEF TypeOK, ElfReads, guiVars
<1>4. CASE HashEvent \/ HashClosed \/ HashConn \/ Snapshot \/ BeginWrite \/ Wake
  BY <1>0, <1>4 DEF TypeOK, HashEvent, HashClosed, HashConn, ElfReads, Snapshot, BeginWrite,
                    Wake, guiVars, wireVars
<1>5. CASE Allocate
  <2>1. next_id \in Ids /\ next_id + 1 \in 1 .. NRequests + 1
    BY <1>5, NextId
  <2>2. slot' \in Entries
    BY <1>5, <2>1 DEF Allocate, Entries
  <2>. QED  BY <1>0, <1>5, <2>1, <2>2 DEF TypeOK, Allocate, guiVars, wireVars
<1>6. CASE Send
  <2>1. req.on \in Conns /\ Append(toGui[req.on], req.id) \in Seq(Ids)
    <3>1. req.on \in Conns /\ req.id \in Ids
      BY <1>6 DEF Send, DescInv, CallTypes
    <3>. QED  BY <3>1 DEF TypeOK
  <2>2. toGui' \in [Conns -> Seq(Ids)]
    BY <1>6, <2>1 DEF TypeOK, Send
  <2>. QED  BY <1>0, <1>6, <2>2 DEF TypeOK, Send, guiVars
<1>7. CASE Cleanup \/ Shutdown
  <2>1. slot' \in Entries /\ running' \in BOOLEAN
    BY <1>7 DEF TypeOK, Cleanup, Shutdown, Entries
  <2>. QED  BY <1>0, <1>7, <2>1 DEF TypeOK, Cleanup, Shutdown, guiVars, wireVars
<1>8. CASE CloseEvent
  <2>1. Tail(batch) \in Seq(Fds)
    BY <1>8 DEF TypeOK, CloseEvent, DescInv, EventsLeft, Held
  <2>2. fdt' \in [Fds -> Conns \cup {Free, EventFd}]
    BY <1>8, ClosingType DEF CloseEvent
  <2>. QED  BY <1>0, <1>8, <2>1, <2>2 DEF TypeOK, CloseEvent, guiVars, wireVars
<1>9. CASE DropClient
  <2>1. fdt' \in [Fds -> Conns \cup {Free, EventFd}] /\ client_fd' \in Fds \cup {None}
    BY <1>9, ClosingType DEF TypeOK, DropClient
  <2>. QED  BY <1>0, <1>9, <2>1 DEF TypeOK, DropClient, guiVars, wireVars
<1>. QED
  BY <1>1, <1>2, <1>3, <1>4, <1>5, <1>6, <1>7, <1>8, <1>9 DEF MainThread, Request

\* Closing a number takes nothing from what is known of the others.
LEMMA ClosedNumbering ==
    ASSUME TypeOK, Numbering, UNCHANGED <<taken, batch>>, NEW f,
           fdt' = fdt \/ fdt' = Closing(f)
    PROVE  Numbering'
<1>1. \A g \in Fds : fdt'[g] # Free => fdt'[g] = fdt[g]
  BY DEF TypeOK, Closing
<1>. QED  BY <1>1 DEF Numbering, Free, EventFd, Conns

LEMMA NumberingStep ==
    ASSUME TypeOK, DescInv, [Next]_vars
    PROVE  Numbering'
<1>. USE DEF DescInv
<1>1. ASSUME NEW f, fdt' = fdt \/ fdt' = Closing(f), UNCHANGED <<taken, batch>>
      PROVE  Numbering'
  BY <1>1, ClosedNumbering
<1>2. CASE AcceptConn
  <2>1. PICK f \in Fds : fdt[f] = Free /\ fdt' = [fdt EXCEPT ![f] = taken + 1]
    BY <1>2, AcceptConnDoes
  <2>2. taken' = taken + 1 /\ taken \in Nat /\ UNCHANGED batch
    BY <1>2, IpcAssumption DEF TypeOK, AcceptConn
  <2>3. fdt'[f] = taken + 1 /\ \A g \in Fds : g # f => fdt'[g] = fdt[g]
    BY <2>1 DEF TypeOK
  <2>4. \A g \in Fds : fdt[g] \in Conns => fdt[g] \in Nat /\ fdt[g] <= taken
    BY DEF Numbering, Conns
  <2>. QED  BY <2>2, <2>3, <2>4 DEF Numbering, EventFd
<1>3. CASE ReadEvents
  <2>1. PICK n \in 1 .. BatchSize :
           /\ batch' \in [1 .. n -> Fds]
           /\ fdt' = [f \in Fds |-> IF \E i \in 1 .. n : batch'[i] = f
                                    THEN EventFd ELSE fdt[f]]
    BY <1>3, ReadEventsDoes
  <2>2. \A f \in Fds : fdt[f] # EventFd
    BY <1>3 DEF ReadEvents, Numbering, EventsLeft, Held
  <2>3. DOMAIN batch' = 1 .. n /\ UNCHANGED taken
    BY <1>3, <2>1 DEF ReadEvents
  <2>4. \A f \in Fds : \/ fdt'[f] = fdt[f]
                       \/ fdt'[f] = EventFd /\ \E i \in DOMAIN batch' : batch'[i] = f
    BY <2>1, <2>3
  <2>. QED  BY <2>2, <2>3, <2>4 DEF Numbering, EventFd, Conns
<1>4. CASE CloseEvent
  <2>1. batch # <<>> /\ batch \in Seq(Fds)
    BY <1>4 DEF CloseEvent, EventsLeft, Held, TypeOK
  <2>2. Head(batch) = batch[1] /\ batch' = Tail(batch) /\ batch[1] \in Fds
    BY <1>4, <2>1 DEF CloseEvent
  <2>3. fdt' = [fdt EXCEPT ![batch[1]] = Free] /\ UNCHANGED taken
    BY <1>4, <2>2 DEF CloseEvent, Closing
  <2>4. \A g \in Fds : fdt'[g] # Free => g # batch[1] /\ fdt'[g] = fdt[g]
    BY <2>2, <2>3 DEF TypeOK
  <2>5. \A i \in DOMAIN batch : i # 1 => i - 1 \in DOMAIN batch' /\ batch'[i - 1] = batch[i]
    BY <2>1, <2>2
  <2>6. ASSUME NEW g \in Fds, fdt'[g] = EventFd
        PROVE  \E i \in DOMAIN batch' : batch'[i] = g
    <3>1. g # batch[1] /\ fdt[g] = EventFd
      BY <2>4, <2>6 DEF EventFd, Free
    <3>2. PICK i \in DOMAIN batch : batch[i] = g
      BY <3>1 DEF Numbering
    <3>. QED  BY <2>5, <3>1, <3>2
  <2>. QED  BY <2>3, <2>4, <2>6 DEF Numbering, Free, Conns
<1>5. CASE Connect \/ (\E c \in Conns : Gui(c)) \/ UNCHANGED vars
  BY <1>1, <1>5 DEF Connect, Gui, GuiCloses, GuiReads, GuiAnswers, vars
<1>6. CASE AcceptInstall \/ AcceptSpawn \/ AcceptLeaves
  BY <1>1, <1>6 DEF AcceptInstall, AcceptSpawn, AcceptLeaves
<1>7. ASSUME NEW c \in Conns, ReaderThread(c)
      PROVE  Numbering'
  BY <1>1, <1>7 DEF ReaderThread, ReaderReads, ReaderLeaves, ReaderTakes, ReaderEof,
                    ReaderClears, ReaderCloses, ReaderFinds, ReaderCompletes
<1>8. CASE EnterLoop \/ HashEvent \/ HashClosed \/ HashConn \/ ElfReads \/ Snapshot
           \/ Allocate \/ BeginWrite \/ Send \/ Wake \/ Cleanup \/ Shutdown \/ DropClient
           \/ JoinAccept
  BY <1>1, <1>8 DEF EnterLoop, HashEvent, HashClosed, HashConn, ElfReads, Snapshot,
                    Allocate, BeginWrite, Send, Wake, Cleanup, Shutdown, DropClient, JoinAccept
<1>. QED
  BY <1>2, <1>3, <1>4, <1>5, <1>6, <1>7, <1>8 DEF Next, AcceptThread, MainThread, Request

LEMMA EventsLeftStep ==
    ASSUME TypeOK, DescInv, [Next]_vars
    PROVE  EventsLeft'
<1>. USE DEF DescInv
<1>0. /\ next_id \in Nat /\ NRequests \in Nat /\ Len(batch) \in Nat
      /\ DOMAIN req = {"pc", "fd", "on", "id", "result"}
  BY IpcAssumption DEF TypeOK, CallStates
<1>1. CASE \/ Connect
           \/ \E c \in Conns : Gui(c)
           \/ AcceptThread
           \/ \E c \in Conns : ReaderThread(c)
           \/ UNCHANGED vars
  <2>1. UNCHANGED <<req, batch, next_id>>
    BY <1>1 DEF Connect, Gui, GuiCloses, GuiReads, GuiAnswers, AcceptThread, AcceptConn,
                AcceptInstall, AcceptSpawn, AcceptLeaves, ReaderThread, ReaderReads,
                ReaderLeaves, ReaderTakes, ReaderEof, ReaderClears, ReaderCloses,
                ReaderFinds, ReaderCompletes, vars
  <2>. QED  BY <2>1 DEF EventsLeft
<1>2. CASE ReadEvents
  <2>1. PICK n \in 1 .. BatchSize : next_id + n <= NRequests + 1 /\ batch' \in [1 .. n -> Fds]
    BY <1>2, ReadEventsDoes
  <2>2. Len(batch') = n /\ batch' # <<>> /\ n <= BatchSize
    BY <2>1
  <2>3. req'.pc = "hash" /\ UNCHANGED next_id
    BY <1>0, <1>2 DEF ReadEvents
  <2>. QED  BY <2>1, <2>2, <2>3 DEF EventsLeft, Held
<1>3. CASE CloseEvent
  <2>1. batch # <<>> /\ next_id + Len(batch) <= NRequests + 2 /\ UNCHANGED next_id
    BY <1>3 DEF CloseEvent, EventsLeft, Held
  <2>2. batch' = Tail(batch) /\ Len(batch') = Len(batch) - 1 /\ batch \in Seq(Fds)
    BY <1>3, <2>1 DEF CloseEvent, TypeOK
  <2>3. req'.pc = IF batch' = <<>> THEN "idle" ELSE "hash"
    BY <1>0, <1>3 DEF CloseEvent, Return
  <2>. QED  BY <1>0, <2>1, <2>2, <2>3, IpcAssumption DEF EventsLeft, Held
<1>4. CASE Allocate
  <2>1. req.pc = "allocate" /\ req'.pc = "write" /\ next_id' = next_id + 1 /\ UNCHANGED batch
    BY <1>0, <1>4 DEF Allocate
  <2>. QED  BY <1>0, <2>1 DEF EventsLeft, Held
<1>5. CASE HashEvent \/ HashClosed \/ HashConn \/ ElfReads \/ Snapshot \/ BeginWrite
           \/ Send \/ Wake \/ Cleanup
  <2>1. /\ UNCHANGED <<batch, next_id>> /\ Held(req.pc) /\ Held(req'.pc)
        /\ req'.pc \in {"hash", "elf", "snapshot", "allocate"} =>
               req.pc \in {"hash", "elf", "snapshot", "allocate"}
    BY <1>0, <1>5 DEF HashEvent, HashClosed, HashConn, ElfReads, Snapshot, BeginWrite,
                      Send, Wake, Cleanup, Return, Held
  <2>. QED  BY <1>0, <2>1 DEF EventsLeft
<1>6. CASE EnterLoop \/ Shutdown \/ DropClient \/ JoinAccept
  <2>1. UNCHANGED <<batch, next_id>> /\ ~Held(req.pc) /\ ~Held(req'.pc)
    BY <1>0, <1>6 DEF EnterLoop, Shutdown, DropClient, JoinAccept, Held
  <2>. QED  BY <2>1 DEF EventsLeft
<1>. QED  BY <1>1, <1>2, <1>3, <1>4, <1>5, <1>6 DEF Next, MainThread, Request

LEMMA CallTypesStep ==
    ASSUME TypeOK, DescInv, [Next]_vars
    PROVE  CallTypes'
<1>. USE DEF DescInv
<1>0. DOMAIN req = {"pc", "fd", "on", "id", "result"}
  BY DEF TypeOK, CallStates
<1>1. CASE MainThread
  <2>1. CASE Allocate
    BY <1>0, <2>1, NextId DEF Allocate, CallTypes
  <2>2. CASE BeginWrite \/ Send \/ Wake
    BY <1>0, <2>2 DEF BeginWrite, Send, Wake, Return, CallTypes
  <2>3. CASE EnterLoop \/ ReadEvents \/ HashEvent \/ HashClosed \/ ElfReads \/ Snapshot
             \/ Cleanup \/ CloseEvent \/ Shutdown \/ DropClient \/ JoinAccept
    <3>1. req'.pc \notin {"write", "send", "wait", "cleanup", "elf"}
      BY <1>0, <2>3 DEF EnterLoop, ReadEvents, HashEvent, HashClosed, ElfReads, Snapshot,
                        Cleanup, CloseEvent, Shutdown, DropClient, JoinAccept, Return
    <3>. QED  BY <3>1 DEF CallTypes
  <2>4. CASE HashConn
    <3>1. /\ req'.pc \in {"close", "elf"}
          /\ req'.pc = "elf" => req'.on \in Conns
      BY <1>0, <2>4 DEF HashConn
    <3>. QED  BY <3>1 DEF CallTypes
  <2>. QED  BY <1>1, <2>1, <2>2, <2>3, <2>4 DEF MainThread, Request
<1>2. CASE \/ Connect
           \/ \E c \in Conns : Gui(c)
           \/ AcceptThread
           \/ \E c \in Conns : ReaderThread(c)
           \/ UNCHANGED vars
  <2>1. UNCHANGED req
    BY <1>2 DEF Connect, Gui, GuiCloses, GuiReads, GuiAnswers, AcceptThread, AcceptConn,
                AcceptInstall, AcceptSpawn, AcceptLeaves, ReaderThread, ReaderReads,
                ReaderLeaves, ReaderTakes, ReaderEof, ReaderClears, ReaderCloses,
                ReaderFinds, ReaderCompletes, vars
  <2>. QED  BY <2>1 DEF CallTypes
<1>. QED  BY <1>1, <1>2 DEF Next

LEMMA ReaderTypesStep ==
    ASSUME TypeOK, DescInv, [Next]_vars
    PROVE  ReaderTypes'
<1>. USE DEF DescInv
<1>0. DOMAIN rd = Conns /\ \A c \in Conns : DOMAIN rd[c] = {"pc", "fd", "on", "msg"}
  BY DEF TypeOK, ReaderStates
<1>1. ASSUME NEW c \in Conns, ReaderThread(c)
      PROVE  ReaderTypes'
  <2>1. \A d \in Conns : d # c => rd'[d] = rd[d]
    BY <1>0, <1>1, OtherReaders
  <2>2. CASE ReaderReads(c)
    <3>1. rd'[c].pc = "read" => rd'[c].on \in Conns
      BY <1>0, <2>2 DEF ReaderReads, Step, Heard
    <3>. QED  BY <2>1, <3>1 DEF ReaderTypes
  <2>3. CASE ~ReaderReads(c)
    <3>1. rd'[c].pc # "read"
      <4>1. CASE ReaderTakes(c)
        BY <1>0, <4>1, TakesMoves
      <4>2. CASE ~ReaderTakes(c)
        BY <1>0, <1>1, <2>3, <4>2 DEF ReaderThread, ReaderLeaves, ReaderEof, ReaderClears,
                        ReaderCloses, ReaderFinds, ReaderCompletes, Step
      <4>. QED  BY <4>1, <4>2
    <3>. QED  BY <2>1, <3>1 DEF ReaderTypes
  <2>. QED  BY <2>2, <2>3
<1>2. CASE AcceptSpawn
  <2>1. /\ \A d \in Conns : d # taken => rd'[d] = rd[d]
        /\ taken \in Conns => rd'[taken].pc # "read"
    BY <1>0, <1>2 DEF AcceptSpawn
  <2>. QED  BY <2>1 DEF ReaderTypes
<1>3. CASE EnterLoop \/ JoinAccept
  <2>1. UNCHANGED rd \/ \A d \in Conns : rd'[d].pc = "gone"
    BY <1>0, <1>3 DEF EnterLoop, JoinAccept
  <2>. QED  BY <2>1 DEF ReaderTypes
<1>4. CASE \/ Connect
           \/ \E c \in Conns : Gui(c)
           \/ AcceptConn \/ AcceptInstall \/ AcceptLeaves
           \/ ReadEvents \/ Request \/ Shutdown \/ DropClient
           \/ UNCHANGED vars
  <2>1. UNCHANGED rd
    BY <1>4 DEF Connect, Gui, GuiCloses, GuiReads, GuiAnswers, AcceptConn, AcceptInstall,
                AcceptLeaves, ReadEvents, Request, HashEvent, HashClosed, HashConn, ElfReads,
                Snapshot, Allocate, BeginWrite, Send, Wake, Cleanup, CloseEvent, Shutdown,
                DropClient, vars
  <2>. QED  BY <2>1 DEF ReaderTypes
<1>. QED  BY <1>1, <1>2, <1>3, <1>4 DEF Next, AcceptThread, MainThread

LEMMA TypesInvariant == Spec => [](TypeOK /\ DescInv)
<1>1. TypeOK /\ DescInv /\ [Next]_vars => TypeOK'
  BY TypeGui, TypeAccept, TypeReader, TypeMain DEF Next
<1>2. TypeOK /\ DescInv /\ [Next]_vars => DescInv'
  BY NumberingStep, EventsLeftStep, CallTypesStep, ReaderTypesStep DEF DescInv
<1>. QED  BY InitTypes, <1>1, <1>2, PTL DEF Spec

\* The variables keep their types: no accept() and no event is left without a
\* number, and no call without an id.
THEOREM IpcTypes == Spec => []TypeOK
BY TypesInvariant, PTL

-----------------------------------------------------------------------------
(* GUIs that take turns: a connection is opened once the one before it is  *)
(* wound up.                                                               *)

NoConns == \A f \in Fds : fdt[f] \notin Conns

\* The reader of the newest connection, once it was to be started.
NewestReader(r) ==
    /\ r.pc \notin {"none", "gone"}
    /\ r.pc \notin {"close", "done", "never"} =>
           r.fd \in Fds /\ fdt[r.fd] = taken /\ client_fd = r.fd
    /\ r.pc = "read" => r.on = taken
    /\ r.pc \in {"eof", "close", "done"} => taken \in closed
    /\ r.pc = "close" => r.fd \in Fds /\ fdt[r.fd] = taken /\ client_fd = None
    /\ r.pc = "done" => client_fd = None /\ NoConns
    /\ r.pc = "never" => client_fd \in Fds /\ fdt[client_fd] = taken

\* Every connection but the newest is wound up.
OthersWoundUp ==
    /\ \A c \in Conns :
          c < made => /\ c \in closed
                      /\ rd[c].pc \in IF acc.pc = "gone" THEN {"gone"} ELSE {"done", "never"}
    /\ made <= taken + 1
    /\ acc.pc \in {"poll", "install", "spawn", "gone"}

\* client_fd, the accept thread and the newest reader agree on the number the
\* newest connection has, as long as there are threads to use it; the one
\* before it has a number only if its reader was never started, and only until
\* the new client is installed.
NewestAgreed ==
    /\ acc.pc = "gone" => \A c \in Conns : rd[c].pc = "gone"
    /\ acc.pc # "gone" =>
          /\ \A c \in Conns :
                c > taken \/ (c = taken /\ acc.pc # "poll") => rd[c].pc = "none"
          /\ \A f \in Fds : fdt[f] \in Conns =>
                fdt[f] = taken \/ (acc.pc = "install" /\ f = client_fd)
    /\ acc.pc \in {"install", "spawn"} =>
          /\ taken = made /\ taken \in Conns
          /\ acc.fd \in Fds /\ fdt[acc.fd] = taken
    /\ acc.pc = "spawn" => client_fd = acc.fd
    /\ acc.pc = "install" =>
          \/ client_fd = None
          \/ client_fd \in Fds /\ fdt[client_fd] \in Conns /\ fdt[client_fd] # taken
    /\ acc.pc = "poll" =>
          IF taken = 0 THEN client_fd = None /\ NoConns ELSE NewestReader(rd[taken])

\* Nothing but the event loop itself closes the numbers of its events.
BatchIntact ==
    /\ \A i \in DOMAIN batch : fdt[batch[i]] = EventFd
    /\ \A i, j \in DOMAIN batch : batch[i] = batch[j] => i = j

TurnsInv ==
    /\ running <=> req.pc \notin {"drop", "join", "ended"}
    /\ running => OthersWoundUp /\ NewestAgreed /\ BatchIntact

LEMMA InitTurns == Init => TurnsInv
<1>. SUFFICES ASSUME Init PROVE TurnsInv
  OBVIOUS
<1>. USE DEF Init
<1>1. OthersWoundUp
  BY DEF OthersWoundUp, Conns
<1>2. NewestAgreed
  BY DEF NewestAgreed, NoConns, Conns, Free
<1>3. BatchIntact
  BY DEF BatchIntact
<1>. QED  BY <1>1, <1>2, <1>3 DEF TurnsInv

\* The readers step one at a time, and while the daemon runs only the newest
\* connection has one that can.
LEMMA OnlyNewestSteps ==
    ASSUME TypeOK, OthersWoundUp, NewestAgreed, NEW c \in Conns,
           rd[c].pc \notin {"none", "never", "done", "gone"}
    PROVE  c = taken /\ c = made /\ acc.pc = "poll" /\ NewestReader(rd[c])
<1>1. taken \in Nat /\ made \in Nat /\ taken <= made /\ c \in Nat
  BY IpcAssumption DEF TypeOK, Conns
<1>2. acc.pc # "gone" /\ ~(c < made)
  BY DEF OthersWoundUp, NewestAgreed
<1>3. ~(c > taken) /\ acc.pc = "poll"
  BY <1>1, <1>2 DEF OthersWoundUp, NewestAgreed
<1>4. c = taken /\ c = made /\ taken # 0
  BY <1>1, <1>2, <1>3 DEF Conns
<1>. QED  BY <1>3, <1>4 DEF NewestAgreed

\* What the invariant says of a state is said of the next one if the threads
\* and the numbers of connections are left alone.
LEMMA TurnsKept ==
    ASSUME TypeOK, OthersWoundUp, NewestAgreed,
           UNCHANGED <<made, taken, rd, acc, client_fd>>, closed \subseteq closed',
           \A f \in Fds : fdt'[f] = fdt[f] \/ (fdt[f] \notin Conns /\ fdt'[f] \notin Conns)
    PROVE  OthersWoundUp' /\ NewestAgreed'
<1>1. OthersWoundUp'
  BY DEF OthersWoundUp
<1>2. \A f \in Fds : (fdt[f] \in Conns \/ fdt'[f] \in Conns) => fdt'[f] = fdt[f]
  OBVIOUS
<1>3. NoConns => NoConns'
  BY DEF NoConns
<1>4. taken \in Conns /\ NewestReader(rd[taken]) => NewestReader(rd[taken])'
  BY <1>2, <1>3 DEF NewestReader
<1>5. taken # 0 => taken \in Conns
  BY IpcAssumption DEF TypeOK, Conns
<1>6. NewestAgreed'
  BY <1>2, <1>3, <1>4, <1>5 DEF NewestAgreed
<1>. QED  BY <1>1, <1>6

LEMMA TurnsGui ==
    ASSUME MaxLive = 1, TypeOK, OthersWoundUp, NewestAgreed, BatchIntact,
           Connect \/ (\E c \in Conns : Gui(c)) \/ UNCHANGED vars
    PROVE  OthersWoundUp' /\ NewestAgreed' /\ BatchIntact'
<1>1. BatchIntact'
  <2>1. UNCHANGED <<fdt, batch>>
    BY DEF Connect, Gui, GuiCloses, GuiReads, GuiAnswers, vars
  <2>. QED  BY <2>1 DEF BatchIntact
<1>2. CASE (\E c \in Conns : Gui(c)) \/ UNCHANGED vars
  <2>1. /\ UNCHANGED <<made, taken, rd, acc, client_fd, fdt>>
        /\ closed \subseteq closed'
    BY <1>2 DEF Gui, GuiCloses, GuiReads, GuiAnswers, vars
  <2>. QED  BY <1>1, <2>1, TurnsKept
<1>3. CASE Connect
  <2>. DEFINE Live == {c \in 1 .. made : ~WoundUp(c)}
  <2>1. made \in Nat /\ taken \in Nat /\ made <= NConns /\ taken <= made
    BY IpcAssumption DEF TypeOK
  <2>2. Live = {}
    <3>1. IsFiniteSet(Live) /\ Cardinality(Live) \in Nat
      BY <2>1, PartsFinite
    <3>2. Cardinality(Live) < 1
      BY <1>3 DEF Connect
    <3>3. Cardinality(Live) = 0
      BY <3>1, <3>2
    <3>. QED  BY <3>1, <3>3, FS_EmptySet
  <2>3. \A c \in Conns : c <= made => c \in closed /\ rd[c].pc \in {"done", "never"}
    BY <2>1, <2>2 DEF WoundUp, Conns
  <2>4. made # 0 => made \in Conns /\ rd[made].pc \in {"done", "never"}
    BY <2>1, <2>3 DEF Conns
  <2>5. made = 0 \/ (taken = made /\ acc.pc = "poll")
    BY <2>1, <2>4 DEF NewestAgreed, OthersWoundUp
  <2>6. /\ made' = made + 1
        /\ UNCHANGED <<taken, rd, acc, client_fd, fdt, closed>>
    BY <1>3 DEF Connect
  <2>7. acc.pc = "gone" => made = 0
    BY <2>5
  <2>8. OthersWoundUp'
    BY <2>1, <2>3, <2>5, <2>6, <2>7 DEF OthersWoundUp, Conns
  <2>9. acc.pc \in {"install", "spawn"} => FALSE
    BY <2>1, <2>5 DEF NewestAgreed, Conns
  <2>10. NewestAgreed'
    BY <2>6, <2>9 DEF NewestAgreed, NewestReader, NoConns
  <2>. QED  BY <1>1, <2>8, <2>10
<1>. QED  BY <1>2, <1>3

LEMMA TurnsAccept ==
    ASSUME TypeOK, DescInv, OthersWoundUp, NewestAgreed, BatchIntact, running, AcceptThread
    PROVE  OthersWoundUp' /\ NewestAgreed' /\ BatchIntact'
<1>0. taken \in Nat /\ made \in Nat /\ taken <= made /\ made <= NConns /\ NConns \in Nat
  BY IpcAssumption DEF TypeOK
<1>1. CASE AcceptConn
  <2>1. PICK f \in Fds : /\ fdt[f] = Free
                         /\ fdt' = [fdt EXCEPT ![f] = taken + 1]
                         /\ acc' = [pc |-> "install", fd |-> f]
    BY <1>1, AcceptConnDoes
  <2>2. /\ taken' = taken + 1 /\ taken < made /\ acc.pc = "poll"
        /\ UNCHANGED <<made, closed, rd, client_fd, batch>>
    BY <1>1 DEF AcceptConn, guiVars
  <2>3. made = taken + 1
    BY <1>0, <2>2 DEF OthersWoundUp
  <2>4. \/ client_fd = None /\ NoConns
        \/ /\ client_fd \in Fds /\ taken \in Conns /\ fdt[client_fd] = taken
           /\ \A g \in Fds : fdt[g] \in Conns => g = client_fd
    <3>1. CASE taken # 0
      <4>1. taken \in Conns /\ rd[taken].pc \in {"done", "never"}
        BY <1>0, <2>2, <3>1 DEF OthersWoundUp, Conns
      <4>2. NewestReader(rd[taken]) /\ \A g \in Fds : fdt[g] \in Conns => fdt[g] = taken
        BY <2>2, <3>1 DEF NewestAgreed
      <4>. QED  BY <4>1, <4>2 DEF NewestReader, DescInv, Numbering
    <3>. QED  BY <2>2, <3>1 DEF NewestAgreed
  <2>5. fdt'[f] = taken + 1 /\ \A g \in Fds : g # f => fdt'[g] = fdt[g]
    BY <2>1 DEF TypeOK
  <2>6. acc'.pc = "install" /\ acc'.fd = f
    BY <2>1
  <2>7. OthersWoundUp'
    BY <1>0, <2>2, <2>3, <2>6 DEF OthersWoundUp
  <2>8. \A c \in Conns : c > taken => rd[c].pc = "none"
    BY <2>2 DEF NewestAgreed
  <2>9. NewestAgreed'
    <3>1. taken' = made' /\ taken' \in Conns /\ acc'.fd \in Fds /\ fdt'[acc'.fd] = taken'
      BY <1>0, <2>2, <2>3, <2>5, <2>6 DEF Conns
    <3>2. \A g \in Fds : fdt'[g] \in Conns => fdt'[g] = taken' \/ g = client_fd
      BY <2>2, <2>4, <2>5 DEF NoConns
    <3>4. \/ client_fd = None
          \/ client_fd \in Fds /\ fdt'[client_fd] \in Conns /\ fdt'[client_fd] # taken'
      <4>1. CASE client_fd \in Fds /\ taken \in Conns /\ fdt[client_fd] = taken
        <5>1. client_fd # f /\ taken # taken'
          BY <1>0, <2>1, <2>2, <4>1 DEF Free, Conns
        <5>. QED  BY <2>5, <4>1, <5>1
      <4>. QED  BY <2>4, <4>1
    <3>3. \A c \in Conns : c > taken' \/ c = taken' => rd'[c].pc = "none"
      BY <1>0, <2>2, <2>8 DEF Conns
    <3>. QED  BY <2>2, <2>6, <3>1, <3>2, <3>3, <3>4 DEF NewestAgreed
  <2>10. BatchIntact'
    <3>1. \A i \in DOMAIN batch : batch[i] \in Fds /\ batch[i] # f
      BY <2>1 DEF BatchIntact, TypeOK, Free, EventFd
    <3>. QED  BY <2>2, <2>5, <3>1 DEF BatchIntact
  <2>. QED  BY <2>7, <2>9, <2>10
<1>2. CASE AcceptInstall
  <2>1. /\ acc.pc = "install"
        /\ \/ client_fd = None
           \/ client_fd \in Fds /\ fdt[client_fd] \in Conns /\ fdt[client_fd] # taken
    BY <1>2 DEF AcceptInstall, NewestAgreed
  <2>2. acc'.pc = "spawn" /\ acc'.fd = acc.fd
    BY <1>2 DEF AcceptInstall, TypeOK, AcceptStates
  <2>3. client_fd' = acc.fd /\ UNCHANGED <<made, taken, closed, rd, batch>>
    BY <1>2, <2>1 DEF AcceptInstall, guiVars
  <2>4. OthersWoundUp'
    BY <2>1, <2>2, <2>3 DEF OthersWoundUp
  <2>5. \A f \in Fds : fdt'[f] = IF f = client_fd THEN Free ELSE fdt[f]
    <3>1. None \notin Fds
      BY IpcAssumption DEF Fds, None
    <3>. QED  BY <1>2, <3>1 DEF AcceptInstall, Closing, TypeOK
  <2>6. /\ taken = made /\ taken \in Conns /\ acc.fd \in Fds /\ fdt[acc.fd] = taken
        /\ acc.fd # client_fd
    <3>1. taken = made /\ taken \in Conns /\ acc.fd \in Fds /\ fdt[acc.fd] = taken
      BY <2>1 DEF NewestAgreed
    <3>2. None \notin Fds
      BY IpcAssumption DEF Fds, None
    <3>. QED  BY <2>1, <3>1, <3>2
  <2>7. \A f \in Fds : fdt'[f] \in Conns => fdt'[f] = taken
    BY <2>1, <2>5 DEF NewestAgreed, Free, Conns
  <2>8. \A c \in Conns : c > taken \/ c = taken => rd[c].pc = "none"
    BY <2>1 DEF NewestAgreed
  <2>9. NewestAgreed'
    BY <2>2, <2>3, <2>5, <2>6, <2>7, <2>8 DEF NewestAgreed
  <2>10. BatchIntact'
    <3>1. \A i \in DOMAIN batch : batch[i] \in Fds /\ batch[i] # client_fd
      BY <2>1, IpcAssumption DEF BatchIntact, TypeOK, EventFd, Conns, None, Fds
    <3>. QED  BY <2>3, <2>5, <3>1 DEF BatchIntact
  <2>. QED  BY <2>4, <2>9, <2>10
<1>3. CASE AcceptSpawn
  <2>1. /\ acc.pc = "spawn" /\ acc'.pc = "poll"
        /\ UNCHANGED <<fdt, made, taken, closed, client_fd, batch>>
    BY <1>3 DEF AcceptSpawn, guiVars
  <2>2. /\ taken = made /\ taken \in Conns /\ acc.fd \in Fds /\ fdt[acc.fd] = taken
        /\ client_fd = acc.fd
    BY <2>1 DEF NewestAgreed
  <2>3. /\ \/ rd'[taken].pc = "loop" /\ rd'[taken].fd = acc.fd
           \/ rd'[taken].pc = "never"
        /\ \A c \in Conns : c # taken => rd'[c] = rd[c]
    BY <1>3, <2>2 DEF AcceptSpawn, TypeOK, ReaderStates
  <2>4. OthersWoundUp'
    BY <1>0, <2>1, <2>2, <2>3 DEF OthersWoundUp, Conns
  <2>5. NewestReader(rd[taken])'
    BY <2>1, <2>2, <2>3 DEF NewestReader
  <2>6. \A c \in Conns : c > taken => rd'[c].pc = "none"
    BY <1>0, <2>1, <2>3 DEF NewestAgreed, Conns
  <2>7. NewestAgreed'
    <3>1. taken # 0
      BY <2>2 DEF Conns
    <3>2. \A f \in Fds : fdt[f] \in Conns => fdt[f] = taken
      BY <2>1 DEF NewestAgreed
    <3>. QED  BY <2>1, <2>5, <2>6, <3>1, <3>2 DEF NewestAgreed
  <2>. QED  BY <2>1, <2>4, <2>7 DEF BatchIntact
<1>4. CASE AcceptLeaves
  BY <1>4 DEF AcceptLeaves
<1>. QED  BY <1>1, <1>2, <1>3, <1>4 DEF AcceptThread

LEMMA TurnsReader ==
    ASSUME TypeOK, DescInv, OthersWoundUp, NewestAgreed, BatchIntact, running,
           NEW c \in Conns, ReaderThread(c)
    PROVE  OthersWoundUp' /\ NewestAgreed' /\ BatchIntact'
<1>1. rd[c].pc \notin {"none", "never", "done", "gone"}
  BY DEF ReaderThread, ReaderReads, ReaderLeaves, ReaderTakes, ReaderEof, ReaderClears,
         ReaderCloses, ReaderFinds, ReaderCompletes
<1>2. c = taken /\ c = made /\ acc.pc = "poll" /\ NewestReader(rd[c])
  BY <1>1, OnlyNewestSteps
<1>3. UNCHANGED <<made, taken, closed, acc, batch>>
  BY DEF ReaderThread, ReaderReads, ReaderLeaves, ReaderTakes, ReaderEof, ReaderClears,
         ReaderCloses, ReaderFinds, ReaderCompletes, guiVars
<1>4. DOMAIN rd = Conns /\ \A d \in Conns : DOMAIN rd[d] = {"pc", "fd", "on", "msg"}
  BY DEF TypeOK, ReaderStates
<1>5. \A d \in Conns : d # c => rd'[d] = rd[d]
  BY <1>4, OtherReaders
<1>6. \A f \in Fds : \/ fdt'[f] = fdt[f]
                     \/ f = rd[c].fd /\ fdt'[f] = Free /\ rd[c].pc = "close"
  BY DEF ReaderThread, ReaderReads, ReaderLeaves, ReaderTakes, ReaderEof, ReaderClears,
         ReaderCloses, ReaderFinds, ReaderCompletes, Closing, TypeOK
<1>7. OthersWoundUp'
  <2>1. \A d \in Conns : d < made => d # c
    BY <1>2 DEF Conns
  <2>. QED  BY <1>3, <1>5, <2>1 DEF OthersWoundUp
<1>8. BatchIntact'
  <2>1. \A i \in DOMAIN batch : batch[i] \in Fds /\ fdt'[batch[i]] = EventFd
    <3>1. \A i \in DOMAIN batch : batch[i] \in Fds /\ fdt[batch[i]] = EventFd
      BY DEF BatchIntact, TypeOK
    <3>2. rd[c].pc = "close" => fdt[rd[c].fd] # EventFd
      BY <1>2 DEF NewestReader, Conns, EventFd
    <3>. QED  BY <1>6, <3>1, <3>2
  <2>. QED  BY <1>3, <2>1 DEF BatchIntact
<1>9. NewestReader(rd[c])'
  <2>1. CASE ReaderReads(c)
    <3>1. rd[c].pc = "loop" /\ fdt[rd[c].fd] = c /\ UNCHANGED <<fdt, client_fd>>
      BY <1>2, <2>1 DEF ReaderReads, NewestReader
    <3>2. rd'[c].pc = "read" /\ rd'[c].on = c /\ rd'[c].fd = rd[c].fd
      <4>1. c \in Conns /\ c # EventFd
        BY DEF Conns, EventFd
      <4>. QED  BY <1>4, <2>1, <3>1, <4>1 DEF ReaderReads
    <3>. QED  BY <1>2, <1>3, <3>1, <3>2 DEF NewestReader
  <2>2. CASE ReaderLeaves(c)
    BY <2>2 DEF ReaderLeaves
  <2>3. CASE ReaderTakes(c)
    <3>1. rd[c].pc = "read"
      BY <2>3 DEF ReaderTakes
    <3>2. rd'[c].pc \in {"answer", "loop"} /\ rd'[c].fd = rd[c].fd
      BY <1>4, <2>3, TakesMoves
    <3>3. UNCHANGED <<fdt, client_fd>>
      BY <2>3 DEF ReaderTakes
    <3>. QED  BY <1>2, <1>3, <3>1, <3>2, <3>3 DEF NewestReader
  <2>4. CASE ReaderEof(c)
    <3>1. /\ rd[c].pc = "read" /\ rd[c].on \in closed /\ UNCHANGED <<fdt, client_fd>>
          /\ rd'[c].pc = "eof" /\ rd'[c].fd = rd[c].fd
      BY <1>4, <2>4 DEF ReaderEof, Step
    <3>. QED  BY <1>2, <1>3, <3>1 DEF NewestReader
  <2>5. CASE ReaderClears(c)
    <3>1. rd[c].pc = "eof" /\ rd'[c].pc = "close" /\ rd'[c].fd = rd[c].fd /\ UNCHANGED fdt
      BY <1>4, <2>5 DEF ReaderClears, Step
    <3>2. client_fd' = None
      BY <1>2, <2>5, <3>1 DEF ReaderClears, NewestReader
    <3>. QED  BY <1>2, <1>3, <3>1, <3>2 DEF NewestReader
  <2>6. CASE ReaderCloses(c)
    <3>1. rd[c].pc = "close" /\ rd'[c].pc = "done" /\ UNCHANGED client_fd
      BY <1>4, <2>6 DEF ReaderCloses, Step
    <3>2. rd[c].fd \in Fds /\ fdt[rd[c].fd] = c /\ client_fd = None /\ c \in closed
      BY <1>2, <3>1 DEF NewestReader
    <3>3. fdt' = [fdt EXCEPT ![rd[c].fd] = Free]
      BY <2>6 DEF ReaderCloses, Closing
    <3>4. \A f \in Fds : fdt[f] \in Conns => f = rd[c].fd
      BY <1>2, <3>2 DEF NewestAgreed, DescInv, Numbering
    <3>5. NoConns'
      BY <3>3, <3>4 DEF NoConns, TypeOK, Free, Conns
    <3>. QED  BY <1>2, <1>3, <3>1, <3>2, <3>5 DEF NewestReader
  <2>7. CASE ReaderFinds(c) \/ ReaderCompletes(c)
    <3>1. /\ rd[c].pc \in {"answer", "match"} /\ UNCHANGED <<fdt, client_fd>>
          /\ rd'[c].pc \in {"match", "loop"} /\ rd'[c].fd = rd[c].fd
      BY <1>4, <2>7 DEF ReaderFinds, ReaderCompletes, Step
    <3>. QED  BY <1>2, <1>3, <3>1 DEF NewestReader
  <2>. QED  BY <2>1, <2>2, <2>3, <2>4, <2>5, <2>6, <2>7 DEF ReaderThread
<1>10. NewestAgreed'
  <2>1. \A d \in Conns : d > taken => rd'[d].pc = "none"
    BY <1>2, <1>5 DEF NewestAgreed, Conns
  <2>2. \A f \in Fds : fdt'[f] \in Conns => fdt'[f] = taken
    BY <1>2, <1>6 DEF NewestAgreed, Free, Conns
  <2>3. c # 0
    BY DEF Conns
  <2>. QED  BY <1>2, <1>3, <1>9, <2>1, <2>2, <2>3 DEF NewestAgreed
<1>. QED  BY <1>7, <1>8, <1>10

LEMMA TurnsMain ==
    ASSUME TypeOK, DescInv, OthersWoundUp, NewestAgreed, BatchIntact, MainThread,
           req.pc \notin {"drop", "join"}
    PROVE  OthersWoundUp' /\ NewestAgreed' /\ BatchIntact'
<1>1. CASE EnterLoop
  <2>1. UNCHANGED <<fdt, batch, made, taken, closed, client_fd>>
    BY <1>1 DEF EnterLoop, guiVars
  <2>2. CASE UNCHANGED <<acc, rd>>
    BY <2>1, <2>2, TurnsKept DEF BatchIntact
  <2>3. CASE /\ acc' = [acc EXCEPT !.pc = "gone"]
             /\ rd' = [c \in Conns |-> [rd[c] EXCEPT !.pc = "gone"]]
    <3>1. acc'.pc = "gone" /\ \A c \in Conns : rd'[c].pc = "gone"
      BY <2>3 DEF TypeOK, AcceptStates, ReaderStates
    <3>. QED  BY <2>1, <3>1 DEF OthersWoundUp, NewestAgreed, BatchIntact
  <2>. QED  BY <1>1, <2>2, <2>3 DEF EnterLoop
<1>2. CASE ReadEvents
  <2>1. PICK n \in 1 .. BatchSize :
              /\ batch' \in [1 .. n -> Fds]
              /\ \A i \in 1 .. n : fdt[batch'[i]] = Free
              /\ \A i, j \in 1 .. n : batch'[i] = batch'[j] => i = j
              /\ fdt' = [f \in Fds |-> IF \E i \in 1 .. n : batch'[i] = f
                                       THEN EventFd ELSE fdt[f]]
    BY <1>2, ReadEventsDoes
  <2>2. UNCHANGED <<made, taken, closed, rd, acc, client_fd>>
    BY <1>2 DEF ReadEvents, guiVars
  <2>3. \A f \in Fds : fdt'[f] = fdt[f] \/ (fdt[f] \notin Conns /\ fdt'[f] \notin Conns)
    BY <2>1 DEF Free, EventFd, Conns
  <2>4. BatchIntact'
    BY <2>1 DEF BatchIntact
  <2>. QED  BY <2>2, <2>3, <2>4, TurnsKept
<1>3. CASE CloseEvent
  <2>1. batch # <<>> /\ batch \in Seq(Fds)
    BY <1>3 DEF CloseEvent, DescInv, EventsLeft, Held, TypeOK
  <2>2. /\ fdt' = [fdt EXCEPT ![batch[1]] = Free] /\ batch' = Tail(batch)
        /\ UNCHANGED <<made, taken, closed, rd, acc, client_fd>>
    BY <1>3, <2>1 DEF CloseEvent, Closing, guiVars
  <2>3. 1 \in DOMAIN batch /\ batch[1] \in Fds /\ fdt[batch[1]] = EventFd
    BY <2>1 DEF BatchIntact
  <2>4. /\ fdt'[batch[1]] = Free
        /\ \A f \in Fds : f # batch[1] => fdt'[f] = fdt[f]
    BY <2>2, <2>3 DEF TypeOK
  <2>5. \A i \in DOMAIN batch' : /\ i \in Nat /\ i + 1 \in DOMAIN batch /\ i + 1 # 1
                                 /\ batch'[i] = batch[i + 1] /\ batch[i + 1] \in Fds
    BY <2>1, <2>2
  <2>6. \A i \in DOMAIN batch' : batch'[i] # batch[1]
    BY <2>3, <2>5 DEF BatchIntact
  <2>7. BatchIntact'
    <3>1. \A i \in DOMAIN batch' : fdt'[batch'[i]] = EventFd
      BY <2>4, <2>5, <2>6 DEF BatchIntact
    <3>2. ASSUME NEW i \in DOMAIN batch', NEW j \in DOMAIN batch', batch'[i] = batch'[j]
          PROVE  i = j
      <4>1. i + 1 = j + 1
        BY <2>5, <3>2 DEF BatchIntact
      <4>. QED  BY <2>5, <4>1
    <3>. QED  BY <3>1, <3>2 DEF BatchIntact
  <2>8. \A f \in Fds : fdt'[f] = fdt[f] \/ (fdt[f] \notin Conns /\ fdt'[f] \notin Conns)
    BY <2>3, <2>4 DEF Free, EventFd, Conns
  <2>. QED  BY <2>2, <2>7, <2>8, TurnsKept
<1>4. CASE HashEvent \/ HashClosed \/ HashConn \/ ElfReads \/ Snapshot \/ Allocate
           \/ BeginWrite \/ Send \/ Wake \/ Cleanup \/ Shutdown
  <2>1. UNCHANGED <<made, taken, closed, rd, acc, client_fd, fdt, batch>>
    BY <1>4 DEF HashEvent, HashClosed, HashConn, ElfReads, Snapshot, Allocate, BeginWrite, Send,
                Wake, Cleanup, Shutdown, guiVars
  <2>. QED  BY <2>1, TurnsKept DEF BatchIntact
<1>5. CASE DropClient \/ JoinAccept
  BY <1>5 DEF DropClient, JoinAccept
<1>. QED  BY <1>1, <1>2, <1>3, <1>4, <1>5 DEF MainThread, Request

\* running goes with the event-loop thread.
LEMMA RunningStep ==
    ASSUME TypeOK, running <=> req.pc \notin {"drop", "join", "ended"}, [Next]_vars
    PROVE  /\ running' <=> req'.pc \notin {"drop", "join", "ended"}
           /\ running' => running
<1>0. DOMAIN req = {"pc", "fd", "on", "id", "result"} /\ {running, running'} \subseteq BOOLEAN
  <2>1. running \in BOOLEAN /\ DOMAIN req = {"pc", "fd", "on", "id", "result"}
    BY DEF TypeOK, CallStates
  <2>2. running' = running \/ running' = FALSE
    BY DEF Next, Connect, Gui, GuiCloses, GuiReads, GuiAnswers, AcceptThread, AcceptConn,
           AcceptInstall, AcceptSpawn, AcceptLeaves, ReaderThread, ReaderReads,
           ReaderLeaves, ReaderTakes, ReaderEof, ReaderClears, ReaderCloses, ReaderFinds,
           ReaderCompletes, MainThread, EnterLoop, ReadEvents, Request, HashEvent,
           HashClosed, HashConn, ElfReads, Snapshot, Allocate, BeginWrite, Send, Wake, Cleanup,
           CloseEvent, Shutdown, DropClient, JoinAccept, vars
  <2>. QED  BY <2>1, <2>2
<1>1. CASE MainThread
  <2>1. CASE Shutdown
    BY <1>0, <2>1 DEF Shutdown
  <2>2. CASE DropClient \/ JoinAccept
    BY <1>0, <2>2 DEF DropClient, JoinAccept
  <2>3. CASE EnterLoop \/ ReadEvents \/ Request
    BY <1>0, <2>3 DEF EnterLoop, ReadEvents, Request, HashEvent, HashClosed, HashConn, ElfReads,
                      Snapshot, Allocate, BeginWrite, Send, Wake, Cleanup, CloseEvent, Return
  <2>. QED  BY <1>1, <2>1, <2>2, <2>3 DEF MainThread
<1>2. CASE \/ Connect
           \/ \E c \in Conns : Gui(c)
           \/ AcceptThread
           \/ \E c \in Conns : ReaderThread(c)
           \/ UNCHANGED vars
  <2>1. UNCHANGED <<req, running>>
    BY <1>2 DEF Connect, Gui, GuiCloses, GuiReads, GuiAnswers, AcceptThread, AcceptConn,
                AcceptInstall, AcceptSpawn, AcceptLeaves, ReaderThread, ReaderReads,
                ReaderLeaves, ReaderTakes, ReaderEof, ReaderClears, ReaderCloses,
                ReaderFinds, ReaderCompletes, vars
  <2>. QED  BY <2>1
<1>. QED  BY <1>1, <1>2 DEF Next

LEMMA TurnsStep ==
    ASSUME MaxLive = 1, TypeOK, DescInv, TurnsInv, [Next]_vars
    PROVE  TurnsInv'
<1>1. (running' <=> req'.pc \notin {"drop", "join", "ended"}) /\ (running' => running)
  BY RunningStep DEF TurnsInv
<1>2. ASSUME running'
      PROVE  OthersWoundUp' /\ NewestAgreed' /\ BatchIntact'
  <2>1. running /\ OthersWoundUp /\ NewestAgreed /\ BatchIntact
    BY <1>1, <1>2 DEF TurnsInv
  <2>2. req.pc \notin {"drop", "join"}
    BY <2>1 DEF TurnsInv
  <2>. QED  BY <2>1, <2>2, TurnsGui, TurnsAccept, TurnsReader, TurnsMain DEF Next
<1>. QED  BY <1>1, <1>2 DEF TurnsInv

LEMMA TurnsInvariant == ASSUME MaxLive = 1 PROVE Spec => [](TypeOK /\ DescInv /\ TurnsInv)
<1>1. TypeOK /\ DescInv /\ TurnsInv /\ [Next]_vars => TurnsInv'
  BY TurnsStep
<1>. QED  BY InitTurns, TypesInvariant, <1>1, PTL DEF Spec

LEMMA InHand ==
    ASSUME TypeOK, DescInv, TurnsInv, req.pc = "hash"
    PROVE  fdt[Head(batch)] = EventFd
<1>1. batch \in Seq(Fds) /\ batch # <<>>
  BY DEF TypeOK, DescInv, EventsLeft, Held
<1>2. BatchIntact
  BY DEF TurnsInv
<1>. QED  BY <1>1, <1>2 DEF BatchIntact

\* If GUIs take turns, the event in hand is hashed through the descriptor the
\* kernel gave for it.
THEOREM EventsKeepTheirNumbers == ASSUME MaxLive = 1 PROVE Spec => []EventDescriptorIntact
<1>1. TypeOK /\ DescInv /\ TurnsInv => EventDescriptorIntact
  BY InHand DEF EventDescriptorIntact
<1>. QED  BY <1>1, TurnsInvariant, PTL

-----------------------------------------------------------------------------
(* The call and its abstract specification.                                *)

LEMMA RangeAppend ==
    ASSUME NEW S, NEW s \in Seq(S), NEW x \in S
    PROVE  Range(Append(s, x)) = Range(s) \cup {x}
<1>1. /\ DOMAIN s = 1 .. Len(s) /\ Len(s) \in Nat
      /\ DOMAIN Append(s, x) = 1 .. Len(s) + 1
      /\ \A i \in 1 .. Len(s) : Append(s, x)[i] = s[i]
      /\ Append(s, x)[Len(s) + 1] = x
  OBVIOUS
<1>2. \A i \in 1 .. Len(s) + 1 : i = Len(s) + 1 \/ i \in 1 .. Len(s)
  BY <1>1
<1>. QED  BY <1>1, <1>2 DEF Range

LEMMA RangeHeadTail ==
    ASSUME NEW S, NEW s \in Seq(S), s # <<>>
    PROVE  Range(s) = {Head(s)} \cup Range(Tail(s))
<1>1. /\ DOMAIN s = 1 .. Len(s) /\ Len(s) \in Nat /\ Len(s) # 0 /\ Head(s) = s[1]
      /\ DOMAIN Tail(s) = 1 .. Len(s) - 1
      /\ \A i \in 1 .. Len(s) - 1 : Tail(s)[i] = s[i + 1]
  OBVIOUS
<1>2. ASSUME NEW x \in Range(s)
      PROVE  x = Head(s) \/ x \in Range(Tail(s))
  <2>1. PICK i \in 1 .. Len(s) : x = s[i]
    BY <1>1 DEF Range
  <2>2. CASE i = 1
    BY <1>1, <2>1, <2>2
  <2>3. CASE i # 1
    <3>1. i - 1 \in 1 .. Len(s) - 1 /\ (i - 1) + 1 = i
      BY <1>1, <2>3
    <3>. QED  BY <1>1, <2>1, <3>1 DEF Range
  <2>. QED  BY <2>2, <2>3
<1>3. ASSUME NEW x \in Range(Tail(s))
      PROVE  x \in Range(s)
  <2>1. PICK i \in 1 .. Len(s) - 1 : x = s[i + 1]
    BY <1>1 DEF Range
  <2>2. i + 1 \in 1 .. Len(s)
    BY <1>1
  <2>. QED  BY <1>1, <2>1, <2>2 DEF Range
<1>4. Head(s) \in Range(s)
  <2>1. 1 \in 1 .. Len(s)
    BY <1>1
  <2>. QED  BY <1>1, <2>1 DEF Range
<1>. QED  BY <1>2, <1>3, <1>4

LEMMA RangeRest ==
    ASSUME NEW S, NEW x, NEW s \in Seq(S)
    PROVE  Range(<<x>> \o s) = {x} \cup Range(s)
<1>. DEFINE q == <<x>> \o s
<1>1. s \in Seq(S \cup {x}) /\ <<x>> \in Seq(S \cup {x})
  OBVIOUS
<1>2. q \in Seq(S \cup {x}) /\ Len(q) = 1 + Len(s) /\ Len(s) \in Nat
  BY <1>1
<1>3. q # <<>> /\ Head(q) = x /\ Tail(q) = s
  BY <1>1
<1>. HIDE DEF q
<1>4. Range(q) = {Head(q)} \cup Range(Tail(q))
  BY <1>2, <1>3, RangeHeadTail
<1>. QED  BY <1>3, <1>4 DEF q

\* No answer has lost its first half, and none is about to.
Unmixed == req.pc # "elf" /\ \A c \in Conns : HalfMessage \notin Range(toDaemon[c])

\* What a reader takes for an answer is one, or matches no request.
Unmistaken == Stray = {} \/ (TurnsInv /\ Unmixed)

LEMMA UnmixedStep ==
    ASSUME TypeOK, DescInv, TurnsInv, Unmixed, [Next]_vars
    PROVE  Unmixed'
<1>0. /\ DOMAIN toDaemon = Conns /\ \A c \in Conns : toDaemon[c] \in Seq(Messages)
      /\ DOMAIN req = {"pc", "fd", "on", "id", "result"}
  BY DEF TypeOK, CallStates, Messages
<1>1. CASE MainThread
  <2>1. ~HashConn
    BY InHand DEF HashConn, EventFd, Conns
  <2>2. ~ElfReads
    BY DEF ElfReads, Unmixed
  <2>3. UNCHANGED toDaemon /\ req'.pc # "elf"
    BY <1>0, <1>1, <2>1, <2>2 DEF MainThread, Request, EnterLoop, ReadEvents, HashEvent,
              HashClosed, Snapshot, Allocate, BeginWrite, Send, Wake, Cleanup, CloseEvent,
              Shutdown, DropClient, JoinAccept, Return, wireVars
  <2>. QED  BY <2>3 DEF Unmixed
<1>2. ASSUME NEW c \in Conns, NEW id \in Ids, GuiAnswers(c, id)
      PROVE  Unmixed'
  <2>1. Range(Append(toDaemon[c], id)) = Range(toDaemon[c]) \cup {id}
    BY <1>0, RangeAppend DEF Messages
  <2>2. id # HalfMessage
    BY DEF Ids, HalfMessage
  <2>3. /\ UNCHANGED req /\ toDaemon'[c] = Append(toDaemon[c], id)
        /\ \A d \in Conns : d # c => toDaemon'[d] = toDaemon[d]
    BY <1>0, <1>2 DEF GuiAnswers
  <2>. QED  BY <2>1, <2>2, <2>3 DEF Unmixed
<1>3. ASSUME NEW c \in Conns, ReaderTakes(c)
      PROVE  Unmixed'
  <2>. DEFINE on == rd[c].on
              q == toDaemon[on]
  <2>1. on \in Conns /\ q \in Seq(Messages) /\ q # <<>> /\ UNCHANGED req
    BY <1>0, <1>3 DEF ReaderTakes, DescInv, ReaderTypes
  <2>2. Range(q) = {Head(q)} \cup Range(Tail(q))
    BY <2>1, RangeHeadTail
  <2>3. Head(q) # HalfMessage
    BY <2>1, <2>2 DEF Unmixed
  <2>4. toDaemon' = [toDaemon EXCEPT ![on] = Tail(q)]
    BY <1>3, <2>3 DEF ReaderTakes
  <2>5. toDaemon'[on] = Tail(q) /\ \A d \in Conns : d # on => toDaemon'[d] = toDaemon[d]
    BY <1>0, <2>1, <2>4
  <2>. QED  BY <2>1, <2>2, <2>5 DEF Unmixed
<1>4. CASE \/ Connect
           \/ \E c \in Conns : GuiCloses(c) \/ GuiReads(c)
           \/ AcceptThread
           \/ \E c \in Conns : ReaderThread(c) /\ ~ReaderTakes(c)
           \/ UNCHANGED vars
  <2>1. UNCHANGED <<req, toDaemon>>
    BY <1>4 DEF Connect, GuiCloses, GuiReads, AcceptThread, AcceptConn, AcceptInstall,
                AcceptSpawn, AcceptLeaves, ReaderThread, ReaderReads, ReaderLeaves,
                ReaderEof, ReaderClears, ReaderCloses, ReaderFinds, ReaderCompletes, vars,
                wireVars
  <2>. QED  BY <2>1 DEF Unmixed
<1>. QED  BY <1>1, <1>2, <1>3, <1>4 DEF Next, Gui

LEMMA UnmistakenInvariant ==
    ASSUME MaxLive = 1 \/ Stray = {}
    PROVE  Spec => []Unmistaken
<1>1. CASE MaxLive = 1
  <2>1. Init => Unmixed
    BY DEF Init, Unmixed, Range
  <2>2. TypeOK /\ DescInv /\ TurnsInv /\ Unmixed /\ [Next]_vars => Unmixed'
    BY UnmixedStep
  <2>3. Spec => [](TypeOK /\ DescInv /\ TurnsInv)
    BY <1>1, TurnsInvariant
  <2>4. TurnsInv /\ Unmixed => Unmistaken
    BY DEF Unmistaken
  <2>. QED  BY <2>1, <2>2, <2>3, <2>4, PTL DEF Spec
<1>2. CASE Stray = {}
  <2>1. Unmistaken
    BY <1>2 DEF Unmistaken
  <2>. QED  BY <2>1, PTL
<1>. QED  BY <1>1, <1>2

\* A reader hears what the GUI sent on its connection, or the id of no request.
LEMMA HearsTheGui ==
    ASSUME TypeOK, DescInv, Unmistaken, NEW c \in Conns, ReaderReads(c) \/ ReaderTakes(c),
           rd'[c].pc = "answer"
    PROVE  rd'[c].msg = 0 \/ \E d \in Conns : rd'[c].msg \in Range(toDaemon[d])
<1>0. DOMAIN rd = Conns /\ DOMAIN rd[c] = {"pc", "fd", "on", "msg"}
  BY DEF TypeOK, ReaderStates
<1>1. ASSUME NEW id, Heard(c, id)
      PROVE  rd'[c].msg = id
  BY <1>0, <1>1 DEF Heard
<1>2. CASE ReaderReads(c)
  <2>1. \E id \in Stray \cup {0} : fdt[rd[c].fd] = EventFd /\ Heard(c, id)
    BY <1>0, <1>2 DEF ReaderReads, Step
  <2>2. ~(TurnsInv /\ fdt[rd[c].fd] = EventFd)
    <3>. SUFFICES ASSUME TurnsInv
                  PROVE  fdt[rd[c].fd] # EventFd
      OBVIOUS
    <3>1. running /\ rd[c].pc = "loop"
      BY <1>2 DEF ReaderReads
    <3>2. c = taken /\ NewestReader(rd[c])
      BY <3>1, OnlyNewestSteps DEF TurnsInv
    <3>3. fdt[rd[c].fd] = c
      BY <3>1, <3>2 DEF NewestReader
    <3>. QED  BY <3>3 DEF Conns, EventFd
  <2>. QED  BY <1>1, <2>1, <2>2 DEF Unmistaken
<1>3. CASE ReaderTakes(c)
  <2>. DEFINE on == rd[c].on
              q == toDaemon[on]
  <2>1. on \in Conns /\ q \in Seq(Messages) /\ q # <<>>
    BY <1>3 DEF TypeOK, ReaderTakes, DescInv, ReaderTypes, Messages
  <2>2. Range(q) = {Head(q)} \cup Range(Tail(q))
    BY <2>1, RangeHeadTail
  <2>3. CASE Head(q) # HalfMessage
    <3>1. PICK id : id = Head(q)
      OBVIOUS
    <3>2. Heard(c, id)
      BY <1>3, <2>3, <3>1 DEF ReaderTakes
    <3>. QED  BY <1>1, <2>1, <2>2, <3>1, <3>2
  <2>4. CASE Head(q) = HalfMessage
    <3>1. Stray = {}
      BY <2>1, <2>2, <2>4 DEF Unmistaken, Unmixed
    <3>2. ~Step(c, "loop")
      BY <1>0 DEF Step
    <3>3. \E id \in Stray \cup {0} : Heard(c, id)
      BY <1>3, <2>4, <3>2 DEF ReaderTakes
    <3>. QED  BY <1>1, <3>1, <3>3
  <2>. QED  BY <2>3, <2>4
<1>. QED  BY <1>2, <1>3

\* The ids below this one are those a GUI may have got.
NotSent == IF req.pc \in {"write", "send"} THEN next_id - 1 ELSE next_id

\* No id is on its way to a GUI, in a dialog or answered before it is written.
FreshInv ==
    /\ \A c \in Conns : \A id \in Range(toGui[c]) : id < NotSent
    /\ \A id \in shown \cup said : id < NotSent

\* What is on its way back, with a reader or in the pending entry is what the
\* user said.
HeardInv ==
    /\ \A c \in Conns : Range(toDaemon[c]) \subseteq said \cup {0}
    /\ \A c \in Conns : rd[c].pc \in {"answer", "match"} => rd[c].msg \in said \cup {0}
    /\ slot.used /\ slot.completed => slot.answer \in said

\* The call in progress has the latest id, and it has no result until it ends.
CallInv ==
    /\ req.pc \in {"write", "send", "wait", "cleanup"} => req.id = next_id - 1
    /\ req.pc \in {"write", "send"} => ~slot.completed
    /\ req.result # "none" => req.pc \in {"cleanup", "close"}

PromiseInv == FreshInv /\ HeardInv /\ CallInv

LEMMA InitPromise == Init => PromiseInv /\ Promise!Init
<1>. SUFFICES ASSUME Init PROVE PromiseInv /\ Promise!Init
  OBVIOUS
<1>. USE DEF Init
<1>1. FreshInv
  BY DEF FreshInv, NotSent, Range
<1>2. HeardInv
  BY DEF HeardInv, Range
<1>3. CallInv
  BY DEF CallInv
<1>4. Promise!Init
  BY DEF Promise!Init, Stage
<1>. QED  BY <1>1, <1>2, <1>3, <1>4 DEF PromiseInv

\* An id that may be with a GUI stays one.
LEMMA NotSentStep ==
    ASSUME TypeOK, [Next]_vars
    PROVE  NotSent \in Int /\ NotSent' \in Int /\ NotSent <= NotSent'
<1>0. DOMAIN req = {"pc", "fd", "on", "id", "result"} /\ next_id \in Int
  BY DEF TypeOK, CallStates
<1>1. CASE Allocate
  <2>1. req.pc = "allocate" /\ req'.pc = "write" /\ next_id' = next_id + 1
    BY <1>0, <1>1 DEF Allocate
  <2>. QED  BY <1>0, <2>1 DEF NotSent
<1>2. CASE BeginWrite \/ Send
  <2>1. req.pc \in {"write", "send"} /\ UNCHANGED next_id
    BY <1>2 DEF BeginWrite, Send
  <2>. QED  BY <1>0, <2>1 DEF NotSent
<1>3. CASE MainThread /\ ~Allocate /\ ~BeginWrite /\ ~Send
  <2>1. /\ req.pc \notin {"write", "send"} /\ req'.pc \notin {"write", "send"}
        /\ UNCHANGED next_id
    BY <1>0, <1>3 DEF MainThread, Request, EnterLoop, ReadEvents, HashEvent, HashClosed,
                      HashConn, ElfReads, Snapshot, Wake, Cleanup, CloseEvent, Shutdown,
                      DropClient, JoinAccept, Return
  <2>. QED  BY <1>0, <2>1 DEF NotSent
<1>4. CASE \/ Connect \/ (\E c \in Conns : Gui(c) \/ ReaderThread(c))
           \/ AcceptThread \/ UNCHANGED vars
  <2>1. UNCHANGED <<req, next_id>>
    BY <1>4 DEF Connect, Gui, GuiCloses, GuiReads, GuiAnswers, AcceptThread, AcceptConn,
                AcceptInstall, AcceptSpawn, AcceptLeaves, ReaderThread, ReaderReads,
                ReaderLeaves, ReaderTakes, ReaderEof, ReaderClears, ReaderCloses,
                ReaderFinds, ReaderCompletes, vars
  <2>. QED  BY <1>0, <2>1 DEF NotSent
<1>. QED  BY <1>1, <1>2, <1>3, <1>4 DEF Next

\* Ids only move: from the socket into a dialog and to what the user has said;
\* and a request is written once it has its id.
LEMMA FreshStep ==
    ASSUME TypeOK, DescInv, CallInv, FreshInv, [Next]_vars
    PROVE  FreshInv'
<1>0. /\ DOMAIN toGui = Conns /\ \A c \in Conns : toGui[c] \in Seq(Ids)
      /\ DOMAIN req = {"pc", "fd", "on", "id", "result"}
      /\ shown \subseteq Ids /\ said \subseteq Ids /\ Ids \subseteq Int
  BY DEF TypeOK, CallStates, Ids
<1>1. \A c \in Conns : Range(toGui[c]) \subseteq Int
  <2>1. ASSUME NEW s \in Seq(Ids)
        PROVE  Range(s) \subseteq Int
    <3>1. \A i \in DOMAIN s : s[i] \in Ids
      OBVIOUS
    <3>. QED  BY <1>0, <3>1 DEF Range
  <2>. QED  BY <1>0, <2>1
<1>2. NotSent \in Int /\ NotSent' \in Int /\ NotSent <= NotSent'
  BY NotSentStep
<1>. DEFINE P(i) == i < NotSent'
<1>3. \A i \in Int : i < NotSent => P(i)
  BY <1>2
<1>4. (\A c \in Conns : \A id \in Range(toGui[c]) : P(id)) /\ \A id \in shown \cup said : P(id)
  BY <1>0, <1>1, <1>3 DEF FreshInv
<1>5. ASSUME \A c \in Conns : \A id \in Range(toGui'[c]) : P(id),
             \A id \in shown' \cup said' : P(id)
      PROVE  FreshInv'
  BY <1>5 DEF FreshInv
<1>. HIDE DEF P
<1>6. ASSUME NEW c \in Conns, GuiReads(c)
      PROVE  FreshInv'
  <2>1. toGui[c] # <<>>
    BY <1>6 DEF GuiReads
  <2>2. Range(toGui[c]) = {Head(toGui[c])} \cup Range(Tail(toGui[c]))
    BY <1>0, <2>1, RangeHeadTail
  <2>3. /\ toGui'[c] = Tail(toGui[c])
        /\ \A d \in Conns : d # c => toGui'[d] = toGui[d]
        /\ shown' = shown \cup {Head(toGui[c])} /\ UNCHANGED said
    BY <1>0, <1>6 DEF GuiReads
  <2>. QED  BY <1>4, <1>5, <2>2, <2>3
<1>7. ASSUME NEW c \in Conns, NEW id \in Ids, GuiAnswers(c, id)
      PROVE  FreshInv'
  <2>1. /\ UNCHANGED toGui /\ id \in shown
        /\ shown' = shown \ {id} /\ said' = said \cup {id}
    BY <1>7 DEF GuiAnswers
  <2>. QED  BY <1>4, <1>5, <2>1
<1>8. CASE Send
  <2>1. UNCHANGED <<shown, said>>
    BY <1>8 DEF Send, guiVars
  <2>2. CASE UNCHANGED toGui
    BY <1>4, <1>5, <2>1, <2>2
  <2>3. CASE /\ toGui' = [toGui EXCEPT ![req.on] = Append(@, req.id)]
             /\ req' = [req EXCEPT !.pc = "wait"]
    <3>1. req.on \in Conns /\ req.id \in Ids /\ req.id = next_id - 1
      BY <1>8 DEF Send, DescInv, CallTypes, CallInv
    <3>2. P(req.id)
      <4>1. NotSent' = next_id /\ next_id \in Int
        BY <1>0, <1>8, <2>3 DEF NotSent, Send, TypeOK
      <4>. QED  BY <3>1, <4>1 DEF P
    <3>3. Range(Append(toGui[req.on], req.id)) = Range(toGui[req.on]) \cup {req.id}
      BY <1>0, <3>1, RangeAppend
    <3>4. /\ toGui'[req.on] = Append(toGui[req.on], req.id)
          /\ \A d \in Conns : d # req.on => toGui'[d] = toGui[d]
      BY <1>0, <2>3, <3>1
    <3>5. \A d \in Conns : \A i \in Range(toGui'[d]) : P(i)
      BY <1>4, <3>1, <3>2, <3>3, <3>4
    <3>. QED  BY <1>4, <1>5, <2>1, <3>5
  <2>. QED  BY <1>8, <2>2, <2>3 DEF Send
<1>9. CASE \/ Connect
           \/ \E c \in Conns : GuiCloses(c) \/ ReaderThread(c)
           \/ AcceptThread
           \/ MainThread /\ ~Send
           \/ UNCHANGED vars
  <2>1. UNCHANGED <<toGui, shown, said>>
    BY <1>9 DEF Connect, GuiCloses, AcceptThread, AcceptConn, AcceptInstall, AcceptSpawn,
                AcceptLeaves, ReaderThread, ReaderReads, ReaderLeaves, ReaderTakes,
                ReaderEof, ReaderClears, ReaderCloses, ReaderFinds, ReaderCompletes,
                MainThread, EnterLoop, ReadEvents, Request, HashEvent, HashClosed, HashConn,
                ElfReads, Snapshot, Allocate, BeginWrite, Wake, Cleanup, CloseEvent,
                Shutdown, DropClient, JoinAccept, vars, guiVars, wireVars
  <2>. QED  BY <1>4, <1>5, <2>1
<1>. QED  BY <1>6, <1>7, <1>8, <1>9 DEF Next, Gui

\* What the user said goes from a connection to a reader and into the entry;
\* some of it is lost, and nothing comes in from elsewhere.
LEMMA HeardStep ==
    ASSUME TypeOK, DescInv, IpcInv, Unmistaken, HeardInv, [Next]_vars
    PROVE  HeardInv'
<1>. DEFINE Busy(c) == rd[c].pc \in {"answer", "match"}
            Done == slot.used /\ slot.completed
<1>0. /\ DOMAIN rd = Conns /\ \A c \in Conns : DOMAIN rd[c] = {"pc", "fd", "on", "msg"}
      /\ DOMAIN toDaemon = Conns /\ \A c \in Conns : toDaemon[c] \in Seq(Messages)
      /\ DOMAIN slot = {"used", "id", "completed", "answer"}
  BY DEF TypeOK, ReaderStates, Entries, Messages
<1>1. said \subseteq said'
  BY DEF Next, Connect, Gui, GuiCloses, GuiReads, GuiAnswers, AcceptThread, AcceptConn,
         AcceptInstall, AcceptSpawn, AcceptLeaves, ReaderThread, ReaderReads, ReaderLeaves,
         ReaderTakes, ReaderEof, ReaderClears, ReaderCloses, ReaderFinds, ReaderCompletes,
         MainThread, EnterLoop, ReadEvents, Request, HashEvent, HashClosed, HashConn,
         ElfReads, Snapshot, Allocate, BeginWrite, Send, Wake, Cleanup, CloseEvent,
         Shutdown, DropClient, JoinAccept, vars, guiVars
<1>. DEFINE P(i) == i \in said' \cup {0}
<1>2. /\ \A c \in Conns : \A i \in Range(toDaemon[c]) : P(i)
      /\ \A c \in Conns : Busy(c) => P(rd[c].msg)
      /\ Done => slot.answer \in said'
  BY <1>1 DEF HeardInv
<1>3. ASSUME \A c \in Conns : \A i \in Range(toDaemon'[c]) : P(i),
             \A c \in Conns : Busy(c)' => P(rd'[c].msg),
             Done' => slot'.answer \in said'
      PROVE  HeardInv'
  BY <1>3 DEF HeardInv
<1>4. 0 = HalfMessage /\ P(HalfMessage)
  BY DEF HalfMessage
<1>. HIDE DEF P
<1>5. ASSUME NEW c \in Conns, NEW id \in Ids, GuiAnswers(c, id)
      PROVE  HeardInv'
  <2>1. Range(Append(toDaemon[c], id)) = Range(toDaemon[c]) \cup {id}
    BY <1>0, RangeAppend DEF Messages
  <2>2. /\ toDaemon'[c] = Append(toDaemon[c], id)
        /\ \A d \in Conns : d # c => toDaemon'[d] = toDaemon[d]
        /\ UNCHANGED <<rd, slot>> /\ id \in said'
    BY <1>0, <1>5 DEF GuiAnswers
  <2>3. P(id)
    BY <2>2 DEF P
  <2>4. \A d \in Conns : \A i \in Range(toDaemon'[d]) : P(i)
    BY <1>2, <2>1, <2>2, <2>3
  <2>. QED  BY <1>2, <1>3, <2>2, <2>4
<1>6. ASSUME NEW c \in Conns, ReaderThread(c)
      PROVE  HeardInv'
  <2>0. \A d \in Conns : d # c => rd'[d] = rd[d]
    BY <1>0, <1>6, OtherReaders
  <2>1. CASE ReaderReads(c)
    <3>1. UNCHANGED <<toDaemon, slot>> /\ rd'[c].pc # "match"
      BY <1>0, <2>1 DEF ReaderReads, Step, Heard, wireVars
    <3>2. Busy(c)' => P(rd'[c].msg)
      BY <1>2, <1>4, <2>1, <3>1, HearsTheGui
    <3>. QED  BY <1>2, <1>3, <2>0, <3>1, <3>2
  <2>2. CASE ReaderTakes(c)
    <3>. DEFINE on == rd[c].on
                q == toDaemon[on]
    <3>1. on \in Conns /\ q \in Seq(Messages) /\ q # <<>> /\ UNCHANGED slot
      BY <1>0, <2>2 DEF ReaderTakes, DescInv, ReaderTypes
    <3>2. rd'[c].pc # "match"
      BY <1>0, <2>2, TakesMoves
    <3>3. Busy(c)' => P(rd'[c].msg)
      BY <1>2, <1>4, <2>2, <3>2, HearsTheGui
    <3>4. PICK q1 : /\ toDaemon' = [toDaemon EXCEPT ![on] = q1]
                    /\ \/ q1 = Tail(q)
                       \/ q1 = <<>>
                       \/ Tail(q) # <<>> /\ q1 = <<HalfMessage>> \o Tail(Tail(q))
      BY <2>2 DEF ReaderTakes
    <3>5. \A i \in Range(Tail(q)) : P(i)
      <4>1. Range(q) = {Head(q)} \cup Range(Tail(q))
        BY <3>1, RangeHeadTail
      <4>. QED  BY <1>2, <3>1, <4>1
    <3>6. Tail(q) # <<>> =>
              /\ Tail(Tail(q)) \in Seq(Messages)
              /\ \A i \in Range(Tail(Tail(q))) : P(i)
      <4>. HIDE DEF q
      <4>1. Tail(q) \in Seq(Messages)
        BY <3>1
      <4>2. PICK r \in Seq(Messages) : r = Tail(q)
        BY <4>1
      <4>3. r # <<>> => Tail(r) \in Seq(Messages) /\ Range(r) = {Head(r)} \cup Range(Tail(r))
        BY RangeHeadTail
      <4>. QED  BY <3>5, <4>2, <4>3
    <3>7. \A i \in Range(q1) : P(i)
      <4>1. CASE q1 = Tail(q)
        BY <3>5, <4>1
      <4>2. CASE q1 = <<>>
        BY <4>2 DEF Range
      <4>3. CASE Tail(q) # <<>> /\ q1 = <<HalfMessage>> \o Tail(Tail(q))
        <5>1. PICK r \in Seq(Messages) : r = Tail(Tail(q))
          BY <3>6, <4>3
        <5>2. Range(<<HalfMessage>> \o r) = {HalfMessage} \cup Range(r)
          BY RangeRest
        <5>. QED  BY <1>4, <3>6, <4>3, <5>1, <5>2
      <4>. QED  BY <3>4, <4>1, <4>2, <4>3
    <3>8. \A d \in Conns : \A i \in Range(toDaemon'[d]) : P(i)
      <4>1. toDaemon'[on] = q1 /\ \A d \in Conns : d # on => toDaemon'[d] = toDaemon[d]
        BY <1>0, <3>1, <3>4
      <4>. QED  BY <1>2, <3>7, <4>1
    <3>. QED  BY <1>2, <1>3, <2>0, <3>1, <3>3, <3>8
  <2>3. CASE ReaderFinds(c)
    <3>1. UNCHANGED <<toDaemon, slot>> /\ rd[c].pc = "answer" /\ rd'[c].msg = rd[c].msg
      BY <1>0, <2>3 DEF ReaderFinds, Step, wireVars
    <3>. QED  BY <1>2, <1>3, <2>0, <3>1
  <2>4. CASE ReaderCompletes(c)
    <3>1. /\ UNCHANGED toDaemon /\ rd[c].pc = "match" /\ rd'[c].pc = "loop"
          /\ slot'.answer = rd[c].msg
      BY <1>0, <2>4 DEF ReaderCompletes, Step, wireVars
    <3>2. rd[c].msg = req.id /\ req.id \in Ids
      BY <3>1 DEF IpcInv, SlotInv, DescInv, CallTypes
    <3>3. rd[c].msg \in said'
      BY <1>2, <3>1, <3>2 DEF P, Ids
    <3>. QED  BY <1>2, <1>3, <2>0, <3>1, <3>3
  <2>5. CASE ReaderLeaves(c) \/ ReaderEof(c) \/ ReaderClears(c) \/ ReaderCloses(c)
    <3>1. UNCHANGED <<toDaemon, slot>> /\ ~Busy(c)'
      BY <1>0, <2>5 DEF ReaderLeaves, ReaderEof, ReaderClears, ReaderCloses, Step, wireVars
    <3>. QED  BY <1>2, <1>3, <2>0, <3>1
  <2>. QED  BY <1>6, <2>1, <2>2, <2>3, <2>4, <2>5 DEF ReaderThread
<1>7. CASE ElfReads
  <2>. DEFINE q == toDaemon[req.on]
  <2>1. req.on \in Conns /\ q \in Seq(Messages) /\ UNCHANGED <<rd, slot>>
    BY <1>0, <1>7 DEF ElfReads, DescInv, CallTypes
  <2>2. CASE UNCHANGED toDaemon
    BY <1>2, <1>3, <2>1, <2>2
  <2>3. CASE ~UNCHANGED toDaemon
    <3>1. PICK q1 : /\ toDaemon' = [toDaemon EXCEPT ![req.on] = q1] /\ q # <<>>
                    /\ q1 = Tail(q) \/ q1 = <<HalfMessage>> \o Tail(q)
      BY <1>7, <2>3 DEF ElfReads
    <3>2. Tail(q) \in Seq(Messages) /\ \A i \in Range(Tail(q)) : P(i)
      <4>1. Range(q) = {Head(q)} \cup Range(Tail(q)) /\ Tail(q) \in Seq(Messages)
        BY <2>1, <3>1, RangeHeadTail
      <4>. QED  BY <1>2, <2>1, <4>1
    <3>3. \A i \in Range(q1) : P(i)
      <4>1. PICK r \in Seq(Messages) : r = Tail(q)
        BY <3>2
      <4>2. Range(<<HalfMessage>> \o r) = {HalfMessage} \cup Range(r)
        BY RangeRest
      <4>. QED  BY <1>4, <3>1, <3>2, <4>1, <4>2
    <3>4. \A d \in Conns : \A i \in Range(toDaemon'[d]) : P(i)
      <4>1. /\ toDaemon'[req.on] = q1
            /\ \A d \in Conns : d # req.on => toDaemon'[d] = toDaemon[d]
        BY <1>0, <2>1, <3>1
      <4>. QED  BY <1>2, <3>3, <4>1
    <3>. QED  BY <1>2, <1>3, <2>1, <3>4
  <2>. QED  BY <2>2, <2>3
<1>8. CASE Allocate \/ Cleanup
  <2>1. UNCHANGED <<toDaemon, rd>> /\ ~Done'
    BY <1>0, <1>8 DEF Allocate, Cleanup, wireVars
  <2>. QED  BY <1>2, <1>3, <2>1
<1>9. CASE AcceptSpawn \/ EnterLoop \/ JoinAccept
  <2>1. UNCHANGED <<toDaemon, slot>>
    BY <1>9 DEF AcceptSpawn, EnterLoop, JoinAccept, wireVars
  <2>2. \A d \in Conns : Busy(d)' => rd'[d] = rd[d]
    <3>1. CASE rd' = [rd EXCEPT ![taken] = [@ EXCEPT !.pc = "loop", !.fd = acc.fd]]
      BY <1>0, <3>1
    <3>2. CASE rd' = [rd EXCEPT ![taken] = [@ EXCEPT !.pc = "never"]]
      BY <1>0, <3>2
    <3>3. CASE EnterLoop \/ JoinAccept
      BY <1>0, <3>3 DEF EnterLoop, JoinAccept
    <3>. QED  BY <1>9, <3>1, <3>2, <3>3 DEF AcceptSpawn
  <2>. QED  BY <1>2, <1>3, <2>1, <2>2
<1>10. CASE \/ Connect
            \/ \E c \in Conns : GuiCloses(c) \/ GuiReads(c)
            \/ AcceptConn \/ AcceptInstall \/ AcceptLeaves
            \/ ReadEvents \/ Shutdown \/ DropClient
            \/ HashEvent \/ HashClosed \/ HashConn \/ Snapshot \/ BeginWrite
            \/ Send \/ Wake \/ CloseEvent
            \/ UNCHANGED vars
  <2>1. UNCHANGED <<toDaemon, rd, slot>>
    BY <1>10 DEF Connect, GuiCloses, GuiReads, AcceptConn, AcceptInstall, AcceptLeaves,
                 ReadEvents, Shutdown, DropClient, HashEvent, HashClosed, HashConn, Snapshot,
                 BeginWrite, Send, Wake, CloseEvent, vars, wireVars
  <2>. QED  BY <1>2, <1>3, <2>1
<1>. QED
  BY <1>5, <1>6, <1>7, <1>8, <1>9, <1>10 DEF Next, Gui, AcceptThread, MainThread, Request

LEMMA CallStep ==
    ASSUME TypeOK, DescInv, IpcInv, CallInv, FreshInv, HeardInv, [Next]_vars
    PROVE  CallInv'
<1>. USE DEF CallInv
<1>0. /\ DOMAIN req = {"pc", "fd", "on", "id", "result"} /\ next_id \in Int
      /\ DOMAIN slot = {"used", "id", "completed", "answer"}
  BY DEF TypeOK, CallStates, Entries
<1>1. req.pc \in {"write", "send"} => \A c \in Conns : rd[c].pc # "match"
  <2>. SUFFICES ASSUME req.pc \in {"write", "send"}, NEW c \in Conns, rd[c].pc = "match"
                PROVE  FALSE
    OBVIOUS
  <2>1. rd[c].msg = req.id /\ req.id = next_id - 1 /\ req.id \in Ids
    BY DEF IpcInv, SlotInv, DescInv, CallTypes
  <2>2. rd[c].msg \in said
    BY <2>1 DEF HeardInv, Ids
  <2>3. rd[c].msg < next_id - 1
    BY <2>2 DEF FreshInv, NotSent
  <2>. QED  BY <1>0, <2>1, <2>3
<1>2. CASE Allocate
  <2>1. /\ req'.id = next_id /\ next_id' = next_id + 1 /\ ~slot'.completed
        /\ req'.result = "none"
    BY <1>0, <1>2 DEF Allocate
  <2>. QED  BY <1>0, <2>1
<1>3. CASE Snapshot \/ BeginWrite \/ Send \/ Wake \/ Cleanup \/ CloseEvent
  BY <1>0, <1>3 DEF Snapshot, BeginWrite, Send, Wake, Cleanup, CloseEvent, Return
<1>4. CASE EnterLoop \/ ReadEvents \/ HashEvent \/ HashClosed \/ HashConn \/ ElfReads \/ Shutdown
           \/ DropClient \/ JoinAccept
  BY <1>0, <1>4 DEF EnterLoop, ReadEvents, HashEvent, HashClosed, HashConn, ElfReads,
                     Shutdown,
                    DropClient, JoinAccept
<1>5. CASE \/ Connect
           \/ \E c \in Conns : Gui(c) \/ ReaderThread(c)
           \/ AcceptThread
           \/ UNCHANGED vars
  <2>1. /\ UNCHANGED <<req, next_id>>
        /\ UNCHANGED slot \/ \E c \in Conns : rd[c].pc = "match"
    BY <1>5 DEF Connect, Gui, GuiCloses, GuiReads, GuiAnswers, AcceptThread, AcceptConn,
                AcceptInstall, AcceptSpawn, AcceptLeaves, ReaderThread, ReaderReads,
                ReaderLeaves, ReaderTakes, ReaderEof, ReaderClears, ReaderCloses,
                ReaderFinds, ReaderCompletes, vars
  <2>. QED  BY <1>1, <2>1
<1>. QED  BY <1>2, <1>3, <1>4, <1>5 DEF Next, MainThread, Request

\* A step of the server is a step of the abstract call, or none.
LEMMA PromiseStep ==
    ASSUME TypeOK, DescInv, IpcInv, PromiseInv, [Next]_vars
    PROVE  [Promise!Next]_Promise!callVars
<1>. USE DEF PromiseInv
<1>0. DOMAIN req = {"pc", "fd", "on", "id", "result"} /\ next_id \in Int
  BY DEF TypeOK, CallStates
<1>1. /\ req.pc \in {"write", "send"} => Stage = "begun"
      /\ req.pc = "wait" => Stage = IF req.id \in said THEN "said" ELSE "posed"
      /\ req.pc \notin {"write", "send", "wait"} => Stage = "none"
  BY DEF Stage
<1>2. /\ req'.pc \in {"write", "send"} => Stage' = "begun"
      /\ req'.pc = "wait" => Stage' = IF req'.id \in said' THEN "said" ELSE "posed"
      /\ req'.pc \notin {"write", "send", "wait"} => Stage' = "none"
  BY DEF Stage
<1>3. UNCHANGED <<next_id, Stage, req>> => UNCHANGED Promise!callVars
  BY DEF Promise!callVars
<1>4. CASE \/ Connect
           \/ \E c \in Conns : Gui(c) \/ ReaderThread(c)
           \/ AcceptThread
           \/ UNCHANGED vars
  <2>1. UNCHANGED <<req, next_id>> /\ said \subseteq said'
    BY <1>4 DEF Connect, Gui, GuiCloses, GuiReads, GuiAnswers, AcceptThread, AcceptConn,
                AcceptInstall, AcceptSpawn, AcceptLeaves, ReaderThread, ReaderReads,
                ReaderLeaves, ReaderTakes, ReaderEof, ReaderClears, ReaderCloses,
                ReaderFinds, ReaderCompletes, vars, guiVars
  <2>2. CASE UNCHANGED Stage
    BY <1>3, <2>1, <2>2
  <2>3. CASE Stage = "posed" /\ Stage' = "said"
    <3>1. Promise!Say
      BY <2>1, <2>3 DEF Promise!Say, Promise!Move
    <3>. QED  BY <3>1 DEF Promise!Next
  <2>. QED  BY <1>1, <1>2, <2>1, <2>2, <2>3
<1>5. CASE Snapshot
  <2>1. req.pc = "snapshot" /\ req.result = "none" /\ UNCHANGED next_id
    BY <1>5 DEF Snapshot, CallInv
  <2>2. CASE Return("no_client", "close")
    <3>1. Promise!Refuse
      BY <1>0, <1>1, <1>2, <2>1, <2>2 DEF Promise!Refuse, Promise!Return, Return
    <3>. QED  BY <3>1 DEF Promise!Next
  <2>3. CASE req' = [req EXCEPT !.fd = client_fd, !.pc = "allocate"]
    BY <1>0, <1>1, <1>2, <2>1, <2>3 DEF Promise!callVars
  <2>. QED  BY <1>5, <2>2, <2>3 DEF Snapshot
<1>6. CASE Allocate
  <2>1. /\ req.pc = "allocate" /\ req.result = "none" /\ next_id' = next_id + 1
        /\ req'.pc = "write" /\ req'.result = req.result
    BY <1>0, <1>6 DEF Allocate, CallInv
  <2>2. Promise!Begin
    BY <1>0, <1>1, <1>2, <2>1 DEF Promise!Begin, Promise!Move
  <2>. QED  BY <2>2 DEF Promise!Next
<1>7. CASE BeginWrite \/ Send
  <2>1. req.pc \in {"write", "send"} /\ UNCHANGED next_id
    BY <1>7 DEF BeginWrite, Send
  <2>2. CASE Return("no_client", "cleanup")
    <3>1. Promise!Fail
      BY <1>0, <1>1, <1>2, <2>1, <2>2 DEF Promise!Fail, Promise!Return, Return
    <3>. QED  BY <3>1 DEF Promise!Next
  <2>3. CASE req'.pc = "send" /\ req'.result = req.result
    BY <1>1, <1>2, <2>1, <2>3 DEF Promise!callVars
  <2>4. CASE Send /\ req'.pc = "wait" /\ req' = [req EXCEPT !.pc = "wait"]
    <3>1. req.id = next_id - 1 /\ req'.id = req.id /\ UNCHANGED said /\ NotSent = next_id - 1
      BY <1>0, <2>1, <2>4 DEF CallInv, Send, NotSent, guiVars
    <3>2. req'.id \notin said'
      BY <1>0, <3>1 DEF FreshInv
    <3>3. Promise!Pose
      BY <1>0, <1>1, <1>2, <2>1, <2>4, <3>2 DEF Promise!Pose, Promise!Move
    <3>. QED  BY <3>3 DEF Promise!Next
  <2>. QED  BY <1>0, <1>7, <2>2, <2>3, <2>4 DEF BeginWrite, Send
<1>8. CASE Wake
  <2>1. req.pc = "wait" /\ UNCHANGED next_id
    BY <1>8 DEF Wake
  <2>2. CASE slot.completed /\ Return("answered", "cleanup")
    <3>1. slot.used /\ slot.answer = req.id
      BY <2>1, <2>2 DEF IpcInv, SlotInv
    <3>2. req.id \in said
      BY <2>2, <3>1 DEF HeardInv
    <3>3. Promise!Answer
      BY <1>0, <1>1, <1>2, <2>1, <2>2, <3>2 DEF Promise!Answer, Promise!Return, Return
    <3>. QED  BY <3>3 DEF Promise!Next
  <2>3. CASE Timed /\ Return("timeout", "cleanup")
    <3>1. Promise!TimeOut
      BY <1>0, <1>1, <1>2, <2>1, <2>3 DEF Promise!TimeOut, Promise!Return, Return
    <3>. QED  BY <3>1 DEF Promise!Next
  <2>. QED  BY <1>8, <2>2, <2>3 DEF Wake
<1>9. CASE CloseEvent
  <2>1. /\ req.pc = "close" /\ UNCHANGED next_id
        /\ req'.pc \in {"idle", "hash"} /\ req'.result = "none"
    BY <1>0, <1>9 DEF CloseEvent, Return
  <2>2. CASE req.result = "none"
    BY <1>1, <1>2, <2>1, <2>2 DEF Promise!callVars
  <2>3. CASE req.result # "none"
    <3>1. Promise!Decide
      BY <1>1, <1>2, <2>1, <2>3 DEF Promise!Decide, Promise!Return
    <3>. QED  BY <3>1 DEF Promise!Next
  <2>. QED  BY <2>2, <2>3
<1>10. CASE \/ EnterLoop \/ ReadEvents \/ HashEvent \/ HashClosed \/ HashConn
            \/ ElfReads \/ Cleanup \/ Shutdown \/ DropClient \/ JoinAccept
  <2>1. /\ UNCHANGED next_id /\ req'.result = req.result
        /\ req.pc \notin {"write", "send", "wait"}
        /\ req'.pc \notin {"write", "send", "wait"}
    BY <1>0, <1>10 DEF EnterLoop, ReadEvents, HashEvent, HashClosed, HashConn, ElfReads,
                       Cleanup,
                       Shutdown, DropClient, JoinAccept
  <2>. QED  BY <1>1, <1>2, <2>1 DEF Promise!callVars
<1>. QED
  BY <1>4, <1>5, <1>6, <1>7, <1>8, <1>9, <1>10 DEF Next, MainThread, Request

\* What a call of ipc_request_permission() promises its caller, for any number
\* of connections, requests and events: the answer it returns was given to its
\* own request, "no client" means that the request reached nobody, and a
\* timeout comes only if there is one.  GUIs take turns, or whatever a reader
\* takes from the file of an event or from a stream cut in the middle of an
\* answer shows the id of no request.
THEOREM CallImplements == ASSUME MaxLive = 1 \/ Stray = {} PROVE Spec => CallPromise
<1>1. TypeOK /\ DescInv /\ IpcInv /\ Unmistaken /\ PromiseInv /\ [Next]_vars => PromiseInv'
  BY FreshStep, HeardStep, CallStep DEF PromiseInv
<1>2. TypeOK /\ DescInv /\ IpcInv /\ PromiseInv /\ [Next]_vars =>
         [Promise!Next]_Promise!callVars
  BY PromiseStep
<1>. QED
  BY InitPromise, IpcInvariant, TypesInvariant, UnmistakenInvariant, <1>1, <1>2, PTL
  DEF Spec, CallPromise, Promise!Spec
=============================================================================
