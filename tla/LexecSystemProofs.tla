------------------------- MODULE LexecSystemProofs -------------------------
(***************************************************************************)
(* The client keeps its connection watched and keeps trying, and within a  *)
(* run of the daemon an answer reaches the file it was given for, for any  *)
(* number of connections, timers, prompts, files and runs.                 *)
(***************************************************************************)
EXTENDS LexecSystem, SequenceTheorems, TLAPS

Values(s) == {s[i] : i \in DOMAIN s}

LEMMA AppendValues ==
    ASSUME NEW S, NEW s \in Seq(S), NEW e \in S
    PROVE  Append(s, e) \in Seq(S) /\ Values(Append(s, e)) = Values(s) \cup {e}
<1>1. /\ Append(s, e) \in Seq(S) /\ Len(Append(s, e)) = Len(s) + 1
      /\ \A i \in 1 .. Len(s) : Append(s, e)[i] = s[i]
      /\ Append(s, e)[Len(s) + 1] = e
  BY AppendProperties
<1>2. /\ Len(s) \in Nat /\ DOMAIN s = 1 .. Len(s)
      /\ DOMAIN Append(s, e) = 1 .. Len(s) + 1
  BY <1>1, LenProperties
<1>3. ASSUME NEW i \in 1 .. Len(s) + 1
      PROVE  Append(s, e)[i] \in Values(s) \cup {e}
  <2>1. CASE i \in 1 .. Len(s)
    BY <2>1, <1>1, <1>2 DEF Values
  <2>2. CASE i = Len(s) + 1
    BY <2>2, <1>1
  <2>. QED  BY <2>1, <2>2, <1>2
<1>4. ASSUME NEW i \in 1 .. Len(s)
      PROVE  s[i] \in Values(Append(s, e))
  <2>1. i \in DOMAIN Append(s, e)
    BY <1>2
  <2>. QED  BY <2>1, <1>1 DEF Values
<1>5. e \in Values(Append(s, e))
  <2>1. Len(s) + 1 \in DOMAIN Append(s, e)
    BY <1>2
  <2>. QED  BY <2>1, <1>1 DEF Values
<1>. QED  BY <1>1, <1>2, <1>3, <1>4, <1>5 DEF Values

LEMMA HeadTailValues ==
    ASSUME NEW S, NEW s \in Seq(S), s # <<>>
    PROVE  /\ Head(s) \in Values(s) /\ Head(s) \in S
           /\ Tail(s) \in Seq(S) /\ Values(Tail(s)) \subseteq Values(s)
<1>1. /\ Head(s) \in S /\ Tail(s) \in Seq(S) /\ Len(Tail(s)) = Len(s) - 1
      /\ \A i \in 1 .. Len(Tail(s)) : Tail(s)[i] = s[i + 1]
  BY HeadTailProperties
<1>2. Len(s) \in Nat \ {0} /\ DOMAIN s = 1 .. Len(s)
      /\ DOMAIN Tail(s) = 1 .. Len(s) - 1
  BY <1>1, LenProperties, EmptySeq
<1>3. Head(s) \in Values(s)
  <2>1. Head(s) = s[1] /\ 1 \in DOMAIN s
    BY <1>2
  <2>. QED  BY <2>1 DEF Values
<1>4. ASSUME NEW i \in 1 .. Len(s) - 1
      PROVE  Tail(s)[i] \in Values(s)
  <2>1. i + 1 \in DOMAIN s /\ Tail(s)[i] = s[i + 1]
    BY <1>1, <1>2
  <2>. QED  BY <2>1 DEF Values
<1>. QED  BY <1>1, <1>2, <1>3, <1>4 DEF Values

LEMMA EmptyValues == ASSUME NEW S PROVE <<>> \in Seq(S) /\ Values(<<>>) = {}
<1>1. <<>> \in Seq(S) /\ Len(<<>>) = 0
  BY EmptySeq
<1>2. DOMAIN <<>> = 1 .. 0
  BY <1>1, LenProperties
<1>. QED  BY <1>1, <1>2 DEF Values

-----------------------------------------------------------------------------
(* Types, in parts.  A daemon that listens is in its first run at least.   *)

BoolTypes == activated \in BOOLEAN /\ label \in BOOLEAN /\ up \in BOOLEAN

LinkTypes ==
    /\ sock \in Conns \cup {0}
    /\ watches \subseteq Conns /\ fds \subseteq Conns /\ held \subseteq Conns
    /\ timers \in Nat
    /\ backlog \in Seq(Conns)
    /\ client \in Conns \cup {0}

RequestTypes ==
    /\ dialogs \subseteq Requests
    /\ opening \subseteq Requests
    /\ toGui \in [Conns -> Seq(Requests)]
    /\ toDaemon \in [Conns -> Seq(Requests)]
    /\ ask \subseteq Requests

CountTypes ==
    /\ run \in 0 .. MaxRuns
    /\ next_id \in 1 .. MaxIds + 1 /\ prompts \in next_id - 1 .. MaxIds
    /\ up => run >= 1

SystemInv == BoolTypes /\ LinkTypes /\ RequestTypes /\ CountTypes

LEMMA InitSystem == Init => SystemInv
<1>. SUFFICES ASSUME Init PROVE SystemInv
  OBVIOUS
<1>. USE DEF Init, GuiInit
<1>1. BoolTypes
  BY DEF BoolTypes
<1>2. LinkTypes
  BY EmptySeq DEF LinkTypes
<1>3. RequestTypes
  BY EmptySeq DEF RequestTypes
<1>4. CountTypes
  BY SystemAssumption DEF CountTypes
<1>. QED  BY <1>1, <1>2, <1>3, <1>4 DEF SystemInv

\* connect_to_daemon() and disconnect_from_daemon() keep the types.
LEMMA ConnectTypes ==
    ASSUME SystemInv, Connect, UNCHANGED <<held, client>>, timers' \in Nat,
           UNCHANGED <<dialogs, opening, ask>>
    PROVE  LinkTypes' /\ RequestTypes' /\ sock' \in Conns /\ sock' \in watches'
<1>1. PICK c \in Conns : ConnectOn(c)
  BY DEF Connect
<1>2. LinkTypes'
  BY <1>1, AppendProperties DEF SystemInv, LinkTypes, ConnectOn
<1>3. RequestTypes'
  BY <1>1, EmptySeq DEF SystemInv, RequestTypes, ConnectOn
<1>4. sock' = c /\ c \in watches'
  BY <1>1 DEF ConnectOn
<1>. QED  BY <1>2, <1>3, <1>4

LEMMA LostTypes ==
    ASSUME SystemInv, NEW c, Lost(c), UNCHANGED <<client, ask>>
    PROVE  BoolTypes' /\ LinkTypes' /\ RequestTypes'
<1>1. BoolTypes'
  BY DEF SystemInv, BoolTypes, Lost, daemonEnds
<1>2. LinkTypes'
  BY DEF SystemInv, LinkTypes, Lost, Disconnect, daemonEnds
<1>3. RequestTypes'
  BY DEF SystemInv, RequestTypes, Lost, Disconnect, daemonEnds
<1>. QED  BY <1>1, <1>2, <1>3

LEMMA GuiTypes ==
    ASSUME SystemInv, Gui
    PROVE  SystemInv'
<1>1. UNCHANGED <<run, next_id, prompts, client, ask, up, held>>
  BY DEF Gui, GuiAction, HangUp, Readable, Lost, TimerFires, ReconnectClicked,
         Activate, GuiExits, Click, daemonEnds
<1>2. CountTypes'
  BY <1>1 DEF SystemInv, CountTypes
<1>3. ASSUME NEW c \in Conns, HangUp(c) \/ Readable(c)
      PROVE  BoolTypes' /\ LinkTypes' /\ RequestTypes'
  <2>1. CASE Lost(c)
    BY <2>1, <1>1, LostTypes
  <2>2. CASE Readable(c) /\ ~Lost(c)
    <3>1. /\ sock # 0 /\ toGui[sock] # <<>>
          /\ toGui' = [toGui EXCEPT ![sock] = Tail(@)]
          /\ \/ dialogs' = dialogs \cup {Head(toGui[sock])} /\ UNCHANGED opening
             \/ opening' = {Head(toGui[sock])} /\ UNCHANGED dialogs
          /\ UNCHANGED <<activated, sock, watches, fds, timers, label, backlog, toDaemon>>
      BY <2>2 DEF Readable, sockVars
    <3>2. sock \in Conns /\ toGui[sock] \in Seq(Requests)
      BY <3>1 DEF SystemInv, LinkTypes, RequestTypes
    <3>3. Head(toGui[sock]) \in Requests /\ Tail(toGui[sock]) \in Seq(Requests)
      BY <3>1, <3>2, HeadTailProperties
    <3>4. RequestTypes'
      BY <3>1, <3>3, <1>1 DEF SystemInv, RequestTypes
    <3>5. BoolTypes' /\ LinkTypes'
      BY <3>1, <1>1 DEF SystemInv, BoolTypes, LinkTypes
    <3>. QED  BY <3>4, <3>5
  <2>. QED  BY <1>3, <2>1, <2>2 DEF HangUp
<1>4. CASE TimerFires \/ ReconnectClicked
  <2>1. Connect /\ UNCHANGED <<activated, dialogs, opening>> /\ label' \in {TRUE, label}
    BY <1>4 DEF TimerFires, ReconnectClicked
  <2>2. timers' \in Nat
    <3>1. CASE TimerFires
      BY <3>1 DEF TimerFires, SystemInv, LinkTypes
    <3>2. CASE ReconnectClicked
      BY <3>2 DEF ReconnectClicked, SystemInv, LinkTypes
    <3>. QED  BY <1>4, <3>1, <3>2
  <2>3. BoolTypes'
    BY <2>1, <1>1 DEF SystemInv, BoolTypes
  <2>4. LinkTypes' /\ RequestTypes'
    BY <1>1, <2>1, <2>2, ConnectTypes
  <2>. QED  BY <1>2, <2>3, <2>4 DEF SystemInv
<1>5. CASE Activate
  <2>1. activated' = TRUE /\ label' \in {TRUE, FALSE} /\ UNCHANGED <<dialogs, opening>>
    BY <1>5 DEF Activate
  <2>2. BoolTypes'
    BY <2>1, <1>1 DEF SystemInv, BoolTypes
  <2>3. CASE Connect /\ timers' = timers
    <3>1. timers' \in Nat
      BY <2>3 DEF SystemInv, LinkTypes
    <3>2. LinkTypes' /\ RequestTypes'
      BY <1>1, <2>1, <2>3, <3>1, ConnectTypes
    <3>. QED  BY <1>2, <2>2, <3>2 DEF SystemInv
  <2>4. CASE ConnectFails /\ timers' = timers + 1
    <3>1. LinkTypes'
      BY <1>1, <2>4 DEF ConnectFails, sockVars, SystemInv, LinkTypes
    <3>2. RequestTypes'
      BY <1>1, <2>1, <2>4 DEF ConnectFails, SystemInv, RequestTypes
    <3>. QED  BY <1>2, <2>2, <3>1, <3>2 DEF SystemInv
  <2>. QED  BY <1>5, <2>3, <2>4 DEF Activate
<1>6. CASE GuiExits
  <2>1. BoolTypes'
    BY <1>1, <1>6 DEF SystemInv, BoolTypes, GuiExits
  <2>2. LinkTypes'
    BY <1>1, <1>6 DEF SystemInv, LinkTypes, GuiExits
  <2>3. RequestTypes'
    BY <1>1, <1>6 DEF SystemInv, RequestTypes, GuiExits
  <2>. QED  BY <1>2, <2>1, <2>2, <2>3 DEF SystemInv
<1>7. ASSUME NEW r \in Requests, Click(r)
      PROVE  BoolTypes' /\ LinkTypes' /\ RequestTypes'
  <2>1. toDaemon' = toDaemon \/ (sock \in Conns /\
                toDaemon' = [toDaemon EXCEPT ![sock] = Append(@, r)])
    BY <1>7 DEF Click, SystemInv, LinkTypes, RequestTypes
  <2>2. toDaemon' \in [Conns -> Seq(Requests)]
    <3>1. \A c \in Conns : Append(toDaemon[c], r) \in Seq(Requests)
      BY AppendProperties DEF SystemInv, RequestTypes
    <3>. QED  BY <2>1, <3>1 DEF SystemInv, RequestTypes
  <2>3. BoolTypes'
    BY <1>1, <1>7 DEF SystemInv, BoolTypes, Click
  <2>4. RequestTypes' /\ LinkTypes'
    BY <1>1, <1>7, <2>2 DEF SystemInv, RequestTypes, LinkTypes, Click, sockVars
  <2>. QED  BY <2>3, <2>4
<1>. QED
  BY <1>2, <1>3, <1>4, <1>5, <1>6, <1>7 DEF Gui, GuiAction, SystemInv

LEMMA ReaderEndsTypes ==
    ASSUME SystemInv, NEW c \in Conns, ReaderEnds(c)
    PROVE  held' \subseteq Conns /\ client' \in Conns \cup {0}
BY DEF ReaderEnds, SystemInv, LinkTypes

LEMMA DaemonTypes ==
    ASSUME SystemInv, Daemon
    PROVE  SystemInv'
<1>1. ASSUME Accept
      PROVE  SystemInv'
  <2>1. Head(backlog) \in Conns /\ Tail(backlog) \in Seq(Conns)
    BY <1>1, HeadTailProperties DEF Accept, SystemInv, LinkTypes
  <2>2. LinkTypes'
    BY <1>1, <2>1 DEF Accept, sockVars, SystemInv, LinkTypes
  <2>3. BoolTypes' /\ RequestTypes' /\ CountTypes'
    BY <1>1 DEF Accept, SystemInv, BoolTypes, RequestTypes, CountTypes
  <2>. QED  BY <2>2, <2>3 DEF SystemInv
<1>2. ASSUME NEW c \in Conns, ReaderEof(c)
      PROVE  SystemInv'
  <2>1. LinkTypes'
    BY <1>2, ReaderEndsTypes DEF ReaderEof, sockVars, SystemInv, LinkTypes
  <2>2. BoolTypes' /\ RequestTypes' /\ CountTypes'
    BY <1>2 DEF ReaderEof, SystemInv, BoolTypes, RequestTypes, CountTypes
  <2>. QED  BY <2>1, <2>2 DEF SystemInv
<1>3. ASSUME NEW c \in Conns, Take(c)
      PROVE  SystemInv'
  <2>1. toDaemon[c] \in Seq(Requests) /\ toDaemon[c] # <<>>
    BY <1>3 DEF Take, SystemInv, RequestTypes
  <2>2. Tail(toDaemon[c]) \in Seq(Requests)
    BY <2>1, HeadTailProperties
  <2>3. ask' \in {ask, {}}
    BY <1>3 DEF Take
  <2>4. RequestTypes'
    BY <1>3, <2>2, <2>3 DEF Take, SystemInv, RequestTypes
  <2>5. LinkTypes'
    <3>1. held' \subseteq Conns /\ client' \in Conns \cup {0}
      BY <1>3, ReaderEndsTypes DEF Take, SystemInv, LinkTypes
    <3>. QED  BY <1>3, <3>1 DEF Take, sockVars, SystemInv, LinkTypes
  <2>6. BoolTypes' /\ CountTypes'
    BY <1>3 DEF Take, SystemInv, BoolTypes, CountTypes
  <2>. QED  BY <2>4, <2>5, <2>6 DEF SystemInv
<1>4. ASSUME NEW f \in Files, Ask(f)
      PROVE  SystemInv'
  <2>. DEFINE r == [id |-> next_id, run |-> run, file |-> f]
  <2>1. r \in Requests /\ client \in Conns
    BY <1>4, SystemAssumption DEF Ask, SystemInv, CountTypes, LinkTypes, Requests
  <2>. HIDE DEF r
  <2>2. \/ UNCHANGED <<ask, toGui>>
        \/ ask' = {r} /\ toGui' = [toGui EXCEPT ![client] = Append(@, r)]
    BY <1>4 DEF Ask, r
  <2>3. \A c \in Conns : Append(toGui[c], r) \in Seq(Requests)
    BY <2>1, AppendProperties DEF SystemInv, RequestTypes
  <2>4. RequestTypes'
    BY <1>4, <2>1, <2>2, <2>3 DEF Ask, SystemInv, RequestTypes
  <2>5. CountTypes'
    BY <1>4, SystemAssumption DEF Ask, SystemInv, CountTypes, daemonEnds
  <2>6. LinkTypes' /\ BoolTypes'
    BY <1>4 DEF Ask, sockVars, daemonEnds, SystemInv, LinkTypes, BoolTypes
  <2>. QED  BY <2>4, <2>5, <2>6 DEF SystemInv
<1>5. CASE Timeout
  <2>1. BoolTypes' /\ LinkTypes' /\ CountTypes'
    BY <1>5 DEF Timeout, guiVars, sockVars, daemonEnds, SystemInv, BoolTypes,
                LinkTypes, CountTypes
  <2>2. RequestTypes'
    BY <1>5 DEF Timeout, guiVars, SystemInv, RequestTypes
  <2>. QED  BY <2>1, <2>2 DEF SystemInv
<1>6. CASE ServeGui
  <2>1. BoolTypes' /\ LinkTypes' /\ CountTypes'
    BY <1>6 DEF ServeGui, Present, sockVars, daemonEnds, SystemInv, BoolTypes,
                LinkTypes, CountTypes
  <2>2. RequestTypes'
    BY <1>6 DEF ServeGui, Present, SystemInv, RequestTypes
  <2>. QED  BY <2>1, <2>2 DEF SystemInv
<1>7. CASE Die
  <2>1. BoolTypes' /\ LinkTypes' /\ CountTypes'
    BY <1>7, EmptySeq DEF Die, sockVars, SystemInv, BoolTypes, LinkTypes, CountTypes
  <2>2. RequestTypes'
    BY <1>7, EmptySeq DEF Die, SystemInv, RequestTypes
  <2>. QED  BY <2>1, <2>2 DEF SystemInv
<1>8. CASE Start
  <2>1. BoolTypes' /\ LinkTypes' /\ RequestTypes'
    BY <1>8 DEF Start, sockVars, SystemInv, BoolTypes, LinkTypes, RequestTypes
  <2>2. CountTypes'
    BY <1>8, SystemAssumption DEF Start, SystemInv, CountTypes
  <2>. QED  BY <2>1, <2>2 DEF SystemInv
<1>. QED  BY <1>1, <1>2, <1>3, <1>4, <1>5, <1>6, <1>7, <1>8 DEF Daemon

LEMMA SystemInvariant == Spec => []SystemInv
<1>1. SystemInv /\ UNCHANGED vars => SystemInv'
  BY DEF vars, guiVars, sockVars, daemonEnds, SystemInv, BoolTypes, LinkTypes,
         RequestTypes, CountTypes
<1>2. SystemInv /\ [Next]_vars => SystemInv'
  BY <1>1, GuiTypes, DaemonTypes DEF Next
<1>. QED  BY <1>2, InitSystem, PTL DEF Spec

\* Every variable keeps its type; request ids stay below the number of prompts.
THEOREM SystemTypes == Spec => []TypeOK
<1>1. SystemInv => TypeOK
  BY DEF SystemInv, BoolTypes, LinkTypes, RequestTypes, CountTypes, TypeOK
<1>. QED  BY <1>1, SystemInvariant, PTL

-----------------------------------------------------------------------------
(* The client: each of the three is inductive with the types.              *)

ClientInv == WatchedSocket /\ NeverGivesUp /\ LabelNotFalselyGreen

LEMMA ConnectSets ==
    ASSUME Connect
    PROVE  sock' \in Conns /\ sock' \in watches' /\ sock' # 0
BY DEF Connect, ConnectOn, Conns

LEMMA ClientStep ==
    ASSUME SystemInv, ClientInv, [Next]_vars
    PROVE  ClientInv'
<1>. USE DEF ClientInv, WatchedSocket, NeverGivesUp, LabelNotFalselyGreen
<1>1. ASSUME NEW c \in Conns, HangUp(c) \/ Readable(c)
      PROVE  ClientInv'
  <2>1. CASE Lost(c)
    <3>1. sock' = 0 /\ label' = FALSE /\ timers' = timers + 1
      BY <2>1 DEF Lost, Disconnect
    <3>. QED  BY <3>1 DEF SystemInv, LinkTypes
  <2>2. CASE Readable(c) /\ ~Lost(c)
    BY <2>2 DEF Readable, sockVars
  <2>. QED  BY <1>1, <2>1, <2>2 DEF HangUp
<1>2. CASE TimerFires \/ ReconnectClicked
  <2>1. sock' \in watches' /\ sock' # 0
    BY <1>2, ConnectSets DEF TimerFires, ReconnectClicked
  <2>. QED  BY <2>1
<1>3. CASE Activate
  <2>1. CASE Connect
    BY <2>1, ConnectSets
  <2>2. CASE ConnectFails /\ label' = FALSE /\ timers' = timers + 1
    <3>1. timers' > 0 /\ UNCHANGED <<sock, watches>>
      BY <2>2 DEF ConnectFails, sockVars, SystemInv, LinkTypes
    <3>. QED  BY <2>2, <3>1
  <2>. QED  BY <1>3, <2>1, <2>2 DEF Activate
<1>4. CASE GuiExits
  BY <1>4 DEF GuiExits
<1>5. ASSUME NEW r \in Requests, Click(r)
      PROVE  ClientInv'
  BY <1>5 DEF Click, sockVars
<1>6. CASE Daemon \/ UNCHANGED vars
  <2>1. UNCHANGED <<activated, sock, watches, timers, label>>
    BY <1>6 DEF Daemon, Accept, ReaderEof, Take, Ask, Timeout, ServeGui, Present,
                Die, Start, vars, guiVars, sockVars
  <2>. QED  BY <2>1
<1>. QED
  BY <1>1, <1>2, <1>3, <1>4, <1>5, <1>6 DEF Next, Gui, GuiAction

LEMMA ClientInvariant == Spec => []ClientInv
<1>1. Init => ClientInv
  BY DEF Init, GuiInit, ClientInv, WatchedSocket, NeverGivesUp, LabelNotFalselyGreen
<1>. QED  BY <1>1, ClientStep, SystemInvariant, PTL DEF Spec

\* The socket in use is always watched, whichever of the three callers of
\* connect_to_daemon() opened it and over whatever it replaced.
THEOREM SocketIsWatched == Spec => []WatchedSocket
BY ClientInvariant, PTL DEF ClientInv

\* A running client without a connection always has a timer that will retry.
THEOREM ClientKeepsTrying == Spec => []NeverGivesUp
BY ClientInvariant, PTL DEF ClientInv

\* The label never claims a connection the client does not have.
THEOREM LabelIsHonest == Spec => []LabelNotFalselyGreen
BY ClientInvariant, PTL DEF ClientInv

-----------------------------------------------------------------------------
(* Answers.  A request lives in the daemon's wait, in flight, in a dialog   *)
(* or as an answer on its way back; within a run its id names it.          *)

Flying(f) == UNION {Values(f[c]) : c \in Conns}

World == ask \cup dialogs \cup opening \cup Flying(toGui) \cup Flying(toDaemon)

WorldInv ==
    /\ \A r \in World : r.run <= run /\ (r.run = run => r.id < next_id)
    /\ \A r, s \in World : r.run = s.run /\ r.id = s.id => r = s
    /\ \A q, r \in ask : q = r

LEMMA FlyingExcept ==
    ASSUME NEW f \in [Conns -> Seq(Requests)], NEW c \in Conns, NEW s
    PROVE  Flying([f EXCEPT ![c] = s]) \subseteq Flying(f) \cup Values(s)
<1>. DEFINE g == [f EXCEPT ![c] = s]
<1>1. g[c] = s /\ \A d \in Conns : d # c => g[d] = f[d]
  OBVIOUS
<1>. HIDE DEF g
<1>2. ASSUME NEW d \in Conns
      PROVE  Values(g[d]) \subseteq Flying(f) \cup Values(s)
  <2>1. CASE d = c
    BY <2>1, <1>1
  <2>2. CASE d # c
    BY <2>2, <1>1 DEF Flying
  <2>. QED  BY <2>1, <2>2
<1>. QED  BY <1>2 DEF Flying, g

LEMMA WorldShrinks ==
    ASSUME SystemInv, WorldInv, World' \subseteq World, ask' \subseteq ask,
           UNCHANGED <<run, next_id>> \/ run' = run + 1
    PROVE  WorldInv'
<1>1. World \subseteq Requests
  BY DEF World, Flying, Values, SystemInv, RequestTypes
<1>2. \A r \in World : r.run \in Nat /\ r.id \in Nat
  BY <1>1, SystemAssumption DEF Requests
<1>3. run \in Nat
  BY SystemAssumption DEF SystemInv, CountTypes
<1>4. \A r \in World' : r.run <= run' /\ (r.run = run' => r.id < next_id')
  BY <1>2, <1>3 DEF WorldInv
<1>. QED  BY <1>4 DEF WorldInv

LEMMA InitWorld == Init => WorldInv
<1>. SUFFICES ASSUME Init PROVE WorldInv
  OBVIOUS
<1>1. Flying(toGui) = {} /\ Flying(toDaemon) = {}
  BY EmptyValues DEF Init, Flying
<1>2. ask = {} /\ dialogs = {} /\ opening = {}
  BY DEF Init, GuiInit
<1>. QED  BY <1>1, <1>2 DEF WorldInv, World

LEMMA GuiWorld ==
    ASSUME SystemInv, Gui
    PROVE  World' \subseteq World /\ UNCHANGED <<ask, run, next_id>>
<1>. USE DEF World
<1>0. UNCHANGED <<ask, run, next_id>>
  BY DEF Gui, GuiAction
<1>1. toGui \in [Conns -> Seq(Requests)] /\ toDaemon \in [Conns -> Seq(Requests)]
  BY DEF SystemInv, RequestTypes
<1>2. ASSUME Connect
      PROVE  Flying(toGui)' \subseteq Flying(toGui) /\ Flying(toDaemon)' \subseteq Flying(toDaemon)
  <2>1. PICK c \in Conns : toGui' = [toGui EXCEPT ![c] = <<>>]
                           /\ toDaemon' = [toDaemon EXCEPT ![c] = <<>>]
    BY <1>2 DEF Connect, ConnectOn
  <2>2. Flying(toGui') \subseteq Flying(toGui) /\ Flying(toDaemon') \subseteq Flying(toDaemon)
    BY <1>1, <2>1, FlyingExcept, EmptyValues
  <2>. QED  BY <2>2 DEF Flying, Values
<1>3. ASSUME UNCHANGED <<toGui, toDaemon>>
      PROVE  Flying(toGui)' = Flying(toGui) /\ Flying(toDaemon)' = Flying(toDaemon)
  BY <1>3 DEF Flying, Values
<1>4. ASSUME NEW c \in Conns, HangUp(c) \/ Readable(c)
      PROVE  World' \subseteq World
  <2>1. CASE Lost(c)
    BY <2>1, <1>0, <1>3 DEF Lost, Disconnect
  <2>2. CASE Readable(c) /\ ~Lost(c)
    <3>1. /\ sock # 0 /\ toGui[sock] # <<>>
          /\ toGui' = [toGui EXCEPT ![sock] = Tail(@)]
          /\ \/ dialogs' = dialogs \cup {Head(toGui[sock])} /\ UNCHANGED opening
             \/ opening' = {Head(toGui[sock])} /\ UNCHANGED dialogs
          /\ UNCHANGED toDaemon
      BY <2>2 DEF Readable
    <3>2. sock \in Conns /\ toGui[sock] \in Seq(Requests)
      BY <3>1, <1>1 DEF SystemInv, LinkTypes
    <3>3. Head(toGui[sock]) \in Values(toGui[sock])
          /\ Values(Tail(toGui[sock])) \subseteq Values(toGui[sock])
      BY <3>1, <3>2, HeadTailValues
    <3>4. Values(toGui[sock]) \subseteq Flying(toGui)
      BY <3>2 DEF Flying
    <3>5. Flying(toGui') \subseteq Flying(toGui)
      BY <1>1, <3>1, <3>2, <3>3, <3>4, FlyingExcept
    <3>6. Flying(toGui)' \subseteq Flying(toGui) /\ Flying(toDaemon)' = Flying(toDaemon)
      BY <3>1, <3>5 DEF Flying, Values
    <3>. QED  BY <1>0, <3>1, <3>3, <3>4, <3>6
  <2>. QED  BY <1>4, <2>1, <2>2 DEF HangUp
<1>5. CASE TimerFires \/ ReconnectClicked
  BY <1>0, <1>2, <1>5 DEF TimerFires, ReconnectClicked
<1>6. CASE Activate
  BY <1>0, <1>2, <1>3, <1>6 DEF Activate, ConnectFails
<1>7. CASE GuiExits
  BY <1>0, <1>3, <1>7 DEF GuiExits
<1>8. ASSUME NEW r \in Requests, Click(r)
      PROVE  World' \subseteq World
  <2>1. CASE UNCHANGED toDaemon
    BY <2>1, <1>0, <1>3, <1>8 DEF Click
  <2>2. CASE sock \in Alive /\ toDaemon' = [toDaemon EXCEPT ![sock] = Append(@, r)]
    <3>1. sock \in Conns
      <4>1. Alive \subseteq Conns
        BY ElementOfSeq, LenProperties DEF Alive, SystemInv, LinkTypes
      <4>. QED  BY <2>2, <4>1
    <3>2. Flying(toDaemon)' \subseteq Flying(toDaemon) \cup {r} /\ Flying(toGui)' = Flying(toGui)
      <4>1. Values(Append(toDaemon[sock], r)) = Values(toDaemon[sock]) \cup {r}
        BY <1>1, <3>1, AppendValues
      <4>2. Values(toDaemon[sock]) \subseteq Flying(toDaemon)
        BY <3>1 DEF Flying
      <4>3. Flying(toDaemon') \subseteq Flying(toDaemon) \cup {r}
        BY <1>1, <2>2, <3>1, <4>1, <4>2, FlyingExcept
      <4>4. Flying(toDaemon)' = Flying(toDaemon')
        BY DEF Flying, Values
      <4>5. UNCHANGED toGui
        BY <1>8 DEF Click
      <4>6. Flying(toGui)' = Flying(toGui)
        BY <4>5 DEF Flying, Values
      <4>. QED  BY <4>3, <4>4, <4>6
    <3>. QED  BY <1>0, <1>8, <3>2 DEF Click
  <2>. QED  BY <1>8, <2>1, <2>2 DEF Click
<1>. QED
  BY <1>0, <1>4, <1>5, <1>6, <1>7, <1>8 DEF Gui, GuiAction

\* The daemon's own steps: only Ask brings a request into the world, under an
\* id this run has not used.
LEMMA WorldGrows ==
    ASSUME SystemInv, WorldInv, ask = {}, NEW f \in Files, NEW r,
           r = [id |-> next_id, run |-> run, file |-> f],
           World' \subseteq World \cup {r}, ask' \subseteq {r},
           run' = run, next_id' = next_id + 1
    PROVE  WorldInv'
<1>1. World \subseteq Requests
  BY DEF World, Flying, Values, SystemInv, RequestTypes
<1>2. \A s \in World : s.run \in Nat /\ s.id \in Nat
  BY <1>1, SystemAssumption DEF Requests
<1>3. run \in Nat /\ next_id \in Nat
  BY SystemAssumption DEF SystemInv, CountTypes
<1>4. r.run = run /\ r.id = next_id
  OBVIOUS
<1>5. \A s \in World' : s.run <= run' /\ (s.run = run' => s.id < next_id')
  BY <1>2, <1>3, <1>4 DEF WorldInv
<1>6. \A s \in World : ~(s.run = r.run /\ s.id = r.id)
  BY <1>2, <1>3, <1>4 DEF WorldInv
<1>7. \A s, t \in World' : s.run = t.run /\ s.id = t.id => s = t
  BY <1>6 DEF WorldInv
<1>. QED  BY <1>5, <1>7 DEF WorldInv

LEMMA DaemonWorld ==
    ASSUME SystemInv, WorldInv, Daemon
    PROVE  WorldInv'
<1>. USE DEF World
<1>1. toGui \in [Conns -> Seq(Requests)] /\ toDaemon \in [Conns -> Seq(Requests)]
  BY DEF SystemInv, RequestTypes
<1>2. ASSUME UNCHANGED <<toGui, toDaemon>>
      PROVE  Flying(toGui)' = Flying(toGui) /\ Flying(toDaemon)' = Flying(toDaemon)
  BY <1>2 DEF Flying, Values
<1>3. CASE Accept \/ \E c \in Conns : ReaderEof(c)
  <2>1. UNCHANGED <<toGui, toDaemon, ask, dialogs, opening, run, next_id>>
    BY <1>3 DEF Accept, ReaderEof
  <2>. QED  BY <2>1, <1>2, WorldShrinks
<1>4. ASSUME NEW c \in Conns, Take(c)
      PROVE  WorldInv'
  <2>1. /\ toDaemon[c] # <<>> /\ toDaemon' = [toDaemon EXCEPT ![c] = Tail(@)]
        /\ ask' \subseteq ask
        /\ UNCHANGED <<toGui, dialogs, opening, run, next_id>>
    BY <1>4 DEF Take
  <2>2. Values(Tail(toDaemon[c])) \subseteq Values(toDaemon[c])
    BY <1>1, <2>1, HeadTailValues
  <2>3. Values(toDaemon[c]) \subseteq Flying(toDaemon)
    BY DEF Flying
  <2>4. Flying(toDaemon') \subseteq Flying(toDaemon)
    BY <1>1, <2>1, <2>2, <2>3, FlyingExcept
  <2>5. Flying(toDaemon)' \subseteq Flying(toDaemon) /\ Flying(toGui)' = Flying(toGui)
    BY <2>1, <2>4 DEF Flying, Values
  <2>6. World' \subseteq World
    BY <2>1, <2>5
  <2>. QED  BY <2>1, <2>6, WorldShrinks
<1>5. ASSUME NEW f \in Files, Ask(f)
      PROVE  WorldInv'
  <2>. DEFINE r == [id |-> next_id, run |-> run, file |-> f]
  <2>1. /\ ask = {} /\ run' = run /\ next_id' = next_id + 1
        /\ UNCHANGED <<dialogs, opening, toDaemon>>
    BY <1>5 DEF Ask
  <2>2. CASE UNCHANGED <<ask, toGui>>
    BY <2>1, <2>2, <1>2, WorldGrows
  <2>3. CASE ask' = {r} /\ client \in fds /\ toGui' = [toGui EXCEPT ![client] = Append(@, r)]
    <3>1. r \in Requests /\ client \in Conns
      <4>1. next_id \in 1 .. MaxIds /\ run \in 1 .. MaxRuns
        BY <1>5, SystemAssumption DEF Ask, SystemInv, CountTypes
      <4>. QED  BY <4>1, <2>3 DEF Requests, SystemInv, LinkTypes
    <3>. HIDE DEF r
    <3>2. Values(Append(toGui[client], r)) = Values(toGui[client]) \cup {r}
      BY <1>1, <3>1, AppendValues
    <3>3. Values(toGui[client]) \subseteq Flying(toGui)
      BY <3>1 DEF Flying
    <3>4. Flying(toGui') \subseteq Flying(toGui) \cup {r}
      BY <1>1, <2>3, <3>1, <3>2, <3>3, FlyingExcept
    <3>5. Flying(toGui)' \subseteq Flying(toGui) \cup {r} /\ Flying(toDaemon)' = Flying(toDaemon)
      BY <2>1, <3>4 DEF Flying, Values
    <3>6. World' \subseteq World \cup {r} /\ ask' \subseteq {r}
      BY <2>1, <2>3, <3>5
    <3>7. r = [id |-> next_id, run |-> run, file |-> f]
      BY DEF r
    <3>. QED  BY <2>1, <3>6, <3>7, WorldGrows
  <2>. QED  BY <1>5, <2>2, <2>3 DEF Ask
<1>6. CASE Timeout
  <2>1. UNCHANGED <<toGui, toDaemon, dialogs, opening, run, next_id>> /\ ask' = {}
    BY <1>6 DEF Timeout, guiVars
  <2>. QED  BY <2>1, <1>2, WorldShrinks
<1>7. CASE ServeGui
  <2>1. /\ UNCHANGED <<toGui, toDaemon, ask, run, next_id>>
        /\ dialogs' \cup opening' \subseteq dialogs \cup opening
    BY <1>7 DEF ServeGui, Present, sockVars, daemonEnds
  <2>. QED  BY <2>1, <1>2, WorldShrinks
<1>8. CASE Die
  <2>1. /\ UNCHANGED <<dialogs, opening, run, next_id>> /\ ask' = {}
        /\ toGui' = [c \in Conns |-> <<>>] /\ toDaemon' = [c \in Conns |-> <<>>]
    BY <1>8 DEF Die
  <2>2. Flying(toGui') = {} /\ Flying(toDaemon') = {}
    BY <2>1, EmptyValues DEF Flying
  <2>3. Flying(toGui)' = {} /\ Flying(toDaemon)' = {}
    BY <2>2 DEF Flying, Values
  <2>. QED  BY <2>1, <2>3, WorldShrinks
<1>9. CASE Start
  <2>1. UNCHANGED <<toGui, toDaemon, ask, dialogs, opening>> /\ run' = run + 1
    BY <1>9 DEF Start
  <2>. QED  BY <2>1, <1>2, WorldShrinks
<1>. QED
  BY <1>3, <1>4, <1>5, <1>6, <1>7, <1>8, <1>9 DEF Daemon

LEMMA WorldStep ==
    ASSUME SystemInv, WorldInv, [Next]_vars
    PROVE  WorldInv'
<1>1. CASE Gui
  BY <1>1, GuiWorld, WorldShrinks
<1>2. CASE Daemon
  BY <1>2, DaemonWorld
<1>3. CASE UNCHANGED vars
  <2>1. World' = World /\ UNCHANGED <<ask, run, next_id>>
    BY <1>3 DEF vars, guiVars, sockVars, daemonEnds, World, Flying, Values
  <2>. QED  BY <2>1, WorldShrinks
<1>. QED  BY <1>1, <1>2, <1>3 DEF Next

LEMMA WorldInvariant == Spec => []WorldInv
BY InitWorld, WorldStep, SystemInvariant, PTL DEF Spec

\* Within a run of the daemon an answer that ends the wait is for the file
\* that was asked about, however late and over whichever connection it comes.
THEOREM AnswersWithinARun == Spec => SameRunConsent
<1>1. ASSUME SystemInv, WorldInv
      PROVE  \A c \in Conns : \A q \in ask :
                Take(c) /\ q \notin ask' =>
                    \/ Head(toDaemon[c]).run # q.run
                    \/ Head(toDaemon[c]).file = q.file
  <2>1. SUFFICES ASSUME NEW c \in Conns, NEW q \in ask, Take(c), q \notin ask',
                        Head(toDaemon[c]).run = q.run
                 PROVE  Head(toDaemon[c]).file = q.file
    OBVIOUS
  <2>. DEFINE r == Head(toDaemon[c])
  <2>2. Matches(r)
    BY <2>1 DEF Take
  <2>3. PICK p \in ask : p.id = r.id
    BY <2>2 DEF Matches
  <2>4. r \in Values(toDaemon[c])
    BY <1>1, <2>1, HeadTailValues DEF Take, SystemInv, RequestTypes
  <2>5. r \in World /\ q \in World
    BY <2>1, <2>4 DEF World, Flying
  <2>6. p = q
    BY <1>1 DEF WorldInv
  <2>. HIDE DEF r
  <2>7. r = q
    BY <1>1, <2>1, <2>3, <2>5, <2>6 DEF WorldInv, r
  <2>. QED  BY <2>7 DEF r
<1>2. SystemInv /\ WorldInv =>
         [\A c \in Conns : \A q \in ask :
            Take(c) /\ q \notin ask' =>
                \/ Head(toDaemon[c]).run # q.run
                \/ Head(toDaemon[c]).file = q.file]_vars
  BY <1>1
<1>. QED  BY <1>2, SystemInvariant, WorldInvariant, PTL DEF Spec, SameRunConsent
=============================================================================
