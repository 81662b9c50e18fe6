----------------------------- MODULE GateProofs -----------------------------
(***************************************************************************)
(* ExecMonitor implements Gate, for every set of processes, files and      *)
(* digests, every batch size, every client, with or without other          *)
(* instances, failing reads and a database on the marked mount; the one    *)
(* hypothesis is that the database takes its reads and writes.             *)
(***************************************************************************)
EXTENDS ExecMonitorProofs

-----------------------------------------------------------------------------
(* What the thread knows of the event in hand.                             *)

Undecided == ~Unchecked(Ev) /\ Digest \notin db

AllowGrounds ==
    \/ IoFaults
    \/ Unchecked(Ev)
    \/ Digest \in db
    \/ "once" \in Heard(answer)
    \/ ~DefaultDeny /\ answer # "none" /\ Heard(answer) = {}

DenyGrounds ==
    /\ answer # "none"
    /\ "always" \notin Heard(answer) /\ "once" \notin Heard(answer)
    /\ DefaultDeny \/ "deny" \in Heard(answer)

GateInv ==
    /\ loop \in {"read", "handle", "ask", "down"} => answer = "none"
    /\ loop \in {"add", "journal"} => answer = "none" \/ "always" \in Heard(answer)
    /\ loop = "respond" => verdict \in {"allow", "deny"}
    /\ loop = "respond" /\ verdict = "allow" => AllowGrounds
    /\ loop = "respond" /\ verdict = "deny" => DenyGrounds

\* The codes of ipc_server.h differ: at most one button is heard.
LEMMA HeardOne ==
    ASSUME NEW a
    PROVE  \/ Heard(a) = {} \/ Heard(a) = {"once"}
           \/ Heard(a) = {"always"} \/ Heard(a) = {"deny"}
BY DEF Heard, Buttons, ServerCodes

LEMMA DecisionGrounds ==
    ASSUME NEW a \in Answers
    PROVE  /\ Decision(a) = 1 => "always" \in Heard(a)
           /\ Decision(a) = 0 => \/ "once" \in Heard(a)
                                 \/ ~DefaultDeny /\ Heard(a) = {}
           /\ Decision(a) = -1 => /\ "always" \notin Heard(a) /\ "once" \notin Heard(a)
                                  /\ DefaultDeny \/ "deny" \in Heard(a)
<1>1. Heard(a) = {} => Decision(a) = IF DefaultDeny THEN -1 ELSE 0
  BY ButtonsDecide DEF DefaultDecision
<1>. QED  BY <1>1, HeardOne, ButtonsDecide

LEMMA GateInvStep ==
    ASSUME ~DbFaults, CacheBacked, GateInv, [Next]_vars
    PROVE  GateInv'
<1>. USE DEF GateInv, Conclude
<1>1. ASSUME ReadEvents \/ Respond \/ LoopExit \/ Crash \/ Start
      PROVE  loop' \in {"read", "handle", "down"} /\ answer' = "none"
  BY <1>1 DEF ReadEvents, Respond, NextEvent, LoopExit, Crash, Gone, Start
<1>2. ASSUME Learn \/ AskUser \/ AddOpensJournal
      PROVE  GateInv'
  BY <1>2 DEF Learn, AskUser, AddOpensJournal
<1>3. ASSUME AllowUnchecked \/ CacheHit \/ DbHit
      PROVE  GateInv'
  BY <1>3 DEF AllowUnchecked, CacheHit, DbHit, CacheBacked, AllowGrounds,
              Unchecked, Digest, Ev
<1>4. ASSUME NEW a \in Answers, UserAnswers(a)
      PROVE  GateInv'
  <2>1. loop = "ask" /\ answer' = a /\ answer' # "none"
    BY <1>4 DEF UserAnswers, Answers, Buttons
  <2>2. CASE Decision(a) = 1 /\ loop' = "add"
    BY <2>1, <2>2, DecisionGrounds
  <2>3. CASE Decision(a) = 0 /\ Conclude("allow")
    BY <2>1, <2>3, DecisionGrounds DEF AllowGrounds
  <2>4. CASE Decision(a) = -1 /\ Conclude("deny")
    BY <2>1, <2>4, DecisionGrounds DEF DenyGrounds
  <2>. QED  BY <1>4, <2>2, <2>3, <2>4 DEF UserAnswers
<1>5. CASE AddDigest
  BY <1>5 DEF AddDigest, AllowGrounds, Digest, Ev
<1>6. ASSUME (\E p \in Procs, f \in Files, m \in Masks : Attempt(p, f, m))
             \/ Signal \/ (\E h \in Foreign : OtherInstanceAdds(h)) \/ UNCHANGED vars
      PROVE  GateInv'
  <2>1. UNCHANGED <<batch, loop, answer, verdict>> /\ db \subseteq db'
    BY <1>6 DEF Attempt, Signal, OtherInstanceAdds, vars
  <2>2. (AllowGrounds => AllowGrounds') /\ (DenyGrounds => DenyGrounds')
    BY <2>1 DEF AllowGrounds, DenyGrounds, Unchecked, Digest, Ev
  <2>. QED  BY <2>1, <2>2
<1>. QED
  BY <1>1, <1>2, <1>3, <1>4, <1>5, <1>6 DEF Next, LoopStep, Environment

LEMMA GateInvariant == ASSUME ~DbFaults PROVE Spec => []GateInv
<1>1. Init => GateInv /\ CacheBacked
  BY DEF Init, GateInv, CacheBacked
<1>2. GateInv /\ CacheBacked /\ [Next]_vars => GateInv' /\ CacheBacked'
  BY GateInvStep, CacheStep
<1>. QED  BY <1>1, <1>2, PTL DEF Spec

-----------------------------------------------------------------------------
(* The refinement mapping.                                                 *)

MapWaiting == outstanding \ {JournalEvent}

MapUnknown == IF LookedUp THEN {Ev} ELSE {}

MapSaid ==
    IF loop = "respond" THEN {Ev} \X (Heard(answer) \cap {"once", "deny"}) ELSE {}

\* The event in hand is one of those that wait.
LEMMA HandWaits ==
    ASSUME TypeInv, EveryEventHeld, loop \in InHand
    PROVE  Ev \in MapWaiting /\ Ev \in Event
<1>1. /\ Waiting \in Seq(AnyEvent) /\ Waiting # <<>> /\ Head(Waiting) = Ev
  BY WaitingTyped, HandIsFirst
<1>2. 1 \in DOMAIN Waiting /\ Waiting[1] = Ev
  BY <1>1, HeadTailProperties, LenProperties, EmptySeq
<1>3. Ev \in Elems(Waiting)
  BY <1>2 DEF Elems
<1>4. Ev # JournalEvent
  BY EvTyped, FilesAssumption DEF TypeInv, JournalEvent
<1>. QED  BY <1>3, <1>4, HeldIsWaiting, EvTyped DEF TypeInv, MapWaiting

LEMMA AttemptCalls ==
    ASSUME NEW p \in Procs, NEW f \in Files, NEW m \in Masks, Attempt(p, f, m)
    PROVE  Promise!Next
<1>. DEFINE e == [proc |-> p, file |-> f, mask |-> m]
<1>1. e \in Event /\ e.proc = p /\ e # JournalEvent
  BY FilesAssumption DEF Event, JournalEvent
<1>2. /\ outstanding' = outstanding \cup {e}
      /\ \A d \in outstanding : d.proc # p
      /\ result' = [result EXCEPT ![p] = "none"]
      /\ UNCHANGED <<db, loop, answer, batch>>
  BY DEF Attempt, Raise, Blocked
<1>3. MapSaid' = MapSaid /\ MapUnknown' = MapUnknown
  BY <1>2 DEF MapSaid, MapUnknown, LookedUp, Ev
<1>. HIDE DEF e
<1>4. MapWaiting' = MapWaiting \cup {e}
  BY <1>1, <1>2 DEF MapWaiting
<1>5. Promise!Call(e)
  BY <1>1, <1>2, <1>3, <1>4
     DEF Promise!Call, MapSaid, MapUnknown, MapWaiting
<1>. QED  BY <1>1, <1>5 DEF Promise!Next

\* The database lookup finds nothing.
LEMMA LookupMisses ==
    ASSUME ~DbFaults, TypeInv, EveryEventHeld, GateInv, Learn \/ AskUser
    PROVE  Promise!Next
<1>1. /\ loop = "handle" /\ loop \in InHand /\ loop' \in {"add", "ask"}
      /\ Undecided /\ UNCHANGED <<outstanding, result, db, batch>>
  BY DEF Learn, AskUser, Unknown, Undecided, kernelVars, InHand
<1>2. MapUnknown = {} /\ MapUnknown' = {Ev} /\ MapSaid' = MapSaid
  BY <1>1 DEF MapUnknown, MapSaid, LookedUp, Ev
<1>3. Ev \in MapWaiting /\ Ev \in Event
  BY <1>1, HandWaits
<1>4. Promise!Miss(Ev)
  BY <1>1, <1>2, <1>3
     DEF Promise!Miss, Undecided, Digest, MapUnknown, MapSaid, MapWaiting
<1>. QED  BY <1>3, <1>4 DEF Promise!Next

LEMMA AnswerSays ==
    ASSUME TypeInv, EveryEventHeld, GateInv, NEW a \in Answers, UserAnswers(a)
    PROVE  [Promise!Next]_(Promise!gateVars)
<1>1. /\ loop = "ask" /\ loop \in InHand /\ MapSaid = {} /\ MapUnknown = {Ev}
      /\ UNCHANGED <<outstanding, result, db, batch>>
      /\ answer' = a /\ a # "none"
  BY DEF UserAnswers, kernelVars, MapSaid, MapUnknown, LookedUp, InHand,
         Answers, Buttons
<1>2. loop' = "add" \/ (loop' = "respond" /\ "always" \notin Heard(a))
  BY ButtonsDecide DEF UserAnswers, Conclude
<1>3. MapUnknown' = {Ev}
  BY <1>1, <1>2 DEF MapUnknown, LookedUp, Ev
<1>4. ASSUME NEW b \in {"once", "deny"}, Heard(a) = {b}, loop' = "respond"
      PROVE  Promise!Next
  <2>1. Heard(a) \cap {"once", "deny"} = {b}
    BY <1>4
  <2>2. MapSaid' = {<<Ev, b>>}
    BY <1>1, <1>4, <2>1 DEF MapSaid, Ev
  <2>3. Promise!Say(Ev, b)
    BY <1>1, <1>3, <2>2 DEF Promise!Say, MapSaid, MapUnknown
  <2>. QED  BY <1>1, <2>3, HandWaits DEF Promise!Next
<1>5. ASSUME loop' = "add" \/ (loop' = "respond" /\ Heard(a) = {})
      PROVE  UNCHANGED Promise!gateVars
  <2>1. MapSaid' = {}
    BY <1>1, <1>5 DEF MapSaid
  <2>. QED  BY <1>1, <1>3, <2>1 DEF Promise!gateVars, MapSaid, MapUnknown
<1>. QED  BY <1>2, <1>4, <1>5, HeardOne

LEMMA AddApproves ==
    ASSUME ~DbFaults, TypeInv, EveryEventHeld, GateInv, AddDigest
    PROVE  Promise!Next
<1>1. /\ loop = "add" /\ loop \in InHand /\ loop' = "respond"
      /\ db' = db \cup {Ev.file.hash}
      /\ answer = "none" \/ "always" \in Heard(answer)
      /\ UNCHANGED <<outstanding, result, batch, answer>>
  BY DEF AddDigest, kernelVars, InHand, Digest, Conclude, GateInv
<1>2. Heard(answer) \cap {"once", "deny"} = {}
  BY <1>1, HeardNone, HeardOne
<1>3. MapSaid = {} /\ MapSaid' = {}
  BY <1>1, <1>2 DEF MapSaid, Ev
<1>4. MapUnknown = {Ev} /\ MapUnknown' = {}
  BY <1>1 DEF MapUnknown, LookedUp
<1>5. MapUnknown' = MapUnknown \ {Ev}
  BY <1>4
<1>6. Promise!Approve(Ev)
  BY <1>1, <1>3, <1>4, <1>5 DEF Promise!Approve, MapSaid, MapUnknown
<1>. QED  BY <1>1, <1>6, HandWaits DEF Promise!Next

LEMMA RespondDecides ==
    ASSUME TypeInv, EveryEventHeld, GateInv, Respond
    PROVE  Promise!Next
<1>1. /\ loop = "respond" /\ loop \in InHand
      /\ loop' \in {"read", "handle"} /\ db' = db
      /\ MapSaid' = {} /\ MapUnknown' = {}
  BY DEF Respond, NextEvent, InHand, MapSaid, MapUnknown, LookedUp
<1>2. Ev \in MapWaiting /\ Ev \in Event
  BY <1>1, HandWaits
<1>3. /\ MapSaid' = {s \in MapSaid : s[1] # Ev}
      /\ MapUnknown' = MapUnknown \ {Ev}
  BY <1>1 DEF MapSaid, MapUnknown
<1>4. /\ <<Ev, "once">> \in MapSaid <=> "once" \in Heard(answer)
      /\ <<Ev, "deny">> \in MapSaid <=> "deny" \in Heard(answer)
  BY <1>1 DEF MapSaid
<1>5. Ev \in MapUnknown <=> answer # "none" /\ "always" \notin Heard(answer)
  BY <1>1 DEF MapUnknown, LookedUp
<1>6. CASE verdict = "allow"
  <2>1. Promise!Permitted(Ev)
    BY <1>1, <1>2, <1>4, <1>5, <1>6
       DEF GateInv, AllowGrounds, Digest, Promise!Permitted, MapSaid, MapUnknown
  <2>2. Promise!Forget(Ev)
    BY <1>3 DEF Promise!Forget, MapSaid, MapUnknown
  <2>3. CASE Ev.mask = "exec" /\ MonitorSharedLibs
    <3>. DEFINE next == [Ev EXCEPT !.mask = "open"]
    <3>1. /\ outstanding' = (outstanding \ {Ev}) \cup {next}
          /\ UNCHANGED result
      BY <1>6, <2>3 DEF Respond, Deliver
    <3>2. next \in Event
      BY <1>2 DEF Event, Masks
    <3>3. next # JournalEvent
      BY <3>2, FilesAssumption DEF Event, JournalEvent
    <3>. HIDE DEF next
    <3>4. MapWaiting' = (MapWaiting \ {Ev}) \cup {next}
      BY <3>1, <3>3 DEF MapWaiting
    <3>. USE DEF next
    <3>. QED  BY <1>1, <1>2, <2>1, <2>2, <2>3, <3>1, <3>4
                 DEF Promise!Allow, Promise!Next, MapWaiting
  <2>4. CASE ~(Ev.mask = "exec" /\ MonitorSharedLibs)
    <3>1. /\ outstanding' = outstanding \ {Ev}
          /\ result' = [result EXCEPT ![Ev.proc] = verdict]
      BY <2>4 DEF Respond, Deliver
    <3>2. MapWaiting' = MapWaiting \ {Ev}
      BY <3>1 DEF MapWaiting
    <3>. QED  BY <1>1, <1>2, <1>6, <2>1, <2>2, <2>4, <3>1, <3>2
                 DEF Promise!Allow, Promise!Next, MapWaiting
  <2>. QED  BY <2>3, <2>4
<1>7. CASE verdict = "deny"
  <2>1. Promise!Refused(Ev)
    BY <1>1, <1>4, <1>5, <1>7
       DEF GateInv, DenyGrounds, Promise!Refused, MapSaid, MapUnknown
  <2>2. /\ outstanding' = outstanding \ {Ev}
        /\ result' = [result EXCEPT ![Ev.proc] = verdict]
    BY <1>7 DEF Respond, Deliver
  <2>3. MapWaiting' = MapWaiting \ {Ev}
    BY <2>2 DEF MapWaiting
  <2>4. Promise!Deny(Ev)
    BY <1>1, <1>2, <1>3, <1>7, <2>1, <2>2, <2>3
       DEF Promise!Deny, Promise!Forget, MapSaid, MapUnknown, MapWaiting
  <2>. QED  BY <1>2, <2>4 DEF Promise!Next
<1>. QED  BY <1>1, <1>6, <1>7 DEF GateInv

\* The daemon's own open of the journal does not wait in the gate.
LEMMA GoneAbandons ==
    ASSUME Gone
    PROVE  Promise!Next
<1>1. \A p \in Procs : Blocked(p) <=> \E c \in MapWaiting : c.proc = p
  BY FilesAssumption DEF Blocked, MapWaiting, JournalEvent
<1>2. /\ MapWaiting' = {} /\ MapSaid' = {} /\ MapUnknown' = {}
      /\ db' = db
      /\ result' = [p \in Procs |-> IF Blocked(p) THEN "released" ELSE result[p]]
  BY DEF Gone, ReleaseAll, MapWaiting, MapSaid, MapUnknown, LookedUp
<1>3. result' = [p \in Procs |-> IF \E c \in MapWaiting : c.proc = p
                                 THEN "released" ELSE result[p]]
  BY <1>1, <1>2
<1>4. Promise!Abandon
  BY <1>2, <1>3 DEF Promise!Abandon, MapWaiting, MapSaid, MapUnknown
<1>. QED  BY <1>4 DEF Promise!Next

LEMMA GateStep ==
    ASSUME ~DbFaults, TypeInv, EveryEventHeld, GateInv, [Next]_vars
    PROVE  [Promise!Next]_(Promise!gateVars)
<1>1. CASE ReadEvents \/ AllowUnchecked \/ CacheHit \/ DbHit \/ AddOpensJournal
           \/ Signal \/ Start \/ UNCHANGED vars
  <2>1. MapWaiting' = MapWaiting /\ UNCHANGED <<result, db>>
    BY <1>1 DEF ReadEvents, AllowUnchecked, CacheHit, DbHit, AddOpensJournal,
                Raise, Signal, Start, kernelVars, vars, MapWaiting
  <2>2. MapSaid' = MapSaid /\ MapUnknown' = MapUnknown
    BY <1>1, HeardNone
       DEF ReadEvents, AllowUnchecked, CacheHit, DbHit, AddOpensJournal,
           Signal, Start, vars, Conclude, GateInv, MapSaid, MapUnknown,
           LookedUp, Ev
  <2>. QED  BY <2>1, <2>2 DEF Promise!gateVars, MapWaiting, MapSaid, MapUnknown
<1>2. CASE Learn \/ AskUser
  BY <1>2, LookupMisses
<1>3. ASSUME NEW a \in Answers, UserAnswers(a)
      PROVE  [Promise!Next]_(Promise!gateVars)
  BY <1>3, AnswerSays
<1>4. CASE AddDigest
  BY <1>4, AddApproves
<1>5. CASE Respond
  BY <1>5, RespondDecides
<1>6. CASE LoopExit \/ Crash
  BY <1>6, GoneAbandons DEF LoopExit, Crash
<1>7. ASSUME NEW p \in Procs, NEW f \in Files, NEW m \in Masks, Attempt(p, f, m)
      PROVE  [Promise!Next]_(Promise!gateVars)
  BY <1>7, AttemptCalls
<1>8. ASSUME NEW h \in Foreign, OtherInstanceAdds(h)
      PROVE  [Promise!Next]_(Promise!gateVars)
  <2>1. /\ db' = db \cup {h}
        /\ UNCHANGED <<outstanding, result, MapSaid, MapUnknown>>
    BY <1>8 DEF OtherInstanceAdds, kernelVars, MapSaid, MapUnknown, LookedUp, Ev
  <2>2. Promise!ApprovedElsewhere(h)
    BY <2>1 DEF Promise!ApprovedElsewhere, MapSaid, MapUnknown
  <2>. QED  BY <2>2 DEF Promise!Next
<1>. QED
  BY <1>1, <1>2, <1>3, <1>4, <1>5, <1>6, <1>7, <1>8
     DEF Next, LoopStep, Environment

\* The event loop, with its batches, lookups, prompts, restarts, modes, failing
\* reads and the digests other instances record, does nothing the one-step gate
\* could not do, as long as the database takes its reads and writes.
THEOREM MonitorImplementsGate == ASSUME ~DbFaults PROVE Spec => GatePromise
<1>1. Init => Promise!Init
  BY DEF Init, LookedUp, Promise!Init
<1>2. TypeInv /\ EveryEventHeld /\ GateInv /\ [Next]_vars
        => [Promise!Next]_(Promise!gateVars)
  BY GateStep
<1>. QED
  BY <1>1, <1>2, TypeInvariant, NoEventLost, GateInvariant, PTL
     DEF Spec, GatePromise, Promise!Spec
=============================================================================
