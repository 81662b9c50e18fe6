------------------------- MODULE ExecMonitorProofs -------------------------
(***************************************************************************)
(* Theorems about ExecMonitor, for every set of processes, files and       *)
(* digests, every batch size and every setting not excluded by a           *)
(* hypothesis of the theorem.                                              *)
(***************************************************************************)
EXTENDS ExecMonitor, TLAPS, SequenceTheorems

\* The journal event stays in the queue: the thread never reads it, because it
\* is inside whitelist_add() until the process ends.
QueueTyped == loop # "journal" => kq \in Seq(Event)

TypeInv == TypeOK /\ QueueTyped

-----------------------------------------------------------------------------
(* Type correctness.                                                       *)

LEMMA EvTyped ==
    ASSUME TypeOK, loop \in InHand
    PROVE  /\ Ev \in Event
           /\ Ev.proc \in Procs /\ Ev.file \in Files /\ Ev.mask \in Masks
           /\ Digest \in Hashes
           /\ Tail(batch) \in Seq(Event)
<1>1. batch \in Seq(Event) /\ batch # <<>>
  BY DEF TypeOK
<1>2. Ev \in Event /\ Tail(batch) \in Seq(Event)
  BY <1>1, HeadTailProperties DEF Ev
<1>3. Ev.file \in Files
  BY <1>2 DEF Event
<1>4. Digest \in Hashes
  BY <1>3, FilesAssumption DEF Digest
<1>. QED  BY <1>2, <1>3, <1>4 DEF Event

LEMMA NextEventTyped ==
    ASSUME TypeOK, loop \in InHand, NextEvent
    PROVE  /\ batch' \in Seq(Event)
           /\ loop' \in {"read", "handle"}
           /\ batch' # <<>> <=> loop' \in InHand
BY EvTyped DEF NextEvent, InHand

LEMMA GoneTyped ==
    ASSUME TypeInv, Gone
    PROVE  TypeInv'
<1>1. result' \in [Procs -> {"none", "allow", "deny", "released"}]
  BY DEF TypeInv, TypeOK, Gone, ReleaseAll
<1>. QED  BY <1>1, EmptySeq DEF TypeInv, TypeOK, QueueTyped, Gone, ReleaseAll, InHand

LEMMA TypeInit == Init => TypeInv
BY EmptySeq DEF Init, TypeInv, TypeOK, QueueTyped, InHand

LEMMA TypeStep ==
    ASSUME TypeInv, [Next]_vars
    PROVE  TypeInv'
<1>. USE DEF TypeInv, TypeOK, QueueTyped, InHand, kernelVars
<1>1. CASE ReadEvents
  <2>. DEFINE n == IF Len(kq) < BufEvents THEN Len(kq) ELSE BufEvents
  <2>1. kq \in Seq(Event) /\ kq # <<>> /\ Len(kq) \in Nat /\ Len(kq) >= 1
    BY <1>1, EmptySeq, LenProperties DEF ReadEvents
  <2>2. n \in 1 .. Len(kq)
    BY <2>1, ConfigAssumption
  <2>3. /\ SubSeq(kq, 1, n) \in Seq(Event)
        /\ Len(SubSeq(kq, 1, n)) = n
        /\ SubSeq(kq, n + 1, Len(kq)) \in Seq(Event)
    BY <2>1, <2>2, SubSeqProperties
  <2>4. batch' \in Seq(Event) /\ batch' # <<>> /\ kq' \in Seq(Event)
    BY <1>1, <2>2, <2>3 DEF ReadEvents
  <2>5. kq' \in Seq(Event \cup {JournalEvent})
    BY <2>4
  <2>. QED  BY <1>1, <2>4, <2>5 DEF ReadEvents
<1>2. CASE AllowUnchecked
  BY <1>2 DEF AllowUnchecked, Conclude
<1>3. CASE CacheHit
  BY <1>3 DEF CacheHit, Conclude
<1>4. CASE DbHit
  BY <1>4, EvTyped DEF DbHit, CacheAdd, Conclude
<1>5. CASE Learn
  BY <1>5 DEF Learn
<1>6. CASE AskUser
  BY <1>6 DEF AskUser
<1>7. ASSUME NEW a \in Answers, UserAnswers(a)
      PROVE  TypeInv'
  BY <1>7 DEF UserAnswers, Conclude
<1>8. CASE AddOpensJournal
  <2>1. kq' \in Seq(Event \cup {JournalEvent})
    BY <1>8, AppendProperties DEF AddOpensJournal, Raise
  <2>. QED  BY <1>8, <2>1 DEF AddOpensJournal, Raise
<1>9. CASE AddDigest
  BY <1>9, EvTyped DEF AddDigest, CacheAdd, Conclude
<1>10. CASE Respond
  <2>1. Ev \in Event /\ Ev.proc \in Procs
    BY <1>10, EvTyped DEF Respond
  <2>2. [Ev EXCEPT !.mask = "open"] \in Event
    BY <2>1 DEF Event, Masks
  <2>3. kq \in Seq(Event)
    BY <1>10 DEF Respond
  <2>4. /\ outstanding' \in SUBSET (Event \cup {JournalEvent})
        /\ kq' \in Seq(Event)
        /\ result' \in [Procs -> {"none", "allow", "deny", "released"}]
    <3>1. CASE verdict = "allow" /\ Ev.mask = "exec" /\ MonitorSharedLibs
      <4>. DEFINE next == [Ev EXCEPT !.mask = "open"]
      <4>1. /\ outstanding' = (outstanding \ {Ev}) \cup {next}
            /\ kq' = Append(kq, next)
            /\ result' = result
        BY <1>10, <3>1 DEF Respond, Deliver
      <4>2. next \in Event
        BY <2>2
      <4>3. kq' \in Seq(Event)
        BY <2>3, <4>1, <4>2, AppendProperties
      <4>. HIDE DEF next
      <4>. QED  BY <4>1, <4>2, <4>3
    <3>2. CASE ~(verdict = "allow" /\ Ev.mask = "exec" /\ MonitorSharedLibs)
      BY <1>10, <2>1, <2>3, <3>2 DEF Respond, Deliver
    <3>. QED  BY <3>1, <3>2
  <2>5. kq' \in Seq(Event \cup {JournalEvent})
    BY <2>4
  <2>6. /\ batch' \in Seq(Event)
        /\ loop' \in {"read", "handle"}
        /\ batch' # <<>> <=> loop' \in InHand
    BY <1>10, NextEventTyped DEF Respond
  <2>. QED  BY <1>10, <2>4, <2>5, <2>6 DEF Respond
<1>11. CASE LoopExit
  BY <1>11, GoneTyped DEF LoopExit
<1>12. ASSUME NEW p \in Procs, NEW f \in Files, NEW m \in Masks, Attempt(p, f, m)
       PROVE  TypeInv'
  <2>. DEFINE e == [proc |-> p, file |-> f, mask |-> m]
  <2>1. e \in Event
    BY DEF Event
  <2>2. kq' = Append(kq, e) /\ outstanding' = outstanding \cup {e}
    BY <1>12 DEF Attempt, Raise
  <2>3. kq' \in Seq(Event \cup {JournalEvent})
    BY <2>1, <2>2, AppendProperties
  <2>4. QueueTyped'
    BY <1>12, <2>1, <2>2, AppendProperties DEF Attempt
  <2>. QED  BY <1>12, <2>1, <2>2, <2>3, <2>4 DEF Attempt
<1>13. CASE Signal
  BY <1>13 DEF Signal
<1>14. CASE Crash
  BY <1>14, GoneTyped DEF Crash
<1>15. CASE Start
  BY <1>15 DEF Start
<1>16. CASE UNCHANGED vars
  BY <1>16 DEF vars, Ev, Digest
<1>17. ASSUME NEW h \in Foreign, OtherInstanceAdds(h)
       PROVE  TypeInv'
  BY <1>17, ConfigAssumption DEF OtherInstanceAdds
<1>. QED
  BY <1>1, <1>2, <1>3, <1>4, <1>5, <1>6, <1>7, <1>8, <1>9, <1>10, <1>11,
     <1>12, <1>13, <1>14, <1>15, <1>16, <1>17
     DEF Next, LoopStep, Environment

LEMMA TypeInvariant == Spec => []TypeInv
<1>1. TypeInv /\ [Next]_vars => TypeInv'
  BY TypeStep
<1>. QED  BY TypeInit, <1>1, PTL DEF Spec

\* Every variable keeps its type, and the thread has an event in hand exactly
\* between read() and the end of the batch.
THEOREM TypeCorrect == Spec => []TypeOK
<1>1. TypeInv => TypeOK
  BY DEF TypeInv
<1>. QED  BY TypeInvariant, <1>1, PTL

-----------------------------------------------------------------------------
(* The cache and the database.                                             *)

LEMMA CacheStep ==
    ASSUME ~DbFaults, CacheBacked, [Next]_vars
    PROVE  CacheBacked'
BY DEF CacheBacked, Next, LoopStep, Environment, vars, kernelVars, ReadEvents,
       AllowUnchecked, CacheHit, DbHit, CacheAdd, Learn, AskUser, UserAnswers,
       AddOpensJournal, AddDigest, Respond, LoopExit, Gone, Attempt, Signal,
       Crash, Start, OtherInstanceAdds

\* As long as the database takes its writes, what is allowed from memory is on
\* disk: whitelist_add() always comes before cache_add().
THEOREM CacheIsBacked == ASSUME ~DbFaults PROVE Spec => []CacheBacked
<1>1. Init => CacheBacked
  BY DEF Init, CacheBacked
<1>2. CacheBacked /\ [Next]_vars => CacheBacked'
  BY CacheStep
<1>. QED  BY <1>1, <1>2, PTL DEF Spec

-----------------------------------------------------------------------------
(* Denials.  A digest that is not in the cache when it is looked up stays  *)
(* out of it while the user is asked and until the answer is written.      *)

UncachedHeld ==
    loop \in {"ask", "add", "journal"} \/ (loop = "respond" /\ verdict = "deny")
        => Digest \notin cache

LEMMA UncachedStep ==
    ASSUME UncachedHeld, [Next]_vars
    PROVE  UncachedHeld'
<1>. USE DEF UncachedHeld, Unknown, Digest, Ev
<1>1. ASSUME ReadEvents \/ Respond \/ LoopExit \/ Crash \/ Start
      PROVE  loop' \in {"read", "handle", "down"}
  BY <1>1 DEF ReadEvents, Respond, NextEvent, LoopExit, Crash, Gone, Start
<1>2. ASSUME AllowUnchecked \/ CacheHit \/ DbHit \/ AddDigest
      PROVE  loop' = "respond" /\ verdict' = "allow"
  BY <1>2 DEF AllowUnchecked, CacheHit, DbHit, AddDigest, Conclude
<1>3. ASSUME Learn \/ AskUser \/ AddOpensJournal
      PROVE  UncachedHeld'
  BY <1>3 DEF Learn, AskUser, AddOpensJournal
<1>4. ASSUME NEW a \in Answers, UserAnswers(a)
      PROVE  UncachedHeld'
  BY <1>4 DEF UserAnswers, Conclude
<1>5. ASSUME (\E p \in Procs, f \in Files, m \in Masks : Attempt(p, f, m))
             \/ Signal \/ (\E h \in Foreign : OtherInstanceAdds(h)) \/ UNCHANGED vars
      PROVE  UncachedHeld'
  <2>1. UNCHANGED <<batch, loop, verdict, cache>>
    BY <1>5 DEF Attempt, Signal, OtherInstanceAdds, vars
  <2>. QED  BY <2>1
<1>. QED
  BY <1>1, <1>2, <1>3, <1>4, <1>5 DEF Next, LoopStep, Environment

LEMMA UncachedInvariant == Spec => []UncachedHeld
<1>1. Init => UncachedHeld
  BY DEF Init, UncachedHeld
<1>2. UncachedHeld /\ [Next]_vars => UncachedHeld'
  BY UncachedStep
<1>. QED  BY <1>1, <1>2, PTL DEF Spec

\* A digest in the cache is not denied, however long the prompt took and even
\* while the database fails.
THEOREM CachedIsNeverDenied == Spec => []CachedNeverDenied
<1>1. UncachedHeld => CachedNeverDenied
  BY DEF UncachedHeld, CachedNeverDenied
<1>. QED  BY UncachedInvariant, <1>1, PTL

-----------------------------------------------------------------------------
(* Permissions.                                                            *)

\* Both clients known to the sources send a code of "once" for that button
\* only.
LEMMA OnceIsOnce ==
    ASSUME WireCode \in {GuiCodes, ServerCodes}, DefaultDeny,
           NEW a \in Answers, Decision(a) = 0
    PROVE  a = "once"
BY DEF Decision, DefaultDecision, Answers, Buttons, GuiCodes, ServerCodes

LEMMA AllowStep ==
    ASSUME ~DbFaults, ~IoFaults, WireCode \in {GuiCodes, ServerCodes},
           CacheBacked, AllowIsBacked, [Next]_vars
    PROVE  AllowIsBacked'
<1>. USE DEF AllowIsBacked, Digest, Ev
<1>1. ASSUME ReadEvents \/ Respond \/ LoopExit \/ Crash \/ Start
      PROVE  loop' \in {"read", "handle", "down"}
  BY <1>1 DEF ReadEvents, Respond, NextEvent, LoopExit, Crash, Gone, Start
<1>2. ASSUME Learn \/ AskUser \/ AddOpensJournal
      PROVE  loop' \in {"add", "ask", "journal"}
  BY <1>2 DEF Learn, AskUser, AddOpensJournal
<1>3. CASE AllowUnchecked
  BY <1>3 DEF AllowUnchecked, Unchecked, Conclude
<1>4. CASE CacheHit
  BY <1>4 DEF CacheHit, CacheBacked, Conclude
<1>5. CASE DbHit
  BY <1>5 DEF DbHit, Conclude
<1>6. ASSUME NEW a \in Answers, UserAnswers(a)
      PROVE  AllowIsBacked'
  <2>1. CASE Decision(a) = 0 /\ DefaultDeny
    <3>1. answer' = "once"
      BY <1>6, <2>1, OnceIsOnce DEF UserAnswers
    <3>. QED  BY <3>1
  <2>2. CASE ~(Decision(a) = 0 /\ DefaultDeny)
    BY <1>6, <2>2 DEF UserAnswers, Conclude
  <2>. QED  BY <2>1, <2>2
<1>7. CASE AddDigest
  BY <1>7 DEF AddDigest, Conclude
<1>8. ASSUME (\E p \in Procs, f \in Files, m \in Masks : Attempt(p, f, m))
             \/ Signal \/ (\E h \in Foreign : OtherInstanceAdds(h)) \/ UNCHANGED vars
      PROVE  AllowIsBacked'
  <2>1. UNCHANGED <<batch, loop, answer, verdict>> /\ db \subseteq db'
    BY <1>8 DEF Attempt, Signal, OtherInstanceAdds, vars
  <2>. QED  BY <2>1
<1>. QED
  BY <1>1, <1>2, <1>3, <1>4, <1>5, <1>6, <1>7, <1>8
     DEF Next, LoopStep, Environment

\* Under default_deny a checked file runs only if its digest is on disk or the
\* user allowed this very call: no timeout and no absent GUI lets it through.
THEOREM AllowedIsBacked ==
    ASSUME ~DbFaults, ~IoFaults, WireCode \in {GuiCodes, ServerCodes}
    PROVE  Spec => []AllowIsBacked
<1>1. Init => CacheBacked /\ AllowIsBacked
  BY DEF Init, CacheBacked, AllowIsBacked
<1>2. CacheBacked /\ AllowIsBacked /\ [Next]_vars
        => CacheBacked' /\ AllowIsBacked'
  BY CacheStep, AllowStep
<1>. QED  BY <1>1, <1>2, PTL DEF Spec

-----------------------------------------------------------------------------
(* The user's answer.  It belongs to the event in hand: there is none      *)
(* before the prompt, and only "always" leads to whitelist_add().          *)

AnswerInv ==
    /\ loop \in {"read", "handle", "ask", "down"} => answer = "none"
    /\ loop \in {"add", "journal"} => answer = "none" \/ "always" \in Heard(answer)
    /\ AnswerHonoured

\* ask_user_permission() turns the button it hears into its decision, whatever
\* codes the client sends; the three codes of ipc_server.h are different.
LEMMA ButtonsDecide ==
    ASSUME NEW a \in Answers
    PROVE  /\ "always" \in Heard(a) <=> Decision(a) = 1
           /\ "once" \in Heard(a) => Decision(a) = 0
           /\ "deny" \in Heard(a) => Decision(a) = -1
           /\ Heard(a) = {} => Decision(a) = DefaultDecision
<1>1. /\ ServerCodes["once"] = 1 /\ ServerCodes["always"] = 2
      /\ ServerCodes["deny"] = 3
  BY DEF ServerCodes
<1>2. CASE a \in Buttons
  <2>1. /\ "always" \in Heard(a) <=> WireCode[a] = 2
        /\ "once" \in Heard(a) <=> WireCode[a] = 1
        /\ "deny" \in Heard(a) <=> WireCode[a] = 3
    BY <1>1, <1>2 DEF Heard, Buttons
  <2>2. Decision(a) = IF WireCode[a] = 2 THEN 1
                      ELSE IF WireCode[a] = 1 THEN 0
                      ELSE IF WireCode[a] = 3 THEN -1 ELSE DefaultDecision
    BY <1>1, <1>2 DEF Decision
  <2>3. DefaultDecision \in {-1, 0}
    BY DEF DefaultDecision
  <2>. QED  BY <2>1, <2>2, <2>3
<1>3. CASE a \notin Buttons
  BY <1>3 DEF Heard, Decision, DefaultDecision
<1>. QED  BY <1>2, <1>3

LEMMA HeardNone == Heard("none") = {}
BY DEF Heard, Buttons

LEMMA AnswerStep ==
    ASSUME ~DbFaults, AnswerInv, [Next]_vars
    PROVE  AnswerInv'
<1>. USE DEF AnswerInv, AnswerHonoured, Digest, Ev, Conclude
<1>1. CASE ReadEvents
  BY <1>1 DEF ReadEvents
<1>2. ASSUME AllowUnchecked \/ CacheHit \/ DbHit
      PROVE  AnswerInv'
  BY <1>2 DEF AllowUnchecked, CacheHit, DbHit
<1>3. ASSUME Learn \/ AskUser \/ AddOpensJournal
      PROVE  AnswerInv'
  BY <1>3 DEF Learn, AskUser, AddOpensJournal
<1>4. ASSUME NEW a \in Answers, UserAnswers(a)
      PROVE  AnswerInv'
  <2>1. answer' = a /\ answer' # "none"
    BY <1>4 DEF UserAnswers, Answers, Buttons
  <2>2. CASE Decision(a) = 1 /\ loop' = "add"
    BY <2>1, <2>2, ButtonsDecide
  <2>3. CASE Decision(a) = 0 /\ Conclude("allow")
    BY <2>1, <2>3, ButtonsDecide DEF DefaultDecision
  <2>4. CASE Decision(a) = -1 /\ Conclude("deny")
    BY <2>1, <2>4, ButtonsDecide DEF DefaultDecision
  <2>. QED  BY <1>4, <2>2, <2>3, <2>4 DEF UserAnswers
<1>5. CASE AddDigest
  <2>1. /\ loop' = "respond" /\ verdict' = "allow" /\ answer' = answer
        /\ Digest' \in db'
        /\ answer = "none" \/ "always" \in Heard(answer)
    BY <1>5 DEF AddDigest
  <2>2. CASE answer = "none"
    BY <2>1, <2>2
  <2>3. CASE "always" \in Heard(answer)
    <3>1. Heard(answer) # {} /\ "deny" \notin Heard(answer)
      BY <2>3 DEF Heard, ServerCodes
    <3>. QED  BY <2>1, <3>1
  <2>. QED  BY <2>1, <2>2, <2>3
<1>6. ASSUME Respond \/ LoopExit \/ Crash
      PROVE  answer' = "none" /\ loop' \in {"read", "handle", "down"}
  BY <1>6 DEF Respond, NextEvent, LoopExit, Crash, Gone
<1>7. CASE Start
  BY <1>7 DEF Start
<1>8. ASSUME (\E p \in Procs, f \in Files, m \in Masks : Attempt(p, f, m))
             \/ Signal \/ (\E h \in Foreign : OtherInstanceAdds(h)) \/ UNCHANGED vars
      PROVE  AnswerInv'
  <2>1. UNCHANGED <<batch, loop, answer, verdict>> /\ db \subseteq db'
    BY <1>8 DEF Attempt, Signal, OtherInstanceAdds, vars
  <2>. QED  BY <2>1
<1>. QED
  BY <1>1, <1>2, <1>3, <1>4, <1>5, <1>6, <1>7, <1>8
     DEF Next, LoopStep, Environment

LEMMA AnswerInvariant == ASSUME ~DbFaults PROVE Spec => []AnswerInv
<1>1. Init => AnswerInv
  BY DEF Init, AnswerInv, AnswerHonoured
<1>2. AnswerInv /\ [Next]_vars => AnswerInv'
  BY AnswerStep
<1>. QED  BY <1>1, <1>2, PTL DEF Spec

\* Whatever codes the client sends, the verdict is the one of the answer the
\* daemon heard, "always" is on disk before the call goes on, and a timeout, an
\* absent client or an unknown code falls to default_deny.
THEOREM AnswerIsHonoured == ASSUME ~DbFaults PROVE Spec => []AnswerHonoured
<1>1. AnswerInv => AnswerHonoured
  BY DEF AnswerInv
<1>. QED  BY AnswerInvariant, <1>1, PTL

-----------------------------------------------------------------------------
(* Learning mode.                                                          *)

LearningInv ==
    /\ CacheBacked
    /\ learning => loop # "ask"
    /\ LearningWhitelists

LEMMA LearningStep ==
    ASSUME ~DbFaults, ~IoFaults, LearningInv, [Next]_vars
    PROVE  LearningInv'
<1>. USE DEF LearningInv, LearningWhitelists, Digest, Ev, Conclude
<1>1. CacheBacked'
  BY CacheStep
<1>2. ASSUME ReadEvents \/ Respond \/ LoopExit \/ Crash \/ Start
      PROVE  loop' \in {"read", "handle", "down"}
  BY <1>2 DEF ReadEvents, Respond, NextEvent, LoopExit, Crash, Gone, Start
<1>3. ASSUME Learn \/ AskUser \/ AddOpensJournal
      PROVE  loop' \in {"add", "ask", "journal"} /\ (loop' = "ask" => ~learning')
  BY <1>3 DEF Learn, AskUser, AddOpensJournal
<1>4. CASE AllowUnchecked
  BY <1>4, <1>1 DEF AllowUnchecked, Unchecked
<1>5. CASE CacheHit \/ DbHit \/ AddDigest
  BY <1>5, <1>1 DEF CacheHit, DbHit, AddDigest, CacheBacked
<1>6. ASSUME NEW a \in Answers, UserAnswers(a)
      PROVE  ~learning' /\ loop' # "ask"
  BY <1>6 DEF UserAnswers
<1>7. ASSUME (\E p \in Procs, f \in Files, m \in Masks : Attempt(p, f, m))
             \/ Signal \/ (\E h \in Foreign : OtherInstanceAdds(h)) \/ UNCHANGED vars
      PROVE  LearningInv'
  <2>1. UNCHANGED <<batch, loop, learning, verdict>> /\ db \subseteq db'
    BY <1>7 DEF Attempt, Signal, OtherInstanceAdds, vars
  <2>. QED  BY <2>1, <1>1
<1>. QED
  BY <1>1, <1>2, <1>3, <1>4, <1>5, <1>6, <1>7
     DEF Next, LoopStep, Environment

LEMMA LearningInvariant ==
    ASSUME ~DbFaults, ~IoFaults
    PROVE  Spec => []LearningInv
<1>1. Init => LearningInv
  BY DEF Init, LearningInv, LearningWhitelists, CacheBacked
<1>2. LearningInv /\ [Next]_vars => LearningInv'
  BY LearningStep
<1>. QED  BY <1>1, <1>2, PTL DEF Spec

\* Learning mode denies nothing it checks, and what it lets through is on disk,
\* whichever restarts switch it on and off.
THEOREM LearningIsRecorded ==
    ASSUME ~DbFaults, ~IoFaults
    PROVE  Spec => []LearningWhitelists
<1>1. LearningInv => LearningWhitelists
  BY DEF LearningInv
<1>. QED  BY LearningInvariant, <1>1, PTL

-----------------------------------------------------------------------------
(* Approvals last: what is granted is on disk, what is on disk stays there, *)
(* and a prompt begins only when the lookup on disk finds nothing.          *)

Settled(h) == h \in db /\ (loop = "ask" => Digest # h)

LEMMA SettledStep ==
    ASSUME ~DbFaults, NEW h \in Hashes, Settled(h), [Next]_vars
    PROVE  Settled(h)'
<1>. USE DEF Settled, Digest, Ev
<1>1. db \subseteq db'
  BY DEF Next, LoopStep, Environment, vars, kernelVars, ReadEvents,
         AllowUnchecked, CacheHit, DbHit, Learn, AskUser, UserAnswers,
         AddOpensJournal, AddDigest, Respond, LoopExit, Gone, Attempt, Signal,
         Crash, Start, OtherInstanceAdds
<1>2. CASE AskUser
  BY <1>1, <1>2 DEF AskUser, Unknown
<1>3. ASSUME ~AskUser
      PROVE  loop' = "ask" => loop = "ask" /\ batch' = batch
  BY <1>3 DEF Next, LoopStep, Environment, vars, kernelVars, ReadEvents,
         NextEvent, AllowUnchecked, CacheHit, DbHit, Learn, UserAnswers,
         AddOpensJournal, AddDigest, Respond, LoopExit, Gone, Attempt, Signal,
         Crash, Start, OtherInstanceAdds, Conclude
<1>. QED  BY <1>1, <1>2, <1>3

\* Once "Allow Always" or learning mode has let a digest through, no prompt is
\* ever about it again, whatever codes the client sends and however often the
\* daemon crashes, restarts, changes its mode or fails to fill its cache.
THEOREM GrantedForGood ==
    ASSUME ~DbFaults, ~IoFaults
    PROVE  Spec => NeverAskedAgain
<1>1. ASSUME NEW h \in Hashes
      PROVE  Spec => [](Granted(h) => [](loop = "ask" => Digest # h))
  <2>1. AnswerInv /\ LearningInv => (Granted(h) => Settled(h))
    BY HeardNone DEF AnswerInv, AnswerHonoured, LearningInv, LearningWhitelists,
                     Granted, Settled
  <2>2. Settled(h) /\ [Next]_vars => Settled(h)'
    BY SettledStep
  <2>3. Settled(h) => (loop = "ask" => Digest # h)
    BY DEF Settled
  <2>. QED
    BY AnswerInvariant, LearningInvariant, <2>1, <2>2, <2>3, PTL DEF Spec
<1>. QED  BY <1>1 DEF NeverAskedAgain

-----------------------------------------------------------------------------
(* No event is lost or answered twice.  The lemmas are about the sequence  *)
(* of all events that wait: those of the batch, then those of the queue.   *)

Elems(s) == {s[i] : i \in DOMAIN s}

Distinct(s) == \A i, j \in DOMAIN s : i # j => s[i].proc # s[j].proc

Waiting == batch \o kq

AnyEvent == Event \cup {JournalEvent}

LEMMA HeldIsWaiting ==
    EveryEventHeld <=> outstanding = Elems(Waiting) /\ Distinct(Waiting)
BY DEF EveryEventHeld, Elems, Distinct, Waiting

LEMMA DistinctAppend ==
    ASSUME NEW s \in Seq(AnyEvent), NEW e \in AnyEvent, Distinct(s),
           \A x \in Elems(s) : x.proc # e.proc
    PROVE  /\ Elems(Append(s, e)) = Elems(s) \cup {e}
           /\ Distinct(Append(s, e))
<1>. DEFINE t == Append(s, e)
<1>1. /\ DOMAIN s = 1 .. Len(s) /\ Len(s) \in Nat
      /\ DOMAIN t = 1 .. Len(s) + 1
      /\ \A i \in 1 .. Len(s) : t[i] = s[i]
      /\ t[Len(s) + 1] = e
  BY AppendProperties, LenProperties
<1>2. Elems(t) = Elems(s) \cup {e}
  <2>. HIDE DEF t
  <2>. QED  BY <1>1 DEF Elems
<1>3. Distinct(t)
  <2>. SUFFICES ASSUME NEW i \in DOMAIN t, NEW j \in DOMAIN t, i # j
                PROVE  t[i].proc # t[j].proc
    BY DEF Distinct
  <2>1. CASE i \in 1 .. Len(s) /\ j \in 1 .. Len(s)
    <3>1. s[i].proc # s[j].proc
      BY <1>1, <2>1 DEF Distinct
    <3>. QED  BY <1>1, <2>1, <3>1
  <2>2. CASE i = Len(s) + 1 /\ j \in 1 .. Len(s)
    <3>1. s[j] \in Elems(s)
      BY <1>1, <2>2 DEF Elems
    <3>. QED  BY <1>1, <2>2, <3>1
  <2>3. CASE j = Len(s) + 1 /\ i \in 1 .. Len(s)
    <3>1. s[i] \in Elems(s)
      BY <1>1, <2>3 DEF Elems
    <3>. QED  BY <1>1, <2>3, <3>1
  <2>4. i \in 1 .. Len(s) + 1 /\ j \in 1 .. Len(s) + 1
    BY <1>1
  <2>. HIDE DEF t
  <2>. QED  BY <1>1, <2>1, <2>2, <2>3, <2>4
<1>. QED  BY <1>2, <1>3

LEMMA DistinctTail ==
    ASSUME NEW s \in Seq(AnyEvent), s # <<>>, Distinct(s)
    PROVE  /\ Tail(s) \in Seq(AnyEvent)
           /\ Elems(Tail(s)) = Elems(s) \ {Head(s)}
           /\ Distinct(Tail(s))
           /\ \A x \in Elems(Tail(s)) : x.proc # Head(s).proc
<1>. DEFINE t == Tail(s)
<1>1. /\ t \in Seq(AnyEvent)
      /\ Len(s) \in Nat /\ Len(s) >= 1
      /\ DOMAIN s = 1 .. Len(s)
      /\ DOMAIN t = 1 .. Len(s) - 1
      /\ \A i \in 1 .. Len(s) - 1 : t[i] = s[i + 1]
      /\ Head(s) = s[1]
  BY HeadTailProperties, LenProperties, EmptySeq
<1>. HIDE DEF t
<1>2. Distinct(t)
  <2>. SUFFICES ASSUME NEW i \in DOMAIN t, NEW j \in DOMAIN t, i # j
                PROVE  t[i].proc # t[j].proc
    BY DEF Distinct
  <2>1. i + 1 \in DOMAIN s /\ j + 1 \in DOMAIN s /\ i + 1 # j + 1
    BY <1>1
  <2>2. t[i] = s[i + 1] /\ t[j] = s[j + 1]
    BY <1>1
  <2>. QED  BY <2>1, <2>2 DEF Distinct
<1>3. \A x \in Elems(t) : x.proc # Head(s).proc
  <2>. SUFFICES ASSUME NEW i \in DOMAIN t
                PROVE  t[i].proc # Head(s).proc
    BY DEF Elems
  <2>1. i + 1 \in DOMAIN s /\ 1 \in DOMAIN s /\ i + 1 # 1 /\ t[i] = s[i + 1]
    BY <1>1
  <2>. QED  BY <1>1, <2>1 DEF Distinct
<1>4. Elems(t) = Elems(s) \ {Head(s)}
  <2>1. ASSUME NEW x \in Elems(t)
        PROVE  x \in Elems(s) /\ x # Head(s)
    BY <1>1, <1>3, <2>1 DEF Elems
  <2>2. ASSUME NEW x \in Elems(s), x # Head(s)
        PROVE  x \in Elems(t)
    <3>1. PICK i \in DOMAIN s : x = s[i]
      BY <2>2 DEF Elems
    <3>2. i - 1 \in DOMAIN t /\ t[i - 1] = s[i]
      BY <1>1, <2>2, <3>1
    <3>. QED  BY <3>1, <3>2 DEF Elems
  <2>. QED  BY <2>1, <2>2
<1>. QED  BY <1>1, <1>2, <1>3, <1>4 DEF t

LEMMA WaitingTyped ==
    ASSUME TypeInv
    PROVE  /\ batch \in Seq(AnyEvent) /\ kq \in Seq(AnyEvent)
           /\ Waiting \in Seq(AnyEvent)
           /\ loop # "journal" => Waiting \in Seq(Event)
BY ConcatProperties DEF TypeInv, TypeOK, QueueTyped, Waiting, AnyEvent

\* A queued event goes to the end of those that wait.
LEMMA QueuedLast ==
    ASSUME TypeInv, NEW e \in AnyEvent
    PROVE  batch \o Append(kq, e) = Append(Waiting, e)
<1>1. /\ batch \in Seq(AnyEvent) /\ kq \in Seq(AnyEvent)
      /\ Waiting \in Seq(AnyEvent) /\ <<e>> \in Seq(AnyEvent)
  BY WaitingTyped
<1>2. batch \o Append(kq, e) = batch \o (kq \o <<e>>)
  BY <1>1, AppendIsConcat
<1>3. batch \o (kq \o <<e>>) = (batch \o kq) \o <<e>>
  BY <1>1, ConcatAssociative
<1>4. Append(Waiting, e) = Waiting \o <<e>>
  BY <1>1, AppendIsConcat
<1>. QED  BY <1>2, <1>3, <1>4 DEF Waiting

\* Reading a batch moves events from the queue to the batch, in their order.
LEMMA ReadKeepsWaiting ==
    ASSUME TypeInv, ReadEvents
    PROVE  Waiting' = Waiting
<1>. DEFINE n == IF Len(kq) < BufEvents THEN Len(kq) ELSE BufEvents
<1>1. /\ batch = <<>> /\ kq \in Seq(AnyEvent) /\ kq # <<>>
      /\ Len(kq) \in Nat /\ Len(kq) >= 1
  BY WaitingTyped, EmptySeq, LenProperties
     DEF ReadEvents, TypeInv, TypeOK, InHand
<1>2. n \in 1 .. Len(kq)
  BY <1>1, ConfigAssumption
<1>3. batch' = SubSeq(kq, 1, n) /\ kq' = SubSeq(kq, n + 1, Len(kq))
  BY DEF ReadEvents
<1>4. SubSeq(kq, 1, n) \o SubSeq(kq, n + 1, Len(kq)) = SubSeq(kq, 1, Len(kq))
  <2>. HIDE DEF n
  <2>1. /\ 1 \in 1 .. Len(kq) + 1
        /\ n \in 1 - 1 .. Len(kq)
        /\ Len(kq) \in n .. Len(kq)
    BY <1>1, <1>2
  <2>. QED  BY <1>1, <2>1, ConcatAdjacentSubSeq
<1>5. SubSeq(kq, 1, Len(kq)) = kq /\ batch \o kq = kq
  BY <1>1, SubSeqFull, ConcatEmptySeq
<1>. QED  BY <1>3, <1>4, <1>5 DEF Waiting

\* The event in hand is the first of those that wait.
LEMMA HandIsFirst ==
    ASSUME TypeInv, loop \in InHand
    PROVE  /\ Waiting # <<>>
           /\ Head(Waiting) = Ev
           /\ Tail(batch) \o kq = Tail(Waiting)
<1>. DEFINE b == Tail(batch)
<1>1. /\ batch \in Seq(AnyEvent) /\ kq \in Seq(AnyEvent) /\ batch # <<>>
      /\ Len(batch) \in Nat /\ Len(batch) >= 1 /\ Len(kq) \in Nat
  BY WaitingTyped, EmptySeq, LenProperties DEF TypeInv, TypeOK
<1>2. /\ Waiting \in Seq(AnyEvent)
      /\ Len(Waiting) = Len(batch) + Len(kq)
      /\ \A i \in 1 .. Len(batch) + Len(kq) :
            Waiting[i] = IF i <= Len(batch) THEN batch[i] ELSE kq[i - Len(batch)]
  BY <1>1, ConcatProperties DEF Waiting
<1>3. Waiting # <<>>
  BY <1>1, <1>2, EmptySeq
<1>4. Head(Waiting) = Ev
  BY <1>1, <1>2, <1>3, HeadTailProperties DEF Ev
<1>5. /\ b \in Seq(AnyEvent)
      /\ Len(b) = Len(batch) - 1
      /\ \A i \in 1 .. Len(batch) - 1 : b[i] = batch[i + 1]
  BY <1>1, HeadTailProperties
<1>6. /\ Tail(Waiting) \in Seq(AnyEvent)
      /\ Len(Tail(Waiting)) = Len(batch) + Len(kq) - 1
      /\ \A i \in 1 .. Len(batch) + Len(kq) - 1 : Tail(Waiting)[i] = Waiting[i + 1]
  BY <1>2, <1>3, HeadTailProperties
<1>. HIDE DEF b
<1>7. /\ b \o kq \in Seq(AnyEvent)
      /\ Len(b \o kq) = Len(batch) + Len(kq) - 1
      /\ \A i \in 1 .. Len(batch) + Len(kq) - 1 : (b \o kq)[i] =
            IF i <= Len(batch) - 1 THEN b[i] ELSE kq[i - (Len(batch) - 1)]
  <2>1. /\ b \o kq \in Seq(AnyEvent)
        /\ Len(b \o kq) = Len(b) + Len(kq)
        /\ \A i \in 1 .. Len(b) + Len(kq) : (b \o kq)[i] =
              IF i <= Len(b) THEN b[i] ELSE kq[i - Len(b)]
    BY <1>1, <1>5, ConcatProperties
  <2>2. Len(b) + Len(kq) = Len(batch) + Len(kq) - 1
    BY <1>1, <1>5
  <2>. QED  BY <1>5, <2>1, <2>2
<1>8. \A i \in 1 .. Len(batch) + Len(kq) - 1 : (b \o kq)[i] = Tail(Waiting)[i]
  BY <1>1, <1>2, <1>5, <1>6, <1>7
<1>9. b \o kq = Tail(Waiting)
  BY <1>6, <1>7, <1>8, SeqEqual
<1>. QED  BY <1>3, <1>4, <1>9 DEF b

\* One more event waits, of a process that had none.
LEMMA HeldRaise ==
    ASSUME TypeInv, EveryEventHeld, NEW e \in AnyEvent, Raise(e),
           UNCHANGED batch, \A x \in outstanding : x.proc # e.proc
    PROVE  EveryEventHeld'
<1>1. outstanding = Elems(Waiting) /\ Distinct(Waiting) /\ Waiting \in Seq(AnyEvent)
  BY HeldIsWaiting, WaitingTyped
<1>2. Waiting' = Append(Waiting, e)
  BY QueuedLast DEF Raise, Waiting
<1>3. Elems(Waiting') = outstanding \cup {e} /\ Distinct(Waiting')
  BY <1>1, <1>2, DistinctAppend
<1>. QED  BY <1>3, HeldIsWaiting DEF Raise, EveryEventHeld, Elems, Distinct, Waiting

\* The answered event no longer waits; the second event of an allowed execve()
\* takes its place at the end.
LEMMA HeldRespond ==
    ASSUME TypeInv, EveryEventHeld, Respond
    PROVE  EveryEventHeld'
<1>. DEFINE rest == Tail(Waiting)
            next == [Ev EXCEPT !.mask = "open"]
<1>1. loop \in InHand /\ batch' = Tail(batch)
  BY DEF Respond, InHand, NextEvent
<1>2. /\ outstanding = Elems(Waiting) /\ Distinct(Waiting)
      /\ Waiting \in Seq(AnyEvent) /\ Waiting # <<>> /\ Head(Waiting) = Ev
      /\ Tail(batch) \o kq = rest
  BY <1>1, HeldIsWaiting, WaitingTyped, HandIsFirst
<1>3. /\ rest \in Seq(AnyEvent)
      /\ Elems(rest) = outstanding \ {Ev}
      /\ Distinct(rest)
      /\ \A x \in Elems(rest) : x.proc # Ev.proc
  BY <1>2, DistinctTail
<1>4. CASE verdict = "allow" /\ Ev.mask = "exec" /\ MonitorSharedLibs
  <2>1. /\ outstanding' = (outstanding \ {Ev}) \cup {next}
        /\ kq' = Append(kq, next)
    BY <1>4 DEF Respond, Deliver
  <2>2. next \in AnyEvent /\ next.proc = Ev.proc
    BY <1>1, EvTyped DEF TypeInv, Event, Masks, AnyEvent
  <2>. HIDE DEF rest, next
  <2>3. /\ Tail(batch) \in Seq(AnyEvent) /\ kq \in Seq(AnyEvent)
        /\ <<next>> \in Seq(AnyEvent)
    BY <1>1, <2>2, WaitingTyped, HeadTailProperties DEF TypeInv, TypeOK
  <2>4. Waiting' = Append(rest, next)
    <3>1. kq' = kq \o <<next>> /\ Append(rest, next) = rest \o <<next>>
      BY <1>3, <2>1, <2>2, <2>3, AppendIsConcat
    <3>2. Tail(batch) \o (kq \o <<next>>) = (Tail(batch) \o kq) \o <<next>>
      BY <2>3, ConcatAssociative
    <3>. QED  BY <1>1, <1>2, <3>1, <3>2 DEF Waiting
  <2>5. Elems(Waiting') = Elems(rest) \cup {next} /\ Distinct(Waiting')
    BY <1>3, <2>2, <2>4, DistinctAppend
  <2>6. outstanding' = Elems(Waiting')
    BY <1>3, <2>1, <2>5
  <2>. QED  BY <2>5, <2>6 DEF EveryEventHeld, Elems, Distinct, Waiting
<1>5. CASE ~(verdict = "allow" /\ Ev.mask = "exec" /\ MonitorSharedLibs)
  <2>1. outstanding' = outstanding \ {Ev} /\ kq' = kq
    BY <1>5 DEF Respond, Deliver
  <2>2. Waiting' = rest
    BY <1>1, <1>2, <2>1 DEF Waiting
  <2>. HIDE DEF rest, next
  <2>3. outstanding' = Elems(Waiting') /\ Distinct(Waiting')
    BY <1>3, <2>1, <2>2
  <2>. QED  BY <2>3 DEF EveryEventHeld, Elems, Distinct, Waiting
<1>. QED  BY <1>4, <1>5

LEMMA HeldStep ==
    ASSUME TypeInv, EveryEventHeld, [Next]_vars
    PROVE  EveryEventHeld'
<1>1. ASSUME UNCHANGED <<outstanding, Waiting>>
      PROVE  EveryEventHeld'
  BY <1>1 DEF EveryEventHeld, Waiting
<1>2. CASE ReadEvents
  <2>1. Waiting' = Waiting /\ outstanding' = outstanding
    BY <1>2, ReadKeepsWaiting DEF ReadEvents
  <2>. QED  BY <1>1, <2>1
<1>3. CASE Respond
  BY <1>3, HeldRespond
<1>4. CASE AddOpensJournal
  <2>1. loop # "journal" /\ Waiting \in Seq(Event)
    BY <1>4, WaitingTyped DEF AddOpensJournal
  <2>2. Elems(Waiting) \subseteq Event
    BY <2>1, LenProperties DEF Elems
  <2>3. \A x \in outstanding : x.proc \in Procs
    BY <2>2, HeldIsWaiting DEF Event
  <2>4. \A x \in outstanding : x.proc # JournalEvent.proc
    BY <2>3, FilesAssumption DEF JournalEvent
  <2>. QED  BY <1>4, <2>4, HeldRaise DEF AddOpensJournal, AnyEvent
<1>5. ASSUME NEW p \in Procs, NEW f \in Files, NEW m \in Masks, Attempt(p, f, m)
      PROVE  EveryEventHeld'
  <2>. DEFINE e == [proc |-> p, file |-> f, mask |-> m]
  <2>1. e \in AnyEvent /\ e.proc = p
    BY DEF AnyEvent, Event
  <2>2. Raise(e) /\ UNCHANGED batch /\ \A x \in outstanding : x.proc # e.proc
    BY <1>5, <2>1 DEF Attempt, Blocked
  <2>. HIDE DEF e
  <2>. QED  BY <2>1, <2>2, HeldRaise
<1>6. CASE LoopExit \/ Crash
  <2>1. outstanding' = {} /\ kq' = <<>> /\ batch' = <<>>
    BY <1>6 DEF LoopExit, Crash, Gone, ReleaseAll
  <2>2. batch' \o kq' = <<>>
    BY <2>1, EmptySeq, ConcatEmptySeq
  <2>. QED  BY <2>1, <2>2 DEF EveryEventHeld
<1>7. ASSUME \/ AllowUnchecked \/ CacheHit \/ DbHit \/ Learn \/ AskUser \/ AddDigest
             \/ \E a \in Answers : UserAnswers(a)
             \/ Signal \/ Start \/ (\E h \in Foreign : OtherInstanceAdds(h))
             \/ UNCHANGED vars
      PROVE  EveryEventHeld'
  <2>1. UNCHANGED <<outstanding, batch, kq>>
    BY <1>7 DEF AllowUnchecked, CacheHit, DbHit, Learn, AskUser, AddDigest,
                UserAnswers, Signal, Start, OtherInstanceAdds, kernelVars, vars
  <2>. QED  BY <1>1, <2>1 DEF Waiting
<1>. QED
  BY <1>2, <1>3, <1>4, <1>5, <1>6, <1>7 DEF Next, LoopStep, Environment

\* Every process that sleeps has its event, once, in the batch or in the queue:
\* across batches, stop requests, crashes and the second event of an execve(),
\* no call is forgotten and none is answered twice.
THEOREM NoEventLost == Spec => []EveryEventHeld
<1>1. Init => EveryEventHeld
  BY EmptySeq, ConcatEmptySeq DEF Init, EveryEventHeld
<1>2. TypeInv /\ EveryEventHeld /\ [Next]_vars => EveryEventHeld'
  BY HeldStep
<1>. QED  BY <1>1, <1>2, TypeInvariant, PTL DEF Spec
=============================================================================
