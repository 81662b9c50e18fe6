---------------------------- MODULE ExecMonitor ----------------------------
(***************************************************************************)
(* The fanotify event loop of lexec-daemon (src/src/daemon/                *)
(* fanotify_handler.c) with the two stores it consults: the SQLite         *)
(* whitelist (whitelist.c) and the in-memory cache (whitelist_cache.c),    *)
(* both seen here as sets of digests.                                      *)
(*                                                                         *)
(* One thread reads permission events in batches and answers them one by   *)
(* one; every process that raised an event sleeps in the kernel until its  *)
(* answer is written.  ipc_request_permission() is one step that returns   *)
(* any answer it can return; IpcServer models how it gets there.           *)
(***************************************************************************)
EXTENDS Integers, Sequences

CONSTANTS
    Procs,              \* processes whose execve() and open() are intercepted
    Daemon,             \* the daemon's own process
    Hashes,             \* SHA-256 digests
    Files,              \* files, see FilesAssumption
    Journal,            \* the rollback journal SQLite opens to commit a write
    BufEvents,          \* events one read() of the 4096-byte buffer returns
    LearningModes,      \* values of g_config.learning_mode over the restarts
    DefaultDeny,        \* g_config.default_deny
    MonitorSharedLibs,  \* g_monitor_shared_libs: FAN_OPEN_PERM is marked too
    DbOnMount,          \* the database directory lies on the marked mount
    WireCode,           \* integer the client sends for each button
    IoFaults,           \* readlink, read or hash_fd may fail
    DbFaults,           \* sqlite3_step may fail
    Foreign             \* digests other instances may record: --scan, a second
                        \* daemon; they share the database file

Buttons == {"once", "always", "deny"}

\* ipc_server.h: the codes the daemon's switch knows.
ServerCodes == [once |-> 1, always |-> 2, deny |-> 3]

\* protocol.h, sent by on_dialog_response(): MSG_ALLOW_ONCE and its successors.
GuiCodes == [once |-> 100, always |-> 101, deny |-> 102]

\* What ipc_request_permission() can come back with.
Answers == Buttons \cup {"timeout", "no_client"}

Masks == {"exec", "open"}

ASSUME FilesAssumption ==
    /\ \A f \in Files : /\ f.hash \in Hashes
                        /\ f.elf \in BOOLEAN
                        /\ f.so \in BOOLEAN
                        /\ f.excluded \in BOOLEAN
    /\ Daemon \notin Procs
    /\ Journal \notin Files

ASSUME ConfigAssumption ==
    /\ BufEvents \in Nat \ {0}
    /\ LearningModes \subseteq BOOLEAN /\ LearningModes # {}
    /\ DefaultDeny \in BOOLEAN
    /\ MonitorSharedLibs \in BOOLEAN
    /\ DbOnMount \in BOOLEAN
    /\ IoFaults \in BOOLEAN
    /\ DbFaults \in BOOLEAN
    /\ WireCode \in [Buttons -> Int]
    /\ Foreign \subseteq Hashes

VARIABLES
    outstanding,  \* kernel: events whose raiser sleeps until they are answered
    kq,           \* kernel: events not yet read, oldest first
    result,       \* kernel: what the last intercepted call of a process returned
    batch,        \* events read and not yet answered; the head is in hand
    loop,         \* where the event-loop thread stands
    running,      \* g_running
    learning,     \* g_config.learning_mode, fixed while the process lives
    answer,       \* ipc_request_permission()'s return for the event in hand
    verdict,      \* response about to be written
    cache,        \* digests in the in-memory cache
    db            \* digests in the whitelist table, on disk

kernelVars == <<outstanding, kq, result>>
vars == <<outstanding, kq, result, batch, loop, running, learning, answer,
          verdict, cache, db>>

Event == [proc : Procs, file : Files, mask : Masks]
JournalEvent == [proc |-> Daemon, file |-> Journal, mask |-> "open"]

Blocked(p) == \E e \in outstanding : e.proc = p

\* The event in hand and its digest.
Ev == Head(batch)
Digest == Ev.file.hash

-----------------------------------------------------------------------------
(* The kernel.                                                             *)

Raise(e) ==
    /\ outstanding' = outstanding \cup {e}
    /\ kq' = Append(kq, e)

\* A process calls execve() or open() on a file of the marked mount.
Attempt(p, f, m) ==
    /\ loop # "down"
    /\ ~Blocked(p)
    /\ m = "open" => MonitorSharedLibs
    /\ Raise([proc |-> p, file |-> f, mask |-> m])
    /\ result' = [result EXCEPT ![p] = "none"]
    /\ UNCHANGED <<batch, loop, running, learning, answer, verdict, cache, db>>

\* An answer wakes the raiser.  An allowed execve() goes on to the open
\* permission check of the same file.
Deliver(e, v) ==
    IF v = "allow" /\ e.mask = "exec" /\ MonitorSharedLibs
    THEN LET next == [e EXCEPT !.mask = "open"]
         IN  /\ outstanding' = (outstanding \ {e}) \cup {next}
             /\ kq' = Append(kq, next)
             /\ UNCHANGED result
    ELSE /\ outstanding' = outstanding \ {e}
         /\ result' = [result EXCEPT ![e.proc] = v]
         /\ UNCHANGED kq

\* Closing the fanotify descriptor allows whatever is still unanswered.
ReleaseAll ==
    /\ outstanding' = {}
    /\ kq' = <<>>
    /\ result' = [p \in Procs |-> IF Blocked(p) THEN "released" ELSE result[p]]

-----------------------------------------------------------------------------
(* fanotify_event_loop().                                                  *)

\* Mutant: keeps reading until the queue is empty, whatever g_running says.
ReadEventsUntilEmpty ==
    /\ loop = "read"
    /\ kq # <<>>
    /\ LET n == IF Len(kq) < BufEvents THEN Len(kq) ELSE BufEvents
       IN  /\ batch' = SubSeq(kq, 1, n)
           /\ kq' = SubSeq(kq, n + 1, Len(kq))
    /\ loop' = "handle"
    /\ UNCHANGED <<outstanding, result, running, learning, answer, verdict, cache, db>>

ReadEvents ==
    /\ loop = "read"
    /\ running
    /\ kq # <<>>
    /\ LET n == IF Len(kq) < BufEvents THEN Len(kq) ELSE BufEvents
       IN  /\ batch' = SubSeq(kq, 1, n)
           /\ kq' = SubSeq(kq, n + 1, Len(kq))
    /\ loop' = "handle"
    /\ UNCHANGED <<outstanding, result, running, learning, answer, verdict, cache, db>>

\* Mutant: FAN_EVENT_OK is not tested after FAN_EVENT_NEXT.
NextEventUntested == batch' = Tail(batch) /\ loop' = "handle"

\* Mutant: the inner loop tests g_running too.
NextEventWhileRunning ==
    LET rest == IF running THEN Tail(batch) ELSE <<>>
    IN  /\ batch' = rest
        /\ loop' = IF rest = <<>> THEN "read" ELSE "handle"

\* The inner loop runs to the end of the batch whatever g_running says.  Its
\* break on a metadata version other than the headers' (version 3 since Linux
\* 2.6.37) is left out: no kernel that has FAN_OPEN_EXEC_PERM sends one.
NextEvent ==
    /\ batch' = Tail(batch)
    /\ loop' = IF Tail(batch) = <<>> THEN "read" ELSE "handle"

Respond ==
    /\ loop = "respond"
    /\ Deliver(Ev, verdict)
    /\ NextEvent
    /\ answer' = "none"
    /\ verdict' = "none"
    /\ UNCHANGED <<running, learning, cache, db>>

-----------------------------------------------------------------------------
(* handle_exec_perm_event() and handle_open_perm_event().                  *)

Conclude(v) == loop' = "respond" /\ verdict' = v

\* Files neither handler looks at: excluded, not ELF, or opened without a
\* shared library's name.
Unchecked(e) ==
    \/ e.file.excluded
    \/ e.mask = "open" /\ ~e.file.so
    \/ ~e.file.elf

\* Mutant: an early return without fanotify_allow().
AllowUncheckedUnanswered ==
    /\ loop = "handle"
    /\ Unchecked(Ev) \/ IoFaults
    /\ NextEvent
    /\ UNCHANGED <<kernelVars, running, learning, answer, verdict, cache, db>>

AllowUnchecked ==
    /\ loop = "handle"
    /\ Unchecked(Ev) \/ IoFaults
    /\ Conclude("allow")
    /\ UNCHANGED <<kernelVars, batch, running, learning, answer, cache, db>>

CacheHit ==
    /\ loop = "handle"
    /\ ~Unchecked(Ev)
    /\ Digest \in cache
    /\ Conclude("allow")
    /\ UNCHANGED <<kernelVars, batch, running, learning, answer, cache, db>>

\* cache_add() gives up when the cache is full or malloc() fails, and no caller
\* looks at its result.
CacheAdd(h) == cache' \in {cache, cache \cup {h}}

\* Mutant: a hit in the database is cached and not answered.
DbHitUnanswered ==
    /\ loop = "handle"
    /\ ~Unchecked(Ev)
    /\ Digest \notin cache
    /\ Digest \in db
    /\ CacheAdd(Digest)
    /\ NextEvent
    /\ UNCHANGED <<kernelVars, running, learning, answer, verdict, db>>

DbHit ==
    /\ loop = "handle"
    /\ ~Unchecked(Ev)
    /\ Digest \notin cache
    /\ Digest \in db
    /\ CacheAdd(Digest)
    /\ Conclude("allow")
    /\ UNCHANGED <<kernelVars, batch, running, learning, answer, db>>

\* Neither store knows the digest; a failing query counts as "not found".
Unknown(h) == h \notin cache /\ (h \notin db \/ DbFaults)

\* Mutant: learning mode allows and does not record.
LearnAllows ==
    /\ loop = "handle"
    /\ ~Unchecked(Ev)
    /\ Unknown(Digest)
    /\ learning
    /\ Conclude("allow")
    /\ UNCHANGED <<kernelVars, batch, running, learning, answer, cache, db>>

Learn ==
    /\ loop = "handle"
    /\ ~Unchecked(Ev)
    /\ Unknown(Digest)
    /\ learning
    /\ loop' = "add"
    /\ UNCHANGED <<kernelVars, batch, running, learning, answer, verdict, cache, db>>

\* Mutant: the prompt comes before the lookups.
AskUserFirst ==
    /\ loop = "handle"
    /\ ~Unchecked(Ev)
    /\ ~learning
    /\ loop' = "ask"
    /\ UNCHANGED <<kernelVars, batch, running, learning, answer, verdict, cache, db>>

AskUser ==
    /\ loop = "handle"
    /\ ~Unchecked(Ev)
    /\ Unknown(Digest)
    /\ ~learning
    /\ loop' = "ask"
    /\ UNCHANGED <<kernelVars, batch, running, learning, answer, verdict, cache, db>>

\* Mutant: default_deny is not consulted.
DefaultDecisionAllow == 0

\* ask_user_permission(): 1 allow and whitelist, 0 allow, -1 deny.
DefaultDecision == IF DefaultDeny THEN -1 ELSE 0

\* Mutant: "always" falls through to "once".
DecisionFallsThrough(a) ==
    CASE a \in Buttons /\ WireCode[a] \in {ServerCodes["always"], ServerCodes["once"]} -> 0
      [] a \in Buttons /\ WireCode[a] = ServerCodes["deny"] -> -1
      [] OTHER -> DefaultDecision

Decision(a) ==
    CASE a \in Buttons /\ WireCode[a] = ServerCodes["always"] -> 1
      [] a \in Buttons /\ WireCode[a] = ServerCodes["once"]   -> 0
      [] a \in Buttons /\ WireCode[a] = ServerCodes["deny"]   -> -1
      [] OTHER -> DefaultDecision

UserAnswers(a) ==
    /\ loop = "ask"
    /\ answer' = a
    /\ \/ Decision(a) = 1 /\ loop' = "add" /\ UNCHANGED verdict
       \/ Decision(a) = 0 /\ Conclude("allow")
       \/ Decision(a) = -1 /\ Conclude("deny")
    /\ UNCHANGED <<kernelVars, batch, running, learning, cache, db>>

\* Committing a row makes SQLite open its journal.  On the marked mount that
\* open is a permission event of the daemon's own, and the thread that would
\* answer it is the one that sleeps.
SelfIntercepted == MonitorSharedLibs /\ DbOnMount

AddOpensJournal ==
    /\ loop = "add"
    /\ SelfIntercepted
    /\ Raise(JournalEvent)
    /\ loop' = "journal"
    /\ UNCHANGED <<result, batch, running, learning, answer, verdict, cache, db>>

\* Mutant: cache_add() is trusted to persist, with persist = 0.
AddDigestToCache ==
    /\ loop = "add"
    /\ ~SelfIntercepted
    /\ CacheAdd(Digest)
    /\ Conclude("allow")
    /\ UNCHANGED <<kernelVars, batch, running, learning, answer, db>>

\* whitelist_add(), whose result is ignored, then cache_add().
AddDigest ==
    /\ loop = "add"
    /\ ~SelfIntercepted
    /\ db' \in {db \cup {Digest}} \cup (IF DbFaults THEN {db} ELSE {})
    /\ CacheAdd(Digest)
    /\ Conclude("allow")
    /\ UNCHANGED <<kernelVars, batch, running, learning, answer>>

-----------------------------------------------------------------------------
(* Signals, exit, crash and restart.                                       *)

\* SIGINT, SIGTERM or SIGHUP.
Signal ==
    /\ loop # "down"
    /\ running
    /\ running' = FALSE
    /\ UNCHANGED <<kernelVars, batch, loop, learning, answer, verdict, cache, db>>

\* Mutant: what was recorded since the start waits for a commit that an exit
\* without one rolls back.
GoneUncommitted ==
    /\ ReleaseAll
    /\ batch' = <<>>
    /\ loop' = "down"
    /\ running' = FALSE
    /\ answer' = "none"
    /\ verdict' = "none"
    /\ cache' = {}
    /\ db' = db \ cache
    /\ UNCHANGED learning

\* The process is gone: descriptors closed, memory lost, database kept.
Gone ==
    /\ ReleaseAll
    /\ batch' = <<>>
    /\ loop' = "down"
    /\ running' = FALSE
    /\ answer' = "none"
    /\ verdict' = "none"
    /\ cache' = {}
    /\ UNCHANGED <<learning, db>>

\* The loop ends when told to, or when read() fails for good.
LoopExit ==
    /\ loop = "read"
    /\ ~running \/ IoFaults
    /\ Gone

Crash == loop # "down" /\ Gone

\* A restart is also how learning mode is switched on or off: the option is
\* read once, from the command line and lexec.conf.
Start ==
    /\ loop = "down"
    /\ loop' = "read"
    /\ running' = TRUE
    /\ learning' \in LearningModes
    /\ UNCHANGED <<kernelVars, batch, answer, verdict, cache, db>>

\* Another instance of the daemon records a digest in the database they share,
\* at any moment; nothing ever deletes one (whitelist_remove() has no caller).
OtherInstanceAdds(h) ==
    /\ db' = db \cup {h}
    /\ UNCHANGED <<kernelVars, batch, loop, running, learning, answer, verdict, cache>>

-----------------------------------------------------------------------------
Init ==
    /\ outstanding = {}
    /\ kq = <<>>
    /\ result = [p \in Procs |-> "none"]
    /\ batch = <<>>
    /\ loop = "read"
    /\ running = TRUE
    /\ learning \in LearningModes
    /\ answer = "none"
    /\ verdict = "none"
    /\ cache = {}
    /\ db \in SUBSET Hashes

\* Steps of the event-loop thread.
LoopStep ==
    \/ ReadEvents
    \/ AllowUnchecked
    \/ CacheHit
    \/ DbHit
    \/ Learn
    \/ AskUser
    \/ \E a \in Answers : UserAnswers(a)
    \/ AddOpensJournal
    \/ AddDigest
    \/ Respond
    \/ LoopExit

Environment ==
    \/ \E p \in Procs, f \in Files, m \in Masks : Attempt(p, f, m)
    \/ Signal
    \/ Crash
    \/ Start
    \/ \E h \in Foreign : OtherInstanceAdds(h)

Next == LoopStep \/ Environment

Spec == Init /\ [][Next]_vars

\* The scheduler runs the thread, and a prompt with a positive gui_timeout
\* comes back.
FairSpec == Spec /\ WF_vars(LoopStep)

-----------------------------------------------------------------------------
(* Properties.                                                             *)

InHand == {"handle", "ask", "add", "journal", "respond"}

\* Types of the variables; the thread has an event in hand exactly while it is
\* past read() and before the end of the batch (FAN_EVENT_OK).
TypeOK ==
    /\ outstanding \in SUBSET (Event \cup {JournalEvent})
    /\ kq \in Seq(Event \cup {JournalEvent})
    /\ result \in [Procs -> {"none", "allow", "deny", "released"}]
    /\ batch \in Seq(Event)
    /\ loop \in {"read", "down"} \cup InHand
    /\ batch # <<>> <=> loop \in InHand
    /\ running \in BOOLEAN /\ learning \in LearningModes
    /\ answer \in Answers \cup {"none"}
    /\ verdict \in {"none", "allow", "deny"}
    /\ cache \in SUBSET Hashes
    /\ db \in SUBSET Hashes

\* No event is lost and none is answered twice: the sleeping processes are
\* exactly those whose event is in the batch or in the kernel's queue, once.
\* fanotify_event_loop() must keep this across batches, a stop request in the
\* middle of one, and the second event an allowed execve() raises.
EveryEventHeld ==
    LET held == batch \o kq
    IN  /\ outstanding = {held[i] : i \in DOMAIN held}
        /\ \A i, j \in DOMAIN held : i # j => held[i].proc # held[j].proc

\* Once a digest is in the cache no failure of the database can bring back a
\* denial, although the cache is read before the prompt and the answer is
\* written up to gui_timeout later.
CachedNeverDenied == loop = "respond" /\ verdict = "deny" => Digest \notin cache

\* The cache never runs ahead of the disk: what is allowed from memory is
\* still allowed after a crash and a restart.
CacheBacked == cache \subseteq db

\* Under default_deny a checked file is allowed only if its digest is on disk
\* or the user allowed this one call; a timeout or an absent GUI never is.
AllowIsBacked ==
    loop = "respond" /\ verdict = "allow" /\ ~Unchecked(Ev) /\ DefaultDeny
        => Digest \in db \/ answer = "once"

\* What the button announces (gui/main.c:267).
AllowAlwaysRemembered ==
    loop = "respond" /\ answer = "always" => verdict = "allow" /\ Digest \in db

\* The button the daemon takes an answer for: the client's code decides, and
\* for a timeout, an absent client or a code it does not know there is none.
Heard(a) == {b \in Buttons : a \in Buttons /\ WireCode[a] = ServerCodes[b]}

\* The verdict on the call is the one of the answer the daemon heard, "always"
\* is on disk before the call goes on, and hearing nothing it knows is neither
\* consent nor refusal: it falls to default_deny.
AnswerHonoured ==
    loop = "respond" /\ answer # "none" =>
        /\ "always" \in Heard(answer) => verdict = "allow" /\ Digest \in db
        /\ "once" \in Heard(answer) => verdict = "allow"
        /\ "deny" \in Heard(answer) => verdict = "deny"
        /\ Heard(answer) = {} => verdict = IF DefaultDeny THEN "deny" ELSE "allow"

\* In learning mode nothing the handlers check is denied, and what they let
\* through is on disk.
LearningWhitelists ==
    learning /\ loop = "respond" /\ ~Unchecked(Ev) =>
        verdict = "allow" /\ Digest \in db

\* The event in hand was looked up and not found; "always" and learning mode
\* settle it.
LookedUp ==
    \/ loop \in {"ask", "add", "journal"}
    \/ loop = "respond" /\ answer # "none" /\ "always" \notin Heard(answer)

\* Every call is decided in one step, exactly once, by what is on disk and by the
\* answer the daemon heard to this call ("Atomic decisions", README.md:224):
\* batches, lookups made up to gui_timeout earlier, restarts, changes of mode and
\* digests recorded meanwhile by other instances do not show.
Promise ==
    INSTANCE Gate WITH
        Calls      <- Event,
        Exempt     <- {e \in Event : Unchecked(e)},
        Unreadable <- IoFaults,
        waiting    <- outstanding \ {JournalEvent},
        unknown    <- IF LookedUp THEN {Ev} ELSE {},
        said       <- IF loop = "respond"
                      THEN {Ev} \X (Heard(answer) \cap {"once", "deny"}) ELSE {},
        approved   <- db

GatePromise == Promise!Spec

\* The call in hand is about to be allowed because its digest is approved for
\* good: the user said "Allow Always" and was heard, or learning mode recorded it.
Granted(h) ==
    /\ loop = "respond" /\ verdict = "allow" /\ ~Unchecked(Ev) /\ Digest = h
    /\ learning \/ "always" \in Heard(answer)

\* "Allow Always: Add to whitelist, never ask again" (gui/main.c:267), "Approved
\* files remain approved across reboots" (README.md:51): once granted, a digest
\* brings up no prompt again, under any path, whatever crashes, restarts, changes
\* of mode and failed cache insertions come after.
NeverAskedAgain ==
    \A h \in Hashes : [](Granted(h) => [](loop = "ask" => Digest # h))

\* Every intercepted call comes back to its process.
EveryCallReturns == \A p \in Procs : Blocked(p) ~> ~Blocked(p)

\* A daemon told to stop does, however many events keep arriving.
StopsWhenTold == loop # "down" /\ ~running ~> loop = "down"
=============================================================================
