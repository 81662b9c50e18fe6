-------------------------- MODULE DaemonLifecycle --------------------------
(***************************************************************************)
(* main() of lexec-daemon from its command line to its exit: the order of  *)
(* the initialisations, what each failure unwinds, the initial scan,       *)
(* daemonize(), the loop as far as its end goes, signals and kills, and    *)
(* further instances started by an administrator or by systemd.  Instances *)
(* share the database and the path of the socket.  What the event loop     *)
(* decides is in ExecMonitor; here it waits and it records.                *)
(***************************************************************************)
EXTENDS Config

CONSTANTS
    NDaemons,      \* bound: instances ever started
    CommandLines,  \* sequences of options a start may have
    Files,         \* configuration files by path
    ScanDirs,      \* SCAN_DIRS
    Entries,       \* directory entries: dir, path, kind, x bit, ELF, digest
    DbOnMount      \* the database lies on the mount that is marked

Paths == ScanDirs \cup {e.path : e \in Entries}

\* What getopt() and the lines of a file can hold; -c names one of the files.
ASSUME SettingsAssumption ==
    /\ \A a \in CommandLines :
          /\ AreSettings(a)
          /\ \A i \in DOMAIN a :
                /\ a[i].key \in ArgKeys
                /\ a[i].key = "config_path" => a[i].val \in DOMAIN Files
    /\ Defaults.config_path \in DOMAIN Files
    /\ \A p \in DOMAIN Files : Files[p] = Missing \/ AreSettings(Files[p])

\* The entries form a tree: one entry per path, below its directory; only
\* directories have something below them, and all of it is in or below one of
\* their entries.
ASSUME TreeAssumption ==
    /\ \A p \in Paths : IsPath(p)
    /\ \A e \in Entries : Inside(e.path, e.dir)
    /\ \A e, f \in Entries : e.path = f.path => e = f
    /\ \A e, f \in Entries : Inside(e.path, f.path) /\ e # f => f.kind = "dir"
    /\ \A e \in Entries, d \in Paths :
          Inside(e.path, d) /\ e.path # d =>
              \E f \in Entries : f.dir = d /\ Inside(e.path, f.path)

VARIABLES
    pc,      \* where main() of each instance stands
    args,    \* its command line
    conf,    \* its g_config
    stop,    \* its signal handler has run
    res,     \* what it has acquired and not released
    marked,  \* its mark is on the mount
    accept,  \* its accept thread
    todo,    \* paths its scan has still to visit
    missed,  \* paths its scan has passed over in a step that failed
    socket,  \* the instance that bound LEXEC_SOCKET_PATH, 0 if there is no file
    store    \* digests in the database

vars == <<pc, args, conf, stop, res, marked, accept, todo, missed, socket, store>>

Daemons == 1 .. NDaemons

Goto(i, l) == pc' = [pc EXCEPT ![i] = l]

Acquire(i, r) == res' = [res EXCEPT ![i] = @ \cup {r}]

Release(i, r) == res' = [res EXCEPT ![i] = @ \ {r}]

KernelReleases(i) ==
    /\ res' = [res EXCEPT ![i] = {}]
    /\ marked' = [marked EXCEPT ![i] = FALSE]
    /\ accept' = [accept EXCEPT ![i] = "none"]

scanVars == <<todo, missed, store>>

-----------------------------------------------------------------------------
(* Start.                                                                  *)

\* Nothing looks whether another instance runs.
Launch(i) ==
    /\ pc[i] = "off"
    /\ \A j \in 1 .. i - 1 : pc[j] # "off"
    /\ \E a \in CommandLines :
          /\ args' = [args EXCEPT ![i] = a]
          /\ conf' = [conf EXCEPT ![i] = Configure(a, Files)]
    /\ Goto(i, "root")
    /\ UNCHANGED <<stop, res, marked, accept, scanVars, socket>>

\* The check for root, create_directories() and setup_signals().
Prepare(i) ==
    /\ pc[i] = "root"
    /\ \/ Goto(i, "db")
       \/ Goto(i, "gone")
    /\ UNCHANGED <<args, conf, stop, res, marked, accept, scanVars, socket>>

\* whitelist_init(): what a failed statement leaves open
\* goes with the process.
OpenDb(i) ==
    /\ pc[i] = "db"
    /\ \/ Goto(i, "cache") /\ Acquire(i, "db")
       \/ Goto(i, "gone") /\ UNCHANGED res
    /\ UNCHANGED <<args, conf, stop, marked, accept, scanVars, socket>>

CacheInit(i) ==
    /\ pc[i] = "cache"
    /\ \/ Goto(i, "ipc") /\ Acquire(i, "cache")
       \/ Goto(i, "db_close") /\ UNCHANGED res
    /\ UNCHANGED <<args, conf, stop, marked, accept, scanVars, socket>>

\* ipc_server_init() removes the path, whoever owns it, and makes a socket.
IpcUnlink(i) ==
    /\ pc[i] = "ipc"
    /\ socket' = 0
    /\ \/ Goto(i, "bind")
       \/ Goto(i, "cache_down")
    /\ UNCHANGED <<args, conf, stop, res, marked, accept, scanVars>>

\* bind() fails if another instance has made the path in the meantime; listen()
\* or pthread_create() may fail after it and leave the path behind.
IpcBind(i) ==
    /\ pc[i] = "bind"
    /\ \/ /\ socket = 0 /\ socket' = i
          /\ Goto(i, "scan")
          /\ Acquire(i, "ipc")
          /\ accept' = [accept EXCEPT ![i] = "running"]
          /\ todo' = [todo EXCEPT ![i] =
                         IF conf[i].do_scan
                         THEN {d \in ScanDirs :
                                  ~is_path_excluded(d, conf[i].exclude_paths)}
                         ELSE {}]
       \/ /\ Goto(i, "cache_down")
          /\ UNCHANGED socket \/ (socket = 0 /\ socket' = i)
          /\ UNCHANGED <<res, accept, todo>>
    /\ UNCHANGED <<args, conf, stop, marked, missed, store>>

-----------------------------------------------------------------------------
(* perform_initial_scan() and whitelist_scan_directory().                  *)

Miss(i, paths) == missed' = [missed EXCEPT ![i] = @ \cup paths]

Below(d) == {e.path : e \in {f \in Entries : f.dir = d}}

IsDirectory(d) == d \notin {e.path : e \in {f \in Entries : f.kind # "dir"}}

\* Mutant: an entry that fails ends the scan.
ScanDirectoryGivesUp(i, d) ==
    /\ pc[i] = "scan"
    /\ d \in todo[i] /\ IsDirectory(d)
    /\ \E seen \in SUBSET Below(d) :
          /\ todo' = [todo EXCEPT ![i] =
                         IF seen = Below(d) THEN (@ \ {d}) \cup seen ELSE {}]
          /\ Miss(i, Below(d) \ seen)
    /\ UNCHANGED <<pc, args, conf, stop, res, marked, accept, socket, store>>

\* opendir(), readdir() and an lstat() of each entry, any of which may fail;
\* subdirectories are entered whatever they are.
ScanDirectory(i, d) ==
    /\ pc[i] = "scan"
    /\ d \in todo[i] /\ IsDirectory(d)
    /\ \E seen \in SUBSET Below(d) :
          /\ todo' = [todo EXCEPT ![i] = (@ \ {d}) \cup seen]
          /\ Miss(i, Below(d) \ seen)
    /\ UNCHANGED <<pc, args, conf, stop, res, marked, accept, socket, store>>

\* lstat() sees a symbolic link as such; a library without an x bit is passed over.
is_executable_file(e) == e.kind = "file" /\ e.x /\ e.elf

\* A file that cannot be read, hashed or recorded is passed over too.
ScanFile(i, e) ==
    /\ pc[i] = "scan"
    /\ e.path \in todo[i]
    /\ e.kind # "dir"
    /\ todo' = [todo EXCEPT ![i] = @ \ {e.path}]
    /\ \/ is_executable_file(e) /\ store' = store \cup {e.hash} /\ UNCHANGED missed
       \/ is_executable_file(e) /\ Miss(i, {e.path}) /\ UNCHANGED store
       \/ ~is_executable_file(e) /\ UNCHANGED <<store, missed>>
    /\ UNCHANGED <<pc, args, conf, stop, res, marked, accept, socket>>

\* Nothing looks at g_running before the event loop does.
ScanEnds(i) ==
    /\ pc[i] = "scan"
    /\ todo[i] = {}
    /\ Goto(i, "fan")
    /\ UNCHANGED <<args, conf, stop, res, marked, accept, scanVars, socket>>

-----------------------------------------------------------------------------
(* fanotify, the fork and the loop.                                        *)

\* Mutant: the failure path forgets ipc_server_shutdown().
FanInitKeepsIpc(i) ==
    /\ pc[i] = "fan"
    /\ \/ /\ Goto(i, "fork")
          /\ Acquire(i, "fan")
          /\ \E m \in BOOLEAN : marked' = [marked EXCEPT ![i] = m]
       \/ Goto(i, "cache_down") /\ UNCHANGED <<res, marked>>
    /\ UNCHANGED <<args, conf, stop, accept, scanVars, socket>>

\* A mount that cannot be marked is only logged.
FanInit(i) ==
    /\ pc[i] = "fan"
    /\ \/ /\ Goto(i, "fork")
          /\ Acquire(i, "fan")
          /\ \E m \in BOOLEAN : marked' = [marked EXCEPT ![i] = m]
       \/ Goto(i, "ipc_down") /\ UNCHANGED <<res, marked>>
    /\ UNCHANGED <<args, conf, stop, accept, scanVars, socket>>

\* Without --foreground the parents exit with status 0 and the child goes on
\* without the accept thread; a fork that fails ends the process.
Daemonize(i) ==
    /\ pc[i] = "fork"
    /\ \/ /\ Goto(i, "loop")
          /\ accept' = IF conf[i].foreground THEN accept
                       ELSE [accept EXCEPT ![i] = "lost"]
          /\ UNCHANGED <<res, marked>>
       \/ /\ ~conf[i].foreground
          /\ Goto(i, "gone")
          /\ KernelReleases(i)
    /\ UNCHANGED <<args, conf, stop, scanVars, socket>>

\* fanotify_event_loop() returns on a stop request and on a read() error, and
\* main() cleans up and ends with status 0 either way.
LoopEnds(i) ==
    /\ pc[i] = "loop"
    /\ Goto(i, "ipc_down")
    /\ Release(i, "fan")
    /\ marked' = [marked EXCEPT ![i] = FALSE]
    /\ UNCHANGED <<args, conf, stop, accept, scanVars, socket>>

\* Mutant: a blocking read() that only an event ends.
LoopStopsAtEvent(i) == stop[i] /\ marked[i] /\ LoopEnds(i)

LoopStops(i) == stop[i] /\ LoopEnds(i)

\* The events of one buffer: "ask" stands for their prompts and "add" for the
\* records of what is allowed for good.  In learning mode nobody is asked.  The
\* loop looks at g_running again when all of them are decided.
LoopDecides(i) ==
    /\ pc[i] = "loop"
    /\ marked[i] /\ ~stop[i]
    /\ Goto(i, IF conf[i].learning_mode # 0 THEN "add" ELSE "ask")
    /\ UNCHANGED <<args, conf, stop, res, marked, accept, scanVars, socket>>

\* An answer or the timeout.
AskEnds(i) ==
    /\ pc[i] = "ask"
    /\ Goto(i, "loop") \/ Goto(i, "add")
    /\ UNCHANGED <<args, conf, stop, res, marked, accept, scanVars, socket>>

\* SQLite's journal is opened on the mount whose opens wait for this thread.
OwnOpensWait(i) == DbOnMount /\ conf[i].monitor_shared_libs # 0

\* whitelist_add() and cache_add(); what they record is ExecMonitor's.
AddEnds(i) ==
    /\ pc[i] = "add"
    /\ ~OwnOpensWait(i)
    /\ Goto(i, "loop")
    /\ UNCHANGED <<args, conf, stop, res, marked, accept, scanVars, socket>>

\* ipc_request_permission() waits for an answer only if it is not positive.
AskTimesOut(i) == conf[i].gui_timeout > 0 /\ AskEnds(i)

-----------------------------------------------------------------------------
(* The end.                                                                *)

\* ipc_server_shutdown(): the thread is joined and the path unlinked, whoever
\* owns it by now.  Joining the thread the fork left behind may never return.
IpcShutdown(i) ==
    /\ pc[i] = "ipc_down"
    /\ \/ /\ Goto(i, "cache_down")
          /\ Release(i, "ipc")
          /\ accept' = [accept EXCEPT ![i] = "none"]
          /\ socket' = 0
       \/ /\ accept[i] = "lost"
          /\ Goto(i, "stuck")
          /\ UNCHANGED <<res, accept, socket>>
    /\ UNCHANGED <<args, conf, stop, marked, scanVars>>

CacheShutdown(i) ==
    /\ pc[i] = "cache_down"
    /\ Goto(i, "db_close")
    /\ Release(i, "cache")
    /\ UNCHANGED <<args, conf, stop, marked, accept, scanVars, socket>>

CloseDb(i) ==
    /\ pc[i] = "db_close"
    /\ Goto(i, "gone")
    /\ Release(i, "db")
    /\ UNCHANGED <<args, conf, stop, marked, accept, scanVars, socket>>

\* SIGINT, SIGTERM or SIGHUP: the handler, or before setup_signals() the end.
Signal(i) ==
    \/ /\ pc[i] \notin {"off", "root", "gone"}
       /\ stop' = [stop EXCEPT ![i] = TRUE]
       /\ UNCHANGED <<pc, args, conf, res, marked, accept, scanVars, socket>>
    \/ /\ pc[i] = "root"
       /\ Goto(i, "gone")
       /\ UNCHANGED <<args, conf, stop, res, marked, accept, scanVars, socket>>

\* The process dies; the path of its socket stays.
Crash(i) ==
    /\ pc[i] \notin {"off", "gone"}
    /\ Goto(i, "gone")
    /\ KernelReleases(i)
    /\ UNCHANGED <<args, conf, stop, scanVars, socket>>

-----------------------------------------------------------------------------
Init ==
    /\ pc = [i \in Daemons |-> "off"]
    /\ args = [i \in Daemons |-> <<>>]
    /\ conf = [i \in Daemons |-> Defaults]
    /\ stop = [i \in Daemons |-> FALSE]
    /\ res = [i \in Daemons |-> {}]
    /\ marked = [i \in Daemons |-> FALSE]
    /\ accept = [i \in Daemons |-> "none"]
    /\ todo = [i \in Daemons |-> {}]
    /\ missed = [i \in Daemons |-> {}]
    /\ socket = 0
    /\ store = {}

ScanStep(i) ==
    \/ \E d \in todo[i] : ScanDirectory(i, d)
    \/ \E e \in Entries : ScanFile(i, e)
    \/ ScanEnds(i)

\* What main() does by itself, up to the loop and after it.
Step(i) ==
    \/ Prepare(i)
    \/ OpenDb(i)
    \/ CacheInit(i)
    \/ IpcUnlink(i)
    \/ IpcBind(i)
    \/ ScanStep(i)
    \/ FanInit(i)
    \/ Daemonize(i)
    \/ LoopStops(i)
    \/ AskTimesOut(i)
    \/ AddEnds(i)
    \/ IpcShutdown(i)
    \/ CacheShutdown(i)
    \/ CloseDb(i)

Next ==
    \E i \in Daemons :
        \/ Launch(i)
        \/ Step(i)
        \/ LoopEnds(i)
        \/ LoopDecides(i)
        \/ AskEnds(i)
        \/ Signal(i)
        \/ Crash(i)

Spec == Init /\ [][Next]_vars

\* A started program runs; nothing has to be started, signalled or killed.
FairSpec == Spec /\ \A i \in Daemons : WF_vars(Step(i))

-----------------------------------------------------------------------------
(* Properties.                                                             *)

\* Types of the variables.
TypeOK ==
    /\ pc \in [Daemons -> {"off", "root", "db", "cache", "ipc", "bind", "scan",
                           "fan", "fork", "loop", "ask", "add", "ipc_down",
                           "cache_down", "db_close", "stuck", "gone"}]
    /\ args \in [Daemons -> CommandLines \cup {<<>>}]
    /\ \A i \in Daemons : /\ DOMAIN conf[i] = DOMAIN Defaults
                         /\ conf[i].gui_timeout \in -(IntMax + 1) .. IntMax
    /\ stop \in [Daemons -> BOOLEAN]
    /\ res \in [Daemons -> SUBSET {"db", "cache", "ipc", "fan"}]
    /\ marked \in [Daemons -> BOOLEAN]
    /\ accept \in [Daemons -> {"none", "running", "lost"}]
    /\ todo \in [Daemons -> SUBSET Paths]
    /\ missed \in [Daemons -> SUBSET Paths]
    /\ socket \in Daemons \cup {0}
    /\ store \subseteq {e.hash : e \in Entries}

\* Whatever fails and wherever a stop request comes in, nothing is released
\* before what uses it: the loop and the accept thread never see a closed
\* database or a freed cache, and a normal exit has released everything.
ReleasedInOrder ==
    \A i \in Daemons :
        /\ "fan" \in res[i] => "ipc" \in res[i]
        /\ "ipc" \in res[i] \/ accept[i] # "none" => "cache" \in res[i]
        /\ "cache" \in res[i] => "db" \in res[i]
        /\ pc[i] = "gone" => res[i] = {} /\ ~marked[i]

\* README.md:46 promises shared libraries as well, with or without an x bit; the
\* code takes those that have one.
Scanned(i) ==
    {e \in Entries : is_executable_file(e) /\
        \E d \in ScanDirs : /\ ~is_path_excluded(d, conf[i].exclude_paths)
                            /\ Inside(e.path, d)}

PassedOver(i, e) == \E p \in missed[i] : Inside(e.path, p)

\* When enforcement begins, the scan that was asked for has catalogued every
\* executable below its directories, but for those a failed step has cost, which
\* are at or below the path of that step, even if a stop request came in; and
\* whatever instances scan, nothing but ELF files below the directories gets in.
ScanExact ==
    /\ \A i \in Daemons :
          pc[i] = "loop" /\ conf[i].do_scan =>
              \A e \in Scanned(i) : e.hash \in store \/ PassedOver(i, e)
    /\ \A h \in store : \E e \in Entries :
          /\ e.hash = h /\ e.kind = "file" /\ e.elf
          /\ \E d \in ScanDirs : Inside(e.path, d)

\* The command line overrides the file and the file the defaults, the last
\* setting of a key counts, and timeouts that fit an int are kept.
ConfigAsGiven ==
    \A i \in Daemons : pc[i] # "off" =>
        LET a == args[i]
            f == Files[IF Given(a, "config_path") THEN LastGiven(a, "config_path")
                       ELSE Defaults.config_path]
        IN  \A k \in FileKeys \cup ArgKeys :
               IF Given(a, k)
               THEN Fits(k, LastGiven(a, k)) =>
                        conf[i][k] = Meaning(k, LastGiven(a, k))
               ELSE IF k \in FileKeys /\ f # Missing /\ Given(f, k)
               THEN Fits(k, LastGiven(f, k)) =>
                        conf[i][k] = Meaning(k, LastGiven(f, k))
               ELSE conf[i][k] = Defaults[k]

\* Every path in an excluded directory is excluded ("Files in these paths are
\* always allowed without checking", lexec.conf:48); nothing else is, if the
\* entries end in a slash.
ExclusionCovers ==
    \A i \in Daemons : \A p \in Paths :
        LET X == conf[i].exclude_paths
        IN  /\ (\E x \in X : Inside(p, x)) => is_path_excluded(p, X)
            /\ (\A x \in X : x # <<>> /\ Last(x) = "/") /\ is_path_excluded(p, X) =>
                   \E x \in X : Inside(p, Front(x))

\* Another instance has the opens of this one wait for its own loop.
Intercepted(i) ==
    \E j \in Daemons \ {i} : marked[j] /\ conf[j].monitor_shared_libs # 0

\* A request to stop the program ends it, wherever it comes in, the scan, a
\* question to the user and a record of the answer included.  Not without
\* --foreground, where the shutdown may wait for a thread that is lost; not with
\* a timeout that is zero, or negative from an overflow, where the question waits
\* for an answer; and not if its opens wait for its own loop or for another's.
\* The GUI is supposed to read, so that the write() of the question returns.
StopHonoured ==
    \A i \in Daemons :
        stop[i] /\ conf[i].foreground /\ conf[i].gui_timeout > 0 /\ ~OwnOpensWait(i)
            ~> pc[i] = "gone" \/ Intercepted(i)
=============================================================================
