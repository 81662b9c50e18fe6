----------------------- MODULE DaemonLifecycleProofs -----------------------
(***************************************************************************)
(* For any number of instances that overlap as they like, any command      *)
(* lines, files and directories: what main() acquires is released in the   *)
(* reverse order on every path, the settings that count are the ones given *)
(* last, and the scan leaves out what a failed step has cost and no more.  *)
(***************************************************************************)
EXTENDS DaemonLifecycle, ConfigProofs

Labels == {"off", "root", "db", "cache", "ipc", "bind", "scan", "fan", "fork",
           "loop", "ask", "add", "ipc_down", "cache_down", "db_close", "stuck", "gone"}

\* What an instance holds is a function of where its main() stands.
Holds(l) ==
    CASE l \in {"off", "root", "db", "gone"} -> {}
      [] l \in {"cache", "db_close"} -> {"db"}
      [] l \in {"ipc", "bind", "cache_down"} -> {"db", "cache"}
      [] l \in {"scan", "fan", "ipc_down", "stuck"} -> {"db", "cache", "ipc"}
      [] OTHER -> {"db", "cache", "ipc", "fan"}

Types ==
    /\ pc \in [Daemons -> Labels]
    /\ res \in [Daemons -> SUBSET {"db", "cache", "ipc", "fan"}]
    /\ marked \in [Daemons -> BOOLEAN]
    /\ accept \in [Daemons -> {"none", "running", "lost"}]

\* Where the mark can be on the mount.
Enforcing == {"fork", "loop", "ask", "add"}

HoldsInv ==
    \A i \in Daemons :
        /\ res[i] = Holds(pc[i])
        /\ marked[i] => pc[i] \in Enforcing
        /\ accept[i] # "none" => "ipc" \in Holds(pc[i])

LifecycleInv == Types /\ HoldsInv

-----------------------------------------------------------------------------
LEMMA InitLifecycle == Init => LifecycleInv
BY DEF Init, LifecycleInv, Types, HoldsInv, Holds, Labels

\* main() of one instance goes to a label, acquires or releases what belongs to
\* it and touches nothing of the other instances but the path of the socket.
MovesTo(i, l) ==
    /\ pc[i] \notin {"off", "gone"}
    /\ pc' = [pc EXCEPT ![i] = l]
    /\ res' = [res EXCEPT ![i] = Holds(l)]
    /\ \E m \in BOOLEAN : /\ marked' = [marked EXCEPT ![i] = m]
                          /\ m => l \in Enforcing
    /\ \E a \in {"none", "running", "lost"} :
          /\ accept' = [accept EXCEPT ![i] = a]
          /\ a # "none" => "ipc" \in Holds(l)

LEMMA Moves ==
    ASSUME LifecycleInv, NEW i \in Daemons, NEW l \in Labels, MovesTo(i, l)
    PROVE  LifecycleInv'
<1>. USE DEF MovesTo
<1>0. Types'
  BY DEF LifecycleInv, Types, Holds
<1>1. HoldsInv'
  <2>. SUFFICES ASSUME NEW j \in Daemons
                PROVE  /\ res'[j] = Holds(pc'[j])
                       /\ marked'[j] => pc'[j] \in Enforcing
                       /\ accept'[j] # "none" => "ipc" \in Holds(pc'[j])
    BY DEF HoldsInv, Holds
  <2>1. CASE j = i
    BY <2>1 DEF LifecycleInv, Types
  <2>2. CASE j # i
    BY <2>2 DEF LifecycleInv, Types, HoldsInv
  <2>. QED  BY <2>1, <2>2
<1>. QED  BY <1>0, <1>1 DEF LifecycleInv

LEMMA Stays ==
    ASSUME LifecycleInv, UNCHANGED <<pc, res, marked, accept>>
    PROVE  LifecycleInv'
BY DEF LifecycleInv, Types, HoldsInv

LEMMA LaunchKeeps ==
    ASSUME LifecycleInv, NEW i \in Daemons, Launch(i)
    PROVE  LifecycleInv'
<1>1. /\ pc[i] = "off" /\ pc' = [pc EXCEPT ![i] = "root"]
      /\ UNCHANGED <<res, marked, accept>>
  BY DEF Launch, Goto
<1>2. Types'
  BY <1>1 DEF LifecycleInv, Types, Labels
<1>3. HoldsInv'
  BY <1>1 DEF LifecycleInv, Types, HoldsInv, Holds, Enforcing
<1>. QED  BY <1>2, <1>3 DEF LifecycleInv

LEMMA ActionMoves ==
    ASSUME LifecycleInv, NEW i \in Daemons,
           \/ Prepare(i) \/ OpenDb(i) \/ CacheInit(i) \/ IpcUnlink(i) \/ IpcBind(i)
           \/ ScanEnds(i) \/ FanInit(i) \/ Daemonize(i) \/ LoopEnds(i) \/ LoopDecides(i)
           \/ AskEnds(i) \/ AddEnds(i) \/ IpcShutdown(i) \/ CacheShutdown(i)
           \/ CloseDb(i) \/ Crash(i)
    PROVE  \E l \in Labels : MovesTo(i, l)
<1>. USE DEF Goto, Labels, Enforcing
<1>0. /\ res[i] = Holds(pc[i]) /\ res = [res EXCEPT ![i] = res[i]]
      /\ marked = [marked EXCEPT ![i] = marked[i]] /\ marked[i] \in BOOLEAN
      /\ accept = [accept EXCEPT ![i] = accept[i]]
      /\ accept[i] \in {"none", "running", "lost"}
      /\ marked[i] => pc[i] \in Enforcing
      /\ accept[i] # "none" => "ipc" \in Holds(pc[i])
  BY DEF LifecycleInv, Types, HoldsInv
<1>1. CASE Prepare(i)
  BY <1>1, <1>0 DEF Prepare, MovesTo, Holds
<1>2. CASE OpenDb(i)
  BY <1>2, <1>0 DEF OpenDb, Acquire, MovesTo, Holds
<1>3. CASE CacheInit(i)
  BY <1>3, <1>0 DEF CacheInit, Acquire, MovesTo, Holds
<1>4. CASE IpcUnlink(i)
  BY <1>4, <1>0 DEF IpcUnlink, MovesTo, Holds
<1>5. CASE IpcBind(i)
  BY <1>5, <1>0 DEF IpcBind, Acquire, MovesTo, Holds
<1>6. CASE ScanEnds(i)
  BY <1>6, <1>0 DEF ScanEnds, MovesTo, Holds
<1>7. CASE FanInit(i)
  BY <1>7, <1>0 DEF FanInit, Acquire, MovesTo, Holds
<1>8. CASE Daemonize(i)
  <2>1. CASE pc' = [pc EXCEPT ![i] = "loop"] /\ UNCHANGED <<res, marked>>
    <3>0. accept' \in {accept, [accept EXCEPT ![i] = "lost"]}
      <4>1. pc'[i] = "loop"
        BY <2>1 DEF LifecycleInv, Types
      <4>2. accept' = IF conf[i].foreground THEN accept
                      ELSE [accept EXCEPT ![i] = "lost"]
        BY <1>8, <4>1 DEF Daemonize, LifecycleInv, Types
      <4>. QED  BY <4>2
    <3>1. PICK a \in {"none", "running", "lost"} :
             /\ accept' = [accept EXCEPT ![i] = a]
             /\ a = "running" => accept[i] = "running"
      <4>1. CASE accept' = accept
        BY <4>1, <1>0
      <4>2. CASE accept' = [accept EXCEPT ![i] = "lost"]
        BY <4>2
      <4>. QED  BY <3>0, <4>1, <4>2
    <3>2. /\ pc[i] = "fork"
          /\ marked[i] => "loop" \in Enforcing
          /\ res' = [res EXCEPT ![i] = Holds("loop")]
          /\ "ipc" \in Holds("loop")
      BY <1>8, <2>1, <1>0 DEF Daemonize, Holds
    <3>3. marked' = [marked EXCEPT ![i] = marked[i]]
      BY <2>1, <1>0
    <3>. QED  BY <2>1, <3>1, <3>2, <3>3, <1>0 DEF MovesTo
  <2>2. CASE pc' = [pc EXCEPT ![i] = "gone"] /\ KernelReleases(i)
    BY <1>8, <2>2 DEF Daemonize, KernelReleases, MovesTo, Holds
  <2>. QED  BY <1>8, <2>1, <2>2 DEF Daemonize
<1>9. CASE LoopEnds(i)
  BY <1>9, <1>0 DEF LoopEnds, Release, MovesTo, Holds
<1>10. CASE LoopDecides(i)
  BY <1>10, <1>0 DEF LoopDecides, MovesTo, Holds
<1>11. CASE AskEnds(i)
  BY <1>11, <1>0 DEF AskEnds, MovesTo, Holds
<1>12. CASE AddEnds(i)
  BY <1>12, <1>0 DEF AddEnds, MovesTo, Holds
<1>13. CASE IpcShutdown(i)
  <2>0. /\ pc[i] = "ipc_down" /\ ~marked[i]
        /\ marked' = [marked EXCEPT ![i] = marked[i]]
    BY <1>13, <1>0 DEF IpcShutdown
  <2>1. CASE pc' = [pc EXCEPT ![i] = "cache_down"]
             /\ res' = [res EXCEPT ![i] = @ \ {"ipc"}]
             /\ accept' = [accept EXCEPT ![i] = "none"]
    <3>1. res' = [res EXCEPT ![i] = Holds("cache_down")]
      BY <2>0, <2>1, <1>0 DEF Holds
    <3>2. \E m \in BOOLEAN : marked' = [marked EXCEPT ![i] = m] /\ ~m
      BY <2>0, <1>0
    <3>. QED  BY <2>0, <2>1, <3>1, <3>2 DEF MovesTo
  <2>2. CASE pc' = [pc EXCEPT ![i] = "stuck"] /\ UNCHANGED <<res, accept>>
    <3>1. /\ accept' = [accept EXCEPT ![i] = accept[i]]
          /\ res' = [res EXCEPT ![i] = Holds("stuck")]
          /\ "ipc" \in Holds("stuck")
      BY <2>0, <2>2, <1>0 DEF Holds
    <3>. QED  BY <2>0, <2>2, <3>1, <1>0 DEF MovesTo
  <2>. QED  BY <1>13, <2>1, <2>2 DEF IpcShutdown, Release
<1>14. CASE CacheShutdown(i)
  <2>1. /\ pc[i] = "cache_down" /\ ~marked[i] /\ accept[i] = "none"
        /\ pc' = [pc EXCEPT ![i] = "db_close"]
        /\ marked' = [marked EXCEPT ![i] = marked[i]]
        /\ accept' = [accept EXCEPT ![i] = accept[i]]
    BY <1>14, <1>0 DEF CacheShutdown, Holds
  <2>2. res' = [res EXCEPT ![i] = Holds("db_close")]
    BY <1>14, <1>0 DEF CacheShutdown, Release, Holds
  <2>. QED  BY <2>1, <2>2, <1>0 DEF MovesTo
<1>15. CASE CloseDb(i)
  <2>1. /\ pc[i] = "db_close" /\ ~marked[i] /\ accept[i] = "none"
        /\ pc' = [pc EXCEPT ![i] = "gone"]
        /\ marked' = [marked EXCEPT ![i] = marked[i]]
        /\ accept' = [accept EXCEPT ![i] = accept[i]]
    BY <1>15, <1>0 DEF CloseDb, Holds
  <2>2. res' = [res EXCEPT ![i] = Holds("gone")]
    BY <1>15, <1>0 DEF CloseDb, Release, Holds
  <2>. QED  BY <2>1, <2>2, <1>0 DEF MovesTo
<1>16. CASE Crash(i)
  BY <1>16, <1>0 DEF Crash, KernelReleases, MovesTo, Holds
<1>. QED
  BY <1>1, <1>2, <1>3, <1>4, <1>5, <1>6, <1>7, <1>8, <1>9, <1>10, <1>11, <1>12,
     <1>13, <1>14, <1>15, <1>16

LEMMA LifecycleStep ==
    ASSUME LifecycleInv, [Next]_vars
    PROVE  LifecycleInv'
<1>1. ASSUME NEW i \in Daemons, Step(i) \/ LoopEnds(i) \/ LoopDecides(i) \/ AskEnds(i)
                                \/ Crash(i)
      PROVE  LifecycleInv'
  <2>1. CASE ScanStep(i) /\ ~ScanEnds(i)
    BY <2>1, Stays DEF ScanStep, ScanDirectory, ScanFile
  <2>2. CASE ~(ScanStep(i) /\ ~ScanEnds(i))
    <3>1. PICK l \in Labels : MovesTo(i, l)
      BY <1>1, <2>2, ActionMoves DEF Step, LoopStops, AskTimesOut, ScanStep
    <3>. QED  BY <3>1, Moves
  <2>. QED  BY <2>1, <2>2
<1>2. ASSUME NEW i \in Daemons, Signal(i)
      PROVE  LifecycleInv'
  <2>1. CASE UNCHANGED pc
    BY <1>2, <2>1, Stays DEF Signal
  <2>2. CASE pc[i] = "root" /\ Goto(i, "gone") /\ UNCHANGED <<res, marked, accept>>
    <3>1. Prepare(i) \/ MovesTo(i, "gone")
      BY <2>2 DEF LifecycleInv, Types, HoldsInv, MovesTo, Holds, Goto, Enforcing
    <3>2. "gone" \in Labels
      BY DEF Labels
    <3>. QED  BY <3>1, <3>2, Moves, ActionMoves
  <2>. QED  BY <1>2, <2>1, <2>2 DEF Signal
<1>3. ASSUME NEW i \in Daemons, Launch(i)
      PROVE  LifecycleInv'
  BY <1>3, LaunchKeeps
<1>4. CASE UNCHANGED vars
  BY <1>4, Stays DEF vars
<1>. QED  BY <1>1, <1>2, <1>3, <1>4 DEF Next

LEMMA LifecycleInvariant == Spec => []LifecycleInv
BY InitLifecycle, LifecycleStep, PTL DEF Spec

\* Whatever fails and wherever signals and kills come in, the database is
\* closed after the cache is freed, the cache after the server is down and the
\* server after the loop has ended, and an instance that is gone holds nothing.
THEOREM ReleaseOrder == Spec => []ReleasedInOrder
<1>1. LifecycleInv => ReleasedInOrder
  BY DEF LifecycleInv, Types, HoldsInv, ReleasedInOrder, Holds, Labels,
         Enforcing
<1>. QED  BY <1>1, LifecycleInvariant, PTL

-----------------------------------------------------------------------------
(* The configuration: it is made once, from the command line and the file. *)

ConfInv ==
    /\ args \in [Daemons -> CommandLines \cup {<<>>}]
    /\ conf = [i \in Daemons |-> conf[i]]
    /\ \A i \in Daemons :
          IF pc[i] = "off" THEN conf[i] = Defaults
          ELSE args[i] \in CommandLines /\ conf[i] = Configure(args[i], Files)

LEMMA NotLaunch ==
    ASSUME LifecycleInv, NEW i \in Daemons,
           Step(i) \/ LoopEnds(i) \/ LoopDecides(i) \/ AskEnds(i) \/ Signal(i)
           \/ Crash(i)
    PROVE  /\ UNCHANGED <<args, conf>>
           /\ \A j \in Daemons : pc'[j] = "off" <=> pc[j] = "off"
<1>. DEFINE Goal == /\ UNCHANGED <<args, conf>>
                    /\ \A j \in Daemons : pc'[j] = "off" <=> pc[j] = "off"
<1>. USE DEF Goto
<1>0. pc \in [Daemons -> Labels]
  BY DEF LifecycleInv, Types
<1>1. CASE Prepare(i) \/ OpenDb(i) \/ CacheInit(i) \/ IpcUnlink(i) \/ IpcBind(i)
  BY <1>0, <1>1 DEF Prepare, OpenDb, CacheInit, IpcUnlink, IpcBind
<1>2. CASE ScanStep(i)
  BY <1>0, <1>2 DEF ScanStep, ScanDirectory, ScanFile, ScanEnds
<1>3. CASE \/ FanInit(i) \/ Daemonize(i) \/ LoopEnds(i) \/ LoopDecides(i)
           \/ AskEnds(i) \/ AddEnds(i)
  BY <1>0, <1>3 DEF FanInit, Daemonize, LoopEnds, LoopDecides, AskEnds, AddEnds
<1>4. CASE IpcShutdown(i) \/ CacheShutdown(i) \/ CloseDb(i) \/ Signal(i) \/ Crash(i)
  BY <1>0, <1>4 DEF IpcShutdown, CacheShutdown, CloseDb, Signal, Crash
<1>. QED
  BY <1>1, <1>2, <1>3, <1>4 DEF Step, LoopStops, AskTimesOut

LEMMA InitConf == Init => ConfInv
BY DEF Init, ConfInv

LEMMA ConfStep ==
    ASSUME LifecycleInv, ConfInv, [Next]_vars
    PROVE  ConfInv'
<1>1. ASSUME NEW i \in Daemons, Launch(i)
      PROVE  ConfInv'
  <2>1. PICK a \in CommandLines : /\ args' = [args EXCEPT ![i] = a]
                                  /\ conf' = [conf EXCEPT ![i] = Configure(a, Files)]
    BY <1>1 DEF Launch
  <2>2. pc' = [pc EXCEPT ![i] = "root"] /\ pc \in [Daemons -> Labels]
    BY <1>1 DEF Launch, Goto, LifecycleInv, Types
  <2>. QED  BY <2>1, <2>2 DEF ConfInv
<1>2. ASSUME UNCHANGED <<args, conf>>,
             \A j \in Daemons : pc'[j] = "off" <=> pc[j] = "off"
      PROVE  ConfInv'
  BY <1>2 DEF ConfInv
<1>3. CASE UNCHANGED vars
  BY <1>2, <1>3 DEF vars
<1>. QED  BY <1>1, <1>2, <1>3, NotLaunch DEF Next

LEMMA ConfInvariant == Spec => []ConfInv
BY InitConf, ConfStep, LifecycleInvariant, PTL DEF Spec

\* What main() makes of a command line it can have been given.
LEMMA CommandLine ==
    ASSUME NEW a \in CommandLines
    PROVE  /\ AreSettings(a) /\ \A j \in DOMAIN a : a[j].key \in ArgKeys
           /\ Files[ConfigPath(a)] = Missing \/ AreSettings(Files[ConfigPath(a)])
<1>1. AreSettings(a) /\ \A j \in DOMAIN a : a[j].key \in ArgKeys
  BY SettingsAssumption
<1>2. ConfigPath(a) \in DOMAIN Files
  <2>1. CASE Given(a, "config_path")
    BY <1>1, <2>1, LastIsGreatest, SettingsAssumption DEF ConfigPath, AreSettings
  <2>2. CASE ~Given(a, "config_path")
    BY <2>2, SettingsAssumption DEF ConfigPath
  <2>. QED  BY <2>1, <2>2
<1>. QED  BY <1>1, <1>2, SettingsAssumption

LEMMA ConfType ==
    ASSUME ConfInv, NEW i \in Daemons
    PROVE  /\ DOMAIN conf[i] = DOMAIN Defaults
           /\ conf[i].gui_timeout \in -(IntMax + 1) .. IntMax
           /\ \A x \in conf[i].exclude_paths : IsPath(x)
<1>1. CASE pc[i] = "off"
  BY <1>1, DefaultsType DEF ConfInv
<1>2. CASE pc[i] # "off"
  <2>. DEFINE a == args[i]
              f == Files[ConfigPath(a)]
              c == Configure(a, Files)
  <2>1. conf[i] = c /\ a \in CommandLines
    BY <1>2 DEF ConfInv
  <2>2. /\ AreSettings(a)
        /\ f = Missing \/ AreSettings(f)
        /\ \A j \in DOMAIN a : a[j].key \in ArgKeys
    BY <2>1, CommandLine
  <2>3. /\ DOMAIN c = DOMAIN Defaults
        /\ \A k \in FileKeys \cup ArgKeys :
              c[k] = IF Given(a, k) THEN Value(k, LastGiven(a, k))
                     ELSE IF k \in FileKeys /\ f # Missing /\ Given(f, k)
                     THEN Value(k, LastGiven(f, k)) ELSE Defaults[k]
    <3>. HIDE DEF a
    <3>. QED  BY <2>2, Configured
  <2>. HIDE DEF a, f, c
  <2>4. c.gui_timeout \in -(IntMax + 1) .. IntMax
    <3>1. "gui_timeout" \in FileKeys \cup ArgKeys
      BY DEF FileKeys
    <3>. QED  BY <2>2, <2>3, <3>1, LastMeans, DefaultsType
  <2>5. \A x \in c.exclude_paths : IsPath(x)
    <3>1. "exclude_paths" \in FileKeys \cup ArgKeys
      BY DEF FileKeys
    <3>. QED  BY <2>2, <2>3, <3>1, LastMeans, DefaultsType
  <2>. QED  BY <2>1, <2>3, <2>4, <2>5
<1>. QED  BY <1>1, <1>2

\* Whatever the command line and the file hold, in whatever order: the last
\* setting of a key counts, and the command line's before the file's.
THEOREM SettingsAsGiven == Spec => []ConfigAsGiven
<1>1. ConfInv => ConfigAsGiven
  <2>. SUFFICES ASSUME ConfInv, NEW i \in Daemons, pc[i] # "off"
                PROVE  LET a == args[i]
                           f == Files[IF Given(a, "config_path")
                                      THEN LastGiven(a, "config_path")
                                      ELSE Defaults.config_path]
                       IN  \A k \in FileKeys \cup ArgKeys :
                              IF Given(a, k)
                              THEN Fits(k, LastGiven(a, k)) =>
                                       conf[i][k] = Meaning(k, LastGiven(a, k))
                              ELSE IF k \in FileKeys /\ f # Missing /\ Given(f, k)
                              THEN Fits(k, LastGiven(f, k)) =>
                                       conf[i][k] = Meaning(k, LastGiven(f, k))
                              ELSE conf[i][k] = Defaults[k]
    BY DEF ConfigAsGiven
  <2>. DEFINE a == args[i]
              f == Files[ConfigPath(a)]
              c == Configure(a, Files)
  <2>1. conf[i] = c /\ a \in CommandLines
    BY DEF ConfInv
  <2>2. /\ AreSettings(a)
        /\ f = Missing \/ AreSettings(f)
        /\ \A j \in DOMAIN a : a[j].key \in ArgKeys
    BY <2>1, CommandLine
  <2>. HIDE DEF a
  <2>3. \A k \in FileKeys \cup ArgKeys :
           c[k] = IF Given(a, k) THEN Value(k, LastGiven(a, k))
                  ELSE IF k \in FileKeys /\ f # Missing /\ Given(f, k)
                  THEN Value(k, LastGiven(f, k)) ELSE Defaults[k]
    BY <2>2, Configured
  <2>. HIDE DEF f, c
  <2>4. \A k \in FileKeys \cup ArgKeys :
           IF Given(a, k)
           THEN Fits(k, LastGiven(a, k)) => c[k] = Meaning(k, LastGiven(a, k))
           ELSE IF k \in FileKeys /\ f # Missing /\ Given(f, k)
           THEN Fits(k, LastGiven(f, k)) => c[k] = Meaning(k, LastGiven(f, k))
           ELSE c[k] = Defaults[k]
    BY <2>2, <2>3, LastMeans
  <2>. QED  BY <2>1, <2>4 DEF a, f, ConfigPath
<1>. QED  BY <1>1, ConfInvariant, PTL

\* Whatever directories a configuration excludes, everything in them is
\* excluded, and nothing else if the entries end in a slash.
THEOREM ExclusionByPrefix == Spec => []ExclusionCovers
<1>1. ConfInv => ExclusionCovers
  <2>. SUFFICES ASSUME ConfInv, NEW i \in Daemons, NEW p \in Paths
                PROVE  LET X == conf[i].exclude_paths
                       IN  /\ (\E x \in X : Inside(p, x)) => is_path_excluded(p, X)
                           /\ (\A x \in X : x # <<>> /\ Last(x) = "/")
                              /\ is_path_excluded(p, X) =>
                                  \E x \in X : Inside(p, Front(x))
    BY DEF ExclusionCovers
  <2>1. IsPath(p) /\ \A x \in conf[i].exclude_paths : IsPath(x)
    BY ConfType, TreeAssumption
  <2>. QED  BY <2>1, PrefixOfDirectory DEF is_path_excluded
<1>. QED  BY <1>1, ConfInvariant, PTL
-----------------------------------------------------------------------------
(* The scan: what it still owes lies below a path it has yet to visit.     *)

DataTypes ==
    /\ stop \in [Daemons -> BOOLEAN]
    /\ todo \in [Daemons -> SUBSET Paths]
    /\ missed \in [Daemons -> SUBSET Paths]
    /\ socket \in Daemons \cup {0}
    /\ store \subseteq {e.hash : e \in Entries}

\* From the scan to the end of the loop.
Serving == {"scan", "fan"} \cup Enforcing

Caught(i) ==
    pc[i] \in Serving /\ conf[i].do_scan =>
        \A e \in Scanned(i) :
            \/ e.hash \in store
            \/ PassedOver(i, e)
            \/ pc[i] = "scan" /\ \E t \in todo[i] : Inside(e.path, t)

ScanInv ==
    /\ \A i \in Daemons : \A t \in todo[i] : \E d \in ScanDirs : Inside(t, d)
    /\ \A i \in Daemons : Caught(i)
    /\ \A h \in store : \E e \in Entries :
          /\ e.hash = h /\ e.kind = "file" /\ e.elf
          /\ \E d \in ScanDirs : Inside(e.path, d)

\* Steps that are none of the scan's.
LEMMA ScanUntouched ==
    ASSUME LifecycleInv, NEW i \in Daemons,
           \/ Prepare(i) \/ OpenDb(i) \/ CacheInit(i) \/ ScanEnds(i)
           \/ FanInit(i) \/ Daemonize(i) \/ LoopEnds(i) \/ LoopDecides(i) \/ AskEnds(i)
           \/ AddEnds(i) \/ IpcShutdown(i) \/ CacheShutdown(i) \/ CloseDb(i) \/ Signal(i)
           \/ Crash(i)
    PROVE  /\ UNCHANGED <<conf, todo, missed, store>>
           /\ stop' = stop \/ Signal(i)
           /\ socket' = socket \/ IpcShutdown(i)
           /\ \A j \in Daemons :
                 pc'[j] # pc[j] /\ pc'[j] \in Serving =>
                     /\ pc[j] \in Serving /\ pc'[j] # "scan"
                     /\ pc[j] = "scan" => todo[j] = {}
<1>. USE DEF Goto, scanVars, Serving, Enforcing
<1>0. pc \in [Daemons -> Labels]
  BY DEF LifecycleInv, Types
<1>1. CASE Prepare(i) \/ OpenDb(i) \/ CacheInit(i) \/ ScanEnds(i)
  BY <1>0, <1>1 DEF Prepare, OpenDb, CacheInit, ScanEnds
<1>2. CASE \/ FanInit(i) \/ Daemonize(i) \/ LoopEnds(i) \/ LoopDecides(i)
           \/ AskEnds(i) \/ AddEnds(i)
  BY <1>0, <1>2 DEF FanInit, Daemonize, LoopEnds, LoopDecides, AskEnds, AddEnds
<1>3. CASE IpcShutdown(i) \/ CacheShutdown(i) \/ CloseDb(i)
  BY <1>0, <1>3 DEF IpcShutdown, CacheShutdown, CloseDb
<1>4. CASE Signal(i) \/ Crash(i)
  BY <1>0, <1>4 DEF Signal, Crash
<1>. QED  BY <1>1, <1>2, <1>3, <1>4

LEMMA DataStep ==
    ASSUME LifecycleInv, DataTypes, [Next]_vars
    PROVE  DataTypes'
<1>0. \A i \in Daemons : i \in Daemons \cup {0} /\ 0 \in Daemons \cup {0}
  OBVIOUS
<1>1. ASSUME NEW i \in Daemons, Launch(i)
      PROVE  DataTypes'
  BY <1>1 DEF Launch, DataTypes, scanVars
<1>2. ASSUME NEW i \in Daemons, IpcBind(i)
      PROVE  DataTypes'
  <2>1. PICK T \in SUBSET Paths : todo' = [todo EXCEPT ![i] = T]
    <3>1. CASE UNCHANGED todo
      BY <3>1 DEF DataTypes
    <3>2. CASE \E T \in SUBSET ScanDirs : todo' = [todo EXCEPT ![i] = T]
      BY <3>2 DEF Paths
    <3>. QED  BY <1>2, <3>1, <3>2 DEF IpcBind
  <2>. QED  BY <1>0, <1>2, <2>1 DEF IpcBind, DataTypes
<1>3. ASSUME NEW i \in Daemons, NEW d \in todo[i], ScanDirectory(i, d)
      PROVE  DataTypes'
  <2>0. Below(d) \subseteq Paths
    BY DEF Below, Paths
  <2>1. PICK seen \in SUBSET Below(d) :
           /\ todo' = [todo EXCEPT ![i] = (@ \ {d}) \cup seen]
           /\ missed' = [missed EXCEPT ![i] = @ \cup (Below(d) \ seen)]
    BY <1>3 DEF ScanDirectory, Miss
  <2>2. UNCHANGED <<stop, socket, store>>
    BY <1>3 DEF ScanDirectory
  <2>. QED  BY <2>0, <2>1, <2>2 DEF DataTypes
<1>4. ASSUME NEW i \in Daemons, NEW e \in Entries, ScanFile(i, e)
      PROVE  DataTypes'
  <2>1. /\ UNCHANGED <<stop, socket>>
        /\ store' \in {store, store \cup {e.hash}}
        /\ todo' = [todo EXCEPT ![i] = @ \ {e.path}]
    BY <1>4 DEF ScanFile
  <2>2. missed' \in [Daemons -> SUBSET Paths]
    <3>1. e.path \in Paths
      BY DEF Paths
    <3>2. missed' = missed \/ missed' = [missed EXCEPT ![i] = @ \cup {e.path}]
      BY <1>4 DEF ScanFile, Miss
    <3>. QED  BY <3>1, <3>2 DEF DataTypes
  <2>. QED  BY <2>1, <2>2 DEF DataTypes
<1>5. ASSUME NEW i \in Daemons, UNCHANGED <<todo, missed, store>>,
             stop' = stop \/ Signal(i), socket' = socket \/ IpcShutdown(i)
      PROVE  DataTypes'
  BY <1>0, <1>5 DEF Signal, IpcShutdown, DataTypes
<1>6. CASE UNCHANGED vars
  BY <1>6 DEF vars, DataTypes
<1>7. ASSUME NEW i \in Daemons, IpcUnlink(i)
      PROVE  DataTypes'
  BY <1>0, <1>7 DEF IpcUnlink, scanVars, DataTypes
<1>. QED
  BY <1>1, <1>2, <1>3, <1>4, <1>5, <1>6, <1>7, ScanUntouched
  DEF Next, Step, ScanStep, LoopStops, AskTimesOut

\* An instance whose own part of the state stays, or that leaves the scan with
\* nothing to visit.
LEMMA CaughtStays ==
    ASSUME NEW j \in Daemons, Caught(j), store \subseteq store',
           conf'[j] = conf[j], missed'[j] = missed[j], todo'[j] = todo[j],
           \/ pc'[j] = pc[j]
           \/ pc'[j] \notin Serving
           \/ pc[j] \in Serving /\ (pc[j] = "scan" => todo[j] = {})
    PROVE  Caught(j)'
<1>1. Scanned(j)' = Scanned(j) /\ \A e : PassedOver(j, e)' = PassedOver(j, e)
  BY DEF Scanned, PassedOver
<1>2. SUFFICES ASSUME pc'[j] \in Serving, conf'[j].do_scan, NEW e \in Scanned(j),
                      ~PassedOver(j, e)
               PROVE  \/ e.hash \in store'
                      \/ pc'[j] = "scan" /\ \E t \in todo'[j] : Inside(e.path, t)
  BY <1>1 DEF Caught
<1>. QED  BY <1>2 DEF Caught

LEMMA ScanStepKeeps ==
    ASSUME LifecycleInv, DataTypes, ConfInv, ScanInv, [Next]_vars
    PROVE  ScanInv'
<1>. DEFINE Rooted(T) == \A t \in T : \E d \in ScanDirs : Inside(t, d)
            Recorded(S) == \A h \in S : \E e \in Entries :
                              /\ e.hash = h /\ e.kind = "file" /\ e.elf
                              /\ \E d \in ScanDirs : Inside(e.path, d)
<1>0. /\ \A i \in Daemons : Rooted(todo[i]) /\ Caught(i)
      /\ Recorded(store)
      /\ pc \in [Daemons -> Labels] /\ todo \in [Daemons -> SUBSET Paths]
      /\ missed \in [Daemons -> SUBSET Paths] /\ conf = [i \in Daemons |-> conf[i]]
  BY DEF ScanInv, LifecycleInv, Types, DataTypes, ConfInv
<1>1. SUFFICES ASSUME Next
               PROVE  ScanInv'
  <2>1. CASE UNCHANGED vars
    <3>1. UNCHANGED <<pc, conf, todo, missed, store>>
      BY <2>1 DEF vars
    <3>2. \A j \in Daemons : Caught(j)'
      BY <1>0, <3>1, CaughtStays
    <3>. QED  BY <1>0, <3>1, <3>2 DEF ScanInv
  <2>. QED  BY <1>1, <2>1
<1>2. ASSUME NEW i \in Daemons, Launch(i)
      PROVE  ScanInv'
  <2>1. /\ pc' = [pc EXCEPT ![i] = "root"] /\ UNCHANGED <<todo, missed, store>>
        /\ \A j \in Daemons : j # i => conf'[j] = conf[j]
    BY <1>0, <1>2 DEF Launch, Goto, scanVars
  <2>2. ASSUME NEW j \in Daemons
        PROVE  Caught(j)'
    <3>1. CASE j = i
      BY <1>0, <2>1, <3>1 DEF Caught, Serving, Enforcing
    <3>2. CASE j # i
      BY <1>0, <2>1, <3>2, CaughtStays
    <3>. QED  BY <3>1, <3>2
  <2>. QED  BY <1>0, <2>1, <2>2 DEF ScanInv
<1>3. ASSUME NEW i \in Daemons, IpcBind(i)
      PROVE  ScanInv'
  <2>. DEFINE Dirs == {d \in ScanDirs : ~is_path_excluded(d, conf[i].exclude_paths)}
  <2>1. /\ UNCHANGED <<conf, missed, store>>
        /\ \/ /\ pc' = [pc EXCEPT ![i] = "scan"]
              /\ todo' = [todo EXCEPT ![i] = IF conf[i].do_scan THEN Dirs ELSE {}]
           \/ pc' = [pc EXCEPT ![i] = "cache_down"] /\ todo' = todo
    BY <1>3 DEF IpcBind, Goto
  <2>2. \A j \in Daemons : j # i => pc'[j] = pc[j] /\ todo'[j] = todo[j]
    BY <1>0, <2>1
  <2>3. Rooted(todo'[i])
    BY <1>0, <2>1 DEF Inside
  <2>4. ASSUME NEW j \in Daemons
        PROVE  Caught(j)'
    <3>1. CASE j = i
      <4>1. Scanned(i)' = Scanned(i)
        BY <2>1 DEF Scanned
      <4>2. CASE pc' = [pc EXCEPT ![i] = "cache_down"]
        BY <1>0, <3>1, <4>2 DEF Caught, Serving, Enforcing
      <4>3. CASE /\ pc' = [pc EXCEPT ![i] = "scan"]
                 /\ todo' = [todo EXCEPT ![i] = IF conf[i].do_scan THEN Dirs ELSE {}]
        <5>1. pc'[i] = "scan" /\ (conf[i].do_scan => todo'[i] = Dirs)
          BY <1>0, <4>3
        <5>2. \A e \in Scanned(i) : \E d \in Dirs : Inside(e.path, d)
          BY DEF Scanned
        <5>. HIDE DEF Dirs
        <5>. QED  BY <2>1, <3>1, <4>1, <5>1, <5>2 DEF Caught
      <4>. QED  BY <2>1, <4>2, <4>3
    <3>2. CASE j # i
      BY <1>0, <2>1, <2>2, <3>2, CaughtStays
    <3>. QED  BY <3>1, <3>2
  <2>5. \A j \in Daemons : Rooted(todo'[j])
    BY <1>0, <2>2, <2>3
  <2>. QED  BY <1>0, <2>1, <2>4, <2>5 DEF ScanInv
<1>4. ASSUME NEW i \in Daemons, NEW d \in todo[i], ScanDirectory(i, d)
      PROVE  ScanInv'
  <2>1. /\ UNCHANGED <<pc, conf, store>> /\ pc[i] = "scan" /\ IsDirectory(d)
        /\ \E seen \in SUBSET Below(d) :
              /\ todo' = [todo EXCEPT ![i] = (@ \ {d}) \cup seen]
              /\ missed' = [missed EXCEPT ![i] = @ \cup (Below(d) \ seen)]
    BY <1>4 DEF ScanDirectory, Miss
  <2>2. /\ \A j \in Daemons : j # i => todo'[j] = todo[j] /\ missed'[j] = missed[j]
        /\ \E seen \in SUBSET Below(d) : /\ todo'[i] = (todo[i] \ {d}) \cup seen
                                         /\ missed'[i] = missed[i] \cup (Below(d) \ seen)
    BY <1>0, <2>1
  <2>3. d \in Paths
    BY <1>0
  <2>4. Rooted(todo'[i])
    <3>1. PICK r \in ScanDirs : Inside(d, r)
      BY <1>0
    <3>2. \A p \in Below(d) : Inside(p, r)
      <4>1. \A e \in Entries : IsPath(e.path)
        BY TreeAssumption DEF Paths
      <4>2. IsPath(d) /\ IsPath(r)
        BY <2>3, TreeAssumption DEF Paths
      <4>. QED  BY <3>1, <4>1, <4>2, TreeAssumption, InsideTransitive DEF Below
    <3>3. todo'[i] \subseteq todo[i] \cup Below(d)
      BY <2>2
    <3>. QED  BY <1>0, <3>2, <3>3
  <2>5. ASSUME NEW j \in Daemons
        PROVE  Caught(j)'
    <3>1. CASE j = i
      <4>1. missed[i] \subseteq missed'[i] /\ Scanned(i)' = Scanned(i)
        BY <2>1, <2>2 DEF Scanned
      <4>2. SUFFICES ASSUME conf[i].do_scan, NEW e \in Scanned(i), e.hash \notin store,
                            ~PassedOver(i, e)'
                     PROVE  \E t \in todo'[i] : Inside(e.path, t)
        BY <2>1, <3>1, <4>1 DEF Caught
      <4>3. PICK t \in todo[i] : Inside(e.path, t)
        BY <1>0, <2>1, <4>1, <4>2 DEF Caught, Serving, Enforcing, PassedOver
      <4>4. CASE t = d
        <5>1. e \in Entries /\ e.kind = "file" /\ e.path # d
          BY <2>1 DEF Scanned, is_executable_file, IsDirectory
        <5>2. PICK p \in Below(d) : Inside(e.path, p)
          BY <2>3, <4>3, <4>4, <5>1, TreeAssumption DEF Below
        <5>3. p \in todo'[i] \/ p \in missed'[i]
          BY <2>2
        <5>. QED  BY <4>2, <5>2, <5>3 DEF PassedOver
      <4>5. CASE t # d
        BY <2>2, <4>3, <4>5
      <4>. QED  BY <4>4, <4>5
    <3>2. CASE j # i
      BY <1>0, <2>1, <2>2, <3>2, CaughtStays
    <3>. QED  BY <3>1, <3>2
  <2>6. \A j \in Daemons : Rooted(todo'[j])
    BY <1>0, <2>2, <2>4
  <2>. QED  BY <1>0, <2>1, <2>5, <2>6 DEF ScanInv
<1>5. ASSUME NEW i \in Daemons, NEW f \in Entries, ScanFile(i, f)
      PROVE  ScanInv'
  <2>1. /\ UNCHANGED <<pc, conf>> /\ pc[i] = "scan" /\ f.kind # "dir"
        /\ f.path \in todo[i]
        /\ todo' = [todo EXCEPT ![i] = @ \ {f.path}]
        /\ \/ /\ is_executable_file(f) /\ store' = store \cup {f.hash}
              /\ missed' = missed
           \/ missed' = [missed EXCEPT ![i] = @ \cup {f.path}] /\ store' = store
           \/ ~is_executable_file(f) /\ store' = store /\ missed' = missed
    BY <1>5 DEF ScanFile, Miss
  <2>2. /\ \A j \in Daemons : j # i => todo'[j] = todo[j] /\ missed'[j] = missed[j]
        /\ todo'[i] = todo[i] \ {f.path} /\ store \subseteq store'
        /\ missed[i] \subseteq missed'[i]
        /\ is_executable_file(f) => f.hash \in store' \/ f.path \in missed'[i]
    BY <1>0, <2>1
  <2>3. ASSUME NEW j \in Daemons
        PROVE  Caught(j)'
    <3>1. CASE j = i
      <4>1. Scanned(i)' = Scanned(i)
        BY <2>1 DEF Scanned
      <4>2. SUFFICES ASSUME conf[i].do_scan, NEW e \in Scanned(i), e.hash \notin store',
                            ~PassedOver(i, e)'
                     PROVE  \E t \in todo'[i] : Inside(e.path, t)
        BY <2>1, <3>1, <4>1 DEF Caught
      <4>3. PICK t \in todo[i] : Inside(e.path, t)
        BY <1>0, <2>1, <2>2, <4>2 DEF Caught, Serving, Enforcing, PassedOver
      <4>4. e \in Entries /\ is_executable_file(e)
        BY DEF Scanned
      <4>5. ASSUME t = f.path
            PROVE  FALSE
        <5>1. e = f
          BY <2>1, <4>3, <4>4, <4>5, TreeAssumption
        <5>. QED  BY <2>2, <4>2, <4>4, <5>1 DEF PassedOver, Inside
      <4>. QED  BY <2>2, <4>3, <4>5
    <3>2. CASE j # i
      BY <1>0, <2>1, <2>2, <3>2, CaughtStays
    <3>. QED  BY <3>1, <3>2
  <2>4. Recorded(store')
    <3>1. CASE store' = store
      BY <1>0, <3>1
    <3>2. CASE is_executable_file(f) /\ store' = store \cup {f.hash}
      <4>1. f.kind = "file" /\ f.elf
        BY <3>2 DEF is_executable_file
      <4>2. \E d \in ScanDirs : Inside(f.path, d)
        BY <1>0, <2>1
      <4>. QED  BY <1>0, <3>2, <4>1, <4>2
    <3>. QED  BY <2>1, <3>1, <3>2
  <2>5. \A j \in Daemons : Rooted(todo'[j])
    BY <1>0, <2>2
  <2>. QED  BY <2>3, <2>4, <2>5 DEF ScanInv
<1>6. ASSUME UNCHANGED <<conf, todo, missed, store>>,
             \A j \in Daemons :
                 pc'[j] # pc[j] /\ pc'[j] \in Serving =>
                     /\ pc[j] \in Serving /\ pc'[j] # "scan"
                     /\ pc[j] = "scan" => todo[j] = {}
      PROVE  ScanInv'
  <2>1. \A j \in Daemons : Caught(j)'
    BY <1>0, <1>6, CaughtStays
  <2>. QED  BY <1>0, <1>6, <2>1 DEF ScanInv
<1>7. ASSUME NEW i \in Daemons, IpcUnlink(i)
      PROVE  ScanInv'
  <2>1. /\ UNCHANGED <<conf, todo, missed, store>>
        /\ \E l \in {"bind", "cache_down"} : pc' = [pc EXCEPT ![i] = l]
    BY <1>7 DEF IpcUnlink, Goto, scanVars
  <2>. QED  BY <1>0, <1>6, <2>1 DEF Serving, Enforcing
<1>. QED
  BY <1>1, <1>2, <1>3, <1>4, <1>5, <1>6, <1>7, ScanUntouched
  DEF Next, Step, ScanStep, LoopStops, AskTimesOut

LEMMA ScanInvariant == Spec => [](DataTypes /\ ScanInv)
<1>1. Init => DataTypes /\ ScanInv
  BY DEF Init, DataTypes, ScanInv, Caught, Serving, Enforcing
<1>. QED
  BY <1>1, DataStep, ScanStepKeeps, LifecycleInvariant, ConfInvariant, PTL DEF Spec

\* For any tree of files, any directories to scan and to exclude, and any
\* instances scanning together: when an instance enforces, every executable it
\* was to catalogue is there, unless the path of a failed step leads to it, and
\* nothing but an ELF file below a scanned directory ever gets into the database.
THEOREM ScanIsExact == Spec => []ScanExact
<1>1. ScanInv => ScanExact
  BY DEF ScanInv, ScanExact, Caught, Serving, Enforcing
<1>. QED  BY <1>1, ScanInvariant, PTL

\* Every variable keeps its type for every command line, file and tree; the
\* timeout stays an int whatever number is given.
THEOREM LifecycleTypes == Spec => []TypeOK
<1>1. LifecycleInv /\ ConfInv /\ DataTypes => TypeOK
  BY ConfType DEF LifecycleInv, Types, Labels, ConfInv, DataTypes, TypeOK
<1>. QED  BY <1>1, LifecycleInvariant, ConfInvariant, ScanInvariant, PTL
=============================================================================
