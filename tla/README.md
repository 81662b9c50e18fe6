# A verification project for Linux Anti-Executable

TLA+ models of `lexec-daemon` and `lexec-gui`, checked with TLC and, for the
theorems below, proved with TLAPS. Paths are relative to the repository's
`src/`; `fanotify_handler.c`, `ipc_server.c`, `whitelist.c`, `whitelist_cache.c` and
the daemon's `main.c` are under `src/daemon/`, the client is `src/gui/main.c`.

## The system

| Component | State | Operations | Hard behaviour |
|---|---|---|---|
| fanotify event loop, `fanotify_handler.c` | `g_running`, the batch in the 4096-byte buffer, the event in hand | read a batch, handle an exec or an open event, respond | a stop in mid-batch, stores read before a prompt that lasts 30 s, the daemon's own opens, crash and restart |
| IPC server, `ipc_server.c` | `client_fd`, `g_pending[]` and its lock, the accept thread, one reader per connection | accept, read an answer, `ipc_request_permission()`, shutdown | descriptor numbers shared by threads, timeout against late answer, slot lifetime, joins |
| whitelist cache, `whitelist_cache.c` | hash table, entry counter, Bloom filter | init, check, add, remove, clear, stats, shutdown | filter and counter against the table, the limit |
| whitelist database, `whitelist.c` | one SQLite table, three prepared statements | check, add, remove, count, scan | failing statements, locks held by unreset statements |
| lifecycle and initial scan, `main.c`, `whitelist.c` | `g_running`, descriptors, the path of the socket | init, scan, mark, daemonize, loop, clean up, signals | unwinding, fork after threads, several instances, SIGHUP |
| configuration, `main.c` | `g_config` | `parse_args()` twice around `parse_config_file()`, `is_path_excluded()` | integer conversion, prefix lists, precedence |
| GUI client, `src/gui/main.c` | socket, watches, timers, open dialogs, label | connect, show a prompt, answer, reconnect | overlapping connections and timers, dialogs that outlive them, its own opens |
| hashing, wire structs, scripts, SELinux policy, units | none at run time | | |

The kernel queues a permission event for each `execve()` and, with
`monitor_shared_libs`, each `open()` on the marked mounts, and the caller sleeps.
The one event-loop thread handles the events in order: it computes the digest,
asks the cache, then the database, then the user through
`ipc_request_permission()`, which blocks it until an answer, the timeout or the
loss of the client; then it writes the response and closes the event's
descriptor. The accept thread and the readers share `client_fd`, the pending entry
and the descriptor table of the process with it. The GUI is one GLib thread that
connects, reconnects with timers, and opens a dialog per request. Only the database
and the path of the socket outlive a crash.

What makes each component correct:

- event loop: each event answered exactly once; each call decided by what is on disk
  and by the user's answer to that call; nothing remembered in memory only; every call comes
  back; a stop request stops the loop;
- IPC server: an answer reaches the call it belongs to; the pending entry outlives
  the reader that matched it; a number is only closed by its owner; the call
  returns whatever the GUI does; the shutdown ends;
- cache: a set with a limit, in spite of chains, counter and filter;
- lifecycle: what was acquired is released in reverse order on every path;
  the scan catalogues what is there, whatever else fails; a stop request is honoured;
- configuration: command line over file over defaults, and exclusion means what the file says;
- client: it watches the connection it has, always tries again, settles on one
  connection, and never applies an answer to another file.

## Modules

| Module | Models | Lines up with |
|---|---|---|
| `ExecMonitor` | the event loop over both stores, signals, crash, restart | `Gate`, which it implements |
| `Gate` | abstract: each call decided in one step | |
| `IpcServer` | accept thread, readers, the call, the shutdown, the descriptor table | `PermissionCall`, which it implements |
| `PermissionCall` | abstract: one call of `ipc_request_permission()` | |
| `WhitelistCache` | hash table, counter, filter | `WhitelistSet`, which it implements |
| `WhitelistSet` | abstract: a set with a limit | |
| `Config` | parsing and exclusion as operators | used by `DaemonLifecycle` |
| `DaemonLifecycle` | `main()` from its command line to its exit, the scan, several instances | |
| `GuiClient` | the client's callbacks over connections | used by `LexecSystem` |
| `LexecSystem` | client and daemon together, with deaths and restarts of both | |

**`ExecMonitor`** is the event loop with both stores as sets of digests, the kernel's
queue, and the signals, crash and restart around it. A file is its digest and what
the handlers look at: ELF magic, the name of a shared library, exclusion. `loop` is
where the thread stands: `read`, then for each event of the batch `handle`, perhaps
`ask` and `add`, then `respond`. The actions follow the code's branches:

| Action | Code |
|---|---|
| `Attempt`, `Deliver`, `ReleaseAll` | the kernel; `fanotify_allow()`, `fanotify_deny()`; close of the descriptor |
| `ReadEvents`, `NextEvent`, `LoopExit` | `fanotify_event_loop()`; the inner loop does not look at `g_running` |
| `AllowUnchecked` | the early returns of both handlers: excluded, not ELF, no library name, `readlink` or hash failed |
| `CacheHit`, `DbHit` | `cache_check()`, then `whitelist_check()` and `cache_add()` |
| `Learn`, `AskUser`, `UserAnswers`, `Decision` | learning mode; `ask_user_permission()` and its switch |
| `AddDigest`, `AddOpensJournal` | `whitelist_add()` and `cache_add()`, either of which may fail; SQLite's own open on a marked mount |
| `OtherInstanceAdds` | a scan or a daemon that runs beside this one writes the database, at any time |
| `Signal`, `Crash`, `Start` | `signal_handler()`; process death; `main()`, which may come back in the other mode |

`handle_exec_perm_event()` and `handle_open_perm_event()` take the same decisions in
the same order, except that the second looks at shared libraries only, so one set of
actions with the event's mask models both. `WireCode` gives the integer the client
sends for each button: `GuiCodes` as `protocol.h` numbers them, `ServerCodes`
as `ipc_server.h` does. `ipc_request_permission()` is one step that returns any answer.

**`Gate`** is what that promises an intercepted process: a call waits; it may be found `unknown`
(`Miss`), which only its own approval undoes, so that a digest others approve during its prompt (`ApprovedElsewhere`)
comes too late for it, as in the code; the user may say something about an unknown call; and one step
allows or denies it. Only an unknown call is ever denied. The refinement maps `outstanding` to `waiting`, `db` to
`approved`, the call between its lookup and its response to `unknown` and the answer in hand to `said`; batches, the
cache and modes disappear.

**`IpcServer`** is the call and everything that runs beside it, step by step: the
accept thread (accept, install, spawn), a reader per connection (read, find, complete, or
end of file, clear, close), the caller (snapshot, allocate, write, wait, clean up) and
the shutdown. The descriptor table `fdt` maps a number to what it names, and the kernel
gives out the lowest free number, to connections and to events; a blocked `read()`
or `write()` keeps the connection it began on, as Linux does. `g_pending_lock` is
`locker`; the caller never holds it across a step of the model, because each of its
critical sections is one action. `g_pending[]` has one entry because
there is one caller. A client may be left without a reader, because `pthread_create()` is not checked
(`AcceptSpawn`). Where two threads use one number for different things, the model follows the bytes: `is_elf_file()`
on a number that has become a connection takes half a message (`ElfReads`, `HalfMessage`), so that what the
reader gets next is put together from two, and a reader whose number has become an event's gets content of
the file. The id such bytes show is 0 or one of the constant `Stray`.

**`PermissionCall`** is what `ipc_server.h` promises the caller: a call that finds no GUI, or loses it
before the request is written, returns "no client"; one whose request is written returns the
user's answer to this very request, or, if there is a timeout, the timeout. `CallPromise` is the
refinement. `Stage` maps the caller's position to that of the abstract call: the request is `posed` once it is
written, and `said` as soon as the user has answered it. What the user has answered is the ghost variable
`said`, which no action reads. Connections, descriptors, locks and the ids of other calls disappear.

**`WhitelistCache`** is the hash table of `whitelist_cache.c` with its chains, counter
and filter, one action per call; **`WhitelistSet`** is what `whitelist_cache.h` promises, a
set with a limit. `ImplementsSet` is the refinement: `members` is the union of the chains.
`out` records each call and its result, so the refinement is about what callers see.

**`Config`** has `parse_args()` and `parse_config_file()` as folds over settings, `Millis` as `atoi(v) * 1000`
in an `int` that wraps, and `is_path_excluded()` as the prefix test it is; a path is a
sequence of tokens shorter than components, so `/opt` and `/optional` share a
prefix. **`DaemonLifecycle`** follows `main()` for several instances: `pc` names the next call,
`res` what the instance holds. Each initialisation succeeds or takes its error path;
the scan visits `todo` in any order, and `missed` collects the paths a failed `opendir()`, `readdir()`,
`lstat()`, read or statement costs; `loop`, `ask` and `add` are the event loop as far as its end
depends on it, where `add` is `whitelist_add()`, which does not return if the daemon's opens are events of its own
(`OwnOpensWait`); a signal sets `stop`, which only the loop reads. Instances may overlap. They share the database
and the path of the socket, which every one of them unlinks before its `bind()` (`IpcUnlink`, `IpcBind`), which fails if
another has bound it in between, and again at its end.

**`GuiClient`** has a connection as a number (which number does not matter here), `watches`, `timers`
and `dialogs`. `TimerFires` is `connect_to_daemon()` called by a timer, whose result 0 on success is
`G_SOURCE_REMOVE` and whose failure keeps the timer; it does not look whether there is a
connection. `Lost` is the hang-up branch: it drops the current socket, whichever connection hung
up. With `GuiOpens` showing a dialog waits for a file of the marked mount, which is
served (`Present`) only when the event loop is not in a prompt. **`LexecSystem`** puts it
together with the daemon seen from the socket: `Accept`, `ReaderEnds`, `Take`, `Ask`, `Timeout`, and `Die`
and `Start`, after which request ids begin at 1 again. What the descriptor numbers do to the
readers (`IpcServer`) is here the choice in `Accept` and `ReaderEnds`.

`MCExecMonitor`, `MCWhitelistCache` and `MCDaemonLifecycle` define the small files, digests, filter bits,
command lines and directories of the runs; the others have only numbers and Booleans for
constants. The modules `*Proofs` hold the theorems. A definition marked "Mutant" is a bug the
properties must notice; no specification uses it.

## Runs

Runs that pass:

| Run | Shows |
|---|---|
| `exec_strict` | a client with the server's codes, restarts that switch learning mode on and off, another instance that writes the database: `GatePromise`, `EveryEventHeld`, `AllowIsBacked`, `AnswerHonoured`, `CacheBacked`, `NeverAskedAgain`, `LearningWhitelists`, types, and live `EveryCallReturns` and `StopsWhenTold` |
| `exec_faults` | the GUI's own codes, failing reads, hashes and database, and self-interception: `EveryEventHeld` and `CachedNeverDenied` all the same |
| `ipc_safety` | three connections, two at a time, half messages and content of files read for messages: `SlotAliveForReader`, `NoDescriptorLeak`, types |
| `ipc_sequential` | two GUIs, one after another, two requests: `CallPromise`, `EventDescriptorIntact`, and live `CallReturns`, `BacklogAccepted`, `ShutdownTerminates` |
| `cache_refines` | chains, filter, counter; the refinement of `WhitelistSet` |
| `startup` | two instances that may overlap, three command lines, three configuration files, each initialisation and each step of the scan failing or not: `ReleasedInOrder`, `ScanExact`, `ConfigAsGiven`, `ExclusionCovers`, types, and live `StopHonoured` |
| `system` | both programs with deaths and restarts: `WatchedSocket`, `NeverGivesUp`, `LabelNotFalselyGreen`, `SameRunConsent`, types, and live `Settles` and `GuiUnblocked` |

Runs that end in a counterexample to a sentence of the repository's own documentation,
comments or user interface; `PROJECT.json` quotes each under "findings":

| Run | What happens |
|---|---|
| `exec_gui` | the GUI sends 101 for "Allow Always", the daemon's switch knows 2: denied and not recorded. "Deny" (102) takes the same default branch, so with `default_deny = 0` a denied program runs |
| `exec_self` | with `FAN_OPEN_PERM` on the mount of the database, the commit's open waits for the thread that commits |
| `ipc_event_fd` | the reader of a replaced client closes its number again, which is an event's by then |
| `ipc_blocked_write` | a GUI that does not read blocks the daemon's `write()` outside the timeout |
| `ipc_daemonized` | without `--foreground` the fork leaves the accept thread behind |

### What no run forbids

The models take some further steps that a change of the code should look at, and the
properties are stated so that these remain visible as their hypotheses:

- A failed `whitelist_add()` leaves a digest in memory only (`AddDigest` with `DbFaults`, the
  hypothesis of `CacheIsBacked`).
- What another instance records while a prompt is open does not save the call from a denial: the stores were
  read before (`OtherInstanceAdds`, `Miss` of `Gate`).
- The GUI makes overlapping connections (`gui/main.c:303`). Then the reader of an earlier client, whose number the newest
  one has, clears `client_fd` of the newest and closes it (`ReaderClears`, `ReaderCloses`), and "Currently connected
  client" (`ipc_server.c:27`) names nobody while one is connected. A client replaced under the call makes it return
  "no client" (`Snapshot`, `BeginWrite`).
- With overlapping connections a reader may take bytes that nobody sent as an answer for the answer to the
  request in progress: TLC finds `CallPromise` violated with `NConns = 2`, `MaxLive = 2`, `NRequests = 1` and `Stray = {1}`,
  through a number that has become an event's. `CallImplements` has the hypothesis that excludes it.
- With `gui_timeout = 0`, or a value that wraps to a negative one, a call whose GUI leaves never returns
  (`Wake` without `Timed`, `AskTimesOut`), and a stop request waits with it: the hypothesis of `StopHonoured`.
- Ids are unique within a run of the daemon only ("Prepare request with unique ID", `ipc_server.c:226`):
  a dialog that outlives a restart answers the request of the same number. `SameRunConsent` is limited to
  one run for this reason.
- A timer that connects does not redraw the label, which goes on saying "Disconnected": only the
  other direction, `LabelNotFalselyGreen`, holds.
- While the user keeps clicking Reconnect between hang-ups, left-over timers can replace the connection
  again and again: the second hypothesis of `Settles`.
- A starting instance removes the path of a running one's socket, and the end of an older one removes that of a
  newer, which then runs without being reached; `scripts/first-run-scan.sh:73-78` starts one
  without waiting for another to end. The run `startup` takes these steps; no property forbids them.
- The scan asks for an x bit, which most shared libraries do not have, while the handlers check libraries
  without one, and `README.md:46` says "Catalogs all existing executables and shared libraries". This is a disagreement
  of code and documentation. `ScanExact` requires what the code's own test selects and allows any ELF file, so it
  stays true if the test is made to agree with the documentation.
- An instance that does not intercept opens itself waits with its own for another instance that does, and that one for its
  own commit: the second hypothesis of `StopHonoured`.
- SIGHUP, which the unit sends on reload, ends the daemon with status 0, which `Restart=on-failure` leaves
  alone; so does an error of `read()` on the fanotify descriptor (`LoopEnds`).
- A mount that cannot be marked is only logged (`FanInit`), and the daemon runs without enforcing.
- `first-run-scan.sh` reports learning mode without passing `--learn`.

Deadlock checking is on in `ExecMonitor` and `WhitelistCache`, where some process can
always act. It is off elsewhere: the programs end, and the bounds use up connections, requests
and starts.

### Bounds

- `ExecMonitor`: two processes, two digests, five files (two of one digest, a library, a script, an
  excluded program), batches of up to two. Two processes give a batch of two, an event
  that waits behind a prompt, and a digest that becomes known while another event of it
  waits; `Foreign` has one digest that another instance may record; a process has at most one event, so longer queues repeat these cases. `exec_self`
  uses the program and the library only. The theorems have no bounds.
- `IpcServer`: `NConns` connections, `MaxLive` of them not yet wound up, `NRequests`, `BatchSize`,
  `SockCap`. Two overlapping connections make the double close; a third takes the number that was freed
  under an event (`HashConn`). With `MaxLive = 1` the GUIs take turns. Two requests let the answer to the first
  arrive during the second, on the next connection. A socket buffer of one request fills at once; in the
  code it takes more than a dozen requests of 12 KB. Request ids do not wrap: that takes 2^32 prompts. `Stray` are the
  ids that bytes may show which nobody sent as an answer: the one in use is enough.
- `WhitelistCache`: two digests in one bucket and a third whose filter bits together with
  theirs cover each other, limits 0 and 2. Every chain of up to two and every filter
  collision occurs.
- `DaemonLifecycle`: `NDaemons = 2`: the second starts while the first is anywhere between its start and its end, or
  finds what a crash or a failure of it left. A 16-bit
  `IntMax` makes a timeout of 40 s wrap, as 25 days do in 32 bits. `DbOnMount` is TRUE, and one of the files turns
  `monitor_shared_libs` off, so that a record on disk may return or not. Four directory entries: a library without
  x bit in one directory of the scan, a program two levels below the other, and one in
  a directory whose name begins like an excluded one.
- `LexecSystem`: `NConns = 3` connections at a time, `MaxLinks = 2` timers and watches that user actions may bring
  about, `MaxIds = 2` prompts, `MaxRuns = 2` runs of the daemon, two files. Two prompts with two files
  suffice for an answer to reach the wrong one, two runs for an id to come again, three connections for a
  forgotten one, the current one and its replacement.

### Fairness

- `ExecMonitor!FairSpec`: weak fairness of the thread's steps together. The scheduler runs
  a runnable thread, and the prompt returns, which is what `CallReturns` in `ipc_sequential`
  shows of a GUI that reads and a positive timeout. No fairness for signals,
  calls or crashes.
- `IpcServer!FairSpec`: weak fairness of the accept thread (its `poll()` wakes every second),
  of each reader, and of the caller once it has an event. No fairness for new events, new connections, a
  stop request, or anything a GUI does. `LiveSpec` adds that a connected GUI reads its
  socket, which its GLib main loop does; `ipc_blocked_write` is the run without it.
- `DaemonLifecycle!FairSpec`: weak fairness of what each instance does by itself. `AskEnds`, the user's answer, has
  none; the timeout has, if it is positive, and the end of a record on disk, if the daemon does not wait for itself. The
  write of the request is taken to return: `ipc_blocked_write` shows when it does not.
- `LexecSystem!FairSpec`: weak fairness of each callback of a main loop that runs, of the accept thread, of each
  reader and of the timeout. `ServeGui` has strong fairness: fanotify's queue is first in, first out, so the
  client's open is served after finitely many other events, although prompts disable it in between. None for
  clicks, activations, prompts, deaths and starts.

## Proofs

Each theorem is proved for all values of the constants that satisfy the named assumptions.

`ExecMonitorProofs`, from `FilesAssumption` and `ConfigAssumption`:

| Theorem | Hypotheses besides |
|---|---|
| `TypeCorrect`: `[]TypeOK` | |
| `NoEventLost`: `[]EveryEventHeld` | |
| `CachedIsNeverDenied`: `[]CachedNeverDenied` | |
| `CacheIsBacked`: `[]CacheBacked` | the database takes its writes |
| `GrantedForGood`: `NeverAskedAgain` | no failing reads or statements |
| `AllowedIsBacked`: `[]AllowIsBacked` | no failing reads or statements; either numbering of the buttons |
| `AnswerIsHonoured`: `[]AnswerHonoured` | no failing statements |
| `LearningIsRecorded`: `[]LearningWhitelists` | no failing reads or statements |

- `TypeInv` adds `QueueTyped` to the types: the journal's event enters the queue only when the
  thread is stuck in `whitelist_add()`, so the thread never reads it and the batch stays a sequence
  of the processes' events.
- `EveryEventHeld` is inductive with `TypeInv`. The proof is about `Waiting`, the batch followed by
  the queue: reading a batch leaves it as it is (`ReadKeepsWaiting`), an answer takes its head
  (`HandIsFirst`, `DistinctTail`), a new event goes to its end (`QueuedLast`,
  `DistinctAppend`), and the open check of an allowed `execve()` does both.
- `UncachedHeld` carries the lookup in the cache over the prompt: only the loop itself writes the cache. The lookup in the
  database is not carried over, because other instances write it.
- `GrantedForGood`: once granted, a digest is on disk (`Gone` and the restart do not touch the database), and a prompt about it
  would need a lookup that misses it.
- `AnswerInv` says that there is no answer before the prompt and that only "always" reaches
  `whitelist_add()`; `LearningInv` that learning mode never asks; `AllowIsBacked` needs `CacheBacked` for
  the cache hits.

`GateProofs`: `MonitorImplementsGate`, every behaviour of `ExecMonitor` is one of `Gate`, unless a statement of the
database fails. It holds for any codes the client may send, those of the GUI included, with failing reads and with the
database on the mount or off it. `GateInv` says on what
ground each verdict stands; it needs `CacheBacked`. Attempt is `Call`, a lookup that misses `Miss`, the user's
answer `Say`, `whitelist_add()` `Approve`, another instance's `ApprovedElsewhere`, the response `Allow` or `Deny` (`RespondDecides`), a crash or
exit `Abandon`, and every other step stutters.

`IpcServerProofs`, from `IpcAssumption`, for any number of connections, requests and events:

| Theorem | Hypotheses besides |
|---|---|
| `CallImplements`: `CallPromise` | `MaxLive = 1`, or `Stray = {}` |
| `SlotOutlivesReader`: `[]SlotAliveForReader` | |
| `IpcTypes`: `[]TypeOK` | |
| `NothingLeaks`: `[]NoDescriptorLeak` | `Foreground` |
| `EventsKeepTheirNumbers`: `[]EventDescriptorIntact` | `MaxLive = 1` |

- `SlotInv` relates the lock, the reader that has matched, the entry and the caller: the entry is in use
  exactly from `Allocate` to `Cleanup`, and both take the lock. `LeakInv` adds that a connection has no reader before the accept thread starts one. These hold
  for overlapping connections.
- `CallImplements` needs that whatever a reader takes for the answer to an id is one the user gave to it. `HeardInv` says
  so of every socket, every reader and the pending entry. It is kept because a reader gets nothing else (`HearsTheGui`):
  either no stray bytes show an id (`Stray = {}`), for overlapping connections too, or the GUIs take turns, and then no
  reader's number is an event's and no event's number is a connection's, so that no message is cut (`Unmixed`, which rests
  on `TurnsInv` below). `FreshInv` says that no id is answered before it is written; `CallInv`, that the call in progress
  has the latest id, that its entry is not completed before it is written and that it has no result before it ends. The map
  is then, step by step (`PromiseStep`): `Snapshot` without a client is `Refuse`, `Allocate`
  `Begin`, a failing write `Fail`, `Send` `Pose`, `GuiAnswers` of this id `Say`, `Wake` `Answer` or `TimeOut`, `CloseEvent`
  `Decide`; every other step stutters.
- `TypeOK` is not inductive: that `accept()` and `read()` find free numbers in the table has to be counted.
  `DescInv` says that a connection has one number, that the numbers of events are those of the batch and that the
  ids left suffice for the events left; `FreeEnough` counts with it, and `LowestFreeIs` gives what the
  kernel's choice then returns.
- `EventsKeepTheirNumbers` is about GUIs that take turns, `MaxLive = 1`; with overlapping connections the code breaks it,
  in `ipc_event_fd`. `TurnsInv` says that every connection but the newest is wound up (`OthersWoundUp`), that
  `client_fd`, the accept thread and the newest reader agree on the number of the newest one at each of the points where
  they may stand (`NewestAgreed`), and that the numbers of the batch are distinct and still events' (`BatchIntact`). The
  step that matters is `ReaderCloses`: its number is the newest connection's, which nobody has closed before it, so it
  frees no event's. `--foreground` or not does not matter: without it there are no threads to close anything.

`WhitelistCacheProofs`, from the assumptions of `WhitelistCache`: `CacheTypeCorrect`, `ChainsStayWellFormed`,
`FilterNeverHides`, `CountIsExact` and the refinement `CacheImplementsSet`. `CacheInv` states the four
together, because the counter is exact only while no digest is in a chain twice, and removal takes
out the digest only then. What `Insertion` and `Removal` do to a chain is proved once.

`DaemonLifecycleProofs`, from the assumptions of `Config` and `DaemonLifecycle`, for any command lines, files, trees and
number of instances, which overlap as they like:

| Theorem | Hypotheses besides |
|---|---|
| `ReleaseOrder`: `[]ReleasedInOrder` | |
| `SettingsAsGiven`: `[]ConfigAsGiven` | |
| `ExclusionByPrefix`: `[]ExclusionCovers` | |
| `ScanIsExact`: `[]ScanExact` | |
| `LifecycleTypes`: `[]TypeOK` | |

- `Holds` gives what an instance has at each `pc`; that every error path enters the unwinding at the right place is the
  induction step of `ReleaseOrder`.
- `ConfInv`: an instance that has started has the configuration its command line and the files give. What that is,
  is proved in `ConfigProofs`: of each key the last setting (`LastMeans`), for each of the three passes, and so of their
  composition (`Configured`).
- `ScanInv`: what an instance was to catalogue is recorded already, or in or below an entry of its `todo`, or in or
  below a path that a failed step has cost (`Caught`), and what is recorded is an ELF file below some directory of the
  scan. A step takes one entry of `todo` and, for a directory, puts each of its entries there or into `missed`; that the
  tree has no gaps keeps `Caught`.
- `MillisInt` is why the type of the timeout is an invariant: whatever the product is, it wraps to an `int`.

The assumptions are what the code and the system give it. `ConfigAssumption`: C's least `INT_MAX` is 32767, and
with less the default of 30 s would not be an `int`. `SettingsAssumption`: a setting has one of the keys `parse_args()` knows,
a number for the timeout (`atoi()` returns one for any text) and paths for the list, and a configuration path leads to a file or to none.
`TreeAssumption`: what a file system is, one entry per path, each below its directory, and nothing below what is no directory.
`MCDaemonLifecycle` evaluates all of them on the run `startup`.

Two modules hold what these proofs share. `NumberSets` has facts of finite sets of numbers: least and greatest
elements, the k lowest, the elements in order. Each is an induction over a number that is done by way of a least
counterexample, because the theorem of induction itself takes an operator that the provers cannot instantiate. `ConfigProofs`
reasons the same way about folds: `SameFold` says that two functions on the sets of indices that agree step by step
agree, `ParseArgs` and `ParseFile` apply it to `FoldLeft` of the community modules, whose definition by choice has
a witness (`MadeNext`).

`LexecSystemProofs`, from `GuiAssumption` and `SystemAssumption`: `SystemTypes`, `SocketIsWatched`, `ClientKeepsTrying`,
`LabelIsHonest` and `AnswersWithinARun` (`SameRunConsent`). The first three properties of the client are inductive together with
the types. The last needs `WorldInv`: of all requests in the daemon's wait, in flight, in a dialog or answered,
two of the same run and id are the same request, and those of this run have ids below `next_id`.

### What is only model-checked

Liveness: `EveryCallReturns`, `StopsWhenTold`, `CallReturns`, `BacklogAccepted`, `ShutdownTerminates`, `StopHonoured`, `Settles`
and `GuiUnblocked`, because the prover handles neither fairness nor ENABLED. Every invariant and all three refinements that the
passing runs check are theorems, under the hypotheses listed. With the failing statements of `exec_faults` only
`EveryEventHeld` and `CachedNeverDenied` are claimed.

## Not modelled

- Cache and IPC statistics, logging, paths, parents and pids: no decision depends on them. The signal handler
  logs with functions that are not safe in a handler; the models leave that out with the logging.
- The limit of the kernel's event queue, and a failing write of a response.
- Partial reads and writes on the socket, but for the half message that `is_elf_file()` takes: messages are far smaller
  than its buffer. A reader that reads from an event's file also moves the offset `hash_fd()` reads at, and
  the digest is then of something else; the model lets the event be hashed as if it had not.
- The check of the metadata version (`fanotify_handler.c:448`), which drops the rest of a batch: a kernel that has
  `FAN_OPEN_EXEC_PERM` has had this version since long before.
- After a failed `pthread_create()`, `pthread_detach()` of a variable that was never set, which is undefined.
- The clock: a timeout may come at any time, and it is assumed to come; the code waits for a time of
  `CLOCK_REALTIME`, which can be set back.
- `cache_load_from_db()` does nothing and is never called; `whitelist_remove()`, `whitelist_count()` for
  decisions, and `persist` in `cache_add()` have no caller.
- `pthread_join()` of a thread that did not survive the fork is undefined; `IpcServer` stops there and
  `DaemonLifecycle` may be `stuck`.
- SQLite's locks between processes, which a whitelist hit holds until the next miss (`whitelist.c:114`): the library's.
- SHA-256: a digest is a value, so two files are one to the whitelist when it is the same.
- Of the configuration: the paths of database and socket, `log_to_syslog`, the splitting of a line into key
  and value, and the exits of `--help` and of unknown options. `scan_paths` and `socket_path` are read or
  documented, and nothing uses them.
- The socket's mode 0660 without a `chown()`, and everything else of access rights.
- Scan directories that are themselves symbolic links.
- Build, installation, SELinux policy, systemd units and `sql/schema.sql`, which no code reads.

## Further work

What is left would add detail rather than components: `LexecSystem` over the descriptor table of `IpcServer` instead of
its effect on the readers, and the prompt of `ExecMonitor` (`AskUser`, `UserAnswers`) taken from `PermissionCall`, which
promises what `ExecMonitor` now assumes.
