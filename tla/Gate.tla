-------------------------------- MODULE Gate --------------------------------
(***************************************************************************)
(* What lexec-daemon promises the processes it intercepts, without the     *)
(* event loop: a call waits until it is decided in one step, by the policy *)
(* of that moment.  ExecMonitor implements it.                             *)
(***************************************************************************)
EXTENDS Integers

CONSTANTS
    Procs,             \* processes whose calls are intercepted
    Hashes,            \* SHA-256 digests
    Foreign,           \* digests others may put on the whitelist
    Calls,             \* intercepted calls: a process, a file and a mask
    Exempt,            \* calls the policy does not look at
    Unreadable,        \* a call whose file cannot be read is let through
    DefaultDeny,       \* what silence means
    MonitorSharedLibs  \* open() is intercepted too

VARIABLES
    waiting,   \* calls whose process sleeps
    unknown,   \* waiting calls found not to be on the whitelist
    said,      \* what the user said of a waiting call
    approved,  \* digests on the whitelist
    result     \* what the last call of a process returned

gateVars == <<waiting, unknown, said, approved, result>>

Call(c) ==
    /\ \A d \in waiting : d.proc # c.proc
    /\ waiting' = waiting \cup {c}
    /\ result' = [result EXCEPT ![c.proc] = "none"]
    /\ UNCHANGED <<unknown, said, approved>>

\* The whitelist does not settle the call.  What others approve from here on
\* comes too late for it.
Miss(c) ==
    /\ c \in waiting \ Exempt
    /\ c.file.hash \notin approved
    /\ unknown' = unknown \cup {c}
    /\ UNCHANGED <<waiting, said, approved, result>>

\* The user is asked only about such calls.
Say(c, a) ==
    /\ c \in unknown
    /\ said' = said \cup {<<c, a>>}
    /\ UNCHANGED <<waiting, unknown, approved, result>>

\* "Allow Always", or learning mode: the call is settled.
Approve(c) ==
    /\ c \in unknown
    /\ approved' = approved \cup {c.file.hash}
    /\ unknown' = unknown \ {c}
    /\ UNCHANGED <<waiting, said, result>>

ApprovedElsewhere(h) ==
    /\ approved' = approved \cup {h}
    /\ UNCHANGED <<waiting, unknown, said, result>>

Permitted(c) ==
    \/ Unreadable
    \/ c \in Exempt
    \/ c.file.hash \in approved
    \/ <<c, "once">> \in said
    \/ ~DefaultDeny /\ c \in unknown /\ <<c, "deny">> \notin said

Refused(c) ==
    /\ c \in unknown
    /\ <<c, "once">> \notin said
    /\ DefaultDeny \/ <<c, "deny">> \in said

Forget(c) ==
    /\ unknown' = unknown \ {c}
    /\ said' = {s \in said : s[1] # c}

\* An allowed execve() goes on to open the same file.
Allow(c) ==
    /\ c \in waiting
    /\ Permitted(c)
    /\ IF c.mask = "exec" /\ MonitorSharedLibs
       THEN /\ waiting' = (waiting \ {c}) \cup {[c EXCEPT !.mask = "open"]}
            /\ UNCHANGED result
       ELSE /\ waiting' = waiting \ {c}
            /\ result' = [result EXCEPT ![c.proc] = "allow"]
    /\ Forget(c)
    /\ UNCHANGED approved

Deny(c) ==
    /\ c \in waiting
    /\ Refused(c)
    /\ waiting' = waiting \ {c}
    /\ result' = [result EXCEPT ![c.proc] = "deny"]
    /\ Forget(c)
    /\ UNCHANGED approved

\* The daemon stops or dies: nothing is enforced, what is approved stays so.
Abandon ==
    /\ waiting' = {}
    /\ unknown' = {}
    /\ said' = {}
    /\ result' = [p \in Procs |-> IF \E c \in waiting : c.proc = p
                                  THEN "released" ELSE result[p]]
    /\ UNCHANGED approved

Init ==
    /\ waiting = {}
    /\ unknown = {}
    /\ said = {}
    /\ approved \in SUBSET Hashes
    /\ result = [p \in Procs |-> "none"]

Next ==
    \/ \E c \in Calls :
          \/ Call(c)
          \/ Miss(c)
          \/ \E a \in {"once", "deny"} : Say(c, a)
          \/ Approve(c)
          \/ Allow(c)
          \/ Deny(c)
    \/ \E h \in Foreign : ApprovedElsewhere(h)
    \/ Abandon

Spec == Init /\ [][Next]_gateVars
=============================================================================
