---------------------------- MODULE WhitelistSet ----------------------------
(***************************************************************************)
(* What whitelist_cache.h promises its callers: a set of digests with an   *)
(* optional limit.  There are no buckets and no filter here; WhitelistCache *)
(* is shown to implement this.                                             *)
(***************************************************************************)
EXTENDS Integers, FiniteSets

CONSTANTS
    Hashes,   \* SHA-256 digests
    Limits    \* values of max_entries the program may start with, 0 = no limit

VARIABLES
    up,       \* cache_init() has succeeded
    limit,    \* max_entries
    members,  \* the cached digests
    out       \* the last call and what it returned

vars == <<up, limit, members, out>>

Returns(call, v) == out' = [call |-> call, result |-> v]

Init ==
    /\ up = FALSE
    /\ limit = 0
    /\ members = {}
    /\ out = [call |-> <<>>, result |-> 0]

Start(m) ==
    /\ \/ up /\ Returns(<<"init", m>>, 0) /\ UNCHANGED <<up, limit>>
       \/ ~up /\ up' = TRUE /\ limit' = m /\ Returns(<<"init", m>>, 0)
       \/ ~up /\ limit' = m /\ Returns(<<"init", m>>, -1) /\ UNCHANGED up
    /\ UNCHANGED members

Stop ==
    /\ up' = FALSE
    /\ members' = {}
    /\ Returns(<<"shutdown">>, 0)
    /\ UNCHANGED limit

Check(h) ==
    /\ Returns(<<"check", h>>, IF h \in members THEN 1 ELSE 0)
    /\ UNCHANGED <<up, limit, members>>

Full == limit > 0 /\ Cardinality(members) >= limit

\* A full cache refuses even what it holds, and memory may run out.
Add(h) ==
    /\ \/ /\ ~up \/ Full \/ h \notin members
          /\ Returns(<<"add", h>>, -1)
          /\ UNCHANGED members
       \/ /\ up /\ ~Full
          /\ members' = members \cup {h}
          /\ Returns(<<"add", h>>, 0)
    /\ UNCHANGED <<up, limit>>

Remove(h) ==
    /\ members' = members \ {h}
    /\ Returns(<<"remove", h>>, IF h \in members THEN 0 ELSE -1)
    /\ UNCHANGED <<up, limit>>

Clear ==
    /\ members' = {}
    /\ Returns(<<"clear">>, 0)
    /\ UNCHANGED <<up, limit>>

TotalEntries ==
    /\ Returns(<<"stats">>, Cardinality(members))
    /\ UNCHANGED <<up, limit, members>>

Next ==
    \/ \E m \in Limits : Start(m)
    \/ \E h \in Hashes : Check(h) \/ Add(h) \/ Remove(h)
    \/ Stop
    \/ Clear
    \/ TotalEntries

Spec == Init /\ [][Next]_vars
=============================================================================
