-------------------------- MODULE LazyRefreshCache --------------------------
(***************************************************************************)
(* The cache without background refreshes (internal/alloydb/lazy.go) and   *)
(* the Dial calls that use it.  ConnectionInfo holds the mutex from its    *)
(* first line to its last, the Admin API call included.                    *)
(*                                                                         *)
(* Time is counted in units of which a new certificate lives at most Life  *)
(* and the refresh buffer takes Buffer; left is what remains of the cached *)
(* certificate (0: expired, or nothing is cached yet).                     *)
(***************************************************************************)
EXTENDS Naturals

CONSTANTS
    Callers,    \* goroutines inside Dialer.Dial for this instance
    Nobody,     \* the mutex is free
    Life,       \* lifetime of a certificate
    Buffer      \* refreshBuffer

ASSUME NobodyAssumption == Nobody \notin Callers
ASSUME TimeAssumption == Life \in Nat /\ Buffer \in Nat /\ Buffer < Life

VARIABLES
    mu,             \* who holds the mutex
    needsRefresh,
    left,           \* time until c.cached.Expiration
    pc,             \* control point of each caller
    has,            \* the callers whose first answer is what is cached
    bad             \* history: a ForceRefresh has rejected what is cached

vars == <<mu, needsRefresh, left, pc, has, bad>>

\* "lock"/"relock": ConnectionInfo waits for the mutex, for the first time and
\* after a forced refresh; "fetch"/"refetch": it is in the Admin API call;
\* "check": Dial has its first answer; "force": it found it expired;
\* "dialing": it connects with the last answer; "report": that failed.
Points == {"idle", "lock", "fetch", "check", "force", "relock", "refetch", "dialing", "report"}

Init ==
    /\ mu = Nobody
    /\ needsRefresh = FALSE
    /\ left = 0
    /\ pc = [c \in Callers |-> "idle"]
    /\ has = {}
    /\ bad = FALSE

goto(c, p) == pc' = [pc EXCEPT ![c] = p]

\* Dial calls ConnectionInfo.
Enter(c) ==
    /\ pc[c] = "idle"
    /\ goto(c, "lock")
    /\ UNCHANGED <<mu, needsRefresh, left, has, bad>>

\* The cached information can be handed out.
Fresh == ~needsRefresh /\ left > Buffer

\* ConnectionInfo has the mutex and answers from the cache.
Cached(c) ==
    /\ mu = Nobody
    /\ Fresh
    /\ \/ pc[c] = "lock" /\ goto(c, "check") /\ has' = has \cup {c}
       \/ pc[c] = "relock" /\ goto(c, "dialing") /\ has' = has
    /\ UNCHANGED <<mu, needsRefresh, left, bad>>

\* ConnectionInfo has the mutex and starts the Admin API calls.
StartFetch(c) ==
    /\ mu = Nobody
    /\ ~Fresh
    /\ \/ pc[c] = "lock" /\ goto(c, "fetch")
       \/ pc[c] = "relock" /\ goto(c, "refetch")
    /\ mu' = c
    /\ UNCHANGED <<needsRefresh, left, has, bad>>

\* They succeed: the answer is cached, the force is served, the mutex released.
FetchOk(c) ==
    /\ \E l \in 0..Life : left' = l
    /\ needsRefresh' = FALSE
    /\ \/ pc[c] = "fetch" /\ goto(c, "check") /\ has' = {c}
       \/ pc[c] = "refetch" /\ goto(c, "dialing") /\ has' = {}
    /\ mu' = Nobody
    /\ bad' = FALSE

\* An error path that clears needsRefresh.
FetchFailsClears(c) ==
    /\ pc[c] \in {"fetch", "refetch"}
    /\ goto(c, "idle")
    /\ mu' = Nobody
    /\ needsRefresh' = FALSE
    /\ has' = has \ {c}
    /\ UNCHANGED <<left, bad>>

\* An error path that returns without the deferred unlock.
FetchFailsLocked(c) ==
    /\ pc[c] \in {"fetch", "refetch"}
    /\ goto(c, "idle")
    /\ has' = has \ {c}
    /\ UNCHANGED <<mu, left, needsRefresh, bad>>

\* They fail or the caller's context ends: nothing changes but the mutex.
\* (removeCached then calls Close, which does nothing.)
FetchFails(c) ==
    /\ pc[c] \in {"fetch", "refetch"}
    /\ goto(c, "idle")
    /\ mu' = Nobody
    /\ has' = has \ {c}
    /\ UNCHANGED <<left, needsRefresh, bad>>

\* Dial judges the certificate of its first answer.  A caller in has holds the
\* cached certificate, whose age is left; that of another may be anything.
CheckCert(c) ==
    /\ pc[c] = "check"
    /\ \/ (c \in has => left = 0) /\ goto(c, "force")
       \/ (c \in has => left > 0) /\ goto(c, "dialing")
    /\ UNCHANGED <<mu, needsRefresh, left, has, bad>>

\* ForceRefresh before the second ConnectionInfo, or after a failed connection.
ForceRefresh(c) ==
    /\ mu = Nobody
    /\ needsRefresh' = TRUE
    /\ bad' = TRUE
    /\ \/ pc[c] = "force" /\ goto(c, "relock") /\ has' = has
       \/ pc[c] = "report" /\ goto(c, "idle") /\ has' = has \ {c}
    /\ UNCHANGED <<mu, left>>

\* The connection is made or fails; a failed dial or handshake is reported.
DialEnds(c) ==
    /\ pc[c] = "dialing"
    /\ \/ goto(c, "idle") /\ has' = has \ {c}
       \/ goto(c, "report") /\ has' = has
    /\ UNCHANGED <<mu, needsRefresh, left, bad>>

\* Time passes.
Tick ==
    /\ left > 0
    /\ left' = left - 1
    /\ UNCHANGED <<mu, needsRefresh, pc, has, bad>>

Acquire(c) == Cached(c) \/ StartFetch(c) \/ ForceRefresh(c)
Step(c) == FetchOk(c) \/ FetchFails(c) \/ CheckCert(c) \/ DialEnds(c)

Next == Tick \/ \E c \in Callers : Enter(c) \/ Acquire(c) \/ Step(c)

Spec == Init /\ [][Next]_vars

\* Whoever holds the mutex goes on: the Admin API answers or the caller's
\* context ends the call.  sync.Mutex serves waiters in order once one of
\* them has waited a millisecond, so that nobody waits for ever.
FairSpec ==
    /\ Spec
    /\ \A c \in Callers : WF_vars(Step(c)) /\ SF_vars(Acquire(c))

-----------------------------------------------------------------------------
\* Every variable has its type.
TypeOK ==
    /\ mu \in Callers \cup {Nobody}
    /\ needsRefresh \in BOOLEAN
    /\ left \in 0..Life
    /\ pc \in [Callers -> Points]
    /\ has \in SUBSET Callers
    /\ bad \in BOOLEAN

\* Once a Dial has rejected the cached information, because it expired or
\* because a connection made with it failed, nobody is answered from it any
\* more, whatever other Dials force, fetch or fail to fetch in between
\* (lazy.go:69, 103, 114).
ForcedInfoIsNew ==
    [][\A c \in Callers :
        pc[c] \in {"lock", "relock"} /\ pc'[c] \in {"check", "dialing"} => ~bad]_vars

\* The mutex is held exactly by the one caller that is in the Admin API call:
\* callers that find the cache stale at the same time make one call at a time
\* and no path leaves the mutex behind (lazy.go:62).
HolderFetches ==
    \A c \in Callers : mu = c <=> pc[c] \in {"fetch", "refetch"}

\* Every Dial that enters the cache leaves it (lazy.go:62): one slow or failing
\* Admin API call never keeps the others out for good.
CallReturns == \A c \in Callers : pc[c] \in {"lock", "relock"} ~> pc[c] = "idle"

=============================================================================
