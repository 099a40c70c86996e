---------------------------- MODULE DialerLocks ----------------------------
(***************************************************************************)
(* The Dialer together with its caches, at the grain of their locks: the   *)
(* Dialer's lock (dialer.go), the lazy cache's mutex, which is held while  *)
(* the Admin API is called (lazy.go), and the refresh-ahead cache's        *)
(* resultGuard, which its refresh cycle takes (instance.go).  Dialer,      *)
(* LazyRefreshCache and RefreshAheadCache take what is done under a lock   *)
(* for one step; here a Dial may hold the Dialer's lock while it waits for *)
(* a cache's.                                                              *)
(*                                                                         *)
(* A section under a lock that cannot block is one action, enabled when    *)
(* the lock is free.  Like sync.RWMutex, the Dialer's lock lets no reader  *)
(* pass a writer that waits.  A cache bears the name of the Dial that      *)
(* created it.  Who calls Dial and Close is left to the module that        *)
(* extends this one.                                                       *)
(***************************************************************************)
CONSTANTS
    Dials,      \* calls of Dial
    Closers,    \* calls of Dialer.Close
    URIs,       \* instances
    Hung,       \* the instances about which the Admin API never answers
    None        \* no cache, nobody

ASSUME HungAssumption == Hung \subseteq URIs
ASSUME NoneAssumption == None \notin Dials \cup Closers /\ Dials \cap Closers = {}

VARIABLES
    lazy,       \* the Dialer has lazy caches, not refresh-ahead ones
    uri,        \* uri[d]: the instance Dial d asks for, None before it is called
    pc,         \* pc[p]: where a Dial or a Close stands
    again,      \* again[d]: d has forced a refresh of an expired certificate
    lk,         \* lk[p]: p's write lock on Dialer.lock: "no", "queued", "held"
    cache,      \* cache[u]: Dialer.cache
    ref,        \* ref[d]: the cache d holds
    guard,      \* guard[k]: who holds the lock of cache k
    ready,      \* ready[k]: what ConnectionInfo finds first is there, info or an error
    closed,     \* closed[k]: the context of cache k is cancelled
    cycle,      \* cycle[k]: its refresh: "none", "armed", "fetching", "settled", "installing"
    todo        \* todo[x]: the caches Close x has still to close

dialerVars == <<lazy, uri, pc, again, lk, cache, ref, guard, ready, closed, cycle, todo>>

Procs == Dials \cup Closers

\* The Dialer is there and nobody has called it.
DialerInit ==
    /\ lazy \in BOOLEAN
    /\ uri = [d \in Dials |-> None]
    /\ pc = [p \in Procs |-> "idle"]
    /\ again = [d \in Dials |-> FALSE]
    /\ lk = [p \in Procs |-> "no"]
    /\ cache = [u \in URIs |-> None]
    /\ ref = [d \in Dials |-> None]
    /\ guard = [k \in Dials |-> None]
    /\ ready = [k \in Dials |-> FALSE]
    /\ closed = [k \in Dials |-> FALSE]
    /\ cycle = [k \in Dials |-> "none"]
    /\ todo = [x \in Closers |-> {}]

goto(p, l) == pc' = [pc EXCEPT ![p] = l]

-----------------------------------------------------------------------------
(* The calls                                                               *)

isClosed == \E x \in Closers : pc[x] # "idle"

\* Dial(ctx, u): a closed Dialer refuses, and so does what is not an instance
\* URI.
CallDial(d, u) ==
    /\ goto(d, IF isClosed \/ u \notin URIs THEN "done" ELSE "lookup")
    /\ uri' = [uri EXCEPT ![d] = u]
    /\ UNCHANGED <<lazy, again, lk, cache, ref, guard, ready, closed, cycle, todo>>

\* Close() closes the channel, once.
CallClose(x) ==
    /\ ~isClosed
    /\ goto(x, "sweep")
    /\ UNCHANGED <<lazy, uri, again, lk, cache, ref, guard, ready, closed, cycle, todo>>

-----------------------------------------------------------------------------
(* Dialer.lock                                                             *)

Held == \E p \in Procs : lk[p] = "held"

\* Lock() announces the writer, ...
Queue(p) ==
    /\ pc[p] \in {"create", "remove", "sweep"}
    /\ lk[p] = "no"
    /\ lk' = [lk EXCEPT ![p] = "queued"]
    /\ UNCHANGED <<lazy, uri, pc, again, cache, ref, guard, ready, closed, cycle, todo>>

\* ... and returns when nobody holds the lock.  Close then ranges over the map.
Lock(p) ==
    /\ lk[p] = "queued"
    /\ ~Held
    /\ lk' = [lk EXCEPT ![p] = "held"]
    /\ todo' = IF p \in Closers THEN [todo EXCEPT ![p] = {cache[u] : u \in URIs} \ {None}] ELSE todo
    /\ UNCHANGED <<lazy, uri, pc, again, cache, ref, guard, ready, closed, cycle>>

Unlock(p) == lk' = [lk EXCEPT ![p] = "no"]

\* connectionInfoCache under the read lock.
Lookup(d) ==
    /\ pc[d] = "lookup"
    /\ \A p \in Procs : lk[p] = "no"
    /\ ref' = [ref EXCEPT ![d] = cache[uri[d]]]
    /\ goto(d, IF cache[uri[d]] = None THEN "create" ELSE "info")
    /\ UNCHANGED <<lazy, uri, again, lk, cache, guard, ready, closed, cycle, todo>>

\* A creation that returns from an early return without unlocking.
CreateKeepsLock(d) ==
    /\ pc[d] = "create"
    /\ lk[d] = "held"
    /\ LET k == IF cache[uri[d]] = None THEN d ELSE cache[uri[d]]
       IN  /\ cache' = [cache EXCEPT ![uri[d]] = k]
           /\ ref' = [ref EXCEPT ![d] = k]
           /\ cycle' = IF k = d /\ ~lazy THEN [cycle EXCEPT ![d] = "fetching"] ELSE cycle
           /\ IF k = d THEN Unlock(d) ELSE UNCHANGED lk
    /\ goto(d, "info")
    /\ UNCHANGED <<lazy, uri, again, guard, ready, closed, todo>>

\* connectionInfoCache under the write lock: a new refresh-ahead cache starts
\* its cycle.
Create(d) ==
    /\ pc[d] = "create"
    /\ lk[d] = "held"
    /\ LET k == IF cache[uri[d]] = None THEN d ELSE cache[uri[d]]
       IN  /\ cache' = [cache EXCEPT ![uri[d]] = k]
           /\ ref' = [ref EXCEPT ![d] = k]
           /\ cycle' = IF k = d /\ ~lazy THEN [cycle EXCEPT ![d] = "fetching"] ELSE cycle
    /\ Unlock(d)
    /\ goto(d, "info")
    /\ UNCHANGED <<lazy, uri, again, guard, ready, closed, todo>>

\* The key generator of a Dialer with lazy caches fails under the write lock,
\* which is released all the same.  (Dialer has what the generator keeps; a
\* Dialer with refresh-ahead caches has its key from the start.)
CreateFails(d) ==
    /\ pc[d] = "create"
    /\ lk[d] = "held"
    /\ lazy
    /\ cache[uri[d]] = None
    /\ Unlock(d)
    /\ goto(d, "done")
    /\ UNCHANGED <<lazy, uri, again, cache, ref, guard, ready, closed, cycle, todo>>

\* A cache's Close that always takes the cache's lock.
CacheCloseWaits(k) ==
    /\ guard[k] = None
    /\ closed' = [closed EXCEPT ![k] = TRUE]

\* Close of a cache: the refresh-ahead one takes its resultGuard, the lazy one
\* does nothing.
CacheClose(k) ==
    /\ ~lazy => guard[k] = None
    /\ closed' = IF lazy THEN closed ELSE [closed EXCEPT ![k] = TRUE]

\* removeCached: the cache is closed under the Dialer's lock.
removeCached(d) ==
    /\ pc[d] = "remove"
    /\ lk[d] = "held"
    /\ CacheClose(ref[d])
    /\ cache' = [cache EXCEPT ![uri[d]] = None]
    /\ Unlock(d)
    /\ goto(d, "done")
    /\ UNCHANGED <<lazy, uri, again, ref, guard, ready, cycle, todo>>

\* Dialer.Close closes one cache after the other under the Dialer's lock.
Sweep(x) ==
    /\ pc[x] = "sweep"
    /\ lk[x] = "held"
    /\ \/ /\ \E k \in todo[x] : CacheClose(k) /\ todo' = [todo EXCEPT ![x] = @ \ {k}]
          /\ UNCHANGED <<pc, lk>>
       \/ /\ todo[x] = {}
          /\ Unlock(x)
          /\ goto(x, "done")
          /\ UNCHANGED <<closed, todo>>
    /\ UNCHANGED <<lazy, uri, again, cache, ref, guard, ready, cycle>>

-----------------------------------------------------------------------------
(* The caches                                                              *)

\* Refresh-ahead ConnectionInfo reads cur under the read lock and waits for
\* that operation, unless it is ready.
ReadCur(d) ==
    /\ pc[d] = "info"
    /\ ~lazy
    /\ guard[ref[d]] = None
    /\ goto(d, IF ready[ref[d]] THEN "answered" ELSE "wait")
    /\ UNCHANGED <<lazy, uri, again, lk, cache, ref, guard, ready, closed, cycle, todo>>

\* The operation has info or an error, or the cache was closed.
Ready(d) ==
    /\ \/ pc[d] = "answered" /\ (goto(d, "use") \/ goto(d, "remove"))
       \/ pc[d] \in {"wait", "orphaned"} /\ closed[ref[d]] /\ goto(d, "remove")
    /\ UNCHANGED <<lazy, uri, again, lk, cache, ref, guard, ready, closed, cycle, todo>>

\* Lazy ConnectionInfo takes the mutex: the cached info is good, ...
Cached(d) ==
    /\ pc[d] = "info"
    /\ lazy
    /\ guard[ref[d]] = None
    /\ ready[ref[d]]
    /\ goto(d, "use")
    /\ UNCHANGED <<lazy, uri, again, lk, cache, ref, guard, ready, closed, cycle, todo>>

\* ... or it calls the Admin API and keeps the mutex.
StartFetch(d) ==
    /\ pc[d] = "info"
    /\ lazy
    /\ guard[ref[d]] = None
    /\ guard' = [guard EXCEPT ![ref[d]] = d]
    /\ goto(d, "fetch")
    /\ UNCHANGED <<lazy, uri, again, lk, cache, ref, ready, closed, cycle, todo>>

\* The Admin API answers.
FetchReturns(d) ==
    /\ pc[d] = "fetch"
    /\ uri[d] \notin Hung
    /\ guard' = [guard EXCEPT ![ref[d]] = None]
    /\ \/ goto(d, "use") /\ ready' = [ready EXCEPT ![ref[d]] = TRUE]
       \/ goto(d, "remove") /\ UNCHANGED ready
    /\ UNCHANGED <<lazy, uri, again, lk, cache, ref, closed, cycle, todo>>

\* A call of the Admin API whose end by the context leaves the mutex locked.
CancelledLocked(d) ==
    /\ pc[d] \in {"wait", "orphaned", "fetch"}
    /\ goto(d, "remove")
    /\ UNCHANGED <<lazy, uri, again, lk, cache, ref, guard, ready, closed, cycle, todo>>

\* The caller's context ends, in a wait that looks at it.
Cancelled(d) ==
    /\ pc[d] \in {"wait", "orphaned", "fetch"}
    /\ guard' = IF pc[d] = "fetch" THEN [guard EXCEPT ![ref[d]] = None] ELSE guard
    /\ goto(d, "remove")
    /\ UNCHANGED <<lazy, uri, again, lk, cache, ref, ready, closed, cycle, todo>>

\* p is a Dial that waits for the operation cache k has under way or armed.
Waits(p, k) == p \in Dials /\ pc[p] = "wait" /\ ref[p] = k

\* The certificate has expired (at the first look), the address is missing,
\* the connection fails or is made.
Use(d) ==
    /\ pc[d] = "use"
    /\ \/ ~again[d] /\ goto(d, "expired")
       \/ \E l \in {"remove", "unreachable", "done"} : goto(d, l)
    /\ again' = [again EXCEPT ![d] = TRUE]
    /\ UNCHANGED <<lazy, uri, lk, cache, ref, guard, ready, closed, cycle, todo>>

\* ForceRefresh, under the cache's lock: the lazy cache will fetch, the other
\* moves cur, unless it is valid, to an operation that is over or not.  Then d
\* asks again or returns.  An operation whose timer has not fired is cancelled
\* and replaced; the Dials that wait for it are left behind.
ForceRefresh(d) ==
    /\ pc[d] \in {"expired", "unreachable"}
    /\ guard[ref[d]] = None
    /\ pc' = [p \in Procs |->
                IF p = d THEN (IF pc[d] = "expired" THEN "info" ELSE "done")
                ELSE IF cycle[ref[d]] = "armed" /\ Waits(p, ref[d]) THEN "orphaned" ELSE pc[p]]
    /\ \E r \in IF lazy THEN {FALSE} ELSE {ready[ref[d]], cycle[ref[d]] \in {"none", "settled"}} :
        ready' = [ready EXCEPT ![ref[d]] = r]
    /\ UNCHANGED <<lazy, uri, again, lk, cache, ref, guard, closed, cycle, todo>>

\* The operation of cache k is over; so is the wait of the Dials it kept.
Answer(k) ==
    /\ ready' = [ready EXCEPT ![k] = TRUE]
    /\ pc' = [p \in Procs |-> IF Waits(p, k) THEN "answered" ELSE pc[p]]

\* The refresh cycle of a refresh-ahead cache: a call of the Admin API ends
\* with its answer or with the cache's context, ...
CycleFetches(k) ==
    /\ cycle[k] = "fetching"
    /\ uri[k] \notin Hung \/ closed[k]
    /\ cycle' = [cycle EXCEPT ![k] = "settled"]
    /\ Answer(k)
    /\ UNCHANGED <<lazy, uri, again, lk, cache, ref, guard, closed, todo>>

\* ... the callback takes resultGuard ...
CycleLocks(k) ==
    /\ cycle[k] = "settled"
    /\ guard[k] = None
    /\ guard' = [guard EXCEPT ![k] = k]
    /\ cycle' = [cycle EXCEPT ![k] = "installing"]
    /\ UNCHANGED <<lazy, uri, pc, again, lk, cache, ref, ready, closed, todo>>

\* ... and schedules the next one, ...
CycleInstalls(k) ==
    /\ cycle[k] = "installing"
    /\ guard' = [guard EXCEPT ![k] = None]
    /\ cycle' = [cycle EXCEPT ![k] = "armed"]
    /\ UNCHANGED <<lazy, uri, pc, again, lk, cache, ref, ready, closed, todo>>

\* ... which ends the cycle if the cache is closed when the timer fires.
CycleFires(k) ==
    /\ cycle[k] = "armed"
    /\ IF closed[k]
       THEN cycle' = [cycle EXCEPT ![k] = "none"] /\ Answer(k)
       ELSE cycle' = [cycle EXCEPT ![k] = "fetching"] /\ UNCHANGED <<pc, ready>>
    /\ UNCHANGED <<lazy, uri, again, lk, cache, ref, guard, closed, todo>>

-----------------------------------------------------------------------------
Dial(d) ==
    \/ Queue(d) \/ Lock(d)
    \/ Lookup(d) \/ Create(d) \/ CreateFails(d) \/ removeCached(d)
    \/ ReadCur(d) \/ Ready(d) \/ Cached(d) \/ StartFetch(d) \/ FetchReturns(d)
    \/ Use(d) \/ ForceRefresh(d)

Close(x) == Queue(x) \/ Lock(x) \/ Sweep(x)

Cycle(k) == CycleFetches(k) \/ CycleLocks(k) \/ CycleInstalls(k) \/ CycleFires(k)

-----------------------------------------------------------------------------
(* Properties                                                              *)

\* The locks are taken in one order, and none is left behind: whoever waits for
\* Dialer.lock or holds it is in a section that ends with Unlock, and holds no
\* cache's lock, for that is held only by the Dial whose call of the Admin API
\* is under way (lazy.go:62) or by the refresh callback in its last section,
\* which waits for nothing (instance.go:316).  So a Dial or Close that has
\* Dialer.lock and waits for a cache's lock is never waited for by its holder
\* (dialer.go:399, 600, 615).
LocksAreOrdered ==
    /\ \A p, q \in Procs : lk[p] = "held" /\ lk[q] = "held" => p = q
    /\ \A p \in Procs : lk[p] # "no" => pc[p] \in {"create", "remove", "sweep"}
    /\ \A k \in Dials :
        guard[k] # None => IF lazy THEN pc[guard[k]] = "fetch" /\ ref[guard[k]] = k
                           ELSE guard[k] = k /\ cycle[k] = "installing"

\* A Dial of an instance the Admin API answers about returns, also without a
\* deadline of its own, although Dials of other instances hang in their calls,
\* fail, are cancelled or remove their caches, and the Dialer is closed
\* meanwhile.  Only a forced refresh of its own instance can leave it behind
\* (RefreshAheadCache!WaitedOpCompletes).
HungInstanceHoldsNobodyUp ==
    \A d \in Dials : pc[d] = "lookup" /\ uri[d] \notin Hung ~> pc[d] \in {"done", "orphaned"}

\* Dialer.Close returns, even while a Dial hangs in a call of the Admin API
\* (dialer.go:589-606).
CloseReturns == \A x \in Closers : pc[x] = "sweep" ~> pc[x] = "done"

=============================================================================
