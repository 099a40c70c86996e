------------------------------- MODULE Dialer -------------------------------
(***************************************************************************)
(* The Dialer (dialer.go): concurrent Dial calls, the map of connection    *)
(* info caches they share, the key every cache is built with, the sockets  *)
(* they open, and Close.                                                   *)
(*                                                                         *)
(* A member of Dials is one call of Dial and of Closers one call of Close. *)
(* A Dial creates at most one cache, and the cache bears its name.  What   *)
(* is done under Dialer.lock is one action; the read lock of a lookup and  *)
(* the write lock of the creation that follows are two.  A cache is open   *)
(* or closed here; RefreshAheadCache and LazyRefreshCache model what it    *)
(* does meanwhile, so that ConnectionInfo may answer or fail at any time.  *)
(***************************************************************************)

CONSTANTS
    Dials,      \* calls of Dialer.Dial
    Closers,    \* calls of Dialer.Close
    URIs,       \* instances
    Known,      \* the instances the static connection info describes well
    Kinds,      \* the kinds of cache a Dialer may be configured with
    NoCache     \* nothing under a key of the map, or no cache held

ASSUME NoCacheAssumption == NoCache \notin Dials
ASSUME KindsAssumption == Kinds \subseteq {"ahead", "lazy", "static"}
ASSUME KnownAssumption == Known \subseteq URIs

VARIABLES
    kind,       \* which cache the options select
    exchange,   \* the metadata exchange is enabled
    uri,        \* uri[d]: the instance Dial d asks for
    key,        \* keyGenerator: "unset" until the once ran, then "ok" or "err"
    reader,     \* staticConnInfo: an io.Reader is "full" or "drained"
    cache,      \* cache[u]: Dialer.cache
    state,      \* state[k]: cache k is "none" (not created), "open" or "closed"
    closed,     \* Dialer.closed is closed
    panicked,   \* a closed channel was closed again
    dpc, ref,   \* control point of a Dial, the cache it holds
    sock,       \* sock[d]: the socket of Dial d
    cpc,        \* control point of a Close
    swept       \* history: the caches that existed when a Close closed them all

mapVars == <<key, reader, cache, state>>
vars == <<kind, exchange, uri, key, reader, cache, state, closed, panicked,
          dpc, ref, sock, cpc, swept>>

\* "failed", "removed" (failed after removeCached) and "keepaliveFailed" are
\* Dials that returned an error, "connected" one that returned a connection.
DialPoints == {"start", "lookup", "create", "info", "info2", "address", "remove", "connect",
               "keepalive", "handshake", "exchange",
               "connected", "failed", "removed", "keepaliveFailed"}
ClosePoints == {"start", "closing", "sweep", "done"}

\* newKeyGenerator: the once has run, with success, before NewDialer returns,
\* unless refreshes are lazy and the client gave no key.
newKeyGenerator(k) == IF k = "lazy" THEN {"unset", "ok"} ELSE {"ok"}

\* NewDialer, with the options of the client; the Dials to come are chosen too.
Init ==
    /\ kind \in Kinds
    /\ exchange \in BOOLEAN
    /\ uri \in [Dials -> URIs]
    /\ key \in newKeyGenerator(kind)
    /\ reader = "full"
    /\ cache = [u \in URIs |-> NoCache]
    /\ state = [k \in Dials |-> "none"]
    /\ closed = FALSE
    /\ panicked = FALSE
    /\ dpc = [d \in Dials |-> "start"]
    /\ ref = [d \in Dials |-> NoCache]
    /\ sock = [d \in Dials |-> "none"]
    /\ cpc = [x \in Closers |-> "start"]
    /\ swept = {}

goto(d, p) == dpc' = [dpc EXCEPT ![d] = p]

-----------------------------------------------------------------------------
(* Dial: from the instance URI to its cache                                *)

\* Dial looks at the closed channel, then parses the URI; either may end it.
Start(d) ==
    /\ dpc[d] = "start"
    /\ \/ goto(d, "failed")
       \/ ~closed /\ goto(d, "lookup")
    /\ UNCHANGED <<kind, exchange, uri, mapVars, closed, panicked, ref, sock, cpc, swept>>

\* connectionInfoCache, under the read lock.
Lookup(d) ==
    /\ dpc[d] = "lookup"
    /\ ref' = [ref EXCEPT ![d] = cache[uri[d]]]
    /\ goto(d, IF cache[uri[d]] = NoCache THEN "create" ELSE "info")
    /\ UNCHANGED <<kind, exchange, uri, mapVars, closed, panicked, sock, cpc, swept>>

\* A generator without the once.
rsaKeyRetries == key' \in {"ok", "err"}

\* rsaKey: the once runs the generator the first time and keeps its outcome.
rsaKey == key' \in IF key = "unset" THEN {"ok", "err"} ELSE {key}

\* The cache's constructor succeeds.  NewStaticConnectionInfoCache reads the
\* reader to its end; nothing is left there for a later call.
NewCache(u) ==
    /\ reader' = IF kind = "static" THEN "drained" ELSE reader
    /\ kind = "static" => reader = "full" /\ u \in Known

\* A static constructor that fails drains the reader all the same.
NewCacheFails(u) ==
    /\ kind = "static"
    /\ ~(reader = "full" /\ u \in Known)
    /\ reader' = "drained"

\* connectionInfoCache under the write lock, without the second look.
CreateUnchecked(d) ==
    /\ dpc[d] = "create"
    /\ rsaKey
    /\ key' = "ok" /\ NewCache(uri[d])
    /\ state' = [state EXCEPT ![d] = "open"]
    /\ cache' = [cache EXCEPT ![uri[d]] = d]
    /\ ref' = [ref EXCEPT ![d] = d]
    /\ goto(d, "info")
    /\ UNCHANGED <<kind, exchange, uri, closed, panicked, sock, cpc, swept>>

\* connectionInfoCache under the write lock: look again, then create.
Create(d) ==
    /\ dpc[d] = "create"
    /\ \/ /\ cache[uri[d]] # NoCache
          /\ ref' = [ref EXCEPT ![d] = cache[uri[d]]]
          /\ goto(d, "info")
          /\ UNCHANGED mapVars
       \/ /\ cache[uri[d]] = NoCache
          /\ rsaKey
          /\ \/ /\ key' = "ok" /\ NewCache(uri[d])
                /\ state' = [state EXCEPT ![d] = "open"]
                /\ cache' = [cache EXCEPT ![uri[d]] = d]
                /\ ref' = [ref EXCEPT ![d] = d]
                /\ goto(d, "info")
             \/ /\ key' = "ok" /\ NewCacheFails(uri[d])
                /\ goto(d, "failed")
                /\ UNCHANGED <<cache, state, ref>>
             \/ /\ key' = "err"
                /\ goto(d, "failed")
                /\ UNCHANGED <<reader, cache, state, ref>>
    /\ UNCHANGED <<kind, exchange, uri, closed, panicked, sock, cpc, swept>>

\* ConnectionInfo: valid, expired (refresh and ask again), or an error, which
\* the static cache never returns.  What is learned the second time is used
\* as it is.
Info(d) ==
    /\ \/ dpc[d] = "info" /\ goto(d, "info2")
       \/ dpc[d] \in {"info", "info2"} /\ goto(d, "address")
       \/ dpc[d] \in {"info", "info2"} /\ kind # "static" /\ goto(d, "remove")
    /\ UNCHANGED <<kind, exchange, uri, mapVars, closed, panicked, ref, sock, cpc, swept>>

\* The address of the requested type is there or not; static connection info
\* has an entry for every type.
Address(d) ==
    /\ dpc[d] = "address"
    /\ goto(d, "connect") \/ (kind # "static" /\ goto(d, "remove"))
    /\ UNCHANGED <<kind, exchange, uri, mapVars, closed, panicked, ref, sock, cpc, swept>>

\* Close of a cache: only the refresh-ahead cache has something to stop.
CloseCaches(K) ==
    state' = [k \in Dials |-> IF k \in K /\ kind = "ahead" THEN "closed" ELSE state[k]]

\* removeCached that closes the cache and leaves the map alone.
removeCachedKeepsEntry(d) ==
    /\ dpc[d] = "remove"
    /\ CloseCaches({ref[d]})
    /\ goto(d, "removed")
    /\ UNCHANGED <<kind, exchange, uri, key, reader, cache, closed, panicked, ref, sock, cpc, swept>>

\* removeCached, under the write lock: close the cache d holds and delete
\* whatever the map has for the instance.
removeCached(d) ==
    /\ dpc[d] = "remove"
    /\ CloseCaches({ref[d]})
    /\ cache' = [cache EXCEPT ![uri[d]] = NoCache]
    /\ goto(d, "removed")
    /\ UNCHANGED <<kind, exchange, uri, key, reader, closed, panicked, ref, sock, cpc, swept>>

-----------------------------------------------------------------------------
(* Dial: the connection.  The ForceRefresh after a failed dial or handshake *)
(* changes the inside of the cache only.                                    *)

Connect(d) ==
    /\ dpc[d] = "connect"
    /\ \/ goto(d, "failed") /\ UNCHANGED sock
       \/ goto(d, "keepalive") /\ sock' = [sock EXCEPT ![d] = "open"]
    /\ UNCHANGED <<kind, exchange, uri, mapVars, closed, panicked, ref, cpc, swept>>

\* An error here returns without closing the socket.
SetKeepAlive(d) ==
    /\ dpc[d] = "keepalive"
    /\ goto(d, "handshake") \/ goto(d, "keepaliveFailed")
    /\ UNCHANGED <<kind, exchange, uri, mapVars, closed, panicked, ref, sock, cpc, swept>>

\* A handshake whose failure leaves the socket open.
HandshakeLeaks(d) ==
    /\ dpc[d] = "handshake"
    /\ goto(d, "failed") \/ goto(d, IF exchange THEN "exchange" ELSE "connected")
    /\ UNCHANGED <<kind, exchange, uri, mapVars, closed, panicked, ref, sock, cpc, swept>>

Handshake(d) ==
    /\ dpc[d] = "handshake"
    /\ \/ goto(d, "failed") /\ sock' = [sock EXCEPT ![d] = "closed"]
       \/ goto(d, IF exchange THEN "exchange" ELSE "connected") /\ UNCHANGED sock
    /\ UNCHANGED <<kind, exchange, uri, mapVars, closed, panicked, ref, cpc, swept>>

MetadataExchange(d) ==
    /\ dpc[d] = "exchange"
    /\ \/ goto(d, "failed") /\ sock' = [sock EXCEPT ![d] = "closed"]
       \/ goto(d, "connected") /\ UNCHANGED sock
    /\ UNCHANGED <<kind, exchange, uri, mapVars, closed, panicked, ref, cpc, swept>>

-----------------------------------------------------------------------------
(* Close                                                                   *)

\* Has Close been called already?
CheckClosed(x) ==
    /\ cpc[x] = "start"
    /\ cpc' = [cpc EXCEPT ![x] = IF closed THEN "done" ELSE "closing"]
    /\ UNCHANGED <<kind, exchange, uri, mapVars, closed, panicked, dpc, ref, sock, swept>>

\* close(d.closed) panics if the channel is closed.
CloseChannel(x) ==
    /\ cpc[x] = "closing"
    /\ closed' = TRUE
    /\ panicked' = (panicked \/ closed)
    /\ cpc' = [cpc EXCEPT ![x] = IF closed THEN "done" ELSE "sweep"]
    /\ UNCHANGED <<kind, exchange, uri, mapVars, dpc, ref, sock, swept>>

\* A sweep that stops after the first cache.
SweepOne(x) ==
    /\ cpc[x] = "sweep"
    /\ LET Mapped == {cache[u] : u \in URIs} \ {NoCache}
       IN  CloseCaches(IF Mapped = {} THEN {} ELSE {CHOOSE k \in Mapped : TRUE})
    /\ cpc' = [cpc EXCEPT ![x] = "done"]
    /\ swept' = {k \in Dials : state[k] # "none"}
    /\ UNCHANGED <<kind, exchange, uri, key, reader, cache, closed, panicked, dpc, ref, sock>>

\* Under the write lock, close every cache of the map (and leave it there).
Sweep(x) ==
    /\ cpc[x] = "sweep"
    /\ CloseCaches({cache[u] : u \in URIs})
    /\ cpc' = [cpc EXCEPT ![x] = "done"]
    /\ swept' = {k \in Dials : state[k] # "none"}
    /\ UNCHANGED <<kind, exchange, uri, key, reader, cache, closed, panicked, dpc, ref, sock>>

-----------------------------------------------------------------------------
Dial(d) ==
    \/ Start(d)
    \/ Lookup(d)
    \/ Create(d)
    \/ Info(d)
    \/ Address(d)
    \/ removeCached(d)
    \/ Connect(d)
    \/ SetKeepAlive(d)
    \/ Handshake(d)
    \/ MetadataExchange(d)

Close(x) ==
    \/ CheckClosed(x)
    \/ CloseChannel(x)
    \/ Sweep(x)

Next ==
    \/ \E d \in Dials : Dial(d)
    \/ \E x \in Closers : Close(x)

Spec == Init /\ [][Next]_vars

-----------------------------------------------------------------------------
(* Properties                                                              *)

\* Every variable has its type.
TypeOK ==
    /\ kind \in Kinds
    /\ exchange \in BOOLEAN
    /\ uri \in [Dials -> URIs]
    /\ key \in {"unset", "ok", "err"}
    /\ reader \in {"full", "drained"}
    /\ cache \in [URIs -> Dials \cup {NoCache}]
    /\ state \in [Dials -> {"none", "open", "closed"}]
    /\ closed \in BOOLEAN
    /\ panicked \in BOOLEAN
    /\ dpc \in [Dials -> DialPoints]
    /\ ref \in [Dials -> Dials \cup {NoCache}]
    /\ sock \in [Dials -> {"none", "open", "closed"}]
    /\ cpc \in [Closers -> ClosePoints]
    /\ swept \in SUBSET Dials

\* Two refresh cycles of one instance never coexist, and no open cache is lost
\* from the map, unless a Dial of that instance removed a cache other than its
\* own: the second look under the write lock (dialer.go:617) and the deletion
\* under it (dialer.go:402) are what this rests on.
LeakNeedsRemoval ==
    \A k \in Dials :
        kind = "ahead" /\ state[k] = "open" /\ cache[uri[k]] # k =>
            \E d \in Dials : dpc[d] = "removed" /\ uri[d] = uri[k] /\ ref[d] # k

\* Until Close sweeps, a cache in the map is open: no Dial is handed a cache
\* whose refreshes another Dial has stopped (removeCached, dialer.go:389).
MappedIsOpen ==
    \A u \in URIs : cache[u] # NoCache /\ state[cache[u]] # "open" => closed

\* After Close every refresh-ahead cache that existed is closed, save one that
\* a removal had dropped from the map before (dialer.go:602).
CloseStopsExisting ==
    \A k \in swept :
        kind = "ahead" /\ state[k] = "open" =>
            \E d \in Dials : dpc[d] = "removed" /\ uri[d] = uri[k] /\ ref[d] # k

\* A Dial that returned an error has closed its socket, unless the error came
\* from setting keep-alive (dialer.go:338).
FailedDialClosesSocket ==
    \A d \in Dials : dpc[d] \in {"failed", "removed"} => sock[d] # "open"

\* The same without the exception: the error returns after setting keep-alive
\* close no socket (Dialer_keepAlive.cfg).
EveryFailureClosesSocket ==
    \A d \in Dials : dpc[d] \in {"failed", "removed", "keepaliveFailed"} => sock[d] # "open"

\* A key generator that failed once never serves a cache again, and one that
\* serves caches never fails: all caches of a Dialer have one key
\* (dialer.go:104).
KeyFailureIsFinal == key # "ok" => \A k \in Dials : state[k] = "none"

\* removeCached "stops all background refreshes and deletes the connection
\* info cache from the map of caches" (dialer.go:387): a cache that the map
\* does not have is not refreshed any more.
UnmappedIsStopped ==
    \A k \in Dials : kind = "ahead" /\ state[k] = "open" => cache[uri[k]] = k

\* Close "prevents the Dialer from refreshing the information needed to
\* connect" (dialer.go:589).
NoRefreshAfterClose ==
    (\E x \in Closers : cpc[x] = "done") =>
        \A k \in Dials : kind = "ahead" => state[k] # "open"

\* Calling Close more than once does not panic (dialer_test.go, "Ensure
\* multiple calls to close don't panic").
CloseNeverPanics == ~panicked

\* Static connection info "supports multiple instances, regardless of cluster"
\* (options.go:222): a Dial of an instance it describes that has to create the
\* cache finds the description.
StaticServesAllKnown ==
    \A d \in Dials :
        kind = "static" /\ dpc[d] = "create" /\ uri[d] \in Known
            => reader = "full" \/ cache[uri[d]] # NoCache

=============================================================================
