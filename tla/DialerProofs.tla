---------------------------- MODULE DialerProofs ----------------------------
(***************************************************************************)
(* Proofs about the Dialer's map of caches and its sockets, for any number *)
(* of Dials, Closes and instances and every kind of cache.                 *)
(***************************************************************************)
EXTENDS Dialer, TLAPS

\* A mapped cache was created, for the instance it is mapped under.
MapSound ==
    \A u \in URIs : cache[u] # NoCache => uri[cache[u]] = u /\ state[cache[u]] # "none"

\* The cache a Dial holds was created, for the instance it asks for.
RefSound ==
    \A d \in Dials : ref[d] # NoCache => uri[ref[d]] = uri[d] /\ state[ref[d]] # "none"

\* A Dial that has created a cache is past the point of creating one.
CreatesOnce ==
    \A d \in Dials : state[d] # "none" => dpc[d] \notin {"start", "lookup", "create"}

\* A Close sweeps only after it has closed the channel, and only caches that
\* exist are counted as swept.
SweepSound ==
    /\ \A x \in Closers : cpc[x] = "sweep" => closed
    /\ \A k \in swept : state[k] # "none"

\* Only a Dial that is connecting, or got stuck setting keep-alive, has an
\* open socket.
SocketSound ==
    \A d \in Dials :
        sock[d] = "open" =>
            dpc[d] \in {"keepalive", "handshake", "exchange", "connected", "keepaliveFailed"}

\* The inductive invariant.
IInv ==
    /\ TypeOK
    /\ MapSound
    /\ RefSound
    /\ CreatesOnce
    /\ SweepSound
    /\ SocketSound
    /\ MappedIsOpen
    /\ LeakNeedsRemoval
    /\ CloseStopsExisting

-----------------------------------------------------------------------------

LEMMA InitIInv == Init => IInv
<1> SUFFICES ASSUME Init PROVE IInv
  OBVIOUS
<1>1. TypeOK
  BY DEF Init, TypeOK, DialPoints, ClosePoints, newKeyGenerator
<1>2. MapSound /\ RefSound /\ CreatesOnce /\ SweepSound /\ SocketSound
  BY DEF Init, MapSound, RefSound, CreatesOnce, SweepSound, SocketSound
<1>3. MappedIsOpen /\ LeakNeedsRemoval /\ CloseStopsExisting
  BY DEF Init, MappedIsOpen, LeakNeedsRemoval, CloseStopsExisting
<1> QED BY <1>1, <1>2, <1>3 DEF IInv

\* A jump of Dial d changes the control point of no other Dial.
LEMMA GotoStep ==
    ASSUME TypeOK, NEW d \in Dials, NEW p \in DialPoints, goto(d, p)
    PROVE  /\ dpc' \in [Dials -> DialPoints]
           /\ dpc'[d] = p
           /\ \A e \in Dials : e # d => dpc'[e] = dpc[e]
  BY DEF goto, TypeOK

\* A step that only moves a Dial on, before or after it created its cache,
\* and that leaves its socket alone unless it closes it.
LEMMA PlainStep ==
    ASSUME IInv, NEW d \in Dials, NEW p \in DialPoints, goto(d, p),
           dpc[d] \notin {"removed"},
           p \in {"start", "lookup", "create"} => dpc[d] \in {"start", "lookup", "create"},
           UNCHANGED <<kind, exchange, uri, mapVars, closed, panicked, cpc, swept>>,
           ref' \in [Dials -> Dials \cup {NoCache}],
           RefSound',
           \A e \in Dials : e # d => ref'[e] = ref[e],
           sock' \in [Dials -> {"none", "open", "closed"}],
           SocketSound'
    PROVE  IInv'
<1>1. /\ dpc' \in [Dials -> DialPoints]
      /\ dpc'[d] = p
      /\ \A e \in Dials : e # d => dpc'[e] = dpc[e]
  BY GotoStep DEF IInv
<1>2. TypeOK' /\ MapSound' /\ SweepSound' /\ MappedIsOpen'
  BY <1>1 DEF IInv, TypeOK, MapSound, SweepSound, MappedIsOpen, mapVars
<1>3. CreatesOnce'
  BY <1>1 DEF IInv, TypeOK, CreatesOnce, mapVars
<1>4. \A e \in Dials : dpc[e] = "removed" => dpc'[e] = "removed" /\ ref'[e] = ref[e]
  BY <1>1
<1>5. LeakNeedsRemoval' /\ CloseStopsExisting'
  BY <1>4 DEF IInv, TypeOK, LeakNeedsRemoval, CloseStopsExisting, mapVars
<1> QED BY <1>2, <1>3, <1>5 DEF IInv

\* Looking up a cache, under either lock, and the failures of a creation.
LEMMA LookupPreserves ==
    ASSUME IInv, NEW d \in Dials, Lookup(d)
    PROVE  IInv'
<1> DEFINE p == IF cache[uri[d]] = NoCache THEN "create" ELSE "info"
<1>1. p \in DialPoints /\ goto(d, p)
  BY DEF Lookup, DialPoints
<1>2. /\ ref' \in [Dials -> Dials \cup {NoCache}]
      /\ \A e \in Dials : e # d => ref'[e] = ref[e]
      /\ RefSound'
  BY DEF Lookup, IInv, TypeOK, RefSound, MapSound, mapVars
<1>3. SocketSound' /\ sock' \in [Dials -> {"none", "open", "closed"}]
  BY DEF Lookup, IInv, TypeOK, SocketSound, goto
<1> HIDE DEF p
<1> QED
  BY <1>1, <1>2, <1>3, PlainStep DEF Lookup

\* A successful creation: the map had nothing for the instance.
LEMMA CreationPreserves ==
    ASSUME IInv, NEW d \in Dials,
           dpc[d] = "create", goto(d, "info"),
           cache[uri[d]] = NoCache,
           key' \in {"unset", "ok", "err"}, reader' \in {"full", "drained"},
           state' = [state EXCEPT ![d] = "open"],
           cache' = [cache EXCEPT ![uri[d]] = d],
           ref' = [ref EXCEPT ![d] = d],
           UNCHANGED <<kind, exchange, uri, closed, panicked, sock, cpc, swept>>
    PROVE  IInv'
<1>1. /\ dpc' \in [Dials -> DialPoints]
      /\ dpc'[d] = "info"
      /\ \A e \in Dials : e # d => dpc'[e] = dpc[e]
  BY GotoStep DEF IInv, DialPoints
<1>2. state[d] = "none"
  BY DEF IInv, CreatesOnce
<1>3. d # NoCache /\ uri[d] \in URIs
  BY NoCacheAssumption DEF IInv, TypeOK
<1>4. TypeOK'
  BY <1>1 DEF IInv, TypeOK
<1>5. /\ cache'[uri[d]] = d /\ \A u \in URIs : u # uri[d] => cache'[u] = cache[u]
      /\ state'[d] = "open" /\ \A k \in Dials : k # d => state'[k] = state[k]
      /\ ref'[d] = d /\ \A e \in Dials : e # d => ref'[e] = ref[e]
  BY <1>3 DEF IInv, TypeOK
<1>6. MapSound' /\ RefSound'
  BY <1>2, <1>3, <1>5 DEF IInv, TypeOK, MapSound, RefSound
<1>7. CreatesOnce' /\ SocketSound'
  BY <1>1, <1>5 DEF IInv, TypeOK, CreatesOnce, SocketSound
<1>a. SweepSound'
  <2>1. \A k \in swept : k \in Dials
    BY DEF IInv, TypeOK
  <2> QED BY <2>1, <1>5 DEF IInv, SweepSound
<1>8. MappedIsOpen'
  BY <1>2, <1>3, <1>5 DEF IInv, TypeOK, MappedIsOpen
<1>9. \A e \in Dials : dpc[e] = "removed" => dpc'[e] = "removed" /\ ref'[e] = ref[e]
  BY <1>1, <1>5
<1>10. LeakNeedsRemoval'
  <2> SUFFICES ASSUME NEW k \in Dials, kind = "ahead", state'[k] = "open", cache'[uri[k]] # k
               PROVE  \E e \in Dials : dpc'[e] = "removed" /\ uri[e] = uri[k] /\ ref'[e] # k
    BY DEF LeakNeedsRemoval
  <2>1. k # d /\ state[k] = "open" /\ uri[k] \in URIs
    BY <1>5 DEF IInv, TypeOK
  <2>2. cache[uri[k]] # k
    BY <2>1, <1>5, NoCacheAssumption
  <2>3. PICK e \in Dials : dpc[e] = "removed" /\ uri[e] = uri[k] /\ ref[e] # k
    BY <2>1, <2>2 DEF IInv, LeakNeedsRemoval
  <2> QED BY <2>3, <1>9
<1>11. CloseStopsExisting'
  BY <1>2, <1>5, <1>9 DEF IInv, TypeOK, CloseStopsExisting, SweepSound
<1> QED BY <1>4, <1>6, <1>7, <1>a, <1>8, <1>10, <1>11 DEF IInv

\* A failed creation leaves the map, the caches and the references alone.
LEMMA FailedCreationPreserves ==
    ASSUME IInv, NEW d \in Dials,
           dpc[d] = "create", goto(d, "failed"),
           key' \in {"unset", "ok", "err"}, reader' \in {"full", "drained"},
           UNCHANGED <<kind, exchange, uri, cache, state, ref, closed, panicked, sock, cpc, swept>>
    PROVE  IInv'
<1>1. /\ dpc' \in [Dials -> DialPoints]
      /\ dpc'[d] = "failed"
      /\ \A e \in Dials : e # d => dpc'[e] = dpc[e]
  BY GotoStep DEF IInv, DialPoints
<1>2. TypeOK' /\ MapSound' /\ RefSound' /\ SweepSound' /\ MappedIsOpen'
  BY <1>1 DEF IInv, TypeOK, MapSound, RefSound, SweepSound, MappedIsOpen
<1>3. CreatesOnce' /\ SocketSound'
  BY <1>1 DEF IInv, TypeOK, CreatesOnce, SocketSound
<1>4. LeakNeedsRemoval' /\ CloseStopsExisting'
  BY <1>1 DEF IInv, TypeOK, LeakNeedsRemoval, CloseStopsExisting
<1> QED BY <1>2, <1>3, <1>4 DEF IInv

\* connectionInfoCache under the write lock.
LEMMA CreatePreserves ==
    ASSUME IInv, NEW d \in Dials, Create(d)
    PROVE  IInv'
<1>1. CASE cache[uri[d]] # NoCache
  <2>1. /\ goto(d, "info") /\ UNCHANGED mapVars
        /\ ref' = [ref EXCEPT ![d] = cache[uri[d]]]
        /\ UNCHANGED <<kind, exchange, uri, closed, panicked, sock, cpc, swept>>
        /\ dpc[d] = "create"
    BY <1>1 DEF Create
  <2>2. /\ ref' \in [Dials -> Dials \cup {NoCache}]
        /\ \A e \in Dials : e # d => ref'[e] = ref[e]
        /\ RefSound'
    BY <2>1 DEF IInv, TypeOK, RefSound, MapSound, mapVars
  <2>3. SocketSound' /\ sock' \in [Dials -> {"none", "open", "closed"}]
    BY <2>1 DEF IInv, TypeOK, SocketSound, goto
  <2>4. "info" \in DialPoints
    BY DEF DialPoints
  <2> QED BY <2>1, <2>2, <2>3, <2>4, PlainStep
<1>2. CASE cache[uri[d]] = NoCache
  <2>1. /\ dpc[d] = "create" /\ rsaKey
        /\ UNCHANGED <<kind, exchange, uri, closed, panicked, sock, cpc, swept>>
    BY <1>2 DEF Create
  <2>2. key' \in {"unset", "ok", "err"}
    BY <2>1 DEF rsaKey, IInv, TypeOK
  <2>3. CASE /\ key' = "ok" /\ NewCache(uri[d])
             /\ state' = [state EXCEPT ![d] = "open"]
             /\ cache' = [cache EXCEPT ![uri[d]] = d]
             /\ ref' = [ref EXCEPT ![d] = d]
             /\ goto(d, "info")
    <3>1. reader' \in {"full", "drained"}
      BY <2>3 DEF NewCache, IInv, TypeOK
    <3> QED BY <1>2, <2>1, <2>2, <2>3, <3>1, CreationPreserves
  <2>4. CASE goto(d, "failed") /\ UNCHANGED <<cache, state, ref>>
             /\ (NewCacheFails(uri[d]) \/ UNCHANGED reader)
    <3>1. reader' \in {"full", "drained"}
      BY <2>4 DEF NewCacheFails, IInv, TypeOK
    <3> QED BY <2>1, <2>2, <2>4, <3>1, FailedCreationPreserves
  <2> QED BY <1>2, <2>3, <2>4 DEF Create
<1> QED BY <1>1, <1>2

\* removeCached: the cache it closes is mapped under no other instance.
LEMMA RemovePreserves ==
    ASSUME IInv, NEW d \in Dials, removeCached(d)
    PROVE  IInv'
<1>1. /\ dpc' \in [Dials -> DialPoints]
      /\ dpc'[d] = "removed"
      /\ \A e \in Dials : e # d => dpc'[e] = dpc[e]
  BY GotoStep DEF IInv, DialPoints, removeCached
<1>2. /\ cache'[uri[d]] = NoCache /\ \A u \in URIs : u # uri[d] => cache'[u] = cache[u]
      /\ cache' \in [URIs -> Dials \cup {NoCache}]
      /\ UNCHANGED <<kind, exchange, uri, key, reader, closed, panicked, ref, sock, cpc, swept>>
  BY DEF removeCached, IInv, TypeOK
<1>3. /\ state' \in [Dials -> {"none", "open", "closed"}]
      /\ \A k \in Dials : k # ref[d] => state'[k] = state[k]
      /\ kind = "ahead" => \A k \in Dials : k = ref[d] => state'[k] = "closed"
      /\ kind # "ahead" => \A k \in Dials : state'[k] = state[k]
  BY DEF removeCached, CloseCaches, IInv, TypeOK
<1>4. TypeOK'
  BY <1>1, <1>2, <1>3 DEF IInv, TypeOK
<1>5. \A u \in URIs : cache'[u] # NoCache =>
        /\ cache[u] = cache'[u] /\ cache'[u] \in Dials /\ cache'[u] # ref[d]
        /\ state'[cache'[u]] = state[cache'[u]]
  BY <1>2, <1>3 DEF IInv, TypeOK, MapSound, RefSound
<1>6. MapSound' /\ MappedIsOpen'
  BY <1>2, <1>5 DEF IInv, TypeOK, MapSound, MappedIsOpen
<1>7. \A k \in Dials : state'[k] # "none" <=> state[k] # "none"
  BY <1>3, NoCacheAssumption DEF IInv, TypeOK, RefSound
<1>a. RefSound'
  BY <1>2, <1>7 DEF IInv, TypeOK, RefSound
<1>8. CreatesOnce' /\ SocketSound'
  BY <1>1, <1>2, <1>7 DEF removeCached, IInv, TypeOK, CreatesOnce, SocketSound
<1>9. SweepSound'
  <2>1. \A k \in swept : k \in Dials
    BY DEF IInv, TypeOK
  <2> QED BY <2>1, <1>2, <1>7 DEF IInv, SweepSound
<1>10. \A e \in Dials : dpc[e] = "removed" => dpc'[e] = "removed" /\ ref'[e] = ref[e]
  BY <1>1, <1>2
<1>11. \A k \in Dials : state'[k] = "open" /\ kind = "ahead" => state[k] = "open" /\ ref[d] # k
  BY <1>3
<1>12. LeakNeedsRemoval'
  <2> SUFFICES ASSUME NEW k \in Dials, kind = "ahead", state'[k] = "open", cache'[uri[k]] # k
               PROVE  \E e \in Dials : dpc'[e] = "removed" /\ uri[e] = uri[k] /\ ref[e] # k
    BY <1>2 DEF LeakNeedsRemoval
  <2>1. CASE uri[k] = uri[d]
    BY <2>1, <1>1, <1>11
  <2>2. CASE uri[k] # uri[d]
    BY <2>2, <1>2, <1>10, <1>11 DEF IInv, TypeOK, LeakNeedsRemoval
  <2> QED BY <2>1, <2>2
<1>13. CloseStopsExisting'
  <2>1. \A k \in swept : k \in Dials
    BY DEF IInv, TypeOK
  <2> QED BY <2>1, <1>2, <1>10, <1>11 DEF IInv, CloseStopsExisting
<1> QED BY <1>4, <1>6, <1>a, <1>8, <1>9, <1>12, <1>13 DEF IInv

\* Sweep: what it leaves open had been dropped from the map before.
LEMMA SweepPreserves ==
    ASSUME IInv, NEW x \in Closers, Sweep(x)
    PROVE  IInv'
<1>1. /\ UNCHANGED <<kind, exchange, uri, key, reader, cache, closed, panicked, dpc, ref, sock>>
      /\ swept' = {k \in Dials : state[k] # "none"}
      /\ cpc' = [cpc EXCEPT ![x] = "done"]
      /\ closed
  BY DEF Sweep, IInv, SweepSound
<1>2. /\ state' \in [Dials -> {"none", "open", "closed"}]
      /\ \A k \in Dials : state'[k] # state[k] => \E u \in URIs : cache[u] = k
      /\ \A k \in Dials : state'[k] # state[k] => state'[k] = "closed"
      /\ kind = "ahead" => \A u \in URIs : \A k \in Dials : cache[u] = k => state'[k] = "closed"
  BY DEF Sweep, CloseCaches, IInv, TypeOK
<1>3. TypeOK'
  BY <1>1, <1>2 DEF IInv, TypeOK, ClosePoints
<1>4. \A k \in Dials : state'[k] # "none" <=> state[k] # "none"
  BY <1>2, NoCacheAssumption DEF IInv, TypeOK, MapSound
<1>5. MapSound' /\ RefSound' /\ CreatesOnce' /\ SocketSound' /\ MappedIsOpen'
  BY <1>1, <1>4 DEF IInv, TypeOK, MapSound, RefSound, CreatesOnce, SocketSound, MappedIsOpen
<1>6. SweepSound'
  BY <1>1, <1>4 DEF IInv, TypeOK, SweepSound
<1>7. \A k \in Dials : state'[k] = "open" => state[k] = "open"
  BY <1>2
<1>8. LeakNeedsRemoval'
  BY <1>1, <1>7 DEF IInv, LeakNeedsRemoval
<1>9. CloseStopsExisting'
  <2> SUFFICES ASSUME NEW k \in Dials, kind = "ahead", state'[k] = "open"
               PROVE  \E d \in Dials : dpc[d] = "removed" /\ uri[d] = uri[k] /\ ref[d] # k
    BY <1>1 DEF CloseStopsExisting
  <2>1. uri[k] \in URIs /\ cache[uri[k]] # k
    BY <1>2 DEF IInv, TypeOK
  <2> QED BY <2>1, <1>7 DEF IInv, LeakNeedsRemoval
<1> QED BY <1>3, <1>5, <1>6, <1>8, <1>9 DEF IInv

\* The other steps of Close change the channel and the control point only.
LEMMA ClosePreserves ==
    ASSUME IInv, NEW x \in Closers, CheckClosed(x) \/ CloseChannel(x)
    PROVE  IInv'
<1>1. /\ UNCHANGED <<kind, exchange, uri, mapVars, dpc, ref, sock, swept>>
      /\ closed' \in BOOLEAN /\ panicked' \in BOOLEAN /\ (closed => closed')
      /\ cpc' \in [Closers -> ClosePoints]
      /\ \A y \in Closers : cpc'[y] = "sweep" => closed'
  BY DEF CheckClosed, CloseChannel, IInv, TypeOK, ClosePoints, SweepSound
<1>2. TypeOK' /\ MapSound' /\ RefSound' /\ CreatesOnce' /\ SocketSound'
  BY <1>1 DEF IInv, TypeOK, MapSound, RefSound, CreatesOnce, SocketSound, mapVars
<1>3. SweepSound' /\ MappedIsOpen' /\ LeakNeedsRemoval' /\ CloseStopsExisting'
  BY <1>1 DEF IInv, SweepSound, MappedIsOpen, LeakNeedsRemoval, CloseStopsExisting, mapVars
<1> QED BY <1>2, <1>3 DEF IInv

\* The steps of Dial that leave the map alone.
LEMMA MovePreserves ==
    ASSUME IInv, NEW d \in Dials,
           \/ Start(d) \/ Info(d) \/ Address(d) \/ Connect(d) \/ SetKeepAlive(d)
           \/ Handshake(d) \/ MetadataExchange(d)
    PROVE  IInv'
<1> DEFINE Before == {"start", "lookup", "create"}
<1>1. PICK p \in DialPoints :
        /\ goto(d, p)
        /\ dpc[d] # "removed"
        /\ p \in Before => dpc[d] \in Before
        /\ \/ /\ UNCHANGED sock
              /\ sock[d] = "open" =>
                    p \in {"keepalive", "handshake", "exchange", "connected", "keepaliveFailed"}
           \/ p = "keepalive" /\ sock' = [sock EXCEPT ![d] = "open"]
           \/ sock' = [sock EXCEPT ![d] = "closed"]
  BY DEF Start, Info, Address, Connect, SetKeepAlive, Handshake, MetadataExchange, DialPoints,
     IInv, TypeOK, SocketSound
<1>2. UNCHANGED <<kind, exchange, uri, mapVars, closed, panicked, ref, cpc, swept>>
  BY DEF Start, Info, Address, Connect, SetKeepAlive, Handshake, MetadataExchange
<1>3. ref' \in [Dials -> Dials \cup {NoCache}] /\ RefSound'
  BY <1>2 DEF IInv, TypeOK, RefSound, mapVars
<1>4. /\ dpc'[d] = p
      /\ \A e \in Dials : e # d => dpc'[e] = dpc[e]
  BY <1>1, GotoStep DEF IInv
<1>5. sock' \in [Dials -> {"none", "open", "closed"}] /\ SocketSound'
  BY <1>1, <1>4 DEF IInv, TypeOK, SocketSound
<1> QED BY <1>1, <1>2, <1>3, <1>5, PlainStep

LEMMA NextIInv == IInv /\ [Next]_vars => IInv'
<1> SUFFICES ASSUME IInv, [Next]_vars PROVE IInv'
  OBVIOUS
<1>1. CASE UNCHANGED vars
  BY <1>1 DEF vars, IInv, TypeOK, MapSound, RefSound, CreatesOnce, SweepSound, SocketSound,
     MappedIsOpen, LeakNeedsRemoval, CloseStopsExisting
<1>2. ASSUME NEW d \in Dials, Dial(d) PROVE IInv'
  BY <1>2, LookupPreserves, CreatePreserves, RemovePreserves, MovePreserves DEF Dial
<1>3. ASSUME NEW x \in Closers, Close(x) PROVE IInv'
  BY <1>3, SweepPreserves, ClosePreserves DEF Close
<1> QED BY <1>1, <1>2, <1>3 DEF Next

\* The invariant holds throughout every behaviour.
LEMMA Invariance == Spec => []IInv
  BY InitIInv, NextIInv, PTL DEF Spec

\* Only a creation with a good key makes a cache; a removal or a Close, which
\* set the state of caches, find them created.
LEMMA KeyStep == IInv /\ KeyFailureIsFinal /\ [Next]_vars => KeyFailureIsFinal'
<1> SUFFICES ASSUME IInv, KeyFailureIsFinal, [Next]_vars
             PROVE  KeyFailureIsFinal'
  OBVIOUS
<1>1. ASSUME key' = key, \A k \in Dials : state[k] = "none" => state'[k] = "none"
      PROVE  KeyFailureIsFinal'
  BY <1>1 DEF KeyFailureIsFinal
<1>2. ASSUME NEW d \in Dials, Create(d)
      PROVE  KeyFailureIsFinal'
  <2>1. CASE UNCHANGED mapVars
    BY <1>1, <2>1 DEF mapVars
  <2>2. CASE rsaKey /\ key' = "ok"
    BY <2>2 DEF KeyFailureIsFinal
  <2>3. CASE rsaKey /\ key' = "err" /\ UNCHANGED state
    BY <2>3 DEF rsaKey, KeyFailureIsFinal
  <2> QED BY <1>2, <2>1, <2>2, <2>3 DEF Create
<1>3. ASSUME NEW d \in Dials, removeCached(d)
      PROVE  KeyFailureIsFinal'
  <2>1. key' = key /\ \A k \in Dials : k # ref[d] => state'[k] = state[k]
    BY <1>3 DEF removeCached, CloseCaches
  <2>2. \A k \in Dials : k = ref[d] => state[k] # "none"
    BY NoCacheAssumption DEF IInv, RefSound
  <2> QED BY <2>1, <2>2, <1>1
<1>4. ASSUME NEW x \in Closers, Sweep(x)
      PROVE  KeyFailureIsFinal'
  <2>1. key' = key /\ \A k \in Dials : state'[k] # state[k] => \E u \in URIs : cache[u] = k
    BY <1>4 DEF Sweep, CloseCaches, IInv, TypeOK
  <2>2. \A u \in URIs, k \in Dials : cache[u] = k => state[k] # "none"
    BY NoCacheAssumption DEF IInv, MapSound
  <2> QED BY <2>1, <2>2, <1>1
<1>5. CASE UNCHANGED mapVars
  BY <1>1, <1>5 DEF mapVars
<1>6. ASSUME NEW d \in Dials, Dial(d), ~Create(d), ~removeCached(d)
      PROVE  UNCHANGED mapVars
  BY <1>6 DEF Dial, Start, Lookup, Info, Address, Connect, SetKeepAlive, Handshake,
     MetadataExchange
<1>7. ASSUME NEW x \in Closers, Close(x), ~Sweep(x)
      PROVE  UNCHANGED mapVars
  BY <1>7 DEF Close, CheckClosed, CloseChannel
<1>8. UNCHANGED vars => UNCHANGED mapVars
  BY DEF vars, mapVars
<1> QED BY <1>2, <1>3, <1>4, <1>5, <1>6, <1>7, <1>8 DEF Next

-----------------------------------------------------------------------------
(* The results                                                             *)

\* Every variable of the Dialer keeps its type.
THEOREM TypeCorrect == Spec => []TypeOK
  BY Invariance, PTL DEF IInv

\* Until Close, no Dial finds a cache in the map that another Dial has closed.
THEOREM MapServesOpenCaches == Spec => []MappedIsOpen
  BY Invariance, PTL DEF IInv

\* Concurrent Dials never create two caches of one instance; the only way to
\* an open cache outside the map is a Dial that removes another's cache.
THEOREM LeaksOnlyByRemoval == Spec => []LeakNeedsRemoval
  BY Invariance, PTL DEF IInv

\* Close stops every refresh cycle that exists when it sweeps the map, save
\* one that such a removal had leaked before.
THEOREM CloseIsThorough == Spec => []CloseStopsExisting
  BY Invariance, PTL DEF IInv

\* A Dial that failed for another reason than keep-alive left no socket open.
THEOREM SocketsAreClosed == Spec => []FailedDialClosesSocket
<1>1. IInv => FailedDialClosesSocket
  BY DEF IInv, SocketSound, FailedDialClosesSocket
<1> QED BY <1>1, Invariance, PTL

\* A generator of keys that failed once never serves a cache, and no cache is
\* ever made without a key: rsaKey's once settles both for good.
THEOREM KeyIsSettledOnce == Spec => []KeyFailureIsFinal
<1>1. Init => KeyFailureIsFinal
  BY DEF Init, KeyFailureIsFinal
<1> QED BY <1>1, KeyStep, Invariance, PTL DEF Spec

=============================================================================
