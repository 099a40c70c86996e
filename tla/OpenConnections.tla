-------------------------- MODULE OpenConnections --------------------------
(***************************************************************************)
(* The open-connections metric (dialer.go, the end of Dial and             *)
(* instrumentedConn.Close).  The counter belongs to a cache and is changed *)
(* atomically by a goroutine of its own for every connection made and for  *)
(* every connection closed; the goroutine then records the value it got in *)
(* a gauge that belongs to the instance and keeps the last value recorded. *)
(***************************************************************************)
EXTENDS Integers, FiniteSets

CONSTANTS
    Conns,      \* connections of one instance
    Caches,     \* the caches that served them, one after the other removed
    Modulus     \* 2^64: the counter is a uint64

ASSUME ConnsAssumption == IsFiniteSet(Conns)
ASSUME ModulusAssumption == Modulus \in Nat /\ Modulus > 2 * Cardinality(Conns)

VARIABLES
    cacheOf,    \* cacheOf[c]: the cache the Dial of c used
    conn,       \* conn[c]: "dialing", "open", "closed", or "broken": Close failed
    count,      \* count[k]: openConns of cache k
    inc, dec,   \* the two goroutines of c: "none", "spawned", "added", "over"
    got,        \* got[c]: the values the atomic additions returned, by goroutine
    gauge       \* what the exporter shows

vars == <<cacheOf, conn, count, inc, dec, got, gauge>>

Init ==
    /\ cacheOf \in [Conns -> Caches]
    /\ conn = [c \in Conns |-> "dialing"]
    /\ count = [k \in Caches |-> 0]
    /\ inc = [c \in Conns |-> "none"]
    /\ dec = [c \in Conns |-> "none"]
    /\ got = [c \in Conns |-> [inc |-> 0, dec |-> 0]]
    /\ gauge = 0

\* int64(n) of a uint64
int64(n) == IF n >= Modulus \div 2 THEN n - Modulus ELSE n

\* Dial returns the connection and starts the goroutine that counts it.
Open(c) ==
    /\ conn[c] = "dialing"
    /\ conn' = [conn EXCEPT ![c] = "open"]
    /\ inc' = [inc EXCEPT ![c] = "spawned"]
    /\ UNCHANGED <<cacheOf, count, dec, got, gauge>>

\* instrumentedConn.Close: only a Close without an error is reported.
Close(c) ==
    /\ conn[c] = "open"
    /\ \/ /\ conn' = [conn EXCEPT ![c] = "closed"]
          /\ dec' = [dec EXCEPT ![c] = "spawned"]
       \/ /\ conn' = [conn EXCEPT ![c] = "broken"]
          /\ UNCHANGED dec
    /\ UNCHANGED <<cacheOf, count, inc, got, gauge>>

\* atomic.AddUint64(cache.openConns, 1)
Increment(c) ==
    /\ inc[c] = "spawned"
    /\ inc' = [inc EXCEPT ![c] = "added"]
    /\ count' = [count EXCEPT ![cacheOf[c]] = (@ + 1) % Modulus]
    /\ got' = [got EXCEPT ![c].inc = count'[cacheOf[c]]]
    /\ UNCHANGED <<cacheOf, conn, dec, gauge>>

\* A decrement that stops at zero.
DecrementSaturating(c) ==
    /\ dec[c] = "spawned"
    /\ dec' = [dec EXCEPT ![c] = "added"]
    /\ count' = [count EXCEPT ![cacheOf[c]] = IF @ = 0 THEN 0 ELSE @ - 1]
    /\ got' = [got EXCEPT ![c].dec = count'[cacheOf[c]]]
    /\ UNCHANGED <<cacheOf, conn, inc, gauge>>

\* atomic.AddUint64(cache.openConns, ^uint64(0))
Decrement(c) ==
    /\ dec[c] = "spawned"
    /\ dec' = [dec EXCEPT ![c] = "added"]
    /\ count' = [count EXCEPT ![cacheOf[c]] = (@ + (Modulus - 1)) % Modulus]
    /\ got' = [got EXCEPT ![c].dec = count'[cacheOf[c]]]
    /\ UNCHANGED <<cacheOf, conn, inc, gauge>>

\* tel.RecordOpenConnections, in either goroutine.
RecordOpenConnections(c) ==
    /\ \/ /\ inc[c] = "added"
          /\ inc' = [inc EXCEPT ![c] = "over"]
          /\ gauge' = int64(got[c].inc)
          /\ UNCHANGED dec
       \/ /\ dec[c] = "added"
          /\ dec' = [dec EXCEPT ![c] = "over"]
          /\ gauge' = int64(got[c].dec)
          /\ UNCHANGED inc
    /\ UNCHANGED <<cacheOf, conn, count, got>>

Next ==
    \E c \in Conns :
        Open(c) \/ Close(c) \/ Increment(c) \/ Decrement(c) \/ RecordOpenConnections(c)

Spec == Init /\ [][Next]_vars

-----------------------------------------------------------------------------
\* Every variable has its type.
TypeOK ==
    /\ cacheOf \in [Conns -> Caches]
    /\ conn \in [Conns -> {"dialing", "open", "closed", "broken"}]
    /\ count \in [Caches -> 0..Modulus - 1]
    /\ inc \in [Conns -> {"none", "spawned", "added", "over"}]
    /\ dec \in [Conns -> {"none", "spawned", "added", "over"}]
    /\ got \in [Conns -> [inc : 0..Modulus - 1, dec : 0..Modulus - 1]]
    /\ gauge \in -Modulus..Modulus

Settled == \A c \in Conns : inc[c] \in {"none", "over"} /\ dec[c] \in {"none", "over"}

\* When no goroutine is under way, the counter of a cache is the number of its
\* connections that were not closed without an error, even if connections were
\* closed before they were counted and the counter went below zero meanwhile
\* (dialer.go:375, 382).
CounterSettles ==
    Settled =>
        \A k \in Caches :
            count[k] = Cardinality({c \in Conns : cacheOf[c] = k /\ conn[c] \in {"open", "broken"}})

\* The metric is "The current number of open AlloyDB connections" (README.md)
\* when nothing is under way and no Close has failed.
GaugeIsCurrent ==
    Settled /\ (\A c \in Conns : conn[c] # "broken") =>
        gauge = Cardinality({c \in Conns : conn[c] = "open"})

=============================================================================
