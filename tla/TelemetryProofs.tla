-------------------------- MODULE TelemetryProofs --------------------------
(***************************************************************************)
(* Proofs about the metrics and the spans, for any number of connections,  *)
(* caches and refreshes, and bytes in any amount.                          *)
(***************************************************************************)
EXTENDS Telemetry, FiniteSetTheorems, TLAPS

(* The open-connections counter                                            *)

\* The connections of cache k whose making, or whose closing, was counted.
Added(k) == {c \in Conns : cacheOf[c] = k /\ inc[c] \in {"added", "over"}}
Taken(k) == {c \in Conns : cacheOf[c] = k /\ dec[c] \in {"added", "over"}}

\* An integer as a uint64.
uint64(n) == IF n < 0 THEN n + Modulus ELSE n

\* The counter is the difference, as a uint64: it may be ahead of zero or
\* behind it.
CountSound == \A k \in Caches : count[k] = uint64(Cardinality(Added(k)) - Cardinality(Taken(k)))

\* The goroutine that counts a connection is there from the time it is made,
\* the other one from the time it is closed without an error.
GoroutinesSound ==
    \A c \in Conns :
        /\ inc[c] # "none" <=> conn[c] # "dialing"
        /\ dec[c] # "none" <=> conn[c] = "closed"

\* The inductive invariant of OpenConnections.
CounterInv == TypeOK /\ CountSound /\ GoroutinesSound

\* Sets of connections are finite and smaller than the modulus.
LEMMA ConnsFinite ==
    ASSUME NEW S \in SUBSET Conns
    PROVE  IsFiniteSet(S) /\ Cardinality(S) \in Nat /\ 2 * Cardinality(S) < Modulus
<1>1. IsFiniteSet(S) /\ Cardinality(S) <= Cardinality(Conns)
  BY FS_Subset, ConnsAssumption
<1>2. Cardinality(S) \in Nat /\ Cardinality(Conns) \in Nat
  BY <1>1, FS_CardinalityType, ConnsAssumption
<1> QED BY <1>1, <1>2, ModulusAssumption

\* Adding one, modulo Modulus, and subtracting one by adding Modulus - 1.
LEMMA PlusOne ==
    ASSUME NEW n \in Int, -Modulus < n, n + 1 < Modulus
    PROVE  (uint64(n) + 1) % Modulus = uint64(n + 1)
<1>1. Modulus \in Nat /\ Modulus > 0
  BY ModulusAssumption
<1> QED BY <1>1 DEF uint64

LEMMA MinusOne ==
    ASSUME NEW n \in Int, -Modulus < n - 1, n < Modulus
    PROVE  (uint64(n) + (Modulus - 1)) % Modulus = uint64(n - 1)
<1>1. Modulus \in Nat /\ Modulus > 0
  BY ModulusAssumption
<1> QED BY <1>1 DEF uint64

\* The difference fits, so that its uint64 tells it apart.
LEMMA DifferenceFits ==
    ASSUME NEW k \in Caches
    PROVE  /\ Cardinality(Added(k)) \in Nat /\ Cardinality(Taken(k)) \in Nat
           /\ IsFiniteSet(Added(k)) /\ IsFiniteSet(Taken(k))
           /\ 2 * Cardinality(Added(k)) < Modulus /\ 2 * Cardinality(Taken(k)) < Modulus
<1>1. Added(k) \in SUBSET Conns /\ Taken(k) \in SUBSET Conns
  BY DEF Added, Taken
<1> QED BY <1>1, ConnsFinite

LEMMA CounterInit == Init => CounterInv
<1> SUFFICES ASSUME Init PROVE CounterInv
  OBVIOUS
<1>1. Modulus \in Nat /\ 0 < Modulus
  <2>1. Cardinality(Conns) \in Nat
    BY FS_CardinalityType, ConnsAssumption
  <2> QED BY <2>1, ModulusAssumption
<1>2. TypeOK /\ GoroutinesSound
  BY <1>1 DEF Init, TypeOK, GoroutinesSound
<1>3. CountSound
  <2> SUFFICES ASSUME NEW k \in Caches
               PROVE  count[k] = uint64(Cardinality(Added(k)) - Cardinality(Taken(k)))
    BY DEF CountSound
  <2>1. Added(k) = {} /\ Taken(k) = {} /\ count[k] = 0
    BY DEF Init, Added, Taken
  <2>2. Cardinality({}) = 0
    BY FS_EmptySet
  <2> QED BY <2>1, <2>2 DEF uint64
<1> QED BY <1>2, <1>3 DEF CounterInv

\* A connection is made or closed, or a goroutine records what it got.
LEMMA CounterQuiet ==
    ASSUME CounterInv, NEW c \in Conns, Open(c) \/ Close(c) \/ RecordOpenConnections(c)
    PROVE  CounterInv'
<1>1. UNCHANGED <<cacheOf, count, got>>
  BY DEF Open, Close, RecordOpenConnections
<1>2. /\ conn' \in [Conns -> {"dialing", "open", "closed", "broken"}]
      /\ inc' \in [Conns -> {"none", "spawned", "added", "over"}]
      /\ dec' \in [Conns -> {"none", "spawned", "added", "over"}]
  BY DEF Open, Close, RecordOpenConnections, CounterInv, TypeOK
<1>3. gauge' \in -Modulus..Modulus
  <2>1. \A n \in 0..Modulus - 1 : int64(n) \in -Modulus..Modulus
    <3>1. Modulus \in Nat /\ Modulus \div 2 \in Nat
      BY ModulusAssumption
    <3> QED BY <3>1 DEF int64
  <2>2. got[c].inc \in 0..Modulus - 1 /\ got[c].dec \in 0..Modulus - 1
    BY DEF CounterInv, TypeOK
  <2> QED BY <2>1, <2>2 DEF Open, Close, RecordOpenConnections, CounterInv, TypeOK
<1>4. TypeOK'
  BY <1>1, <1>2, <1>3 DEF CounterInv, TypeOK
<1>5. GoroutinesSound'
  BY DEF Open, Close, RecordOpenConnections, CounterInv, TypeOK, GoroutinesSound
<1>6. \A k \in Caches : Added(k)' = Added(k) /\ Taken(k)' = Taken(k)
  <2>1. \A d \in Conns : /\ inc'[d] \in {"added", "over"} <=> inc[d] \in {"added", "over"}
                         /\ dec'[d] \in {"added", "over"} <=> dec[d] \in {"added", "over"}
    BY DEF Open, Close, RecordOpenConnections, CounterInv, TypeOK, GoroutinesSound
  <2> QED BY <1>1, <2>1 DEF Added, Taken
<1>7. CountSound'
  BY <1>1, <1>6 DEF CounterInv, CountSound, uint64
<1> QED BY <1>4, <1>5, <1>7 DEF CounterInv

\* One more connection is counted.
LEMMA CounterUp ==
    ASSUME CounterInv, NEW c \in Conns, Increment(c)
    PROVE  CounterInv'
<1>0. PICK k \in Caches : k = cacheOf[c]
  BY DEF CounterInv, TypeOK
<1>1. /\ inc[c] = "spawned" /\ inc' = [inc EXCEPT ![c] = "added"]
      /\ count' = [count EXCEPT ![k] = (count[k] + 1) % Modulus]
      /\ got' = [got EXCEPT ![c].inc = count'[k]]
      /\ UNCHANGED <<cacheOf, conn, dec, gauge>>
  BY <1>0 DEF Increment
<1>2. k \in Caches /\ count[k] \in 0..Modulus - 1 /\ Modulus \in Nat /\ Modulus > 0
  BY ModulusAssumption DEF CounterInv, TypeOK
<1>3. (count[k] + 1) % Modulus \in 0..Modulus - 1
  BY <1>2
<1>4. /\ count' \in [Caches -> 0..Modulus - 1]
      /\ count'[k] = (count[k] + 1) % Modulus
      /\ \A l \in Caches : l # k => count'[l] = count[l]
  BY <1>1, <1>2, <1>3 DEF CounterInv, TypeOK
<1>5. got' \in [Conns -> [inc : 0..Modulus - 1, dec : 0..Modulus - 1]]
  BY <1>1, <1>2, <1>4 DEF CounterInv, TypeOK
<1>6. TypeOK' /\ GoroutinesSound'
  BY <1>1, <1>4, <1>5 DEF CounterInv, TypeOK, GoroutinesSound
<1>7. \A l \in Caches : /\ Taken(l)' = Taken(l)
                        /\ l # k => Added(l)' = Added(l)
  BY <1>0, <1>1 DEF Added, Taken, CounterInv, TypeOK
<1>8. Added(k)' = Added(k) \cup {c} /\ c \notin Added(k)
  BY <1>0, <1>1 DEF Added, CounterInv, TypeOK
<1>9. CountSound'
  <2> DEFINE a == Cardinality(Added(k))
             t == Cardinality(Taken(k))
  <2>1. /\ a \in Nat /\ t \in Nat /\ 2 * a < Modulus /\ 2 * t < Modulus
        /\ IsFiniteSet(Added(k))
    BY <1>2, DifferenceFits
  <2>2. Cardinality(Added(k) \cup {c}) = a + 1 /\ 2 * (a + 1) < Modulus
    <3>1. Cardinality(Added(k) \cup {c}) = a + 1
      BY <1>8, <2>1, FS_AddElement
    <3>2. Added(k) \cup {c} \in SUBSET Conns
      BY DEF Added
    <3> QED BY <3>1, <3>2, ConnsFinite
  <2>3. count[k] = uint64(a - t)
    BY <1>2 DEF CounterInv, CountSound
  <2> HIDE DEF a, t
  <2>4. a - t \in Int /\ -Modulus < a - t /\ a - t + 1 < Modulus /\ (a - t) + 1 = (a + 1) - t
    BY <1>2, <2>1, <2>2
  <2>5. count'[k] = uint64((a + 1) - t)
    BY <1>4, <2>3, <2>4, PlusOne
  <2>6. count'[k] = uint64(Cardinality(Added(k)') - Cardinality(Taken(k)'))
    BY <1>2, <1>7, <1>8, <2>2, <2>5 DEF t
  <2>7. \A l \in Caches : l # k =>
          count'[l] = uint64(Cardinality(Added(l)') - Cardinality(Taken(l)'))
    BY <1>4, <1>7 DEF CounterInv, CountSound
  <2> QED BY <2>6, <2>7 DEF CountSound, uint64
<1> QED BY <1>6, <1>9 DEF CounterInv

\* One connection less.
LEMMA CounterDown ==
    ASSUME CounterInv, NEW c \in Conns, Decrement(c)
    PROVE  CounterInv'
<1>0. PICK k \in Caches : k = cacheOf[c]
  BY DEF CounterInv, TypeOK
<1>1. /\ dec[c] = "spawned" /\ dec' = [dec EXCEPT ![c] = "added"]
      /\ count' = [count EXCEPT ![k] = (count[k] + (Modulus - 1)) % Modulus]
      /\ got' = [got EXCEPT ![c].dec = count'[k]]
      /\ UNCHANGED <<cacheOf, conn, inc, gauge>>
  BY <1>0 DEF Decrement
<1>2. k \in Caches /\ count[k] \in 0..Modulus - 1 /\ Modulus \in Nat /\ Modulus > 0
  BY ModulusAssumption DEF CounterInv, TypeOK
<1>3. (count[k] + (Modulus - 1)) % Modulus \in 0..Modulus - 1
  BY <1>2
<1>4. /\ count' \in [Caches -> 0..Modulus - 1]
      /\ count'[k] = (count[k] + (Modulus - 1)) % Modulus
      /\ \A l \in Caches : l # k => count'[l] = count[l]
  BY <1>1, <1>2, <1>3 DEF CounterInv, TypeOK
<1>5. got' \in [Conns -> [inc : 0..Modulus - 1, dec : 0..Modulus - 1]]
  BY <1>1, <1>2, <1>4 DEF CounterInv, TypeOK
<1>6. TypeOK' /\ GoroutinesSound'
  BY <1>1, <1>4, <1>5 DEF CounterInv, TypeOK, GoroutinesSound
<1>7. \A l \in Caches : /\ Added(l)' = Added(l)
                        /\ l # k => Taken(l)' = Taken(l)
  BY <1>0, <1>1 DEF Added, Taken, CounterInv, TypeOK
<1>8. Taken(k)' = Taken(k) \cup {c} /\ c \notin Taken(k)
  BY <1>0, <1>1 DEF Taken, CounterInv, TypeOK
<1>9. CountSound'
  <2> DEFINE a == Cardinality(Added(k))
             t == Cardinality(Taken(k))
  <2>1. /\ a \in Nat /\ t \in Nat /\ 2 * a < Modulus /\ 2 * t < Modulus
        /\ IsFiniteSet(Taken(k))
    BY <1>2, DifferenceFits
  <2>2. Cardinality(Taken(k) \cup {c}) = t + 1 /\ 2 * (t + 1) < Modulus
    <3>1. Cardinality(Taken(k) \cup {c}) = t + 1
      BY <1>8, <2>1, FS_AddElement
    <3>2. Taken(k) \cup {c} \in SUBSET Conns
      BY DEF Taken
    <3> QED BY <3>1, <3>2, ConnsFinite
  <2>3. count[k] = uint64(a - t)
    BY <1>2 DEF CounterInv, CountSound
  <2> HIDE DEF a, t
  <2>4. a - t \in Int /\ -Modulus < a - t - 1 /\ a - t < Modulus /\ (a - t) - 1 = a - (t + 1)
    BY <1>2, <2>1, <2>2
  <2>5. count'[k] = uint64(a - (t + 1))
    BY <1>4, <2>3, <2>4, MinusOne
  <2>6. count'[k] = uint64(Cardinality(Added(k)') - Cardinality(Taken(k)'))
    BY <1>2, <1>7, <1>8, <2>2, <2>5 DEF a
  <2>7. \A l \in Caches : l # k =>
          count'[l] = uint64(Cardinality(Added(l)') - Cardinality(Taken(l)'))
    BY <1>4, <1>7 DEF CounterInv, CountSound
  <2> QED BY <2>6, <2>7 DEF CountSound, uint64
<1> QED BY <1>6, <1>9 DEF CounterInv

LEMMA CounterNext == CounterInv /\ [Next]_vars => CounterInv'
<1> SUFFICES ASSUME CounterInv, [Next]_vars PROVE CounterInv'
  OBVIOUS
<1>1. CASE UNCHANGED vars
  BY <1>1 DEF vars, CounterInv, TypeOK, CountSound, GoroutinesSound, Added, Taken, uint64
<1> QED BY <1>1, CounterQuiet, CounterUp, CounterDown DEF Next

\* When no goroutine is under way, those counted are those made, less those
\* closed.
LEMMA CounterRight == CounterInv => CounterSettles
<1> SUFFICES ASSUME CounterInv, Settled, NEW k \in Caches
             PROVE  count[k] = Cardinality({c \in Conns : cacheOf[c] = k /\ conn[c] \in {"open", "broken"}})
  BY DEF CounterSettles
<1> DEFINE O == {c \in Conns : cacheOf[c] = k /\ conn[c] \in {"open", "broken"}}
<1>1. /\ Added(k) = O \cup Taken(k) /\ O \cap Taken(k) = {}
      /\ O \in SUBSET Conns /\ Taken(k) \in SUBSET Conns
  BY DEF CounterInv, TypeOK, GoroutinesSound, Settled, Added, Taken
<1> HIDE DEF O
<1>2. IsFiniteSet(O) /\ IsFiniteSet(Taken(k)) /\ Cardinality(O) \in Nat /\ Cardinality(Taken(k)) \in Nat
  BY <1>1, ConnsFinite
<1>3. Cardinality(Added(k)) = Cardinality(O) + Cardinality(Taken(k)) - Cardinality(O \cap Taken(k))
  BY <1>1, <1>2, FS_Union
<1>4. Cardinality(Added(k)) - Cardinality(Taken(k)) = Cardinality(O)
  <2>1. Cardinality(O \cap Taken(k)) = 0
    BY <1>1, FS_EmptySet
  <2> QED BY <1>2, <1>3, <2>1
<1>5. count[k] = Cardinality(O)
  BY <1>2, <1>4 DEF CounterInv, CountSound, uint64
<1> QED BY <1>5 DEF O

\* The counter of a cache settles at the number of its connections that were
\* not closed without an error, in whatever order the goroutines ran.
THEOREM CounterIsRight == Spec => []CounterSettles
  BY CounterInit, CounterNext, CounterRight, PTL DEF Spec

\* Telemetry's steps are steps of the open-connections metric.
THEOREM TelemetryCounts == TelSpec => Spec
<1>1. TelInit => Init
  BY DEF TelInit
<1>2. [TelNext]_allVars => [Next]_vars
  <2>1. UNCHANGED allVars => UNCHANGED vars
    BY DEF allVars
  <2>2. ASSUME NEW d \in Dials,
               \/ Refuse(d) \/ Start(d) \/ Parse(d) \/ Info(d) \/ Certificate(d) \/ Connect(d)
               \/ \E m \in Bytes, n \in Sizes, failed \in BOOLEAN : ReadOrWrite(d, m, n, failed)
               \/ Count(d) \/ RecordDialLatency(d)
        PROVE  [Next]_vars
    BY <2>2 DEF Refuse, Start, Parse, Info, Certificate, Connect, ReadOrWrite, Count,
       RecordDialLatency, Next, Dials
  <2>3. ASSUME NEW f \in Refreshes, StartRefresh(f) \/ RecordRefreshResult(f)
        PROVE  UNCHANGED vars
    BY <2>3 DEF StartRefresh, RecordRefreshResult
  <2>4. DialerClose => UNCHANGED vars
    BY DEF DialerClose
  <2>5. ASSUME NEW x \in BagToSet(pending), Record(x)
        PROVE  UNCHANGED vars
    BY <2>5 DEF Record
  <2> QED BY <2>1, <2>2, <2>3, <2>4, <2>5 DEF TelNext
<1> QED BY <1>1, <1>2, PTL DEF TelSpec, Spec

-----------------------------------------------------------------------------
(* The spans                                                               *)

Points == {"start", "refused", "parse", "info", "certificate", "connect", "connected", "failed"}

SpanTypes ==
    /\ pc \in [Dials -> Points]
    /\ span \in [Dials -> [Spans -> {"none", "open", "ok", "err"}]]

\* What the spans of a Dial are at each point: <<Dial, InstanceInfo, Connect>>.
SpansAt(p) ==
    CASE p \in {"start", "refused"} -> {<<"none", "none", "none">>}
      [] p = "parse" -> {<<"open", "none", "none">>}
      [] p = "info" -> {<<"open", "open", "none">>}
      [] p = "certificate" -> {<<"open", "ok", "none">>}
      [] p = "connect" -> {<<"open", "ok", "open">>}
      [] p = "connected" -> {<<"ok", "ok", "ok">>}
      [] p = "failed" -> {<<"err", "none", "none">>, <<"err", "err", "none">>,
                          <<"err", "ok", "none">>, <<"err", "ok", "err">>}

SpansSound ==
    \A d \in Dials :
        <<span[d]["Dial"], span[d]["InstanceInfo"], span[d]["Connect"]>> \in SpansAt(pc[d])

\* The inductive invariant.
SpanInv == SpanTypes /\ SpansSound

LEMMA SpanInit == TelInit => SpanInv
  BY DEF TelInit, SpanInv, SpanTypes, SpansSound, SpansAt, Spans, Points

\* A step of Dial d from point p to point q that leaves it the spans t.
LEMMA SpanStep ==
    ASSUME SpanInv, NEW d \in Dials, NEW q \in Points,
           NEW t \in [Spans -> {"none", "open", "ok", "err"}],
           pc' = [pc EXCEPT ![d] = q],
           span' = [span EXCEPT ![d] = t],
           <<t["Dial"], t["InstanceInfo"], t["Connect"]>> \in SpansAt(q)
    PROVE  SpanInv'
<1>1. /\ pc' \in [Dials -> Points] /\ pc'[d] = q
      /\ \A e \in Dials : e # d => pc'[e] = pc[e]
  BY DEF SpanInv, SpanTypes
<1>2. /\ span' \in [Dials -> [Spans -> {"none", "open", "ok", "err"}]] /\ span'[d] = t
      /\ \A e \in Dials : e # d => span'[e] = span[e]
  BY DEF SpanInv, SpanTypes
<1>3. SpansSound'
  BY <1>1, <1>2 DEF SpanInv, SpansSound
<1> QED BY <1>1, <1>2, <1>3 DEF SpanInv, SpanTypes

\* Dial d returns and ends the spans S.
LEMMA SpanReturn ==
    ASSUME SpanInv, NEW d \in Dials, NEW q \in {"failed", "connected"}, NEW S \in SUBSET Spans,
           return(d, q, S),
           \/ pc[d] = "parse" /\ q = "failed" /\ S = {"Dial"}
           \/ pc[d] = "info" /\ q = "failed" /\ S = {"InstanceInfo", "Dial"}
           \/ pc[d] = "certificate" /\ q = "failed" /\ S = {"Dial"}
           \/ pc[d] = "connect" /\ S = {"Connect", "Dial"}
    PROVE  SpanInv'
<1> DEFINE t == [s \in Spans |-> IF s \notin S THEN span[d][s] ELSE IF q = "failed" THEN "err" ELSE "ok"]
<1>1. pc' = [pc EXCEPT ![d] = q] /\ span' = [span EXCEPT ![d] = t] /\ q \in Points
  BY DEF return, Points
<1>2. t \in [Spans -> {"none", "open", "ok", "err"}]
  BY DEF SpanInv, SpanTypes
<1>3. <<span[d]["Dial"], span[d]["InstanceInfo"], span[d]["Connect"]>> \in SpansAt(pc[d])
  BY DEF SpanInv, SpansSound
<1>4. <<t["Dial"], t["InstanceInfo"], t["Connect"]>> \in SpansAt(q)
  BY <1>3 DEF SpansAt, Spans
<1> HIDE DEF t
<1> QED BY <1>1, <1>2, <1>4, SpanStep

\* Dial d goes on to q with span s changed to v.
LEMMA SpanGoesOn ==
    ASSUME SpanInv, NEW d \in Dials, NEW q \in Points, NEW s \in Spans, NEW v \in {"open", "ok"},
           pc' = [pc EXCEPT ![d] = q], span' = [span EXCEPT ![d][s] = v],
           \/ pc[d] = "start" /\ q = "parse" /\ s = "Dial" /\ v = "open"
           \/ pc[d] = "parse" /\ q = "info" /\ s = "InstanceInfo" /\ v = "open"
           \/ pc[d] = "info" /\ q = "certificate" /\ s = "InstanceInfo" /\ v = "ok"
           \/ pc[d] = "certificate" /\ q = "connect" /\ s = "Connect" /\ v = "open"
    PROVE  SpanInv'
<1> DEFINE t == [span[d] EXCEPT ![s] = v]
<1>1. span' = [span EXCEPT ![d] = t]
  BY DEF SpanInv, SpanTypes
<1>2. t \in [Spans -> {"none", "open", "ok", "err"}]
  BY DEF SpanInv, SpanTypes
<1>3. <<span[d]["Dial"], span[d]["InstanceInfo"], span[d]["Connect"]>> \in SpansAt(pc[d])
  BY DEF SpanInv, SpansSound
<1>4. <<t["Dial"], t["InstanceInfo"], t["Connect"]>> \in SpansAt(q)
  <2>1. span[d] \in [Spans -> {"none", "open", "ok", "err"}]
    BY DEF SpanInv, SpanTypes
  <2> QED BY <1>3, <2>1 DEF SpansAt, Spans
<1> HIDE DEF t
<1> QED BY <1>1, <1>2, <1>4, SpanStep

LEMMA SpanNext == SpanInv /\ [TelNext]_allVars => SpanInv'
<1> SUFFICES ASSUME SpanInv, [TelNext]_allVars PROVE SpanInv'
  OBVIOUS
<1>1. CASE UNCHANGED <<pc, span>>
  BY <1>1 DEF SpanInv, SpanTypes, SpansSound
<1>2. ASSUME NEW d \in Dials, Refuse(d)
      PROVE  SpanInv'
  <2>1. pc[d] = "start" /\ pc' = [pc EXCEPT ![d] = "refused"] /\ span' = [span EXCEPT ![d] = span[d]]
    BY <1>2 DEF Refuse, SpanInv, SpanTypes
  <2>2. span[d] \in [Spans -> {"none", "open", "ok", "err"}] /\ "refused" \in Points
    BY DEF SpanInv, SpanTypes, Points
  <2>3. <<span[d]["Dial"], span[d]["InstanceInfo"], span[d]["Connect"]>> \in SpansAt("refused")
    BY <2>1 DEF SpanInv, SpansSound, SpansAt
  <2> QED BY <2>1, <2>2, <2>3, SpanStep
<1>3. ASSUME NEW d \in Dials, Start(d) \/ Parse(d) \/ Info(d) \/ Certificate(d) \/ Connect(d)
      PROVE  SpanInv'
  <2>1. /\ {"parse", "info", "certificate", "connect"} \subseteq Points
        /\ Spans = {"Dial", "InstanceInfo", "Connect"}
    BY DEF Points, Spans
  <2>2. CASE Start(d)
    BY <2>1, <2>2, SpanGoesOn DEF Start, StartSpan
  <2>3. CASE Parse(d)
    BY <2>1, <2>3, SpanGoesOn, SpanReturn DEF Parse, StartSpan
  <2>4. CASE Info(d)
    BY <2>1, <2>4, SpanGoesOn, SpanReturn DEF Info
  <2>5. CASE Certificate(d)
    BY <2>1, <2>5, SpanGoesOn, SpanReturn DEF Certificate, StartSpan
  <2>6. CASE Connect(d)
    BY <2>1, <2>6, SpanReturn DEF Connect
  <2> QED BY <1>3, <2>2, <2>3, <2>4, <2>5, <2>6
<1>4. UNCHANGED allVars => UNCHANGED <<pc, span>>
  BY DEF allVars, telVars
<1>5. ASSUME NEW d \in Dials,
             \/ \E m \in Bytes, n \in Sizes, failed \in BOOLEAN : ReadOrWrite(d, m, n, failed)
             \/ Count(d) \/ RecordDialLatency(d)
      PROVE  UNCHANGED <<pc, span>>
  BY <1>5 DEF ReadOrWrite, Count, RecordDialLatency, telVars
<1>6. ASSUME NEW f \in Refreshes, StartRefresh(f) \/ RecordRefreshResult(f)
      PROVE  UNCHANGED <<pc, span>>
  BY <1>6 DEF StartRefresh, RecordRefreshResult
<1>7. DialerClose => UNCHANGED <<pc, span>>
  BY DEF DialerClose
<1>8. ASSUME NEW x \in BagToSet(pending), Record(x)
      PROVE  UNCHANGED <<pc, span>>
  BY <1>8 DEF Record
<1> QED BY <1>1, <1>2, <1>3, <1>4, <1>5, <1>6, <1>7, <1>8 DEF TelNext

\* A Dial that has returned has ended every span it started, with the outcome
\* of the step it stands for, on every path through Dial.
THEOREM SpansAreEnded == TelSpec => []SpansEnd
<1>1. SpanInv => SpansEnd
  <2> SUFFICES ASSUME SpanInv, NEW d \in Dials, Returned(d)
               PROVE  /\ \A s \in Spans : span[d][s] # "open"
                      /\ pc[d] # "refused" => span[d]["Dial"] = IF pc[d] = "failed" THEN "err" ELSE "ok"
                      /\ ~(span[d]["InstanceInfo"] = "err" /\ span[d]["Connect"] # "none")
                      /\ pc[d] = "connected" => \A s \in Spans : span[d][s] = "ok"
    BY DEF SpansEnd
  <2>1. <<span[d]["Dial"], span[d]["InstanceInfo"], span[d]["Connect"]>> \in SpansAt(pc[d])
    BY DEF SpanInv, SpansSound
  <2> QED BY <2>1 DEF SpansAt, Returned, Spans
<1> QED BY <1>1, SpanInit, SpanNext, PTL DEF TelSpec

-----------------------------------------------------------------------------
(* The sum over a bag                                                      *)

\* How often bag b has y.
Copies(y, b) == IF y \in DOMAIN b THEN b[y] ELSE 0

\* q lists the N members of bag b, each as often as b has it, and p[i] is the
\* sum of the weights w of the first i; s is the sum of them all.  (A sum by
\* recursion over the bag would need induction; a listing can be amended.)
Lists(b, I, w, s, N, q, p) ==
    /\ p[0] = 0 /\ p[N] = s
    /\ \A i \in 1..N : p[i] = p[i - 1] + w[q[i]]
    /\ \A y \in I : Cardinality({i \in 1..N : q[i] = y}) = Copies(y, b)

IsSum(b, I, w, s) ==
    \E N \in Nat : \E q \in [1..N -> I], p \in [0..N -> Int] : Lists(b, I, w, s, N, q, p)

\* The places of a member in a listing.
LEMMA PlacesFinite ==
    ASSUME NEW N \in Nat, NEW S \in SUBSET (1..N)
    PROVE  IsFiniteSet(S) /\ Cardinality(S) \in Nat
<1>1. 1 \in Int /\ N \in Int
  OBVIOUS
<1>2. IsFiniteSet(1..N)
  BY <1>1, FS_Interval
<1>3. IsFiniteSet(S)
  BY <1>2, FS_Subset
<1> QED BY <1>3, FS_CardinalityType

\* One more, or one less, copy of x.
LEMMA CopiesAdd ==
    ASSUME NEW b, IsABag(b), NEW x
    PROVE  /\ IsABag(b (+) SetToBag({x}))
           /\ DOMAIN (b (+) SetToBag({x})) = DOMAIN b \cup {x}
           /\ \A y : Copies(y, b (+) SetToBag({x})) = Copies(y, b) + (IF y = x THEN 1 ELSE 0)
  BY DEF IsABag, SetToBag, Copies, (+)

LEMMA CopiesRemove ==
    ASSUME NEW b, IsABag(b), NEW x \in DOMAIN b
    PROVE  /\ IsABag(b (-) SetToBag({x}))
           /\ DOMAIN (b (-) SetToBag({x})) \subseteq DOMAIN b
           /\ \A y : Copies(y, b (-) SetToBag({x})) = Copies(y, b) - (IF y = x THEN 1 ELSE 0)
  BY DEF IsABag, SetToBag, Copies, (-)

\* The sum over the empty bag is zero.
LEMMA SumEmpty ==
    ASSUME NEW I, NEW w, NEW s
    PROVE  IsSum(EmptyBag, I, w, s) <=> s = 0
<1>1. \A y : Copies(y, EmptyBag) = 0
  BY DEF Copies, EmptyBag, SetToBag
<1>2. ASSUME IsSum(EmptyBag, I, w, s)
      PROVE  s = 0
  <2>0. PICK N \in Nat : \E q \in [1..N -> I], p \in [0..N -> Int] : Lists(EmptyBag, I, w, s, N, q, p)
    BY <1>2 DEF IsSum
  <2>1. PICK q \in [1..N -> I], p \in [0..N -> Int] : Lists(EmptyBag, I, w, s, N, q, p)
    BY <2>0
  <2>2. CASE N = 0
    BY <2>1, <2>2 DEF Lists
  <2>3. CASE N # 0
    <3> DEFINE S == {i \in 1..N : q[i] = q[1]}
    <3>1. q[1] \in I /\ 1 \in S /\ S \in SUBSET (1..N)
      BY <2>3
    <3>2. Cardinality(S) = 0
      BY <1>1, <2>1, <3>1 DEF Lists
    <3>3. IsFiniteSet(S)
      BY <3>1, PlacesFinite
    <3> QED BY <3>1, <3>2, <3>3, FS_EmptySet
  <2> QED BY <2>2, <2>3
<1>3. ASSUME s = 0
      PROVE  IsSum(EmptyBag, I, w, s)
  <2> DEFINE q == [i \in 1..0 |-> 0]
             p == [i \in 0..0 |-> 0]
  <2>1. q \in [1..0 -> I] /\ p \in [0..0 -> Int]
    OBVIOUS
  <2>2. ASSUME NEW y \in I
        PROVE  Cardinality({i \in 1..0 : q[i] = y}) = Copies(y, EmptyBag)
    <3>1. {i \in 1..0 : q[i] = y} = {}
      OBVIOUS
    <3> QED BY <1>1, <3>1, FS_EmptySet
  <2>3. Lists(EmptyBag, I, w, s, 0, q, p)
    BY <1>3, <2>2 DEF Lists
  <2> QED BY <2>1, <2>3 DEF IsSum
<1> QED BY <1>2, <1>3

\* A new member is listed last.
LEMMA SumAdd ==
    ASSUME NEW I, NEW w \in [I -> Int], NEW b, IsABag(b), NEW x \in I, NEW s, IsSum(b, I, w, s)
    PROVE  IsSum(b (+) SetToBag({x}), I, w, s + w[x])
<1>0. PICK N \in Nat : \E q \in [1..N -> I], p \in [0..N -> Int] : Lists(b, I, w, s, N, q, p)
  BY DEF IsSum
<1>1. PICK q \in [1..N -> I], p \in [0..N -> Int] : Lists(b, I, w, s, N, q, p)
  BY <1>0
<1> DEFINE M == N + 1
           c == b (+) SetToBag({x})
           r == [i \in 1..M |-> IF i = M THEN x ELSE q[i]]
           t == [i \in 0..M |-> IF i = M THEN s + w[x] ELSE p[i]]
<1>2. s \in Int /\ p[N] = s /\ w[x] \in Int
  BY <1>1 DEF Lists
<1>3. M \in Nat /\ r \in [1..M -> I] /\ t \in [0..M -> Int]
  BY <1>2
<1>4. t[0] = 0 /\ t[M] = s + w[x]
  BY <1>1 DEF Lists
<1>5. ASSUME NEW i \in 1..M
      PROVE  t[i] = t[i - 1] + w[r[i]]
  <2>1. CASE i = M
    BY <1>2, <2>1
  <2>2. CASE i # M
    <3>1. i \in 1..N /\ i - 1 \in 0..N /\ i - 1 # M
      BY <2>2
    <3> QED BY <1>1, <2>2, <3>1 DEF Lists
  <2> QED BY <2>1, <2>2
<1>6. ASSUME NEW y \in I
      PROVE  Cardinality({i \in 1..M : r[i] = y}) = Copies(y, c)
  <2> DEFINE S == {i \in 1..N : q[i] = y}
             T == {i \in 1..M : r[i] = y}
  <2>1. S \in SUBSET (1..N) /\ M \notin S /\ Cardinality(S) = Copies(y, b)
    BY <1>1 DEF Lists
  <2>2. y = x => T = S \cup {M}
    OBVIOUS
  <2>3. y # x => T = S
    OBVIOUS
  <2>4. Copies(y, c) = Copies(y, b) + (IF y = x THEN 1 ELSE 0)
    BY CopiesAdd
  <2> HIDE DEF S, T, M, c
  <2>5. IsFiniteSet(S) /\ Cardinality(S) \in Nat
    BY <2>1, PlacesFinite
  <2>6. Cardinality(S \cup {M}) = Cardinality(S) + 1
    BY <2>1, <2>5, FS_AddElement
  <2>7. CASE y = x
    <3>1. Cardinality(T) = Copies(y, c)
      BY <2>1, <2>2, <2>4, <2>6, <2>7
    <3> QED BY <3>1 DEF T
  <2>8. CASE y # x
    <3>1. Copies(y, b) \in Nat
      BY <2>1, <2>5
    <3>2. Cardinality(T) = Copies(y, c)
      BY <2>1, <2>3, <2>4, <2>8, <3>1
    <3> QED BY <3>2 DEF T
  <2> QED BY <2>7, <2>8
<1> HIDE DEF M, c, r, t
<1>7. Lists(c, I, w, s + w[x], M, r, t)
  BY <1>4, <1>5, <1>6 DEF Lists
<1>8. IsSum(c, I, w, s + w[x])
  BY <1>3, <1>7 DEF IsSum
<1> QED BY <1>8 DEF c

\* In place of the member that goes comes the last one.
LEMMA SumRemove ==
    ASSUME NEW I, NEW w \in [I -> Int], NEW b, IsABag(b), NEW x \in I, x \in DOMAIN b,
           NEW s, IsSum(b, I, w, s)
    PROVE  IsSum(b (-) SetToBag({x}), I, w, s - w[x])
<1>0. PICK N \in Nat : \E q \in [1..N -> I], p \in [0..N -> Int] : Lists(b, I, w, s, N, q, p)
  BY DEF IsSum
<1>1. PICK q \in [1..N -> I], p \in [0..N -> Int] : Lists(b, I, w, s, N, q, p)
  BY <1>0
<1>2. PICK k \in 1..N : q[k] = x
  <2>1. Copies(x, b) # 0
    BY DEF Copies, IsABag
  <2>2. Cardinality({i \in 1..N : q[i] = x}) # 0
    BY <1>1, <2>1 DEF Lists
  <2>3. {i \in 1..N : q[i] = x} # {}
    BY <2>2, FS_EmptySet
  <2> QED BY <2>3
<1> DEFINE M == N - 1
           z == q[N]
           c == b (-) SetToBag({x})
           r == [i \in 1..M |-> IF i = k THEN z ELSE q[i]]
           t == [i \in 0..M |-> IF i < k THEN p[i] ELSE p[i] - w[x] + w[z]]
<1>3. N > 0 /\ M \in Nat /\ z \in I /\ w[x] \in Int /\ w[z] \in Int
  BY <1>2
<1>4. r \in [1..M -> I] /\ t \in [0..M -> Int]
  BY <1>3
<1>5. p[N] = s /\ p[N] = p[M] + w[z] /\ p[0] = 0 /\ s \in Int /\ p[M] \in Int
  BY <1>1, <1>3 DEF Lists
<1>6. t[0] = 0 /\ t[M] = s - w[x]
  <2>1. t[0] = 0
    BY <1>2, <1>3, <1>5
  <2>2. CASE k = N
    BY <1>2, <1>3, <1>5, <2>2
  <2>3. CASE k # N
    BY <1>2, <1>3, <1>5, <2>3
  <2> QED BY <2>1, <2>2, <2>3
<1>7. ASSUME NEW i \in 1..M
      PROVE  t[i] = t[i - 1] + w[r[i]]
  <2>1. /\ i \in 1..N /\ i - 1 \in 0..M /\ i \in 0..M
        /\ p[i] = p[i - 1] + w[q[i]] /\ p[i] \in Int /\ p[i - 1] \in Int /\ w[q[i]] \in Int
    BY <1>1 DEF Lists
  <2>2. CASE i < k
    BY <1>3, <2>1, <2>2
  <2>3. CASE i = k
    BY <1>2, <1>3, <2>1, <2>3
  <2>4. CASE i > k
    BY <1>3, <2>1, <2>4
  <2> QED BY <2>2, <2>3, <2>4
<1>8. ASSUME NEW y \in I
      PROVE  Cardinality({i \in 1..M : r[i] = y}) = Copies(y, c)
  <2> DEFINE S == {i \in 1..N : q[i] = y}
             T == {i \in 1..M : r[i] = y}
  <2>1. S \in SUBSET (1..N) /\ Cardinality(S) = Copies(y, b)
    BY <1>1 DEF Lists
  <2>2. Copies(y, c) = Copies(y, b) - (IF y = x THEN 1 ELSE 0)
    BY CopiesRemove
  <2>3. /\ N \in S <=> y = z
        /\ k \in S <=> y = x
        /\ N \notin T
        /\ k \in T <=> k # N /\ y = z
    BY <1>2, <1>3
  <2>4. \A i \in 1..N : i # k /\ i # N => (i \in S <=> i \in T)
    BY <1>2, <1>3
  <2>5. T \in SUBSET (1..N) /\ N \in 1..N
    BY <1>3
  <2> HIDE DEF S, T, M, c, r, t, z
  <2>6. IsFiniteSet(S) /\ Cardinality(S) \in Nat
    BY <2>1, PlacesFinite
  <2>7. CASE y = x
    <3>1. \E j \in S : T = S \ {j}
      <4>1. CASE y = z
        <5>1. T = S \ {N}
          BY <1>2, <2>1, <2>3, <2>4, <2>5, <2>7, <4>1
        <5> QED BY <2>3, <4>1, <5>1
      <4>2. CASE y # z
        <5>1. T = S \ {k}
          BY <1>2, <2>1, <2>3, <2>4, <2>5, <2>7, <4>2
        <5> QED BY <2>3, <2>7, <5>1
      <4> QED BY <4>1, <4>2
    <3>2. Cardinality(T) = Cardinality(S) - 1
      BY <2>6, <3>1, FS_RemoveElement
    <3>3. Cardinality(T) = Copies(y, c)
      BY <2>1, <2>2, <2>7, <3>2
    <3> QED BY <3>3 DEF T
  <2>8. CASE y # x
    <3>0. k = N => y # z
      BY <1>2, <2>8 DEF z
    <3>1. CASE y = z
      <4>1. T = (S \ {N}) \cup {k} /\ N \in S /\ k \notin S
        BY <1>2, <2>1, <2>3, <2>4, <2>5, <2>8, <3>0, <3>1
      <4>2. IsFiniteSet(S \ {N}) /\ Cardinality(S \ {N}) = Cardinality(S) - 1
        BY <2>6, <4>1, FS_RemoveElement
      <4>3. Cardinality((S \ {N}) \cup {k}) = Cardinality(S \ {N}) + 1
        BY <4>1, <4>2, FS_AddElement
      <4>4. Cardinality(T) = Copies(y, c)
        BY <2>1, <2>2, <2>6, <2>8, <4>1, <4>2, <4>3
      <4> QED BY <4>4 DEF T
    <3>2. CASE y # z
      <4>0. \A i \in 1..N : i \in S <=> i \in T
        BY <2>3, <2>4, <2>8, <3>2
      <4>1. T = S
        BY <2>1, <2>5, <4>0
      <4>2. Copies(y, b) \in Nat
        BY <2>1, <2>6
      <4>3. Cardinality(T) = Copies(y, c)
        BY <2>1, <2>2, <2>8, <4>1, <4>2
      <4> QED BY <4>3 DEF T
    <3> QED BY <3>1, <3>2
  <2> QED BY <2>7, <2>8
<1> HIDE DEF M, c, r, t
<1>9. Lists(c, I, w, s - w[x], M, r, t)
  BY <1>6, <1>7, <1>8 DEF Lists
<1>10. IsSum(c, I, w, s - w[x])
  BY <1>3, <1>4, <1>9 DEF IsSum
<1> QED BY <1>10 DEF c

-----------------------------------------------------------------------------
(* The reports                                                             *)

Item == [measure : Measures, value : Nat]

\* The weight of an item in the sum of measure m.
Weight(m) == [x \in Item |-> IF x.measure = m THEN x.value ELSE 0]

\* What was to be reported under measure m so far; a latency is not handed to
\* a goroutine of its own, so it is due when it is recorded.
Events(m) ==
    CASE m = "dial_failure" -> {d \in Dials : pc[d] = "failed"}
      [] m = "latency" -> {d \in Dials : inc[d] = "over"}
      [] m = "refresh_success" -> {f \in Refreshes : refresh[f] = "ok"}
      [] m = "refresh_failure" -> {f \in Refreshes : refresh[f] = "err"}

Due(m) == IF m \in Bytes THEN moved[m] ELSE Cardinality(Events(m))

ReportTypes ==
    /\ refresh \in [Refreshes -> {"idle", "running", "ok", "err"}]
    /\ moved \in [Bytes -> Nat]
    /\ total \in [Measures -> Int]
    /\ IsABag(pending) /\ DOMAIN pending \subseteq Item

\* A connection is there when its Dial has returned it.
ConnSound == \A d \in Dials : conn[d] # "dialing" <=> pc[d] = "connected"

\* The view of a measure, and what the goroutines are about to add to it, make
\* up what is due: of bytes perhaps less, those that came with an error.
Balanced(m, n) == IF m \in Bytes THEN n <= Due(m) ELSE n = Due(m)

ReportsSound ==
    \A m \in Measures : \E s \in Int : IsSum(pending, Item, Weight(m), s) /\ Balanced(m, total[m] + s)

\* The inductive invariant, relative to CounterInv and SpanInv.
ReportInv == ReportTypes /\ ConnSound /\ ReportsSound

LEMMA WeightType ==
    ASSUME NEW m
    PROVE  Weight(m) \in [Item -> Int]
  BY DEF Weight, Item

LEMMA EventsFinite ==
    ASSUME NEW m \in Measures \ Bytes
    PROVE  IsFiniteSet(Events(m)) /\ Cardinality(Events(m)) \in Nat
<1>1. \/ Events(m) \in SUBSET Dials
      \/ Events(m) \in SUBSET Refreshes
  BY DEF Events, Measures
<1>2. IsFiniteSet(Events(m))
  BY <1>1, FS_Subset, ConnsAssumption, RefreshesAssumption DEF Dials
<1> QED BY <1>2, FS_CardinalityType

LEMMA DueType ==
    ASSUME ReportTypes, NEW m \in Measures
    PROVE  Due(m) \in Nat
<1>1. CASE m \in Bytes
  BY <1>1 DEF Due, ReportTypes
<1>2. CASE m \notin Bytes
  BY <1>2, EventsFinite DEF Due
<1> QED BY <1>1, <1>2

\* A measure m with value v is handed to a goroutine when v more is due.
LEMMA ReportGo ==
    ASSUME ReportTypes, ReportsSound, NEW m \in Measures, NEW v \in Nat, Go(m, v), total' = total,
           Due(m)' = Due(m) + v, \A n \in Measures \ {m} : Due(n)' = Due(n)
    PROVE  (IsABag(pending) /\ DOMAIN pending \subseteq Item)' /\ ReportsSound'
<1> DEFINE x == [measure |-> m, value |-> v]
<1>1. x \in Item /\ pending' = pending (+) SetToBag({x}) /\ x.measure = m /\ x.value = v
  BY DEF Item, Go
<1> HIDE DEF x
<1>2. IsABag(pending') /\ DOMAIN pending' \subseteq Item
  <2>1. IsABag(pending) /\ DOMAIN pending \subseteq Item
    BY DEF ReportTypes
  <2>2. /\ IsABag(pending (+) SetToBag({x}))
        /\ DOMAIN (pending (+) SetToBag({x})) = DOMAIN pending \cup {x}
    BY <2>1, CopiesAdd
  <2> QED BY <1>1, <2>1, <2>2
<1>3. ASSUME NEW n \in Measures
      PROVE  \E s \in Int : IsSum(pending', Item, Weight(n), s) /\ Balanced(n, total[n] + s)'
  <2>1. PICK s \in Int : IsSum(pending, Item, Weight(n), s) /\ Balanced(n, total[n] + s)
    BY DEF ReportsSound
  <2>2. Weight(n)[x] = IF n = m THEN v ELSE 0
    BY <1>1 DEF Weight
  <2>3. IsSum(pending', Item, Weight(n), s + Weight(n)[x])
    BY <1>1, <2>1, WeightType, SumAdd DEF ReportTypes
  <2>4. Due(n)' = Due(n) + Weight(n)[x] /\ Due(n) \in Nat /\ total[n] \in Int /\ Weight(n)[x] \in Int
    <3>1. Due(n) \in Nat /\ total[n] \in Int
      BY DueType DEF ReportTypes
    <3> QED BY <2>2, <3>1
  <2> DEFINE a == s + Weight(n)[x]
  <2>5. a \in Int /\ Balanced(n, total[n] + a)'
    <3> DEFINE w == Weight(n)[x]
               e == Due(n)
               g == total[n]
    <3>1. /\ w \in Int /\ e \in Nat /\ g \in Int
          /\ Due(n)' = e + w /\ g' = g
          /\ IF n \in Bytes THEN g + s <= e ELSE g + s = e
      BY <2>1, <2>4 DEF Balanced
    <3> HIDE DEF w, e, g
    <3>2. IF n \in Bytes THEN g + (s + w) <= e + w ELSE g + (s + w) = e + w
      BY <3>1
    <3> QED BY <3>1, <3>2 DEF w, g, Balanced
  <2> HIDE DEF a
  <2>6. IsSum(pending', Item, Weight(n), a)
    BY <2>3 DEF a
  <2> QED BY <2>5, <2>6
<1> QED BY <1>2, <1>3 DEF ReportsSound, Weight, Item

\* A goroutine adds what it was handed to the view.
LEMMA ReportRecord ==
    ASSUME ReportTypes, ReportsSound, NEW x \in BagToSet(pending), Record(x),
           \A n \in Measures : Due(n)' = Due(n)
    PROVE  ReportTypes' /\ ReportsSound'
<1>1. x \in DOMAIN pending /\ x \in Item /\ x.measure \in Measures /\ x.value \in Nat
  BY DEF BagToSet, ReportTypes, Item
<1>2. /\ pending' = pending (-) SetToBag({x})
      /\ total' = [total EXCEPT ![x.measure] = @ + x.value]
      /\ UNCHANGED <<refresh, moved>>
  BY DEF Record
<1>3. IsABag(pending') /\ DOMAIN pending' \subseteq Item
  <2>1. IsABag(pending) /\ DOMAIN pending \subseteq Item
    BY DEF ReportTypes
  <2>2. /\ IsABag(pending (-) SetToBag({x}))
        /\ DOMAIN (pending (-) SetToBag({x})) \subseteq DOMAIN pending
    BY <1>1, <2>1, CopiesRemove
  <2> QED BY <1>2, <2>1, <2>2
<1>4. /\ total' \in [Measures -> Int]
      /\ \A n \in Measures : total'[n] = total[n] + Weight(n)[x]
  BY <1>1, <1>2 DEF ReportTypes, Weight
<1>5. ReportTypes'
  BY <1>2, <1>3, <1>4 DEF ReportTypes
<1>6. ASSUME NEW n \in Measures
      PROVE  \E s \in Int : IsSum(pending', Item, Weight(n), s) /\ Balanced(n, total[n] + s)'
  <2>1. PICK s \in Int : IsSum(pending, Item, Weight(n), s) /\ Balanced(n, total[n] + s)
    BY DEF ReportsSound
  <2>2. IsSum(pending', Item, Weight(n), s - Weight(n)[x])
    BY <1>1, <1>2, <2>1, WeightType, SumRemove DEF ReportTypes
  <2>3. Weight(n)[x] \in Int /\ total[n] \in Int
    BY <1>1 DEF ReportTypes, Weight
  <2>4. total'[n] + (s - Weight(n)[x]) = total[n] + s
    BY <1>4, <2>3
  <2> DEFINE a == s - Weight(n)[x]
  <2>5. a \in Int /\ total'[n] + a = total[n] + s
    BY <2>3, <2>4
  <2> HIDE DEF a
  <2>6. IF n \in Bytes THEN total'[n] + a <= Due(n)' ELSE total'[n] + a = Due(n)'
    BY <2>1, <2>5 DEF Balanced
  <2>7. IsSum(pending', Item, Weight(n), a)
    BY <2>2 DEF a
  <2> QED BY <2>5, <2>6, <2>7 DEF Balanced
<1> QED BY <1>5, <1>6 DEF ReportsSound, Weight, Item

\* A step that hands nothing to a goroutine; bytes may be moved.
LEMMA ReportQuiet ==
    ASSUME ReportTypes, ReportsSound, ReportTypes', UNCHANGED <<pending, total>>,
           \A n \in Measures : Due(n)' = Due(n) \/ (n \in Bytes /\ Due(n)' >= Due(n))
    PROVE  ReportsSound'
<1> SUFFICES ASSUME NEW n \in Measures
             PROVE  \E s \in Int : IsSum(pending', Item, Weight(n), s) /\ Balanced(n, total[n] + s)'
  BY DEF ReportsSound, Weight, Item
<1>1. PICK s \in Int : IsSum(pending, Item, Weight(n), s) /\ Balanced(n, total[n] + s)
  BY DEF ReportsSound
<1>2. total[n] \in Int /\ Due(n) \in Nat /\ Due(n)' \in Nat
  <2>1. n \in Bytes => moved'[n] \in Nat
    BY DEF ReportTypes
  <2>2. Due(n)' = Due(n) \/ (n \in Bytes /\ Due(n)' = moved'[n])
    BY DEF Due
  <2>3. total[n] \in Int /\ Due(n) \in Nat
    BY DueType DEF ReportTypes
  <2> QED BY <2>1, <2>2, <2>3
<1>3. IF n \in Bytes THEN total[n] + s <= Due(n)' ELSE total[n] + s = Due(n)'
  <2> DEFINE e == Due(n)'
             g == total[n] + s
  <2>1. e \in Nat /\ g \in Int /\ (e = Due(n) \/ (n \in Bytes /\ e >= Due(n)))
    BY <1>2
  <2>2. IF n \in Bytes THEN g <= Due(n) ELSE g = Due(n)
    BY <1>1 DEF Balanced
  <2> HIDE DEF e, g
  <2>3. IF n \in Bytes THEN g <= e ELSE g = e
    BY <1>2, <2>1, <2>2
  <2> QED BY <2>3 DEF e, g
<1> QED BY <1>1, <1>3 DEF Balanced

\* Something more is due and the view shows it at once.
LEMMA ReportAtOnce ==
    ASSUME ReportTypes, ReportsSound, NEW m \in Measures \ Bytes,
           pending' = pending, total' = [total EXCEPT ![m] = @ + 1],
           Due(m)' = Due(m) + 1, \A n \in Measures \ {m} : Due(n)' = Due(n)
    PROVE  ReportsSound'
<1> SUFFICES ASSUME NEW n \in Measures
             PROVE  \E s \in Int : IsSum(pending', Item, Weight(n), s) /\ Balanced(n, total[n] + s)'
  BY DEF ReportsSound, Weight, Item
<1>1. PICK s \in Int : IsSum(pending, Item, Weight(n), s) /\ Balanced(n, total[n] + s)
  BY DEF ReportsSound
<1>2. total[n] \in Int /\ Due(n) \in Nat
  BY DueType DEF ReportTypes
<1>3. CASE n = m
  <2>1. total'[n] = total[n] + 1
    BY <1>3 DEF ReportTypes
  <2>2. total[n] + s = Due(n) /\ Due(n)' = Due(n) + 1
    BY <1>1, <1>3 DEF Balanced
  <2>3. total'[n] + s = Due(n)'
    BY <1>2, <2>1, <2>2
  <2> QED BY <1>1, <1>3, <2>3 DEF Balanced
<1>4. CASE n # m
  <2>1. total'[n] = total[n] /\ Due(n)' = Due(n)
    BY <1>4 DEF ReportTypes
  <2> QED BY <1>1, <2>1 DEF Balanced
<1> QED BY <1>3, <1>4

\* One more event.
LEMMA EventsGrow ==
    ASSUME NEW m \in Measures \ Bytes, NEW e, e \notin Events(m), Events(m)' = Events(m) \cup {e}
    PROVE  Due(m)' = Due(m) + 1
<1>1. Cardinality(Events(m) \cup {e}) = Cardinality(Events(m)) + 1
  BY EventsFinite, FS_AddElement
<1> QED BY <1>1 DEF Due

LEMMA ReportInit == TelInit => ReportInv
<1> SUFFICES ASSUME TelInit PROVE ReportInv
  OBVIOUS
<1>1. ReportTypes
  BY DEF TelInit, ReportTypes, IsABag, EmptyBag, SetToBag
<1>2. ConnSound
  BY DEF TelInit, Init, ConnSound, Dials
<1>3. ASSUME NEW m \in Measures
      PROVE  total[m] = 0 /\ Due(m) = 0
  <2>1. m \notin Bytes => Events(m) = {}
    BY DEF TelInit, Init, Events, Measures, Dials
  <2>2. Cardinality({}) = 0
    BY FS_EmptySet
  <2> QED BY <2>1, <2>2 DEF TelInit, Due
<1>4. \A m \in Measures : IsSum(pending, Item, Weight(m), 0)
  BY SumEmpty DEF TelInit
<1>5. ReportsSound
  BY <1>3, <1>4 DEF ReportsSound, Balanced
<1> QED BY <1>1, <1>2, <1>5 DEF ReportInv

\* A Dial goes on without returning, or is refused.
LEMMA ReportGoesOn ==
    ASSUME ReportInv, SpanInv, NEW d \in Dials, NEW q \in Points \ {"failed", "connected"},
           pc[d] \notin {"failed", "connected"}, pc' = [pc EXCEPT ![d] = q],
           UNCHANGED <<vars, refresh, moved, pending, total>>
    PROVE  ReportInv'
<1>1. \A e \in Dials : pc'[e] \in {"failed", "connected"} => pc'[e] = pc[e]
  BY DEF SpanInv, SpanTypes
<1>2. \A e \in Dials : pc[e] \in {"failed", "connected"} => pc'[e] = pc[e]
  BY DEF SpanInv, SpanTypes
<1>3. ReportTypes'
  BY DEF ReportInv, ReportTypes
<1>4. ConnSound'
  BY <1>1, <1>2 DEF ReportInv, ConnSound, vars
<1>5. ASSUME NEW n \in Measures
      PROVE  Due(n)' = Due(n)
  <2>1. Events("dial_failure")' = Events("dial_failure")
    BY <1>1, <1>2 DEF Events
  <2>2. n \notin Bytes => Events(n)' = Events(n)
    BY <2>1 DEF Events, Measures, vars
  <2> QED BY <2>2 DEF Due
<1>6. ReportsSound'
  BY <1>3, <1>5, ReportQuiet DEF ReportInv
<1> QED BY <1>3, <1>4, <1>6 DEF ReportInv

\* A Dial fails: one failure more is due, and handed to a goroutine.
LEMMA ReportFailed ==
    ASSUME ReportInv, SpanInv, NEW d \in Dials, NEW S, return(d, "failed", S),
           pc[d] \notin {"failed", "connected"}, UNCHANGED <<vars, refresh, moved, total>>
    PROVE  ReportInv'
<1>1. Go("dial_failure", 1) /\ pc' = [pc EXCEPT ![d] = "failed"]
  BY DEF return, RecordDial
<1>2. \A e \in Dials : pc'[e] = IF e = d THEN "failed" ELSE pc[e]
  BY <1>1 DEF SpanInv, SpanTypes
<1>3. Due("dial_failure")' = Due("dial_failure") + 1
  <2>1. d \notin Events("dial_failure") /\ Events("dial_failure")' = Events("dial_failure") \cup {d}
    BY <1>2 DEF Events
  <2>2. "dial_failure" \in Measures \ Bytes
    BY DEF Measures, Bytes
  <2> QED BY <2>1, <2>2, EventsGrow
<1>4. ASSUME NEW n \in Measures \ {"dial_failure"}
      PROVE  Due(n)' = Due(n)
  <2>1. n \notin Bytes => Events(n)' = Events(n)
    BY DEF Events, Measures, vars
  <2> QED BY <2>1 DEF Due
<1>5. (IsABag(pending) /\ DOMAIN pending \subseteq Item)' /\ ReportsSound'
  <2>1. "dial_failure" \in Measures /\ 1 \in Nat
    BY DEF Measures
  <2> QED BY <1>1, <1>3, <1>4, <2>1, ReportGo DEF ReportInv
<1>6. ReportTypes'
  BY <1>5 DEF ReportInv, ReportTypes
<1>7. ConnSound'
  BY <1>2 DEF ReportInv, ConnSound, vars
<1> QED BY <1>5, <1>6, <1>7 DEF ReportInv

\* A Dial returns a connection.
LEMMA ReportConnected ==
    ASSUME ReportInv, SpanInv, CounterInv, NEW d \in Dials, NEW S, return(d, "connected", S), Open(d),
           pc[d] = "connect", UNCHANGED <<refresh, moved, total>>
    PROVE  ReportInv'
<1>1. pending' = pending /\ pc' = [pc EXCEPT ![d] = "connected"]
  BY DEF return, RecordDial
<1>2. \A e \in Dials : pc'[e] = IF e = d THEN "connected" ELSE pc[e]
  BY <1>1 DEF SpanInv, SpanTypes
<1>3. \A e \in Dials : /\ conn'[e] = IF e = d THEN "open" ELSE conn[e]
                       /\ inc'[e] = IF e = d THEN "spawned" ELSE inc[e]
  BY DEF Open, CounterInv, TypeOK, Dials
<1>4. inc[d] = "none"
  BY DEF CounterInv, GoroutinesSound, Open, Dials
<1>5. ReportTypes'
  BY <1>1 DEF ReportInv, ReportTypes
<1>6. ConnSound'
  BY <1>2, <1>3 DEF ReportInv, ConnSound
<1>7. ASSUME NEW n \in Measures
      PROVE  Due(n)' = Due(n)
  <2>1. Events("dial_failure")' = Events("dial_failure")
    BY <1>2 DEF Events
  <2>2. Events("latency")' = Events("latency")
    BY <1>3, <1>4 DEF Events
  <2>3. n \notin Bytes => Events(n)' = Events(n)
    BY <2>1, <2>2 DEF Events, Measures
  <2> QED BY <2>3 DEF Due
<1>8. ReportsSound'
  BY <1>1, <1>5, <1>7, ReportQuiet DEF ReportInv
<1> QED BY <1>5, <1>6, <1>8 DEF ReportInv

\* A refresh returns.
LEMMA ReportRefresh ==
    ASSUME ReportInv, NEW f \in Refreshes, RecordRefreshResult(f)
    PROVE  ReportInv'
<1>1. PICK r \in {"ok", "err"} :
        /\ refresh' = [refresh EXCEPT ![f] = r]
        /\ Go(IF r = "ok" THEN "refresh_success" ELSE "refresh_failure", 1)
  BY DEF RecordRefreshResult
<1>2. PICK m \in Measures \ Bytes : m = IF r = "ok" THEN "refresh_success" ELSE "refresh_failure"
  BY DEF Measures, Bytes
<1>3. /\ refresh[f] = "running" /\ refresh' \in [Refreshes -> {"idle", "running", "ok", "err"}]
      /\ \A e \in Refreshes : refresh'[e] = IF e = f THEN r ELSE refresh[e]
  BY <1>1 DEF RecordRefreshResult, ReportInv, ReportTypes
<1>4. UNCHANGED <<vars, pc, moved, total>>
  BY DEF RecordRefreshResult
<1>5. Due(m)' = Due(m) + 1
  <2>1. f \notin Events(m) /\ Events(m)' = Events(m) \cup {f}
    BY <1>2, <1>3 DEF Events
  <2> QED BY <2>1, EventsGrow
<1>6. ASSUME NEW n \in Measures \ {m}
      PROVE  Due(n)' = Due(n)
  <2>1. n \in {"refresh_success", "refresh_failure"} => Events(n)' = Events(n)
    BY <1>2, <1>3 DEF Events
  <2>2. n \notin Bytes => Events(n)' = Events(n)
    BY <1>4, <2>1 DEF Events, Measures, vars
  <2> QED BY <1>4, <2>2 DEF Due
<1>7. (IsABag(pending) /\ DOMAIN pending \subseteq Item)' /\ ReportsSound'
  <2>1. Go(m, 1) /\ 1 \in Nat
    BY <1>1, <1>2
  <2> QED BY <1>4, <1>5, <1>6, <2>1, ReportGo DEF ReportInv
<1>8. ReportTypes'
  BY <1>3, <1>4, <1>7 DEF ReportInv, ReportTypes
<1>9. ConnSound'
  BY <1>4 DEF ReportInv, ConnSound, vars
<1> QED BY <1>7, <1>8, <1>9 DEF ReportInv

\* Bytes are moved, and reported unless an error came with them.
LEMMA ReportBytes ==
    ASSUME ReportInv, NEW d \in Dials, NEW m \in Bytes, NEW k \in Sizes, NEW failed \in BOOLEAN,
           ReadOrWrite(d, m, k, failed)
    PROVE  ReportInv'
<1>1. /\ k \in Nat /\ moved' = [moved EXCEPT ![m] = @ + k]
      /\ UNCHANGED <<vars, pc, refresh, total>>
  BY SizesAssumption DEF ReadOrWrite
<1>2. moved' \in [Bytes -> Nat] /\ moved'[m] = moved[m] + k /\ moved[m] \in Nat
  BY <1>1 DEF ReportInv, ReportTypes
<1>3. Due(m)' = Due(m) + k /\ Due(m) = moved[m]
  BY <1>2 DEF Due
<1>4. ASSUME NEW n \in Measures \ {m}
      PROVE  Due(n)' = Due(n)
  <2>1. n \notin Bytes => Events(n)' = Events(n)
    BY <1>1 DEF Events, Measures, vars
  <2>2. n \in Bytes => moved'[n] = moved[n]
    BY <1>1 DEF ReportInv, ReportTypes
  <2> QED BY <2>1, <2>2 DEF Due
<1>5. ConnSound'
  BY <1>1 DEF ReportInv, ConnSound, vars
<1>6. CASE failed
  <2>1. pending' = pending
    BY <1>6 DEF ReadOrWrite
  <2>2. ReportTypes'
    BY <1>1, <1>2, <2>1 DEF ReportInv, ReportTypes
  <2>3. \A n \in Measures : Due(n)' = Due(n) \/ (n \in Bytes /\ Due(n)' >= Due(n))
    BY <1>1, <1>2, <1>3, <1>4
  <2>4. ReportsSound'
    BY <1>1, <2>1, <2>2, <2>3, ReportQuiet DEF ReportInv
  <2> QED BY <1>5, <2>2, <2>4 DEF ReportInv
<1>7. CASE ~failed
  <2>1. Go(m, k) /\ m \in Measures
    BY <1>7 DEF ReadOrWrite, Measures
  <2>2. (IsABag(pending) /\ DOMAIN pending \subseteq Item)' /\ ReportsSound'
    BY <1>1, <1>3, <1>4, <2>1, ReportGo DEF ReportInv
  <2>3. ReportTypes'
    BY <1>1, <1>2, <2>2 DEF ReportInv, ReportTypes
  <2> QED BY <1>5, <2>2, <2>3 DEF ReportInv
<1> QED BY <1>6, <1>7

\* The goroutines of the counter; the one of a Dial records its latency.
LEMMA ReportCount ==
    ASSUME ReportInv, CounterInv, NEW c \in Dials, Count(c) \/ RecordDialLatency(c)
    PROVE  ReportInv'
<1>1. UNCHANGED <<pc, refresh, moved, pending>>
  BY DEF Count, RecordDialLatency, telVars
<1>2. \A d \in Dials : conn'[d] # "dialing" <=> conn[d] # "dialing"
  BY DEF Count, RecordDialLatency, Close, Increment, Decrement, RecordOpenConnections,
     CounterInv, TypeOK, Dials
<1>3. ConnSound'
  BY <1>1, <1>2 DEF ReportInv, ConnSound
<1>4. CASE \A d \in Dials : inc'[d] = "over" <=> inc[d] = "over"
  <2>1. total' = total
    BY <1>4 DEF Count, RecordDialLatency, RecordOpenConnections, telVars, CounterInv, TypeOK, Dials
  <2>2. ReportTypes'
    BY <1>1, <2>1 DEF ReportInv, ReportTypes
  <2>3. ASSUME NEW n \in Measures
        PROVE  Due(n)' = Due(n)
    <3>1. Events("latency")' = Events("latency")
      BY <1>4 DEF Events
    <3>2. n \notin Bytes => Events(n)' = Events(n)
      BY <1>1, <3>1 DEF Events, Measures
    <3> QED BY <1>1, <3>2 DEF Due
  <2>4. ReportsSound'
    BY <1>1, <2>1, <2>2, <2>3, ReportQuiet DEF ReportInv
  <2> QED BY <1>3, <2>2, <2>4 DEF ReportInv
<1>5. CASE ~(\A d \in Dials : inc'[d] = "over" <=> inc[d] = "over")
  <2>1. RecordDialLatency(c) /\ inc[c] = "added" /\ inc' = [inc EXCEPT ![c] = "over"]
    BY <1>5 DEF Count, Close, Increment, Decrement, RecordDialLatency, RecordOpenConnections,
       CounterInv, TypeOK, Dials
  <2>2. \A d \in Dials : inc'[d] = IF d = c THEN "over" ELSE inc[d]
    BY <2>1 DEF CounterInv, TypeOK, Dials
  <2>3. total' = [total EXCEPT !["latency"] = @ + 1]
    BY <2>1, <2>2 DEF RecordDialLatency
  <2>4. "latency" \in Measures \ Bytes
    BY DEF Measures, Bytes
  <2>5. ReportTypes'
    BY <1>1, <2>3, <2>4 DEF ReportInv, ReportTypes
  <2>6. Due("latency")' = Due("latency") + 1
    <3>1. c \notin Events("latency") /\ Events("latency")' = Events("latency") \cup {c}
      BY <2>1, <2>2 DEF Events
    <3> QED BY <2>4, <3>1, EventsGrow
  <2>7. ASSUME NEW n \in Measures \ {"latency"}
        PROVE  Due(n)' = Due(n)
    <3>1. n \notin Bytes => Events(n)' = Events(n)
      BY <1>1 DEF Events, Measures
    <3> QED BY <1>1, <3>1 DEF Due
  <2>8. ReportsSound'
    BY <1>1, <2>3, <2>4, <2>6, <2>7, ReportAtOnce DEF ReportInv
  <2> QED BY <1>3, <2>5, <2>8 DEF ReportInv
<1> QED BY <1>4, <1>5

\* Nothing that is reported changes.
LEMMA ReportSame ==
    ASSUME ReportInv, UNCHANGED <<vars, pc, moved>>,
           refresh' \in [Refreshes -> {"idle", "running", "ok", "err"}],
           \A f \in Refreshes : \/ refresh'[f] = refresh[f]
                                \/ {refresh'[f], refresh[f]} \subseteq {"idle", "running"}
    PROVE  /\ \A n \in Measures : Due(n)' = Due(n)
           /\ ConnSound'
           /\ UNCHANGED <<pending, total>> => ReportInv'
<1>1. ASSUME NEW n \in Measures
      PROVE  Due(n)' = Due(n)
  <2>1. n \in {"refresh_success", "refresh_failure"} => Events(n)' = Events(n)
    BY DEF Events
  <2>2. n \notin Bytes => Events(n)' = Events(n)
    BY <2>1 DEF Events, Measures, vars
  <2> QED BY <2>2 DEF Due
<1>2. ConnSound'
  BY DEF ReportInv, ConnSound, vars
<1>3. ASSUME UNCHANGED <<pending, total>>
      PROVE  ReportInv'
  <2>1. ReportTypes'
    BY <1>3 DEF ReportInv, ReportTypes
  <2>2. ReportsSound'
    BY <1>1, <1>3, <2>1, ReportQuiet DEF ReportInv
  <2> QED BY <1>2, <2>1, <2>2 DEF ReportInv
<1> QED BY <1>1, <1>2, <1>3

LEMMA ReportNext == ReportInv /\ SpanInv /\ CounterInv /\ [TelNext]_allVars => ReportInv'
<1> SUFFICES ASSUME ReportInv, SpanInv, CounterInv, [TelNext]_allVars PROVE ReportInv'
  OBVIOUS
<1>0. refresh \in [Refreshes -> {"idle", "running", "ok", "err"}]
  BY DEF ReportInv, ReportTypes
<1>1. CASE UNCHANGED allVars
  BY <1>0, <1>1, ReportSame DEF allVars, telVars
<1>2. ASSUME NEW d \in Dials, Refuse(d) \/ Start(d) \/ Parse(d) \/ Info(d) \/ Certificate(d) \/ Connect(d)
      PROVE  ReportInv'
  <2>1. {"refused", "parse", "info", "certificate", "connect"} \subseteq Points \ {"failed", "connected"}
    BY DEF Points
  <2>2. CASE Refuse(d)
    BY <2>1, <2>2, ReportGoesOn DEF Refuse
  <2>3. CASE Start(d)
    BY <2>1, <2>3, ReportGoesOn DEF Start
  <2>4. CASE Parse(d)
    BY <2>1, <2>4, ReportGoesOn, ReportFailed DEF Parse
  <2>5. CASE Info(d)
    BY <2>1, <2>5, ReportGoesOn, ReportFailed DEF Info
  <2>6. CASE Certificate(d)
    BY <2>1, <2>6, ReportGoesOn, ReportFailed DEF Certificate
  <2>7. CASE Connect(d)
    BY <2>7, ReportConnected, ReportFailed DEF Connect
  <2> QED BY <1>2, <2>2, <2>3, <2>4, <2>5, <2>6, <2>7
<1>3. ASSUME NEW d \in Dials, NEW m \in Bytes, NEW n \in Sizes, NEW failed \in BOOLEAN,
             ReadOrWrite(d, m, n, failed)
      PROVE  ReportInv'
  BY <1>3, ReportBytes
<1>4. ASSUME NEW d \in Dials, Count(d) \/ RecordDialLatency(d)
      PROVE  ReportInv'
  BY <1>4, ReportCount
<1>5. ASSUME NEW f \in Refreshes, StartRefresh(f)
      PROVE  ReportInv'
  <2>1. /\ refresh' \in [Refreshes -> {"idle", "running", "ok", "err"}]
        /\ \A e \in Refreshes : \/ refresh'[e] = refresh[e]
                                \/ {refresh'[e], refresh[e]} \subseteq {"idle", "running"}
    BY <1>0, <1>5 DEF StartRefresh
  <2> QED BY <1>5, <2>1, ReportSame DEF StartRefresh
<1>6. ASSUME NEW f \in Refreshes, RecordRefreshResult(f)
      PROVE  ReportInv'
  BY <1>6, ReportRefresh
<1>7. CASE DialerClose
  BY <1>0, <1>7, ReportSame DEF DialerClose
<1>8. ASSUME NEW x \in BagToSet(pending), Record(x)
      PROVE  ReportInv'
  <2>1. UNCHANGED <<vars, pc, moved, refresh>>
    BY <1>8 DEF Record
  <2>2. ConnSound' /\ \A n \in Measures : Due(n)' = Due(n)
    BY <1>0, <2>1, ReportSame
  <2> QED BY <1>8, <2>2, ReportRecord DEF ReportInv
<1> QED BY <1>1, <1>2, <1>3, <1>4, <1>5, <1>6, <1>7, <1>8 DEF TelNext

\* When every goroutine has run, each Dial that began has been reported once,
\* as a failure or with its latency, and each refresh once, with its result,
\* whatever the order in which the goroutines ran, and no byte is counted that
\* was not moved.
THEOREM ReportsAreRight == TelSpec => []ReportsSettle
<1>1. ReportInv /\ CounterInv => ReportsSettle
  <2> SUFFICES ASSUME ReportInv, CounterInv, pending = EmptyBag, Settled
               PROVE  /\ total["dial_failure"] = Cardinality({d \in Dials : pc[d] = "failed"})
                      /\ total["latency"] = Cardinality({d \in Dials : pc[d] = "connected"})
                      /\ total["refresh_success"] = Cardinality({f \in Refreshes : refresh[f] = "ok"})
                      /\ total["refresh_failure"] = Cardinality({f \in Refreshes : refresh[f] = "err"})
                      /\ \A m \in Bytes : total[m] <= moved[m]
    BY DEF ReportsSettle
  <2>1. ASSUME NEW m \in Measures
        PROVE  Balanced(m, total[m])
    <3>1. PICK s \in Int : IsSum(EmptyBag, Item, Weight(m), s) /\ Balanced(m, total[m] + s)
      BY DEF ReportInv, ReportsSound
    <3>2. s = 0
      BY <3>1, SumEmpty
    <3>3. total[m] \in Int
      BY DEF ReportInv, ReportTypes
    <3>4. total[m] + s = total[m]
      BY <3>2, <3>3
    <3> QED BY <3>1, <3>4
  <2>2. \A m \in Measures \ Bytes : total[m] = Cardinality(Events(m))
    BY <2>1 DEF Balanced, Due
  <2>3. \A m \in Bytes : total[m] <= moved[m]
    BY <2>1 DEF Balanced, Due, Measures
  <2>4. {d \in Dials : inc[d] = "over"} = {d \in Dials : pc[d] = "connected"}
    BY DEF Settled, CounterInv, GoroutinesSound, ReportInv, ConnSound, Dials
  <2>5. {"dial_failure", "latency", "refresh_success", "refresh_failure"} \subseteq Measures \ Bytes
    BY DEF Measures, Bytes
  <2>6. /\ Events("dial_failure") = {d \in Dials : pc[d] = "failed"}
        /\ Events("latency") = {d \in Dials : pc[d] = "connected"}
        /\ Events("refresh_success") = {f \in Refreshes : refresh[f] = "ok"}
        /\ Events("refresh_failure") = {f \in Refreshes : refresh[f] = "err"}
    BY <2>4 DEF Events
  <2> QED BY <2>2, <2>3, <2>5, <2>6
<1>2. TelSpec => []CounterInv
  BY TelemetryCounts, CounterInit, CounterNext, PTL DEF Spec
<1>3. TelSpec => []SpanInv
  BY SpanInit, SpanNext, PTL DEF TelSpec
<1> QED BY <1>1, <1>2, <1>3, ReportInit, ReportNext, PTL DEF TelSpec

=============================================================================
