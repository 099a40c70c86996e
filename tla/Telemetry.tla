------------------------------ MODULE Telemetry ------------------------------
(***************************************************************************)
(* What Dials, refreshes and connections report (internal/tel, and the     *)
(* places in dialer.go and refresh.go that call it): the spans of a trace  *)
(* and the measures behind the metrics.  A measure is recorded by a        *)
(* goroutine of its own, any time after the event.  The goroutines that    *)
(* count the open connections are those of OpenConnections, which this     *)
(* module completes: a connection has the name of its Dial, opens when the *)
(* Dial succeeds and is read and written until it is closed.               *)
(***************************************************************************)
EXTENDS OpenConnections, Bags

CONSTANTS
    Refreshes,  \* calls of connectionInfo
    Sizes,      \* how many bytes one Read or Write moves
    MaxIO       \* calls of Read and Write on a connection considered

ASSUME RefreshesAssumption == IsFiniteSet(Refreshes)
ASSUME SizesAssumption == Sizes \subseteq Nat /\ MaxIO \in Nat

VARIABLES
    closed,     \* the Dialer is closed
    pc,         \* pc[d]: where Dial d stands
    span,       \* span[d][s]: "none", "open", or ended with "ok" or "err"
    refresh,    \* refresh[f]: "idle", "running", "ok" or "err"
    io,         \* io[d]: calls of Read and Write made on the connection
    moved,      \* history: moved[m]: the bytes sent and received
    pending,    \* the measures that goroutines are about to record
    total       \* total[m]: what the view of measure m shows

telVars == <<closed, pc, span, refresh, io, moved, pending, total>>
allVars == <<vars, telVars>>

Dials == Conns

Spans == {"Dial", "InstanceInfo", "Connect"}
Bytes == {"bytes_sent", "bytes_received"}
Measures == Bytes \cup {"dial_failure", "latency", "refresh_success", "refresh_failure"}

TelInit ==
    /\ Init
    /\ closed = FALSE
    /\ pc = [d \in Dials |-> "start"]
    /\ span = [d \in Dials |-> [s \in Spans |-> "none"]]
    /\ refresh = [f \in Refreshes |-> "idle"]
    /\ io = [d \in Dials |-> 0]
    /\ moved = [m \in Bytes |-> 0]
    /\ pending = EmptyBag
    /\ total = [m \in Measures |-> 0]

-----------------------------------------------------------------------------
(* internal/tel                                                            *)

\* A measure with a value is handed to a goroutine.
Go(m, v) == pending' = pending (+) SetToBag({[measure |-> m, value |-> v]})

\* RecordDialError without the test for nil.
RecordDialAlways(p) == p \in {"failed", "connected"} /\ Go("dial_failure", 1)

\* RecordDialError is a no-op without an error.
RecordDial(p) == IF p = "failed" THEN Go("dial_failure", 1) ELSE UNCHANGED pending

\* The goroutine runs; views count, or sum what is recorded.
Record(x) ==
    /\ pending' = pending (-) SetToBag({x})
    /\ total' = [total EXCEPT ![x.measure] = @ + x.value]
    /\ UNCHANGED <<vars, closed, pc, span, refresh, io, moved>>

StartSpan(d, s) == span' = [span EXCEPT ![d][s] = "open"]

\* Dial returns: the spans S end with its outcome.
return(d, p, S) ==
    /\ pc' = [pc EXCEPT ![d] = p]
    /\ span' = [span EXCEPT ![d] =
        [s \in Spans |-> IF s \notin S THEN @[s] ELSE IF p = "failed" THEN "err" ELSE "ok"]]
    /\ RecordDial(p)

-----------------------------------------------------------------------------
(* Dial                                                                    *)

\* A closed Dialer refuses before anything is reported.
Refuse(d) ==
    /\ pc[d] = "start"
    /\ closed
    /\ pc' = [pc EXCEPT ![d] = "refused"]
    /\ UNCHANGED <<vars, closed, span, refresh, io, moved, pending, total>>

Start(d) ==
    /\ pc[d] = "start"
    /\ ~closed
    /\ StartSpan(d, "Dial")
    /\ pc' = [pc EXCEPT ![d] = "parse"]
    /\ UNCHANGED <<vars, closed, refresh, io, moved, pending, total>>

\* The URI parses or not.
Parse(d) ==
    /\ pc[d] = "parse"
    /\ \/ return(d, "failed", {"Dial"})
       \/ /\ StartSpan(d, "InstanceInfo")
          /\ pc' = [pc EXCEPT ![d] = "info"]
          /\ UNCHANGED pending
    /\ UNCHANGED <<vars, closed, refresh, io, moved, total>>

\* An error of the cache that leaves the span of the lookup open.
InfoForgets(d) ==
    /\ pc[d] = "info"
    /\ \/ return(d, "failed", {"Dial"})
       \/ /\ span' = [span EXCEPT ![d]["InstanceInfo"] = "ok"]
          /\ pc' = [pc EXCEPT ![d] = "certificate"]
          /\ UNCHANGED pending
    /\ UNCHANGED <<vars, closed, refresh, io, moved, total>>

\* The cache is found or made, and asked: endInfo is called on each path.
Info(d) ==
    /\ pc[d] = "info"
    /\ \/ return(d, "failed", {"InstanceInfo", "Dial"})
       \/ /\ span' = [span EXCEPT ![d]["InstanceInfo"] = "ok"]
          /\ pc' = [pc EXCEPT ![d] = "certificate"]
          /\ UNCHANGED pending
    /\ UNCHANGED <<vars, closed, refresh, io, moved, total>>

\* An expired certificate that cannot be refreshed, or no address of the type.
Certificate(d) ==
    /\ pc[d] = "certificate"
    /\ \/ return(d, "failed", {"Dial"})
       \/ /\ StartSpan(d, "Connect")
          /\ pc' = [pc EXCEPT ![d] = "connect"]
          /\ UNCHANGED pending
    /\ UNCHANGED <<vars, closed, refresh, io, moved, total>>

\* The deferred calls end both spans, whatever fails on the way.  With the
\* connection comes the goroutine that counts it.
Connect(d) ==
    /\ pc[d] = "connect"
    /\ \/ return(d, "connected", {"Connect", "Dial"}) /\ Open(d)
       \/ return(d, "failed", {"Connect", "Dial"}) /\ UNCHANGED vars
    /\ UNCHANGED <<closed, refresh, io, moved, total>>

DialerClose ==
    /\ ~closed
    /\ closed' = TRUE
    /\ UNCHANGED <<vars, pc, span, refresh, io, moved, pending, total>>

-----------------------------------------------------------------------------
(* Refreshes and connections                                               *)

StartRefresh(f) ==
    /\ refresh[f] = "idle"
    /\ refresh' = [refresh EXCEPT ![f] = "running"]
    /\ UNCHANGED <<vars, closed, pc, span, io, moved, pending, total>>

\* connectionInfo returns; its deferred call reports what it returns.
RecordRefreshResult(f) ==
    /\ refresh[f] = "running"
    /\ \E r \in {"ok", "err"} :
        /\ refresh' = [refresh EXCEPT ![f] = r]
        /\ Go(IF r = "ok" THEN "refresh_success" ELSE "refresh_failure", 1)
    /\ UNCHANGED <<vars, closed, pc, span, io, moved, total>>

\* Read and Write of the connection: an error may come with bytes (tls.Conn
\* returns the last data together with the peer's close), and is not reported.
ReadOrWrite(d, m, n, failed) ==
    /\ conn[d] = "open"
    /\ io[d] < MaxIO
    /\ io' = [io EXCEPT ![d] = @ + 1]
    /\ moved' = [moved EXCEPT ![m] = @ + n]
    /\ IF failed THEN UNCHANGED pending ELSE Go(m, n)
    /\ UNCHANGED <<vars, closed, pc, span, refresh, total>>

\* instrumentedConn.Close and the goroutines that count.
Count(c) ==
    /\ Close(c) \/ Increment(c) \/ Decrement(c)
    /\ UNCHANGED telVars

\* The goroutine of the Dial then records its latency, the one of Close nothing.
RecordDialLatency(c) ==
    /\ RecordOpenConnections(c)
    /\ total' = IF inc'[c] = inc[c] THEN total ELSE [total EXCEPT !["latency"] = @ + 1]
    /\ UNCHANGED <<closed, pc, span, refresh, io, moved, pending>>

TelNext ==
    \/ \E d \in Dials :
        \/ Refuse(d)
        \/ Start(d)
        \/ Parse(d)
        \/ Info(d)
        \/ Certificate(d)
        \/ Connect(d)
        \/ \E m \in Bytes, n \in Sizes, failed \in BOOLEAN : ReadOrWrite(d, m, n, failed)
        \/ Count(d)
        \/ RecordDialLatency(d)
    \/ \E f \in Refreshes : StartRefresh(f) \/ RecordRefreshResult(f)
    \/ DialerClose
    \/ \E x \in BagToSet(pending) : Record(x)

TelSpec == TelInit /\ [][TelNext]_allVars

-----------------------------------------------------------------------------
(* Properties                                                              *)

Returned(d) == pc[d] \in {"refused", "failed", "connected"}

\* A Dial that has returned, on whatever path, has ended every span it started,
\* and each with the right outcome: the span of the Dial says whether it
\* failed, and only the span of the step that failed says so with it
\* (dialer.go:268, 285, 291, 294, 323).
SpansEnd ==
    \A d \in Dials :
        Returned(d) =>
            /\ \A s \in Spans : span[d][s] # "open"
            /\ pc[d] # "refused" => span[d]["Dial"] = IF pc[d] = "failed" THEN "err" ELSE "ok"
            /\ ~(span[d]["InstanceInfo"] = "err" /\ span[d]["Connect"] # "none")
            /\ pc[d] = "connected" => \A s \in Spans : span[d][s] = "ok"

\* When every goroutine has run, each Dial that began has been reported once,
\* as a failure or with its latency, and each refresh once, with its result;
\* no byte is counted that was not moved (dialer.go:269, 378, 563;
\* refresh.go:271).
ReportsSettle ==
    pending = EmptyBag /\ Settled =>
        /\ total["dial_failure"] = Cardinality({d \in Dials : pc[d] = "failed"})
        /\ total["latency"] = Cardinality({d \in Dials : pc[d] = "connected"})
        /\ total["refresh_success"] = Cardinality({f \in Refreshes : refresh[f] = "ok"})
        /\ total["refresh_failure"] = Cardinality({f \in Refreshes : refresh[f] = "err"})
        /\ \A m \in Bytes : total[m] <= moved[m]

\* alloydbconn/dial_failure_count is "The number of failed dial attempts"
\* (README.md:261).
EveryFailureCounts ==
    pending = EmptyBag =>
        total["dial_failure"] = Cardinality({d \in Dials : pc[d] \in {"failed", "refused"}})

\* alloydbconn/bytes_received is "The number of bytes received from an AlloyDB
\* instance" (README.md:267), and bytes_sent likewise.
EveryByteCounts == pending = EmptyBag => \A m \in Bytes : total[m] = moved[m]

=============================================================================
