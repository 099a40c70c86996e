-------------------------- MODULE MetadataExchange --------------------------
(***************************************************************************)
(* The metadata exchange (dialer.go, metadataExchange) of concurrent Dials *)
(* and the pool of buffers they share.                                     *)
(*                                                                         *)
(* A message is its size in bytes, preceded on the wire by Header bytes    *)
(* that spell the size in base Base, most significant first.  What is left *)
(* of a response on the connection is the number of bytes read so far.     *)
(* Bytes a Read did not fill keep what the request left there, so that the *)
(* size read from a header that came in pieces mixes the two sizes.        *)
(***************************************************************************)
EXTENDS Integers, FiniteSets

CONSTANTS
    Exchanges,  \* calls of metadataExchange, each on a connection of its own
    Buffers,    \* the buffers of the pool, as many as can be needed
    NoBuffer,   \* a call that holds none
    Header,     \* bytes of a size: 4
    Base,       \* values of a byte: 256
    MaxMessage, \* maxMessageSize, the capacity of a pooled buffer
    ReqSizes,   \* the sizes of requests and of responses considered
    RespSizes

ASSUME BuffersAssumption ==
    /\ IsFiniteSet(Exchanges)
    /\ IsFiniteSet(Buffers)
    /\ Cardinality(Buffers) >= Cardinality(Exchanges)
    /\ NoBuffer \notin Buffers
ASSUME SizesAssumption ==
    /\ Header \in Nat \ {0} /\ Base \in Nat \ {0, 1} /\ MaxMessage \in Nat /\ MaxMessage >= Header
    /\ ReqSizes \cup RespSizes \subseteq 0..Base^Header - 1
\* What a prover has to be told about the powers of Base.
ASSUME PowersAssumption ==
    /\ Base^0 = 1
    /\ \A n \in 0..Header : Base^n \in Nat \ {0}

VARIABLES
    pc,         \* pc[e]: control point; "ok", "failed" and "panicked" are final
    req, resp,  \* the sizes of the messages of e
    verdict,    \* verdict[e]: the response code is OK
    pool,       \* the buffers in the pool
    buf,        \* buf[e]: the pooled buffer e holds
    room,       \* room[e]: capacity of the slice e works with
    deadline,   \* deadline[e]: the connection has an I/O deadline
    size,       \* size[e]: the response's size as e read it
    pos,        \* pos[e]: bytes e has read from the connection
    garbled,    \* garbled[e]: what e takes for the response is not the response
    broken,     \* history: the token, the marshalling or the I/O failed
    short       \* history: which Read returned less than it was asked for, if any

messages == <<req, resp, verdict>>
vars == <<pc, req, resp, verdict, pool, buf, room, deadline, size, pos, garbled, broken, short>>

Points == {"token", "get", "write", "readSize", "readBody", "unmarshal", "ok", "failed", "panicked"}
Returned == {"ok", "failed", "panicked"}

\* An empty response has the zero response code, which is not OK.
Init ==
    /\ pc = [e \in Exchanges |-> "token"]
    /\ req \in [Exchanges -> ReqSizes]
    /\ resp \in [Exchanges -> RespSizes]
    /\ verdict \in [Exchanges -> BOOLEAN]
    /\ \A e \in Exchanges : verdict[e] => resp[e] > 0
    /\ pool = Buffers
    /\ buf = [e \in Exchanges |-> NoBuffer]
    /\ room = [e \in Exchanges |-> 0]
    /\ deadline = [e \in Exchanges |-> FALSE]
    /\ size = [e \in Exchanges |-> 0]
    /\ pos = [e \in Exchanges |-> 0]
    /\ garbled = [e \in Exchanges |-> FALSE]
    /\ broken = [e \in Exchanges |-> FALSE]
    /\ short = [e \in Exchanges |-> "none"]

goto(e, p) == pc' = [pc EXCEPT ![e] = p]

\* A return that forgets to lift the deadline.
returnKeepsDeadline(e, p) ==
    /\ goto(e, p)
    /\ UNCHANGED deadline
    /\ pool' = pool \cup ({buf[e]} \ {NoBuffer})
    /\ buf' = [buf EXCEPT ![e] = NoBuffer]

\* Every return runs the deferred calls: no deadline, the buffer to the pool.
return(e, p) ==
    /\ goto(e, p)
    /\ deadline' = [deadline EXCEPT ![e] = FALSE]
    /\ pool' = pool \cup ({buf[e]} \ {NoBuffer})
    /\ buf' = [buf EXCEPT ![e] = NoBuffer]

-----------------------------------------------------------------------------
\* The token source answers, without a deadline, and the request is marshalled.
Token(e) ==
    /\ pc[e] = "token"
    /\ goto(e, "get")
    /\ UNCHANGED <<messages, pool, buf, room, deadline, size, pos, garbled, broken, short>>

\* The token, a SetDeadline, the Write, a Read or the deadline fails.
Fails(e) ==
    /\ pc[e] \in {"token", "write", "readSize", "readBody"}
    /\ return(e, "failed")
    /\ broken' = [broken EXCEPT ![e] = TRUE]
    /\ UNCHANGED <<messages, room, size, pos, garbled, short>>

\* A get that leaves the buffer in the pool.
GetShares(e) ==
    /\ pc[e] = "get"
    /\ \E b \in pool : buf' = [buf EXCEPT ![e] = b]
    /\ room' = [room EXCEPT ![e] = MaxMessage]
    /\ deadline' = [deadline EXCEPT ![e] = TRUE]
    /\ goto(e, "write")
    /\ UNCHANGED <<messages, pool, size, pos, garbled, broken, short>>

\* A request written without a deadline.
GetNoDeadline(e) ==
    /\ pc[e] = "get"
    /\ \E b \in pool : pool' = pool \ {b} /\ buf' = [buf EXCEPT ![e] = b]
    /\ room' = [room EXCEPT ![e] = MaxMessage]
    /\ goto(e, "write")
    /\ UNCHANGED <<messages, deadline, size, pos, garbled, broken, short>>

\* Take a buffer, put size and request into it, set the deadline.  A request
\* that does not fit makes append move to an array of its own, of at least the
\* size needed; the pooled buffer is kept for the pool.
Get(e) ==
    /\ pc[e] = "get"
    /\ \E b \in pool : pool' = pool \ {b} /\ buf' = [buf EXCEPT ![e] = b]
    /\ room' = [room EXCEPT ![e] = IF Header + req[e] <= MaxMessage THEN MaxMessage ELSE Header + req[e]]
    /\ deadline' = [deadline EXCEPT ![e] = TRUE]
    /\ goto(e, "write")
    /\ UNCHANGED <<messages, size, pos, garbled, broken, short>>

\* The request is written, and the deadline renewed.
Write(e) ==
    /\ pc[e] = "write"
    /\ goto(e, "readSize")
    /\ UNCHANGED <<messages, pool, buf, room, deadline, size, pos, garbled, broken, short>>

\* How many bytes conn.Read returns at most of m still to come.
most(n, m) == IF n < m THEN n ELSE m

\* conn.Read into n bytes with m still to come: one call, not io.ReadFull.
Read(n, m) == (IF most(n, m) = 0 THEN 0 ELSE 1)..most(n, m)

\* What binary.BigEndian.Uint32 makes of a header of which n bytes were read.
Uint32(e, n) ==
    LET unread == Base^(Header - n)
    IN  ((resp[e] \div unread) * unread) + (req[e] % unread)

\* A bounds check that leaves no room for the header.
FitsLess(e, n) == n + Header <= room[e]

\* buf[:respSize] is within the capacity.
Fits(e, n) == n <= room[e]

\* Read the size of the response and slice the buffer to it.
ReadSize(e) ==
    /\ pc[e] = "readSize"
    /\ \E n \in Read(Header, Header) :
        /\ pos' = [pos EXCEPT ![e] = n]
        /\ size' = [size EXCEPT ![e] = Uint32(e, n)]
        /\ IF Fits(e, Uint32(e, n))
           THEN goto(e, "readBody") /\ UNCHANGED <<pool, buf, deadline>>
           ELSE return(e, "panicked")
        /\ short' = IF n < Header THEN [short EXCEPT ![e] = "size"] ELSE short
    /\ UNCHANGED <<messages, room, garbled, broken>>

\* Read the response, or as much of it as one call returns.  A Read for more
\* than the server sends returns what there is.
ReadBody(e) ==
    /\ pc[e] = "readBody"
    /\ LET left == Header + resp[e] - pos[e]
       IN  \E n \in Read(size[e], left) :
            /\ pos' = [pos EXCEPT ![e] = @ + n]
            /\ garbled' = [garbled EXCEPT ![e] = pos[e] # Header \/ n # resp[e] \/ size[e] # resp[e]]
            /\ short' = IF n < most(size[e], left) /\ short[e] = "none"
                        THEN [short EXCEPT ![e] = "body"] ELSE short
    /\ goto(e, "unmarshal")
    /\ UNCHANGED <<messages, pool, buf, room, deadline, size, broken>>

\* proto.Unmarshal and the response code.  Bytes that are not the response may
\* parse or not, with any code.
Unmarshal(e) ==
    /\ pc[e] = "unmarshal"
    /\ \E ok \in IF garbled[e] THEN BOOLEAN ELSE {verdict[e]} : return(e, IF ok THEN "ok" ELSE "failed")
    /\ UNCHANGED <<messages, room, size, pos, garbled, broken, short>>

\* The steps that take no one else to take.
Step(e) == Get(e) \/ Unmarshal(e)

\* The deadline ends an I/O call that nothing else ends.
Expires(e) == deadline[e] /\ Fails(e)

Next == \E e \in Exchanges : Token(e) \/ Fails(e) \/ Step(e) \/ Write(e) \/ ReadSize(e) \/ ReadBody(e)

Spec == Init /\ [][Next]_vars

\* Neither the server nor the token source need ever answer.
FairSpec == Spec /\ \A e \in Exchanges : WF_vars(Step(e)) /\ WF_vars(Expires(e))

-----------------------------------------------------------------------------
(* Properties                                                              *)

\* Every variable has its type.
TypeOK ==
    /\ pc \in [Exchanges -> Points]
    /\ req \in [Exchanges -> ReqSizes]
    /\ resp \in [Exchanges -> RespSizes]
    /\ verdict \in [Exchanges -> BOOLEAN]
    /\ pool \in SUBSET Buffers
    /\ buf \in [Exchanges -> Buffers \cup {NoBuffer}]
    /\ room \in [Exchanges -> Nat]
    /\ deadline \in [Exchanges -> BOOLEAN]
    /\ size \in [Exchanges -> Nat]
    /\ pos \in [Exchanges -> Nat]
    /\ garbled \in [Exchanges -> BOOLEAN]
    /\ broken \in [Exchanges -> BOOLEAN]
    /\ short \in [Exchanges -> {"none", "size", "body"}]

\* No two exchanges under way write into one buffer, and none writes into a
\* buffer the pool would hand out: the token of one Dial cannot end up in the
\* message of another (the get and the deferred put, dialer.go:460).
BufferIsOwned ==
    \A e \in Exchanges :
        buf[e] # NoBuffer => buf[e] \notin pool /\ \A f \in Exchanges \ {e} : buf[f] # buf[e]

\* A Dial is handed a connection without a deadline that would end it later,
\* and, unless a Read came short, only if the server accepted it and at the
\* byte where the database protocol begins (dialer.go:437-441, 473, 485).
HandedOver ==
    \A e \in Exchanges :
        pc[e] = "ok" =>
            /\ ~deadline[e]
            /\ short[e] = "none" => verdict[e] /\ pos[e] = Header + resp[e]

\* Once an exchange has its token it returns, even if the server never reads
\* or answers: every I/O call is under a deadline (dialer.go:468, 480).
ExchangeReturns == \A e \in Exchanges : pc[e] = "get" ~> pc[e] \in Returned

\* "If there is no error, the metadata exchange has succeeded" (dialer.go:438):
\* a response that says OK, on a connection where nothing failed, does not end
\* in an error, unless a Read came short; and the slice expression
\* buf[:respSize] (dialer.go:494) panics only for a response larger than
\* maxMessageSize, or if the size came in pieces: one of exactly that size is
\* accepted, a request that outgrew the buffer takes nothing away, and a
\* response that comes in pieces does no harm there.
AcceptedSucceeds ==
    \A e \in Exchanges :
        /\ pc[e] = "failed" /\ verdict[e] => broken[e] \/ short[e] # "none"
        /\ pc[e] = "panicked" => resp[e] > MaxMessage \/ short[e] = "size"

=============================================================================
