----------------------- MODULE MetadataExchangeProofs -----------------------
(***************************************************************************)
(* Proofs about the metadata exchange, for any number of exchanges and     *)
(* buffers and for messages of every size.                                 *)
(***************************************************************************)
EXTENDS MetadataExchange, TLAPS

\* What has been read when an exchange is at a point, as long as no Read came
\* short, and what an exchange that is over owes to whom.
ReadSound(e) ==
    /\ pc[e] \in {"token", "get", "write", "readSize"} => short[e] = "none" /\ pos[e] = 0
    /\ pc[e] \in {"write", "readSize", "readBody"} => room[e] >= MaxMessage
    /\ pc[e] = "readBody" =>
        /\ short[e] # "body" /\ pos[e] <= Header
        /\ short[e] = "none" => pos[e] = Header /\ size[e] = resp[e]
    /\ pc[e] = "unmarshal" /\ short[e] = "none" => ~garbled[e] /\ pos[e] = Header + resp[e]

\* A call that has returned has run its deferred functions, one that has not
\* got as far has none to run.
DeferSound(e) ==
    pc[e] \in {"token", "get"} \cup Returned => buf[e] = NoBuffer /\ ~deadline[e]

\* What HandedOver and AcceptedSucceeds say of one exchange.
OutcomeSound(e) ==
    /\ pc[e] = "ok" /\ short[e] = "none" => verdict[e] /\ pos[e] = Header + resp[e]
    /\ pc[e] = "failed" /\ verdict[e] => broken[e] \/ short[e] # "none"
    /\ pc[e] = "panicked" => resp[e] > MaxMessage \/ short[e] = "size"

\* The inductive invariant.
IInv ==
    /\ TypeOK
    /\ BufferIsOwned
    /\ \A e \in Exchanges : ReadSound(e) /\ DeferSound(e) /\ OutcomeSound(e)

-----------------------------------------------------------------------------
(* Lemmas about the operators                                              *)

LEMMA SizesAreNat ==
    /\ ReqSizes \subseteq Nat /\ RespSizes \subseteq Nat
    /\ Header \in Nat \ {0} /\ MaxMessage \in Nat
  BY SizesAssumption, PowersAssumption

\* A Read returns no more than there is and no more than it was asked for.
LEMMA ReadBounds ==
    ASSUME NEW n \in Nat, NEW m \in Nat, NEW k \in Read(n, m)
    PROVE  k \in Nat /\ k <= n /\ k <= m /\ most(n, m) \in Nat
  BY DEF Read, most

\* A header read in one piece is the size of the response.
LEMMA WholeHeader ==
    ASSUME TypeOK, NEW e \in Exchanges, NEW n \in 0..Header
    PROVE  Uint32(e, n) \in Nat /\ (n = Header => Uint32(e, n) = resp[e])
<1>1. Header \in Nat /\ resp[e] \in Nat /\ req[e] \in Nat
  BY SizesAreNat DEF TypeOK
<1>2. Header - n \in 0..Header
  BY <1>1
<1>3. PICK u \in Nat \ {0} : u = Base^(Header - n)
  BY <1>2, PowersAssumption
<1>4. Uint32(e, n) = ((resp[e] \div u) * u) + (req[e] % u)
  BY <1>3 DEF Uint32
<1>5. resp[e] \div u \in Nat /\ req[e] % u \in Nat
  BY <1>1, <1>3
<1>6. (resp[e] \div u) * u \in Nat
  BY <1>3, <1>5
<1>7. Uint32(e, n) \in Nat
  BY <1>4, <1>5, <1>6
<1>8. ASSUME n = Header PROVE Uint32(e, n) = resp[e]
  <2>1. Header - n = 0
    BY <1>1, <1>8
  <2>2. u = 1
    BY <1>3, <2>1, PowersAssumption
  <2> QED BY <1>1, <1>4, <2>2
<1> QED BY <1>7, <1>8

\* The deferred calls of an exchange that returns.
LEMMA ReturnRuns ==
    ASSUME TypeOK, BufferIsOwned, NEW e \in Exchanges, NEW p \in Points, return(e, p)
    PROVE  /\ pc' \in [Exchanges -> Points] /\ pc'[e] = p
           /\ deadline' \in [Exchanges -> BOOLEAN] /\ ~deadline'[e]
           /\ pool' \in SUBSET Buffers
           /\ buf' \in [Exchanges -> Buffers \cup {NoBuffer}] /\ buf'[e] = NoBuffer
           /\ BufferIsOwned'
           /\ \A f \in Exchanges \ {e} :
                pc'[f] = pc[f] /\ deadline'[f] = deadline[f] /\ buf'[f] = buf[f]
<1>1. /\ pc' \in [Exchanges -> Points] /\ pc'[e] = p
      /\ deadline' \in [Exchanges -> BOOLEAN] /\ ~deadline'[e]
      /\ buf' \in [Exchanges -> Buffers \cup {NoBuffer}] /\ buf'[e] = NoBuffer
      /\ \A f \in Exchanges \ {e} :
            pc'[f] = pc[f] /\ deadline'[f] = deadline[f] /\ buf'[f] = buf[f]
  BY DEF return, goto, TypeOK
<1>2. pool' = pool \cup ({buf[e]} \ {NoBuffer}) /\ pool' \in SUBSET Buffers
  BY DEF return, TypeOK
<1>3. BufferIsOwned'
  BY <1>1, <1>2 DEF BufferIsOwned
<1> QED BY <1>1, <1>2, <1>3

-----------------------------------------------------------------------------

LEMMA InitIInv == Init => IInv
<1> SUFFICES ASSUME Init PROVE IInv
  OBVIOUS
<1>1. TypeOK
  BY DEF Init, TypeOK, Points
<1>2. BufferIsOwned
  BY DEF Init, BufferIsOwned
<1>3. ASSUME NEW e \in Exchanges PROVE ReadSound(e) /\ DeferSound(e) /\ OutcomeSound(e)
  BY DEF Init, ReadSound, DeferSound, OutcomeSound, Returned
<1> QED BY <1>1, <1>2, <1>3 DEF IInv

\* Nothing an exchange does shows in the state of another.
LEMMA OthersUntouched ==
    ASSUME IInv, NEW e \in Exchanges, NEW f \in Exchanges \ {e},
           Token(e) \/ Fails(e) \/ Step(e) \/ Write(e) \/ ReadSize(e) \/ ReadBody(e)
    PROVE  (ReadSound(f) /\ DeferSound(f) /\ OutcomeSound(f))'
<1>1. /\ pc'[f] = pc[f] /\ deadline'[f] = deadline[f] /\ buf'[f] = buf[f] /\ room'[f] = room[f]
      /\ size'[f] = size[f] /\ pos'[f] = pos[f] /\ garbled'[f] = garbled[f]
      /\ broken'[f] = broken[f] /\ short'[f] = short[f] /\ UNCHANGED messages
  BY DEF IInv, TypeOK, Token, Fails, Step, Get, Unmarshal, Write, ReadSize, ReadBody, return, goto
<1> QED BY <1>1 DEF IInv, ReadSound, DeferSound, OutcomeSound, messages

\* Each step of an exchange preserves what the invariant says of it and of the
\* pool.
LEMMA StepIInv ==
    ASSUME IInv, NEW e \in Exchanges,
           Token(e) \/ Fails(e) \/ Step(e) \/ Write(e) \/ ReadSize(e) \/ ReadBody(e)
    PROVE  TypeOK' /\ BufferIsOwned' /\ (ReadSound(e) /\ DeferSound(e) /\ OutcomeSound(e))'
<1>a. /\ TypeOK /\ BufferIsOwned /\ ReadSound(e) /\ DeferSound(e) /\ OutcomeSound(e)
      /\ Header \in Nat \ {0} /\ MaxMessage \in Nat /\ resp[e] \in Nat /\ req[e] \in Nat
      /\ size[e] \in Nat /\ pos[e] \in Nat /\ room[e] \in Nat
  BY SizesAreNat DEF IInv, TypeOK
<1>1. CASE Token(e)
  BY <1>1, <1>a DEF Token, goto, messages, TypeOK, Points, BufferIsOwned, ReadSound, DeferSound,
     OutcomeSound, Returned
<1>2. CASE Write(e)
  BY <1>2, <1>a DEF Write, goto, messages, TypeOK, Points, BufferIsOwned, ReadSound, DeferSound,
     OutcomeSound, Returned
<1>3. CASE Fails(e)
  <2>1. return(e, "failed") /\ "failed" \in Points
    BY <1>3 DEF Fails, Points
  <2>2. /\ pc' \in [Exchanges -> Points] /\ pc'[e] = "failed"
        /\ deadline' \in [Exchanges -> BOOLEAN] /\ ~deadline'[e]
        /\ pool' \in SUBSET Buffers
        /\ buf' \in [Exchanges -> Buffers \cup {NoBuffer}] /\ buf'[e] = NoBuffer
        /\ BufferIsOwned'
    BY <1>a, <2>1, ReturnRuns
  <2>3. broken' \in [Exchanges -> BOOLEAN] /\ broken'[e]
    BY <1>3, <1>a DEF Fails, TypeOK
  <2> QED BY <1>3, <1>a, <2>2, <2>3 DEF Fails, messages, TypeOK, ReadSound, DeferSound, OutcomeSound
<1>4. CASE Get(e)
  <2>1. PICK b \in pool : pool' = pool \ {b} /\ buf' = [buf EXCEPT ![e] = b]
    BY <1>4 DEF Get
  <2>2. BufferIsOwned'
    BY <1>a, <2>1 DEF BufferIsOwned, TypeOK
  <2>3. PICK r \in Nat : r >= MaxMessage /\ room' = [room EXCEPT ![e] = r]
    <3> DEFINE q == IF Header + req[e] <= MaxMessage THEN MaxMessage ELSE Header + req[e]
    <3>1. q \in Nat /\ q >= MaxMessage
      BY <1>a
    <3>2. room' = [room EXCEPT ![e] = q]
      BY <1>4 DEF Get
    <3> QED BY <3>1, <3>2
  <2>4. TypeOK'
    BY <1>4, <1>a, <2>1, <2>3 DEF Get, goto, messages, TypeOK, Points
  <2>5. pc[e] = "get" /\ pc'[e] = "write" /\ room'[e] = r /\ UNCHANGED <<messages, short, pos>>
    BY <1>4, <1>a, <2>3 DEF Get, goto, TypeOK
  <2> QED BY <1>a, <2>2, <2>3, <2>4, <2>5
    DEF ReadSound, DeferSound, OutcomeSound, Returned
<1>5. CASE ReadSize(e)
  <2>1. PICK n \in Read(Header, Header) :
        /\ pos' = [pos EXCEPT ![e] = n]
        /\ size' = [size EXCEPT ![e] = Uint32(e, n)]
        /\ IF Fits(e, Uint32(e, n))
           THEN goto(e, "readBody") /\ UNCHANGED <<pool, buf, deadline>>
           ELSE return(e, "panicked")
        /\ short' = IF n < Header THEN [short EXCEPT ![e] = "size"] ELSE short
    BY <1>5 DEF ReadSize
  <2>2. n \in Nat /\ n <= Header
    BY <1>a, ReadBounds
  <2>3. Uint32(e, n) \in Nat /\ (n = Header => Uint32(e, n) = resp[e])
    BY <1>a, <2>2, WholeHeader
  <2>4. /\ pc[e] = "readSize" /\ UNCHANGED <<messages, room, garbled, broken>>
        /\ short[e] = "none" /\ room[e] >= MaxMessage
    BY <1>5, <1>a DEF ReadSize, ReadSound
  <2>5. /\ pos' \in [Exchanges -> Nat] /\ pos'[e] = n
        /\ size' \in [Exchanges -> Nat] /\ size'[e] = Uint32(e, n)
        /\ short' \in [Exchanges -> {"none", "size", "body"}]
        /\ n < Header => short'[e] = "size"
        /\ ~(n < Header) => short'[e] = "none"
    BY <1>a, <2>1, <2>2, <2>3, <2>4 DEF TypeOK
  <2>6. ~(n < Header) => n = Header
    BY <1>a, <2>2
  <2>7. CASE Fits(e, Uint32(e, n))
    <3>1. pc' = [pc EXCEPT ![e] = "readBody"] /\ UNCHANGED <<pool, buf, deadline>>
      BY <2>1, <2>7 DEF goto
    <3>2. TypeOK' /\ BufferIsOwned'
      BY <1>a, <2>4, <2>5, <3>1 DEF TypeOK, Points, messages, BufferIsOwned
    <3>3. pc'[e] = "readBody"
      BY <1>a, <3>1 DEF TypeOK
    <3> QED BY <1>a, <2>2, <2>3, <2>4, <2>5, <2>6, <3>2, <3>3
      DEF ReadSound, DeferSound, OutcomeSound, Returned, messages
  <2>8. CASE ~Fits(e, Uint32(e, n))
    <3>1. return(e, "panicked") /\ "panicked" \in Points
      BY <2>1, <2>8 DEF Points
    <3>2. /\ pc' \in [Exchanges -> Points] /\ pc'[e] = "panicked"
          /\ deadline' \in [Exchanges -> BOOLEAN] /\ ~deadline'[e]
          /\ pool' \in SUBSET Buffers
          /\ buf' \in [Exchanges -> Buffers \cup {NoBuffer}] /\ buf'[e] = NoBuffer
          /\ BufferIsOwned'
      BY <1>a, <3>1, ReturnRuns
    <3>3. TypeOK'
      BY <1>a, <2>4, <2>5, <3>2 DEF TypeOK, messages
    <3>4. resp[e] > MaxMessage \/ short'[e] = "size"
      BY <1>a, <2>3, <2>4, <2>5, <2>6, <2>8 DEF Fits
    <3> QED BY <2>4, <3>2, <3>3, <3>4 DEF ReadSound, DeferSound, OutcomeSound, messages
  <2> QED BY <2>7, <2>8
<1>6. CASE ReadBody(e)
  <2> DEFINE left == Header + resp[e] - pos[e]
  <2>1. PICK n \in Read(size[e], left) :
            /\ pos' = [pos EXCEPT ![e] = pos[e] + n]
            /\ garbled' = [garbled EXCEPT ![e] = pos[e] # Header \/ n # resp[e] \/ size[e] # resp[e]]
            /\ short' = IF n < most(size[e], left) /\ short[e] = "none"
                        THEN [short EXCEPT ![e] = "body"] ELSE short
    BY <1>6 DEF ReadBody
  <2>2. /\ pc[e] = "readBody" /\ pc' = [pc EXCEPT ![e] = "unmarshal"]
        /\ UNCHANGED <<messages, pool, buf, room, deadline, size, broken>>
    BY <1>6 DEF ReadBody, goto
  <2>3. pos[e] <= Header /\ (short[e] = "none" => pos[e] = Header /\ size[e] = resp[e])
    BY <1>a, <2>2 DEF ReadSound
  <2>4. left \in Nat /\ (short[e] = "none" => left = resp[e])
    BY <1>a, <2>3
  <2> HIDE DEF left
  <2>5. n \in Nat /\ n <= size[e] /\ n <= left
    BY <1>a, <2>4, ReadBounds
  <2>6. pos[e] + n \in Nat
    BY <1>a, <2>5
  <2>7. TypeOK'
    BY <1>a, <2>1, <2>2, <2>6 DEF TypeOK, Points, messages
  <2>8. BufferIsOwned'
    BY <1>a, <2>2 DEF BufferIsOwned
  <2>9. /\ pc'[e] = "unmarshal" /\ pos'[e] = pos[e] + n
        /\ garbled'[e] = (pos[e] # Header \/ n # resp[e] \/ size[e] # resp[e])
    BY <1>a, <2>1, <2>2 DEF TypeOK
  <2>10. short'[e] = "none" => short[e] = "none" /\ ~(n < most(size[e], left))
    BY <1>a, <2>1 DEF TypeOK
  <2>11. short'[e] = "none" => n = resp[e] /\ pos[e] = Header /\ size[e] = resp[e]
    BY <1>a, <2>3, <2>4, <2>5, <2>10 DEF most
  <2> QED BY <1>a, <2>2, <2>7, <2>8, <2>9, <2>11
    DEF ReadSound, DeferSound, OutcomeSound, Returned, messages
<1>7. CASE Unmarshal(e)
  <2>1. PICK ok \in IF garbled[e] THEN BOOLEAN ELSE {verdict[e]} :
            return(e, IF ok THEN "ok" ELSE "failed")
    BY <1>7 DEF Unmarshal
  <2>2. pc[e] = "unmarshal" /\ UNCHANGED <<messages, room, size, pos, garbled, broken, short>>
    BY <1>7 DEF Unmarshal
  <2>3. short[e] = "none" => ok = verdict[e] /\ pos[e] = Header + resp[e]
    BY <1>a, <2>1, <2>2 DEF ReadSound
  <2>4. ok \in BOOLEAN
    BY <1>a, <2>1 DEF TypeOK
  <2>5. PICK p \in Points : p = (IF ok THEN "ok" ELSE "failed") /\ return(e, p)
    BY <2>1 DEF Points
  <2>6. /\ pc' \in [Exchanges -> Points] /\ pc'[e] = p
        /\ deadline' \in [Exchanges -> BOOLEAN] /\ ~deadline'[e]
        /\ pool' \in SUBSET Buffers
        /\ buf' \in [Exchanges -> Buffers \cup {NoBuffer}] /\ buf'[e] = NoBuffer
        /\ BufferIsOwned'
    BY <1>a, <2>5, ReturnRuns
  <2>7. TypeOK'
    BY <1>a, <2>2, <2>6 DEF TypeOK, messages
  <2>8. OutcomeSound(e)'
    BY <2>2, <2>3, <2>5, <2>6 DEF OutcomeSound, messages
  <2> QED BY <2>5, <2>6, <2>7, <2>8 DEF ReadSound, DeferSound
<1> QED BY <1>1, <1>2, <1>3, <1>4, <1>5, <1>6, <1>7 DEF Step

LEMMA NextIInv == IInv /\ [Next]_vars => IInv'
<1> SUFFICES ASSUME IInv, [Next]_vars PROVE IInv'
  OBVIOUS
<1>1. CASE UNCHANGED vars
  BY <1>1 DEF vars, IInv, TypeOK, BufferIsOwned, ReadSound, DeferSound, OutcomeSound
<1>2. ASSUME NEW e \in Exchanges,
             Token(e) \/ Fails(e) \/ Step(e) \/ Write(e) \/ ReadSize(e) \/ ReadBody(e)
      PROVE  IInv'
  BY <1>2, StepIInv, OthersUntouched DEF IInv
<1> QED BY <1>1, <1>2 DEF Next

LEMMA Invariance == Spec => []IInv
  BY InitIInv, NextIInv, PTL DEF Spec

-----------------------------------------------------------------------------
(* The results                                                             *)

\* Every variable keeps its type, whatever the sizes of the messages.
THEOREM TypeCorrect == Spec => []TypeOK
  BY Invariance, PTL DEF IInv

\* However many exchanges run at once and however they end, no two share a
\* buffer, and none writes into one that the pool would hand out.
THEOREM BuffersAreOwned == Spec => []BufferIsOwned
  BY Invariance, PTL DEF IInv

\* A connection that is handed over has no deadline and, unless a Read came
\* short, was accepted and is at the first byte of the database protocol, for
\* messages of every size.
THEOREM ConnectionIsClean == Spec => []HandedOver
<1>1. IInv => HandedOver
  BY DEF IInv, HandedOver, DeferSound, OutcomeSound, Returned
<1> QED BY <1>1, Invariance, PTL

\* An accepted exchange on which nothing failed and no Read came short does
\* not fail, and only a response larger than the buffer, or a size that came
\* in pieces, makes the slice expression panic.
THEOREM AcceptedIsNotRefused == Spec => []AcceptedSucceeds
<1>1. IInv => AcceptedSucceeds
  BY DEF IInv, AcceptedSucceeds, OutcomeSound
<1> QED BY <1>1, Invariance, PTL

=============================================================================
