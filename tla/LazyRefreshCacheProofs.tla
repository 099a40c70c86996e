----------------------- MODULE LazyRefreshCacheProofs -----------------------
(***************************************************************************)
(* Proofs about the lazy cache, for any number of callers and every        *)
(* lifetime and buffer.                                                    *)
(***************************************************************************)
EXTENDS LazyRefreshCache, TLAPS

\* The cache remembers that its information was rejected.
ForceRemembered == bad => needsRefresh

\* The inductive invariant.
IInv ==
    /\ TypeOK
    /\ HolderFetches
    /\ ForceRemembered

LEMMA InitIInv == Init => IInv
<1> SUFFICES ASSUME Init PROVE IInv
  OBVIOUS
<1>1. TypeOK
  <2>1. left \in 0..Life
    BY TimeAssumption DEF Init
  <2>2. /\ mu \in Callers \cup {Nobody}
        /\ needsRefresh \in BOOLEAN
        /\ pc \in [Callers -> Points]
        /\ has \in SUBSET Callers
        /\ bad \in BOOLEAN
    BY DEF Init, Points
  <2> QED BY <2>1, <2>2 DEF TypeOK
<1>2. HolderFetches /\ ForceRemembered
  BY NobodyAssumption DEF Init, HolderFetches, ForceRemembered
<1> QED BY <1>1, <1>2 DEF IInv

\* Each step of a caller preserves the invariant.
LEMMA CallerPreserves ==
    ASSUME IInv, NEW c \in Callers, Enter(c) \/ Acquire(c) \/ Step(c)
    PROVE  IInv'
<1> USE NobodyAssumption, TimeAssumption
    DEF IInv, TypeOK, HolderFetches, ForceRemembered, Points, goto
<1>1. CASE Enter(c)
  BY <1>1 DEF Enter
<1>2. CASE Cached(c)
  BY <1>2 DEF Cached, Fresh
<1>3. CASE StartFetch(c)
  BY <1>3 DEF StartFetch, Fresh
<1>4. CASE ForceRefresh(c)
  BY <1>4 DEF ForceRefresh
<1>5. CASE FetchOk(c)
  BY <1>5 DEF FetchOk
<1>6. CASE FetchFails(c)
  BY <1>6 DEF FetchFails
<1>7. CASE CheckCert(c)
  BY <1>7 DEF CheckCert
<1>8. CASE DialEnds(c)
  BY <1>8 DEF DialEnds
<1> QED BY <1>1, <1>2, <1>3, <1>4, <1>5, <1>6, <1>7, <1>8 DEF Acquire, Step

LEMMA NextIInv == IInv /\ [Next]_vars => IInv'
<1> SUFFICES ASSUME IInv, [Next]_vars PROVE IInv'
  OBVIOUS
<1>1. CASE UNCHANGED vars
  BY <1>1 DEF vars, IInv, TypeOK, HolderFetches, ForceRemembered
<1>2. CASE Tick
  BY <1>2, TimeAssumption DEF Tick, IInv, TypeOK, HolderFetches, ForceRemembered
<1> QED BY <1>1, <1>2, CallerPreserves DEF Next

\* The invariant holds throughout every behaviour.
LEMMA Invariance == Spec => []IInv
  BY InitIInv, NextIInv, PTL DEF Spec

-----------------------------------------------------------------------------
(* The results                                                             *)

\* Every variable keeps its type.
THEOREM TypeCorrect == Spec => []TypeOK
  BY Invariance, PTL DEF IInv

\* One Admin API call at a time, and the mutex is with the caller that makes it.
THEOREM OneFetchAtATime == Spec => []HolderFetches
  BY Invariance, PTL DEF IInv

\* Information a Dial has rejected is never handed out again.
THEOREM ForceIsServed == Spec => ForcedInfoIsNew
<1>1. IInv /\ [Next]_vars =>
        [\A c \in Callers :
            pc[c] \in {"lock", "relock"} /\ pc'[c] \in {"check", "dialing"} => ~bad]_vars
  <2> SUFFICES ASSUME IInv, Next, NEW c \in Callers,
                      pc[c] \in {"lock", "relock"}, pc'[c] \in {"check", "dialing"}
               PROVE  ~bad
    OBVIOUS
  <2>1. Cached(c)
    BY DEF Next, Tick, Enter, Acquire, Step, StartFetch, ForceRefresh, FetchOk, FetchFails,
       CheckCert, DialEnds, Cached, goto, IInv, TypeOK
  <2> QED BY <2>1 DEF Cached, Fresh, IInv, ForceRemembered
<1> QED BY <1>1, Invariance, PTL DEF Spec, ForcedInfoIsNew

=============================================================================
