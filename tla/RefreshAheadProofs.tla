------------------------- MODULE RefreshAheadProofs -------------------------
(***************************************************************************)
(* Proofs about the refresh cycle: first without time, for every set of    *)
(* callers and every set of operations; then with time, for every value of *)
(* the buffer, the limiter, the timeout and the lifetimes.                 *)
(***************************************************************************)
EXTENDS RefreshAheadTimed, SequenceTheorems, TLAPS

\* The inductive invariant.
IInv ==
    /\ TypeOK
    /\ SingleRefresh
    /\ CycleAlive
    /\ CurNeverDangling
    /\ ResultMatchesPhase

-----------------------------------------------------------------------------
(* Lemmas about the operations that several actions share                  *)

\* What scheduleRefresh leaves behind: the fresh operation is pending and has
\* no result, every operation in use keeps its result, the others have none and
\* are as good as new.
LEMMA Scheduled ==
    ASSUME TypeOK, NEW o \in Ops, NEW ph \in [Ops -> Phases], scheduleRefresh(o, ph)
    PROVE  /\ phase' \in [Ops -> Phases]
           /\ result' \in [Ops -> Results]
           /\ next' = o
           /\ ~InUse(o)
           /\ phase'[o] = "pending" /\ result'[o] = "none"
           /\ \A p \in Ops : p # o => phase'[p] \in {ph[p], "idle"}
           /\ \A p \in Ops : InUse(p) => result'[p] = result[p]
           /\ \A p \in Ops : ~InUse(p) => result'[p] = "none"
  BY DEF scheduleRefresh, TypeOK, Phases, Results

\* ForceRefresh preserves the part of the invariant that is about the cache.
LEMMA ForceRefreshPreserves ==
    ASSUME IInv, ForceRefresh
    PROVE  /\ phase' \in [Ops -> Phases] /\ result' \in [Ops -> Results]
           /\ cur' \in Ops /\ next' \in Ops /\ closed' \in BOOLEAN
           /\ SingleRefresh' /\ CycleAlive' /\ CurNeverDangling' /\ ResultMatchesPhase'
<1>1. CASE ~cancel(next)
  BY <1>1 DEF IInv, TypeOK, ForceRefresh, SingleRefresh, CycleAlive, CurNeverDangling,
              ResultMatchesPhase, Active, Ready, isValid
<1>2. CASE cancel(next)
  <2> DEFINE ph == [phase EXCEPT ![next] = "stopped"]
  <2>1. PICK o \in Ops : scheduleRefresh(o, ph)
    BY <1>2 DEF ForceRefresh
  <2>2. ph \in [Ops -> Phases] /\ ph[next] = "stopped" /\ \A p \in Ops : p # next => ph[p] = phase[p]
    BY DEF IInv, TypeOK, Phases
  <2> HIDE DEF ph
  <2>3. /\ phase' \in [Ops -> Phases] /\ result' \in [Ops -> Results]
        /\ next' = o /\ ~InUse(o)
        /\ phase'[o] = "pending" /\ result'[o] = "none"
        /\ \A p \in Ops : p # o => phase'[p] \in {ph[p], "idle"}
        /\ \A p \in Ops : InUse(p) => result'[p] = result[p]
        /\ \A p \in Ops : ~InUse(p) => result'[p] = "none"
    BY <2>1, <2>2, Scheduled DEF IInv
  <2>4. \A p \in Ops : p # o => phase'[p] \in {"idle", "stopped"}
    BY <2>2, <2>3 DEF IInv, SingleRefresh, Active
  <2>5. cur' \in Ops /\ closed' = closed /\ (~isValid(cur) => cur' = o) /\ (isValid(cur) => cur' = cur)
    BY <2>3 DEF ForceRefresh, IInv, TypeOK
  <2>6. isValid(cur) => result'[cur] = "ok"
    BY <2>3 DEF InUse, isValid, IInv, TypeOK
  <2>7. SingleRefresh' /\ CycleAlive'
    BY <2>3, <2>4 DEF SingleRefresh, CycleAlive, Active
  <2>8. CurNeverDangling'
    BY <2>3, <2>5, <2>6 DEF CurNeverDangling, Ready
  <2>9. ResultMatchesPhase'
    BY <2>3, <2>4 DEF ResultMatchesPhase
  <2> QED BY <2>3, <2>5, <2>7, <2>8, <2>9 DEF IInv, TypeOK
<1> QED BY <1>1, <1>2

\* Close preserves it too.
LEMMA ClosePreserves ==
    ASSUME IInv, Close
    PROVE  /\ phase' \in [Ops -> Phases] /\ result' \in [Ops -> Results]
           /\ cur' \in Ops /\ next' \in Ops /\ closed' \in BOOLEAN
           /\ SingleRefresh' /\ CycleAlive' /\ CurNeverDangling' /\ ResultMatchesPhase'
  BY DEF IInv, TypeOK, Close, SingleRefresh, CycleAlive, CurNeverDangling,
         ResultMatchesPhase, Active, Ready, cancel, Phases

\* The variables of the callers have their type after a caller's jump.
LEMMA GotoTypes ==
    ASSUME TypeOK, NEW c \in Callers, NEW p \in Points, NEW o \in Ops \cup {NoOp}, goto(c, p, o)
    PROVE  pc' \in [Callers -> Points] /\ on' \in [Callers -> Ops \cup {NoOp}]
  BY DEF TypeOK, goto

-----------------------------------------------------------------------------

LEMMA InitIInv == Init => IInv
<1> SUFFICES ASSUME Init PROVE IInv
  OBVIOUS
<1>1. PICK o \in Ops :
        phase = [p \in Ops |-> IF p = o THEN "pending" ELSE "idle"] /\ cur = o /\ next = o
  BY DEF Init
<1> QED
  BY <1>1 DEF Init, IInv, TypeOK, SingleRefresh, CycleAlive, CurNeverDangling, ResultMatchesPhase,
         Phases, Results, Points, Active, Ready

\* Each step of a callback, and the passing of time, preserves the invariant.
LEMMA CallbackPreserves ==
    ASSUME IInv, NEW o \in Ops, Callback(o) \/ Expire(o)
    PROVE  IInv'
<1> USE DEF IInv, TypeOK, SingleRefresh, CycleAlive, CurNeverDangling, ResultMatchesPhase,
            Phases, Results, Active, Ready
<1>1. CASE Fire(o)
  BY <1>1 DEF Fire, callerVars
<1>2. CASE ClosedExit(o)
  BY <1>2 DEF ClosedExit, callerVars
<1>3. CASE Begin(o)
  BY <1>3 DEF Begin, callerVars
<1>4. CASE WaitPasses(o)
  BY <1>4 DEF WaitPasses, callerVars
<1>5. CASE WaitFails(o)
  BY <1>5 DEF WaitFails, callerVars
<1>6. ASSUME NEW r \in Results \ {"none"}, FetchReturns(o, r) PROVE IInv'
  BY <1>6 DEF FetchReturns, callerVars
<1>7. CASE Install(o)
  <2> DEFINE ph == [phase EXCEPT ![o] = "idle"]
  <2>1. PICK n \in Ops : scheduleRefresh(n, ph)
    BY <1>7 DEF Install
  <2>2. ph \in [Ops -> Phases] /\ ph[o] = "idle" /\ \A p \in Ops : p # o => ph[p] = phase[p]
    OBVIOUS
  <2>3. phase[o] = "settled" /\ o = next
    BY <1>7 DEF Install
  <2> HIDE DEF ph
  <2>4. /\ phase' \in [Ops -> Phases] /\ result' \in [Ops -> Results]
        /\ next' = n /\ ~InUse(n)
        /\ phase'[n] = "pending" /\ result'[n] = "none"
        /\ \A p \in Ops : p # n => phase'[p] \in {ph[p], "idle"}
        /\ \A p \in Ops : InUse(p) => result'[p] = result[p]
        /\ \A p \in Ops : ~InUse(p) => result'[p] = "none"
    BY <2>1, <2>2, Scheduled
  <2>5. \A p \in Ops : p # n => phase'[p] \in {"idle", "stopped"}
    BY <2>2, <2>3, <2>4
  <2>6. cur' \in {cur, o} /\ (cur' = cur => isValid(cur) \/ cur = o) /\ UNCHANGED <<closed, callerVars>>
    BY <1>7 DEF Install
  <2>7. result'[cur'] # "none"
    BY <2>3, <2>4, <2>6 DEF InUse, isValid
  <2>8. TypeOK'
    BY <2>4, <2>6 DEF callerVars
  <2>9. SingleRefresh' /\ CycleAlive' /\ CurNeverDangling'
    BY <2>4, <2>5, <2>7
  <2>10. ResultMatchesPhase'
    BY <2>4, <2>5
  <2> QED BY <2>8, <2>9, <2>10
<1>8. CASE Expire(o)
  BY <1>8 DEF Expire, callerVars
<1> QED BY <1>1, <1>2, <1>3, <1>4, <1>5, <1>6, <1>7, <1>8 DEF Callback

\* Each step of a caller preserves the invariant.
LEMMA CallerPreserves ==
    ASSUME IInv, NEW c \in Callers, Dial(c) \/ Enter(c) \/ InfoCancelled(c)
    PROVE  IInv'
<1>a. /\ NoOp \in Ops \cup {NoOp} /\ cur \in Ops \cup {NoOp} /\ on[c] \in Ops \cup {NoOp}
      /\ Points = {"idle", "lookup", "wait", "check", "forced", "rewait", "dialing", "remove"}
  BY DEF IInv, TypeOK, Points
<1>b. ASSUME UNCHANGED cacheVars, NEW p \in Points, NEW o \in Ops \cup {NoOp}, goto(c, p, o)
      PROVE  IInv'
  BY <1>b, GotoTypes DEF IInv, TypeOK, SingleRefresh, CycleAlive, CurNeverDangling,
     ResultMatchesPhase, Active, Ready, cacheVars
<1>c. ASSUME ForceRefresh, NEW p \in Points, goto(c, p, NoOp) PROVE IInv'
  BY <1>c, GotoTypes, ForceRefreshPreserves DEF IInv, TypeOK
<1>d. ASSUME Close, NEW p \in Points, goto(c, p, NoOp) PROVE IInv'
  BY <1>d, GotoTypes, ClosePreserves DEF IInv, TypeOK
<1>1. CASE Enter(c)
  BY <1>1, <1>a, <1>b DEF Enter
<1>2. CASE ReadCur(c)
  BY <1>2, <1>a, <1>b DEF ReadCur
<1>3. CASE InfoReady(c)
  BY <1>3, <1>a, <1>b DEF InfoReady
<1>4. CASE InfoClosed(c)
  BY <1>4, <1>a, <1>b DEF InfoClosed
<1>5. CASE InfoCancelled(c)
  BY <1>5, <1>a, <1>b DEF InfoCancelled
<1>6. CASE CheckCert(c)
  BY <1>6, <1>a, <1>b, <1>c DEF CheckCert
<1>7. CASE DialEnds(c)
  BY <1>7, <1>a, <1>b DEF DialEnds
<1>8. CASE DialFails(c)
  BY <1>8, <1>a, <1>c DEF DialFails
<1>9. CASE MissingIP(c)
  BY <1>9, <1>a, <1>b DEF MissingIP
<1>10. CASE Remove(c)
  BY <1>10, <1>a, <1>d DEF Remove
<1> QED BY <1>1, <1>2, <1>3, <1>4, <1>5, <1>6, <1>7, <1>8, <1>9, <1>10 DEF Dial

LEMMA NextIInv == IInv /\ [Next]_vars => IInv'
<1> SUFFICES ASSUME IInv, [Next]_vars PROVE IInv'
  OBVIOUS
<1>1. CASE UNCHANGED vars
  BY <1>1 DEF vars, IInv, TypeOK, SingleRefresh, CycleAlive, CurNeverDangling,
     ResultMatchesPhase, Active, Ready
<1>2. CASE DialerClose
  BY <1>2, ClosePreserves DEF DialerClose, IInv, TypeOK, callerVars
<1> QED BY <1>1, <1>2, CallbackPreserves, CallerPreserves DEF Next

\* The invariant holds throughout every behaviour.
LEMMA Invariance == Spec => []IInv
  BY InitIInv, NextIInv, PTL DEF Spec

-----------------------------------------------------------------------------
(* The results                                                             *)

\* Every variable keeps its type, whatever the callers and operations.
THEOREM TypeCorrect == Spec => []TypeOK
  BY Invariance, PTL DEF IInv

\* However many Dials force refreshes, fail or close the cache, at most one
\* refresh is armed or under way, and it is i.next.
THEOREM OneRefreshAtATime == Spec => []SingleRefresh
  BY Invariance, PTL DEF IInv

\* The refresh cycle of an open cache never dies.
THEOREM CycleNeverDies == Spec => []CycleAlive
  BY Invariance, PTL DEF IInv

\* A Dial that reads i.cur on an open cache reads an operation that is
\* complete or under way.
THEOREM CurIsServed == Spec => []CurNeverDangling
  BY Invariance, PTL DEF IInv

\* A Dial that forced a refresh because of an expired certificate does not
\* leave the operation that brought it current, outside the window in which
\* that operation's callback waits for resultGuard.
THEOREM ForceMovesOn == Spec => ForceReplacesExpired
<1> DEFINE A == \A c \in Callers :
        pc[c] = "check" /\ pc'[c] = "forced" => cur' # on[c] \/ phase[on[c]] = "settled"
<1>1. IInv /\ [Next]_vars => [A]_vars
  <2> SUFFICES ASSUME IInv, Next, NEW c \in Callers, pc[c] = "check", pc'[c] = "forced",
                      cur' = on[c]
               PROVE  phase[on[c]] = "settled"
    OBVIOUS
  <2>1. CheckCert(c)
    <3>1. ASSUME NEW d \in Callers, Dial(d) \/ Enter(d) \/ InfoCancelled(d) PROVE d = c
      BY <3>1 DEF Dial, Enter, InfoCancelled, ReadCur, InfoReady, InfoClosed, CheckCert,
         DialEnds, DialFails, MissingIP, Remove, goto, IInv, TypeOK
    <3>2. ASSUME NEW o \in Ops, Callback(o) \/ Expire(o) PROVE pc' = pc
      BY <3>2 DEF Callback, Expire, Fire, ClosedExit, Begin, WaitPasses, WaitFails,
         FetchReturns, Install, callerVars
    <3>3. Dial(c) \/ Enter(c) \/ InfoCancelled(c)
      BY <3>1, <3>2 DEF Next, DialerClose, callerVars
    <3> QED
      BY <3>3 DEF Dial, Enter, InfoCancelled, ReadCur, InfoReady, InfoClosed,
         DialEnds, DialFails, MissingIP, Remove
  <2>2. result[on[c]] = "expired" /\ ForceRefresh
    BY <2>1 DEF CheckCert, invalidClientCert, goto, IInv, TypeOK
  <2>3. ~isValid(cur) /\ next' = on[c]
    BY <2>2 DEF ForceRefresh, isValid
  <2>4. CASE cancel(next)
    BY <2>2, <2>3, <2>4 DEF ForceRefresh, scheduleRefresh, InUse
  <2>5. CASE ~cancel(next)
    BY <2>2, <2>3, <2>5 DEF ForceRefresh, cancel, IInv, TypeOK, Phases, ResultMatchesPhase
  <2> QED BY <2>4, <2>5
<1> QED BY <1>1, Invariance, PTL DEF Spec, ForceReplacesExpired

\* The refresh-ahead cache implements the abstract cache: valid information
\* is lost only to its expiration or to what another refresh brought.
THEOREM Refinement == Spec => ImplementsAbstract
<1> USE DEF Results
<1>1. Init => Abstract!Init
  BY DEF Init, Abstract!Init
<1>2. IInv /\ [Next]_vars => [Abstract!Next]_(Abstract!vars)
  <2> SUFFICES ASSUME IInv, [Next]_vars,
                      ~(result'[cur'] = result[cur] /\ closed' = closed)
               PROVE  Abstract!Next
    BY DEF Abstract!vars
  <2> USE DEF Abstract!Next, Abstract!Renew, Abstract!Lapse, Abstract!Fail, Abstract!Block,
              Abstract!Shut
  <2>1. ASSUME Close PROVE Abstract!Next
    BY <2>1 DEF Close
  <2>2. ASSUME ForceRefresh PROVE Abstract!Next
    <3>1. cur' \in Ops /\ result' \in [Ops -> Results] /\ closed' = closed
      BY <2>2, ForceRefreshPreserves DEF ForceRefresh
    <3>2. isValid(cur) => cur' = cur /\ result'[cur] = result[cur]
      BY <2>2 DEF ForceRefresh, scheduleRefresh, InUse, IInv, TypeOK
    <3> QED BY <3>1, <3>2 DEF isValid
  <2>3. ASSUME NEW o \in Ops, Install(o) PROVE Abstract!Next
    <3>1. PICK n \in Ops : scheduleRefresh(n, [phase EXCEPT ![o] = "idle"])
      BY <2>3 DEF Install
    <3>2. result'[cur] = result[cur] /\ result'[o] = result[o]
      BY <2>3, <3>1 DEF Install, scheduleRefresh, InUse, Active, IInv, TypeOK
    <3>3. result[o] \in Results \ {"none"}
      BY <2>3 DEF Install, IInv, TypeOK, ResultMatchesPhase
    <3> QED BY <2>3, <3>2, <3>3 DEF Install, isValid
  <2>4. ASSUME NEW o \in Ops,
               \/ Fire(o) \/ ClosedExit(o) \/ Begin(o) \/ WaitPasses(o) \/ WaitFails(o)
               \/ (\E r \in Results \ {"none"} : FetchReturns(o, r)) \/ Expire(o)
        PROVE Abstract!Next
    BY <2>4 DEF Fire, ClosedExit, Begin, WaitPasses, WaitFails, FetchReturns, Expire,
       IInv, TypeOK, ResultMatchesPhase
  <2>5. ASSUME UNCHANGED cacheVars PROVE FALSE
    BY <2>5 DEF cacheVars
  <2>6. CASE UNCHANGED vars
    BY <2>6, <2>5 DEF vars, cacheVars
  <2>7. CASE DialerClose
    BY <2>7, <2>1 DEF DialerClose
  <2>8. ASSUME NEW c \in Callers, Dial(c) \/ Enter(c) \/ InfoCancelled(c) PROVE Abstract!Next
    BY <2>8, <2>1, <2>2, <2>5 DEF Dial, Enter, InfoCancelled, ReadCur, InfoReady, InfoClosed,
       CheckCert, DialEnds, DialFails, MissingIP, Remove
  <2> QED BY <2>3, <2>4, <2>6, <2>7, <2>8 DEF Next, Callback
<1> QED BY <1>1, <1>2, Invariance, PTL DEF Spec, ImplementsAbstract, Abstract!Spec

-----------------------------------------------------------------------------
(* Every behaviour with time is one of RefreshAheadCache                   *)

\* A step with time is a step of RefreshAheadCache, or one that only the
\* clocks notice.
LEMMA TimedStep == [TNext]_tvars => [Next]_vars
<1> SUFFICES ASSUME [TNext]_tvars PROVE [Next]_vars
  OBVIOUS
<1>1. ASSUME NEW o \in Ops, TSteps(o) PROVE Next
  BY <1>1 DEF TSteps, TFire, TClosedExit, TBegin, TWaitPasses, TWaitFails, TInstall, TExpire,
     Next, Callback
<1>2. ASSUME NEW o \in Ops, NEW r \in {"ok", "err"}, TFetchReturns(o, r) PROVE Next
  BY <1>2 DEF TFetchReturns, Next, Callback, Results
<1>3. CASE TDial
  BY <1>3 DEF TDial, Next
<1>4. CASE Tick
  BY <1>4 DEF Tick, vars
<1>5. CASE UNCHANGED tvars
  BY <1>5 DEF tvars
<1> QED BY <1>1, <1>2, <1>3, <1>4, <1>5 DEF TNext

LEMMA TimedIInv == TimedSpec => []IInv
<1>1. TInit => IInv
  BY InitIInv DEF TInit
<1>2. IInv /\ [TNext]_tvars => IInv'
  BY TimedStep, NextIInv
<1> QED BY <1>1, <1>2, PTL DEF TimedSpec

-----------------------------------------------------------------------------
(* What a step does to i.cur and i.next                                    *)

\* A step of a Dial or of Close replaces i.next by a fresh operation if its
\* timer had not fired, stops that timer for good, or leaves i.next alone; it
\* moves i.cur only away from invalid information, and only to i.next.
LEMMA DialStep ==
    ASSUME IInv, DialerClose \/ \E c \in Callers : Dial(c) \/ Enter(c) \/ InfoCancelled(c)
    PROVE  /\ closed => closed'
           /\ \/ /\ phase[next] = "pending" /\ closed' = closed
                 /\ next' # next /\ phase'[next'] = "pending" /\ result'[next'] = "none"
              \/ next' = next /\ phase'[next] = phase[next] /\ result' = result
              \/ next' = next /\ phase[next] = "pending" /\ phase'[next] = "stopped" /\ closed'
                 /\ result' = result
           /\ cur' = cur \/ (~isValid(cur) /\ cur' = next')
           /\ result'[cur] = result[cur] /\ result'[next] = result[next]
<1> DEFINE Goal ==
           /\ closed => closed'
           /\ \/ /\ phase[next] = "pending" /\ closed' = closed
                 /\ next' # next /\ phase'[next'] = "pending" /\ result'[next'] = "none"
              \/ next' = next /\ phase'[next] = phase[next] /\ result' = result
              \/ next' = next /\ phase[next] = "pending" /\ phase'[next] = "stopped" /\ closed'
                 /\ result' = result
           /\ cur' = cur \/ (~isValid(cur) /\ cur' = next')
           /\ result'[cur] = result[cur] /\ result'[next] = result[next]
<1>1. ASSUME UNCHANGED cacheVars PROVE Goal
  BY <1>1 DEF cacheVars
<1>2. ASSUME Close PROVE Goal
  BY <1>2 DEF Close, cancel, IInv, TypeOK
<1>3. ASSUME ForceRefresh PROVE Goal
  <2>1. CASE ~cancel(next)
    BY <1>3, <2>1 DEF ForceRefresh
  <2>2. CASE cancel(next)
    <3>1. PICK o \in Ops : scheduleRefresh(o, [phase EXCEPT ![next] = "stopped"])
      BY <1>3, <2>2 DEF ForceRefresh
    <3>2. [phase EXCEPT ![next] = "stopped"] \in [Ops -> Phases]
      BY DEF IInv, TypeOK, Phases
    <3>3. /\ next' = o /\ ~InUse(o) /\ phase'[o] = "pending" /\ result'[o] = "none"
          /\ \A p \in Ops : InUse(p) => result'[p] = result[p]
      BY <3>1, <3>2, Scheduled DEF IInv
    <3>4. o # next /\ result'[cur] = result[cur] /\ result'[next] = result[next]
      BY <3>3 DEF InUse, IInv, TypeOK
    <3> QED BY <1>3, <2>2, <3>3, <3>4 DEF ForceRefresh, cancel
  <2> QED BY <2>1, <2>2
<1>4. CASE DialerClose
  BY <1>2, <1>4 DEF DialerClose
<1>5. ASSUME NEW c \in Callers, Dial(c) \/ Enter(c) \/ InfoCancelled(c) PROVE Goal
  BY <1>5, <1>1, <1>2, <1>3 DEF Dial, Enter, InfoCancelled, ReadCur, InfoReady, InfoClosed,
     CheckCert, DialEnds, DialFails, MissingIP, Remove
<1> QED BY <1>4, <1>5

\* The end of the callback arms a fresh operation.
LEMMA InstallStep ==
    ASSUME IInv, NEW o \in Ops, Install(o)
    PROVE  /\ o = next /\ phase[next] = "settled" /\ closed' = closed
           /\ next' # next /\ phase'[next'] = "pending" /\ result'[next'] = "none"
           /\ cur' = IF result[next] = "err" /\ isValid(cur) THEN cur ELSE next
           /\ result'[cur] = result[cur] /\ result'[next] = result[next]
<1>1. PICK n \in Ops : scheduleRefresh(n, [phase EXCEPT ![o] = "idle"])
  BY DEF Install
<1>2. [phase EXCEPT ![o] = "idle"] \in [Ops -> Phases]
  BY DEF IInv, TypeOK, Phases
<1>3. /\ next' = n /\ ~InUse(n) /\ phase'[n] = "pending" /\ result'[n] = "none"
      /\ \A p \in Ops : InUse(p) => result'[p] = result[p]
  BY <1>1, <1>2, Scheduled DEF IInv
<1>4. phase[o] = "settled" /\ o = next
  BY DEF Install, IInv, SingleRefresh, Active
<1> QED BY <1>3, <1>4 DEF Install, InUse, IInv, TypeOK

-----------------------------------------------------------------------------
(* The clocks                                                              *)

\* The limiter owes nobody but the callback that waits, and that one no more
\* than it will have when its wait is over, which is before its deadline.
LimiterSound ==
    /\ phase[next] # "waiting" => hold = 0
    /\ hold > 0 => fill + hold = 0 /\ ran + hold <= RefreshTimeout
    /\ hold <= 0 => fill >= 0

Clocks == TimeTypeOK /\ LimiterSound

LEMMA Prefix ==
    ASSUME NEW S, NEW u, NEW m \in Nat, 1 <= m, \A k \in 1..m : u[k] \in S
    PROVE  /\ SubSeq(u, 1, m) \in Seq(S)
           /\ Len(SubSeq(u, 1, m)) = m
           /\ \A k \in 1..m : SubSeq(u, 1, m)[k] = u[k]
  BY SubSeqProperties

\* What the history of cycles is after one more.
LEMMA OneMoreStart ==
    ASSUME NEW S, 0 \in S, NEW s \in Seq(S), NEW m \in Nat, 1 <= m, m <= Len(s) + 1
    PROVE  LET t == SubSeq(<<0>> \o s, 1, m)
           IN  /\ t \in Seq(S)
               /\ Len(t) = m
               /\ t[1] = 0
               /\ \A k \in 2..m : k - 1 \in 1..Len(s) /\ t[k] = s[k - 1]
<1> DEFINE u == <<0>> \o s
<1>1. Len(u) = Len(s) + 1 /\ u[1] = 0 /\ \A k \in 2..Len(u) : u[k] = s[k - 1]
  OBVIOUS
<1>2. \A k \in 1..Len(s) : s[k] \in S
  BY ElementOfSeq
<1> HIDE DEF u
<1>3. \A k \in 1..m : u[k] \in S
  <2>1. \A k \in 1..m : k = 1 \/ (k \in 2..Len(u) /\ k - 1 \in 1..Len(s))
    BY <1>1
  <2> QED BY <1>1, <1>2, <2>1
<1>4. /\ SubSeq(u, 1, m) \in Seq(S)
      /\ Len(SubSeq(u, 1, m)) = m
      /\ \A k \in 1..m : SubSeq(u, 1, m)[k] = u[k]
  BY <1>3, Prefix
<1> QED BY <1>1, <1>4 DEF u

\* The bucket holds at least one token.
LEMMA Bucket == Burst * Interval \in Nat /\ Interval <= Burst * Interval
<1>1. \A b, i \in Nat : b >= 1 => b * i \in Nat /\ i <= b * i
  OBVIOUS
<1> QED BY <1>1, LimiterAssumption

\* The delay of the next refresh is never negative, and leaves the buffer to
\* whatever certificate lives longer than it.
LEMMA Delay ==
    ASSUME NEW d \in Nat
    PROVE  /\ refreshDuration(d) \in Nat
           /\ refreshDuration(d) = 0 \/ refreshDuration(d) + Buffer <= d
  BY BufferAssumption DEF refreshDuration

LEMMA ArmedTypes ==
    ASSUME TimeTypeOK, NEW d \in Nat, Armed(d)
    PROVE  due' \in Nat /\ life' \in [Ops -> Nat]
  BY DEF TimeTypeOK, Armed

LEMMA InitClocks == TInit => Clocks
<1> SUFFICES ASSUME TInit PROVE Clocks
  OBVIOUS
<1>1. <<>> \in Seq(0..Interval) /\ Len(<<>>) = 0
  OBVIOUS
<1>2. TimeTypeOK
  BY <1>1, Bucket, LimiterAssumption, TimeoutAssumption, ApiAssumption
     DEF TInit, TimeTypeOK, RanCap, atLeast
<1>3. LimiterSound
  BY Bucket DEF TInit, LimiterSound, atLeast
<1> QED BY <1>2, <1>3 DEF Clocks

LEMMA BeginStarts ==
    ASSUME TimeTypeOK, NEW o \in Ops, TBegin(o)
    PROVE  /\ starts' \in Seq(0..Interval)
           /\ Len(starts') = atMost(Len(starts) + 1, Burst + 2)
           /\ starts'[1] = 0
           /\ \A k \in 2..Len(starts') : k - 1 \in 1..Len(starts) /\ starts'[k] = starts[k - 1]
<1> DEFINE m == atMost(Len(starts) + 1, Burst + 2)
<1>1. m \in Nat /\ 1 <= m /\ m <= Len(starts) + 1 /\ 0 \in 0..Interval /\ starts \in Seq(0..Interval)
  BY LimiterAssumption DEF atMost, TimeTypeOK
<1>2. starts' = SubSeq(<<0>> \o starts, 1, m)
  BY DEF TBegin
<1> HIDE DEF m
<1>3. /\ starts' \in Seq(0..Interval)
      /\ Len(starts') = m
      /\ starts'[1] = 0
      /\ \A k \in 2..m : k - 1 \in 1..Len(starts) /\ starts'[k] = starts[k - 1]
  BY <1>1, <1>2, OneMoreStart
<1> QED BY <1>3 DEF m

LEMMA TickStarts ==
    ASSUME TimeTypeOK, Tick
    PROVE  /\ starts' \in Seq(0..Interval)
           /\ Len(starts') = Len(starts)
           /\ \A k \in 1..Len(starts) : starts'[k] = atMost(starts[k] + 1, Interval)
<1>1. starts \in Seq(0..Interval) /\ starts' = [k \in 1..Len(starts) |-> atMost(starts[k] + 1, Interval)]
  BY DEF Tick, TimeTypeOK
<1>2. \A k \in 1..Len(starts) : starts[k] \in 0..Interval
  BY <1>1, ElementOfSeq
<1>3. \A k \in 1..Len(starts) : atMost(starts[k] + 1, Interval) \in 0..Interval
  BY <1>2, LimiterAssumption DEF atMost
<1> QED BY <1>1, <1>3

\* Each step leaves the clocks in range and the limiter sound.
LEMMA ClocksStep == IInv /\ Clocks /\ [TNext]_tvars => Clocks'
<1> SUFFICES ASSUME IInv, Clocks, [TNext]_tvars PROVE Clocks'
  OBVIOUS
<1> USE LimiterAssumption, TimeoutAssumption, ApiAssumption
<1>a. TimeTypeOK /\ LimiterSound /\ TypeOK /\ next \in Ops /\ result \in [Ops -> Results]
  BY DEF Clocks, IInv, TypeOK
<1>b. \A o \in Ops : phase[o] \notin {"idle", "stopped"} => o = next
  BY DEF IInv, SingleRefresh, Active
<1>1. ASSUME NEW o \in Ops, TFire(o) PROVE Clocks'
  BY <1>1, <1>a, <1>b DEF TFire, Fire, timeVars, Clocks, TimeTypeOK, LimiterSound, TypeOK
<1>2. ASSUME NEW o \in Ops, TClosedExit(o) PROVE Clocks'
  <2>1. due' \in Nat /\ life' \in [Ops -> Nat]
    BY <1>2, <1>a, ArmedTypes DEF TClosedExit
  <2> QED BY <1>2, <1>a, <1>b, <2>1
    DEF TClosedExit, ClosedExit, Clocks, TimeTypeOK, LimiterSound, TypeOK
<1>3. ASSUME NEW o \in Ops, TBegin(o) PROVE Clocks'
  <2>1. due' \in Nat /\ life' \in [Ops -> Nat]
    BY <1>3, <1>a, ArmedTypes DEF TBegin
  <2>2. starts' \in Seq(0..Interval) /\ Len(starts') <= Burst + 2
    BY <1>3, <1>a, BeginStarts DEF atMost
  <2>3. o = next /\ hold = 0 /\ phase[next] = "started" /\ phase'[next'] = "waiting"
    BY <1>3, <1>a, <1>b DEF TBegin, Begin, LimiterSound, TypeOK
  <2>4. /\ fill \in -RefreshTimeout - Interval..Burst * Interval /\ 0 <= fill
        /\ Burst * Interval \in Nat /\ Interval <= Burst * Interval
    BY <1>a, <2>3, Bucket DEF TimeTypeOK, LimiterSound, atLeast
  <2>5. ran' = 0 /\ 0 \in 0..RanCap
    BY <1>3 DEF TBegin, RanCap, atLeast
  <2>6. /\ fill' \in -RefreshTimeout - Interval..Burst * Interval
        /\ hold' \in -1..Interval
        /\ hold' > 0 => fill' + hold' = 0 /\ ran' + hold' <= RefreshTimeout
        /\ hold' <= 0 => fill' >= 0
    BY <1>3, <2>4, <2>5 DEF TBegin, Reserve, atLeast
  <2> QED BY <1>3, <1>a, <2>1, <2>2, <2>3, <2>5, <2>6
    DEF TBegin, Clocks, TimeTypeOK, LimiterSound
<1>4. ASSUME NEW o \in Ops, TWaitPasses(o) PROVE Clocks'
  <2>1. due' \in Nat /\ life' \in [Ops -> Nat]
    BY <1>4, <1>a, ArmedTypes DEF TWaitPasses
  <2> QED BY <1>4, <1>a, <1>b, <2>1
    DEF TWaitPasses, WaitPasses, Clocks, TimeTypeOK, LimiterSound, TypeOK
<1>5. ASSUME NEW o \in Ops, TWaitFails(o) PROVE Clocks'
  <2>1. due' \in Nat /\ life' \in [Ops -> Nat]
    BY <1>5, <1>a, ArmedTypes DEF TWaitFails
  <2>2. o = next /\ phase'[next'] = "settled"
    BY <1>5, <1>a, <1>b DEF TWaitFails, WaitFails, TypeOK
  <2>3. ran' = 0 /\ 0 \in 0..RanCap /\ hold' = 0
    BY <1>5 DEF TWaitFails, RanCap, atLeast
  <2>4. /\ fill' \in -RefreshTimeout - Interval..Burst * Interval
        /\ fill' >= 0
    <3>1. CASE hold <= 0
      BY <1>5, <1>a, <3>1 DEF TWaitFails, TimeTypeOK, LimiterSound, atLeast
    <3>2. CASE hold > 0
      BY <1>5, <1>a, <3>2, Bucket DEF TWaitFails, TimeTypeOK, LimiterSound
    <3> QED BY <1>a, <3>1, <3>2 DEF TimeTypeOK
  <2> QED BY <1>5, <1>a, <2>1, <2>2, <2>3, <2>4
    DEF TWaitFails, Clocks, TimeTypeOK, LimiterSound, atLeast
<1>6. ASSUME NEW o \in Ops, NEW r \in {"ok", "err"}, TFetchReturns(o, r) PROVE Clocks'
  <2>1. due' \in Nat /\ life' \in [Ops -> Nat]
    BY <1>6, <1>a DEF TFetchReturns, Issued, TimeTypeOK
  <2>2. o = next /\ phase'[next'] = "settled" /\ phase[next] = "fetching"
    BY <1>6, <1>a, <1>b DEF TFetchReturns, FetchReturns, TypeOK
  <2>3. ran' = 0 /\ 0 \in 0..RanCap /\ call' = 0 /\ fails' \in 0..MaxFailures + 1
    BY <1>6, <1>a DEF TFetchReturns, RanCap, atLeast, atMost, TimeTypeOK
  <2> QED BY <1>6, <1>a, <2>1, <2>2, <2>3 DEF TFetchReturns, Clocks, TimeTypeOK, LimiterSound
<1>7. ASSUME NEW o \in Ops, TInstall(o) PROVE Clocks'
  <2>1. refreshDuration(Remaining(o)) \in Nat
    BY <1>a, Delay, BufferAssumption DEF Remaining, TimeTypeOK, refreshDuration
  <2>2. due' \in Nat /\ life' \in [Ops -> Nat]
    BY <1>7, <1>a, <2>1, ArmedTypes DEF TInstall
  <2>3. phase[next] = "settled"
    BY <1>7, InstallStep DEF TInstall
  <2> QED BY <1>7, <1>a, <2>2, <2>3 DEF TInstall, Clocks, TimeTypeOK, LimiterSound
<1>8. ASSUME NEW o \in Ops, TExpire(o) PROVE Clocks'
  BY <1>8, <1>a DEF TExpire, Expire, timeVars, Clocks, TimeTypeOK, LimiterSound
<1>9. CASE TDial
  <2>1. due' \in Nat /\ life' \in [Ops -> Nat]
    BY <1>9, <1>a, ArmedTypes DEF TDial
  <2>2. phase'[next'] # "waiting" => phase[next] # "waiting"
    BY <1>9, DialStep DEF TDial
  <2> QED BY <1>9, <1>a, <2>1, <2>2 DEF TDial, Clocks, TimeTypeOK, LimiterSound
<1>10. CASE Tick
  <2>1. starts' \in Seq(0..Interval) /\ Len(starts') <= Burst + 2
    BY <1>10, <1>a, TickStarts DEF TimeTypeOK
  <2>2. /\ due' \in Nat /\ life' \in [Ops -> Nat] /\ call' \in 0..MaxFetch
        /\ phase' = phase /\ next' = next /\ UNCHANGED <<awake, fails>>
    BY <1>10, <1>a DEF Tick, TimeTypeOK, vars, atLeast, atMost
  <2>3. ran' \in 0..RanCap
    BY <1>10, <1>a DEF Tick, TimeTypeOK, RanCap, atLeast, atMost
  <2>4. /\ fill' \in -RefreshTimeout - Interval..Burst * Interval
        /\ fill' = atMost(Burst * Interval, fill + 1)
        /\ hold' \in -1..Interval /\ (hold > 0 => hold' = hold - 1) /\ (hold <= 0 => hold' = hold)
    BY <1>10, <1>a, Bucket DEF Tick, TimeTypeOK, atMost
  <2>5. LimiterSound'
    <3>1. fill \in Int /\ hold \in Int /\ ran \in Nat /\ ran' \in Nat /\ RefreshTimeout \in Nat
      BY <1>a, <2>3 DEF TimeTypeOK, RanCap, atLeast
    <3>2. CASE hold > 0
      <4>1. fill + hold = 0 /\ ran + hold <= RefreshTimeout /\ UnderWay
        BY <1>a, <3>1, <3>2 DEF LimiterSound, UnderWay
      <4>2. fill' = fill + 1 /\ hold' = hold - 1
        BY <2>4, <3>1, <3>2, <4>1, Bucket DEF atMost
      <4>3. ran' = ran + 1
        BY <1>10, <3>1, <3>2, <4>1 DEF Tick, RanCap, atMost, atLeast
      <4>4. /\ (fill + 1) + (hold - 1) = 0 /\ (ran + 1) + (hold - 1) <= RefreshTimeout
            /\ hold - 1 <= 0 => fill + 1 >= 0
        BY <3>1, <3>2, <4>1
      <4>5. phase[next] = "waiting"
        BY <1>a, <3>1, <3>2 DEF LimiterSound
      <4> QED BY <2>2, <4>2, <4>3, <4>4, <4>5 DEF LimiterSound
    <3>3. CASE hold <= 0
      <4>1. fill >= 0 /\ hold' = hold /\ fill' >= 0
        BY <1>a, <2>4, <3>1, <3>3, Bucket DEF LimiterSound, atMost
      <4>2. ~(hold' > 0)
        BY <3>1, <3>3, <4>1
      <4>3. phase[next] # "waiting" => hold' = 0
        BY <1>a, <4>1 DEF LimiterSound
      <4> QED BY <2>2, <4>1, <4>2, <4>3 DEF LimiterSound
    <3> QED BY <3>1, <3>2, <3>3
  <2> QED BY <1>a, <2>1, <2>2, <2>3, <2>4, <2>5 DEF Clocks, TimeTypeOK
<1>11. CASE UNCHANGED tvars
  BY <1>11, <1>a DEF tvars, vars, timeVars, Clocks, TimeTypeOK, LimiterSound
<1> QED BY <1>1, <1>2, <1>3, <1>4, <1>5, <1>6, <1>7, <1>8, <1>9, <1>10, <1>11 DEF TNext, TSteps

LEMMA ClocksHold == TimedSpec => []Clocks
  BY InitClocks, ClocksStep, TimedIInv, PTL DEF TimedSpec

-----------------------------------------------------------------------------
(* The timer fires ahead of the expiration                                 *)

LEMMA AheadStep == IInv /\ Clocks /\ RefreshesAhead /\ [TNext]_tvars => RefreshesAhead'
<1> SUFFICES ASSUME IInv, Clocks, RefreshesAhead, [TNext]_tvars, IInv',
                    phase'[next'] = "pending", result'[cur'] = "ok"
             PROVE  due' = 0 \/ due' + Buffer <= life'[cur']
  BY TimedStep, NextIInv DEF RefreshesAhead, isValid
<1>a. /\ next \in Ops /\ cur \in Ops /\ cur' \in Ops /\ next' \in Ops
      /\ phase \in [Ops -> Phases] /\ result \in [Ops -> Results]
      /\ due \in Nat /\ life \in [Ops -> Nat]
  BY DEF IInv, TypeOK, Clocks, TimeTypeOK
<1>b. /\ \A o \in Ops : phase[o] \notin {"idle", "stopped"} => o = next
      /\ result'[next'] = "none"
  BY <1>a DEF IInv, SingleRefresh, Active, ResultMatchesPhase
<1>c. phase[next] = "pending" /\ result[cur] = "ok" => due = 0 \/ due + Buffer <= life[cur]
  BY DEF RefreshesAhead, isValid
<1>d. BufferAssumption
  BY BufferAssumption
<1>1. ASSUME NEW o \in Ops, TFire(o) \/ TClosedExit(o) \/ TBegin(o) \/ TWaitPasses(o) \/ TWaitFails(o)
      PROVE  FALSE
  BY <1>1, <1>a, <1>b DEF TFire, TClosedExit, TBegin, TWaitPasses, TWaitFails,
     Fire, ClosedExit, Begin, WaitPasses, WaitFails
<1>2. ASSUME NEW o \in Ops, NEW r \in {"ok", "err"}, TFetchReturns(o, r) PROVE FALSE
  BY <1>2, <1>a, <1>b DEF TFetchReturns, FetchReturns
<1>3. ASSUME NEW o \in Ops, TExpire(o) PROVE due' = 0 \/ due' + Buffer <= life'[cur']
  BY <1>3, <1>a, <1>c DEF TExpire, Expire, timeVars
<1>4. ASSUME NEW o \in Ops, TInstall(o) PROVE due' = 0 \/ due' + Buffer <= life'[cur']
  <2>1. /\ o = next /\ next' # next
        /\ cur' = IF result[next] = "err" /\ isValid(cur) THEN cur ELSE next
        /\ result'[cur] = result[cur] /\ result'[next] = result[next]
    BY <1>4, InstallStep DEF TInstall
  <2>2. /\ due' = IF result[next] = "err" THEN 0 ELSE refreshDuration(Remaining(next))
        /\ life'[cur'] = life[cur']
    BY <1>4, <1>a, <2>1 DEF TInstall, Armed
  <2>3. CASE result[next] = "err"
    BY <2>2, <2>3
  <2>4. CASE result[next] # "err"
    <3>1. cur' = next /\ Remaining(next) = life[next]
      BY <2>1, <2>4 DEF Remaining
    <3> QED BY <1>a, <2>2, <2>4, <3>1, Delay
  <2> QED BY <2>3, <2>4
<1>5. CASE TDial
  <2>1. /\ \/ phase[next] = "pending" /\ next' # next
           \/ next' = next /\ phase[next] = "pending"
        /\ cur' = cur \/ cur' = next'
        /\ result'[cur] = result[cur]
    BY <1>5, DialStep DEF TDial
  <2>2. cur' = cur /\ result[cur] = "ok"
    BY <1>b, <2>1
  <2>3. due' \in {0, due} /\ life'[cur] = life[cur]
    BY <1>5, <1>a, <2>2 DEF TDial, Armed
  <2> QED BY <1>c, <2>1, <2>2, <2>3
<1>6. CASE Tick
  <2>1. phase' = phase /\ next' = next /\ cur' = cur /\ result' = result
    BY <1>6 DEF Tick, vars
  <2>2. life[cur] \in Nat /\ life[cur] > 0
    BY <1>6, <1>a, <2>1 DEF Tick, InUse
  <2>3. due' = atLeast(0, due - 1) /\ life'[cur] = atLeast(0, life[cur] - 1)
    BY <1>6, <1>a DEF Tick
  <2>4. atLeast(0, due - 1) = 0 \/ atLeast(0, due - 1) + Buffer <= atLeast(0, life[cur] - 1)
    BY <1>a, <1>c, <1>d, <2>1, <2>2 DEF atLeast
  <2> QED BY <2>1, <2>3, <2>4
<1>7. CASE UNCHANGED tvars
  BY <1>7, <1>c DEF tvars, vars, timeVars
<1> QED BY <1>1, <1>2, <1>3, <1>4, <1>5, <1>6, <1>7 DEF TNext, TSteps

-----------------------------------------------------------------------------
(* The limiter limits                                                      *)

\* The k latest cycles have each taken a token, and the bucket cannot have
\* gained more since the k-th of them started than time has passed.
Spent ==
    ~closed => \A k \in 1..Len(starts) :
        starts[k] < Interval => fill <= (Burst - k) * Interval + starts[k]

\* The limiter never refuses a callback, and a token is taken for good.
Limited == hold # -1 /\ Spent /\ CyclesAreLimited

\* One token more for one cycle more.
LEMMA OneToken ==
    ASSUME NEW k \in Int
    PROVE  /\ (Burst - k) * Interval \in Int
           /\ (Burst - (k - 1)) * Interval - Interval = (Burst - k) * Interval
  BY LimiterAssumption

LEMMA LimitedStep ==
    ASSUME Interval <= RefreshTimeout
    PROVE  IInv /\ Clocks /\ Limited /\ [TNext]_tvars => Limited'
<1> SUFFICES ASSUME IInv, Clocks, Limited, [TNext]_tvars PROVE Limited'
  OBVIOUS
<1>a. /\ starts \in Seq(0..Interval) /\ fill \in Int /\ hold \in -1..Interval /\ ran \in Nat
      /\ Interval \in Nat \ {0} /\ Burst \in Nat \ {0} /\ RefreshTimeout \in Nat
      /\ fill <= Burst * Interval /\ Burst * Interval \in Nat
      /\ LimiterSound /\ hold # -1 /\ Spent /\ CyclesAreLimited
  BY Bucket, LimiterAssumption, TimeoutAssumption, ApiAssumption
     DEF Clocks, TimeTypeOK, RanCap, atLeast, Limited
<1>b. \A k \in 1..Len(starts) : starts[k] \in 0..Interval
  BY <1>a, ElementOfSeq
<1>c. \A o \in Ops : phase[o] \notin {"idle", "stopped"} => o = next
  BY DEF IInv, SingleRefresh, Active
<1>1. ASSUME fill' = fill, hold' = hold, starts' = starts, closed => closed' PROVE Limited'
  BY <1>1, <1>a DEF Limited, Spent, CyclesAreLimited
<1>2. ASSUME NEW o \in Ops, TBegin(o) PROVE Limited'
  <2>1. ~closed /\ hold = 0 /\ fill >= 0
    <3>1. o = next /\ phase[next] = "started" /\ ~closed
      BY <1>2, <1>c DEF TBegin, Begin
    <3> QED BY <1>a, <3>1 DEF LimiterSound
  <2>2. hold' = atLeast(0, Interval - fill) /\ fill' = fill - Interval
    BY <1>2, <1>a, <2>1 DEF TBegin, Reserve, atLeast
  <2>3. /\ Len(starts') = atMost(Len(starts) + 1, Burst + 2)
        /\ starts'[1] = 0
        /\ \A k \in 2..Len(starts') : k - 1 \in 1..Len(starts) /\ starts'[k] = starts[k - 1]
    BY <1>2, BeginStarts DEF Clocks
  <2>4. hold' # -1
    BY <1>a, <2>2 DEF atLeast
  <2>5. Spent'
    <3> SUFFICES ASSUME NEW k \in 1..Len(starts'), starts'[k] < Interval
                 PROVE  fill - Interval <= (Burst - k) * Interval + starts'[k]
      BY <2>2 DEF Spent
    <3>1. CASE k = 1
      <4>1. (Burst - 1) * Interval = Burst * Interval - Interval
        BY <1>a
      <4> QED BY <1>a, <2>3, <3>1, <4>1
    <3>2. CASE k # 1
      <4>1. k \in 2..Len(starts')
        BY <1>a, <2>3, <3>2 DEF atMost
      <4>2. k - 1 \in 1..Len(starts) /\ starts'[k] = starts[k - 1] /\ starts[k - 1] \in 0..Interval
        BY <1>b, <2>3, <4>1
      <4>3. fill <= (Burst - (k - 1)) * Interval + starts[k - 1]
        BY <1>a, <2>1, <4>2 DEF Spent
      <4>4. k \in Int /\ k - 1 \in Int
        BY <4>1
      <4>5. /\ (Burst - k) * Interval \in Int /\ (Burst - (k - 1)) * Interval \in Int
            /\ (Burst - (k - 1)) * Interval - Interval = (Burst - k) * Interval
        BY <4>4, OneToken
      <4>6. fill - Interval <= (Burst - k) * Interval + starts[k - 1]
        BY <1>a, <4>2, <4>3, <4>5
      <4> QED BY <4>2, <4>6
    <3> QED BY <3>1, <3>2
  <2>6. CyclesAreLimited'
    <3> SUFFICES ASSUME Len(starts') = Burst + 2 PROVE starts'[Burst + 2] = Interval
      BY DEF CyclesAreLimited
    <3>1. /\ Burst + 1 \in 1..Len(starts) /\ starts'[Burst + 2] = starts[Burst + 1]
      <4>1. Burst + 2 \in 2..Len(starts') /\ (Burst + 2) - 1 = Burst + 1
        BY <1>a
      <4> QED BY <2>3, <4>1
    <3>2. starts[Burst + 1] < Interval => fill <= (Burst - (Burst + 1)) * Interval + starts[Burst + 1]
      BY <1>a, <2>1, <3>1 DEF Spent
    <3>3. (Burst - (Burst + 1)) * Interval = -Interval
      BY <1>a
    <3>4. starts[Burst + 1] \in 0..Interval
      BY <1>b, <3>1
    <3>5. starts[Burst + 1] = Interval
      BY <1>a, <2>1, <3>2, <3>3, <3>4
    <3> QED BY <3>1, <3>5
  <2> QED BY <2>4, <2>5, <2>6 DEF Limited
<1>3. ASSUME NEW o \in Ops, TWaitFails(o) PROVE Limited'
  <2>1. hold' = 0 /\ starts' = starts /\ closed' = closed
    BY <1>3 DEF TWaitFails, WaitFails
  <2>2. fill' = fill \/ closed
    <3>1. hold > 0 => ~(ran >= RefreshTimeout)
      BY <1>a DEF LimiterSound
    <3> QED BY <1>3, <1>a, <3>1 DEF TWaitFails
  <2> QED BY <1>a, <2>1, <2>2 DEF Limited, Spent, CyclesAreLimited
<1>4. CASE Tick
  <2>1. /\ Len(starts') = Len(starts) /\ closed' = closed
        /\ \A k \in 1..Len(starts) : starts'[k] = atMost(starts[k] + 1, Interval)
    BY <1>4, TickStarts DEF Clocks, Tick, vars
  <2>2. hold' # -1
    BY <1>4, <1>a DEF Tick
  <2>3. fill' = atMost(Burst * Interval, fill + 1) /\ atMost(Burst * Interval, fill + 1) <= fill + 1
        /\ atMost(Burst * Interval, fill + 1) \in Int
    BY <1>4, <1>a DEF Tick, atMost
  <2>4. Spent'
    <3> DEFINE f == atMost(Burst * Interval, fill + 1)
    <3> HIDE DEF f
    <3> SUFFICES ASSUME ~closed, NEW k \in 1..Len(starts), atMost(starts[k] + 1, Interval) < Interval
                 PROVE  f <= (Burst - k) * Interval + atMost(starts[k] + 1, Interval)
      BY <2>1, <2>3 DEF Spent, f
    <3>1. starts[k] \in 0..Interval /\ starts[k] < Interval /\ atMost(starts[k] + 1, Interval) = starts[k] + 1
      BY <1>a, <1>b DEF atMost
    <3>2. fill <= (Burst - k) * Interval + starts[k]
      BY <1>a, <3>1 DEF Spent
    <3>3. (Burst - k) * Interval \in Int
      BY OneToken
    <3>4. f \in Int /\ f <= fill + 1
      BY <2>3 DEF f
    <3> QED BY <1>a, <3>1, <3>2, <3>3, <3>4
  <2>5. CyclesAreLimited'
    <3> SUFFICES ASSUME Len(starts) = Burst + 2 PROVE starts'[Burst + 2] = Interval
      BY <2>1 DEF CyclesAreLimited
    <3>1. starts[Burst + 2] = Interval /\ Burst + 2 \in 1..Len(starts)
      BY <1>a DEF CyclesAreLimited
    <3> QED BY <1>a, <2>1, <3>1 DEF atMost
  <2> QED BY <2>2, <2>4, <2>5 DEF Limited
<1>5. ASSUME NEW o \in Ops,
             TFire(o) \/ TClosedExit(o) \/ TWaitPasses(o) \/ TInstall(o) \/ TExpire(o)
             \/ TFetchReturns(o, "ok") \/ TFetchReturns(o, "err")
      PROVE  Limited'
  BY <1>5, <1>1 DEF TFire, TClosedExit, TWaitPasses, TInstall, TExpire, TFetchReturns, timeVars,
     Fire, ClosedExit, WaitPasses, Install, Expire, FetchReturns
<1>6. CASE TDial
  <2>1. closed => closed'
    BY <1>6, DialStep DEF TDial
  <2> QED BY <1>6, <1>1, <2>1 DEF TDial
<1>7. CASE UNCHANGED tvars
  BY <1>7, <1>1 DEF tvars, vars, timeVars
<1> QED BY <1>2, <1>3, <1>4, <1>5, <1>6, <1>7 DEF TNext, TSteps

-----------------------------------------------------------------------------
(* The buffer pays for the retries                                         *)

\* A call that fails and the wait after it: the limiter gains during the call
\* what the next cycle need not wait for.
Period == atLeast(Interval, MaxFetch)

\* What n calls that fail, and the waits after them, take at most.
Retries(n) == n * Period

\* How long a cycle that starts now waits for its token.
Wait == atLeast(0, Interval - fill)

\* The calls that may still fail, and the one after them that succeeds, are
\* over before the information served expires.
OnTime ==
    LET rest == Retries(MaxFailures - fails)
    IN  /\ life[cur] > 0
        /\ phase[next] = "pending" => due + Wait + MaxFetch + rest < life[cur]
        /\ phase[next] = "started" => Wait + MaxFetch + rest < life[cur]
        /\ phase[next] = "waiting" => hold + MaxFetch + rest < life[cur]
        /\ phase[next] = "fetching" => (MaxFetch - call) + rest < life[cur]
        /\ phase[next] = "settled" /\ result[next] = "err" => Wait + MaxFetch + rest < life[cur]

\* While the machine is awake and the Admin API well the callback passes the
\* limiter before its deadline, the limiter gains while it calls, what it
\* brings is valid, and what is served outlives the cycles to come.
Paid ==
    awake /\ ~closed =>
        /\ fails <= MaxFailures
        /\ phase[next] = "waiting" => ran + hold < RefreshTimeout
        /\ phase[next] = "fetching" => fill >= atMost(Interval, call)
        /\ phase[next] = "settled" =>
            result[next] = "err" \/ (result[next] = "ok" /\ life[next] >= Buffer)
        /\ result[cur] # "expired"
        /\ result[cur] = "ok" => OnTime

LEMMA RetriesSum ==
    /\ Period \in Nat /\ Interval <= Period /\ MaxFetch <= Period
    /\ \A n \in Nat : Retries(n) \in Nat /\ Retries(n + 1) = Retries(n) + Period
    /\ \A m, n \in Nat : m <= n => Retries(m) <= Retries(n)
<1>1. Period \in Nat /\ Interval <= Period /\ MaxFetch <= Period
  BY LimiterAssumption, ApiAssumption DEF Period, atLeast
<1>2. \A n \in Nat : n * Period \in Nat /\ (n + 1) * Period = n * Period + Period
  BY <1>1
<1>3. \A m, n \in Nat : m <= n => m * Period <= n * Period
  <2> TAKE m, n \in Nat
  <2> HAVE m <= n
  <2>1. PICK d \in Nat : n = m + d
    BY n - m \in Nat
  <2>2. n * Period = m * Period + d * Period /\ d * Period \in Nat /\ m * Period \in Nat
    BY <1>1, <1>2, <2>1
  <2> QED BY <2>2
<1> QED BY <1>1, <1>2, <1>3 DEF Retries

LEMMA PaidStep ==
    ASSUME Interval < RefreshTimeout, Interval + Retries(MaxFailures) + MaxFetch < Buffer
    PROVE  IInv /\ Clocks /\ Limited /\ Paid /\ [TNext]_tvars => Paid'
<1> SUFFICES ASSUME IInv, Clocks, Limited, Paid, [TNext]_tvars, IInv', awake', ~closed'
             PROVE  /\ fails' <= MaxFailures
                    /\ phase'[next'] = "waiting" => ran' + hold' < RefreshTimeout
                    /\ phase'[next'] = "fetching" => fill' >= atMost(Interval, call')
                    /\ phase'[next'] = "settled" =>
                        result'[next'] = "err" \/ (result'[next'] = "ok" /\ life'[next'] >= Buffer)
                    /\ result'[cur'] # "expired"
                    /\ result'[cur'] = "ok" => OnTime'
  BY TimedStep, NextIInv DEF Paid
<1> DEFINE Goal == /\ fails' <= MaxFailures
                   /\ phase'[next'] = "waiting" => ran' + hold' < RefreshTimeout
                   /\ phase'[next'] = "fetching" => fill' >= atMost(Interval, call')
                   /\ phase'[next'] = "settled" =>
                       result'[next'] = "err" \/ (result'[next'] = "ok" /\ life'[next'] >= Buffer)
                   /\ result'[cur'] # "expired"
                   /\ result'[cur'] = "ok" => OnTime'
<1>a. /\ next \in Ops /\ cur \in Ops /\ cur' \in Ops /\ next' \in Ops
      /\ phase \in [Ops -> Phases] /\ result \in [Ops -> Results]
      /\ due \in Nat /\ life \in [Ops -> Nat] /\ fill \in Int /\ hold \in Int /\ ran \in Nat
      /\ call \in 0..MaxFetch /\ fails \in Nat
      /\ Interval \in Nat \ {0} /\ RefreshTimeout \in Nat /\ MaxFetch \in Nat /\ MaxFailures \in Nat
      /\ Buffer \in Nat
      /\ hold >= 0 /\ LimiterSound
  BY LimiterAssumption, TimeoutAssumption, ApiAssumption, BufferAssumption
     DEF IInv, TypeOK, Clocks, TimeTypeOK, RanCap, atLeast, Limited
<1>b. \A o \in Ops : phase[o] \notin {"idle", "stopped"} => o = next
  BY DEF IInv, SingleRefresh, Active
<1>c. awake /\ ~closed
  <2>1. ASSUME NEW o \in Ops, TSteps(o) PROVE awake' = awake /\ closed' = closed
    BY <2>1 DEF TSteps, TFire, TClosedExit, TBegin, TWaitPasses, TWaitFails, TInstall, TExpire,
       Fire, ClosedExit, Begin, WaitPasses, WaitFails, Install, Expire, timeVars
  <2>2. ASSUME NEW o \in Ops, NEW r \in {"ok", "err"}, TFetchReturns(o, r)
        PROVE  awake' = awake /\ closed' = closed
    BY <2>2 DEF TFetchReturns, FetchReturns
  <2>3. CASE TDial
    BY <2>3, DialStep DEF TDial
  <2>4. CASE Tick
    BY <2>4 DEF Tick, vars
  <2>5. CASE UNCHANGED tvars
    BY <2>5 DEF tvars, vars, timeVars
  <2> QED BY <2>1, <2>2, <2>3, <2>4, <2>5 DEF TNext
<1>d. /\ fails <= MaxFailures
      /\ phase[next] = "waiting" => ran + hold < RefreshTimeout
      /\ phase[next] = "fetching" => fill >= atMost(Interval, call)
      /\ phase[next] = "settled" => result[next] = "err" \/ (result[next] = "ok" /\ life[next] >= Buffer)
      /\ result[cur] # "expired"
      /\ result[cur] = "ok" => OnTime
  BY <1>c DEF Paid
<1>e. PICK rest \in Nat, w \in Nat :
        /\ rest = Retries(MaxFailures - fails) /\ w = Wait
        /\ phase[next] # "waiting" => w <= Interval /\ w + MaxFetch + rest < Buffer
        /\ 0 < Buffer
  <2>1. MaxFailures - fails \in Nat /\ MaxFailures - fails <= MaxFailures
    BY <1>a, <1>d
  <2>2. /\ Retries(MaxFailures - fails) \in Nat /\ Retries(MaxFailures) \in Nat
        /\ Retries(MaxFailures - fails) <= Retries(MaxFailures)
    BY <1>a, <2>1, RetriesSum
  <2>3. Wait \in Nat /\ (phase[next] # "waiting" => Wait <= Interval)
    BY <1>a DEF Wait, atLeast, LimiterSound
  <2> QED BY <1>a, <2>2, <2>3
<1>f. result[cur] = "ok" =>
        /\ life[cur] \in Nat /\ life[cur] > 0
        /\ phase[next] = "pending" => due + w + MaxFetch + rest < life[cur]
        /\ phase[next] = "started" => w + MaxFetch + rest < life[cur]
        /\ phase[next] = "waiting" => hold + MaxFetch + rest < life[cur]
        /\ phase[next] = "fetching" => (MaxFetch - call) + rest < life[cur]
        /\ phase[next] = "settled" /\ result[next] = "err" => w + MaxFetch + rest < life[cur]
  BY <1>a, <1>d, <1>e DEF OnTime
<1>g. fill' = fill => Wait' = w
  BY <1>e DEF Wait
<1>1. ASSUME NEW o \in Ops, TFire(o) PROVE Goal
  <2>1. /\ o = next /\ phase[next] = "pending" /\ phase'[next'] = "started" /\ due = 0
        /\ UNCHANGED <<timeVars, cur, next, result>>
    BY <1>1, <1>a, <1>b DEF TFire, Fire
  <2>2. result[cur] = "ok" => w + MaxFetch + rest < life[cur]
    BY <1>a, <1>e, <1>f, <2>1
  <2> QED BY <2>1, <2>2, <1>a, <1>d, <1>e, <1>f, <1>g DEF OnTime, timeVars
<1>2. ASSUME NEW o \in Ops, TClosedExit(o) PROVE FALSE
  BY <1>2, <1>c DEF TClosedExit, ClosedExit
<1>3. ASSUME NEW o \in Ops, TBegin(o) PROVE Goal
  <2>1. /\ o = next /\ phase[next] = "started" /\ phase'[next'] = "waiting"
        /\ UNCHANGED <<cur, next, result, fails>> /\ ran' = 0
    BY <1>3, <1>a, <1>b DEF TBegin, Begin
  <2>2. fill >= 0
    BY <1>a, <2>1 DEF LimiterSound
  <2>3. hold' = w /\ w <= Interval
    BY <1>3, <1>a, <1>e, <2>1, <2>2 DEF TBegin, Reserve, Wait, atLeast
  <2>4. result[cur] = "ok" => life'[cur] = life[cur]
    BY <1>3, <1>a, <2>1 DEF TBegin, Armed
  <2>5. 0 + w < RefreshTimeout
    BY <1>a, <2>3
  <2>6. result[cur] = "ok" => w + MaxFetch + rest < life[cur]
    BY <1>f, <2>1
  <2> QED BY <1>d, <1>e, <1>f, <2>1, <2>3, <2>4, <2>5, <2>6 DEF OnTime
<1>4. ASSUME NEW o \in Ops, TWaitPasses(o) PROVE Goal
  <2>1. /\ o = next /\ phase[next] = "waiting" /\ phase'[next'] = "fetching" /\ hold = 0
        /\ UNCHANGED <<cur, next, result, fails, fill>> /\ call' = 0
    BY <1>4, <1>a, <1>b DEF TWaitPasses, WaitPasses
  <2>2. result[cur] = "ok" => life'[cur] = life[cur]
    BY <1>4, <1>a, <2>1 DEF TWaitPasses, Armed
  <2>3. result[cur] = "ok" => (MaxFetch - 0) + rest < life[cur]
    BY <1>a, <1>e, <1>f, <2>1
  <2>4. fill >= atMost(Interval, 0)
    BY <1>a, <2>1 DEF LimiterSound, atMost
  <2> QED BY <1>d, <1>e, <1>f, <2>1, <2>2, <2>3, <2>4 DEF OnTime
<1>5. ASSUME NEW o \in Ops, TWaitFails(o) PROVE FALSE
  <2>1. o = next /\ phase[next] = "waiting"
    BY <1>5, <1>b DEF TWaitFails, WaitFails
  <2>2. ran >= RefreshTimeout
    BY <1>5, <1>a, <1>c DEF TWaitFails
  <2> QED BY <1>a, <1>d, <2>1, <2>2
<1>6. ASSUME NEW o \in Ops, TFetchReturns(o, "ok") PROVE Goal
  <2>1. /\ o = next /\ phase[next] = "fetching" /\ phase'[next'] = "settled"
        /\ result'[next'] = "ok" /\ next' = next /\ cur' = cur /\ fails' = 0
        /\ \A p \in Ops : p # next => result'[p] = result[p]
    BY <1>6, <1>a, <1>b DEF TFetchReturns, FetchReturns
  <2>2. PICK l \in Nat : l >= Buffer /\ life' = [life EXCEPT ![next] = l]
    BY <1>6, <1>c, <2>1, ApiAssumption DEF TFetchReturns, Issued
  <2>3. life'[next] = l /\ l > 0 /\ (cur # next => life'[cur] = life[cur])
    BY <1>a, <1>e, <2>2
  <2>4. result'[cur] = "ok" => life'[cur] > 0
    <3>1. CASE cur = next
      BY <2>3, <3>1
    <3>2. CASE cur # next
      BY <1>a, <1>f, <2>1, <2>3, <3>2
    <3> QED BY <3>1, <3>2
  <2>5. result'[cur'] # "expired"
    BY <1>a, <1>d, <2>1
  <2>6. fails' <= MaxFailures
    BY <1>a, <2>1
  <2> QED BY <2>1, <2>2, <2>3, <2>4, <2>5, <2>6 DEF OnTime
<1>7. ASSUME NEW o \in Ops, fails < MaxFailures, TFetchReturns(o, "err") PROVE Goal
  <2>1. /\ o = next /\ phase[next] = "fetching" /\ phase'[next'] = "settled"
        /\ result'[next'] = "err" /\ next' = next /\ cur' = cur /\ fails' = fails + 1 /\ fill' = fill
        /\ \A p \in Ops : p # next => result'[p] = result[p]
    BY <1>7, <1>a, <1>b DEF TFetchReturns, FetchReturns, atMost
  <2>2. cur # next => life'[cur] = life[cur]
    BY <1>7, <1>a, <2>1 DEF TFetchReturns
  <2>3. PICK left \in Nat : /\ fails + 1 <= MaxFailures
                            /\ left = Retries(MaxFailures - (fails + 1)) /\ rest = left + Period
    <3>1. /\ MaxFailures - (fails + 1) \in Nat /\ fails + 1 <= MaxFailures
          /\ (MaxFailures - (fails + 1)) + 1 = MaxFailures - fails
      BY <1>a, <1>7
    <3> QED BY <1>e, <3>1, RetriesSum
  <2>4. result[cur] = "ok" => w + MaxFetch + left < life[cur]
    <3>1. fill >= atMost(Interval, call) /\ w = atLeast(0, Interval - fill)
      BY <1>d, <1>e, <2>1 DEF Wait
    <3>2. w + call <= Period
      <4>1. Period \in Nat /\ Interval <= Period /\ MaxFetch <= Period
        BY RetriesSum
      <4>2. w <= 0 \/ w <= Interval - call
        BY <1>a, <3>1 DEF atMost, atLeast
      <4> QED BY <1>a, <4>1, <4>2
    <3>3. result[cur] = "ok" => (MaxFetch - call) + rest < life[cur] /\ life[cur] \in Nat
      BY <1>f, <2>1
    <3> QED BY <1>a, <2>3, <3>2, <3>3, RetriesSum
  <2>5. result'[cur'] = "ok" => cur # next /\ result[cur] = "ok" /\ life'[cur'] = life[cur]
    BY <1>a, <2>1, <2>2
  <2>6. result'[cur'] = "ok" => OnTime'
    BY <1>e, <1>f, <1>g, <2>1, <2>3, <2>4, <2>5 DEF OnTime
  <2>7. result'[cur'] # "expired"
    BY <1>a, <1>d, <2>1
  <2> QED BY <2>1, <2>3, <2>6, <2>7
<1>8. ASSUME NEW o \in Ops, TInstall(o) PROVE Goal
  <2>1. /\ o = next /\ phase[next] = "settled" /\ next' # next /\ phase'[next'] = "pending"
        /\ cur' = IF result[next] = "err" /\ isValid(cur) THEN cur ELSE next
        /\ result'[cur] = result[cur] /\ result'[next] = result[next]
    BY <1>8, InstallStep DEF TInstall
  <2>2. /\ due' = IF result[next] = "err" THEN 0 ELSE refreshDuration(Remaining(next))
        /\ result'[cur'] = "ok" => life'[cur'] = life[cur']
        /\ fails' = fails /\ fill' = fill
    BY <1>8, <1>a, <2>1 DEF TInstall, Armed
  <2>3. result'[cur'] # "expired"
    BY <1>d, <2>1 DEF isValid
  <2>4. ASSUME result'[cur'] = "ok" PROVE OnTime'
    <3>1. CASE result[next] = "err"
      <4>1. cur' = cur /\ result[cur] = "ok" /\ due' = 0
        BY <2>1, <2>2, <2>4, <3>1 DEF isValid
      <4>2. 0 + w + MaxFetch + rest < life[cur]
        BY <1>a, <1>e, <1>f, <2>1, <3>1, <4>1
      <4> QED BY <1>e, <1>f, <1>g, <2>1, <2>2, <2>4, <4>1, <4>2 DEF OnTime
    <3>2. CASE result[next] # "err"
      <4>1. cur' = next /\ result[next] = "ok" /\ life[next] >= Buffer /\ life[next] \in Nat
        BY <1>a, <1>d, <2>1, <3>2
      <4>2. PICK d \in Nat : due' = d /\ (d = 0 \/ d + Buffer <= life[next])
        BY <2>2, <4>1, <3>2, Delay DEF Remaining
      <4>3. d + w + MaxFetch + rest < life[next] /\ life[next] > 0
        BY <1>a, <1>e, <2>1, <4>1, <4>2
      <4> QED BY <1>e, <1>g, <2>1, <2>2, <2>4, <4>1, <4>2, <4>3 DEF OnTime
    <3> QED BY <3>1, <3>2
  <2> QED BY <1>d, <2>1, <2>2, <2>3, <2>4
<1>9. ASSUME NEW o \in Ops, TExpire(o) PROVE Goal
  <2>1. result[o] = "ok" /\ life[o] = 0 /\ UNCHANGED <<timeVars, phase, cur, next>>
        /\ \A p \in Ops : p # o => result'[p] = result[p]
    BY <1>9, <1>a DEF TExpire, Expire
  <2>2. o # cur
    BY <1>f, <2>1
  <2>3. phase[next] = "settled" => o # next
    BY <1>a, <1>d, <1>e, <2>1
  <2>4. result'[cur] = result[cur] /\ (phase[next] = "settled" => result'[next] = result[next])
    BY <1>a, <2>1, <2>2, <2>3
  <2> QED BY <1>d, <2>1, <2>4 DEF OnTime, Wait, timeVars
<1>10. CASE TDial
  <2>1. /\ \/ phase[next] = "pending" /\ next' # next /\ phase'[next'] = "pending"
              /\ result'[next'] = "none"
           \/ next' = next /\ phase'[next] = phase[next] /\ result' = result
        /\ cur' = cur \/ (~isValid(cur) /\ cur' = next')
        /\ result'[cur] = result[cur] /\ result'[next] = result[next]
    BY <1>10, DialStep DEF TDial
  <2>2. /\ due' = IF phase'[next'] # "pending" THEN 0 ELSE IF next' = next THEN due ELSE 0
        /\ \A p \in Ops : result'[p] = "ok" => life'[p] = life[p]
        /\ UNCHANGED <<fails, fill, ran, hold, call>>
    BY <1>10 DEF TDial, Armed
  <2>3. /\ result'[next'] # "expired"
        /\ result'[next'] = "ok" => phase'[next'] \notin {"pending", "started", "waiting", "fetching"}
    BY <1>a, <1>d, <2>1 DEF IInv, CycleAlive, Active, ResultMatchesPhase, Phases
  <2>4. phase'[next'] = "settled" => next' = next /\ phase[next] = "settled" /\ result' = result
    BY <2>1
  <2>5. ASSUME result'[cur'] = "ok" PROVE OnTime'
    <3>1. CASE cur' = cur
      <4>1. result[cur] = "ok" /\ life'[cur'] = life[cur]
        BY <1>a, <2>1, <2>2, <2>5, <3>1
      <4>2. phase'[next'] = "pending" => phase[next] = "pending" /\ (due' = due \/ due' = 0)
        BY <2>1, <2>2
      <4>3. phase'[next'] # "pending" => next' = next /\ phase'[next'] = phase[next] /\ result' = result
        BY <2>1
      <4>4. phase'[next'] = "pending" =>
                due + w + MaxFetch + rest < life[cur] /\ 0 + w + MaxFetch + rest < life[cur]
        BY <1>a, <1>e, <1>f, <4>1, <4>2
      <4> QED BY <1>e, <1>f, <1>g, <2>2, <3>1, <4>1, <4>2, <4>3, <4>4 DEF OnTime
    <3>2. CASE cur' # cur
      <4>1. cur' = next' /\ result'[next'] = "ok"
        BY <2>1, <2>5, <3>2
      <4>2. next' = next /\ result[next] = "ok" /\ phase'[next'] = phase[next]
        BY <2>1, <4>1
      <4>3. phase[next] = "settled" /\ life[next] >= Buffer
        BY <1>a, <1>d, <2>3, <4>1, <4>2 DEF IInv, ResultMatchesPhase, Phases
      <4>4. life'[cur'] = life[next] /\ life[next] > 0
        BY <1>a, <1>e, <2>2, <2>5, <4>1, <4>2, <4>3
      <4> QED BY <4>1, <4>2, <4>3, <4>4 DEF OnTime
    <3> QED BY <3>1, <3>2
  <2>6. result'[cur'] # "expired"
    BY <1>d, <2>1, <2>3
  <2>7. phase'[next'] = "waiting" => ran' + hold' < RefreshTimeout
    BY <1>d, <2>1, <2>2
  <2>8. phase'[next'] = "settled" =>
            result'[next'] = "err" \/ (result'[next'] = "ok" /\ life'[next'] >= Buffer)
    BY <1>a, <1>d, <2>2, <2>4
  <2>9. phase'[next'] = "fetching" => fill' >= atMost(Interval, call')
    BY <1>d, <2>1, <2>2
  <2> QED BY <1>d, <2>2, <2>5, <2>6, <2>7, <2>8, <2>9
<1>11. CASE Tick
  <2>1. UNCHANGED <<phase, result, cur, next, fails>> /\ ~Urgent
    BY <1>11, <1>c DEF Tick, vars
  <2>2. phase[next] \in {"pending", "waiting", "fetching"}
    BY <1>a, <1>c, <2>1 DEF Urgent, IInv, CycleAlive, Active, Phases
  <2>3. life'[cur] = atLeast(0, life[cur] - 1) /\ due' = atLeast(0, due - 1)
    BY <1>11, <1>a DEF Tick
  <2>4. /\ phase[next] = "waiting" =>
             hold > 0 /\ hold' = hold - 1 /\ ran' = atMost(ran + 1, RanCap)
        /\ phase[next] = "fetching" => call < MaxFetch /\ call' = call + 1
        /\ phase[next] = "pending" => due > 0
    <3>1. CASE phase[next] = "waiting"
      BY <1>11, <1>a, <2>1, <3>1 DEF Tick, Urgent, UnderWay
    <3>2. CASE phase[next] = "fetching"
      <4>1. ~(call >= MaxFetch) /\ call' = atMost(call + 1, MaxFetch)
        BY <1>11, <2>1, <3>2 DEF Tick, Urgent
      <4> QED BY <1>a, <3>2, <4>1 DEF atMost
    <3>3. CASE phase[next] = "pending"
      BY <1>a, <2>1, <3>3 DEF Urgent
    <3> QED BY <3>1, <3>2, <3>3
  <2>a. PICK u \in Nat : u = Wait' /\ u <= w
    <3>1. fill' = atMost(Burst * Interval, fill + 1) /\ Burst * Interval \in Nat
          /\ fill <= Burst * Interval
      BY <1>11, Bucket DEF Tick, Clocks, TimeTypeOK
    <3>2. Wait' = atLeast(0, Interval - atMost(Burst * Interval, fill + 1))
      BY <3>1 DEF Wait
    <3>3. atLeast(0, Interval - atMost(Burst * Interval, fill + 1)) <= atLeast(0, Interval - fill)
      BY <1>a, <3>1 DEF atLeast, atMost
    <3>4. atLeast(0, Interval - atMost(Burst * Interval, fill + 1)) \in Nat
      BY <1>a, <3>1 DEF atLeast, atMost
    <3> QED BY <1>e, <3>2, <3>3, <3>4 DEF Wait
  <2>b. phase[next] = "fetching" => fill' >= atMost(Interval, call')
    <3> SUFFICES ASSUME phase[next] = "fetching" PROVE fill' >= atMost(Interval, call')
      OBVIOUS
    <3>1. fill' = atMost(Burst * Interval, fill + 1) /\ Burst * Interval \in Nat
          /\ Interval <= Burst * Interval /\ call' = call + 1
      BY <1>11, <2>4, Bucket DEF Tick
    <3>2. atMost(Burst * Interval, fill + 1) >= atMost(Interval, call + 1)
      BY <1>a, <1>d, <3>1 DEF atMost
    <3> QED BY <3>1, <3>2
  <2>5. phase[next] = "waiting" => ran' = ran + 1 /\ (ran + 1) + (hold - 1) < RefreshTimeout
    BY <1>a, <1>d, <2>4 DEF RanCap, atMost, atLeast
  <2>6. ASSUME result[cur] = "ok" PROVE OnTime'
    <3>1. life[cur] \in Nat /\ life[cur] - 1 > 0 /\ life'[cur] = life[cur] - 1
      BY <1>a, <1>e, <1>f, <2>2, <2>3, <2>4, <2>6 DEF atLeast
    <3>2. phase[next] = "pending" =>
              due' = due - 1 /\ (due - 1) + u + MaxFetch + rest < life[cur] - 1
      BY <1>a, <1>e, <1>f, <2>3, <2>4, <2>6, <2>a DEF atLeast
    <3>3. phase[next] = "waiting" => (hold - 1) + MaxFetch + rest < life[cur] - 1
      BY <1>a, <1>e, <1>f, <2>4, <2>6
    <3>4. phase[next] = "fetching" => (MaxFetch - (call + 1)) + rest < life[cur] - 1
      BY <1>a, <1>e, <1>f, <2>4, <2>6
    <3> QED BY <1>e, <2>1, <2>2, <2>4, <2>a, <3>1, <3>2, <3>3, <3>4 DEF OnTime
  <2> QED BY <1>d, <2>1, <2>2, <2>4, <2>5, <2>6, <2>b
<1>12. CASE UNCHANGED tvars
  BY <1>12, <1>d DEF tvars, vars, timeVars, OnTime, Wait
<1> QED
  BY <1>1, <1>2, <1>3, <1>4, <1>5, <1>6, <1>7, <1>8, <1>9, <1>10, <1>11, <1>12, <1>c
  DEF TNext, TSteps

-----------------------------------------------------------------------------
(* The results                                                             *)

LEMMA InitTimed == TInit => RefreshesAhead /\ Limited /\ Paid
<1> SUFFICES ASSUME TInit PROVE RefreshesAhead /\ Limited /\ Paid
  OBVIOUS
<1>1. result[cur] = "none" /\ phase[next] = "pending" /\ hold = 0 /\ fails = 0 /\ starts = <<>>
  BY DEF TInit, Init
<1>2. RefreshesAhead
  BY <1>1 DEF RefreshesAhead, isValid
<1>3. Limited
  BY <1>1, LimiterAssumption DEF Limited, Spent, CyclesAreLimited
<1>4. Paid
  BY <1>1, ApiAssumption DEF Paid
<1> QED BY <1>2, <1>3, <1>4

\* The cycle with time is the cycle without: what is proved of the one,
\* whenever timers fire, calls return and certificates expire, holds of the
\* other (instance.go, with the delays and limits it computes).
THEOREM TimedImplements == TimedSpec => Spec
<1>1. TInit => Init
  BY DEF TInit
<1> QED BY <1>1, TimedStep, PTL DEF TimedSpec, Spec

\* Every clock stays in its range; in particular the limiter never runs up
\* more debt than the one token its only waiter waits for.
THEOREM ClocksInRange == TimedSpec => []TimeTypeOK
  BY ClocksHold, PTL DEF Clocks

\* For every buffer of at most half an hour, interval and lifetime, the timer
\* armed while valid information is served (scheduleRefresh with
\* refreshDuration, or 0) fires a buffer before that information expires, or
\* at once.
THEOREM RefreshIsAhead == TimedSpec => []RefreshesAhead
  BY InitTimed, AheadStep, TimedIInv, ClocksHold, PTL DEF TimedSpec

LEMMA LimitedHolds == ASSUME Interval <= RefreshTimeout PROVE TimedSpec => []Limited
  BY InitTimed, LimitedStep, TimedIInv, ClocksHold, PTL DEF TimedSpec

\* Unless the client chose a refresh timeout below the limiter's interval (then
\* refused refreshes are repeated without limit), beyond the burst and the one
\* cycle that waits no refresh cycle starts within refreshInterval of the ones
\* before, whatever Dials force and however often calls fail.
THEOREM LimiterLimits ==
    ASSUME Interval <= RefreshTimeout
    PROVE  TimedSpec => []CyclesAreLimited
  BY LimitedHolds, PTL DEF Limited

\* If a cycle's wait for its token ends before its deadline and the buffer is
\* longer than one such wait, the calls that fail in a row, each as long as a
\* call or the interval, whichever is longer, and the call that succeeds, then
\* an open cache on a machine that is awake never serves expired information.
\* (With the program's interval of 30 s, timeout of 60 s and buffer of 4 min:
\* two failures of calls of up to 69 s each.)
THEOREM BufferPays ==
    ASSUME Interval < RefreshTimeout,
           Interval + MaxFailures * atLeast(Interval, MaxFetch) + MaxFetch < Buffer
    PROVE  TimedSpec => []NeverLapses
<1>1. Interval <= RefreshTimeout /\ Interval + Retries(MaxFailures) + MaxFetch < Buffer
  BY LimiterAssumption, TimeoutAssumption DEF Retries, Period
<1>2. Paid => NeverLapses
  BY DEF Paid, NeverLapses
<1>3. TimedSpec => []Limited
  BY <1>1, LimitedHolds
<1>4. IInv /\ Clocks /\ Limited /\ Paid /\ [TNext]_tvars => Paid'
  BY <1>1, PaidStep
<1> QED BY <1>2, <1>3, <1>4, InitTimed, TimedIInv, ClocksHold, PTL DEF TimedSpec

=============================================================================
