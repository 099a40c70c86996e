------------------------- MODULE RefreshAheadCache -------------------------
(***************************************************************************)
(* The background refresh cycle of one AlloyDB instance                    *)
(* (internal/alloydb/instance.go, type RefreshAheadCache) together with    *)
(* the Dial calls that use the cache (dialer.go, Dialer.Dial).             *)
(*                                                                         *)
(* The code's refreshOperation objects are the members of Ops.  An object  *)
(* nobody references any more may be allocated again, as the garbage       *)
(* collector would, so that a finite Ops carries infinite behaviours.      *)
(* Time is abstract: a timer fires at some moment, a certificate expires   *)
(* at some moment.  Everything done under resultGuard is one action.       *)
(***************************************************************************)

CONSTANTS
    Callers,    \* goroutines inside Dialer.Dial for this instance
    Ops,        \* refreshOperation objects
    NoOp        \* a caller that holds no operation

ASSUME NoOpAssumption == NoOp \notin Ops

VARIABLES
    phase,      \* phase[o]: where the timer and the callback of o stand
    result,     \* result[o]: "none" until o.ready is closed
    cur,        \* i.cur
    next,       \* i.next
    closed,     \* i.ctx is cancelled
    pc,         \* pc[c]: control point of caller c inside Dial
    on          \* on[c]: the operation whose ready channel or result c uses

cacheVars == <<phase, result, cur, next, closed>>
callerVars == <<pc, on>>
vars == <<phase, result, cur, next, closed, pc, on>>

\* idle: no timer armed, no callback running (never armed, or over);
\* stopped: the timer was stopped before it fired, so that nobody will close
\* ready; pending: timer armed; started: callback runs, context not yet looked at;
\* waiting: in the rate limiter; fetching: in connectionInfo;
\* settled: ready is closed, resultGuard not yet taken.
Phases == {"idle", "stopped", "pending", "started", "waiting", "fetching", "settled"}

\* The certificate of an "ok" result becomes "expired" as time passes.
Results == {"none", "ok", "expired", "err"}

Points == {"idle", "lookup", "wait", "check", "forced", "rewait", "dialing", "remove"}

-----------------------------------------------------------------------------
(* refreshOperation                                                        *)

\* timer.Stop() reports true: the timer is armed and has not fired.
cancel(o) == phase[o] = "pending"

\* What an isValid that forgets the certificate's expiration would say.
isValidIgnoresExpiry(o) == result[o] \in {"ok", "expired"}

\* ready is closed, no error, certificate not expired.
isValid(o) == result[o] = "ok"

\* ready is closed.
Ready(o) == result[o] # "none"

\* The timer is armed or the callback has not returned.
Active(o) == phase[o] \notin {"idle", "stopped"}

\* Some variable of the program still references o.
InUse(o) == o \in {cur, next} \/ Active(o) \/ \E c \in Callers : on[c] = o

\* A fresh operation o with an armed timer becomes i.next; ph is the phase of
\* the other operations after the step that schedules it.  What nobody
\* references is garbage, and what became of it is forgotten here.
scheduleRefresh(o, ph) ==
    /\ ~InUse(o)
    /\ phase' = [p \in Ops |-> IF p = o THEN "pending" ELSE IF InUse(p) THEN ph[p] ELSE "idle"]
    /\ result' = [p \in Ops |-> IF InUse(p) THEN result[p] ELSE "none"]
    /\ next' = o

-----------------------------------------------------------------------------
(* The cache's operations                                                  *)

\* NewRefreshAheadCache: the first operation is both cur and next.
Init ==
    /\ \E o \in Ops :
        /\ phase = [p \in Ops |-> IF p = o THEN "pending" ELSE "idle"]
        /\ cur = o
        /\ next = o
    /\ result = [o \in Ops |-> "none"]
    /\ closed = FALSE
    /\ pc = [c \in Callers |-> "idle"]
    /\ on = [c \in Callers |-> NoOp]

\* ForceRefresh that does not look at what cancel reports.
ForceRefreshAlways ==
    /\ \E o \in Ops : scheduleRefresh(o, phase)
    /\ cur' = IF isValid(cur) THEN cur ELSE next'
    /\ UNCHANGED closed

\* ForceRefresh that moves cur before it replaces next.
ForceRefreshSwapped ==
    /\ IF cancel(next)
       THEN \E o \in Ops : scheduleRefresh(o, [phase EXCEPT ![next] = "stopped"])
       ELSE UNCHANGED <<phase, result, next>>
    /\ cur' = IF isValid(cur) THEN cur ELSE next
    /\ UNCHANGED closed

\* ForceRefresh, under resultGuard.
ForceRefresh ==
    /\ IF cancel(next)
       THEN \E o \in Ops : scheduleRefresh(o, [phase EXCEPT ![next] = "stopped"])
       ELSE UNCHANGED <<phase, result, next>>
    /\ cur' = IF isValid(cur) THEN cur ELSE next'
    /\ UNCHANGED closed

\* Close, under resultGuard: cancel the context, stop both timers.
Close ==
    /\ closed' = TRUE
    /\ phase' = [o \in Ops |-> IF o \in {cur, next} /\ cancel(o) THEN "stopped" ELSE phase[o]]
    /\ UNCHANGED <<result, cur, next>>

-----------------------------------------------------------------------------
(* The callback of scheduleRefresh, step by step                           *)

\* The timer fires.
Fire(o) ==
    /\ phase[o] = "pending"
    /\ phase' = [phase EXCEPT ![o] = "started"]
    /\ UNCHANGED <<result, cur, next, closed, callerVars>>

\* The callback finds the cache closed: it reports the error and is over.
ClosedExit(o) ==
    /\ phase[o] = "started"
    /\ closed
    /\ phase' = [phase EXCEPT ![o] = "idle"]
    /\ result' = [result EXCEPT ![o] = "err"]
    /\ UNCHANGED <<cur, next, closed, callerVars>>

\* A callback that never looks at the context.
BeginUnchecked(o) ==
    /\ phase[o] = "started"
    /\ phase' = [phase EXCEPT ![o] = "waiting"]
    /\ UNCHANGED <<result, cur, next, closed, callerVars>>

\* The cache is open: go on to the rate limiter.
Begin(o) ==
    /\ phase[o] = "started"
    /\ ~closed
    /\ phase' = [phase EXCEPT ![o] = "waiting"]
    /\ UNCHANGED <<result, cur, next, closed, callerVars>>

\* l.Wait returns nil; it refuses a cancelled context.
WaitPasses(o) ==
    /\ phase[o] = "waiting"
    /\ ~closed
    /\ phase' = [phase EXCEPT ![o] = "fetching"]
    /\ UNCHANGED <<result, cur, next, closed, callerVars>>

\* A limiter error path that returns without closing ready.
WaitFailsSilently(o) ==
    /\ phase[o] = "waiting"
    /\ phase' = [phase EXCEPT ![o] = "settled"]
    /\ UNCHANGED <<result, cur, next, closed, callerVars>>

\* l.Wait fails: the context is cancelled, or its deadline is too near.
WaitFails(o) ==
    /\ phase[o] = "waiting"
    /\ phase' = [phase EXCEPT ![o] = "settled"]
    /\ result' = [result EXCEPT ![o] = "err"]
    /\ UNCHANGED <<cur, next, closed, callerVars>>

\* connectionInfo returns and ready is closed.  Cancelling the context makes
\* it return but does not decide between the error and an answer that is
\* already there; the certificate may be expired when it arrives.
FetchReturns(o, r) ==
    /\ phase[o] = "fetching"
    /\ phase' = [phase EXCEPT ![o] = "settled"]
    /\ result' = [result EXCEPT ![o] = r]
    /\ UNCHANGED <<cur, next, closed, callerVars>>

\* A final step that schedules nothing after an error.
InstallStopsOnError(o) ==
    /\ phase[o] = "settled"
    /\ IF result[o] = "err"
       THEN phase' = [phase EXCEPT ![o] = "idle"] /\ UNCHANGED <<result, next>>
       ELSE \E n \in Ops : scheduleRefresh(n, [phase EXCEPT ![o] = "idle"])
    /\ cur' = IF result[o] = "err" /\ isValid(cur) THEN cur ELSE o
    /\ UNCHANGED <<closed, callerVars>>

\* A final step that installs every result, errors too.
InstallAlways(o) ==
    /\ phase[o] = "settled"
    /\ \E n \in Ops : scheduleRefresh(n, [phase EXCEPT ![o] = "idle"])
    /\ cur' = o
    /\ UNCHANGED <<closed, callerVars>>

\* The end of the callback, under resultGuard: schedule the next operation
\* and make o current, unless o failed while cur is still valid.
Install(o) ==
    /\ phase[o] = "settled"
    /\ \E n \in Ops : scheduleRefresh(n, [phase EXCEPT ![o] = "idle"])
    /\ cur' = IF result[o] = "err" /\ isValid(cur) THEN cur ELSE o
    /\ UNCHANGED <<closed, callerVars>>

Callback(o) ==
    \/ Fire(o)
    \/ ClosedExit(o)
    \/ Begin(o)
    \/ WaitPasses(o)
    \/ WaitFails(o)
    \/ \E r \in Results \ {"none"} : FetchReturns(o, r)
    \/ Install(o)

\* Time passes the expiration of o's certificate.
Expire(o) ==
    /\ InUse(o)
    /\ result[o] = "ok"
    /\ result' = [result EXCEPT ![o] = "expired"]
    /\ UNCHANGED <<phase, cur, next, closed, callerVars>>

-----------------------------------------------------------------------------
(* Dial, as far as it concerns the cache                                   *)

goto(c, p, o) ==
    /\ pc' = [pc EXCEPT ![c] = p]
    /\ on' = [on EXCEPT ![c] = o]

\* Dial obtains the cache.  It may be closed already: by a Dial that has not
\* yet deleted it when this one looks it up, or by a Dialer.Close that this
\* Dial was ahead of.
Enter(c) ==
    /\ pc[c] = "idle"
    /\ goto(c, "lookup", NoOp)
    /\ UNCHANGED cacheVars

\* ConnectionInfo reads i.cur under the read lock.
ReadCur(c) ==
    /\ \/ pc[c] = "lookup" /\ goto(c, "wait", cur)
       \/ pc[c] = "forced" /\ goto(c, "rewait", cur)
    /\ UNCHANGED cacheVars

\* The select of ConnectionInfo takes the ready branch.
InfoReady(c) ==
    /\ pc[c] \in {"wait", "rewait"}
    /\ Ready(on[c])
    /\ IF result[on[c]] = "err"
       THEN goto(c, "remove", NoOp)
       ELSE IF pc[c] = "wait" THEN goto(c, "check", on[c]) ELSE goto(c, "dialing", NoOp)
    /\ UNCHANGED cacheVars

\* It takes the branch of the cache's context.
InfoClosed(c) ==
    /\ pc[c] \in {"wait", "rewait"}
    /\ closed
    /\ goto(c, "remove", NoOp)
    /\ UNCHANGED cacheVars

\* It takes the branch of the caller's context.
InfoCancelled(c) ==
    /\ pc[c] \in {"wait", "rewait"}
    /\ goto(c, "remove", NoOp)
    /\ UNCHANGED cacheVars

\* The certificate Dial was handed has expired by now.
invalidClientCert(o) == result[o] = "expired"

\* An expired certificate forces a refresh.  (The clock only moves forward, so
\* judging and forcing in one step loses no behaviour.)
CheckCert(c) ==
    /\ pc[c] = "check"
    /\ IF invalidClientCert(on[c])
       THEN ForceRefresh /\ goto(c, "forced", NoOp)
       ELSE UNCHANGED cacheVars /\ goto(c, "dialing", NoOp)

\* The connection is made, or fails in a way that leaves the cache alone.
DialEnds(c) ==
    /\ pc[c] = "dialing"
    /\ goto(c, "idle", NoOp)
    /\ UNCHANGED cacheVars

\* dialFunc or the TLS handshake fails.
DialFails(c) ==
    /\ pc[c] = "dialing"
    /\ ForceRefresh
    /\ goto(c, "idle", NoOp)

\* The instance has no address of the requested type.
MissingIP(c) ==
    /\ pc[c] = "dialing"
    /\ goto(c, "remove", NoOp)
    /\ UNCHANGED cacheVars

\* removeCached closes the cache.
Remove(c) ==
    /\ pc[c] = "remove"
    /\ Close
    /\ goto(c, "idle", NoOp)

\* Dialer.Close closes the cache.
DialerClose ==
    /\ ~closed
    /\ Close
    /\ UNCHANGED callerVars

\* The steps a Dial takes by itself, without a new call or a cancelled context.
Dial(c) ==
    \/ ReadCur(c)
    \/ InfoReady(c)
    \/ InfoClosed(c)
    \/ CheckCert(c)
    \/ DialEnds(c)
    \/ DialFails(c)
    \/ MissingIP(c)
    \/ Remove(c)

Next ==
    \/ \E o \in Ops : Callback(o) \/ Expire(o)
    \/ \E c \in Callers : Dial(c) \/ Enter(c) \/ InfoCancelled(c)
    \/ DialerClose

Spec == Init /\ [][Next]_vars

\* Timers fire and callbacks run; at most one is ever under way
\* (SingleRefresh), so fairness of their disjunction is fairness of each.
\* FetchReturns is in it: the Admin API answers every call.  A Dial that can
\* step does; nothing obliges a client to call Dial, cancel it or call Close.
Fairness ==
    /\ WF_vars(\E o \in Ops : Callback(o))
    /\ \A c \in Callers : WF_vars(Dial(c))

\* What any number of Dials beside the Callers do to the cache: at any moment one
\* of them may call ForceRefresh or remove the cache.  (They keep no operation:
\* who holds one does not matter to the others.)
OtherDials == (ForceRefresh \/ Close) /\ UNCHANGED callerVars

\* The cache under all of these Dials.
SharedSpec == Init /\ [][Next \/ OtherDials]_vars /\ Fairness

\* The environment is no longer hopeless: a refresh that keeps coming back to
\* the rate limiter is let through again and again (tokens accrue with time,
\* and a failed wait takes none), and of the Admin API calls that keep coming
\* some bring a certificate that is still valid and is installed before its
\* hour is over.
RecoveringSpec ==
    /\ SharedSpec
    /\ SF_vars(\E o \in Ops : WaitPasses(o))
    /\ SF_vars(\E o \in Ops : FetchReturns(o, "ok"))
    /\ SF_vars(\E o \in Ops : result[o] = "ok" /\ Install(o))

-----------------------------------------------------------------------------
(* Properties                                                              *)

\* Every variable has its type.
TypeOK ==
    /\ phase \in [Ops -> Phases]
    /\ result \in [Ops -> Results]
    /\ cur \in Ops
    /\ next \in Ops
    /\ closed \in BOOLEAN
    /\ pc \in [Callers -> Points]
    /\ on \in [Callers -> Ops \cup {NoOp}]

\* At most one refresh of the cache is ever armed or under way, and it is
\* i.next: ForceRefresh (instance.go:230) racing the timer, the callback and
\* Close never starts a second cycle beside the first.
SingleRefresh == \A o \in Ops : Active(o) => o = next

\* While the cache is open some refresh is armed or under way: no order of
\* failures, forced refreshes and Dial errors ends the cycle (instance.go:257).
CycleAlive == ~closed => Active(next)

\* While the cache is open, cur is either complete or the operation under way:
\* a Dial that reads cur (ConnectionInfo, instance.go:207) never reads an
\* operation that was cancelled and that nobody will complete.
CurNeverDangling == ~closed /\ ~Ready(cur) => cur = next

\* What ties an operation's callback to its result: the result is there exactly
\* from the moment ready is closed, and an operation that is next without being
\* active was stopped or found the cache closed.  (Makes the three invariants
\* above inductive.)
ResultMatchesPhase ==
    /\ \A o \in Ops :
        /\ phase[o] \in {"pending", "started", "waiting", "fetching"} => result[o] = "none"
        /\ phase[o] = "settled" => result[o] # "none"
    /\ phase[next] \in {"idle", "stopped"} => result[next] \in {"none", "err"}

\* The refresh-ahead cache implements what a connectionInfoCache promises,
\* with the result of cur as the information served: valid information is
\* never given up for an operation that failed, was cancelled or is not
\* complete, before or after Close; only what a refresh brought replaces it
\* (instance.go:236, 334).
Abstract == INSTANCE ConnectionInfoCache WITH info <- result[cur]
ImplementsAbstract == Abstract!Spec

\* A Dial that found the certificate of an operation expired and forced a
\* refresh does not leave that operation current (dialer.go:301,
\* instance.go:236).  The one exception is the window in which the expired
\* operation has closed ready and its callback still waits for resultGuard.
ForceReplacesExpired ==
    [][\A c \in Callers :
        pc[c] = "check" /\ pc'[c] = "forced" => cur' # on[c] \/ phase[on[c]] = "settled"]_vars

\* The same without the exception, as "Block on refreshed connection info"
\* (dialer.go:304) has it: what a Dial has rejected is not what it is handed
\* next.  The window refutes it (RefreshAheadCache_rejected.cfg).
RejectedIsReplaced ==
    [][\A c \in Callers : pc[c] = "check" /\ pc'[c] = "forced" => cur' # on[c]]_vars

\* Once the cache is closed its refreshes die out (Close, instance.go:193):
\* the callbacks that were under way end and arm nothing for good.
CloseStopsCycle == closed ~> [](\A o \in Ops : ~Active(o))

\* An open cache recovers: whatever fails, expires or is forced meanwhile, it
\* has valid information again as long as the Admin API can be reached again
\* (the error branch of the callback, instance.go:319).
Recovers == []<>(closed \/ isValid(cur))

\* A Dial blocked in ConnectionInfo is released, however many other Dials force
\* refreshes, fail and remove the cache: by the refresh it waits for or by the
\* closing of the cache, without its own context having to end (instance.go:211,
\* dialer.go:304, "Block on refreshed connection info").  One thing only leaves
\* it behind: the ForceRefresh of another Dial that stops the timer of the
\* operation it waits for.
BlockedReturns ==
    \A c \in Callers :
        pc[c] \in {"wait", "rewait"} ~>
            pc[c] \notin {"wait", "rewait"} \/ (~closed /\ phase[on[c]] = "stopped")

\* The operation a Dial waits for on an open cache is complete or under way
\* (scheduleRefresh, instance.go:257: the operation "can be used to either
\* Cancel or Wait for the operation's result").  An operation that is neither
\* stays so while the Dial holds it: its ready channel is never closed.
WaitedOpCompletes ==
    \A c \in Callers :
        ~closed /\ pc[c] \in {"wait", "rewait"} => Ready(on[c]) \/ Active(on[c])

=============================================================================
