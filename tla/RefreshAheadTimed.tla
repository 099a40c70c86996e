------------------------- MODULE RefreshAheadTimed -------------------------
(***************************************************************************)
(* RefreshAheadCache with time: the delay scheduleRefresh arms the timer   *)
(* with (refreshDuration), the rate limiter, the refresh timeout and the   *)
(* certificates' expiration (internal/alloydb/instance.go).                *)
(*                                                                         *)
(* Every step is a step of RefreshAheadCache with a condition on the       *)
(* clocks, or Tick, which lets one unit of time pass.  Clocks count down   *)
(* to what they wait for or up to a cap, so that the endless cycle has     *)
(* finitely many states.  At most one refresh is armed or under way        *)
(* (RefreshAheadCache!SingleRefresh), so its clocks are plain variables.   *)
(***************************************************************************)
EXTENDS RefreshAheadCache, Integers, Sequences

CONSTANTS
    Hour,           \* time.Hour
    Buffer,         \* refreshBuffer
    Interval,       \* refreshInterval
    Burst,          \* refreshBurst
    RefreshTimeout, \* refreshTimeout, RefreshTimeout or what the client chose
    Lifetimes,      \* how long a certificate may be valid on arrival
    MaxFetch,       \* how long a call of a healthy Admin API takes at most
    MaxFailures     \* how many calls in a row may fail while it is healthy

ASSUME BufferAssumption == Buffer \in Nat /\ Hour \in Nat /\ 2 * Buffer <= Hour
ASSUME LimiterAssumption == Interval \in Nat \ {0} /\ Burst \in Nat \ {0}
ASSUME TimeoutAssumption == RefreshTimeout \in Nat
ASSUME ApiAssumption == Lifetimes \subseteq Nat /\ MaxFetch \in Nat /\ MaxFailures \in Nat

VARIABLES
    awake,      \* the machine is awake and the Admin API well, from first to last
    due,        \* until the timer of i.next fires
    life,       \* life[o]: until the certificate of o expires
    fill,       \* the limiter's tokens, in units of 1/Interval of a token
    hold,       \* until the limiter lets the callback pass; -1: it refused
    ran,        \* since the callback created its context
    call,       \* since the callback called connectionInfo
    starts,     \* history: the age of the latest refresh cycles, newest first
    fails       \* history: how many calls in a row have failed

timeVars == <<awake, due, life, fill, hold, ran, call, starts, fails>>
tvars == <<vars, timeVars>>

atMost(a, b) == IF a < b THEN a ELSE b
atLeast(a, b) == IF a > b THEN a ELSE b

RanCap == atLeast(RefreshTimeout, Interval + MaxFetch) + 1

-----------------------------------------------------------------------------
\* refreshDuration without the buffer.
refreshDurationToExpiry(d) == IF d < Hour THEN atLeast(d, 0) ELSE d \div 2

\* refreshDuration, d being the time until the certificate expires.
refreshDuration(d) ==
    IF d < Hour
    THEN IF d < Buffer THEN 0 ELSE d - Buffer
    ELSE d \div 2

\* Until the certificate of o expires, or something negative if it has.
Remaining(o) == IF result[o] = "ok" THEN life[o] ELSE -1

\* What a step does to the clocks of the timer and of the certificates: a
\* timer that the step arms is armed with d, and the rest goes on.
Armed(d) ==
    /\ due' = IF phase'[next'] # "pending" THEN 0 ELSE IF next' = next THEN due ELSE d
    /\ life' = [o \in Ops |-> IF result'[o] = "ok" THEN life[o] ELSE 0]

\* rate.NewLimiter starts with a full bucket.
TInit ==
    /\ Init
    /\ awake \in BOOLEAN
    /\ due = 0
    /\ life = [o \in Ops |-> 0]
    /\ fill = Burst * Interval
    /\ hold = 0
    /\ ran = 0
    /\ call = 0
    /\ starts = <<>>
    /\ fails = 0

-----------------------------------------------------------------------------
(* The callback                                                            *)

TFire(o) ==
    /\ Fire(o)
    /\ due = 0
    /\ UNCHANGED timeVars

TClosedExit(o) ==
    /\ ClosedExit(o)
    /\ Armed(0)
    /\ UNCHANGED <<awake, fill, hold, ran, call, starts, fails>>

\* A limiter that never makes anybody wait.
ReserveNothing ==
    /\ hold' = 0
    /\ UNCHANGED fill

\* rate.Limiter: take a token that is there or the next one to come, unless
\* that one comes after the context's deadline.
Reserve ==
    LET wait == atLeast(0, Interval - fill)
    IN  IF wait <= RefreshTimeout
        THEN hold' = wait /\ fill' = fill - Interval
        ELSE hold' = -1 /\ UNCHANGED fill

\* A callback that does not ask the limiter.
TBeginUnlimited(o) ==
    /\ Begin(o)
    /\ Armed(0)
    /\ ReserveNothing
    /\ ran' = 0
    /\ starts' = SubSeq(<<0>> \o starts, 1, atMost(Len(starts) + 1, Burst + 2))
    /\ UNCHANGED <<awake, call, fails>>

\* A refresh cycle starts: its context gets the timeout, and it asks the
\* limiter for a token.
TBegin(o) ==
    /\ Begin(o)
    /\ Armed(0)
    /\ Reserve
    /\ ran' = 0
    /\ starts' = SubSeq(<<0>> \o starts, 1, atMost(Len(starts) + 1, Burst + 2))
    /\ UNCHANGED <<awake, call, fails>>

\* connectionInfo is called.
TWaitPasses(o) ==
    /\ WaitPasses(o)
    /\ hold = 0
    /\ Armed(0)
    /\ call' = 0
    /\ UNCHANGED <<awake, fill, hold, ran, starts, fails>>

\* The limiter refused, or the context ended first; a reservation that has
\* not come up is given back.
TWaitFails(o) ==
    /\ WaitFails(o)
    /\ hold = -1 \/ closed \/ ran >= RefreshTimeout
    /\ Armed(0)
    /\ fill' = IF hold > 0 THEN fill + Interval ELSE fill
    /\ hold' = 0
    /\ ran' = 0
    /\ UNCHANGED <<awake, call, starts, fails>>

\* A certificate is valid for longer than the buffer if the Admin API is well.
Issued == {l \in Lifetimes : awake => l >= Buffer}

\* connectionInfo returns.  Its context has no deadline, so how long it takes
\* is up to the Admin API.
TFetchReturns(o, r) ==
    /\ FetchReturns(o, r)
    /\ UNCHANGED due
    /\ \E l \in IF r = "ok" THEN Issued ELSE {0} : life' = [life EXCEPT ![o] = l]
    /\ fails' = IF r = "err" THEN atMost(fails + 1, MaxFailures + 1) ELSE 0
    /\ ran' = 0
    /\ call' = 0
    /\ UNCHANGED <<awake, fill, hold, starts>>

\* A final step that waits before it retries, as the limiter does already.
TInstallRetriesLate(o) ==
    /\ Install(o)
    /\ Armed(IF result[o] = "err" THEN Interval ELSE refreshDuration(Remaining(o)))
    /\ UNCHANGED <<awake, fill, hold, ran, call, starts, fails>>

\* The end of the callback: a failed refresh is repeated at once.
TInstall(o) ==
    /\ Install(o)
    /\ Armed(IF result[o] = "err" THEN 0 ELSE refreshDuration(Remaining(o)))
    /\ UNCHANGED <<awake, fill, hold, ran, call, starts, fails>>

-----------------------------------------------------------------------------
(* The callers and the clock                                               *)

\* A step of a Dial or of Close; ForceRefresh arms the timer with 0.
TDial ==
    /\ DialerClose \/ \E c \in Callers : Dial(c) \/ Enter(c) \/ InfoCancelled(c)
    /\ Armed(0)
    /\ UNCHANGED <<awake, fill, hold, ran, call, starts, fails>>

\* Now is after the expiration of the certificate.
TExpire(o) ==
    /\ Expire(o)
    /\ life[o] = 0
    /\ UNCHANGED timeVars

UnderWay == phase[next] \in {"waiting", "fetching"}

\* The callback has something to do that takes no time.
Urgent ==
    \/ phase[next] = "pending" /\ due = 0
    \/ phase[next] \in {"started", "settled"}
    \/ phase[next] = "waiting" /\ hold <= 0
    \/ phase[next] = "fetching" /\ call >= MaxFetch

\* One unit of time passes; a certificate that expires now has to do so first.
\* Timers and goroutines may be late without bound (the machine sleeps, the CPU
\* is throttled), unless the machine is awake.
Tick ==
    /\ awake => ~Urgent
    /\ \A o \in Ops : InUse(o) /\ result[o] = "ok" => life[o] > 0
    /\ due' = atLeast(0, due - 1)
    /\ life' = [o \in Ops |-> atLeast(0, life[o] - 1)]
    /\ fill' = atMost(Burst * Interval, fill + 1)
    /\ hold' = IF hold > 0 THEN hold - 1 ELSE hold
    /\ ran' = IF UnderWay THEN atMost(ran + 1, RanCap) ELSE 0
    /\ call' = IF phase[next] = "fetching" THEN atMost(call + 1, MaxFetch) ELSE 0
    /\ starts' = [i \in DOMAIN starts |-> atMost(starts[i] + 1, Interval)]
    /\ UNCHANGED <<vars, awake, fails>>

TSteps(o) ==
    \/ TFire(o)
    \/ TClosedExit(o)
    \/ TBegin(o)
    \/ TWaitPasses(o)
    \/ TWaitFails(o)
    \/ TInstall(o)
    \/ TExpire(o)

\* The Admin API may answer anything at any time, unless it is well.
TNext ==
    \/ \E o \in Ops :
        \/ TSteps(o)
        \/ TFetchReturns(o, "ok")
        \/ (awake => fails < MaxFailures) /\ TFetchReturns(o, "err")
    \/ TDial
    \/ Tick

TimedSpec == TInit /\ [][TNext]_tvars

-----------------------------------------------------------------------------
(* Properties                                                              *)

\* Every clock has its range.
TimeTypeOK ==
    /\ awake \in BOOLEAN
    /\ due \in Nat
    /\ life \in [Ops -> Nat]
    /\ fill \in -RefreshTimeout - Interval..Burst * Interval
    /\ hold \in -1..Interval
    /\ ran \in 0..RanCap
    /\ call \in 0..MaxFetch
    /\ starts \in Seq(0..Interval) /\ Len(starts) <= Burst + 2
    /\ fails \in 0..MaxFailures + 1

\* The timer that is armed while valid information is served fires at least
\* refreshBuffer before that information expires, or at once: neither a forced
\* refresh nor a failure nor the two ways refreshDuration counts (half of the
\* time left from an hour on, all but the buffer below; instance.go:244)
\* leaves a later one armed.
RefreshesAhead ==
    phase[next] = "pending" /\ isValid(cur) => due = 0 \/ due + Buffer <= life[cur]

\* While the machine is awake and the Admin API fails at most MaxFailures times
\* in a row, the information served never expires: the buffer pays for the
\* waits in the rate limiter, the calls and the retries, whatever Dials force
\* meanwhile (instance.go:31, 244, 284, 319).
NeverLapses == awake /\ ~closed => result[cur] # "expired"

\* "refreshInterval is the amount of time between refresh attempts as enforced
\* by the rate limiter" (instance.go:35): beyond the initial burst and the
\* cycle that waits for its token, no refresh cycle starts within refreshInterval
\* of the ones before.
CyclesAreLimited == Len(starts) = Burst + 2 => starts[Burst + 2] = Interval

\* refreshTimeout is "the maximum amount of time to wait for a refresh cycle to
\* complete" (instance.go:40), at least while the machine is awake.
TimeoutEndsRefresh == awake /\ UnderWay => ran <= RefreshTimeout

=============================================================================
