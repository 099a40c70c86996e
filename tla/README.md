# A TLA+ model of the AlloyDB Go connector

The connector hands out `net.Conn`s to AlloyDB instances. To do so it keeps,
per instance, connection information (addresses, a client certificate that
lives about an hour, the CA) fresh, by itself or on demand, while any number of
goroutines dial. These modules model that machinery, TLC checks it on small
instances, and TLAPS proves its central invariants for every size.

## The system and its parts

| Part | State | Operations | Interaction | What is hard |
|---|---|---|---|---|
| `RefreshAheadCache` (`internal/alloydb/instance.go`) | `cur`, `next` (refresh operations: timer, ready channel, result), a cancellable context, a rate limiter | `ConnectionInfo`, `ForceRefresh`, `Close`, the timer callback | called by Dials; calls the Admin API client; `resultGuard` protects `cur`/`next` | a timer that fires while it is stopped; Dials waiting on operations others cancel; Close during a callback; failures and expiry in between |
| `LazyRefreshCache` (`lazy.go`) | `cached`, `needsRefresh`, a mutex | `ConnectionInfo`, `ForceRefresh` | the mutex is held during the API call | who serves a forced refresh; nobody starves |
| `StaticConnectionInfoCache` (`static.go`) | the parsed information | its constructor | reads a reader all caches of the Dialer share | the reader can be read once |
| Admin API client (`refresh.go`) | none between calls; two goroutines and two channels in a call | `connectionInfo` | called by both refreshing caches | order of answers, end of the context, goroutines left behind |
| `Dialer` (`dialer.go`) | map of caches under a RW lock, closed channel, key generator | `Dial`, `Close`, `connectionInfoCache`, `removeCached` | owns the caches | look-up and creation under two locks; removal racing creation; Close racing Dial; sockets on error paths |
| Metadata exchange (`dialer.go:442`) | a pool of buffers, the deadline of the connection | one request and response | inside Dial | short reads, message sizes, deadlines that end it or outlive it |
| Open connections metric, instrumented connections (`dialer.go:374`, `:545`) | a counter per cache, a gauge per instance | count on Dial and Close of a connection; Read and Write | goroutines nobody waits for | order of records |
| Options (`options.go`, `NewDialer`) | the `dialerConfig` of a Dialer, the `dialCfg` of a Dial | options, DialOptions, the checks of `NewDialer`, the once that registers the views | before everything else | errors inside a group of options, overriding, defaults shared by Dials |
| `database/sql` drivers (`driver/pgxv4`, `driver/pgxv5`) | a map of DSNs under a mutex, pgx's registry | `RegisterDriver`, `Open`, the cleanup function | own a Dialer | one registration per DSN; a mutex all pools share |
| Telemetry (`internal/tel`) | spans, measures, views | spans of Dial, records of Dials, refreshes and I/O | called from Dial, the refresh and the connections | every path of Dial |
| Error types, loggers, version, mocks | | | | little |

What makes each correct: one refresh at a time and never none (refresh-ahead);
valid information is not thrown away and rejected information is not served
again (both caches); a Dial that waits is released; what the map holds is alive
and what it does not hold is stopped (Dialer); Close stops everything; a failed
Dial leaves no socket; a refresh returns when its context ends, succeeds only
with complete information and leaves no goroutine. Information is renewed
before it expires; a hung instance holds up nobody but its own Dials; a
connection is handed over when the server said so, clean and without a
deadline; what is configured is what is used; every outcome is reported once.

## Modules

| Module | Models |
|---|---|
| `RefreshAheadCache` | the refresh cycle and the Dials that use it |
| `ConnectionInfoCache` | abstract: what a cache that serves `result[cur]` promises |
| `LazyRefreshCache` | the lazy cache and its Dials |
| `AdminAPIClient` | one `connectionInfo` call |
| `Dialer` | Dial and Close, the map, the key, static construction, sockets |
| `RefreshAheadTimed` | `RefreshAheadCache` with clocks: delays, rate limiter, timeout, expiry |
| `DialerLocks` | the Dialer and both kinds of cache at the grain of their locks |
| `Driver` | the driver over `DialerLocks`: registration, DSNs, Opens, cleanup |
| `MetadataExchange` | exchanges over the pool of buffers |
| `Configuration` | `NewDialer` with its options, Dials with theirs |
| `OpenConnections` | counter and gauge |
| `Telemetry` | spans and measures, composed with `OpenConnections` |
| `RefreshAheadProofs`, `DialerProofs`, `LazyRefreshCacheProofs`, `MetadataExchangeProofs`, `DriverProofs`, `AdminAPIClientProofs`, `ConfigurationProofs`, `TelemetryProofs` | the theorems about the modules they extend |
| `MC*` | symmetry sets, constants and the size of the pool, for TLC |

Definitions whose comment describes a faulty variant ("A Close that forgets
...") stand just before the definition they vary. They are not part of any
specification; substituted for it, each breaks the property it is listed with
in `PROJECT.json`, which shows that the property depends on the code.

### RefreshAheadCache

A `refreshOperation` is a member of `Ops`; `phase` says where its timer and
callback stand ("stopped": `ForceRefresh` or `Close` stopped the timer before it
fired) and `result` what its closed `ready` channel reveals. The
critical sections under `resultGuard` are `ForceRefresh`, `Close` and `Install`
(the end of the callback); everything the callback does before it takes the
lock is a sequence of steps (`Fire`, `ClosedExit` or `Begin`, `WaitPasses` or
`WaitFails`, `FetchReturns`), since all of it races the other two.
`scheduleRefresh` takes an operation nobody references, as the allocator would,
and forgets the results of garbage: with `|Callers| + 3` operations there is
always one (assumed in `MCRefreshAheadCache`), so the finite pool restricts
nothing. Time is abstract: a timer fires and a certificate expires at any
moment, which covers the delays `refreshDuration` computes and a machine that
was asleep. The callers follow `Dial`: read `cur`, wait for `ready`, the own
context or the cache's; force a refresh if the certificate has expired and ask
again; fail and remove the cache, or connect, which may fail and force a
refresh. Where few Dials are followed, any number of others act on the cache as
`OtherDials`: they force refreshes and close it.

### Dialer

A Dial is one call and the cache it may create bears its name. Look-up (read
lock) and creation (write lock) are two actions. `ConnectionInfo` may answer or
fail at any time, which covers what the cache modules do in detail. The kind of
cache, the metadata exchange and whether the key was given are chosen in
`Init`. In the program the static reader is drained by the first construction;
`reader` says so.

### LazyRefreshCache, AdminAPIClient

The lazy cache counts the time left of the cached certificate in small units
(`Life`, `Buffer`) because its decision compares it with the buffer; `bad` is a
history variable (a ForceRefresh rejected what is cached). In `AdminAPIClient`
a text is the type of its PEM block and what the block holds. The code reads the
expiry from the first block without looking at its type and `tls.X509KeyPair`
skips blocks that are no `CERTIFICATE`, so the certificate presented and the one
the expiry is taken from can differ.

### RefreshAheadTimed

Every action is an action of `RefreshAheadCache` with a condition on clocks, or
`Tick`. Clocks count down to what they wait for (`due`: the timer; `life[o]`:
the certificate; `hold`: the limiter's token) or up to a cap, so that the
endless cycle has finitely many states. The limiter keeps its tokens in units of
1/`Interval`, starts full, hands out the next token in advance and refuses when
it would come after the context's deadline. The context with the timeout is used
for the limiter only, as in the code: `FetchReturns` takes as long as the API
does. A behaviour is either *awake* (goroutines and timers that are due go
before time passes, calls take at most `MaxFetch`, at most `MaxFailures` fail in
a row, certificates outlive the buffer) or not (a machine asleep, an API that
answers anything at any time); `NeverLapses` is about the former, the rest about
both.

### DialerLocks and Driver

`Dialer` and the caches' modules take what is done under a lock for one step.
`DialerLocks` looks at what is held while something else is waited for: the
Dialer's lock during `Close` and `removeCached` of a cache, the lazy cache's
mutex during a call of the Admin API, `resultGuard` in the refresh-ahead
callback. A writer announces itself (`Queue`) and blocks later readers, like
`sync.RWMutex`. `Hung` are instances about which the API never answers. A Dial
that waits for an operation another Dial's `ForceRefresh` cancels goes to
`orphaned` (see the disagreements). A creation may fail under the write lock
(`CreateFails`), for want of a key. `Driver` extends it with the code that calls
the Dialer: the Opens are the Dials, pgx's registry is the sequence `configs`, a
URI is a position in it, and a DialFunc is the instance it captured.

### MetadataExchange

A message is its size; on the wire it follows a header of `Header` digits in
base `Base` (4 and 256 in the program). A Read returns between one byte and all
it was asked for, since the code calls `conn.Read` and not `io.ReadFull`; header
bytes that did not come keep those of the request, which is in the same buffer.
`room` is the capacity of the slice: `append` moves a request that does not fit
to an array of its own. `broken` and `short` are history variables.

### Configuration

Options come in groups, what one call of an Option runs (several, or none, for
`WithOptions`), as `NewDialer` looks at the error after each group. Options that
assign a field are one operator, which adds the field to the set `flags`;
credentials set the token source and are appended to the options of the Admin
API client. `adminIdentity` is whom that client's library makes it speak for:
the HTTP client's own identity if `WithHTTPClient` gave one, which the token
source of the metadata exchange knows nothing of, else the last of several
credentials of one kind. (It refuses two kinds, which is one of the ways
`CheckOptions` may fail.) `NewDialer` runs the DialOptions it collected, one per
step, over its presets; Dials copy the Dialer's default `dialCfg` and run their
own options over it.

### OpenConnections and Telemetry

`OpenConnections` keeps the counter's wrap-around (`Modulus` for 2^64, larger
than twice the number of connections so that wrapped values stay distinct) and
the conversion to `int64`. `Telemetry` adds the Dial before the connection, with
a span for each of its three parts, the refresh and the I/O. A measure handed to
`go` waits in the bag `pending` until its goroutine runs; the latency of a Dial
is recorded by the goroutine that counts its connection.

## Runs

| Run | Bounds | Shows |
|---|---|---|
| `refresh_safety` | 2 Dials, 5 operations, symmetric | `SingleRefresh`, `CycleAlive`, `CurNeverDangling`, `ForceReplacesExpired`, refinement of `ConnectionInfoCache` |
| `refresh_liveness` | 1 Dial followed, any number of others, 4 operations | `CloseStopsCycle`, `Recovers`, `BlockedReturns` |
| `refresh_orphan` | 2 Dials | violated: `WaitedOpCompletes` |
| `timed` | 1 Dial; in units of 30 s: interval 1, timeout 2, burst 2, buffer 5, hour 10; certificates of 0, 5, 9 or 10 | `RefreshesAhead`, `CyclesAreLimited`, `NeverLapses` |
| `timed_timeout` | calls of up to 4 units, timeout 2 | violated: `TimeoutEndsRefresh` |
| `dialer_safety` | 3 Dials, 1 Close, 2 instances, every kind of cache | `LeakNeedsRemoval`, `MappedIsOpen`, `CloseStopsExisting`, `FailedDialClosesSocket`, `KeyFailureIsFinal` |
| `lazy` | 3 Dials, certificate of 3 units, buffer of 1 | `ForcedInfoIsNew`, `HolderFetches`, `CallReturns` |
| `admin_api` | chains of up to 2 texts | `SuccessIsComplete`, `FailureHasItsReason`, `CancelReturns`, `GoroutinesEnd` |
| `exchange` | 2 exchanges, 2-digit sizes in base 4, buffers of 6; requests that just fit and that outgrow it, responses of 0, 1, 6 and 7 | `BufferIsOwned`, `HandedOver`, `AcceptedSucceeds`, `ExchangeReturns` |
| `configuration` | 2 NewDialers with up to 2 of 7 groups of options, one of them empty, 2 Dials with up to one DialOption | `CreatedMeansUsable`, `IdentityAsGiven`, `MetricsFailureIsFinal`, `DialsAreIndependent` |
| `driver` | 2 Opens of 1 or 2 DSNs, 1 Close, 2 instances of which one hangs, both kinds of cache | `OneConfigPerDSN`, `DialsItsInstance`, `LocksAreOrdered`, `dbURIReturns`, `HungInstanceHoldsNobodyUp`, `CloseReturns` |
| `telemetry` | 2 Dials and their connections, 2 caches, 1 refresh, 1 Read or Write each | `CounterSettles`, `SpansEnd`, `ReportsSettle` |

Why the bounds are enough: two Dials suffice for every conflict over `cur` and
`next`, as each conflict is between one ForceRefresh or Close and one waiter or
the callback; three Dials are what the removal race takes (one creates, one
holds, one recreates); a chain of two texts has every combination of a first
text and a text behind it. In `timed` the numbers are the program's (interval and
burst, timeout of 60 s), but for a shorter buffer and hour: two failures and a
success just fit into the buffer (`NeverLapses` fails with a buffer of 4), and
the certificates lie on either side of each comparison of `refreshDuration`. In
`exchange` the sizes lie on either side of the buffer's capacity, and a header of
two digits has a short read. Two exchanges, two NewDialers and two Opens are
enough for what each shares with one other. In `driver` an Open may meet another
of its own instance, healthy or hung, or of the other one. The safety properties
are all proved for every size (see below), so the bounds matter for the liveness
properties and for the runs that end in a violation. Deadlock is not
checked where the system may stop: a closed cache, one-shot Dials, a finished
refresh.

Type invariants (`TypeOK`, `TimeTypeOK`) are stated in most modules with state.
They are proved, that of `RefreshAheadCache` as a theorem and the others as parts
of the proofs' invariants, and not checked by runs.

Without symmetry two Dials over five operations have ten million states, too
many for TLC's liveness checking. The liveness run follows one Dial; what all
others may do to the cache, at any time and any number of times, are the steps
`OtherDials`. `BlockedReturns` names the only wait that need not end, for an
operation of an open cache whose timer another Dial has stopped, and
`refresh_orphan` shows that this one happens. In `configuration` a Dial has at
most one DialOption of its own: two take too many states, and the order of any
number is proved.

### Disagreements between the code and its documentation

- **A Dial can wait for an operation nobody will finish** (`refresh_orphan`).
  Two Dials find the same expired certificate. The first forces a refresh (`cur`
  = `next` = a new pending operation) and waits on it; before its timer fires the
  second forces one too, stops that timer and schedules another. The first
  Dial's channel is never closed.
- **The refresh timeout does not end a refresh** (`timed_timeout`):
  `connectionInfo` is given the cache's context, not the one with the timeout.

The ones below have a property and a configuration, which TLC refutes, but are
not among the runs: `tlc -config <configuration> <module>` shows the trace.

- **A Dial may be handed again what it rejected** (`RefreshAheadCache_rejected.cfg`,
  `MCRefreshAheadCache`; dialer.go:304). Between `close(ready)` and the lock, a
  `ForceRefresh` finds no timer to stop and leaves the expired result installed;
  `ForceReplacesExpired` says that there is no other such moment.
- **The expiry may be that of a certificate that is not presented**
  (`AdminAPIClient_expiry.cfg`, `AdminAPIClient`; refresh.go:111, :197), when the
  chain begins with a certificate in a block of another type.
  `SuccessIsComplete` covers the chains that begin with a `CERTIFICATE`.
- **A keep-alive error leaks the socket** (`Dialer_keepAlive.cfg`, `MCDialer`;
  dialer.go:338): the two error returns close nothing.
  `FailedDialClosesSocket` is about all other failures.
- **removeCached may delete another cache than it closes**, which then
  refreshes for ever (`Dialer_removal.cfg`, `MCDialer`). `LeakNeedsRemoval`
  says that nothing else loses a cache.
- **A Dial under way may create a cache after Close** (`Dialer_lateCreate.cfg`,
  `MCDialer`). `CloseStopsExisting` says what Close does achieve.
- **Concurrent calls of Close may panic** (`Dialer_doubleClose.cfg`,
  `MCDialer`).
- **Static information serves only the first instance** (`Dialer_static.cfg`,
  `MCDialer`).
- **The gauge of open connections may keep an older value**
  (`OpenConnections_gauge.cfg`, `OpenConnections`); the counters behind it
  settle.
- **A refresh timeout shorter than the limiter's interval makes refresh cycles
  spin** (`RefreshAheadTimed_spin.cfg`, `MCRefreshAheadTimed`): the limiter
  refuses at once, the callback takes that for a failed refresh and schedules
  the next without delay. `instance.go:41` says the timeout should be greater,
  but nothing enforces it.
- **A Dial refused by a closed Dialer is no failed Dial** in the metrics
  (`Telemetry_refused.cfg`, `MCTelemetry`; README.md:261).
- **Bytes that come with an error are not counted** (`Telemetry_bytes.cfg`,
  `MCTelemetry`; README.md:267).

And in the statements of the properties themselves: an exchange whose Reads come
short may fail, panic or be taken for accepted (`HandedOver`,
`AcceptedSucceeds`); a Dial without a deadline waits for ever for an instance
about which the Admin API does not answer, also with lazy caches, which ignore
the refresh timeout (`HungInstanceHoldsNobodyUp` is about the others).

### Fairness

- *Callbacks* (`RefreshAheadCache`): weak fairness of "some callback step".
  The Go runtime fires timers and runs goroutines; there is one active
  operation at a time (`SingleRefresh`). It includes `FetchReturns`, i.e. the
  assumption that Admin API calls return.
- *Dials*: weak fairness of each Dial's own steps. Nothing makes a client call
  Dial, cancel its context or call Close. `SharedSpec`, the specification of the
  liveness run, adds the steps of other Dials and no fairness for them.
- `RecoveringSpec` adds to it strong fairness of passing the rate limiter (tokens
  accrue, a failed wait takes none), of a successful answer and of installing
  a still valid one. `Recovers` is about an environment that gets well.
- *Lazy cache*: weak fairness for the mutex's holder, strong fairness for
  taking the mutex (`sync.Mutex` hands over to a waiter of a millisecond).
- *Admin API client*: weak fairness of the goroutines' own steps and none for
  the API: `CancelReturns` must hold when it never answers.
- *Metadata exchange*: weak fairness of the steps that wait for nobody and of
  the deadline once it is set; none for the server or the token source.
- *Driver*: strong fairness of each Open, Dial and Close (a lock that is free
  again and again is handed over: `sync.Mutex` and `sync.RWMutex` starve nobody)
  and weak fairness of the refresh cycles, in which the API answers, but never
  about a hung instance. No context need end, and nobody need call anything.

## Proofs

TLAPS checks, for every set of callers, operations, Dials, Closes, instances,
exchanges, connections, DSNs and options, and for all times and sizes, the
theorems below. Each rests on an inductive invariant; most of the properties are
not inductive by themselves.

- **RefreshAheadProofs**, the cycle without time. `IInv` = `TypeOK` and
  `SingleRefresh`, `CycleAlive`, `CurNeverDangling`, `ResultMatchesPhase`. None
  of the middle three is inductive alone: that Install leaves no dangling `cur`
  needs that a settled operation has a result, and that scheduling leaves a
  single active operation needs that the installed one was the only one.
  `Scheduled`, `ForceRefreshPreserves` and `ClosePreserves` are the lemmas
  several actions share. From `IInv` follow the four invariants, `ForceMovesOn`
  (the action property `ForceReplacesExpired`) and `Refinement`.
- **RefreshAheadProofs**, the cycle with time. `TimedImplements`: each step with
  clocks is a step without, or changes only clocks, so all of the above carries
  over. `Clocks` adds to the clocks' ranges what the limiter owes: nothing but
  the one token the only waiter waits for, and only if it comes before the
  deadline; this needs `SingleRefresh`. On it rest
  - `RefreshIsAhead`, for every buffer of at most half an hour: the arithmetic
    of `refreshDuration`, and that each step that arms the timer does so for the
    information that is served;
  - `LimiterLimits`, for refresh timeouts not below the interval. `Spent`
    relates the bucket to the history: since the k-th latest cycle started it
    lost k tokens and gained no more than time has passed. The hypothesis is
    needed: with a shorter timeout the limiter refuses, which takes no token,
    and the property is false (`RefreshAheadTimed_spin.cfg`);
  - `BufferPays`, `NeverLapses` from two conditions: the interval is below the
    timeout, and `Interval + MaxFailures * atLeast(Interval, MaxFetch) +
    MaxFetch < Buffer`: one full wait for a token, the calls that may fail, each
    as long as a call or the interval (tokens accrue while a call runs, so a
    retry waits for what is left of the interval only), and the call that
    succeeds. `Paid` says that what is served outlives what is still to be
    paid; it needs `OnTime`, how the clocks stand to the token the waiter waits
    for. With the program's 30 s, 60 s and 4 min this covers two failures of
    calls of up to 69 s each. The condition is tight: the constants of the
    `timed` run satisfy it with nothing to spare, and with a buffer one unit
    shorter TLC refutes the property.
- **DialerProofs.** `IInv` adds to `MappedIsOpen`, `LeakNeedsRemoval` and
  `CloseStopsExisting` that map entries and held caches belong to their
  instance (so that a removal closes nothing mapped elsewhere), that a Dial
  creates once, that a sweep follows the closing of the channel, and where
  sockets may be open. `KeyIsSettledOnce` is inductive over it.
- **LazyRefreshCacheProofs.** `IInv` = `TypeOK`, `HolderFetches` and
  `ForceRemembered`; `ForcedInfoIsNew` follows.
- **MetadataExchangeProofs.** `IInv` = `TypeOK`, `BufferIsOwned` and, for each
  exchange, how much of the response has been read and that the size is the
  response's as long as no Read came short (`ReadSound`), that a call which
  returned has given its buffer and deadline back (`DeferSound`), and what its
  outcome says (`OutcomeSound`).
- **DriverProofs.** That a DSN gets one configuration takes the mutex
  (`MutexSound`: held by exactly the Open between look-up and registration) and
  the registry (`RegistrySound`: a configuration is remembered, or its Open is
  about to). That an Open dials its own instance then has to be carried through
  every step of `DialerLocks`: the map, the caches and their names
  (`DialSound`). `LocksInOrder` has an invariant of its own on top, `LInv`:
  `LocksAreOrdered`, and that a lazy Dialer has no refresh cycles and a Dial that
  has not created its cache has started none (`CyclesSound`), without which a
  creation could disturb a callback that holds `resultGuard`. It is the safety
  behind `CloseReturns` and `HungInstanceHoldsNobodyUp`: whoever waits for a
  cache's lock with Dialer.lock in hand waits for somebody who does not wait for
  Dialer.lock.
- **AdminAPIClientProofs.** What is in a channel is what the answer makes of it
  (`ChannelSound`), and the refresh goes on only with a success (`RefreshSound`).
  `AcceptedChain` is about chains of any length: one that `tls.X509KeyPair`
  accepts has a text that is presented and holds the certificate of the Dialer's
  key, and that is the first if the chain begins with a `CERTIFICATE`.
- **ConfigurationProofs.** The `dialerConfig` shows each option that has run
  (`Applied`), an error is seen at the end of its group (`ErrorSeen`), the
  Admin API client's last credentials and the token source belong together
  (`IdentitySound`), and the token source is that of the last usable credentials
  that have run, across groups, or of none (`SourceSound`). At creation all
  options have run and were usable, so that is the last given:
  `IdentitiesAreGiven`. On top, `DInv`
  is about the DialOptions: those the Options collected are those given so far,
  in order (`Collected`), and where a `dialCfg` stands after the first options of
  its list (`Settled`: the last of them that sets the field, else the value it
  started with), for the Dialer's defaults (`DefaultsSound`) and for each Dial
  (`DialSound`). `DialsKeepApart` then takes no induction over the lists, as
  the lists are run one option per step.
- **TelemetryProofs.** Three invariants. `CounterInv`: the counter of a cache is
  the number of connections added less the number taken, as a uint64, even while
  that is below zero. `SpanInv`: the three spans of a Dial at each of its
  points. `ReportInv`: for each measure, the view and what the bag `pending` is
  about to add to it are together what is due (for bytes at most). The sum over
  a bag is stated as the existence of a listing of its members with partial sums
  (`IsSum`), which `SumAdd` and `SumRemove` amend by one member: a recursive sum
  would take induction over the bag. `TelemetryCounts` shows that `Telemetry`
  implements `OpenConnections`.

The assumptions are the named ones on the constants. Names that stand for
nothing are no members of the sets beside them; bounds are numbers; the lazy
cache's buffer is shorter than the lifetime, the other's at most half an hour;
interval and burst are positive; connections and refreshes are finitely many, the
former less than half of the modulus 2^64; a size fits into a header
and a header into a buffer; two facts about powers (`PowersAssumption`) that the
provers lack. TLC evaluates each of them on the run's constants.

Checked by TLC only: the liveness properties, as liveness under fairness is out
of the prover's reach. Every other property of a run that passes is a theorem.

## Not modelled

Left out:

- error types, loggers, the version, mocks and test helpers: no state;
- `errorCode` and `toStatus` of the telemetry and `ParseInstURI`: tables and a
  regular expression; that they succeed or fail is a step of the callers;
- the layout of JSON, PEM and protobuf messages: the models tell apart what the
  libraries make of them;
- user agents, endpoint and logger of the options, which are
  handed on unseen;
- the contents of a metadata response beyond its code.
