------------------------------- MODULE Driver -------------------------------
(***************************************************************************)
(* A database/sql driver over a Dialer (driver/pgxv5/postgres.go;          *)
(* driver/pgxv4 is the same code over the other pgx): RegisterDriver, the  *)
(* Opens that the pools of database/sql run concurrently, the connection   *)
(* configurations they register with pgx, once for each data source name   *)
(* (DSN), and the Dials these make, down to the locks of the caches        *)
(* (DialerLocks).                                                          *)
(*                                                                         *)
(* An Open and the Dial it leads to have one name and one control point.   *)
(* The URI under which pgx knows a configuration is its place in the order *)
(* of registration.                                                        *)
(***************************************************************************)
EXTENDS DialerLocks, Naturals, Sequences

CONSTANTS
    DSNs,       \* the data source names clients open
    Host,       \* Host[s]: the host field of DSN s, an instance URI
    Pools       \* for every Open the DSN of its pool: the cases considered

ASSUME HostAssumption == Host \in [DSNs -> URIs]
ASSUME PoolsAssumption == Pools \subseteq [Dials -> DSNs]

VARIABLES
    rpc,        \* RegisterDriver: "start", "made", "registered", "failed", "panicked"
    taken,      \* database/sql has a driver of the name chosen
    mu,         \* the Open that holds the driver's mutex
    dbURIs,     \* dbURIs[s]: the URI remembered for DSN s, 0 if there is none
    configs,    \* pgx's registry: the configurations in the order they came
    dsn,        \* dsn[o]: the DSN Open o is given
    dbURI       \* dbURI[o]: what the method dbURI returned to o

driverVars == <<rpc, taken, mu, dbURIs, configs, dsn, dbURI>>
vars == <<dialerVars, driverVars>>

\* The Dials of DialerLocks are the Opens' here.
Opens == Dials

Init ==
    /\ DialerInit
    /\ rpc = "start"
    /\ taken \in BOOLEAN
    /\ mu = None
    /\ dbURIs = [s \in DSNs |-> 0]
    /\ configs = <<>>
    /\ dsn \in Pools
    /\ dbURI = [o \in Opens |-> 0]

\* Nothing of the Dialer but the control point changes.
step(o, p) ==
    /\ goto(o, p)
    /\ UNCHANGED <<lazy, uri, again, lk, cache, ref, guard, ready, closed, cycle, todo>>

-----------------------------------------------------------------------------
(* RegisterDriver and the function it returns                              *)

NewDialer ==
    /\ rpc = "start"
    /\ rpc' \in {"made", "failed"}
    /\ UNCHANGED <<dialerVars, taken, mu, dbURIs, configs, dsn, dbURI>>

\* sql.Register panics if the name is taken; the Dialer is left behind.
Register ==
    /\ rpc = "made"
    /\ rpc' = IF taken THEN "panicked" ELSE "registered"
    /\ taken' = TRUE
    /\ UNCHANGED <<dialerVars, mu, dbURIs, configs, dsn, dbURI>>

\* The cleanup function closes the Dialer; nothing else is undone.
Cleanup(x) ==
    /\ rpc = "registered"
    /\ CallClose(x)
    /\ UNCHANGED driverVars

-----------------------------------------------------------------------------
(* Open                                                                    *)

\* database/sql needs a connection.
Open(o) ==
    /\ rpc = "registered"
    /\ pc[o] = "idle"
    /\ step(o, "dbURI")
    /\ UNCHANGED driverVars

\* A look-up that releases the mutex before the DSN is registered.
LookupUnlocks(o) ==
    /\ pc[o] = "dbURI"
    /\ mu = None
    /\ dbURI' = [dbURI EXCEPT ![o] = dbURIs[dsn[o]]]
    /\ step(o, IF dbURI'[o] # 0 THEN "connect" ELSE "parse")
    /\ UNCHANGED <<rpc, taken, mu, dbURIs, configs, dsn>>

\* Lock the mutex and look the DSN up; a DSN that is known needs no more.
LookupDSN(o) ==
    /\ pc[o] = "dbURI"
    /\ mu = None
    /\ dbURI' = [dbURI EXCEPT ![o] = dbURIs[dsn[o]]]
    /\ IF dbURI'[o] # 0
       THEN step(o, "connect") /\ UNCHANGED mu
       ELSE step(o, "parse") /\ mu' = o
    /\ UNCHANGED <<rpc, taken, dbURIs, configs, dsn>>

\* A parse error that leaves the mutex locked.
ParseFailsLocked(o) ==
    /\ pc[o] = "parse"
    /\ step(o, "done")
    /\ UNCHANGED driverVars

\* pgx.ParseConfig refuses the DSN, or a file it names: nothing is remembered.
ParseFails(o) ==
    /\ pc[o] = "parse"
    /\ step(o, "done")
    /\ mu' = None
    /\ UNCHANGED <<rpc, taken, dbURIs, configs, dsn, dbURI>>

\* The configuration gets localhost as its host and a DialFunc that keeps the
\* instance named there before; stdlib.RegisterConnConfig gives it a new URI.
RegisterConnConfig(o) ==
    /\ pc[o] = "parse"
    /\ configs' = Append(configs, [dsn |-> dsn[o], instConnName |-> Host[dsn[o]]])
    /\ dbURI' = [dbURI EXCEPT ![o] = Len(configs')]
    /\ step(o, "remember")
    /\ UNCHANGED <<rpc, taken, mu, dbURIs, dsn>>

\* Remember the URI and unlock.
Remember(o) ==
    /\ pc[o] = "remember"
    /\ dbURIs' = [dbURIs EXCEPT ![dsn[o]] = dbURI[o]]
    /\ mu' = None
    /\ step(o, "connect")
    /\ UNCHANGED <<rpc, taken, configs, dsn, dbURI>>

\* A DialFunc that reads a variable all DialFuncs share.
DialFuncShared(u) == configs[IF u \in DOMAIN configs THEN Len(configs) ELSE u].instConnName

\* What the DialFunc of the configuration with URI u dials.
DialFunc(u) == configs[u].instConnName

\* pgx's driver finds the configuration and calls its DialFunc.
Connect(o) ==
    /\ pc[o] = "connect"
    /\ CallDial(o, DialFunc(dbURI[o]))
    /\ UNCHANGED driverVars

\* What the method dbURI does.
RegisterDSN(o) == LookupDSN(o) \/ ParseFails(o) \/ RegisterConnConfig(o) \/ Remember(o)

\* What an Open does once it is called.
OpenStep(o) == RegisterDSN(o) \/ Connect(o) \/ (Dial(o) /\ UNCHANGED driverVars)

-----------------------------------------------------------------------------
Next ==
    \/ NewDialer \/ Register
    \/ \E x \in Closers : Cleanup(x) \/ (Close(x) /\ UNCHANGED driverVars)
    \/ \E o \in Opens :
        \/ Open(o) \/ OpenStep(o)
        \/ (Cancelled(o) \/ Cycle(o)) /\ UNCHANGED driverVars

Spec == Init /\ [][Next]_vars

\* Locks are handed over in turn (sync.Mutex and sync.RWMutex starve nobody, so
\* that a refresh cycle cannot keep a Dial from a cache's lock for ever),
\* goroutines run, timers fire.  Nobody need call Open or the cleanup function,
\* and no context need ever end.
FairSpec ==
    /\ Spec
    /\ \A o \in Opens :
        /\ SF_vars(OpenStep(o))
        /\ WF_vars(Cycle(o) /\ UNCHANGED driverVars)
    /\ \A x \in Closers : SF_vars(Close(x) /\ UNCHANGED driverVars)

-----------------------------------------------------------------------------
(* Properties                                                              *)

\* Every variable has its type.
TypeOK ==
    /\ rpc \in {"start", "made", "registered", "failed", "panicked"}
    /\ taken \in BOOLEAN
    /\ mu \in Opens \cup {None}
    /\ dbURIs \in [DSNs -> 0..Len(configs)]
    /\ configs \in Seq([dsn : DSNs, instConnName : URIs])
    /\ dbURI \in [Opens -> 0..Len(configs)]
    /\ uri \in [Opens -> URIs \cup {None}]
    /\ cache \in [URIs -> Dials \cup {None}]
    /\ ref \in [Dials -> Dials \cup {None}]
    /\ guard \in [Dials -> Dials \cup {None}]
    /\ lk \in [Procs -> {"no", "queued", "held"}]

\* "If the name has already been registered, dbURI returns the existing
\* registration" (postgres.go:70): however many Opens of a DSN meet, and
\* whichever of them fail, pgx's registry, which nothing is ever removed from,
\* gets at most one configuration for it.
OneConfigPerDSN ==
    \A i, j \in DOMAIN configs : configs[i].dsn = configs[j].dsn => i = j

\* An Open uses a cache of the instance its DSN names, whatever other DSNs were
\* registered in between and whichever Open created the cache
\* (postgres.go:84-90, dialer.go:608).
DialsItsInstance ==
    \A o \in Opens : ref[o] # None => uri[o] = Host[dsn[o]] /\ uri[ref[o]] = Host[dsn[o]]

\* An Open gets its URI or an error, however long the Dials of other Opens
\* take and whatever DSNs fail to parse: the mutex is not held over a Dial and
\* is released on every path (postgres.go:73).
dbURIReturns == \A o \in Opens : pc[o] = "dbURI" ~> pc[o] \in {"connect", "done"}

=============================================================================
