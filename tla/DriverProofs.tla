---------------------------- MODULE DriverProofs ----------------------------
(***************************************************************************)
(* Proofs about the database/sql drivers, for any number of Opens, data    *)
(* source names and instances: pgx's registry has one configuration for    *)
(* each DSN, an Open dials the instance its DSN names, and the locks of    *)
(* the Dialer and its caches are taken in one order.                       *)
(***************************************************************************)
EXTENDS Driver, TLAPS

\* Where an Open stands before it dials, and where a Dial or a Close stands.
Early == {"idle", "dbURI", "parse", "remember", "connect"}
Points == Early \cup {"lookup", "create", "info", "answered", "wait", "orphaned", "fetch", "use",
                      "expired", "unreachable", "remove", "sweep", "done"}

Types ==
    /\ TypeOK
    /\ dsn \in [Opens -> DSNs]
    /\ pc \in [Procs -> Points]

\* The mutex is held from the look-up that finds nothing to the end of the
\* registration.
MutexSound == \A o \in Opens : pc[o] \in {"parse", "remember"} <=> mu = o

\* A configuration keeps the instance its DSN names; what is remembered for a
\* DSN is its configuration; a configuration is remembered, or the Open that
\* registered it is about to.
RegistrySound ==
    /\ \A i \in DOMAIN configs : configs[i].instConnName = Host[configs[i].dsn]
    /\ \A s \in DSNs : dbURIs[s] # 0 => configs[dbURIs[s]].dsn = s
    /\ \A i \in DOMAIN configs :
        \/ dbURIs[configs[i].dsn] = i
        \/ \E o \in Opens : pc[o] = "remember" /\ dbURI[o] = i

\* An Open registers a DSN that has no configuration, and goes on with the
\* configuration of its own DSN.
OpenSound ==
    \A o \in Opens :
        /\ pc[o] = "parse" => dbURIs[dsn[o]] = 0
        /\ pc[o] \in {"remember", "connect"} =>
            dbURI[o] # 0 /\ configs[dbURI[o]].dsn = dsn[o]

\* A Dial under way asks for the instance of its Open; an Open that has not
\* dialled neither holds a cache nor gave its name to one.
DialSound ==
    /\ \A o \in Opens :
        /\ pc[o] \in Early => ref[o] = None
        /\ pc[o] \notin Early \cup {"done"} => uri[o] = Host[dsn[o]]
        /\ ref[o] # None => pc[ref[o]] \notin Early
    /\ \A u \in URIs : cache[u] # None => uri[cache[u]] = u /\ pc[cache[u]] \notin Early

\* The inductive invariant.
IInv ==
    /\ Types
    /\ MutexSound
    /\ RegistrySound
    /\ OneConfigPerDSN
    /\ OpenSound
    /\ DialSound
    /\ DialsItsInstance

-----------------------------------------------------------------------------

LEMMA InitIInv == Init => IInv
<1> SUFFICES ASSUME Init PROVE IInv
  OBVIOUS
<1> USE DEF Opens
<1>1. Types
  BY PoolsAssumption DEF Init, DialerInit, Types, TypeOK, Points, Early
<1>2. MutexSound
  BY NoneAssumption DEF Init, DialerInit, MutexSound, Procs
<1>3. RegistrySound /\ OneConfigPerDSN
  BY DEF Init, RegistrySound, OneConfigPerDSN
<1>4. OpenSound /\ DialSound /\ DialsItsInstance
  BY DEF Init, DialerInit, OpenSound, DialSound, DialsItsInstance, Early, Procs
<1> QED BY <1>1, <1>2, <1>3, <1>4 DEF IInv

\* A step of a Dial, a Close or a refresh cycle that creates, finds and drops
\* no cache: it moves some Dials that are under way.
LEMMA QuietStep ==
    ASSUME IInv,
           UNCHANGED <<uri, cache, ref, driverVars>>,
           guard' \in [Dials -> Dials \cup {None}],
           lk' \in [Procs -> {"no", "queued", "held"}],
           pc' \in [Procs -> Points],
           \A o \in Opens : \/ pc'[o] = pc[o]
                            \/ pc[o] \notin Early \cup {"done"} /\ pc'[o] \notin Early
    PROVE  IInv'
<1> USE DEF Opens
<1>1. Types'
  BY DEF IInv, Types, TypeOK, driverVars
<1>2. \A o \in Opens : pc'[o] # pc[o] => pc[o] \notin Early /\ pc'[o] \notin Early /\ pc[o] # "done"
  OBVIOUS
<1>3. MutexSound' /\ OpenSound'
  BY <1>2 DEF IInv, MutexSound, OpenSound, driverVars, Early
<1>4. RegistrySound' /\ OneConfigPerDSN'
  BY <1>2 DEF IInv, RegistrySound, OneConfigPerDSN, driverVars, Early
<1>5. DialsItsInstance'
  BY DEF IInv, DialsItsInstance, driverVars
<1>6. \A o \in Opens : pc'[o] \in Early <=> pc[o] \in Early
  BY <1>2
<1>7. DialSound'
  BY <1>2, <1>6 DEF IInv, Types, TypeOK, DialSound, driverVars
<1> QED BY <1>1, <1>3, <1>4, <1>5, <1>7 DEF IInv

\* A step of Open o up to its Dial, which it enters from none and leaves the
\* Dialer's state alone.
LEMMA EarlyStep ==
    ASSUME IInv, NEW o \in Opens, NEW l \in {"dbURI", "parse", "remember", "connect", "done"},
           pc[o] \in Early, step(o, l), UNCHANGED dsn
    PROVE  /\ pc' \in [Procs -> Points] /\ pc'[o] = l
           /\ \A p \in Opens : p # o => pc'[p] = pc[p]
           /\ DialSound' /\ DialsItsInstance'
<1> USE DEF Opens
<1>1. /\ pc' \in [Procs -> Points] /\ pc'[o] = l
      /\ \A p \in Opens : p # o => pc'[p] = pc[p]
  BY DEF IInv, Types, step, goto, Points, Early, Procs
<1>2. DialSound'
  <2>1. UNCHANGED <<uri, cache, ref, dsn>>
    BY DEF step
  <2>2. pc[o] \in Early /\ (pc'[o] \in Early \/ pc'[o] = "done")
    BY <1>1 DEF Early
  <2>3. \A p \in Opens : pc[p] \notin Early => pc'[p] = pc[p]
    BY <1>1
  <2>4. ASSUME NEW p \in Opens
        PROVE  /\ pc'[p] \in Early => ref'[p] = None
               /\ pc'[p] \notin Early \cup {"done"} => uri'[p] = Host[dsn'[p]]
               /\ ref'[p] # None => pc'[ref'[p]] \notin Early
    <3>1. pc'[p] \in Early => pc[p] \in Early
      BY <2>2, <2>3
    <3>2. pc'[p] \notin Early \cup {"done"} => pc[p] \notin Early \cup {"done"}
      BY <1>1, <2>2
    <3>3. ref[p] # None => ref[p] \in Opens /\ pc[ref[p]] \notin Early
      BY DEF IInv, Types, TypeOK, DialSound
    <3> QED BY <2>1, <2>3, <3>1, <3>2, <3>3 DEF IInv, DialSound
  <2>5. ASSUME NEW u \in URIs, cache'[u] # None
        PROVE  uri'[cache'[u]] = u /\ pc'[cache'[u]] \notin Early
    <3>1. cache[u] \in Opens /\ uri[cache[u]] = u /\ pc[cache[u]] \notin Early
      BY <2>1, <2>5 DEF IInv, Types, TypeOK, DialSound
    <3> QED BY <2>1, <2>3, <3>1
  <2> QED BY <2>4, <2>5 DEF DialSound
<1>3. DialsItsInstance'
  BY DEF IInv, DialsItsInstance, step
<1> QED BY <1>1, <1>2, <1>3

\* The types once more, with what a step up to the Dial may change.
LEMMA EarlyTypes ==
    ASSUME IInv, NEW o \in Opens, NEW l, step(o, l), UNCHANGED <<rpc, taken, dsn>>,
           pc' \in [Procs -> Points],
           mu' \in Opens \cup {None},
           configs' \in Seq([dsn : DSNs, instConnName : URIs]),
           dbURIs' \in [DSNs -> 0..Len(configs')],
           dbURI' \in [Opens -> 0..Len(configs')]
    PROVE  Types'
  BY DEF IInv, Types, TypeOK, step, Opens

\* The look-up takes the mutex only where it finds nothing.
LEMMA LookupPreserves ==
    ASSUME IInv, NEW o \in Opens, LookupDSN(o)
    PROVE  IInv'
<1> DEFINE s == dsn[o]
<1> DEFINE l == IF dbURIs[s] # 0 THEN "connect" ELSE "parse"
<1>0. s \in DSNs /\ dbURIs[s] \in 0..Len(configs)
  BY DEF IInv, Types, TypeOK
<1>1. /\ pc[o] = "dbURI" /\ mu = None /\ step(o, l)
      /\ dbURI' \in [Opens -> 0..Len(configs)]
      /\ dbURI'[o] = dbURIs[s]
      /\ \A p \in Opens : p # o => dbURI'[p] = dbURI[p]
      /\ mu' = IF dbURIs[s] # 0 THEN mu ELSE o
      /\ UNCHANGED <<rpc, taken, dbURIs, configs, dsn>>
  BY <1>0 DEF LookupDSN, IInv, Types, TypeOK
<1>2. /\ pc' \in [Procs -> Points] /\ pc'[o] = l
      /\ \A p \in Opens : p # o => pc'[p] = pc[p]
      /\ DialSound' /\ DialsItsInstance'
  BY <1>1, EarlyStep DEF Early
<1>3. Types'
  BY <1>1, <1>2, EarlyTypes DEF IInv, Types, TypeOK
<1>4. MutexSound'
  BY <1>1, <1>2, NoneAssumption DEF IInv, MutexSound, Opens
<1>5. OneConfigPerDSN'
  BY <1>1 DEF IInv, OneConfigPerDSN
<1>6. OpenSound'
  BY <1>0, <1>1, <1>2 DEF IInv, OpenSound, RegistrySound
<1>7. RegistrySound'
  BY <1>1, <1>2 DEF IInv, RegistrySound
<1> QED BY <1>2, <1>3, <1>4, <1>5, <1>6, <1>7 DEF IInv

\* A DSN that cannot be parsed leaves no trace but the freed mutex.
LEMMA ParseFailsPreserves ==
    ASSUME IInv, NEW o \in Opens, ParseFails(o)
    PROVE  IInv'
<1>1. /\ pc[o] = "parse" /\ step(o, "done") /\ mu' = None
      /\ UNCHANGED <<rpc, taken, dbURIs, configs, dsn, dbURI>>
  BY DEF ParseFails
<1>2. /\ pc' \in [Procs -> Points] /\ pc'[o] = "done"
      /\ \A p \in Opens : p # o => pc'[p] = pc[p]
      /\ DialSound' /\ DialsItsInstance'
  BY <1>1, EarlyStep DEF Early
<1>3. Types'
  BY <1>1, <1>2, EarlyTypes DEF IInv, Types, TypeOK
<1>4. \A p \in Opens : p # o => pc[p] \notin {"parse", "remember"}
  BY <1>1 DEF IInv, MutexSound
<1>5. MutexSound'
  BY <1>1, <1>2, <1>4, NoneAssumption DEF MutexSound, Opens
<1>6. RegistrySound' /\ OneConfigPerDSN' /\ OpenSound'
  BY <1>1, <1>2 DEF IInv, RegistrySound, OneConfigPerDSN, OpenSound
<1> QED BY <1>2, <1>3, <1>5, <1>6 DEF IInv

\* Under the mutex, a DSN nothing is remembered for has no configuration.
LEMMA NewDSN ==
    ASSUME IInv, NEW o \in Opens, pc[o] = "parse"
    PROVE  \A i \in DOMAIN configs : configs[i].dsn # dsn[o]
<1> SUFFICES ASSUME NEW i \in DOMAIN configs, configs[i].dsn = dsn[o] PROVE FALSE
  OBVIOUS
<1>1. dbURIs[dsn[o]] = 0 /\ i # 0
  BY DEF IInv, OpenSound, Types, TypeOK
<1>2. PICK p \in Opens : pc[p] = "remember"
  BY <1>1 DEF IInv, RegistrySound
<1> QED BY <1>2 DEF IInv, MutexSound

LEMMA RegisterPreserves ==
    ASSUME IInv, NEW o \in Opens, RegisterConnConfig(o)
    PROVE  IInv'
<1> DEFINE s == dsn[o]
<1> DEFINE c == [dsn |-> s, instConnName |-> Host[s]]
<1> DEFINE n == Len(configs) + 1
<1>0. s \in DSNs /\ c \in [dsn : DSNs, instConnName : URIs]
  BY HostAssumption DEF IInv, Types, TypeOK
<1>1. /\ pc[o] = "parse" /\ step(o, "remember")
      /\ configs' = Append(configs, c)
      /\ UNCHANGED <<rpc, taken, mu, dbURIs, dsn>>
      /\ dbURI' = [dbURI EXCEPT ![o] = Len(configs')]
  BY DEF RegisterConnConfig
<1> HIDE DEF c
<1>2. /\ configs' \in Seq([dsn : DSNs, instConnName : URIs])
      /\ Len(configs) \in Nat
      /\ Len(configs') = n /\ DOMAIN configs = 1..Len(configs) /\ DOMAIN configs' = 1..n
      /\ configs'[n] = c
      /\ \A i \in 1..Len(configs) : configs'[i] = configs[i]
  BY <1>0, <1>1 DEF IInv, Types, TypeOK
<1>3. /\ dbURI' \in [Opens -> 0..n] /\ dbURI'[o] = n
      /\ \A p \in Opens : p # o => dbURI'[p] = dbURI[p] /\ dbURI[p] \in 0..Len(configs)
      /\ dbURIs' \in [DSNs -> 0..n]
      /\ \A t \in DSNs : dbURIs[t] \in 0..Len(configs)
  BY <1>1, <1>2 DEF IInv, Types, TypeOK
<1>4. /\ pc' \in [Procs -> Points] /\ pc'[o] = "remember"
      /\ \A p \in Opens : p # o => pc'[p] = pc[p]
      /\ DialSound' /\ DialsItsInstance'
  BY <1>1, EarlyStep DEF Early
<1>5. Types'
  BY <1>1, <1>2, <1>3, <1>4, EarlyTypes DEF IInv, Types, TypeOK
<1>6. MutexSound'
  BY <1>1, <1>4 DEF IInv, MutexSound
<1>7. c.dsn = s /\ c.instConnName = Host[s]
  BY DEF c
<1>8. OneConfigPerDSN'
  <2>1. \A i \in 1..Len(configs) : configs[i].dsn # s
    BY <1>1, <1>2, NewDSN
  <2>2. \A i \in DOMAIN configs' : i = n \/ i \in 1..Len(configs)
    BY <1>2
  <2> QED BY <1>2, <1>7, <2>1, <2>2 DEF IInv, OneConfigPerDSN
<1>9. OpenSound'
  <2>1. n # 0 /\ configs'[dbURI'[o]].dsn = dsn'[o]
    BY <1>1, <1>2, <1>3, <1>7
  <2>2. ASSUME NEW p \in Opens, p # o
        PROVE  /\ pc'[p] = "parse" => dbURIs'[dsn'[p]] = 0
               /\ pc'[p] \in {"remember", "connect"} =>
                    dbURI'[p] # 0 /\ configs'[dbURI'[p]].dsn = dsn'[p]
    <3>1. dbURI[p] # 0 => configs'[dbURI[p]] = configs[dbURI[p]]
      BY <1>2, <1>3, <2>2
    <3> QED BY <1>1, <1>3, <1>4, <2>2, <3>1 DEF IInv, OpenSound
  <2> QED BY <1>3, <1>4, <2>1, <2>2 DEF OpenSound
<1>10. RegistrySound'
  <2>1. \A i \in DOMAIN configs' : configs'[i].instConnName = Host[configs'[i].dsn]
    BY <1>2, <1>7 DEF IInv, RegistrySound
  <2>2. \A t \in DSNs : dbURIs'[t] # 0 => configs'[dbURIs'[t]].dsn = t
    <3>1. \A t \in DSNs : dbURIs[t] # 0 => configs'[dbURIs[t]] = configs[dbURIs[t]]
      BY <1>2, <1>3
    <3> QED BY <1>1, <3>1 DEF IInv, RegistrySound
  <2>3. ASSUME NEW i \in DOMAIN configs'
        PROVE  \/ dbURIs'[configs'[i].dsn] = i
               \/ \E p \in Opens : pc'[p] = "remember" /\ dbURI'[p] = i
    <3>1. CASE i = n
      BY <1>3, <1>4, <3>1
    <3>2. CASE i # n
      <4>1. i \in 1..Len(configs)
        BY <1>2, <3>2
      <4>2. \A p \in Opens : pc[p] # "remember"
        BY <1>1 DEF IInv, MutexSound
      <4> QED BY <1>1, <1>2, <4>1, <4>2 DEF IInv, RegistrySound
    <3> QED BY <3>1, <3>2
  <2> QED BY <2>1, <2>2, <2>3 DEF RegistrySound
<1> QED BY <1>4, <1>5, <1>6, <1>8, <1>9, <1>10 DEF IInv

\* An element of a sequence over R.
LEMMA ElementOf ==
    ASSUME NEW R, NEW q \in Seq(R), NEW i \in DOMAIN q
    PROVE  q[i] \in R
  OBVIOUS

LEMMA RememberPreserves ==
    ASSUME IInv, NEW o \in Opens, Remember(o)
    PROVE  IInv'
<1> DEFINE s == dsn[o]
<1>1. /\ pc[o] = "remember" /\ step(o, "connect") /\ mu' = None
      /\ dbURIs' = [dbURIs EXCEPT ![s] = dbURI[o]]
      /\ UNCHANGED <<rpc, taken, configs, dsn, dbURI>>
  BY DEF Remember
<1>2. /\ s \in DSNs
      /\ dbURIs' \in [DSNs -> 0..Len(configs)]
      /\ dbURIs'[s] = dbURI[o]
      /\ \A t \in DSNs : t # s => dbURIs'[t] = dbURIs[t]
  BY <1>1 DEF IInv, Types, TypeOK
<1>3. /\ pc' \in [Procs -> Points] /\ pc'[o] = "connect"
      /\ \A p \in Opens : p # o => pc'[p] = pc[p]
      /\ DialSound' /\ DialsItsInstance'
  BY <1>1, EarlyStep DEF Early
<1>4. Types'
  BY <1>1, <1>2, <1>3, EarlyTypes DEF IInv, Types, TypeOK
<1>5. \A p \in Opens : p # o => pc[p] \notin {"parse", "remember"}
  BY <1>1 DEF IInv, MutexSound
<1>6. MutexSound'
  BY <1>1, <1>3, <1>5, NoneAssumption DEF MutexSound, Opens
<1>7. OneConfigPerDSN'
  BY <1>1 DEF IInv, OneConfigPerDSN
<1>8. OpenSound'
  BY <1>1, <1>3, <1>5 DEF IInv, OpenSound
<1>9. RegistrySound'
  <2>1. dbURI[o] \in DOMAIN configs /\ configs[dbURI[o]].dsn = s
    BY <1>1 DEF IInv, OpenSound, Types, TypeOK
  <2>2. \A t \in DSNs : dbURIs'[t] # 0 => configs[dbURIs'[t]].dsn = t
    BY <1>2, <2>1 DEF IInv, RegistrySound
  <2>3. ASSUME NEW i \in DOMAIN configs
        PROVE  dbURIs'[configs[i].dsn] = i
    <3>1. configs[i].dsn \in DSNs
      <4>1. configs[i] \in [dsn : DSNs, instConnName : URIs]
        <5>1. configs \in Seq([dsn : DSNs, instConnName : URIs])
          BY DEF IInv, Types, TypeOK
        <5> QED BY <5>1, ElementOf
      <4> QED BY <4>1
    <3>2. CASE configs[i].dsn = s
      BY <1>2, <2>1, <3>2 DEF IInv, OneConfigPerDSN
    <3>3. CASE configs[i].dsn # s
      <4>1. dbURI[o] # i
        BY <2>1, <3>3
      <4> QED BY <1>2, <1>5, <3>1, <3>3, <4>1 DEF IInv, RegistrySound
    <3> QED BY <3>2, <3>3
  <2> QED BY <1>1, <2>2, <2>3 DEF IInv, RegistrySound
<1> QED BY <1>3, <1>4, <1>6, <1>7, <1>8, <1>9 DEF IInv

\* database/sql calls Open.
LEMMA OpenPreserves ==
    ASSUME IInv, NEW o \in Opens, Open(o)
    PROVE  IInv'
<1>1. pc[o] = "idle" /\ step(o, "dbURI") /\ UNCHANGED driverVars
  BY DEF Open
<1>2. /\ pc' \in [Procs -> Points] /\ pc'[o] = "dbURI"
      /\ \A p \in Opens : p # o => pc'[p] = pc[p]
      /\ DialSound' /\ DialsItsInstance'
  BY <1>1, EarlyStep DEF Early, driverVars
<1>3. Types'
  BY <1>1, <1>2, EarlyTypes DEF IInv, Types, TypeOK, driverVars
<1>4. MutexSound' /\ OpenSound'
  BY <1>1, <1>2 DEF IInv, MutexSound, OpenSound, driverVars
<1>5. RegistrySound' /\ OneConfigPerDSN'
  BY <1>1, <1>2 DEF IInv, RegistrySound, OneConfigPerDSN, driverVars
<1> QED BY <1>2, <1>3, <1>4, <1>5 DEF IInv

\* The DialFunc of the Open's configuration dials the instance of its DSN.
LEMMA ConnectPreserves ==
    ASSUME IInv, NEW o \in Opens, Connect(o)
    PROVE  IInv'
<1> USE DEF Opens
<1> DEFINE u == DialFunc(dbURI[o])
<1>1. pc[o] = "connect" /\ CallDial(o, u) /\ UNCHANGED driverVars
  BY DEF Connect
<1>2. dbURI[o] \in DOMAIN configs /\ configs[dbURI[o]].dsn = dsn[o] /\ dsn[o] \in DSNs
  BY <1>1 DEF IInv, OpenSound, Types, TypeOK
<1>3. u = Host[dsn[o]] /\ u \in URIs
  BY <1>2, HostAssumption DEF IInv, RegistrySound, DialFunc
<1> HIDE DEF u
<1>4. /\ pc' \in [Procs -> Points] /\ pc'[o] \in {"done", "lookup"}
      /\ \A p \in Opens : p # o => pc'[p] = pc[p]
      /\ uri' \in [Opens -> URIs \cup {None}] /\ uri'[o] = u
      /\ \A p \in Opens : p # o => uri'[p] = uri[p]
      /\ UNCHANGED <<cache, ref, lk, guard, driverVars>>
  BY <1>1, <1>3 DEF CallDial, goto, IInv, Types, TypeOK, Points, Early, Procs
<1>5. Types'
  BY <1>4 DEF IInv, Types, TypeOK, driverVars
<1>6. MutexSound' /\ OpenSound'
  BY <1>1, <1>4 DEF IInv, MutexSound, OpenSound, driverVars
<1>7. RegistrySound' /\ OneConfigPerDSN'
  BY <1>1, <1>4 DEF IInv, RegistrySound, OneConfigPerDSN, driverVars
<1>8. pc[o] \in Early /\ pc'[o] \notin Early
  BY <1>1, <1>4 DEF Early
<1>9. \A p \in Opens : pc[p] \notin Early => pc'[p] = pc[p] /\ uri'[p] = uri[p]
  BY <1>4, <1>8
<1>10. ASSUME NEW p \in Opens
       PROVE  /\ pc'[p] \in Early => ref'[p] = None
              /\ pc'[p] \notin Early \cup {"done"} => uri'[p] = Host[dsn'[p]]
              /\ ref'[p] # None => /\ pc'[ref'[p]] \notin Early
                                   /\ uri'[p] = Host[dsn'[p]]
                                   /\ uri'[ref'[p]] = Host[dsn'[p]]
  <2>1. dsn' = dsn /\ ref' = ref
    BY <1>4 DEF driverVars
  <2>2. CASE p = o
    <3>1. ref[p] = None
      BY <2>2, <1>8 DEF IInv, DialSound
    <3> QED BY <1>3, <1>4, <2>1, <2>2, <3>1
  <2>3. CASE p # o
    <3>1. ref[p] # None => ref[p] \in Opens /\ pc[ref[p]] \notin Early
      BY DEF IInv, DialSound, Types, TypeOK
    <3>2. pc'[p] = pc[p] /\ uri'[p] = uri[p]
      BY <1>4, <2>3
    <3> QED BY <1>9, <2>1, <3>1, <3>2 DEF IInv, DialSound, DialsItsInstance
  <2> QED BY <2>2, <2>3
<1>11. ASSUME NEW v \in URIs, cache'[v] # None
       PROVE  uri'[cache'[v]] = v /\ pc'[cache'[v]] \notin Early
  <2>1. cache[v] \in Opens /\ uri[cache[v]] = v /\ pc[cache[v]] \notin Early
    BY <1>4, <1>11 DEF IInv, DialSound, Types, TypeOK
  <2> QED BY <1>4, <1>9, <2>1
<1>12. DialSound' /\ DialsItsInstance'
  BY <1>10, <1>11 DEF DialSound, DialsItsInstance
<1> QED BY <1>5, <1>6, <1>7, <1>12 DEF IInv

\* Dial d finds, creates or drops the cache of its instance: d holds a cache of
\* that instance afterwards, or none, and so does the map.
LEMMA CacheStep ==
    ASSUME IInv, NEW d \in Dials, NEW l \in Points \ Early, NEW k \in Dials \cup {None},
           NEW m \in Dials \cup {None},
           pc[d] \notin Early \cup {"done"}, goto(d, l),
           ref' = [ref EXCEPT ![d] = k], cache' = [cache EXCEPT ![uri[d]] = m],
           k # None => uri[k] = uri[d] /\ pc[k] \notin Early,
           m # None => uri[m] = uri[d] /\ pc[m] \notin Early,
           lk' \in [Procs -> {"no", "queued", "held"}],
           UNCHANGED <<uri, guard, driverVars>>
    PROVE  IInv'
<1> USE DEF Opens
<1>1. /\ pc' \in [Procs -> Points] /\ pc'[d] = l
      /\ \A p \in Opens : p # d => pc'[p] = pc[p]
      /\ uri[d] = Host[dsn[d]] /\ uri[d] \in URIs
  BY HostAssumption DEF goto, IInv, Types, TypeOK, DialSound, Procs
<1>2. /\ ref' \in [Dials -> Dials \cup {None}] /\ ref'[d] = k
      /\ \A p \in Opens : p # d => ref'[p] = ref[p]
      /\ cache' \in [URIs -> Dials \cup {None}] /\ cache'[uri[d]] = m
      /\ \A v \in URIs : v # uri[d] => cache'[v] = cache[v]
  BY <1>1 DEF IInv, Types, TypeOK
<1>3. Types'
  BY <1>1, <1>2 DEF IInv, Types, TypeOK, driverVars
<1>4. \A p \in Opens : pc'[p] # pc[p] => pc[p] \notin Early /\ pc'[p] \notin Early
  BY <1>1
<1>5. MutexSound' /\ OpenSound'
  BY <1>4 DEF IInv, MutexSound, OpenSound, driverVars, Early
<1>6. RegistrySound' /\ OneConfigPerDSN'
  BY <1>4 DEF IInv, RegistrySound, OneConfigPerDSN, driverVars, Early
<1>7. \A p \in Opens : pc[p] \notin Early => pc'[p] \notin Early
  BY <1>4
<1>8. ASSUME NEW p \in Opens
      PROVE  /\ pc'[p] \in Early => ref'[p] = None
             /\ pc'[p] \notin Early \cup {"done"} => uri[p] = Host[dsn[p]]
             /\ ref'[p] # None => /\ pc'[ref'[p]] \notin Early
                                  /\ uri[p] = Host[dsn[p]]
                                  /\ uri[ref'[p]] = Host[dsn[p]]
  <2>1. CASE p = d
    BY <1>1, <1>2, <1>7, <2>1
  <2>2. CASE p # d
    <3>1. ref[p] # None => ref[p] \in Opens /\ pc[ref[p]] \notin Early
      BY DEF IInv, DialSound, Types, TypeOK
    <3> QED BY <1>1, <1>2, <1>7, <2>2, <3>1 DEF IInv, DialSound, DialsItsInstance
  <2> QED BY <2>1, <2>2
<1>9. ASSUME NEW v \in URIs, cache'[v] # None
      PROVE  uri[cache'[v]] = v /\ pc'[cache'[v]] \notin Early
  <2>1. cache'[v] \in Opens /\ uri[cache'[v]] = v /\ pc[cache'[v]] \notin Early
    BY <1>2, <1>9 DEF IInv, DialSound, Types, TypeOK
  <2> QED BY <1>7, <2>1
<1>10. DialSound' /\ DialsItsInstance'
  BY <1>8, <1>9 DEF DialSound, DialsItsInstance, driverVars
<1> QED BY <1>3, <1>5, <1>6, <1>10 DEF IInv

LEMMA FindPreserves ==
    ASSUME IInv, NEW d \in Dials, Lookup(d) \/ Create(d) \/ removeCached(d), UNCHANGED driverVars
    PROVE  IInv'
<1> DEFINE c == cache[uri[d]]
<1>1. pc[d] \in {"lookup", "create", "remove"}
  BY DEF Lookup, Create, removeCached
<1>2. pc[d] \notin Early \cup {"done"}
  BY <1>1 DEF Early
<1>3. uri[d] \in URIs /\ c \in Dials \cup {None} /\ ref[d] \in Dials \cup {None}
  BY <1>2, HostAssumption DEF IInv, Types, TypeOK, DialSound, Opens
<1>4. c # None => uri[c] = uri[d] /\ pc[c] \notin Early
  BY <1>3 DEF IInv, DialSound
<1>5. ref[d] # None => uri[ref[d]] = uri[d] /\ pc[ref[d]] \notin Early
  BY DEF IInv, DialSound, DialsItsInstance, Opens
<1>6. {"create", "info", "done"} \subseteq Points \ Early
  BY DEF Points, Early
<1>7. cache = [cache EXCEPT ![uri[d]] = c] /\ ref = [ref EXCEPT ![d] = ref[d]]
  BY <1>3 DEF IInv, Types, TypeOK
<1>8. CASE Lookup(d)
  <2>1. /\ goto(d, IF c = None THEN "create" ELSE "info")
        /\ ref' = [ref EXCEPT ![d] = c] /\ UNCHANGED <<uri, lk, cache, guard>>
    BY <1>8 DEF Lookup
  <2>2. cache' = [cache EXCEPT ![uri[d]] = c]
    BY <1>7, <2>1
  <2>3. lk' \in [Procs -> {"no", "queued", "held"}]
    BY <2>1 DEF IInv, Types, TypeOK
  <2> HIDE DEF c
  <2> QED BY <1>2, <1>3, <1>4, <1>6, <2>1, <2>2, <2>3, CacheStep
<1>9. CASE Create(d)
  <2> DEFINE k == IF c = None THEN d ELSE c
  <2>1. /\ goto(d, "info")
        /\ ref' = [ref EXCEPT ![d] = k] /\ cache' = [cache EXCEPT ![uri[d]] = k]
        /\ Unlock(d) /\ UNCHANGED <<uri, guard>>
    BY <1>9 DEF Create
  <2>2. k \in Dials /\ uri[k] = uri[d] /\ pc[k] \notin Early
    BY <1>2, <1>3, <1>4
  <2>3. lk' \in [Procs -> {"no", "queued", "held"}]
    BY <2>1 DEF IInv, Types, TypeOK, Unlock
  <2> HIDE DEF k
  <2> QED BY <1>2, <1>6, <2>1, <2>2, <2>3, CacheStep
<1>10. CASE removeCached(d)
  <2>1. /\ goto(d, "done")
        /\ cache' = [cache EXCEPT ![uri[d]] = None]
        /\ Unlock(d) /\ UNCHANGED <<uri, ref, guard>>
    BY <1>10 DEF removeCached
  <2>2. ref' = [ref EXCEPT ![d] = ref[d]]
    BY <1>7, <2>1
  <2>3. lk' \in [Procs -> {"no", "queued", "held"}]
    BY <2>1 DEF IInv, Types, TypeOK, Unlock
  <2> QED BY <1>2, <1>3, <1>5, <1>6, <2>1, <2>2, <2>3, CacheStep
<1> QED BY <1>8, <1>9, <1>10

\* Dialer.lock: only the holder changes.
LEMMA LockPreserves ==
    ASSUME IInv, NEW p \in Procs, Queue(p) \/ Lock(p), UNCHANGED driverVars
    PROVE  IInv'
<1>1. UNCHANGED <<uri, pc, cache, ref, guard>> /\ lk' \in [Procs -> {"no", "queued", "held"}]
  BY DEF Queue, Lock, IInv, Types, TypeOK
<1>2. guard' \in [Dials -> Dials \cup {None}] /\ pc' \in [Procs -> Points]
  BY <1>1 DEF IInv, Types, TypeOK
<1> QED BY <1>1, <1>2, QuietStep

\* What a Dial does with its cache, and the end of its context.
LEMMA UsePreserves ==
    ASSUME IInv, NEW d \in Dials, UNCHANGED driverVars,
           \/ ReadCur(d) \/ Ready(d) \/ Cached(d) \/ StartFetch(d) \/ FetchReturns(d)
           \/ Use(d) \/ Cancelled(d)
    PROVE  IInv'
<1>1. /\ UNCHANGED <<uri, cache, ref, lk>>
      /\ guard' \in [Dials -> Dials \cup {None}]
  BY DEF ReadCur, Ready, Cached, StartFetch, FetchReturns, Use, Cancelled, IInv, Types, TypeOK
<1>2. /\ pc[d] \in {"info", "answered", "wait", "orphaned", "fetch", "use"}
      /\ \E l \in {"answered", "wait", "use", "remove", "fetch", "expired", "unreachable", "done"} :
            goto(d, l)
  BY DEF ReadCur, Ready, Cached, StartFetch, FetchReturns, Use, Cancelled
<1>3. pc' \in [Procs -> Points]
  BY <1>2 DEF goto, IInv, Types, Points
<1>4. \A o \in Opens : \/ pc'[o] = pc[o]
                       \/ pc[o] \notin Early \cup {"done"} /\ pc'[o] \notin Early
  BY <1>2 DEF goto, IInv, Types, Early, Opens, Procs
<1>5. lk' \in [Procs -> {"no", "queued", "held"}]
  BY <1>1 DEF IInv, Types, TypeOK
<1> QED BY <1>1, <1>3, <1>4, <1>5, QuietStep

\* A creation that fails moves its Dial and gives the lock back.
LEMMA CreateFailsPreserves ==
    ASSUME IInv, NEW d \in Dials, CreateFails(d), UNCHANGED driverVars
    PROVE  IInv'
<1>1. /\ pc[d] = "create" /\ goto(d, "done") /\ Unlock(d)
      /\ UNCHANGED <<uri, cache, ref, guard>>
  BY DEF CreateFails
<1>2. /\ pc' \in [Procs -> Points] /\ lk' \in [Procs -> {"no", "queued", "held"}]
      /\ guard' \in [Dials -> Dials \cup {None}]
  BY <1>1 DEF goto, Unlock, IInv, Types, TypeOK, Points
<1>3. \A o \in Opens : \/ pc'[o] = pc[o]
                       \/ pc[o] \notin Early \cup {"done"} /\ pc'[o] \notin Early
  BY <1>1 DEF goto, IInv, Types, Early, Opens, Procs
<1> QED BY <1>1, <1>2, <1>3, QuietStep

\* A forced refresh and a refresh cycle move the Dials that wait for them.
LEMMA RefreshPreserves ==
    ASSUME IInv, NEW d \in Dials, ForceRefresh(d) \/ Cycle(d), UNCHANGED driverVars
    PROVE  IInv'
<1>1. /\ UNCHANGED <<uri, cache, ref, lk>>
      /\ guard' \in [Dials -> Dials \cup {None}]
  BY DEF ForceRefresh, Cycle, CycleFetches, CycleLocks, CycleInstalls, CycleFires,
     IInv, Types, TypeOK
<1>2. /\ pc' \in [Procs -> Points]
      /\ \A o \in Opens : \/ pc'[o] = pc[o]
                          \/ pc[o] \notin Early \cup {"done"} /\ pc'[o] \notin Early
  <2>1. CASE ForceRefresh(d)
    BY <2>1 DEF ForceRefresh, Waits, IInv, Types, Points, Early, Opens, Procs
  <2>2. CASE UNCHANGED pc
    BY <2>2 DEF IInv, Types
  <2>3. CASE Answer(d)
    BY <2>3 DEF Answer, Waits, IInv, Types, Points, Early, Opens, Procs
  <2> QED BY <2>1, <2>2, <2>3 DEF Cycle, CycleFetches, CycleLocks, CycleInstalls, CycleFires
<1>3. lk' \in [Procs -> {"no", "queued", "held"}]
  BY <1>1 DEF IInv, Types, TypeOK
<1> QED BY <1>1, <1>2, <1>3, QuietStep

\* RegisterDriver, the cleanup function and Close move no Open.
LEMMA ClosePreserves ==
    ASSUME IInv, NEW x \in Closers, Cleanup(x) \/ (Sweep(x) /\ UNCHANGED driverVars)
    PROVE  IInv'
<1>1. /\ UNCHANGED <<uri, cache, ref, guard, driverVars>>
      /\ lk' \in [Procs -> {"no", "queued", "held"}]
  BY DEF Cleanup, CallClose, Sweep, Unlock, IInv, Types, TypeOK
<1>2. goto(x, "sweep") \/ goto(x, "done") \/ UNCHANGED pc
  BY DEF Cleanup, CallClose, Sweep
<1>3. pc' \in [Procs -> Points] /\ \A o \in Opens : pc'[o] = pc[o]
  BY <1>2, NoneAssumption DEF goto, IInv, Types, Points, Opens, Procs
<1>4. guard' \in [Dials -> Dials \cup {None}]
  BY <1>1 DEF IInv, Types, TypeOK
<1> QED BY <1>1, <1>3, <1>4, QuietStep

LEMMA DriverPreserves ==
    ASSUME IInv, NewDialer \/ Register
    PROVE  IInv'
<1>1. /\ UNCHANGED <<dialerVars, mu, dbURIs, configs, dsn, dbURI>>
      /\ rpc' \in {"start", "made", "registered", "failed", "panicked"} /\ taken' \in BOOLEAN
  BY DEF NewDialer, Register, IInv, Types, TypeOK
<1>2. Types'
  BY <1>1 DEF IInv, Types, TypeOK, dialerVars
<1>3. MutexSound' /\ RegistrySound' /\ OneConfigPerDSN' /\ OpenSound'
  BY <1>1 DEF IInv, MutexSound, RegistrySound, OneConfigPerDSN, OpenSound, dialerVars
<1>4. DialSound' /\ DialsItsInstance'
  BY <1>1 DEF IInv, DialSound, DialsItsInstance, dialerVars
<1> QED BY <1>2, <1>3, <1>4 DEF IInv

LEMMA NextIInv == IInv /\ [Next]_vars => IInv'
<1> SUFFICES ASSUME IInv, [Next]_vars PROVE IInv'
  OBVIOUS
<1>1. CASE UNCHANGED vars
  <2>1. UNCHANGED <<dialerVars, driverVars>>
    BY <1>1 DEF vars
  <2>2. /\ UNCHANGED <<uri, cache, ref, driverVars>>
        /\ guard' \in [Dials -> Dials \cup {None}]
        /\ lk' \in [Procs -> {"no", "queued", "held"}]
        /\ pc' \in [Procs -> Points] /\ pc' = pc
    BY <2>1 DEF dialerVars, IInv, Types, TypeOK
  <2> QED BY <2>2, QuietStep
<1>2. CASE NewDialer \/ Register
  BY <1>2, DriverPreserves
<1>3. ASSUME NEW x \in Closers, Cleanup(x) \/ (Close(x) /\ UNCHANGED driverVars)
      PROVE  IInv'
  BY <1>3, ClosePreserves, LockPreserves DEF Close, Procs
<1>4. ASSUME NEW o \in Opens, Open(o) \/ RegisterDSN(o) \/ Connect(o)
      PROVE  IInv'
  BY <1>4, OpenPreserves, LookupPreserves, ParseFailsPreserves, RegisterPreserves,
     RememberPreserves, ConnectPreserves DEF RegisterDSN
<1>5. ASSUME NEW o \in Opens, Dial(o) \/ Cancelled(o) \/ Cycle(o), UNCHANGED driverVars
      PROVE  IInv'
  <2>1. o \in Dials /\ o \in Procs
    BY DEF Opens, Procs
  <2> QED BY <1>5, <2>1, FindPreserves, CreateFailsPreserves, LockPreserves, UsePreserves,
         RefreshPreserves DEF Dial
<1> QED BY <1>1, <1>2, <1>3, <1>4, <1>5 DEF Next, OpenStep

\* The invariant holds throughout every behaviour.
LEMMA Invariance == Spec => []IInv
  BY InitIInv, NextIInv, PTL DEF Spec

-----------------------------------------------------------------------------
(* The locks                                                               *)

\* A lazy Dialer has no refresh cycles, and a Dial that is still to create a
\* cache has given its name to none.
CyclesSound ==
    /\ cycle \in [Dials -> {"none", "armed", "fetching", "settled", "installing"}]
    /\ lazy \in BOOLEAN
    /\ \A k \in Dials : lazy \/ pc[k] \in Early \cup {"lookup", "create"} => cycle[k] = "none"

\* The inductive invariant of the locks, on top of that of the driver.
LInv == CyclesSound /\ LocksAreOrdered

\* A step that moves Dials and Closes which have nothing to do with
\* Dialer.lock, nor with a call of the Admin API.
LEMMA MovesKeepLocks ==
    ASSUME IInv, LInv,
           UNCHANGED <<lazy, lk, guard, cycle>>,
           pc' \in [Procs -> Points],
           \A p \in Procs : pc'[p] # pc[p] =>
               /\ pc[p] \notin {"create", "remove", "fetch"}
               /\ pc[p] \in {"sweep"} => lk[p] = "no"
               /\ pc[p] \notin Early \cup {"lookup"} => pc'[p] \notin Early \cup {"lookup", "create"},
           \A d \in Dials : ref'[d] # ref[d] => pc[d] # "fetch"
    PROVE  LInv'
<1> USE DEF Procs
<1>1. CyclesSound'
  BY DEF LInv, CyclesSound, Early
<1>2. \A p \in Procs : lk[p] # "no" => pc'[p] = pc[p]
  BY DEF LInv, LocksAreOrdered
<1>3. \A k \in Dials : guard[k] # None /\ lazy => pc'[guard[k]] = pc[guard[k]] /\ ref'[guard[k]] = ref[guard[k]]
  BY DEF LInv, LocksAreOrdered, IInv, Types, TypeOK
<1>4. LocksAreOrdered'
  BY <1>2, <1>3 DEF LInv, LocksAreOrdered
<1> QED BY <1>1, <1>4 DEF LInv

\* The driver's steps up to the Dial, and the calls of Dial and Close.
LEMMA DriverKeepsLocks ==
    ASSUME IInv, LInv,
           \/ NewDialer \/ Register
           \/ \E x \in Closers : Cleanup(x)
           \/ \E o \in Opens : Open(o) \/ RegisterDSN(o) \/ Connect(o)
           \/ UNCHANGED vars
    PROVE  LInv'
<1>1. CASE UNCHANGED <<lazy, pc, lk, ref, guard, cycle>>
  <2>1. pc' \in [Procs -> Points]
    BY <1>1 DEF IInv, Types
  <2> QED BY <1>1, <2>1, MovesKeepLocks
<1>2. ASSUME NEW x \in Closers, Cleanup(x) PROVE LInv'
  <2>1. pc[x] = "idle" /\ goto(x, "sweep") /\ UNCHANGED <<lazy, lk, ref, guard, cycle>>
    BY <1>2 DEF Cleanup, CallClose, isClosed
  <2>2. pc' \in [Procs -> Points] /\ \A p \in Procs : p # x => pc'[p] = pc[p]
    BY <2>1 DEF goto, IInv, Types, Points
  <2> QED BY <2>1, <2>2, MovesKeepLocks DEF Early
<1>3. ASSUME NEW o \in Opens, Open(o) \/ RegisterDSN(o) \/ Connect(o) PROVE LInv'
  <2>1. /\ pc[o] \in Early /\ UNCHANGED <<lazy, lk, ref, guard, cycle>>
        /\ \E l \in {"dbURI", "parse", "remember", "connect", "lookup", "done"} : goto(o, l)
    BY <1>3 DEF Open, RegisterDSN, LookupDSN, ParseFails, RegisterConnConfig, Remember, Connect,
       CallDial, step, Early
  <2>2. o \in Procs /\ pc' \in [Procs -> Points] /\ \A p \in Procs : p # o => pc'[p] = pc[p]
    BY <2>1 DEF goto, IInv, Types, Points, Early, Opens, Procs
  <2> QED BY <2>1, <2>2, MovesKeepLocks DEF Early
<1> QED BY <1>1, <1>2, <1>3 DEF NewDialer, Register, vars, dialerVars

\* Dialer.lock is taken by one at a time and given back at the end of the
\* section that took it.
LEMMA SectionsKeepLocks ==
    ASSUME IInv, LInv, NEW p \in Procs,
           \/ Queue(p) \/ Lock(p)
           \/ p \in Dials /\ (Create(p) \/ CreateFails(p) \/ removeCached(p))
           \/ p \in Closers /\ Sweep(p)
    PROVE  LInv'
<1> USE DEF Procs
<1>1. CASE Queue(p) \/ Lock(p)
  <2>1. /\ UNCHANGED <<lazy, pc, ref, guard, cycle>>
        /\ \/ lk' = [lk EXCEPT ![p] = "queued"] /\ pc[p] \in {"create", "remove", "sweep"}
           \/ lk' = [lk EXCEPT ![p] = "held"] /\ lk[p] = "queued" /\ ~Held
    BY <1>1 DEF Queue, Lock
  <2>2. CyclesSound'
    BY <2>1 DEF LInv, CyclesSound
  <2>3. /\ pc[p] \in {"create", "remove", "sweep"} /\ lk'[p] \in {"queued", "held"}
        /\ \A q \in Procs : q # p => lk'[q] = lk[q]
        /\ lk'[p] = "held" => \A q \in Procs : lk[q] # "held"
    BY <2>1 DEF LInv, LocksAreOrdered, IInv, Types, TypeOK, Held
  <2>4. \A q, r \in Procs : lk'[q] = "held" /\ lk'[r] = "held" => q = r
    BY <2>3 DEF LInv, LocksAreOrdered
  <2>5. \A q \in Procs : lk'[q] # "no" => pc'[q] \in {"create", "remove", "sweep"}
    BY <2>1, <2>3 DEF LInv, LocksAreOrdered
  <2>6. \A k \in Dials :
          guard'[k] # None => IF lazy' THEN pc'[guard'[k]] = "fetch" /\ ref'[guard'[k]] = k
                              ELSE guard'[k] = k /\ cycle'[k] = "installing"
    BY <2>1 DEF LInv, LocksAreOrdered
  <2>7. LocksAreOrdered'
    BY <2>4, <2>5, <2>6 DEF LocksAreOrdered
  <2> QED BY <2>2, <2>7 DEF LInv
<1>2. CASE p \in Closers /\ Sweep(p) /\ UNCHANGED <<pc, lk>>
  <2>1. UNCHANGED <<lazy, pc, lk, ref, guard, cycle>> /\ pc' \in [Procs -> Points]
    BY <1>2 DEF Sweep, IInv, Types
  <2> QED BY <2>1, MovesKeepLocks
<1>3. CASE \/ p \in Dials /\ (Create(p) \/ CreateFails(p) \/ removeCached(p))
           \/ p \in Closers /\ Sweep(p) /\ Unlock(p) /\ goto(p, "done")
  <2>1. /\ lk' = [lk EXCEPT ![p] = "no"] /\ pc[p] \in {"create", "remove", "sweep"}
        /\ \E l \in {"info", "done"} : goto(p, l)
        /\ \A d \in Dials : d # p => ref'[d] = ref[d]
        /\ UNCHANGED <<lazy, guard>>
    BY <1>3, NoneAssumption DEF Create, CreateFails, removeCached, Sweep, Unlock, IInv, Types, TypeOK
  <2>2. /\ lk'[p] = "no" /\ \A q \in Procs : q # p => lk'[q] = lk[q] /\ pc'[q] = pc[q]
        /\ pc'[p] \in {"info", "done"}
    BY <2>1 DEF goto, IInv, Types, TypeOK
  <2>3. /\ \A k \in Dials : k # p => cycle'[k] = cycle[k]
        /\ p \in Dials => \/ cycle'[p] = cycle[p]
                          \/ ~lazy /\ pc[p] = "create" /\ cycle'[p] = "fetching"
        /\ cycle' \in [Dials -> {"none", "armed", "fetching", "settled", "installing"}]
    <3>1. CASE cycle' = cycle
      BY <3>1 DEF LInv, CyclesSound
    <3>2. CASE p \in Dials /\ pc[p] = "create" /\ ~lazy /\ cycle' = [cycle EXCEPT ![p] = "fetching"]
      BY <3>2 DEF LInv, CyclesSound
    <3>3. cycle' = cycle \/ (p \in Dials /\ pc[p] = "create" /\ ~lazy /\ cycle' = [cycle EXCEPT ![p] = "fetching"])
      BY <1>3 DEF Create, CreateFails, removeCached, Sweep
    <3> QED BY <3>1, <3>2, <3>3
  <2>4. CyclesSound'
    BY <2>1, <2>2, <2>3 DEF LInv, CyclesSound, Early
  <2>5. ASSUME NEW k \in Dials, guard[k] # None
        PROVE  IF lazy THEN pc'[guard[k]] = "fetch" /\ ref'[guard[k]] = k
               ELSE guard[k] = k /\ cycle'[k] = "installing"
    <3>1. guard[k] \in Dials
      BY <2>5 DEF IInv, Types, TypeOK
    <3>2. CASE lazy
      <4>1. pc[guard[k]] = "fetch" /\ ref[guard[k]] = k
        BY <2>5, <3>2 DEF LInv, LocksAreOrdered
      <4>2. guard[k] # p
        BY <2>1, <4>1
      <4> QED BY <2>1, <2>2, <3>1, <3>2, <4>1, <4>2
    <3>3. CASE ~lazy
      <4>1. guard[k] = k /\ cycle[k] = "installing"
        BY <2>5, <3>3 DEF LInv, LocksAreOrdered
      <4>2. p = k => pc[p] # "create"
        BY <4>1 DEF LInv, CyclesSound
      <4> QED BY <2>3, <3>3, <4>1, <4>2
    <3> QED BY <3>2, <3>3
  <2>6. LocksAreOrdered'
    BY <2>1, <2>2, <2>5 DEF LInv, LocksAreOrdered
  <2> QED BY <2>4, <2>6 DEF LInv
<1> QED BY <1>1, <1>2, <1>3 DEF Sweep

\* A Dial in its cache, without the cache's lock or taking it for one step.
LEMMA DialKeepsLocks ==
    ASSUME IInv, LInv, NEW d \in Dials,
           Lookup(d) \/ ReadCur(d) \/ Ready(d) \/ Cached(d) \/ Use(d) \/ ForceRefresh(d)
    PROVE  LInv'
<1> USE DEF Procs
<1>1. CASE Lookup(d) \/ ReadCur(d) \/ Ready(d) \/ Cached(d) \/ Use(d)
  <2>1. /\ pc[d] \in {"lookup", "info", "answered", "wait", "orphaned", "use"}
        /\ \E l \in {"info", "answered", "wait", "use", "remove", "expired", "unreachable", "done"} :
              goto(d, l) \/ (pc[d] = "lookup" /\ goto(d, "create"))
        /\ \A e \in Dials : e # d => ref'[e] = ref[e]
        /\ UNCHANGED <<lazy, lk, guard, cycle>>
    BY <1>1 DEF Lookup, ReadCur, Ready, Cached, Use, IInv, Types, TypeOK
  <2>2. /\ pc' \in [Procs -> Points] /\ \A p \in Procs : p # d => pc'[p] = pc[p]
        /\ pc'[d] \in {"info", "answered", "wait", "use", "remove", "expired", "unreachable", "done",
                       "create"}
        /\ pc'[d] = "create" => pc[d] = "lookup"
    BY <2>1 DEF goto, IInv, Types, Points
  <2> QED BY <2>1, <2>2, MovesKeepLocks DEF Early
<1>2. CASE ForceRefresh(d)
  <2>1. /\ pc[d] \in {"expired", "unreachable"} /\ UNCHANGED <<lazy, lk, ref, guard, cycle>>
        /\ pc'[d] \in {"info", "done"}
        /\ \A p \in Procs : p # d => pc'[p] = pc[p] \/ (pc[p] = "wait" /\ pc'[p] = "orphaned")
        /\ pc' \in [Procs -> Points]
    BY <1>2 DEF ForceRefresh, Waits, IInv, Types, Points
  <2> QED BY <2>1, MovesKeepLocks DEF Early
<1> QED BY <1>1, <1>2

\* A lazy cache's mutex over the call of the Admin API.
LEMMA FetchKeepsLocks ==
    ASSUME IInv, LInv, NEW d \in Dials, StartFetch(d) \/ FetchReturns(d) \/ Cancelled(d)
    PROVE  LInv'
<1> USE DEF Procs
<1>1. /\ pc[d] \in {"info", "wait", "orphaned", "fetch"} /\ UNCHANGED <<lazy, lk, ref, cycle>>
      /\ pc'[d] \in {"fetch", "use", "remove"}
      /\ \A p \in Procs : p # d => pc'[p] = pc[p]
  BY DEF StartFetch, FetchReturns, Cancelled, goto, IInv, Types
<1>2. CyclesSound'
  BY <1>1 DEF LInv, CyclesSound, Early
<1>3. lk[d] = "no"
  BY <1>1 DEF LInv, LocksAreOrdered
<1>4. ASSUME NEW k \in Dials, guard'[k] # None
      PROVE  IF lazy THEN pc'[guard'[k]] = "fetch" /\ ref[guard'[k]] = k
             ELSE guard'[k] = k /\ cycle[k] = "installing"
  <2>1. CASE StartFetch(d) /\ k = ref[d]
    <3>1. lazy /\ guard'[k] = d /\ pc'[d] = "fetch"
      BY <2>1 DEF StartFetch, goto, IInv, Types, TypeOK
    <3> QED BY <2>1, <3>1
  <2>2. CASE ~(StartFetch(d) /\ k = ref[d])
    <3>1. guard'[k] = guard[k]
      BY <1>4, <2>2 DEF StartFetch, FetchReturns, Cancelled, IInv, Types, TypeOK
    <3>2. IF lazy THEN pc[guard[k]] = "fetch" /\ ref[guard[k]] = k
          ELSE guard[k] = k /\ cycle[k] = "installing"
      BY <1>4, <3>1 DEF LInv, LocksAreOrdered
    <3>3. CASE ~lazy
      BY <3>1, <3>2, <3>3
    <3>4. CASE lazy
      <4>1. guard[k] \in Dials
        BY <1>4, <3>1 DEF IInv, Types, TypeOK
      <4>2. guard[k] # d
        <5> SUFFICES ASSUME guard[k] = d PROVE FALSE
          OBVIOUS
        <5>1. pc[d] = "fetch" /\ ref[d] = k
          BY <3>2, <3>4
        <5>2. guard' = [guard EXCEPT ![k] = None]
          BY <5>1 DEF StartFetch, FetchReturns, Cancelled
        <5> QED BY <1>4, <5>2 DEF IInv, Types, TypeOK
      <4> QED BY <1>1, <3>1, <3>2, <3>4, <4>1, <4>2
    <3> QED BY <3>3, <3>4
  <2> QED BY <2>1, <2>2
<1>5. LocksAreOrdered'
  BY <1>1, <1>3, <1>4 DEF LInv, LocksAreOrdered
<1> QED BY <1>2, <1>5 DEF LInv

\* The refresh callback and the resultGuard.
LEMMA CycleKeepsLocks ==
    ASSUME IInv, LInv, NEW k \in Dials, Cycle(k)
    PROVE  LInv'
<1> USE DEF Procs
<1>1. /\ ~lazy /\ cycle[k] # "none" /\ UNCHANGED <<lazy, lk, ref>>
      /\ cycle' \in [Dials -> {"none", "armed", "fetching", "settled", "installing"}]
      /\ \A j \in Dials : j # k => cycle'[j] = cycle[j] /\ guard'[j] = guard[j]
  BY DEF Cycle, CycleFetches, CycleLocks, CycleInstalls, CycleFires, LInv, CyclesSound,
     IInv, Types, TypeOK
<1>2. \A p \in Procs : pc'[p] = pc[p] \/ (p \in Dials /\ pc[p] = "wait" /\ pc'[p] = "answered")
  BY DEF Cycle, CycleFetches, CycleLocks, CycleInstalls, CycleFires, Answer, Waits, IInv, Types
<1>3. guard'[k] # None => guard'[k] = k /\ cycle'[k] = "installing"
  BY <1>1 DEF Cycle, CycleFetches, CycleLocks, CycleInstalls, CycleFires, LInv, CyclesSound,
     LocksAreOrdered, IInv, Types, TypeOK
<1>4. CyclesSound'
  BY <1>1, <1>2 DEF LInv, CyclesSound, Early
<1>5. LocksAreOrdered'
  BY <1>1, <1>2, <1>3 DEF LInv, LocksAreOrdered
<1> QED BY <1>4, <1>5 DEF LInv

LEMMA NextLInv == IInv /\ LInv /\ [Next]_vars => LInv'
<1> SUFFICES ASSUME IInv, LInv, [Next]_vars PROVE LInv'
  OBVIOUS
<1>1. ASSUME NEW x \in Closers, Close(x) PROVE LInv'
  BY <1>1, SectionsKeepLocks DEF Close, Procs
<1>2. ASSUME NEW o \in Dials, Dial(o) \/ Cancelled(o) \/ Cycle(o) PROVE LInv'
  BY <1>2, SectionsKeepLocks, DialKeepsLocks, FetchKeepsLocks, CycleKeepsLocks DEF Dial, Procs
<1> QED BY <1>1, <1>2, DriverKeepsLocks DEF Next, OpenStep, Opens

LEMMA InitLInv == Init => LInv
  BY DEF Init, DialerInit, LInv, CyclesSound, LocksAreOrdered, Procs

LEMMA LockInvariance == Spec => []LInv
  BY Invariance, InitLInv, NextLInv, PTL DEF Spec

-----------------------------------------------------------------------------
(* The results                                                             *)

\* Every variable of the driver and of its Dialer keeps its type.
THEOREM TypeCorrect == Spec => []TypeOK
  BY Invariance, PTL DEF IInv, Types

\* However many Opens meet, and whichever of them fail, pgx's registry gets at
\* most one configuration for a DSN: the mutex spans the look-up and the
\* registration.
THEOREM RegistersOnce == Spec => []OneConfigPerDSN
  BY Invariance, PTL DEF IInv

\* Whatever DSNs are registered in between, an Open uses a cache of the instance
\* its own DSN names.
THEOREM OpenDialsItsInstance == Spec => []DialsItsInstance
  BY Invariance, PTL DEF IInv

\* No lock is left behind, Dialer.lock has one holder, and whoever holds a
\* cache's lock waits for no lock: with any number of Dials, Closes and
\* instances, and whether or not the Admin API answers, the waits for the locks
\* form no circle.
THEOREM LocksInOrder == Spec => []LocksAreOrdered
  BY LockInvariance, PTL DEF LInv

=============================================================================
