--------------------------- MODULE Configuration ---------------------------
(***************************************************************************)
(* How a Dialer and a Dial get their configuration: the Options that       *)
(* concurrent NewDialer calls run over their dialerConfig, the checks that *)
(* follow (dialer.go, options.go), and the DialOptions that concurrent     *)
(* Dials run over their copy of the Dialer's default dialCfg.              *)
(*                                                                         *)
(* A list of options is a sequence of groups: a group is what one Option   *)
(* function runs, several options for WithOptions and one for the others.  *)
(* NewDialer looks for an error after each group.                          *)
(***************************************************************************)
EXTENDS Naturals, Sequences, SequencesExt

CONSTANTS
    Creates,    \* calls of NewDialer in the process
    Dials,      \* calls of Dial, each on any of the Dialers
    NoDialer,   \* a Dial that is still to be called
    Identities, \* whose credentials clients have
    Groups,     \* the groups of options clients use
    MaxGroups,  \* how many of them a client uses at most
    DialOpts,   \* the DialOptions clients use
    MaxDialOpts \* how many of them a Dial is given at most

\* The fields of dialerConfig that an Option assigns and that are not needed
\* as values, but only as set or not: useIAMAuthN, disableMetadataExchange,
\* dialFunc, rsaKey, lazyRefresh, and the HTTP client among the adminOpts;
\* refreshTimeout, logger and staticConnInfo are assigned alike and read
\* nowhere below, and the user agents and the endpoint go to the Admin API
\* client unseen.
Flags == {"iam", "optOut", "dialFunc", "rsaKey", "lazy", "httpClient"}

\* An Option sets a flag, adds default DialOptions, or brings credentials,
\* which may turn out to be unusable.
Options ==
    [does : {"set"}, flag : Flags]
        \cup [does : {"dial"}, opts : Seq(DialOpts)]
        \cup [does : {"creds"}, id : Identities, valid : BOOLEAN]

\* A DialOption sets a field of the dialCfg: ipType, tcpKeepAlive or dialFunc.
DialFields == {"ipType", "tcpKeepAlive", "dialFunc"}

ASSUME NoDialerAssumption == NoDialer \notin Creates
ASSUME CallsAssumption == Creates \cap Dials = {}
ASSUME IdentitiesAssumption == {"none", "default", "httpClient"} \cap Identities = {}
ASSUME BoundsAssumption == MaxGroups \in Nat /\ MaxDialOpts \in Nat
ASSUME GroupsAssumption == \A g \in Groups : g \in Seq(Options)
\* (WithOneOffDialFunc is given a function.)
ASSUME DialOptsAssumption ==
    \A o \in DialOpts : o.field \in DialFields /\ (o.field = "dialFunc" => o.value # "unset")

VARIABLES
    pc,         \* pc[n]: where NewDialer call n stands; "created" and "failed" are final
    opts,       \* opts[n]: the groups its client gave it
    at,         \* at[n]: the group and the option in it that come next
    cfg,        \* cfg[n]: the dialerConfig
    registered, \* tel: the views are "unset", registered ("ok") or not ("err")
    defaults,   \* defaults[n]: Dialer.defaultDialCfg
    dialer,     \* dialer[d]: the Dialer that Dial d is called on
    own,        \* own[d]: the DialOptions it was given
    dat,        \* dat[c]: the DialOption that Dial or NewDialer call c runs next
    dialCfg     \* dialCfg[d]: its dialCfg

newVars == <<pc, opts, at, cfg, registered, defaults>>
dialVars == <<dialer, own, dialCfg>>
vars == <<pc, opts, at, cfg, registered, defaults, dialer, own, dat, dialCfg>>

NoConfig ==
    [flags |-> {}, tokenSource |-> "none", adminCreds |-> <<>>, dialOpts |-> <<>>, err |-> FALSE]

\* The built-in defaults.
NoDialCfg ==
    [f \in DialFields |->
        CASE f = "ipType" -> "PRIVATE" [] f = "tcpKeepAlive" -> "30s" [] f = "dialFunc" -> "unset"]

Init ==
    /\ pc = [n \in Creates |-> "options"]
    /\ opts \in [Creates -> BoundedSeq(Groups, MaxGroups)]
    /\ at = [n \in Creates |-> <<1, 1>>]
    /\ cfg = [n \in Creates |-> NoConfig]
    /\ registered = "unset"
    /\ defaults = [n \in Creates |-> NoDialCfg]
    /\ dialer = [d \in Dials |-> NoDialer]
    /\ own = [d \in Dials |-> <<>>]
    /\ dat = [c \in Creates \cup Dials |-> 1]
    /\ dialCfg = [d \in Dials |-> NoDialCfg]

-----------------------------------------------------------------------------
(* NewDialer                                                               *)

\* WithCredentialsFile, WithCredentialsJSON and WithTokenSource: the token
\* source of the dialer and the credentials of its Admin API client.
WithCredentials(c, o) ==
    IF o.valid
    THEN [c EXCEPT !.tokenSource = o.id, !.adminCreds = Append(@, o.id)]
    ELSE [c EXCEPT !.err = TRUE]

\* Credentials that clear the error of others.
WithCredentialsClearsError(c, o) == [WithCredentials(c, o) EXCEPT !.err = ~o.valid]

\* Credentials that reach the Admin API client only.
WithCredentialsAdminOnly(c, o) == [WithCredentials(c, o) EXCEPT !.tokenSource = c.tokenSource]

WithDefaultDialOptions(c, o) == [c EXCEPT !.dialOpts = @ \o o.opts]

\* WithIAMAuthN, WithLazyRefresh and the other options that assign a field, and
\* WithHTTPClient.
assign(c, o) == [c EXCEPT !.flags = @ \cup {o.flag}]

applyClearsError(c, o) ==
    CASE o.does = "set" -> assign(c, o)
      [] o.does = "dial" -> WithDefaultDialOptions(c, o)
      [] o.does = "creds" -> WithCredentialsClearsError(c, o)

applyAdminOnly(c, o) ==
    CASE o.does = "set" -> assign(c, o)
      [] o.does = "dial" -> WithDefaultDialOptions(c, o)
      [] o.does = "creds" -> WithCredentialsAdminOnly(c, o)

\* What option o does to the dialerConfig c.
apply(c, o) ==
    CASE o.does = "set" -> assign(c, o)
      [] o.does = "dial" -> WithDefaultDialOptions(c, o)
      [] o.does = "creds" -> WithCredentials(c, o)

\* The next option of the group runs, if there is one (WithOptions may be given
\* none); after the last one of a group NewDialer looks at the error.
ApplyOption(n) ==
    /\ pc[n] = "options"
    /\ at[n][1] <= Len(opts[n])
    /\ LET group == opts[n][at[n][1]]
           last == at[n][2] >= Len(group)
       IN  /\ cfg' = [cfg EXCEPT ![n] = IF group = <<>> THEN @ ELSE apply(@, group[at[n][2]])]
           /\ at' = [at EXCEPT ![n] = IF last THEN <<@[1] + 1, 1>> ELSE <<@[1], @[2] + 1>>]
           /\ pc' = [pc EXCEPT ![n] = IF last /\ cfg'[n].err THEN "failed" ELSE "options"]
    /\ UNCHANGED <<opts, registered, defaults, dat, dialVars>>

\* The flags are compatible.
Compatible(c) == ~{"iam", "optOut"} \subseteq c.flags

\* After the options: incompatible flags, a missing default token source or an
\* Admin API client that cannot be made end NewDialer.
CheckOptions(n) ==
    /\ pc[n] = "options"
    /\ at[n][1] > Len(opts[n])
    /\ \/ pc' = [pc EXCEPT ![n] = "failed"] /\ UNCHANGED cfg
       \/ /\ Compatible(cfg[n])
          /\ cfg' = [cfg EXCEPT ![n].tokenSource = IF @ = "none" THEN "default" ELSE @]
          /\ pc' = [pc EXCEPT ![n] = "defaults"]
    /\ UNCHANGED <<opts, at, registered, defaults, dat, dialVars>>

\* One DialOption runs over a dialCfg.
applyDial(c, o) == [c EXCEPT ![o.field] = o.value]

\* The default DialOptions run over the built-in defaults, one after the other.
SetDefaults(n) ==
    /\ pc[n] = "defaults"
    /\ IF dat[n] <= Len(cfg[n].dialOpts)
       THEN /\ defaults' = [defaults EXCEPT ![n] = applyDial(@, cfg[n].dialOpts[dat[n]])]
            /\ dat' = [dat EXCEPT ![n] = @ + 1]
            /\ UNCHANGED pc
       ELSE /\ pc' = [pc EXCEPT ![n] = "metrics"]
            /\ UNCHANGED <<defaults, dat>>
    /\ UNCHANGED <<opts, at, cfg, registered, dialVars>>

\* An error that only the call that ran the once gets to see.
InitMetricsForgets(n) ==
    /\ pc[n] = "metrics"
    /\ registered' \in IF registered = "unset" THEN {"ok", "err"} ELSE {registered}
    /\ pc' = [pc EXCEPT ![n] = IF registered' = "err" /\ registered = "unset" THEN "failed" ELSE "key"]
    /\ UNCHANGED <<opts, at, cfg, defaults, dat, dialVars>>

\* InitMetrics: the once registers the views and keeps the error for every
\* NewDialer of the process.
InitMetrics(n) ==
    /\ pc[n] = "metrics"
    /\ registered' \in IF registered = "unset" THEN {"ok", "err"} ELSE {registered}
    /\ pc' = [pc EXCEPT ![n] = IF registered' = "ok" THEN "key" ELSE "failed"]
    /\ UNCHANGED <<opts, at, cfg, defaults, dat, dialVars>>

\* newKeyGenerator, which can fail only if it has to make a key now; then the
\* Dialer is there.
CreateDialer(n) ==
    /\ pc[n] = "key"
    /\ \/ pc' = [pc EXCEPT ![n] = "created"]
       \/ {"rsaKey", "lazy"} \cap cfg[n].flags = {} /\ pc' = [pc EXCEPT ![n] = "failed"]
    /\ UNCHANGED <<opts, at, cfg, registered, defaults, dat, dialVars>>

\* Whom the Admin API client speaks for: a client with an HTTP client of its own
\* asks for no credentials; otherwise those given last count (a client given
\* credentials of two forms is not made, see CheckOptions).
adminIdentity(c) ==
    IF "httpClient" \in c.flags THEN "httpClient"
    ELSE IF c.adminCreds = <<>> THEN "default" ELSE Last(c.adminCreds)

-----------------------------------------------------------------------------
(* Dial                                                                    *)

\* A Dial that works on the Dialer's own dialCfg.
StartDialShared(n, d) ==
    /\ pc[n] = "created"
    /\ dialer[d] = NoDialer
    /\ dialer' = [dialer EXCEPT ![d] = n]
    /\ \E s \in BoundedSeq(DialOpts, MaxDialOpts) :
        /\ own' = [own EXCEPT ![d] = s]
        /\ defaults' = [defaults EXCEPT ![n] = FoldLeft(applyDial, @, s)]
    /\ dialCfg' = [dialCfg EXCEPT ![d] = defaults[n]]
    /\ UNCHANGED <<pc, opts, at, cfg, registered, dat>>

\* cfg := d.defaultDialCfg copies the defaults.
StartDial(n, d) ==
    /\ pc[n] = "created"
    /\ dialer[d] = NoDialer
    /\ dialer' = [dialer EXCEPT ![d] = n]
    /\ \E s \in BoundedSeq(DialOpts, MaxDialOpts) : own' = [own EXCEPT ![d] = s]
    /\ dialCfg' = [dialCfg EXCEPT ![d] = defaults[n]]
    /\ UNCHANGED <<newVars, dat>>

\* The next DialOption runs.
ApplyDialOption(d) ==
    /\ dat[d] <= Len(own[d])
    /\ dialCfg' = [dialCfg EXCEPT ![d] = applyDial(@, own[d][dat[d]])]
    /\ dat' = [dat EXCEPT ![d] = @ + 1]
    /\ UNCHANGED <<newVars, dialer, own>>

\* f := d.dialFunc, unless the dialCfg has one.
dialFunc(d) ==
    IF dialCfg[d]["dialFunc"] # "unset" THEN dialCfg[d]["dialFunc"]
    ELSE IF "dialFunc" \in cfg[dialer[d]].flags THEN "client's" ELSE "proxy.Dial"

Next ==
    \/ \E n \in Creates :
        \/ ApplyOption(n)
        \/ CheckOptions(n)
        \/ SetDefaults(n)
        \/ InitMetrics(n)
        \/ CreateDialer(n)
    \/ \E d \in Dials : ApplyDialOption(d) \/ \E n \in Creates : StartDial(n, d)

Spec == Init /\ [][Next]_vars

-----------------------------------------------------------------------------
(* Properties                                                              *)

\* The options a NewDialer call is given, whatever their groups.
GivenOptions(n) == UNION {ToSet(group) : group \in ToSet(opts[n])}

\* A Dialer is only created from options that all succeeded and fit together,
\* in whatever order and grouping they came (dialer.go:185-194): the error of
\* an option inside WithOptions survives the options that run after it, and
\* WithIAMAuthN and WithOptOutOfAdvancedConnectionCheck never meet.
CreatedMeansUsable ==
    \A n \in Creates :
        pc[n] = "created" =>
            /\ \A o \in GivenOptions(n) : o.does = "creds" => o.valid
            /\ ~{"iam", "optOut"} \subseteq {o.flag : o \in {x \in GivenOptions(n) : x.does = "set"}}

\* Option j of group i brings credentials.
BringsCreds(n, i, j) ==
    i \in DOMAIN opts[n] /\ j \in DOMAIN opts[n][i] /\ opts[n][i][j].does = "creds"

\* v is the identity that NewDialer call n is given last, in whatever group, or
\* the default one when it is given none.
IdentityGiven(n, v) ==
    \/ /\ v = "default"
       /\ \A i \in DOMAIN opts[n] : \A j \in DOMAIN opts[n][i] : ~BringsCreds(n, i, j)
    \/ \E i \in DOMAIN opts[n] : \E j \in DOMAIN opts[n][i] :
        /\ BringsCreds(n, i, j) /\ v = opts[n][i][j].id
        /\ \A a \in DOMAIN opts[n] : \A b \in DOMAIN opts[n][a] :
            BringsCreds(n, a, b) => a < i \/ (a = i /\ b <= j)

\* The metadata exchange sends the token of the identity the client gave last, in
\* whatever order, grouping and company of other options, or else of the default
\* one; the Admin API client speaks for the same, but for an HTTP client, which
\* changes the one and not the other (options.go:86-98, 115-121, 143-147;
\* dialer.go:199-209).
IdentityAsGiven ==
    \A n \in Creates :
        pc[n] = "created" =>
            /\ IdentityGiven(n, cfg[n].tokenSource)
            /\ adminIdentity(cfg[n]) =
                IF [does |-> "set", flag |-> "httpClient"] \in GivenOptions(n) THEN "httpClient"
                ELSE cfg[n].tokenSource

\* Registering the views is tried once in the process: its failure fails every
\* NewDialer, also one that comes later (tel/metrics.go:129).
MetricsFailureIsFinal ==
    registered = "err" => \A n \in Creates : pc[n] \notin {"key", "created"}

\* Where the Options of NewDialer call n bring default DialOptions: the group,
\* the Option in it and the DialOption of that.
Places(n) ==
    UNION {UNION {{<<i, j, k>> : k \in DOMAIN opts[n][i][j].opts} :
                   j \in {x \in DOMAIN opts[n][i] : opts[n][i][x].does = "dial"}} :
            i \in DOMAIN opts[n]}

DialOptAt(n, p) == opts[n][p[1]][p[2]].opts[p[3]]

\* Place p comes before place q.
Before(p, q) ==
    \/ p[1] < q[1]
    \/ p[1] = q[1] /\ p[2] < q[2]
    \/ p[1] = q[1] /\ p[2] = q[2] /\ p[3] < q[3]

\* v is what NewDialer call n makes the default of field f: the value of the
\* last default DialOption for it, or else the built-in one.
DefaultIs(n, f, builtin, v) ==
    LET mine == {p \in Places(n) : DialOptAt(n, p).field = f}
    IN  \/ mine = {} /\ v = builtin
        \/ \E p \in mine : v = DialOptAt(n, p).value /\ \A q \in mine \ {p} : Before(q, p)

\* v is what Dial d is to use for field f: the value of its own last DialOption
\* for it, or else the default.
Wanted(d, f, builtin, v) ==
    LET mine == {k \in DOMAIN own[d] : own[d][k].field = f}
    IN  \/ mine = {} /\ DefaultIs(dialer[d], f, builtin, v)
        \/ \E k \in mine : v = own[d][k].value /\ \A m \in mine : m <= k

\* A Dial runs with its own DialOptions over the Dialer's defaults over the
\* built-in ones, the last one given winning, whatever the other Dials of the
\* Dialer were given (dialer.go:214, 272, 325).
DialsAreIndependent ==
    \A d \in Dials :
        dialer[d] # NoDialer /\ dat[d] > Len(own[d]) =>
            /\ \A f \in DialFields : Wanted(d, f, NoDialCfg[f], dialCfg[d][f])
            /\ LET given == [does |-> "set", flag |-> "dialFunc"] \in GivenOptions(dialer[d])
               IN  Wanted(d, "dialFunc", IF given THEN "client's" ELSE "proxy.Dial", dialFunc(d))

=============================================================================
