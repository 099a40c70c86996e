------------------------ MODULE ConfigurationProofs ------------------------
(***************************************************************************)
(* Proofs about NewDialer and Dial, for any number of concurrent calls and *)
(* for any options in any groups and order.                                *)
(***************************************************************************)
EXTENDS Configuration, TLAPS

Points == {"options", "defaults", "metrics", "key", "created", "failed"}

Config ==
    [flags : SUBSET Flags, tokenSource : Identities \cup {"none", "default"},
     adminCreds : Seq(Identities), dialOpts : Seq(DialOpts), err : BOOLEAN]

Position == (Nat \ {0}) \X (Nat \ {0})

Types ==
    /\ pc \in [Creates -> Points]
    /\ opts \in [Creates -> Seq(Groups)]
    /\ at \in [Creates -> Position]
    /\ cfg \in [Creates -> Config]
    /\ registered \in {"unset", "ok", "err"}

\* Within a group, the option that comes next is one of its options.
InGroup(n) ==
    at[n][2] # 1 => at[n][1] <= Len(opts[n]) /\ at[n][2] <= Len(opts[n][at[n][1]])

\* Option j of group i has run.
Ran(n, i, j) == i < at[n][1] \/ (i = at[n][1] /\ j < at[n][2])

\* Configuration c shows that option o has run.
Shows(c, o) ==
    /\ o.does = "set" => o.flag \in c.flags
    /\ o.does = "creds" /\ ~o.valid => c.err

\* The dialerConfig shows every option that has run.
Applied(n) ==
    \A i \in DOMAIN opts[n] : \A j \in DOMAIN opts[n][i] :
        Ran(n, i, j) => Shows(cfg[n], opts[n][i][j])

\* Between two groups there is no error, or NewDialer has failed.
ErrorSeen(n) == pc[n] # "failed" /\ at[n][2] = 1 => ~cfg[n].err

\* A NewDialer call that is past its options has run them all and found them
\* compatible.
Checked(n) ==
    pc[n] \notin {"options", "failed"} => at[n][1] > Len(opts[n]) /\ Compatible(cfg[n])

\* The token source is that of the credentials given last, or else the one
\* that stands for none.
Identity(c, none) ==
    IF c.adminCreds = <<>> THEN c.tokenSource = none ELSE c.tokenSource = Last(c.adminCreds)

\* The default token source is looked for when the options have run.
IdentitySound(n) ==
    /\ pc[n] = "options" => Identity(cfg[n], "none")
    /\ pc[n] \notin {"options", "failed"} => Identity(cfg[n], "default")

\* Option j of group i has run and brought credentials that could be used.
Brought(n, i, j) == Ran(n, i, j) /\ opts[n][i][j].does = "creds" /\ opts[n][i][j].valid

\* The token source is that of the last credentials brought.
SourceIs(n, none) ==
    \/ /\ cfg[n].tokenSource = none
       /\ \A i \in DOMAIN opts[n] : \A j \in DOMAIN opts[n][i] : ~Brought(n, i, j)
    \/ \E i \in DOMAIN opts[n] : \E j \in DOMAIN opts[n][i] :
        /\ Brought(n, i, j) /\ cfg[n].tokenSource = opts[n][i][j].id
        /\ \A a \in DOMAIN opts[n] : \A b \in DOMAIN opts[n][a] :
            Brought(n, a, b) => a < i \/ (a = i /\ b <= j)

SourceSound(n) ==
    /\ pc[n] = "options" => SourceIs(n, "none")
    /\ pc[n] \notin {"options", "failed"} => SourceIs(n, "default")

\* Only a call that found the views registered gets past InitMetrics.
MetricsSound(n) == pc[n] \in {"key", "created"} => registered = "ok"

CallSound(n) ==
    /\ InGroup(n) /\ Applied(n) /\ ErrorSeen(n) /\ Checked(n)
    /\ IdentitySound(n) /\ SourceSound(n) /\ MetricsSound(n)

\* The inductive invariant.
IInv == Types /\ \A n \in Creates : CallSound(n)

-----------------------------------------------------------------------------
(* Options                                                                 *)

\* Sequences of bounded length are sequences.
LEMMA BoundedIsSeq ==
    ASSUME NEW S, NEW b \in Nat, NEW s \in BoundedSeq(S, b)
    PROVE  s \in Seq(S)
<1>1. PICK m \in 0..b : s \in [1..m -> S]
  BY DEF BoundedSeq, SeqOf
<1> QED BY <1>1

LEMMA ElementOf ==
    ASSUME NEW R, NEW q \in Seq(R), NEW i \in DOMAIN q
    PROVE  q[i] \in R
  OBVIOUS

\* An option shows in the configuration, and what showed before still does: no
\* option undoes another or clears its error.
LEMMA ApplyKeeps ==
    ASSUME NEW c \in Config, NEW o \in Options
    PROVE  /\ apply(c, o) \in Config
           /\ Shows(apply(c, o), o)
           /\ c.flags \subseteq apply(c, o).flags
           /\ c.err => apply(c, o).err
           /\ Identity(c, "none") => Identity(apply(c, o), "none")
           /\ apply(c, o).tokenSource =
                IF o.does = "creds" /\ o.valid THEN o.id ELSE c.tokenSource
<1>1. CASE o \in [does : {"set"}, flag : Flags]
  <2>1. apply(c, o) = [c EXCEPT !.flags = @ \cup {o.flag}] /\ o.flag \in Flags /\ o.does = "set"
    BY <1>1 DEF apply, assign
  <2> QED BY <2>1 DEF Config, Shows, Identity
<1>2. CASE o \in [does : {"dial"}, opts : Seq(DialOpts)]
  <2> DEFINE b == c.dialOpts \o o.opts
  <2>1. apply(c, o) = [c EXCEPT !.dialOpts = b] /\ o.opts \in Seq(DialOpts) /\ o.does = "dial"
    BY <1>2 DEF apply, WithDefaultDialOptions
  <2>2. c.dialOpts \in Seq(DialOpts)
    BY DEF Config
  <2>3. b \in Seq(DialOpts)
    BY <2>1, <2>2
  <2> HIDE DEF b
  <2> QED BY <2>1, <2>3 DEF Config, Shows, Identity
<1>3. CASE o \in [does : {"creds"}, id : Identities, valid : BOOLEAN]
  <2>1. /\ apply(c, o) = WithCredentials(c, o) /\ o.does = "creds"
        /\ o.id \in Identities /\ o.valid \in BOOLEAN
    BY <1>3 DEF apply
  <2>2. CASE o.valid
    <3> DEFINE b == Append(c.adminCreds, o.id)
    <3>1. apply(c, o) = [c EXCEPT !.tokenSource = o.id, !.adminCreds = b]
      BY <2>1, <2>2 DEF WithCredentials
    <3>2. c.adminCreds \in Seq(Identities)
      BY DEF Config
    <3>3. b \in Seq(Identities) /\ b # <<>> /\ Last(b) = o.id
      BY <2>1, <3>2 DEF Last
    <3> HIDE DEF b
    <3> QED BY <2>1, <2>2, <3>1, <3>3 DEF Config, Shows, Identity
  <2>3. CASE ~o.valid
    <3>1. apply(c, o) = [c EXCEPT !.err = TRUE]
      BY <2>1, <2>3 DEF WithCredentials
    <3> QED BY <2>1, <2>3, <3>1 DEF Config, Shows, Identity
  <2> QED BY <2>2, <2>3
<1> QED BY <1>1, <1>2, <1>3 DEF Options

-----------------------------------------------------------------------------

LEMMA InitIInv == Init => IInv
<1> SUFFICES ASSUME Init PROVE IInv
  OBVIOUS
<1>1. Types
  <2>1. opts \in [Creates -> Seq(Groups)]
    BY BoundedIsSeq, BoundsAssumption DEF Init
  <2>2. NoConfig \in Config
    <3>1. <<>> \in Seq(DialOpts) /\ <<>> \in Seq(Identities)
      OBVIOUS
    <3> QED BY <3>1 DEF NoConfig, Config
  <2>3. <<1, 1>> \in Position
    BY DEF Position
  <2> QED BY <2>1, <2>2, <2>3 DEF Init, Types, Points
<1>2. ASSUME NEW n \in Creates PROVE CallSound(n)
  <2>1. pc[n] = "options" /\ at[n] = <<1, 1>> /\ cfg[n] = NoConfig /\ opts[n] \in Seq(Groups)
    BY <1>1 DEF Init, Types
  <2>2. InGroup(n) /\ ErrorSeen(n) /\ Checked(n) /\ MetricsSound(n)
    BY <2>1 DEF InGroup, ErrorSeen, Checked, MetricsSound, NoConfig
  <2>3. Applied(n)
    <3> SUFFICES ASSUME NEW i \in DOMAIN opts[n], NEW j \in DOMAIN opts[n][i], Ran(n, i, j)
                 PROVE  FALSE
      BY DEF Applied
    <3>1. i \in Nat \ {0}
      BY <2>1
    <3>2. opts[n][i] \in Seq(Options)
      BY <2>1, ElementOf, GroupsAssumption
    <3>3. j \in Nat \ {0}
      BY <3>2
    <3> QED BY <2>1, <3>1, <3>3 DEF Ran
  <2>4. IdentitySound(n)
    BY <2>1 DEF IdentitySound, Identity, NoConfig
  <2>5. SourceSound(n)
    <3> SUFFICES ASSUME NEW i \in DOMAIN opts[n], NEW j \in DOMAIN opts[n][i] PROVE ~Ran(n, i, j)
      BY <2>1 DEF SourceSound, SourceIs, Brought, NoConfig
    <3>1. i \in Nat \ {0}
      BY <2>1
    <3>2. opts[n][i] \in Seq(Options)
      BY <2>1, ElementOf, GroupsAssumption
    <3> QED BY <2>1, <3>1, <3>2 DEF Ran
  <2> QED BY <2>2, <2>3, <2>4, <2>5 DEF CallSound
<1> QED BY <1>1, <1>2 DEF IInv

\* A step of one call leaves the others sound: it shares with them only what
\* the metrics are, and these never change once they are registered.
LEMMA OthersSound ==
    ASSUME IInv, NEW n \in Creates, Types',
           \A m \in Creates : m # n =>
               pc'[m] = pc[m] /\ opts'[m] = opts[m] /\ at'[m] = at[m] /\ cfg'[m] = cfg[m],
           registered = "ok" => registered' = "ok",
           CallSound(n)'
    PROVE  IInv'
<1> SUFFICES ASSUME NEW m \in Creates, m # n PROVE CallSound(m)'
  BY DEF IInv
<1>1. CallSound(m)
  BY DEF IInv
<1>2. InGroup(m)' /\ ErrorSeen(m)' /\ Checked(m)' /\ IdentitySound(m)' /\ MetricsSound(m)'
  BY <1>1 DEF CallSound, InGroup, ErrorSeen, Checked, IdentitySound, MetricsSound
<1>3. Applied(m)'
  BY <1>1 DEF CallSound, Applied, Ran
<1>4. SourceSound(m)'
  BY <1>1 DEF CallSound, SourceSound, SourceIs, Brought, Ran
<1> QED BY <1>2, <1>3, <1>4 DEF CallSound

\* When an option runs, it joins those that have run, and no other does.
LEMMA RanNext ==
    ASSUME IInv, NEW n \in Creates, ApplyOption(n),
           NEW a \in DOMAIN opts[n], NEW b \in DOMAIN opts[n][a]
    PROVE  Ran(n, a, b)' <=> Ran(n, a, b) \/ (a = at[n][1] /\ b = at[n][2])
<1> DEFINE i == at[n][1]
           j == at[n][2]
           group == opts[n][i]
           next == IF j >= Len(group) THEN <<i + 1, 1>> ELSE <<i, j + 1>>
<1>1. i \in Nat \ {0} /\ j \in Nat \ {0} /\ opts[n] \in Seq(Groups)
  BY DEF IInv, Types, Position
<1>2. i \in DOMAIN opts[n] /\ group \in Seq(Options)
  <2>1. i \in DOMAIN opts[n]
    BY <1>1 DEF ApplyOption
  <2>2. group \in Groups
    BY <2>1, <1>1, ElementOf
  <2> QED BY <2>1, <2>2, GroupsAssumption
<1>3. opts[n][a] \in Seq(Options) /\ a \in Nat /\ b \in Nat \ {0} /\ b <= Len(opts[n][a])
  <2>1. opts[n][a] \in Groups
    BY <1>1, ElementOf
  <2> QED BY <1>1, <2>1, GroupsAssumption
<1>4. at'[n] = next
  BY DEF ApplyOption, IInv, Types
<1>5. InGroup(n)
  BY DEF IInv, CallSound
<1>6. Len(group) \in Nat /\ (j # 1 => j <= Len(group))
  BY <1>2, <1>5 DEF InGroup
<1> HIDE DEF i, j, group
<1>7. \/ j >= Len(group) /\ next[1] = i + 1 /\ next[2] = 1
      \/ j < Len(group) /\ next[1] = i /\ next[2] = j + 1
  BY <1>1, <1>6
<1> HIDE DEF next
<1>8. Ran(n, a, b)' <=> a < next[1] \/ (a = next[1] /\ b < next[2])
  BY <1>4 DEF Ran
<1>9. Ran(n, a, b) <=> a < i \/ (a = i /\ b < j)
  BY DEF Ran, i, j
<1>10. a = i => b <= Len(group)
  BY <1>3 DEF group
<1>11. Ran(n, a, b)' <=> Ran(n, a, b) \/ (a = i /\ b = j)
  BY <1>1, <1>3, <1>6, <1>7, <1>8, <1>9, <1>10
<1> QED BY <1>11 DEF i, j

\* An option of a group runs.
LEMMA ApplyOptionPreserves ==
    ASSUME IInv, NEW n \in Creates, ApplyOption(n)
    PROVE  IInv'
<1> DEFINE i == at[n][1]
           j == at[n][2]
           group == opts[n][i]
           last == j >= Len(group)
           c == IF group = <<>> THEN cfg[n] ELSE apply(cfg[n], group[j])
           p == IF last /\ c.err THEN "failed" ELSE "options"
           next == IF last THEN <<i + 1, 1>> ELSE <<i, j + 1>>
<1>1. /\ pc[n] = "options" /\ i <= Len(opts[n])
      /\ cfg' = [cfg EXCEPT ![n] = c] /\ at' = [at EXCEPT ![n] = next]
      /\ pc' = [pc EXCEPT ![n] = IF last /\ cfg'[n].err THEN "failed" ELSE "options"]
      /\ UNCHANGED <<opts, registered>>
  BY DEF ApplyOption
<1>2. CallSound(n)
  BY DEF IInv
<1>3. i \in Nat \ {0} /\ j \in Nat \ {0} /\ cfg[n] \in Config /\ opts[n] \in Seq(Groups)
  BY DEF IInv, Types, Position
<1>4. i \in DOMAIN opts[n] /\ group \in Seq(Options)
  <2>1. i \in DOMAIN opts[n]
    BY <1>1, <1>3
  <2>2. group \in Groups
    BY <2>1, <1>3, ElementOf
  <2> QED BY <2>1, <2>2, GroupsAssumption
<1> HIDE DEF i, j
<1>5. group = <<>> \/ j \in DOMAIN group
  BY <1>1, <1>2, <1>3, <1>4 DEF CallSound, InGroup, i, j
<1> HIDE DEF group
<1>6. /\ c \in Config
      /\ \A o : Shows(cfg[n], o) => Shows(c, o)
      /\ Identity(c, "none")
      /\ group # <<>> => Shows(c, group[j])
      /\ group = <<>> => c = cfg[n]
  <2>1. Identity(cfg[n], "none")
    BY <1>1, <1>2 DEF CallSound, IdentitySound
  <2>2. CASE group = <<>>
    BY <1>3, <2>1, <2>2
  <2>3. CASE group # <<>>
    <3>1. group[j] \in Options
      BY <1>4, <1>5, <2>3, ElementOf
    <3> QED BY <1>3, <2>1, <2>3, <3>1, ApplyKeeps DEF Shows
  <2> QED BY <2>2, <2>3
<1> HIDE DEF c
<1>7. /\ cfg' \in [Creates -> Config] /\ cfg'[n] = c
      /\ \A m \in Creates : m # n => cfg'[m] = cfg[m]
  BY <1>1, <1>6 DEF IInv, Types
<1>8. next \in Position /\ next[1] \in Nat /\ next[2] \in Nat
  <2>1. i + 1 \in Nat \ {0} /\ j + 1 \in Nat \ {0} /\ 1 \in Nat \ {0}
    BY <1>3
  <2> QED BY <1>3, <2>1 DEF Position
<1> HIDE DEF next
<1>9. /\ at' \in [Creates -> Position] /\ at'[n] = next
      /\ \A m \in Creates : m # n => at'[m] = at[m]
  BY <1>1, <1>8 DEF IInv, Types
<1>10. /\ pc' \in [Creates -> Points] /\ pc'[n] = p
       /\ \A m \in Creates : m # n => pc'[m] = pc[m]
  BY <1>1, <1>7 DEF IInv, Types, Points
<1>11. Types'
  BY <1>1, <1>7, <1>9, <1>10 DEF IInv, Types
<1>12. Len(group) \in Nat /\ DOMAIN group = 1..Len(group) /\ (group = <<>> <=> Len(group) = 0)
  BY <1>4
<1>13. \/ last /\ next[1] = i + 1 /\ next[2] = 1
       \/ ~last /\ next[1] = i /\ next[2] = j + 1 /\ j + 1 <= Len(group) /\ group # <<>>
  BY <1>3, <1>12 DEF next
<1>14. InGroup(n)'
  BY <1>1, <1>3, <1>9, <1>13 DEF InGroup, group
<1>15. ErrorSeen(n)'
  BY <1>3, <1>7, <1>9, <1>10, <1>13 DEF ErrorSeen
<1>16. Checked(n)' /\ MetricsSound(n)' /\ IdentitySound(n)'
  BY <1>6, <1>7, <1>10 DEF Checked, MetricsSound, IdentitySound
<1>17. Applied(n)'
  <2> SUFFICES ASSUME NEW a \in DOMAIN opts[n], NEW b \in DOMAIN opts[n][a], Ran(n, a, b)'
               PROVE  Shows(c, opts[n][a][b])
    BY <1>1, <1>7 DEF Applied
  <2>1. opts[n][a] \in Groups
    BY <1>3, ElementOf
  <2>2. a \in Nat /\ b \in Nat \ {0}
    BY <1>3, <2>1, GroupsAssumption
  <2>3. CASE Ran(n, a, b)
    BY <1>2, <1>6, <2>3 DEF CallSound, Applied
  <2>4. CASE ~Ran(n, a, b)
    <3>1. ~(a < i) /\ ~(a = i /\ b < j)
      BY <2>4 DEF Ran, i, j
    <3>2. a < next[1] \/ (a = next[1] /\ b < next[2])
      BY <1>9 DEF Ran
    <3>3. a = i
      BY <1>3, <1>13, <2>2, <3>1, <3>2
    <3>4. b \in DOMAIN group /\ opts[n][a] = group
      BY <3>3 DEF group
    <3>5. b = j
      BY <1>3, <1>5, <1>12, <1>13, <2>2, <3>1, <3>2, <3>3, <3>4
    <3>6. group # <<>>
      BY <1>12, <3>4
    <3> QED BY <1>6, <3>4, <3>5, <3>6
  <2> QED BY <2>3, <2>4
<1>18. SourceSound(n)'
  <2> DEFINE new == group # <<>> /\ group[j].does = "creds" /\ group[j].valid
  <2>1. SourceIs(n, "none")
    BY <1>1, <1>2 DEF CallSound, SourceSound
  <2>2. c.tokenSource = IF new THEN group[j].id ELSE cfg[n].tokenSource
    <3>1. CASE group = <<>>
      BY <1>6, <3>1
    <3>2. CASE group # <<>>
      <4>1. group[j] \in Options
        BY <1>4, <1>5, <3>2, ElementOf
      <4> QED BY <1>3, <3>2, <4>1, ApplyKeeps DEF c
    <3> QED BY <3>1, <3>2
  <2>3. ASSUME NEW a \in DOMAIN opts[n], NEW b \in DOMAIN opts[n][a]
        PROVE  /\ Brought(n, a, b)' <=> Brought(n, a, b) \/ (a = i /\ b = j /\ new)
               /\ Brought(n, a, b) => a < i \/ (a = i /\ b <= j)
    <3>1. Ran(n, a, b)' <=> Ran(n, a, b) \/ (a = i /\ b = j)
      BY RanNext DEF i, j
    <3>2. a = i /\ b = j => (new <=> opts[n][a][b].does = "creds" /\ opts[n][a][b].valid)
      <4>1. a = i => opts[n][a] = group /\ b \in DOMAIN group
        BY DEF group
      <4> QED BY <1>12, <4>1
    <3>3. opts[n][a] \in Seq(Options)
      BY <1>3, ElementOf, GroupsAssumption
    <3>4. Ran(n, a, b) => a < i \/ (a = i /\ b <= j)
      BY <1>3, <3>3 DEF Ran, i, j
    <3> HIDE DEF new
    <3> QED BY <1>1, <3>1, <3>2, <3>4 DEF Brought
  <2>4. CASE new
    <3>1. PICK x \in DOMAIN opts[n] : x = i /\ opts[n][x] = group
      BY <1>4 DEF group
    <3> PICK y \in DOMAIN opts[n][x] : y = j
      BY <1>5, <2>4, <3>1
    <3>2. Brought(n, x, y)' /\ cfg'[n].tokenSource = opts[n][x][y].id
      BY <1>7, <2>2, <2>3, <2>4, <3>1
    <3>3. \A a \in DOMAIN opts[n] : \A b \in DOMAIN opts[n][a] :
            Brought(n, a, b)' => a < x \/ (a = x /\ b <= y)
      BY <1>3, <2>3, <3>1
    <3>4. SourceIs(n, "none")'
      BY <1>1, <3>1, <3>2, <3>3 DEF SourceIs
    <3> QED BY <1>10, <3>4 DEF SourceSound
  <2>5. CASE ~new
    <3>1. \A a \in DOMAIN opts[n] : \A b \in DOMAIN opts[n][a] : Brought(n, a, b)' <=> Brought(n, a, b)
      BY <2>3, <2>5
    <3>2. cfg'[n].tokenSource = cfg[n].tokenSource
      BY <1>7, <2>2, <2>5
    <3>3. SourceIs(n, "none")'
      BY <1>1, <2>1, <3>1, <3>2 DEF SourceIs
    <3> QED BY <1>10, <3>3 DEF SourceSound
  <2> QED BY <2>4, <2>5
<1>19. CallSound(n)'
  BY <1>14, <1>15, <1>16, <1>17, <1>18 DEF CallSound
<1> QED BY <1>1, <1>7, <1>9, <1>10, <1>11, <1>19, OthersSound

\* A step of call n past its options: it may look for the default token source.
LEMMA LaterStep ==
    ASSUME IInv, NEW n \in Creates, NEW p \in Points \ {"options"}, NEW c \in Config,
           pc' = [pc EXCEPT ![n] = p], cfg' = [cfg EXCEPT ![n] = c],
           UNCHANGED <<opts, at>>,
           registered' \in {"unset", "ok", "err"}, registered = "ok" => registered' = "ok",
           pc[n] # "failed",
           c.flags = cfg[n].flags, c.err = cfg[n].err,
           p # "failed" => /\ at[n][1] > Len(opts[n])
                           /\ Compatible(c)
                           /\ Identity(c, "default")
                           /\ c.tokenSource = cfg[n].tokenSource \/ pc[n] = "options"
                           /\ pc[n] = "options" =>
                                c.tokenSource = IF cfg[n].tokenSource = "none" THEN "default"
                                                ELSE cfg[n].tokenSource,
           p \in {"key", "created"} => registered' = "ok"
    PROVE  IInv'
<1>1. CallSound(n)
  BY DEF IInv
<1>2. /\ pc' \in [Creates -> Points] /\ pc'[n] = p
      /\ \A m \in Creates : m # n => pc'[m] = pc[m]
      /\ cfg' \in [Creates -> Config] /\ cfg'[n] = c
      /\ \A m \in Creates : m # n => cfg'[m] = cfg[m]
  BY DEF IInv, Types
<1>3. Types'
  BY <1>2 DEF IInv, Types
<1>4. InGroup(n)' /\ ErrorSeen(n)' /\ Checked(n)' /\ IdentitySound(n)' /\ MetricsSound(n)'
  BY <1>1, <1>2 DEF CallSound, InGroup, ErrorSeen, Checked, IdentitySound, MetricsSound
<1>5. Applied(n)'
  BY <1>1, <1>2 DEF CallSound, Applied, Ran, Shows
<1>6. SourceSound(n)'
  <2> SUFFICES ASSUME p # "failed" PROVE SourceIs(n, "default")'
    BY <1>2 DEF SourceSound
  <2>1. opts[n] \in Seq(Groups)
    BY DEF IInv, Types
  <2>2. ASSUME NEW a \in DOMAIN opts[n], NEW b \in DOMAIN opts[n][a], Brought(n, a, b)
        PROVE  opts[n][a][b].id \in Identities
    <3>1. opts[n][a] \in Seq(Options)
      BY <2>1, ElementOf, GroupsAssumption
    <3>2. opts[n][a][b] \in Options
      BY <3>1, ElementOf
    <3> QED BY <2>2, <3>2 DEF Brought, Options
  <2>3. \A a, b : Brought(n, a, b)' <=> Brought(n, a, b)
    BY DEF Brought, Ran
  <2>4. CASE pc[n] = "options"
    <3>1. SourceIs(n, "none")
      BY <1>1, <2>4 DEF CallSound, SourceSound
    <3> QED BY <1>2, <2>2, <2>3, <2>4, <3>1, IdentitiesAssumption DEF SourceIs
  <2>5. CASE pc[n] # "options"
    <3>1. SourceIs(n, "default")
      BY <1>1, <2>5 DEF CallSound, SourceSound
    <3> QED BY <1>2, <2>3, <2>5, <3>1 DEF SourceIs
  <2> QED BY <2>4, <2>5
<1>7. CallSound(n)'
  BY <1>4, <1>5, <1>6 DEF CallSound
<1> QED BY <1>2, <1>3, <1>7, OthersSound

LEMMA CheckOptionsPreserves ==
    ASSUME IInv, NEW n \in Creates, CheckOptions(n)
    PROVE  IInv'
<1>1. /\ pc[n] = "options" /\ at[n][1] > Len(opts[n])
      /\ UNCHANGED <<opts, at, registered>>
  BY DEF CheckOptions
<1>2. cfg[n] \in Config /\ registered \in {"unset", "ok", "err"}
  BY DEF IInv, Types
<1>3. CASE pc' = [pc EXCEPT ![n] = "failed"] /\ UNCHANGED cfg
  <2>1. cfg' = [cfg EXCEPT ![n] = cfg[n]]
    BY <1>3 DEF IInv, Types
  <2>2. "failed" \in Points \ {"options"}
    BY DEF Points
  <2> QED BY <1>1, <1>2, <1>3, <2>1, <2>2, LaterStep
<1>4. CASE /\ Compatible(cfg[n])
           /\ cfg' = [cfg EXCEPT ![n].tokenSource = IF @ = "none" THEN "default" ELSE @]
           /\ pc' = [pc EXCEPT ![n] = "defaults"]
  <2> DEFINE c == [cfg[n] EXCEPT !.tokenSource = IF @ = "none" THEN "default" ELSE @]
  <2>1. cfg' = [cfg EXCEPT ![n] = c]
    BY <1>4
  <2>2. /\ c \in Config /\ c.flags = cfg[n].flags /\ c.err = cfg[n].err
        /\ c.adminCreds = cfg[n].adminCreds
        /\ c.tokenSource = IF cfg[n].tokenSource = "none" THEN "default" ELSE cfg[n].tokenSource
    BY <1>2 DEF Config
  <2> HIDE DEF c
  <2>3. Compatible(c)
    BY <1>4, <2>2 DEF Compatible
  <2>4. Identity(c, "default")
    <3>1. Identity(cfg[n], "none")
      BY <1>1 DEF IInv, CallSound, IdentitySound
    <3>2. CASE cfg[n].adminCreds = <<>>
      BY <2>2, <3>1, <3>2 DEF Identity
    <3>3. CASE cfg[n].adminCreds # <<>>
      <4>1. cfg[n].adminCreds \in Seq(Identities)
        BY <1>2 DEF Config
      <4>2. Last(cfg[n].adminCreds) \in Identities
        BY <3>3, <4>1 DEF Last
      <4>3. cfg[n].tokenSource # "none"
        BY <3>1, <3>3, <4>2, IdentitiesAssumption DEF Identity
      <4> QED BY <2>2, <3>1, <3>3, <4>3 DEF Identity
    <3> QED BY <3>2, <3>3
  <2>5. "defaults" \in Points \ {"options"}
    BY DEF Points
  <2> QED BY <1>1, <1>2, <1>4, <2>1, <2>2, <2>3, <2>4, <2>5, LaterStep
<1> QED BY <1>3, <1>4 DEF CheckOptions

LEMMA CreatePreserves ==
    ASSUME IInv, NEW n \in Creates, SetDefaults(n) \/ InitMetrics(n) \/ CreateDialer(n)
    PROVE  IInv'
<1>1. /\ pc[n] \in {"defaults", "metrics", "key"} /\ UNCHANGED <<opts, at, cfg>>
      /\ registered' \in {"unset", "ok", "err"} /\ (registered = "ok" => registered' = "ok")
  BY DEF SetDefaults, InitMetrics, CreateDialer, IInv, Types
<1>2. PICK p \in {"defaults", "metrics", "key", "created", "failed"} :
        pc' = [pc EXCEPT ![n] = p] /\ (p \in {"key", "created"} => registered' = "ok")
  <2>1. CASE SetDefaults(n)
    BY <2>1 DEF SetDefaults, IInv, Types
  <2>2. CASE InitMetrics(n)
    BY <2>2 DEF InitMetrics
  <2>3. CASE CreateDialer(n)
    BY <2>3 DEF CreateDialer, IInv, CallSound, MetricsSound
  <2> QED BY <2>1, <2>2, <2>3
<1>3. /\ cfg[n] \in Config /\ cfg' = [cfg EXCEPT ![n] = cfg[n]]
      /\ at[n][1] > Len(opts[n]) /\ Compatible(cfg[n]) /\ Identity(cfg[n], "default")
  BY <1>1 DEF IInv, Types, CallSound, Checked, IdentitySound
<1>4. p \in Points \ {"options"}
  BY DEF Points
<1> QED BY <1>1, <1>2, <1>3, <1>4, LaterStep

LEMMA NextIInv == IInv /\ [Next]_vars => IInv'
<1> SUFFICES ASSUME IInv, [Next]_vars PROVE IInv'
  OBVIOUS
<1>1. CASE UNCHANGED newVars
  BY <1>1 DEF newVars, IInv, Types, CallSound, InGroup, Applied, Ran, Shows, ErrorSeen, Checked,
     IdentitySound, SourceSound, SourceIs, Brought, MetricsSound
<1>2. UNCHANGED vars => UNCHANGED newVars
  BY DEF vars, newVars
<1>3. ASSUME NEW d \in Dials, ApplyDialOption(d) \/ \E n \in Creates : StartDial(n, d)
      PROVE  UNCHANGED newVars
  BY <1>3 DEF ApplyDialOption, StartDial
<1> QED BY <1>1, <1>2, <1>3, ApplyOptionPreserves, CheckOptionsPreserves, CreatePreserves DEF Next

\* The invariant holds throughout every behaviour.
LEMMA Invariance == Spec => []IInv
  BY InitIInv, NextIInv, PTL DEF Spec

-----------------------------------------------------------------------------
(* DialOptions                                                             *)

DialValues == {o.value : o \in DialOpts} \cup {"PRIVATE", "30s", "unset"}

DialCfgs == [DialFields -> DialValues]

DialTypes ==
    /\ defaults \in [Creates -> DialCfgs]
    /\ dialer \in [Dials -> Creates \cup {NoDialer}]
    /\ own \in [Dials -> Seq(DialOpts)]
    /\ dat \in [Creates \cup Dials -> Nat \ {0}]
    /\ dialCfg \in [Dials -> DialCfgs]

\* v is what the DialOptions of s before number a leave of field f.
Settled(f, s, a, default, v) ==
    \/ v = default /\ \A k \in DOMAIN s : k < a => s[k].field # f
    \/ \E k \in DOMAIN s :
        /\ k < a /\ s[k].field = f /\ v = s[k].value
        /\ \A l \in DOMAIN s : l < a /\ s[l].field = f => l <= k

\* The default DialOptions of the dialerConfig are those that the Options which
\* have run bring, in the order of their places: order[k] is the place of the
\* one that came k-th.
Collects(n, order) ==
    LET all == cfg[n].dialOpts
    IN  /\ order \in [DOMAIN all -> Places(n)]
        /\ \A k \in DOMAIN all : /\ all[k] = DialOptAt(n, order[k])
                                 /\ Ran(n, order[k][1], order[k][2])
        /\ \A k, l \in DOMAIN all : k < l => Before(order[k], order[l])
        /\ \A p \in Places(n) : Ran(n, p[1], p[2]) => \E k \in DOMAIN all : order[k] = p

Collected(n) == \E order : Collects(n, order)

\* No field of the dialerConfig is assigned but by an Option that does so.
FlagsGiven(n) ==
    \A x \in cfg[n].flags : \E o \in GivenOptions(n) : o.does = "set" /\ o.flag = x

\* The default dialCfg is what the default DialOptions that have run leave; they
\* have all run when the Dialer is made.
DefaultsSound(n) ==
    /\ pc[n] = "options" => dat[n] = 1
    /\ pc[n] \in {"metrics", "key", "created"} => dat[n] > Len(cfg[n].dialOpts)
    /\ \A f \in DialFields : Settled(f, cfg[n].dialOpts, dat[n], NoDialCfg[f], defaults[n][f])

\* A Dial is called on a Dialer that is there, and its dialCfg is what its own
\* DialOptions that have run leave of that Dialer's default.
DialSound(d) ==
    IF dialer[d] = NoDialer THEN dat[d] = 1 /\ own[d] = <<>>
    ELSE /\ pc[dialer[d]] = "created"
         /\ \A f \in DialFields :
                Settled(f, own[d], dat[d], defaults[dialer[d]][f], dialCfg[d][f])

\* The inductive invariant of the DialOptions, on top of that of the Options.
DInv ==
    /\ DialTypes
    /\ \A n \in Creates : Collected(n) /\ FlagsGiven(n) /\ DefaultsSound(n)
    /\ \A d \in Dials : DialSound(d)

\* The places, one by one.
LEMMA PlaceOf ==
    ASSUME NEW n, NEW p
    PROVE  p \in Places(n) <=>
             \E i \in DOMAIN opts[n] : \E j \in DOMAIN opts[n][i] :
                 /\ opts[n][i][j].does = "dial"
                 /\ \E k \in DOMAIN opts[n][i][j].opts : p = <<i, j, k>>
  BY DEF Places

\* A place is made of numbers.
LEMMA PlaceNumbers ==
    ASSUME IInv, NEW n \in Creates, NEW p \in Places(n)
    PROVE  /\ p[1] \in Nat \ {0} /\ p[2] \in Nat \ {0} /\ p[3] \in Nat \ {0}
           /\ p = <<p[1], p[2], p[3]>>
           /\ p[1] \in DOMAIN opts[n] /\ p[2] \in DOMAIN opts[n][p[1]]
           /\ opts[n][p[1]][p[2]].does = "dial"
           /\ p[3] \in DOMAIN opts[n][p[1]][p[2]].opts
           /\ DialOptAt(n, p) \in DialOpts
<1>1. PICK i \in DOMAIN opts[n] : \E j \in DOMAIN opts[n][i] :
                 /\ opts[n][i][j].does = "dial"
                 /\ \E k \in DOMAIN opts[n][i][j].opts : p = <<i, j, k>>
  BY PlaceOf
<1>2. PICK j \in DOMAIN opts[n][i] :
                 /\ opts[n][i][j].does = "dial"
                 /\ \E k \in DOMAIN opts[n][i][j].opts : p = <<i, j, k>>
  BY <1>1
<1>3. PICK k \in DOMAIN opts[n][i][j].opts : p = <<i, j, k>>
  BY <1>2
<1>4. opts[n] \in Seq(Groups)
  BY DEF IInv, Types
<1>5. opts[n][i] \in Seq(Options) /\ i \in Nat \ {0}
  BY <1>4, ElementOf, GroupsAssumption
<1>6. opts[n][i][j] \in Options /\ j \in Nat \ {0}
  BY <1>5, ElementOf
<1>7. opts[n][i][j].opts \in Seq(DialOpts)
  BY <1>2, <1>6 DEF Options
<1>8. opts[n][i][j].opts[k] \in DialOpts /\ k \in Nat \ {0}
  BY <1>7, ElementOf
<1> QED BY <1>2, <1>3, <1>5, <1>6, <1>8 DEF DialOptAt

\* One more DialOption runs.
LEMMA SettledStep ==
    ASSUME NEW c \in DialCfgs, NEW s \in Seq(DialOpts), NEW a \in DOMAIN s,
           NEW f \in DialFields, NEW default, Settled(f, s, a, default, c[f])
    PROVE  /\ applyDial(c, s[a]) \in DialCfgs
           /\ Settled(f, s, a + 1, default, applyDial(c, s[a])[f])
<1> DEFINE o == s[a]
<1>1. o \in DialOpts /\ o.field \in DialFields /\ o.value \in DialValues
  BY ElementOf, DialOptsAssumption DEF DialValues
<1>2. applyDial(c, o) \in DialCfgs
  BY <1>1 DEF applyDial, DialCfgs
<1>3. a \in Nat /\ \A k \in DOMAIN s : k \in Nat /\ (k < a + 1 <=> k < a \/ k = a)
  OBVIOUS
<1>4. CASE o.field = f
  <2>1. applyDial(c, o)[f] = o.value
    BY <1>1, <1>4 DEF applyDial, DialCfgs
  <2>2. \A l \in DOMAIN s : l < a + 1 => l <= a
    BY <1>3
  <2> QED BY <1>2, <1>3, <1>4, <2>1, <2>2 DEF Settled
<1>5. CASE o.field # f
  <2>1. applyDial(c, o)[f] = c[f]
    BY <1>1, <1>5 DEF applyDial, DialCfgs
  <2> QED BY <1>2, <1>3, <1>5, <2>1 DEF Settled
<1> QED BY <1>4, <1>5

LEMMA SettledNone ==
    ASSUME NEW S, NEW s \in Seq(S), NEW f, NEW default, NEW v
    PROVE  Settled(f, s, 1, default, v) <=> v = default
<1>1. \A k \in DOMAIN s : ~(k < 1)
  OBVIOUS
<1> QED BY <1>1 DEF Settled

-----------------------------------------------------------------------------

LEMMA InitDInv == Init => DInv
<1> SUFFICES ASSUME Init PROVE DInv
  OBVIOUS
<1>1. IInv
  BY InitIInv
<1>2. NoDialCfg \in DialCfgs
  BY DEF NoDialCfg, DialCfgs, DialFields, DialValues
<1>3. DialTypes
  <2>1. <<>> \in Seq(DialOpts)
    OBVIOUS
  <2> QED BY <1>2, <2>1 DEF Init, DialTypes
<1>4. ASSUME NEW n \in Creates PROVE Collected(n) /\ FlagsGiven(n) /\ DefaultsSound(n)
  <2>1. /\ pc[n] = "options" /\ at[n] = <<1, 1>> /\ dat[n] = 1 /\ defaults[n] = NoDialCfg
        /\ cfg[n].dialOpts = <<>> /\ cfg[n].flags = {}
    BY DEF Init, NoConfig
  <2>2. Collected(n)
    <3> DEFINE order == [k \in {} |-> <<1, 1, 1>>]
    <3>1. DOMAIN cfg[n].dialOpts = {}
      BY <2>1
    <3>2. order \in [DOMAIN cfg[n].dialOpts -> Places(n)]
      BY <3>1
    <3>3. ASSUME NEW p \in Places(n) PROVE ~Ran(n, p[1], p[2])
      <4>1. p[1] \in Nat \ {0} /\ p[2] \in Nat \ {0}
        BY <1>1, PlaceNumbers
      <4> QED BY <2>1, <4>1 DEF Ran
    <3> HIDE DEF order
    <3>4. Collects(n, order)
      BY <3>1, <3>2, <3>3 DEF Collects
    <3> QED BY <3>4 DEF Collected
  <2>3. DefaultsSound(n)
    <3>1. cfg[n].dialOpts \in Seq(DialOpts)
      BY <2>1
    <3>2. \A f \in DialFields : Settled(f, cfg[n].dialOpts, 1, NoDialCfg[f], NoDialCfg[f])
      BY <3>1, SettledNone
    <3> QED BY <2>1, <3>2 DEF DefaultsSound
  <2> QED BY <2>1, <2>2, <2>3 DEF FlagsGiven
<1>5. \A d \in Dials : DialSound(d)
  BY DEF Init, DialSound
<1> QED BY <1>3, <1>4, <1>5 DEF DInv

\* A step of a NewDialer call leaves the others and the Dials as they are: its
\* own Dialer is not there yet.
LEMMA OthersKeepDials ==
    ASSUME DInv, NEW n \in Creates, pc[n] # "created",
           UNCHANGED <<opts, dialer, own, dialCfg>>,
           \A m \in Creates : m # n =>
               /\ pc'[m] = pc[m] /\ at'[m] = at[m] /\ cfg'[m] = cfg[m]
               /\ defaults'[m] = defaults[m] /\ dat'[m] = dat[m],
           \A d \in Dials : dat'[d] = dat[d],
           DialTypes', Collected(n)', FlagsGiven(n)', DefaultsSound(n)'
    PROVE  DInv'
<1>1. ASSUME NEW m \in Creates, m # n
      PROVE  Collected(m)' /\ FlagsGiven(m)' /\ DefaultsSound(m)'
  <2>1. Collected(m) /\ FlagsGiven(m) /\ DefaultsSound(m)
    BY DEF DInv
  <2>2. /\ pc'[m] = pc[m] /\ at'[m] = at[m] /\ cfg'[m] = cfg[m] /\ opts' = opts
        /\ defaults'[m] = defaults[m] /\ dat'[m] = dat[m]
    BY <1>1
  <2>3. Collected(m)'
    <3>1. PICK order : Collects(m, order)
      BY <2>1 DEF Collected
    <3>2. Collects(m, order)'
      BY <2>2, <3>1 DEF Collects, Places, DialOptAt, Ran
    <3> QED BY <3>2 DEF Collected
  <2>4. FlagsGiven(m)'
    BY <2>1, <2>2 DEF FlagsGiven, GivenOptions
  <2>5. DefaultsSound(m)'
    BY <2>1, <2>2 DEF DefaultsSound, Settled
  <2> QED BY <2>3, <2>4, <2>5
<1>2. ASSUME NEW d \in Dials PROVE DialSound(d)'
  <2>1. DialSound(d) /\ dialer[d] \in Creates \cup {NoDialer}
    BY DEF DInv, DialTypes
  <2>2. dat'[d] = dat[d] /\ dialer' = dialer /\ own' = own /\ dialCfg' = dialCfg
    OBVIOUS
  <2>3. CASE dialer[d] = NoDialer
    BY <2>1, <2>2, <2>3 DEF DialSound
  <2>4. CASE dialer[d] # NoDialer
    <3>1. dialer[d] \in Creates /\ dialer[d] # n
      BY <2>1, <2>4 DEF DialSound
    <3>2. pc'[dialer[d]] = pc[dialer[d]] /\ defaults'[dialer[d]] = defaults[dialer[d]]
      BY <3>1
    <3> QED BY <2>1, <2>2, <2>4, <3>2 DEF DialSound, Settled
  <2> QED BY <2>3, <2>4
<1> QED BY <1>1, <1>2 DEF DInv

\* One list after another.
LEMMA ConcatenationOf ==
    ASSUME NEW S, NEW x \in Seq(S), NEW y \in Seq(S)
    PROVE  /\ Len(x) \in Nat /\ DOMAIN x = 1 .. Len(x)
           /\ Len(y) \in Nat /\ DOMAIN y = 1 .. Len(y)
           /\ DOMAIN (x \o y) = 1 .. (Len(x) + Len(y))
           /\ \A k \in 1 .. Len(x) : (x \o y)[k] = x[k]
           /\ \A k \in DOMAIN (x \o y) :
                 k > Len(x) => k - Len(x) \in DOMAIN y /\ (x \o y)[k] = y[k - Len(x)]
  OBVIOUS

\* An option of a group runs.
LEMMA ApplyOptionKeepsDials ==
    ASSUME IInv, IInv', DInv, NEW n \in Creates, ApplyOption(n)
    PROVE  DInv'
<1> DEFINE i == at[n][1]
           j == at[n][2]
           group == opts[n][i]
           o == group[j]
           old == cfg[n].dialOpts
           new == cfg'[n].dialOpts
<1>1. /\ pc[n] = "options" /\ i <= Len(opts[n])
      /\ UNCHANGED <<opts, registered, defaults, dat, dialer, own, dialCfg>>
      /\ \A m \in Creates : m # n => pc'[m] = pc[m] /\ at'[m] = at[m] /\ cfg'[m] = cfg[m]
      /\ cfg'[n] = IF group = <<>> THEN cfg[n] ELSE apply(cfg[n], o)
  BY DEF ApplyOption, dialVars, IInv, Types
<1>2. Collected(n) /\ FlagsGiven(n) /\ DefaultsSound(n) /\ InGroup(n)
  BY DEF DInv, IInv, CallSound
<1>3. /\ i \in Nat \ {0} /\ j \in Nat \ {0} /\ cfg[n] \in Config /\ cfg'[n] \in Config
      /\ opts[n] \in Seq(Groups) /\ old \in Seq(DialOpts) /\ new \in Seq(DialOpts)
  BY DEF IInv, Types, Position, Config
<1>4. i \in DOMAIN opts[n] /\ group \in Seq(Options)
  <2>1. i \in DOMAIN opts[n]
    BY <1>1, <1>3
  <2>2. group \in Groups
    BY <2>1, <1>3, ElementOf
  <2> QED BY <2>1, <2>2, GroupsAssumption
<1>5. group = <<>> \/ j \in DOMAIN group
  BY <1>2, <1>3, <1>4 DEF InGroup
<1>6. DialTypes'
  BY <1>1 DEF DInv, DialTypes
<1>7. DefaultsSound(n)'
  <2>1. dat[n] = 1
    BY <1>1, <1>2 DEF DefaultsSound
  <2>2. \A f \in DialFields : defaults[n][f] = NoDialCfg[f]
    BY <1>2, <1>3, <2>1, SettledNone DEF DefaultsSound
  <2>3. \A f \in DialFields : Settled(f, new, 1, NoDialCfg[f], defaults[n][f])
    BY <1>3, <2>2, SettledNone
  <2>4. pc'[n] \in {"options", "failed"}
    BY DEF ApplyOption, IInv, Types
  <2> QED BY <1>1, <2>1, <2>3, <2>4 DEF DefaultsSound, Settled
<1>8. PICK order : Collects(n, order)
  BY <1>2 DEF Collected
<1>9. Places(n)' = Places(n) /\ \A p : DialOptAt(n, p)' = DialOptAt(n, p)
  BY <1>1 DEF Places, DialOptAt
<1>10. ASSUME NEW p \in Places(n)
       PROVE  /\ Ran(n, p[1], p[2])' <=> Ran(n, p[1], p[2]) \/ (p[1] = i /\ p[2] = j)
              /\ ~(Ran(n, p[1], p[2]) /\ p[1] = i /\ p[2] = j)
  <2>1. p[1] \in DOMAIN opts[n] /\ p[2] \in DOMAIN opts[n][p[1]] /\ p[1] \in Nat /\ p[2] \in Nat
    BY PlaceNumbers
  <2>2. Ran(n, p[1], p[2])' <=> Ran(n, p[1], p[2]) \/ (p[1] = i /\ p[2] = j)
    BY <2>1, RanNext
  <2> QED BY <1>3, <2>1, <2>2 DEF Ran
<1>11. CASE group # <<>> /\ o.does = "dial"
  <2>1. o \in Options /\ o.opts \in Seq(DialOpts) /\ new = old \o o.opts
        /\ cfg'[n].flags = cfg[n].flags
    <3>1. o \in Options
      BY <1>4, <1>5, <1>11, ElementOf
    <3>2. o.opts \in Seq(DialOpts)
      BY <1>11, <3>1 DEF Options
    <3>3. cfg'[n] = [cfg[n] EXCEPT !.dialOpts = cfg[n].dialOpts \o o.opts]
      BY <1>1, <1>11 DEF apply, WithDefaultDialOptions
    <3> QED BY <1>3, <3>1, <3>2, <3>3 DEF Config
  <2> DEFINE L == Len(old)
  <2>2. /\ L \in Nat /\ DOMAIN old = 1 .. L /\ DOMAIN new = 1 .. (L + Len(o.opts))
        /\ DOMAIN o.opts = 1 .. Len(o.opts) /\ Len(o.opts) \in Nat
        /\ \A k \in 1 .. L : new[k] = old[k]
        /\ \A k \in DOMAIN new : k > L => k - L \in DOMAIN o.opts /\ new[k] = o.opts[k - L]
    <3> HIDE DEF i, j, group, o, old, new
    <3>1. old \in Seq(DialOpts) /\ o.opts \in Seq(DialOpts) /\ new = old \o o.opts
      BY <1>3, <2>1
    <3> QED BY <3>1, ConcatenationOf
  <2>3. ASSUME NEW k \in DOMAIN o.opts
        PROVE  <<i, j, k>> \in Places(n) /\ DialOptAt(n, <<i, j, k>>) = o.opts[k]
    BY <1>4, <1>5, <1>11, PlaceOf DEF DialOptAt
  <2> HIDE DEF i, j, group, o, old, new, L
  <2>4. /\ order \in [DOMAIN old -> Places(n)]
        /\ \A k \in DOMAIN old : old[k] = DialOptAt(n, order[k]) /\ Ran(n, order[k][1], order[k][2])
        /\ \A k, l \in DOMAIN old : k < l => Before(order[k], order[l])
        /\ \A p \in Places(n) : Ran(n, p[1], p[2]) => \E k \in DOMAIN old : order[k] = p
    BY <1>8 DEF Collects, old
  <2> PICK rank : rank = [k \in DOMAIN new |-> IF k <= L THEN order[k] ELSE <<i, j, k - L>>]
    OBVIOUS
  <2>5. ASSUME NEW k \in DOMAIN new
        PROVE  /\ rank[k] \in Places(n) /\ new[k] = DialOptAt(n, rank[k])
               /\ Ran(n, rank[k][1], rank[k][2])'
    <3>1. CASE k <= L
      <4>1. k \in DOMAIN old /\ rank[k] = order[k] /\ new[k] = old[k]
        BY <2>2, <3>1
      <4>2. order[k] \in Places(n) /\ Ran(n, order[k][1], order[k][2])
        BY <2>4, <4>1
      <4>3. Ran(n, order[k][1], order[k][2])'
        BY <1>10, <4>2
      <4> QED BY <2>4, <4>1, <4>2, <4>3
    <3>2. CASE ~(k <= L)
      <4>1. k - L \in DOMAIN o.opts /\ rank[k] = <<i, j, k - L>> /\ new[k] = o.opts[k - L]
        BY <2>2, <3>2
      <4>2. rank[k] \in Places(n) /\ DialOptAt(n, rank[k]) = new[k]
        BY <2>3, <4>1
      <4>3. rank[k][1] = i /\ rank[k][2] = j
        BY <4>1
      <4>4. Ran(n, rank[k][1], rank[k][2])'
        BY <1>10, <4>2, <4>3
      <4> QED BY <4>2, <4>4
    <3> QED BY <3>1, <3>2
  <2>6. ASSUME NEW k \in DOMAIN new, NEW l \in DOMAIN new, k < l
        PROVE  Before(rank[k], rank[l])
    <3>1. CASE l <= L
      <4>1. k \in DOMAIN old /\ l \in DOMAIN old /\ rank[k] = order[k] /\ rank[l] = order[l]
        BY <2>2, <2>6, <3>1
      <4> QED BY <2>4, <2>6, <4>1
    <3>2. CASE k <= L /\ ~(l <= L)
      <4>1. k \in DOMAIN old /\ rank[k] = order[k] /\ rank[l] = <<i, j, l - L>>
        BY <2>2, <3>2
      <4>2. order[k] \in Places(n) /\ Ran(n, order[k][1], order[k][2])
        BY <2>4, <4>1
      <4>3. order[k][1] < i \/ (order[k][1] = i /\ order[k][2] < j)
        BY <4>2 DEF Ran, i, j
      <4> QED BY <4>1, <4>3 DEF Before
    <3>3. CASE ~(k <= L)
      <4>1. rank[k] = <<i, j, k - L>> /\ rank[l] = <<i, j, l - L>> /\ k - L < l - L
        BY <2>2, <2>6, <3>3
      <4> QED BY <4>1 DEF Before
    <3> QED BY <2>2, <2>6, <3>1, <3>2, <3>3
  <2>7. ASSUME NEW p \in Places(n), Ran(n, p[1], p[2])'
        PROVE  \E k \in DOMAIN new : rank[k] = p
    <3>1. CASE Ran(n, p[1], p[2])
      <4>1. PICK k \in DOMAIN old : order[k] = p
        BY <2>4, <3>1
      <4>2. k \in DOMAIN new /\ rank[k] = p
        BY <2>2, <4>1
      <4> QED BY <4>2
    <3>2. CASE p[1] = i /\ p[2] = j
      <4>1. p = <<i, j, p[3]>> /\ p[3] \in DOMAIN opts[n][i][j].opts
        BY <3>2, PlaceNumbers
      <4>2. PICK k \in DOMAIN o.opts : p = <<i, j, k>>
        BY <4>1 DEF o, group
      <4>3. PICK l \in DOMAIN new : l = L + k /\ ~(l <= L) /\ l - L = k
        BY <2>2
      <4>4. rank[l] = <<i, j, l - L>>
        BY <4>3
      <4> QED BY <4>2, <4>3, <4>4
    <3> QED BY <1>10, <2>7, <3>1, <3>2
  <2>8. rank \in [DOMAIN new -> Places(n)]
    BY <2>5
  <2>9. Collects(n, rank)'
    BY <1>9, <2>5, <2>6, <2>7, <2>8 DEF Collects, new
  <2>10. Collected(n)'
    BY <2>9 DEF Collected
  <2>11. FlagsGiven(n)'
    BY <1>1, <1>2, <2>1 DEF FlagsGiven, GivenOptions
  <2> QED BY <1>1, <1>6, <1>7, <2>10, <2>11, OthersKeepDials
<1>12. CASE ~(group # <<>> /\ o.does = "dial")
  <2>1. new = old /\ FlagsGiven(n)'
    <3>1. GivenOptions(n)' = GivenOptions(n)
      BY <1>1 DEF GivenOptions
    <3>2. CASE group = <<>>
      BY <1>1, <1>2, <3>1, <3>2 DEF FlagsGiven
    <3>3. CASE group # <<>> /\ o.does # "dial"
      <4>1. o \in Options /\ cfg'[n] = apply(cfg[n], o)
        BY <1>1, <1>4, <1>5, <3>3, ElementOf
      <4>2. o \in GivenOptions(n)
        BY <1>4, <1>5, <3>3 DEF GivenOptions, ToSet
      <4>3. CASE o.does = "set"
        <5>1. cfg'[n] = [cfg[n] EXCEPT !.flags = @ \cup {o.flag}]
          BY <4>1, <4>3 DEF apply, assign
        <5>2. new = old /\ cfg'[n].flags = cfg[n].flags \cup {o.flag}
          BY <1>3, <5>1 DEF Config
        <5> HIDE DEF o
        <5> QED BY <1>2, <3>1, <4>2, <4>3, <5>2 DEF FlagsGiven
      <4>4. CASE o.does = "creds"
        <5>1. cfg'[n] = WithCredentials(cfg[n], o)
          BY <4>1, <4>4 DEF apply
        <5>2. new = old /\ cfg'[n].flags = cfg[n].flags
          BY <1>3, <5>1 DEF Config, WithCredentials
        <5> QED BY <1>2, <3>1, <5>2 DEF FlagsGiven
      <4> QED BY <3>3, <4>1, <4>3, <4>4 DEF Options
    <3> QED BY <1>12, <3>2, <3>3
  <2>2. ASSUME NEW p \in Places(n)
        PROVE  Ran(n, p[1], p[2])' <=> Ran(n, p[1], p[2])
    <3>1. ~(p[1] = i /\ p[2] = j)
      <4> SUFFICES ASSUME p[1] = i, p[2] = j PROVE FALSE
        OBVIOUS
      <4>1. j \in DOMAIN group /\ o.does = "dial"
        BY PlaceNumbers
      <4> QED BY <1>12, <4>1
    <3> QED BY <1>10, <3>1
  <2> HIDE DEF i, j, group, o
  <2>3. Collects(n, order)'
    <3>1. /\ order \in [DOMAIN old -> Places(n)]
          /\ \A k \in DOMAIN old :
                old[k] = DialOptAt(n, order[k]) /\ Ran(n, order[k][1], order[k][2])
          /\ \A k, l \in DOMAIN old : k < l => Before(order[k], order[l])
          /\ \A p \in Places(n) : Ran(n, p[1], p[2]) => \E k \in DOMAIN old : order[k] = p
      BY <1>8 DEF Collects
    <3>2. \A k \in DOMAIN old : order[k] \in Places(n)
      BY <3>1
    <3> HIDE DEF old
    <3>3. \A k \in DOMAIN old : Ran(n, order[k][1], order[k][2])'
      BY <2>2, <3>1, <3>2
    <3>4. \A p \in Places(n) : Ran(n, p[1], p[2])' => \E k \in DOMAIN old : order[k] = p
      BY <2>2, <3>1
    <3> QED BY <1>9, <2>1, <3>1, <3>3, <3>4 DEF Collects
  <2>4. Collected(n)'
    BY <2>3 DEF Collected
  <2> QED BY <1>1, <1>6, <1>7, <2>1, <2>4, OthersKeepDials
<1> QED BY <1>11, <1>12

\* A step of a NewDialer call that is past the groups of its options, or at
\* their end: the dialerConfig keeps its DialOptions and flags.
LEMMA LaterKeepsDials ==
    ASSUME IInv, IInv', DInv, NEW n \in Creates, pc[n] # "created",
           UNCHANGED <<opts, at, dialer, own, dialCfg>>,
           \A m \in Creates : m # n =>
               /\ pc'[m] = pc[m] /\ cfg'[m] = cfg[m]
               /\ defaults'[m] = defaults[m] /\ dat'[m] = dat[m],
           \A d \in Dials : dat'[d] = dat[d],
           cfg'[n].dialOpts = cfg[n].dialOpts, cfg'[n].flags = cfg[n].flags,
           DialTypes', DefaultsSound(n)'
    PROVE  DInv'
<1>1. Collected(n) /\ FlagsGiven(n)
  BY DEF DInv
<1>2. Collected(n)'
  <2>1. PICK order : Collects(n, order)
    BY <1>1 DEF Collected
  <2>2. Collects(n, order)'
    BY <2>1 DEF Collects, Places, DialOptAt, Ran
  <2> QED BY <2>2 DEF Collected
<1>3. FlagsGiven(n)'
  BY <1>1 DEF FlagsGiven, GivenOptions
<1> QED BY <1>2, <1>3, OthersKeepDials

\* The options are checked, the views registered or the key generator made.
LEMMA ChecksKeepDials ==
    ASSUME IInv, IInv', DInv, NEW n \in Creates,
           CheckOptions(n) \/ InitMetrics(n) \/ CreateDialer(n)
    PROVE  DInv'
<1>1. /\ pc[n] \in {"options", "metrics", "key"}
      /\ UNCHANGED <<opts, at, dialer, own, dialCfg, defaults, dat>>
      /\ \A m \in Creates : m # n => pc'[m] = pc[m] /\ cfg'[m] = cfg[m]
  BY DEF CheckOptions, InitMetrics, CreateDialer, dialVars, IInv, Types
<1>2. cfg'[n].dialOpts = cfg[n].dialOpts /\ cfg'[n].flags = cfg[n].flags
  <2>1. cfg[n] \in Config /\ cfg \in [Creates -> Config]
    BY DEF IInv, Types
  <2>2. CASE cfg' = cfg
    BY <2>2
  <2>3. CASE cfg' = [cfg EXCEPT ![n].tokenSource = IF @ = "none" THEN "default" ELSE @]
    BY <2>1, <2>3 DEF Config
  <2> QED BY <2>2, <2>3 DEF CheckOptions, InitMetrics, CreateDialer
<1>3. pc'[n] # "options" /\ (pc'[n] \in {"metrics", "key", "created"} => pc[n] \in {"metrics", "key"})
  BY DEF CheckOptions, InitMetrics, CreateDialer, IInv, Types
<1>4. DefaultsSound(n)
  BY DEF DInv
<1>5. DefaultsSound(n)'
  BY <1>1, <1>2, <1>3, <1>4 DEF DefaultsSound, Settled
<1>6. DialTypes'
  BY <1>1 DEF DInv, DialTypes
<1> QED BY <1>1, <1>2, <1>5, <1>6, LaterKeepsDials

\* A default DialOption runs, or they all have.
LEMMA SetDefaultsKeepsDials ==
    ASSUME IInv, IInv', DInv, NEW n \in Creates, SetDefaults(n)
    PROVE  DInv'
<1>1. pc[n] = "defaults" /\ UNCHANGED <<opts, at, cfg, dialer, own, dialCfg>>
  BY DEF SetDefaults, dialVars
<1>2. DefaultsSound(n) /\ DialTypes
  BY DEF DInv
<1>3. cfg[n].dialOpts \in Seq(DialOpts) /\ pc \in [Creates -> Points]
  BY DEF IInv, Types, Config
<1>4. n \in Creates \cup Dials /\ \A d \in Dials : d # n
  BY CallsAssumption
<1>5. dat[n] \in Nat \ {0} /\ defaults[n] \in DialCfgs
  BY <1>2, <1>4 DEF DialTypes
<1>6. CASE dat[n] <= Len(cfg[n].dialOpts)
  <2> DEFINE a == dat[n]
             c == applyDial(defaults[n], cfg[n].dialOpts[a])
  <2>1. defaults' = [defaults EXCEPT ![n] = c] /\ dat' = [dat EXCEPT ![n] = a + 1] /\ pc' = pc
    BY <1>6 DEF SetDefaults
  <2>2. a \in DOMAIN cfg[n].dialOpts
    BY <1>3, <1>5, <1>6
  <2>3. \A f \in DialFields : Settled(f, cfg[n].dialOpts, a, NoDialCfg[f], defaults[n][f])
    BY <1>2 DEF DefaultsSound
  <2>4. ASSUME NEW f \in DialFields
        PROVE  c \in DialCfgs /\ Settled(f, cfg[n].dialOpts, a + 1, NoDialCfg[f], c[f])
    BY <1>3, <1>5, <2>2, <2>3, SettledStep
  <2>5. c \in DialCfgs
    BY <2>4 DEF DialFields
  <2> HIDE DEF a, c
  <2>6. a + 1 \in Nat \ {0}
    BY <1>5 DEF a
  <2>7. /\ DialTypes' /\ defaults'[n] = c /\ dat'[n] = a + 1
        /\ \A m \in Creates : m # n => defaults'[m] = defaults[m] /\ dat'[m] = dat[m]
        /\ \A d \in Dials : dat'[d] = dat[d]
    BY <1>1, <1>2, <1>4, <2>1, <2>5, <2>6 DEF DialTypes
  <2>8. DefaultsSound(n)'
    BY <1>1, <2>1, <2>4, <2>7 DEF DefaultsSound, Settled
  <2> QED BY <1>1, <2>1, <2>7, <2>8, LaterKeepsDials
<1>7. CASE ~(dat[n] <= Len(cfg[n].dialOpts))
  <2>1. pc' = [pc EXCEPT ![n] = "metrics"] /\ UNCHANGED <<defaults, dat>>
    BY <1>7 DEF SetDefaults
  <2>2. pc'[n] = "metrics" /\ \A m \in Creates : m # n => pc'[m] = pc[m]
    BY <1>3, <2>1
  <2>3. dat[n] > Len(cfg[n].dialOpts)
    BY <1>3, <1>5, <1>7
  <2>4. DefaultsSound(n)'
    BY <1>1, <1>2, <2>1, <2>2, <2>3 DEF DefaultsSound, Settled
  <2>5. DialTypes'
    BY <1>1, <1>2, <2>1 DEF DialTypes
  <2> QED BY <1>1, <2>1, <2>2, <2>4, <2>5, LaterKeepsDials
<1> QED BY <1>6, <1>7

\* What is known of a NewDialer call depends on nothing a Dial changes.
LEMMA CallKept ==
    ASSUME DInv, UNCHANGED newVars, NEW n \in Creates, dat'[n] = dat[n]
    PROVE  Collected(n)' /\ FlagsGiven(n)' /\ DefaultsSound(n)'
<1>1. UNCHANGED <<pc, opts, at, cfg, defaults>>
  BY DEF newVars
<1>2. Collected(n) /\ FlagsGiven(n) /\ DefaultsSound(n)
  BY DEF DInv
<1>3. PICK order : Collects(n, order)
  BY <1>2 DEF Collected
<1>4. Collects(n, order)'
  BY <1>1, <1>3 DEF Collects, Places, DialOptAt, Ran
<1>5. FlagsGiven(n)'
  BY <1>1, <1>2 DEF FlagsGiven, GivenOptions
<1>6. DefaultsSound(n)'
  BY <1>1, <1>2 DEF DefaultsSound, Settled
<1> QED BY <1>4, <1>5, <1>6 DEF Collected

\* A step of a Dial leaves the NewDialer calls and the other Dials as they are.
LEMMA OtherDialsKept ==
    ASSUME DInv, NEW d \in Dials, UNCHANGED newVars, DialTypes', DialSound(d)',
           \A n \in Creates : dat'[n] = dat[n],
           \A e \in Dials : e # d =>
               dialer'[e] = dialer[e] /\ own'[e] = own[e] /\ dat'[e] = dat[e] /\ dialCfg'[e] = dialCfg[e]
    PROVE  DInv'
<1>1. UNCHANGED <<pc, defaults>>
  BY DEF newVars
<1>2. ASSUME NEW e \in Dials, e # d PROVE DialSound(e)'
  <2>1. DialSound(e)
    BY DEF DInv
  <2>2. dialer'[e] = dialer[e] /\ own'[e] = own[e] /\ dat'[e] = dat[e] /\ dialCfg'[e] = dialCfg[e]
    BY <1>2
  <2> QED BY <1>1, <2>1, <2>2 DEF DialSound, Settled
<1> QED BY <1>2, CallKept DEF DInv

LEMMA StartDialKeepsDials ==
    ASSUME IInv, DInv, NEW n \in Creates, NEW d \in Dials, StartDial(n, d)
    PROVE  DInv'
<1>1. PICK s \in BoundedSeq(DialOpts, MaxDialOpts) : own' = [own EXCEPT ![d] = s]
  BY DEF StartDial
<1>2. /\ pc[n] = "created" /\ dialer[d] = NoDialer /\ UNCHANGED <<newVars, dat>>
      /\ dialer' = [dialer EXCEPT ![d] = n] /\ dialCfg' = [dialCfg EXCEPT ![d] = defaults[n]]
  BY DEF StartDial
<1>3. s \in Seq(DialOpts)
  BY <1>1, BoundedIsSeq, BoundsAssumption
<1>4. DialTypes /\ DialSound(d)
  BY DEF DInv
<1>5. /\ dialer'[d] = n /\ own'[d] = s /\ dialCfg'[d] = defaults[n] /\ dat'[d] = dat[d]
      /\ \A e \in Dials : e # d =>
            dialer'[e] = dialer[e] /\ own'[e] = own[e] /\ dat'[e] = dat[e] /\ dialCfg'[e] = dialCfg[e]
      /\ UNCHANGED <<pc, defaults>>
  BY <1>1, <1>2, <1>4 DEF DialTypes, newVars
<1>6. DialTypes'
  BY <1>1, <1>2, <1>3, <1>4 DEF DialTypes, newVars
<1>7. DialSound(d)'
  <2>1. dat[d] = 1 /\ n # NoDialer
    BY <1>2, <1>4, NoDialerAssumption DEF DialSound
  <2>2. \A f \in DialFields : Settled(f, s, 1, defaults[n][f], defaults[n][f])
    BY <1>3, SettledNone
  <2> QED BY <1>2, <1>5, <2>1, <2>2 DEF DialSound, Settled
<1> QED BY <1>2, <1>5, <1>6, <1>7, OtherDialsKept

LEMMA ApplyDialOptionKeepsDials ==
    ASSUME IInv, DInv, NEW d \in Dials, ApplyDialOption(d)
    PROVE  DInv'
<1> DEFINE a == dat[d]
           c == applyDial(dialCfg[d], own[d][a])
<1>1. /\ a <= Len(own[d]) /\ dialCfg' = [dialCfg EXCEPT ![d] = c] /\ dat' = [dat EXCEPT ![d] = a + 1]
      /\ UNCHANGED <<newVars, dialer, own>>
  BY DEF ApplyDialOption
<1>2. DialTypes /\ DialSound(d)
  BY DEF DInv
<1>3. /\ a \in Nat \ {0} /\ own[d] \in Seq(DialOpts) /\ dialCfg[d] \in DialCfgs
      /\ \A n \in Creates : n # d
  BY <1>2, CallsAssumption DEF DialTypes
<1>4. a \in DOMAIN own[d]
  BY <1>1, <1>3
<1>5. dialer[d] # NoDialer
  BY <1>2, <1>4 DEF DialSound
<1>6. ASSUME NEW f \in DialFields
      PROVE  c \in DialCfgs /\ Settled(f, own[d], a + 1, defaults[dialer[d]][f], c[f])
  <2>1. Settled(f, own[d], a, defaults[dialer[d]][f], dialCfg[d][f])
    BY <1>2, <1>5 DEF DialSound
  <2> QED BY <1>3, <1>4, <2>1, SettledStep
<1>7. c \in DialCfgs /\ a + 1 \in Nat \ {0}
  BY <1>3, <1>6 DEF DialFields
<1> HIDE DEF a, c
<1>8. /\ DialTypes' /\ dialCfg'[d] = c /\ dat'[d] = a + 1
      /\ \A n \in Creates : dat'[n] = dat[n]
      /\ \A e \in Dials : e # d => dat'[e] = dat[e] /\ dialCfg'[e] = dialCfg[e]
      /\ UNCHANGED <<pc, defaults>>
  BY <1>1, <1>2, <1>3, <1>7 DEF DialTypes, newVars
<1>9. DialSound(d)'
  BY <1>1, <1>2, <1>5, <1>6, <1>8 DEF DialSound, Settled
<1> QED BY <1>1, <1>8, <1>9, OtherDialsKept

LEMMA NextDInv == IInv /\ IInv' /\ DInv /\ [Next]_vars => DInv'
<1> SUFFICES ASSUME IInv, IInv', DInv, [Next]_vars PROVE DInv'
  OBVIOUS
<1>1. ASSUME UNCHANGED vars PROVE DInv'
  <2>1. UNCHANGED <<newVars, dialer, own, dat, dialCfg, pc, defaults>>
    BY <1>1 DEF vars, newVars
  <2>2. DialTypes'
    BY <2>1 DEF newVars, DInv, DialTypes
  <2>3. \A n \in Creates : Collected(n)' /\ FlagsGiven(n)' /\ DefaultsSound(n)'
    BY <2>1, CallKept
  <2>4. \A d \in Dials : DialSound(d)'
    BY <2>1 DEF DInv, DialSound, Settled
  <2> QED BY <2>2, <2>3, <2>4 DEF DInv
<1> QED BY <1>1, ApplyOptionKeepsDials, ChecksKeepDials, SetDefaultsKeepsDials, StartDialKeepsDials,
     ApplyDialOptionKeepsDials DEF Next

LEMMA DialInvariance == Spec => [](IInv /\ DInv)
<1>1. Init => IInv /\ DInv
  BY InitIInv, InitDInv
<1>2. IInv /\ DInv /\ [Next]_vars => (IInv /\ DInv)'
  BY NextIInv, NextDInv
<1> QED BY <1>1, <1>2, PTL DEF Spec

-----------------------------------------------------------------------------
(* The results                                                             *)

\* Every option given shows in the configuration of a Dialer.
LEMMA AllShown ==
    ASSUME IInv, NEW n \in Creates, pc[n] = "created", NEW o \in GivenOptions(n)
    PROVE  o \in Options /\ Shows(cfg[n], o) /\ ~cfg[n].err
<1>1. CallSound(n) /\ opts[n] \in Seq(Groups) /\ at[n] \in Position
  BY DEF IInv, Types
<1>2. at[n][1] > Len(opts[n])
  BY <1>1 DEF CallSound, Checked
<1>3. ~cfg[n].err
  BY <1>1, <1>2 DEF CallSound, InGroup, ErrorSeen, Position
<1>4. PICK i \in DOMAIN opts[n] : \E j \in DOMAIN opts[n][i] : o = opts[n][i][j]
  BY DEF GivenOptions, ToSet
<1>5. PICK j \in DOMAIN opts[n][i] : o = opts[n][i][j]
  BY <1>4
<1>6. Ran(n, i, j)
  BY <1>1, <1>2 DEF Ran, Position
<1>7. opts[n][i] \in Seq(Options)
  BY <1>1, ElementOf, GroupsAssumption
<1> QED BY <1>1, <1>3, <1>5, <1>6, <1>7, ElementOf DEF CallSound, Applied

\* A field of the configuration of a Dialer is assigned exactly if an option for
\* it was given.
LEMMA FlagIffGiven ==
    ASSUME IInv, DInv, NEW n \in Creates, pc[n] = "created", NEW x \in Flags
    PROVE  x \in cfg[n].flags <=> [does |-> "set", flag |-> x] \in GivenOptions(n)
<1>1. ASSUME x \in cfg[n].flags
      PROVE  [does |-> "set", flag |-> x] \in GivenOptions(n)
  <2>1. PICK o \in GivenOptions(n) : o.does = "set" /\ o.flag = x
    BY <1>1 DEF DInv, FlagsGiven
  <2>2. o = [does |-> "set", flag |-> x]
    BY <2>1, AllShown DEF Options
  <2> QED BY <2>1, <2>2
<1>2. ASSUME [does |-> "set", flag |-> x] \in GivenOptions(n)
      PROVE  x \in cfg[n].flags
  BY <1>2, AllShown DEF Shows
<1> QED BY <1>1, <1>2

\* A Dialer is made of options that all succeeded and fit together, however
\* they were ordered and grouped.
THEOREM CreatedIsUsable == Spec => []CreatedMeansUsable
<1>1. IInv => CreatedMeansUsable
  <2> SUFFICES ASSUME IInv, NEW n \in Creates, pc[n] = "created"
               PROVE  /\ \A o \in GivenOptions(n) : o.does = "creds" => o.valid
                      /\ ~{"iam", "optOut"} \subseteq
                            {o.flag : o \in {x \in GivenOptions(n) : x.does = "set"}}
    BY DEF CreatedMeansUsable
  <2>1. Compatible(cfg[n])
    BY DEF IInv, CallSound, Checked
  <2>2. ASSUME NEW o \in GivenOptions(n), o.does = "creds"
        PROVE  o.valid
    BY <2>2, AllShown DEF Shows
  <2>3. {o.flag : o \in {x \in GivenOptions(n) : x.does = "set"}} \subseteq cfg[n].flags
    BY AllShown DEF Shows
  <2> QED BY <2>1, <2>2, <2>3 DEF Compatible
<1> QED BY <1>1, Invariance, PTL

\* The metadata exchange speaks for the identity the client gave last, however
\* the options were ordered and grouped, or for the default one; the Admin API
\* client speaks for the same, unless it was given an HTTP client.
THEOREM IdentitiesAreGiven == Spec => []IdentityAsGiven
<1>1. ASSUME IInv, DInv, NEW n \in Creates, pc[n] = "created"
      PROVE  IdentityGiven(n, cfg[n].tokenSource)
  <2>1. opts[n] \in Seq(Groups) /\ at[n] \in Position
    BY <1>1 DEF IInv, Types
  <2>2. SourceIs(n, "default") /\ at[n][1] > Len(opts[n])
    BY <1>1 DEF IInv, CallSound, SourceSound, Checked
  <2>3. ASSUME NEW i \in DOMAIN opts[n], NEW j \in DOMAIN opts[n][i]
        PROVE  Brought(n, i, j) <=> BringsCreds(n, i, j)
    <3>1. Ran(n, i, j)
      BY <2>1, <2>2 DEF Ran, Position
    <3>2. opts[n][i][j] \in GivenOptions(n)
      BY DEF GivenOptions, ToSet
    <3>3. opts[n][i][j].does = "creds" => opts[n][i][j].valid
      BY <1>1, <3>2, AllShown DEF Shows
    <3> QED BY <3>1, <3>3 DEF Brought, BringsCreds
  <2> QED BY <2>2, <2>3 DEF SourceIs, IdentityGiven
<1>2. ASSUME IInv, DInv, NEW n \in Creates, pc[n] = "created"
      PROVE  adminIdentity(cfg[n]) =
                IF [does |-> "set", flag |-> "httpClient"] \in GivenOptions(n) THEN "httpClient"
                ELSE cfg[n].tokenSource
  <2>1. "httpClient" \in cfg[n].flags <=> [does |-> "set", flag |-> "httpClient"] \in GivenOptions(n)
    BY <1>2, FlagIffGiven DEF Flags
  <2>2. Identity(cfg[n], "default")
    BY <1>2 DEF IInv, CallSound, IdentitySound
  <2> QED BY <2>1, <2>2 DEF adminIdentity, Identity
<1>3. IInv /\ DInv => IdentityAsGiven
  BY <1>1, <1>2 DEF IdentityAsGiven
<1> QED BY <1>3, DialInvariance, PTL

\* When the views could not be registered, no NewDialer call of the process
\* succeeds, then or later.
THEOREM MetricsFailForAll == Spec => []MetricsFailureIsFinal
<1>1. IInv => MetricsFailureIsFinal
  BY DEF IInv, CallSound, MetricsSound, MetricsFailureIsFinal
<1> QED BY <1>1, Invariance, PTL

\* A Dial that has run its DialOptions uses, for each field, its own last one,
\* else the last default one its Dialer was given in whatever Option and group,
\* else the built-in value: for any number of concurrent Dials with any options.
THEOREM DialsKeepApart == Spec => []DialsAreIndependent
<1>1. ASSUME IInv, DInv, NEW n \in Creates, pc[n] = "created", NEW f \in DialFields
      PROVE  \/ defaults[n][f] = NoDialCfg[f] /\ \A b : DefaultIs(n, f, b, b)
             \/ /\ \A b : DefaultIs(n, f, b, defaults[n][f])
                /\ \E o \in DialOpts : o.field = f /\ o.value = defaults[n][f]
  <2> DEFINE all == cfg[n].dialOpts
             v == defaults[n][f]
  <2>1. CallSound(n) /\ opts[n] \in Seq(Groups) /\ at[n] \in Position /\ all \in Seq(DialOpts)
    BY <1>1 DEF IInv, Types, Config
  <2>2. at[n][1] > Len(opts[n])
    BY <1>1, <2>1 DEF CallSound, Checked
  <2>3. dat[n] > Len(all) /\ Settled(f, all, dat[n], NoDialCfg[f], v) /\ dat[n] \in Nat
    BY <1>1 DEF DInv, DialTypes, DefaultsSound
  <2>4. \A k \in DOMAIN all : k < dat[n]
    BY <2>1, <2>3
  <2>5. PICK order : Collects(n, order)
    BY <1>1 DEF DInv, Collected
  <2>6. ASSUME NEW p \in Places(n) PROVE Ran(n, p[1], p[2])
    <3>1. p[1] \in DOMAIN opts[n] /\ p[1] \in Nat
      BY <1>1, PlaceNumbers
    <3> QED BY <2>1, <2>2, <3>1 DEF Ran, Position
  <2>7. /\ order \in [DOMAIN all -> Places(n)]
        /\ \A k \in DOMAIN all : all[k] = DialOptAt(n, order[k])
        /\ \A k, l \in DOMAIN all : k < l => Before(order[k], order[l])
        /\ \A p \in Places(n) : \E k \in DOMAIN all : order[k] = p
    BY <2>5, <2>6 DEF Collects
  <2> HIDE DEF all, v
  <2>8. CASE v = NoDialCfg[f] /\ \A k \in DOMAIN all : k < dat[n] => all[k].field # f
    <3>1. ASSUME NEW p \in Places(n) PROVE DialOptAt(n, p).field # f
      BY <2>4, <2>7, <2>8
    <3> QED BY <2>8, <3>1 DEF DefaultIs, v
  <2>9. ASSUME NEW k \in DOMAIN all, all[k].field = f, v = all[k].value,
               \A l \in DOMAIN all : l < dat[n] /\ all[l].field = f => l <= k
        PROVE  /\ \A b : DefaultIs(n, f, b, v)
               /\ \E o \in DialOpts : o.field = f /\ o.value = v
    <3>1. order[k] \in Places(n) /\ DialOptAt(n, order[k]).field = f /\ v = DialOptAt(n, order[k]).value
      BY <2>7, <2>9
    <3>2. ASSUME NEW q \in Places(n), DialOptAt(n, q).field = f, q # order[k]
          PROVE  Before(q, order[k])
      <4>1. PICK l \in DOMAIN all : order[l] = q
        BY <2>7
      <4>2. l <= k /\ l # k
        BY <2>4, <2>7, <2>9, <3>2, <4>1
      <4>3. l < k
        BY <2>1, <4>2 DEF all
      <4> QED BY <2>7, <4>1, <4>3
    <3>3. all[k] \in DialOpts
      BY <2>1, ElementOf
    <3>4. ASSUME NEW b PROVE DefaultIs(n, f, b, v)
      BY <3>1, <3>2 DEF DefaultIs
    <3> QED BY <2>9, <3>3, <3>4
  <2> QED BY <2>3, <2>8, <2>9 DEF Settled, v
<1>2. IInv /\ DInv => DialsAreIndependent
  <2> SUFFICES ASSUME IInv, DInv, NEW d \in Dials, dialer[d] # NoDialer, dat[d] > Len(own[d])
               PROVE  /\ \A f \in DialFields : Wanted(d, f, NoDialCfg[f], dialCfg[d][f])
                      /\ LET given == [does |-> "set", flag |-> "dialFunc"] \in GivenOptions(dialer[d])
                         IN  Wanted(d, "dialFunc", IF given THEN "client's" ELSE "proxy.Dial", dialFunc(d))
    BY DEF DialsAreIndependent
  <2>1. PICK n \in Creates : dialer[d] = n
    BY DEF DInv, DialTypes
  <2>2. DialSound(d) /\ own[d] \in Seq(DialOpts) /\ dat[d] \in Nat
    BY DEF DInv, DialTypes
  <2>3. pc[n] = "created"
    BY <2>1, <2>2 DEF DialSound
  <2>4. \A k \in DOMAIN own[d] : k < dat[d]
    BY <2>2
  <2>5. ASSUME NEW f \in DialFields
        PROVE  \/ dialCfg[d][f] = NoDialCfg[f] /\ \A b : Wanted(d, f, b, b)
               \/ /\ \A b : Wanted(d, f, b, dialCfg[d][f])
                  /\ \E o \in DialOpts : o.field = f /\ o.value = dialCfg[d][f]
    <3>1. Settled(f, own[d], dat[d], defaults[n][f], dialCfg[d][f])
      BY <2>1, <2>2 DEF DialSound
    <3>2. CASE dialCfg[d][f] = defaults[n][f] /\ \A k \in DOMAIN own[d] : own[d][k].field # f
      <4>1. ASSUME NEW b, NEW v, DefaultIs(n, f, b, v) PROVE Wanted(d, f, b, v)
        BY <2>1, <3>2, <4>1 DEF Wanted
      <4>2. CASE defaults[n][f] = NoDialCfg[f] /\ \A b : DefaultIs(n, f, b, b)
        BY <3>2, <4>1, <4>2
      <4>3. CASE /\ \A b : DefaultIs(n, f, b, defaults[n][f])
                 /\ \E o \in DialOpts : o.field = f /\ o.value = defaults[n][f]
        BY <3>2, <4>1, <4>3
      <4> QED BY <1>1, <2>3, <4>2, <4>3
    <3>3. ASSUME NEW k \in DOMAIN own[d], own[d][k].field = f, dialCfg[d][f] = own[d][k].value,
                 \A l \in DOMAIN own[d] : own[d][l].field = f => l <= k
          PROVE  /\ \A b : Wanted(d, f, b, dialCfg[d][f])
                 /\ \E o \in DialOpts : o.field = f /\ o.value = dialCfg[d][f]
      <4>1. own[d][k] \in DialOpts
        BY <2>2, ElementOf
      <4>2. ASSUME NEW b PROVE Wanted(d, f, b, dialCfg[d][f])
        BY <3>3 DEF Wanted
      <4> QED BY <3>3, <4>1, <4>2
    <3> QED BY <2>4, <3>1, <3>2, <3>3 DEF Settled
  <2>6. \A f \in DialFields : Wanted(d, f, NoDialCfg[f], dialCfg[d][f])
    BY <2>5
  <2>7. "dialFunc" \in cfg[n].flags <=> [does |-> "set", flag |-> "dialFunc"] \in GivenOptions(n)
    BY <2>3, FlagIffGiven DEF Flags
  <2>8. "dialFunc" \in DialFields /\ NoDialCfg["dialFunc"] = "unset"
    BY DEF DialFields, NoDialCfg
  <2> DEFINE fallback == IF [does |-> "set", flag |-> "dialFunc"] \in GivenOptions(n)
                         THEN "client's" ELSE "proxy.Dial"
  <2>9. dialFunc(d) = IF dialCfg[d]["dialFunc"] # "unset" THEN dialCfg[d]["dialFunc"] ELSE fallback
    BY <2>1, <2>7 DEF dialFunc
  <2> HIDE DEF fallback
  <2>10. Wanted(d, "dialFunc", fallback, dialFunc(d))
    BY <2>5, <2>8, <2>9, DialOptsAssumption
  <2> QED BY <2>1, <2>6, <2>10 DEF fallback
<1> QED BY <1>2, DialInvariance, PTL

=============================================================================
