-------------------------- MODULE MCConfiguration --------------------------
(* Configuration for TLC: options that conflict, fail and override.        *)
EXTENDS Configuration, TLC

flag(f) == [does |-> "set", flag |-> f]
creds(i, v) == [does |-> "creds", id |-> i, valid |-> v]
public == [field |-> "ipType", value |-> "PUBLIC"]
psc == [field |-> "ipType", value |-> "PSC"]
oneOff == [field |-> "dialFunc", value |-> "one-off"]

MCGroups ==
    {<<>>, <<flag("iam"), flag("dialFunc")>>, <<flag("optOut"), flag("lazy")>>,
     <<flag("httpClient"), creds("b", TRUE)>>, <<creds("b", TRUE), creds("a", TRUE)>>,
     <<creds("bad", FALSE), creds("b", TRUE)>>,
     <<[does |-> "dial", opts |-> <<psc, oneOff>>], flag("rsaKey")>>}

MCDialOpts == {public, psc, oneOff}

\* The NewDialer calls are interchangeable, and so are the Dials.
Symmetry == Permutations(Creates) \cup Permutations(Dials)

=============================================================================
