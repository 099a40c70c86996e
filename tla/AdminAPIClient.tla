--------------------------- MODULE AdminAPIClient ---------------------------
(***************************************************************************)
(* One refresh (internal/alloydb/refresh.go, connectionInfo): two          *)
(* goroutines ask the Admin API for the instance's addresses and for a     *)
(* client certificate, each sends its outcome on a channel of capacity     *)
(* one, and the refresh receives the two in order or gives up when its     *)
(* context is done.                                                        *)
(*                                                                         *)
(* An answer for the addresses is the set of the types that are non-empty. *)
(* An answer for the certificate is a chain of texts and a CA text.  A     *)
(* text is the type of the PEM block it has, if it has one, and what the   *)
(* block holds: the certificate of the Dialer's key ("leaf"), another      *)
(* certificate ("other") or what does not parse as one ("bad").            *)
(***************************************************************************)
EXTENDS Naturals, Sequences, SequencesExt

CONSTANT MaxChain   \* longest chain considered

ASSUME MaxChainAssumption == MaxChain \in Nat

Goroutines == {"md", "cert"}
IPTypes == {"PRIVATE", "PUBLIC", "PSC"}
Texts ==
    [block : {"CERTIFICATE", "another type"}, holds : {"leaf", "other", "bad"}]
        \cup {[block |-> "none", holds |-> "bad"]}
Chains == BoundedSeq(Texts, MaxChain)

\* Answers of the Admin API (or of the transport in its place).
Answers(g) ==
    {[ok |-> FALSE]} \cup
    IF g = "md" THEN [ok : {TRUE}, ips : SUBSET IPTypes]
    ELSE [ok : {TRUE}, chain : Chains, ca : Texts]

VARIABLES
    done,       \* the context is cancelled or past its deadline
    go,         \* go[g]: "calling", "sending" or "ended"
    ans,        \* ans[g]: the API's answer once there is one
    ch,         \* ch[g]: <<>> or <<the outcome sent>>
    pc,         \* "md", "cert" (the two selects) or "returned"
    outcome     \* "none", "ok", "mdErr", "certErr" or "ctxErr"

vars == <<done, go, ans, ch, pc, outcome>>

Init ==
    /\ done \in BOOLEAN
    /\ go = [g \in Goroutines |-> "calling"]
    /\ ans = [g \in Goroutines |-> [ok |-> FALSE]]
    /\ ch = [g \in Goroutines |-> <<>>]
    /\ pc = "md"
    /\ outcome = "none"

-----------------------------------------------------------------------------
(* What is made of an answer                                               *)

\* fetchInstanceInfo: no address of any type is an error.
fetchInstanceInfo(a) == a.ok /\ a.ips # {}

\* pem.Decode finds a block and x509.ParseCertificate takes what it holds: the
\* code does not look at the type of the block.
Parses(t) == t.block # "none" /\ t.holds # "bad"

\* Text i is the one of the chain that TLS presents: tls.X509KeyPair skips the
\* blocks of other types.
Presented(chain, i) ==
    /\ chain[i].block = "CERTIFICATE"
    /\ \A j \in 1..i - 1 : chain[j].block # "CERTIFICATE"

\* tls.X509KeyPair on the joined chain: the certificate presented has to be the
\* one of the Dialer's key.
X509KeyPair(chain) == \E i \in DOMAIN chain : Presented(chain, i) /\ chain[i].holds = "leaf"

\* newClientCertificate that takes the key pair's word for the first text.
newClientCertificateUnchecked(chain, ca) ==
    /\ X509KeyPair(chain)
    /\ Parses(ca)

\* newClientCertificate: key pair, CA, then the text the expiry is read from.
newClientCertificate(chain, ca) ==
    /\ X509KeyPair(chain)
    /\ Parses(ca)
    /\ Parses(Head(chain))

\* fetchClientCertificate.
fetchClientCertificate(a) == a.ok /\ newClientCertificate(a.chain, a.ca)

Succeeds(g, a) == IF g = "md" THEN fetchInstanceInfo(a) ELSE fetchClientCertificate(a)

-----------------------------------------------------------------------------
(* The two goroutines                                                      *)

\* The API call of g returns; a done context makes the transport return too.
Answer(g) ==
    /\ go[g] = "calling"
    /\ go' = [go EXCEPT ![g] = "sending"]
    /\ \E a \in Answers(g) : ans' = [ans EXCEPT ![g] = a]
    /\ UNCHANGED <<done, ch, pc, outcome>>

\* A channel without capacity: the send waits for the receiver.
SendUnbuffered(g) ==
    /\ go[g] = "sending"
    /\ pc = g
    /\ ch' = [ch EXCEPT ![g] = <<Succeeds(g, ans[g])>>]
    /\ go' = [go EXCEPT ![g] = "ended"]
    /\ UNCHANGED <<done, ans, pc, outcome>>

\* The send has room, whoever is still there to receive.
Send(g) ==
    /\ go[g] = "sending"
    /\ ch' = [ch EXCEPT ![g] = <<Succeeds(g, ans[g])>>]
    /\ go' = [go EXCEPT ![g] = "ended"]
    /\ UNCHANGED <<done, ans, pc, outcome>>

-----------------------------------------------------------------------------
(* The refresh itself                                                      *)

return(o) == pc' = "returned" /\ outcome' = o

\* A receive that blames every failure on the metadata call.
ReceiveBlamesMetadata(g) ==
    /\ pc = g
    /\ ch[g] # <<>>
    /\ IF Head(ch[g])
       THEN IF g = "md" THEN pc' = "cert" /\ UNCHANGED outcome ELSE return("ok")
       ELSE return("mdErr")
    /\ ch' = [ch EXCEPT ![g] = <<>>]
    /\ UNCHANGED <<done, go, ans>>

\* The select takes the channel of g.
Receive(g) ==
    /\ pc = g
    /\ ch[g] # <<>>
    /\ IF Head(ch[g])
       THEN IF g = "md" THEN pc' = "cert" /\ UNCHANGED outcome ELSE return("ok")
       ELSE return(IF g = "md" THEN "mdErr" ELSE "certErr")
    /\ ch' = [ch EXCEPT ![g] = <<>>]
    /\ UNCHANGED <<done, go, ans>>

\* A refresh that looks at its context in the first select only.
GiveUpFirst ==
    /\ pc = "md"
    /\ done
    /\ return("ctxErr")
    /\ UNCHANGED <<done, go, ans, ch>>

\* The select takes ctx.Done().
GiveUp ==
    /\ pc # "returned"
    /\ done
    /\ return("ctxErr")
    /\ UNCHANGED <<done, go, ans, ch>>

\* The context ends.
Cancel ==
    /\ ~done
    /\ done' = TRUE
    /\ UNCHANGED <<go, ans, ch, pc, outcome>>

Refresh == GiveUp \/ \E g \in Goroutines : Receive(g)

Next == Cancel \/ Refresh \/ \E g \in Goroutines : Answer(g) \/ Send(g)

Spec == Init /\ [][Next]_vars

\* Goroutines that can step do.  The Admin API may never answer: there is no
\* fairness for Answer.
FairSpec ==
    /\ Spec
    /\ WF_vars(Refresh)
    /\ \A g \in Goroutines : WF_vars(Send(g))

-----------------------------------------------------------------------------
\* Every variable has its type.
TypeOK ==
    /\ done \in BOOLEAN
    /\ go \in [Goroutines -> {"calling", "sending", "ended"}]
    /\ \A g \in Goroutines : ans[g] \in Answers(g)
    /\ ch \in [Goroutines -> {<<>>, <<TRUE>>, <<FALSE>>}]
    /\ pc \in {"md", "cert", "returned"}
    /\ outcome \in {"none", "ok", "mdErr", "certErr", "ctxErr"}

\* A successful refresh has at least one address, a CA and a certificate of the
\* Dialer's key to present, and its expiration was read from a certificate
\* (refresh.go:75, 171-213): from the one presented, whatever the API put into
\* the chain after it, unless the chain begins with a block of another type.
SuccessIsComplete ==
    outcome = "ok" =>
        /\ ans["md"].ok /\ ans["md"].ips # {}
        /\ ans["cert"].ok
        /\ LET chain == ans["cert"].chain
           IN  /\ chain # <<>> /\ Parses(Head(chain)) /\ Parses(ans["cert"].ca)
               /\ \E i \in DOMAIN chain : Presented(chain, i) /\ chain[i].holds = "leaf"
               /\ Head(chain).block = "CERTIFICATE" =>
                    Presented(chain, 1) /\ Head(chain).holds = "leaf"

\* The expiration is that of the certificate presented (refresh.go:111, "expiry
\* is the expiration of the client certificate", and 197, "Extract expiry from
\* client certificate").  It is not: X509KeyPair skips a first block of another
\* type, and the expiration is read from that very block.
ExpiryIsPresented == outcome = "ok" => Presented(ans["cert"].chain, 1)

\* A refresh fails for the reason it gives: the error of a call is that of an
\* answer that is there, and an ended context is the only other reason
\* (refresh.go:299-323).
FailureHasItsReason ==
    /\ outcome = "mdErr" => go["md"] = "ended" /\ ~Succeeds("md", ans["md"])
    /\ outcome = "certErr" => go["cert"] = "ended" /\ ~Succeeds("cert", ans["cert"])
    /\ outcome = "ctxErr" => done

\* The end of the context ends the refresh even if the Admin API never
\* answers (refresh.go:308, 321).
CancelReturns == done ~> pc = "returned"

\* No goroutine is left behind: once the API has answered, its goroutine ends,
\* also when the refresh has given up on it (refresh.go:281, 292).
GoroutinesEnd == \A g \in Goroutines : go[g] = "sending" ~> go[g] = "ended"

=============================================================================
