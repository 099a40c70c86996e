------------------------ MODULE AdminAPIClientProofs ------------------------
(***************************************************************************)
(* Proofs about one refresh, for certificate chains of any length: what a  *)
(* refresh that succeeds has in hand, and why one that fails does.         *)
(***************************************************************************)
EXTENDS AdminAPIClient, TLAPS

\* The answers are those of two calls, each of its own kind.
AnswersSound == DOMAIN ans = Goroutines /\ \A g \in Goroutines : ans[g] \in Answers(g)

\* What a goroutine has sent is what its answer makes of it; the answer does
\* not change any more.
ChannelSound ==
    \A g \in Goroutines :
        ch[g] # <<>> => go[g] = "ended" /\ (Head(ch[g]) <=> Succeeds(g, ans[g]))

\* The refresh has received a success before it goes on: that of the metadata
\* call before it waits for the certificate, and both before it succeeds.
RefreshSound ==
    /\ pc # "returned" <=> outcome = "none"
    /\ pc = "cert" \/ outcome = "ok" => go["md"] = "ended" /\ Succeeds("md", ans["md"])
    /\ outcome = "ok" => go["cert"] = "ended" /\ Succeeds("cert", ans["cert"])

\* The inductive invariant.
IInv ==
    /\ TypeOK
    /\ AnswersSound
    /\ ChannelSound
    /\ RefreshSound
    /\ FailureHasItsReason

-----------------------------------------------------------------------------

\* A chain newClientCertificate accepts presents the certificate of the
\* Dialer's key; if its first text is a certificate block, that is the one,
\* because the key pair skips no certificate.
LEMMA AcceptedChain ==
    ASSUME NEW chain \in Chains, NEW ca, newClientCertificate(chain, ca)
    PROVE  /\ chain # <<>> /\ Parses(Head(chain)) /\ Parses(ca)
           /\ \E i \in DOMAIN chain : Presented(chain, i) /\ chain[i].holds = "leaf"
           /\ Head(chain).block = "CERTIFICATE" =>
                Presented(chain, 1) /\ Head(chain).holds = "leaf"
<1>1. PICK n \in 0..MaxChain : chain \in [1..n -> Texts]
  BY DEF Chains, BoundedSeq, SeqOf
<1>2. n \in Nat /\ DOMAIN chain = 1..n /\ chain \in Seq(Texts) /\ Len(chain) = n
  BY <1>1, MaxChainAssumption
<1>3. Parses(Head(chain)) /\ Parses(ca) /\ X509KeyPair(chain)
  BY DEF newClientCertificate
<1>4. PICK i \in 1..n : Presented(chain, i) /\ chain[i].holds = "leaf"
  BY <1>2, <1>3 DEF X509KeyPair
<1>5. chain # <<>> /\ Head(chain) = chain[1]
  BY <1>2, <1>4
<1>6. ASSUME Head(chain).block = "CERTIFICATE" PROVE i = 1
  BY <1>2, <1>4, <1>5, <1>6 DEF Presented
<1> QED BY <1>2, <1>3, <1>4, <1>5, <1>6

LEMMA InitIInv == Init => IInv
<1> SUFFICES ASSUME Init PROVE IInv
  OBVIOUS
<1>1. TypeOK /\ AnswersSound
  BY DEF Init, TypeOK, AnswersSound, Answers, Goroutines
<1>2. ChannelSound
  BY DEF Init, ChannelSound
<1>3. RefreshSound /\ FailureHasItsReason
  BY DEF Init, RefreshSound, FailureHasItsReason
<1> QED BY <1>1, <1>2, <1>3 DEF IInv

\* The API answers a call once.
LEMMA AnswerPreserves ==
    ASSUME IInv, NEW g \in Goroutines, Answer(g)
    PROVE  IInv'
<1>1. PICK a \in Answers(g) : ans' = [ans EXCEPT ![g] = a]
  BY DEF Answer
<1>2. /\ go[g] = "calling" /\ go' = [go EXCEPT ![g] = "sending"]
      /\ UNCHANGED <<done, ch, pc, outcome>>
  BY DEF Answer
<1>3. /\ go' \in [Goroutines -> {"calling", "sending", "ended"}]
      /\ \A h \in Goroutines : go[h] = "ended" => go'[h] = "ended"
  BY <1>2 DEF IInv, TypeOK
<1>4. AnswersSound' /\ \A h \in Goroutines : go[h] = "ended" => ans'[h] = ans[h]
  BY <1>1, <1>2 DEF IInv, AnswersSound
<1>5. TypeOK'
  BY <1>2, <1>3, <1>4 DEF IInv, TypeOK, AnswersSound
<1>6. ChannelSound'
  BY <1>2, <1>3, <1>4 DEF IInv, ChannelSound
<1>7. RefreshSound' /\ FailureHasItsReason'
  BY <1>2, <1>3, <1>4 DEF IInv, RefreshSound, FailureHasItsReason, Goroutines
<1> QED BY <1>4, <1>5, <1>6, <1>7 DEF IInv

LEMMA SendPreserves ==
    ASSUME IInv, NEW g \in Goroutines, Send(g)
    PROVE  IInv'
<1> DEFINE v == Succeeds(g, ans[g])
<1>1. /\ go[g] = "sending" /\ go' = [go EXCEPT ![g] = "ended"]
      /\ ch' = [ch EXCEPT ![g] = <<v>>]
      /\ UNCHANGED <<done, ans, pc, outcome>>
  BY DEF Send
<1>2. v \in BOOLEAN
  BY DEF Succeeds, fetchInstanceInfo, fetchClientCertificate
<1> HIDE DEF v
<1>3. <<v>> \in {<<>>, <<TRUE>>, <<FALSE>>} /\ Head(<<v>>) = v
  <2>1. v = TRUE \/ v = FALSE
    BY <1>2
  <2>2. <<v>> \in {<<>>, <<TRUE>>, <<FALSE>>}
    BY <2>1, Zenon
  <2>3. \A e : Head(<<e>>) = e
    OBVIOUS
  <2> QED BY <2>2, <2>3
<1>4. /\ go' \in [Goroutines -> {"calling", "sending", "ended"}] /\ go'[g] = "ended"
      /\ \A h \in Goroutines : h # g => go'[h] = go[h]
      /\ ch' \in [Goroutines -> {<<>>, <<TRUE>>, <<FALSE>>}] /\ ch'[g] = <<v>>
      /\ \A h \in Goroutines : h # g => ch'[h] = ch[h]
  BY <1>1, <1>3 DEF IInv, TypeOK
<1>5. TypeOK' /\ AnswersSound'
  BY <1>1, <1>4 DEF IInv, TypeOK, AnswersSound
<1>6. ChannelSound'
  BY <1>1, <1>3, <1>4 DEF IInv, ChannelSound, v
<1>7. RefreshSound' /\ FailureHasItsReason'
  BY <1>1, <1>4 DEF IInv, RefreshSound, FailureHasItsReason, Goroutines
<1> QED BY <1>5, <1>6, <1>7 DEF IInv

\* What the refresh receives decides how it goes on, and nothing else.
LEMMA ReceivePreserves ==
    ASSUME IInv, NEW g \in Goroutines, Receive(g)
    PROVE  IInv'
<1>1. /\ pc = g /\ ch[g] # <<>> /\ ch' = [ch EXCEPT ![g] = <<>>]
      /\ UNCHANGED <<done, go, ans>>
  BY DEF Receive
<1>2. outcome = "none" /\ go[g] = "ended" /\ (Head(ch[g]) <=> Succeeds(g, ans[g]))
  BY <1>1 DEF IInv, RefreshSound, ChannelSound, Goroutines
<1>3. /\ ch' \in [Goroutines -> {<<>>, <<TRUE>>, <<FALSE>>}] /\ ch'[g] = <<>>
      /\ \A h \in Goroutines : h # g => ch'[h] = ch[h]
  BY <1>1 DEF IInv, TypeOK
<1>4. \/ g = "md" /\ Succeeds(g, ans[g]) /\ pc' = "cert" /\ outcome' = "none"
      \/ g = "cert" /\ Succeeds(g, ans[g]) /\ pc' = "returned" /\ outcome' = "ok"
      \/ g = "md" /\ ~Succeeds(g, ans[g]) /\ pc' = "returned" /\ outcome' = "mdErr"
      \/ g = "cert" /\ ~Succeeds(g, ans[g]) /\ pc' = "returned" /\ outcome' = "certErr"
  BY <1>2 DEF Receive, return, Goroutines
<1>5. TypeOK' /\ AnswersSound'
  BY <1>1, <1>3, <1>4 DEF IInv, TypeOK, AnswersSound
<1>6. ChannelSound'
  BY <1>1, <1>3 DEF IInv, ChannelSound
<1>7. RefreshSound' /\ FailureHasItsReason'
  BY <1>1, <1>2, <1>4 DEF IInv, RefreshSound, FailureHasItsReason
<1> QED BY <1>5, <1>6, <1>7 DEF IInv

LEMMA ContextPreserves ==
    ASSUME IInv, GiveUp \/ Cancel
    PROVE  IInv'
<1>1. UNCHANGED <<go, ans, ch>> /\ done' = TRUE
  BY DEF GiveUp, Cancel, IInv, TypeOK
<1>2. \/ pc # "returned" /\ pc' = "returned" /\ outcome' = "ctxErr"
      \/ UNCHANGED <<pc, outcome>>
  BY DEF GiveUp, Cancel, return
<1>3. TypeOK' /\ AnswersSound' /\ ChannelSound'
  BY <1>1, <1>2 DEF IInv, TypeOK, AnswersSound, ChannelSound
<1>4. RefreshSound' /\ FailureHasItsReason'
  BY <1>1, <1>2 DEF IInv, RefreshSound, FailureHasItsReason
<1> QED BY <1>3, <1>4 DEF IInv

LEMMA NextIInv == IInv /\ [Next]_vars => IInv'
<1> SUFFICES ASSUME IInv, [Next]_vars PROVE IInv'
  OBVIOUS
<1>1. CASE UNCHANGED vars
  BY <1>1 DEF vars, IInv, TypeOK, AnswersSound, ChannelSound, RefreshSound, FailureHasItsReason
<1>2. CASE Next
  BY <1>2, AnswerPreserves, SendPreserves, ReceivePreserves, ContextPreserves DEF Next, Refresh
<1> QED BY <1>1, <1>2

\* The invariant holds throughout every behaviour.
LEMMA Invariance == Spec => []IInv
  BY InitIInv, NextIInv, PTL DEF Spec

-----------------------------------------------------------------------------
(* The results                                                             *)

\* A refresh that succeeds has an address, a CA and a certificate of the
\* Dialer's key to present, however long the chain and whatever the API put
\* into it; its expiration is that certificate's, unless the chain begins with
\* a block of another type.
THEOREM RefreshIsComplete == Spec => []SuccessIsComplete
<1>1. IInv => SuccessIsComplete
  <2> DEFINE chain == ans["cert"].chain
  <2> SUFFICES ASSUME IInv, outcome = "ok"
               PROVE  /\ ans["md"].ok /\ ans["md"].ips # {}
                      /\ ans["cert"].ok
                      /\ chain # <<>> /\ Parses(Head(chain)) /\ Parses(ans["cert"].ca)
                      /\ \E i \in DOMAIN chain : Presented(chain, i) /\ chain[i].holds = "leaf"
                      /\ Head(chain).block = "CERTIFICATE" =>
                            Presented(chain, 1) /\ Head(chain).holds = "leaf"
    BY DEF SuccessIsComplete
  <2>1. Succeeds("md", ans["md"]) /\ Succeeds("cert", ans["cert"])
    BY DEF IInv, RefreshSound
  <2>2. /\ ans["md"].ok /\ ans["md"].ips # {}
        /\ ans["cert"].ok /\ newClientCertificate(ans["cert"].chain, ans["cert"].ca)
    BY <2>1 DEF Succeeds, fetchInstanceInfo, fetchClientCertificate
  <2>3. ans["cert"].chain \in Chains
    <3>1. ans["cert"] \in Answers("cert") /\ ans["cert"] # [ok |-> FALSE]
      BY <2>2 DEF IInv, AnswersSound, Goroutines
    <3> QED BY <3>1 DEF Answers
  <2> HIDE DEF chain
  <2> QED BY <2>2, <2>3, AcceptedChain DEF chain
<1> QED BY <1>1, Invariance, PTL

\* A refresh that fails gives the error of an answer that is there, or that of
\* its context.
THEOREM FailuresHaveReasons == Spec => []FailureHasItsReason
  BY Invariance, PTL DEF IInv

=============================================================================
