------------------------ MODULE ConnectionInfoCache ------------------------
(***************************************************************************)
(* What a connectionInfoCache (dialer.go) promises about the information   *)
(* it serves, whatever keeps it fresh.  info is the state of what the next *)
(* ConnectionInfo call would be answered from: "none" if the call has to   *)
(* wait for a refresh, "err" if it is answered with the error of one.      *)
(* The promise: information that is valid is lost to its expiration or to  *)
(* what another refresh brought, never to a refresh that failed, was       *)
(* forced or was cancelled.                                                *)
(***************************************************************************)
VARIABLES info, closed

vars == <<info, closed>>

Init == info = "none" /\ closed = FALSE

\* A refresh succeeded and what it brought is served, also if its certificate
\* has expired by then and that of the information it replaces has not.
Renew == info' \in {"ok", "expired"} /\ UNCHANGED closed

\* The certificate expires.
Lapse == info = "ok" /\ info' = "expired" /\ UNCHANGED closed

\* A refresh failed and there is nothing better to serve.
Fail == info # "ok" /\ info' = "err" /\ UNCHANGED closed

\* Callers are made to wait for a refresh that is under way.
Block == info # "ok" /\ info' = "none" /\ UNCHANGED closed

\* The cache is closed, once.
Shut == ~closed /\ closed' = TRUE /\ UNCHANGED info

Next == Renew \/ Lapse \/ Fail \/ Block \/ Shut

Spec == Init /\ [][Next]_vars

=============================================================================
