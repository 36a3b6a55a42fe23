----------------------------- MODULE CertTrust -----------------------------
(***************************************************************************)
(* What the replicas of the webhook agree on without speaking to each      *)
(* other, with no word of secrets, conflicts or files: certificates are    *)
(* put forward; what a configuration trusts is one of them, decided once;  *)
(* and a replica serves only when every configuration is decided, with a   *)
(* key and a certificate of one that was put forward.                      *)
(***************************************************************************)
CONSTANTS Replicas, Configs, Certificates, None

VARIABLES
    offered,   \* the certificates that were ever put forward
    trusted,   \* what each configuration trusts
    serving    \* the key and certificate each replica serves with

vars == <<offered, trusted, serving>>

Init ==
    /\ offered \in SUBSET Certificates
    /\ trusted \in [Configs -> offered \cup {None}]
    /\ serving = [r \in Replicas |-> None]

Offer(m) ==
    /\ offered' = offered \cup {m}
    /\ UNCHANGED <<trusted, serving>>

\* Whoever comes first decides, and nobody decides again.
Decide(c) ==
    /\ trusted[c] = None
    /\ \E m \in offered : trusted' = [trusted EXCEPT ![c] = m]
    /\ UNCHANGED <<offered, serving>>

Serve(r) ==
    /\ serving[r] = None
    /\ \A c \in Configs : trusted[c] # None
    /\ \E m \in offered : serving' = [serving EXCEPT ![r] = <<m, m>>]
    /\ UNCHANGED <<offered, trusted>>

Stop(r) ==
    /\ serving' = [serving EXCEPT ![r] = None]
    /\ UNCHANGED <<offered, trusted>>

Next ==
    \/ \E m \in Certificates : Offer(m)
    \/ \E c \in Configs : Decide(c)
    \/ \E r \in Replicas : Serve(r) \/ Stop(r)

Spec == Init /\ [][Next]_vars
=============================================================================
