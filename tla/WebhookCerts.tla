---------------------------- MODULE WebhookCerts ----------------------------
(***************************************************************************)
(* The start of the manager's replicas, as far as the admission webhook's  *)
(* certificate goes: webhook.Initialize of pkg/frame/webhook, called from  *)
(* main.go before the manager starts.  Every replica reads the secret with *)
(* the certificate or makes one, puts its CA into the two webhook          *)
(* configurations where there is none, writes key and certificate to files *)
(* and serves with them.  Any error ends the process; it starts again.     *)
(*                                                                         *)
(* What is generated together (CA, key, certificate signed by that CA) is  *)
(* one value, a member of Materials: two things go together if and only if *)
(* they are equal.  A call to the API server is one step.  A call that     *)
(* fails, or whose answer is lost, is the process ending before or after   *)
(* that step (Crash).                                                      *)
(***************************************************************************)
EXTENDS Naturals, FiniteSets

CONSTANTS
    Replicas,     \* the pods of the StatefulSet
    Materials,    \* what can be generated, as identities
    None, Dirty,  \* nothing there; a secret that lacks one of its four entries, or has others
    MaxCrashes,   \* bound: processes that end by themselves
    MaxOperator   \* bound: changes made by the cluster's operators

ASSUME CertAssumption ==
    /\ Materials # {}
    /\ None \notin Materials /\ Dirty \notin Materials /\ None # Dirty
    /\ MaxCrashes \in Nat /\ MaxOperator \in Nat

VARIABLES
    secret,    \* the secret resourceconsist-webhook-certs
    bundle,    \* the CABundle of each of the two webhook configurations
    pc, at,    \* where Initialize of a replica stands, and the configuration it is at
    held,      \* the secret it holds
    conf,      \* the configuration it holds: the CABundle it is about to write
    current,   \* has that configuration's resourceVersion not moved since it was read?
    key, crt,  \* its files tls.key and tls.crt
    used,      \* what has been generated
    stored,    \* history: what has ever been in the secret
    crashes, operations  \* the budgets spent

apiVars == <<secret, bundle, stored>>
initVars == <<pc, at, held, conf, current>>
fileVars == <<key, crt>>
vars == <<apiVars, initVars, fileVars, used, crashes, operations>>

Configs == {"mutating", "validating"}

Goto(r, step) == pc' = [pc EXCEPT ![r] = step]
Hold(r, m) == held' = [held EXCEPT ![r] = m]
StoreSecret(m) == secret' = m /\ stored' = stored \cup {m}

\* main: an error ends the process, which is started again and knows nothing; its file system may
\* be a new one.
Exit(r) ==
    /\ Goto(r, "getSecret") /\ Hold(r, None)
    /\ at' = [at EXCEPT ![r] = "mutating"]
    /\ conf' = [conf EXCEPT ![r] = None] /\ current' = [current EXCEPT ![r] = FALSE]
    /\ key' \in {key, [key EXCEPT ![r] = None]}
    /\ crt' \in {crt, [crt EXCEPT ![r] = None]}

-----------------------------------------------------------------------------
(* ensureWebhookSecret. *)

\* Mutant: whatever is found is used.
Unusable_Never == FALSE

\* The secret was found, without its four entries.
Unusable == secret = Dirty

\* What a replica generates nobody has generated before; which identity it gets does not matter.
Fresh == CHOOSE m \in Materials \ used : TRUE

\* A secret that is found complete is used; otherwise a CA and a certificate are made.
GetSecret(r) ==
    /\ pc[r] = "getSecret"
    /\ \/ /\ secret # None /\ ~Unusable
          /\ Hold(r, secret) /\ Goto(r, "getConfig")
          /\ UNCHANGED used
       \/ /\ secret = None \/ Unusable
          /\ Materials \ used # {}
          /\ Hold(r, Fresh) /\ used' = used \cup {Fresh}
          /\ Goto(r, IF Unusable THEN "updateSecret" ELSE "createSecret")
    /\ UNCHANGED <<apiVars, at, conf, current, fileVars, crashes, operations>>

\* Mutant: that the secret exists already is taken for success.
AlreadyExists_IsFine == FALSE
AlreadyExists == secret # None

\* A secret that somebody else made meanwhile is not a conflict to RetryOnConflict: an error.
CreateSecret(r) ==
    /\ pc[r] = "createSecret"
    /\ IF AlreadyExists
       THEN Exit(r) /\ UNCHANGED apiVars
       ELSE /\ IF secret = None THEN StoreSecret(held[r]) ELSE UNCHANGED <<secret, stored>>
            /\ Goto(r, "getConfig")
            /\ UNCHANGED <<bundle, at, held, conf, current, fileVars>>
    /\ UNCHANGED <<used, crashes, operations>>

\* The update carries no resourceVersion: it replaces whatever is there by now, and fails only if
\* there is nothing.
UpdateSecret(r) ==
    /\ pc[r] = "updateSecret"
    /\ IF secret = None
       THEN Exit(r) /\ UNCHANGED apiVars
       ELSE /\ StoreSecret(held[r])
            /\ Goto(r, "getConfig")
            /\ UNCHANGED <<bundle, at, held, conf, current, fileVars>>
    /\ UNCHANGED <<used, crashes, operations>>

-----------------------------------------------------------------------------
(* ensureWebhookCABundleAndCert. *)

\* Mutant: the CA is written whatever is there.
BundleFor_Always(r, found) == held[r]

\* Only a CABundle that is nil is set.
BundleFor(r, found) == IF found = None THEN held[r] ELSE found

GetConfig(r) ==
    /\ pc[r] = "getConfig"
    /\ conf' = [conf EXCEPT ![r] = BundleFor(r, bundle[at[r]])]
    /\ current' = [current EXCEPT ![r] = TRUE]
    /\ Goto(r, "updateConfig")
    /\ UNCHANGED <<apiVars, at, held, fileVars, used, crashes, operations>>

\* An update that changes a configuration gives it a new resourceVersion.
Outdated(c) == [r \in Replicas |-> current[r] /\ ~(pc[r] = "updateConfig" /\ at[r] = c)]

\* Mutants: the update names no resourceVersion; it is tried again for ever.
Conflict_Never(r) == FALSE
Conflict(r) == ~current[r]
GiveUp_Never(r) == UNCHANGED <<initVars, fileVars>>
\* RetryOnConflict tries the same object again, five times: once in conflict, always in conflict.
GiveUp(r) == Exit(r)

\* After the mutating configuration comes the validating one, then the files.
UpdateConfig(r) ==
    /\ pc[r] = "updateConfig"
    /\ IF Conflict(r)
       THEN GiveUp(r) /\ UNCHANGED bundle
       ELSE /\ bundle' = [bundle EXCEPT ![at[r]] = conf[r]]
            /\ current' = IF bundle' = bundle THEN current ELSE Outdated(at[r])
            /\ Goto(r, IF at[r] = "mutating" THEN "getConfig" ELSE "writeKey")
            /\ at' = [at EXCEPT ![r] = "validating"]
            /\ UNCHANGED <<held, conf, fileVars>>
    /\ UNCHANGED <<secret, stored, used, crashes, operations>>

-----------------------------------------------------------------------------
(* ensureWebhookCert, and the manager. *)

\* Mutant: a file that is there is left alone.
Written_IfMissing(file, r) == IF file[r] = None THEN [file EXCEPT ![r] = held[r]] ELSE file

\* os.WriteFile truncates and writes.
Written(file, r) == [file EXCEPT ![r] = held[r]]

WriteKey(r) ==
    /\ pc[r] = "writeKey"
    /\ key' = Written(key, r)
    /\ Goto(r, "writeCrt")
    /\ UNCHANGED <<apiVars, at, held, conf, current, crt, used, crashes, operations>>

\* Initialize returns; mgr.Start loads the two files and serves, on every replica.
WriteCrt(r) ==
    /\ pc[r] = "writeCrt"
    /\ crt' = Written(crt, r)
    /\ Goto(r, "serving")
    /\ UNCHANGED <<apiVars, at, held, conf, current, key, used, crashes, operations>>

-----------------------------------------------------------------------------
(* The environment. *)

\* The process ends: an error of a call, an eviction, a failed probe.
Crash(r) ==
    /\ crashes < MaxCrashes /\ crashes' = crashes + 1
    /\ Exit(r)
    /\ UNCHANGED <<apiVars, used, operations>>

Operation == operations < MaxOperator /\ operations' = operations + 1

\* Nothing renews a certificate; deleting the secret and starting the replicas again does.
DeleteSecret ==
    /\ Operation /\ secret # None
    /\ secret' = None
    /\ UNCHANGED <<bundle, stored, initVars, fileVars, used, crashes>>

\* Somebody changes something else in a webhook configuration.
TouchConfig(c) ==
    /\ Operation
    /\ current' = Outdated(c)
    /\ UNCHANGED <<apiVars, pc, at, held, conf, fileVars, used, crashes>>

-----------------------------------------------------------------------------
\* The replicas start together: on a cluster that has no secret yet, or one that was made by hand
\* and lacks an entry, or on one that an earlier start left somewhere on its way.
Init ==
    /\ \/ secret \in {None, Dirty} /\ bundle = [c \in Configs |-> None] /\ used = {}
       \/ LET m == CHOOSE m \in Materials : TRUE
          IN  /\ secret = m /\ used = {m}
              /\ bundle \in [Configs -> {None, m}]
    /\ stored = used
    /\ pc = [r \in Replicas |-> "getSecret"] /\ at = [r \in Replicas |-> "mutating"]
    /\ held = [r \in Replicas |-> None] /\ conf = held
    /\ current = [r \in Replicas |-> FALSE]
    /\ key = held /\ crt = held
    /\ crashes = 0 /\ operations = 0

Initialize(r) ==
    \/ GetSecret(r) \/ CreateSecret(r) \/ UpdateSecret(r)
    \/ GetConfig(r) \/ UpdateConfig(r)
    \/ WriteKey(r) \/ WriteCrt(r)

Next ==
    \/ \E r \in Replicas : Initialize(r) \/ Crash(r)
    \/ DeleteSecret
    \/ \E c \in Configs : TouchConfig(c)

Spec == Init /\ [][Next]_vars

\* The kubelet starts a process again, and a process that runs goes on.
FairSpec == Spec /\ \A r \in Replicas : WF_vars(Initialize(r))

-----------------------------------------------------------------------------
(* Properties. *)

Steps == {"getSecret", "createSecret", "updateSecret", "getConfig", "updateConfig",
          "writeKey", "writeCrt", "serving"}
Maybe == Materials \cup {None}
TypeReplicas ==
    /\ pc \in [Replicas -> Steps] /\ at \in [Replicas -> Configs]
    /\ held \in [Replicas -> Maybe] /\ conf \in [Replicas -> Maybe]
    /\ current \in [Replicas -> BOOLEAN]
    /\ key \in [Replicas -> Maybe] /\ crt \in [Replicas -> Maybe]
\* Every variable keeps its type; a replica never holds or hands on a secret that is not complete.
TypeOK ==
    /\ secret \in Maybe \cup {Dirty} /\ bundle \in [Configs -> Maybe]
    /\ TypeReplicas
    /\ used \subseteq Materials /\ stored \subseteq used
    /\ crashes \in 0..MaxCrashes /\ operations \in 0..MaxOperator

\* A replica that serves has a key and a certificate that go together, whatever files an earlier
\* process of it left behind.
FilesPair == \A r \in Replicas : pc[r] = "serving" => crt[r] = key[r] /\ crt[r] \in Materials

\* Steps of Initialize that come after the secret, and after both configurations.
SecretDone == {"getConfig", "updateConfig", "writeKey", "writeCrt", "serving"}
ConfigsDone == {"writeKey", "writeCrt", "serving"}

FromSecret ==
    /\ secret \in Materials => secret \in stored
    /\ \A c \in Configs : bundle[c] # None => bundle[c] \in stored
    /\ \A r \in Replicas :
         /\ pc[r] \in {"createSecret", "updateSecret"} => held[r] \in used
         /\ pc[r] \in SecretDone => held[r] \in stored
         /\ pc[r] = "updateConfig" => conf[r] \in stored
UpToDate ==
    \A r \in Replicas :
        pc[r] = "updateConfig" /\ current[r] /\ bundle[at[r]] # None => conf[r] = bundle[at[r]]
BundlesSet ==
    \A r \in Replicas :
        /\ at[r] = "validating" => bundle["mutating"] # None
        /\ pc[r] \in ConfigsDone => \A c \in Configs : bundle[c] # None
FilesHeld ==
    \A r \in Replicas :
        /\ pc[r] \in {"writeCrt", "serving"} => key[r] = held[r]
        /\ pc[r] = "serving" => crt[r] = held[r]
\* What a replica passes on was in the secret at some time; the CABundle it is about to write is
\* the one that is there, if any, unless the update is going to conflict; once past the
\* configurations it finds both set; its files are those of the secret it holds.
CertInv == FromSecret /\ UpToDate /\ BundlesSet /\ FilesHeld

\* Only one certificate has ever been in the secret.
OneSecret == \A m, n \in stored : m = n

\* As long as only one certificate has ever been stored, the API server trusts every replica that
\* serves: however many of them started at once and made a certificate of their own.
Trusted ==
    OneSecret => \A r \in Replicas : pc[r] = "serving" => \A c \in Configs : bundle[c] = crt[r]

\* A CABundle is set once: no replica replaces the one another has just set.
BundleKept == [][\A c \in Configs : bundle[c] # None => bundle'[c] = bundle[c]]_vars

\* With which key and certificate each replica serves.
ServesWith == [r \in Replicas |-> IF pc[r] = "serving" THEN <<key[r], crt[r]>> ELSE None]

Trust == INSTANCE CertTrust WITH
    Certificates <- Materials, offered <- stored, trusted <- bundle, serving <- ServesWith

\* However replicas race, crash and start again, all they do is what CertTrust says: each CABundle is
\* decided once, by whoever comes first, and a replica serves once both are, with a key and a
\* certificate of one pair that was in the secret.
KeepsTrust == Trust!Spec

\* Every replica serves in the end: the replicas cannot keep each other from starting by making
\* each other's calls fail.
EventuallyServes == \A r \in Replicas : <>[](pc[r] = "serving")
=============================================================================
