------------------------ MODULE WebhookCerts_proofs ------------------------
(***************************************************************************)
(* Safety of WebhookCerts, for any number of replicas, crashes and changes *)
(* by operators: the types and CertInv are inductive together (what goes   *)
(* into the secret was generated by CertInv; what a replica holds is of    *)
(* its type by TypeOK), and the other safety properties follow.            *)
(***************************************************************************)
EXTENDS WebhookCerts, TLAPS

Inv == TypeOK /\ CertInv

\* The parts of CertInv that speak of one replica.
CertOf(r) ==
    /\ pc[r] \in {"createSecret", "updateSecret"} => held[r] \in used
    /\ pc[r] \in SecretDone => held[r] \in stored
    /\ pc[r] = "updateConfig" => conf[r] \in stored
    /\ pc[r] = "updateConfig" /\ current[r] /\ bundle[at[r]] # None => conf[r] = bundle[at[r]]
    /\ at[r] = "validating" => bundle["mutating"] # None
    /\ pc[r] \in ConfigsDone => \A c \in Configs : bundle[c] # None
    /\ pc[r] \in {"writeCrt", "serving"} => key[r] = held[r]
    /\ pc[r] = "serving" => crt[r] = held[r]
CertOfAPI ==
    /\ secret \in Materials => secret \in stored
    /\ \A c \in Configs : bundle[c] # None => bundle[c] \in stored

\* CertInv, replica by replica.
LEMMA CertSplit == CertInv <=> CertOfAPI /\ \A r \in Replicas : CertOf(r)
  BY DEF CertInv, FromSecret, UpToDate, BundlesSet, FilesHeld, CertOfAPI, CertOf
LEMMA CertSplitNext == CertInv' <=> CertOfAPI' /\ \A r \in Replicas : CertOf(r)'
  BY DEF CertInv, FromSecret, UpToDate, BundlesSet, FilesHeld, CertOfAPI, CertOf

\* A start has generated nothing but what the secret and the configurations hold.
LEMMA InitInv == Init => Inv
  <1> SUFFICES ASSUME Init PROVE Inv
    OBVIOUS
  <1> DEFINE m == CHOOSE m \in Materials : TRUE
  <1>1. m \in Materials
    BY CertAssumption
  <1> HIDE DEF m
  <1>2. \/ secret \in {None, Dirty} /\ bundle = [c \in Configs |-> None] /\ used = {}
        \/ secret = m /\ used = {m} /\ bundle \in [Configs -> {None, m}]
    BY DEF Init, m
  <1>3. secret \in Maybe \cup {Dirty} /\ bundle \in [Configs -> Maybe]
    BY <1>1, <1>2 DEF Maybe
  <1>4. used \subseteq Materials /\ stored \subseteq used
    BY <1>1, <1>2 DEF Init
  <1>5. TypeReplicas
    BY DEF Init, TypeReplicas, Steps, Configs, Maybe
  <1>6. TypeOK
    BY <1>3, <1>4, <1>5, CertAssumption DEF Init, TypeOK
  <1>7. CertOfAPI
    BY <1>1, <1>2, CertAssumption DEF Init, CertOfAPI, Configs
  <1>8. ASSUME NEW r \in Replicas PROVE CertOf(r)
    BY <1>8 DEF Init, CertOf, SecretDone, ConfigsDone
  <1>. QED BY <1>6, <1>7, <1>8, CertSplit DEF Inv

\* What is generated is one of the materials.
LEMMA FreshIn == ASSUME Materials \ used # {} PROVE Fresh \in Materials \ used
  BY DEF Fresh

\* A replica that exits leaves everything of the others and of the API server as it is.
LEMMA ExitInv ==
  ASSUME Inv, NEW r \in Replicas, Exit(r), UNCHANGED <<apiVars, used>>,
         crashes' \in 0..MaxCrashes, operations' \in 0..MaxOperator
  PROVE  Inv'
  <1>1. TypeOK'
    BY DEF Inv, TypeOK, TypeReplicas, Exit, Goto, Hold, Steps, Configs, Maybe, apiVars
  <1>2. CertOfAPI'
    BY CertSplit DEF Inv, CertOfAPI, apiVars
  <1>3. ASSUME NEW q \in Replicas PROVE CertOf(q)'
    <2>1. CASE q = r
      BY <2>1 DEF Inv, TypeOK, TypeReplicas, Exit, Goto, Hold, CertOf, SecretDone, ConfigsDone
    <2>2. CASE q # r
      <3>1. CertOf(q)
        BY CertSplit DEF Inv
      <3>2. /\ pc'[q] = pc[q] /\ at'[q] = at[q] /\ held'[q] = held[q] /\ conf'[q] = conf[q]
            /\ current'[q] = current[q] /\ key'[q] = key[q] /\ crt'[q] = crt[q]
        BY <2>2 DEF Inv, TypeOK, TypeReplicas, Exit, Goto, Hold
      <3>. QED BY <3>1, <3>2 DEF CertOf, apiVars
    <2>. QED BY <2>1, <2>2
  <1>4. CertInv'
    BY <1>2, <1>3, CertSplitNext
  <1>. QED BY <1>1, <1>4 DEF Inv

\* Reading the secret: what it holds has been stored; what is generated is used from then on.
LEMMA GetSecretInv ==
  ASSUME Inv, NEW r \in Replicas, GetSecret(r) PROVE Inv'
  <1> USE DEF Inv
  <1>1. \/ /\ secret \in Materials /\ Hold(r, secret) /\ Goto(r, "getConfig") /\ UNCHANGED used
        \/ /\ Materials \ used # {} /\ Hold(r, Fresh) /\ used' = used \cup {Fresh}
           /\ Goto(r, "createSecret") \/ Goto(r, "updateSecret")
    BY DEF GetSecret, Unusable, TypeOK, Maybe
  <1>2. TypeOK'
    <2>1. CASE secret \in Materials /\ Hold(r, secret) /\ Goto(r, "getConfig") /\ UNCHANGED used
      BY <2>1 DEF GetSecret, Hold, Goto, apiVars, fileVars, TypeOK, TypeReplicas, Steps, Maybe
    <2>2. CASE /\ Materials \ used # {} /\ Hold(r, Fresh) /\ used' = used \cup {Fresh}
               /\ Goto(r, "createSecret") \/ Goto(r, "updateSecret")
      <3>1. Fresh \in Materials
        BY <2>2, FreshIn
      <3>. QED BY <2>2, <3>1 DEF GetSecret, Hold, Goto, apiVars, fileVars, TypeOK, TypeReplicas, Steps, Maybe
    <2>. QED BY <1>1, <2>1, <2>2
  <1>3. CertOfAPI'
    BY CertSplit DEF GetSecret, CertOfAPI, apiVars
  <1>4. ASSUME NEW q \in Replicas PROVE CertOf(q)'
    <2>1. CertOf(q) /\ CertOfAPI
      BY CertSplit
    <2>2. used \subseteq used' /\ UNCHANGED <<stored, bundle, at, conf, current, key, crt>>
      BY <1>1 DEF GetSecret, apiVars, fileVars
    <2>3. CASE q # r
      <3>1. pc'[q] = pc[q] /\ held'[q] = held[q]
        BY <1>1, <2>3 DEF Hold, Goto, TypeOK, TypeReplicas
      <3>. QED BY <2>1, <2>2, <3>1 DEF CertOf
    <2>4. CASE q = r
      <3>1. CASE secret \in Materials /\ Hold(r, secret) /\ Goto(r, "getConfig")
        BY <2>1, <2>2, <2>4, <3>1
        DEF Hold, Goto, TypeOK, TypeReplicas, CertOf, CertOfAPI, SecretDone, ConfigsDone
      <3>2. CASE /\ Hold(r, Fresh) /\ used' = used \cup {Fresh}
                 /\ Goto(r, "createSecret") \/ Goto(r, "updateSecret")
        BY <2>1, <2>2, <2>4, <3>2
        DEF Hold, Goto, TypeOK, TypeReplicas, CertOf, SecretDone, ConfigsDone
      <3>. QED BY <1>1, <3>1, <3>2
    <2>. QED BY <2>3, <2>4
  <1>. QED BY <1>2, <1>3, <1>4, CertSplitNext

\* Storing a secret: what a replica brings is generated by then.
LEMMA StoredInv ==
  ASSUME Inv, NEW r \in Replicas, pc[r] \in {"createSecret", "updateSecret"},
         StoreSecret(held[r]), Goto(r, "getConfig"),
         UNCHANGED <<bundle, at, held, conf, current, fileVars, used, crashes, operations>>
  PROVE  Inv'
  <1> USE DEF Inv
  <1>1. held[r] \in used
    BY CertSplit DEF CertOf
  <1>2. TypeOK'
    BY <1>1 DEF StoreSecret, Goto, fileVars, TypeOK, TypeReplicas, Steps, Maybe
  <1>3. CertOfAPI'
    BY CertSplit DEF StoreSecret, CertOfAPI
  <1>4. ASSUME NEW q \in Replicas PROVE CertOf(q)'
    <2>1. CertOf(q)
      BY CertSplit
    <2>2. CASE q # r
      <3>1. pc'[q] = pc[q]
        BY <2>2 DEF Goto, TypeOK, TypeReplicas
      <3>. QED BY <2>1, <3>1 DEF CertOf, StoreSecret, fileVars
    <2>3. CASE q = r
      BY <2>1, <2>3 DEF CertOf, StoreSecret, Goto, fileVars, TypeOK, TypeReplicas, SecretDone, ConfigsDone
    <2>. QED BY <2>2, <2>3
  <1>. QED BY <1>2, <1>3, <1>4, CertSplitNext

LEMMA CreateSecretInv ==
  ASSUME Inv, NEW r \in Replicas, CreateSecret(r) PROVE Inv'
  <1>1. CASE AlreadyExists
    BY <1>1, ExitInv DEF CreateSecret, Inv, TypeOK
  <1>2. CASE ~AlreadyExists
    BY <1>2, StoredInv DEF CreateSecret, AlreadyExists
  <1>. QED BY <1>1, <1>2

LEMMA UpdateSecretInv ==
  ASSUME Inv, NEW r \in Replicas, UpdateSecret(r) PROVE Inv'
  <1>1. CASE secret = None
    BY <1>1, ExitInv DEF UpdateSecret, Inv, TypeOK
  <1>2. CASE secret # None
    BY <1>2, StoredInv DEF UpdateSecret
  <1>. QED BY <1>1, <1>2

\* Reading a configuration: the CABundle to write is the one found, or that of the secret held.
LEMMA GetConfigInv ==
  ASSUME Inv, NEW r \in Replicas, GetConfig(r) PROVE Inv'
  <1> USE DEF Inv
  <1>1. CertOf(r) /\ CertOfAPI /\ at[r] \in Configs
    BY CertSplit DEF TypeOK, TypeReplicas
  <1>2. BundleFor(r, bundle[at[r]]) \in stored
    BY <1>1 DEF BundleFor, CertOf, CertOfAPI, GetConfig, SecretDone
  <1>3. stored \subseteq Maybe
    BY DEF TypeOK, Maybe
  <1>4. TypeOK'
    BY <1>2, <1>3 DEF GetConfig, Goto, apiVars, fileVars, TypeOK, TypeReplicas, Steps
  <1>5. CertOfAPI'
    BY <1>1 DEF GetConfig, CertOfAPI, apiVars
  <1>6. ASSUME NEW q \in Replicas PROVE CertOf(q)'
    <2>1. CertOf(q)
      BY CertSplit
    <2>2. CASE q # r
      <3>1. pc'[q] = pc[q] /\ conf'[q] = conf[q] /\ current'[q] = current[q]
        BY <2>2 DEF GetConfig, Goto, TypeOK, TypeReplicas
      <3>. QED BY <2>1, <3>1 DEF CertOf, GetConfig, apiVars, fileVars
    <2>3. CASE q = r
      <3>1. conf'[r] = BundleFor(r, bundle[at[r]]) /\ pc'[r] = "updateConfig"
        BY DEF GetConfig, Goto, TypeOK, TypeReplicas
      <3>. QED BY <1>1, <1>2, <2>3, <3>1
           DEF CertOf, GetConfig, BundleFor, apiVars, fileVars, SecretDone, ConfigsDone
    <2>. QED BY <2>2, <2>3
  <1>. QED BY <1>4, <1>5, <1>6, CertSplitNext

\* Writing a configuration: an update that is not in conflict keeps the CABundle that is there;
\* one that changes it leaves every other copy of this configuration outdated.
LEMMA UpdateConfigInv ==
  ASSUME Inv, NEW r \in Replicas, UpdateConfig(r) PROVE Inv'
  <1> USE DEF Inv
  <1>1. CASE Conflict(r)
    BY <1>1, ExitInv DEF UpdateConfig, GiveUp, apiVars, TypeOK
  <1>2. CASE ~Conflict(r)
    <2> DEFINE c == at[r]
    <2>1. /\ bundle' = [bundle EXCEPT ![c] = conf[r]]
          /\ current' = IF bundle' = bundle THEN current ELSE Outdated(c)
          /\ pc' = [pc EXCEPT ![r] = IF c = "mutating" THEN "getConfig" ELSE "writeKey"]
          /\ at' = [at EXCEPT ![r] = "validating"]
          /\ UNCHANGED <<held, conf, key, crt, secret, stored, used, crashes, operations>>
          /\ current[r] /\ pc[r] = "updateConfig"
      BY <1>2 DEF UpdateConfig, Goto, fileVars, Conflict
    <2>2. CertOf(r) /\ CertOfAPI /\ c \in Configs /\ conf[r] \in stored /\ conf[r] \in Maybe
      BY <2>1, CertSplit DEF TypeOK, TypeReplicas, CertOf
    <2>3. conf[r] # None
      BY <2>2, CertAssumption DEF TypeOK
    <2>4. bundle[c] # None => conf[r] = bundle[c]
      BY <2>1, <2>2 DEF CertOf
    <2>5. /\ bundle'[c] = conf[r]
          /\ \A d \in Configs : d # c => bundle'[d] = bundle[d]
      BY <2>1, <2>2 DEF TypeOK
    <2>6. TypeOK'
      BY <2>1, <2>2 DEF TypeOK, TypeReplicas, Steps, Configs, Outdated
    <2>7. CertOfAPI'
      BY <2>1, <2>2, <2>5 DEF CertOfAPI
    <2>8. \A d \in Configs : bundle[d] # None => bundle'[d] = bundle[d]
      BY <2>4, <2>5
    <2>9. ASSUME NEW q \in Replicas PROVE CertOf(q)'
      <3>1. CertOf(q) /\ at[q] \in Configs /\ "mutating" \in Configs
        BY CertSplit DEF TypeOK, TypeReplicas, Configs
      <3>2. CASE q # r
        <4>1. pc'[q] = pc[q] /\ at'[q] = at[q] /\ held'[q] = held[q] /\ conf'[q] = conf[q]
              /\ key'[q] = key[q] /\ crt'[q] = crt[q] /\ stored' = stored /\ used' = used
          BY <2>1, <3>2 DEF TypeOK, TypeReplicas
        <4>2. pc'[q] = "updateConfig" /\ current'[q] /\ bundle'[at'[q]] # None => conf'[q] = bundle'[at'[q]]
          <5>1. CASE bundle' = bundle
            BY <2>1, <3>1, <4>1, <5>1 DEF CertOf
          <5>2. CASE bundle' # bundle
            <6>1. SUFFICES ASSUME pc[q] = "updateConfig", current'[q], bundle'[at[q]] # None
                           PROVE  conf[q] = bundle'[at[q]]
              BY <4>1
            <6>2. current[q] /\ at[q] # c
              BY <2>1, <5>2, <6>1 DEF Outdated
            <6>3. bundle'[at[q]] = bundle[at[q]]
              BY <2>5, <3>1, <6>2
            <6>. QED BY <3>1, <6>1, <6>2, <6>3 DEF CertOf
          <5>. QED BY <5>1, <5>2
        <4>3. at'[q] = "validating" => bundle'["mutating"] # None
          BY <2>8, <3>1, <4>1 DEF CertOf
        <4>4. pc'[q] \in ConfigsDone => \A d \in Configs : bundle'[d] # None
          BY <2>8, <3>1, <4>1 DEF CertOf
        <4>. QED BY <3>1, <4>1, <4>2, <4>3, <4>4 DEF CertOf
      <3>3. CASE q = r
        <4>1. /\ pc'[r] = (IF c = "mutating" THEN "getConfig" ELSE "writeKey")
              /\ at'[r] = "validating" /\ held[r] \in stored
          BY <2>1, <2>2 DEF TypeOK, TypeReplicas, CertOf, SecretDone
        <4>2. bundle'["mutating"] # None
          BY <2>2, <2>3, <2>5, <2>8, <3>1 DEF Configs, CertOf
        <4>3. c # "mutating" => \A d \in Configs : bundle'[d] # None
          BY <2>2, <2>3, <2>5, <4>2 DEF Configs
        <4>. QED BY <2>1, <3>3, <4>1, <4>2, <4>3 DEF CertOf, SecretDone, ConfigsDone
      <3>. QED BY <3>2, <3>3
    <2>. QED BY <2>6, <2>7, <2>9, CertSplitNext
  <1>. QED BY <1>1, <1>2

\* Writing the files.
LEMMA FilesInv ==
  ASSUME Inv, NEW r \in Replicas, WriteKey(r) \/ WriteCrt(r) PROVE Inv'
  <1> USE DEF Inv
  <1>1. TypeOK'
    BY DEF WriteKey, WriteCrt, Written, Goto, apiVars, TypeOK, TypeReplicas, Steps
  <1>2. CertOfAPI'
    BY CertSplit DEF WriteKey, WriteCrt, CertOfAPI, apiVars
  <1>3. ASSUME NEW q \in Replicas PROVE CertOf(q)'
    <2>1. CertOf(q)
      BY CertSplit
    <2>2. UNCHANGED <<apiVars, used, at, held, conf, current>>
      BY DEF WriteKey, WriteCrt
    <2>3. CASE q # r
      <3>1. pc'[q] = pc[q] /\ key'[q] = key[q] /\ crt'[q] = crt[q]
        BY <2>3 DEF WriteKey, WriteCrt, Written, Goto, TypeOK, TypeReplicas
      <3>. QED BY <2>1, <2>2, <3>1 DEF CertOf, apiVars
    <2>4. CASE q = r
      <3>1. \/ pc[r] = "writeKey" /\ pc'[r] = "writeCrt" /\ key'[r] = held[r]
            \/ pc[r] = "writeCrt" /\ pc'[r] = "serving" /\ crt'[r] = held[r] /\ key' = key
        BY DEF WriteKey, WriteCrt, Written, Goto, TypeOK, TypeReplicas
      <3>. QED BY <2>1, <2>2, <2>4, <3>1 DEF CertOf, apiVars, SecretDone, ConfigsDone
    <2>. QED BY <2>3, <2>4
  <1>. QED BY <1>1, <1>2, <1>3, CertSplitNext

LEMMA EnvironmentInv ==
  ASSUME Inv, DeleteSecret \/ \E c \in Configs : TouchConfig(c) PROVE Inv'
  <1> USE DEF Inv
  <1>1. crashes' \in 0..MaxCrashes /\ operations' \in 0..MaxOperator
    BY CertAssumption DEF DeleteSecret, TouchConfig, Operation, TypeOK
  <1>2. CASE DeleteSecret
    <2>1. TypeOK'
      BY <1>1, <1>2 DEF DeleteSecret, initVars, fileVars, TypeOK, TypeReplicas, Maybe
    <2>2. CertInv'
      BY <1>2, CertAssumption DEF DeleteSecret, initVars, fileVars, CertInv, FromSecret, UpToDate, BundlesSet, FilesHeld
    <2>. QED BY <2>1, <2>2
  <1>3. ASSUME NEW c \in Configs, TouchConfig(c) PROVE Inv'
    <2>1. TypeOK'
      BY <1>1, <1>3 DEF TouchConfig, Outdated, apiVars, fileVars, TypeOK, TypeReplicas
    <2>2. CertInv'
      BY <1>3 DEF TouchConfig, Outdated, apiVars, fileVars, CertInv, FromSecret, UpToDate, BundlesSet, FilesHeld
    <2>. QED BY <2>1, <2>2
  <1>. QED BY <1>2, <1>3

LEMMA NextInv == Inv /\ [Next]_vars => Inv'
  <1> SUFFICES ASSUME Inv, [Next]_vars PROVE Inv'
    OBVIOUS
  <1>1. ASSUME NEW r \in Replicas, Initialize(r) PROVE Inv'
    BY <1>1, GetSecretInv, CreateSecretInv, UpdateSecretInv, GetConfigInv, UpdateConfigInv, FilesInv DEF Initialize
  <1>2. ASSUME NEW r \in Replicas, Crash(r) PROVE Inv'
    <2>1. crashes' \in 0..MaxCrashes
      BY <1>2, CertAssumption DEF Crash, Inv, TypeOK
    <2>. QED BY <1>2, <2>1, ExitInv DEF Crash, Inv, TypeOK
  <1>3. CASE UNCHANGED vars
    BY <1>3 DEF vars, apiVars, initVars, fileVars, Inv, TypeOK, TypeReplicas,
                CertInv, FromSecret, UpToDate, BundlesSet, FilesHeld
  <1>. QED BY <1>1, <1>2, <1>3, EnvironmentInv DEF Next

-----------------------------------------------------------------------------
LEMMA AlwaysInv == Spec => []Inv
  BY InitInv, NextInv, PTL DEF Spec

\* Every variable keeps its type: whatever replicas, crashes and operators do, none ever holds,
\* stores or serves with something that is not a complete certificate.
THEOREM CertTypes == Spec => []TypeOK
  BY AlwaysInv, PTL DEF Inv

\* What replicas pass on comes from the secret, the CABundle they write is the one that is there
\* or their update conflicts, and past the configurations both are set.
THEOREM CertInvariant == Spec => []CertInv
  BY AlwaysInv, PTL DEF Inv

\* A serving replica's key and certificate were made together.
THEOREM ServesWithPair == Spec => []FilesPair
  <1>1. Inv => FilesPair
    BY DEF Inv, TypeOK, CertInv, FromSecret, FilesHeld, FilesPair, SecretDone
  <1>. QED BY <1>1, AlwaysInv, PTL

\* As long as only one certificate has ever been stored, every serving replica is trusted.
THEOREM ServesTrusted == Spec => []Trusted
  <1>1. Inv => Trusted
    <2> SUFFICES ASSUME Inv, OneSecret, NEW r \in Replicas, pc[r] = "serving", NEW c \in Configs
                 PROVE  bundle[c] = crt[r]
      BY DEF Trusted
    <2>1. bundle[c] \in stored
      BY DEF Inv, CertInv, FromSecret, BundlesSet, ConfigsDone
    <2>2. crt[r] \in stored
      BY DEF Inv, CertInv, FromSecret, FilesHeld, SecretDone
    <2>. QED BY <2>1, <2>2 DEF OneSecret
  <1>. QED BY <1>1, AlwaysInv, PTL

\* No replica replaces a CABundle that is set: not its own earlier one, not another replica's.
THEOREM BundlesKept == Spec => BundleKept
  <1> DEFINE Kept == \A c \in Configs : bundle[c] # None => bundle'[c] = bundle[c]
  <1>1. ASSUME Inv, Next PROVE Kept
    <2>1. ASSUME NEW r \in Replicas, UpdateConfig(r) PROVE Kept
      <3>1. CASE Conflict(r)
        BY <2>1, <3>1 DEF UpdateConfig
      <3>2. CASE ~Conflict(r)
        <4>1. bundle[at[r]] # None => conf[r] = bundle[at[r]]
          BY <1>1, <2>1, <3>2 DEF UpdateConfig, Conflict, Inv, CertInv, UpToDate
        <4>2. bundle' = [bundle EXCEPT ![at[r]] = conf[r]]
          BY <2>1, <3>2 DEF UpdateConfig
        <4>. QED BY <1>1, <4>1, <4>2 DEF Inv, TypeOK
      <3>. QED BY <3>1, <3>2
    <2>2. ASSUME NEW r \in Replicas, Initialize(r), ~UpdateConfig(r) PROVE UNCHANGED bundle
      BY <2>2 DEF Initialize, GetSecret, CreateSecret, UpdateSecret, GetConfig, WriteKey, WriteCrt, apiVars
    <2>3. ASSUME NEW r \in Replicas, Crash(r) PROVE UNCHANGED bundle
      BY <2>3 DEF Crash, apiVars
    <2>4. ASSUME DeleteSecret \/ \E c \in Configs : TouchConfig(c) PROVE UNCHANGED bundle
      BY <2>4 DEF DeleteSecret, TouchConfig, apiVars
    <2>. QED BY <1>1, <2>1, <2>2, <2>3, <2>4 DEF Next
  <1>2. Inv /\ [Next]_vars => [Kept]_vars
    BY <1>1
  <1>. QED BY <1>2, AlwaysInv, PTL DEF Spec, BundleKept

-----------------------------------------------------------------------------
(* WebhookCerts implements CertTrust. *)

\* A replica that was not serving, and is not after the step, leaves what replicas serve with as it is.
LEMMA ServesSame ==
  ASSUME TypeReplicas, NEW r \in Replicas, NEW step, Goto(r, step), pc[r] # "serving", step # "serving",
         \A q \in Replicas \ {r} : key'[q] = key[q] /\ crt'[q] = crt[q]
  PROVE  ServesWith' = ServesWith
  <1>1. pc' = [pc EXCEPT ![r] = step] /\ pc \in [Replicas -> Steps]
    BY DEF Goto, TypeReplicas
  <1>2. ASSUME NEW q \in Replicas
        PROVE  (IF pc'[q] = "serving" THEN <<key'[q], crt'[q]>> ELSE None)
                 = (IF pc[q] = "serving" THEN <<key[q], crt[q]>> ELSE None)
    BY <1>1, <1>2
  <1>. QED BY <1>2 DEF ServesWith

\* A process that ends stops serving, and that is all.
LEMMA ExitStops ==
  ASSUME TypeReplicas, NEW r \in Replicas, Exit(r), UNCHANGED apiVars
  PROVE  Trust!Stop(r)
  <1>1. pc' = [pc EXCEPT ![r] = "getSecret"] /\ pc \in [Replicas -> Steps]
    BY DEF Exit, Goto, TypeReplicas
  <1>2. \A q \in Replicas \ {r} : key'[q] = key[q] /\ crt'[q] = crt[q]
    BY DEF Exit, TypeReplicas
  <1>3. ASSUME NEW q \in Replicas
        PROVE  (IF pc'[q] = "serving" THEN <<key'[q], crt'[q]>> ELSE None)
                 = (IF q = r THEN None ELSE IF pc[q] = "serving" THEN <<key[q], crt[q]>> ELSE None)
    BY <1>1, <1>2, <1>3
  <1>4. ServesWith' = [ServesWith EXCEPT ![r] = None]
    BY <1>3 DEF ServesWith
  <1>. QED BY <1>4 DEF Trust!Stop, apiVars

\* A certificate that is stored is put forward.
LEMMA StoreOffers ==
  ASSUME Inv, NEW r \in Replicas, CreateSecret(r) \/ UpdateSecret(r)
  PROVE  \/ Trust!Stop(r)
         \/ \E m \in Materials : Trust!Offer(m)
         \/ UNCHANGED Trust!vars
  <1>1. TypeReplicas /\ held[r] \in Materials /\ pc[r] # "serving"
    BY DEF Inv, TypeOK, CertInv, FromSecret, CreateSecret, UpdateSecret
  <1>2. CASE Exit(r) /\ UNCHANGED apiVars
    BY <1>1, <1>2, ExitStops
  <1>3. CASE Goto(r, "getConfig") /\ UNCHANGED <<bundle, fileVars>>
    <2>1. ServesWith' = ServesWith
      BY <1>1, <1>3, ServesSame DEF fileVars
    <2>2. UNCHANGED stored \/ stored' = stored \cup {held[r]}
      BY DEF CreateSecret, UpdateSecret, StoreSecret, apiVars
    <2>. QED BY <1>1, <1>3, <2>1, <2>2 DEF Trust!Offer, Trust!vars
  <1>. QED BY <1>2, <1>3 DEF CreateSecret, UpdateSecret

\* A CABundle that is written was nil, or is written as it is, or the process ends.
LEMMA UpdateDecides ==
  ASSUME Inv, NEW r \in Replicas, UpdateConfig(r)
  PROVE  \/ Trust!Stop(r)
         \/ \E c \in Configs : Trust!Decide(c)
         \/ UNCHANGED Trust!vars
  <1>1. TypeReplicas /\ bundle \in [Configs -> Maybe] /\ at[r] \in Configs /\ pc[r] = "updateConfig"
    BY DEF Inv, TypeOK, TypeReplicas, UpdateConfig
  <1>2. CASE Conflict(r)
    BY <1>1, <1>2, ExitStops DEF UpdateConfig, GiveUp, apiVars
  <1>3. CASE ~Conflict(r)
    <2>1. /\ bundle' = [bundle EXCEPT ![at[r]] = conf[r]]
          /\ Goto(r, IF at[r] = "mutating" THEN "getConfig" ELSE "writeKey")
          /\ UNCHANGED <<fileVars, stored>>
      BY <1>3 DEF UpdateConfig
    <2>2. conf[r] \in stored /\ (bundle[at[r]] # None => conf[r] = bundle[at[r]])
      BY <1>1, <1>3 DEF Conflict, Inv, CertInv, FromSecret, UpToDate
    <2>3. ServesWith' = ServesWith
      BY <1>1, <2>1, ServesSame DEF fileVars
    <2>4. CASE bundle[at[r]] = None
      BY <1>1, <2>1, <2>2, <2>3, <2>4 DEF Trust!Decide
    <2>5. CASE bundle[at[r]] # None
      <3>1. bundle' = bundle
        BY <1>1, <2>1, <2>2, <2>5
      <3>. QED BY <2>1, <2>3, <3>1 DEF Trust!vars
    <2>. QED BY <2>4, <2>5
  <1>. QED BY <1>2, <1>3

\* With its second file a replica comes to serve with both.
LEMMA WriteServes ==
  ASSUME Inv, NEW r \in Replicas, WriteCrt(r)
  PROVE  Trust!Serve(r)
  <1>1. /\ pc[r] = "writeCrt" /\ pc' = [pc EXCEPT ![r] = "serving"] /\ pc \in [Replicas -> Steps]
        /\ key' = key /\ crt' = [crt EXCEPT ![r] = held[r]] /\ crt \in [Replicas -> Maybe]
    BY DEF WriteCrt, Goto, Written, Inv, TypeOK, TypeReplicas
  <1>2. held[r] \in stored /\ key[r] = held[r] /\ \A c \in Configs : bundle[c] # None
    BY <1>1 DEF Inv, CertInv, FromSecret, FilesHeld, BundlesSet, SecretDone, ConfigsDone
  <1>3. ASSUME NEW q \in Replicas
        PROVE  (IF pc'[q] = "serving" THEN <<key'[q], crt'[q]>> ELSE None)
                 = (IF q = r THEN <<held[r], held[r]>>
                    ELSE IF pc[q] = "serving" THEN <<key[q], crt[q]>> ELSE None)
    BY <1>1, <1>2, <1>3
  <1>4. ServesWith' = [ServesWith EXCEPT ![r] = <<held[r], held[r]>>]
    BY <1>3 DEF ServesWith
  <1>5. ServesWith[r] = None
    BY <1>1 DEF ServesWith
  <1>. QED BY <1>2, <1>4, <1>5 DEF Trust!Serve, WriteCrt, apiVars

\* However replicas race, crash and start again, they do what CertTrust says.
THEOREM ImplementsTrust == Spec => KeepsTrust
  <1>1. Init => Trust!Init
    <2>. SUFFICES ASSUME Init PROVE Trust!Init
      OBVIOUS
    <2>1. stored \in SUBSET Materials /\ \A c \in Configs : bundle[c] # None => bundle[c] \in stored
      BY InitInv DEF Inv, TypeOK, CertInv, FromSecret
    <2>2. bundle \in [Configs -> stored \cup {None}]
      BY <2>1, InitInv DEF Inv, TypeOK
    <2>3. ServesWith = [r \in Replicas |-> None]
      BY DEF ServesWith, Init
    <2>. QED BY <2>1, <2>2, <2>3 DEF Trust!Init
  <1>2. Inv /\ [Next]_vars => [Trust!Next]_(Trust!vars)
    <2>. SUFFICES ASSUME Inv, [Next]_vars PROVE Trust!Next \/ UNCHANGED Trust!vars
      OBVIOUS
    <2>0. TypeReplicas
      BY DEF Inv, TypeOK
    <2>1. ASSUME NEW r \in Replicas, GetSecret(r) PROVE UNCHANGED Trust!vars
      <3>1. UNCHANGED <<stored, bundle>>
        BY <2>1 DEF GetSecret, apiVars
      <3>2. ServesWith' = ServesWith
        BY <2>0, <2>1, ServesSame DEF GetSecret, fileVars
      <3>. QED BY <3>1, <3>2 DEF Trust!vars
    <2>2. ASSUME NEW r \in Replicas, GetConfig(r) PROVE UNCHANGED Trust!vars
      <3>1. UNCHANGED <<stored, bundle>>
        BY <2>2 DEF GetConfig, apiVars
      <3>2. ServesWith' = ServesWith
        BY <2>0, <2>2, ServesSame DEF GetConfig, fileVars
      <3>. QED BY <3>1, <3>2 DEF Trust!vars
    <2>3. ASSUME NEW r \in Replicas, WriteKey(r) PROVE UNCHANGED Trust!vars
      <3>1. UNCHANGED <<stored, bundle, crt>> /\ key' = [key EXCEPT ![r] = held[r]]
        BY <2>3 DEF WriteKey, Written, apiVars
      <3>2. ServesWith' = ServesWith
        BY <2>0, <2>3, <3>1, ServesSame DEF WriteKey, TypeReplicas
      <3>. QED BY <3>1, <3>2 DEF Trust!vars
    <2>4. ASSUME NEW r \in Replicas, Crash(r) PROVE Trust!Stop(r)
      BY <2>0, <2>4, ExitStops DEF Crash
    <2>5. ASSUME DeleteSecret \/ \E c \in Configs : TouchConfig(c) PROVE UNCHANGED Trust!vars
      BY <2>5 DEF DeleteSecret, TouchConfig, apiVars, initVars, fileVars, ServesWith, Trust!vars
    <2>6. CASE UNCHANGED vars
      BY <2>6 DEF vars, apiVars, initVars, fileVars, ServesWith, Trust!vars
    <2>. QED BY <2>1, <2>2, <2>3, <2>4, <2>5, <2>6, StoreOffers, UpdateDecides, WriteServes
             DEF Next, Initialize, Trust!Next
  <1>. QED BY <1>1, <1>2, AlwaysInv, PTL DEF Spec, KeepsTrust, Trust!Spec
=============================================================================
