------------------------- MODULE RegistrationProofs -------------------------
(***************************************************************************)
(* Theorems about Registration, for every set of clusters, commands, names *)
(* and kubeconfigs and every value of the bounds.                          *)
(***************************************************************************)
EXTENDS Registration, TLAPS

Entry(e) == destSecret[Dest(e)][Args[e].name]

\* A running command has an attempt left.
InLoop == \A e \in Command : pc[e] \in Active => attempt[e] < MaxAttempts

\* Tokens in secrets, and the one a command is about to copy, were issued by
\* the cluster they are taken for.
SecretsIssued ==
    \A c \in Cluster, s \in SecretName : secret[c][s] # Absent => secret[c][s] <= issued[c]
PickedIssued ==
    \A e \in Command : pc[e] = "putSecret" => picked[e] \in 1..issued[Source(e)]

\* An entry under a name no other command uses is the command's own.
OwnEntry ==
    \A e \in Command : OwnName(e) /\ Entry(e) # Absent => Entry(e).issuer = Source(e)

\* The entry is there before the ClientConfig, and the ClientConfig at the end.
InOrder ==
    \A e \in Command :
        /\ pc[e] \in {"putConfig", "done"} => Entry(e) # Absent
        /\ pc[e] = "done" => <<Dest(e), Args[e].name>> \in clientConfig

\* The inductive invariant.
IndInv ==
    /\ TypeOK /\ InLoop
    /\ SecretsIssued /\ PickedIssued /\ CredentialsMatchServer
    /\ OwnEntry /\ InOrder

-----------------------------------------------------------------------------
(* Facts about the kubeconfigs. *)

LEMMA ClustersOfArgs ==
  ASSUME NEW e \in Command
  PROVE  /\ Source(e) \in Cluster /\ Dest(e) \in Cluster
         /\ Args[e].name \in Name
         /\ Host(e) = Source(e)
<1>1. Args[e] \in Arguments
  BY ArgsAssumption
<1>2. Resolve(Args[e].srcPath) \in Path /\ Resolve(Args[e].dstPath) \in Path
  BY <1>1, ArgsAssumption DEF Resolve, Arguments
<1>3. Source(e) \in Cluster /\ Dest(e) \in Cluster
  BY <1>1, <1>2, ArgsAssumption DEF Source, Dest, Arguments
<1>4. Host(e) = Source(e)
  BY OverrideAssumption DEF Host, Source, Resolve
<1>. QED
  BY <1>1, <1>3, <1>4 DEF Arguments

\* What PutSecret writes is a credential.
LEMMA PutIsCredential ==
  ASSUME NEW e \in Command, NEW t \in Nat \ {0}
  PROVE  [server |-> Host(e), issuer |-> Source(e), token |-> t] \in Credential
  BY ClustersOfArgs DEF Credential

-----------------------------------------------------------------------------
(* Type correctness. *)

LEMMA InitInv == Init => IndInv
<1>. SUFFICES ASSUME Init PROVE IndInv
  OBVIOUS
<1>1. \A c \in Cluster, s \in SecretName : secret[c][s] \in {Absent, 0}
  BY DEF Init
<1>2. TypeOK
  BY <1>1, BoundAssumption, AbsentAssumption DEF Init, TypeOK, Ended
<1>3. SecretsIssued
  BY <1>1, <1>2 DEF Init, SecretsIssued
<1>4. \A d \in Cluster, n \in Name : destSecret[d][n] = Absent
  BY DEF Init
<1>. QED
  BY <1>2, <1>3, <1>4, ClustersOfArgs
  DEF Init, IndInv, InLoop, PickedIssued, CredentialsMatchServer, OwnEntry, InOrder, Entry, Active

\* A failed attempt leaves a well-typed loop.
LEMMA FailsType ==
  ASSUME TypeOK, InLoop, NEW e \in Command, pc[e] \in Active,
         NEW kind \in {"recoverable", "nonrecoverable"}, Fails(e, kind)
  PROVE  /\ pc' \in [Command -> Active \cup Ended]
         /\ attempt' \in [Command -> 0..MaxAttempts]
         /\ picked' \in [Command -> Nat]
         /\ lastError' \in [Command -> {"none", "recoverable", "nonrecoverable"}]
         /\ exit' \in [Command -> {"none", "0"}]
         /\ InLoop'
         /\ \A f \in Command : pc'[f] \notin {"attempt", "exhausted"} => f # e /\ pc'[f] = pc[f]
<1>1. attempt[e] \in 0..MaxAttempts /\ attempt[e] < MaxAttempts
  BY DEF TypeOK, InLoop
<1>2. attempt' \in [Command -> 0..MaxAttempts]
  BY <1>1, BoundAssumption DEF TypeOK, Fails
<1>3. InLoop'
  BY <1>1, BoundAssumption DEF TypeOK, Fails, Goto, InLoop, Active
<1>. QED
  BY <1>1, <1>2, <1>3 DEF TypeOK, Fails, Goto, Active, Ended

LEMMA StepType == IndInv /\ [Next]_vars => TypeOK' /\ InLoop'
<1>. SUFFICES ASSUME IndInv, [Next]_vars PROVE TypeOK' /\ InLoop'
  OBVIOUS
<1>. USE DEF IndInv, source, dest, bounds
<1>1. ASSUME NEW e \in Command, Start(e) PROVE TypeOK' /\ InLoop'
  BY <1>1, BoundAssumption DEF Start, TypeOK, InLoop, Goto, Active, Ended
<1>2. ASSUME NEW e \in Command, Attempt(e) PROVE TypeOK' /\ InLoop'
  <2>1. CASE LooksLikeSelf(e)
    BY <1>2, <2>1, FailsType DEF Attempt, TypeOK, Active
  <2>2. CASE ~LooksLikeSelf(e)
    BY <1>2, <2>2 DEF Attempt, TypeOK, InLoop, Goto, Active
  <2>. QED
    BY <2>1, <2>2
<1>3. ASSUME NEW e \in Command, GetAccount(e) PROVE TypeOK' /\ InLoop'
  BY <1>3 DEF GetAccount, TypeOK, InLoop, Goto, Active
<1>4. ASSUME NEW e \in Command, CreateAccount(e) PROVE TypeOK' /\ InLoop'
  BY <1>4, FailsType, ClustersOfArgs DEF CreateAccount, TypeOK, Active
<1>5. ASSUME NEW e \in Command, ListSecrets(e) PROVE TypeOK' /\ InLoop'
  <2>1. CASE Found(Source(e)) = {} /\ Goto(e, "createSecret")
             /\ UNCHANGED <<attempt, picked, lastError, exit>>
    BY <1>5, <2>1 DEF ListSecrets, TypeOK, InLoop, Goto, Active
  <2>2. CASE Fails(e, "recoverable")
    BY <1>5, <2>2, FailsType DEF ListSecrets, TypeOK, Active
  <2>3. ASSUME NEW s \in First(Source(e)), secret[Source(e)][s] # 0, Goto(e, "putSecret"),
               picked' = [picked EXCEPT ![e] = secret[Source(e)][s]],
               UNCHANGED <<attempt, lastError, exit>>
        PROVE  TypeOK' /\ InLoop'
    <3>1. secret[Source(e)][s] \in Nat
      BY ClustersOfArgs DEF First, Found, TypeOK
    <3>. QED
      BY <1>5, <2>3, <3>1 DEF ListSecrets, TypeOK, InLoop, Goto, Active
  <2>. QED
    BY <1>5, <2>1, <2>2, <2>3 DEF ListSecrets
<1>6. ASSUME NEW e \in Command, CreateSecret(e) PROVE TypeOK' /\ InLoop'
  <2>1. secret' \in [Cluster -> [SecretName -> Nat \cup {Absent}]]
    BY <1>6, ClustersOfArgs, SecretAssumption DEF CreateSecret, TypeOK
  <2>. QED
    BY <1>6, <2>1, FailsType DEF CreateSecret, TypeOK, Active
<1>7. ASSUME NEW e \in Command, PutSecret(e) PROVE TypeOK' /\ InLoop'
  <2>1. picked[e] \in Nat \ {0}
    BY <1>7, ClustersOfArgs DEF PutSecret, PickedIssued, TypeOK
  <2>2. destSecret' \in [Cluster -> [Name -> Credential \cup {Absent}]]
    BY <1>7, <2>1, PutIsCredential, ClustersOfArgs DEF PutSecret, TypeOK
  <2>. QED
    BY <1>7, <2>2 DEF PutSecret, TypeOK, InLoop, Goto, Active
<1>8. ASSUME NEW e \in Command, PutConfig(e) PROVE TypeOK' /\ InLoop'
  BY <1>8, ClustersOfArgs DEF PutConfig, TypeOK, InLoop, Goto, Active, Ended
<1>9. ASSUME NEW e \in Command, CallFails(e) PROVE TypeOK' /\ InLoop'
  BY <1>9, FailsType, BoundAssumption DEF CallFails, TypeOK
<1>10. ASSUME NEW e \in Command, Kill(e) PROVE TypeOK' /\ InLoop'
  BY <1>10, BoundAssumption DEF Kill, TypeOK, InLoop, Goto, Active, Ended
<1>11. ASSUME NEW c \in Cluster, NEW s \in SecretName, FillSecret(c, s)
       PROVE  TypeOK' /\ InLoop'
  <2>1. issued[c] + 1 \in Nat
    BY DEF TypeOK
  <2>. QED
    BY <1>11, <2>1 DEF FillSecret, TypeOK, InLoop
<1>12. ASSUME NEW c \in Cluster, NEW s \in SecretName, Rotate(c, s)
       PROVE  TypeOK' /\ InLoop'
  BY <1>12, BoundAssumption DEF Rotate, TypeOK, InLoop
<1>13. CASE UNCHANGED vars
  BY <1>13 DEF vars, TypeOK, InLoop
<1>. QED
  BY <1>1, <1>2, <1>3, <1>4, <1>5, <1>6, <1>7, <1>8, <1>9, <1>10, <1>11, <1>12, <1>13
  DEF Next, Step

-----------------------------------------------------------------------------
(* Tokens: only FillSecret issues one, and no step forgets one. *)

LEMMA IssuedGrows ==
  ASSUME IndInv, [Next]_vars, NEW c \in Cluster
  PROVE  issued[c] \in Nat /\ issued'[c] \in Nat /\ issued[c] <= issued'[c]
<1>. USE DEF IndInv, TypeOK, source, dest
<1>1. issued[c] \in Nat
  OBVIOUS
<1>2. ASSUME NEW d \in Cluster, NEW s \in SecretName, FillSecret(d, s)
      PROVE  issued'[c] \in Nat /\ issued[c] <= issued'[c]
  BY <1>1, <1>2 DEF FillSecret
<1>3. CASE issued' = issued
  BY <1>1, <1>3
<1>. QED
  BY <1>1, <1>2, <1>3 DEF Next, Step, vars, Start, Attempt, GetAccount, CreateAccount,
     ListSecrets, CreateSecret, PutSecret, PutConfig, CallFails, Kill, Rotate

LEMMA SecretsStep == IndInv /\ [Next]_vars => SecretsIssued'
<1>. SUFFICES ASSUME IndInv, [Next]_vars PROVE SecretsIssued'
  OBVIOUS
<1>. SUFFICES ASSUME NEW c \in Cluster, NEW s \in SecretName, secret'[c][s] # Absent
              PROVE  secret'[c][s] <= issued'[c]
  BY DEF SecretsIssued
<1>. USE DEF IndInv, TypeOK, SecretsIssued, source, dest
<1>1. issued[c] \in Nat /\ issued'[c] \in Nat /\ issued[c] <= issued'[c]
  BY IssuedGrows
<1>2. secret[c][s] # Absent => secret[c][s] \in Nat /\ secret[c][s] <= issued[c]
  BY AbsentAssumption
<1>3. ASSUME NEW e \in Command, CreateSecret(e) PROVE secret'[c][s] <= issued'[c]
  <2>1. secret'[c][s] = 0 \/ secret'[c][s] = secret[c][s]
    BY <1>3, ClustersOfArgs DEF CreateSecret
  <2>. QED
    BY <1>1, <1>2, <2>1
<1>4. ASSUME NEW d \in Cluster, NEW t \in SecretName, FillSecret(d, t)
      PROVE  secret'[c][s] <= issued'[c]
  <2>1. CASE d = c /\ t = s
    BY <1>1, <1>4, <2>1 DEF FillSecret
  <2>2. CASE ~(d = c /\ t = s)
    <3>1. secret'[c][s] = secret[c][s]
      BY <1>4, <2>2 DEF FillSecret
    <3>. QED
      BY <1>1, <1>2, <3>1
  <2>. QED
    BY <2>1, <2>2
<1>5. ASSUME NEW d \in Cluster, NEW t \in SecretName, Rotate(d, t)
      PROVE  secret'[c][s] <= issued'[c]
  <2>1. secret'[c][s] = secret[c][s]
    BY <1>5 DEF Rotate
  <2>. QED
    BY <1>1, <1>2, <2>1
<1>6. CASE secret' = secret
  BY <1>1, <1>2, <1>6
<1>. QED
  BY <1>3, <1>4, <1>5, <1>6 DEF Next, Step, vars, Start, Attempt, GetAccount, CreateAccount,
     ListSecrets, PutSecret, PutConfig, CallFails, Kill

LEMMA PickedStep == IndInv /\ [Next]_vars => PickedIssued'
<1>. SUFFICES ASSUME IndInv, [Next]_vars, NEW e \in Command, pc'[e] = "putSecret"
              PROVE  picked'[e] \in 1..issued'[Source(e)]
  BY DEF PickedIssued
<1>. USE DEF IndInv, source, dest
<1>. DEFINE c == Source(e)
<1>1. issued[c] \in Nat /\ issued'[c] \in Nat /\ issued[c] <= issued'[c]
  BY IssuedGrows, ClustersOfArgs
<1>2. CASE pc[e] = "putSecret" /\ picked'[e] = picked[e]
  <2>1. picked[e] \in 1..issued[c]
    BY <1>2 DEF PickedIssued
  <2>. QED
    BY <1>1, <1>2, <2>1
<1>3. CASE ListSecrets(e) /\ ~Fails(e, "recoverable")
  <2>1. PICK s \in First(c) : secret[c][s] # 0 /\ picked' = [picked EXCEPT ![e] = secret[c][s]]
    BY <1>3 DEF ListSecrets, Goto, TypeOK
  <2>2. s \in SecretName /\ secret[c][s] # Absent
    BY <2>1 DEF First, Found
  <2>3. secret[c][s] \in Nat /\ secret[c][s] <= issued[c]
    BY <2>2, ClustersOfArgs DEF TypeOK, SecretsIssued
  <2>4. picked'[e] = secret[c][s]
    BY <2>1 DEF TypeOK
  <2>. QED
    BY <1>1, <2>1, <2>3, <2>4
<1>4. ASSUME NEW f \in Command, NEW kind, Fails(f, kind)
      PROVE  pc[e] = "putSecret" /\ picked'[e] = picked[e]
  BY <1>4 DEF Fails, Goto, TypeOK
<1>5. ASSUME NEW f \in Command, ListSecrets(f), f # e
      PROVE  pc[e] = "putSecret" /\ picked'[e] = picked[e]
  BY <1>4, <1>5 DEF ListSecrets, Goto, TypeOK
<1>6. ASSUME NEW f \in Command, Start(f) \/ GetAccount(f) \/ PutSecret(f) \/ PutConfig(f) \/ Kill(f)
      PROVE  pc[e] = "putSecret" /\ picked'[e] = picked[e]
  BY <1>6 DEF Start, GetAccount, PutSecret, PutConfig, Kill, Goto, TypeOK
<1>7. ASSUME NEW f \in Command, Attempt(f) PROVE pc[e] = "putSecret" /\ picked'[e] = picked[e]
  BY <1>4, <1>7 DEF Attempt, Goto, TypeOK
<1>8. ASSUME NEW f \in Command, CreateAccount(f) \/ CreateSecret(f) \/ CallFails(f)
      PROVE  pc[e] = "putSecret" /\ picked'[e] = picked[e]
  BY <1>4, <1>8 DEF CreateAccount, CreateSecret, CallFails
<1>9. ASSUME NEW d \in Cluster, NEW s \in SecretName, FillSecret(d, s) \/ Rotate(d, s)
      PROVE  pc[e] = "putSecret" /\ picked'[e] = picked[e]
  BY <1>9 DEF FillSecret, Rotate
<1>10. CASE UNCHANGED vars
  BY <1>10, <1>2 DEF vars
<1>. QED
  BY <1>2, <1>3, <1>4, <1>5, <1>6, <1>7, <1>8, <1>9, <1>10 DEF Next, Step

-----------------------------------------------------------------------------
(* Entries: only PutSecret writes one, and only where there is none. *)

LEMMA OnlyPutSecretWrites ==
  ASSUME [Next]_vars, \A e \in Command : ~PutSecret(e)
  PROVE  destSecret' = destSecret
  BY DEF Next, Step, vars, source, dest, Start, Attempt, GetAccount, CreateAccount,
     ListSecrets, CreateSecret, PutConfig, CallFails, Kill, FillSecret, Rotate

\* What PutSecret does to the entry under any name.
LEMMA PutSecretEntries ==
  ASSUME IndInv, NEW e \in Command, PutSecret(e), NEW d \in Cluster, NEW n \in Name
  PROVE  \/ destSecret'[d][n] = destSecret[d][n]
         \/ /\ d = Dest(e) /\ n = Args[e].name
            /\ destSecret[d][n] = Absent
            /\ destSecret'[d][n] =
                  [server |-> Source(e), issuer |-> Source(e), token |-> picked[e]]
  BY ClustersOfArgs DEF IndInv, TypeOK, PutSecret

LEMMA EntriesStep ==
  ASSUME IndInv, [Next]_vars, NEW d \in Cluster, NEW n \in Name
  PROVE  \/ destSecret'[d][n] = destSecret[d][n]
         \/ \E e \in Command :
            /\ d = Dest(e) /\ n = Args[e].name
            /\ destSecret[d][n] = Absent
            /\ picked[e] \in 1..issued[Source(e)]
            /\ destSecret'[d][n] =
                  [server |-> Source(e), issuer |-> Source(e), token |-> picked[e]]
<1>1. ASSUME NEW e \in Command, PutSecret(e)
      PROVE  \/ destSecret'[d][n] = destSecret[d][n]
             \/ /\ d = Dest(e) /\ n = Args[e].name
                /\ destSecret[d][n] = Absent
                /\ picked[e] \in 1..issued[Source(e)]
                /\ destSecret'[d][n] =
                      [server |-> Source(e), issuer |-> Source(e), token |-> picked[e]]
  <2>1. picked[e] \in 1..issued[Source(e)]
    BY <1>1 DEF IndInv, PickedIssued, PutSecret
  <2>. QED
    BY <1>1, <2>1, PutSecretEntries
<1>2. CASE \A e \in Command : ~PutSecret(e)
  BY <1>2, OnlyPutSecretWrites
<1>. QED
  BY <1>1, <1>2

LEMMA CredentialsStep == IndInv /\ [Next]_vars => CredentialsMatchServer'
<1>. SUFFICES ASSUME IndInv, [Next]_vars, NEW d \in Cluster, NEW n \in Name,
                     destSecret'[d][n] # Absent
              PROVE  /\ destSecret'[d][n].server = destSecret'[d][n].issuer
                     /\ destSecret'[d][n].token \in 1..issued'[destSecret'[d][n].issuer]
  BY DEF CredentialsMatchServer
<1>1. CASE destSecret'[d][n] = destSecret[d][n]
  <2>. DEFINE s == destSecret[d][n]
  <2>1. s \in Credential
    BY <1>1 DEF IndInv, TypeOK
  <2>2. s.issuer \in Cluster /\ s.token \in Nat \ {0}
    BY <2>1 DEF Credential
  <2>3. s.server = s.issuer /\ s.token \in 1..issued[s.issuer]
    BY <1>1 DEF IndInv, CredentialsMatchServer
  <2>4. /\ issued[s.issuer] \in Nat /\ issued'[s.issuer] \in Nat
        /\ issued[s.issuer] <= issued'[s.issuer]
    BY <2>2, IssuedGrows
  <2>. QED
    BY <1>1, <2>3, <2>4
<1>2. ASSUME NEW e \in Command, picked[e] \in 1..issued[Source(e)],
             destSecret'[d][n] =
                  [server |-> Source(e), issuer |-> Source(e), token |-> picked[e]]
      PROVE  /\ destSecret'[d][n].server = destSecret'[d][n].issuer
             /\ destSecret'[d][n].token \in 1..issued'[destSecret'[d][n].issuer]
  <2>1. /\ issued[Source(e)] \in Nat /\ issued'[Source(e)] \in Nat
        /\ issued[Source(e)] <= issued'[Source(e)]
    BY IssuedGrows, ClustersOfArgs
  <2>. QED
    BY <1>2, <2>1
<1>. QED
  BY <1>1, <1>2, EntriesStep

LEMMA OwnEntryStep == IndInv /\ [Next]_vars => OwnEntry'
<1>. SUFFICES ASSUME IndInv, [Next]_vars, NEW e \in Command, OwnName(e), Entry(e)' # Absent
              PROVE  Entry(e)'.issuer = Source(e)
  BY DEF OwnEntry, OwnName, Entry, Source, Dest, Resolve
<1>. DEFINE d == Dest(e)
            n == Args[e].name
<1>0. d \in Cluster /\ n \in Name /\ Entry(e)' = destSecret'[d][n]
  BY ClustersOfArgs DEF Entry, Dest, Resolve
<1>1. CASE destSecret'[d][n] = destSecret[d][n]
  BY <1>0, <1>1 DEF IndInv, OwnEntry, Entry
<1>2. ASSUME NEW f \in Command, d = Dest(f), n = Args[f].name,
             destSecret'[d][n].issuer = Source(f)
      PROVE  Entry(e)'.issuer = Source(e)
  <2>1. f = e
    BY <1>2 DEF OwnName
  <2>. QED
    BY <1>0, <1>2, <2>1
<1>3. \/ destSecret'[d][n] = destSecret[d][n]
      \/ \E f \in Command : /\ d = Dest(f) /\ n = Args[f].name
                            /\ destSecret'[d][n].issuer = Source(f)
  <2>1. ASSUME NEW f \in Command,
               destSecret'[d][n] =
                   [server |-> Source(f), issuer |-> Source(f), token |-> picked[f]]
        PROVE  destSecret'[d][n].issuer = Source(f)
    BY <2>1
  <2>. HIDE DEF d, n
  <2>. QED
    BY <1>0, <2>1, EntriesStep
<1>. QED
  BY <1>1, <1>2, <1>3

-----------------------------------------------------------------------------
(* The order of a registration: entry, ClientConfig, success. *)

LEMMA OrderStep == IndInv /\ [Next]_vars => InOrder'
<1>. SUFFICES ASSUME IndInv, [Next]_vars, NEW e \in Command
              PROVE  /\ pc'[e] \in {"putConfig", "done"} => Entry(e)' # Absent
                     /\ pc'[e] = "done" => <<Dest(e), Args[e].name>> \in clientConfig'
  BY DEF InOrder, Dest, Resolve
<1>. USE DEF IndInv, TypeOK, source, dest, Goto
<1>0. /\ Dest(e) \in Cluster /\ Args[e].name \in Name
      /\ Entry(e)' = destSecret'[Dest(e)][Args[e].name]
  BY ClustersOfArgs DEF Entry, Dest, Resolve
<1>1. Entry(e) # Absent => Entry(e)' # Absent
  BY <1>0, EntriesStep DEF Entry
<1>2. clientConfig \subseteq clientConfig'
  BY DEF Next, Step, vars, Start, Attempt, GetAccount, CreateAccount, ListSecrets,
     CreateSecret, PutSecret, PutConfig, CallFails, Kill, FillSecret, Rotate
<1>3. CASE PutSecret(e)
  <2>1. pc'[e] = "putConfig"
    BY <1>3 DEF PutSecret
  <2>2. picked[e] \in 1..issued[Source(e)]
    BY <1>3 DEF PutSecret, PickedIssued
  <2>3. [server |-> Host(e), issuer |-> Source(e), token |-> picked[e]] # Absent
    BY <2>2, PutIsCredential, AbsentAssumption, ClustersOfArgs
  <2>4. Entry(e)' # Absent
    BY <1>0, <1>3, <2>3 DEF PutSecret
  <2>. QED
    BY <2>1, <2>4
<1>4. CASE PutConfig(e)
  <2>1. pc'[e] = "done" /\ <<Dest(e), Args[e].name>> \in clientConfig' /\ pc[e] = "putConfig"
    BY <1>4 DEF PutConfig
  <2>. QED
    BY <1>1, <2>1 DEF InOrder
<1>5. CASE pc'[e] = pc[e]
  BY <1>1, <1>2, <1>5 DEF InOrder
<1>6. ASSUME NEW f \in Command, NEW kind, Fails(f, kind)
      PROVE  pc'[e] = pc[e] \/ pc'[e] \notin {"putConfig", "done"}
  BY <1>6 DEF Fails
<1>7. ASSUME NEW f \in Command, Start(f) \/ Attempt(f) \/ GetAccount(f) \/ CreateAccount(f)
                \/ ListSecrets(f) \/ CreateSecret(f) \/ CallFails(f) \/ Kill(f)
      PROVE  pc'[e] = pc[e] \/ pc'[e] \notin {"putConfig", "done"}
  BY <1>6, <1>7 DEF Start, Attempt, GetAccount, CreateAccount, ListSecrets, CreateSecret,
     CallFails, Kill
<1>8. ASSUME NEW f \in Command, f # e, PutSecret(f) \/ PutConfig(f) PROVE pc'[e] = pc[e]
  BY <1>8 DEF PutSecret, PutConfig
<1>9. ASSUME NEW c \in Cluster, NEW s \in SecretName, FillSecret(c, s) \/ Rotate(c, s)
      PROVE  pc'[e] = pc[e]
  BY <1>9 DEF FillSecret, Rotate
<1>10. CASE UNCHANGED vars
  BY <1>5, <1>10 DEF vars
<1>. QED
  BY <1>3, <1>4, <1>5, <1>7, <1>8, <1>9, <1>10 DEF Next, Step

-----------------------------------------------------------------------------
(* Theorems. *)

\* The invariant holds in every reachable state (command.go:46-64 and
\* registration.go:55-154, with kills, failing calls and rotation).
THEOREM Inductive == Spec => []IndInv
<1>1. Init => IndInv
  BY InitInv
<1>2. IndInv /\ [Next]_vars => IndInv'
  BY StepType, SecretsStep, PickedStep, CredentialsStep, OwnEntryStep, OrderStep DEF IndInv
<1>. QED
  BY <1>1, <1>2, PTL DEF Spec

\* Every variable keeps its type.
THEOREM TypeCorrect == Spec => []TypeOK
<1>1. IndInv => TypeOK
  BY DEF IndInv
<1>. QED
  BY <1>1, Inductive, PTL

\* A kubeconfig on a control plane holds the address and an issued token of one
\* and the same cluster (registration.go:105-127).
THEOREM CredentialsSound == Spec => []CredentialsMatchServer
<1>1. IndInv => CredentialsMatchServer
  BY DEF IndInv
<1>. QED
  BY <1>1, Inductive, PTL

\* A command that ends well under a name of its own has registered its own
\* source cluster, entry and ClientConfig (registration.go:114-153).
THEOREM SuccessIsRegistration == Spec => []DoneMeansRegistered
<1>1. IndInv => DoneMeansRegistered
  BY DEF IndInv, InOrder, OwnEntry, Entry, DoneMeansRegistered
<1>. QED
  BY <1>1, Inductive, PTL

\* Registrations implement the write-once book: an entry is claimed once, by the
\* command that finds the name free, and published afterwards.
THEOREM Refinement == Spec => ImplementsBook
<1>1. Init => Book!Init
  <2>. SUFFICES ASSUME Init PROVE Book!Init
    OBVIOUS
  <2>1. Registered = [d \in Cluster |-> [n \in Name |-> Absent]]
    BY DEF Init, Registered
  <2>. QED
    BY <2>1 DEF Init, Book!Init
<1>2. ASSUME IndInv, [Next]_vars
      PROVE  Book!Next \/ (Registered' = Registered /\ clientConfig' = clientConfig)
  <2>. USE <1>2 DEF source, dest
  <2>1. ASSUME NEW e \in Command, PutSecret(e)
        PROVE  Book!Next \/ (Registered' = Registered /\ clientConfig' = clientConfig)
    <3>. DEFINE d == Dest(e)
                n == Args[e].name
    <3>0. d \in Cluster /\ n \in Name /\ Host(e) = Source(e) /\ Source(e) \in Cluster
      BY ClustersOfArgs
    <3>1. CASE destSecret[d][n] = Absent
      <4>. DEFINE new == [server |-> Source(e), issuer |-> Source(e), token |-> picked[e]]
      <4>1. new # Absent
        BY <2>1, <3>0, PutIsCredential, AbsentAssumption DEF IndInv, PickedIssued, PutSecret
      <4>2. destSecret' = [destSecret EXCEPT ![d][n] = new]
        BY <2>1, <3>0, <3>1 DEF PutSecret, IndInv, TypeOK
      <4>3. new.server = Source(e)
        OBVIOUS
      <4>. HIDE DEF new
      <4>4. Registered[d][n] = Absent
        BY <3>0, <3>1 DEF Registered
      <4>5. \A c \in Cluster, m \in Name :
               Registered'[c][m] = IF c = d /\ m = n THEN Source(e) ELSE Registered[c][m]
        BY <3>0, <4>1, <4>2, <4>3 DEF Registered, IndInv, TypeOK
      <4>6. Registered' = [Registered EXCEPT ![d][n] = Source(e)]
        <5>1. \A c \in Cluster :
                 Registered'[c] = IF c = d THEN [Registered[d] EXCEPT ![n] = Source(e)]
                                           ELSE Registered[c]
          BY <3>0, <4>5 DEF Registered
        <5>. QED
          BY <3>0, <5>1 DEF Registered
      <4>7. clientConfig' = clientConfig
        BY <2>1 DEF PutSecret
      <4>. QED
        BY <3>0, <4>4, <4>6, <4>7 DEF Book!Next, Book!Claim
    <3>2. CASE destSecret[d][n] # Absent
      <4>1. destSecret' = destSecret /\ clientConfig' = clientConfig
        BY <2>1, <3>0, <3>2 DEF PutSecret, IndInv, TypeOK
      <4>. QED
        BY <4>1 DEF Registered
    <3>. QED
      BY <3>1, <3>2
  <2>2. ASSUME NEW e \in Command, PutConfig(e) PROVE Book!Next
    <3>1. Registered[Dest(e)][Args[e].name] # Absent
      <4>1. Entry(e) \in Credential
        <5>1. Entry(e) # Absent
          BY <2>2 DEF PutConfig, IndInv, InOrder
        <5>2. Entry(e) \in Credential \cup {Absent}
          BY ClustersOfArgs DEF Entry, IndInv, TypeOK
        <5>. QED
          BY <5>1, <5>2
      <4>. QED
        BY <4>1, ClustersOfArgs, AbsentAssumption DEF Registered, Entry, Credential
    <3>2. Registered' = Registered /\ clientConfig' = clientConfig \cup {<<Dest(e), Args[e].name>>}
      BY <2>2 DEF PutConfig, Registered
    <3>. QED
      BY <3>1, <3>2, ClustersOfArgs DEF Book!Next, Book!Publish
  <2>3. CASE destSecret' = destSecret /\ clientConfig' = clientConfig
    BY <2>3 DEF Registered
  <2>. QED
    BY <2>1, <2>2, <2>3
    DEF Next, Step, vars, Start, Attempt, GetAccount, CreateAccount, ListSecrets,
        CreateSecret, CallFails, Kill, FillSecret, Rotate
<1>3. IndInv /\ [Next]_vars => [Book!Next]_<<Registered, clientConfig>>
  BY <1>2
<1>. QED
  BY <1>1, <1>3, Inductive, PTL DEF Spec, ImplementsBook, Book!Spec
=============================================================================
