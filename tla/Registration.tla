---------------------------- MODULE Registration ----------------------------
(***************************************************************************)
(* `kubectl k8ssandra register`: cmd/.../register and pkg/registration.    *)
(*                                                                         *)
(* Each command copies the credentials of a service account of its source  *)
(* cluster into a Secret and a ClientConfig on its destination cluster, in *)
(* up to MaxAttempts attempts with no pause between them, while Kubernetes'*)
(* token controller fills service account secrets in its own time.  Every  *)
(* API call is a step of its own; commands run concurrently, may be killed *)
(* and may be run again.                                                   *)
(***************************************************************************)
EXTENDS Naturals, FiniteSets

CONSTANTS
    Cluster,      \* clusters
    Command,      \* register commands
    Args,         \* [Command -> arguments]: see Arguments
    Path, Context, Name,
    NoPath,       \* --source-kubeconfig or --dest-kubeconfig left empty
    DefaultPath,  \* $KUBECONFIG or ~/.kube/config
    ClusterAt,    \* [Path -> [Context -> Cluster]]: what the kubeconfigs say
    SecretName,   \* names of service account secrets, numbered in list order
    DefaultSecret,\* <serviceaccount>-secret
    Absent,       \* no such object
    NoOverride,   \* --override-src-ip and --override-src-port left empty
    MaxAttempts,  \* 30 in the code
    MaxFaults,    \* calls that fail, and kills
    MaxRotations  \* service account secrets an administrator deletes

Arguments ==
    [srcPath : Path \cup {NoPath}, dstPath : Path \cup {NoPath},
     srcContext : Context, dstContext : Context, name : Name,
     override : Cluster \cup {NoOverride}]

\* What a kubeconfig secret on the destination holds: the address of a cluster
\* and a token, the n-th that a cluster issued.
Credential == [server : Cluster, issuer : Cluster, token : Nat \ {0}]

ASSUME ArgsAssumption ==
    /\ Args \in [Command -> Arguments]
    /\ DefaultPath \in Path /\ NoPath \notin Path
    /\ ClusterAt \in [Path -> [Context -> Cluster]]
ASSUME SecretAssumption ==
    SecretName \subseteq Nat /\ DefaultSecret \in SecretName
ASSUME AbsentAssumption ==
    /\ Absent \notin Nat /\ Absent \notin Credential /\ Absent \notin Cluster
    /\ NoOverride \notin Cluster
\* An override is another address of the source cluster.
ASSUME OverrideAssumption ==
    \A e \in Command :
        LET path == IF Args[e].srcPath = NoPath THEN DefaultPath ELSE Args[e].srcPath
        IN  Args[e].override \in {NoOverride, ClusterAt[path][Args[e].srcContext]}
ASSUME BoundAssumption ==
    MaxAttempts \in Nat \ {0} /\ MaxFaults \in Nat /\ MaxRotations \in Nat

VARIABLES
    account,       \* [Cluster -> BOOLEAN]: the service account exists
    secret,        \* [Cluster -> [SecretName -> Absent, 0 (not filled) or a token]]
    issued,        \* [Cluster -> Nat]: tokens the cluster has issued
    destSecret,    \* [Cluster -> [Name -> Credential \cup {Absent}]]
    clientConfig,  \* SUBSET (Cluster \X Name)
    pc,            \* where each command is
    attempt,       \* attempts of the running command so far
    picked,        \* the token in the secret the attempt found
    lastError,     \* what the last attempt returned
    exit,          \* exit status of the command
    faults, rotations

source == <<account, secret, issued>>
dest == <<destSecret, clientConfig>>
bounds == <<faults, rotations>>
vars == <<source, dest, pc, attempt, picked, lastError, exit, bounds>>

-----------------------------------------------------------------------------
(* Kubeconfigs and clusters. *)

\* GetKubeconfigFileLocation.
Resolve(path) == IF path = NoPath THEN DefaultPath ELSE path

Source(e) == ClusterAt[Resolve(Args[e].srcPath)][Args[e].srcContext]
Dest(e) == ClusterAt[Resolve(Args[e].dstPath)][Args[e].dstContext]

\* Mutant: the host is looked up in the destination's kubeconfig.
HostOfDest(e) ==
    IF Args[e].override # NoOverride THEN Args[e].override ELSE Dest(e)

\* KubeconfigToHost.
Host(e) ==
    IF Args[e].override # NoOverride THEN Args[e].override ELSE Source(e)

\* The secrets that belong to the service account, and the first in the list.
Found(c) == {s \in SecretName : secret[c][s] # Absent}
First(c) == {s \in Found(c) : \A t \in Found(c) : s <= t}

-----------------------------------------------------------------------------
(* entrypoint: the loop of attempts. *)

Ended == {"idle", "done", "exhausted", "killed"}
Active == {"attempt", "getAccount", "createAccount", "listSecrets", "createSecret",
           "putSecret", "putConfig"}
Goto(e, label) == pc' = [pc EXCEPT ![e] = label]

Start(e) ==
    /\ pc[e] \in Ended
    /\ Goto(e, "attempt")
    /\ attempt' = [attempt EXCEPT ![e] = 0]
    /\ lastError' = [lastError EXCEPT ![e] = "none"]
    /\ exit' = [exit EXCEPT ![e] = "none"]
    /\ UNCHANGED <<source, dest, picked, bounds>>

\* Mutant: one attempt too many.
FailsLate(e, kind) ==
    /\ attempt' = [attempt EXCEPT ![e] = @ + 1]
    /\ lastError' = [lastError EXCEPT ![e] = kind]
    /\ IF attempt[e] < MaxAttempts
       THEN Goto(e, "attempt") /\ UNCHANGED exit
       ELSE Goto(e, "exhausted") /\ exit' = [exit EXCEPT ![e] = "0"]
    /\ UNCHANGED picked

\* RegisterCluster returned an error.  errors.Is compares it with the empty
\* NonRecoverableError{}, which no error with a message equals: the loop goes
\* on in every case, and the command exits with 0 when the attempts are used up.
Fails(e, kind) ==
    /\ attempt' = [attempt EXCEPT ![e] = @ + 1]
    /\ lastError' = [lastError EXCEPT ![e] = kind]
    /\ IF attempt[e] + 1 < MaxAttempts
       THEN Goto(e, "attempt") /\ UNCHANGED exit
       ELSE Goto(e, "exhausted") /\ exit' = [exit EXCEPT ![e] = "0"]
    /\ UNCHANGED picked

-----------------------------------------------------------------------------
(* RegisterCluster. *)

\* The command line names the same cluster twice, as far as it shows.
LooksLikeSelf(e) ==
    Args[e].srcContext = Args[e].dstContext /\ Args[e].srcPath = Args[e].dstPath

Attempt(e) ==
    /\ pc[e] = "attempt"
    /\ IF LooksLikeSelf(e)
       THEN Fails(e, "nonrecoverable")
       ELSE Goto(e, "getAccount") /\ UNCHANGED <<attempt, picked, lastError, exit>>
    /\ UNCHANGED <<source, dest, bounds>>

GetAccount(e) ==
    /\ pc[e] = "getAccount"
    /\ Goto(e, IF account[Source(e)] THEN "listSecrets" ELSE "createAccount")
    /\ UNCHANGED <<source, dest, attempt, picked, lastError, exit, bounds>>

\* The attempt ends with the NotFound of the Get, created or not.
CreateAccount(e) ==
    /\ pc[e] = "createAccount"
    /\ account' = [account EXCEPT ![Source(e)] = TRUE]
    /\ Fails(e, "recoverable")
    /\ UNCHANGED <<secret, issued, dest, bounds>>

\* Mutant: only the presence of the secret's ca.crt is required.
ListSecretsUnfilled(e) ==
    /\ pc[e] = "listSecrets"
    /\ \/ /\ Found(Source(e)) = {}
          /\ Goto(e, "createSecret")
          /\ UNCHANGED picked
       \/ \E s \in First(Source(e)) :
          /\ Goto(e, "putSecret")
          /\ picked' = [picked EXCEPT ![e] = secret[Source(e)][s]]
    /\ UNCHANGED <<attempt, lastError, exit>>
    /\ UNCHANGED <<source, dest, bounds>>

\* List, the choice of a secret, and TokenToKubeconfig, which refuses a secret
\* that the token controller has not filled.
ListSecrets(e) ==
    /\ pc[e] = "listSecrets"
    /\ \/ /\ Found(Source(e)) = {}
          /\ Goto(e, "createSecret")
          /\ UNCHANGED <<attempt, picked, lastError, exit>>
       \/ /\ \E s \in First(Source(e)) : secret[Source(e)][s] = 0
          /\ Fails(e, "recoverable")
       \/ \E s \in First(Source(e)) :
          /\ secret[Source(e)][s] # 0
          /\ Goto(e, "putSecret")
          /\ picked' = [picked EXCEPT ![e] = secret[Source(e)][s]]
          /\ UNCHANGED <<attempt, lastError, exit>>
    /\ UNCHANGED <<source, dest, bounds>>

\* Mutant: the default secret lacks the annotation, so no List finds it.
CreateSecretUnannotated(e) ==
    /\ pc[e] = "createSecret"
    /\ Fails(e, "recoverable")
    /\ UNCHANGED <<source, dest, bounds>>

\* Created (or lost to another command), the attempt ends with an error.
CreateSecret(e) ==
    /\ pc[e] = "createSecret"
    /\ secret' = [secret EXCEPT ![Source(e)][DefaultSecret] =
                     IF @ = Absent THEN 0 ELSE @]
    /\ Fails(e, "recoverable")
    /\ UNCHANGED <<account, issued, dest, bounds>>

\* Mutant: the secret is written whether or not there is one.
PutSecretOver(e) ==
    /\ pc[e] = "putSecret"
    /\ destSecret' = [destSecret EXCEPT ![Dest(e)][Args[e].name] =
                         [server |-> Host(e), issuer |-> Source(e), token |-> picked[e]]]
    /\ Goto(e, "putConfig")
    /\ UNCHANGED <<source, clientConfig, attempt, picked, lastError, exit, bounds>>

\* Mutant: every failure of the Create is taken for AlreadyExists.
PutSecretIgnoringError(e) ==
    /\ pc[e] = "putSecret"
    /\ UNCHANGED destSecret
    /\ Goto(e, "putConfig")
    /\ UNCHANGED <<source, clientConfig, attempt, picked, lastError, exit, bounds>>

\* The secret on the destination: an existing one is left as it is.
PutSecret(e) ==
    /\ pc[e] = "putSecret"
    /\ destSecret' = [destSecret EXCEPT ![Dest(e)][Args[e].name] =
            IF @ = Absent
            THEN [server |-> Host(e), issuer |-> Source(e), token |-> picked[e]]
            ELSE @]
    /\ Goto(e, "putConfig")
    /\ UNCHANGED <<source, clientConfig, attempt, picked, lastError, exit, bounds>>

PutConfig(e) ==
    /\ pc[e] = "putConfig"
    /\ clientConfig' = clientConfig \cup {<<Dest(e), Args[e].name>>}
    /\ Goto(e, "done")
    /\ exit' = [exit EXCEPT ![e] = "0"]
    /\ UNCHANGED <<source, destSecret, attempt, picked, lastError, bounds>>

-----------------------------------------------------------------------------
(* The environment. *)

\* An API call of the attempt fails, or a kubeconfig cannot be read.
CallFails(e) ==
    /\ pc[e] \in Active
    /\ faults < MaxFaults
    /\ faults' = faults + 1
    /\ Fails(e, "recoverable")
    /\ UNCHANGED <<source, dest, rotations>>

Kill(e) ==
    /\ pc[e] \in Active
    /\ faults < MaxFaults
    /\ faults' = faults + 1
    /\ Goto(e, "killed")
    /\ UNCHANGED <<source, dest, attempt, picked, lastError, exit, rotations>>

\* The token controller fills a service account secret.
FillSecret(c, s) ==
    /\ account[c] /\ secret[c][s] = 0
    /\ issued' = [issued EXCEPT ![c] = @ + 1]
    /\ secret' = [secret EXCEPT ![c][s] = issued[c] + 1]
    /\ UNCHANGED <<account, dest, pc, attempt, picked, lastError, exit, bounds>>

\* An administrator revokes a token by deleting its secret.
Rotate(c, s) ==
    /\ rotations < MaxRotations
    /\ secret[c][s] # Absent
    /\ rotations' = rotations + 1
    /\ secret' = [secret EXCEPT ![c][s] = Absent]
    /\ UNCHANGED <<account, issued, dest, pc, attempt, picked, lastError, exit, faults>>

-----------------------------------------------------------------------------
\* The source clusters may already have the account, and secrets for it.
Init ==
    /\ account \in [Cluster -> BOOLEAN]
    /\ secret \in [Cluster -> [SecretName -> {Absent, 0}]]
    /\ \A c \in Cluster : ~account[c] => \A s \in SecretName : secret[c][s] = Absent
    /\ \A c \in Cluster : account[c] => \E e \in Command : c = Source(e)
    /\ issued = [c \in Cluster |-> 0]
    /\ destSecret = [d \in Cluster |-> [n \in Name |-> Absent]]
    /\ clientConfig = {}
    /\ pc = [e \in Command |-> "idle"]
    /\ attempt = [e \in Command |-> 0]
    /\ picked = [e \in Command |-> 0]
    /\ lastError = [e \in Command |-> "none"]
    /\ exit = [e \in Command |-> "none"]
    /\ faults = 0
    /\ rotations = 0

Step(e) ==
    \/ Attempt(e) \/ GetAccount(e) \/ CreateAccount(e) \/ ListSecrets(e)
    \/ CreateSecret(e) \/ PutSecret(e) \/ PutConfig(e)

Next ==
    \/ \E e \in Command : Start(e) \/ Step(e) \/ CallFails(e) \/ Kill(e)
    \/ \E c \in Cluster, s \in SecretName : FillSecret(c, s) \/ Rotate(c, s)

Spec == Init /\ [][Next]_vars

\* A command runs until it ends; the token controller gets to every secret; and
\* the user starts a command again as long as it has not registered.
Unregistered(e) == pc[e] \in {"idle", "exhausted", "killed"}
FairSpec ==
    /\ Spec
    /\ \A e \in Command : WF_vars(Step(e)) /\ WF_vars(Unregistered(e) /\ Start(e))
    /\ \A c \in Cluster, s \in SecretName : WF_vars(FillSecret(c, s))

-----------------------------------------------------------------------------
(* Properties. *)

TypeOK ==
    /\ account \in [Cluster -> BOOLEAN]
    /\ secret \in [Cluster -> [SecretName -> Nat \cup {Absent}]]
    /\ issued \in [Cluster -> Nat]
    /\ destSecret \in [Cluster -> [Name -> Credential \cup {Absent}]]
    /\ clientConfig \subseteq Cluster \X Name
    /\ pc \in [Command -> Active \cup Ended]
    /\ attempt \in [Command -> 0..MaxAttempts]
    /\ picked \in [Command -> Nat]
    /\ lastError \in [Command -> {"none", "recoverable", "nonrecoverable"}]
    /\ exit \in [Command -> {"none", "0"}]
    /\ faults \in 0..MaxFaults
    /\ rotations \in 0..MaxRotations

\* A kubeconfig on a destination pairs a token with the cluster that issued it,
\* and the token was really issued, never a secret still to be filled
\* (registration.go:105-130, token_to_kubeconfig.go:10-36).
CredentialsMatchServer ==
    \A d \in Cluster, n \in Name :
        LET s == destSecret[d][n]
        IN  s # Absent => s.server = s.issuer /\ s.token \in 1..issued[s.issuer]

\* Registrations are write-once and published in order, whatever the order of
\* the commands' steps and wherever they are killed: see RegistrationBook.
Registered == [d \in Cluster |-> [n \in Name |->
    IF destSecret[d][n] = Absent THEN Absent ELSE destSecret[d][n].server]]
Book == INSTANCE RegistrationBook WITH
    Unclaimed <- Absent, book <- Registered, published <- clientConfig
ImplementsBook == Book!Spec

\* A command that ends well has registered its own source cluster, provided no
\* other command uses its name on the same destination (registration.go:118-153).
OwnName(e) == \A f \in Command \ {e} : <<Dest(f), Args[f].name>> # <<Dest(e), Args[e].name>>
DoneMeansRegistered ==
    \A e \in Command : pc[e] = "done" /\ OwnName(e) =>
        /\ <<Dest(e), Args[e].name>> \in clientConfig
        /\ destSecret[Dest(e)][Args[e].name] # Absent
        /\ destSecret[Dest(e)][Args[e].name].issuer = Source(e)

\* A command started again until it registers does register, also when other
\* commands work on the same service account and secrets are being revoked.
EventuallyRegistered ==
    \A e \in Command : ~LooksLikeSelf(e) => <>(pc[e] = "done")

-----------------------------------------------------------------------------
(* What the documentation says and the code does not do. *)

\* command.go:17: register "copies its credentials and then creates a secret
\* containing them on the destination cluster".
DoneMeansCopied ==
    [][\A e \in Command : pc[e] = "putConfig" /\ pc'[e] = "done" =>
          /\ destSecret[Dest(e)][Args[e].name].issuer = Source(e)
          /\ destSecret[Dest(e)][Args[e].name].token = picked[e]]_vars

\* registration.go:59: "you should not register the same cluster to itself".
NeverSelfRegistered ==
    \A d \in Cluster, n \in Name :
        destSecret[d][n] # Absent => destSecret[d][n].server # d

\* command.go:52-54: a NonRecoverable error ends the command.
NonRecoverableEnds ==
    [][\A e \in Command :
          lastError[e] = "nonrecoverable" /\ pc[e] \in Active => attempt'[e] <= attempt[e]]_vars

\* command.go:62: "Registration failed - retries exceeded" is a failure.
ExitZeroMeansRegistered ==
    \A e \in Command : exit[e] = "0" => <<Dest(e), Args[e].name>> \in clientConfig
=============================================================================
