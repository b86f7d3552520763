# k8ssandra-client in TLA+

This directory holds TLA+ models of k8ssandra-client (the `kubectl-k8ssandra`
plugin and the packages behind it), the TLC configurations that check them and
theorems that TLAPS proves about them. Paths below are relative to `src/`;
`PROJECT.json` lists, definition by definition, the lines each one models.

- [The system](#the-system): components, state, interactions, hard behaviours
- [The modules](#the-modules): which module models what
- [What is checked](#what-is-checked): runs, bounds, fairness
- [What is proved](#what-is-proved): theorems, assumptions, arguments
- [Where code and documentation disagree](#where-code-and-documentation-disagree)
- [What is not modelled](#what-is-not-modelled), [plan](#plan)

## The system

The program is a set of short-lived commands. None keeps state between
invocations except the chart cache on disk; what they share is the state of
Kubernetes clusters, which every command reads and writes one API call at a
time. So the hard behaviour is the same almost everywhere: several commands at
once (two engineers, a Job that is retried, a controller on the other side),
objects that change between a read and the write based on it, a command that
fails or is killed between two writes, and polling for what somebody else does.

| Component | Source | State | Operations | Interacts with |
|---|---|---|---|---|
| CRD upgrader | `cmd/kubectl-k8ssandra/helm/crds.go`, `pkg/helmutil/crds.go`, `parse.go` | CRDs of the cluster (spec, `status.storedVersions`, resourceVersion); the run's position in its list of CRDs | `Upgrade`: find the chart, parse, then for each CRD get, create / status update / spec update | chart cache, API server, other upgraders, the API server's own CRD controllers |
| Chart download and cache | `pkg/helmutil/fetch.go`, `pkg/util/fs.go` | `<cache>/<repo>/<chart>/<version>/...` on the host | download, create the directory, expand the archive | the upgrader; other runs on the host |
| Registration | `cmd/kubectl-k8ssandra/register`, `pkg/registration` | service account and its secrets on the data plane; Secret and ClientConfig on the control plane; attempt counter, last error | `RegisterCluster` in up to 30 attempts | two API servers, the token controller, other register commands |
| Scheduler and estimate | `pkg/scheduler/fit.go`, `cmd/kubectl-k8ssandra/tools/estimate.go` | a snapshot of nodes with their pods; the nodes as the placement leaves them | list nodes, list pods per node, filter, place first-fit | API server, kube-scheduler's filter plugins |
| Start, stop and restart | `cmd/kubectl-k8ssandra/operate`, `pkg/cassdcutil/manage.go` | the CassandraDatacenter (`spec.stopped`, conditions) | validate, get, update, wait for `Stopped` and then `Ready` | cass-operator, other commands, other editors |
| Tasks | `pkg/tasks` | CassandraTasks | create a task per kind, wait for `completionTime` | cass-operator |
| Leader election | `pkg/kubernetes/leaderelection.go` | a Lease; a WaitGroup; the context of the elector | `WaitForLock` | client-go's elector, other callers |
| Users | `cmd/kubectl-k8ssandra/users`, `pkg/users`, `pkg/secrets`, `pkg/ui` | prompt inputs; users read; roles in Cassandra | prompt or read a path, pick a pod, create roles one by one | API server, management API of a pod |
| Configuration builder | `pkg/config`, `cmd/kubectl-k8ssandra/config` | the files of an output directory, which outlives the container | `Build`: rack properties, `cassandra-env.sh`, four JVM options files, `cassandra.yaml`, copies; or `sidecar.yaml` | init container of a Cassandra pod: its environment, image and restarts by the kubelet |
| Release values | `pkg/helmutil/release.go` | a release's values in Helm; an edited file | merge the values into the chart's, upgrade with the edited file | Helm, a user's editor, other users of Helm |
| Names | `pkg/registration/sanitize_strings.go` | none | `CleanupForKubernetes` | registration |
| Datacenter reader, client, nodetool, command line | `pkg/cassdcutil/{fetcher,secrets,config}.go`, `pkg/kubernetes/{client,nodes}.go`, `cmd/.../nodetool`, wiring | none | single reads | |

What makes each of them correct:

- **CRD upgrader.** No update lost under optimistic locking; no update the API
  server has to refuse because a stored version leaves the spec; versions leave
  `storedVersions` only for a reason; a fresh run beside
  which nobody extracts the same release, and whose walk meets no error, works on the
  release asked for and on all of it; a run that was interrupted can be repeated.
- **Registration.** A kubeconfig on the control plane always pairs a server with
  a token of that server's cluster; an entry is claimed once, and published
  after it is complete; success means registered; repetition gets there.
- **Scheduler.** "Fits" and "does not fit" are both right about the snapshot;
  no node is promised more than it has.
- **Start, stop, restart.** Nobody's edit is undone; `--wait` returns when, and
  only when, the datacenter is as asked for; every command ends.
- **Leader election.** Only leaders return, one leads at a time, every call ends.
- **Users.** Success means every user was created, each with its own password; a
  repeated command adds what is missing.
- **Configuration builder.** Whatever an interrupted container left behind, a
  finished build leaves whole files, and restarts finish it; of the layers of
  configuration (image, cluster, collector, pod, what Kubernetes needs) the one
  that is meant to win does; a JVM gets one collector.
- **Release values.** The merged file has what chart and release say; saving it
  and merging again is stable; an upgrade puts what it sends over what others have set
  and leaves alone the rest.

The hazards behind these, at the lines where they bite, are in `PROJECT.json`
("hazards"), each with the properties that watch it.

## The modules

Constants carry named assumptions, an action is one API call or one local
decision of the code, and every module keeps the source's names where it can.
A `pc` per command says where it is; labels are named after the call that comes
next. Definitions marked "Mutant" are wrong variants of the action they precede
and are used by no specification: replacing the action by its mutant must break
the property that guards against that mistake.

### `CrdStore`, `SchemaRegistry`, `CrdUpgrade`

`CrdStore` is the API server as the upgrader meets it (external): a create
starts `storedVersions` with the storage version, a spec update adds the storage
version and is refused when a stored version is missing from it, a status update
sets `storedVersions`, and each needs the current resourceVersion.

`CrdUpgrade` has one `pc` per upgrader: `stat` (does the chart directory
exist), `download`, `mkdir`, `expand` and `write` (each file of the archive is
opened, which empties it, and then written), `walk` (`findCRDDirs`), `parse`, and
then per CRD `get` and `create`, or `status` (only if `Removed`) and `update`. The
cache is keyed by repository and chart, so `dirs` and `files` are per host; a run
that extracted the chart itself (`fresh`) reads its own directory, any other walks
the parent. `FailOrCrash` ends a run at any of `FaultPoints`; `Retry` runs it again;
`Touch` is a write by the API server's CRD controllers.

Two things can hide a part of the chart from a run that then ends well. `CutWalk`:
a directory cannot be read while `findCRDDirs` walks, `Upgrade` drops the error
(`crds.go:80`) and goes on with the directories found before. And a file that is
`blank`: `ExpandFile` truncates what is there already, so a run that extracts the
release once more, or one that stopped between opening and writing a file, leaves an
empty file, which `FilterCharts` skips (`parse.go:36`). Both are part of every run
below. What the properties promise excepts exactly these cases: `FreshRunIsComplete`
is about runs whose walk was not cut and beside which nobody on the host is given the
same release, and `RetriedUpgradeSucceeds` promises the whole release where the walk
was not cut and the cache holds the files whole. Each manifest is a file in a `crds`
directory of its own, and the walk is one step; a file that is read when half of it is
written, which the decoder may refuse or take, is not modelled, nor is a document that
cannot be decoded (it is skipped as an empty file is).

`SchemaRegistry` is what the cluster is promised: each CRD is, as a whole, one
of the manifests on offer, replaced in one step. `ImplementsRegistry` is the
refinement, with the spec part of the CRDs as mapping.

The typed `Status().Update` needs the client's scheme to know
CustomResourceDefinition. `GetClient` does not register it, but the import of
helm's kube package adds it to the global scheme; the model takes it as known.

### `RegistrationBook`, `Registration`

Every call of `RegisterCluster` is an action: `GetAccount`, `CreateAccount`,
`ListSecrets`, `CreateSecret`, `PutSecret`, `PutConfig`. A failing one goes
through `Fails`, which is the loop of `entrypoint`: another attempt, or after
the last one the end of the command with exit code 0. The token controller
(`FillSecret`), an administrator who revokes a token (`Rotate`), a failing call
and a killed process are the environment. Kubeconfigs are a constant function
from path and context to a cluster; names are given cleaned up, so two contexts
may share one.

`RegistrationBook` promises the control plane that a name is claimed once, never
reassigned, and published only when claimed.

### `Scheduler`

`ListNodes`, then `ListPods` once per node while `Change` moves the cluster, then
`Place` per pod: candidates are the nodes that pass the filters, the first is
taken, its `used` grows and it is marked unschedulable, which is how the code
says "one Cassandra pod per node". `Unable` and `Fits` are the two answers. The
filter plugins are external and reduced to what they look at: requests against
allocatable, the nodes a pod may use at all, and toleration of unschedulable
nodes.

### `Operate`

`Validate` reads on its own; `Get` reads again; `Update` sends the whole object
back and is refused when the resourceVersion moved; `PollStopped` and then
`PollReady` wait for one condition each, every wait with its timeout. Restart
creates a task (`Create`) if the client knows its kind, and polls it. `Schemes`
holds the clients a restart may come with: the commands' own does not know
CassandraTask (`ClientKinds`), a caller of the packages may bring one that does.
cass-operator moves the conditions to `spec.stopped` one after the other; pods
may become unready (`Flap`), and others edit the datacenter (`Edit`).

### `LeaderElection`

Each client has a `caller` (blocked on the WaitGroup) and an `elector` (the
goroutine in client-go): `Look`, `Claim` on what was seen, `OnStartedLeading` in
a goroutine of its own, `GiveUp`, `Release`. `Return` is the caller waking up;
from then on its deferred cancel ends the elector. `Lapse` cuts a live leader
off until the Lease expires, `Crash` kills it. Nothing in the repository calls
`WaitForLock`; it is a library function and the caller's work is `Finish`, after
which its process may `Exit` without waiting for the elector's release.

A claim is a request of its own. An elector that gives up, or dies, with its claim on
the way leaves it `afloat`: it may never arrive, or it may `Arrive` at any later time
and be written, if the Lease is still what was read, for an elector that has ended and
will not release it. So a Lease can expire without anything having failed, and
`ReleasedNotExpired` names this among the four ways a Lease is left behind: a crash,
a cut-off, a process gone before the release, a claim that outlived its elector.
`EveryCallReturns` excepts the calls whose elector ended, cancelled, before it led;
a call that is cancelled while it leads is not excepted.

### `Users`

`Start` takes the arguments of the command from `Inputs` and validates them
(`Begin`), and `Retry` begins again with the same ones; `Type`, `Confirm` and `Quit` are the keys the
prompter knows; `Manage`, `Target` and `Read` lead to `Create`, one role per
step in any order, since Go iterates over a map. Paths are a constant function
to a list of lines or directory entries; `ReadTargetFile` and
`ReadTargetSecretMount` fold over it as the code does and are compared with the
declarative `UsersAt`. What the management API does with a role that exists is
not in this repository: `OnExisting` allows it to be altered, refused, or both.

### `JvmOptions`, `CassandraYaml`, `ConfigBuilder`

`ConfigBuilder` is the init container. `Parse` is the environment with what
`Validate`, `parseConfigInput` and `parseNodeInfo` refuse; then each file of
`Plan`, in the order of `Build`, is opened (`Open`), written unit by unit
(`Write`) and closed. `cassandra-rackdc.properties`, `cassandra-env.sh` and the
JVM options files are opened with `O_APPEND`, the others truncated. `Fault` is a
failing write or a kill between any two writes; `Restart` is the kubelet, which
starts the container again on the same volume. `input` is what a pod is given and
never changes.

What is written is computed by two modules of operators. `JvmOptions` is
`createServerJVMOptions`. A line is one option with its form, name and value, which is
all that prefix matching and the comparison before `=` tell apart. Twice the code looks
for an option anywhere in a line (`strings.Contains`): an image's line is dropped if it
contains a collector's default (line 433, `Repeats`), and an additional option selects
the collector whose option it contains (line 521, `Mentioned`). For that a name or a
value may begin with another: the constant `Longer` holds these pairs, and
`NamesAssumption` says that no name begins with those of two collectors, which is so of
the five names of the code and without which Go's map order would decide. What follows
from it is part of what the properties say, surprising as it is: with a collector
chosen, an image's `MaxTenuringThreshold=15`, `SurvivorRatio=80` or
`MaxGCPauseMillis=3000` is deleted as if it were the default, and
`-XX:+UseCMSInitiatingOccupancyOnly` before `-XX:+UseG1GC` makes the JVM run with CMS.
An element of `additional-jvm-opts` that joins several options in one string is not
modelled. The loop over the current options appends a line unless one before it is about the same option,
which `Kept` says of all lines at once. Settings come out of a map, so the result
is a set of sequences. The generated alias tables are external and reduced to two
entries each, the collectors' defaults to three or four lines. `CassandraYaml` is
`mergeYaml` over an external `DeepMerge` (goalesce, of which the code itself says
that `false` is nothing to it), `k8ssandraOverrides` and the order in which
`createCassandraYaml` applies them. Documents are flat, with nested keys marked.

### `ReleaseValues`

`Merge` is `recursiveMerge` over trees of scalars (tag and value), mappings and
sequences. `MergeValuesFile` writes the file, `Edit` is the user, `UpgradeValues`
reads the file back and hands it to Helm with `ReuseValues`, and `OtherUpgrade`
is somebody else's upgrade at any point between. The file is returned open at its
end and `UpgradeValues` reads from where the handle is: a caller that passes it on as
it got it sends nothing and changes nothing (`Sent`), one that opens the edited file
again (`Reopen`) sends what it says. (An editor is taken to replace the file. One that
writes into the same file and makes it longer would have its last bytes sent.) Helm
records an upgrade that fails as the last revision: `MergeValuesFile` reads that one's
values (`latest`), while the next upgrade goes over those of the deployed one
(`release`). One that is killed and leaves the release pending, so that Helm refuses
the next, is not modelled. `MergedByPath` says of sequences what `recursiveMerge`
makes of them: scalars are joined by value, while all mappings count as one and only
the first stays (`JoinsSequences`); that the comment at `release.go:76` promises more
is what `MCReleaseValues_elements` shows. What yaml and Helm do is external: `Readable` (a scalar whose tag does not fit its value is written with
the tag and not read again), `Stored` (values are kept as JSON, large integers
come back as floats), `Coalesced`. No command of the plugin calls these two
functions yet; they are exported for programs that do. The module is recursive
and is checked, not proved about.

### Model-checking and proof modules

`MCx` gives the constants of `x` values and nothing else; `MCx_run.cfg` is one
run. `xProofs` holds the theorems about `x`, and `Counting` two lemmas about natural
numbers that several of them need: induction stated about a set of numbers, and the
existence of a function given by its first value and a step.

## What is checked

Runs that pass:

| Run | Question | Properties |
|---|---|---|
| `crd_safety` | two upgraders, two releases, one cache, faults, a cut walk, a foreign write | `UpdateAdmissible`, `FreshRunIsComplete`, `WritesOnWhatItRead`, `DropsOnlyUnlisted`, `ImplementsRegistry` |
| `crd_retry` | the loop over two CRDs, and whether repeating a failed upgrade helps | `LoopInvariant`, `UndisturbedUpgradeSucceeds`, `TornOnlyByFailure`, `RetriedUpgradeSucceeds` |
| `reg_planes` | two data planes at once under one name, faults, a revoked token | `CredentialsMatchServer`, `ImplementsBook` |
| `reg_same` | two commands on one service account, started again when they fail | `DoneMeansRegistered`, `EventuallyRegistered` |
| `sched_places` | pods as the command proposes them, and pods of any kind | `UnableMeansUnschedulable`, `FitsMeansSchedulable`, `NeverOvercommitted` |
| `op_commands` | stop, start and restart at once; do waits end | `NoEditLost`, `WaitMeansSettled`, `WaitsSettle` |
| `lock_calls` | three callers, cancellation, crash, partition, exit, a claim on its way; does every call end | `ReturnsOnlyToLeaders`, `OneLeader`, `ReleasedNotExpired`, `EveryCallReturns` |
| `users_add` | overlapping users, faults, lost pods, repeated commands | `OkMeansAllAdded`, `PasswordsStayPaired`, `RetriedAddSucceeds` |
| `config_build` | every kind of pod, interrupted at any write and restarted | `FilesEndWhole`, `OptionsByPrecedence`, `OneCollector`, `YamlByPrecedence`, `RestartedBuildEnds` |
| `release_sessions` | sessions on every pair of chart and release, with edits, failing upgrades and another one | `MergedByPath`, `RefusedExactlyForClash`, `SavedIsShownAgain`, `UpgradedByPath` |

`OptionsByPrecedence`, `YamlByPrecedence` and `MergedByPath` are reference
definitions: they say per option, key or path which layer decides, where the code
merges layer after layer.

`TypeOK` is checked for the components that state it in their own module, in their
first run; the types of `Users` and `ConfigBuilder` are part of their inductive
invariants.

### Bounds

Two or three actors are enough for every race in the code, since each is
between one reader-writer and one other writer; the third shows that the answer
does not depend on there being only two. Per component:

- `CrdUpgrade`: two CRDs, three versions and two schemas, so that a release can keep,
  drop and add a version. In `crd_safety` one release has two manifests and the other
  one (`WideReleases`), so that there is a file for a walk or an extraction to leave
  out and a second CRD for the loop; `MaxRuns = 2` lets a command follow an
  interrupted one, and the same release be extracted twice. `MaxFaults = 1` and
  `MaxTouches = 1` put one fault, at any step (`AllPoints`), and one foreign write at
  every possible point. `MaxRetries = 6` in `crd_retry` exceeds what faults and
  conflicts can use up. The upgraders of `crd_safety` are alike and share a host, so
  they are taken as symmetric (`Alike`); `crd_retry`, which has a liveness property,
  uses no symmetry.
- `Registration`: `MaxAttempts` is 4 instead of 30, two more than the calls that
  can fail in a run; in `reg_same` it is 2, and the user's retry takes over. The
  contexts of `reg_planes` clean up to one name, so that claims of the name race;
  in `reg_same` it is the service account and its secret that are shared.
- `Scheduler`: three nodes, one smaller, each idle or busy, up to three pods of
  up to the size of a node and beyond: pods fail on each resource separately.
- `Operate`: one edit, one flap and one failing call at any point; a stop and a
  start that both wait, against each other and a restart, which has either client.
- `LeaderElection`: one lapse and one crash with three clients.
- `Users`: two commands, each with any of a file with a repeated user and a line
  without `=`, a secret directory with one of these users under another password,
  arguments for that user, a prompt for another, or arguments that are refused. A
  role that exists is altered (`OnExisting = {"altered"}`): a management API that
  refused it would make no repeated command succeed.
- `ConfigBuilder`: `Pods` is the union of the pods that differ in one part of the
  build, since the parts share nothing: JVM options (the image's collector and
  repeated lines, lines of it that a default is contained in, a named collector,
  selected ones, one selected by a longer name, settings and additional
  options of cluster and pod), YAML layers (addresses of both families, proximity,
  booleans and null, nested or not), environment overrides for this pod, another
  and none, the sidecar, and every refusal. `MaxFaults = 1` interrupts each at
  every write, `MaxRestarts = 2` lets what cannot be built fail twice.
- `ReleaseValues`: one key of each kind of default against each kind of value, a
  second key so that one can be merged and the other not, a nested key; one edit
  and one other upgrade, any number of sessions.

Deadlock checking is off everywhere: when all commands have ended, nothing is
left to do.

### Fairness

The code never waits without polling, so a command that can go on does: weak
fairness of each command's own step. Beyond that each specification assumes only
what it names:

- `CrdUpgrade!RetrySpec`: a failed command is run again (the Job's or user's
  retry), which is what the property is about.
- `Registration!FairSpec`: the token controller gets to every secret, and an
  unregistered command is started again. Not fair: faults, revocations.
- `Operate!SettlingSpec`: cass-operator is up; timeouts need not fire. Not fair:
  edits, flaps, faults.
- `LeaderElection!FairSpec`: goroutines are scheduled, electors retry every
  RetryPeriod and notice a cancelled context (`GiveUp`), unrenewed Leases expire, and
  the caller finishes. Not fair: cancellation, crashes, exits, the arrival of a claim
  that outlived its elector.
- `Users!RetrySpec`: failed commands are run again and pods come back. Nobody is
  obliged to type.

- `ConfigBuilder!FairSpec`: a build waits for nobody, and the kubelet restarts a
  failed init container. Not fair: faults.

## What is proved

For every value of the constants within the named assumptions; TLC evaluates the
assumptions for the instances above.

| Module | Theorem | States |
|---|---|---|
| `CrdUpgradeProofs` | `TypeCorrect`, `UpdatesAdmitted`, `NoLostUpdate`, `DropsJustified`, `Refinement` | `TypeOK`, `UpdateAdmissible`, `WritesOnWhatItRead`, `DropsOnlyUnlisted`, `ImplementsRegistry` |
| | `FreshRunsAreComplete`, `UndisturbedSucceeds`, `LoopInstalls`, `TearsComeFromFailure` | `FreshRunIsComplete`, `UndisturbedUpgradeSucceeds`, `LoopInvariant`, `TornOnlyByFailure` |
| `RegistrationProofs` | `TypeCorrect`, `CredentialsSound`, `SuccessIsRegistration`, `Refinement` | `TypeOK`, `CredentialsMatchServer`, `DoneMeansRegistered`, `ImplementsBook` |
| `SchedulerProofs` | `TypeCorrect`, `FitsIsSound`, `UnableIsSound`, `RoomIsKept` | `TypeOK`, `FitsMeansSchedulable`, `UnableMeansUnschedulable`, `NeverOvercommitted` |
| `OperateProofs` | `TypeCorrect`, `EditsSurvive`, `WaitIsSound` | `TypeOK`, `NoEditLost`, `WaitMeansSettled` |
| `LeaderElectionProofs` | `TypeCorrect`, `ReturnIsEarned`, `LeaderIsUnique`, `LeaseIsHandedOver` | `TypeOK`, `ReturnsOnlyToLeaders`, `OneLeader`, `ReleasedNotExpired` |
| `UsersProofs` | `PasswordsArePaired`, `OkIsComplete` | `PasswordsStayPaired`, `OkMeansAllAdded` |
| | `FileIsLastLines`, `PathIsUsers` | `ReadTargetPath` returns what `UsersAt` says is at the path |
| `ConfigBuilderProofs` | `FilesAreWhole`, `LayersAreKept`, `CollectorIsOne`, `OptionsAreLayered` | `FilesEndWhole`, `YamlByPrecedence`, `OneCollector`, `OptionsByPrecedence` |
| | `ThoseInOrder` | what a filter keeps of lines is in their order |
| | `MergeIsOver`, `FinalIsLayered` | the merges of `createCassandraYaml` are what `Over` and `OnKubernetes` say |

Each module about a component proves `Inductive == Spec => []IndInv` first. Hardly
any of the properties is inductive by itself; what has to be added says why the code
works:

- **CRD upgrader.** What a run has read is a past state of the object, and with
  the object's resourceVersion it is the present one (`ReadIsPast`): versions
  only grow, and a write that changes nothing leaves them alone. Before a spec
  update, what was read no longer has versions to remove (`Cleared`). So an
  update that passes optimistic locking passes validation. Every manifest in the
  run's list is one on offer (`FromChart`), which carries the refinement.
  Nothing is ever removed from the cache, and a run truncates files of its own release
  only (`OwnFiles`); so what a fresh run has extracted stays whole beside runs of other
  releases (`Extracted`), and what its uncut walk found is read in order: the manifests
  so far are the first of the release, the rest is still to be read (`Reading`,
  `Complete`). While an upgrader is alone
  and nothing fails, what it read is what is there (`Current`), so that none of its
  writes is refused; a failure and a foreign write are what this leaves out. In the
  loop, each CRD the run has passed is at its last manifest so far (`Passed`), which
  only the run's own writes disturb. A torn CRD has a run that may have torn it
  (`TornInv`): one between its writes at that CRD, one that ended badly, or an
  upgrader on its second run.
- **Registration.** Tokens in secrets are tokens the cluster has issued
  (`SecretsIssued`), the one a command is about to copy is one of its source's
  (`PickedIssued`), entries under a name of one's own are one's own (`OwnEntry`)
  and precede ClientConfigs (`InOrder`).
- **Scheduler.** A node that holds no placed pod is as it was read, any other is
  marked (`Marked`), so pods that do not tolerate the mark are on distinct nodes,
  where they fit (`Spread`). For identical pods the nodes left over are those
  none of them passes, so a placement would be an injection of all the pods into
  the nodes taken: fewer, by counting. For the promise, the sum over the placed
  pods that the property writes as a recursive function is shown to end with what the
  loop has counted (`Tally`), and that to be within what is allocatable wherever a pod
  asked for any of it (`Within`): the filter does not look at a resource of which a
  pod requests nothing, so a node may have been full of it before.
- **Start, stop, restart.** As for CRDs, what was read is past, or present if the
  resourceVersion says so (`ReadIsPast`); and while the last writer waits,
  cass-operator can only move conditions towards what it wrote (`Settling`).
- **Leader election.** A claim that will succeed and a leader do not coexist
  unless a live leader was cut off (`ClaimsAreSafe`, which covers claims that have
  outlived their elector), because a leader that holds the Lease has seen its last write
  (`HolderIsCurrent`). Who abandoned a claim never led (`AbandonedBy`), and an unexpired
  Lease of a client that led is given back as it stops (`HolderLeads`), so an expired one
  has been left behind.
- **Users.** Reading a file is a map filled line by line. After `i` lines it holds the
  last of them about each user (by `Induction` over the set of the numbers for which
  this holds), so the path gives one password per user (`OnePassword`), and a pair
  that was read is one line's. From there: what a command sends is what it may send
  (`Paired`), a role is what somebody sent (`Sent`), and whoever is no longer left to
  create is there, or was changed by another command for the same user (`Progress`).
- **Configuration builder.** Four arguments. *Files*: those before the next in the
  plan are whole, and the open one ends with what has been written of its contents,
  which is what is left to write away from them (`OpenInv`, `ClosedInv`). Whether a
  file was new does not matter, which is why restarts do no harm: the suffix written
  by this run is whole even when something torn precedes it. No file is written twice
  in a run (`PlanIs`). *Layers*: a document is looked at key by key, as a set of at
  most one value; each merge is `Over` at every key, and the order of merges in
  `createCassandraYaml` is the nesting of the definition. *Collectors*: which lines of
  an options file may select one follows from what the file can be made of at all:
  settings select none, additional options their own, the image's lines only where no
  collector was chosen, the defaults of the chosen one only itself; and what is chosen
  is named or contained in an additional option (`DetectsMentioned`), as is whatever
  these select (`SelectedAreMentioned`). This holds of
  every piece ever written to the file, hence also of what an interrupted build left.
  *Options*: of lines that are joined the last about an option comes from the second
  part if that has one (`InEffectOfJoin`), filtering keeps their order
  (`ThoseInOrder`), and the loop over the current options adds exactly the first line
  about an option that the target leaves out (`KeptInEffect`). Together these turn
  each concatenation of `createServerJVMOptions` into one layer of `Precedence`. All
  orders in which Go may walk through the settings say the same, as no two keys of the
  table stand for one option (`OneKey`). An older, perhaps torn copy before the last
  one can only matter for an option that the last leaves out; then no copy has it
  (`EndInEffect`).

The named assumptions on the constants say what the code or its surroundings give:
bounds are natural numbers, inputs have the right form, what stands for "absent" is
none of the values. Four say more. `ConfigAssumption` (`CrdUpgrade`): manifests
on offer, and CRDs installed at the start, are well formed. `NamesAssumption`
(`JvmOptions`): no name begins with those of two collectors. `LinesAssumption` (`ConfigBuilder`): what the builder reads
line by line is a sequence of lines. `ImageAssumption` (`ConfigBuilder`): the options file of an image
selects no two collectors, and only by lines that are among the collectors' known
defaults. The images' files are as Cassandra ships them, with one collector
active (`-XX:+UseG1GC` in those of `testfiles/`) and the lines of the others commented
out; `OneCollector` does not hold of an
image that selects two, or one that the table of defaults of that Java version does not
list, since the builder removes from the image only what it finds in that table.

Only model-checked:

- liveness (`RetriedUpgradeSucceeds`, `EventuallyRegistered`, `WaitsSettle`,
  `EveryCallReturns`, `RetriedAddSucceeds`, `RestartedBuildEnds`): the prover does not
  reason about fairness;
- `ReleaseValues`, whose operators are recursive over trees.

## Where code and documentation disagree

Each of these runs checks one statement of the documentation, a comment or a
message, and TLC finds it violated by what the code does:

| Run | Statement | What happens |
|---|---|---|
| `crd_stale` | "upgrade CRDs from chart to target version" | the cache is keyed without the version; a later `--chartVersion` applies an earlier release |
| `op_kind` | "request a rolling restart" | the client does not know the kind of the task |

Further configurations show smaller disagreements in the same way. They are not
among the runs; `tlc -config MCx_name.cfg MCx` gives the counterexample.

| Configuration | Statement | What happens |
|---|---|---|
| `MCCrdUpgrade_partial` | "installs the missing CRDs or updates them" | a walk that fails, or an interrupted extraction, is taken for the whole chart |
| `MCRegistration_collision` | "copies its credentials" | an existing secret is kept, also when it is another data plane's |
| `MCRegistration_rotation` | "copies its credentials" | an existing secret is kept with a token that was revoked |
| `MCRegistration_self` | "should not register the same cluster to itself" | compares spellings, not clusters |
| `MCRegistration_nonrecoverable` | the branch for non-recoverable errors | never matches |
| `MCRegistration_exit` | "Registration failed - retries exceeded" | exit code 0 |
| `MCScheduler_greedy` | "checks if the proposed pods will be schedulable" | first fit refuses pods that could be placed |
| `MCOperate_toctou` | "unable to do rolling restart to a stopped datacenter" | a stop after the validation goes unnoticed (by a client that knows tasks) |
| `MCOperate_failed` | "wait until all pods have restarted" | a failed task ends the wait as well (for a client that knows tasks) |
| `MCLeaderElection_proceeding` | "Gain leader election and then proceed" | the lock is released as the function returns |
| `MCConfigBuilder_nested` | "explicitly preserve boolean overrides" | not those of nested mappings: `false` over `true` is lost |
| `MCConfigBuilder_switch` | "replace the values with the inputs we get" | a switch turned off is followed by the image's line that turns it on |
| `MCConfigBuilder_torn` | the test of rack properties expects two lines | after a restart they are there twice, or behind a torn one |
| `MCReleaseValues_elements` | "merged default values.yaml (with comments) and helm modified values" | of a sequence's mappings only the first is kept |
| `MCReleaseValues_readable` | the same, for `UpgradeValues` to read | a value of another type than the default keeps the default's tag, and cannot be read |
| `MCUsers_volume` | directories follow "the Kubernetes secret format" | a mounted secret's `..data` link cannot be read |
| `MCUsers_stopped` | "Add new users to CassandraDatacenter installation" | panics when the datacenter has no pods |

Six more were met and have no configuration: `--download` goes on to the CRDs with
a nil client (`helm/crds.go:126`); a status update meant to remove versions from
`storedVersions` also adds those of the manifest that nothing was stored at
(`helmutil/crds.go:139`); finished pods still count when pods are estimated
(`fit.go:31`); the limit of one pod per node does not hold for
pods that tolerate the unschedulable mark (`fit.go:179`); a datacenter that already
is as requested is written anyway, and may conflict (`manage.go:38`); of a directory
only the files named `username` and `password` are used (`mount.go:61`).

## What is not modelled

- **Outside the repository**, taken from how the code uses it: the API server's
  treatment of CRDs, Leases and resourceVersions, the token controller,
  cass-operator, kube-scheduler's filters, client-go's elector, the management
  API. `PROJECT.json` marks those definitions external.
- **Name cleaning** (`CleanupForKubernetes`): names are given cleaned up, and may
  coincide.
- **helm's actions** (`Release`, `Install`, `Uninstall`, ...), **nodetool**,
  **datacenter reader**, **command line**: single calls or wiring, without state.
- **Test environment** (`internal/envtest`): not part of the program.
- Within the modelled parts: documents that cannot be decoded, manifests read half
  written, contents of the path changing while `users add` reads it, a configuration
  whose layers disagree on the type of a key (goalesce), several options joined in one
  string, numbers (which the builder keeps as strings), fractions where a chart has an
  integer, YAML anchors, releases that Helm holds for pending, the 32 characters a
  prompt takes, and the objects stored in the cluster at a CRD version.

## Plan

What could be added, by what it would show:

1. `CrdDirs` (`findCRDDirs`, `FilterCharts`): which directories and files are CRDs.
2. `Names` (`CleanupForKubernetes`, `createName`) and the arguments of the task
   types in `pkg/tasks`.
