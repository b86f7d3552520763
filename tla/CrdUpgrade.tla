----------------------------- MODULE CrdUpgrade -----------------------------
(***************************************************************************)
(* `kubectl k8ssandra helm crds upgrade`: cmd/.../helm/crds.go,            *)
(* pkg/helmutil/crds.go, fetch.go, parse.go and pkg/util's cache directory.*)
(*                                                                         *)
(* Upgraders run on hosts and share the host's chart cache, a directory    *)
(* cache/<repo>/<chart> with one sub-directory per extracted release.      *)
(* They all write the CustomResourceDefinitions of one cluster.  A run     *)
(* may fail or be killed between any two steps, and may be started again.  *)
(***************************************************************************)
EXTENDS CrdStore, Sequences, FiniteSets

CONSTANTS
    Upgrader, Host,
    HostOf,      \* [Upgrader -> Host]
    Releases,    \* Releases[r] is the sequence of CRD manifests of release r;
                 \* releases are numbered in the lexical order of their names
    Installed,   \* [Crd -> Manifest \cup {NoCrd}], the cluster at the start
    Modes,       \* values of the --download flag in use
    MaxRuns,     \* commands each upgrader is given
    MaxRetries,  \* times each upgrader runs a failed command again
    MaxFaults,   \* runs that fail or are killed
    FaultPoints, \* the steps at which that happens
    MaxTouches   \* writes of other controllers to the CRDs

Release == DOMAIN Releases

\* Each manifest is a file in a crds directory of its own: <<release, place>>.
ManifestFile == UNION {{r} \X DOMAIN Releases[r] : r \in Release}

\* Where a run can be while Upgrade executes.
Active == {"stat", "download", "mkdir", "expand", "write", "walk", "parse",
           "get", "create", "status", "update"}

ASSUME ConfigAssumption ==
    /\ HostOf \in [Upgrader -> Host]
    /\ Release \subseteq Nat
    /\ \A r \in Release : \A i \in DOMAIN Releases[r] : WellFormed(Releases[r][i])
    /\ Installed \in [Crd -> Manifest \cup {NoCrd}]
    /\ \A c \in Crd : Installed[c] # NoCrd =>
           WellFormed(Installed[c]) /\ Installed[c].crd = c
    /\ Modes \subseteq BOOLEAN
    /\ FaultPoints \subseteq Active
    /\ MaxRuns \in Nat /\ MaxRetries \in Nat /\ MaxFaults \in Nat /\ MaxTouches \in Nat
ASSUME ReleasesAssumption == \A r \in Release : Releases[r] \in Seq(Manifest)

VARIABLES
    crd,       \* [Crd -> Object \cup {NoCrd}], the cluster's CRDs
    dirs,      \* [Host -> SUBSET Release], version directories in the cache
    files,     \* [Host -> SUBSET ManifestFile], manifest files in the cache
    blank,     \* [Host -> SUBSET ManifestFile], those of them that are empty
    pc,        \* where each run is
    want,      \* --chartVersion
    download,  \* --download
    fresh,     \* this run extracted the chart itself (chartDir = extractDir)
    left,      \* the files still to be extracted, or to be read
    open,      \* the file truncated for writing, and not yet written
    cut,       \* this run's findCRDDirs met an error, and found a part only
    crds,      \* the manifests parsed from chartDir
    next,      \* index of the manifest the loop is at
    existing,  \* existingCrd / existingDefinition: the object as last read
    runs, retries, faults, touches   \* used up of the bounds

cacheVars == <<dirs, files, blank>>
readVars == <<left, open, cut>>
runVars == <<want, download, fresh, crds, next, existing>>
bounds == <<runs, retries, faults, touches>>
vars == <<crd, cacheVars, readVars, pc, runVars, bounds>>

Ended == {"idle", "ok", "error", "panic"}

Running(p) == pc[p] \in Active
Obj(p) == crds[p][next[p]]
Goto(p, label) == pc' = [pc EXCEPT ![p] = label]

-----------------------------------------------------------------------------
(* The chart: cached, or downloaded and extracted. *)

\* The order in which filepath.Walk visits files.
FileOrder(f, g) == f[1] < g[1] \/ (f[1] = g[1] /\ f[2] < g[2])

FilesOf(r) == {f \in ManifestFile : f[1] = r}

\* The files under chartDir.
ChartFiles(p) == files[HostOf[p]] \cap (IF fresh[p] THEN FilesOf(want[p]) ELSE ManifestFile)

\* NewUpgrader and the call of Upgrade.
Begin(p, r, d) ==
    /\ pc[p] \in Ended
    /\ want' = [want EXCEPT ![p] = r]
    /\ download' = [download EXCEPT ![p] = d]
    /\ Goto(p, "stat")
    /\ UNCHANGED <<crd, cacheVars, readVars, fresh, crds, next, existing, faults, touches>>

\* A new command.
Start(p) ==
    /\ runs[p] < MaxRuns
    /\ runs' = [runs EXCEPT ![p] = @ + 1]
    /\ \E r \in Release, d \in Modes : Begin(p, r, d)
    /\ UNCHANGED retries

\* A pre-upgrade hook's Job, or its user, runs a failed command again.
Retry(p) ==
    /\ pc[p] = "error"
    /\ retries[p] < MaxRetries
    /\ retries' = [retries EXCEPT ![p] = @ + 1]
    /\ Begin(p, want[p], download[p])
    /\ UNCHANGED runs

\* os.Stat(chartDir): the directory is named by chart alone, not by version.
Stat(p) ==
    /\ pc[p] = "stat"
    /\ LET absent == dirs[HostOf[p]] = {}
       IN  /\ fresh' = [fresh EXCEPT ![p] = absent]
           /\ Goto(p, IF absent THEN "download" ELSE "walk")
    /\ UNCHANGED <<crd, cacheVars, readVars, want, download, crds, next, existing, bounds>>

\* DownloadChartRelease: into a temporary directory of its own.
Download(p) ==
    /\ pc[p] = "download"
    /\ Goto(p, "mkdir")
    /\ UNCHANGED <<crd, cacheVars, readVars, runVars, bounds>>

\* ExtractChartRelease: the directory first ...
MakeDir(p) ==
    /\ pc[p] = "mkdir"
    /\ dirs' = [dirs EXCEPT ![HostOf[p]] = @ \cup {want[p]}]
    /\ left' = [left EXCEPT ![p] = FilesOf(want[p])]
    /\ Goto(p, "expand")
    /\ UNCHANGED <<crd, files, blank, open, cut, runVars, bounds>>

\* ... then ExpandFile, which opens each file of the archive in turn, new or not,
\* with nothing in it, ...
OpenFile(p) ==
    /\ pc[p] = "expand"
    /\ \E f \in left[p] :
          /\ files' = [files EXCEPT ![HostOf[p]] = @ \cup {f}]
          /\ blank' = [blank EXCEPT ![HostOf[p]] = @ \cup {f}]
          /\ left' = [left EXCEPT ![p] = @ \ {f}]
          /\ open' = [open EXCEPT ![p] = {f}]
    /\ Goto(p, "write")
    /\ UNCHANGED <<crd, dirs, cut, runVars, bounds>>

\* ... and writes it.
WriteFile(p) ==
    /\ pc[p] = "write"
    /\ blank' = [blank EXCEPT ![HostOf[p]] = @ \ open[p]]
    /\ open' = [open EXCEPT ![p] = {}]
    /\ Goto(p, "expand")
    /\ UNCHANGED <<crd, dirs, files, left, cut, runVars, bounds>>

\* Mutant: ExpandFile's error is dropped, the run goes on with what is there.
ExpandedAnyhow(p) ==
    /\ pc[p] = "expand"
    /\ Goto(p, "walk")
    /\ UNCHANGED <<crd, cacheVars, readVars, runVars, bounds>>

Expanded(p) ==
    /\ pc[p] = "expand" /\ left[p] = {}
    /\ Goto(p, "walk")
    /\ UNCHANGED <<crd, cacheVars, readVars, runVars, bounds>>

\* findCRDDirs found the directories of these files.
WalkFinds(p, found, partly) ==
    /\ pc[p] = "walk"
    /\ left' = [left EXCEPT ![p] = found]
    /\ cut' = [cut EXCEPT ![p] = partly]
    /\ crds' = [crds EXCEPT ![p] = <<>>]
    /\ Goto(p, "parse")
    /\ UNCHANGED <<crd, cacheVars, open, want, download, fresh, next, existing>>

Walk(p) == WalkFinds(p, ChartFiles(p), FALSE) /\ UNCHANGED bounds

\* FilterCharts reads the files in the order of the walk; an empty one is skipped.
ReadFile(p) ==
    /\ pc[p] = "parse"
    /\ \E f \in left[p] :
          /\ \A g \in left[p] \ {f} : FileOrder(f, g)
          /\ left' = [left EXCEPT ![p] = @ \ {f}]
          /\ crds' = IF f \in blank[HostOf[p]] THEN crds
                     ELSE [crds EXCEPT ![p] = Append(@, Releases[f[1]][f[2]])]
    /\ UNCHANGED <<crd, cacheVars, open, cut, pc, want, download, fresh, next, existing, bounds>>

\* Mutant: the loop is an index loop that starts at zero.
ParsedFromZero(p) ==
    /\ pc[p] = "parse" /\ left[p] = {}
    /\ next' = [next EXCEPT ![p] = 0]
    /\ Goto(p, "get")
    /\ UNCHANGED <<crd, cacheVars, readVars, want, download, fresh, crds, existing, bounds>>

Parsed(p) ==
    /\ pc[p] = "parse" /\ left[p] = {}
    /\ next' = [next EXCEPT ![p] = 1]
    /\ Goto(p, "get")
    /\ UNCHANGED <<crd, cacheVars, readVars, want, download, fresh, crds, existing, bounds>>

-----------------------------------------------------------------------------
(* The loop over the parsed manifests. *)

Finish(p) ==
    /\ pc[p] = "get" /\ next[p] > Len(crds[p])
    /\ Goto(p, "ok")
    /\ UNCHANGED <<crd, cacheVars, readVars, runVars, bounds>>

\* With --download the client is the zero NamespacedClient: a call panics.
NilClient(p) ==
    /\ pc[p] = "get" /\ next[p] <= Len(crds[p]) /\ download[p]
    /\ Goto(p, "panic")
    /\ UNCHANGED <<crd, cacheVars, readVars, runVars, bounds>>

\* Mutant: only the storage version is collected.
StorageVersionOnly(m) == {m.storage}

UpdatedVersions(m) == m.versions

\* Mutant: only the case that no stored version is left is handled.
AllRemoved(o, m) == o.stored \cap m.versions = {}

\* Some stored version is not among the manifest's: storedVersions are replaced.
Removed(o, m) == ~(o.stored \subseteq UpdatedVersions(m))

Get(p) ==
    /\ pc[p] = "get" /\ next[p] <= Len(crds[p]) /\ ~download[p]
    /\ LET o == crd[Obj(p).crd]
       IN  /\ existing' = [existing EXCEPT ![p] = o]
           /\ Goto(p, CASE o = NoCrd -> "create"
                        [] o # NoCrd /\ Removed(o, Obj(p)) -> "status"
                        [] OTHER -> "update")
    /\ UNCHANGED <<crd, cacheVars, readVars, want, download, fresh, crds, next, bounds>>

\* The write is accepted, and the loop goes on to the next manifest ...
Wrote(p, new) ==
    /\ crd' = [crd EXCEPT ![Obj(p).crd] = new]
    /\ next' = [next EXCEPT ![p] = @ + 1]
    /\ Goto(p, "get")
    /\ UNCHANGED <<cacheVars, readVars, want, download, fresh, crds, existing, bounds>>
\* ... or it is refused, and Upgrade returns the error.
Refused(p) ==
    /\ Goto(p, "error")
    /\ UNCHANGED <<crd, cacheVars, readVars, runVars, bounds>>

Create(p) ==
    /\ pc[p] = "create"
    /\ IF crd[Obj(p).crd] = NoCrd THEN Wrote(p, Created(Obj(p))) ELSE Refused(p)

\* Mutant: the spec update is left out after a status update.
StatusUpdateOnly(p) ==
    /\ pc[p] = "status"
    /\ LET o == crd[Obj(p).crd]
       IN  IF RvMatches(o, existing[p])
           THEN Wrote(p, StatusWritten(o, UpdatedVersions(Obj(p))))
           ELSE Refused(p)

\* Mutant: obj keeps the resourceVersion from before the status update.
StatusUpdateStaleRv(p) ==
    /\ pc[p] = "status"
    /\ LET o == crd[Obj(p).crd]
       IN  IF RvMatches(o, existing[p])
           THEN /\ crd' = [crd EXCEPT ![Obj(p).crd] = StatusWritten(o, UpdatedVersions(Obj(p)))]
                /\ Goto(p, "update")
                /\ UNCHANGED <<cacheVars, readVars, runVars, bounds>>
           ELSE Refused(p)

\* Status().Update refreshes existingDefinition, and obj takes its
\* resourceVersion.
StatusUpdate(p) ==
    /\ pc[p] = "status"
    /\ LET o == crd[Obj(p).crd]
           new == StatusWritten(o, UpdatedVersions(Obj(p)))
       IN  IF RvMatches(o, existing[p])
           THEN /\ crd' = [crd EXCEPT ![Obj(p).crd] = new]
                /\ existing' = [existing EXCEPT ![p] = new]
                /\ Goto(p, "update")
                /\ UNCHANGED <<cacheVars, readVars, want, download, fresh, crds, next, bounds>>
           ELSE Refused(p)

\* Mutant: no resourceVersion is sent, so the server does not compare it.
SpecUpdateUnconditional(p) ==
    /\ pc[p] = "update"
    /\ LET o == crd[Obj(p).crd]
       IN  IF Admitted(o, Obj(p)) THEN Wrote(p, SpecWritten(o, Obj(p))) ELSE Refused(p)

\* Mutant: the error of the update is dropped, the loop goes on.
SpecUpdateIgnoringError(p) ==
    /\ pc[p] = "update"
    /\ LET o == crd[Obj(p).crd]
       IN  IF RvMatches(o, existing[p]) /\ Admitted(o, Obj(p))
           THEN Wrote(p, SpecWritten(o, Obj(p)))
           ELSE Wrote(p, o)

\* Mutant: the definition is merged into the existing one, which keeps its
\* storage version.
SpecUpdateMerging(p) ==
    /\ pc[p] = "update"
    /\ LET o == crd[Obj(p).crd]
       IN  IF RvMatches(o, existing[p]) /\ Admitted(o, Obj(p))
           THEN Wrote(p, SpecWritten(o, [Obj(p) EXCEPT !.storage = o.spec.storage]))
           ELSE Refused(p)

SpecUpdate(p) ==
    /\ pc[p] = "update"
    /\ LET o == crd[Obj(p).crd]
       IN  IF RvMatches(o, existing[p]) /\ Admitted(o, Obj(p))
           THEN Wrote(p, SpecWritten(o, Obj(p)))
           ELSE Refused(p)

-----------------------------------------------------------------------------
(* The environment. *)

\* A call fails (network, disk, a bad download), or the process is killed.
FailOrCrash(p) ==
    /\ pc[p] \in FaultPoints
    /\ faults < MaxFaults
    /\ faults' = faults + 1
    /\ Goto(p, "error")
    /\ UNCHANGED <<crd, cacheVars, readVars, runVars, runs, retries, touches>>

\* Reading a directory fails while findCRDDirs walks the chart: its error is dropped
\* and the run goes on with what was found before, a beginning of the walk.
CutWalk(p) ==
    /\ "walk" \in FaultPoints
    /\ faults < MaxFaults
    /\ faults' = faults + 1
    /\ \E found \in SUBSET ChartFiles(p) :
          /\ found # ChartFiles(p)
          /\ \A f \in found, g \in ChartFiles(p) \ found : FileOrder(f, g)
          /\ WalkFinds(p, found, TRUE)
    /\ UNCHANGED <<runs, retries, touches>>

\* The API server's own controllers write status conditions.
Touch(c) ==
    /\ crd[c] # NoCrd
    /\ touches < MaxTouches
    /\ touches' = touches + 1
    /\ crd' = [crd EXCEPT ![c].rv = @ + 1]
    /\ UNCHANGED <<cacheVars, readVars, pc, runVars, runs, retries, faults>>

-----------------------------------------------------------------------------
Init ==
    /\ crd = [c \in Crd |-> IF Installed[c] = NoCrd THEN NoCrd ELSE Created(Installed[c])]
    /\ dirs = [h \in Host |-> {}]
    /\ files = [h \in Host |-> {}]
    /\ blank = [h \in Host |-> {}]
    /\ left = [p \in Upgrader |-> {}]
    /\ open = [p \in Upgrader |-> {}]
    /\ cut = [p \in Upgrader |-> FALSE]
    /\ pc = [p \in Upgrader |-> "idle"]
    /\ want = [p \in Upgrader |-> 0]
    /\ download = [p \in Upgrader |-> FALSE]
    /\ fresh = [p \in Upgrader |-> FALSE]
    /\ crds = [p \in Upgrader |-> <<>>]
    /\ next = [p \in Upgrader |-> 1]
    /\ existing = [p \in Upgrader |-> NoCrd]
    /\ runs = [p \in Upgrader |-> 0]
    /\ retries = [p \in Upgrader |-> 0]
    /\ faults = 0
    /\ touches = 0

\* One step of a run.
Step(p) ==
    \/ Stat(p) \/ Download(p) \/ MakeDir(p) \/ OpenFile(p) \/ WriteFile(p) \/ Expanded(p)
    \/ Walk(p) \/ ReadFile(p) \/ Parsed(p) \/ Finish(p) \/ NilClient(p) \/ Get(p)
    \/ Create(p) \/ StatusUpdate(p) \/ SpecUpdate(p)

Next ==
    \/ \E p \in Upgrader : Start(p) \/ Retry(p) \/ Step(p) \/ FailOrCrash(p) \/ CutWalk(p)
    \/ \E c \in Crd : Touch(c)

Spec == Init /\ [][Next]_vars

\* A run goes on until it ends: the code has no wait of its own.
FairSpec == Spec /\ \A p \in Upgrader : WF_vars(Step(p))

\* And a failed command is run again.
RetrySpec == FairSpec /\ \A p \in Upgrader : WF_vars(Retry(p))

-----------------------------------------------------------------------------
(* Properties. *)

TypeOK ==
    /\ crd \in [Crd -> Object \cup {NoCrd}]
    /\ dirs \in [Host -> SUBSET Release]
    /\ files \in [Host -> SUBSET ManifestFile]
    /\ blank \in [Host -> SUBSET ManifestFile]
    /\ \A h \in Host : blank[h] \subseteq files[h]
    /\ left \in [Upgrader -> SUBSET ManifestFile]
    /\ open \in [Upgrader -> SUBSET ManifestFile]
    /\ cut \in [Upgrader -> BOOLEAN]
    /\ pc \in [Upgrader -> Active \cup Ended]
    /\ want \in [Upgrader -> Release \cup {0}]
    /\ download \in [Upgrader -> BOOLEAN]
    /\ fresh \in [Upgrader -> BOOLEAN]
    /\ crds \in [Upgrader -> Seq(Manifest)]
    /\ next \in [Upgrader -> Nat \ {0}]
    /\ existing \in [Upgrader -> Object \cup {NoCrd}]
    /\ runs \in [Upgrader -> 0..MaxRuns]
    /\ retries \in [Upgrader -> 0..MaxRetries]
    /\ faults \in 0..MaxFaults
    /\ touches \in 0..MaxTouches

Writing(p) == pc[p] \in {"create", "status", "update"}
InLoop(p) == Writing(p) \/ pc[p] \in {"get", "ok"}

\* The spec update is never refused for a stored version: whatever other
\* upgraders and controllers write in between, an update that still holds the
\* current resourceVersion has first cleared status.storedVersions of every
\* version its manifest lacks (crds.go:123-149).
UpdateAdmissible ==
    \A p \in Upgrader :
        LET o == crd[Obj(p).crd]
        IN  pc[p] = "update" /\ RvMatches(o, existing[p]) => Admitted(o, Obj(p))

\* No lost update: an upgrader changes a CRD only when the CRD is still, in
\* every field, the one its decision was based on (crds.go:92-147).
WritesOnWhatItRead ==
    [][\A p \in Upgrader :
          Writing(p) /\ pc'[p] # pc[p] /\ crd'[Obj(p).crd] # crd[Obj(p).crd]
              => crd[Obj(p).crd] = existing[p]]_vars

\* A version leaves storedVersions only through an upgrader whose manifest
\* does not list it, not because another one raced it (crds.go:125-145).
DropsOnlyUnlisted ==
    [][\A c \in Crd :
          crd[c] # NoCrd /\ crd'[c] # NoCrd /\ ~(crd[c].stored \subseteq crd'[c].stored)
              => \E p \in Upgrader :
                     /\ pc[p] = "status" /\ pc'[p] = "update" /\ Obj(p).crd = c
                     /\ (crd[c].stored \ crd'[c].stored) \cap Obj(p).versions = {}]_vars

\* A run that extracted the chart itself processes exactly the manifests of
\* the release it was asked for, also when other upgraders extract other releases
\* into the same cache at the same time, or walk it.  It needs that nobody else on
\* the host is given the same release, whose files would be emptied under it, and
\* that findCRDDirs met no error (crds.go:54-87, fetch.go:115, parse.go:36-39).
OnlyOneOf(p) ==
    \A q \in Upgrader \ {p} :
        HostOf[q] = HostOf[p] => runs[q] = 0 \/ (runs[q] = 1 /\ want[q] # want[p])
FreshRunIsComplete ==
    \A p \in Upgrader :
        fresh[p] /\ InLoop(p) /\ ~cut[p] /\ OnlyOneOf(p) => crds[p] = Releases[want[p]]

\* The loop of Upgrade: if nobody else runs, every CRD the loop has passed is
\* at the last manifest that names it, after retries too (crds.go:89-151).
Alone(p) == \A q \in Upgrader \ {p} : runs[q] = 0
LoopInvariant ==
    \A p \in Upgrader : Alone(p) /\ InLoop(p) =>
        \A i \in DOMAIN crds[p] :
            (/\ i < next[p]
             /\ \A j \in DOMAIN crds[p] :
                    i < j /\ j < next[p] => crds[p][j].crd # crds[p][i].crd)
            => /\ crd[crds[p][i].crd] # NoCrd
               /\ crd[crds[p][i].crd].spec = crds[p][i]

\* An upgrade that nothing disturbs succeeds at once: no write of its own makes
\* its next write fail (crds.go:137-149).
UndisturbedUpgradeSucceeds ==
    \A p \in Upgrader : Alone(p) /\ faults = 0 /\ touches = 0 => pc[p] # "error"

\* A torn CRD, whose storedVersions and spec disagree, is only ever the work of
\* a run stopped between its two writes: if all runs succeeded, none is torn.
Consistent(o) == o.spec.storage \in o.stored /\ o.stored \subseteq o.spec.versions
TornOnlyByFailure ==
    (\A p \in Upgrader : runs[p] <= 1 /\ retries[p] = 0 /\ pc[p] \in {"idle", "ok"})
        => \A c \in Crd : crd[c] = NoCrd \/ Consistent(crd[c])

\* What the cluster is promised: see SchemaRegistry.
Registry == INSTANCE SchemaRegistry WITH
    Offered <- UNION {{Releases[r][i] : i \in DOMAIN Releases[r]} : r \in Release},
    Initially <- Installed,
    schema <- [c \in Crd |-> IF crd[c] = NoCrd THEN NoCrd ELSE crd[c].spec]
ImplementsRegistry == Registry!Spec

\* A command that is run again until it succeeds does succeed, and leaves what it
\* has read installed with consistent storedVersions.  That is the whole release if
\* the cache holds it whole and findCRDDirs met no error; otherwise the command ends
\* as well, and is not run again.
InstalledAsRead(ms) == \A i \in DOMAIN ms :
    LET o == crd[ms[i].crd]
    IN  o # NoCrd /\ o.spec = ms[i] /\ Consistent(o)
CachedWhole(h, r) == FilesOf(r) \subseteq files[h] \ blank[h]
RetriedUpgradeSucceeds ==
    \A p \in Upgrader : Running(p) ~>
        /\ pc[p] = "ok" /\ InstalledAsRead(crds[p])
        /\ ~cut[p] /\ CachedWhole(HostOf[p], want[p]) => InstalledAsRead(Releases[want[p]])

-----------------------------------------------------------------------------
(* What the documentation says and the code does not do. *)

\* cmd/.../helm/crds.go:50: "upgrade CRDs from chart to target version".
OkMeansTargetVersion ==
    \A p \in Upgrader : pc[p] = "ok" => crds[p] = Releases[want[p]]

\* crds.go:45: "Upgrade installs the missing CRDs or updates them if they
\* exists already" (one release, so the version is not the point).
OkMeansAllInstalled ==
    \A p \in Upgrader : pc[p] = "ok" =>
        \A i \in DOMAIN Releases[want[p]] : crd[Releases[want[p]][i].crd] # NoCrd
=============================================================================
