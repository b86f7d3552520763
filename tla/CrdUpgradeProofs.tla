-------------------------- MODULE CrdUpgradeProofs --------------------------
(***************************************************************************)
(* Theorems about CrdUpgrade, for every set of upgraders, hosts, charts    *)
(* and every value of the bounds.                                          *)
(***************************************************************************)
EXTENDS CrdUpgrade, TLAPS

USE DEF UpdatedVersions

Offer == UNION {{Releases[r][i] : i \in DOMAIN Releases[r]} : r \in Release}

\* What the runs process comes from the chart's releases, and the loop's index
\* is inside the list while a manifest is being written.
FromChart(p) ==
    /\ pc[p] # "idle" => want[p] \in Release
    /\ \A i \in DOMAIN crds[p] : crds[p][i] \in Offer
    /\ Writing(p) => next[p] \in DOMAIN crds[p]

\* What a run has read is an earlier or the present state of the object; with
\* the object's resourceVersion it is the present one.
ReadIsPast(p) ==
    pc[p] \in {"status", "update"} =>
        LET o == crd[Obj(p).crd]
        IN  /\ existing[p] \in Object
            /\ o # NoCrd
            /\ existing[p].rv <= o.rv
            /\ existing[p].rv = o.rv => existing[p] = o

\* The status write came first where it was needed, and a create follows a Get
\* that found nothing.
Cleared(p) ==
    /\ pc[p] = "update" => ~Removed(existing[p], Obj(p))
    /\ pc[p] = "create" => existing[p] = NoCrd

\* The inductive invariant.
RunInv(p) == FromChart(p) /\ ReadIsPast(p) /\ Cleared(p)
IndInv == TypeOK /\ \A p \in Upgrader : RunInv(p)

-----------------------------------------------------------------------------
(* Facts about the operators. *)

LEMMA OfferIsManifest == Offer \subseteq Manifest /\ \A m \in Offer : m.crd \in Crd
<1>1. \A r \in Release : \A i \in DOMAIN Releases[r] : Releases[r][i] \in Manifest
  BY ConfigAssumption DEF WellFormed
<1>. QED
  BY <1>1 DEF Offer, Manifest

\* An initial object is a typed one.
LEMMA CreatedType == \A m \in Manifest : Created(m) \in Object /\ Created(m) # NoCrd
  BY NoCrdAssumption DEF Created, Object, Manifest

\* Writes keep the type, move the resourceVersion forward unless they change
\* nothing, and a spec write only adds stored versions.
LEMMA SpecWrittenType ==
  ASSUME NEW o \in Object, NEW m \in Manifest
  PROVE  /\ SpecWritten(o, m) \in Object
         /\ SpecWritten(o, m) # NoCrd
         /\ SpecWritten(o, m) = o \/ SpecWritten(o, m).rv = o.rv + 1
         /\ SpecWritten(o, m).spec = m
         /\ SpecWritten(o, m).stored = o.stored \cup {m.storage}
<1>. DEFINE n == [o EXCEPT !.spec = m, !.stored = o.stored \cup {m.storage}]
<1>1. n \in Object /\ n.rv = o.rv /\ n.spec = m /\ n.stored = o.stored \cup {m.storage}
  BY DEF Object, Manifest
<1>2. SpecWritten(o, m) = IF n = o THEN o ELSE [n EXCEPT !.rv = o.rv + 1]
  BY DEF SpecWritten, Written
<1>. HIDE DEF n
<1>3. CASE n = o
  BY <1>1, <1>2, <1>3, NoCrdAssumption
<1>4. CASE n # o
  <2>1. SpecWritten(o, m) = [n EXCEPT !.rv = o.rv + 1]
    BY <1>2, <1>4
  <2>2. /\ SpecWritten(o, m) \in Object
        /\ SpecWritten(o, m).rv = o.rv + 1
        /\ SpecWritten(o, m).spec = n.spec
        /\ SpecWritten(o, m).stored = n.stored
    BY <1>1, <2>1 DEF Object
  <2>. QED
    BY <1>1, <2>2, NoCrdAssumption
<1>. QED
  BY <1>3, <1>4

LEMMA StatusWrittenType ==
  ASSUME NEW o \in Object, NEW vs \in SUBSET Version
  PROVE  /\ StatusWritten(o, vs) \in Object
         /\ StatusWritten(o, vs) # NoCrd
         /\ StatusWritten(o, vs) = o \/ StatusWritten(o, vs).rv = o.rv + 1
         /\ StatusWritten(o, vs).spec = o.spec
         /\ StatusWritten(o, vs).stored = vs
<1>. DEFINE n == [o EXCEPT !.stored = vs]
<1>1. n \in Object /\ n.rv = o.rv /\ n.spec = o.spec /\ n.stored = vs
  BY DEF Object
<1>2. StatusWritten(o, vs) = IF n = o THEN o ELSE [n EXCEPT !.rv = o.rv + 1]
  BY DEF StatusWritten, Written
<1>. HIDE DEF n
<1>3. CASE n = o
  BY <1>1, <1>2, <1>3, NoCrdAssumption
<1>4. CASE n # o
  <2>1. StatusWritten(o, vs) = [n EXCEPT !.rv = o.rv + 1]
    BY <1>2, <1>4
  <2>2. /\ StatusWritten(o, vs) \in Object
        /\ StatusWritten(o, vs).rv = o.rv + 1
        /\ StatusWritten(o, vs).spec = n.spec
        /\ StatusWritten(o, vs).stored = n.stored
    BY <1>1, <2>1 DEF Object
  <2>. QED
    BY <1>1, <2>2, NoCrdAssumption
<1>. QED
  BY <1>3, <1>4

LEMMA TouchedType ==
  ASSUME NEW o \in Object
  PROVE  [o EXCEPT !.rv = @ + 1] \in Object
  BY DEF Object

\* What a file of the chart holds is a manifest of a release.
LEMMA FileHolds ==
  ASSUME NEW f \in ManifestFile
  PROVE  /\ f[1] \in Release /\ f[2] \in DOMAIN Releases[f[1]]
         /\ Releases[f[1]][f[2]] \in Offer
         /\ Releases[f[1]][f[2]] \in Manifest
<1>1. PICK r \in Release : f \in {r} \X DOMAIN Releases[r]
  BY DEF ManifestFile
<1>2. f[1] = r /\ f[2] \in DOMAIN Releases[r]
  BY <1>1
<1>3. Releases[f[1]][f[2]] \in Offer
  BY <1>2 DEF Offer
<1>. QED
  BY <1>2, <1>3, OfferIsManifest

-----------------------------------------------------------------------------
(* Type correctness. *)

LEMMA InitType == Init => TypeOK
<1>. SUFFICES ASSUME Init PROVE TypeOK
  OBVIOUS
<1>1. crd \in [Crd -> Object \cup {NoCrd}]
  <2>1. \A c \in Crd : Installed[c] # NoCrd => Created(Installed[c]) \in Object
    BY ConfigAssumption, CreatedType DEF WellFormed
  <2>. QED
    BY <2>1 DEF Init
<1>2. <<>> \in Seq(Manifest)
  OBVIOUS
<1>. QED
  BY <1>1, <1>2, ConfigAssumption DEF Init, TypeOK, Ended

\* The accepted write of a loop iteration keeps the types.
LEMMA WroteType ==
  ASSUME TypeOK, NEW p \in Upgrader, Obj(p) \in Manifest, NEW new \in Object,
         Wrote(p, new)
  PROVE  TypeOK'
<1>1. Obj(p).crd \in Crd
  BY DEF Manifest
<1>2. crd' \in [Crd -> Object \cup {NoCrd}]
  BY <1>1 DEF TypeOK, Wrote
<1>3. next' \in [Upgrader -> Nat \ {0}]
  <2>1. next[p] + 1 \in Nat \ {0}
    BY DEF TypeOK
  <2>. QED
    BY <2>1 DEF TypeOK, Wrote
<1>4. pc' \in [Upgrader -> Active \cup Ended]
  BY DEF TypeOK, Wrote, Goto, Active
<1>. QED
  BY <1>2, <1>3, <1>4 DEF TypeOK, Wrote, cacheVars, readVars, bounds

LEMMA RefusedType ==
  ASSUME TypeOK, NEW p \in Upgrader, Refused(p) PROVE TypeOK'
  BY DEF TypeOK, Refused, Goto, cacheVars, readVars, runVars, bounds, Ended

\* findCRDDirs finds files of the cache, all or some.
LEMMA WalkFindsFiles ==
  ASSUME TypeOK, NEW p \in Upgrader, Walk(p) \/ CutWalk(p)
  PROVE  \E found \in SUBSET ManifestFile, partly \in BOOLEAN : WalkFinds(p, found, partly)
<1>1. ChartFiles(p) \subseteq ManifestFile
  BY ConfigAssumption DEF ChartFiles, FilesOf, TypeOK
<1>. QED
  BY <1>1 DEF Walk, CutWalk

LEMMA StepType == IndInv /\ [Next]_vars => TypeOK'
<1>. SUFFICES ASSUME IndInv, [Next]_vars PROVE TypeOK'
  OBVIOUS
<1>. USE DEF IndInv, TypeOK, Goto, cacheVars, readVars, runVars, bounds
<1>a. \A p \in Upgrader : Writing(p) => Obj(p) \in Manifest /\ Obj(p) \in Offer
  BY OfferIsManifest DEF RunInv, FromChart, Obj
<1>1. ASSUME NEW p \in Upgrader, Start(p) PROVE TypeOK'
  BY <1>1, ConfigAssumption DEF Start, Begin, Active
<1>2. ASSUME NEW p \in Upgrader, Retry(p) PROVE TypeOK'
  BY <1>2, ConfigAssumption DEF Retry, Begin, Active
<1>3. ASSUME NEW p \in Upgrader, Stat(p) PROVE TypeOK'
  BY <1>3 DEF Stat, Active
<1>4. ASSUME NEW p \in Upgrader, Download(p) PROVE TypeOK'
  BY <1>4 DEF Download, Active
<1>5. ASSUME NEW p \in Upgrader, MakeDir(p) PROVE TypeOK'
  <2>1. want[p] \in Release /\ HostOf[p] \in Host
    BY <1>5, ConfigAssumption DEF MakeDir, RunInv, FromChart, Running, Active
  <2>2. FilesOf(want[p]) \in SUBSET ManifestFile
    BY DEF FilesOf
  <2>. QED
    BY <1>5, <2>1, <2>2 DEF MakeDir, Active
<1>6. ASSUME NEW p \in Upgrader, OpenFile(p) PROVE TypeOK'
  <2>. HIDE DEF cacheVars, readVars, runVars, bounds
  <2>1. HostOf[p] \in Host
    BY ConfigAssumption
  <2>2. PICK f \in left[p] :
           /\ files' = [files EXCEPT ![HostOf[p]] = @ \cup {f}]
           /\ blank' = [blank EXCEPT ![HostOf[p]] = @ \cup {f}]
           /\ left' = [left EXCEPT ![p] = @ \ {f}]
           /\ open' = [open EXCEPT ![p] = {f}]
    BY <1>6 DEF OpenFile
  <2>3. f \in ManifestFile
    BY <2>2
  <2>4. /\ files' \in [Host -> SUBSET ManifestFile] /\ blank' \in [Host -> SUBSET ManifestFile]
        /\ \A h \in Host : blank'[h] \subseteq files'[h]
    BY <2>1, <2>2, <2>3
  <2>5. left' \in [Upgrader -> SUBSET ManifestFile] /\ open' \in [Upgrader -> SUBSET ManifestFile]
    BY <2>2, <2>3
  <2>. QED
    BY <1>6, <2>4, <2>5 DEF OpenFile, Active, runVars, bounds
<1>18. ASSUME NEW p \in Upgrader, WriteFile(p) PROVE TypeOK'
  <2>1. /\ blank' \in [Host -> SUBSET ManifestFile] /\ files' = files
        /\ \A h \in Host : blank'[h] \subseteq files'[h]
    BY <1>18, ConfigAssumption DEF WriteFile
  <2>. QED
    BY <1>18, <2>1 DEF WriteFile, Active
<1>7. ASSUME NEW p \in Upgrader, Expanded(p) PROVE TypeOK'
  BY <1>7 DEF Expanded, Active
<1>20. ASSUME NEW p \in Upgrader, Walk(p) \/ CutWalk(p) PROVE TypeOK'
  <2>1. PICK found \in SUBSET ManifestFile, partly \in BOOLEAN : WalkFinds(p, found, partly)
    BY <1>20, WalkFindsFiles
  <2>2. faults' \in 0..MaxFaults /\ UNCHANGED <<runs, retries, touches>>
    <3>1. CASE Walk(p)
      BY <3>1 DEF Walk
    <3>2. CASE CutWalk(p)
      BY <3>2, ConfigAssumption DEF CutWalk
    <3>. QED
      BY <1>20, <3>1, <3>2
  <2>3. <<>> \in Seq(Manifest)
    OBVIOUS
  <2>. QED
    BY <2>1, <2>2, <2>3 DEF WalkFinds, Active
<1>8. ASSUME NEW p \in Upgrader, ReadFile(p) PROVE TypeOK'
  <2>1. PICK f \in left[p] :
           /\ left' = [left EXCEPT ![p] = @ \ {f}]
           /\ crds' = IF f \in blank[HostOf[p]] THEN crds
                      ELSE [crds EXCEPT ![p] = Append(@, Releases[f[1]][f[2]])]
    BY <1>8 DEF ReadFile
  <2>2. Append(crds[p], Releases[f[1]][f[2]]) \in Seq(Manifest)
    BY <2>1, FileHolds
  <2>. QED
    BY <1>8, <2>1, <2>2 DEF ReadFile
<1>19. ASSUME NEW p \in Upgrader, Parsed(p) PROVE TypeOK'
  BY <1>19 DEF Parsed, Active
<1>9. ASSUME NEW p \in Upgrader, Finish(p) PROVE TypeOK'
  BY <1>9 DEF Finish, Ended
<1>10. ASSUME NEW p \in Upgrader, NilClient(p) PROVE TypeOK'
  BY <1>10 DEF NilClient, Ended
<1>11. ASSUME NEW p \in Upgrader, Get(p) PROVE TypeOK'
  <2>1. next[p] \in DOMAIN crds[p]
    BY <1>11 DEF Get
  <2>2. Obj(p) \in Offer
    BY <2>1 DEF RunInv, FromChart, Obj
  <2>3. crd[Obj(p).crd] \in Object \cup {NoCrd}
    BY <2>2, OfferIsManifest
  <2>. QED
    BY <1>11, <2>3 DEF Get, Active
<1>12. ASSUME NEW p \in Upgrader, Create(p) PROVE TypeOK'
  <2>1. Obj(p) \in Manifest
    BY <1>12, <1>a DEF Create, Writing
  <2>2. Created(Obj(p)) \in Object
    BY <2>1, CreatedType
  <2>. HIDE DEF TypeOK, Goto, cacheVars, readVars, runVars, bounds
  <2>. QED
    BY <1>12, <2>1, <2>2, WroteType, RefusedType DEF Create
<1>13. ASSUME NEW p \in Upgrader, StatusUpdate(p) PROVE TypeOK'
  <2>1. Obj(p) \in Manifest /\ Obj(p).versions \in SUBSET Version /\ Obj(p).crd \in Crd
    BY <1>13, <1>a DEF StatusUpdate, Writing, Manifest
  <2>2. CASE RvMatches(crd[Obj(p).crd], existing[p])
    <3>1. crd[Obj(p).crd] \in Object
      BY <2>1, <2>2 DEF RvMatches
    <3>2. StatusWritten(crd[Obj(p).crd], UpdatedVersions(Obj(p))) \in Object
      BY <2>1, <3>1, StatusWrittenType
    <3>3. crd' \in [Crd -> Object \cup {NoCrd}] /\ existing' \in [Upgrader -> Object \cup {NoCrd}]
      <4>1. /\ crd' = [crd EXCEPT ![Obj(p).crd] = StatusWritten(crd[Obj(p).crd], UpdatedVersions(Obj(p)))]
            /\ existing' = [existing EXCEPT ![p] = StatusWritten(crd[Obj(p).crd], UpdatedVersions(Obj(p)))]
        BY <1>13, <2>2 DEF StatusUpdate
      <4>. QED
        BY <2>1, <3>2, <4>1
    <3>4. pc' \in [Upgrader -> Active \cup Ended]
      <4>1. pc \in [Upgrader -> Active \cup Ended] /\ pc' = [pc EXCEPT ![p] = "update"]
        BY <1>13, <2>2 DEF StatusUpdate
      <4>2. "update" \in Active \cup Ended
        BY DEF Active
      <4>. QED
        BY <4>1, <4>2
    <3>. QED
      BY <1>13, <2>2, <3>3, <3>4 DEF StatusUpdate
  <2>3. CASE ~RvMatches(crd[Obj(p).crd], existing[p])
    BY <1>13, <2>3, RefusedType DEF StatusUpdate
  <2>. QED
    BY <2>2, <2>3
<1>14. ASSUME NEW p \in Upgrader, SpecUpdate(p) PROVE TypeOK'
  <2>1. Obj(p) \in Manifest /\ Obj(p).crd \in Crd
    BY <1>14, <1>a DEF SpecUpdate, Writing, Manifest
  <2>2. RvMatches(crd[Obj(p).crd], existing[p])
            => SpecWritten(crd[Obj(p).crd], Obj(p)) \in Object
    BY <2>1, SpecWrittenType DEF RvMatches
  <2>. HIDE DEF TypeOK, Goto, cacheVars, readVars, runVars, bounds
  <2>. QED
    BY <1>14, <2>1, <2>2, WroteType, RefusedType DEF SpecUpdate
<1>15. ASSUME NEW p \in Upgrader, FailOrCrash(p) PROVE TypeOK'
  BY <1>15, ConfigAssumption DEF FailOrCrash, Ended
<1>16. ASSUME NEW c \in Crd, Touch(c) PROVE TypeOK'
  <2>1. [crd[c] EXCEPT !.rv = @ + 1] \in Object
    <3>1. crd[c] \in Object
      BY <1>16 DEF Touch
    <3>. QED
      BY <3>1, TouchedType
  <2>2. crd' \in [Crd -> Object \cup {NoCrd}]
    BY <1>16, <2>1 DEF Touch
  <2>3. touches' \in 0..MaxTouches
    BY <1>16, ConfigAssumption DEF Touch
  <2>. QED
    BY <1>16, <2>2, <2>3 DEF Touch
<1>17. CASE UNCHANGED vars
  BY <1>17 DEF vars
<1>. QED
  BY <1>1, <1>2, <1>3, <1>4, <1>5, <1>6, <1>7, <1>8, <1>9, <1>10, <1>11, <1>12,
     <1>13, <1>14, <1>15, <1>16, <1>17, <1>18, <1>19, <1>20 DEF Next, Step

-----------------------------------------------------------------------------
(* Every step, seen from one CRD and from one run. *)

\* A CRD is never deleted, and a change of it moves its resourceVersion on.
Advances(c) ==
    crd[c] # NoCrd =>
        crd'[c] # NoCrd /\ (crd'[c] = crd[c] \/ crd[c].rv < crd'[c].rv)

LEMMA CrdAdvances == IndInv /\ [Next]_vars => \A c \in Crd : Advances(c)
<1>. SUFFICES ASSUME IndInv, [Next]_vars, NEW c \in Crd, crd[c] # NoCrd, crd'[c] # crd[c]
              PROVE  crd'[c] # NoCrd /\ crd[c].rv < crd'[c].rv
  BY DEF Advances
<1>a. crd[c] \in Object /\ crd[c].rv \in Nat
  BY DEF IndInv, TypeOK, Object
<1>b. \A p \in Upgrader : Writing(p) => Obj(p) \in Manifest /\ Obj(p).versions \in SUBSET Version
  BY OfferIsManifest DEF IndInv, RunInv, FromChart, Obj, Manifest
<1>1. ASSUME NEW p \in Upgrader, Create(p)
      PROVE  FALSE
  BY <1>1 DEF Create, Wrote, Refused, IndInv, TypeOK
<1>2. ASSUME NEW p \in Upgrader, StatusUpdate(p)
      PROVE  crd'[c] # NoCrd /\ crd[c].rv < crd'[c].rv
  <2>1. c = Obj(p).crd /\ crd'[c] = StatusWritten(crd[c], UpdatedVersions(Obj(p)))
    BY <1>2 DEF StatusUpdate, Refused, IndInv, TypeOK
  <2>2. Obj(p).versions \in SUBSET Version
    BY <1>2, <1>b DEF StatusUpdate, Writing
  <2>. QED
    BY <1>a, <2>1, <2>2, StatusWrittenType
<1>3. ASSUME NEW p \in Upgrader, SpecUpdate(p)
      PROVE  crd'[c] # NoCrd /\ crd[c].rv < crd'[c].rv
  <2>1. c = Obj(p).crd /\ crd'[c] = SpecWritten(crd[c], Obj(p))
    BY <1>3 DEF SpecUpdate, Wrote, Refused, IndInv, TypeOK
  <2>2. Obj(p) \in Manifest
    BY <1>3, <1>b DEF SpecUpdate, Writing
  <2>. QED
    BY <1>a, <2>1, <2>2, SpecWrittenType
<1>4. ASSUME NEW d \in Crd, Touch(d)
      PROVE  crd'[c] # NoCrd /\ crd[c].rv < crd'[c].rv
  <2>1. d = c /\ crd'[c] = [crd[c] EXCEPT !.rv = @ + 1]
    BY <1>4 DEF Touch, IndInv, TypeOK
  <2>2. crd'[c] \in Object /\ crd'[c].rv = crd[c].rv + 1
    BY <1>a, <2>1 DEF Object
  <2>. QED
    BY <1>a, <2>2, NoCrdAssumption
<1>. QED
  BY <1>1, <1>2, <1>3, <1>4
     DEF Next, Step, vars, Start, Retry, Begin, Stat, Download, MakeDir, OpenFile,
         WriteFile, Expanded, Walk, WalkFinds, ReadFile, Parsed, Finish, NilClient, Get,
         FailOrCrash, CutWalk

\* A run's own state changes in its own steps only.
Frame(q) ==
    /\ pc'[q] = pc[q] /\ want'[q] = want[q] /\ crds'[q] = crds[q]
    /\ next'[q] = next[q] /\ existing'[q] = existing[q] /\ fresh'[q] = fresh[q]
    /\ left'[q] = left[q] /\ open'[q] = open[q] /\ cut'[q] = cut[q]

OwnStep(p) == Start(p) \/ Retry(p) \/ Step(p) \/ FailOrCrash(p) \/ CutWalk(p)

LEMMA FrameOther ==
  ASSUME TypeOK, NEW p \in Upgrader, NEW q \in Upgrader \ {p}, OwnStep(p)
  PROVE  Frame(q)
<1>. USE DEF Goto, runVars, readVars, TypeOK, Frame
<1>1. CASE Start(p) \/ Retry(p)
  BY <1>1 DEF Start, Retry, Begin
<1>2. CASE Stat(p) \/ Download(p) \/ MakeDir(p) \/ OpenFile(p) \/ WriteFile(p) \/ Expanded(p)
  BY <1>2 DEF Stat, Download, MakeDir, OpenFile, WriteFile, Expanded
<1>3. CASE Walk(p) \/ CutWalk(p) \/ ReadFile(p) \/ Parsed(p)
  BY <1>3 DEF Walk, CutWalk, WalkFinds, ReadFile, Parsed
<1>4. CASE Finish(p) \/ NilClient(p) \/ Get(p)
  BY <1>4 DEF Finish, NilClient, Get
<1>5. CASE Create(p)
  BY <1>5 DEF Create, Wrote, Refused
<1>6. CASE StatusUpdate(p)
  BY <1>6 DEF StatusUpdate, Wrote, Refused
<1>7. CASE SpecUpdate(p)
  BY <1>7 DEF SpecUpdate, Wrote, Refused
<1>8. CASE FailOrCrash(p)
  BY <1>8 DEF FailOrCrash
<1>. QED
  BY <1>1, <1>2, <1>3, <1>4, <1>5, <1>6, <1>7, <1>8 DEF OwnStep, Step

\* While a run does not move, what it knows stays true whatever the others do.
LEMMA FrameKeeps ==
  ASSUME IndInv, TypeOK', NEW q \in Upgrader, Frame(q), \A c \in Crd : Advances(c)
  PROVE  RunInv(q)'
<1>1. FromChart(q)'
  BY DEF IndInv, RunInv, FromChart, Frame, Running, Writing
<1>2. Cleared(q)'
  BY DEF IndInv, RunInv, Cleared, Frame, Removed, Obj
<1>3. ReadIsPast(q)'
  <2>. SUFFICES ASSUME pc[q] \in {"status", "update"} PROVE ReadIsPast(q)'
    BY DEF ReadIsPast, Frame
  <2>. DEFINE c == Obj(q).crd
  <2>1. Obj(q)' = Obj(q)
    BY DEF Frame, Obj
  <2>2. Obj(q) \in Offer
    BY DEF IndInv, RunInv, FromChart, Writing, Obj
  <2>3. c \in Crd
    BY <2>2, OfferIsManifest
  <2>4. /\ existing[q] \in Object /\ crd[c] # NoCrd
        /\ existing[q].rv <= crd[c].rv
        /\ existing[q].rv = crd[c].rv => existing[q] = crd[c]
    BY DEF IndInv, RunInv, ReadIsPast
  <2>5. crd[c] \in Object /\ crd'[c] \in Object \cup {NoCrd}
    BY <2>3, <2>4 DEF IndInv, TypeOK
  <2>6. crd'[c] # NoCrd /\ (crd'[c] = crd[c] \/ crd[c].rv < crd'[c].rv)
    BY <2>3, <2>4 DEF Advances
  <2>7. /\ existing[q].rv <= crd'[c].rv
        /\ existing[q].rv = crd'[c].rv => existing[q] = crd'[c]
    <3>1. existing[q].rv \in Nat /\ crd[c].rv \in Nat /\ crd'[c].rv \in Nat
      BY <2>4, <2>5, <2>6 DEF Object
    <3>. QED
      BY <2>4, <2>6, <3>1
  <2>8. existing'[q] = existing[q] /\ Obj(q)'.crd = c
    BY <2>1 DEF Frame
  <2>. HIDE DEF c
  <2>. QED
    BY <2>4, <2>6, <2>7, <2>8 DEF ReadIsPast
<1>. QED
  BY <1>1, <1>2, <1>3 DEF RunInv

\* The steps of a run itself.
LEMMA OwnKeeps ==
  ASSUME IndInv, TypeOK', NEW p \in Upgrader, OwnStep(p)
  PROVE  RunInv(p)'
<1>. USE DEF Goto, runVars, Writing, Running, Active, Ended
<1>t. TypeOK /\ RunInv(p)
  BY DEF IndInv
<1>q. ASSUME FromChart(p), crds'[p] = crds[p], want'[p] = want[p],
             pc[p] # "idle", pc'[p] \in Ended \cup {"get"}
      PROVE  RunInv(p)'
  BY <1>q DEF RunInv, FromChart, ReadIsPast, Cleared
<1>r. ASSUME Refused(p), pc[p] # "idle" PROVE RunInv(p)'
  BY <1>r, <1>q, <1>t DEF Refused, TypeOK, RunInv
<1>1. CASE Start(p) \/ Retry(p)
  <2>1. PICK r \in Release, d \in BOOLEAN : Begin(p, r, d)
    <3>1. CASE Start(p)
      BY <3>1, ConfigAssumption DEF Start
    <3>2. CASE Retry(p)
      <4>1. want[p] \in Release /\ download[p] \in BOOLEAN
        BY <1>t, <3>2 DEF Retry, RunInv, FromChart, TypeOK
      <4>. QED
        BY <3>2, <4>1 DEF Retry
    <3>. QED
      BY <1>1, <3>1, <3>2
  <2>2. pc'[p] = "stat" /\ want'[p] = r /\ crds'[p] = crds[p]
    BY <1>t, <2>1 DEF Begin, TypeOK
  <2>. QED
    BY <1>t, <2>2 DEF RunInv, FromChart, ReadIsPast, Cleared
<1>2. CASE Stat(p) \/ Download(p) \/ MakeDir(p) \/ OpenFile(p) \/ WriteFile(p) \/ Expanded(p)
  BY <1>2, <1>t
     DEF Stat, Download, MakeDir, OpenFile, WriteFile, Expanded, RunInv, FromChart,
         ReadIsPast, Cleared, TypeOK
<1>3. CASE Walk(p) \/ CutWalk(p)
  <2>1. pc'[p] = "parse" /\ crds'[p] = <<>> /\ want'[p] = want[p] /\ pc[p] = "walk"
    BY <1>3, <1>t DEF Walk, CutWalk, WalkFinds, TypeOK
  <2>. QED
    BY <1>t, <2>1 DEF RunInv, FromChart, ReadIsPast, Cleared
<1>10. CASE ReadFile(p)
  <2>1. PICK f \in left[p] :
           crds' = IF f \in blank[HostOf[p]] THEN crds
                   ELSE [crds EXCEPT ![p] = Append(@, Releases[f[1]][f[2]])]
    BY <1>10 DEF ReadFile
  <2>2. Releases[f[1]][f[2]] \in Offer /\ crds[p] \in Seq(Manifest)
    BY <1>t, <2>1, FileHolds DEF TypeOK
  <2>3. \A i \in DOMAIN crds'[p] : crds'[p][i] \in Offer
    <3>1. CASE crds' = crds
      BY <1>t, <3>1 DEF RunInv, FromChart
    <3>2. CASE crds'[p] = Append(crds[p], Releases[f[1]][f[2]])
      <4>1. \A i \in DOMAIN crds[p] : crds[p][i] \in Offer
        BY <1>t DEF RunInv, FromChart
      <4>. QED
        BY <2>2, <3>2, <4>1
    <3>. QED
      BY <1>t, <2>1, <3>1, <3>2 DEF TypeOK
  <2>4. pc[p] = "parse" /\ pc'[p] = "parse" /\ want'[p] = want[p]
    BY <1>10, <1>t DEF ReadFile, TypeOK
  <2>. QED
    BY <1>t, <2>3, <2>4 DEF RunInv, FromChart, ReadIsPast, Cleared
<1>11. CASE Parsed(p)
  BY <1>11, <1>q, <1>t DEF Parsed, TypeOK, RunInv
<1>4. CASE Finish(p) \/ NilClient(p)
  BY <1>4, <1>q, <1>t DEF Finish, NilClient, TypeOK, RunInv
<1>5. CASE Get(p)
  <2>1. /\ next[p] \in DOMAIN crds[p] /\ Obj(p)' = Obj(p) /\ crd' = crd
        /\ crds'[p] = crds[p] /\ next'[p] = next[p] /\ want'[p] = want[p]
        /\ existing'[p] = crd[Obj(p).crd]
        /\ want[p] \in Release
    BY <1>5, <1>t DEF Get, TypeOK, Obj, RunInv, FromChart
  <2>2. /\ pc'[p] \in {"create", "status", "update"}
        /\ pc'[p] = "update" => ~Removed(crd[Obj(p).crd], Obj(p))
        /\ pc'[p] # "create" <=> crd[Obj(p).crd] # NoCrd
    BY <1>5, <1>t DEF Get, TypeOK
  <2>3. Obj(p).crd \in Crd
    BY <1>t, <2>1, OfferIsManifest DEF RunInv, FromChart, Obj
  <2>4. FromChart(p)'
    BY <1>t, <2>1, <2>2 DEF RunInv, FromChart
  <2>5. crd[Obj(p).crd] # NoCrd => crd[Obj(p).crd] \in Object /\ crd[Obj(p).crd].rv \in Nat
    BY <1>t, <2>3 DEF TypeOK, Object
  <2>6. ReadIsPast(p)'
    BY <2>1, <2>2, <2>5 DEF ReadIsPast
  <2>7. Cleared(p)'
    BY <2>1, <2>2 DEF Cleared, Removed
  <2>. QED
    BY <2>4, <2>6, <2>7 DEF RunInv
<1>6. CASE Create(p)
  BY <1>6, <1>q, <1>r, <1>t DEF Create, Wrote, TypeOK, RunInv
<1>7. CASE StatusUpdate(p)
  <2>1. CASE RvMatches(crd[Obj(p).crd], existing[p])
    <3>. DEFINE new == StatusWritten(crd[Obj(p).crd], UpdatedVersions(Obj(p)))
    <3>1. /\ Obj(p)' = Obj(p) /\ crds'[p] = crds[p] /\ next'[p] = next[p]
          /\ want'[p] = want[p] /\ pc[p] = "status" /\ pc'[p] = "update"
          /\ existing'[p] = new
      BY <1>7, <1>t, <2>1 DEF StatusUpdate, TypeOK, Obj
    <3>2. Obj(p) \in Offer /\ Obj(p).crd \in Crd /\ Obj(p).versions \in SUBSET Version
      BY <1>t, <3>1, OfferIsManifest DEF RunInv, FromChart, Obj, Manifest
    <3>3. crd'[Obj(p).crd] = new
      BY <1>7, <1>t, <2>1, <3>2 DEF StatusUpdate, TypeOK
    <3>4. crd[Obj(p).crd] \in Object
      BY <1>t, <2>1, <3>2 DEF TypeOK, RvMatches
    <3>5. new \in Object /\ new # NoCrd /\ new.stored = Obj(p).versions /\ new.rv \in Nat
      BY <3>2, <3>4, StatusWrittenType DEF Object
    <3>. HIDE DEF new
    <3>6. FromChart(p)'
      BY <1>t, <3>1 DEF RunInv, FromChart
    <3>7. ReadIsPast(p)'
      BY <3>1, <3>3, <3>5 DEF ReadIsPast
    <3>8. Cleared(p)'
      BY <3>1, <3>5 DEF Cleared, Removed
    <3>. QED
      BY <3>6, <3>7, <3>8 DEF RunInv
  <2>2. CASE ~RvMatches(crd[Obj(p).crd], existing[p])
    BY <1>7, <1>r, <2>2 DEF StatusUpdate
  <2>. QED
    BY <2>1, <2>2
<1>8. CASE SpecUpdate(p)
  BY <1>8, <1>q, <1>r, <1>t DEF SpecUpdate, Wrote, TypeOK, RunInv
<1>9. CASE FailOrCrash(p)
  BY <1>9, <1>q, <1>t, ConfigAssumption DEF FailOrCrash, TypeOK, RunInv
<1>. QED
  BY <1>1, <1>2, <1>3, <1>4, <1>5, <1>6, <1>7, <1>8, <1>9, <1>10, <1>11 DEF OwnStep, Step

-----------------------------------------------------------------------------
(* The inductive invariant. *)

LEMMA InitInv == Init => IndInv
<1>. SUFFICES ASSUME Init PROVE IndInv
  OBVIOUS
<1>1. \A p \in Upgrader : RunInv(p)
  BY DEF Init, RunInv, FromChart, ReadIsPast, Cleared, Running, Writing, Active
<1>. QED
  BY <1>1, InitType DEF IndInv

LEMMA StepInv == IndInv /\ [Next]_vars => IndInv'
<1>. SUFFICES ASSUME IndInv, [Next]_vars PROVE IndInv'
  OBVIOUS
<1>1. TypeOK'
  BY StepType
<1>2. \A c \in Crd : Advances(c)
  BY CrdAdvances
<1>3. ASSUME NEW q \in Upgrader PROVE RunInv(q)'
  <2>1. ASSUME NEW p \in Upgrader, OwnStep(p) PROVE RunInv(q)'
    <3>1. CASE q = p
      BY <1>1, <2>1, <3>1, OwnKeeps
    <3>2. CASE q # p
      <4>1. Frame(q)
        BY <2>1, <3>2, FrameOther DEF IndInv
      <4>. QED
        BY <1>1, <1>2, <4>1, FrameKeeps
    <3>. QED
      BY <3>1, <3>2
  <2>2. ASSUME NEW c \in Crd, Touch(c) PROVE RunInv(q)'
    <3>1. Frame(q)
      BY <2>2 DEF Touch, runVars, readVars, Frame
    <3>. QED
      BY <1>1, <1>2, <3>1, FrameKeeps
  <2>3. CASE UNCHANGED vars
    <3>1. Frame(q)
      BY <2>3 DEF vars, runVars, readVars, Frame
    <3>. QED
      BY <1>1, <1>2, <3>1, FrameKeeps
  <2>. QED
    BY <2>1, <2>2, <2>3 DEF Next, OwnStep
<1>. QED
  BY <1>1, <1>3 DEF IndInv

\* The inductive invariant from which optimistic locking, validation and the refinement
\* follow (crds.go:89-151).
THEOREM Inductive == Spec => []IndInv
BY InitInv, StepInv, PTL DEF Spec

\* The type invariant of CrdUpgrade holds.
THEOREM TypeCorrect == Spec => []TypeOK
<1>1. IndInv => TypeOK
  BY DEF IndInv
<1>. QED
  BY <1>1, Inductive, PTL

\* Whatever the interleaving, an update that holds the current resourceVersion
\* is never refused because of status.storedVersions (crds.go:123-149).
THEOREM UpdatesAdmitted == Spec => []UpdateAdmissible
<1>1. IndInv => UpdateAdmissible
  BY DEF IndInv, RunInv, ReadIsPast, Cleared, UpdateAdmissible, RvMatches, Admitted, Removed
<1>. QED
  BY <1>1, Inductive, PTL

\* Optimistic locking excludes lost updates: a run's write replaces exactly the
\* object its decision was based on (crds.go:92-147).
THEOREM NoLostUpdate == Spec => WritesOnWhatItRead
<1>1. ASSUME IndInv, [Next]_vars, NEW p \in Upgrader,
             Writing(p), pc'[p] # pc[p], crd'[Obj(p).crd] # crd[Obj(p).crd]
      PROVE  crd[Obj(p).crd] = existing[p]
  <2>1. ASSUME NEW q \in Upgrader, OwnStep(q) PROVE q = p
    BY <1>1, <2>1, FrameOther DEF IndInv, Frame
  <2>2. OwnStep(p)
    <3>1. ~ UNCHANGED vars
      BY <1>1 DEF vars
    <3>2. ASSUME NEW c \in Crd PROVE ~Touch(c)
      BY <1>1 DEF Touch
    <3>. QED
      BY <1>1, <2>1, <3>1, <3>2 DEF Next, OwnStep
  <2>3. Create(p) \/ StatusUpdate(p) \/ SpecUpdate(p)
    BY <1>1, <2>2
       DEF OwnStep, Step, Start, Retry, Begin, Stat, Download, MakeDir, OpenFile, WriteFile,
           Expanded, Walk, WalkFinds, ReadFile, Parsed, Finish, NilClient, Get, FailOrCrash,
           CutWalk, cacheVars
  <2>4. CASE Create(p)
    BY <1>1, <2>4 DEF Create, Refused, IndInv, RunInv, Cleared
  <2>5. CASE StatusUpdate(p)
    BY <1>1, <2>5 DEF StatusUpdate, Refused, RvMatches, IndInv, RunInv, ReadIsPast
  <2>6. CASE SpecUpdate(p)
    BY <1>1, <2>6 DEF SpecUpdate, Refused, RvMatches, IndInv, RunInv, ReadIsPast
  <2>. QED
    BY <2>3, <2>4, <2>5, <2>6
<1>2. IndInv /\ [Next]_vars =>
        [\A p \in Upgrader :
            Writing(p) /\ pc'[p] # pc[p] /\ crd'[Obj(p).crd] # crd[Obj(p).crd]
               => crd[Obj(p).crd] = existing[p]]_vars
  BY <1>1
<1>. QED
  BY <1>2, Inductive, PTL DEF Spec, WritesOnWhatItRead

\* A stored version is dropped by no other step than the status update of a run
\* whose manifest lacks it (crds.go:125-145).
THEOREM DropsJustified == Spec => DropsOnlyUnlisted
<1>. DEFINE Justified(c, p) ==
        /\ pc[p] = "status" /\ pc'[p] = "update" /\ Obj(p).crd = c
        /\ (crd[c].stored \ crd'[c].stored) \cap Obj(p).versions = {}
<1>1. ASSUME IndInv, [Next]_vars, NEW c \in Crd,
             crd[c] # NoCrd, crd'[c] # NoCrd, ~(crd[c].stored \subseteq crd'[c].stored)
      PROVE  \E p \in Upgrader : Justified(c, p)
  <2>. USE <1>1
  <2>1. crd[c] \in Object
    BY DEF IndInv, TypeOK
  <2>2. \A p \in Upgrader : Writing(p) =>
            Obj(p) \in Manifest /\ Obj(p).versions \in SUBSET Version /\ Obj(p).crd \in Crd
    BY OfferIsManifest DEF IndInv, RunInv, FromChart, Obj, Manifest
  <2>3. ASSUME NEW p \in Upgrader, Create(p) PROVE FALSE
    BY <2>3 DEF Create, Wrote, Refused, IndInv, TypeOK
  <2>4. ASSUME NEW p \in Upgrader, SpecUpdate(p) PROVE FALSE
    <3>1. c = Obj(p).crd /\ crd'[c] = SpecWritten(crd[c], Obj(p))
      BY <2>4 DEF SpecUpdate, Wrote, Refused, IndInv, TypeOK
    <3>. QED
      BY <2>1, <2>2, <2>4, <3>1, SpecWrittenType DEF SpecUpdate, Writing
  <2>5. ASSUME NEW d \in Crd, Touch(d) PROVE FALSE
    <3>1. d = c /\ crd'[c] = [crd[c] EXCEPT !.rv = @ + 1]
      BY <2>5 DEF Touch, IndInv, TypeOK
    <3>. QED
      BY <2>1, <3>1 DEF Object
  <2>6. ASSUME NEW p \in Upgrader, StatusUpdate(p) PROVE Justified(c, p)
    <3>1. /\ c = Obj(p).crd /\ crd'[c] = StatusWritten(crd[c], UpdatedVersions(Obj(p)))
          /\ pc[p] = "status" /\ pc'[p] = "update"
      BY <2>6 DEF StatusUpdate, Refused, Goto, IndInv, TypeOK
    <3>2. crd'[c].stored = Obj(p).versions
      BY <2>1, <2>2, <3>1, StatusWrittenType DEF Writing
    <3>. QED
      BY <3>1, <3>2
  <2>. QED
    BY <2>3, <2>4, <2>5, <2>6
       DEF Next, Step, vars, Start, Retry, Begin, Stat, Download, MakeDir, OpenFile,
           WriteFile, Expanded, Walk, WalkFinds, ReadFile, Parsed, Finish, NilClient, Get,
           FailOrCrash, CutWalk
<1>2. IndInv /\ [Next]_vars =>
        [\A c \in Crd :
            crd[c] # NoCrd /\ crd'[c] # NoCrd /\ ~(crd[c].stored \subseteq crd'[c].stored)
               => \E p \in Upgrader : Justified(c, p)]_vars
  BY <1>1
<1>. QED
  BY <1>2, Inductive, PTL DEF Spec, DropsOnlyUnlisted

\* Upgrades implement the abstract registry: each step installs or replaces one
\* definition by a manifest on offer, or leaves the definitions alone.
THEOREM Refinement == Spec => ImplementsRegistry
<1>. DEFINE schema == [c \in Crd |-> IF crd[c] = NoCrd THEN NoCrd ELSE crd[c].spec]
<1>1. Init => Registry!Init
  <2>. SUFFICES ASSUME Init PROVE Registry!Init
    OBVIOUS
  <2>1. \A c \in Crd : Installed[c] # NoCrd =>
            Created(Installed[c]) # NoCrd /\ Created(Installed[c]).spec = Installed[c]
    BY ConfigAssumption, CreatedType DEF WellFormed, Created
  <2>2. \A c \in Crd : schema[c] = Installed[c]
    BY <2>1 DEF Init
  <2>3. Installed = [c \in Crd |-> Installed[c]]
    BY ConfigAssumption
  <2>4. schema = Installed
    BY <2>2, <2>3
  <2>. QED
    BY <2>4 DEF Registry!Init
<1>2. ASSUME IndInv, [Next]_vars PROVE Registry!Next \/ schema' = schema
  <2>. USE <1>2
  <2>1. ASSUME NEW c \in Crd, NEW new, new # NoCrd, crd' = [crd EXCEPT ![c] = new]
        PROVE  schema' = [schema EXCEPT ![c] = new.spec]
    BY <2>1 DEF IndInv, TypeOK
  <2>2. ASSUME NEW p \in Upgrader, NEW new \in Object,
               Writing(p), Wrote(p, new), new.spec = Obj(p)
        PROVE  Registry!Next
    <3>1. Obj(p) \in Offer /\ Obj(p).crd \in Crd
      BY <2>2, OfferIsManifest DEF IndInv, RunInv, FromChart, Obj
    <3>2. schema' = [schema EXCEPT ![Obj(p).crd] = Obj(p)]
      BY <2>1, <2>2, <3>1, NoCrdAssumption DEF Wrote
    <3>. QED
      BY <3>1, <3>2 DEF Registry!Next, Registry!Apply, Offer
  <2>3. \A p \in Upgrader : Writing(p) => Obj(p) \in Manifest /\ Obj(p).versions \in SUBSET Version /\ Obj(p).crd \in Crd
    BY OfferIsManifest DEF IndInv, RunInv, FromChart, Obj, Manifest
  <2>4. ASSUME NEW p \in Upgrader, Create(p) PROVE Registry!Next \/ schema' = schema
    <3>1. Created(Obj(p)) \in Object /\ Created(Obj(p)).spec = Obj(p)
      BY <2>3, <2>4, CreatedType DEF Create, Writing, Created
    <3>2. Wrote(p, Created(Obj(p))) \/ crd' = crd
      BY <2>4 DEF Create, Refused
    <3>. QED
      BY <2>2, <2>4, <3>1, <3>2 DEF Create, Writing
  <2>5. ASSUME NEW p \in Upgrader, SpecUpdate(p) PROVE Registry!Next \/ schema' = schema
    <3>1. CASE crd' = crd
      BY <3>1
    <3>2. CASE crd' # crd
      <4>1. RvMatches(crd[Obj(p).crd], existing[p]) /\ Wrote(p, SpecWritten(crd[Obj(p).crd], Obj(p)))
        BY <2>5, <3>2 DEF SpecUpdate, Refused
      <4>2. crd[Obj(p).crd] \in Object
        BY <2>3, <2>5, <4>1 DEF SpecUpdate, Writing, RvMatches, IndInv, TypeOK
      <4>. QED
        BY <2>2, <2>3, <2>5, <4>1, <4>2, SpecWrittenType DEF SpecUpdate, Writing
    <3>. QED
      BY <3>1, <3>2
  <2>6. ASSUME NEW p \in Upgrader, StatusUpdate(p) PROVE schema' = schema
    <3>1. CASE crd' = crd
      BY <3>1
    <3>2. CASE crd' # crd
      <4>. DEFINE o == crd[Obj(p).crd]
                  new == StatusWritten(o, UpdatedVersions(Obj(p)))
      <4>1. RvMatches(o, existing[p]) /\ crd' = [crd EXCEPT ![Obj(p).crd] = new]
        BY <2>6, <3>2 DEF StatusUpdate, Refused
      <4>2. Obj(p).crd \in Crd /\ o \in Object /\ o # NoCrd
        BY <2>3, <2>6, <4>1 DEF StatusUpdate, Writing, RvMatches, IndInv, TypeOK
      <4>3. new # NoCrd /\ new.spec = o.spec
        BY <2>3, <2>6, <4>2, StatusWrittenType DEF StatusUpdate, Writing
      <4>4. schema' = [schema EXCEPT ![Obj(p).crd] = schema[Obj(p).crd]]
        BY <2>1, <4>1, <4>2, <4>3
      <4>. QED
        BY <4>2, <4>4
    <3>. QED
      BY <3>1, <3>2
  <2>7. ASSUME NEW c \in Crd, Touch(c) PROVE schema' = schema
    <3>. DEFINE new == [crd[c] EXCEPT !.rv = @ + 1]
    <3>1. crd[c] \in Object /\ crd[c] # NoCrd /\ crd' = [crd EXCEPT ![c] = new]
      BY <2>7 DEF Touch, IndInv, TypeOK
    <3>2. new # NoCrd /\ new.spec = crd[c].spec
      BY <3>1, TouchedType, NoCrdAssumption DEF Object
    <3>. HIDE DEF new
    <3>3. schema' = [schema EXCEPT ![c] = schema[c]]
      BY <2>1, <3>1, <3>2
    <3>. QED
      BY <3>3
  <2>8. CASE crd' = crd
    BY <2>8
  <2>. QED
    BY <2>4, <2>5, <2>6, <2>7, <2>8
       DEF Next, Step, vars, Start, Retry, Begin, Stat, Download, MakeDir, OpenFile,
           WriteFile, Expanded, Walk, WalkFinds, ReadFile, Parsed, Finish, NilClient, Get,
           FailOrCrash, CutWalk
<1>3. IndInv /\ [Next]_vars => [Registry!Next]_schema
  BY <1>2
<1>. QED
  BY <1>1, <1>3, Inductive, PTL DEF Spec, ImplementsRegistry, Registry!Spec

-----------------------------------------------------------------------------
(* A run that is alone. *)

\* Who has not been started does nothing.
Unstarted == \A p \in Upgrader : runs[p] = 0 => pc[p] = "idle"

LEMMA UnstartedStep == TypeOK /\ Unstarted /\ [Next]_vars => Unstarted'
<1>. SUFFICES ASSUME TypeOK, Unstarted, [Next]_vars, NEW q \in Upgrader
              PROVE  runs'[q] = 0 => pc'[q] = "idle"
  BY DEF Unstarted
<1>. USE DEF TypeOK, Unstarted, Goto, bounds, runVars
<1>1. ASSUME NEW p \in Upgrader, Start(p) PROVE runs'[q] = 0 => pc'[q] = "idle"
  <2>1. runs[p] \in Nat /\ runs' = [runs EXCEPT ![p] = @ + 1]
    BY <1>1, ConfigAssumption DEF Start
  <2>. QED
    BY <1>1, <2>1 DEF Start, Begin
<1>2. ASSUME NEW p \in Upgrader, Retry(p) PROVE runs'[q] = 0 => pc'[q] = "idle"
  BY <1>2 DEF Retry, Begin
<1>3. ASSUME NEW p \in Upgrader, Step(p) PROVE runs' = runs /\ (q # p => pc'[q] = pc[q]) /\ pc[p] # "idle"
  BY <1>3
     DEF Step, Stat, Download, MakeDir, OpenFile, WriteFile, Expanded, Walk, WalkFinds,
         ReadFile, Parsed, Finish, NilClient, Get, Create, StatusUpdate, SpecUpdate, Wrote,
         Refused
<1>4. ASSUME NEW p \in Upgrader, FailOrCrash(p) \/ CutWalk(p)
      PROVE  runs' = runs /\ (q # p => pc'[q] = pc[q]) /\ pc[p] # "idle"
  BY <1>4, ConfigAssumption DEF FailOrCrash, CutWalk, WalkFinds, Active
<1>5. CASE UNCHANGED vars \/ \E c \in Crd : Touch(c)
  BY <1>5 DEF Touch, vars
<1>. QED
  BY <1>1, <1>2, <1>3, <1>4, <1>5 DEF Next

\* In a step after which a run is still alone, nobody but itself and the API server's
\* controllers moves.
LEMMA AloneSteps ==
  ASSUME TypeOK, Unstarted, [Next]_vars, NEW p \in Upgrader, Alone(p)'
  PROVE  Alone(p) /\ (OwnStep(p) \/ (\E c \in Crd : Touch(c)) \/ UNCHANGED vars)
<1>1. ASSUME NEW q \in Upgrader \ {p}, Start(q) PROVE FALSE
  <2>1. runs[q] \in Nat /\ runs'[q] = runs[q] + 1
    BY <1>1, ConfigAssumption DEF Start, TypeOK
  <2>. QED
    BY <2>1 DEF Alone
<1>2. ASSUME NEW q \in Upgrader \ {p}, Retry(q) \/ Step(q) \/ FailOrCrash(q) \/ CutWalk(q)
      PROVE  FALSE
  <2>1. runs' = runs /\ pc[q] # "idle"
    BY <1>2, ConfigAssumption
       DEF Step, Retry, Begin, FailOrCrash, CutWalk, Stat, Download, MakeDir, OpenFile,
           WriteFile, Expanded, Walk, WalkFinds, ReadFile, Parsed, Finish, NilClient, Get,
           Create, StatusUpdate, SpecUpdate, Wrote, Refused, bounds, Active
  <2>. QED
    BY <2>1 DEF Alone, Unstarted
<1>3. OwnStep(p) \/ (\E c \in Crd : Touch(c)) \/ UNCHANGED vars
  BY <1>1, <1>2 DEF Next, OwnStep
<1>4. Alone(p)
  <2>1. ASSUME NEW q \in Upgrader \ {p}, OwnStep(p) PROVE runs'[q] = runs[q]
    BY <2>1
       DEF TypeOK, OwnStep, Step, Start, Retry, FailOrCrash, CutWalk, Stat, Download,
           MakeDir, OpenFile, WriteFile, Expanded, Walk, WalkFinds, ReadFile, Parsed,
           Finish, NilClient, Get, Create, StatusUpdate, SpecUpdate, Wrote, Refused, bounds
  <2>2. CASE (\E c \in Crd : Touch(c)) \/ UNCHANGED vars
    BY <2>2 DEF Touch, vars, bounds, Alone
  <2>. QED
    BY <1>3, <2>1, <2>2 DEF Alone
<1>. QED
  BY <1>3, <1>4

\* What it read is what is there, so no write of its own is refused.
Undisturbed(p) == Alone(p) /\ faults = 0 /\ touches = 0
Current(p) ==
    Undisturbed(p) =>
        pc[p] # "error" /\ (Writing(p) => crd[Obj(p).crd] = existing[p])

LEMMA CurrentStep ==
  ASSUME IndInv, Unstarted, [Next]_vars, NEW p \in Upgrader, Current(p)
  PROVE  Current(p)'
<1>. SUFFICES ASSUME Undisturbed(p)'
              PROVE  pc'[p] # "error" /\ (Writing(p)' => crd'[Obj(p)'.crd] = existing'[p])
  BY DEF Current
<1>t. TypeOK /\ RunInv(p) /\ faults \in Nat /\ touches \in Nat
  BY ConfigAssumption DEF IndInv, TypeOK
<1>. USE DEF Writing, Goto
<1>1. Alone(p) /\ (OwnStep(p) \/ (\E c \in Crd : Touch(c)) \/ UNCHANGED vars)
  BY <1>t, AloneSteps DEF Undisturbed
<1>2. ~(\E c \in Crd : Touch(c)) /\ ~FailOrCrash(p) /\ ~CutWalk(p)
  <2>1. touches' # touches + 1 /\ faults' # faults + 1
    BY <1>t DEF Undisturbed
  <2>. QED
    BY <2>1 DEF Touch, FailOrCrash, CutWalk
<1>3. ASSUME faults = 0, touches = 0
      PROVE  pc[p] # "error" /\ (Writing(p) => crd[Obj(p).crd] = existing[p])
  BY <1>1, <1>3 DEF Current, Undisturbed
<1>4. faults = 0 /\ touches = 0
  BY <1>1, <1>2
     DEF Undisturbed, OwnStep, Step, Start, Retry, Begin, Stat, Download, MakeDir, OpenFile,
         WriteFile, Expanded, Walk, WalkFinds, ReadFile, Parsed, Finish, NilClient, Get,
         Create, StatusUpdate, SpecUpdate, Wrote, Refused, bounds, vars
<1>5. CASE UNCHANGED vars
  BY <1>3, <1>4, <1>5 DEF vars, runVars, Obj
<1>6. CASE Start(p) \/ Retry(p)
  BY <1>t, <1>6 DEF Start, Retry, Begin, TypeOK
<1>7. CASE Stat(p) \/ Download(p) \/ MakeDir(p) \/ OpenFile(p) \/ WriteFile(p) \/ Expanded(p)
           \/ Walk(p) \/ ReadFile(p) \/ Parsed(p)
  BY <1>t, <1>7 DEF Stat, Download, MakeDir, OpenFile, WriteFile, Expanded, Walk, WalkFinds,
                    ReadFile, Parsed, TypeOK
<1>8. CASE Finish(p) \/ NilClient(p)
  BY <1>t, <1>8 DEF Finish, NilClient, TypeOK
<1>9. CASE Get(p)
  BY <1>t, <1>9 DEF Get, TypeOK, Obj
<1>10. CASE Create(p)
  <2>1. crd[Obj(p).crd] = NoCrd
    BY <1>t, <1>3, <1>4, <1>10 DEF Create, RunInv, Cleared
  <2>. QED
    BY <1>t, <1>10, <2>1 DEF Create, Wrote, TypeOK
<1>11. CASE StatusUpdate(p)
  <2>1. RvMatches(crd[Obj(p).crd], existing[p])
    BY <1>t, <1>3, <1>4, <1>11 DEF StatusUpdate, RvMatches, RunInv, ReadIsPast
  <2>2. Obj(p).crd \in Crd
    BY <1>t, <1>11, OfferIsManifest DEF StatusUpdate, RunInv, FromChart, Obj
  <2>. QED
    BY <1>t, <1>11, <2>1, <2>2 DEF StatusUpdate, TypeOK, Obj
<1>12. CASE SpecUpdate(p)
  <2>1. RvMatches(crd[Obj(p).crd], existing[p])
    BY <1>t, <1>3, <1>4, <1>12 DEF SpecUpdate, RvMatches, RunInv, ReadIsPast
  <2>2. Admitted(crd[Obj(p).crd], Obj(p))
    BY <1>t, <1>3, <1>4, <1>12 DEF SpecUpdate, Admitted, RunInv, Cleared, Removed
  <2>. QED
    BY <1>t, <1>12, <2>1, <2>2 DEF SpecUpdate, Wrote, TypeOK
<1>. QED
  BY <1>1, <1>2, <1>5, <1>6, <1>7, <1>8, <1>9, <1>10, <1>11, <1>12 DEF OwnStep, Step

LEMMA UndisturbedStep ==
  ASSUME IndInv, Unstarted, [Next]_vars, \A p \in Upgrader : Current(p)
  PROVE  \A p \in Upgrader : Current(p)'
  BY CurrentStep

\* An upgrade that nothing disturbs does not fail: no write of its own makes its next one
\* fail (crds.go:137-149).
THEOREM UndisturbedSucceeds == Spec => []UndisturbedUpgradeSucceeds
<1>. DEFINE Inv == Unstarted /\ \A p \in Upgrader : Current(p)
<1>1. Init => Inv
  BY DEF Init, Unstarted, Current, Writing
<1>2. IndInv /\ Inv /\ [Next]_vars => Inv'
  BY UnstartedStep, UndisturbedStep DEF IndInv
<1>3. Inv => UndisturbedUpgradeSucceeds
  BY DEF Current, Undisturbed, UndisturbedUpgradeSucceeds
<1>. HIDE DEF Inv
<1>. QED
  BY <1>1, <1>2, <1>3, Inductive, PTL DEF Spec

-----------------------------------------------------------------------------
(* The loop over the manifests. *)

\* The manifest at i is the last one before next that names its CRD.
LastBefore(p, i) ==
    /\ i < next[p]
    /\ \A j \in DOMAIN crds[p] : i < j /\ j < next[p] => crds[p][j].crd # crds[p][i].crd
Installs(p, i) ==
    crd[crds[p][i].crd] # NoCrd /\ crd[crds[p][i].crd].spec = crds[p][i]
Passed(p) == \A i \in DOMAIN crds[p] : LastBefore(p, i) => Installs(p, i)

\* A step that leaves the loop where it is and changes no spec.
LEMMA PassedFrame ==
  ASSUME TypeOK, NEW p \in Upgrader, Passed(p),
         crds'[p] = crds[p], next'[p] = next[p],
         \A i \in DOMAIN crds[p] : crds[p][i].crd \in Crd,
         \A c \in Crd : crd[c] # NoCrd => crd'[c] # NoCrd /\ crd'[c].spec = crd[c].spec
  PROVE  Passed(p)'
  BY DEF Passed, LastBefore, Installs

\* A write at the loop's manifest takes the loop past it.
LEMMA PassedWrote ==
  ASSUME TypeOK, NEW p \in Upgrader, Passed(p), NEW new,
         next[p] \in DOMAIN crds[p], crds[p][next[p]].crd \in Crd,
         Wrote(p, new), new # NoCrd, new.spec = Obj(p)
  PROVE  Passed(p)'
<1>1. crds'[p] = crds[p] /\ next'[p] = next[p] + 1 /\ next[p] \in Nat
  BY DEF Wrote, TypeOK
<1>2. \A c \in Crd : crd'[c] = IF c = Obj(p).crd THEN new ELSE crd[c]
  BY DEF Wrote, TypeOK
<1>3. DOMAIN crds[p] \subseteq Nat
  BY DEF TypeOK
<1>4. ASSUME NEW i \in DOMAIN crds[p], LastBefore(p, i)' PROVE Installs(p, i)'
  <2>1. CASE i = next[p]
    <3>1. crd'[Obj(p).crd] = new
      BY <1>2 DEF Obj
    <3>. QED
      BY <1>1, <2>1, <3>1 DEF Installs, Obj
  <2>2. CASE i # next[p]
    <3>1. i < next[p] /\ next[p] < next'[p]
      BY <1>1, <1>3, <1>4, <2>2 DEF LastBefore
    <3>2. crds[p][i].crd # Obj(p).crd
      BY <1>1, <1>4, <3>1 DEF LastBefore, Obj
    <3>3. LastBefore(p, i)
      BY <1>1, <1>3, <1>4, <3>1 DEF LastBefore
    <3>4. Installs(p, i)
      BY <3>3 DEF Passed
    <3>. QED
      BY <1>1, <3>2, <3>4 DEF Installs, Wrote, TypeOK
  <2>. QED
    BY <2>1, <2>2
<1>. QED
  BY <1>1, <1>4 DEF Passed

AlonePassed(p) == Alone(p) /\ InLoop(p) => Passed(p)

LEMMA PassedStep ==
  ASSUME IndInv, Unstarted, [Next]_vars, NEW p \in Upgrader, AlonePassed(p)
  PROVE  AlonePassed(p)'
<1>. SUFFICES ASSUME Alone(p)', InLoop(p)' PROVE Passed(p)'
  BY DEF AlonePassed
<1>t. TypeOK /\ RunInv(p)
  BY DEF IndInv
<1>1. Alone(p) /\ (OwnStep(p) \/ (\E c \in Crd : Touch(c)) \/ UNCHANGED vars)
  BY <1>t, AloneSteps
<1>2. InLoop(p) => Passed(p)
  BY <1>1 DEF AlonePassed
<1>3. \A i \in DOMAIN crds[p] : crds[p][i] \in Manifest /\ crds[p][i].crd \in Crd
  BY <1>t, OfferIsManifest DEF RunInv, FromChart
<1>. USE DEF Goto, InLoop, Writing
<1>4. CASE Start(p) \/ Retry(p) \/ FailOrCrash(p) \/ Stat(p) \/ Download(p) \/ MakeDir(p)
           \/ OpenFile(p) \/ WriteFile(p) \/ Expanded(p) \/ Walk(p) \/ CutWalk(p) \/ ReadFile(p)
           \/ NilClient(p)
  BY <1>t, <1>4
     DEF Start, Retry, Begin, FailOrCrash, CutWalk, Stat, Download, MakeDir, OpenFile,
         WriteFile, Expanded, Walk, WalkFinds, ReadFile, NilClient, TypeOK
<1>5. CASE Parsed(p)
  <2>1. next'[p] = 1 /\ crds'[p] \in Seq(Manifest)
    BY <1>t, <1>5 DEF Parsed, TypeOK
  <2>. QED
    BY <2>1 DEF Passed, LastBefore
<1>6. CASE Finish(p) \/ Get(p)
  BY <1>t, <1>2, <1>3, <1>6, PassedFrame DEF Finish, Get, runVars, TypeOK
<1>7. ASSUME NEW c \in Crd, Touch(c) PROVE Passed(p)'
  <2>1. crd[c] \in Object /\ crd' = [crd EXCEPT ![c] = [crd[c] EXCEPT !.rv = @ + 1]]
    BY <1>t, <1>7 DEF Touch, TypeOK
  <2>2. [crd[c] EXCEPT !.rv = @ + 1] # NoCrd /\ [crd[c] EXCEPT !.rv = @ + 1].spec = crd[c].spec
    BY <2>1, TouchedType, NoCrdAssumption DEF Object
  <2>3. \A d \in Crd : crd[d] # NoCrd => crd'[d] # NoCrd /\ crd'[d].spec = crd[d].spec
    BY <1>t, <2>1, <2>2 DEF TypeOK
  <2>. QED
    BY <1>t, <1>2, <1>3, <1>7, <2>3, PassedFrame DEF Touch, runVars
<1>8. CASE UNCHANGED vars
  BY <1>t, <1>2, <1>3, <1>8, PassedFrame DEF vars, runVars
<1>9. CASE Create(p)
  <2>1. next[p] \in DOMAIN crds[p]
    BY <1>t, <1>9 DEF Create, RunInv, FromChart
  <2>2. Wrote(p, Created(Obj(p)))
    BY <1>t, <1>9 DEF Create, Refused, TypeOK
  <2>3. Created(Obj(p)) # NoCrd /\ Created(Obj(p)).spec = Obj(p)
    BY <1>3, <2>1, CreatedType DEF Created, Obj
  <2>. QED
    BY <1>t, <1>2, <1>3, <1>9, <2>1, <2>2, <2>3, PassedWrote DEF Create
<1>10. CASE StatusUpdate(p)
  <2>. DEFINE o == crd[Obj(p).crd]
              new == StatusWritten(o, UpdatedVersions(Obj(p)))
  <2>1. RvMatches(o, existing[p]) /\ crd' = [crd EXCEPT ![Obj(p).crd] = new]
    BY <1>t, <1>10 DEF StatusUpdate, Refused, TypeOK
  <2>2. next[p] \in DOMAIN crds[p]
    BY <1>t, <1>10 DEF StatusUpdate, RunInv, FromChart
  <2>3. Obj(p).crd \in Crd /\ o \in Object /\ Obj(p).versions \in SUBSET Version
    BY <1>t, <1>3, <2>1, <2>2 DEF RvMatches, TypeOK, Obj, Manifest
  <2>4. new # NoCrd /\ new.spec = o.spec
    BY <2>3, StatusWrittenType
  <2>. HIDE DEF new
  <2>5. \A d \in Crd : crd[d] # NoCrd => crd'[d] # NoCrd /\ crd'[d].spec = crd[d].spec
    BY <1>t, <2>1, <2>3, <2>4 DEF TypeOK
  <2>6. crds'[p] = crds[p] /\ next'[p] = next[p]
    BY <1>t, <1>10 DEF StatusUpdate, Refused, runVars, TypeOK
  <2>. QED
    BY <1>t, <1>2, <1>3, <1>10, <2>5, <2>6, PassedFrame DEF StatusUpdate
<1>11. CASE SpecUpdate(p)
  <2>. DEFINE o == crd[Obj(p).crd]
  <2>1. RvMatches(o, existing[p]) /\ Wrote(p, SpecWritten(o, Obj(p)))
    BY <1>t, <1>11 DEF SpecUpdate, Refused, TypeOK
  <2>2. next[p] \in DOMAIN crds[p]
    BY <1>t, <1>11 DEF SpecUpdate, RunInv, FromChart
  <2>3. Obj(p) \in Manifest /\ o \in Object
    BY <1>t, <1>3, <2>1, <2>2 DEF RvMatches, TypeOK, Obj
  <2>4. SpecWritten(o, Obj(p)) # NoCrd /\ SpecWritten(o, Obj(p)).spec = Obj(p)
    BY <2>3, SpecWrittenType
  <2>. QED
    BY <1>t, <1>2, <1>3, <1>11, <2>1, <2>2, <2>4, PassedWrote DEF SpecUpdate
<1>. QED
  BY <1>1, <1>4, <1>5, <1>6, <1>7, <1>8, <1>9, <1>10, <1>11 DEF OwnStep, Step

\* The loop leaves every CRD it has passed at the last manifest that names it, as long as
\* nobody else upgrades, through failures and retries (crds.go:89-151).
THEOREM LoopInstalls == Spec => []LoopInvariant
<1>. DEFINE Inv == Unstarted /\ \A p \in Upgrader : AlonePassed(p)
<1>1. Init => Inv
  BY DEF Init, Unstarted, AlonePassed, InLoop, Writing
<1>2. IndInv /\ Inv /\ [Next]_vars => Inv'
  BY UnstartedStep, PassedStep DEF IndInv
<1>3. Inv => LoopInvariant
  BY DEF AlonePassed, Passed, LastBefore, Installs, LoopInvariant
<1>. HIDE DEF Inv
<1>. QED
  BY <1>1, <1>2, <1>3, Inductive, PTL DEF Spec

-----------------------------------------------------------------------------
(* Torn CRDs. *)

\* A run that may have left c torn: it is between its two writes, it has ended badly, or
\* it is not its upgrader's first.
MayHaveTorn(p, c) ==
    /\ runs[p] # 0
    /\ \/ runs[p] > 1 \/ retries[p] > 0
       \/ pc[p] \in {"error", "panic"}
       \/ pc[p] = "update" /\ Obj(p).crd = c
Torn(c) == crd[c] # NoCrd /\ ~Consistent(crd[c])
TornInv == \A c \in Crd : Torn(c) => \E p \in Upgrader : MayHaveTorn(p, c)

\* A manifest that is written, and admitted, leaves the CRD consistent.
LEMMA OfferWellFormed == \A m \in Offer : WellFormed(m)
  BY ConfigAssumption DEF Offer

LEMMA CreatedConsistent == \A m \in Offer : Consistent(Created(m))
  BY OfferWellFormed DEF Created, Consistent, WellFormed

LEMMA SpecWrittenConsistent ==
  ASSUME NEW o \in Object, NEW m \in Offer, Admitted(o, m)
  PROVE  Consistent(SpecWritten(o, m))
<1>1. m \in Manifest /\ m.storage \in m.versions
  BY OfferWellFormed DEF WellFormed
<1>2. SpecWritten(o, m).spec = m /\ SpecWritten(o, m).stored = o.stored \cup {m.storage}
  BY <1>1, SpecWrittenType
<1>. QED
  BY <1>1, <1>2 DEF Consistent, Admitted

\* A step of a run keeps its excuse, unless it writes the CRD and makes it consistent.
LEMMA ExcuseStays ==
  ASSUME IndInv, Unstarted, NEW p \in Upgrader, NEW c \in Crd, OwnStep(p), MayHaveTorn(p, c)
  PROVE  MayHaveTorn(p, c)' \/ ~Torn(c)'
<1>t. TypeOK /\ RunInv(p) /\ runs[p] \in Nat /\ retries[p] \in Nat
  BY ConfigAssumption DEF IndInv, TypeOK
<1>. USE DEF MayHaveTorn, Goto
<1>1. CASE Start(p)
  BY <1>t, <1>1 DEF Start, TypeOK
<1>2. CASE Retry(p)
  BY <1>t, <1>2 DEF Retry, TypeOK
<1>3. CASE Stat(p) \/ Download(p) \/ MakeDir(p) \/ OpenFile(p) \/ WriteFile(p) \/ Expanded(p)
           \/ Walk(p) \/ ReadFile(p) \/ Parsed(p) \/ Finish(p) \/ NilClient(p) \/ Get(p)
           \/ Create(p) \/ StatusUpdate(p)
  BY <1>t, <1>3
     DEF Stat, Download, MakeDir, OpenFile, WriteFile, Expanded, Walk, WalkFinds, ReadFile,
         Parsed, Finish, NilClient, Get, Create, StatusUpdate, Wrote, Refused, bounds
<1>4. CASE SpecUpdate(p)
  <2>. DEFINE o == crd[Obj(p).crd]
  <2>1. runs' = runs /\ retries' = retries
    BY <1>4 DEF SpecUpdate, Wrote, Refused, bounds
  <2>2. CASE Refused(p)
    BY <1>t, <2>1, <2>2 DEF Refused, TypeOK
  <2>3. CASE ~Refused(p) /\ Obj(p).crd = c
    <3>1. RvMatches(o, existing[p]) /\ Admitted(o, Obj(p)) /\ Wrote(p, SpecWritten(o, Obj(p)))
      BY <1>4, <2>3 DEF SpecUpdate
    <3>2. Obj(p) \in Offer /\ o \in Object
      BY <1>t, <1>4, <2>3, <3>1 DEF SpecUpdate, Writing, RunInv, FromChart, Obj, RvMatches,
                                    TypeOK
    <3>3. Consistent(SpecWritten(o, Obj(p)))
      BY <3>1, <3>2, SpecWrittenConsistent
    <3>4. crd'[c] = SpecWritten(o, Obj(p))
      BY <1>t, <2>3, <3>1 DEF Wrote, TypeOK
    <3>. QED
      BY <3>3, <3>4 DEF Torn, Consistent
  <2>4. CASE Obj(p).crd # c
    BY <1>4, <2>1, <2>4 DEF SpecUpdate
  <2>. QED
    BY <2>2, <2>3, <2>4
<1>5. CASE FailOrCrash(p)
  BY <1>t, <1>5 DEF FailOrCrash, TypeOK
<1>6. CASE CutWalk(p)
  BY <1>t, <1>6 DEF CutWalk, WalkFinds, TypeOK
<1>. QED
  BY <1>1, <1>2, <1>3, <1>4, <1>5, <1>6 DEF OwnStep, Step

\* Only a status update tears a CRD.
LEMMA TearingStep ==
  ASSUME IndInv, Unstarted, [Next]_vars, NEW c \in Crd, ~Torn(c), Torn(c)'
  PROVE  \E p \in Upgrader : MayHaveTorn(p, c)'
<1>t. TypeOK /\ \A p \in Upgrader : RunInv(p)
  BY DEF IndInv
<1>1. \A p \in Upgrader : Writing(p) => Obj(p) \in Offer
  BY <1>t DEF RunInv, FromChart, Obj
<1>2. crd'[c] # crd[c]
  BY DEF Torn, Consistent
<1>3. ASSUME NEW p \in Upgrader, Create(p) PROVE FALSE
  <2>1. c = Obj(p).crd /\ crd'[c] = Created(Obj(p))
    BY <1>t, <1>2, <1>3 DEF Create, Wrote, Refused, TypeOK
  <2>2. Consistent(Created(Obj(p)))
    BY <1>1, <1>3, CreatedConsistent DEF Create, Writing
  <2>. QED
    BY <2>1, <2>2 DEF Torn, Consistent
<1>4. ASSUME NEW p \in Upgrader, SpecUpdate(p) PROVE FALSE
  <2>1. /\ c = Obj(p).crd /\ crd'[c] = SpecWritten(crd[c], Obj(p))
        /\ RvMatches(crd[c], existing[p]) /\ Admitted(crd[c], Obj(p))
    BY <1>t, <1>2, <1>4 DEF SpecUpdate, Wrote, Refused, TypeOK
  <2>2. crd[c] \in Object
    BY <1>t, <2>1 DEF RvMatches, TypeOK
  <2>3. Consistent(SpecWritten(crd[c], Obj(p)))
    BY <1>1, <1>4, <2>1, <2>2, SpecWrittenConsistent DEF SpecUpdate, Writing
  <2>. QED
    BY <2>1, <2>3 DEF Torn, Consistent
<1>5. ASSUME NEW d \in Crd, Touch(d) PROVE FALSE
  <2>1. d = c /\ crd[c] # NoCrd /\ crd'[c] = [crd[c] EXCEPT !.rv = @ + 1]
    BY <1>t, <1>2, <1>5 DEF Touch, TypeOK
  <2>2. crd[c] \in Object
    BY <1>t, <2>1 DEF TypeOK
  <2>3. crd'[c].spec = crd[c].spec /\ crd'[c].stored = crd[c].stored
    BY <2>1, <2>2 DEF Object
  <2>. QED
    BY <2>1, <2>3 DEF Torn, Consistent
<1>6. ASSUME NEW p \in Upgrader, StatusUpdate(p) PROVE MayHaveTorn(p, c)'
  <2>1. /\ c = Obj(p).crd /\ Obj(p)' = Obj(p) /\ pc[p] = "status" /\ pc'[p] = "update"
        /\ runs' = runs
    BY <1>t, <1>2, <1>6 DEF StatusUpdate, Refused, Goto, bounds, Obj, TypeOK
  <2>2. runs[p] # 0
    BY <2>1 DEF Unstarted
  <2>. QED
    BY <2>1, <2>2 DEF MayHaveTorn
<1>. QED
  BY <1>2, <1>3, <1>4, <1>5, <1>6
     DEF Next, Step, vars, Start, Retry, Begin, Stat, Download, MakeDir, OpenFile,
         WriteFile, Expanded, Walk, WalkFinds, ReadFile, Parsed, Finish, NilClient, Get,
         FailOrCrash, CutWalk

\* Who does not move keeps its excuse.
LEMMA ExcuseFrame ==
  ASSUME NEW p \in Upgrader, NEW c \in Crd, MayHaveTorn(p, c),
         Frame(p), runs'[p] = runs[p], retries'[p] = retries[p]
  PROVE  MayHaveTorn(p, c)'
  BY DEF MayHaveTorn, Frame, Obj

LEMMA CountersFrame ==
  ASSUME TypeOK, NEW p \in Upgrader, NEW q \in Upgrader \ {p}, OwnStep(p)
  PROVE  runs'[q] = runs[q] /\ retries'[q] = retries[q]
  BY DEF TypeOK, OwnStep, Step, Start, Retry, Begin, FailOrCrash, CutWalk, Stat, Download,
         MakeDir, OpenFile, WriteFile, Expanded, Walk, WalkFinds, ReadFile, Parsed, Finish,
         NilClient, Get, Create, StatusUpdate, SpecUpdate, Wrote, Refused, bounds

LEMMA TornStep == IndInv /\ Unstarted /\ TornInv /\ [Next]_vars => TornInv'
<1>. SUFFICES ASSUME IndInv, Unstarted, TornInv, [Next]_vars, NEW c \in Crd, Torn(c)'
              PROVE  \E p \in Upgrader : MayHaveTorn(p, c)'
  BY DEF TornInv
<1>1. CASE ~Torn(c)
  BY <1>1, TearingStep
<1>2. CASE Torn(c)
  <2>1. PICK p \in Upgrader : MayHaveTorn(p, c)
    BY <1>2 DEF TornInv
  <2>2. ASSUME NEW q \in Upgrader, OwnStep(q) PROVE MayHaveTorn(p, c)'
    <3>1. CASE q = p
      BY <2>1, <2>2, <3>1, ExcuseStays
    <3>2. CASE q # p
      BY <2>1, <2>2, <3>2, FrameOther, CountersFrame, ExcuseFrame DEF IndInv
    <3>. QED
      BY <3>1, <3>2
  <2>3. CASE UNCHANGED vars \/ \E d \in Crd : Touch(d)
    <3>1. Frame(p) /\ runs' = runs /\ retries' = retries
      BY <2>3 DEF Touch, vars, runVars, readVars, bounds, Frame
    <3>. QED
      BY <2>1, <3>1, ExcuseFrame
  <2>. QED
    BY <2>2, <2>3 DEF Next, OwnStep
<1>. QED
  BY <1>1, <1>2

\* If no run has failed, none is under way and none is a second one, no CRD is torn: what is
\* torn is what a run stopped between its two writes, or refused the second, has left
\* (crds.go:130-149).
THEOREM TearsComeFromFailure == Spec => []TornOnlyByFailure
<1>1. Init => Unstarted /\ TornInv
  <2>. SUFFICES ASSUME Init, NEW c \in Crd, Torn(c) PROVE FALSE
    BY DEF Init, Unstarted, TornInv
  <2>1. crd[c] = Created(Installed[c]) /\ WellFormed(Installed[c])
    BY ConfigAssumption DEF Init, Torn
  <2>. QED
    BY <2>1 DEF Torn, Consistent, Created, WellFormed
<1>2. IndInv /\ Unstarted /\ TornInv /\ [Next]_vars => (Unstarted /\ TornInv)'
  BY UnstartedStep, TornStep DEF IndInv
<1>3. IndInv /\ TornInv => TornOnlyByFailure
  <2>. SUFFICES ASSUME IndInv, TornInv, NEW c \in Crd, Torn(c),
                       \A p \in Upgrader : runs[p] <= 1 /\ retries[p] = 0 /\ pc[p] \in {"idle", "ok"}
                PROVE  FALSE
    BY DEF TornOnlyByFailure, Torn
  <2>1. PICK p \in Upgrader : MayHaveTorn(p, c)
    BY DEF TornInv
  <2>2. runs[p] \in Nat /\ retries[p] \in Nat
    BY ConfigAssumption DEF IndInv, TypeOK
  <2>. QED
    BY <2>1, <2>2 DEF MayHaveTorn
<1>. QED
  BY <1>1, <1>2, <1>3, Inductive, PTL DEF Spec

-----------------------------------------------------------------------------
(* What a run that extracted the chart itself parses. *)

\* The files of one release are its places, in order.
LEMMA FilesOfRelease ==
  ASSUME NEW r \in Release
  PROVE  /\ Releases[r] \in Seq(Manifest) /\ Len(Releases[r]) \in Nat
         /\ FilesOf(r) = {r} \X (1..Len(Releases[r]))
<1>. DEFINE n == Len(Releases[r])
<1>1. Releases[r] \in Seq(Manifest) /\ n \in Nat /\ DOMAIN Releases[r] = 1..n
  BY ReleasesAssumption
<1>2. ASSUME NEW f \in FilesOf(r) PROVE f \in {r} \X (1..n)
  <2>1. PICK s \in Release : f \in {s} \X DOMAIN Releases[s]
    BY DEF ManifestFile, FilesOf
  <2>2. s = r
    BY <2>1 DEF FilesOf
  <2>. QED
    BY <1>1, <2>1, <2>2
<1>3. ASSUME NEW f \in {r} \X (1..n) PROVE f \in FilesOf(r)
  BY <1>1, <1>3 DEF ManifestFile, FilesOf
<1>. QED
  BY <1>1, <1>2, <1>3

\* A run extracts files of its release only.
OwnFiles(p) ==
    /\ pc[p] \in {"expand", "write"} => left[p] \subseteq FilesOf(want[p])
    /\ pc[p] = "write" => open[p] \subseteq FilesOf(want[p])

\* The files of the host's cache that are there and not empty.
Whole(h) == files[h] \ blank[h]

\* What a run has extracted stays whole, if nobody else is given its release.
Extracted(p) ==
    fresh[p] /\ OnlyOneOf(p) =>
        /\ pc[p] = "expand" => FilesOf(want[p]) \ left[p] \subseteq Whole(HostOf[p])
        /\ pc[p] = "write" =>
               /\ FilesOf(want[p]) \ (left[p] \cup open[p]) \subseteq Whole(HostOf[p])
               /\ open[p] \subseteq files[HostOf[p]]
        /\ pc[p] \in {"walk", "parse"} => FilesOf(want[p]) \subseteq Whole(HostOf[p])

\* The first k manifests have been read, and the others are left.
ReadUpTo(p, k) ==
    LET release == Releases[want[p]]
    IN  /\ k <= Len(release)
        /\ Len(crds[p]) = k
        /\ \A i \in 1..k : crds[p][i] = release[i]
        /\ left[p] = {want[p]} \X (k + 1 .. Len(release))
Reading(p) ==
    fresh[p] /\ OnlyOneOf(p) /\ ~cut[p] /\ pc[p] = "parse" => \E k \in Nat : ReadUpTo(p, k)
Complete(p) ==
    fresh[p] /\ InLoop(p) /\ ~cut[p] /\ OnlyOneOf(p) => crds[p] = Releases[want[p]]

Fresh(p) == OwnFiles(p) /\ Extracted(p) /\ Reading(p) /\ Complete(p)
FreshInv == Unstarted /\ \A p \in Upgrader : Fresh(p)

LEMMA FreshInit == Init => FreshInv
  BY DEF Init, FreshInv, Unstarted, Fresh, OwnFiles, Extracted, Reading, Complete, InLoop,
         Writing

\* Another run's step: to be given p's release would end what is said of p, and without it
\* the files it empties are not p's.
LEMMA OthersFiles ==
  ASSUME TypeOK, Unstarted, NEW p \in Upgrader, NEW q \in Upgrader \ {p}, OwnStep(q),
         OwnFiles(q), OnlyOneOf(p)'
  PROVE  /\ OnlyOneOf(p)
         /\ files[HostOf[p]] \subseteq files'[HostOf[p]]
         /\ FilesOf(want[p]) \cap Whole(HostOf[p]) \subseteq Whole(HostOf[p])'
<1>1. HostOf[p] \in Host /\ HostOf[q] \in Host
  BY ConfigAssumption
<1>2. Frame(p)
  BY FrameOther
<1>3. \A r \in Upgrader \ {p, q} : runs'[r] = runs[r] /\ want'[r] = want[r]
  BY FrameOther, CountersFrame DEF Frame
<1>4. CASE Start(q)
  <2>1. runs'[q] = runs[q] + 1 /\ runs[q] \in Nat /\ files' = files /\ blank' = blank
    BY <1>4, ConfigAssumption DEF Start, Begin, TypeOK, cacheVars
  <2>2. HostOf[q] = HostOf[p] => runs[q] = 0
    BY <2>1 DEF OnlyOneOf
  <2>3. OnlyOneOf(p)
    BY <1>2, <1>3, <2>2 DEF OnlyOneOf, Frame
  <2>. QED
    BY <2>1, <2>3 DEF Whole
<1>5. CASE ~Start(q)
  <2>1. runs'[q] = runs[q] /\ want'[q] = want[q] /\ pc[q] # "idle"
    BY <1>5, ConfigAssumption
       DEF TypeOK, OwnStep, Step, Retry, Begin, FailOrCrash, CutWalk, Stat, Download,
           MakeDir, OpenFile, WriteFile, Expanded, Walk, WalkFinds, ReadFile, Parsed,
           Finish, NilClient, Get, Create, StatusUpdate, SpecUpdate, Wrote, Refused, bounds,
           runVars, Active
  <2>2. OnlyOneOf(p)
    BY <1>2, <1>3, <2>1 DEF OnlyOneOf, Frame
  <2>3. HostOf[q] = HostOf[p] => FilesOf(want[q]) \cap FilesOf(want[p]) = {}
    BY <2>1, <2>2 DEF OnlyOneOf, Unstarted, FilesOf
  <2>4. CASE OpenFile(q)
    <3>1. PICK f \in left[q] :
             /\ files' = [files EXCEPT ![HostOf[q]] = @ \cup {f}]
             /\ blank' = [blank EXCEPT ![HostOf[q]] = @ \cup {f}]
      BY <2>4 DEF OpenFile
    <3>2. f \in FilesOf(want[q])
      BY <2>4, <3>1 DEF OpenFile, OwnFiles
    <3>. QED
      BY <1>1, <2>2, <2>3, <3>1, <3>2 DEF Whole, TypeOK
  <2>5. CASE WriteFile(q)
    BY <1>1, <2>2, <2>5 DEF WriteFile, Whole, TypeOK
  <2>6. CASE files' = files /\ blank' = blank
    BY <2>2, <2>6 DEF Whole
  <2>. QED
    BY <1>5, <2>4, <2>5, <2>6
       DEF OwnStep, Step, Retry, Begin, FailOrCrash, CutWalk, Stat, Download, MakeDir,
           Expanded, Walk, WalkFinds, ReadFile, Parsed, Finish, NilClient, Get, Create,
           StatusUpdate, SpecUpdate, Wrote, Refused, cacheVars
<1>. QED
  BY <1>4, <1>5

\* A run that does not move keeps what it has read and extracted.
LEMMA FreshFrame ==
  ASSUME NEW p \in Upgrader, Frame(p), Fresh(p),
         OnlyOneOf(p)' =>
             /\ OnlyOneOf(p)
             /\ files[HostOf[p]] \subseteq files'[HostOf[p]]
             /\ FilesOf(want[p]) \cap Whole(HostOf[p]) \subseteq Whole(HostOf[p])'
  PROVE  Fresh(p)'
<1>1. OwnFiles(p)'
  BY DEF Fresh, OwnFiles, Frame
<1>2. Extracted(p)'
  BY DEF Fresh, OwnFiles, Extracted, Frame
<1>3. Reading(p)'
  BY DEF Fresh, Reading, ReadUpTo, Frame
<1>4. Complete(p)'
  BY DEF Fresh, Complete, InLoop, Writing, Frame
<1>. QED
  BY <1>1, <1>2, <1>3, <1>4 DEF Fresh

\* The next file of the walk is the next place of the release.
LEMMA NextPlace ==
  ASSUME NEW r \in Nat, NEW k \in Nat, NEW n \in Nat, NEW f \in {r} \X (k + 1 .. n),
         \A g \in ({r} \X (k + 1 .. n)) \ {f} : FileOrder(f, g)
  PROVE  /\ f = <<r, k + 1>> /\ k + 1 <= n
         /\ ({r} \X (k + 1 .. n)) \ {f} = {r} \X (k + 2 .. n)
<1>1. f[1] = r /\ f[2] \in k + 1 .. n /\ f = <<f[1], f[2]>>
  OBVIOUS
<1>2. <<r, k + 1>> \in {r} \X (k + 1 .. n)
  BY <1>1
<1>3. f[2] = k + 1
  <2>. SUFFICES ASSUME f[2] # k + 1 PROVE FALSE
    OBVIOUS
  <2>1. FileOrder(f, <<r, k + 1>>)
    BY <1>1, <1>2
  <2>. QED
    BY <1>1, <2>1 DEF FileOrder
<1>. QED
  BY <1>1, <1>3

LEMMA ReadingStep ==
  ASSUME IndInv, NEW p \in Upgrader, Fresh(p), ReadFile(p)
  PROVE  Reading(p)'
<1>1. TypeOK /\ pc[p] = "parse" /\ want[p] \in Release /\ HostOf[p] \in Host
  BY ConfigAssumption DEF IndInv, RunInv, FromChart, ReadFile
<1>2. /\ pc'[p] = pc[p] /\ fresh'[p] = fresh[p] /\ cut'[p] = cut[p]
      /\ want' = want /\ blank' = blank /\ runs' = runs
  BY <1>1 DEF ReadFile, cacheVars, bounds
<1>3. SUFFICES ASSUME fresh[p], OnlyOneOf(p), ~cut[p] PROVE \E k \in Nat : ReadUpTo(p, k)'
  BY <1>2 DEF Reading, OnlyOneOf
<1>. DEFINE r == want[p]
            n == Len(Releases[r])
<1>4. PICK k \in Nat : ReadUpTo(p, k)
  BY <1>1, <1>3 DEF Fresh, Reading
<1>5. PICK f \in left[p] :
         /\ \A g \in left[p] \ {f} : FileOrder(f, g)
         /\ left' = [left EXCEPT ![p] = @ \ {f}]
         /\ crds' = IF f \in blank[HostOf[p]] THEN crds
                    ELSE [crds EXCEPT ![p] = Append(@, Releases[f[1]][f[2]])]
  BY DEF ReadFile
<1>6. n \in Nat /\ r \in Nat /\ Releases[r] \in Seq(Manifest) /\ FilesOf(r) = {r} \X (1..n)
  BY <1>1, FilesOfRelease, ConfigAssumption
<1>7. left[p] = {r} \X (k + 1 .. n)
  BY <1>4 DEF ReadUpTo
<1>8. f = <<r, k + 1>> /\ k + 1 <= n /\ left[p] \ {f} = {r} \X (k + 2 .. n)
  <2>. HIDE DEF r, n
  <2>. QED
    BY <1>5, <1>6, <1>7, NextPlace
<1>9. f \in FilesOf(r)
  <2>. HIDE DEF r, n
  <2>. QED
    BY <1>6, <1>8
<1>10. f \notin blank[HostOf[p]]
  BY <1>1, <1>3, <1>9 DEF Fresh, Extracted, Whole
<1>11. crds'[p] = Append(crds[p], Releases[r][k + 1]) /\ crds[p] \in Seq(Manifest)
  BY <1>1, <1>5, <1>8, <1>10 DEF TypeOK
<1>12. left'[p] = {r} \X (k + 2 .. n)
  BY <1>1, <1>5, <1>8 DEF TypeOK
<1>13. Len(crds[p]) = k /\ \A i \in 1..k : crds[p][i] = Releases[r][i]
  BY <1>4 DEF ReadUpTo
<1>14. Len(crds'[p]) = k + 1 /\ \A i \in 1 .. k + 1 : crds'[p][i] = Releases[r][i]
  BY <1>11, <1>13
<1>15. (k + 1) + 1 = k + 2
  OBVIOUS
<1>16. ReadUpTo(p, k + 1)'
  BY <1>2, <1>8, <1>12, <1>14, <1>15 DEF ReadUpTo
<1>. QED
  BY <1>16

\* A run's own step.
LEMMA FreshOwn ==
  ASSUME IndInv, NEW p \in Upgrader, OwnStep(p), Fresh(p)
  PROVE  Fresh(p)'
<1>. USE DEF Goto
<1>t. TypeOK /\ FromChart(p) /\ HostOf[p] \in Host
  BY ConfigAssumption DEF IndInv, RunInv
<1>u. \A q \in Upgrader \ {p} : runs'[q] = runs[q] /\ want'[q] = want[q]
  BY <1>t, FrameOther, CountersFrame DEF Frame
<1>o. ASSUME want'[p] = want[p] PROVE OnlyOneOf(p)' => OnlyOneOf(p)
  BY <1>o, <1>u DEF OnlyOneOf
\* Outside extraction, reading and the loop nothing is said.
<1>q. ASSUME pc'[p] \in {"stat", "download", "mkdir", "error", "panic"} PROVE Fresh(p)'
  BY <1>q DEF Fresh, OwnFiles, Extracted, Reading, Complete, InLoop, Writing
\* In the loop nothing is said of the cache.
<1>l. ASSUME InLoop(p), InLoop(p)', want'[p] = want[p], fresh'[p] = fresh[p],
             cut'[p] = cut[p], crds'[p] = crds[p]
      PROVE  Fresh(p)'
  <2>1. Complete(p)'
    BY <1>l, <1>o DEF Fresh, Complete
  <2>. QED
    BY <1>l, <2>1 DEF Fresh, OwnFiles, Extracted, Reading, InLoop, Writing
<1>1. CASE Start(p) \/ Retry(p)
  BY <1>1, <1>q, <1>t DEF Start, Retry, Begin, TypeOK
<1>2. CASE Stat(p)
  <2>1. pc'[p] \in {"download", "walk"} /\ (pc'[p] = "walk" => ~fresh'[p])
    BY <1>2, <1>t DEF Stat, TypeOK
  <2>. QED
    BY <1>q, <2>1 DEF Fresh, OwnFiles, Extracted, Reading, Complete, InLoop, Writing
<1>3. CASE Download(p) \/ FailOrCrash(p) \/ NilClient(p)
  BY <1>3, <1>q, <1>t DEF Download, FailOrCrash, NilClient, TypeOK
<1>4. CASE MakeDir(p)
  <2>1. pc'[p] = "expand" /\ left'[p] = FilesOf(want[p]) /\ want' = want
    BY <1>4, <1>t DEF MakeDir, TypeOK, runVars
  <2>. QED
    BY <2>1 DEF Fresh, OwnFiles, Extracted, Reading, Complete, InLoop, Writing
<1>5. CASE OpenFile(p)
  <2>1. PICK f \in left[p] :
           /\ files'[HostOf[p]] = files[HostOf[p]] \cup {f}
           /\ blank'[HostOf[p]] = blank[HostOf[p]] \cup {f}
           /\ left'[p] = left[p] \ {f} /\ open'[p] = {f}
    BY <1>5, <1>t DEF OpenFile, TypeOK
  <2>2. /\ pc[p] = "expand" /\ pc'[p] = "write" /\ want'[p] = want[p] /\ fresh'[p] = fresh[p]
    BY <1>5, <1>t DEF OpenFile, TypeOK, runVars
  <2>3. OwnFiles(p)'
    BY <2>1, <2>2 DEF Fresh, OwnFiles
  <2>4. Extracted(p)'
    <3>. SUFFICES ASSUME fresh[p], OnlyOneOf(p)
                  PROVE  /\ FilesOf(want[p]) \ (left'[p] \cup open'[p]) \subseteq Whole(HostOf[p])'
                         /\ open'[p] \subseteq files'[HostOf[p]]
      BY <1>o, <2>2 DEF Extracted
    <3>1. FilesOf(want[p]) \ left[p] \subseteq Whole(HostOf[p])
      BY <2>2 DEF Fresh, Extracted
    <3>. QED
      BY <2>1, <3>1 DEF Whole
  <2>. QED
    BY <2>2, <2>3, <2>4 DEF Fresh, Reading, Complete, InLoop, Writing
<1>6. CASE WriteFile(p)
  <2>1. /\ blank'[HostOf[p]] = blank[HostOf[p]] \ open[p] /\ files' = files /\ left' = left
        /\ pc[p] = "write" /\ pc'[p] = "expand" /\ want'[p] = want[p] /\ fresh'[p] = fresh[p]
    BY <1>6, <1>t DEF WriteFile, TypeOK, runVars
  <2>2. OwnFiles(p)'
    BY <2>1 DEF Fresh, OwnFiles
  <2>3. Extracted(p)'
    <3>. SUFFICES ASSUME fresh[p], OnlyOneOf(p)
                  PROVE  FilesOf(want[p]) \ left[p] \subseteq Whole(HostOf[p])'
      BY <1>o, <2>1 DEF Extracted
    <3>1. /\ FilesOf(want[p]) \ (left[p] \cup open[p]) \subseteq Whole(HostOf[p])
          /\ open[p] \subseteq files[HostOf[p]]
      BY <2>1 DEF Fresh, Extracted
    <3>. QED
      BY <2>1, <3>1 DEF Whole
  <2>. QED
    BY <2>1, <2>2, <2>3 DEF Fresh, Reading, Complete, InLoop, Writing
<1>7. CASE Expanded(p)
  <2>1. /\ pc[p] = "expand" /\ left[p] = {} /\ pc'[p] = "walk" /\ files' = files /\ blank' = blank
        /\ want'[p] = want[p] /\ fresh'[p] = fresh[p]
    BY <1>7, <1>t DEF Expanded, TypeOK, runVars, cacheVars
  <2>2. Extracted(p)'
    BY <1>o, <2>1 DEF Fresh, Extracted, Whole
  <2>. QED
    BY <2>1, <2>2 DEF Fresh, OwnFiles, Reading, Complete, InLoop, Writing
<1>8. CASE Walk(p) \/ CutWalk(p)
  <2>1. /\ pc[p] = "walk" /\ pc'[p] = "parse" /\ files' = files /\ blank' = blank
        /\ want'[p] = want[p] /\ fresh'[p] = fresh[p] /\ crds'[p] = <<>>
    BY <1>8, <1>t DEF Walk, CutWalk, WalkFinds, TypeOK, cacheVars
  <2>2. Extracted(p)'
    BY <1>o, <2>1 DEF Fresh, Extracted, Whole
  <2>3. ~cut'[p] => left'[p] = ChartFiles(p)
    BY <1>8, <1>t DEF Walk, CutWalk, WalkFinds, TypeOK
  <2>4. Reading(p)'
    <3>. SUFFICES ASSUME fresh[p], OnlyOneOf(p), ~cut'[p] PROVE ReadUpTo(p, 0)'
      BY <1>o, <2>1 DEF Reading
    <3>1. FilesOf(want[p]) \subseteq files[HostOf[p]]
      BY <2>1 DEF Fresh, Extracted, Whole
    <3>2. left'[p] = FilesOf(want[p])
      BY <2>3, <3>1 DEF ChartFiles
    <3>3. want[p] \in Release
      BY <1>t, <2>1 DEF FromChart
    <3>4. Len(Releases[want[p]]) \in Nat /\ left'[p] = {want[p]} \X (0 + 1 .. Len(Releases[want[p]]))
      BY <3>2, <3>3, FilesOfRelease
    <3>. QED
      BY <2>1, <3>4 DEF ReadUpTo
  <2>. QED
    BY <2>1, <2>2, <2>4 DEF Fresh, OwnFiles, Complete, InLoop, Writing
<1>9. CASE ReadFile(p)
  <2>1. /\ pc[p] = "parse" /\ pc'[p] = "parse" /\ files' = files /\ blank' = blank
        /\ want'[p] = want[p] /\ fresh'[p] = fresh[p]
    BY <1>9, <1>t DEF ReadFile, TypeOK, cacheVars
  <2>2. Extracted(p)'
    BY <1>o, <2>1 DEF Fresh, Extracted, Whole
  <2>3. Reading(p)'
    BY <1>9, ReadingStep
  <2>. QED
    BY <2>1, <2>2, <2>3 DEF Fresh, OwnFiles, Complete, InLoop, Writing
<1>10. CASE Parsed(p)
  <2>1. /\ pc[p] = "parse" /\ left[p] = {} /\ pc'[p] = "get"
        /\ want'[p] = want[p] /\ fresh'[p] = fresh[p] /\ cut'[p] = cut[p] /\ crds'[p] = crds[p]
    BY <1>10, <1>t DEF Parsed, TypeOK, readVars
  <2>2. Complete(p)'
    <3>. SUFFICES ASSUME fresh[p], OnlyOneOf(p), ~cut[p] PROVE crds[p] = Releases[want[p]]
      BY <1>o, <2>1 DEF Complete
    <3>1. PICK k \in Nat : ReadUpTo(p, k)
      BY <2>1 DEF Fresh, Reading
    <3>2. want[p] \in Release /\ want[p] \in Nat
      BY <1>t, <2>1, ConfigAssumption DEF FromChart
    <3>3. Releases[want[p]] \in Seq(Manifest) /\ Len(Releases[want[p]]) \in Nat
      BY <3>2, FilesOfRelease
    <3>4. k = Len(Releases[want[p]])
      <4>. SUFFICES ASSUME k # Len(Releases[want[p]]) PROVE FALSE
        OBVIOUS
      <4>1. k + 1 \in k + 1 .. Len(Releases[want[p]])
        BY <3>1, <3>3 DEF ReadUpTo
      <4>2. <<want[p], k + 1>> \in left[p]
        BY <3>1, <4>1 DEF ReadUpTo
      <4>. QED
        BY <2>1, <4>2
    <3>5. crds[p] \in Seq(Manifest)
      BY <1>t DEF TypeOK
    <3>6. Len(crds[p]) = Len(Releases[want[p]])
          /\ \A i \in 1..Len(crds[p]) : crds[p][i] = Releases[want[p]][i]
      BY <3>1, <3>4 DEF ReadUpTo
    <3>. QED
      BY <3>3, <3>5, <3>6
  <2>. QED
    BY <2>1, <2>2 DEF Fresh, OwnFiles, Extracted, Reading
<1>11. CASE Finish(p) \/ Get(p)
  <2>1. /\ InLoop(p) /\ InLoop(p)' /\ want'[p] = want[p] /\ fresh'[p] = fresh[p]
        /\ cut'[p] = cut[p] /\ crds'[p] = crds[p]
    BY <1>11, <1>t DEF Finish, Get, TypeOK, runVars, readVars, InLoop, Writing
  <2>. QED
    BY <1>l, <2>1
<1>12. CASE Create(p) \/ StatusUpdate(p) \/ SpecUpdate(p)
  <2>1. /\ InLoop(p) /\ want'[p] = want[p] /\ fresh'[p] = fresh[p]
        /\ cut'[p] = cut[p] /\ crds'[p] = crds[p] /\ pc'[p] \in {"error", "get", "update"}
    BY <1>12, <1>t
       DEF Create, StatusUpdate, SpecUpdate, Wrote, Refused, TypeOK, runVars, readVars,
           InLoop, Writing
  <2>. QED
    BY <1>l, <1>q, <2>1 DEF InLoop, Writing
<1>. QED
  BY <1>1, <1>2, <1>3, <1>4, <1>5, <1>6, <1>7, <1>8, <1>9, <1>10, <1>11, <1>12
     DEF OwnStep, Step

LEMMA FreshStep == IndInv /\ FreshInv /\ [Next]_vars => FreshInv'
<1>. SUFFICES ASSUME IndInv, FreshInv, [Next]_vars PROVE FreshInv'
  OBVIOUS
<1>1. TypeOK /\ Unstarted /\ \A p \in Upgrader : Fresh(p)
  BY DEF IndInv, FreshInv
<1>2. Unstarted'
  BY <1>1, UnstartedStep
<1>3. ASSUME NEW p \in Upgrader, NEW q \in Upgrader, OwnStep(q) PROVE Fresh(p)'
  <2>1. CASE q = p
    BY <1>1, <1>3, <2>1, FreshOwn
  <2>2. CASE q # p
    <3>1. Frame(p)
      BY <1>1, <1>3, <2>2, FrameOther
    <3>2. OwnFiles(q)
      BY <1>1 DEF Fresh
    <3>3. OnlyOneOf(p)' =>
             /\ OnlyOneOf(p)
             /\ files[HostOf[p]] \subseteq files'[HostOf[p]]
             /\ FilesOf(want[p]) \cap Whole(HostOf[p]) \subseteq Whole(HostOf[p])'
      BY <1>1, <1>3, <2>2, <3>2, OthersFiles
    <3>. QED
      BY <1>1, <3>1, <3>3, FreshFrame
  <2>. QED
    BY <2>1, <2>2
<1>4. ASSUME NEW p \in Upgrader, UNCHANGED vars \/ \E c \in Crd : Touch(c) PROVE Fresh(p)'
  <2>1. Frame(p) /\ files' = files /\ blank' = blank /\ runs' = runs /\ want' = want
    BY <1>4 DEF Touch, vars, runVars, readVars, cacheVars, bounds, Frame
  <2>2. OnlyOneOf(p)' => OnlyOneOf(p)
    BY <2>1 DEF OnlyOneOf
  <2>3. Whole(HostOf[p])' = Whole(HostOf[p])
    BY <2>1 DEF Whole
  <2>. QED
    BY <1>1, <2>1, <2>2, <2>3, FreshFrame
<1>5. \A p \in Upgrader : Fresh(p)'
  BY <1>3, <1>4 DEF Next, OwnStep
<1>. QED
  BY <1>2, <1>5 DEF FreshInv

\* A run that extracted the chart itself works on exactly the release it was asked for,
\* whatever other runs of other releases put into the cache meanwhile, if findCRDDirs met no
\* error and nobody else on the host was given that release (crds.go:54-87).
THEOREM FreshRunsAreComplete == Spec => []FreshRunIsComplete
<1>1. Spec => []FreshInv
  BY FreshInit, FreshStep, Inductive, PTL DEF Spec
<1>2. FreshInv => FreshRunIsComplete
  BY DEF FreshInv, Fresh, Complete, FreshRunIsComplete
<1>. QED
  BY <1>1, <1>2, PTL

=============================================================================
