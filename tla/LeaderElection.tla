--------------------------- MODULE LeaderElection ---------------------------
(***************************************************************************)
(* WaitForLock of pkg/kubernetes: a caller waits until it has been elected *)
(* leader on a Lease, and then proceeds.                                   *)
(*                                                                         *)
(* A call has two parts that run concurrently: the caller, blocked on a    *)
(* WaitGroup, and the goroutine of client-go's elector, which takes the    *)
(* Lease, renews it, and releases it when its context is cancelled.  The   *)
(* code cancels that context as WaitForLock returns.                       *)
(***************************************************************************)
EXTENDS Naturals, FiniteSets

CONSTANTS
    Client,
    NoHolder,    \* the Lease has no holder
    MaxLapses,   \* times a live holder fails to renew for LeaseDuration
    MaxFaults    \* crashes, and releases that fail

ASSUME NoHolderAssumption == NoHolder \notin Client
ASSUME BoundAssumption == MaxLapses \in Nat /\ MaxFaults \in Nat

VARIABLES
    holder,     \* holderIdentity of the Lease
    rv,         \* its resourceVersion
    lapsed,     \* nobody has seen it renewed for LeaseDuration
    caller,     \* [Client -> where WaitForLock's caller is]
    elector,    \* [Client -> where its elector is]
    seen,       \* [Client -> resourceVersion of the Lease as last read]
    done,       \* clients whose OnStartedLeading has run
    cancelled,  \* clients whose context is cancelled
    afloat,     \* clients whose claim outlives its elector, on its way to the server
    lapses, faults

lease == <<holder, rv, lapsed>>
bounds == <<lapses, faults>>
vars == <<lease, caller, elector, seen, done, cancelled, afloat, bounds>>

CallerAt(c, label) == caller' = [caller EXCEPT ![c] = label]
ElectorAt(c, label) == elector' = [elector EXCEPT ![c] = label]

\* A write of the Lease.
WriteLease(who) == holder' = who /\ rv' = rv + 1 /\ lapsed' = FALSE

-----------------------------------------------------------------------------
(* WaitForLock. *)

\* Mutant: the elector is never started.
CallWithoutElector(c) ==
    /\ caller[c] = "idle"
    /\ CallerAt(c, "waiting")
    /\ UNCHANGED <<lease, elector, seen, done, cancelled, afloat, bounds>>

\* NewResourceLock with an identity of its own, then the elector is started.
Call(c) ==
    /\ caller[c] = "idle"
    /\ CallerAt(c, "waiting")
    /\ ElectorAt(c, "trying")
    /\ UNCHANGED <<lease, seen, done, cancelled, afloat, bounds>>

\* Mutant: the end of the elector releases the caller as well.
ReturnAnyhow(c) ==
    /\ caller[c] = "waiting"
    /\ c \in done \/ elector[c] = "ended"
    /\ CallerAt(c, "proceeding")
    /\ cancelled' = cancelled \cup {c}
    /\ UNCHANGED <<lease, elector, seen, done, afloat, bounds>>

\* wg.Wait returns, and the deferred cancel runs.
Return(c) ==
    /\ caller[c] = "waiting"
    /\ c \in done
    /\ CallerAt(c, "proceeding")
    /\ cancelled' = cancelled \cup {c}
    /\ UNCHANGED <<lease, elector, seen, done, afloat, bounds>>

\* The caller of WaitForLock finishes what it wanted the lock for.
Finish(c) ==
    /\ caller[c] = "proceeding"
    /\ CallerAt(c, "finished")
    /\ UNCHANGED <<lease, elector, seen, done, cancelled, afloat, bounds>>

\* The context passed to WaitForLock is cancelled while it waits.
CancelContext(c) ==
    /\ caller[c] = "waiting" /\ c \notin cancelled
    /\ cancelled' = cancelled \cup {c}
    /\ UNCHANGED <<lease, caller, elector, seen, done, afloat, bounds>>

-----------------------------------------------------------------------------
(* RunLeaderElection: acquire, renew, release. *)

\* The Lease is free, or has not been renewed for LeaseDuration.
Free == holder = NoHolder \/ lapsed

\* The Lease is read; a request is only made while the context lasts.
Look(c) ==
    /\ elector[c] = "trying" /\ Free /\ c \notin cancelled
    /\ seen' = [seen EXCEPT ![c] = rv]
    /\ ElectorAt(c, "claiming")
    /\ UNCHANGED <<lease, caller, done, cancelled, afloat, bounds>>

\* Mutant: the Lease is overwritten whatever happened since it was read.
ClaimForced(c) ==
    /\ elector[c] = "claiming"
    /\ WriteLease(c)
    /\ ElectorAt(c, "leading")
    /\ seen' = [seen EXCEPT ![c] = rv + 1]
    /\ UNCHANGED <<caller, done, cancelled, afloat, bounds>>

\* The Lease is written with the resourceVersion that was read.
Claim(c) ==
    /\ elector[c] = "claiming"
    /\ \/ /\ seen[c] = rv
          /\ WriteLease(c)
          /\ ElectorAt(c, "leading")
          /\ seen' = [seen EXCEPT ![c] = rv + 1]
       \/ /\ seen[c] # rv
          /\ ElectorAt(c, "trying")
          /\ UNCHANGED <<lease, seen>>
    /\ UNCHANGED <<caller, done, cancelled, afloat, bounds>>

\* Mutant: the callback gives up when the Lease is lost by then.
OnStartedLeadingIfHolder(c) ==
    /\ elector[c] = "leading" /\ holder = c /\ c \notin done
    /\ done' = done \cup {c}
    /\ UNCHANGED <<lease, caller, elector, seen, cancelled, afloat, bounds>>

\* OnStartedLeading runs in a goroutine of its own, whenever it is scheduled.
OnStartedLeading(c) ==
    /\ elector[c] \in {"leading", "lost", "cut"} /\ c \notin done
    /\ done' = done \cup {c}
    /\ UNCHANGED <<lease, caller, elector, seen, cancelled, afloat, bounds>>

\* The request that claims the Lease is abandoned: either it does not reach the
\* server, or it is still to arrive there.
Abandon(c) ==
    \/ UNCHANGED afloat
    \/ elector[c] = "claiming" /\ afloat' = afloat \cup {c}

\* A cancelled elector that does not lead ends without calling back, and without
\* releasing what its last request may have taken.
GiveUp(c) ==
    /\ elector[c] \in {"trying", "claiming"} /\ c \in cancelled
    /\ Abandon(c)
    /\ ElectorAt(c, "ended")
    /\ UNCHANGED <<lease, caller, seen, done, cancelled, bounds>>

\* An elector stops when its context is cancelled, or when it finds that it has
\* not renewed for RenewDeadline.
Stops(c) == elector[c] = "leading" /\ (c \in cancelled \/ holder # c \/ lapsed)

\* Mutant: ReleaseOnCancel is not set.
StopWithoutRelease(c) ==
    /\ Stops(c)
    /\ ElectorAt(c, "lost")
    /\ UNCHANGED <<lease, caller, seen, done, cancelled, afloat, bounds>>

\* ReleaseOnCancel: the Lease is given back, if it is still as written.
Release(c) ==
    /\ Stops(c)
    /\ \/ seen[c] = rv /\ WriteLease(NoHolder)
       \/ seen[c] # rv /\ UNCHANGED lease
    /\ ElectorAt(c, "lost")
    /\ UNCHANGED <<caller, seen, done, cancelled, afloat, bounds>>

-----------------------------------------------------------------------------
(* Failures. *)

\* The process is killed, or the API server is out of reach for RenewDeadline
\* and for the release.
Crash(c) ==
    /\ faults < MaxFaults
    /\ faults' = faults + 1
    /\ \/ /\ caller[c] \in {"waiting", "proceeding", "finished"}
          /\ CallerAt(c, "crashed")
          /\ ElectorAt(c, "crashed")
          /\ Abandon(c)
       \/ /\ elector[c] = "leading"
          /\ ElectorAt(c, "cut")
          /\ UNCHANGED <<caller, afloat>>
    /\ UNCHANGED <<lease, seen, done, cancelled, lapses>>

\* The process is done and exits; nobody waits for the elector's release.
Exit(c) ==
    /\ caller[c] = "finished" /\ elector[c] \in {"leading", "lost", "cut"}
    /\ ElectorAt(c, "exited")
    /\ UNCHANGED <<lease, caller, seen, done, cancelled, afloat, bounds>>

\* An abandoned claim arrives: it is written, or refused as any other.
Arrive(c) ==
    /\ c \in afloat
    /\ afloat' = afloat \ {c}
    /\ \/ seen[c] = rv /\ WriteLease(c)
       \/ seen[c] # rv /\ UNCHANGED lease
    /\ UNCHANGED <<caller, elector, seen, done, cancelled, bounds>>

\* A live holder is cut off or paused for LeaseDuration ...
Lapse ==
    /\ holder \in Client /\ elector[holder] = "leading" /\ ~lapsed
    /\ lapses < MaxLapses
    /\ lapses' = lapses + 1
    /\ lapsed' = TRUE
    /\ UNCHANGED <<holder, rv, caller, elector, seen, done, cancelled, afloat, faults>>

\* ... and a holder without an elector never renews.
Expire ==
    /\ holder \in Client /\ elector[holder] # "leading" /\ ~lapsed
    /\ lapsed' = TRUE
    /\ UNCHANGED <<holder, rv, caller, elector, seen, done, cancelled, afloat, bounds>>

\* A late renewal takes the lapsed Lease back before anybody has claimed it.
RenewLate(c) ==
    /\ elector[c] = "leading" /\ holder = c /\ lapsed
    /\ WriteLease(c)
    /\ seen' = [seen EXCEPT ![c] = rv + 1]
    /\ UNCHANGED <<caller, elector, done, cancelled, afloat, bounds>>

-----------------------------------------------------------------------------
Init ==
    /\ holder = NoHolder
    /\ rv = 0
    /\ lapsed = FALSE
    /\ caller = [c \in Client |-> "idle"]
    /\ elector = [c \in Client |-> "off"]
    /\ seen = [c \in Client |-> 0]
    /\ done = {}
    /\ cancelled = {}
    /\ afloat = {}
    /\ lapses = 0
    /\ faults = 0

Elector(c) ==
    \/ Look(c) \/ Claim(c) \/ OnStartedLeading(c) \/ GiveUp(c) \/ Release(c)

Next ==
    \/ \E c \in Client :
          \/ Call(c) \/ Return(c) \/ Finish(c) \/ CancelContext(c)
          \/ Elector(c) \/ RenewLate(c) \/ Crash(c) \/ Exit(c) \/ Arrive(c)
    \/ Lapse \/ Expire

Spec == Init /\ [][Next]_vars

\* Goroutines run, an elector retries every RetryPeriod and notices that its
\* context is cancelled, and a Lease that is not renewed expires.
FairSpec ==
    /\ Spec
    /\ \A c \in Client :
          /\ WF_vars(Return(c)) /\ WF_vars(Finish(c))
          /\ WF_vars(OnStartedLeading(c))
          /\ WF_vars(Look(c)) /\ WF_vars(Claim(c)) /\ WF_vars(Release(c))
          /\ WF_vars(GiveUp(c))
    /\ WF_vars(Expire)

-----------------------------------------------------------------------------
(* Properties. *)

Callers == {"idle", "waiting", "proceeding", "finished", "crashed"}
Electors ==
    {"off", "trying", "claiming", "leading", "lost", "cut", "ended", "crashed", "exited"}

TypeOK ==
    /\ holder \in Client \cup {NoHolder}
    /\ rv \in Nat
    /\ lapsed \in BOOLEAN
    /\ caller \in [Client -> Callers]
    /\ elector \in [Client -> Electors]
    /\ \A c \in Client : caller[c] = "idle" <=> elector[c] = "off"
    /\ seen \in [Client -> Nat] /\ \A c \in Client : seen[c] <= rv
    /\ done \subseteq Client
    /\ cancelled \subseteq Client
    /\ afloat \subseteq Client
    /\ lapses \in 0..MaxLapses
    /\ faults \in 0..MaxFaults

\* WaitForLock never returns to a caller that has not been leader, also when
\* its context is cancelled and the elector ends (leaderelection.go:23-33).
ReturnsOnlyToLeaders ==
    \A c \in Client :
        caller[c] = "proceeding" => elector[c] \in {"leading", "lost", "cut"}

\* While no live leader has been cut off, an elector that takes itself for the
\* leader is the Lease's holder: no two electors lead (leaderelection.go:70-86).
OneLeader == \A c \in Client : elector[c] = "leading" /\ lapses = 0 => holder = c

\* Every call comes to its end, whatever becomes of the others: their Lease is
\* released, or it expires.  The one exception is a call whose elector ends, its
\* context cancelled, before it has led: the WaitGroup is never signalled
\* (leaderelection.go:26-33).  A call that is cancelled while it leads does return.
EveryCallReturns ==
    \A c \in Client :
        caller[c] = "waiting" ~>
            caller[c] \in {"finished", "crashed"} \/ (elector[c] = "ended" /\ c \in cancelled)

\* Whoever finds the Lease expired finds it left behind by a holder that was
\* killed, cut off from the server, gone with its process before the release, or
\* cancelled while its claim was on its way; an elector that led and could still
\* release has released (leaderelection.go:70-73).
LeftBehind(c) ==
    \/ elector[c] \in {"crashed", "cut", "exited"}
    \/ elector[c] = "ended" /\ c \in cancelled /\ c \notin done
    \/ elector[c] = "leading" /\ lapses > 0
ReleasedNotExpired == lapsed => holder \in Client /\ LeftBehind(holder)

-----------------------------------------------------------------------------
(* What the documentation says and the code does not do. *)

\* leaderelection.go:29 and 83: "Gain leader election and then proceed"; to lose
\* it "is fatal to our usage".
LeadsWhileProceeding ==
    \A c \in Client : caller[c] = "proceeding" /\ faults = 0 /\ lapses = 0 => holder = c
=============================================================================
