------------------------ MODULE LeaderElectionProofs ------------------------
(***************************************************************************)
(* Proofs about LeaderElection, for every number of clients and any bounds. *)
(***************************************************************************)
EXTENDS LeaderElection, TLAPS

\* Who has been signalled has led; who proceeds has been signalled.
SignalledHasLed ==
    /\ \A c \in done : elector[c] \in {"leading", "lost", "cut", "crashed", "exited"}
    /\ \A c \in Client : caller[c] = "proceeding" => c \in done
    /\ \A c \in Client : elector[c] = "crashed" => caller[c] = "crashed"
    /\ \A c \in Client : elector[c] = "exited" => caller[c] \in {"finished", "crashed"}

\* A leader that still holds the Lease has seen its last write.
HolderIsCurrent == \A c \in Client : elector[c] = "leading" /\ holder = c => seen[c] = rv

\* As long as no live leader was cut off, neither an expired Lease nor a claim
\* that will succeed coexists with a leader.
NobodyLeads == \A d \in Client : elector[d] # "leading"
ClaimsAreSafe ==
    lapses = 0 =>
        /\ lapsed => NobodyLeads
        /\ \A c \in Client :
              (elector[c] = "claiming" \/ c \in afloat) /\ seen[c] = rv => NobodyLeads

\* A claim is abandoned by a killed process, or by a cancelled call.
AbandonedBy ==
    /\ \A c \in afloat : elector[c] \in {"ended", "crashed"}
    /\ \A c \in Client : elector[c] = "ended" => c \in cancelled /\ c \notin done

\* The holder of the Lease leads, or has left it behind; a Lease that lapses under
\* a leader is counted.
HolderLeads ==
    /\ holder \in Client => elector[holder] = "leading" \/ LeftBehind(holder)
    /\ lapsed => holder \in Client /\ (elector[holder] = "leading" => lapses > 0)

IndInv ==
    /\ TypeOK
    /\ SignalledHasLed
    /\ OneLeader
    /\ HolderIsCurrent
    /\ ClaimsAreSafe
    /\ AbandonedBy
    /\ HolderLeads

USE NoHolderAssumption, BoundAssumption

-----------------------------------------------------------------------------
LEMMA InitInv == Init => IndInv
  <1> SUFFICES ASSUME Init PROVE IndInv
    OBVIOUS
  <1>1. TypeOK
    <2>1. lapsed \in BOOLEAN
      BY Zenon DEF Init
    <2>2. holder \in Client \cup {NoHolder} /\ rv \in Nat
      BY DEF Init
    <2>3. /\ caller \in [Client -> Callers] /\ elector \in [Client -> Electors]
          /\ \A c \in Client : caller[c] = "idle" <=> elector[c] = "off"
      BY DEF Init, Callers, Electors
    <2>4. /\ seen \in [Client -> Nat] /\ \A c \in Client : seen[c] <= rv
          /\ lapses \in 0..MaxLapses /\ faults \in 0..MaxFaults
      BY DEF Init
    <2> QED
      BY <2>1, <2>2, <2>3, <2>4 DEF Init, TypeOK
  <1>2. SignalledHasLed /\ OneLeader /\ HolderIsCurrent
    BY DEF Init, SignalledHasLed, OneLeader, HolderIsCurrent
  <1>3. ClaimsAreSafe /\ AbandonedBy /\ HolderLeads
    BY DEF Init, ClaimsAreSafe, NobodyLeads, AbandonedBy, HolderLeads
  <1> QED
    BY <1>1, <1>2, <1>3 DEF IndInv

\* The actions as a list of cases.
LEMMA Cases ==
    [Next]_vars =>
        \/ \E c \in Client :
              \/ Call(c) \/ Return(c) \/ Finish(c) \/ CancelContext(c) \/ Look(c)
              \/ Claim(c) \/ OnStartedLeading(c) \/ GiveUp(c) \/ Release(c)
              \/ RenewLate(c) \/ Crash(c) \/ Exit(c) \/ Arrive(c)
        \/ Lapse \/ Expire \/ UNCHANGED vars
  BY DEF Next, Elector

\* TypeOK without the Boolean.
TypeParts ==
    /\ holder \in Client \cup {NoHolder}
    /\ rv \in Nat
    /\ caller \in [Client -> Callers]
    /\ elector \in [Client -> Electors]
    /\ \A c \in Client : caller[c] = "idle" <=> elector[c] = "off"
    /\ seen \in [Client -> Nat] /\ \A c \in Client : seen[c] <= rv
    /\ done \subseteq Client
    /\ cancelled \subseteq Client
    /\ afloat \subseteq Client
    /\ lapses \in 0..MaxLapses
    /\ faults \in 0..MaxFaults

LEMMA TypeStep == IndInv /\ [Next]_vars => TypeOK'
  <1> SUFFICES ASSUME IndInv, [Next]_vars PROVE TypeOK'
    OBVIOUS
  <1> USE DEF IndInv, TypeOK, Callers, Electors, CallerAt, ElectorAt, bounds, lease, WriteLease
  <1>1. ASSUME NEW c \in Client, Call(c) PROVE TypeOK'
    BY <1>1 DEF Call
  <1>2. ASSUME NEW c \in Client, Return(c) PROVE TypeOK'
    BY <1>2 DEF Return
  <1>3. ASSUME NEW c \in Client, Finish(c) PROVE TypeOK'
    BY <1>3 DEF Finish
  <1>4. ASSUME NEW c \in Client, CancelContext(c) PROVE TypeOK'
    BY <1>4 DEF CancelContext
  <1>5. ASSUME NEW c \in Client, Look(c) PROVE TypeOK'
    BY <1>5 DEF Look
  <1>6. ASSUME NEW c \in Client, Claim(c) PROVE TypeOK'
    <2>1. lapsed' \in BOOLEAN
      BY <1>6, Zenon DEF Claim
    <2> HIDE DEF TypeOK
    <2>2. TypeParts'
      BY <1>6 DEF Claim, TypeOK, TypeParts
    <2> QED
      BY <2>1, <2>2 DEF TypeOK, TypeParts
  <1>7. ASSUME NEW c \in Client, OnStartedLeading(c) PROVE TypeOK'
    BY <1>7 DEF OnStartedLeading
  <1>8. ASSUME NEW c \in Client, GiveUp(c) PROVE TypeOK'
    BY <1>8 DEF GiveUp, Abandon
  <1>9. ASSUME NEW c \in Client, Release(c) PROVE TypeOK'
    <2>1. lapsed' \in BOOLEAN
      BY <1>9, Zenon DEF Release, Stops
    <2> HIDE DEF TypeOK
    <2>2. TypeParts'
      BY <1>9 DEF Release, Stops, TypeOK, TypeParts
    <2> QED
      BY <2>1, <2>2 DEF TypeOK, TypeParts
  <1>10. ASSUME NEW c \in Client, RenewLate(c) PROVE TypeOK'
    <2>1. lapsed' \in BOOLEAN
      BY <1>10, Zenon DEF RenewLate
    <2> HIDE DEF TypeOK
    <2>2. TypeParts'
      BY <1>10 DEF RenewLate, TypeOK, TypeParts
    <2> QED
      BY <2>1, <2>2 DEF TypeOK, TypeParts
  <1>11. ASSUME NEW c \in Client, Crash(c) PROVE TypeOK'
    BY <1>11 DEF Crash, Abandon
  <1>14. ASSUME NEW c \in Client, Exit(c) PROVE TypeOK'
    BY <1>14 DEF Exit
  <1>15. ASSUME NEW c \in Client, Arrive(c) PROVE TypeOK'
    <2>1. lapsed' \in BOOLEAN
      BY <1>15, Zenon DEF Arrive
    <2> HIDE DEF TypeOK
    <2>2. TypeParts'
      BY <1>15 DEF Arrive, TypeOK, TypeParts
    <2> QED
      BY <2>1, <2>2 DEF TypeOK, TypeParts
  <1>12. CASE Lapse \/ Expire
    <2>1. lapsed' \in BOOLEAN
      BY <1>12, Zenon DEF Lapse, Expire
    <2> HIDE DEF TypeOK
    <2>2. TypeParts'
      BY <1>12 DEF Lapse, Expire, TypeOK, TypeParts
    <2> QED
      BY <2>1, <2>2 DEF TypeOK, TypeParts
  <1>13. CASE UNCHANGED vars
    BY <1>13 DEF vars
  <1> QED
    BY <1>1, <1>2, <1>3, <1>4, <1>5, <1>6, <1>7, <1>8, <1>9, <1>10, <1>11, <1>12, <1>13,
       <1>14, <1>15, Cases

\* The other conjuncts, one action at a time.
LeaseInv == OneLeader /\ HolderIsCurrent /\ ClaimsAreSafe /\ AbandonedBy /\ HolderLeads

LEMMA LeaseStep == IndInv /\ [Next]_vars => LeaseInv'
  <1> SUFFICES ASSUME IndInv, [Next]_vars PROVE LeaseInv'
    OBVIOUS
  <1> USE DEF IndInv, TypeOK, Electors, Callers, LeaseInv, OneLeader, HolderIsCurrent,
              ClaimsAreSafe, NobodyLeads, AbandonedBy, HolderLeads, LeftBehind,
              CallerAt, ElectorAt, bounds, lease, WriteLease
  <1>1. ASSUME NEW c \in Client, Call(c) PROVE LeaseInv'
    BY <1>1 DEF Call
  <1>2. ASSUME NEW c \in Client, Return(c) \/ Finish(c) \/ CancelContext(c)
        PROVE LeaseInv'
    BY <1>2 DEF Return, Finish, CancelContext
  <1>14. ASSUME NEW c \in Client, OnStartedLeading(c) PROVE LeaseInv'
    BY <1>14 DEF OnStartedLeading
  <1>3. ASSUME NEW c \in Client, Look(c) PROVE LeaseInv'
    BY <1>3 DEF Look, Free
  <1>4. ASSUME NEW c \in Client, Claim(c) PROVE LeaseInv'
    BY <1>4 DEF Claim
  <1>5. ASSUME NEW c \in Client, GiveUp(c) PROVE LeaseInv'
    <2>1. c \notin done
      BY <1>5 DEF GiveUp, SignalledHasLed
    <2> QED
      BY <1>5, <2>1 DEF GiveUp, Abandon
  <1>6. ASSUME NEW c \in Client, Release(c) PROVE LeaseInv'
    BY <1>6 DEF Release, Stops
  <1>7. ASSUME NEW c \in Client, RenewLate(c) PROVE LeaseInv'
    BY <1>7 DEF RenewLate
  <1>8. ASSUME NEW c \in Client, Crash(c) PROVE LeaseInv'
    BY <1>8 DEF Crash, Abandon
  <1>12. ASSUME NEW c \in Client, Exit(c) PROVE LeaseInv'
    BY <1>12 DEF Exit
  <1>13. ASSUME NEW c \in Client, Arrive(c) PROVE LeaseInv'
    BY <1>13 DEF Arrive
  <1>9. CASE Lapse
    BY <1>9 DEF Lapse
  <1>10. CASE Expire
    BY <1>10 DEF Expire
  <1>11. CASE UNCHANGED vars
    BY <1>11 DEF vars
  <1> QED
    BY <1>1, <1>2, <1>3, <1>4, <1>5, <1>6, <1>7, <1>8, <1>9, <1>10, <1>11,
       <1>12, <1>13, <1>14, Cases

LEMMA SignalStep == IndInv /\ [Next]_vars => SignalledHasLed'
  <1> SUFFICES ASSUME IndInv, [Next]_vars PROVE SignalledHasLed'
    OBVIOUS
  <1> USE DEF IndInv, TypeOK, Electors, Callers, SignalledHasLed, CallerAt, ElectorAt
  <1>1. ASSUME NEW c \in Client, Call(c) PROVE SignalledHasLed'
    BY <1>1 DEF Call
  <1>2. ASSUME NEW c \in Client, Return(c) PROVE SignalledHasLed'
    BY <1>2 DEF Return
  <1>3. ASSUME NEW c \in Client, Finish(c) PROVE SignalledHasLed'
    BY <1>3 DEF Finish
  <1>4. ASSUME NEW c \in Client, CancelContext(c) \/ RenewLate(c) PROVE SignalledHasLed'
    BY <1>4 DEF CancelContext, RenewLate
  <1>5. ASSUME NEW c \in Client, Look(c) \/ GiveUp(c) PROVE SignalledHasLed'
    BY <1>5 DEF Look, GiveUp
  <1>6. ASSUME NEW c \in Client, Claim(c) PROVE SignalledHasLed'
    BY <1>6 DEF Claim
  <1>7. ASSUME NEW c \in Client, OnStartedLeading(c) PROVE SignalledHasLed'
    BY <1>7 DEF OnStartedLeading
  <1>8. ASSUME NEW c \in Client, Release(c) PROVE SignalledHasLed'
    BY <1>8 DEF Release, Stops
  <1>9. ASSUME NEW c \in Client, Crash(c) PROVE SignalledHasLed'
    BY <1>9 DEF Crash
  <1>12. ASSUME NEW c \in Client, Exit(c) \/ Arrive(c) PROVE SignalledHasLed'
    BY <1>12 DEF Exit, Arrive
  <1>10. CASE Lapse \/ Expire
    BY <1>10 DEF Lapse, Expire
  <1>11. CASE UNCHANGED vars
    BY <1>11 DEF vars
  <1> QED
    BY <1>1, <1>2, <1>3, <1>4, <1>5, <1>6, <1>7, <1>8, <1>9, <1>10, <1>11, <1>12, Cases

LEMMA StepInv == IndInv /\ [Next]_vars => IndInv'
  BY TypeStep, LeaseStep, SignalStep DEF IndInv, LeaseInv

-----------------------------------------------------------------------------
\* The inductive invariant holds in every reachable state.
THEOREM Inductive == Spec => []IndInv
  BY InitInv, StepInv, PTL DEF Spec

\* The variables of the election keep their types (leaderelection.go:17-87).
THEOREM TypeCorrect == Spec => []TypeOK
  <1>1. IndInv => TypeOK
    BY DEF IndInv
  <1> QED
    BY <1>1, Inductive, PTL

\* WaitForLock only returns after its elector has led (leaderelection.go:23-33).
THEOREM ReturnIsEarned == Spec => []ReturnsOnlyToLeaders
  <1>1. IndInv => ReturnsOnlyToLeaders
    BY DEF IndInv, TypeOK, SignalledHasLed, ReturnsOnlyToLeaders
  <1> QED
    BY <1>1, Inductive, PTL

\* No two electors lead unless a live one was cut off (leaderelection.go:70-86).
THEOREM LeaderIsUnique == Spec => []OneLeader
  <1>1. IndInv => OneLeader
    BY DEF IndInv
  <1> QED
    BY <1>1, Inductive, PTL

\* An expired Lease was left behind by a holder that was killed, cut off, gone
\* with its process, or cancelled in the middle of its claim: one that could still
\* release it has done so (leaderelection.go:70-73).
THEOREM LeaseIsHandedOver == Spec => []ReleasedNotExpired
  <1>1. IndInv => ReleasedNotExpired
    BY DEF IndInv, HolderLeads, ReleasedNotExpired, LeftBehind, TypeOK
  <1> QED
    BY <1>1, Inductive, PTL
=============================================================================
