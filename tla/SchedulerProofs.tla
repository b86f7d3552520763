-------------------------- MODULE SchedulerProofs --------------------------
(***************************************************************************)
(* Theorems about Scheduler, for every set of nodes, every load and every  *)
(* sequence of proposed pods.                                              *)
(***************************************************************************)
EXTENDS Scheduler, TLAPS, FiniteSetTheorems

Placing == pc \in {"place", "fits", "unable"}

\* The loop works on a list of all the nodes, pod after pod.
LoopOrder ==
    /\ pc = "listNodes" => order = <<>>
    /\ pc # "listNodes" /\ pc # "failed" => order \in Orders
    /\ ~Placing => assigned = <<>>
    /\ Len(assigned) <= Len(proposed)
    /\ pc = "fits" => Len(assigned) = Len(proposed)
    /\ pc = "unable" => Len(assigned) < Len(proposed) /\ Candidates(Current) = {}

\* Nodes without a placed pod are as they were read, the others are marked.
Marked ==
    Placing => \A n \in Node :
        \/ infos[n] = seen[n]
        \/ infos[n].unschedulable /\ \E i \in DOMAIN assigned : assigned[i] = n
Used == Placing => \A i \in DOMAIN assigned : infos[assigned[i]].unschedulable

\* Pods that do not tolerate the mark are on nodes of their own, where they fit.
Spread ==
    Plain => /\ IsInjective(assigned)
             /\ \A i \in DOMAIN assigned :
                    Passes(proposed[i], assigned[i], seen[assigned[i]])

\* The inductive invariant.
IndInv == TypeOK /\ LoopOrder /\ Marked /\ Used /\ Spread

-----------------------------------------------------------------------------
LEMMA PlusType == ASSUME NEW a \in Amount, NEW b \in Amount PROVE Plus(a, b) \in Amount
  BY DEF Plus, Amount

LEMMA EmptyType == Empty \in Infos
  BY DEF Empty, Infos, Amount

LEMMA OrderIsSeq == \A o \in Orders : Len(o) = Cardinality(Node) /\ Len(o) \in Nat
                                      /\ o \in Seq(Node) /\ DOMAIN o = 1..Len(o)
<1>1. Cardinality(Node) \in Nat
  BY NodeAssumption, FS_CardinalityType
<1>2. \A o \in Orders : o \in [1..Cardinality(Node) -> Node]
  BY DEF Orders, Bijection, Injection
<1>. QED
  BY <1>1, <1>2

LEMMA CountTo ==
  ASSUME NEW k \in Nat PROVE IsFiniteSet(1..k) /\ Cardinality(1..k) = k
<1>1. /\ IsFiniteSet(1..k)
      /\ Cardinality(1..k) = IF 1 > k THEN 0 ELSE k - 1 + 1
  BY FS_Interval
<1>. QED
  BY <1>1

LEMMA CurrentType ==
  ASSUME TypeOK, Len(assigned) < Len(proposed)
  PROVE  /\ Current \in Pod
         /\ Current = proposed[Len(assigned) + 1]
         /\ Len(assigned) + 1 \in DOMAIN proposed
<1>1. proposed \in Seq(Pod) /\ assigned \in Seq(Node)
  BY ProposalsAssumption DEF TypeOK
<1>. QED
  BY <1>1 DEF Current

LEMMA InitInv == Init => IndInv
<1>. SUFFICES ASSUME Init PROVE IndInv
  OBVIOUS
<1>1. TypeOK
  BY EmptyType, ChangesAssumption DEF Init, TypeOK
<1>2. proposed \in Seq(Pod)
  BY ProposalsAssumption DEF Init
<1>. QED
  BY <1>1, <1>2 DEF Init, IndInv, LoopOrder, Marked, Used, Spread, Placing, IsInjective

LEMMA StepType == IndInv /\ [Next]_vars => TypeOK'
<1>. SUFFICES ASSUME IndInv, [Next]_vars PROVE TypeOK'
  OBVIOUS
<1>. USE DEF IndInv, TypeOK, input
<1>1. ASSUME ListNodes PROVE TypeOK'
  <2>1. seen' \in Infos
    BY <1>1, EmptyType DEF ListNodes, Infos, Empty, NodeState
  <2>2. order = <<>>
    BY <1>1 DEF ListNodes, LoopOrder
  <2>3. read = 0
    BY <2>2
  <2>4. read \in 0..Len(order')
    BY <1>1, <2>3, OrderIsSeq DEF ListNodes
  <2>. QED
    BY <1>1, <2>1, <2>4 DEF ListNodes
<1>2. ASSUME ListPods PROVE TypeOK'
  <2>. DEFINE n == order[read + 1]
  <2>1. order \in Orders
    BY <1>2 DEF ListPods, LoopOrder
  <2>2. n \in Node /\ read + 1 \in 0..Len(order)
    BY <1>2, <2>1, OrderIsSeq DEF ListPods
  <2>3. cluster[n].running \in Amount /\ cluster[n].finished \in Amount
    BY <2>2, AmountAssumption DEF NodeState
  <2>4. Plus(cluster[n].running, cluster[n].finished) \in Amount
    BY <2>3, PlusType
  <2>5. seen' \in Infos
    BY <1>2, <2>2, <2>4 DEF ListPods, Infos
  <2>. QED
    BY <1>2, <2>2, <2>5 DEF ListPods
<1>3. ASSUME Listed PROVE TypeOK'
  BY <1>3 DEF Listed
<1>4. ASSUME ListFails PROVE TypeOK'
  BY <1>4 DEF ListFails
<1>5. ASSUME Place PROVE TypeOK'
  <2>1. PICK i \in Candidates(Current) :
           /\ infos' = [infos EXCEPT ![order[i]] = WithPod(@, Current)]
           /\ assigned' = Append(assigned, order[i])
    BY <1>5 DEF Place
  <2>2. order \in Orders /\ i \in DOMAIN order
    BY <1>5, <2>1 DEF Place, LoopOrder, Candidates
  <2>3. order[i] \in Node
    BY <2>2, OrderIsSeq
  <2>4. Current.request \in Amount
    BY <1>5, CurrentType DEF Place, Pod
  <2>5. Plus(infos[order[i]].used, Current.request) \in Amount
    BY <2>3, <2>4, PlusType DEF Infos
  <2>6. infos' \in Infos
    BY <2>1, <2>3, <2>5 DEF Infos, WithPod
  <2>. QED
    BY <1>5, <2>1, <2>3, <2>6 DEF Place
<1>6. ASSUME Unable PROVE TypeOK'
  BY <1>6 DEF Unable
<1>7. ASSUME Fits PROVE TypeOK'
  BY <1>7 DEF Fits
<1>8. ASSUME NEW n \in Node, Change(n) PROVE TypeOK'
  BY <1>8, ChangesAssumption DEF Change
<1>9. CASE UNCHANGED vars
  BY <1>9 DEF vars
<1>. QED
  BY <1>1, <1>2, <1>3, <1>4, <1>5, <1>6, <1>7, <1>8, <1>9 DEF Next

-----------------------------------------------------------------------------
(* A placement keeps the loop's invariants. *)

LEMMA PlaceInv ==
  ASSUME IndInv, Place PROVE LoopOrder' /\ Marked' /\ Used' /\ Spread'
<1>1. PICK i \in Candidates(Current) :
         /\ infos' = [infos EXCEPT ![order[i]] = WithPod(@, Current)]
         /\ assigned' = Append(assigned, order[i])
  BY DEF Place
<1>. DEFINE n == order[i]
            k == Len(assigned) + 1
<1>2. pc = "place" /\ Placing /\ order \in Orders /\ Len(assigned) < Len(proposed)
  BY DEF Place, IndInv, LoopOrder, Placing
<1>3. n \in Node /\ Passes(Current, n, infos[n])
  BY <1>1, <1>2, OrderIsSeq DEF Candidates
<1>4. UNCHANGED <<cluster, changes, pc, proposed, order, read, seen>>
  BY DEF Place, input
<1>5. assigned \in Seq(Node) /\ proposed \in Seq(Pod) /\ infos \in Infos /\ seen \in Infos
  BY ProposalsAssumption DEF IndInv, TypeOK
<1>6. Current = proposed[k] /\ k \in DOMAIN proposed
  BY <1>2, CurrentType DEF IndInv
<1>7. /\ DOMAIN assigned' = 1..k /\ DOMAIN assigned = 1..Len(assigned)
      /\ k \in DOMAIN assigned' /\ assigned'[k] = n /\ Len(assigned') = k
      /\ \A j \in DOMAIN assigned : assigned'[j] = assigned[j] /\ j \in DOMAIN assigned'
      /\ \A j \in DOMAIN assigned' : j # k => j \in DOMAIN assigned
  BY <1>1, <1>3, <1>5
<1>8. infos'[n].unschedulable /\ \A m \in Node : m # n => infos'[m] = infos[m]
  BY <1>1, <1>3, <1>5 DEF Infos, WithPod
<1>. HIDE DEF n, k
<1>9. LoopOrder'
  <2>1. k \in Nat /\ k <= Len(proposed)
    BY <1>2, <1>5 DEF k
  <2>. QED
    BY <1>2, <1>4, <1>7, <2>1 DEF LoopOrder, Placing, Place
<1>10. Marked'
  <2>. SUFFICES ASSUME NEW m \in Node
                PROVE  \/ infos'[m] = seen[m]
                       \/ /\ infos'[m].unschedulable
                          /\ \E j \in DOMAIN assigned' : assigned'[j] = m
    BY <1>4 DEF Marked
  <2>1. CASE m = n
    BY <1>7, <1>8, <2>1
  <2>2. CASE m # n
    <3>1. \/ infos[m] = seen[m]
          \/ infos[m].unschedulable /\ \E j \in DOMAIN assigned : assigned[j] = m
      BY <1>2 DEF Marked, IndInv
    <3>. QED
      BY <1>7, <1>8, <2>2, <3>1
  <2>. QED
    BY <2>1, <2>2
<1>11. Used'
  <2>. SUFFICES ASSUME NEW j \in DOMAIN assigned' PROVE infos'[assigned'[j]].unschedulable
    BY DEF Used
  <2>1. CASE j = k
    BY <2>1, <1>7, <1>8
  <2>2. CASE j # k
    <3>1. assigned'[j] \in Node /\ infos[assigned'[j]].unschedulable
      BY <1>2, <1>5, <1>7, <2>2 DEF IndInv, Used
    <3>. QED
      BY <1>8, <3>1
  <2>. QED
    BY <2>1, <2>2
<1>12. Spread'
  <2>. SUFFICES ASSUME Plain
                PROVE  /\ IsInjective(assigned')
                       /\ \A j \in DOMAIN assigned' :
                             Passes(proposed[j], assigned'[j], seen[assigned'[j]])
    BY <1>4 DEF Spread, Plain, Passes, ResourcesFit
  <2>1. ~infos[n].unschedulable
    BY <1>3, <1>6 DEF Passes, Plain
  <2>2. \A j \in DOMAIN assigned : assigned[j] # n
    BY <1>2, <2>1 DEF IndInv, Used
  <2>3. infos[n] = seen[n]
    BY <1>2, <1>3, <2>1 DEF IndInv, Marked
  <2>4. IsInjective(assigned')
    BY <1>7, <2>2 DEF IsInjective, IndInv, Spread
  <2>5. \A j \in DOMAIN assigned' : Passes(proposed[j], assigned'[j], seen[assigned'[j]])
    BY <1>3, <1>6, <1>7, <2>3 DEF IndInv, Spread
  <2>. QED
    BY <2>4, <2>5
<1>. QED
  BY <1>9, <1>10, <1>11, <1>12

LEMMA StepInv == IndInv /\ [Next]_vars => IndInv'
<1>. SUFFICES ASSUME IndInv, [Next]_vars PROVE LoopOrder' /\ Marked' /\ Used' /\ Spread'
  BY StepType DEF IndInv
<1>. USE DEF IndInv, LoopOrder, Marked, Used, Spread, Placing, input
<1>0. assigned = <<>> => Len(assigned) = 0 /\ DOMAIN assigned = {}
  OBVIOUS
<1>1. CASE ListNodes
  BY <1>0, <1>1 DEF ListNodes, Plain, IsInjective
<1>2. CASE ListPods
  BY <1>0, <1>2 DEF ListPods, Plain, IsInjective
<1>3. CASE Listed
  BY <1>0, <1>3 DEF Listed, Plain, IsInjective
<1>4. CASE ListFails
  BY <1>0, <1>4 DEF ListFails, Plain, IsInjective
<1>5. CASE Place
  BY <1>5, PlaceInv
<1>6. CASE Unable
  BY <1>6 DEF Unable, Plain, Candidates, Current, Passes, ResourcesFit
<1>7. CASE Fits
  BY <1>7 DEF Fits, Plain, Passes, ResourcesFit
<1>8. ASSUME NEW n \in Node, Change(n) PROVE LoopOrder' /\ Marked' /\ Used' /\ Spread'
  BY <1>8 DEF Change, Plain, Candidates, Current, Passes, ResourcesFit
<1>9. CASE UNCHANGED vars
  BY <1>9 DEF vars, Plain, Candidates, Current, Passes, ResourcesFit
<1>. QED
  BY <1>1, <1>2, <1>3, <1>4, <1>5, <1>6, <1>7, <1>8, <1>9 DEF Next

-----------------------------------------------------------------------------
(* Theorems. *)

\* The invariant holds in every reachable state (fit.go:20-188).
THEOREM Inductive == Spec => []IndInv
  BY InitInv, StepInv, PTL DEF Spec

\* Every variable keeps its type.
THEOREM TypeCorrect == Spec => []TypeOK
<1>1. IndInv => TypeOK
  BY DEF IndInv
<1>. QED
  BY <1>1, Inductive, PTL

\* A positive answer is right: the pods have nodes of their own on the snapshot
\* (fit.go:157-187).
THEOREM FitsIsSound == Spec => []FitsMeansSchedulable
<1>1. IndInv => FitsMeansSchedulable
  <2>. SUFFICES ASSUME IndInv, pc = "fits", Plain PROVE Schedulable
    BY DEF FitsMeansSchedulable
  <2>1. assigned \in Seq(Node) /\ proposed \in Seq(Pod) /\ Len(assigned) = Len(proposed)
    BY ProposalsAssumption DEF IndInv, TypeOK, LoopOrder
  <2>2. DOMAIN assigned = DOMAIN proposed /\ assigned \in [DOMAIN proposed -> Node]
    BY <2>1
  <2>3. assigned \in Injection(DOMAIN proposed, Node)
    BY <2>2 DEF Injection, IndInv, Spread
  <2>. QED
    BY <2>2, <2>3 DEF Schedulable, IndInv, Spread
<1>. QED
  BY <1>1, Inductive, PTL

\* For identical pods a negative answer is right as well: every node that could
\* take one has one, and there are more pods than those (fit.go:184-185).
THEOREM UnableIsSound == Spec => []UnableMeansUnschedulable
<1>1. IndInv => UnableMeansUnschedulable
  <2>. SUFFICES ASSUME IndInv, pc = "unable", Plain, Identical,
                       NEW f \in Injection(DOMAIN proposed, Node),
                       \A i \in DOMAIN proposed : Passes(proposed[i], f[i], seen[f[i]])
                PROVE  FALSE
    BY DEF UnableMeansUnschedulable, Schedulable
  <2>. DEFINE taken == {assigned[i] : i \in DOMAIN assigned}
  <2>1. /\ assigned \in Seq(Node) /\ proposed \in Seq(Pod)
        /\ Len(assigned) < Len(proposed) /\ Candidates(Current) = {}
        /\ order \in Orders
    BY ProposalsAssumption DEF IndInv, TypeOK, LoopOrder
  <2>2. Len(assigned) \in Nat /\ Len(proposed) \in Nat
        /\ DOMAIN proposed = 1..Len(proposed) /\ DOMAIN assigned = 1..Len(assigned)
    BY <2>1
  <2>3. f \in [DOMAIN proposed -> Node] /\ IsInjective(f)
    BY DEF Injection
  <2>4. \A i \in DOMAIN proposed : f[i] \in taken
    <3>. SUFFICES ASSUME NEW i \in DOMAIN proposed, f[i] \notin taken PROVE FALSE
      OBVIOUS
    <3>1. f[i] \in Node /\ infos[f[i]] = seen[f[i]]
      BY <2>3 DEF IndInv, Marked, Placing
    <3>2. proposed[i] = Current
      BY <2>1, CurrentType DEF IndInv, Identical
    <3>3. PICK j \in DOMAIN order : order[j] = f[i]
      BY <2>1, <3>1 DEF Orders, Bijection, Surjection
    <3>4. j \in Candidates(Current)
      BY <3>1, <3>2, <3>3 DEF Candidates
    <3>. QED
      BY <2>1, <3>4
  <2>5. Cardinality(taken) <= Len(assigned) /\ IsFiniteSet(taken)
    <3>1. assigned \in Surjection(1..Len(assigned), taken)
      <4>1. /\ \A i \in 1..Len(assigned) : assigned[i] \in taken
            /\ \A t \in taken : \E i \in 1..Len(assigned) : assigned[i] = t
        BY <2>2
      <4>2. assigned \in [1..Len(assigned) -> taken]
        BY <2>1, <2>2, <4>1
      <4>. HIDE DEF taken
      <4>. QED
        BY <4>1, <4>2 DEF Surjection
    <3>2. IsFiniteSet(1..Len(assigned)) /\ Cardinality(1..Len(assigned)) = Len(assigned)
      BY <2>2, CountTo
    <3>. HIDE DEF taken
    <3>. QED
      BY <3>1, <3>2, FS_Surjection
  <2>6. Len(proposed) <= Cardinality(taken)
    <3>1. f \in Injection(1..Len(proposed), taken)
      <4>. HIDE DEF taken
      <4>1. f \in [1..Len(proposed) -> taken]
        BY <2>2, <2>3, <2>4
      <4>. QED
        BY <2>3, <4>1 DEF Injection
    <3>2. Cardinality(1..Len(proposed)) = Len(proposed)
      BY <2>2, CountTo
    <3>. HIDE DEF taken
    <3>. QED
      BY <3>1, <3>2, <2>5, FS_Injection
  <2>7. Cardinality(taken) \in Nat
    BY <2>5, FS_CardinalityType
  <2>. QED
    BY <2>1, <2>2, <2>5, <2>6, <2>7
<1>. QED
  BY <1>1, Inductive, PTL
-----------------------------------------------------------------------------
(* What a node is promised. *)

\* What the recursion in Promised defines: sums of the requests that went to n.
Sums(sum, n, r) ==
    sum = [i \in 0..Len(assigned) |->
              IF i = 0 THEN seen[n].used[r]
              ELSE sum[i - 1] + IF assigned[i] = n THEN proposed[i].request[r] ELSE 0]

\* There are such sums, and they end with what the loop has counted.
Tally ==
    Placing => \A n \in Node, r \in Resource :
        /\ \E sum : Sums(sum, n, r)
        /\ \A sum : Sums(sum, n, r) => sum[Len(assigned)] = infos[n].used[r]
\* What is counted for a resource of a node is within what is allocatable, if a pod on
\* the node asked for any.
Within ==
    Placing => \A i \in DOMAIN assigned, r \in Resource :
        proposed[i].request[r] > 0 => infos[assigned[i]].used[r] <= Alloc[assigned[i]][r]
RoomInv == Tally /\ Within

LEMMA TallyPlace ==
  ASSUME IndInv, Tally, Place PROVE Tally'
<1>. DEFINE k == Len(assigned) + 1
<1>1. PICK c \in Candidates(Current) :
         /\ infos' = [infos EXCEPT ![order[c]] = WithPod(@, Current)]
         /\ assigned' = Append(assigned, order[c])
  BY DEF Place
<1>2. /\ pc = "place" /\ Placing /\ order \in Orders /\ Len(assigned) < Len(proposed)
      /\ seen' = seen /\ proposed' = proposed
  BY DEF Place, IndInv, LoopOrder, Placing, input
<1>3. /\ assigned \in Seq(Node) /\ infos \in Infos /\ seen \in Infos
      /\ Current \in Pod /\ Current = proposed[k]
  BY <1>2, CurrentType DEF IndInv, TypeOK
<1>4. order[c] \in Node
  BY <1>1, <1>2, OrderIsSeq DEF Candidates
<1>5. /\ Len(assigned) \in Nat /\ Len(assigned') = k /\ assigned'[k] = order[c]
      /\ \A i \in 1..Len(assigned) : assigned'[i] = assigned[i]
  BY <1>1, <1>3, <1>4
<1>6. SUFFICES ASSUME NEW n \in Node, NEW r \in Resource
               PROVE  /\ \E sum : Sums(sum, n, r)'
                      /\ \A sum : Sums(sum, n, r)' => sum[k] = infos'[n].used[r]
  BY <1>5 DEF Tally
<1>. DEFINE more == IF order[c] = n THEN Current.request[r] ELSE 0
<1>7. infos'[n].used[r] = infos[n].used[r] + more
  BY <1>1, <1>3, <1>4 DEF WithPod, Plus, Infos, Amount, Pod
<1>8. \A sum : Sums(sum, n, r)' <=>
        sum = [i \in 0..k |->
                 IF i = 0 THEN seen[n].used[r]
                 ELSE sum[i - 1] + IF assigned'[i] = n THEN proposed[i].request[r] ELSE 0]
  BY <1>2, <1>5 DEF Sums
<1>9. PICK before : Sums(before, n, r)
  BY <1>2 DEF Tally
<1>10. \E sum : Sums(sum, n, r)'
  <2>. DEFINE sum == [i \in 0..k |-> IF i = k THEN before[Len(assigned)] + more ELSE before[i]]
  <2>1. \A i \in 0..k :
           sum[i] = IF i = 0 THEN seen[n].used[r]
                    ELSE sum[i - 1] + IF assigned'[i] = n THEN proposed[i].request[r] ELSE 0
    <3>. SUFFICES ASSUME NEW i \in 0..k
                  PROVE  sum[i] = IF i = 0 THEN seen[n].used[r]
                                  ELSE sum[i - 1] + IF assigned'[i] = n THEN proposed[i].request[r] ELSE 0
      OBVIOUS
    <3>1. CASE i = k
      <4>1. /\ i # 0 /\ i - 1 = Len(assigned) /\ i - 1 \in 0..k /\ i - 1 # k
            /\ assigned'[i] = order[c] /\ proposed[i] = Current
        BY <1>3, <1>5, <3>1
      <4>2. sum[i - 1] = before[Len(assigned)] /\ sum[i] = before[Len(assigned)] + more
        BY <3>1, <4>1
      <4>. QED
        BY <4>1, <4>2
    <3>2. CASE i \in 0..Len(assigned)
      <4>1. before[i] = IF i = 0 THEN seen[n].used[r]
                        ELSE before[i - 1] + IF assigned[i] = n THEN proposed[i].request[r] ELSE 0
        BY <1>9, <3>2 DEF Sums
      <4>. QED
        BY <1>5, <3>2, <4>1
    <3>. QED
      BY <1>5, <3>1, <3>2
  <2>2. sum = [i \in 0..k |-> sum[i]]
    OBVIOUS
  <2>. HIDE DEF sum
  <2>3. sum = [i \in 0..k |->
                 IF i = 0 THEN seen[n].used[r]
                 ELSE sum[i - 1] + IF assigned'[i] = n THEN proposed[i].request[r] ELSE 0]
    BY <2>1, <2>2
  <2>. QED
    BY <1>8, <2>3
<1>11. ASSUME NEW sum, Sums(sum, n, r)' PROVE sum[k] = infos'[n].used[r]
  <2>. DEFINE prior == [i \in 0..Len(assigned) |-> sum[i]]
  <2>1. sum = [i \in 0..k |->
                 IF i = 0 THEN seen[n].used[r]
                 ELSE sum[i - 1] + IF assigned'[i] = n THEN proposed[i].request[r] ELSE 0]
    BY <1>8, <1>11
  <2>2. \A i \in 0..Len(assigned) :
           prior[i] = IF i = 0 THEN seen[n].used[r]
                      ELSE prior[i - 1] + IF assigned[i] = n THEN proposed[i].request[r] ELSE 0
    BY <1>5, <2>1
  <2>3. Sums(prior, n, r)
    BY <2>2 DEF Sums
  <2>4. prior[Len(assigned)] = infos[n].used[r]
    BY <1>2, <2>3 DEF Tally
  <2>5. sum[k] = sum[Len(assigned)] + more
    BY <1>3, <1>5, <2>1
  <2>. QED
    BY <1>5, <1>7, <2>4, <2>5
<1>. QED
  BY <1>10, <1>11

LEMMA WithinPlace ==
  ASSUME IndInv, Within, Place PROVE Within'
<1>. DEFINE k == Len(assigned) + 1
<1>1. PICK c \in Candidates(Current) :
         /\ infos' = [infos EXCEPT ![order[c]] = WithPod(@, Current)]
         /\ assigned' = Append(assigned, order[c])
  BY DEF Place
<1>2. /\ Placing /\ order \in Orders /\ Len(assigned) < Len(proposed) /\ proposed' = proposed
  BY DEF Place, IndInv, LoopOrder, Placing, input
<1>3. /\ assigned \in Seq(Node) /\ infos \in Infos
      /\ Current \in Pod /\ Current = proposed[k]
  BY <1>2, CurrentType DEF IndInv, TypeOK
<1>. DEFINE n == order[c]
<1>4. n \in Node /\ ResourcesFit(Current, n, infos[n].used)
  BY <1>1, <1>2, OrderIsSeq DEF Candidates, Passes
<1>5. /\ DOMAIN assigned' = 1..k /\ assigned'[k] = n
      /\ \A i \in DOMAIN assigned' : i # k => i \in DOMAIN assigned /\ assigned'[i] = assigned[i]
  BY <1>1, <1>3, <1>4
<1>6. SUFFICES ASSUME NEW i \in DOMAIN assigned', NEW r \in Resource, proposed[i].request[r] > 0
               PROVE  infos'[assigned'[i]].used[r] <= Alloc[assigned'[i]][r]
  BY <1>2 DEF Within
<1>7. infos'[n].used[r] = infos[n].used[r] + Current.request[r]
  BY <1>1, <1>3, <1>4 DEF WithPod, Plus, Infos
<1>8. infos[n].used[r] \in Nat /\ Current.request[r] \in Nat /\ Alloc[n][r] \in Nat
  BY <1>3, <1>4, AmountAssumption DEF Infos, Pod, Amount
<1>9. CASE assigned'[i] # n
  <2>1. i \in DOMAIN assigned /\ assigned'[i] = assigned[i]
    BY <1>5, <1>9
  <2>2. assigned[i] \in Node
    BY <1>3, <2>1
  <2>3. infos'[assigned[i]] = infos[assigned[i]]
    BY <1>1, <1>3, <1>9, <2>1, <2>2 DEF Infos
  <2>. QED
    BY <1>2, <1>6, <2>1, <2>3 DEF Within
<1>10. CASE assigned'[i] = n /\ Current.request[r] > 0
  BY <1>4, <1>7, <1>10 DEF ResourcesFit
<1>11. CASE assigned'[i] = n /\ Current.request[r] = 0
  <2>1. i # k
    BY <1>3, <1>6, <1>11
  <2>2. i \in DOMAIN assigned /\ assigned[i] = n
    BY <1>5, <1>11, <2>1
  <2>3. infos[n].used[r] <= Alloc[n][r]
    BY <1>2, <1>6, <2>2 DEF Within
  <2>. QED
    BY <1>7, <1>8, <1>11, <2>3
<1>. QED
  BY <1>8, <1>9, <1>10, <1>11

LEMMA RoomStep == IndInv /\ RoomInv /\ [Next]_vars => RoomInv'
<1>. SUFFICES ASSUME IndInv, RoomInv, [Next]_vars PROVE Tally' /\ Within'
  BY DEF RoomInv
<1>. USE DEF RoomInv, Placing, input
<1>1. CASE ListNodes \/ ListPods \/ ListFails
  BY <1>1 DEF ListNodes, ListPods, ListFails, Tally, Within
<1>2. CASE Listed
  <2>1. assigned = <<>> /\ assigned' = <<>> /\ infos' = seen /\ seen' = seen
    BY <1>2 DEF Listed, IndInv, LoopOrder
  <2>2. Within'
    BY <2>1 DEF Within
  <2>3. ASSUME NEW n \in Node, NEW r \in Resource
        PROVE  \A sum : Sums(sum, n, r)' <=> sum = [i \in {0} |-> seen[n].used[r]]
    <3>1. Len(assigned') = 0 /\ 0..0 = {0}
      BY <2>1
    <3>2. \A sum : Sums(sum, n, r)' <=>
             sum = [i \in {0} |->
                      IF i = 0 THEN seen[n].used[r]
                      ELSE sum[i - 1] + IF assigned'[i] = n THEN proposed'[i].request[r] ELSE 0]
      BY <2>1, <3>1 DEF Sums
    <3>3. \A sum : [i \in {0} |->
                      IF i = 0 THEN seen[n].used[r]
                      ELSE sum[i - 1] + IF assigned'[i] = n THEN proposed'[i].request[r] ELSE 0]
                  = [i \in {0} |-> seen[n].used[r]]
      OBVIOUS
    <3>. QED
      BY <3>2, <3>3
  <2>4. ASSUME NEW n \in Node, NEW r \in Resource
        PROVE  /\ \E sum : Sums(sum, n, r)'
               /\ \A sum : Sums(sum, n, r)' => sum[Len(assigned')] = infos'[n].used[r]
    <3>1. \E sum : Sums(sum, n, r)'
      BY <2>3
    <3>2. ASSUME NEW sum, Sums(sum, n, r)' PROVE sum[Len(assigned')] = infos'[n].used[r]
      <4>1. sum = [i \in {0} |-> seen[n].used[r]]
        BY <2>3, <3>2
      <4>2. sum[0] = seen[n].used[r]
        BY <4>1
      <4>. QED
        BY <2>1, <4>2
    <3>. QED
      BY <3>1, <3>2
  <2>5. Tally'
    BY <2>4 DEF Tally
  <2>. QED
    BY <2>2, <2>5
<1>3. CASE Place
  BY <1>3, TallyPlace, WithinPlace
<1>4. CASE Unable \/ Fits \/ (\E n \in Node : Change(n)) \/ UNCHANGED vars
  <2>1. /\ UNCHANGED <<proposed, seen, infos, assigned>>
        /\ Placing' = Placing
    BY <1>4 DEF Unable, Fits, Change, vars
  <2>2. \A n, r, sum : Sums(sum, n, r)' <=> Sums(sum, n, r)
    BY <2>1 DEF Sums
  <2>. HIDE DEF Placing
  <2>. QED
    BY <2>1, <2>2 DEF Tally, Within
<1>. QED
  BY <1>1, <1>2, <1>3, <1>4 DEF Next

\* No node is promised more of a resource than it has, also when pods that tolerate the
\* mark share it: what the pods of the list use and what those placed ask for stays within
\* what is allocatable (fit.go:157-179).
THEOREM RoomIsKept == Spec => []NeverOvercommitted
<1>1. Init => RoomInv
  BY DEF Init, RoomInv, Tally, Within, Placing
<1>2. IndInv /\ RoomInv => NeverOvercommitted
  <2>. SUFFICES ASSUME IndInv, RoomInv, NEW i \in DOMAIN assigned, NEW r \in Resource,
                       proposed[i].request[r] > 0
                PROVE  Promised(assigned[i], r) <= Alloc[assigned[i]][r]
    BY DEF NeverOvercommitted
  <2>1. Placing /\ assigned[i] \in Node
    BY DEF IndInv, TypeOK, LoopOrder
  <2>. DEFINE n == assigned[i]
              sum == CHOOSE sum : Sums(sum, n, r)
  <2>2. Promised(n, r) = sum[Len(assigned)]
    BY DEF Promised, Sums
  <2>3. Sums(sum, n, r)
    BY <2>1 DEF RoomInv, Tally
  <2>4. sum[Len(assigned)] = infos[n].used[r]
    <3>. HIDE DEF sum
    <3>. QED
      BY <2>1, <2>3 DEF RoomInv, Tally
  <2>. QED
    BY <2>1, <2>2, <2>4 DEF RoomInv, Within
<1>. QED
  BY <1>1, <1>2, RoomStep, Inductive, PTL DEF Spec

=============================================================================
