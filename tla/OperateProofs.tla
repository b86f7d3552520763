--------------------------- MODULE OperateProofs ---------------------------
(***************************************************************************)
(* Theorems about Operate, for every set of commands and every bound.      *)
(***************************************************************************)
EXTENDS Operate, TLAPS

\* What a command is about to write back is an earlier state of the datacenter,
\* or the present one if the resourceVersion says so.
ReadIsPast ==
    \A c \in Command : pc[c] = "update" =>
        /\ got[c] \in Datacenter
        /\ got[c].rv <= dc.rv
        /\ got[c].rv = dc.rv => got[c].edits = dc.edits

\* A command that waits on its own write finds it in place; what it has seen
\* stays as it was.
Settling ==
    \A c \in Command : writer = c =>
        /\ pc[c] \in {"pollStopped", "pollReady"} => dc.stopped = Stops(c)
        /\ pc[c] = "pollReady" => dc.Stopped = Stops(c)

\* The inductive invariant.
IndInv == TypeOK /\ ReadIsPast /\ Settling

-----------------------------------------------------------------------------
\* Write moves the resourceVersion forward and writes the rest as it is given.
LEMMA WriteSpec ==
  ASSUME dc \in Datacenter, NEW new \in Datacenter, new.rv = dc.rv, Write(new)
  PROVE  /\ dc' \in Datacenter
         /\ dc' = dc \/ dc'.rv > dc.rv
         /\ dc'.stopped = new.stopped /\ dc'.edits = new.edits
         /\ dc'.Stopped = new.Stopped /\ dc'.Ready = new.Ready
<1>1. CASE new = dc
  BY <1>1 DEF Write
<1>2. CASE new # dc
  <2>1. dc' = [new EXCEPT !.rv = dc.rv + 1]
    BY <1>2 DEF Write
  <2>2. dc.rv \in Nat
    BY DEF Datacenter
  <2>. QED
    BY <2>1, <2>2 DEF Datacenter
<1>. QED
  BY <1>1, <1>2

\* What the command sends differs from the datacenter in spec.stopped only.
LEMMA SentSpec ==
  ASSUME IndInv, NEW c \in Command, pc[c] = "update"
  PROVE  /\ Sent(c) \in Datacenter /\ Sent(c).rv = dc.rv
         /\ Sent(c).stopped = Stops(c) /\ Sent(c).edits = got[c].edits
         /\ Sent(c).Stopped = dc.Stopped
<1>1. dc \in Datacenter /\ got[c] \in Datacenter /\ Stops(c) \in BOOLEAN
  BY DEF IndInv, TypeOK, ReadIsPast, Stops
<1>. QED
  BY <1>1 DEF Sent, Datacenter

LEMMA InitInv == Init => IndInv
<1>. SUFFICES ASSUME Init PROVE IndInv
  OBVIOUS
<1>. QED
  BY BoundAssumption DEF Init, IndInv, TypeOK, ReadIsPast, Settling, Datacenter

\* The steps that write the datacenter, and how they leave it.
OwnWrite(c) ==
    /\ pc[c] = "update" /\ got[c].rv = dc.rv
    /\ Write(Sent(c))
    /\ writer' = c
    /\ pc' \in {[pc EXCEPT ![c] = "pollStopped"], [pc EXCEPT ![c] = "ok"],
                [pc EXCEPT ![c] = "error"]}
    /\ UNCHANGED <<task, got>>
ReportOrEdit ==
    /\ \/ Write([dc EXCEPT !.Stopped = dc.stopped])
       \/ \E r \in BOOLEAN : Write([dc EXCEPT !.Ready = r])
       \/ Write([dc EXCEPT !.edits = @ + 1])
    /\ UNCHANGED <<writer, task, pc, got>>

LEMMA StepKinds ==
  ASSUME IndInv, [Next]_vars
  PROVE  \/ \E c \in Command : OwnWrite(c)
         \/ ReportOrEdit
         \/ dc' = dc /\ writer' = writer
<1>. USE DEF bounds
<1>1. ASSUME NEW c \in Command, Update(c) PROVE OwnWrite(c) \/ (dc' = dc /\ writer' = writer)
  BY <1>1 DEF Update, Updated, OwnWrite, Goto
<1>2. ASSUME NEW c \in Command, CallFails(c) PROVE OwnWrite(c) \/ (dc' = dc /\ writer' = writer)
  BY <1>2 DEF CallFails, OwnWrite, Goto
<1>3. ReportStopped \/ Edit => ReportOrEdit
  BY DEF ReportStopped, Edit, ReportOrEdit
<1>4. ReportReady \/ Flap => ReportOrEdit
  <2>1. (~dc.stopped) \in BOOLEAN
    BY Zenon DEF IndInv, TypeOK, Datacenter
  <2>. QED
    BY <2>1 DEF ReportReady, Flap, ReportOrEdit
<1>. QED
  BY <1>1, <1>2, <1>3, <1>4
  DEF Next, Call, Operator, vars, Start, Validate, Get, Create, PollStopped, PollReady,
      PollTask, Timeout, EndTask

\* What a report or an edit does.
LEMMA ReportSpec ==
  ASSUME dc \in Datacenter, ReportOrEdit
  PROVE  /\ dc' \in Datacenter /\ (dc' = dc \/ dc'.rv > dc.rv)
         /\ dc'.stopped = dc.stopped /\ dc'.edits >= dc.edits
         /\ dc'.Stopped \in {dc.Stopped, dc.stopped}
<1>1. CASE Write([dc EXCEPT !.Stopped = dc.stopped])
  <2>. DEFINE new == [dc EXCEPT !.Stopped = dc.stopped]
  <2>1. new \in Datacenter /\ new.rv = dc.rv /\ new.stopped = dc.stopped
        /\ new.edits = dc.edits /\ new.Stopped = dc.stopped /\ dc.edits \in Nat
    BY DEF Datacenter
  <2>. HIDE DEF new
  <2>2. Write(new)
    BY <1>1 DEF new
  <2>. QED
    BY <2>1, <2>2, WriteSpec
<1>2. ASSUME NEW r \in BOOLEAN, Write([dc EXCEPT !.Ready = r])
      PROVE  /\ dc' \in Datacenter /\ (dc' = dc \/ dc'.rv > dc.rv)
             /\ dc'.stopped = dc.stopped /\ dc'.edits >= dc.edits
             /\ dc'.Stopped \in {dc.Stopped, dc.stopped}
  <2>. DEFINE new == [dc EXCEPT !.Ready = r]
  <2>1. new \in Datacenter /\ new.rv = dc.rv /\ new.stopped = dc.stopped
        /\ new.edits = dc.edits /\ new.Stopped = dc.Stopped /\ dc.edits \in Nat
    BY DEF Datacenter
  <2>. HIDE DEF new
  <2>2. Write(new)
    BY <1>2 DEF new
  <2>. QED
    BY <2>1, <2>2, WriteSpec
<1>3. CASE Write([dc EXCEPT !.edits = @ + 1])
  <2>. DEFINE new == [dc EXCEPT !.edits = @ + 1]
  <2>1. new \in Datacenter /\ new.rv = dc.rv /\ new.stopped = dc.stopped
        /\ new.edits >= dc.edits /\ new.Stopped = dc.Stopped
    BY DEF Datacenter
  <2>. HIDE DEF new
  <2>2. Write(new)
    BY <1>3 DEF new
  <2>. QED
    BY <2>1, <2>2, WriteSpec
<1>. QED
  BY <1>1, <1>2, <1>3 DEF ReportOrEdit

\* No step takes the datacenter back.
LEMMA DcStep ==
  ASSUME IndInv, [Next]_vars
  PROVE  /\ dc' \in Datacenter /\ (dc' = dc \/ dc'.rv > dc.rv)
         /\ dc'.edits >= dc.edits
         /\ writer' \in Command \cup {NoRead}
<1>1. dc \in Datacenter /\ dc.edits \in Nat /\ writer \in Command \cup {NoRead}
  BY DEF IndInv, TypeOK, Datacenter
<1>2. ASSUME NEW c \in Command, OwnWrite(c)
      PROVE  /\ dc' \in Datacenter /\ (dc' = dc \/ dc'.rv > dc.rv)
             /\ dc'.edits >= dc.edits
             /\ writer' \in Command \cup {NoRead}
  <2>1. got[c].edits = dc.edits
    BY <1>2 DEF OwnWrite, IndInv, ReadIsPast
  <2>. QED
    BY <1>1, <1>2, <2>1, SentSpec, WriteSpec DEF OwnWrite
<1>3. CASE ReportOrEdit
  BY <1>1, <1>3, ReportSpec DEF ReportOrEdit
<1>4. CASE dc' = dc /\ writer' = writer
  BY <1>1, <1>4
<1>. QED
  BY <1>2, <1>3, <1>4, StepKinds

LEMMA TypeStep == IndInv /\ [Next]_vars => TypeOK'
<1>. SUFFICES ASSUME IndInv, [Next]_vars PROVE TypeOK'
  OBVIOUS
<1>. USE BoundAssumption DEF IndInv, TypeOK, bounds, Goto, Active, Ended, Polls
<1>0. dc' \in Datacenter /\ writer' \in Command \cup {NoRead}
  BY DcStep
<1>1. ASSUME NEW c \in Command, Start(c) PROVE TypeOK'
  BY <1>1 DEF Start
<1>2. ASSUME NEW c \in Command, Validate(c) PROVE TypeOK'
  BY <1>2 DEF Validate
<1>3. ASSUME NEW c \in Command, Get(c) PROVE TypeOK'
  BY <1>3, NoReadAssumption DEF Get
<1>4. ASSUME NEW c \in Command, Update(c) PROVE TypeOK'
  BY <1>0, <1>4 DEF Update, Updated
<1>5. ASSUME NEW c \in Command, Create(c) PROVE TypeOK'
  BY <1>5 DEF Create
<1>6. ASSUME NEW c \in Command, PollStopped(c) \/ PollReady(c) \/ PollTask(c) PROVE TypeOK'
  BY <1>6 DEF PollStopped, PollReady, PollTask
<1>7. ASSUME NEW c \in Command, Timeout(c) PROVE TypeOK'
  BY <1>7 DEF Timeout
<1>8. ASSUME NEW c \in Command, CallFails(c) PROVE TypeOK'
  BY <1>0, <1>8 DEF CallFails
<1>9. ASSUME NEW c \in Command, EndTask(c, "completed") \/ EndTask(c, "failed") PROVE TypeOK'
  BY <1>9 DEF EndTask
<1>10. CASE ReportStopped \/ ReportReady \/ Edit
  BY <1>0, <1>10 DEF ReportStopped, ReportReady, Edit
<1>11. CASE Flap
  BY <1>0, <1>11 DEF Flap
<1>12. CASE UNCHANGED vars
  BY <1>12 DEF vars
<1>. QED
  BY <1>1, <1>2, <1>3, <1>4, <1>5, <1>6, <1>7, <1>8, <1>9, <1>10, <1>11, <1>12
  DEF Next, Call, Operator

LEMMA ReadStep == IndInv /\ [Next]_vars => ReadIsPast'
<1>. SUFFICES ASSUME IndInv, [Next]_vars, NEW c \in Command, pc'[c] = "update"
              PROVE  /\ got'[c] \in Datacenter
                     /\ got'[c].rv <= dc'.rv
                     /\ got'[c].rv = dc'.rv => got'[c].edits = dc'.edits
  BY DEF ReadIsPast
<1>. USE DEF IndInv, TypeOK, bounds, Goto
<1>1. dc \in Datacenter /\ dc' \in Datacenter /\ (dc' = dc \/ dc'.rv > dc.rv)
  BY DcStep
<1>2. dc.rv \in Nat /\ dc'.rv \in Nat
  BY <1>1 DEF Datacenter
<1>3. CASE Get(c)
  BY <1>1, <1>2, <1>3 DEF Get
<1>4. CASE pc[c] = "update" /\ got'[c] = got[c]
  <2>1. got[c] \in Datacenter /\ got[c].rv <= dc.rv /\ got[c].rv \in Nat
    BY <1>4 DEF ReadIsPast, Datacenter
  <2>. QED
    BY <1>1, <1>2, <1>4, <2>1 DEF ReadIsPast
<1>5. Get(c) \/ (pc[c] = "update" /\ got'[c] = got[c])
  BY DEF Next, Call, Operator, vars, Start, Validate, Get, Update, Updated, Create,
     PollStopped, PollReady, PollTask, Timeout, CallFails, ReportStopped, ReportReady,
     Flap, Edit, EndTask
<1>. QED
  BY <1>3, <1>4, <1>5

LEMMA SettlingStep == IndInv /\ [Next]_vars => Settling'
<1>. SUFFICES ASSUME IndInv, [Next]_vars, NEW c \in Command, writer' = c
              PROVE  /\ pc'[c] \in {"pollStopped", "pollReady"} => dc'.stopped = Stops(c)
                     /\ pc'[c] = "pollReady" => dc'.Stopped = Stops(c)
  BY DEF Settling, Stops
<1>. USE DEF IndInv, TypeOK, bounds, Goto
<1>1. CASE OwnWrite(c)
  <2>1. dc'.stopped = Stops(c)
    BY <1>1, SentSpec, WriteSpec DEF OwnWrite
  <2>2. pc'[c] # "pollReady"
    BY <1>1 DEF OwnWrite
  <2>. QED
    BY <2>1, <2>2
<1>2. ASSUME NEW d \in Command, d # c, OwnWrite(d) PROVE FALSE
  BY <1>2 DEF OwnWrite
<1>3. CASE ReportOrEdit
  BY <1>3, ReportSpec DEF ReportOrEdit, Settling
<1>4. CASE dc' = dc /\ writer' = writer
  <2>1. pc'[c] = "pollStopped" => pc[c] = "pollStopped" \/ Update(c)
    BY DEF Next, Call, Operator, vars, Start, Validate, Get, Create,
       PollStopped, PollReady, PollTask, Timeout, CallFails, ReportStopped, ReportReady,
       Flap, Edit, EndTask, Update, Updated
  <2>2. pc'[c] = "pollReady" => pc[c] = "pollReady" \/ PollStopped(c)
    BY DEF Next, Call, Operator, vars, Start, Validate, Get, Create,
       PollStopped, PollReady, PollTask, Timeout, CallFails, ReportStopped, ReportReady,
       Flap, Edit, EndTask, Update, Updated
  <2>3. CASE PollStopped(c)
    BY <1>4, <2>3 DEF PollStopped, Wanted, Settling
  <2>4. CASE Update(c)
    <3>1. got[c].rv # dc.rv \/ OwnWrite(c)
      BY <2>4 DEF Update, Updated, OwnWrite
    <3>. QED
      BY <1>1, <2>4, <3>1 DEF Update, Updated
  <2>. QED
    BY <1>4, <2>1, <2>2, <2>3, <2>4 DEF Settling
<1>. QED
  BY <1>1, <1>2, <1>3, <1>4, StepKinds

-----------------------------------------------------------------------------
(* Theorems. *)

\* The invariant holds in every reachable state (manage.go:30-113).
THEOREM Inductive == Spec => []IndInv
<1>1. IndInv /\ [Next]_vars => IndInv'
  BY TypeStep, ReadStep, SettlingStep DEF IndInv
<1>. QED
  BY <1>1, InitInv, PTL DEF Spec

\* Every variable keeps its type.
THEOREM TypeCorrect == Spec => []TypeOK
<1>1. IndInv => TypeOK
  BY DEF IndInv
<1>. QED
  BY <1>1, Inductive, PTL

\* Starting and stopping undo nobody's edit (manage.go:31-43).
THEOREM EditsSurvive == Spec => NoEditLost
<1>1. IndInv /\ [Next]_vars => [dc'.edits >= dc.edits]_vars
  BY DcStep
<1>. QED
  BY <1>1, Inductive, PTL DEF Spec, NoEditLost

\* A start or stop that waited ends with both conditions as asked for, unless
\* the datacenter was turned round meanwhile (manage.go:45-63).
THEOREM WaitIsSound == Spec => WaitMeansSettled
<1>. DEFINE Good == \A c \in Command :
          /\ pc[c] \in {"pollStopped", "pollReady"} /\ pc'[c] = "ok"
          /\ writer = c
          => dc.Stopped = Stops(c) /\ dc.Ready = ~Stops(c)
<1>1. IndInv /\ [Next]_vars => [Good]_vars
  <2>. SUFFICES ASSUME IndInv, Next, NEW c \in Command,
                       pc[c] \in {"pollStopped", "pollReady"}, pc'[c] = "ok", writer = c
                PROVE  dc.Stopped = Stops(c) /\ dc.Ready = ~Stops(c)
    OBVIOUS
  <2>1. PollReady(c)
    BY DEF IndInv, TypeOK, bounds, Goto, Next, Call, Operator, Start, Validate, Get,
       Create, PollStopped, PollReady, PollTask, Timeout, CallFails, ReportStopped,
       ReportReady, Flap, Edit, EndTask, Update, Updated
  <2>. QED
    BY <2>1 DEF PollReady, Wanted, IndInv, Settling
<1>. QED
  BY <1>1, Inductive, PTL DEF Spec, WaitMeansSettled
=============================================================================
