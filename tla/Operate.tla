------------------------------ MODULE Operate ------------------------------
(***************************************************************************)
(* `kubectl k8ssandra start | stop | restart` on one datacenter:           *)
(* cmd/.../operate, pkg/cassdcutil/manage.go and pkg/tasks.                *)
(*                                                                         *)
(* Commands of several users run concurrently.  Each reads and writes the  *)
(* CassandraDatacenter or creates a CassandraTask, one API call per step,  *)
(* and may then poll what cass-operator reports about it.                  *)
(***************************************************************************)
EXTENDS Naturals, FiniteSets

CONSTANTS
    Command,
    Args,          \* [Command -> [op, wait]]
    Schemes,       \* kinds known to a client: the commands', or one a caller makes
    NoRead,        \* the command has not read the datacenter yet
    MaxFaults,     \* calls that fail
    MaxEdits,      \* edits of the datacenter by others
    MaxFlaps       \* times a running datacenter loses readiness

Op == {"start", "stop", "restart"}

ASSUME ArgsAssumption == Args \in [Command -> [op : Op, wait : BOOLEAN]]
ASSUME BoundAssumption ==
    MaxFaults \in Nat /\ MaxEdits \in Nat /\ MaxFlaps \in Nat

\* The kinds GetClient registers: the datacenter's, not the task's.
ClientKinds == {"CassandraDatacenter"}

Datacenter ==
    [rv : Nat, stopped : BOOLEAN, edits : Nat,       \* spec.stopped, rest of spec
     Stopped : BOOLEAN, Ready : BOOLEAN]             \* conditions of the status
Condition == {"Stopped", "Ready"}

ASSUME NoReadAssumption == NoRead \notin Datacenter

VARIABLES
    dc,        \* the CassandraDatacenter
    writer,    \* who wrote spec.stopped last
    task,      \* [Command -> "none", "running", "completed" or "failed"]
    pc, got,   \* where a command is, the datacenter it read
    faults, flaps

bounds == <<faults, flaps>>
vars == <<dc, writer, task, pc, got, bounds>>

Polls == {"pollStopped", "pollReady", "pollTask"}
Active == {"validate", "get", "update", "create"} \cup Polls
Ended == {"ok", "error"}

Goto(c, label) == pc' = [pc EXCEPT ![c] = label]
Stops(c) == Args[c].op = "stop"

\* Any change of the object moves its resourceVersion.
Write(new) == dc' = IF new = dc THEN dc ELSE [new EXCEPT !.rv = dc.rv + 1]

-----------------------------------------------------------------------------
Start(c) ==
    /\ pc[c] = "idle"
    /\ Goto(c, "validate")
    /\ UNCHANGED <<dc, writer, task, got, bounds>>

\* Mutant: start and stop write the datacenter without having read it.
ValidateUnread(c) ==
    /\ pc[c] = "validate"
    /\ Goto(c, IF Args[c].op # "restart" THEN "update"
               ELSE IF dc.stopped THEN "error" ELSE "get")
    /\ UNCHANGED <<dc, writer, task, got, bounds>>

\* Validate and ValidateRestart, on a read of their own.
Validate(c) ==
    /\ pc[c] = "validate"
    /\ Goto(c, IF Args[c].op = "restart" /\ dc.stopped THEN "error" ELSE "get")
    /\ UNCHANGED <<dc, writer, task, got, bounds>>

Get(c) ==
    /\ pc[c] = "get"
    /\ got' = [got EXCEPT ![c] = dc]
    /\ Goto(c, IF Args[c].op = "restart" THEN "create" ELSE "update")
    /\ UNCHANGED <<dc, writer, task, bounds>>

\* The object as the command sends it; the status in it is not written.
Sent(c) == [dc EXCEPT !.stopped = Stops(c), !.edits = got[c].edits]
Updated(c) ==
    /\ Write(Sent(c))
    /\ writer' = c
    /\ Goto(c, IF Args[c].wait THEN "pollStopped" ELSE "ok")
    /\ UNCHANGED <<task, got, bounds>>

\* Mutant: the update does not carry the resourceVersion.
UpdateForced(c) == pc[c] = "update" /\ Updated(c)

\* The update of a datacenter that changed since the Get is refused.
Update(c) ==
    /\ pc[c] = "update"
    /\ \/ got[c].rv = dc.rv /\ Updated(c)
       \/ /\ got[c].rv # dc.rv
          /\ Goto(c, "error")
          /\ UNCHANGED <<dc, writer, task, got, bounds>>

\* CreateRestartTask: without the kind in its scheme the client sends nothing.
Create(c) ==
    /\ pc[c] = "create"
    /\ \E kinds \in Schemes :
          \/ /\ "CassandraTask" \in kinds
             /\ task' = [task EXCEPT ![c] = "running"]
             /\ Goto(c, IF Args[c].wait THEN "pollTask" ELSE "ok")
          \/ /\ "CassandraTask" \notin kinds
             /\ Goto(c, "error")
             /\ UNCHANGED task
    /\ UNCHANGED <<dc, writer, got, bounds>>

-----------------------------------------------------------------------------
(* WaitForStatus, first for one condition and then for the other. *)

\* The value the command waits for.
Wanted(c, condition) == IF condition = "Stopped" THEN Stops(c) ELSE ~Stops(c)

\* Mutants: the second condition is not waited for; start waits for Stopped.
PollStoppedOnly(c) ==
    /\ pc[c] = "pollStopped"
    /\ dc.Stopped = Wanted(c, "Stopped")
    /\ Goto(c, "ok")
    /\ UNCHANGED <<dc, writer, task, got, bounds>>
PollStoppedTrue(c) ==
    /\ pc[c] = "pollStopped"
    /\ dc.Stopped
    /\ Goto(c, "pollReady")
    /\ UNCHANGED <<dc, writer, task, got, bounds>>

PollStopped(c) ==
    /\ pc[c] = "pollStopped"
    /\ dc.Stopped = Wanted(c, "Stopped")
    /\ Goto(c, "pollReady")
    /\ UNCHANGED <<dc, writer, task, got, bounds>>

PollReady(c) ==
    /\ pc[c] = "pollReady"
    /\ dc.Ready = Wanted(c, "Ready")
    /\ Goto(c, "ok")
    /\ UNCHANGED <<dc, writer, task, got, bounds>>

\* WaitForCompletion: completionTime is set, by a failed task as well.
PollTask(c) ==
    /\ pc[c] = "pollTask"
    /\ task[c] # "running"
    /\ Goto(c, "ok")
    /\ UNCHANGED <<dc, writer, task, got, bounds>>

\* Ten minutes of polling.
Timeout(c) ==
    /\ pc[c] \in Polls
    /\ Goto(c, "error")
    /\ UNCHANGED <<dc, writer, task, got, bounds>>

-----------------------------------------------------------------------------
(* The environment. *)

\* A call fails; an update may have been applied all the same.
CallFails(c) ==
    /\ pc[c] \in Active
    /\ faults < MaxFaults
    /\ faults' = faults + 1
    /\ Goto(c, "error")
    /\ \/ UNCHANGED <<dc, writer>>
       \/ /\ pc[c] = "update" /\ got[c].rv = dc.rv
          /\ Write(Sent(c))
          /\ writer' = c
    /\ UNCHANGED <<task, got, flaps>>

\* cass-operator follows spec.stopped, one condition after the other.
ReportStopped ==
    /\ dc.Stopped # dc.stopped
    /\ Write([dc EXCEPT !.Stopped = dc.stopped])
    /\ UNCHANGED <<writer, task, pc, got, bounds>>

ReportReady ==
    /\ dc.Ready # ~dc.stopped
    /\ Write([dc EXCEPT !.Ready = ~dc.stopped])
    /\ UNCHANGED <<writer, task, pc, got, bounds>>

\* A pod of a running datacenter becomes unready.
Flap ==
    /\ dc.Ready /\ flaps < MaxFlaps
    /\ flaps' = flaps + 1
    /\ Write([dc EXCEPT !.Ready = FALSE])
    /\ UNCHANGED <<writer, task, pc, got, faults>>

EndTask(c, how) ==
    /\ task[c] = "running"
    /\ task' = [task EXCEPT ![c] = how]
    /\ UNCHANGED <<dc, writer, pc, got, bounds>>

\* Somebody edits another part of the spec.
Edit ==
    /\ dc.edits < MaxEdits
    /\ Write([dc EXCEPT !.edits = @ + 1])
    /\ UNCHANGED <<writer, task, pc, got, bounds>>

-----------------------------------------------------------------------------
\* A datacenter that cass-operator has brought where the spec says.
Init ==
    /\ \E stopped \in BOOLEAN :
          dc = [rv |-> 1, stopped |-> stopped, edits |-> 0,
                Stopped |-> stopped, Ready |-> ~stopped]
    /\ writer = NoRead
    /\ task = [c \in Command |-> "none"]
    /\ pc = [c \in Command |-> "idle"]
    /\ got = [c \in Command |-> NoRead]
    /\ faults = 0
    /\ flaps = 0

Call(c) ==
    \/ Validate(c) \/ Get(c) \/ Update(c) \/ Create(c)
    \/ PollStopped(c) \/ PollReady(c) \/ PollTask(c)

Operator ==
    \/ ReportStopped \/ ReportReady
    \/ \E c \in Command : EndTask(c, "completed") \/ EndTask(c, "failed")

Next ==
    \/ \E c \in Command : Start(c) \/ Call(c) \/ Timeout(c) \/ CallFails(c)
    \/ Operator \/ Flap \/ Edit

Spec == Init /\ [][Next]_vars

\* Commands run and cass-operator is up; no timeout need fire.
SettlingSpec ==
    /\ Spec
    /\ \A c \in Command :
          /\ WF_vars(Call(c))
          /\ WF_vars(EndTask(c, "completed") \/ EndTask(c, "failed"))
    /\ WF_vars(ReportStopped) /\ WF_vars(ReportReady)

-----------------------------------------------------------------------------
(* Properties. *)

TypeOK ==
    /\ dc \in Datacenter
    /\ writer \in Command \cup {NoRead}
    /\ task \in [Command -> {"none", "running", "completed", "failed"}]
    /\ pc \in [Command -> {"idle"} \cup Active \cup Ended]
    /\ got \in [Command -> Datacenter \cup {NoRead}]
    /\ \A c \in Command : pc[c] = "update" => got[c] # NoRead
    /\ faults \in 0..MaxFaults
    /\ flaps \in 0..MaxFlaps

\* Starting or stopping writes the whole object back and yet never undoes what
\* somebody else wrote since the command read it (manage.go:31-43).
NoEditLost == [][dc'.edits >= dc.edits]_vars

\* What `--wait` promises, unless somebody starts or stops the datacenter
\* meanwhile: at the end both conditions are as asked for (manage.go:45-63).
WaitMeansSettled ==
    [][\A c \in Command :
          /\ pc[c] \in {"pollStopped", "pollReady"} /\ pc'[c] = "ok"
          /\ writer = c
          => dc.Stopped = Stops(c) /\ dc.Ready = ~Stops(c)]_vars

\* As long as nobody turns the datacenter round, the waits end by themselves:
\* waiting for one condition after the other misses nothing.
WaitsSettle ==
    \A c \in Command : pc[c] \in Polls ~> pc[c] \in Ended \/ (writer # c /\ Args[c].op # "restart")

-----------------------------------------------------------------------------
(* What the documentation says and the code does not do. *)

\* operate.go:36: "unable to do rolling restart to a stopped datacenter".
NoRestartOfStopped ==
    [][\A c \in Command : task[c] = "none" /\ task'[c] = "running" => ~dc.stopped]_vars

\* operate.go:28-29: "request a rolling restart for datacenter".
RestartIsRequested ==
    [][\A c \in Command : pc[c] = "create" /\ faults' = faults => pc'[c] # "error"]_vars

\* operate.go:110: "wait until all pods have restarted".
WaitedRestartHappened ==
    \A c \in Command :
        pc[c] = "ok" /\ Args[c].op = "restart" /\ Args[c].wait => task[c] = "completed"
=============================================================================
