------------------------------- MODULE Users -------------------------------
(***************************************************************************)
(* `kubectl k8ssandra users add`: cmd/.../users/add.go, pkg/users,         *)
(* pkg/secrets and the prompts of pkg/ui.                                  *)
(*                                                                         *)
(* Commands take users from a path, from their arguments or from prompts,  *)
(* and create them one by one in Cassandra, through the management API of  *)
(* a pod they have picked.                                                 *)
(***************************************************************************)
EXTENDS Naturals, Sequences, FiniteSets

CONSTANTS
    Command,
    Text, Empty,   \* user names, passwords and file names
    Disk,          \* [path -> [dir, items]]
    NoPath,
    Inputs,        \* argument lists commands are given: [dc, path, username, password]
    Meant,         \* [Command -> [username, password]]: what its user types
    Pod, NoPod,
    NoRole,
    OnExisting,    \* what the management API does with a role that exists
    MaxFaults,     \* calls that fail
    MaxLosses      \* times a pod goes away

\* An entry of a directory or a line of a file.  One that is not plain is a link
\* to a directory or has no "=".
Item == [key : Text, value : Text, plain : BOOLEAN]
Path == DOMAIN Disk
Credentials == [username : Text, password : Text]

ASSUME TextAssumption == Empty \in Text /\ NoRole \notin Text
ASSUME DiskAssumption == \A p \in Path : Disk[p] \in [dir : BOOLEAN, items : Seq(Item)]
ASSUME PathAssumption == NoPath \notin Path
ASSUME InputsAssumption ==
    Inputs \subseteq [dc : BOOLEAN, path : Path \cup {NoPath}, username : Text, password : Text]
ASSUME MeantAssumption == Meant \in [Command -> Credentials]
ASSUME PodAssumption == NoPod \notin Pod
ASSUME ExistingAssumption == OnExisting \subseteq {"altered", "refused"}
ASSUME BoundAssumption == MaxFaults \in Nat /\ MaxLosses \in Nat

VARIABLES
    roles,         \* [Text -> password or NoRole], in Cassandra
    pods,          \* pods of the datacenter
    pc,
    args,          \* [Command -> its arguments]
    typed, at,     \* the inputs of the prompter and the one that has the focus
    pairs, todo,   \* users a command has been given, those left to create
    target,        \* the pod it calls
    faults, losses

bounds == <<faults, losses>>
prompt == <<typed, at>>
vars == <<roles, pods, pc, args, prompt, pairs, todo, target, bounds>>

Calls == {"manage", "target", "read", "create"}
Failed == {"error", "panic"}

Goto(c, label) == pc' = [pc EXCEPT ![c] = label]
FromPath(c) == args[c].path # NoPath

-----------------------------------------------------------------------------
(* What is at a path, read into a map. *)

\* Mutant: the first value of a key stays.
PutIfAbsent(map, item) ==
    IF item.plain /\ ~\E pair \in map : pair[1] = item.key
    THEN map \cup {<<item.key, item.value>>} ELSE map

\* A later value of a key replaces an earlier one.
Put(map, item) ==
    IF item.plain THEN {pair \in map : pair[1] # item.key} \cup {<<item.key, item.value>>} ELSE map

\* One entry or line after the other.
ReadTargetFile(items) ==
    LET map[i \in 0..Len(items)] == IF i = 0 THEN {} ELSE Put(map[i - 1], items[i])
    IN  map[Len(items)]

\* The one pair of a directory: what its files of these two names hold.
FileNamed(items, name) ==
    LET files == {pair \in ReadTargetFile(items) : pair[1] = name}
    IN  IF files = {} THEN Empty ELSE (CHOOSE pair \in files : TRUE)[2]
ReadTargetSecretMount(items) ==
    {<<FileNamed(items, "username"), FileNamed(items, "password")>>}

\* Walking a directory opens whatever is not one itself, and a link to a directory
\* cannot be read.
Readable(p) == Disk[p].dir => \A i \in DOMAIN Disk[p].items : Disk[p].items[i].plain

ReadTargetPath(p) ==
    IF Disk[p].dir THEN ReadTargetSecretMount(Disk[p].items) ELSE ReadTargetFile(Disk[p].items)

-----------------------------------------------------------------------------
(* The command up to its first call: arguments and prompts. *)

Valid(a) ==
    /\ a.dc
    /\ ~(a.path # NoPath /\ a.username # Empty)
    /\ ~(a.password # Empty /\ a.username = Empty)

\* What is asked for: what the arguments leave out.
Prompts(a) ==
    LET Ask(field) == IF a[field] = Empty THEN <<field>> ELSE <<>>
    IN  Ask("username") \o Ask("password")

\* The user the command goes on with when the prompts have these values.
Given(a, values) ==
    {<<IF a.username = Empty THEN values.username ELSE a.username,
       IF Prompts(a) = <<>> THEN a.password ELSE values.password>>}

Blank == [username |-> Empty, password |-> Empty]
NoArgs == [dc |-> FALSE, path |-> NoPath, username |-> Empty, password |-> Empty]

Begin(c, a) ==
    /\ \/ ~Valid(a) /\ Goto(c, "error") /\ pairs' = [pairs EXCEPT ![c] = {}]
       \/ Valid(a) /\ a.path # NoPath /\ Goto(c, "manage") /\ pairs' = [pairs EXCEPT ![c] = {}]
       \/ /\ Valid(a) /\ a.path = NoPath /\ Prompts(a) = <<>>
          /\ Goto(c, "manage")
          /\ pairs' = [pairs EXCEPT ![c] = Given(a, Blank)]
       \/ /\ Valid(a) /\ a.path = NoPath /\ Prompts(a) # <<>>
          /\ Goto(c, "prompt")
          /\ pairs' = [pairs EXCEPT ![c] = {}]
    /\ args' = [args EXCEPT ![c] = a]
    /\ typed' = [typed EXCEPT ![c] = Blank]
    /\ at' = [at EXCEPT ![c] = 1]
    /\ todo' = [todo EXCEPT ![c] = {}]
    /\ target' = [target EXCEPT ![c] = NoPod]
    /\ UNCHANGED <<roles, pods, bounds>>

Start(c) == pc[c] = "idle" /\ \E a \in Inputs : Begin(c, a)

\* The user of a command that failed runs it again.
Retry(c) == pc[c] \in Failed /\ Begin(c, args[c])

\* The input that has the focus gets what the user answers to its prompt.
Type(c) ==
    /\ pc[c] = "prompt"
    /\ LET field == Prompts(args[c])[at[c]]
       IN  typed' = [typed EXCEPT ![c][field] = Meant[c][field]]
    /\ UNCHANGED <<roles, pods, pc, args, at, pairs, todo, target, bounds>>

\* Mutant: enter hands over the values at the first prompt.
ConfirmAtFirst(c) ==
    /\ pc[c] = "prompt"
    /\ pairs' = [pairs EXCEPT ![c] = Given(args[c], [typed[c] EXCEPT !.password = typed[c].username])]
    /\ Goto(c, "manage")
    /\ UNCHANGED <<roles, pods, args, prompt, todo, target, bounds>>

\* Enter or Tab: the next input, or after the last all values at once.
Confirm(c) ==
    /\ pc[c] = "prompt"
    /\ \/ /\ at[c] < Len(Prompts(args[c]))
          /\ at' = [at EXCEPT ![c] = @ + 1]
          /\ UNCHANGED <<pc, pairs>>
       \/ /\ at[c] = Len(Prompts(args[c]))
          /\ pairs' = [pairs EXCEPT ![c] = Given(args[c], typed[c])]
          /\ Goto(c, "manage")
          /\ UNCHANGED at
    /\ UNCHANGED <<roles, pods, args, typed, todo, target, bounds>>

\* Ctrl-C or Esc ends the prompter without values and without an error.
Quit(c) ==
    /\ pc[c] = "prompt"
    /\ pairs' = [pairs EXCEPT ![c] = Given(args[c], Blank)]
    /\ Goto(c, "manage")
    /\ UNCHANGED <<roles, pods, args, prompt, todo, target, bounds>>

-----------------------------------------------------------------------------
(* AddNewUser and AddNewUsersFromSecret. *)

\* NewManagementClient, and targetPod's own read of the datacenter.
Manage(c) ==
    /\ pc[c] = "manage"
    /\ Goto(c, "target")
    /\ UNCHANGED <<roles, pods, args, prompt, pairs, todo, target, bounds>>

\* The first pod of the list; an empty list, as of a stopped datacenter, panics.
Target(c) ==
    /\ pc[c] = "target"
    /\ \/ /\ pods = {}
          /\ Goto(c, "panic")
          /\ UNCHANGED <<todo, target>>
       \/ \E p \in pods :
             /\ target' = [target EXCEPT ![c] = p]
             /\ Goto(c, IF FromPath(c) THEN "read" ELSE "create")
             /\ todo' = [todo EXCEPT ![c] = pairs[c]]
    /\ UNCHANGED <<roles, pods, args, prompt, pairs, bounds>>

Read(c) ==
    /\ pc[c] = "read"
    /\ IF Readable(args[c].path)
       THEN LET users == ReadTargetPath(args[c].path)
            IN  /\ pairs' = [pairs EXCEPT ![c] = users]
                /\ todo' = [todo EXCEPT ![c] = users]
                /\ Goto(c, IF users = {} THEN "ok" ELSE "create")
       ELSE Goto(c, "error") /\ UNCHANGED <<pairs, todo>>
    /\ UNCHANGED <<roles, pods, args, prompt, target, bounds>>

\* The management API takes a user, if it takes one that exists.
Reached(c) == target[c] \in pods
Accepts(c, pair) == Reached(c) /\ (roles[pair[1]] = NoRole \/ "altered" \in OnExisting)
Refuses(c, pair) == ~Reached(c) \/ (roles[pair[1]] # NoRole /\ "refused" \in OnExisting)
Role(pair) == roles' = [roles EXCEPT ![pair[1]] = pair[2]]

Done(c, pair) ==
    /\ todo' = [todo EXCEPT ![c] = @ \ {pair}]
    /\ Goto(c, IF todo[c] = {pair} THEN "ok" ELSE "create")

\* Mutant: the loop goes on after an error.
CreateIgnoringError(c) ==
    /\ pc[c] = "create"
    /\ \E pair \in todo[c] :
          /\ \/ Accepts(c, pair) /\ Role(pair)
             \/ Refuses(c, pair) /\ UNCHANGED roles
          /\ Done(c, pair)
    /\ UNCHANGED <<pods, args, prompt, pairs, target, bounds>>

\* The users in the random order of a map, up to the first error.
Create(c) ==
    /\ pc[c] = "create"
    /\ \E pair \in todo[c] :
          \/ Accepts(c, pair) /\ Role(pair) /\ Done(c, pair)
          \/ Refuses(c, pair) /\ Goto(c, "error") /\ UNCHANGED <<roles, todo>>
    /\ UNCHANGED <<pods, args, prompt, pairs, target, bounds>>

-----------------------------------------------------------------------------
(* The environment. *)

\* A call fails; a role may have been created all the same.
CallFails(c) ==
    /\ pc[c] \in Calls /\ faults < MaxFaults
    /\ faults' = faults + 1
    /\ Goto(c, "error")
    /\ \/ UNCHANGED roles
       \/ pc[c] = "create" /\ \E pair \in todo[c] : Accepts(c, pair) /\ Role(pair)
    /\ UNCHANGED <<pods, args, prompt, pairs, todo, target, losses>>

\* A pod goes away, as when the datacenter is stopped, and comes back.
PodLost(p) ==
    /\ p \in pods /\ losses < MaxLosses
    /\ pods' = pods \ {p}
    /\ losses' = losses + 1
    /\ UNCHANGED <<roles, pc, args, prompt, pairs, todo, target, faults>>

PodStarted(p) ==
    /\ p \in Pod \ pods
    /\ pods' = pods \cup {p}
    /\ UNCHANGED <<roles, pc, args, prompt, pairs, todo, target, bounds>>

-----------------------------------------------------------------------------
Init ==
    /\ roles = [name \in Text |-> NoRole]
    /\ pods \in SUBSET Pod
    /\ pc = [c \in Command |-> "idle"]
    /\ args = [c \in Command |-> NoArgs]
    /\ typed = [c \in Command |-> Blank]
    /\ at = [c \in Command |-> 1]
    /\ pairs = [c \in Command |-> {}]
    /\ todo = [c \in Command |-> {}]
    /\ target = [c \in Command |-> NoPod]
    /\ faults = 0
    /\ losses = 0

Keys(c) == Type(c) \/ Confirm(c) \/ Quit(c)
Step(c) == Start(c) \/ Manage(c) \/ Target(c) \/ Read(c) \/ Create(c)

Next ==
    \/ \E c \in Command : Step(c) \/ Keys(c) \/ CallFails(c) \/ Retry(c)
    \/ \E p \in Pod : PodLost(p) \/ PodStarted(p)

Spec == Init /\ [][Next]_vars

\* Commands run and are run again when they fail, and pods come back.
RetrySpec ==
    /\ Spec
    /\ \A c \in Command : WF_vars(Step(c)) /\ WF_vars(Retry(c))
    /\ \A p \in Pod : WF_vars(PodStarted(p))

-----------------------------------------------------------------------------
(* Properties. *)

\* The users of a path: in a file, the last line about each.
UsersAt(p) ==
    LET items == Disk[p].items
        LastOf(i) == items[i].plain
                  /\ \A j \in i + 1 .. Len(items) : items[j].plain => items[j].key # items[i].key
    IN  IF Disk[p].dir THEN ReadTargetSecretMount(items)
        ELSE {<<items[i].key, items[i].value>> : i \in {i \in DOMAIN items : LastOf(i)}}

\* What a command may send: what its path, its arguments or its user say, where a
\* user may leave prompts empty.
MaySend(c) ==
    LET Said(field) ==
            IF args[c][field] # Empty THEN {args[c][field]} ELSE {Empty, Meant[c][field]}
    IN  IF FromPath(c) THEN UsersAt(args[c].path) ELSE Said("username") \X Said("password")

\* The users a command is for.
Wanted(c) == IF FromPath(c) THEN UsersAt(args[c].path) ELSE pairs[c]

\* A command that ends well has created every user it is for, each with its
\* password, whatever failed meanwhile; only another command for the same user may
\* have changed it (users.go:31-37).
OkMeansAllAdded ==
    \A c \in Command : pc[c] = "ok" =>
        \A pair \in Wanted(c) :
            \/ roles[pair[1]] = pair[2]
            \/ /\ roles[pair[1]] # NoRole
               /\ \E d \in Command \ {c} : <<pair[1], roles[pair[1]]>> \in MaySend(d)

\* No role has another's password: user names and passwords stay paired from the
\* line, file, argument or prompt they come from, with several commands and retries
\* (mount.go:29-103, prompt.go:56-95, add.go:150-158).
PasswordsStayPaired ==
    \A name \in Text : roles[name] # NoRole =>
        \E c \in Command : <<name, roles[name]>> \in MaySend(c)

\* A command that needs nobody to type and reads what can be read.
Unattended(c) == IF FromPath(c) THEN Readable(args[c].path) ELSE Prompts(args[c]) = <<>>

\* A command that fails half way and is run again adds the users that are missing,
\* if the management API takes those that are there already.
RetriedAddSucceeds ==
    \A c \in Command :
        pc[c] = "manage" /\ Unattended(c)
            ~> pc[c] = "ok" /\ \A pair \in Wanted(c) : roles[pair[1]] # NoRole

-----------------------------------------------------------------------------
(* What the documentation says and the code does not do. *)

\* mount.go:13: "if it's a directory, then it must follow the Kubernetes secret
\* format": one that does can be read.
SecretMountIsRead ==
    [][\A c \in Command : pc[c] = "read" /\ faults' = faults => pc'[c] # "error"]_vars

\* add.go:56: "Add new users to CassandraDatacenter installation": the command adds
\* them or says why it cannot.
AddsOrReports == \A c \in Command : pc[c] # "panic"
=============================================================================
