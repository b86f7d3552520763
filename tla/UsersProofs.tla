---------------------------- MODULE UsersProofs ----------------------------
(***************************************************************************)
(* Theorems about Users, for every disk, all inputs, any number of         *)
(* commands and pods, and a management API that may refuse or lose calls.  *)
(***************************************************************************)
EXTENDS Users, Counting

Pairs == SUBSET (Text \X Text)

Labels == {"idle", "prompt", "ok"} \cup Calls \cup Failed

TypeOK ==
    /\ roles \in [Text -> Text \cup {NoRole}]
    /\ pc \in [Command -> Labels]
    /\ args \in [Command -> Inputs \cup {NoArgs}]
    /\ typed \in [Command -> Credentials]
    /\ at \in [Command -> {1, 2}]
    /\ pairs \in [Command -> Pairs]
    /\ todo \in [Command -> Pairs]

\* A command prompts only for what its arguments leave out and reads only a path.
Prompting ==
    \A c \in Command :
        /\ pc[c] # "idle" => args[c] \in Inputs
        /\ pc[c] = "read" => FromPath(c)
        /\ pc[c] = "prompt" => /\ Valid(args[c]) /\ ~FromPath(c)
                               /\ at[c] \in DOMAIN Prompts(args[c])

\* What its user types at a prompt is meant for that prompt.
Answered ==
    \A c \in Command :
        /\ typed[c].username \in {Empty, Meant[c].username}
        /\ typed[c].password \in {Empty, Meant[c].password}

OnePassword(users) == \A a, b \in users : a[1] = b[1] => a = b

\* The users a command has are ones it may send, each with one password.
Paired ==
    \A c \in Command :
        /\ pairs[c] \subseteq MaySend(c)
        /\ OnePassword(pairs[c])

\* A role is what a command that was started may send.
Sender(c, name) == pc[c] # "idle" /\ <<name, roles[name]>> \in MaySend(c)
Sent == \A name \in Text : roles[name] # NoRole => \E c \in Command : Sender(c, name)

\* Users that are not left to create are there, unless another command changed them.
There(c, pair) ==
    \/ roles[pair[1]] = pair[2]
    \/ roles[pair[1]] # NoRole /\ \E d \in Command \ {c} : Sender(d, pair[1])
Progress ==
    \A c \in Command :
        pc[c] \in {"create", "ok"} =>
            /\ pairs[c] = Wanted(c)
            /\ todo[c] \subseteq pairs[c]
            /\ \A pair \in pairs[c] \ todo[c] : There(c, pair)
            /\ pc[c] = "ok" => todo[c] = {}

\* The inductive invariant.
IndInv == TypeOK /\ Prompting /\ Answered /\ Paired /\ Sent /\ Progress

-----------------------------------------------------------------------------
(* What is read from a path. *)

\* The pairs of the last of the first k items about each key.
LastOf(items, k, i) ==
    items[i].plain /\ \A j \in i + 1 .. k : items[j].plain => items[j].key # items[i].key
LastPairs(items, k) == {<<items[i].key, items[i].value>> : i \in {i \in 1..k : LastOf(items, k, i)}}

LEMMA LastPairsMember ==
  ASSUME NEW items, NEW k
  PROVE  \A pair : pair \in LastPairs(items, k) <=>
             \E i \in 1..k : LastOf(items, k, i) /\ pair = <<items[i].key, items[i].value>>
  BY DEF LastPairs

\* One more item in the map is one more item looked at.
LEMMA PutIsLast ==
  ASSUME NEW items \in Seq(Item), NEW k \in Nat, k < Len(items)
  PROVE  Put(LastPairs(items, k), items[k + 1]) = LastPairs(items, k + 1)
<1>. DEFINE n == k + 1
<1>1. /\ n \in 1..n /\ 1..n = 1..k \cup {n} /\ n \notin 1..k
      /\ n + 1 .. n = {}
  OBVIOUS
<1>2. \A i \in 1..k : i + 1 .. n = (i + 1 .. k) \cup {n}
  OBVIOUS
<1>3. \A i \in 1..k : LastOf(items, n, i) <=>
          LastOf(items, k, i) /\ (items[n].plain => items[n].key # items[i].key)
  BY <1>2 DEF LastOf
<1>4. LastOf(items, n, n) <=> items[n].plain
  BY <1>1 DEF LastOf
<1>5. CASE ~items[n].plain
  <2>1. \A pair : pair \in LastPairs(items, n) <=> pair \in LastPairs(items, k)
    BY <1>1, <1>3, <1>4, <1>5, LastPairsMember
  <2>. QED
    BY <1>5, <2>1 DEF Put
<1>6. CASE items[n].plain
  <2>. DEFINE new == <<items[n].key, items[n].value>>
  <2>1. ASSUME NEW pair
        PROVE  pair \in LastPairs(items, n) <=>
                   (pair \in LastPairs(items, k) /\ pair[1] # items[n].key) \/ pair = new
    <3>1. pair \in LastPairs(items, n) <=>
              \/ \E i \in 1..k : LastOf(items, n, i) /\ pair = <<items[i].key, items[i].value>>
              \/ pair = new
      BY <1>1, <1>4, <1>6, LastPairsMember
    <3>2. (\E i \in 1..k : LastOf(items, n, i) /\ pair = <<items[i].key, items[i].value>>) <=>
              pair \in LastPairs(items, k) /\ pair[1] # items[n].key
      BY <1>3, <1>6, LastPairsMember
    <3>. QED
      BY <3>1, <3>2
  <2>. QED
    BY <1>6, <2>1 DEF Put
<1>. QED
  BY <1>5, <1>6

\* Reading a file line by line into a map leaves the last line about each key.
THEOREM FileIsLastLines ==
  ASSUME NEW items \in Seq(Item)
  PROVE  ReadTargetFile(items) = LastPairs(items, Len(items))
<1>. DEFINE n == Len(items)
            Reads(f) == f = [i \in 0..n |-> IF i = 0 THEN {} ELSE Put(f[i - 1], items[i])]
            last == [i \in 0..n |-> LastPairs(items, i)]
<1>1. n \in Nat
  OBVIOUS
<1>2. LastPairs(items, 0) = {}
  BY LastPairsMember
<1>3. Reads(last)
  <2>1. \A i \in 0..n : last[i] = IF i = 0 THEN {} ELSE Put(last[i - 1], items[i])
    <3>. SUFFICES ASSUME NEW i \in 0..n, i # 0
                  PROVE  last[i] = Put(last[i - 1], items[i])
      BY <1>2
    <3>1. i - 1 \in Nat /\ i - 1 \in 0..n /\ i - 1 < Len(items) /\ (i - 1) + 1 = i
      BY <1>1
    <3>2. Put(LastPairs(items, i - 1), items[i]) = LastPairs(items, i)
      BY <3>1, PutIsLast
    <3>. QED
      BY <3>1, <3>2
  <2>2. last = [i \in 0..n |-> last[i]]
    OBVIOUS
  <2>. HIDE DEF last
  <2>. QED
    BY <2>1, <2>2
<1>. DEFINE map == CHOOSE f : Reads(f)
<1>4. ReadTargetFile(items) = map[n]
  BY DEF ReadTargetFile
<1>5. Reads(map)
  <2>. HIDE DEF last, Reads
  <2>. QED
    BY <1>3
<1>6. map[0] = {} /\ \A i \in 0..n : i # 0 => map[i] = Put(map[i - 1], items[i])
  <2>. HIDE DEF map
  <2>1. map = [i \in 0..n |-> IF i = 0 THEN {} ELSE Put(map[i - 1], items[i])]
    BY <1>5
  <2>2. 0 \in 0..n
    BY <1>1
  <2>3. map[0] = {}
    BY <2>1, <2>2
  <2>4. ASSUME NEW i \in 0..n, i # 0 PROVE map[i] = Put(map[i - 1], items[i])
    BY <2>1, <2>4
  <2>. QED
    BY <2>3, <2>4
<1>. DEFINE S == {i \in Nat : i <= n => map[i] = LastPairs(items, i)}
<1>7. 0 \in S
  BY <1>2, <1>6
<1>8. ASSUME NEW i \in Nat, i \in S PROVE i + 1 \in S
  <2>. HIDE DEF map
  <2>. SUFFICES ASSUME i + 1 <= n PROVE map[i + 1] = LastPairs(items, i + 1)
    OBVIOUS
  <2>1. map[i] = LastPairs(items, i)
    BY <1>1, <1>8
  <2>2. map[i + 1] = Put(map[i], items[i + 1])
    BY <1>1, <1>6
  <2>. QED
    BY <1>1, <2>1, <2>2, PutIsLast
<1>9. n \in S
  <2>. HIDE DEF S
  <2>. QED
    BY <1>1, <1>7, <1>8, Induction
<1>. QED
  BY <1>1, <1>4, <1>9

LEMMA LastPairsAre ==
  ASSUME NEW items \in Seq(Item)
  PROVE  LastPairs(items, Len(items)) \in Pairs /\ OnePassword(LastPairs(items, Len(items)))
<1>. DEFINE n == Len(items)
<1>1. n \in Nat /\ \A i \in 1..n : items[i].key \in Text /\ items[i].value \in Text
  <2>1. n \in Nat /\ \A i \in 1..n : items[i] \in Item
    OBVIOUS
  <2>. QED
    BY <2>1 DEF Item
<1>2. LastPairs(items, n) \in Pairs
  BY <1>1, LastPairsMember DEF Pairs
<1>3. ASSUME NEW i \in 1..n, NEW j \in 1..n, LastOf(items, n, i), LastOf(items, n, j),
             items[i].key = items[j].key
      PROVE  i = j
  <2>1. ~(i < j)
    BY <1>1, <1>3 DEF LastOf
  <2>2. ~(j < i)
    BY <1>1, <1>3 DEF LastOf
  <2>. QED
    BY <1>1, <2>1, <2>2
<1>4. ASSUME NEW a \in LastPairs(items, n), NEW b \in LastPairs(items, n), a[1] = b[1]
      PROVE  a = b
  <2>1. PICK i \in 1..n : LastOf(items, n, i) /\ a = <<items[i].key, items[i].value>>
    BY LastPairsMember
  <2>2. PICK j \in 1..n : LastOf(items, n, j) /\ b = <<items[j].key, items[j].value>>
    BY LastPairsMember
  <2>. QED
    BY <1>3, <1>4, <2>1, <2>2
<1>. QED
  BY <1>2, <1>4 DEF OnePassword

LEMMA FileNamedType ==
  ASSUME NEW items \in Seq(Item), NEW name PROVE FileNamed(items, name) \in Text
<1>. DEFINE files == {pair \in ReadTargetFile(items) : pair[1] = name}
<1>1. files \subseteq Text \X Text
  BY FileIsLastLines, LastPairsAre DEF Pairs
<1>2. FileNamed(items, name) = IF files = {} THEN Empty ELSE (CHOOSE pair \in files : TRUE)[2]
  BY DEF FileNamed
<1>3. files # {} => (CHOOSE pair \in files : TRUE) \in files
  OBVIOUS
<1>. HIDE DEF files
<1>. QED
  BY <1>1, <1>2, <1>3, TextAssumption

\* What a command reads from a path is the users that are there, each once.
THEOREM PathIsUsers ==
  ASSUME NEW p \in Path
  PROVE  ReadTargetPath(p) = UsersAt(p) /\ UsersAt(p) \in Pairs /\ OnePassword(UsersAt(p))
<1>. DEFINE items == Disk[p].items
<1>1. items \in Seq(Item)
  BY DiskAssumption
<1>2. CASE Disk[p].dir
  <2>1. /\ ReadTargetPath(p) = ReadTargetSecretMount(items)
        /\ UsersAt(p) = ReadTargetSecretMount(items)
    BY <1>2 DEF ReadTargetPath, UsersAt
  <2>2. FileNamed(items, "username") \in Text /\ FileNamed(items, "password") \in Text
    BY <1>1, FileNamedType
  <2>. HIDE DEF items
  <2>. QED
    BY <2>1, <2>2 DEF ReadTargetSecretMount, Pairs, OnePassword
<1>3. CASE ~Disk[p].dir
  <2>1. ReadTargetPath(p) = ReadTargetFile(items)
    BY <1>3 DEF ReadTargetPath
  <2>2. UsersAt(p) = LastPairs(items, Len(items))
    BY <1>1, <1>3 DEF UsersAt, LastPairs, LastOf
  <2>. HIDE DEF items
  <2>. QED
    BY <1>1, <2>1, <2>2, FileIsLastLines, LastPairsAre
<1>. QED
  BY <1>2, <1>3

-----------------------------------------------------------------------------
(* What is prompted for. *)

LEMMA PromptsAre ==
  ASSUME NEW a
  PROVE  Prompts(a) = IF a.username = Empty
                      THEN IF a.password = Empty THEN <<"username", "password">> ELSE <<"username">>
                      ELSE IF a.password = Empty THEN <<"password">> ELSE <<>>
<1>1. a["username"] = a.username /\ a["password"] = a.password
  OBVIOUS
<1>2. <<"username">> \o <<"password">> = <<"username", "password">>
  <2>. DEFINE both == <<"username">> \o <<"password">>
              fields == <<"username", "password">>
  <2>1. both \in Seq({"username", "password"}) /\ fields \in Seq({"username", "password"})
    OBVIOUS
  <2>2. Len(both) = 2 /\ Len(fields) = 2
    OBVIOUS
  <2>3. both[1] = fields[1]
    OBVIOUS
  <2>4. both[2] = fields[2]
    OBVIOUS
  <2>5. \A i \in 1..2 : both[i] = fields[i]
    <3>. HIDE DEF both, fields
    <3>. QED
      BY <2>3, <2>4
  <2>6. both = fields
    <3>. HIDE DEF both, fields
    <3>. QED
      BY <2>1, <2>2, <2>5
  <2>. QED
    BY <2>6
<1>3. <<"username">> \o <<>> = <<"username">>
  OBVIOUS
<1>4. <<>> \o <<"password">> = <<"password">>
  OBVIOUS
<1>5. <<>> \o <<>> = <<>>
  OBVIOUS
<1>. QED
  BY <1>1, <1>2, <1>3, <1>4, <1>5 DEF Prompts

LEMMA BlankType == Blank \in Credentials /\ Blank.username = Empty /\ Blank.password = Empty
  BY TextAssumption DEF Blank, Credentials

LEMMA ArgsType ==
  ASSUME TypeOK, NEW c \in Command
  PROVE  /\ args[c].username \in Text /\ args[c].password \in Text
         /\ FromPath(c) => args[c].path \in Path
<1>1. args[c] \in Inputs \/ args[c] = NoArgs
  BY DEF TypeOK
<1>. QED
  BY <1>1, InputsAssumption, TextAssumption DEF NoArgs, FromPath

\* The user a command goes on with is one that its arguments and its user name.
LEMMA GivenIsSaid ==
  ASSUME NEW a \in Inputs, Valid(a), a.path = NoPath, NEW c \in Command,
         NEW values \in Credentials,
         values.username \in {Empty, Meant[c].username},
         values.password \in {Empty, Meant[c].password}
  PROVE  /\ Given(a, values) \in Pairs
         /\ OnePassword(Given(a, values))
         /\ Given(a, values) \subseteq
                (IF a.username # Empty THEN {a.username} ELSE {Empty, Meant[c].username})
                \X (IF a.password # Empty THEN {a.password} ELSE {Empty, Meant[c].password})
<1>. DEFINE name == IF a.username = Empty THEN values.username ELSE a.username
            word == IF Prompts(a) = <<>> THEN a.password ELSE values.password
<1>1. Given(a, values) = {<<name, word>>}
  BY DEF Given
<1>2. a.username \in Text /\ a.password \in Text
  BY InputsAssumption
<1>3. name \in Text /\ word \in Text
  BY <1>2 DEF Credentials
<1>4. Prompts(a) = <<>> <=> a.username # Empty /\ a.password # Empty
  BY PromptsAre
<1>5. a.password # Empty => a.username # Empty
  BY DEF Valid
<1>6. /\ name \in IF a.username # Empty THEN {a.username} ELSE {Empty, Meant[c].username}
      /\ word \in IF a.password # Empty THEN {a.password} ELSE {Empty, Meant[c].password}
  BY <1>4, <1>5
<1>. QED
  BY <1>1, <1>3, <1>6 DEF Pairs, OnePassword

LEMMA MaySendTyped ==
  ASSUME NEW c \in Command, ~FromPath(c)
  PROVE  MaySend(c) =
            (IF args[c].username # Empty THEN {args[c].username} ELSE {Empty, Meant[c].username})
            \X (IF args[c].password # Empty THEN {args[c].password} ELSE {Empty, Meant[c].password})
  BY DEF MaySend

-----------------------------------------------------------------------------
(* Types. *)

\* A command that starts has the arguments of a first run or those it had before.
LEMMA Begins ==
  ASSUME TypeOK, Prompting, NEW c \in Command, Start(c) \/ Retry(c)
  PROVE  \E a \in Inputs : Begin(c, a) /\ (pc[c] = "idle" \/ a = args[c])
  BY DEF Start, Retry, Prompting, TypeOK, Failed

LEMMA BeginType ==
  ASSUME TypeOK, NEW c \in Command, NEW a \in Inputs, Begin(c, a)
  PROVE  TypeOK'
<1>1. pairs' \in [Command -> Pairs]
  <2>1. {} \in Pairs
    BY DEF Pairs
  <2>2. Valid(a) /\ a.path = NoPath => Given(a, Blank) \in Pairs
    BY BlankType, GivenIsSaid
  <2>. QED
    BY <2>1, <2>2 DEF Begin, TypeOK
<1>2. pc' \in [Command -> Labels]
  BY DEF Begin, TypeOK, Goto, Labels, Calls, Failed
<1>3. /\ args' \in [Command -> Inputs \cup {NoArgs}]
      /\ typed' \in [Command -> Credentials]
      /\ at' \in [Command -> {1, 2}]
      /\ todo' \in [Command -> Pairs]
      /\ roles' = roles
  BY BlankType DEF Begin, TypeOK, Pairs
<1>. QED
  BY <1>1, <1>2, <1>3 DEF TypeOK

LEMMA GivenType ==
  ASSUME TypeOK, Prompting, Answered, NEW c \in Command, pc[c] = "prompt",
         NEW values \in {typed[c], Blank}
  PROVE  /\ Given(args[c], values) \in Pairs
         /\ OnePassword(Given(args[c], values))
         /\ Given(args[c], values) \subseteq MaySend(c)
<1>1. args[c] \in Inputs /\ Valid(args[c]) /\ args[c].path = NoPath /\ ~FromPath(c)
  BY DEF Prompting, FromPath
<1>2. /\ values \in Credentials
      /\ values.username \in {Empty, Meant[c].username}
      /\ values.password \in {Empty, Meant[c].password}
  BY BlankType DEF TypeOK, Answered
<1>. QED
  BY <1>1, <1>2, GivenIsSaid, MaySendTyped

\* An input has the focus.
LEMMA FocusIsField ==
  ASSUME TypeOK, Prompting, NEW c \in Command, pc[c] = "prompt"
  PROVE  /\ Prompts(args[c])[at[c]] \in {"username", "password"}
         /\ Len(Prompts(args[c])) \in {1, 2}
         /\ at[c] \in 1..Len(Prompts(args[c]))
<1>1. at[c] \in DOMAIN Prompts(args[c]) /\ at[c] \in {1, 2}
  BY DEF Prompting, TypeOK
<1>2. Prompts(args[c]) \in {<<"username", "password">>, <<"username">>, <<"password">>, <<>>}
  BY PromptsAre
<1>. QED
  BY <1>1, <1>2

LEMMA RoleType ==
  ASSUME TypeOK, NEW c \in Command, NEW pair \in todo[c], Role(pair)
  PROVE  /\ pair[1] \in Text /\ pair[2] \in Text
         /\ pair = <<pair[1], pair[2]>>
         /\ roles' \in [Text -> Text \cup {NoRole}]
         /\ roles'[pair[1]] = pair[2]
         /\ \A name \in Text : name # pair[1] => roles'[name] = roles[name]
<1>1. pair \in Text \X Text
  BY DEF TypeOK, Pairs
<1>. QED
  BY <1>1 DEF Role, TypeOK

LEMMA StepType ==
  ASSUME IndInv, [Next]_vars PROVE TypeOK'
<1>. USE DEF IndInv
<1>1. ASSUME NEW c \in Command, Start(c) \/ Retry(c) PROVE TypeOK'
  BY <1>1, Begins, BeginType
<1>2. ASSUME NEW c \in Command, Type(c) PROVE TypeOK'
  <2>1. Meant[c].username \in Text /\ Meant[c].password \in Text
    BY MeantAssumption DEF Credentials
  <2>2. typed' \in [Command -> Credentials]
    BY <1>2, <2>1, FocusIsField DEF Type, TypeOK, Credentials
  <2>. QED
    BY <1>2, <2>2 DEF Type, TypeOK
<1>3. ASSUME NEW c \in Command, Confirm(c) PROVE TypeOK'
  <2>1. at' \in [Command -> {1, 2}]
    <3>1. Len(Prompts(args[c])) \in {1, 2} /\ at[c] \in 1..Len(Prompts(args[c]))
      BY <1>3, FocusIsField DEF Confirm
    <3>2. at[c] < Len(Prompts(args[c])) => at[c] + 1 \in {1, 2}
      <4>1. ASSUME NEW n \in {1, 2}, NEW i \in 1..n, i < n PROVE i + 1 \in {1, 2}
        BY <4>1
      <4>. QED
        BY <3>1, <4>1
    <3>3. at' = at \/ (at[c] < Len(Prompts(args[c])) /\ at' = [at EXCEPT ![c] = @ + 1])
      BY <1>3 DEF Confirm
    <3>. HIDE DEF IndInv
    <3>4. at \in [Command -> {1, 2}]
      BY DEF IndInv, TypeOK
    <3>. QED
      BY <3>2, <3>3, <3>4
  <2>2. pairs' \in [Command -> Pairs]
    BY <1>3, GivenType DEF Confirm, TypeOK
  <2>. QED
    BY <1>3, <2>1, <2>2 DEF Confirm, TypeOK, Goto, Labels, Calls
<1>4. ASSUME NEW c \in Command, Quit(c) PROVE TypeOK'
  <2>1. pairs' \in [Command -> Pairs]
    BY <1>4, GivenType DEF Quit, TypeOK
  <2>. QED
    BY <1>4, <2>1 DEF Quit, TypeOK, prompt, Goto, Labels, Calls
<1>5. ASSUME NEW c \in Command, Manage(c) \/ Target(c) PROVE TypeOK'
  BY <1>5 DEF Manage, Target, TypeOK, prompt, Goto, Labels, Calls, Failed
<1>6. ASSUME NEW c \in Command, Read(c) PROVE TypeOK'
  <2>1. Readable(args[c].path) => ReadTargetPath(args[c].path) \in Pairs
    <3>1. args[c].path \in Path
      BY <1>6, ArgsType DEF Read, Prompting
    <3>. QED
      BY <3>1, PathIsUsers
  <2>. QED
    BY <1>6, <2>1 DEF Read, TypeOK, prompt, Goto, Labels, Calls, Failed
<1>7. ASSUME NEW c \in Command, Create(c) PROVE TypeOK'
  <2>1. roles' \in [Text -> Text \cup {NoRole}]
    BY <1>7, RoleType DEF Create, TypeOK
  <2>2. todo' \in [Command -> Pairs]
    BY <1>7 DEF Create, Done, TypeOK, Pairs
  <2>3. pc' \in [Command -> Labels]
    BY <1>7 DEF Create, Done, Goto, TypeOK, Labels, Calls, Failed
  <2>. QED
    BY <1>7, <2>1, <2>2, <2>3 DEF Create, TypeOK, prompt
<1>8. ASSUME NEW c \in Command, CallFails(c) PROVE TypeOK'
  <2>1. roles' \in [Text -> Text \cup {NoRole}]
    BY <1>8, RoleType DEF CallFails, TypeOK
  <2>. QED
    BY <1>8, <2>1 DEF CallFails, TypeOK, prompt, Goto, Labels, Failed
<1>9. ASSUME (\E p \in Pod : PodLost(p) \/ PodStarted(p)) \/ UNCHANGED vars PROVE TypeOK'
  BY <1>9 DEF PodLost, PodStarted, vars, TypeOK, prompt
<1>. QED
  BY <1>1, <1>2, <1>3, <1>4, <1>5, <1>6, <1>7, <1>8, <1>9 DEF Next, Step, Keys

-----------------------------------------------------------------------------
(* Prompts and what is typed. *)

LEMMA StepPrompting ==
  ASSUME IndInv, [Next]_vars PROVE Prompting' /\ Answered'
<1>. USE DEF IndInv
<1>1. ASSUME NEW c \in Command, Start(c) \/ Retry(c) PROVE Prompting' /\ Answered'
  <2>1. PICK a \in Inputs : Begin(c, a)
    BY <1>1, Begins
  <2>2. Prompting'
    <3>1. Prompts(a) # <<>> => 1 \in DOMAIN Prompts(a)
      BY PromptsAre
    <3>. QED
      BY <2>1, <3>1 DEF Begin, Prompting, TypeOK, FromPath, Goto
  <2>3. Answered'
    BY <2>1, BlankType DEF Begin, Answered, TypeOK
  <2>. QED
    BY <2>2, <2>3
<1>2. ASSUME NEW c \in Command, Type(c) PROVE Prompting' /\ Answered'
  <2>1. Prompting'
    BY <1>2 DEF Type, Prompting, FromPath
  <2>2. Answered'
    BY <1>2, FocusIsField DEF Type, Answered, TypeOK, Credentials
  <2>. QED
    BY <2>1, <2>2
<1>3. ASSUME NEW c \in Command, Confirm(c) PROVE Prompting' /\ Answered'
  <2>1. CASE at' = at
    BY <1>3, <2>1 DEF Confirm, Prompting, Answered, TypeOK, FromPath, Goto
  <2>2. CASE /\ at[c] < Len(Prompts(args[c]))
             /\ at' = [at EXCEPT ![c] = @ + 1]
             /\ UNCHANGED <<pc, pairs>>
    <3>1. at[c] + 1 \in DOMAIN Prompts(args[c])
      <4>1. Len(Prompts(args[c])) \in {1, 2} /\ at[c] \in 1..Len(Prompts(args[c]))
        BY <1>3, FocusIsField DEF Confirm
      <4>2. DOMAIN Prompts(args[c]) = 1..Len(Prompts(args[c]))
        BY PromptsAre
      <4>3. ASSUME NEW n \in {1, 2}, NEW i \in 1..n, i < n PROVE i + 1 \in 1..n
        BY <4>3
      <4>. QED
        BY <2>2, <4>1, <4>2, <4>3
    <3>. QED
      BY <1>3, <2>2, <3>1 DEF Confirm, Prompting, Answered, TypeOK, FromPath
  <2>. QED
    BY <1>3, <2>1, <2>2 DEF Confirm
<1>4. ASSUME NEW c \in Command, Quit(c) PROVE Prompting' /\ Answered'
  BY <1>4 DEF Quit, Prompting, Answered, TypeOK, FromPath, Goto, prompt
<1>5. ASSUME NEW c \in Command, Manage(c) \/ Target(c) \/ Read(c) \/ Create(c) \/ CallFails(c)
      PROVE  Prompting' /\ Answered'
  <2>1. /\ args' = args /\ typed' = typed /\ at' = at
        /\ pc[c] \in Calls
        /\ \A d \in Command : pc'[d] = pc[d] \/ (d = c /\ pc'[c] # "prompt")
        /\ \A d \in Command : pc'[d] = "read" => pc[d] = "read" \/ FromPath(d)
    BY <1>5 DEF Manage, Target, Read, Create, Done, CallFails, Goto, TypeOK, prompt, Calls
  <2>. QED
    BY <2>1 DEF Prompting, Answered, FromPath, Calls
<1>6. ASSUME (\E p \in Pod : PodLost(p) \/ PodStarted(p)) \/ UNCHANGED vars
      PROVE  Prompting' /\ Answered'
  BY <1>6 DEF PodLost, PodStarted, vars, Prompting, Answered, FromPath, prompt
<1>. QED
  BY <1>1, <1>2, <1>3, <1>4, <1>5, <1>6 DEF Next, Step, Keys

-----------------------------------------------------------------------------
(* What commands may send, and what they have sent. *)

\* A command that was started stays so and keeps its arguments.
LEMMA ArgsStay ==
  ASSUME IndInv, [Next]_vars, NEW c \in Command, pc[c] # "idle"
  PROVE  pc'[c] # "idle" /\ args'[c] = args[c]
<1>. USE DEF IndInv
<1>1. ASSUME NEW d \in Command, Start(d) \/ Retry(d) PROVE pc'[c] # "idle" /\ args'[c] = args[c]
  <2>1. PICK a \in Inputs : Begin(d, a) /\ (pc[d] = "idle" \/ a = args[d])
    BY <1>1, Begins
  <2>. QED
    BY <2>1 DEF Begin, Goto, TypeOK
<1>2. ASSUME NEW d \in Command, Type(d) \/ Confirm(d) \/ Quit(d)
      PROVE  pc'[c] # "idle" /\ args'[c] = args[c]
  BY <1>2 DEF Type, Confirm, Quit, Goto, TypeOK
<1>3. ASSUME NEW d \in Command, Manage(d) \/ Target(d) \/ Read(d) \/ Create(d) \/ CallFails(d)
      PROVE  pc'[c] # "idle" /\ args'[c] = args[c]
  BY <1>3 DEF Manage, Target, Read, Create, Done, CallFails, Goto, TypeOK
<1>4. ASSUME (\E p \in Pod : PodLost(p) \/ PodStarted(p)) \/ UNCHANGED vars
      PROVE  pc'[c] # "idle" /\ args'[c] = args[c]
  BY <1>4 DEF PodLost, PodStarted, vars
<1>. QED
  BY <1>1, <1>2, <1>3, <1>4 DEF Next, Step, Keys

LEMMA SameArgs ==
  ASSUME NEW c \in Command, args'[c] = args[c]
  PROVE  MaySend(c)' = MaySend(c) /\ FromPath(c)' = FromPath(c)
  BY DEF MaySend, FromPath

LEMMA MaySendStays ==
  ASSUME IndInv, [Next]_vars, NEW c \in Command, pc[c] # "idle"
  PROVE  MaySend(c)' = MaySend(c) /\ FromPath(c)' = FromPath(c) /\ pc'[c] # "idle"
  BY ArgsStay, SameArgs

\* Only a command that creates its users changes roles, and for one that is left.
Writes(c, pair) == pc[c] = "create" /\ pair \in todo[c] /\ Role(pair)

LEMMA RolesChange ==
  ASSUME IndInv, [Next]_vars
  PROVE  roles' = roles \/ \E c \in Command : \E pair \in todo[c] : Writes(c, pair)
<1>. USE DEF IndInv
<1>1. ASSUME NEW c \in Command, Start(c) \/ Retry(c) PROVE roles' = roles
  BY <1>1, Begins DEF Begin
<1>2. ASSUME NEW c \in Command, Keys(c) \/ Manage(c) \/ Target(c) \/ Read(c) PROVE roles' = roles
  BY <1>2 DEF Keys, Type, Confirm, Quit, Manage, Target, Read
<1>3. ASSUME NEW c \in Command, Create(c) \/ CallFails(c)
      PROVE  roles' = roles \/ \E pair \in todo[c] : Writes(c, pair)
  BY <1>3 DEF Create, CallFails, Writes
<1>4. ASSUME (\E p \in Pod : PodLost(p) \/ PodStarted(p)) \/ UNCHANGED vars PROVE roles' = roles
  BY <1>4 DEF PodLost, PodStarted, vars
<1>. QED
  BY <1>1, <1>2, <1>3, <1>4 DEF Next, Step

LEMMA WrittenIsSent ==
  ASSUME IndInv, [Next]_vars, NEW c \in Command, NEW pair \in todo[c], Writes(c, pair)
  PROVE  Sender(c, pair[1])' /\ roles'[pair[1]] # NoRole
<1>1. /\ pair[1] \in Text /\ pair[2] \in Text /\ pair = <<pair[1], pair[2]>>
      /\ roles'[pair[1]] = pair[2]
  BY RoleType DEF IndInv, Writes
<1>2. pair \in MaySend(c) /\ pc[c] # "idle"
  BY DEF IndInv, Progress, Paired, Writes
<1>. QED
  BY <1>1, <1>2, MaySendStays, TextAssumption DEF Sender

LEMMA SenderStays ==
  ASSUME IndInv, [Next]_vars, NEW c \in Command, NEW name, Sender(c, name),
         roles'[name] = roles[name]
  PROVE  Sender(c, name)'
  BY MaySendStays DEF Sender

LEMMA StepSent ==
  ASSUME IndInv, [Next]_vars PROVE Sent'
<1>. SUFFICES ASSUME NEW name \in Text, roles'[name] # NoRole
              PROVE  \E c \in Command : Sender(c, name)'
  BY DEF Sent
<1>1. CASE roles'[name] = roles[name]
  BY <1>1, SenderStays DEF IndInv, Sent
<1>2. CASE roles'[name] # roles[name]
  <2>1. PICK c \in Command : \E pair \in todo[c] : Writes(c, pair)
    BY <1>2, RolesChange
  <2>2. PICK pair \in todo[c] : Writes(c, pair)
    BY <2>1
  <2>3. name = pair[1]
    BY <1>2, <2>2, RoleType DEF IndInv, Writes
  <2>. QED
    BY <2>2, <2>3, WrittenIsSent
<1>. QED
  BY <1>1, <1>2

LEMMA StepPaired ==
  ASSUME IndInv, [Next]_vars PROVE Paired'
<1>. USE DEF IndInv
<1>. DEFINE Fine(c) == pairs[c] \subseteq MaySend(c) /\ OnePassword(pairs[c])
<1>1. ASSUME NEW c \in Command, pairs'[c] = pairs[c], pc[c] # "idle" PROVE Fine(c)'
  BY <1>1, MaySendStays DEF Paired, OnePassword
<1>2. ASSUME NEW c \in Command, pairs'[c] = {} PROVE Fine(c)'
  BY <1>2 DEF OnePassword
<1>3. ASSUME NEW c \in Command, pairs'[c] = pairs[c], args'[c] = args[c] PROVE Fine(c)'
  BY <1>3, SameArgs DEF Paired, OnePassword
<1>4. ASSUME NEW c \in Command, Start(c) \/ Retry(c), NEW d \in Command PROVE Fine(d)'
  <2>1. PICK a \in Inputs : Begin(c, a)
    BY <1>4, Begins
  <2>2. CASE d # c
    BY <1>3, <2>1, <2>2 DEF Begin, TypeOK
  <2>3. CASE d = c /\ pairs'[c] # {}
    <3>1. /\ Valid(a) /\ a.path = NoPath /\ pairs'[c] = Given(a, Blank) /\ args'[c] = a
      BY <2>1, <2>3 DEF Begin, TypeOK
    <3>2. MaySend(c)' =
            (IF a.username # Empty THEN {a.username} ELSE {Empty, Meant[c].username})
            \X (IF a.password # Empty THEN {a.password} ELSE {Empty, Meant[c].password})
      BY <3>1 DEF MaySend, FromPath
    <3>3. OnePassword(Given(a, Blank)) /\ Given(a, Blank) \subseteq MaySend(c)'
      BY <3>1, <3>2, BlankType, GivenIsSaid
    <3>. QED
      BY <2>3, <3>1, <3>3 DEF OnePassword
  <2>. QED
    BY <1>2, <2>2, <2>3
<1>5. ASSUME NEW c \in Command, Confirm(c) \/ Quit(c), NEW d \in Command PROVE Fine(d)'
  <2>1. args' = args /\ pc[c] = "prompt"
    BY <1>5 DEF Confirm, Quit
  <2>2. CASE pairs'[d] = pairs[d]
    BY <1>3, <2>1, <2>2
  <2>3. CASE pairs'[d] # pairs[d]
    <3>1. d = c /\ \E values \in {typed[c], Blank} : pairs'[c] = Given(args[c], values)
      BY <1>5, <2>3 DEF Confirm, Quit, TypeOK
    <3>. QED
      BY <2>1, <3>1, GivenType, SameArgs DEF OnePassword
  <2>. QED
    BY <2>2, <2>3
<1>6. ASSUME NEW c \in Command, Type(c) \/ Manage(c) \/ Target(c) \/ Create(c) \/ CallFails(c),
             NEW d \in Command
      PROVE  Fine(d)'
  <2>1. args' = args /\ pairs' = pairs
    BY <1>6 DEF Type, Manage, Target, Create, CallFails
  <2>. QED
    BY <1>3, <2>1
<1>7. ASSUME NEW c \in Command, Read(c), NEW d \in Command PROVE Fine(d)'
  <2>1. args' = args /\ pc[c] = "read"
    BY <1>7 DEF Read
  <2>2. CASE pairs'[d] = pairs[d]
    BY <1>3, <2>1, <2>2
  <2>3. CASE pairs'[d] # pairs[d]
    <3>1. d = c /\ pairs'[c] = ReadTargetPath(args[c].path)
      BY <1>7, <2>3 DEF Read, TypeOK
    <3>2. FromPath(c) /\ args[c].path \in Path
      BY <2>1, ArgsType DEF Prompting
    <3>3. pairs'[c] = MaySend(c) /\ OnePassword(MaySend(c))
      BY <3>1, <3>2, PathIsUsers DEF MaySend
    <3>. QED
      BY <2>1, <3>1, <3>3, SameArgs DEF OnePassword
  <2>. QED
    BY <2>2, <2>3
<1>8. ASSUME (\E p \in Pod : PodLost(p) \/ PodStarted(p)) \/ UNCHANGED vars, NEW d \in Command
      PROVE  Fine(d)'
  <2>1. args' = args /\ pairs' = pairs
    BY <1>8 DEF PodLost, PodStarted, vars
  <2>. QED
    BY <1>3, <2>1
<1>. HIDE DEF Fine, IndInv
<1>9. ASSUME NEW d \in Command PROVE Fine(d)'
  BY <1>4, <1>5, <1>6, <1>7, <1>8 DEF Next, Step, Keys
<1>. QED
  BY <1>9 DEF Paired, Fine

-----------------------------------------------------------------------------
(* How far a command is. *)

\* A user that is there stays, whoever writes.
LEMMA ThereStays ==
  ASSUME IndInv, [Next]_vars, NEW c \in Command, pc[c] \in {"create", "ok"},
         NEW pair \in pairs[c] \ todo[c]
  PROVE  There(c, pair)'
<1>1. There(c, pair) /\ todo[c] \subseteq pairs[c] /\ OnePassword(pairs[c])
  BY DEF IndInv, Progress, Paired
<1>2. CASE roles'[pair[1]] = roles[pair[1]]
  <2>1. CASE roles[pair[1]] = pair[2]
    BY <1>2, <2>1 DEF There
  <2>2. CASE roles[pair[1]] # NoRole /\ \E d \in Command \ {c} : Sender(d, pair[1])
    <3>1. PICK d \in Command \ {c} : Sender(d, pair[1])
      BY <2>2
    <3>2. Sender(d, pair[1])'
      BY <1>2, <3>1, SenderStays
    <3>. QED
      BY <1>2, <2>2, <3>2 DEF There
  <2>. QED
    BY <1>1, <2>1, <2>2 DEF There
<1>3. CASE roles'[pair[1]] # roles[pair[1]]
  <2>1. PICK d \in Command : \E other \in todo[d] : Writes(d, other)
    BY <1>3, RolesChange
  <2>2. PICK other \in todo[d] : Writes(d, other)
    BY <2>1
  <2>3. pair[1] = other[1]
    <3>1. pair[1] \in Text
      BY DEF IndInv, TypeOK, Pairs
    <3>. QED
      BY <1>3, <2>2, <3>1, RoleType DEF IndInv, Writes
  <2>4. Sender(d, pair[1])' /\ roles'[pair[1]] # NoRole
    BY <2>2, <2>3, WrittenIsSent
  <2>5. d # c
    BY <1>1, <2>2, <2>3 DEF OnePassword
  <2>. QED
    BY <2>4, <2>5 DEF There
<1>. QED
  BY <1>2, <1>3

LEMMA StepProgress ==
  ASSUME IndInv, [Next]_vars PROVE Progress'
<1>. USE DEF IndInv
<1>. DEFINE Going(c) == /\ pairs[c] = Wanted(c)
                        /\ todo[c] \subseteq pairs[c]
                        /\ \A pair \in pairs[c] \ todo[c] : There(c, pair)
                        /\ pc[c] = "ok" => todo[c] = {}
<1>1. SUFFICES ASSUME NEW c \in Command, pc'[c] \in {"create", "ok"} PROVE Going(c)'
  BY DEF Progress
<1>2. CASE /\ pc'[c] = pc[c] /\ pairs'[c] = pairs[c] /\ todo'[c] = todo[c]
  <2>1. Wanted(c)' = Wanted(c)
    BY <1>1, <1>2, ArgsStay DEF Wanted, FromPath
  <2>2. Going(c)
    BY <1>1, <1>2 DEF Progress
  <2>3. \A pair \in pairs[c] \ todo[c] : There(c, pair)'
    BY <1>1, <1>2, ThereStays
  <2>. HIDE DEF IndInv
  <2>. QED
    BY <1>2, <2>1, <2>2, <2>3
<1>3. CASE Target(c)
  <2>1. pc[c] = "target" /\ pairs'[c] = pairs[c] /\ todo'[c] = pairs[c] /\ ~FromPath(c)
        /\ args' = args /\ pc'[c] = "create"
    BY <1>1, <1>3 DEF Target, Goto, TypeOK
  <2>. QED
    BY <2>1 DEF Wanted, FromPath
<1>4. CASE Read(c)
  <2>1. /\ pc[c] = "read" /\ args' = args
        /\ pairs'[c] = ReadTargetPath(args[c].path) /\ todo'[c] = pairs'[c]
        /\ pc'[c] = "ok" => todo'[c] = {}
    BY <1>1, <1>4 DEF Read, Goto, TypeOK
  <2>2. FromPath(c) /\ args[c].path \in Path
    BY <2>1, ArgsType DEF Prompting
  <2>3. pairs'[c] = Wanted(c)'
    BY <2>1, <2>2, PathIsUsers DEF Wanted, FromPath
  <2>. QED
    BY <2>1, <2>3
<1>5. CASE Create(c)
  <2>1. PICK pair \in todo[c] : /\ pc[c] = "create" /\ pairs' = pairs /\ args' = args
                                /\ Role(pair) /\ todo'[c] = todo[c] \ {pair}
                                /\ pc'[c] = "ok" => todo[c] = {pair}
    BY <1>1, <1>5 DEF Create, Done, Goto, TypeOK
  <2>2. Wanted(c)' = pairs[c] /\ todo[c] \subseteq pairs[c]
    BY <2>1 DEF Progress, Wanted, FromPath
  <2>3. There(c, pair)'
    BY <2>1, RoleType DEF There
  <2>4. \A done \in pairs[c] \ todo[c] : There(c, done)'
    BY <2>1, ThereStays
  <2>. HIDE DEF IndInv
  <2>. QED
    BY <2>1, <2>2, <2>3, <2>4
\* Whatever else happens leaves the command as it is or does not bring it here.
<1>6. ASSUME ~Target(c), ~Read(c), ~Create(c)
      PROVE  pc'[c] = pc[c] /\ pairs'[c] = pairs[c] /\ todo'[c] = todo[c]
  <2>1. ASSUME NEW d \in Command, Start(d) \/ Retry(d)
        PROVE  pc'[c] = pc[c] /\ pairs'[c] = pairs[c] /\ todo'[c] = todo[c]
    <3>1. PICK a \in Inputs : Begin(d, a)
      BY <2>1, Begins
    <3>. QED
      BY <1>1, <3>1 DEF Begin, Goto, TypeOK
  <2>2. ASSUME NEW d \in Command, Type(d) \/ Confirm(d) \/ Quit(d) \/ Manage(d) \/ CallFails(d)
        PROVE  pc'[c] = pc[c] /\ pairs'[c] = pairs[c] /\ todo'[c] = todo[c]
    BY <1>1, <2>2 DEF Type, Confirm, Quit, Manage, CallFails, Goto, TypeOK
  <2>3. ASSUME NEW d \in Command, d # c, Target(d) \/ Read(d) \/ Create(d)
        PROVE  pc'[c] = pc[c] /\ pairs'[c] = pairs[c] /\ todo'[c] = todo[c]
    BY <2>3 DEF Target, Read, Create, Done, Goto, TypeOK
  <2>4. ASSUME (\E p \in Pod : PodLost(p) \/ PodStarted(p)) \/ UNCHANGED vars
        PROVE  pc'[c] = pc[c] /\ pairs'[c] = pairs[c] /\ todo'[c] = todo[c]
    BY <2>4 DEF PodLost, PodStarted, vars
  <2>. HIDE DEF IndInv
  <2>. QED
    BY <1>6, <2>1, <2>2, <2>3, <2>4 DEF Next, Step, Keys
<1>. HIDE DEF Going, IndInv
<1>. QED
  BY <1>2, <1>3, <1>4, <1>5, <1>6

-----------------------------------------------------------------------------
LEMMA InitInv == Init => IndInv
  BY TextAssumption DEF Init, IndInv, TypeOK, Prompting, Answered, Paired, OnePassword, Sent,
       Progress, Blank, Credentials, Pairs, Labels

\* The inductive invariant: the users a command has are ones it may send, and those it no
\* longer has to create are there (add.go:112-159, users.go:26-71).
THEOREM Inductive == Spec => []IndInv
<1>1. IndInv /\ [Next]_vars => IndInv'
  BY StepType, StepPrompting, StepPaired, StepSent, StepProgress DEF IndInv
<1>. QED
  BY <1>1, InitInv, PTL DEF Spec

\* No role ever has another's password: what is in Cassandra is a pair from one line of
\* a file, one secret directory, one set of arguments or one round of prompts, whatever
\* fails and is run again (mount.go:29-103, prompt.go:56-95, add.go:150-158).
THEOREM PasswordsArePaired == Spec => []PasswordsStayPaired
<1>1. IndInv => PasswordsStayPaired
  BY DEF IndInv, Sent, Sender, PasswordsStayPaired
<1>. QED
  BY <1>1, Inductive, PTL

\* A command that ends well has created all its users, each with its password, unless
\* another command that was started is for the same user (users.go:31-37).
THEOREM OkIsComplete == Spec => []OkMeansAllAdded
<1>1. IndInv => OkMeansAllAdded
  <2>. SUFFICES ASSUME IndInv, NEW c \in Command, pc[c] = "ok", NEW pair \in Wanted(c)
                PROVE  \/ roles[pair[1]] = pair[2]
                       \/ /\ roles[pair[1]] # NoRole
                          /\ \E d \in Command \ {c} : <<pair[1], roles[pair[1]]>> \in MaySend(d)
    BY DEF OkMeansAllAdded
  <2>1. There(c, pair)
    BY DEF IndInv, Progress
  <2>. QED
    BY <2>1 DEF There, Sender
<1>. QED
  BY <1>1, Inductive, PTL
=============================================================================
