----------------------------- MODULE MCOperate -----------------------------
(* Small instances of Operate: two or three commands on one datacenter. *)
EXTENDS Operate

CONSTANTS u, v, w

Do(op, wait) == [op |-> op, wait |-> wait]
AllThree == [c \in Command |->
    CASE c = u -> Do("stop", TRUE) [] c = v -> Do("start", TRUE) [] OTHER -> Do("restart", TRUE)]
Restarts == [c \in Command |-> IF c = u THEN Do("restart", TRUE) ELSE Do("stop", FALSE)]

EveryKind == ClientKinds \cup {"CassandraTask"}
CommandsOwn == {ClientKinds}
CallersOwn == {EveryKind}
EitherClient == CommandsOwn \cup CallersOwn
=============================================================================
