------------------------------ MODULE MCUsers ------------------------------
(* Small instances of Users: files, secret directories, arguments, prompts. *)
EXTENDS Users

CONSTANTS u, v, p1, p2

MCText == {"", "username", "password", "alice", "bob", "a1", "a2", "b1"}

Entry(key, value) == [key |-> key, value |-> value, plain |-> TRUE]
NotPlain == [key |-> "", value |-> "", plain |-> FALSE]

Mount == <<Entry("password", "a2"), Entry("username", "alice")>>
MCDisk ==
    [ \* Two users, one of them twice, and a line without "=".
      list   |-> [dir |-> FALSE, items |-> <<Entry("alice", "a1"), NotPlain, Entry("bob", "b1"), Entry("alice", "a2")>>],
      mount  |-> [dir |-> TRUE, items |-> Mount],
      \* The timestamped directory, its link "..data" and the links to its files.
      volume |-> [dir |-> TRUE, items |-> Mount \o <<NotPlain>> \o Mount] ]

MCMeant == [c \in Command |-> [username |-> "bob", password |-> "b1"]]

By(path, username, password) ==
    [dc |-> TRUE, path |-> path, username |-> username, password |-> password]
EverySource == {By("list", "", ""), By("mount", "", ""), By("", "", ""), By("", "alice", "a1")}
\* And a password for nobody.
Arguments == EverySource \cup {By("", "", "b1")}
Volume == {By("volume", "", "")}
=============================================================================
