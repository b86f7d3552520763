--------------------------- MODULE RegistrationBook ---------------------------
(***************************************************************************)
(* What `kubectl k8ssandra register` promises a control plane: under each  *)
(* destination name at most one data plane is ever registered, its entry   *)
(* is never replaced, and a ClientConfig is published only for an entry.   *)
(***************************************************************************)
CONSTANTS
    Cluster,     \* clusters, as control planes and as data planes
    Name,        \* destination names
    Unclaimed    \* no data plane under this name

VARIABLES
    book,        \* [Cluster -> [Name -> Cluster \cup {Unclaimed}]]
    published    \* SUBSET (Cluster \X Name)

Init ==
    /\ book = [d \in Cluster |-> [n \in Name |-> Unclaimed]]
    /\ published = {}

Claim(d, n, c) ==
    /\ book[d][n] = Unclaimed
    /\ book' = [book EXCEPT ![d][n] = c]
    /\ UNCHANGED published

Publish(d, n) ==
    /\ book[d][n] # Unclaimed
    /\ published' = published \cup {<<d, n>>}
    /\ UNCHANGED book

Next == \E d \in Cluster, n \in Name :
            Publish(d, n) \/ \E c \in Cluster : Claim(d, n, c)

Spec == Init /\ [][Next]_<<book, published>>
=============================================================================
