------------------------------ MODULE MCMutex ------------------------------
(* Instances of Mutex for TLC. *)
EXTENDS Mutex, TLC

Private ==
    {[kind |-> "normal", robust |-> r, shared |-> FALSE] : r \in BOOLEAN}
        \cup {[kind |-> "recursive", robust |-> TRUE, shared |-> FALSE],
              [kind |-> "errorcheck", robust |-> FALSE, shared |-> FALSE]}
Shared == [kind : {"recursive"}, robust : BOOLEAN, shared : {TRUE}]
All == Private \cup Shared
Robust == [kind : {"normal"}, robust : {TRUE}, shared : {FALSE}]
Recursive == [kind : {"recursive"}, robust : {FALSE}, shared : {FALSE}]

\* Nothing tells the threads apart.
Symmetry == Permutations(Threads)
=============================================================================
