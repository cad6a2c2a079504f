------------------------------- MODULE MCAio --------------------------------
(* Instances of Aio for TLC: a program for each question asked of it. *)
EXTENDS Aio

\* aio_cancel meets a request that waits its turn.
CancelMeetsSequenced ==
    {[op |-> <<"write", "sync", "none">>, append |-> TRUE, cancels |-> TRUE, suspends |-> <<{}>>]}

\* Two callers of aio_suspend wait on lists that are not the same.
ListsDiffer ==
    {[op |-> <<"read", "read", "read">>, append |-> FALSE, cancels |-> FALSE,
      suspends |-> <<{1, 2}, {2, 3}>>]}
=============================================================================
