------------------------------ MODULE MCRWLock ------------------------------
(* Three threads that read and write in any order; the limit of two        *)
(* readers can be reached.                                                 *)
EXTENDS RWLock
=============================================================================
