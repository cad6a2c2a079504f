----------------------------- MODULE MCThreads ------------------------------
(* Instances of Threads for TLC. *)
EXTENDS Threads

\* What the program may do besides creating, joining and detaching threads
Programs == {{"sched", "fail"}, {"kill"}, {"sync"}, {"detached", "timeout"}}
KillAndSync == {{"kill", "sync"}}
=============================================================================
