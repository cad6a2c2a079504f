-------------------------- MODULE MCInternalLock --------------------------
(* Three threads, two of them created and exiting, one or two rounds of    *)
(* spinning before a thread queues itself.                                 *)
EXTENDS InternalLock

\* Any value below -(number of threads + 1) separates flag and count.
MCIntMin == -8
=============================================================================
