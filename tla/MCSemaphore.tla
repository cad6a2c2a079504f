---------------------------- MODULE MCSemaphore ----------------------------
(* Three threads that wait, try and post in any order on a semaphore whose *)
(* limit of two can be reached.                                            *)
EXTENDS Semaphore
=============================================================================
