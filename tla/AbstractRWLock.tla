--------------------------- MODULE AbstractRWLock ---------------------------
(***************************************************************************)
(* What a read-write lock promises: any number of readers or one writer.   *)
(* Readers are preferred: a reader is granted the lock whenever no writer  *)
(* has it, however many writers ask.                                       *)
(***************************************************************************)
CONSTANT Threads

VARIABLES askR, askW,         \* threads inside a lock function
          readers, writers    \* threads that hold the lock

vars == <<askR, askW, readers, writers>>

Busy == askR \cup askW \cup readers \cup writers

Init == askR = {} /\ askW = {} /\ readers = {} /\ writers = {}

AskRead(t) ==
    /\ t \notin Busy
    /\ askR' = askR \cup {t}
    /\ UNCHANGED <<askW, readers, writers>>

AskWrite(t) ==
    /\ t \notin Busy
    /\ askW' = askW \cup {t}
    /\ UNCHANGED <<askR, readers, writers>>

GiveUp(t) ==
    /\ t \in askR \cup askW
    /\ askR' = askR \ {t}
    /\ askW' = askW \ {t}
    /\ UNCHANGED <<readers, writers>>

GrantRead(t) ==
    /\ t \in askR /\ writers = {}
    /\ askR' = askR \ {t}
    /\ readers' = readers \cup {t}
    /\ UNCHANGED <<askW, writers>>

GrantWrite(t) ==
    /\ t \in askW /\ writers = {} /\ readers = {}
    /\ askW' = askW \ {t}
    /\ writers' = {t}
    /\ UNCHANGED <<askR, readers>>

Release(t) ==
    /\ t \in readers \cup writers
    /\ readers' = readers \ {t}
    /\ writers' = writers \ {t}
    /\ UNCHANGED <<askR, askW>>

Next == \E t \in Threads :
           \/ AskRead(t) \/ AskWrite(t) \/ GiveUp(t)
           \/ GrantRead(t) \/ GrantWrite(t) \/ Release(t)

Spec == Init /\ [][Next]_vars
=============================================================================
