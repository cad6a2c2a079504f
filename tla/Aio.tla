-------------------------------- MODULE Aio ---------------------------------
(***************************************************************************)
(* aio.c and aio_suspend.c for one file descriptor: every request has a    *)
(* thread that submits it and a worker that carries it out; besides, one   *)
(* thread calls aio_cancel (or close, which does the same) and each of the *)
(* Callers may call aio_suspend.  Mutexes, the read-write lock of the map, *)
(* the condition variable and the creation of a worker are taken in one    *)
(* step: Mutex, RWLock, CondVar and Threads are about them.                *)
(***************************************************************************)
EXTENDS Integers, Sequences, FiniteSets, SequencesExt

CONSTANTS Reqs, Nobody,
          Callers,      \* the threads that call aio_suspend, by their tids
          Programs,     \* records [op, append, cancels, suspends]: the
                        \* operation of each request ("read", "write", "sync",
                        \* or "none" if it is not made), whether the descriptor
                        \* appends, whether aio_cancel is called and the
                        \* requests each caller gives aio_suspend
          MaxQueues     \* how many aio_queue objects may be allocated

VARIABLES
    prog,       \* the program: an element of Programs
    map,        \* the queue of the descriptor in the map, 0 if none
    maplock,    \* [w: the writer, r: the readers]
    q,          \* queues: [ref, list, owner, freed]; list has the newest first
    made,       \* how many queues have been allocated
    spc, wpc,   \* the submitter's and the worker's position
    my,         \* the queue each request uses
    err,        \* cb->__err: "none", "busy" (EINPROGRESS), "busyw" (with the
                \* sign bit), "ok", "canceled" or "again"
    aterr,      \* at.err
    running,    \* at.running
    waiting,    \* workers in pthread_cond_wait
    canceled,   \* workers with a cancellation pending
    cpc, cq, cat, said,   \* aio_cancel: position, queue, list position, what
                          \* it found out about each request
    fut,        \* __aio_fut: Nobody (0) or the tid of a caller
    upc,        \* each caller's position in aio_suspend
    expect      \* the value of __aio_fut each caller will sleep on

cvars == <<cpc, cq, cat, said>>
uvars == <<fut, upc, expect>>
vars == <<prog, map, maplock, q, made, spc, wpc, my, err, aterr, running,
          waiting, canceled, cvars, uvars>>

Sub(r) == <<"submit", r>>
Wrk(r) == <<"worker", r>>
Canceller == <<"cancel", Nobody>>
Idle == <<"none", Nobody>>
NewQueue == [ref |-> 0, list |-> <<>>, owner |-> Idle, freed |-> FALSE]

Init ==
    /\ prog \in Programs
    /\ map = 0 /\ made = 0
    /\ maplock = [w |-> Idle, r |-> {}]
    /\ q = [i \in 1..MaxQueues |-> NewQueue]
    /\ spc = [r \in Reqs |-> IF prog.op[r] = "none" THEN "none" ELSE "start"]
    /\ wpc = [r \in Reqs |-> "none"]
    /\ my = [r \in Reqs |-> 0]
    /\ err = [r \in Reqs |-> "none"]
    /\ aterr = [r \in Reqs |-> "canceled"]
    /\ running = [r \in Reqs |-> 0]
    /\ waiting = {} /\ canceled = {}
    /\ cpc = "idle" /\ cq = 0 /\ cat = 0
    /\ said = [r \in Reqs |-> "none"]
    /\ fut = Nobody
    /\ upc = [c \in Callers |-> "idle"]
    /\ expect = [c \in Callers |-> Nobody]

MapFree == maplock = [w |-> Idle, r |-> {}]
ReadLockMap(a) == maplock.w = Idle /\ maplock' = [maplock EXCEPT !.r = @ \cup {a}]
WriteLockMap(a) == MapFree /\ maplock' = [maplock EXCEPT !.w = a]
UnlockMap(a) == maplock' = [w |-> IF maplock.w = a THEN Idle ELSE maplock.w,
                            r |-> maplock.r \ {a}]

Free(i) == q[i].owner = Idle
InProgress(r) == err[r] \in {"busy", "busyw"}

-----------------------------------------------------------------------------
(* submit *)

S(r, from, to) == spc[r] = from /\ spc' = [spc EXCEPT ![r] = to]

\* __aio_get_queue(fd, 1): look the queue up under a read lock ...
SubmitLook(r) ==
    /\ spc[r] = "start"
    /\ spc' = [spc EXCEPT ![r] = IF map = 0 THEN "make" ELSE "lock"]
    /\ IF map = 0 THEN maplock.w = Idle /\ UNCHANGED maplock
       ELSE ReadLockMap(Sub(r))
    /\ my' = [my EXCEPT ![r] = map]
    /\ UNCHANGED <<prog, map, q, made, wpc, err, aterr, running, waiting, canceled,
                   cvars, uvars>>

\* ... and make it, unless somebody else has, under a write lock.
SubmitMake(r) ==
    /\ S(r, "make", "lock")
    /\ WriteLockMap(Sub(r))
    /\ IF map # 0 THEN UNCHANGED <<made, map>>
       ELSE made < MaxQueues /\ made' = made + 1 /\ map' = made + 1
    /\ my' = [my EXCEPT ![r] = map']
    /\ UNCHANGED <<prog, q, wpc, err, aterr, running, waiting, canceled, cvars, uvars>>

\* The queue is locked before the map is let go.
SubmitLock(r) ==
    /\ S(r, "lock", "ref")
    /\ Free(my[r])
    /\ q' = [q EXCEPT ![my[r]].owner = Sub(r)]
    /\ UnlockMap(Sub(r))
    /\ UNCHANGED <<prog, map, made, wpc, my, err, aterr, running, waiting, canceled,
                   cvars, uvars>>

\* q->ref++; unlock; cb->__err = EINPROGRESS
SubmitRef(r) ==
    /\ S(r, "ref", "create")
    /\ q' = [q EXCEPT ![my[r]].ref = @ + 1, ![my[r]].owner = Idle]
    /\ err' = [err EXCEPT ![r] = "busy"]
    /\ UNCHANGED <<prog, map, maplock, made, wpc, my, aterr, running, waiting, canceled,
                   cvars, uvars>>

\* pthread_create makes the worker; or fails: lock the queue, unref it and
\* report EAGAIN.  The worker's labels serve for the unref.
SubmitCreate(r) ==
    /\ spc[r] = "create"
    /\ \/ /\ spc' = [spc EXCEPT ![r] = "posted"]
          /\ wpc' = [wpc EXCEPT ![r] = "lock"]
       \/ /\ Cardinality({p \in Reqs : spc[p] = "failed"}) = 0
          /\ spc' = [spc EXCEPT ![r] = "failed"]
          /\ wpc' = [wpc EXCEPT ![r] = "failing"]
    /\ UNCHANGED <<prog, map, maplock, q, made, my, err, aterr, running, waiting, canceled,
                   cvars, uvars>>

SubmitFailing(r) ==
    /\ wpc[r] = "failing" /\ Free(my[r])
    /\ q' = [q EXCEPT ![my[r]].owner = Wrk(r)]
    /\ wpc' = [wpc EXCEPT ![r] = "unref"]
    /\ aterr' = [aterr EXCEPT ![r] = "again"]
    /\ UNCHANGED <<prog, map, maplock, made, spc, my, err, running, waiting, canceled,
                   cvars, uvars>>

-----------------------------------------------------------------------------
(* io_thread_func *)

W(r, from, to) == wpc[r] = from /\ wpc' = [wpc EXCEPT ![r] = to]

Sequenced(r) == prog.op[r] # "read" /\ (prog.op[r] # "write" \/ prog.append)

\* Requests that were in the list before r
Earlier(r) ==
    LET list == q[my[r]].list
    IN {list[i] : i \in {j \in 1..Len(list) : \E k \in 1..j - 1 : list[k] = r}}

\* Lock, post, link at the head
WorkerStart(r) ==
    /\ W(r, "lock", "sequence") /\ spc[r] = "posted"
    /\ Free(my[r])
    /\ q' = [q EXCEPT ![my[r]].owner = Wrk(r), ![my[r]].list = <<r>> \o @]
    /\ spc' = [spc EXCEPT ![r] = "returned"]
    /\ running' = [running EXCEPT ![r] = 1]
    /\ UNCHANGED <<prog, map, maplock, made, my, err, aterr, waiting, canceled,
                   cvars, uvars>>

\* Variant: an fsync does not wait.
WorkerSequenceHasty(r) ==
    /\ W(r, "sequence", "io")
    /\ q' = [q EXCEPT ![my[r]].owner = Idle]
    /\ UNCHANGED <<prog, map, maplock, made, spc, my, err, aterr, running, waiting, canceled,
                   cvars, uvars>>

\* Wait for the writes before it, in pthread_cond_wait; else unlock.
WorkerSequence(r) ==
    LET blocked == Sequenced(r) /\ \E p \in Earlier(r) : prog.op[p] = "write"
    IN /\ W(r, "sequence", IF blocked THEN "condwait" ELSE "io")
       /\ q' = [q EXCEPT ![my[r]].owner = Idle]
       /\ waiting' = IF blocked THEN waiting \cup {r} ELSE waiting
       /\ UNCHANGED <<prog, map, maplock, made, spc, my, err, aterr, running, canceled,
                      cvars, uvars>>

\* Back from the wait, signalled or cancelled, with the mutex held.  A
\* cancelled worker runs the cleanup handler right away.
WorkerWoken(r) ==
    /\ W(r, "condwait", IF r \in canceled THEN "cleanup" ELSE "sequence")
    /\ r \notin waiting \/ r \in canceled
    /\ Free(my[r])
    /\ q' = [q EXCEPT ![my[r]].owner = Wrk(r)]
    /\ waiting' = waiting \ {r}
    /\ UNCHANGED <<prog, map, maplock, made, spc, my, err, aterr, running, canceled,
                   cvars, uvars>>

\* The input or output call: a cancellation point
WorkerIO(r) ==
    /\ W(r, "io", "cleanup")
    /\ \/ aterr' = [aterr EXCEPT ![r] = "ok"]
       \/ r \in canceled /\ UNCHANGED aterr
    /\ UNCHANGED <<prog, map, maplock, q, made, spc, my, err, running, waiting, canceled,
                   cvars, uvars>>

\* cleanup: a_swap(&at->running, 0), which ends the canceller's wait
CleanupRunning(r) ==
    /\ W(r, "cleanup", "seterr")
    /\ running' = [running EXCEPT ![r] = 0]
    /\ UNCHANGED <<prog, map, maplock, q, made, spc, my, err, aterr, waiting, canceled,
                   cvars, uvars>>

\* The callers asleep on a word wake and go round the loop of aio_suspend.
WakeCallers(asleep) == upc' = [c \in Callers |-> IF c \in asleep THEN "check" ELSE upc[c]]

\* a_swap(&cb->__err, at->err); callers that wait for this request are woken
CleanupErr(r) ==
    /\ W(r, "seterr", "setfut")
    /\ err' = [err EXCEPT ![r] = aterr[r]]
    /\ WakeCallers({c \in Callers : err[r] = "busyw" /\ upc[c] = "asleep1" /\ prog.suspends[c] = {r}})
    /\ UNCHANGED <<prog, map, maplock, q, made, spc, my, aterr, running, waiting, canceled,
                   cvars, fut, expect>>

\* if (a_swap(&__aio_fut, 0)), every caller that waits on a list is woken,
\* whatever value it went to sleep on
CleanupFut(r) ==
    /\ W(r, "setfut", "relock")
    /\ fut' = Nobody
    /\ WakeCallers({c \in Callers : fut # Nobody /\ upc[c] = "asleep"})
    /\ UNCHANGED <<prog, map, maplock, q, made, spc, my, err, aterr, running, waiting, canceled,
                   cvars, expect>>

\* Lock the queue, leave the list, wake the workers that wait for it.  A
\* default mutex is not free for the thread that holds it.
CleanupLeave(r) ==
    /\ W(r, "relock", "unref")
    /\ Free(my[r])
    /\ q' = [q EXCEPT ![my[r]].owner = Wrk(r),
                      ![my[r]].list = SelectSeq(@, LAMBDA p : p # r)]
    /\ waiting' = {}
    /\ UNCHANGED <<prog, map, maplock, made, spc, my, err, aterr, running, canceled,
                   cvars, uvars>>

\* __aio_unref_queue: not the last reference; or let the lock go, since the
\* map's comes first.
Unref(r) ==
    /\ wpc[r] = "unref"
    /\ IF q[my[r]].ref > 1
       THEN /\ wpc' = [wpc EXCEPT ![r] = "done"]
            /\ q' = [q EXCEPT ![my[r]].ref = @ - 1, ![my[r]].owner = Idle]
       ELSE /\ wpc' = [wpc EXCEPT ![r] = "wrlock"]
            /\ q' = [q EXCEPT ![my[r]].owner = Idle]
    /\ UNCHANGED <<prog, map, maplock, made, spc, my, err, aterr, running, waiting, canceled,
                   cvars, uvars>>

UnrefMap(r) ==
    /\ W(r, "wrlock", "last")
    /\ WriteLockMap(Wrk(r))
    /\ UNCHANGED <<prog, map, q, made, spc, my, err, aterr, running, waiting, canceled,
                   cvars, uvars>>

\* Variant: the count is not looked at again.
UnrefLastBlind(r) ==
    /\ W(r, "last", "done")
    /\ Free(my[r])
    /\ map' = 0
    /\ q' = [q EXCEPT ![my[r]].ref = @ - 1, ![my[r]].freed = TRUE]
    /\ UnlockMap(Wrk(r))
    /\ UNCHANGED <<prog, made, spc, my, err, aterr, running, waiting, canceled, cvars, uvars>>

\* With both locks: it is still the last, or a new one has come.
UnrefLast(r) ==
    /\ W(r, "last", "done")
    /\ Free(my[r])
    /\ IF q[my[r]].ref = 1
       THEN map' = 0 /\ q' = [q EXCEPT ![my[r]].ref = 0, ![my[r]].freed = TRUE]
       ELSE q' = [q EXCEPT ![my[r]].ref = @ - 1] /\ UNCHANGED map
    /\ UnlockMap(Wrk(r))
    /\ UNCHANGED <<prog, made, spc, my, err, aterr, running, waiting, canceled, cvars, uvars>>

\* The rest of submit after a failed pthread_create: cb->__err = EAGAIN
SubmitFailed(r) ==
    /\ wpc[r] = "done" /\ spc[r] = "failed" /\ InProgress(r)
    /\ err' = [err EXCEPT ![r] = "again"]
    /\ UNCHANGED <<prog, map, maplock, q, made, spc, wpc, my, aterr, running, waiting, canceled,
                   cvars, uvars>>

-----------------------------------------------------------------------------
(* aio_cancel with a null aiocb: everything on the descriptor *)

C(from, to) == cpc = from /\ cpc' = to

Cancel ==
    /\ cpc = "idle" /\ prog.cancels
    /\ IF map = 0 THEN cpc' = "over" /\ maplock.w = Idle /\ UNCHANGED <<maplock, cq>>
       ELSE cpc' = "lock" /\ ReadLockMap(Canceller) /\ cq' = map
    /\ UNCHANGED <<prog, map, q, made, spc, wpc, my, err, aterr, running, waiting, canceled,
                   cat, said, uvars>>

CancelLock ==
    /\ C("lock", "next")
    /\ Free(cq)
    /\ q' = [q EXCEPT ![cq].owner = Canceller]
    /\ cat' = 1
    /\ UnlockMap(Canceller)
    /\ UNCHANGED <<prog, map, made, spc, wpc, my, err, aterr, running, waiting, canceled,
                   cq, said, uvars>>

\* a_cas(&p->running, 1, -1) and pthread_cancel; or the end of the list
CancelNext ==
    /\ cpc = "next"
    /\ IF cat > Len(q[cq].list)
       THEN /\ cpc' = "over" /\ cq' = 0 /\ cat' = 0
            /\ q' = [q EXCEPT ![cq].owner = Idle]
            /\ UNCHANGED <<running, canceled>>
       ELSE LET p == q[cq].list[cat]
            IN /\ IF running[p] = 0
                  THEN cat' = cat + 1 /\ UNCHANGED <<cpc, running, canceled>>
                  ELSE /\ cpc' = "wait"
                       /\ running' = [running EXCEPT ![p] = -1]
                       /\ canceled' = canceled \cup {p}
                       /\ UNCHANGED cat
               /\ UNCHANGED <<cq, q>>
    /\ UNCHANGED <<prog, map, maplock, made, spc, wpc, my, err, aterr, waiting, said, uvars>>

\* __wait(&p->running, 0, -1, 1), then p->err == ECANCELED
CancelWait ==
    LET p == q[cq].list[cat]
    IN /\ C("wait", "next")
       /\ running[p] # -1
       /\ said' = [said EXCEPT ![p] = aterr[p]]
       /\ cat' = cat + 1
       /\ UNCHANGED <<prog, map, maplock, q, made, spc, wpc, my, err, aterr, running, waiting,
                      canceled, cq, uvars>>

-----------------------------------------------------------------------------
(* aio_suspend, called once its requests have been submitted *)

U(c, from, to) == upc[c] = from /\ upc' = [upc EXCEPT ![c] = to]
Rest == <<prog, map, maplock, q, made, spc, wpc, my, aterr, running, waiting, canceled, cvars>>

Suspend(c) ==
    /\ prog.suspends[c] # {}
    /\ \A r \in prog.suspends[c] : spc[r] = "returned" \/ (spc[r] = "failed" /\ ~InProgress(r))
    /\ U(c, "idle", "check")
    /\ UNCHANGED <<Rest, err, fut, expect>>

AnyDone(c) == \E r \in prog.suspends[c] : ~InProgress(r)

\* The predicate
SuspendCheck(c) ==
    /\ U(c, "check", IF AnyDone(c) THEN "over" ELSE "mark")
    /\ expect' = [expect EXCEPT ![c] = Nobody]
    /\ UNCHANGED <<Rest, err, fut>>

\* The mark of a waiter: the sign bit of __err if there is one request; else the
\* tid in __aio_fut, unless another caller's is there: then wait on that.
SuspendMark(c) ==
    /\ \/ /\ Cardinality(prog.suspends[c]) = 1
          /\ U(c, "mark", "sleep1")
          /\ err' = [r \in Reqs |-> IF r \in prog.suspends[c] /\ err[r] = "busy" THEN "busyw"
                                    ELSE err[r]]
          /\ UNCHANGED <<fut, expect>>
       \/ /\ Cardinality(prog.suspends[c]) > 1
          /\ U(c, "mark", "recheck")
          /\ fut' = IF fut = Nobody THEN c ELSE fut
          /\ expect' = [expect EXCEPT ![c] = fut']
          /\ UNCHANGED err
    /\ UNCHANGED Rest

\* "Need to recheck the predicate before waiting."
SuspendRecheck(c) ==
    /\ U(c, "recheck", IF AnyDone(c) THEN "over" ELSE "sleep")
    /\ expect' = [expect EXCEPT ![c] = IF AnyDone(c) THEN Nobody ELSE @]
    /\ UNCHANGED <<Rest, err, fut>>

\* __timedwait_cp(pfut, expect, ...) sleeps if the word has the value expected.
SuspendSleep(c) ==
    /\ \/ U(c, "sleep1", IF \E r \in prog.suspends[c] : err[r] = "busyw" THEN "asleep1" ELSE "check")
       \/ U(c, "sleep", IF fut = expect[c] THEN "asleep" ELSE "check")
    /\ UNCHANGED <<Rest, err, fut, expect>>

\* It returns ETIMEDOUT, ECANCELED or EINTR, and so does aio_suspend: the mark
\* stays where it is.
SuspendGiveUp(c) ==
    /\ upc[c] \in {"sleep1", "asleep1", "sleep", "asleep"}
    /\ upc' = [upc EXCEPT ![c] = "over"]
    /\ expect' = [expect EXCEPT ![c] = Nobody]
    /\ UNCHANGED <<Rest, err, fut>>

-----------------------------------------------------------------------------
SubmitStep(r) ==
    \/ SubmitLook(r) \/ SubmitMake(r) \/ SubmitLock(r) \/ SubmitRef(r) \/ SubmitCreate(r)
WorkerStep(r) ==
    \/ SubmitFailing(r) \/ SubmitFailed(r)
    \/ WorkerStart(r) \/ WorkerSequence(r) \/ WorkerWoken(r) \/ WorkerIO(r)
    \/ CleanupRunning(r) \/ CleanupErr(r) \/ CleanupFut(r) \/ CleanupLeave(r)
    \/ Unref(r) \/ UnrefMap(r) \/ UnrefLast(r)
CancelStep == CancelLock \/ CancelNext \/ CancelWait
SuspendStep(c) == SuspendCheck(c) \/ SuspendMark(c) \/ SuspendRecheck(c) \/ SuspendSleep(c)

Next == \/ \E r \in Reqs : SubmitStep(r) \/ WorkerStep(r)
        \/ Cancel \/ CancelStep
        \/ \E c \in Callers : Suspend(c) \/ SuspendStep(c) \/ SuspendGiveUp(c)

Fairness == /\ \A r \in Reqs : WF_vars(SubmitStep(r)) /\ WF_vars(WorkerStep(r))
            /\ WF_vars(CancelStep)
            /\ \A c \in Callers : WF_vars(SuspendStep(c))

Spec == Init /\ [][Next]_vars
LiveSpec == Spec /\ Fairness

-----------------------------------------------------------------------------
\* Requests whose submitter or worker may still use its queue
Using(i) == {r \in Reqs : my[r] = i /\ (spc[r] \in {"lock", "ref", "create", "posted"}
                                       \/ wpc[r] \notin {"none", "done"})}

\* A queue is freed only when nobody uses it, aio_cancel included, although
\* the last worker has to let its lock go in order to free it; the count of
\* references is the number of requests that have taken one; and the queue in
\* the map, the only one of the descriptor in use, is not freed.
QueueOutlivesUse ==
    \A i \in 1..MaxQueues :
       /\ q[i].freed => Using(i) = {} /\ cq # i /\ map # i
       /\ Using(i) # {} => map = i
       /\ q[i].ref = Cardinality({r \in Using(i) : spc[r] \notin {"lock", "ref"}})

\* A sequenced request does its work only when no earlier write is left, and
\* what aio_cancel says of a request is what aio_error will say.
SequenceAndVerdict ==
    /\ \A r \in Reqs : wpc[r] = "io" /\ Sequenced(r) =>
          \A p \in Earlier(r) : prog.op[p] # "write"
    /\ \A r \in Reqs : said[r] # "none" =>
          said[r] = aterr[r] /\ err[r] \in {"busy", "busyw", said[r]}

\* Every request submitted ends, and aio_suspend returns: no completion slips
\* between its test and its sleep.  aio_cancel returns, in programs in which
\* it meets no sequenced request (see CancelReturns).  Several callers wait on
\* a list in programs in which all wait for every request (see SuspendReturns).
Served ==
    /\ \A r \in Reqs : spc[r] \in {"none", "returned", "failed"} /\ ~InProgress(r)
    /\ \A c \in Callers : upc[c] \in {"idle", "over"}
    /\ cpc \in {"idle", "over"}

\* aio.c:170 counts "callers of aio_cancel/close" among the waiters a worker
\* wakes when it ends: aio_cancel returns.
CancelReturns == []<>(cpc \in {"idle", "over"})

\* aio.c:170 counts "callers of aio_suspend with a list" among the waiters a
\* worker wakes when it ends: when all requests end, aio_suspend returns.
SuspendReturns == []<>(\A c \in Callers : upc[c] \in {"idle", "over"})
=============================================================================
