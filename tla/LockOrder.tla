----------------------------- MODULE LockOrder ------------------------------
(***************************************************************************)
(* The lock operations of fork and of the rest of the library, call by     *)
(* call: what each takes, in which order, while it holds what.  What a     *)
(* call does in between is left out.                                       *)
(***************************************************************************)
EXTENDS Integers, Sequences, SequencesExt

Take(l) == [do |-> "take", lock |-> l]    \* exclusively
Read(l) == [do |-> "read", lock |-> l]    \* with others that read
Drop(l) == [do |-> "drop", lock |-> l]
Wait(l) == [do |-> "wait", lock |-> l]    \* __vm_wait: until nobody is in it
TheFork == [do |-> "fork", lock |-> ""]

Under(l, s) == <<Take(l)>> \o s \o <<Drop(l)>>
malloc == Under("malloc", <<>>)

atfork_locks == <<"at_quick_exit", "atexit", "gettext", "locale", "random", "sem_open",
                  "stdio_ofl", "syslog", "timezone", "bump">>

Locks == {"atfork", "ldso", "init_fini", "key", "aio", "ptc", "malloc", "tl", "vm", "abort"}
            \cup ToSet(atfork_locks)

-----------------------------------------------------------------------------
(* The calls *)

Each(op(_), ls) == [i \in 1..Len(ls) |-> op(ls[i])]

\* Variant: the thread list comes before the keys.
forkPrepareTL ==
    <<Take("atfork"), Take("ldso"), Take("init_fini"), Take("tl"), Read("key"), Read("aio"),
      Take("ptc")>>
      \o Each(Take, atfork_locks) \o <<Take("malloc")>>

\* __fork_handler(-1), __ldso_atfork(-1), __pthread_key_atfork(-1),
\* __aio_atfork(-1), __inhibit_ptc, the list, __malloc_atfork(-1), __tl_lock
forkPrepare ==
    <<Take("atfork"), Take("ldso"), Take("init_fini"), Read("key"), Read("aio"), Take("ptc")>>
      \o Each(Take, atfork_locks) \o <<Take("malloc"), Take("tl")>>

\* _Fork and, in the parent, everything let go
_Fork == <<Take("abort"), TheFork, Drop("abort")>>
forkParent ==
    <<Drop("tl"), Drop("malloc")>> \o Each(Drop, atfork_locks)
      \o <<Drop("ptc"), Drop("aio"), Drop("key"), Drop("init_fini"), Drop("ldso"), Drop("atfork")>>

\* load_library allocates; a failure unmaps, and munmap waits for the vm lock;
\* install_new_tls takes the thread list; constructors run after the unlock
\* under init_fini_lock alone, which is let go around each.
dlopen ==
    <<Take("ldso"), Take("ptc")>> \o malloc \o Under("init_fini", <<>>)
      \o Under("tl", <<>>) \o <<Wait("vm"), Drop("ptc"), Drop("ldso")>>
      \o Under("init_fini", <<>>) \o Under("init_fini", <<>>)

pthread_atfork == malloc \o Under("atfork", <<>>)
dlsym == <<Read("ldso"), Drop("ldso")>>
\* stdio locks at first, then the thread itself
pthread_create ==
    Under("stdio_ofl", <<>>) \o <<Read("ptc"), Take("tl"), Drop("tl"), Drop("ptc")>>
pthread_setattr_default_np == Under("ptc", <<>>)
\* __pthread_tsd_run_dtors, __vm_wait, the thread list, the robust list
pthread_exit ==
    <<Read("key"), Drop("key"), Wait("vm"), Take("tl"), Read("vm"), Drop("vm"), Drop("tl")>>
pthread_key_create == Under("key", <<>>)
pthread_key_delete == Under("key", Under("tl", <<>>))
\* __aio_get_queue, which may allocate, and the worker
aio_submit ==
    <<Read("aio"), Drop("aio")>> \o Under("aio", malloc)
      \o <<Read("ptc"), Take("tl"), Drop("tl"), Drop("ptc")>>
aio_cancel == <<Read("aio"), Drop("aio")>>
aio_unref_queue == Under("aio", <<>>) \o malloc
at_quick_exit == Under("at_quick_exit", <<>>)
atexit == Under("atexit", malloc)
bindtextdomain == Under("gettext", malloc)
setlocale == Under("locale", malloc)
random == Under("random", <<>>)
sem_open == Under("sem_open", malloc) \o Under("sem_open", <<Wait("vm")>>)
fopen == malloc \o Under("stdio_ofl", <<>>)
syslog == Under("syslog", <<>>)
\* do_tzset unmaps the old zone file and allocates the new name.
tzset == Under("timezone", <<Wait("vm")>> \o malloc)
simple_malloc == Under("bump", <<>>)
sigaction == Under("abort", <<>>)
pthread_mutex_unlock == <<Read("vm"), Drop("vm")>>

Script == [
    fork |-> forkPrepare \o _Fork \o forkParent, pthread_atfork |-> pthread_atfork,
    dlopen |-> dlopen, dlsym |-> dlsym, pthread_create |-> pthread_create,
    pthread_setattr_default_np |-> pthread_setattr_default_np, pthread_exit |-> pthread_exit,
    pthread_key_create |-> pthread_key_create, pthread_key_delete |-> pthread_key_delete,
    aio_submit |-> aio_submit, aio_cancel |-> aio_cancel, aio_unref_queue |-> aio_unref_queue,
    at_quick_exit |-> at_quick_exit, atexit |-> atexit, bindtextdomain |-> bindtextdomain,
    setlocale |-> setlocale, random |-> random, sem_open |-> sem_open, fopen |-> fopen,
    syslog |-> syslog, tzset |-> tzset, simple_malloc |-> simple_malloc,
    sigaction |-> sigaction, pthread_mutex_unlock |-> pthread_mutex_unlock]
=============================================================================
