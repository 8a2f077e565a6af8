------------------------------ MODULE ExecGate ------------------------------
(***************************************************************************)
(* How the threads of ex2/fs/operations.c get in and out of the file       *)
(* system: single_global_lock around every operation, and the gate made of *)
(* tfs_exec_allowed, can_exec, open_files and all_files_were_closed that   *)
(* tfs_open, tfs_close and tfs_destroy_after_all_closed share.             *)
(*                                                                         *)
(* One step is one critical section, or its entry where someone can see    *)
(* the lock held.  The file tables are reduced to the set of TAKEN handles *)
(* (module TecnicoFS has the rest): an open may fail at any time.  A lock  *)
(* of the destroyed mutex fails with EINVAL and destroying a locked one    *)
(* with EBUSY, as glibc does.  Callers close handles tfs_open returned,    *)
(* each once (operations.h:47-51).                                         *)
(***************************************************************************)
EXTENDS Integers, FiniteSets

CONSTANTS
    Thread,
    Handle,
    UINT_MAX,      \* the largest unsigned int
    MaxFailed,     \* bound: how many opens may fail in one behaviour
    Free,          \* a mutex nobody holds
    Destroyed      \* the mutex after pthread_mutex_destroy

ASSUME GateAssumption ==
    /\ IsFiniteSet(Handle) /\ IsFiniteSet(Thread)
    /\ Free \notin Thread /\ Destroyed \notin Thread /\ Free # Destroyed
    /\ -1 \notin Handle
    /\ UINT_MAX \in Nat /\ MaxFailed \in Nat
    /\ Cardinality(Handle) + Cardinality(Thread) + MaxFailed <= UINT_MAX

VARIABLES
    tfs_exec_allowed,      \* the thread holding this mutex, or Free
    single_global_lock,    \* the same, or Destroyed
    can_exec,
    open_files,
    waiting,               \* threads blocked on all_files_were_closed
    taken,                 \* TAKEN entries of the open file table
    pc,                    \* what each thread is in the middle of
    arg,                   \* the handle each thread is opening or closing
    held,                  \* handles callers got and have not closed
    failed                 \* history: how many opens have failed

locks == <<tfs_exec_allowed, single_global_lock>>
gate == <<can_exec, open_files, waiting>>
vars == <<tfs_exec_allowed, single_global_lock, can_exec, open_files, waiting,
          taken, pc, arg, held, failed>>

PC == {"idle", "lookup", "open_lock", "open", "open_count", "close",
       "close_count", "destroy_wait", "destroy", "destroyed", "destroy_failed"}

\* What tfs_init leaves: both mutexes free, the gate open, no file open.
Init ==
    /\ tfs_exec_allowed = Free
    /\ single_global_lock = Free
    /\ can_exec = TRUE
    /\ open_files = 0
    /\ waiting = {}
    /\ taken = {}
    /\ pc = [t \in Thread |-> "idle"]
    /\ arg = [t \in Thread |-> -1]
    /\ held = {}
    /\ failed = 0

Goto(t, label) == pc' = [pc EXCEPT ![t] = label]
\* A critical section of tfs_exec_allowed that runs in one step.
GateFree == tfs_exec_allowed = Free

-----------------------------------------------------------------------------
(* tfs_lookup, tfs_read, tfs_write: one critical section of the global lock *)

lookup_lock(t) ==
    /\ pc[t] = "idle"
    /\ single_global_lock = Free
    /\ single_global_lock' = t
    /\ Goto(t, "lookup")
    /\ UNCHANGED <<tfs_exec_allowed, gate, taken, arg, held, failed>>

lookup_unlock(t) ==
    /\ pc[t] = "lookup"
    /\ single_global_lock' = Free
    /\ Goto(t, "idle")
    /\ UNCHANGED <<tfs_exec_allowed, gate, taken, arg, held, failed>>

-----------------------------------------------------------------------------
(* tfs_open *)

\* Opens that may still fail.
Opening == {t \in Thread : pc[t] \in {"open_lock", "open"}}

\* The gate is looked at, and let go of, before the global lock is taken.
open_check(t) ==
    /\ pc[t] = "idle"
    /\ failed + Cardinality(Opening) < MaxFailed
    /\ GateFree
    /\ can_exec
    /\ Goto(t, "open_lock")
    /\ UNCHANGED <<locks, gate, taken, arg, held, failed>>

open_lock(t) ==
    /\ pc[t] = "open_lock"
    /\ \/ /\ single_global_lock = Free
          /\ single_global_lock' = t
          /\ Goto(t, "open")
       \/ /\ single_global_lock = Destroyed
          /\ Goto(t, "idle")
          /\ UNCHANGED single_global_lock
    /\ UNCHANGED <<tfs_exec_allowed, gate, taken, arg, held, failed>>

\* _tfs_open_unsynchronized, then the unlock.
open_body(t) ==
    /\ pc[t] = "open"
    /\ \/ \E h \in Handle \ taken : /\ taken' = taken \cup {h}
                                    /\ arg' = [arg EXCEPT ![t] = h]
                                    /\ UNCHANGED failed
       \/ /\ arg' = [arg EXCEPT ![t] = -1]
          /\ failed' = failed + 1
          /\ UNCHANGED taken
    /\ single_global_lock' = Free
    /\ Goto(t, "open_count")
    /\ UNCHANGED <<tfs_exec_allowed, gate, held>>

Increment(n) == IF n = UINT_MAX THEN 0 ELSE n + 1
Decrement(n) == IF n = 0 THEN UINT_MAX ELSE n - 1

\* Mutant: a failed open is taken for a handle.
open_count_HoldsFailure(t) ==
    /\ pc[t] = "open_count"
    /\ GateFree
    /\ open_files' = Increment(open_files)
    /\ held' = held \cup {arg[t]}
    /\ Goto(t, "idle")
    /\ UNCHANGED <<locks, can_exec, waiting, taken, arg, failed>>

\* Every open that got this far is counted, the failed ones too.
open_count(t) ==
    /\ pc[t] = "open_count"
    /\ GateFree
    /\ open_files' = Increment(open_files)
    /\ held' = held \cup ({arg[t]} \ {-1})
    /\ Goto(t, "idle")
    /\ UNCHANGED <<locks, can_exec, waiting, taken, arg, failed>>

-----------------------------------------------------------------------------
(* tfs_close *)

close_lock(t, h) ==
    /\ pc[t] = "idle"
    /\ h \in held
    /\ single_global_lock = Free
    /\ single_global_lock' = t
    /\ held' = held \ {h}
    /\ arg' = [arg EXCEPT ![t] = h]
    /\ Goto(t, "close")
    /\ UNCHANGED <<tfs_exec_allowed, gate, taken, failed>>

close_body(t) ==
    /\ pc[t] = "close"
    /\ taken' = taken \ {arg[t]}
    /\ single_global_lock' = Free
    /\ Goto(t, "close_count")
    /\ UNCHANGED <<tfs_exec_allowed, gate, arg, held, failed>>

\* pthread_cond_signal wakes one waiter, if there is one.
Signal ==
    \/ waiting = {} /\ waiting' = {}
    \/ \E d \in waiting : waiting' = waiting \ {d}

\* Mutants: the count is not lowered; nobody is told that it reached zero.
close_count_NoDecrement(t) ==
    /\ pc[t] = "close_count"
    /\ GateFree
    /\ IF open_files = 0 THEN Signal ELSE waiting' = waiting
    /\ Goto(t, "idle")
    /\ UNCHANGED <<locks, can_exec, open_files, taken, arg, held, failed>>

close_count_NoSignal(t) ==
    /\ pc[t] = "close_count"
    /\ GateFree
    /\ open_files' = Decrement(open_files)
    /\ Goto(t, "idle")
    /\ UNCHANGED <<locks, can_exec, waiting, taken, arg, held, failed>>

close_count(t) ==
    /\ pc[t] = "close_count"
    /\ GateFree
    /\ open_files' = Decrement(open_files)
    /\ IF open_files' = 0 THEN Signal ELSE waiting' = waiting
    /\ Goto(t, "idle")
    /\ UNCHANGED <<locks, can_exec, taken, arg, held, failed>>

-----------------------------------------------------------------------------
(* tfs_destroy_after_all_closed *)

\* Mutant: the loop is gone.
CheckAllClosed_NoWait(d) ==
    /\ tfs_exec_allowed' = d
    /\ Goto(d, "destroy")
    /\ UNCHANGED waiting

\* The loop's test, with tfs_exec_allowed taken: wait, or go on holding it.
CheckAllClosed(d) ==
    \/ /\ open_files # 0
       /\ waiting' = waiting \cup {d}
       /\ Goto(d, "destroy_wait")
       /\ UNCHANGED tfs_exec_allowed
    \/ /\ open_files = 0
       /\ tfs_exec_allowed' = d
       /\ Goto(d, "destroy")
       /\ UNCHANGED waiting

destroy_enter(d) ==
    /\ pc[d] = "idle"
    /\ GateFree
    /\ can_exec
    /\ can_exec' = FALSE
    /\ CheckAllClosed(d)
    /\ UNCHANGED <<single_global_lock, open_files, taken, arg, held, failed>>

\* A waiter may wake without a signal.
spurious_wakeup(d) ==
    /\ d \in waiting
    /\ waiting' = waiting \ {d}
    /\ UNCHANGED <<locks, can_exec, open_files, taken, pc, arg, held, failed>>

destroy_recheck(d) ==
    /\ pc[d] = "destroy_wait"
    /\ d \notin waiting
    /\ GateFree
    /\ CheckAllClosed(d)
    /\ UNCHANGED <<single_global_lock, can_exec, open_files, taken, arg, held, failed>>

\* tfs_destroy.  When it fails, tfs_exec_allowed is never unlocked.
destroy_tables(d) ==
    /\ pc[d] = "destroy"
    /\ IF single_global_lock = Free
       THEN /\ single_global_lock' = Destroyed
            /\ tfs_exec_allowed' = Free
            /\ Goto(d, "destroyed")
       ELSE /\ Goto(d, "destroy_failed")
            /\ UNCHANGED locks
    /\ UNCHANGED <<gate, taken, arg, held, failed>>

\* tfs_open and tfs_destroy_after_all_closed find the gate shut: they return -1.
refused(t) ==
    /\ pc[t] = "idle"
    /\ GateFree
    /\ ~ can_exec
    /\ UNCHANGED vars

-----------------------------------------------------------------------------

\* The rest of a call once it has begun.
Continue(t) ==
    \/ lookup_unlock(t)
    \/ open_lock(t) \/ open_body(t) \/ open_count(t)
    \/ close_body(t) \/ close_count(t)
    \/ destroy_recheck(t) \/ destroy_tables(t)

Begin(t) ==
    \/ lookup_lock(t) \/ open_check(t) \/ refused(t) \/ destroy_enter(t)
    \/ \E h \in Handle : close_lock(t, h)

Next == \E t \in Thread : Begin(t) \/ Continue(t) \/ spurious_wakeup(t)

Spec == Init /\ [][Next]_vars

\* A thread inside a call goes on with it when it can.  Nobody has to begin
\* one, and no lock is granted in any particular order.
FairSpec == Spec /\ \A t \in Thread : WF_vars(Continue(t))

-----------------------------------------------------------------------------
(* Properties *)

TypeOK ==
    /\ tfs_exec_allowed \in Thread \cup {Free}
    /\ single_global_lock \in Thread \cup {Free, Destroyed}
    /\ can_exec \in BOOLEAN
    /\ open_files \in 0 .. UINT_MAX
    /\ waiting \subseteq Thread
    /\ taken \subseteq Handle
    /\ pc \in [Thread -> PC]
    /\ arg \in [Thread -> Handle \cup {-1}]
    /\ held \subseteq Handle
    /\ failed \in 0 .. MaxFailed

Closing == {t \in Thread : pc[t] \in {"close", "close_count"}}

\* Failed opens on their way to be counted.
Failing == {t \in Thread : pc[t] = "open_count" /\ arg[t] = -1}

\* open_files counts, without ever wrapping, the handles callers hold, the
\* closes that have not counted themselves off yet, and every failed open.
CountExact ==
    open_files + Cardinality(Failing)
      = Cardinality(held) + Cardinality(Closing) + failed

\* The tables are destroyed only once every handle a tfs_open returned was
\* closed and its tfs_close has counted itself off.
DestroyAfterCloses ==
    [][single_global_lock' = Destroyed /\ single_global_lock # Destroyed
       => held = {} /\ Closing = {}]_vars

\* tfs_destroy_after_all_closed does not wait forever while no file is open: no
\* wakeup is lost.  The exception is a failed open that was counted, although
\* operations.h:22 says it "Waits until no file is open".
DestroyReturns ==
    \A d \in Thread : ~ <>[](pc[d] = "destroy_wait" /\ taken = {} /\ failed = 0)

\* No file is open once tecnicofs is destroyed (operations.h:22).
NoFileOpenAfterDestroy == single_global_lock = Destroyed => taken = {}
=============================================================================
