----------------------------- MODULE FineLocks ------------------------------
(***************************************************************************)
(* How the operations of ex1 interleave.  There is no global lock: a call  *)
(* takes the lock of its handle, the lock of an inode and a few mutexes,   *)
(* and lets them go in between.  A critical section that waits for nothing *)
(* inside is one step; a lock that is held while the call waits for        *)
(* another one, or over several accesses, is a variable.                   *)
(*                                                                         *)
(* A write appends one unit to what its handle has behind it and a read    *)
(* takes one unit; which blocks hold the bytes is module FileBlocks.  A    *)
(* call that returns at once because of its arguments is no step.  The     *)
(* code also looks whether the inode it has locked was deleted meanwhile   *)
(* (T_PREV_USED): InodesAccounted and HandlesAccounted say it never was.   *)
(***************************************************************************)
EXTENDS Integers, FiniteSets

CONSTANTS
    Thread, NoThread,
    Name, NoName,
    INODE_TABLE_SIZE, MAX_DIR_ENTRIES, MAX_OPEN_FILES,
    MAX_FILE_SIZE,
    OpenFlags,         \* the flags callers open with
    Left,              \* a mutex whose holder returned without unlocking it
    MaxCalls           \* how many calls each thread makes

FlagNames == {"TFS_O_CREAT", "TFS_O_TRUNC", "TFS_O_APPEND"}

ASSUME LockAssumption ==
    /\ NoThread \notin Thread /\ Left \notin Thread \cup {NoThread}
    /\ NoName \notin Name /\ OpenFlags \subseteq SUBSET FlagNames
    /\ INODE_TABLE_SIZE \in Nat \ {0, 1} /\ MAX_DIR_ENTRIES \in Nat
    /\ MAX_OPEN_FILES \in Nat \ {0} /\ MAX_FILE_SIZE \in Nat \ {0}
    /\ MaxCalls \in [Thread -> Nat]

VARIABLES
    freeinode_ts,                \* the FREE inodes
    inode_table,                 \* i_node_type and i_size
    root_dir,                    \* the entries in the root directory's block
    free_open_file_entries,      \* the FREE handles
    open_file_table,
    inode_rw_locks,              \* who holds each inode: the writer, the readers
    open_file_entries_rw_locks,  \* who holds each handle (only for writing)
    aux_buffer_mtx,              \* who holds it
    aux_buffer,                  \* the file last read into it
    call,                        \* where each thread is in its call
    calls,                       \* how many calls it has begun
    given,                       \* handles callers got and have not closed
    dropped                      \* history: handles failed copies left open

inodeVars == <<freeinode_ts, inode_table>>
handleVars == <<free_open_file_entries, open_file_table>>
lockVars == <<inode_rw_locks, open_file_entries_rw_locks>>
auxVars == <<aux_buffer_mtx, aux_buffer>>
callerVars == <<calls, given, dropped>>
vars == <<inodeVars, root_dir, handleVars, lockVars, auxVars, call, callerVars>>

ROOT_DIR_INUM == 0
Inumber == 0 .. INODE_TABLE_SIZE - 1
Handle == 0 .. MAX_OPEN_FILES - 1
Slot == 0 .. MAX_DIR_ENTRIES - 1

IsFirst(i, S) == i \in S /\ \A j \in S : i <= j
AtMost(n, limit) == IF n > limit THEN limit ELSE n
AtLeast(n, limit) == IF n < limit THEN limit ELSE n

Unlocked == [writer |-> NoThread, readers |-> {}]
Idle == [op |-> "none", at |-> "idle", name |-> NoName, flags |-> {},
         inum |-> -1, offset |-> 0, end |-> 0, handle |-> -1, meant |-> -1]

Init ==
    /\ freeinode_ts = Inumber \ {ROOT_DIR_INUM}
    /\ inode_table = [i \in Inumber |->
            [i_node_type |-> IF i = ROOT_DIR_INUM THEN "T_DIRECTORY" ELSE "T_FILE",
             i_size |-> 0]]
    /\ root_dir = [s \in Slot |-> [d_name |-> NoName, d_inumber |-> -1]]
    /\ free_open_file_entries = Handle
    /\ open_file_table = [h \in Handle |-> [of_inumber |-> 0, of_offset |-> 0]]
    /\ inode_rw_locks = [i \in Inumber |-> Unlocked]
    /\ open_file_entries_rw_locks = [h \in Handle |-> NoThread]
    /\ aux_buffer_mtx = NoThread
    /\ aux_buffer = -1
    /\ call = [t \in Thread |-> Idle]
    /\ calls = [t \in Thread |-> 0]
    /\ given = {}
    /\ dropped = {}

At(t, step) == call[t].at = step
Goto(t, step) == call' = [call EXCEPT ![t].at = step]
Return(t) == call' = [call EXCEPT ![t] = Idle]

CanWrlock(i) == inode_rw_locks[i] = Unlocked
CanRdlock(i) == inode_rw_locks[i].writer = NoThread

\* A thread that is in no call begins one.
Begin(t, c) ==
    /\ At(t, "idle")
    /\ calls[t] < MaxCalls[t]
    /\ calls' = [calls EXCEPT ![t] = @ + 1]
    /\ call' = [call EXCEPT ![t] = c]

-----------------------------------------------------------------------------
(* tfs_open, by itself or within tfs_copy_to_external_fs *)

FreeSlots == {s \in Slot : root_dir[s].d_inumber = -1}
Found(n) == {s \in Slot \ FreeSlots : root_dir[s].d_name = n}

\* tfs_lookup, the first thing of either call: dir_entry_lock is let go of
\* before anything is done with what it found.
open_lookup(t, op, n, flags) ==
    /\ \/ \E s \in Slot :
            /\ IsFirst(s, Found(n))
            /\ Begin(t, [Idle EXCEPT !.op = op, !.at = "open_existing", !.name = n,
                            !.flags = flags, !.inum = root_dir[s].d_inumber])
       \/ /\ Found(n) = {}
          /\ "TFS_O_CREAT" \in flags
          /\ Begin(t, [Idle EXCEPT !.op = op, !.at = "create", !.name = n,
                            !.flags = flags, !.inum = ROOT_DIR_INUM + 1])
    /\ UNCHANGED <<inodeVars, root_dir, handleVars, lockVars, auxVars, given, dropped>>

\* Mutant: the file is truncated without its lock.
open_existing_NoLock(t) ==
    LET c == call[t]
        size == IF "TFS_O_TRUNC" \in c.flags THEN 0 ELSE inode_table[c.inum].i_size
    IN /\ At(t, "open_existing")
       /\ inode_table' = [inode_table EXCEPT ![c.inum].i_size = size]
       /\ call' = [call EXCEPT ![t].at = "add_handle",
                       ![t].offset = IF "TFS_O_APPEND" \in c.flags THEN size ELSE 0]
       /\ UNCHANGED <<freeinode_ts, root_dir, handleVars, lockVars, auxVars, callerVars>>

\* With the inode locked for writing, truncate and choose the position.
open_existing(t) ==
    LET c == call[t]
        size == IF "TFS_O_TRUNC" \in c.flags THEN 0 ELSE inode_table[c.inum].i_size
    IN /\ At(t, "open_existing")
       /\ CanWrlock(c.inum)
       /\ inode_table' = [inode_table EXCEPT ![c.inum].i_size = size]
       /\ call' = [call EXCEPT ![t].at = "add_handle",
                       ![t].offset = IF "TFS_O_APPEND" \in c.flags THEN size ELSE 0]
       /\ UNCHANGED <<freeinode_ts, root_dir, handleVars, lockVars, auxVars, callerVars>>

\* inode_create goes from inode to inode and locks each one it looks at.  The
\* first is the root directory's, which is TAKEN and locked by nobody for long.
inode_create(t) ==
    LET i == call[t].inum
    IN /\ At(t, "create")
       /\ CanWrlock(i)
       /\ \/ /\ i \in freeinode_ts
             /\ freeinode_ts' = freeinode_ts \ {i}
             /\ inode_table' = [inode_table EXCEPT
                                    ![i] = [i_node_type |-> "T_FILE", i_size |-> 0]]
             /\ Goto(t, "add_entry")
          \/ /\ i \notin freeinode_ts
             /\ IF i + 1 \in Inumber
                THEN call' = [call EXCEPT ![t].inum = i + 1]
                ELSE Return(t)
             /\ UNCHANGED inodeVars
       /\ UNCHANGED <<root_dir, handleVars, lockVars, auxVars, callerVars>>

\* Mutant: the last FREE entry is filled.
add_dir_entry_Last(t) ==
    /\ At(t, "add_entry")
    /\ \/ \E s \in FreeSlots :
            /\ \A r \in FreeSlots : r <= s
            /\ root_dir' = [root_dir EXCEPT
                    ![s] = [d_name |-> call[t].name, d_inumber |-> call[t].inum]]
            /\ Goto(t, "add_handle")
       \/ /\ FreeSlots = {}
          /\ Goto(t, "delete")
          /\ UNCHANGED root_dir
    /\ UNCHANGED <<inodeVars, handleVars, lockVars, auxVars, callerVars>>

\* The first FREE entry is filled, whatever names the others have by now.
add_dir_entry(t) ==
    /\ At(t, "add_entry")
    /\ \/ \E s \in Slot :
            /\ IsFirst(s, FreeSlots)
            /\ root_dir' = [root_dir EXCEPT
                    ![s] = [d_name |-> call[t].name, d_inumber |-> call[t].inum]]
            /\ Goto(t, "add_handle")
       \/ /\ FreeSlots = {}
          /\ Goto(t, "delete")
          /\ UNCHANGED root_dir
    /\ UNCHANGED <<inodeVars, handleVars, lockVars, auxVars, callerVars>>

\* Mutant: the inode of a file without an entry stays TAKEN.
inode_delete_KeepsInode(t) ==
    /\ At(t, "delete")
    /\ Return(t)
    /\ UNCHANGED <<inodeVars, root_dir, handleVars, lockVars, auxVars, callerVars>>

\* The directory is full: the inode just created, which is empty and has no
\* name, is given back.
inode_delete(t) ==
    LET i == call[t].inum
    IN /\ At(t, "delete")
       /\ CanWrlock(i)
       /\ freeinode_ts' = freeinode_ts \cup {i}
       /\ inode_table' = [inode_table EXCEPT ![i].i_node_type = "T_PREV_USED"]
       /\ Return(t)
       /\ UNCHANGED <<root_dir, handleVars, lockVars, auxVars, callerVars>>

\* Mutant: the handle is not marked TAKEN.
add_to_open_file_table_Free(t) ==
    /\ At(t, "add_handle")
    /\ \E h \in Handle :
            /\ IsFirst(h, free_open_file_entries)
            /\ open_file_table' = [open_file_table EXCEPT
                    ![h] = [of_inumber |-> call[t].inum, of_offset |-> call[t].offset]]
            /\ Return(t)
            /\ given' = given \cup {h}
    /\ UNCHANGED <<inodeVars, root_dir, free_open_file_entries, lockVars, auxVars,
                   calls, dropped>>

\* An open hands its handle to the caller.  A copy goes on with it, or, if its
\* destination cannot be opened, returns and leaves it open.
add_to_open_file_table(t) ==
    /\ At(t, "add_handle")
    /\ \/ \E h \in Handle :
            /\ IsFirst(h, free_open_file_entries)
            /\ free_open_file_entries' = free_open_file_entries \ {h}
            /\ open_file_table' = [open_file_table EXCEPT
                    ![h] = [of_inumber |-> call[t].inum, of_offset |-> call[t].offset]]
            /\ \/ call[t].op = "open" /\ Return(t) /\ given' = given \cup {h}
                  /\ UNCHANGED dropped
               \/ /\ call[t].op = "copy"
                  /\ call' = [call EXCEPT ![t].at = "aux_lock", ![t].handle = h,
                                          ![t].meant = call[t].inum]
                  /\ UNCHANGED <<given, dropped>>
               \/ /\ call[t].op = "copy"
                  /\ Return(t)
                  /\ dropped' = dropped \cup {h}
                  /\ UNCHANGED given
       \/ /\ free_open_file_entries = {}
          /\ Return(t)
          /\ UNCHANGED <<handleVars, given, dropped>>
    /\ UNCHANGED <<inodeVars, root_dir, lockVars, auxVars, calls>>

-----------------------------------------------------------------------------
(* tfs_close, also the last step of a copy *)

close_begin(t, h) ==
    /\ h \in given
    /\ Begin(t, [Idle EXCEPT !.op = "close", !.at = "close", !.handle = h])
    /\ given' = given \ {h}
    /\ UNCHANGED <<inodeVars, root_dir, handleVars, lockVars, auxVars, dropped>>

\* The threads that are about to use a handle when it is closed.
ClosedUnder(h) == {u \in Thread : At(u, "handle_lock") /\ call[u].handle = h}

tfs_close(t) ==
    LET h == call[t].handle
    IN /\ At(t, "close")
       /\ open_file_entries_rw_locks[h] = NoThread
       /\ free_open_file_entries' = free_open_file_entries \cup {h}
       /\ call' = [u \in Thread |->
            IF u = t THEN Idle
            ELSE [call[u] EXCEPT !.meant = IF u \in ClosedUnder(h) THEN -1 ELSE @]]
       /\ UNCHANGED <<inodeVars, root_dir, open_file_table, lockVars, auxVars,
                      callerVars>>

-----------------------------------------------------------------------------
(* tfs_write and tfs_read *)

\* The handle is TAKEN when it is first looked at.
begin_io(t, op, h) ==
    /\ h \in given
    /\ Begin(t, [Idle EXCEPT !.op = op, !.at = "handle_lock", !.handle = h,
                    !.meant = open_file_table[h].of_inumber])
    /\ UNCHANGED <<inodeVars, root_dir, handleVars, lockVars, auxVars, given, dropped>>

\* Mutant: the handle is not looked at again.
lock_handle_Once(t) ==
    LET h == call[t].handle
    IN /\ At(t, "handle_lock")
       /\ open_file_entries_rw_locks[h] = NoThread
       /\ open_file_entries_rw_locks' = [open_file_entries_rw_locks EXCEPT ![h] = t]
       /\ call' = [call EXCEPT ![t].at = "inode_lock",
                               ![t].inum = open_file_table[h].of_inumber]
       /\ UNCHANGED <<inodeVars, root_dir, handleVars, inode_rw_locks, auxVars, callerVars>>

\* The handle is locked and looked at again: it may have been closed.
lock_handle(t) ==
    LET h == call[t].handle
    IN /\ At(t, "handle_lock")
       /\ open_file_entries_rw_locks[h] = NoThread
       /\ \/ /\ h \notin free_open_file_entries
             /\ open_file_entries_rw_locks' = [open_file_entries_rw_locks EXCEPT ![h] = t]
             /\ call' = [call EXCEPT ![t].at = "inode_lock",
                                     ![t].inum = open_file_table[h].of_inumber]
          \/ /\ h \in free_open_file_entries
             /\ Return(t)
             /\ UNCHANGED open_file_entries_rw_locks
       /\ UNCHANGED <<inodeVars, root_dir, handleVars, inode_rw_locks, auxVars, callerVars>>

\* The inode's lock and the handle's are let go of.
Unlock(t) ==
    LET c == call[t]
    IN /\ inode_rw_locks' = [inode_rw_locks EXCEPT
                ![c.inum] = [writer |-> NoThread, readers |-> @.readers \ {t}]]
       /\ open_file_entries_rw_locks' = [open_file_entries_rw_locks EXCEPT
                ![c.handle] = NoThread]

\* Mutant: the inode is locked as for reading.
write_begin_Rdlock(t) ==
    LET c == call[t]
    IN /\ At(t, "inode_lock") /\ c.op = "write"
       /\ inode_rw_locks[c.inum].writer = NoThread
       /\ inode_rw_locks' = [inode_rw_locks EXCEPT ![c.inum].readers = @ \cup {t}]
       /\ call' = [call EXCEPT ![t].at = "writing",
                       ![t].offset = open_file_table[c.handle].of_offset]
       /\ UNCHANGED <<inodeVars, root_dir, handleVars, open_file_entries_rw_locks,
                      auxVars, callerVars>>

\* The inode's lock is taken within the handle's.
write_begin(t) ==
    LET c == call[t]
    IN /\ At(t, "inode_lock") /\ c.op = "write"
       /\ CanWrlock(c.inum)
       /\ inode_rw_locks' = [inode_rw_locks EXCEPT ![c.inum].writer = t]
       /\ call' = [call EXCEPT ![t].at = "writing",
                       ![t].offset = open_file_table[c.handle].of_offset]
       /\ UNCHANGED <<inodeVars, root_dir, handleVars, open_file_entries_rw_locks,
                      auxVars, callerVars>>

\* Mutant: the length is not clamped.
write_end_NoClamp(t) ==
    LET c == call[t]
    IN /\ At(t, "writing")
       /\ open_file_table' = [open_file_table EXCEPT
                                ![c.handle].of_offset = c.offset + 1]
       /\ inode_table' = [inode_table EXCEPT ![c.inum].i_size = AtLeast(@, c.offset + 1)]
       /\ Unlock(t)
       /\ Return(t)
       /\ UNCHANGED <<freeinode_ts, root_dir, free_open_file_entries, auxVars, callerVars>>

\* A write that has no room up to MAX_FILE_SIZE changes nothing, one that does
\* may make the file longer.
write_end(t) ==
    LET c == call[t]
        end == AtMost(c.offset + 1, MAX_FILE_SIZE)
    IN /\ At(t, "writing")
       /\ open_file_table' = [open_file_table EXCEPT ![c.handle].of_offset = end]
       /\ inode_table' = [inode_table EXCEPT ![c.inum].i_size =
                            IF end = c.offset THEN @ ELSE AtLeast(@, end)]
       /\ Unlock(t)
       /\ Return(t)
       /\ UNCHANGED <<freeinode_ts, root_dir, free_open_file_entries, auxVars, callerVars>>

\* Mutant: the early return forgets the handle's lock.
write_fails_KeepsHandle(t) ==
    /\ At(t, "writing")
    /\ call[t].offset < MAX_FILE_SIZE
    /\ inode_rw_locks' = [inode_rw_locks EXCEPT ![call[t].inum].writer = NoThread]
    /\ Return(t)
    /\ UNCHANGED <<inodeVars, root_dir, handleVars, open_file_entries_rw_locks, auxVars,
                   callerVars>>

\* write_impl fails, as no block is FREE: neither the position nor the size moves.
write_fails(t) ==
    /\ At(t, "writing")
    /\ call[t].offset < MAX_FILE_SIZE
    /\ Unlock(t)
    /\ Return(t)
    /\ UNCHANGED <<inodeVars, root_dir, handleVars, auxVars, callerVars>>

\* A read shares the inode with others; that of a copy is into aux_buffer.
read_begin(t) ==
    LET c == call[t]
    IN /\ At(t, "inode_lock") /\ c.op \in {"read", "copy"}
       /\ CanRdlock(c.inum)
       /\ inode_rw_locks' = [inode_rw_locks EXCEPT ![c.inum].readers = @ \cup {t}]
       /\ call' = [call EXCEPT ![t].at = "reading",
                       ![t].offset = open_file_table[c.handle].of_offset]
       /\ aux_buffer' = IF c.op = "copy" THEN c.inum ELSE aux_buffer
       /\ UNCHANGED <<inodeVars, root_dir, handleVars, open_file_entries_rw_locks,
                      aux_buffer_mtx, callerVars>>

\* What is read, and where it ends: one unit, or all there is for a copy (which
\* misses the last byte of a file of MAX_FILE_SIZE; a unit is coarser).
ReadEnd(c) == LET size == inode_table[c.inum].i_size
              IN IF c.op = "copy" THEN size ELSE AtMost(c.offset + 1, size)

\* The inode is let go of before the handle's position moves.
read_end(t) ==
    LET c == call[t]
    IN /\ At(t, "reading")
       /\ c.offset <= inode_table[c.inum].i_size
       /\ inode_rw_locks' = [inode_rw_locks EXCEPT ![c.inum].readers = @ \ {t}]
       /\ call' = [call EXCEPT ![t].at = "read_done",
                               ![t].end = ReadEnd(c)]
       /\ UNCHANGED <<inodeVars, root_dir, handleVars, open_file_entries_rw_locks,
                      auxVars, callerVars>>

\* The position is behind the end of the file, which was truncated: nothing
\* is read.  A copy returns with aux_buffer_mtx locked and its handle open.
read_past_end(t) ==
    LET c == call[t]
    IN /\ At(t, "reading")
       /\ c.offset > inode_table[c.inum].i_size
       /\ Unlock(t)
       /\ Return(t)
       /\ IF c.op = "copy"
          THEN aux_buffer_mtx' = Left /\ dropped' = dropped \cup {c.handle}
          ELSE UNCHANGED <<aux_buffer_mtx, dropped>>
       /\ UNCHANGED <<inodeVars, root_dir, handleVars, aux_buffer, calls, given>>

read_done(t) ==
    LET c == call[t]
    IN /\ At(t, "read_done")
       /\ open_file_table' = [open_file_table EXCEPT ![c.handle].of_offset = c.end]
       /\ open_file_entries_rw_locks' = [open_file_entries_rw_locks EXCEPT
                                            ![c.handle] = NoThread]
       /\ IF c.op = "copy" THEN Goto(t, "fwrite") ELSE Return(t)
       /\ UNCHANGED <<inodeVars, root_dir, free_open_file_entries, inode_rw_locks,
                      auxVars, callerVars>>

-----------------------------------------------------------------------------
(* tfs_copy_to_external_fs, between its tfs_open, tfs_read and tfs_close *)

\* Mutant: the buffer is shared by copies.
copy_lock_Shared(t) ==
    /\ At(t, "aux_lock")
    /\ aux_buffer_mtx' = t
    /\ Goto(t, "handle_lock")
    /\ UNCHANGED <<inodeVars, root_dir, handleVars, lockVars, aux_buffer, callerVars>>

copy_lock(t) ==
    /\ At(t, "aux_lock")
    /\ aux_buffer_mtx = NoThread
    /\ aux_buffer_mtx' = t
    /\ Goto(t, "handle_lock")
    /\ UNCHANGED <<inodeVars, root_dir, handleVars, lockVars, aux_buffer, callerVars>>

\* fwrite may write less than it was given, and then the source stays open.
copy_fwrite(t) ==
    /\ At(t, "fwrite")
    /\ aux_buffer_mtx' = NoThread
    /\ \/ /\ Goto(t, "close")
          /\ UNCHANGED dropped
       \/ /\ Return(t)
          /\ dropped' = dropped \cup {call[t].handle}
    /\ UNCHANGED <<inodeVars, root_dir, handleVars, lockVars, aux_buffer, calls, given>>

-----------------------------------------------------------------------------
Continue(t) ==
    \/ open_existing(t) \/ inode_create(t) \/ add_dir_entry(t) \/ inode_delete(t)
    \/ add_to_open_file_table(t)
    \/ tfs_close(t)
    \/ lock_handle(t) \/ write_begin(t) \/ write_end(t) \/ write_fails(t)
    \/ read_begin(t) \/ read_end(t) \/ read_past_end(t) \/ read_done(t)
    \/ copy_lock(t) \/ copy_fwrite(t)

Next == \E t \in Thread :
    \/ \E n \in Name, flags \in OpenFlags : open_lookup(t, "open", n, flags)
    \/ \E n \in Name : open_lookup(t, "copy", n, {})
    \/ \E h \in Handle : close_begin(t, h)
    \/ \E h \in Handle, op \in {"write", "read"} : begin_io(t, op, h)
    \/ Continue(t)

Spec == Init /\ [][Next]_vars

\* A thread in a call is scheduled.  No lock is fair: a call that waits may
\* see others overtake it, each thread for MaxCalls[t] calls at most.
FairSpec == Spec /\ \A t \in Thread : WF_vars(Continue(t))

-----------------------------------------------------------------------------
(* Properties *)

Steps == {"idle", "open_existing", "create", "add_entry", "delete", "add_handle",
          "close", "handle_lock", "inode_lock", "writing", "reading", "read_done",
          "aux_lock", "fwrite"}

\* The local variables of a call.
Call == [op : {"none", "open", "close", "write", "read", "copy"},
         at : Steps, name : Name \cup {NoName}, flags : SUBSET FlagNames,
         inum : Inumber \cup {-1}, offset : 0 .. MAX_FILE_SIZE,
         end : 0 .. MAX_FILE_SIZE, handle : Handle \cup {-1},
         meant : Inumber \cup {-1}]

TypeOK ==
    /\ freeinode_ts \subseteq Inumber \ {ROOT_DIR_INUM}
    /\ inode_table \in [Inumber -> [i_node_type : {"T_DIRECTORY", "T_FILE", "T_PREV_USED"},
                                    i_size : 0 .. MAX_FILE_SIZE]]
    /\ root_dir \in [Slot -> [d_name : Name \cup {NoName}, d_inumber : Inumber \cup {-1}]]
    /\ free_open_file_entries \subseteq Handle
    /\ open_file_table \in [Handle -> [of_inumber : Inumber,
                                       of_offset : 0 .. MAX_FILE_SIZE]]
    /\ inode_rw_locks \in [Inumber -> [writer : Thread \cup {NoThread},
                                       readers : SUBSET Thread]]
    /\ open_file_entries_rw_locks \in [Handle -> Thread \cup {NoThread}]
    /\ aux_buffer_mtx \in Thread \cup {NoThread, Left}
    /\ aux_buffer \in Inumber \cup {-1}
    /\ call \in [Thread -> Call]
    /\ calls \in [Thread -> Nat] /\ \A t \in Thread : calls[t] <= MaxCalls[t]
    /\ given \subseteq Handle /\ dropped \subseteq Handle

\* Two threads that miss a name both create it.  Even so a name that was once
\* found means the same file for good: the entry that came second is never
\* the one a lookup returns.
NameKeepsItsFile ==
    [][\A n \in Name, s \in Slot : IsFirst(s, Found(n)) =>
            IsFirst(s, Found(n))' /\ root_dir'[s] = root_dir[s]]_vars

Entries == Slot \ FreeSlots
Creating == {t \in Thread : call[t].at \in {"add_entry", "delete"}}

\* Between the steps of creates that race or find the directory full, every
\* TAKEN inode has exactly one entry or is in the hands of one create, and no
\* entry leads to an inode that is FREE or was deleted.
InodesAccounted ==
    /\ \A i \in Inumber \ {ROOT_DIR_INUM} :
        Cardinality({s \in Entries : root_dir[s].d_inumber = i})
            + Cardinality({t \in Creating : call[t].inum = i})
        = IF i \in freeinode_ts THEN 0 ELSE 1
    /\ \A s \in Entries : inode_table[root_dir[s].d_inumber].i_node_type = "T_FILE"

\* The handles some call will close or drop.
InHand == {call[t].handle : t \in {u \in Thread : call[u].op \in {"close", "copy"}}} \ {-1}

\* A TAKEN handle is its caller's, or a call's that will close it, or was left
\* open by a copy that failed; and it is on a file the directory names.
HandlesAccounted ==
    /\ Handle \ free_open_file_entries = given \cup InHand \cup dropped
    /\ given \cap dropped = {} /\ InHand \cap (given \cup dropped) = {}
    /\ \A h \in Handle \ free_open_file_entries :
        \E s \in Entries : root_dir[s].d_inumber = open_file_table[h].of_inumber

\* While a call reads or writes through a handle, nobody closes the handle, gives
\* it out again or moves it, not even a call that began earlier and waits for it;
\* and its file is the one it was on when the call began, unless a tfs_close came
\* first (the second look at the table finds a closed handle, but does not tell
\* one that was given out again).
NoCallOvertaken ==
    \A t \in Thread :
        LET c == call[t]
        IN c.at \in {"writing", "reading", "read_done"} =>
            /\ c.handle \notin free_open_file_entries
            /\ open_file_table[c.handle] = [of_inumber |-> c.inum, of_offset |-> c.offset]
            /\ c.meant \in {-1, c.inum}

\* While a call writes to a file or reads it, no other call changes the size it
\* works its length out from, be it a write or a tfs_open that truncates, through
\* whichever handle.  A read is safe only until it lets go of the inode
\* (operations.c:357): a truncation that comes before the position moves
\* (operations.c:362) leaves the handle past the end of its file.
SizeKeptUnderCall ==
    [][\A t \in Thread :
        call[t].at \in {"writing", "reading"} /\ call'[t] = call[t] =>
            inode_table'[call[t].inum] = inode_table[call[t].inum]]_vars

\* A call that writes to a file has it for itself: nobody reads it or writes to
\* it meanwhile, through whichever handle.
WritesAlone ==
    \A t, u \in Thread :
        t # u /\ At(t, "writing") /\ call[u].at \in {"writing", "reading"}
            => call[t].inum # call[u].inum

\* A copy writes out the file it read into the buffer all copies share.
CopyWritesWhatItRead ==
    \A t \in Thread : At(t, "fwrite") =>
        aux_buffer = call[t].inum /\ aux_buffer_mtx = t

\* Every call returns: no order of locks makes calls wait for each other, no
\* early return keeps a lock another call needs, except the copy whose read
\* fails.
CallsReturn ==
    \A t \in Thread : call[t].at # "idle" ~> (call[t].at = "idle" \/ aux_buffer_mtx = Left)
=============================================================================
