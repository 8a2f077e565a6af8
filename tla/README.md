# TecnicoFS: specification, model checking and proofs

TecnicoFS is a small in-memory file system in C. The repository holds two
versions of it. `ex1` is a library for many threads, with a lock per inode and
per handle and files of up to ten direct blocks and an indirect one. `ex2` is a
server: client processes reach the file system through named pipes, a main
thread hands their requests to `S` worker threads, one per session, and the
file system itself sits behind one global lock.

This directory specifies both in TLA+, checks the specifications with TLC on
small instances, and proves part of what is checked with TLAPS for every value
of the constants. `PROJECT.json` relates each definition to the lines it
stands for.

## Inventory

### ex2

| Component | State | Operations | Correct when |
|---|---|---|---|
| Tables (`fs/state.c`) | `inode_table`, `freeinode_ts`, root directory block, `free_blocks`, `fs_data`, `open_file_table`, `free_open_file_entries` | inode create/delete, directory add/find, block alloc/free, handle add/remove | no block or inode is leaked or shared; directory and inode table agree |
| Operations (`fs/operations.c`) | none beyond the tables | `tfs_lookup`, `tfs_open`, `tfs_close`, `tfs_read`, `tfs_write` | they behave as files by name, each a byte sequence, with a position per handle |
| Execution gate (`fs/operations.c`) | `single_global_lock`, `tfs_exec_allowed`, `can_exec`, `open_files`, `all_files_were_closed` | the entry and exit of `tfs_open`/`tfs_close`, `tfs_destroy_after_all_closed` | the count is right, the destroyer waits for every file and then returns |
| Main thread (`fs/thread.c`) | request pipe, `free_open_session_entries`, `open_session_table`, `session_id` | `main_thread_work`, `decide_mount`, `thread_worker_schedule_prod` | one client per slot; a slot is taken back only from a dead client |
| Workers (`fs/thread.c`, `fs/tfs_server.c`) | `prod_cons`, `threads_mutex`, `threads_cond`, descriptors | `thread_wait`, the `server_*_state` handlers, `do_unmount` | every request is handled once and answered to its own client |
| Session files (`fs/tfs_server.c`) | `open_files[S][]`, `open_files_amount[S]` | bookkeeping in open, close and `do_unmount` | a session that ends leaves no file open |
| Client library (`client/`) | `session_id`, `fclient`, `fserver` | `tfs_mount`, `tfs_unmount`, file calls, `handle_interr` | each call returns with its own answer |
| Pipe wrappers (`common/`) | none | `try_*`, `r_pipe_inform` | |

How they interact: a client writes a request, which is atomic because it is
shorter than `PIPE_BUF`, into the server's pipe and blocks reading its own
pipe. The main thread reads the op code and session, copies the rest into that
session's `prod_cons` buffer, and signals the worker's condition variable. The
worker runs the handler while holding its `threads_mutex`, calls into the file
system, and writes the answer to the descriptor in `open_session_table`. A
mount has no session yet: `decide_mount` picks a slot, polling the descriptors
of TAKEN ones for clients that died, or refuses.

What is hard here: the main thread, `S` workers and any number of client
processes share slots, buffers and descriptor numbers under three kinds of
lock; the condition variables are waited on without a predicate; descriptors
are reused by the kernel while old numbers stay in tables; clients die or are
interrupted anywhere; the gate is split over two mutexes; and several early
returns leave something half done. `PROJECT.json` lists each hazard at its line.

### ex1

| Component | State | Operations | Correct when |
|---|---|---|---|
| Tables (`fs/state.c`) | as above, plus direct and indirect blocks; a lock per inode, one per free map, one for the open file table | allocation with rollback, `allocate_blocks`, `get_block_number` | each block has one owner, at one index of one file |
| Operations (`fs/operations.c`) | a lock per handle, `aux_buffer_mtx` | open, close, read, write, `tfs_copy_to_external_fs` | interleaved operations look atomic; no lock is kept |

How they interact: a call takes the lock of its handle, then that of the inode,
and within it the mutex of a free map; `tfs_open` looks the name up under
`dir_entry_lock`, lets go, and only then locks the inode or creates one.
`tfs_copy_to_external_fs` is an open, a read into one static buffer under
`aux_buffer_mtx`, and a close.

What is hard here: between a lookup and what is done with its result nothing is
locked; the second look at a handle after its lock was waited for tells TAKEN
from FREE but not one file from another; pointers of blocks stay in inodes after
the blocks were freed; and a write that runs out of blocks has allocated some.

Tests and Makefiles keep no state.

## Modules

| Module | What it is |
|---|---|
| `TecnicoFS` | The tables and operations of ex2. One step per public operation. |
| `FileStore` | What the operations promise, without tables: files by name, handles with positions. |
| `TecnicoFSRefines` | The refinement mapping from `TecnicoFS` to `FileStore`. |
| `TecnicoFSRefinesProofs` | The refinement, step by step. |
| `TecnicoFSProofs` | Theorems about `TecnicoFS`. |
| `ExecGate` | The gate and the two mutexes. One step per critical section. |
| `ExecGateProofs` | Theorems about `ExecGate`. |
| `SessionServer` | Clients, main thread and workers. One step per critical section or pipe call. |
| `SessionServerProofs` | Theorems about `SessionServer`: types and wakeups. |
| `SessionOwnershipProofs` | Theorems about `SessionServer`: whose a session's slot is. |
| `SessionFiles` | Handles, the count of open files and each session's entries in ex2, from mount to shutdown. One step per lock of the file system. |
| `SessionFilesProofs` | Theorems about `SessionFiles`. |
| `FineLocks` | The operations of ex1 under their locks. One step per critical section. |
| `FineLocksProofs` | Theorems about `FineLocks`. |
| `FileBlocks` | Direct and indirect blocks of ex1's files and the bytes in them. One step per block taken or given back. |
| `FileBlocksProofs` | Theorems about `FileBlocks`. |
| `MCTecnicoFS`, `MCSessionServer`, `MCFineLocks`, `MCFileBlocks` | Input sets, bounds and symmetry for TLC. |

The modules overlap where the code's parts do. `ExecGate` has the gate's steps
and callers that behave; `SessionFiles` has the callers the server really is,
and takes the gate as one condition, `can_exec`. `SessionServer` has pipes,
buffers and wakeups, and one kind of request; `SessionFiles` has the kinds, and
takes it that a request reaches its worker. `FineLocks` counts a file's size in
units and `FileBlocks` says where its bytes are.

### TecnicoFS

Variables carry the names of the C tables. The three free maps are the sets of
their FREE entries. The root directory's block is `root_dir`, a function from
slots to `[d_name, d_inumber]`; its inode and block are the ones `tfs_init`
takes (0 and 0). `reply` is what the last operation returned, so that the
refinement can relate results as well as state. An action per outcome
(`OpenExisting`, `OpenCreate`, `OpenNoEntry`, ...) follows the early returns of
`_tfs_open_unsynchronized`, `_tfs_write_unsynchronized` and
`_tfs_read_unsynchronized`. `SizeSub` is the unsigned subtraction of
`operations.c:296`, with `SIZE_MAX` as a constant.

One step per operation is sound because each public function does all its
accesses to the tables between a lock and an unlock of `single_global_lock`.

Paths are records: whether the path starts with `/`, and the name after the
first character, because that is all the code looks at. A file name longer
than `MAX_FILE_NAME` is not modelled.

`OpenHandlesOnly` says what callers do. FALSE lets them use and close handles
they closed before, which the code allows (`get_open_file_entry` does not
check). A handle that no open ever returned is left out: its zeroed entry is
the root directory. A handle whose offset has left its block (only a read past
the end of a file leads there) is not followed further, since the next `memcpy`
is then outside the block.

### FileStore and the refinement

`FileStore` is the contract: a write changes only the bytes it names of the one
file its handle is on, a read returns that file's bytes, a failed call changes
nothing except that a file created without a handle left for it remains. The
one freedom it states explicitly is the truncated-under-the-handle case, where
a read may return anything and a write leaves an unspecified gap. The mapping
takes a directory entry for a file, the first `i_size` bytes of its block for
its contents, and a TAKEN entry of the open file table for a handle.

### ExecGate

`tfs_exec_allowed` and `single_global_lock` are the thread that holds them, or
Free (or Destroyed). A critical section in which nothing can block is one step;
a lock whose holding others can observe is taken and released in separate
steps. `tfs_destroy` can observe `single_global_lock` held (glibc answers
EBUSY), so lookups, opens and closes take it in one step and release it in
another. `waiting` is the wait set of the condition variable;
`pthread_cond_signal` removes one waiter and `spurious_wakeup` may remove one at
any time. `held` is what callers hold: they close a handle once, as
`operations.h` asks.

### SessionServer

`main` and `thread` are program counters; a worker holds its `threads_mutex`
except while "starting", "waiting" or "woken" (`MutexFree`). `prod_cons` is the
buffer: the op code not yet read and the arguments behind it; `Torn` is a
buffer reset between a worker's two reads. `descriptors` is the process's
descriptor table: the client whose pipe it writes to, `Closed`, `Gone` (the
reader has closed: `poll` says POLLERR, `write` says EPIPE) or `Other`. `open`
takes the lowest free number, so reuse is as in the kernel. `Connect` is the
rendezvous of the client's open for reading and the server's for writing.

The four file requests are one op code, `REQUEST`. Their handlers read
arguments, call into the file system and answer; they treat the session alike.
The answer comes from `Results`, and an answer of -1 ends the session, which is
what `r_pipe_inform`'s return value does in the code. Argument length matters
only when a buffer is torn: those of a REQUEST are taken to be shorter than a
pipe path.

`drop_request` is the eight-byte `session_id` of which four bytes are read: the
upper half may be what a refused mount left there. It is a nondeterministic
choice.

`Pending` says that a slot's next mount was scheduled and its worker has not yet
opened the client's pipe: until then `open_session_table` holds the descriptor
of the slot's last session, which that session closed. `decide_mount` polls it
all the same. The history variable `mistaken` says that it did so and found the
descriptor dead: the number was another session's by then, whose client had
closed its end.

### SessionFiles

`free_open_file_entries`, `can_exec`, `free_open_session_entries`, `open_files`
and `open_files_amount` carry the names of the code; `open_count` is
`open_files` of `fs/operations.c`, which has the same name as the sessions'
table in `fs/tfs_server.c`. `thread` is where a worker is: between requests,
between the two halves of a `tfs_open` (handle taken, then counted), in the loop
of `do_unmount` (one turn a step, since other workers open files in between), or
waiting in `tfs_destroy_after_all_closed`. `main` is the session whose worker's
mutex the main thread waits for in `decide_mount` (`thread.c:266`).

`record` and `forget` are the two loops as they are: an open writes its handle
into *every* entry that holds -1 and counts one; a close clears every entry that
holds the handle and counts each. `open_files_amount` is a `size_t`, so the
arithmetic is modulo `SIZE_MOD`.

History variables name the situations in which the code does not do what it is
meant to do, and the properties are stated outside of them:

| Variable | Situation |
|---|---|
| `robbed` | The loop of `do_unmount` closes its handle once per entry. After the first turn the number is FREE; another session's open may take it before the next turn, which then closes that session's file. |
| `several` | A session with two files open: the second is not on record (no entry is -1), so its end does not close it, and closing the first subtracts one per entry, so that the amount may be 0 while something is on record. |
| `reclaimed` | A session taken over from a client that died between two requests: `decide_mount` runs no `do_unmount`, and the dead client's file stays open. |
| `failed` | A failed open that was counted. |

Each of them was found necessary: without it TLC violates the property.

Clients leave when a request of theirs fails, and close only handles they were
given. What becomes of a client that goes on is the subject of
`SessionFailedRequest`.

### FineLocks

`inode_rw_locks` and `open_file_entries_rw_locks` are who holds each lock;
mutexes that are held for one access (`dir_entry_lock`, `freeinode_ts_lock`,
`open_file_table_lock`) make that access one step. `call` is where each thread
is and its local variables. `open_lookup`, `open_existing`, `inode_create`,
`add_dir_entry`, `inode_delete` and `add_to_open_file_table` are the steps of
`tfs_open` with the locks let go of in between; `inode_create` locks one inode
after the other, as the code does, and waits for whoever holds it. `tfs_write`
and `tfs_read` are `begin_io` (the look before the lock), `lock_handle` (the
look after it), the wait for the inode, and the transfer. A copy is an open, a
read and a close with `copy_lock` and `copy_fwrite` around them.

`meant` remembers the file a call's handle was on when the call looked at it
first; `given` is what callers got and have not closed. A caller closes a handle
once. `dropped` collects the handles a failing copy leaves open, which the code
does when `fopen` fails, when the read fails and when `fwrite` writes less.

Sizes are counted in units: a write appends one, a read takes one, a copy all.
A unit stands for many bytes, so that a copy reads at most `MAX_FILE_SIZE - 1`
bytes (and so misses the last byte of a file of full size) is not visible.

That an inode might be deleted between lookup and lock, for which the code has
`T_PREV_USED`, cannot happen: `inode_delete` is called only for an inode that
was just created and never had a name, which `InodesAccounted` shows. The
model therefore has no step for those early returns, nor for the one of
`inode_delete` that finds the inode FREE and keeps two locks.

### FileBlocks

A cell of `fs_data` is what an `int` needs, so a block of the model has
`BLOCK_SIZE` cells and an indirect block as many pointers. A byte written to
position `p` of file `f` is `Data(f, p)`, so a cell shows whose byte it holds;
freed blocks are overwritten with `Junk`, which stands for any byte, so that a
stale pointer cannot by luck give back the right one. `allocate_block`, `allocate_first_of_indirect`,
`free_block` and `free_indirect_block` are one step per lock of
`file_allocation_lock`; filling and reading are one step, since the inode is
locked and no other file's blocks are touched, unless a write failed. `Pieces`
is the walk both `write_impl` and `read_impl` make over a range of blocks.

A write that runs out of blocks goes on with a length recomputed from whole
blocks (`operations.c:199`). `write_fails`, `write_fails_filling` and
`write_fails_stale` are its outcomes: nothing filled, blocks filled (and the
block behind the last one overwritten if the write began in the middle of a
block), or a block filled whose pointer was never set by this write. `health`
says which has happened. A process whose memory may have been overwritten
("damaged") is not followed further, although the code may go on: a write to an
empty file that got no block at all fills what the stale pointer names, fails at
index -1 (which `get_block_number` refuses, since it compares with a `size_t`)
and leaves the process running with the bytes it overwrote.

## Runs

| Run | Shows | Instance |
|---|---|---|
| `TecnicoFSStore` | `ImplementsStore`, `NamesDistinct` | 2 names, 2 bytes, 3 inodes, 3 blocks of 2 bytes, 2 handles, 2 directory entries; absolute paths, open handles only |
| `TecnicoFSTables` | `TypeOK`, `BlocksAccounted`, `InodesAccounted`, `HandlesReferToFiles` | as above with 4 inodes and one byte; any path, closed handles too |
| `ExecGate` | `TypeOK`, `CountExact`, `DestroyAfterCloses`, `DestroyReturns` | 3 threads, 2 handles, at most 3 failed opens, counter up to 8 |
| `Sessions` | `OwnSession`, `ReclaimsNoSession`, `NoRequestOverwritten` | 3 clients, 2 slots, one mount and one request each; one may die between requests; workers still starting |
| `SessionAnswers` | `CallsReturn` | 2 clients, 2 slots, one mount and two requests each |
| `SessionFaults` | `TypeOK`, `WakeupPending` | 2 clients, 1 slot, two mounts each, failing operations, SIGINT for both, one killed anywhere |
| `SessionFiles` | `TypeOK`, `FilesCounted`, `FilesAreOwn`, `EndClosesFiles`, `ExitAfterCloses`, `MainGoesOn` | 2 sessions, 3 handles, 3 mounts, 4 opens |
| `FineLocks` | `TypeOK`, `InodesAccounted`, `HandlesAccounted`, `NoCallOvertaken`, `SizeKeptUnderCall`, `WritesAlone`, `CopyWritesWhatItRead`, `NameKeepsItsFile`, `CallsReturn` | 2 threads with 3 and 2 calls, 2 names, 4 inodes, 2 directory entries, 2 handles, files of one unit |
| `FileBlocks` | `TypeOK`, `OnePlacePerBlock`, `NoBlockLost`, `ReadsGiveBack` | 2 threads, 2 files of up to 3 blocks (1 direct), 5 blocks of 2 cells with the root's |
| `ExecGateLateOpen` | violates `NoFileOpenAfterDestroy` | as `ExecGate` |
| `SessionFailedRequest` | violates `OwnSession` | 2 clients, 2 slots, operations may fail |
| `FileBlocksFailedWrite` | violates `FailedWriteSparesOthers` | as `FileBlocks` |

Why the bounds are enough for the questions asked:

* In `TecnicoFSStore` there are as many free inodes, free blocks and directory
  entries as names (two each, beside the root's), so the store's contents and
  handles meet every allocation pattern of two files; the handles run out. In
  `TecnicoFSTables` there is one more inode than directory entries, so the
  directory fills while inodes remain, with duplicate names. A block of two
  bytes and payloads of one and three bytes give partial, exact and clamped
  writes. `TecnicoFSStore` needs two byte values to tell
  contents apart; the accounting properties never look at a byte.
* `ExecGate` needs a destroyer, a thread racing to open and one to close.
  `MaxFailed` bounds the only counter that grows without limit. `UINT_MAX`
  is above handles + threads + failures (`GateAssumption`), as 2^32 - 1 is:
  that a counter of 32 bits is not incremented 2^32 times is the assumption.
* `Sessions` has more clients than slots, so refusals, waiting for a free slot
  and reclaiming happen; `MaxFd` is above what can be open at once, so `open`
  never runs out of descriptors. `SessionFaults` has one slot, so each reuse of
  buffer and descriptor meets the leftovers of the last one.
* `SessionFiles`: two sessions are what it takes to close another's file, three
  handles let one session have two files while the other has one, three mounts
  let a slot be used again while its worker still closes files, and be taken
  over from a dead client. `SIZE_MOD` and `UINT_MOD` are above anything counted
  up and below which -1 wraps, as with 64 and 32 bits.
* `FineLocks`: three calls of one thread and two of the other are the fewest
  in which a copy's read fails (open, close, copy against open, write,
  truncate). With two names, two directory entries and four inodes, creates of
  one name race, the directory fills while an inode is being created, and
  inodes run out; the handles run out too. No property compares more than two
  threads.
* `FileBlocks`: file 1 needs 2 blocks and the indirect one, file 2 grows within
  a block, across the border of direct and indirect blocks and up to the largest
  size, so that both together need more than the 4 blocks there are: every
  allocation is a point at which they may run out. Threads are symmetric: no
  property names one, and none is a liveness property.
* `CHECK_DEADLOCK FALSE` where the system may stop: every client is done and
  its bounds are used up, the server exited, a destroyer waits for files that
  nobody will close, or (in `ExecGate`) a failed `tfs_destroy` left
  `tfs_exec_allowed` locked. In `FileBlocks` a damaged process stops.

Every property of a passing run has a mutant of a mapped definition that
violates it: a dropped clamp, an inode not given back, a slot not marked, a
signal sent without the mutex, and so on. They stand next to the definitions
they vary and no specification uses them.

### What the violations say

* `ExecGateLateOpen`: an open that passed the gate takes its handle between the
  destroyer's test of `open_files` and the destruction of the tables.
* `SessionFailedRequest`: any open, close or write that answers -1 ends the
  session on the server while the client goes on using it.
* `FileBlocksFailedWrite`: a file is truncated and keeps its old pointers, another
  file takes all blocks, and a write to the first finds none left: it fills the
  block its old pointer names, which is the other file's.

Other behaviours of this kind are not separate runs, but stand in the
specifications as the stated exceptions of properties that hold otherwise:

* A read through a handle that stands behind the end of a truncated file:
  `i_size - of_offset` wraps (`ex2/fs/operations.c:296`) and bytes beyond the
  end are returned, although `operations.h:69-71` says "can be lower than 'len'
  if the file size was reached". `FileStore` lets such a read return anything.
  In ex1 the same subtraction is caught by `read_impl` and the read fails.
* A failed `tfs_open` of ex2 is counted (`operations.c:199`) and never counted
  off, so that `tfs_destroy_after_all_closed` waits for good with no file open
  (`failed` in `DestroyReturns` and `FilesCounted`).
* `do_unmount` leaves the closed descriptor in `open_session_table`. While the
  slot's next mount is pending, the number may be another session's. If that
  session's client has closed its end, by leaving or by dying, `decide_mount`
  takes the pending slot although its client lives; the comment "The session's
  fd is dead." (`thread.c:264`) is then about another session. Either the mount
  in the buffer is overwritten, or the session just opened loses its descriptor
  (`thread.c:282` writes -1) and its slot to the new client. It takes two slots
  and four clients of one mount each, or fewer that mount again; with three of
  one mount each, as in `Sessions`, TLC finds no such behaviour. `mistaken` is
  the stated exception of `OwnSession`, `ReclaimsNoSession` and
  `NoRequestOverwritten`.
* The situations `robbed`, `several` and `reclaimed` of `SessionFiles` above; a
  second shutdown request, which gets -1 and ends the server at once with files
  open (`shutdown_refused`); and a main thread that waits for the worker which
  waits for files (`MainGoesOn`).
* In ex1 two creates of one name both succeed, and each creator has a file of
  its own under that name; `NameKeepsItsFile` says the later entry is never the
  one found. A call whose handle was closed and given out again while it waited
  goes on with the other file (`meant = -1` in `NoCallOvertaken`). A read lets go
  of the inode (`operations.c:357`) before it moves its handle's position
  (`:362`); a `tfs_open` that truncates in between leaves the handle behind the
  end of its file, and a later read through it fails. `SizeKeptUnderCall`
  therefore ends where the inode is let go of. A copy whose read fails keeps
  `aux_buffer_mtx` (`Left` in `CallsReturn`).

The properties of `Sessions` therefore hold within stated limits: operations
succeed, nobody is interrupted by SIGINT, a client dies, if at all, between two
calls (the case `thread.c:246` speaks of), no slot was `mistaken` for dead, and
what a dropped request leaves in the request pipe reads as NO_OPs. The last is
so for handle 0 only: of other arguments (a handle or flags of 1, the bytes of a
write) `thread.c:334-336` makes op codes, a MOUNT among them, which the model
leaves out. Beyond the first limit `OwnSession` is violated, as
`SessionFailedRequest` shows. `SessionOwnershipProofs` proves the properties
within the same limits. The number of clients, slots, mounts and requests is no
limit: the proofs are for any.

`WakeupPending` and `CallsReturn` start from workers that all wait. While a
worker is still between `pthread_create` and its first `pthread_cond_wait`, a
mount scheduled and signalled to it is lost and its client blocks: `WorkersReady
= FALSE` gives TLC that behaviour at once. `main` starts serving requests right
after creating the workers, so the window is real, though short.

## Fairness

`ExecGate!FairSpec`: weak fairness for each thread to continue a call it has
begun. No fairness on beginning a call, on spurious wakeups or on which waiter
of a mutex gets it: `DestroyReturns` holds without lock fairness because, once
no file is open and nothing failed, what remains is a finite number of steps
unless new lookups keep arriving, and those never touch `tfs_exec_allowed`.

`SessionServer!FairSpec`: weak fairness of the main thread, of each worker, and
of a client that is blocked in `read` and whose answer is there. These are
threads the kernel schedules; what clients ask for, when they die, and spurious
wakeups are not fair.

`SessionFiles!FairSpec`: weak fairness for each worker to go on with a request
it has begun, and for the main thread to get a mutex that is free. Clients'
requests, deaths and shutdowns are not fair.

`FineLocks!FairSpec`: weak fairness for each thread to go on with its call, also
when that means to take a lock that is free. No lock is fair, so a call that
waits may be overtaken; `CallsReturn` holds because each thread makes at most
`MaxCalls` calls. What it excludes is a cycle of waits or a lock that is kept,
not starvation by endless traffic.

## Proofs

All theorems hold for every value of the constants within the named
assumptions (`TableAssumption`, `InputAssumption`, `SizeAssumption`,
`GateAssumption`, `SessionAssumption`, `FilesAssumption`, `LockAssumption`,
`BlockAssumption`), which TLC also evaluates.

* `TecnicoFSProofs`. The invariant `TablesInv` is the conjunction of `TypeOK`,
  `BlocksAccounted`, `InodesAccounted` and `HandlesReferToFiles`. None of them
  is inductive alone: that a write to an empty file keeps blocks unshared needs
  the handle's inode to be TAKEN, which needs handles to refer to directory
  entries, which needs entries to name TAKEN inodes. The proof has one lemma
  per outcome of each operation. From it follow `TypeCorrect`,
  `BlocksNeverShared`, `InodesNeverLeak` and `HandlesAlwaysRefer`, for callers
  that use closed handles and any path.
* `TecnicoFSRefinesProofs`. `TablesImplementStore` is the refinement: `TecnicoFS`
  implements `FileStore`. It is stated for the callers of the run
  `TecnicoFSStore`: they use a handle only between open and close
  (`OpenHandlesOnly`), since a closed one still reads and writes the tables; and
  their paths are absolute, since an open with TFS_O_CREAT of a relative path
  adds an entry of that name each time. The invariant `MappedInv` adds to
  `TablesInv` that names are distinct (`NamesStayDistinct`) and not empty, so
  that the `CHOOSE`s of the mapping have one candidate. `ContentsTyped`,
  `FilesMapped` and `HandlesMapped` then say what the mapping is entry by entry,
  and what a step does to files and handles is stated once (`FilesKept`,
  `FileChanged`, `HandleMoved`, `StoreGivesHandle`). There is one lemma per
  outcome of an operation, which names the step of the store it is. A write
  spares other files because its block is its own file's or was FREE
  (`WriteSparesOthers`, from `BlocksAccounted`); a read on a handle past the end
  of its file returns the length asked for, since the subtraction wraps beyond
  every length (`ReadClamped`, from `SizeAssumption`).
* `ExecGateProofs`. `GateInv` strengthens `CountExact` with: failed opens are
  bounded by `MaxFailed` counting those that may still fail, the handles held
  and the handles being returned or closed are apart and TAKEN, and a thread
  that found no file open holds `tfs_exec_allowed` until `tfs_destroy` returns. The cardinalities are handled by
  two lemmas on adding and removing an element. `DestroyWaitsForCloses` is the
  action property: when the tables are destroyed the count is zero, and by
  `CountExact` so are the handles held and the closes under way.
* `SessionServerProofs`. `ServerInv` adds to `TypeOK` that the buffer of a
  worker about to mount holds a path unless it is torn, so that a worker opens
  only a path it read. `NoRequestSleptOn` proves `WakeupPending` assuming
  `WorkersReady`, from the invariant that no worker is starting.
* `SessionOwnershipProofs`. For any number of clients, sessions, mounts and
  requests: `SessionsOwned` proves `OwnSession`, `NoSessionReclaimed` proves
  `ReclaimsNoSession`, and `RequestsNotOverwritten` the action property
  `NoRequestOverwritten`. The hypotheses are the limits of the run: operations
  succeed (`Results \subseteq {0}`), no client is interrupted, and clients die
  only when idle, refused or mounted. Workers may still be starting, and wake up
  spuriously. The invariant is `OwnInv`, which is `~mistaken => Good`:
  * `Standings` is the goal, client by client: a client that mounted is behind
    its slot's descriptor. It is kept because that descriptor is closed only by
    the slot's own worker, after the client asked to leave.
  * `FdsDistinct` says that no other worker is to close the same number, and
    that no free number is anybody's, so that `open` hands out a new one.
    `FdsUsed` says who is behind a descriptor: a client, or nobody any more and
    then nothing is under way for the slot; so a slot found dead is idle.
  * `MountsPending`, `MountsInHand` and `MountsInPipe` say that a client's mount
    is in one place: the pipe, the main thread's hands or one slot. Otherwise a
    client could be given two sessions.
  * `RequestsInPipe` and `Phases` say that a client has one call under way and
    how far it is: in the pipe, in its session's buffer, in the handler, or
    answered. This is what `thread_worker_schedule_prod` counts on when it
    resets a buffer without a look at it.
  * `SlotsShaped` says which op codes, worker states and table entries go
    together. A FREE slot's worker may still be about to close its last
    descriptor, which is why its number must be known to be distinct.

  TLC checked `OwnInv` before the proof, as an invariant: completely for four
  clients of one mount and no request on two slots, and for three clients of one
  mount and one request that may be killed. `mistaken` was found by it: without
  the exception the invariant fails with four clients.
* `SessionFilesProofs`. `FilesInv` has two halves. The first is the counter:
  `FilesCounted` says what `open_count` is modulo `UINT_MOD`, every step moves
  both sides alike (counting up and down commutes with the remainder), and
  `FailuresBounded` keeps `failed` within its bound. The second is who owns a
  handle: a handle is TAKEN as long as somebody opened it (`TakenOwned`), a
  session's entries hold one handle and, while its end clears them, -1
  (`OneOnRecord`), and what a session has on record, was given or is about to be
  given is its own (`OwnFiles`). `FilesAlwaysOwn` follows from the second half.
  `ExitWaitsForCloses` needs both: opens that are not counted yet make the
  counter smaller than the files that are open, so it could be zero while a
  client holds a file; but each of them has a TAKEN handle of its own that is
  not the client's, an injection, so the difference is at least one, and it is
  below `UINT_MOD`, so its remainder is not zero either.
  `EndsCloseFiles` proves `EndClosesFiles` with a third invariant, `EndInv`. A
  session's client was given the one handle that all its entries hold, or none
  (`Ready`), and while its end runs, its file is open only as long as all
  entries still name it (`Ending`). So the end closes the file, if its loop runs
  at all, and it runs unless `open_files_amount` is zero: after `e` opens, with
  `n` entries that name a handle, the amount is `n - e * (MAX_OPEN_FILES - 1)`
  modulo `SIZE_MOD` (`Amount`), since an open raises it by one and a close or an
  end lowers it by every entry. That this is not zero with all entries named is
  the theorem's hypothesis, `AmountsApart`: more than two entries or one, and
  fewer opens than make it wrap. Both are needed: with two entries the amount
  is zero at the second open and the file stays open. The code has 20 entries
  and a `size_t` of 64 bits, for which the hypothesis covers 2^64 / 19 opens.
* `FineLocksProofs`. `LocksInv` says what each lock's holder is doing, and what
  the lock keeps for it. `LocksHeld`: a handle is locked by the one call in the
  steps between `lock_handle` and the unlock, an inode by the one call that
  writes or by those that read. `BufferHeld`: the same of `aux_buffer_mtx`, with
  the file last read. `HandlesHeld`: no two calls have the same handle to
  give back, and none has one that a caller was given or a copy dropped;
  without it a close could take a copy's handle away. `HandlesUsed`: a call
  past `lock_handle` has its handle TAKEN, on its inode and at its position. A
  close of the handle needs the lock, and an open takes only FREE handles, which
  is how `LocksHeld` and `HandlesHeld` carry it. `SizeKeptUnderCall` follows from
  `LocksHeld` step by step: a write that ends and a truncating open both hold
  the inode for writing. `HandlesNamed` adds the opens
  about to get a handle, `InodesOwned` says pairwise what `InodesAccounted`
  counts, and `EntriesPacked` (FREE entries come last) is why a second entry of
  a name never hides the first. `Shaped` ties a call's step to its operation and
  to which of its variables are set. Each action has a lemma `...Does` with its
  effect on single threads, handles and inodes; each part of `LocksInv` then has
  a lemma with one step per action. `INODE_TABLE_SIZE` is assumed above 1, as
  `inode_create` may start at inode 1 (the code has 50).
* `FileBlocksProofs`. `IInv` adds three things to `TypeOK`. `LocksHeld` and
  `CallsPlaced`: no two calls are on one file, and at each of its steps a call
  has reached the block it should have; so which indices of a locked file hold
  a block (`Indices`) is known from its one call, and of an unlocked one from
  its size. `RootTaken`, `BlocksDistinct` and `BlocksKept` are `OnePlacePerBlock`
  and `NoBlockLost` file by file, with the indirect block as index -1. Distinct
  blocks are what keeps the pointers in place: those of the indirect
  block are cells of `fs_data` like any byte, and a fill or a free leaves them
  alone because it changes blocks of other indices (`BlockOf`, `OthersNumbers`,
  `ByteKept`). `BytesInPlace` says `ReadsGiveBack` of each byte, and also of files
  that are being written to, since a write only adds blocks until it fills them.
  `PieceShape`, `PieceOfBlock` and `PieceOfByte` are the walk of `write_impl` and
  `read_impl`: each block is one piece, which starts in the buffer where the one
  before it ended; `WalkFills` and `WalkStep` take from it that each byte of a
  call arrives in its cell. There is one lemma per action. Once `health` is
  "damaged", a write has gone beyond its blocks; the model stops there and only
  types are claimed.

Model-checked only: the liveness properties `DestroyReturns`, `MainGoesOn` and
both `CallsReturn`, since liveness under fairness is not within the prover's
reach. Every invariant and action property that a run checks is stated by a
theorem.

## Not modelled

* A worker's `open` of a client's pipe that fails: the pipes of the model's
  clients exist when the server opens them. Failing calls of `pthread_*`.
* A second `tfs_init`; partial reads and a full request pipe; the server's
  descriptor limit; lengths that do not fit a buffer; a read that answers -1
  (its huge write to the client's pipe); a dropped request whose arguments do
  not read as NO_OPs.
* In ex1: calls that return at once because of their arguments; `tfs_close(-1)`,
  which indexes the array of locks before the handle is looked at; the names of
  the files copies are written to; what a process does after a failed write has
  overwritten memory that is not its file's.
* `insert_delay`, printing, the test programs and the build, which have no state
  of their own.

## Plan

1. (done) `TecnicoFS` with its refinement and accounting proofs; `ExecGate`
   with its proofs; `SessionServer` with type and wakeup proofs.
2. (done) `SessionFiles`, `FineLocks` and `FileBlocks`, model-checked.
3. (done) `SessionFilesProofs`, `FineLocksProofs`, `FileBlocksProofs`.
4. (done) `TecnicoFSRefinesProofs`; the ends of sessions in
   `SessionFilesProofs`; `SessionOwnershipProofs`.
