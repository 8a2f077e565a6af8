----------------------------- MODULE FileBlocks -----------------------------
(***************************************************************************)
(* Where ex1 keeps the bytes of a file: the first MAX_DIRECT data blocks   *)
(* are named by its inode, the others by the cells of an indirect block.   *)
(* Writes allocate blocks one by one, tfs_open with TFS_O_TRUNC frees them *)
(* one by one, and both hold only the lock of their inode meanwhile, so    *)
(* threads on different files interleave at every block they take from or  *)
(* give back to free_blocks.                                               *)
(*                                                                         *)
(* A cell of fs_data is what an int needs.  Byte p of file f always has    *)
(* the same value, Data(f, p), which is no block number: a cell shows      *)
(* which byte of which file was last put there.  What a FREE block holds   *)
(* is Junk, which stands for any byte.  The files exist from the start.    *)
(* Names and handles are in module FineLocks: here a write starts anywhere *)
(* a handle of the file may stand, up to the largest size it ever had.     *)
(***************************************************************************)
EXTENDS Integers

CONSTANTS
    Thread,
    File,                            \* the inumbers of the files
    Writes,                          \* the [file, offset, len] callers write
    BLOCK_SIZE, DATA_BLOCKS,
    MAX_DIRECT                       \* MAX_DIRECT_DATA_BLOCKS_PER_FILE

ASSUME BlockAssumption ==
    /\ File \subseteq Nat \ {0} /\ Writes \subseteq [file : File, offset : Nat, len : Nat]
    /\ BLOCK_SIZE \in Nat \ {0} /\ DATA_BLOCKS \in Nat \ {0}
    /\ MAX_DIRECT \in Nat \ {0}

VARIABLES
    inode_table,     \* i_size, i_direct_data_blocks and i_indirect_data_block
    free_blocks,     \* the FREE blocks
    fs_data,         \* every cell of every block
    call,            \* where each thread is in its call
    reached,         \* history: the largest size each file had
    written,         \* history: the bytes written since the file was empty
    health           \* history: what failed writes have done

vars == <<inode_table, free_blocks, fs_data, call, reached, written, health>>

UNALLOCATED_BLOCK == -1
ROOT_BLOCK == 0                      \* the root directory's entries
NoFile == 0                          \* the root directory's inumber
MAX_BLOCKS == MAX_DIRECT + BLOCK_SIZE
MAX_FILE_SIZE == MAX_BLOCKS * BLOCK_SIZE

Block == 0 .. DATA_BLOCKS - 1
Address == 0 .. DATA_BLOCKS * BLOCK_SIZE - 1
Direct == 0 .. MAX_DIRECT - 1

Data(f, p) == DATA_BLOCKS + f * MAX_FILE_SIZE + p
Junk == -2                           \* any byte

IsFirst(b, S) == b \in S /\ \A c \in S : b <= c
AtLeast(n, limit) == IF n < limit THEN limit ELSE n
AtMost(n, limit) == IF n > limit THEN limit ELSE n

BLOCK_SIZEOF(x) == (x + BLOCK_SIZE - 1) \div BLOCK_SIZE
blocks_allocated(f) == BLOCK_SIZEOF(inode_table[f].i_size)
rw_total_blocks(offset, n) == BLOCK_SIZEOF(offset + n)
final_block(offset, n) == rw_total_blocks(offset, n) - 1
current_block(offset) == offset \div BLOCK_SIZE
BLOCK_OFFSET(offset) == offset % BLOCK_SIZE

\* The block at index k of a file.  k is compared with MAX_BLOCKS, a size_t, so
\* a negative one is as much out of range as one that is too large.
get_block_number(f, k) ==
    LET node == inode_table[f]
    IN IF k \notin 0 .. MAX_BLOCKS - 1 THEN UNALLOCATED_BLOCK
       ELSE IF k < MAX_DIRECT THEN node.i_direct_data_blocks[k]
       ELSE IF node.i_indirect_data_block \in Block
       THEN fs_data[node.i_indirect_data_block * BLOCK_SIZE + (k - MAX_DIRECT)]
       ELSE UNALLOCATED_BLOCK

Idle == [at |-> "idle", file |-> NoFile, block |-> 0, offset |-> 0, to_write |-> 0]

\* tfs_init gave block 0 to the root directory.
Init ==
    /\ inode_table = [f \in File |->
            [i_size |-> 0,
             i_direct_data_blocks |->
                 [k \in Direct |-> IF k = 0 THEN UNALLOCATED_BLOCK ELSE 0],
             i_indirect_data_block |-> UNALLOCATED_BLOCK]]
    /\ free_blocks = Block \ {ROOT_BLOCK}
    /\ fs_data = [a \in Address |-> Junk]
    /\ call = [t \in Thread |-> Idle]
    /\ reached = [f \in File |-> 0]
    /\ written = [f \in File |-> {}]
    /\ health = "sound"

\* A thread in a call holds the inode_rw_locks entry of the call's file.
Locked(f) == \E t \in Thread : call[t].at # "idle" /\ call[t].file = f

\* What the threads of a damaged process do next is not followed.
At(t, step) == health # "damaged" /\ call[t].at = step
Goto(t, step, k) == call' = [call EXCEPT ![t].at = step, ![t].block = k]
Return(t) == call' = [call EXCEPT ![t] = Idle]

-----------------------------------------------------------------------------
(* tfs_open with TFS_O_TRUNC *)

\* If the file is not empty, data_inode_blocks_free starts at its last block.
open_truncate(t, f) ==
    /\ At(t, "idle") /\ ~ Locked(f)
    /\ inode_table[f].i_size > 0
    /\ call' = [call EXCEPT ![t] = [at |-> "freeing", file |-> f,
                                    block |-> blocks_allocated(f) - 1,
                                    offset |-> 0, to_write |-> 0]]
    /\ UNCHANGED <<inode_table, free_blocks, fs_data, reached, written, health>>

\* Mutant: the file keeps its size when its blocks are gone.
truncated_KeepsSize(t) ==
    LET f == call[t].file
    IN /\ written' = [written EXCEPT ![f] = {}]
       /\ Return(t)
       /\ UNCHANGED inode_table

\* No block is left: the file is empty.
truncated(t) ==
    LET f == call[t].file
    IN /\ inode_table' = [inode_table EXCEPT ![f].i_size = 0]
       /\ written' = [written EXCEPT ![f] = {}]
       /\ Return(t)

\* The step after the block at index k is free.
free_next(t, k) ==
    IF k = 0 THEN truncated(t)
    ELSE /\ Goto(t, "freeing", k - 1)
         /\ UNCHANGED <<inode_table, written>>

data_block_free(b) ==
    /\ free_blocks' = free_blocks \cup {b}
    /\ fs_data' = [a \in Address |-> IF a \div BLOCK_SIZE = b THEN Junk ELSE fs_data[a]]

\* Mutant: the indirect block is not given back.
free_block_KeepsIndirect(t) ==
    LET k == call[t].block
    IN /\ At(t, "freeing")
       /\ data_block_free(get_block_number(call[t].file, k))
       /\ free_next(t, k)
       /\ UNCHANGED <<reached, health>>

free_block(t) ==
    LET k == call[t].block
    IN /\ At(t, "freeing")
       /\ data_block_free(get_block_number(call[t].file, k))
       /\ IF k = MAX_DIRECT
          THEN /\ Goto(t, "freeing_indirect", k)
               /\ UNCHANGED <<inode_table, written>>
          ELSE free_next(t, k)
       /\ UNCHANGED <<reached, health>>

free_indirect_block(t) ==
    /\ At(t, "freeing_indirect")
    /\ data_block_free(inode_table[call[t].file].i_indirect_data_block)
    /\ free_next(t, call[t].block)
    /\ UNCHANGED <<reached, health>>

-----------------------------------------------------------------------------
(* tfs_write *)

\* The lock is taken and the length clamped.  If the file's blocks reach,
\* nothing is allocated; otherwise allocation starts behind the last one.
write_begin(t, w) ==
    LET f == w.file
        offset == w.offset
        to_write == AtMost(w.len, MAX_FILE_SIZE - offset)
    IN /\ At(t, "idle") /\ ~ Locked(f)
       /\ offset <= reached[f]
       /\ to_write > 0
       /\ call' = [call EXCEPT ![t] =
            [at |-> IF blocks_allocated(f) < rw_total_blocks(offset, to_write)
                    THEN "allocating" ELSE "filling",
             file |-> f, block |-> blocks_allocated(f),
             offset |-> offset, to_write |-> to_write]]
       /\ UNCHANGED <<inode_table, free_blocks, fs_data, reached, written, health>>

last_block_to_write(t) == final_block(call[t].offset, call[t].to_write)

\* allocate_per_block: the lowest FREE block is stored where the inode or the
\* indirect block keeps index k; index -1 is the indirect block itself.
allocate_per_block(f, k) ==
    \E b \in Block :
      /\ IsFirst(b, free_blocks)
      /\ free_blocks' = free_blocks \ {b}
      /\ \/ /\ k = -1
            /\ inode_table' = [inode_table EXCEPT ![f].i_indirect_data_block = b]
            /\ UNCHANGED fs_data
         \/ /\ k \in Direct
            /\ inode_table' = [inode_table EXCEPT ![f].i_direct_data_blocks[k] = b]
            /\ UNCHANGED fs_data
         \/ /\ k >= MAX_DIRECT
            /\ fs_data' = [fs_data EXCEPT
                    ![inode_table[f].i_indirect_data_block * BLOCK_SIZE
                        + (k - MAX_DIRECT)] = b]
            /\ UNCHANGED inode_table

\* The step after the block at index k is allocated.
allocate_next(t, k) ==
    IF k >= last_block_to_write(t) THEN Goto(t, "filling", k + 1)
    ELSE Goto(t, "allocating", k + 1)

\* Mutant: the indirect block is allocated one index too late.
allocate_block_Late(t) ==
    LET k == call[t].block
    IN /\ At(t, "allocating")
       /\ IF k = MAX_DIRECT + 1
          THEN allocate_per_block(call[t].file, -1) /\ Goto(t, "allocating_first", k)
          ELSE allocate_per_block(call[t].file, k) /\ allocate_next(t, k)
       /\ UNCHANGED <<reached, written, health>>

\* Index MAX_DIRECT takes the indirect block first, then its first cell.
allocate_block(t) ==
    LET k == call[t].block
    IN /\ At(t, "allocating")
       /\ IF k = MAX_DIRECT
          THEN allocate_per_block(call[t].file, -1) /\ Goto(t, "allocating_first", k)
          ELSE allocate_per_block(call[t].file, k) /\ allocate_next(t, k)
       /\ UNCHANGED <<reached, written, health>>

allocate_first_of_indirect(t) ==
    /\ At(t, "allocating_first")
    /\ allocate_per_block(call[t].file, MAX_DIRECT)
    /\ allocate_next(t, MAX_DIRECT)
    /\ UNCHANGED <<reached, written, health>>

\* No block is FREE: allocation stops short at call[t].block.
allocate_none(t) ==
    /\ free_blocks = {}
    /\ \/ At(t, "allocating") /\ Goto(t, "failing", call[t].block)
       \/ At(t, "allocating_first") /\ Goto(t, "failing_first", call[t].block)
    /\ UNCHANGED <<inode_table, free_blocks, fs_data, reached, written, health>>

\* The pieces in which write_impl and read_impl walk n bytes from
\* block_offset of block start to block last: len bytes at position at of a
\* block are bytes from .. from + len - 1 of the buffer.
Pieces(start, last, block_offset, n) ==
    LET head == BLOCK_SIZE - block_offset
        before(k) == head + (k - start - 1) * BLOCK_SIZE
        buffer_offset == IF last > start THEN before(last) ELSE head
    IN IF start = last
       THEN {[block |-> start, at |-> block_offset, from |-> 0, len |-> n]}
       ELSE {[block |-> start, at |-> block_offset, from |-> 0, len |-> head]}
            \cup {[block |-> k, at |-> 0, from |-> before(k), len |-> BLOCK_SIZE] :
                    k \in start + 1 .. last - 1}
            \cup {[block |-> last, at |-> 0, from |-> buffer_offset,
                   len |-> n - buffer_offset]}

\* fill_block of each piece in turn.  memcpy does not stop at the end of a
\* block: what a piece has beyond it falls on the block that lies behind.
fill_blocks(f, pieces, buffer) ==
    LET Base(p) == get_block_number(f, p.block) * BLOCK_SIZE + p.at
        Over(a) == {p \in pieces : Base(p) <= a /\ a < Base(p) + p.len}
        Final(a) == CHOOSE p \in Over(a) : \A q \in Over(a) : q.from <= p.from
    IN fs_data' = [a \in Address |->
            IF Over(a) = {} THEN fs_data[a]
            ELSE buffer[Final(a).from + a - Base(Final(a))]]

write_filled(t) ==
    LET f == call[t].file
        offset == call[t].offset
        n == call[t].to_write
        buffer == [i \in 0 .. MAX_FILE_SIZE - 1 |-> Data(f, offset + i)]
    IN /\ At(t, "filling")
       /\ fill_blocks(f, Pieces(current_block(offset), final_block(offset, n),
                                BLOCK_OFFSET(offset), n), buffer)
       /\ inode_table' = [inode_table EXCEPT ![f].i_size = AtLeast(@, offset + n)]
       /\ reached' = [reached EXCEPT ![f] = AtLeast(@, offset + n)]
       /\ written' = [written EXCEPT ![f] = @ \cup offset .. offset + n - 1]
       /\ Return(t)
       /\ UNCHANGED <<free_blocks, health>>

-----------------------------------------------------------------------------
(* A tfs_write that ran out of blocks.  The length becomes the whole blocks *)
(* from the first one written to the last one allocated, whatever the       *)
(* offset in the first; i_size and the offset stay.                         *)

Failing(t) == At(t, "failing") \/ At(t, "failing_first")
Got(t) == At(t, "failing_first") \/ call[t].block > blocks_allocated(call[t].file)
Leaked(t) == IF Got(t) THEN "leaking" ELSE health

\* Nothing is filled: the file ends where the write starts, or the first
\* pointer is no block.  A cell never stored to may be read as any pointer.
write_fails(t) ==
    LET f == call[t].file
        start == current_block(call[t].offset)
        last == call[t].block - 1
    IN /\ Failing(t)
       /\ \/ start = last
          \/ get_block_number(f, start) \notin Block
       /\ health' = Leaked(t)
       /\ Return(t)
       /\ UNCHANGED <<inode_table, free_blocks, fs_data, reached, written>>

\* The blocks from start to last are filled, the last with more than a block
\* if the first was entered in its middle.
write_fails_filling(t) ==
    LET f == call[t].file
        offset == call[t].offset
        start == current_block(offset)
        last == call[t].block - 1
        buffer == [i \in 0 .. MAX_FILE_SIZE - 1 |->
                    IF i < call[t].to_write THEN Data(f, offset + i) ELSE Junk]
    IN /\ Failing(t)
       /\ start < last
       /\ fill_blocks(f, Pieces(start, last, BLOCK_OFFSET(offset),
                                (last - start + 1) * BLOCK_SIZE), buffer)
       /\ health' = IF BLOCK_OFFSET(offset) > 0 THEN "damaged" ELSE Leaked(t)
       /\ Return(t)
       /\ UNCHANGED <<inode_table, free_blocks, reached, written>>

\* The block at start was never allocated, and its pointer is what an earlier
\* life of the file or static memory left there: that block is filled.  Then
\* the write fails at index -1, if it got no block at all, and the process goes
\* on with what was overwritten; otherwise the last piece has a negative length,
\* which no memcpy survives.  Neither is followed further.  A pointer read from
\* bytes that are no block number here may be any block.
write_fails_stale(t) ==
    LET f == call[t].file
        offset == call[t].offset
        start == current_block(offset)
        stale == get_block_number(f, start)
        buffer == [i \in 0 .. MAX_FILE_SIZE - 1 |->
                    IF i < call[t].to_write THEN Data(f, offset + i) ELSE Junk]
    IN /\ Failing(t)
       /\ start >= call[t].block
       /\ stale # UNALLOCATED_BLOCK
       /\ IF stale \in Block
          THEN fill_blocks(f, {[block |-> start, at |-> BLOCK_OFFSET(offset),
                    from |-> 0, len |-> BLOCK_SIZE - BLOCK_OFFSET(offset)]}, buffer)
          ELSE UNCHANGED fs_data
       /\ health' = "damaged"
       /\ Return(t)
       /\ UNCHANGED <<inode_table, free_blocks, reached, written>>

-----------------------------------------------------------------------------
(* tfs_read *)

\* Mutant: a read that crosses into a block starts at the first one's offset.
read_impl_KeepsOffset(f, offset, n) ==
    LET pieces == Pieces(current_block(offset), final_block(offset, n),
                         BLOCK_OFFSET(offset), n)
        Piece(i) == CHOOSE p \in pieces : p.from <= i /\ i < p.from + p.len
    IN [i \in 0 .. n - 1 |->
            fs_data[get_block_number(f, Piece(i).block) * BLOCK_SIZE
                    + BLOCK_OFFSET(offset + i - Piece(i).from)]]

\* The n bytes memcpy'd into the caller's buffer.
read_impl(f, offset, n) ==
    LET pieces == Pieces(current_block(offset), final_block(offset, n),
                         BLOCK_OFFSET(offset), n)
        Piece(i) == CHOOSE p \in pieces : p.from <= i /\ i < p.from + p.len
    IN [i \in 0 .. n - 1 |->
            fs_data[get_block_number(f, Piece(i).block) * BLOCK_SIZE
                    + Piece(i).at + (i - Piece(i).from)]]

-----------------------------------------------------------------------------
Next == \E t \in Thread :
    \/ \E f \in File : open_truncate(t, f)
    \/ free_block(t) \/ free_indirect_block(t)
    \/ \E w \in Writes : write_begin(t, w)
    \/ allocate_block(t) \/ allocate_first_of_indirect(t) \/ allocate_none(t)
    \/ write_filled(t)
    \/ write_fails(t) \/ write_fails_filling(t) \/ write_fails_stale(t)

Spec == Init /\ [][Next]_vars

-----------------------------------------------------------------------------
(* Properties *)

\* Types; a thread in a write or truncation is in one of its own file.
TypeOK ==
    /\ inode_table \in [File -> [i_size : 0 .. MAX_FILE_SIZE,
                                 i_direct_data_blocks : [Direct -> Block \cup {-1}],
                                 i_indirect_data_block : Block \cup {-1}]]
    /\ free_blocks \subseteq Block
    /\ fs_data \in [Address -> Int]
    /\ call \in [Thread -> [at : {"idle", "freeing", "freeing_indirect", "allocating",
                                  "allocating_first", "filling", "failing",
                                  "failing_first"},
                            file : File \cup {NoFile},
                            block : 0 .. MAX_BLOCKS,
                            offset : 0 .. MAX_FILE_SIZE,
                            to_write : 0 .. MAX_FILE_SIZE]]
    /\ reached \in [File -> 0 .. MAX_FILE_SIZE]
    /\ written \in [File -> SUBSET (0 .. MAX_FILE_SIZE - 1)]
    /\ health \in {"sound", "leaking", "damaged"}

\* The indices at which a file has a block, -1 being its indirect block: the
\* whole of it, or what a call has allocated or not yet freed.
Indices(f) ==
    LET UpTo(k) == (0 .. k - 1) \cup (IF k > MAX_DIRECT THEN {-1} ELSE {})
    IN IF Locked(f)
       THEN LET c == call[CHOOSE t \in Thread : call[t].at # "idle" /\ call[t].file = f]
            IN CASE c.at = "freeing" -> UpTo(c.block + 1)
                 [] c.at \in {"freeing_indirect", "allocating_first", "failing_first"}
                        -> UpTo(c.block) \cup {-1}
                 [] OTHER -> UpTo(c.block)
       ELSE UpTo(blocks_allocated(f))

\* The block at one of them.
BlockOf(f, k) ==
    IF k = -1 THEN inode_table[f].i_indirect_data_block ELSE get_block_number(f, k)

Places == {p \in File \X (-1 .. MAX_BLOCKS) : p[2] \in Indices(p[1])}
BlockAt(p) == BlockOf(p[1], p[2])

\* However allocations, truncations and failed writes of the threads mix, a
\* block is at one place: no two indices of any files name the same one, none
\* names a FREE block or the root directory's.
OnePlacePerBlock ==
    health # "damaged" =>
        \A p \in Places :
            /\ BlockAt(p) \in Block \ (free_blocks \cup {ROOT_BLOCK})
            /\ \A q \in Places : BlockAt(p) = BlockAt(q) => p = q

\* Every block is FREE or at a place, except what failed writes allocated and
\* dropped (allocate_blocks gives nothing back).
NoBlockLost ==
    health = "sound" =>
        \A b \in Block \ (free_blocks \cup {ROOT_BLOCK}) :
            \E p \in Places : BlockAt(p) = b

\* Any part of an unlocked file, read in any way, gives back the bytes written
\* there, through direct and indirect blocks and across their borders.  Bytes
\* that no write covered (a gap behind a truncation) may be anything.
ReadsGiveBack ==
    health # "damaged" =>
        \A f \in File : ~ Locked(f) =>
            \A offset \in 0 .. inode_table[f].i_size - 1 :
                \A n \in 1 .. inode_table[f].i_size - offset :
                    LET buffer == read_impl(f, offset, n)
                    IN \A i \in 0 .. n - 1 :
                        offset + i \in written[f] => buffer[i] = Data(f, offset + i)

\* A write that fails leaves the other files' contents alone ("We'll still
\* write until where we can, but we fail anyway", operations.c).
FailedWriteSparesOthers ==
    [][\A t \in Thread, f \in File :
        Failing(t) /\ ~ Failing(t)' /\ f # call[t].file /\ ~ Locked(f) =>
            \A p \in written[f] : read_impl(f, p, 1)' = read_impl(f, p, 1)]_vars
=============================================================================
