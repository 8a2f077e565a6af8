----------------------------- MODULE TecnicoFS -----------------------------
(***************************************************************************)
(* The file system of ex2: the tables of fs/state.c and the operations of  *)
(* fs/operations.c on them.  Every public operation runs from its first    *)
(* access to its last under single_global_lock, so each one is a single    *)
(* step here; what tfs_open and tfs_close do outside that lock (can_exec,  *)
(* open_files) is in module ExecGate.                                      *)
(*                                                                         *)
(* Behaviours start where tfs_init returns: inode 0 is the root directory  *)
(* and block 0 holds its entries, kept here as root_dir.  The three free   *)
(* maps are the sets of their FREE entries.                                *)
(***************************************************************************)
EXTENDS Integers, Sequences

CONSTANTS
    Name,              \* names a directory entry may hold
    NoName,            \* what follows the first character of a path: nothing
    Path,              \* the paths callers pass: [abs: starts with '/', name]
    Byte,              \* contents of a cell of a data block
    ZERO,              \* the contents of static memory
    Payload,           \* the buffers callers write
    ReadLen,           \* the lengths callers ask to read
    INODE_TABLE_SIZE, DATA_BLOCKS, BLOCK_SIZE, MAX_OPEN_FILES, MAX_DIR_ENTRIES,
    SIZE_MAX,          \* the largest size_t
    OpenHandlesOnly    \* TRUE: callers use a handle only between open and close;
                       \* FALSE: they also go on using a handle they closed

ROOT_DIR_INUM == 0

ASSUME TableAssumption ==
    /\ INODE_TABLE_SIZE \in Nat \ {0} /\ DATA_BLOCKS \in Nat \ {0}
    /\ BLOCK_SIZE \in Nat \ {0} /\ MAX_OPEN_FILES \in Nat \ {0}
    /\ MAX_DIR_ENTRIES \in Nat
ASSUME InputAssumption ==
    /\ ZERO \in Byte /\ NoName \notin Name /\ OpenHandlesOnly \in BOOLEAN
    /\ Path \subseteq [abs : BOOLEAN, name : Name \cup {NoName}]
    /\ Payload \subseteq Seq(Byte)
    /\ ReadLen \subseteq Nat
\* No buffer or block comes near the width of size_t.
ASSUME SizeAssumption ==
    /\ SIZE_MAX \in Nat
    /\ \A len \in ReadLen : 2 * BLOCK_SIZE + len <= SIZE_MAX

VARIABLES
    freeinode_ts,              \* the FREE inodes
    inode_table,
    root_dir,                  \* the entries in the root directory's block
    free_blocks,               \* the FREE blocks
    fs_data,                   \* the bytes of each block
    free_open_file_entries,    \* the FREE handles
    open_file_table,
    reply                      \* what the last operation returned

dirVars == <<freeinode_ts, root_dir>>
blockVars == <<inode_table, free_blocks, fs_data>>
handleVars == <<free_open_file_entries, open_file_table>>
vars == <<freeinode_ts, inode_table, root_dir, free_blocks, fs_data,
          free_open_file_entries, open_file_table, reply>>

Inumber == 0 .. INODE_TABLE_SIZE - 1
Block == 0 .. DATA_BLOCKS - 1
Cell == 0 .. BLOCK_SIZE - 1
Handle == 0 .. MAX_OPEN_FILES - 1
Slot == 0 .. MAX_DIR_ENTRIES - 1
Flags == SUBSET {"TFS_O_CREAT", "TFS_O_TRUNC", "TFS_O_APPEND"}

\* The searches of the tables stop at the first entry that fits.
IsFirst(i, S) == i \in S /\ \A j \in S : i <= j

\* Unsigned subtraction of two size_t.
SizeSub(a, b) == IF a >= b THEN a - b ELSE (SIZE_MAX + 1 + a) - b

AtMost(n, limit) == IF n > limit THEN limit ELSE n

Init ==
    /\ freeinode_ts = Inumber \ {ROOT_DIR_INUM}
    /\ inode_table = [i \in Inumber |->
                        IF i = ROOT_DIR_INUM
                        THEN [i_size |-> BLOCK_SIZE, i_data_block |-> 0]
                        ELSE [i_size |-> 0, i_data_block |-> 0]]
    /\ root_dir = [s \in Slot |-> [d_name |-> NoName, d_inumber |-> -1]]
    /\ free_blocks = Block \ {0}
    /\ fs_data = [b \in Block |-> [c \in Cell |-> ZERO]]
    /\ free_open_file_entries = Handle
    /\ open_file_table = [h \in Handle |-> [of_inumber |-> 0, of_offset |-> 0]]
    /\ reply = [op |-> "tfs_init", ret |-> 0, data |-> << >>]

Return(op, r) == reply' = [op |-> op, ret |-> r, data |-> << >>]

-----------------------------------------------------------------------------
(* tfs_lookup *)

valid_pathname(p) == p.abs /\ p.name # NoName

FreeSlots == {s \in Slot : root_dir[s].d_inumber = -1}

\* Mutant: the search starts at the second entry.
Found_SkipsFirst(p) ==
    {s \in Slot \ FreeSlots : /\ s > 0
                              /\ valid_pathname(p) /\ root_dir[s].d_name = p.name}

\* The entries find_in_dir would stop at.
Found(p) ==
    {s \in Slot \ FreeSlots : valid_pathname(p) /\ root_dir[s].d_name = p.name}

tfs_lookup(p) ==
    /\ \/ /\ Found(p) = {}
          /\ Return("tfs_lookup", -1)
       \/ \E s \in Slot : /\ IsFirst(s, Found(p))
                          /\ Return("tfs_lookup", root_dir[s].d_inumber)
    /\ UNCHANGED <<dirVars, blockVars, handleVars>>

-----------------------------------------------------------------------------
(* tfs_open *)

add_to_open_file_table(inum, offset) ==
    \/ /\ free_open_file_entries = {}
       /\ Return("tfs_open", -1)
       /\ UNCHANGED handleVars
    \/ \E h \in Handle :
         /\ IsFirst(h, free_open_file_entries)
         /\ free_open_file_entries' = free_open_file_entries \ {h}
         /\ open_file_table' = [open_file_table EXCEPT
                ![h] = [of_inumber |-> inum, of_offset |-> offset]]
         /\ Return("tfs_open", h)

\* The file exists: truncate it if asked, then give out a handle.
OpenExisting(p, flags) ==
    \E s \in Slot :
      /\ IsFirst(s, Found(p))
      /\ LET inum == root_dir[s].d_inumber
             node == inode_table[inum]
             cut == "TFS_O_TRUNC" \in flags /\ node.i_size > 0
             size == IF cut THEN 0 ELSE node.i_size
         IN /\ free_blocks' = IF cut THEN free_blocks \cup {node.i_data_block}
                                     ELSE free_blocks
            /\ inode_table' = [inode_table EXCEPT ![inum].i_size = size]
            /\ add_to_open_file_table(inum,
                 IF "TFS_O_APPEND" \in flags THEN size ELSE 0)
      /\ UNCHANGED <<dirVars, fs_data>>

inode_create(inum) ==
    /\ IsFirst(inum, freeinode_ts)
    /\ inode_table' = [inode_table EXCEPT
                         ![inum] = [i_size |-> 0, i_data_block |-> -1]]

\* The file is created; it stays when no handle is left for it.
OpenCreate(p) ==
    \E inum \in Inumber, s \in Slot :
      /\ p.name # NoName
      /\ inode_create(inum)
      /\ freeinode_ts' = freeinode_ts \ {inum}
      /\ IsFirst(s, FreeSlots)
      /\ root_dir' = [root_dir EXCEPT
                        ![s] = [d_name |-> p.name, d_inumber |-> inum]]
      /\ add_to_open_file_table(inum, 0)
      /\ UNCHANGED <<free_blocks, fs_data>>

\* Mutants: the inode is not given back; the refusal goes unnoticed.
OpenNoEntry_NoDelete(p) ==
    /\ FreeSlots = {} \/ p.name = NoName
    /\ \E inum \in Inumber : inode_create(inum) /\ freeinode_ts' = freeinode_ts \ {inum}
    /\ Return("tfs_open", -1)
    /\ UNCHANGED <<root_dir, free_blocks, fs_data, handleVars>>

OpenNoEntry_Unnoticed(p) ==
    /\ FreeSlots = {} \/ p.name = NoName
    /\ \E inum \in Inumber : inode_create(inum) /\ add_to_open_file_table(inum, 0)
    /\ UNCHANGED <<dirVars, free_blocks, fs_data>>

\* add_dir_entry refuses (directory full, or no name): inode_delete frees it.
OpenNoEntry(p) ==
    /\ FreeSlots = {} \/ p.name = NoName
    /\ \E inum \in Inumber : inode_create(inum)
    /\ Return("tfs_open", -1)
    /\ UNCHANGED <<dirVars, free_blocks, fs_data, handleVars>>

OpenNoInode ==
    /\ freeinode_ts = {}
    /\ Return("tfs_open", -1)
    /\ UNCHANGED <<dirVars, blockVars, handleVars>>

OpenMissing ==
    /\ Return("tfs_open", -1)
    /\ UNCHANGED <<dirVars, blockVars, handleVars>>

tfs_open(p, flags) ==
    \/ OpenExisting(p, flags)
    \/ /\ Found(p) = {}
       /\ IF "TFS_O_CREAT" \in flags
          THEN OpenCreate(p) \/ OpenNoEntry(p) \/ OpenNoInode
          ELSE OpenMissing

-----------------------------------------------------------------------------
(* tfs_close *)

remove_from_open_file_table(h) ==
    /\ h \in Handle \ free_open_file_entries
    /\ free_open_file_entries' = free_open_file_entries \cup {h}

tfs_close(h) ==
    /\ \/ remove_from_open_file_table(h) /\ Return("tfs_close", 0)
       \/ /\ h \notin Handle \ free_open_file_entries
          /\ Return("tfs_close", -1)
          /\ UNCHANGED free_open_file_entries
    /\ UNCHANGED <<dirVars, blockVars, open_file_table>>

-----------------------------------------------------------------------------
(* tfs_write and tfs_read.  get_open_file_entry does not look at           *)
(* free_open_file_entries: the entry of a closed handle still works.  A    *)
(* handle no open ever returned is left out (its zeroed entry is the root  *)
(* directory).  An offset past the block (only a read past the end of the  *)
(* file leaves one) makes the next memcpy leave the block: the model stops *)
(* following that handle.                                                  *)

Usable(h) ==
    /\ IF OpenHandlesOnly THEN h \notin free_open_file_entries
                          ELSE open_file_table[h].of_inumber # ROOT_DIR_INUM
    /\ open_file_table[h].of_offset <= BLOCK_SIZE

NodeOf(h) == inode_table[open_file_table[h].of_inumber]

\* Mutant: the clamp is missing.
ToWrite_NoClamp(h, buffer) == Len(buffer)

\* to_write, clamped to the end of the block.
ToWrite(h, buffer) == AtMost(Len(buffer), BLOCK_SIZE - open_file_table[h].of_offset)

WriteNothing(h, buffer) ==
    /\ ToWrite(h, buffer) = 0
    /\ Return("tfs_write", 0)
    /\ UNCHANGED <<dirVars, blockVars, handleVars>>

\* data_block_alloc stores its -1 in the inode, data_block_get returns NULL.
WriteNoBlock(h, buffer) ==
    /\ ToWrite(h, buffer) > 0
    /\ IF NodeOf(h).i_size = 0 THEN free_blocks = {}
                               ELSE NodeOf(h).i_data_block \notin Block
    /\ inode_table' = [inode_table EXCEPT
                         ![open_file_table[h].of_inumber].i_data_block = -1]
    /\ Return("tfs_write", -1)
    /\ UNCHANGED <<dirVars, free_blocks, fs_data, handleVars>>

\* Mutant: every write allocates.
data_block_for_write_Always(h, b) ==
    IsFirst(b, free_blocks) /\ free_blocks' = free_blocks \ {b}

\* The block the bytes go to: an empty file gets a new one.
data_block_for_write(h, b) ==
    IF NodeOf(h).i_size = 0
    THEN IsFirst(b, free_blocks) /\ free_blocks' = free_blocks \ {b}
    ELSE b = NodeOf(h).i_data_block /\ free_blocks' = free_blocks

WriteBytes(h, buffer) ==
    \E b \in Block :
      LET n == ToWrite(h, buffer)
          from == open_file_table[h].of_offset
          inum == open_file_table[h].of_inumber
      IN /\ n > 0
         /\ data_block_for_write(h, b)
         /\ fs_data' = [fs_data EXCEPT ![b] = [c \in Cell |->
                IF from <= c /\ c < from + n THEN buffer[c - from + 1]
                                             ELSE fs_data[b][c]]]
         /\ open_file_table' = [open_file_table EXCEPT ![h].of_offset = from + n]
         /\ inode_table' = [inode_table EXCEPT
                ![inum] = [i_size |-> IF from + n > NodeOf(h).i_size
                                      THEN from + n ELSE NodeOf(h).i_size,
                           i_data_block |-> b]]
         /\ Return("tfs_write", n)
         /\ UNCHANGED <<dirVars, free_open_file_entries>>

tfs_write(h, buffer) ==
    /\ Usable(h)
    /\ WriteNothing(h, buffer) \/ WriteNoBlock(h, buffer) \/ WriteBytes(h, buffer)

\* Mutant: what was read before is not subtracted.
ToRead_FromStart(h, len) == AtMost(NodeOf(h).i_size, len)

\* to_read: the subtraction wraps when the handle stands past i_size.
ToRead(h, len) ==
    AtMost(SizeSub(NodeOf(h).i_size, open_file_table[h].of_offset), len)

ReadNothing(h, len) ==
    /\ ToRead(h, len) = 0
    /\ Return("tfs_read", 0)
    /\ UNCHANGED handleVars

ReadNoBlock(h, len) ==
    /\ ToRead(h, len) > 0
    /\ NodeOf(h).i_data_block \notin Block
    /\ Return("tfs_read", -1)
    /\ UNCHANGED handleVars

\* Bytes past the end of the block belong to whatever lies there.
ReadBytes(h, len) ==
    \E b \in Block, data \in [1 .. ToRead(h, len) -> Byte] :
      LET from == open_file_table[h].of_offset
      IN /\ ToRead(h, len) > 0
         /\ b = NodeOf(h).i_data_block
         /\ \A i \in DOMAIN data :
              from + i <= BLOCK_SIZE => data[i] = fs_data[b][from + i - 1]
         /\ open_file_table' = [open_file_table EXCEPT
                                  ![h].of_offset = from + ToRead(h, len)]
         /\ reply' = [op |-> "tfs_read", ret |-> ToRead(h, len), data |-> data]
         /\ UNCHANGED free_open_file_entries

tfs_read(h, len) ==
    /\ Usable(h)
    /\ ReadNothing(h, len) \/ ReadNoBlock(h, len) \/ ReadBytes(h, len)
    /\ UNCHANGED <<dirVars, blockVars>>

-----------------------------------------------------------------------------

\* get_open_file_entry returns NULL for a handle outside the table.
InvalidHandle(op) ==
    /\ ~ OpenHandlesOnly
    /\ Return(op, -1)
    /\ UNCHANGED <<dirVars, blockVars, handleVars>>

Next ==
    \/ \E p \in Path : tfs_lookup(p) \/ \E flags \in Flags : tfs_open(p, flags)
    \/ \E h \in (IF OpenHandlesOnly THEN Handle \ free_open_file_entries
                                  ELSE Handle \cup {-1}) : tfs_close(h)
    \/ \E h \in Handle : \/ \E buffer \in Payload : tfs_write(h, buffer)
                         \/ \E len \in ReadLen : tfs_read(h, len)
    \/ \E op \in {"tfs_write", "tfs_read"} : InvalidHandle(op)

Spec == Init /\ [][Next]_vars

-----------------------------------------------------------------------------
(* Properties *)

NodeType == [i_size : 0 .. BLOCK_SIZE, i_data_block : Block \cup {-1}]

Ops == {"tfs_init", "tfs_lookup", "tfs_open", "tfs_close", "tfs_write", "tfs_read"}

\* Every table holds what its C type and its bounds allow: sizes stay within
\* a block, inode numbers and block numbers stay within their tables.
TypeOK ==
    /\ freeinode_ts \subseteq Inumber
    /\ inode_table \in [Inumber -> NodeType]
    /\ root_dir \in [Slot -> [d_name : Name \cup {NoName}, d_inumber : Inumber \cup {-1}]]
    /\ free_blocks \subseteq Block
    /\ fs_data \in [Block -> [Cell -> Byte]]
    /\ free_open_file_entries \subseteq Handle
    /\ open_file_table \in [Handle -> [of_inumber : Inumber, of_offset : Nat]]
    /\ reply \in [op : Ops, ret : Int, data : Seq(Byte)]

\* The inodes that own a block: the TAKEN ones that are not empty.
Owners == {i \in Inumber \ freeinode_ts : inode_table[i].i_size > 0}

\* data_block_alloc and data_block_free keep in step with i_size: a block is
\* TAKEN exactly when a TAKEN inode that is not empty points at it, and no two
\* point at the same one; no block leaks and none is shared.
BlocksAccounted ==
    /\ \A i \in Owners : inode_table[i].i_data_block \in Block \ free_blocks
    /\ \A i, j \in Owners :
         inode_table[i].i_data_block = inode_table[j].i_data_block => i = j
    /\ \A b \in Block \ free_blocks :
         \E i \in Owners : inode_table[i].i_data_block = b

\* tfs_open keeps inodes and directory in step whatever fails on the way: the
\* root is TAKEN, another inode is TAKEN exactly when one entry names it.
InodesAccounted ==
    /\ ROOT_DIR_INUM \notin freeinode_ts
    /\ \A s \in Slot \ FreeSlots :
         root_dir[s].d_inumber \in (Inumber \ freeinode_ts) \ {ROOT_DIR_INUM}
    /\ \A s, t \in Slot \ FreeSlots :
         root_dir[s].d_inumber = root_dir[t].d_inumber => s = t
    /\ \A i \in (Inumber \ freeinode_ts) \ {ROOT_DIR_INUM} :
         \E s \in Slot : root_dir[s].d_inumber = i

\* Every handle a tfs_open ever returned, closed since or not, still refers to
\* a file some directory entry names, never to a freed inode or the root.
HandlesReferToFiles ==
    \A h \in Handle :
      \/ h \in free_open_file_entries /\ open_file_table[h].of_inumber = ROOT_DIR_INUM
      \/ \E s \in Slot \ FreeSlots :
           root_dir[s].d_inumber = open_file_table[h].of_inumber

\* Two entries never carry the same name, so find_in_dir's "first" is "the".
NamesDistinct ==
    \A s, t \in Slot \ FreeSlots : root_dir[s].d_name = root_dir[t].d_name => s = t
=============================================================================
