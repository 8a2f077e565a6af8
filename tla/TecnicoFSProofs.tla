-------------------------- MODULE TecnicoFSProofs --------------------------
(***************************************************************************)
(* The accounting invariants of TecnicoFS hold for every size of the       *)
(* tables, every set of names, payloads and lengths, and whether or not    *)
(* callers go on using closed handles.                                     *)
(***************************************************************************)
EXTENDS TecnicoFS, TLAPS

\* None of the four parts is inductive alone: a truncation frees the block of
\* an inode found through the directory, and a write allocates one for an
\* inode found through a handle.
TablesInv == TypeOK /\ BlocksAccounted /\ InodesAccounted /\ HandlesReferToFiles

USE DEF ROOT_DIR_INUM

\* Clamping a length never exceeds either bound.
LEMMA AtMostBounds ==
  ASSUME NEW n \in Int, NEW limit \in Int
  PROVE  AtMost(n, limit) \in Int /\ AtMost(n, limit) <= n /\ AtMost(n, limit) <= limit
                                  /\ AtMost(n, limit) \in {n, limit}
  BY DEF AtMost

\* The tables tfs_init leaves satisfy the invariant.
LEMMA InitTables == Init => TablesInv
<1> SUFFICES ASSUME Init PROVE TablesInv
  OBVIOUS
<1> USE TableAssumption, InputAssumption DEF Init
<1>1. TypeOK
  BY DEF TypeOK, Inumber, Block, Cell, Handle, Slot, NodeType, Ops
<1>2. BlocksAccounted
  <2>1. Owners = {0}
    BY DEF Owners, Inumber
  <2> QED
    BY <2>1 DEF BlocksAccounted, Block, Inumber
<1>3. InodesAccounted
  BY DEF InodesAccounted, FreeSlots, Inumber
<1>4. HandlesReferToFiles
  BY DEF HandlesReferToFiles, Handle
<1> QED
  BY <1>1, <1>2, <1>3, <1>4 DEF TablesInv

\* Handing out a handle for a file that is in the directory of the next state.
LEMMA HandleGiven ==
  ASSUME TypeOK, HandlesReferToFiles,
         NEW inum \in Inumber, NEW offset \in Nat,
         add_to_open_file_table(inum, offset),
         \E s \in Slot \ FreeSlots' : root_dir'[s].d_inumber = inum,
         \A s \in Slot \ FreeSlots :
            s \notin FreeSlots' /\ root_dir'[s].d_inumber = root_dir[s].d_inumber
  PROVE  /\ free_open_file_entries' \subseteq Handle
         /\ open_file_table' \in [Handle -> [of_inumber : Inumber, of_offset : Nat]]
         /\ reply' \in [op : Ops, ret : Int, data : Seq(Byte)]
         /\ HandlesReferToFiles'
<1>1. CASE free_open_file_entries = {} /\ Return("tfs_open", -1) /\ UNCHANGED handleVars
  BY <1>1 DEF TypeOK, HandlesReferToFiles, Return, Ops, handleVars
<1>2. ASSUME NEW h \in Handle,
             free_open_file_entries' = free_open_file_entries \ {h},
             open_file_table' = [open_file_table EXCEPT
                ![h] = [of_inumber |-> inum, of_offset |-> offset]],
             Return("tfs_open", h)
      PROVE  /\ free_open_file_entries' \subseteq Handle
             /\ open_file_table' \in [Handle -> [of_inumber : Inumber, of_offset : Nat]]
             /\ reply' \in [op : Ops, ret : Int, data : Seq(Byte)]
             /\ HandlesReferToFiles'
  <2>1. reply' \in [op : Ops, ret : Int, data : Seq(Byte)]
    BY <1>2 DEF Return, Ops, Handle
  <2>2. /\ free_open_file_entries' \subseteq Handle
        /\ open_file_table' \in [Handle -> [of_inumber : Inumber, of_offset : Nat]]
    BY <1>2 DEF TypeOK
  <2>3. \A g \in Handle : g # h => open_file_table'[g] = open_file_table[g]
    BY <1>2 DEF TypeOK
  <2>4. open_file_table'[h].of_inumber = inum
    BY <1>2 DEF TypeOK
  <2>5. HandlesReferToFiles'
    BY <1>2, <2>3, <2>4 DEF HandlesReferToFiles
  <2> QED
    BY <2>1, <2>2, <2>5
<1> QED
  BY <1>1, <1>2 DEF add_to_open_file_table, IsFirst

\* What stays true of the directory when a step leaves it alone.
LEMMA DirectoryKept ==
  ASSUME UNCHANGED dirVars
  PROVE  /\ FreeSlots' = FreeSlots
         /\ InodesAccounted => InodesAccounted'
  BY DEF dirVars, FreeSlots, InodesAccounted, Slot, Inumber

\* The blocks stay accounted for when no owner and no free block changes.
LEMMA SameBlocks ==
  ASSUME BlocksAccounted, Owners' = Owners, UNCHANGED free_blocks,
         \A i \in Owners : inode_table'[i].i_data_block = inode_table[i].i_data_block
  PROVE  BlocksAccounted'
  BY DEF BlocksAccounted

\* Handles go on referring to files while the directory stays as it is.
LEMMA HandlesKept ==
  ASSUME HandlesReferToFiles, UNCHANGED dirVars,
         \A h \in Handle :
            /\ open_file_table'[h].of_inumber = open_file_table[h].of_inumber
            /\ h \in free_open_file_entries => h \in free_open_file_entries'
  PROVE  HandlesReferToFiles'
  BY DirectoryKept DEF HandlesReferToFiles, dirVars

\* A reply without data is well formed.
LEMMA ReplyTyped ==
  ASSUME NEW op \in Ops, NEW r \in Int, Return(op, r)
  PROVE  reply' \in [op : Ops, ret : Int, data : Seq(Byte)]
  BY DEF Return

\* tfs_open of a file that exists.
LEMMA OpenExistingKeeps ==
  ASSUME TablesInv, NEW p \in Path, NEW flags \in Flags, OpenExisting(p, flags)
  PROVE  TablesInv'
<1> USE TableAssumption, InputAssumption
<1>1. PICK s \in Slot : OpenExisting(p, flags)!(s)
  BY DEF OpenExisting
<1> DEFINE inum == root_dir[s].d_inumber
           node == inode_table[inum]
           cut == "TFS_O_TRUNC" \in flags /\ node.i_size > 0
           size == IF cut THEN 0 ELSE node.i_size
           offset == IF "TFS_O_APPEND" \in flags THEN size ELSE 0
<1>2. /\ s \in Slot \ FreeSlots
      /\ free_blocks' = IF cut THEN free_blocks \cup {node.i_data_block} ELSE free_blocks
      /\ inode_table' = [inode_table EXCEPT ![inum].i_size = size]
      /\ add_to_open_file_table(inum, offset)
      /\ UNCHANGED <<dirVars, fs_data>>
  BY <1>1 DEF Found, IsFirst
<1>3. inum \in Inumber \ freeinode_ts /\ inum # 0
  BY <1>2 DEF TablesInv, InodesAccounted
<1>4. node \in NodeType /\ (cut => inum \in Owners /\ node.i_data_block \in Block)
  BY <1>3 DEF TablesInv, TypeOK, BlocksAccounted, Owners, NodeType
<1>5. size \in 0 .. BLOCK_SIZE /\ offset \in Nat
  BY <1>4 DEF NodeType
<1>6. /\ inode_table' \in [Inumber -> NodeType]
      /\ inode_table'[inum].i_size = size
      /\ \A i \in Inumber : /\ inode_table'[i].i_data_block = inode_table[i].i_data_block
                            /\ i # inum => inode_table'[i] = inode_table[i]
  <2> HIDE DEF size, inum
  <2> QED
    BY <1>2, <1>3, <1>5 DEF TablesInv, TypeOK, NodeType
<1>7. FreeSlots' = FreeSlots /\ InodesAccounted'
  BY <1>2, DirectoryKept DEF TablesInv
<1>8. /\ free_open_file_entries' \subseteq Handle
      /\ open_file_table' \in [Handle -> [of_inumber : Inumber, of_offset : Nat]]
      /\ reply' \in [op : Ops, ret : Int, data : Seq(Byte)]
      /\ HandlesReferToFiles'
  <2>1. /\ \E t \in Slot \ FreeSlots' : root_dir'[t].d_inumber = inum
        /\ \A t \in Slot \ FreeSlots :
             t \notin FreeSlots' /\ root_dir'[t].d_inumber = root_dir[t].d_inumber
    BY <1>2, <1>7 DEF dirVars
  <2> HIDE DEF offset, inum
  <2> QED
    BY <1>2, <1>3, <1>5, <2>1, HandleGiven DEF TablesInv
<1>9. TypeOK'
  BY <1>2, <1>4, <1>6, <1>8 DEF TablesInv, TypeOK, dirVars
<1>10. Owners' = IF cut THEN Owners \ {inum} ELSE Owners
  BY <1>2, <1>3, <1>6 DEF Owners, dirVars
<1>11. BlocksAccounted'
  <2>1. CASE ~ cut
    BY <2>1, <1>2, <1>6, <1>10, SameBlocks DEF TablesInv, Owners
  <2>2. ASSUME cut PROVE BlocksAccounted'
    <3> HIDE DEF cut, size, offset
    <3>1. /\ Owners' = Owners \ {inum} /\ inum \in Owners
          /\ free_blocks' = free_blocks \cup {inode_table[inum].i_data_block}
          /\ \A i \in Owners : inode_table'[i].i_data_block = inode_table[i].i_data_block
      BY <2>2, <1>2, <1>4, <1>6, <1>10 DEF Owners
    <3> QED
      BY <3>1 DEF TablesInv, BlocksAccounted
  <2> QED
    BY <2>1, <2>2
<1> QED
  BY <1>7, <1>8, <1>9, <1>11 DEF TablesInv

\* tfs_open of a new file, with or without a handle left for it.
LEMMA OpenCreateKeeps ==
  ASSUME TablesInv, NEW p \in Path, OpenCreate(p)
  PROVE  TablesInv'
<1> USE TableAssumption, InputAssumption
<1>1. PICK inum \in Inumber, s \in Slot : OpenCreate(p)!(inum, s)
  BY DEF OpenCreate
<1>2. /\ inum \in freeinode_ts /\ s \in FreeSlots /\ p.name \in Name
      /\ inode_table' = [inode_table EXCEPT ![inum] = [i_size |-> 0, i_data_block |-> -1]]
      /\ freeinode_ts' = freeinode_ts \ {inum}
      /\ root_dir' = [root_dir EXCEPT ![s] = [d_name |-> p.name, d_inumber |-> inum]]
      /\ add_to_open_file_table(inum, 0)
      /\ UNCHANGED <<free_blocks, fs_data>>
  BY <1>1 DEF inode_create, IsFirst
<1>3. inum # 0
  BY <1>2 DEF TablesInv, InodesAccounted
<1>4. /\ inode_table' \in [Inumber -> NodeType]
      /\ inode_table'[inum].i_size = 0
      /\ \A i \in Inumber : i # inum => inode_table'[i] = inode_table[i]
  BY <1>2 DEF TablesInv, TypeOK, NodeType
<1>5. /\ root_dir' \in [Slot -> [d_name : Name \cup {NoName}, d_inumber : Inumber \cup {-1}]]
      /\ root_dir'[s].d_inumber = inum
      /\ \A t \in Slot : t # s => root_dir'[t] = root_dir[t]
  BY <1>2 DEF TablesInv, TypeOK
<1>6. FreeSlots' = FreeSlots \ {s}
  BY <1>5 DEF FreeSlots, Inumber
<1>7. InodesAccounted'
  <2>1. \A t \in Slot \ FreeSlots : root_dir[t].d_inumber \notin freeinode_ts
    BY DEF TablesInv, InodesAccounted
  <2>2. /\ 0 \notin freeinode_ts'
        /\ \A t \in Slot \ FreeSlots' :
             root_dir'[t].d_inumber \in (Inumber \ freeinode_ts') \ {0}
    BY <1>2, <1>3, <1>5, <1>6 DEF TablesInv, InodesAccounted
  <2>3. \A t, u \in Slot \ FreeSlots' :
          root_dir'[t].d_inumber = root_dir'[u].d_inumber => t = u
    BY <1>2, <1>5, <1>6, <2>1 DEF TablesInv, InodesAccounted
  <2>4. \A i \in (Inumber \ freeinode_ts') \ {0} :
          \E t \in Slot : root_dir'[t].d_inumber = i
    <3> SUFFICES ASSUME NEW i \in (Inumber \ freeinode_ts') \ {0}
                 PROVE  \E t \in Slot : root_dir'[t].d_inumber = i
      OBVIOUS
    <3>1. CASE i = inum
      BY <3>1, <1>5
    <3>2. CASE i # inum
      <4>1. PICK t \in Slot : root_dir[t].d_inumber = i
        BY <3>2, <1>2 DEF TablesInv, InodesAccounted
      <4>2. t # s
        BY <4>1, <1>2 DEF FreeSlots, Inumber
      <4> QED
        BY <4>1, <4>2, <1>5
    <3> QED
      BY <3>1, <3>2
  <2> QED
    BY <2>2, <2>3, <2>4 DEF InodesAccounted
<1>8. /\ free_open_file_entries' \subseteq Handle
      /\ open_file_table' \in [Handle -> [of_inumber : Inumber, of_offset : Nat]]
      /\ reply' \in [op : Ops, ret : Int, data : Seq(Byte)]
      /\ HandlesReferToFiles'
  <2>1. /\ \E t \in Slot \ FreeSlots' : root_dir'[t].d_inumber = inum
        /\ \A t \in Slot \ FreeSlots :
             t \notin FreeSlots' /\ root_dir'[t].d_inumber = root_dir[t].d_inumber
    BY <1>2, <1>5, <1>6
  <2> QED
    BY <1>2, <2>1, HandleGiven DEF TablesInv
<1>9. TypeOK'
  BY <1>2, <1>4, <1>5, <1>8 DEF TablesInv, TypeOK
<1>10. Owners' = Owners
  BY <1>2, <1>4 DEF Owners
<1>11. BlocksAccounted'
  BY <1>2, <1>4, <1>10, SameBlocks DEF TablesInv, Owners
<1> QED
  BY <1>7, <1>8, <1>9, <1>11 DEF TablesInv

\* tfs_open that takes an inode and gives it back.
LEMMA OpenNoEntryKeeps ==
  ASSUME TablesInv, NEW p \in Path, OpenNoEntry(p)
  PROVE  TablesInv'
<1>1. PICK inum \in Inumber : inode_create(inum)
  BY DEF OpenNoEntry
<1>2. /\ inum \in freeinode_ts
      /\ inode_table' = [inode_table EXCEPT ![inum] = [i_size |-> 0, i_data_block |-> -1]]
  BY <1>1 DEF inode_create, IsFirst
<1>3. /\ UNCHANGED dirVars /\ UNCHANGED handleVars
      /\ UNCHANGED <<free_blocks, fs_data>> /\ Return("tfs_open", -1)
  BY DEF OpenNoEntry
<1>4. /\ inode_table' \in [Inumber -> NodeType]
      /\ \A i \in Inumber : i # inum => inode_table'[i] = inode_table[i]
      /\ inode_table'[inum].i_size = 0
  BY <1>2, TableAssumption DEF TablesInv, TypeOK, NodeType
<1>5. TypeOK'
  <2>1. reply' \in [op : Ops, ret : Int, data : Seq(Byte)]
    BY <1>3, ReplyTyped DEF Ops
  <2> QED
    BY <1>3, <1>4, <2>1 DEF TablesInv, TypeOK, dirVars, handleVars
<1>6. Owners' = Owners
  BY <1>2, <1>3, <1>4 DEF Owners, dirVars
<1>7. BlocksAccounted'
  BY <1>2, <1>3, <1>4, <1>6, SameBlocks DEF TablesInv, Owners
<1>8. InodesAccounted' /\ HandlesReferToFiles'
  BY <1>3, DirectoryKept, HandlesKept DEF TablesInv, handleVars
<1> QED
  BY <1>5, <1>7, <1>8 DEF TablesInv

\* A step that touches neither the directory nor the blocks, gives no handle
\* back to the free ones and moves handles forwards at most.
LEMMA HandleStepKeeps ==
  ASSUME TablesInv, UNCHANGED <<dirVars, blockVars>>,
         free_open_file_entries' \subseteq Handle,
         free_open_file_entries \subseteq free_open_file_entries',
         open_file_table' \in [Handle -> [of_inumber : Inumber, of_offset : Nat]],
         \A h \in Handle :
            open_file_table'[h].of_inumber = open_file_table[h].of_inumber,
         reply' \in [op : Ops, ret : Int, data : Seq(Byte)]
  PROVE  TablesInv'
<1>1. TypeOK'
  BY DEF TablesInv, TypeOK, dirVars, blockVars
<1>2. Owners' = Owners
  BY DEF Owners, dirVars, blockVars
<1>3. BlocksAccounted'
  BY <1>2, SameBlocks DEF TablesInv, blockVars
<1>4. InodesAccounted' /\ HandlesReferToFiles'
  BY DirectoryKept, HandlesKept DEF TablesInv
<1> QED
  BY <1>1, <1>3, <1>4 DEF TablesInv

\* An operation that only answers.
LEMMA AnswerKeeps ==
  ASSUME TablesInv, UNCHANGED <<dirVars, blockVars, handleVars>>,
         reply' \in [op : Ops, ret : Int, data : Seq(Byte)]
  PROVE  TablesInv'
  BY HandleStepKeeps DEF handleVars, TablesInv, TypeOK

LEMMA LookupKeeps ==
  ASSUME TablesInv, NEW p \in Path, tfs_lookup(p)
  PROVE  TablesInv'
<1>1. reply' \in [op : Ops, ret : Int, data : Seq(Byte)]
  BY ReplyTyped DEF tfs_lookup, TablesInv, TypeOK, Ops, Inumber
<1> QED
  BY <1>1, AnswerKeeps DEF tfs_lookup

LEMMA CloseKeeps ==
  ASSUME TablesInv, NEW h \in Handle \cup {-1}, tfs_close(h)
  PROVE  TablesInv'
<1>1. reply' \in [op : Ops, ret : Int, data : Seq(Byte)]
  BY ReplyTyped DEF tfs_close, Ops
<1>2. /\ free_open_file_entries' \subseteq Handle
      /\ free_open_file_entries \subseteq free_open_file_entries'
      /\ UNCHANGED <<dirVars, blockVars, open_file_table>>
  BY DEF tfs_close, remove_from_open_file_table, TablesInv, TypeOK
<1> QED
  BY <1>1, <1>2, HandleStepKeeps DEF TablesInv, TypeOK

\* The read past the end of a truncated file included.
LEMMA ReadKeeps ==
  ASSUME TablesInv, NEW h \in Handle, NEW len \in ReadLen, tfs_read(h, len)
  PROVE  TablesInv'
<1> USE InputAssumption, SizeAssumption, TableAssumption
<1>1. UNCHANGED <<dirVars, blockVars>>
  BY DEF tfs_read
<1>2. CASE ReadNothing(h, len) \/ ReadNoBlock(h, len)
  <2>1. reply' \in [op : Ops, ret : Int, data : Seq(Byte)]
    BY <1>2, ReplyTyped DEF ReadNothing, ReadNoBlock, Ops
  <2> QED
    BY <1>1, <1>2, <2>1, AnswerKeeps DEF ReadNothing, ReadNoBlock
<1>3. CASE ReadBytes(h, len)
  <2> DEFINE from == open_file_table[h].of_offset
             n == ToRead(h, len)
  <2>1. PICK data \in [1 .. n -> Byte] :
          /\ n > 0
          /\ open_file_table' = [open_file_table EXCEPT ![h].of_offset = from + n]
          /\ reply' = [op |-> "tfs_read", ret |-> n, data |-> data]
          /\ UNCHANGED free_open_file_entries
    BY <1>3 DEF ReadBytes
  <2>2. from \in Nat /\ from <= BLOCK_SIZE /\ NodeOf(h).i_size \in Nat
    BY DEF tfs_read, Usable, TablesInv, TypeOK, NodeOf, NodeType
  <2>3. n \in Nat
    <3>1. SizeSub(NodeOf(h).i_size, from) \in Nat
      BY <2>2 DEF SizeSub
    <3> QED
      BY <3>1 DEF ToRead, AtMost
  <2> HIDE DEF n, from
  <2>4. reply' \in [op : Ops, ret : Int, data : Seq(Byte)]
    BY <2>1, <2>3 DEF Ops
  <2>5. /\ open_file_table' \in [Handle -> [of_inumber : Inumber, of_offset : Nat]]
        /\ \A g \in Handle :
             open_file_table'[g].of_inumber = open_file_table[g].of_inumber
    <3>1. from + n \in Nat
      BY <2>2, <2>3
    <3> QED
      BY <2>1, <3>1 DEF TablesInv, TypeOK
  <2> QED
    BY <1>1, <2>1, <2>4, <2>5, HandleStepKeeps DEF TablesInv, TypeOK
<1> QED
  BY <1>2, <1>3 DEF tfs_read

\* A usable handle refers to a TAKEN inode that is not the root.
LEMMA UsableRefersToFile ==
  ASSUME TablesInv, NEW h \in Handle, Usable(h)
  PROVE  /\ open_file_table[h].of_inumber \in (Inumber \ freeinode_ts) \ {0}
         /\ open_file_table[h].of_offset \in 0 .. BLOCK_SIZE
         /\ NodeOf(h) \in NodeType
<1>1. \E s \in Slot \ FreeSlots :
        root_dir[s].d_inumber = open_file_table[h].of_inumber
  BY InputAssumption DEF Usable, TablesInv, HandlesReferToFiles
<1>2. open_file_table[h].of_inumber \in (Inumber \ freeinode_ts) \ {0}
  BY <1>1 DEF TablesInv, InodesAccounted
<1> QED
  BY <1>2, TableAssumption DEF TablesInv, TypeOK, Usable, NodeOf

\* tfs_write: nothing to write, no block for the bytes, or the bytes written.
LEMMA WriteNoBlockKeeps ==
  ASSUME TablesInv, NEW h \in Handle, Usable(h), NEW buffer \in Payload,
         WriteNoBlock(h, buffer)
  PROVE  TablesInv'
<1> DEFINE inum == open_file_table[h].of_inumber
<1>1. /\ inode_table' = [inode_table EXCEPT ![inum].i_data_block = -1]
      /\ Return("tfs_write", -1)
      /\ UNCHANGED dirVars /\ UNCHANGED handleVars
      /\ UNCHANGED <<free_blocks, fs_data>>
  BY DEF WriteNoBlock
<1>2. inum \in (Inumber \ freeinode_ts) \ {0}
  BY UsableRefersToFile
<1>3. inode_table[inum].i_size = 0
  <2>1. inum \in Owners => inode_table[inum].i_data_block \in Block
    BY DEF TablesInv, BlocksAccounted
  <2> QED
    BY <1>2, <2>1, UsableRefersToFile DEF WriteNoBlock, NodeOf, Owners, NodeType
<1>4. /\ inode_table' \in [Inumber -> NodeType]
      /\ inode_table'[inum].i_size = 0
      /\ \A i \in Inumber : i # inum => inode_table'[i] = inode_table[i]
  <2> HIDE DEF inum
  <2> QED
    BY <1>1, <1>2, <1>3 DEF TablesInv, TypeOK, NodeType
<1>5. TypeOK'
  <2>1. reply' \in [op : Ops, ret : Int, data : Seq(Byte)]
    BY <1>1, ReplyTyped DEF Ops
  <2> QED
    BY <1>1, <1>4, <2>1 DEF TablesInv, TypeOK, dirVars, handleVars
<1>6. Owners' = Owners
  BY <1>1, <1>2, <1>3, <1>4 DEF Owners, dirVars
<1>7. BlocksAccounted'
  BY <1>1, <1>3, <1>4, <1>6, SameBlocks DEF TablesInv, Owners
<1>8. InodesAccounted' /\ HandlesReferToFiles'
  BY <1>1, DirectoryKept, HandlesKept DEF TablesInv, handleVars
<1> QED
  BY <1>5, <1>7, <1>8 DEF TablesInv

LEMMA WriteBytesKeeps ==
  ASSUME TablesInv, NEW h \in Handle, Usable(h), NEW buffer \in Payload,
         WriteBytes(h, buffer)
  PROVE  TablesInv'
<1> USE TableAssumption, InputAssumption
<1> DEFINE inum == open_file_table[h].of_inumber
           from == open_file_table[h].of_offset
           n == ToWrite(h, buffer)
           size == IF from + n > NodeOf(h).i_size THEN from + n ELSE NodeOf(h).i_size
<1>1. PICK b \in Block : WriteBytes(h, buffer)!(b)
  BY DEF WriteBytes
<1>2. /\ n > 0
      /\ data_block_for_write(h, b)
      /\ fs_data' = [fs_data EXCEPT ![b] = [c \in Cell |->
             IF from <= c /\ c < from + n THEN buffer[c - from + 1] ELSE fs_data[b][c]]]
      /\ open_file_table' = [open_file_table EXCEPT ![h].of_offset = from + n]
      /\ inode_table' = [inode_table EXCEPT ![inum] = [i_size |-> size, i_data_block |-> b]]
      /\ Return("tfs_write", n)
      /\ UNCHANGED dirVars /\ UNCHANGED free_open_file_entries
  BY <1>1
<1>3. inum \in (Inumber \ freeinode_ts) \ {0} /\ from \in 0 .. BLOCK_SIZE
      /\ NodeOf(h) \in NodeType /\ NodeOf(h) = inode_table[inum]
  BY UsableRefersToFile DEF NodeOf
<1>4. n \in Nat /\ n <= Len(buffer) /\ from + n \in 1 .. BLOCK_SIZE
  <2>1. Len(buffer) \in Nat
    OBVIOUS
  <2>2. from \in Nat /\ from <= BLOCK_SIZE /\ BLOCK_SIZE - from \in Int
    BY <1>3
  <2>3. n \in Int /\ n <= Len(buffer) /\ n <= BLOCK_SIZE - from
    <3> DEFINE len == Len(buffer)
               limit == BLOCK_SIZE - from
    <3>1. n = AtMost(len, limit)
      BY DEF ToWrite
    <3>2. len \in Int /\ limit \in Int
      BY <2>1, <2>2
    <3> HIDE DEF n, len, limit
    <3>3. n \in Int /\ n <= len /\ n <= limit
      BY <3>1, <3>2, AtMostBounds
    <3> QED
      BY <3>3 DEF len, limit
  <2>4. n > 0
    BY <1>2
  <2> HIDE DEF n, from
  <2> QED
    BY <2>2, <2>3, <2>4
<1>5. size \in 1 .. BLOCK_SIZE
  BY <1>3, <1>4 DEF NodeType
<1> HIDE DEF inum, from, n, size
<1>6. /\ inode_table' \in [Inumber -> NodeType]
      /\ inode_table'[inum] = [i_size |-> size, i_data_block |-> b]
      /\ \A i \in Inumber : i # inum => inode_table'[i] = inode_table[i]
  BY <1>2, <1>3, <1>5 DEF TablesInv, TypeOK, NodeType
<1>7. /\ free_blocks' \subseteq Block
      /\ b \notin free_blocks'
      /\ free_blocks' = free_blocks \ {b}
  <2>1. CASE NodeOf(h).i_size = 0
    BY <2>1, <1>2 DEF data_block_for_write, IsFirst, TablesInv, TypeOK
  <2>2. CASE NodeOf(h).i_size # 0
    <3>1. inum \in Owners
      BY <2>2, <1>3 DEF Owners, NodeType
    <3> QED
      BY <2>2, <3>1, <1>2, <1>3 DEF data_block_for_write, TablesInv, TypeOK, BlocksAccounted
  <2> QED
    BY <2>1, <2>2
<1>8. fs_data' \in [Block -> [Cell -> Byte]]
  <2>1. \A c \in Cell : from <= c /\ c < from + n => buffer[c - from + 1] \in Byte
    <3> SUFFICES ASSUME NEW c \in Cell, from <= c, c < from + n
                 PROVE  buffer[c - from + 1] \in Byte
      OBVIOUS
    <3>1. c - from + 1 \in 1 .. Len(buffer) /\ buffer \in Seq(Byte)
      BY <1>3, <1>4 DEF Cell
    <3> QED
      BY <3>1
  <2> DEFINE new == [c \in Cell |->
             IF from <= c /\ c < from + n THEN buffer[c - from + 1] ELSE fs_data[b][c]]
  <2>2. new \in [Cell -> Byte]
    BY <2>1 DEF TablesInv, TypeOK
  <2> HIDE DEF new
  <2>3. fs_data' = [fs_data EXCEPT ![b] = new]
    BY <1>2 DEF new
  <2> QED
    BY <2>2, <2>3 DEF TablesInv, TypeOK
<1>9. /\ open_file_table' \in [Handle -> [of_inumber : Inumber, of_offset : Nat]]
      /\ \A g \in Handle :
           open_file_table'[g].of_inumber = open_file_table[g].of_inumber
  <2>1. from + n \in Nat
    BY <1>4
  <2> QED
    BY <1>2, <2>1 DEF TablesInv, TypeOK
<1>10. TypeOK'
  <2>1. reply' \in [op : Ops, ret : Int, data : Seq(Byte)]
    BY <1>2, <1>4, ReplyTyped DEF Ops
  <2> QED
    BY <1>2, <1>6, <1>7, <1>8, <1>9, <2>1 DEF TablesInv, TypeOK, dirVars
<1>11. Owners' = Owners \cup {inum}
  BY <1>2, <1>3, <1>5, <1>6 DEF Owners, dirVars
<1>12. BlocksAccounted'
  <2>1. \A i \in Owners \ {inum} : inode_table[i].i_data_block # b
    <3>1. CASE NodeOf(h).i_size = 0
      BY <3>1, <1>2 DEF data_block_for_write, IsFirst, TablesInv, BlocksAccounted
    <3>2. CASE NodeOf(h).i_size # 0
      <4>1. inum \in Owners
        BY <3>2, <1>3 DEF Owners, NodeType
      <4> QED
        BY <3>2, <4>1, <1>2, <1>3 DEF data_block_for_write, TablesInv, BlocksAccounted
    <3> QED
      BY <3>1, <3>2
  <2>2. \A i \in Owners \ {inum} : inode_table'[i] = inode_table[i]
    BY <1>6 DEF Owners
  <2>3. inum \in Owners => inode_table[inum].i_data_block = b
    BY <1>2, <1>3 DEF data_block_for_write, Owners
  <2>4. \A i \in Owners' : inode_table'[i].i_data_block \in Block \ free_blocks'
    BY <1>6, <1>7, <1>11, <2>1, <2>2 DEF TablesInv, BlocksAccounted
  <2>5. \A i, j \in Owners' :
          inode_table'[i].i_data_block = inode_table'[j].i_data_block => i = j
    BY <1>6, <1>11, <2>1, <2>2 DEF TablesInv, BlocksAccounted
  <2>6. \A c \in Block \ free_blocks' :
          \E i \in Owners' : inode_table'[i].i_data_block = c
    BY <1>6, <1>7, <1>11, <2>2, <2>3 DEF TablesInv, BlocksAccounted
  <2> QED
    BY <2>4, <2>5, <2>6 DEF BlocksAccounted
<1>13. InodesAccounted' /\ HandlesReferToFiles'
  BY <1>2, <1>9, DirectoryKept, HandlesKept DEF TablesInv
<1> QED
  BY <1>10, <1>12, <1>13 DEF TablesInv

LEMMA WriteKeeps ==
  ASSUME TablesInv, NEW h \in Handle, NEW buffer \in Payload, tfs_write(h, buffer)
  PROVE  TablesInv'
<1>1. CASE WriteNothing(h, buffer)
  <2>1. reply' \in [op : Ops, ret : Int, data : Seq(Byte)]
    BY <1>1, ReplyTyped DEF WriteNothing, Ops
  <2> QED
    BY <1>1, <2>1, AnswerKeeps DEF WriteNothing
<1> QED
  BY <1>1, WriteNoBlockKeeps, WriteBytesKeeps DEF tfs_write

LEMMA OpenKeeps ==
  ASSUME TablesInv, NEW p \in Path, NEW flags \in Flags, tfs_open(p, flags)
  PROVE  TablesInv'
<1>1. CASE OpenNoInode \/ OpenMissing
  <2>1. reply' \in [op : Ops, ret : Int, data : Seq(Byte)]
    BY <1>1, ReplyTyped DEF OpenNoInode, OpenMissing, Ops
  <2> QED
    BY <1>1, <2>1, AnswerKeeps DEF OpenNoInode, OpenMissing
<1> QED
  BY <1>1, OpenExistingKeeps, OpenCreateKeeps, OpenNoEntryKeeps DEF tfs_open

\* Every step keeps the tables accounted for.
LEMMA NextKeeps == TablesInv /\ [Next]_vars => TablesInv'
<1> SUFFICES ASSUME TablesInv, [Next]_vars PROVE TablesInv'
  OBVIOUS
<1>1. CASE \E p \in Path : tfs_lookup(p) \/ \E flags \in Flags : tfs_open(p, flags)
  BY <1>1, LookupKeeps, OpenKeeps
<1>2. ASSUME NEW h \in Handle \cup {-1}, tfs_close(h) PROVE TablesInv'
  BY <1>2, CloseKeeps
<1>3. CASE \E h \in Handle : \/ \E buffer \in Payload : tfs_write(h, buffer)
                            \/ \E len \in ReadLen : tfs_read(h, len)
  BY <1>3, WriteKeeps, ReadKeeps
<1>4. ASSUME NEW op \in {"tfs_write", "tfs_read"}, InvalidHandle(op) PROVE TablesInv'
  <2>1. reply' \in [op : Ops, ret : Int, data : Seq(Byte)]
    BY <1>4, ReplyTyped DEF InvalidHandle, Ops
  <2> QED
    BY <1>4, <2>1, AnswerKeeps DEF InvalidHandle
<1>5. CASE UNCHANGED vars
  BY <1>5, SameBlocks DEF vars, TablesInv, TypeOK, BlocksAccounted, Owners,
     InodesAccounted, HandlesReferToFiles, FreeSlots
<1> QED
  BY <1>1, <1>2, <1>3, <1>4, <1>5 DEF Next

\* The inductive invariant holds in every behaviour.
THEOREM TablesAlwaysAccounted == Spec => []TablesInv
  BY InitTables, NextKeeps, PTL DEF Spec

\* Every table stays well typed: sizes within a block, numbers in their tables.
THEOREM TypeCorrect == Spec => []TypeOK
<1>1. TablesInv => TypeOK
  BY DEF TablesInv
<1> QED
  BY <1>1, TablesAlwaysAccounted, PTL

\* No block leaks and no two files share one, for tables of every size.
THEOREM BlocksNeverShared == Spec => []BlocksAccounted
<1>1. TablesInv => BlocksAccounted
  BY DEF TablesInv
<1> QED
  BY <1>1, TablesAlwaysAccounted, PTL

\* The free inodes are exactly those no directory entry names.
THEOREM InodesNeverLeak == Spec => []InodesAccounted
<1>1. TablesInv => InodesAccounted
  BY DEF TablesInv
<1> QED
  BY <1>1, TablesAlwaysAccounted, PTL

\* A handle, closed or open, never refers to a freed inode or to the root.
THEOREM HandlesAlwaysRefer == Spec => []HandlesReferToFiles
<1>1. TablesInv => HandlesReferToFiles
  BY DEF TablesInv
<1> QED
  BY <1>1, TablesAlwaysAccounted, PTL
=============================================================================
