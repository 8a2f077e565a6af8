----------------------- MODULE TecnicoFSRefinesProofs -----------------------
(***************************************************************************)
(* The tables of TecnicoFS implement FileStore for every size of the       *)
(* tables and every set of names, payloads and lengths, for callers that   *)
(* pass absolute paths and use a handle only between open and close.       *)
(***************************************************************************)
EXTENDS TecnicoFSRefines, TecnicoFSProofs, SequenceTheorems

\* A relative path is never found, so each creation adds another entry of its
\* name; the store has one file per name.
AbsolutePathsOnly == \A p \in Path : p.abs

\* tfs_open never enters a file without a name.
EntriesNamed == \A s \in Slot \ FreeSlots : root_dir[s].d_name \in Name

\* What the mapping needs of the tables: a name leads to one entry, an inode
\* number to one entry, and the block of a non-empty file to one file.
MappedInv == TablesInv /\ NamesDistinct /\ EntriesNamed

-----------------------------------------------------------------------------
(* Names *)

\* The directory's names stay distinct while the directory stays as it is.
LEMMA SameNames ==
  ASSUME NamesDistinct, EntriesNamed, UNCHANGED dirVars
  PROVE  NamesDistinct' /\ EntriesNamed'
  BY DEF NamesDistinct, EntriesNamed, dirVars, FreeSlots, Slot

\* A file is created only when no entry has its name.
LEMMA NewNameDistinct ==
  ASSUME MappedInv, NEW p \in Path, p.abs, Found(p) = {}, OpenCreate(p)
  PROVE  NamesDistinct' /\ EntriesNamed'
<1>1. PICK inum \in Inumber, s \in Slot : OpenCreate(p)!(inum, s)
  BY DEF OpenCreate
<1>2. /\ s \in FreeSlots /\ p.name \in Name
      /\ root_dir' = [root_dir EXCEPT ![s] = [d_name |-> p.name, d_inumber |-> inum]]
  BY <1>1, InputAssumption DEF IsFirst
<1>3. /\ root_dir'[s].d_inumber = inum /\ root_dir'[s].d_name = p.name
      /\ \A t \in Slot : t # s => root_dir'[t] = root_dir[t]
  BY <1>2 DEF MappedInv, TablesInv, TypeOK
<1>4. FreeSlots' = FreeSlots \ {s}
  BY <1>2, <1>3 DEF FreeSlots, Inumber
<1>5. \A t \in Slot \ FreeSlots : root_dir[t].d_name # p.name
  BY <1>1 DEF Found, valid_pathname
<1>6. NamesDistinct'
  BY <1>3, <1>4, <1>5 DEF NamesDistinct, MappedInv
<1>7. EntriesNamed'
  BY <1>2, <1>3, <1>4 DEF EntriesNamed, MappedInv
<1> QED
  BY <1>6, <1>7

\* The invariant of the mapping is inductive.
LEMMA InitMapped == Init => MappedInv
<1>1. Init => NamesDistinct /\ EntriesNamed
  BY DEF Init, NamesDistinct, EntriesNamed, FreeSlots
<1> QED
  BY <1>1, InitTables DEF MappedInv

LEMMA NextMapped ==
  ASSUME AbsolutePathsOnly
  PROVE  MappedInv /\ [Next]_vars => MappedInv'
<1> SUFFICES ASSUME MappedInv, [Next]_vars PROVE NamesDistinct' /\ EntriesNamed'
  BY NextKeeps DEF MappedInv
<1>1. CASE UNCHANGED dirVars
  BY <1>1, SameNames DEF MappedInv
<1>2. ASSUME NEW p \in Path, NEW flags \in Flags, tfs_open(p, flags), ~ UNCHANGED dirVars
      PROVE  Found(p) = {} /\ OpenCreate(p)
  BY <1>2 DEF tfs_open, OpenExisting, OpenNoEntry, OpenNoInode, OpenMissing
<1>3. ASSUME NEW p \in Path, NEW flags \in Flags, tfs_open(p, flags), ~ UNCHANGED dirVars
      PROVE  NamesDistinct' /\ EntriesNamed'
  BY <1>2, <1>3, NewNameDistinct DEF AbsolutePathsOnly
<1>4. \A p \in Path : tfs_lookup(p) => UNCHANGED dirVars
  BY DEF tfs_lookup
<1>5. \A h : tfs_close(h) => UNCHANGED dirVars
  BY DEF tfs_close
<1>6. \A h, buffer : tfs_write(h, buffer) => UNCHANGED dirVars
  BY DEF tfs_write, WriteNothing, WriteNoBlock, WriteBytes
<1>7. \A h, len : tfs_read(h, len) => UNCHANGED dirVars
  BY DEF tfs_read
<1>8. \A op : InvalidHandle(op) => UNCHANGED dirVars
  BY DEF InvalidHandle
<1>9. UNCHANGED vars => UNCHANGED dirVars
  BY DEF vars, dirVars
<1> QED
  BY <1>1, <1>3, <1>4, <1>5, <1>6, <1>7, <1>8, <1>9 DEF Next

LEMMA AlwaysMapped ==
  ASSUME AbsolutePathsOnly
  PROVE  Spec => []MappedInv
<1>1. MappedInv /\ [Next]_vars => MappedInv'
  BY NextMapped
<1> QED
  BY <1>1, InitMapped, PTL DEF Spec

\* find_in_dir's "first" entry of a name is the only one: while every caller
\* passes absolute paths, tfs_open never creates a second file of a name.
THEOREM NamesStayDistinct ==
  ASSUME \A p \in Path : p.abs
  PROVE  Spec => []NamesDistinct
<1>1. AbsolutePathsOnly
  BY DEF AbsolutePathsOnly
<1>2. Spec => []MappedInv
  BY <1>1, AlwaysMapped
<1>3. MappedInv => NamesDistinct
  BY DEF MappedInv
<1> QED
  BY <1>2, <1>3, PTL

-----------------------------------------------------------------------------
(* The mapping, entry by entry *)

\* The bytes of a file's inode, however the file store sees them.
ContentsTyped ==
    \A i \in Inumber \ freeinode_ts :
      /\ Contents(i) \in Seq(Byte)
      /\ Len(Contents(i)) = inode_table[i].i_size

\* The file store has one file per entry, its inode's bytes.
FilesMapped ==
    /\ FilesOfTables \in [DOMAIN FilesOfTables -> Seq(Byte)]
    /\ DOMAIN FilesOfTables = {root_dir[s].d_name : s \in Slot \ FreeSlots}
    /\ \A s \in Slot \ FreeSlots :
         FilesOfTables[root_dir[s].d_name] = Contents(root_dir[s].d_inumber)

\* The file store has one handle per TAKEN entry of the open file table.
HandlesMapped ==
    /\ HandlesOfTables \in [Handle \ free_open_file_entries -> [name : Name, pos : Nat]]
    /\ \A h \in Handle \ free_open_file_entries :
         HandlesOfTables[h].pos = open_file_table[h].of_offset
    /\ \A h \in Handle \ free_open_file_entries, s \in Slot \ FreeSlots :
         root_dir[s].d_inumber = open_file_table[h].of_inumber =>
            HandlesOfTables[h].name = root_dir[s].d_name

LEMMA ContentsAlwaysTyped == MappedInv => ContentsTyped
<1> SUFFICES ASSUME MappedInv, NEW i \in Inumber \ freeinode_ts
             PROVE  /\ Contents(i) \in Seq(Byte)
                    /\ Len(Contents(i)) = inode_table[i].i_size
  BY DEF ContentsTyped
<1> DEFINE size == inode_table[i].i_size
           b == inode_table[i].i_data_block
<1>1. size \in 0 .. BLOCK_SIZE
  BY DEF MappedInv, TablesInv, TypeOK, NodeType
<1>2. ASSUME NEW k \in 1 .. size PROVE fs_data[b][k - 1] \in Byte
  <2>1. i \in Owners
    BY <1>1, <1>2 DEF Owners
  <2>2. b \in Block /\ k - 1 \in Cell
    BY <1>1, <1>2, <2>1, TableAssumption DEF MappedInv, TablesInv, BlocksAccounted, Cell
  <2> QED
    BY <2>2 DEF MappedInv, TablesInv, TypeOK
<1>3. Contents(i) = [k \in 1 .. size |-> fs_data[b][k - 1]]
  BY DEF Contents
<1> HIDE DEF size, b
<1>4. Contents(i) \in [1 .. size -> Byte] /\ size \in Nat
  BY <1>1, <1>2, <1>3
<1>5. Contents(i) \in Seq(Byte) /\ Len(Contents(i)) = size
  BY <1>4
<1> QED
  BY <1>5 DEF size

LEMMA FilesAlwaysMapped == MappedInv => FilesMapped
<1> SUFFICES ASSUME MappedInv PROVE FilesMapped
  OBVIOUS
<1> DEFINE used == Slot \ FreeSlots
           names == {root_dir[s].d_name : s \in used}
           first(n) == CHOOSE s \in used : root_dir[s].d_name = n
<1>1. \A s \in used : first(root_dir[s].d_name) = s
  BY DEF MappedInv, NamesDistinct
<1>2. \A s \in used : root_dir[s].d_inumber \in Inumber \ freeinode_ts
  BY DEF MappedInv, TablesInv, InodesAccounted
<1>3. \A s \in used : Contents(root_dir[s].d_inumber) \in Seq(Byte)
  BY <1>2, ContentsAlwaysTyped DEF ContentsTyped
<1>4. FilesOfTables = [n \in names |-> Contents(root_dir[first(n)].d_inumber)]
  BY DEF FilesOfTables
<1> HIDE DEF first
<1>5. \A n \in names : Contents(root_dir[first(n)].d_inumber) \in Seq(Byte)
  BY <1>1, <1>3
<1> QED
  BY <1>1, <1>4, <1>5 DEF FilesMapped

LEMMA HandlesAlwaysMapped ==
  ASSUME OpenHandlesOnly
  PROVE  MappedInv => HandlesMapped
<1> SUFFICES ASSUME MappedInv PROVE HandlesMapped
  OBVIOUS
<1> DEFINE open == Handle \ free_open_file_entries
<1>1. \A h \in open : \E s \in Slot \ FreeSlots :
        root_dir[s].d_inumber = open_file_table[h].of_inumber
  BY DEF MappedInv, TablesInv, HandlesReferToFiles
<1>2. \A s \in Slot \ FreeSlots : EntryOf(root_dir[s].d_inumber) = s
  <2> SUFFICES ASSUME NEW s \in Slot \ FreeSlots
               PROVE  EntryOf(root_dir[s].d_inumber) = s
    OBVIOUS
  <2>1. \A t \in Slot : root_dir[t].d_inumber = root_dir[s].d_inumber => t = s
    BY DEF MappedInv, TablesInv, InodesAccounted, FreeSlots
  <2> QED
    BY <2>1 DEF EntryOf
<1>3. \A h \in open : open_file_table[h].of_offset \in Nat
  BY DEF MappedInv, TablesInv, TypeOK
<1>4. \A h \in open, s \in Slot \ FreeSlots :
        root_dir[s].d_inumber = open_file_table[h].of_inumber =>
          root_dir[EntryOf(open_file_table[h].of_inumber)].d_name = root_dir[s].d_name
  BY <1>2
<1>5. \A h \in open : root_dir[EntryOf(open_file_table[h].of_inumber)].d_name \in Name
  BY <1>1, <1>4 DEF MappedInv, EntriesNamed
<1> QED
  BY <1>3, <1>4, <1>5 DEF HandlesMapped, HandlesOfTables

\* The same of the state after a step.
LEMMA StillMapped ==
  ASSUME OpenHandlesOnly
  PROVE  /\ MappedInv => ContentsTyped /\ FilesMapped /\ HandlesMapped
         /\ MappedInv' => ContentsTyped' /\ FilesMapped' /\ HandlesMapped'
<1>1. MappedInv => ContentsTyped /\ FilesMapped /\ HandlesMapped
  BY ContentsAlwaysTyped, FilesAlwaysMapped, HandlesAlwaysMapped
<1>2. MappedInv' => ContentsTyped' /\ FilesMapped' /\ HandlesMapped'
  BY <1>1, PTL
<1> QED
  BY <1>1, <1>2

\* Functions that agree everywhere are equal.
LEMMA SameFunction ==
  ASSUME NEW D, NEW R, NEW f \in [D -> R], NEW g \in [D -> R],
         \A x \in D : f[x] = g[x]
  PROVE  f = g
  OBVIOUS

-----------------------------------------------------------------------------
(* What a step does to the files *)

\* A file's bytes are those of its inode's block, which an empty file lacks.
LEMMA ContentsKept ==
  ASSUME NEW i \in Inumber, inode_table[i].i_size \in Nat,
         inode_table'[i].i_size = inode_table[i].i_size,
         inode_table[i].i_size > 0 =>
            fs_data'[inode_table'[i].i_data_block] = fs_data[inode_table[i].i_data_block]
  PROVE  Contents(i)' = Contents(i)
  BY DEF Contents

LEMMA FilesKept ==
  ASSUME OpenHandlesOnly, MappedInv, MappedInv', UNCHANGED dirVars,
         \A i \in Inumber \ freeinode_ts : Contents(i)' = Contents(i)
  PROVE  FilesOfTables' = FilesOfTables
<1> DEFINE names == {root_dir[s].d_name : s \in Slot \ FreeSlots}
<1>1. FilesMapped /\ FilesMapped'
  BY StillMapped
<1>2. FreeSlots' = FreeSlots /\ root_dir' = root_dir
  BY DirectoryKept DEF dirVars
<1>3. FilesOfTables \in [names -> Seq(Byte)] /\ FilesOfTables' \in [names -> Seq(Byte)]
  BY <1>1, <1>2 DEF FilesMapped
<1>4. \A s \in Slot \ FreeSlots :
        FilesOfTables'[root_dir[s].d_name] = FilesOfTables[root_dir[s].d_name]
  <2>1. \A s \in Slot \ FreeSlots : root_dir[s].d_inumber \in Inumber \ freeinode_ts
    BY DEF MappedInv, TablesInv, InodesAccounted
  <2> QED
    BY <1>1, <1>2, <2>1 DEF FilesMapped
<1> QED
  BY <1>3, <1>4, SameFunction

LEMMA FileChanged ==
  ASSUME OpenHandlesOnly, MappedInv, MappedInv', UNCHANGED dirVars,
         NEW s \in Slot \ FreeSlots, NEW d \in Inumber, NEW bytes,
         root_dir[s].d_inumber = d, Contents(d)' = bytes,
         \A i \in Inumber \ freeinode_ts : i # d => Contents(i)' = Contents(i)
  PROVE  FilesOfTables' = [FilesOfTables EXCEPT ![root_dir[s].d_name] = bytes]
<1> DEFINE names == {root_dir[t].d_name : t \in Slot \ FreeSlots}
           name == root_dir[s].d_name
<1>1. FilesMapped /\ FilesMapped'
  BY StillMapped
<1>2. FreeSlots' = FreeSlots /\ root_dir' = root_dir
  BY DirectoryKept DEF dirVars
<1>3. FilesOfTables \in [names -> Seq(Byte)] /\ FilesOfTables' \in [names -> Seq(Byte)]
  BY <1>1, <1>2 DEF FilesMapped
<1>4. FilesOfTables'[name] = bytes
  BY <1>1, <1>2 DEF FilesMapped
<1>5. \A t \in Slot \ FreeSlots : t # s =>
        FilesOfTables'[root_dir[t].d_name] = FilesOfTables[root_dir[t].d_name]
  <2>1. \A t \in Slot \ FreeSlots : t # s =>
          root_dir[t].d_inumber \in Inumber \ freeinode_ts /\ root_dir[t].d_inumber # d
    BY DEF MappedInv, TablesInv, InodesAccounted
  <2> QED
    BY <1>1, <1>2, <2>1 DEF FilesMapped
<1> DEFINE new == [FilesOfTables EXCEPT ![name] = bytes]
<1>6. bytes \in Seq(Byte)
  BY <1>3, <1>4
<1>7. new \in [names -> Seq(Byte)]
  BY <1>3, <1>6
<1>8. \A t \in Slot \ FreeSlots : FilesOfTables'[root_dir[t].d_name] = new[root_dir[t].d_name]
  BY <1>3, <1>4, <1>5 DEF MappedInv, NamesDistinct
<1> QED
  BY <1>3, <1>7, <1>8, SameFunction

-----------------------------------------------------------------------------
(* What a step does to the handles *)

LEMMA HandlesUntouched ==
  ASSUME UNCHANGED <<dirVars, handleVars>>
  PROVE  HandlesOfTables' = HandlesOfTables
  BY DEF HandlesOfTables, EntryOf, dirVars, handleVars, Slot, Handle

\* The handle that a call is on, and the entry of its file.
LEMMA HandleOnEntry ==
  ASSUME OpenHandlesOnly, MappedInv, NEW h \in Handle \ free_open_file_entries
  PROVE  /\ h \in DOMAIN HandlesOfTables
         /\ \E s \in Slot \ FreeSlots :
              /\ root_dir[s].d_inumber = open_file_table[h].of_inumber
              /\ HandlesOfTables[h] = [name |-> root_dir[s].d_name,
                                       pos |-> open_file_table[h].of_offset]
              /\ HandlesOfTables[h].name \in DOMAIN FilesOfTables
              /\ FilesOfTables[HandlesOfTables[h].name]
                    = Contents(open_file_table[h].of_inumber)
<1>1. HandlesMapped /\ FilesMapped
  BY StillMapped
<1>2. PICK s \in Slot \ FreeSlots : root_dir[s].d_inumber = open_file_table[h].of_inumber
  BY DEF MappedInv, TablesInv, HandlesReferToFiles
<1>3. HandlesOfTables[h] \in [name : Name, pos : Nat] /\ h \in DOMAIN HandlesOfTables
  BY <1>1 DEF HandlesMapped
<1>4. /\ HandlesOfTables[h].name = root_dir[s].d_name
      /\ HandlesOfTables[h].pos = open_file_table[h].of_offset
  BY <1>1, <1>2 DEF HandlesMapped
<1>5. HandlesOfTables[h] = [name |-> root_dir[s].d_name, pos |-> open_file_table[h].of_offset]
  BY <1>3, <1>4
<1>6. /\ root_dir[s].d_name \in DOMAIN FilesOfTables
      /\ FilesOfTables[root_dir[s].d_name] = Contents(root_dir[s].d_inumber)
  BY <1>1 DEF FilesMapped
<1> QED
  BY <1>2, <1>3, <1>4, <1>5, <1>6

\* A step that moves one handle and leaves the directory alone.
LEMMA HandleMoved ==
  ASSUME OpenHandlesOnly, MappedInv, MappedInv', UNCHANGED dirVars,
         NEW h \in Handle \ free_open_file_entries, NEW pos \in Nat,
         open_file_table' = [open_file_table EXCEPT ![h].of_offset = pos],
         UNCHANGED free_open_file_entries
  PROVE  HandlesOfTables' = [HandlesOfTables EXCEPT ![h].pos = pos]
<1> DEFINE open == Handle \ free_open_file_entries
           new == [HandlesOfTables EXCEPT ![h].pos = pos]
<1>1. HandlesMapped /\ HandlesMapped'
  BY StillMapped
<1>2. /\ HandlesOfTables \in [open -> [name : Name, pos : Nat]]
      /\ HandlesOfTables' \in [open -> [name : Name, pos : Nat]]
  BY <1>1 DEF HandlesMapped
<1>3. new \in [open -> [name : Name, pos : Nat]]
  BY <1>2
<1>4. \A g \in open : /\ open_file_table'[g].of_inumber = open_file_table[g].of_inumber
                      /\ open_file_table'[g].of_offset =
                            IF g = h THEN pos ELSE open_file_table[g].of_offset
  BY DEF MappedInv, TablesInv, TypeOK
<1>5. FreeSlots' = FreeSlots /\ root_dir' = root_dir
  BY DirectoryKept DEF dirVars
<1>6. \A g \in open : HandlesOfTables'[g].name = HandlesOfTables[g].name
  <2> SUFFICES ASSUME NEW g \in open PROVE HandlesOfTables'[g].name = HandlesOfTables[g].name
    OBVIOUS
  <2>1. PICK s \in Slot \ FreeSlots : root_dir[s].d_inumber = open_file_table[g].of_inumber
    BY DEF MappedInv, TablesInv, HandlesReferToFiles
  <2> QED
    BY <1>1, <1>4, <1>5, <2>1 DEF HandlesMapped
<1>7. \A g \in open : HandlesOfTables'[g].pos = new[g].pos
  BY <1>1, <1>2, <1>4 DEF HandlesMapped
<1>8. \A g \in open : new[g].name = HandlesOfTables[g].name
  BY <1>2
<1>9. \A g \in open : HandlesOfTables'[g] = new[g]
  <2> HIDE DEF new
  <2>1. \A g \in open : /\ HandlesOfTables'[g] \in [name : Name, pos : Nat]
                        /\ new[g] \in [name : Name, pos : Nat]
    BY <1>2, <1>3
  <2> QED
    BY <1>6, <1>7, <1>8, <2>1
<1> HIDE DEF new
<1>10. HandlesOfTables' = new
  BY <1>2, <1>3, <1>9, SameFunction
<1> QED
  BY <1>10 DEF new

\* A handle that a step neither moves nor gives out is the same to the store.
LEMMA OtherHandleKept ==
  ASSUME OpenHandlesOnly, MappedInv, MappedInv',
         \A t \in Slot \ FreeSlots : t \notin FreeSlots' /\ root_dir'[t] = root_dir[t],
         NEW g \in Handle \ free_open_file_entries, g \notin free_open_file_entries',
         open_file_table'[g] = open_file_table[g]
  PROVE  HandlesOfTables'[g] = HandlesOfTables[g]
<1>1. HandlesMapped /\ HandlesMapped'
  BY StillMapped
<1>2. PICK s \in Slot \ FreeSlots : root_dir[s].d_inumber = open_file_table[g].of_inumber
  BY DEF MappedInv, TablesInv, HandlesReferToFiles
<1>3. /\ HandlesOfTables[g].name = root_dir[s].d_name
      /\ HandlesOfTables[g].pos = open_file_table[g].of_offset
      /\ HandlesOfTables[g] \in [name : Name, pos : Nat]
  BY <1>1, <1>2 DEF HandlesMapped
<1>4. /\ s \in Slot \ FreeSlots'
      /\ root_dir'[s].d_inumber = open_file_table'[g].of_inumber
  BY <1>2
<1>5. /\ HandlesOfTables'[g].name = root_dir[s].d_name
      /\ HandlesOfTables'[g].pos = open_file_table[g].of_offset
      /\ HandlesOfTables'[g] \in [name : Name, pos : Nat]
  <2>1. HandlesOfTables'[g].name = root_dir'[s].d_name
    BY <1>1, <1>4 DEF HandlesMapped
  <2>2. HandlesOfTables'[g].pos = open_file_table'[g].of_offset
    BY <1>1 DEF HandlesMapped
  <2>3. HandlesOfTables'[g] \in [name : Name, pos : Nat]
    BY <1>1 DEF HandlesMapped
  <2> QED
    BY <2>1, <2>2, <2>3
<1> QED
  BY <1>3, <1>5

\* add_to_open_file_table gives out a handle the store knows nothing of.
LEMMA StoreGivesHandle ==
  ASSUME OpenHandlesOnly, MappedInv, MappedInv',
         NEW inum \in Inumber, NEW offset \in Nat, add_to_open_file_table(inum, offset),
         NEW s \in Slot \ FreeSlots', root_dir'[s].d_inumber = inum,
         \A t \in Slot \ FreeSlots : t \notin FreeSlots' /\ root_dir'[t] = root_dir[t]
  PROVE  Store!GiveHandle(root_dir'[s].d_name, offset)
<1> DEFINE open == Handle \ free_open_file_entries
           given == [name |-> root_dir'[s].d_name, pos |-> offset]
<1>1. HandlesMapped /\ HandlesMapped'
  BY StillMapped
<1>2. HandlesOfTables \in [open -> [name : Name, pos : Nat]]
  BY <1>1 DEF HandlesMapped
<1>3. HandlesOfTables' \in [Handle \ free_open_file_entries' -> [name : Name, pos : Nat]]
  BY <1>1 DEF HandlesMapped
<1>4. ASSUME free_open_file_entries = {}, Return("tfs_open", -1), UNCHANGED handleVars
      PROVE  Store!GiveHandle(root_dir'[s].d_name, offset)
  <2>1. \A g \in Handle : HandlesOfTables'[g] = HandlesOfTables[g]
    BY <1>4, OtherHandleKept DEF handleVars
  <2>2. free_open_file_entries' = {}
    BY <1>4 DEF handleVars
  <2>3. open = Handle /\ Handle \ free_open_file_entries' = Handle
    BY <1>4, <2>2
  <2>4. HandlesOfTables' = HandlesOfTables
    BY <1>2, <1>3, <2>1, <2>3, SameFunction
  <2>5. DOMAIN HandlesOfTables = Handle
    BY <1>2, <2>3
  <2> QED
    BY <1>4, <2>4, <2>5 DEF Store!GiveHandle, Store!Open, Store!Return, Return
<1>5. ASSUME NEW h \in free_open_file_entries, h \in Handle,
             free_open_file_entries' = free_open_file_entries \ {h},
             open_file_table' = [open_file_table EXCEPT
                ![h] = [of_inumber |-> inum, of_offset |-> offset]],
             Return("tfs_open", h)
      PROVE  Store!GiveHandle(root_dir'[s].d_name, offset)
  <2> DEFINE new == [g \in DOMAIN HandlesOfTables \cup {h} |->
                        IF g = h THEN given ELSE HandlesOfTables[g]]
  <2>1. /\ DOMAIN HandlesOfTables = open /\ h \notin open
        /\ Handle \ free_open_file_entries' = open \cup {h}
    BY <1>2, <1>5
  <2>2. /\ open_file_table'[h] = [of_inumber |-> inum, of_offset |-> offset]
        /\ \A g \in open : open_file_table'[g] = open_file_table[g]
    BY <1>5, <2>1 DEF MappedInv, TablesInv, TypeOK
  <2>3. \A g \in open : HandlesOfTables'[g] = HandlesOfTables[g]
    BY <2>1, <2>2, OtherHandleKept
  <2>4. HandlesOfTables'[h] = given
    <3>1. h \in Handle \ free_open_file_entries' /\ root_dir'[s].d_inumber = open_file_table'[h].of_inumber
      BY <2>1, <2>2
    <3>2. HandlesOfTables'[h].name = root_dir'[s].d_name
      BY <1>1, <3>1 DEF HandlesMapped
    <3>3. HandlesOfTables'[h].pos = offset
      BY <1>1, <2>2, <3>1 DEF HandlesMapped
    <3>4. HandlesOfTables'[h] \in [name : Name, pos : Nat]
      BY <1>3, <3>1
    <3> QED
      BY <3>2, <3>3, <3>4
  <2>5. given \in [name : Name, pos : Nat]
    BY <1>3, <2>1, <2>4
  <2> HIDE DEF given
  <2>6. new \in [open \cup {h} -> [name : Name, pos : Nat]]
    BY <1>2, <2>1, <2>5
  <2>7. \A g \in open \cup {h} : HandlesOfTables'[g] = new[g]
    BY <2>1, <2>3, <2>4
  <2>8. HandlesOfTables' = new
    <3> HIDE DEF new
    <3> QED
      BY <1>3, <2>1, <2>6, <2>7, SameFunction
  <2> QED
    BY <1>5, <2>1, <2>8 DEF Store!GiveHandle, Store!Open, Store!Return, Return, given
<1> QED
  BY <1>4, <1>5 DEF add_to_open_file_table, IsFirst

-----------------------------------------------------------------------------
(* Each operation of the tables is one of the store *)

\* A lookup fails exactly for a name that no file has.
LEMMA LookupIsLookup ==
  ASSUME AbsolutePathsOnly, OpenHandlesOnly, MappedInv, NEW p \in Path, tfs_lookup(p)
  PROVE  Store!Next
<1>1. FilesMapped
  BY StillMapped
<1>2. FilesOfTables' = FilesOfTables /\ HandlesOfTables' = HandlesOfTables
  <2>1. UNCHANGED <<dirVars, handleVars>> /\ UNCHANGED blockVars
    BY DEF tfs_lookup
  <2>2. HandlesOfTables' = HandlesOfTables
    BY <2>1, HandlesUntouched
  <2>3. FilesOfTables' = FilesOfTables
    BY <2>1 DEF FilesOfTables, Contents, dirVars, blockVars, FreeSlots, Slot
  <2> QED
    BY <2>2, <2>3
<1>3. p.name \in Name \cup {NoName} /\ p.abs
  BY InputAssumption DEF AbsolutePathsOnly
<1>4. Store!Lookup(p.name)
  <2>1. ASSUME Found(p) = {}, Return("tfs_lookup", -1) PROVE Store!Lookup(p.name)
    <3>1. p.name \notin DOMAIN FilesOfTables
      <4>1. CASE p.name = NoName
        BY <4>1, <1>1, InputAssumption DEF FilesMapped, MappedInv, EntriesNamed
      <4>2. CASE p.name # NoName
        BY <4>2, <1>1, <1>3, <2>1 DEF FilesMapped, Found, valid_pathname
      <4> QED
        BY <4>1, <4>2
    <3> QED
      BY <1>2, <2>1, <3>1 DEF Store!Lookup, Store!Existing, Return
  <2>2. ASSUME NEW s \in Slot, IsFirst(s, Found(p)), Return("tfs_lookup", root_dir[s].d_inumber)
        PROVE  Store!Lookup(p.name)
    <3>1. s \in Slot \ FreeSlots /\ root_dir[s].d_name = p.name
      BY <2>2 DEF IsFirst, Found
    <3>2. p.name \in DOMAIN FilesOfTables
      BY <1>1, <3>1 DEF FilesMapped
    <3>3. root_dir[s].d_inumber \in Nat
      BY <3>1 DEF MappedInv, TablesInv, InodesAccounted, Inumber
    <3> QED
      BY <1>2, <2>2, <3>2, <3>3 DEF Store!Lookup, Store!Existing, Return
  <2> QED
    BY <2>1, <2>2 DEF tfs_lookup
<1> QED
  BY <1>3, <1>4 DEF Store!Next

\* tfs_open of a file that exists, truncated or not.
LEMMA OpenExistingIsOpenFile ==
  ASSUME OpenHandlesOnly, MappedInv, MappedInv',
         NEW p \in Path, NEW flags \in Flags, OpenExisting(p, flags)
  PROVE  Store!Next
<1> USE TableAssumption, InputAssumption
<1>1. PICK s \in Slot : OpenExisting(p, flags)!(s)
  BY DEF OpenExisting
<1>2. s \in Slot \ FreeSlots
  BY <1>1 DEF Found, IsFirst
<1>3. PICK inum \in Inumber \ freeinode_ts : inum = root_dir[s].d_inumber
  BY <1>2 DEF MappedInv, TablesInv, InodesAccounted
<1> DEFINE node == inode_table[inum]
           trunc == "TFS_O_TRUNC" \in flags
           app == "TFS_O_APPEND" \in flags
           size == IF trunc /\ node.i_size > 0 THEN 0 ELSE node.i_size
           offset == IF app THEN size ELSE 0
           name == root_dir[s].d_name
           bytes == IF trunc THEN << >> ELSE FilesOfTables[name]
<1>4. /\ inode_table' = [inode_table EXCEPT ![inum].i_size = size]
      /\ add_to_open_file_table(inum, offset)
      /\ UNCHANGED <<dirVars, fs_data>>
  BY <1>1, <1>3
<1>5. /\ Contents(inum) \in Seq(Byte) /\ Len(Contents(inum)) = node.i_size
      /\ name \in DOMAIN FilesOfTables /\ FilesOfTables[name] = Contents(inum)
      /\ name \in Name
  <2>1. ContentsTyped /\ FilesMapped
    BY StillMapped
  <2> QED
    BY <1>2, <1>3, <2>1 DEF ContentsTyped, FilesMapped, MappedInv, EntriesNamed
<1>6. node.i_size \in 0 .. BLOCK_SIZE /\ size \in Nat /\ offset \in Nat
  BY <1>3 DEF MappedInv, TablesInv, TypeOK, NodeType
<1>7. /\ inode_table'[inum].i_size = size
      /\ \A i \in Inumber : /\ inode_table'[i].i_data_block = inode_table[i].i_data_block
                            /\ i # inum => inode_table'[i] = inode_table[i]
  <2> HIDE DEF size
  <2> QED
    BY <1>4, <1>6 DEF MappedInv, TablesInv, TypeOK, NodeType
<1>8. Len(bytes) = size
  BY <1>5, <1>6
<1>9. \A i \in Inumber \ freeinode_ts : i # inum => Contents(i)' = Contents(i)
  <2> SUFFICES ASSUME NEW i \in Inumber \ freeinode_ts, i # inum
               PROVE  Contents(i)' = Contents(i)
    OBVIOUS
  <2>1. inode_table[i].i_size \in Nat
    BY DEF MappedInv, TablesInv, TypeOK, NodeType
  <2> QED
    BY <1>4, <1>7, <2>1, ContentsKept
<1>10. Contents(inum)' = bytes
  <2>1. CASE size = node.i_size
    <3>1. Contents(inum)' = Contents(inum)
      BY <1>4, <1>6, <1>7, <2>1, ContentsKept
    <3>2. Contents(inum) = bytes
      BY <1>5, <1>6, <2>1
    <3> QED
      BY <3>1, <3>2
  <2>2. CASE size # node.i_size
    <3>1. trunc /\ size = 0
      BY <2>2
    <3>2. Contents(inum)' = [k \in 1 .. 0 |-> fs_data'[inode_table'[inum].i_data_block][k - 1]]
      BY <1>7, <3>1 DEF Contents
    <3>3. Contents(inum)' = << >>
      BY <3>2
    <3> QED
      BY <3>1, <3>3
  <2> QED
    BY <2>1, <2>2
<1>11. FilesOfTables' = [FilesOfTables EXCEPT ![name] = bytes]
  <2> HIDE DEF bytes
  <2> QED
    BY <1>2, <1>3, <1>4, <1>9, <1>10, FileChanged
<1>12. FreeSlots' = FreeSlots /\ root_dir' = root_dir
  BY <1>4, DirectoryKept DEF dirVars
<1>13. Store!GiveHandle(name, offset)
  <2> HIDE DEF offset
  <2>1. Store!GiveHandle(root_dir'[s].d_name, offset)
    BY <1>2, <1>3, <1>4, <1>6, <1>12, StoreGivesHandle
  <2> QED
    BY <1>12, <2>1
<1>14. offset = IF app THEN Len(bytes) ELSE 0
  BY <1>8
<1>15. Store!OpenFile(name, trunc, app)
  <2> HIDE DEF offset
  <2> QED
    BY <1>5, <1>11, <1>13, <1>14 DEF Store!OpenFile, Store!Existing
<1>16. trunc \in BOOLEAN /\ app \in BOOLEAN
  OBVIOUS
<1> HIDE DEF trunc, app
<1> QED
  BY <1>5, <1>15, <1>16 DEF Store!Next

\* tfs_open of a new file, with or without a handle left for it.
LEMMA OpenCreateIsCreateFile ==
  ASSUME OpenHandlesOnly, MappedInv, MappedInv', NEW p \in Path, p.abs,
         Found(p) = {}, OpenCreate(p)
  PROVE  Store!Next
<1>1. PICK inum \in Inumber, s \in Slot : OpenCreate(p)!(inum, s)
  BY DEF OpenCreate
<1> DEFINE used == Slot \ FreeSlots
           names == {root_dir[t].d_name : t \in used}
           name == p.name
<1>2. /\ inum \in freeinode_ts /\ s \in FreeSlots /\ name \in Name
      /\ inode_table' = [inode_table EXCEPT ![inum] = [i_size |-> 0, i_data_block |-> -1]]
      /\ root_dir' = [root_dir EXCEPT ![s] = [d_name |-> name, d_inumber |-> inum]]
      /\ add_to_open_file_table(inum, 0)
      /\ UNCHANGED fs_data
  BY <1>1, InputAssumption DEF inode_create, IsFirst
<1>3. /\ root_dir'[s].d_inumber = inum /\ root_dir'[s].d_name = name
      /\ \A t \in Slot : t # s => root_dir'[t] = root_dir[t]
  BY <1>2 DEF MappedInv, TablesInv, TypeOK
<1>4. FreeSlots' = FreeSlots \ {s}
  BY <1>2, <1>3 DEF FreeSlots, Inumber
<1>5. /\ inode_table'[inum].i_size = 0
      /\ \A i \in Inumber : i # inum => inode_table'[i] = inode_table[i]
  BY <1>2 DEF MappedInv, TablesInv, TypeOK
<1>6. name \notin names
  BY <1>1 DEF Found, valid_pathname
<1>7. \A i \in Inumber \ freeinode_ts : Contents(i)' = Contents(i)
  <2> SUFFICES ASSUME NEW i \in Inumber \ freeinode_ts PROVE Contents(i)' = Contents(i)
    OBVIOUS
  <2>1. inode_table[i].i_size \in Nat
    BY DEF MappedInv, TablesInv, TypeOK, NodeType
  <2> QED
    BY <1>2, <1>5, <2>1, ContentsKept
<1>8. Contents(inum)' = << >>
  <2>1. Contents(inum)' = [k \in 1 .. 0 |-> fs_data'[inode_table'[inum].i_data_block][k - 1]]
    BY <1>5 DEF Contents
  <2> QED
    BY <2>1
<1>9. FilesMapped /\ FilesMapped'
  BY StillMapped
<1>10. /\ FilesOfTables \in [names -> Seq(Byte)]
       /\ FilesOfTables' \in [names \cup {name} -> Seq(Byte)]
  <2>1. {root_dir'[t].d_name : t \in Slot \ FreeSlots'} = names \cup {name}
    BY <1>2, <1>3, <1>4
  <2> QED
    BY <1>9, <2>1 DEF FilesMapped
<1>11. FilesOfTables'[name] = << >>
  <2>1. s \in Slot \ FreeSlots' /\ root_dir'[s].d_inumber = inum
    BY <1>3, <1>4
  <2>2. FilesOfTables'[root_dir'[s].d_name] = Contents(inum)'
    BY <1>9, <2>1 DEF FilesMapped
  <2> QED
    BY <1>3, <1>8, <2>2
<1>12. \A t \in used : FilesOfTables'[root_dir[t].d_name] = FilesOfTables[root_dir[t].d_name]
  <2> SUFFICES ASSUME NEW t \in used
               PROVE  FilesOfTables'[root_dir[t].d_name] = FilesOfTables[root_dir[t].d_name]
    OBVIOUS
  <2>1. t \in Slot \ FreeSlots' /\ root_dir'[t] = root_dir[t]
    BY <1>2, <1>3, <1>4
  <2>2. PICK i \in Inumber \ freeinode_ts : i = root_dir[t].d_inumber
    BY DEF MappedInv, TablesInv, InodesAccounted
  <2>3. FilesOfTables'[root_dir[t].d_name] = Contents(i)'
    BY <1>9, <2>1, <2>2 DEF FilesMapped
  <2>4. FilesOfTables[root_dir[t].d_name] = Contents(i)
    BY <1>9, <2>2 DEF FilesMapped
  <2> QED
    BY <1>7, <2>3, <2>4
<1> DEFINE new == [m \in names \cup {name} |-> IF m = name THEN << >> ELSE FilesOfTables[m]]
<1>13. new \in [names \cup {name} -> Seq(Byte)]
  BY <1>10
<1>14. \A m \in names \cup {name} : FilesOfTables'[m] = new[m]
  BY <1>6, <1>11, <1>12
<1>15. FilesOfTables' = new
  <2> HIDE DEF new
  <2> QED
    BY <1>10, <1>13, <1>14, SameFunction
<1>16. DOMAIN FilesOfTables = names
  BY <1>10
<1>17. Store!GiveHandle(name, 0)
  <2>1. s \in Slot \ FreeSlots'
    BY <1>4
  <2>2. \A t \in used : t \notin FreeSlots' /\ root_dir'[t] = root_dir[t]
    BY <1>2, <1>3, <1>4
  <2>3. Store!GiveHandle(root_dir'[s].d_name, 0)
    BY <1>2, <1>3, <2>1, <2>2, StoreGivesHandle
  <2> QED
    BY <1>3, <2>3
<1>18. Store!CreateFile(name)
  <2> HIDE DEF names
  <2> QED
    BY <1>2, <1>6, <1>15, <1>16, <1>17 DEF Store!CreateFile, Store!Existing
<1> QED
  BY <1>2, <1>18 DEF Store!Next

\* An open that fails without a trace: no such file, no entry, no inode.
LEMMA OpenFailureIsFail ==
  ASSUME OpenHandlesOnly, MappedInv, MappedInv', NEW p \in Path,
         OpenNoEntry(p) \/ OpenNoInode \/ OpenMissing
  PROVE  Store!Next
<1>1. /\ UNCHANGED <<dirVars, handleVars>> /\ UNCHANGED dirVars
      /\ UNCHANGED fs_data
      /\ Return("tfs_open", -1)
  BY DEF OpenNoEntry, OpenNoInode, OpenMissing, blockVars
<1>2. \A i \in Inumber \ freeinode_ts : inode_table'[i] = inode_table[i]
  <2>1. ASSUME OpenNoEntry(p) PROVE \A i \in Inumber \ freeinode_ts : inode_table'[i] = inode_table[i]
    <3>1. PICK inum \in Inumber : inode_create(inum)
      BY <2>1 DEF OpenNoEntry
    <3> QED
      BY <3>1 DEF inode_create, IsFirst, MappedInv, TablesInv, TypeOK
  <2> QED
    BY <2>1 DEF OpenNoInode, OpenMissing, blockVars
<1>3. \A i \in Inumber \ freeinode_ts : Contents(i)' = Contents(i)
  <2> SUFFICES ASSUME NEW i \in Inumber \ freeinode_ts PROVE Contents(i)' = Contents(i)
    OBVIOUS
  <2>1. inode_table[i].i_size \in Nat
    BY DEF MappedInv, TablesInv, TypeOK, NodeType
  <2> QED
    BY <1>1, <1>2, <2>1, ContentsKept
<1>4. FilesOfTables' = FilesOfTables
  BY <1>1, <1>3, FilesKept
<1>5. HandlesOfTables' = HandlesOfTables
  BY <1>1, HandlesUntouched
<1>6. Store!Fail("tfs_open")
  BY <1>1, <1>4, <1>5 DEF Store!Fail, Store!Return, Return
<1> QED
  BY <1>6 DEF Store!Next

\* tfs_close of an open handle.
LEMMA CloseIsClose ==
  ASSUME OpenHandlesOnly, MappedInv, MappedInv',
         NEW h \in Handle \ free_open_file_entries, tfs_close(h)
  PROVE  Store!Next
<1> DEFINE open == Handle \ free_open_file_entries
<1>1. /\ free_open_file_entries' = free_open_file_entries \cup {h}
      /\ Return("tfs_close", 0)
      /\ UNCHANGED dirVars /\ UNCHANGED blockVars /\ UNCHANGED open_file_table
  BY DEF tfs_close, remove_from_open_file_table
<1>2. FilesOfTables' = FilesOfTables
  BY <1>1 DEF FilesOfTables, Contents, dirVars, blockVars, FreeSlots, Slot
<1>3. FreeSlots' = FreeSlots /\ root_dir' = root_dir
  BY <1>1, DirectoryKept DEF dirVars
<1>4. HandlesMapped /\ HandlesMapped'
  BY StillMapped
<1>5. /\ HandlesOfTables \in [open -> [name : Name, pos : Nat]]
      /\ HandlesOfTables' \in [open \ {h} -> [name : Name, pos : Nat]]
  <2>1. Handle \ free_open_file_entries' = open \ {h}
    BY <1>1
  <2> QED
    BY <1>4, <2>1 DEF HandlesMapped
<1>6. \A g \in open \ {h} : HandlesOfTables'[g] = HandlesOfTables[g]
  BY <1>1, <1>3, OtherHandleKept
<1>7. HandlesOfTables' = [g \in open \ {h} |-> HandlesOfTables[g]]
  BY <1>5, <1>6
<1>8. DOMAIN HandlesOfTables = open
  BY <1>5
<1>9. Store!Close(h)
  <2> HIDE DEF open
  <2>1. h \in open
    BY DEF open
  <2> QED
    BY <1>1, <1>2, <1>7, <1>8, <2>1 DEF Store!Close, Store!Open, Store!Return, Return
<1> QED
  BY <1>9 DEF Store!Next

\* A write is clamped to the end of the block as the store clamps it.
LEMMA ClampedAlike ==
  ASSUME MappedInv, NEW h \in Handle, Usable(h), NEW buffer \in Payload
  PROVE  /\ ToWrite(h, buffer) =
              Store!Smaller(Len(buffer), BLOCK_SIZE - open_file_table[h].of_offset)
         /\ ToWrite(h, buffer) \in 0 .. Len(buffer)
         /\ open_file_table[h].of_offset \in Nat
         /\ open_file_table[h].of_offset + ToWrite(h, buffer) <= BLOCK_SIZE
<1> DEFINE from == open_file_table[h].of_offset
           len == Len(buffer)
<1>1. from \in Nat /\ from <= BLOCK_SIZE /\ BLOCK_SIZE \in Nat
  BY UsableRefersToFile, TableAssumption DEF MappedInv
<1>2. len \in Nat
  BY InputAssumption
<1>3. ToWrite(h, buffer) = AtMost(len, BLOCK_SIZE - from)
  BY DEF ToWrite
<1> HIDE DEF from, len
<1>4. /\ AtMost(len, BLOCK_SIZE - from) = Store!Smaller(len, BLOCK_SIZE - from)
      /\ AtMost(len, BLOCK_SIZE - from) \in 0 .. len
      /\ from + AtMost(len, BLOCK_SIZE - from) <= BLOCK_SIZE
  BY <1>1, <1>2 DEF AtMost, Store!Smaller
<1> QED
  BY <1>1, <1>3, <1>4 DEF from, len

\* What the store asks of the contents a write leaves behind.
Written(h, buffer, old, new) ==
    LET pos == open_file_table[h].of_offset
        n == ToWrite(h, buffer)
    IN /\ new \in Seq(Byte)
       /\ Len(new) = IF n > 0 /\ pos + n > Len(old) THEN pos + n ELSE Len(old)
       /\ \A i \in DOMAIN new :
            IF pos < i /\ i <= pos + n THEN new[i] = buffer[i - pos]
            ELSE i <= Len(old) => new[i] = old[i]

LEMMA StoreWrites ==
  ASSUME OpenHandlesOnly, MappedInv,
         NEW h \in Handle, Usable(h), NEW buffer \in Payload,
         NEW s \in Slot \ FreeSlots,
         root_dir[s].d_inumber = open_file_table[h].of_inumber,
         NEW new, Written(h, buffer, FilesOfTables[root_dir[s].d_name], new),
         FilesOfTables' = [FilesOfTables EXCEPT ![root_dir[s].d_name] = new],
         HandlesOfTables' = [HandlesOfTables EXCEPT
            ![h].pos = open_file_table[h].of_offset + ToWrite(h, buffer)],
         Return("tfs_write", ToWrite(h, buffer))
  PROVE  Store!Next
<1> DEFINE name == HandlesOfTables[h].name
           pos == HandlesOfTables[h].pos
           old == FilesOfTables[name]
           n == Store!Smaller(Len(buffer), BLOCK_SIZE - pos)
<1>1. h \in Handle \ free_open_file_entries
  BY DEF Usable
<1>2. /\ h \in DOMAIN HandlesOfTables
      /\ name = root_dir[s].d_name
      /\ pos = open_file_table[h].of_offset
  <2>1. HandlesMapped
    BY StillMapped
  <2> QED
    BY <1>1, <2>1 DEF HandlesMapped
<1>3. n = ToWrite(h, buffer) /\ n >= 0
  BY <1>2, ClampedAlike
<1>4. Written(h, buffer, old, new)
  BY <1>2
<1>5. /\ FilesOfTables' = [FilesOfTables EXCEPT ![name] = new]
      /\ HandlesOfTables' = [HandlesOfTables EXCEPT ![h].pos = pos + n]
      /\ reply' = [op |-> "tfs_write", ret |-> n, data |-> << >>]
  BY <1>2, <1>3 DEF Return
<1> HIDE DEF name, pos, old, n
<1>6. /\ new \in Seq(Byte)
      /\ Len(new) = IF n > 0 /\ pos + n > Len(old) THEN pos + n ELSE Len(old)
      /\ \A i \in DOMAIN new :
           IF pos < i /\ i <= pos + n THEN new[i] = buffer[i - pos]
           ELSE i <= Len(old) => new[i] = old[i]
  BY <1>2, <1>3, <1>4 DEF Written
<1>7. new \in UNION {[1 .. k -> Byte] : k \in {Len(old), pos + n}}
  <2>1. new \in [1 .. Len(new) -> Byte]
    BY <1>6
  <2>2. Len(new) \in {Len(old), pos + n}
    BY <1>6
  <2> QED
    BY <2>1, <2>2
<1>8. \E x \in UNION {[1 .. k -> Byte] : k \in {Len(old), pos + n}} :
         /\ Len(x) = IF n > 0 /\ pos + n > Len(old) THEN pos + n ELSE Len(old)
         /\ \A i \in DOMAIN x :
              IF pos < i /\ i <= pos + n THEN x[i] = buffer[i - pos]
              ELSE i <= Len(old) => x[i] = old[i]
         /\ FilesOfTables' = [FilesOfTables EXCEPT ![name] = x]
  <2> WITNESS new \in UNION {[1 .. k -> Byte] : k \in {Len(old), pos + n}}
  <2> QED
    BY <1>5, <1>6
<1>9. Store!Write(h, buffer)
  BY <1>2, <1>3, <1>5, <1>8 DEF Store!Write, Store!Open, Store!Return, name, pos, old, n
<1> QED
  BY <1>9 DEF Store!Next

\* A write of nothing, or at the end of the block.
LEMMA WriteNothingIsWrite ==
  ASSUME OpenHandlesOnly, MappedInv, MappedInv',
         NEW h \in Handle, Usable(h), NEW buffer \in Payload, WriteNothing(h, buffer)
  PROVE  Store!Next
<1>1. h \in Handle \ free_open_file_entries
  BY DEF Usable
<1>2. PICK s \in Slot \ FreeSlots :
        /\ root_dir[s].d_inumber = open_file_table[h].of_inumber
        /\ HandlesOfTables[h] = [name |-> root_dir[s].d_name,
                                 pos |-> open_file_table[h].of_offset]
        /\ HandlesOfTables[h].name \in DOMAIN FilesOfTables
  BY <1>1, HandleOnEntry
<1>3. FilesMapped /\ HandlesMapped
  BY StillMapped
<1>4. /\ ToWrite(h, buffer) = 0 /\ Return("tfs_write", 0)
      /\ UNCHANGED <<dirVars, handleVars>> /\ UNCHANGED <<dirVars, blockVars>>
  BY DEF WriteNothing
<1>5. FilesOfTables' = FilesOfTables
  BY <1>4 DEF FilesOfTables, Contents, dirVars, blockVars, FreeSlots, Slot
<1>6. HandlesOfTables' = HandlesOfTables
  BY <1>4, HandlesUntouched
<1> DEFINE name == root_dir[s].d_name
           pos == open_file_table[h].of_offset
<1>7. name \in DOMAIN FilesOfTables /\ FilesOfTables[name] \in Seq(Byte)
  BY <1>2, <1>3 DEF FilesMapped
<1>8. pos \in Nat
  BY ClampedAlike
<1>9. FilesOfTables' = [FilesOfTables EXCEPT ![name] = FilesOfTables[name]]
  BY <1>3, <1>5, <1>7 DEF FilesMapped
<1>10. HandlesOfTables' = [HandlesOfTables EXCEPT ![h].pos = pos + 0]
  <2> DEFINE open == Handle \ free_open_file_entries
             new == [HandlesOfTables EXCEPT ![h].pos = pos]
  <2>1. HandlesOfTables \in [open -> [name : Name, pos : Nat]]
    BY <1>3 DEF HandlesMapped
  <2>2. HandlesOfTables[h].pos = pos
    BY <1>2
  <2> HIDE DEF pos
  <2>3. new \in [open -> [name : Name, pos : Nat]]
    BY <1>8, <2>1
  <2>4. new[h] = HandlesOfTables[h]
    BY <1>1, <1>8, <2>1, <2>2
  <2>5. \A g \in open : new[g] = HandlesOfTables[g]
    BY <2>1, <2>4
  <2>6. HandlesOfTables = new
    <3> HIDE DEF new
    <3> QED
      BY <2>1, <2>3, <2>5, SameFunction
  <2>7. pos + 0 = pos
    BY <1>8
  <2> QED
    BY <1>6, <2>6, <2>7
<1>11. Written(h, buffer, FilesOfTables[name], FilesOfTables[name])
  BY <1>4, <1>7, <1>8 DEF Written
<1> HIDE DEF name, pos
<1> QED
  BY <1>2, <1>4, <1>9, <1>10, <1>11, StoreWrites DEF name, pos

\* The first write to an empty file found no block.
LEMMA WriteNoBlockIsWriteFails ==
  ASSUME OpenHandlesOnly, MappedInv, MappedInv',
         NEW h \in Handle, Usable(h), NEW buffer \in Payload, WriteNoBlock(h, buffer)
  PROVE  Store!Next
<1>1. h \in Handle \ free_open_file_entries
  BY DEF Usable
<1>2. /\ NodeOf(h).i_size = 0 \/ NodeOf(h).i_data_block \notin Block
      /\ inode_table' = [inode_table EXCEPT
                           ![open_file_table[h].of_inumber].i_data_block = -1]
      /\ Return("tfs_write", -1)
      /\ UNCHANGED <<dirVars, handleVars>> /\ UNCHANGED dirVars /\ UNCHANGED fs_data
  BY DEF WriteNoBlock
<1>3. PICK inum \in Inumber \ freeinode_ts : inum = open_file_table[h].of_inumber
  BY UsableRefersToFile DEF MappedInv
<1>4. inode_table[inum].i_size = 0
  <2>1. inum \in Owners => inode_table[inum].i_data_block \in Block
    BY DEF MappedInv, TablesInv, BlocksAccounted
  <2>2. inode_table[inum].i_size \in Nat
    BY DEF MappedInv, TablesInv, TypeOK, NodeType
  <2>3. inode_table[inum].i_size = 0 \/ inode_table[inum].i_data_block \notin Block
    BY <1>3 DEF WriteNoBlock, NodeOf
  <2> QED
    BY <2>1, <2>2, <2>3 DEF Owners
<1>5. /\ inode_table'[inum].i_size = 0
      /\ \A i \in Inumber : i # inum => inode_table'[i] = inode_table[i]
  BY <1>2, <1>3, <1>4 DEF MappedInv, TablesInv, TypeOK, NodeType
<1>6. \A i \in Inumber \ freeinode_ts : Contents(i)' = Contents(i)
  <2> SUFFICES ASSUME NEW i \in Inumber \ freeinode_ts PROVE Contents(i)' = Contents(i)
    OBVIOUS
  <2>1. inode_table[i].i_size \in Nat
    BY DEF MappedInv, TablesInv, TypeOK, NodeType
  <2>2. /\ inode_table'[i].i_size = inode_table[i].i_size
        /\ inode_table[i].i_size > 0 =>
             fs_data'[inode_table'[i].i_data_block] = fs_data[inode_table[i].i_data_block]
    <3>1. UNCHANGED fs_data
      BY <1>2
    <3>2. CASE i = inum
      BY <1>4, <1>5, <3>2
    <3>3. CASE i # inum
      BY <1>5, <3>1, <3>3
    <3> QED
      BY <3>2, <3>3
  <2> QED
    BY <2>1, <2>2, ContentsKept
<1>7. FilesOfTables' = FilesOfTables /\ HandlesOfTables' = HandlesOfTables
  BY <1>2, <1>6, FilesKept, HandlesUntouched
<1>8. h \in DOMAIN HandlesOfTables /\ FilesOfTables[HandlesOfTables[h].name] = Contents(inum)
  BY <1>1, <1>3, HandleOnEntry
<1>9. Contents(inum) = << >>
  <2>1. Contents(inum) \in Seq(Byte) /\ Len(Contents(inum)) = 0
    BY <1>4, StillMapped DEF ContentsTyped
  <2> QED
    BY <2>1
<1>10. Store!WriteFails(h)
  BY <1>2, <1>7, <1>8, <1>9 DEF Store!WriteFails, Store!Open, Store!Fail, Store!Return, Return
<1> QED
  BY <1>10 DEF Store!Next

\* The block a write goes to holds no other file's bytes: it is the file's own
\* or, for an empty file, one that was free.
LEMMA WriteSparesOthers ==
  ASSUME MappedInv, NEW h \in Handle, Usable(h), NEW b \in Block,
         data_block_for_write(h, b),
         NEW i \in Owners, i # open_file_table[h].of_inumber
  PROVE  inode_table[i].i_data_block # b
<1> DEFINE inum == open_file_table[h].of_inumber
<1>1. inum \in Inumber \ freeinode_ts /\ NodeOf(h) = inode_table[inum]
      /\ NodeOf(h).i_size \in Nat
  BY UsableRefersToFile DEF MappedInv, NodeOf, NodeType
<1>2. CASE NodeOf(h).i_size = 0
  BY <1>2 DEF data_block_for_write, IsFirst, MappedInv, TablesInv, BlocksAccounted
<1>3. CASE NodeOf(h).i_size # 0
  <2>1. inum \in Owners
    BY <1>1, <1>3 DEF Owners
  <2> QED
    BY <1>1, <1>3, <2>1 DEF data_block_for_write, MappedInv, TablesInv, BlocksAccounted
<1> QED
  BY <1>2, <1>3

\* The bytes of a write land in the file its handle is on and nowhere else.
LEMMA WriteBytesIsWrite ==
  ASSUME OpenHandlesOnly, MappedInv, MappedInv',
         NEW h \in Handle, Usable(h), NEW buffer \in Payload, WriteBytes(h, buffer)
  PROVE  Store!Next
<1> USE TableAssumption
<1>1. PICK b \in Block : WriteBytes(h, buffer)!(b)
  BY DEF WriteBytes
<1>2. h \in Handle \ free_open_file_entries
  BY DEF Usable
<1>3. PICK s \in Slot \ FreeSlots : root_dir[s].d_inumber = open_file_table[h].of_inumber
  BY <1>2, HandleOnEntry
<1>4. PICK inum \in Inumber \ freeinode_ts : inum = open_file_table[h].of_inumber
  BY UsableRefersToFile DEF MappedInv
<1> DEFINE from == open_file_table[h].of_offset
           n == ToWrite(h, buffer)
           node == inode_table[inum]
           size == IF from + n > node.i_size THEN from + n ELSE node.i_size
<1>5. /\ n > 0
      /\ data_block_for_write(h, b)
      /\ fs_data' = [fs_data EXCEPT ![b] = [c \in Cell |->
             IF from <= c /\ c < from + n THEN buffer[c - from + 1] ELSE fs_data[b][c]]]
      /\ open_file_table' = [open_file_table EXCEPT ![h].of_offset = from + n]
      /\ inode_table' = [inode_table EXCEPT ![inum] = [i_size |-> size, i_data_block |-> b]]
      /\ Return("tfs_write", n)
      /\ UNCHANGED dirVars /\ UNCHANGED free_open_file_entries
  BY <1>1, <1>4 DEF NodeOf
<1>6. from \in Nat /\ n \in Nat /\ from + n \in Nat /\ from + n <= BLOCK_SIZE
  BY ClampedAlike, InputAssumption
<1>7. node.i_size \in 0 .. BLOCK_SIZE /\ NodeOf(h) = node
  BY <1>4 DEF MappedInv, TablesInv, TypeOK, NodeType, NodeOf
<1>8. size \in 1 .. BLOCK_SIZE /\ size >= node.i_size
  BY <1>5, <1>6, <1>7
<1> HIDE DEF from, n, node, size
<1>9. /\ inode_table'[inum] = [i_size |-> size, i_data_block |-> b]
      /\ \A i \in Inumber : i # inum => inode_table'[i] = inode_table[i]
  BY <1>5 DEF MappedInv, TablesInv, TypeOK
<1>10. /\ \A d \in Block : d # b => fs_data'[d] = fs_data[d]
       /\ fs_data'[b] = [c \in Cell |->
             IF from <= c /\ c < from + n THEN buffer[c - from + 1] ELSE fs_data[b][c]]
  <2> DEFINE written == [c \in Cell |->
             IF from <= c /\ c < from + n THEN buffer[c - from + 1] ELSE fs_data[b][c]]
  <2>1. fs_data \in [Block -> [Cell -> Byte]]
    BY DEF MappedInv, TablesInv, TypeOK
  <2>2. fs_data' = [fs_data EXCEPT ![b] = written]
    BY <1>5
  <2> HIDE DEF written
  <2>3. /\ \A d \in Block : d # b => fs_data'[d] = fs_data[d]
        /\ fs_data'[b] = written
    BY <2>1, <2>2
  <2> QED
    BY <2>3 DEF written
<1>11. \A i \in Inumber \ freeinode_ts : i # inum => Contents(i)' = Contents(i)
  <2> SUFFICES ASSUME NEW i \in Inumber \ freeinode_ts, i # inum
               PROVE  Contents(i)' = Contents(i)
    OBVIOUS
  <2>1. inode_table[i].i_size \in Nat
    BY DEF MappedInv, TablesInv, TypeOK, NodeType
  <2>2. inode_table[i].i_size > 0 =>
          inode_table[i].i_data_block \in Block /\ inode_table[i].i_data_block # b
    BY <1>4, <1>5, WriteSparesOthers DEF Owners, MappedInv, TablesInv, BlocksAccounted
  <2> QED
    BY <1>9, <1>10, <2>1, <2>2, ContentsKept
<1> DEFINE old == Contents(inum)
<1>12. old \in Seq(Byte) /\ Len(old) = node.i_size /\ FilesOfTables[root_dir[s].d_name] = old
  <2>1. ContentsTyped /\ FilesMapped
    BY StillMapped
  <2> QED
    BY <1>3, <1>4, <2>1 DEF ContentsTyped, FilesMapped, node
<1>13. PICK new : new = Contents(inum)'
  OBVIOUS
<1>14. new = [i \in 1 .. size |-> fs_data'[b][i - 1]]
  BY <1>9, <1>13 DEF Contents
<1>15. new \in Seq(Byte) /\ Len(new) = size
  <2>1. ContentsTyped'
    BY StillMapped
  <2>2. inum \in Inumber \ freeinode_ts'
    BY <1>5 DEF dirVars
  <2> QED
    BY <1>9, <1>13, <2>1, <2>2 DEF ContentsTyped
<1>16. ASSUME NEW i \in 1 .. size
       PROVE  IF from < i /\ i <= from + n THEN new[i] = buffer[i - from]
              ELSE i <= Len(old) => new[i] = old[i]
  <2>1. i \in Nat /\ i - 1 \in Cell
    BY <1>8 DEF Cell
  <2>2. new[i] = fs_data'[b][i - 1]
    BY <1>14
  <2>3. new[i] = IF from <= i - 1 /\ i - 1 < from + n THEN buffer[i - 1 - from + 1]
                 ELSE fs_data[b][i - 1]
    BY <1>10, <2>1, <2>2
  <2>4. CASE from < i /\ i <= from + n
    <3>1. from <= i - 1 /\ i - 1 < from + n /\ i - 1 - from + 1 = i - from
      BY <1>6, <2>1, <2>4
    <3> QED
      BY <2>3, <2>4, <3>1
  <2>5. ASSUME ~ (from < i /\ i <= from + n), i <= Len(old) PROVE new[i] = old[i]
    <3>1. new[i] = fs_data[b][i - 1]
      BY <1>6, <2>1, <2>3, <2>5
    <3>2. node.i_size # 0 /\ i \in 1 .. node.i_size
      BY <1>7, <1>12, <2>1, <2>5
    <3>3. b = node.i_data_block
      BY <1>5, <1>7, <3>2 DEF data_block_for_write
    <3>4. old[i] = fs_data[node.i_data_block][i - 1]
      BY <3>2 DEF Contents, node
    <3> QED
      BY <3>1, <3>3, <3>4
  <2> QED
    BY <2>4, <2>5
<1>17. Written(h, buffer, old, new)
  <2>1. DOMAIN new = 1 .. size
    BY <1>14
  <2>2. size = IF n > 0 /\ from + n > Len(old) THEN from + n ELSE Len(old)
    BY <1>5, <1>12 DEF size
  <2> HIDE DEF old
  <2> QED
    BY <1>15, <1>16, <2>1, <2>2 DEF Written, from, n
<1>18. FilesOfTables' = [FilesOfTables EXCEPT ![root_dir[s].d_name] = new]
  BY <1>3, <1>4, <1>5, <1>11, <1>13, FileChanged
<1>19. HandlesOfTables' = [HandlesOfTables EXCEPT ![h].pos = from + n]
  BY <1>2, <1>5, <1>6, HandleMoved
<1> QED
  BY <1>3, <1>5, <1>12, <1>17, <1>18, <1>19, StoreWrites DEF from, n

\* Up to the end of the file a read is clamped as the store clamps it; past it
\* the subtraction wraps, far beyond any length a caller asks for.
LEMMA ReadClamped ==
  ASSUME MappedInv, NEW h \in Handle, Usable(h), NEW len \in ReadLen
  PROVE  /\ open_file_table[h].of_offset \in Nat /\ NodeOf(h).i_size \in Nat /\ len \in Nat
         /\ open_file_table[h].of_offset <= NodeOf(h).i_size =>
              /\ ToRead(h, len) =
                   Store!Smaller(len, NodeOf(h).i_size - open_file_table[h].of_offset)
              /\ ToRead(h, len) \in Nat
              /\ open_file_table[h].of_offset + ToRead(h, len) <= NodeOf(h).i_size
         /\ open_file_table[h].of_offset > NodeOf(h).i_size => ToRead(h, len) = len
<1> DEFINE from == open_file_table[h].of_offset
           size == NodeOf(h).i_size
<1>1. from \in Nat /\ from <= BLOCK_SIZE /\ size \in Nat /\ BLOCK_SIZE \in Nat /\ len \in Nat
  BY UsableRefersToFile, TableAssumption, InputAssumption DEF MappedInv, NodeType
<1>2. SIZE_MAX \in Nat /\ 2 * BLOCK_SIZE + len <= SIZE_MAX
  BY SizeAssumption
<1>3. ToRead(h, len) = AtMost(SizeSub(size, from), len)
  BY DEF ToRead
<1> HIDE DEF from, size
<1>4. from <= size =>
        /\ AtMost(SizeSub(size, from), len) = Store!Smaller(len, size - from)
        /\ AtMost(SizeSub(size, from), len) \in Nat
        /\ from + AtMost(SizeSub(size, from), len) <= size
  BY <1>1 DEF AtMost, SizeSub, Store!Smaller
<1>5. from > size => AtMost(SizeSub(size, from), len) = len
  BY <1>1, <1>2 DEF AtMost, SizeSub
<1> QED
  BY <1>1, <1>3, <1>4, <1>5 DEF from, size

\* A read changes no file.
LEMMA ReadSparesFiles ==
  ASSUME UNCHANGED <<dirVars, blockVars>>
  PROVE  FilesOfTables' = FilesOfTables
  BY DEF FilesOfTables, Contents, dirVars, blockVars, FreeSlots, Slot

\* n consecutive elements of a sequence are its subsequence.
LEMMA ConsecutiveBytes ==
  ASSUME NEW S, NEW seq \in Seq(S), NEW from \in Nat, NEW n \in Nat, from + n <= Len(seq),
         NEW data \in [1 .. n -> S], \A i \in 1 .. n : data[i] = seq[from + i]
  PROVE  data = SubSeq(seq, from + 1, from + n)
<1> DEFINE lo == from + 1
           hi == from + n
           sub == SubSeq(seq, lo, hi)
<1>1. lo \in Int /\ hi \in Int
  OBVIOUS
<1>2. \A i \in lo .. hi : seq[i] \in S
  <2>1. \A i \in lo .. hi : i \in 1 .. Len(seq)
    OBVIOUS
  <2> QED
    BY <2>1
<1>3. hi - lo + 1 = n /\ (lo <= hi <=> n > 0) /\ \A i \in 1 .. n : lo + i - 1 = from + i
  OBVIOUS
<1> HIDE DEF lo, hi
<1>4. /\ sub \in Seq(S)
      /\ Len(sub) = IF lo <= hi THEN hi - lo + 1 ELSE 0
      /\ \A i \in 1 .. hi - lo + 1 : sub[i] = seq[lo + i - 1]
  BY <1>1, <1>2, SubSeqProperties
<1> HIDE DEF sub
<1>5. sub \in Seq(S) /\ Len(sub) = n
  BY <1>3, <1>4
<1>6. sub \in [1 .. n -> S]
  BY <1>5
<1>7. \A i \in 1 .. n : sub[i] = seq[lo + i - 1]
  BY <1>3, <1>4
<1>8. \A i \in 1 .. n : data[i] = sub[i]
  BY <1>3, <1>7
<1>9. data = sub
  BY <1>6, <1>8, SameFunction
<1> QED
  BY <1>9 DEF sub, lo, hi

\* The bytes a read returns lie in the block of its handle's file.
LEMMA ReadReturnsContents ==
  ASSUME OpenHandlesOnly, MappedInv,
         NEW h \in Handle, Usable(h), NEW len \in ReadLen,
         open_file_table[h].of_offset <= NodeOf(h).i_size,
         NEW b \in Block, b = NodeOf(h).i_data_block,
         NEW data \in [1 .. ToRead(h, len) -> Byte],
         \A i \in DOMAIN data : open_file_table[h].of_offset + i <= BLOCK_SIZE =>
            data[i] = fs_data[b][open_file_table[h].of_offset + i - 1]
  PROVE  data = SubSeq(FilesOfTables[HandlesOfTables[h].name],
                       open_file_table[h].of_offset + 1,
                       open_file_table[h].of_offset + ToRead(h, len))
<1> DEFINE from == open_file_table[h].of_offset
           n == ToRead(h, len)
           size == NodeOf(h).i_size
           old == FilesOfTables[HandlesOfTables[h].name]
<1>1. /\ from \in Nat /\ n \in Nat /\ size \in Nat /\ from + n <= size /\ size <= BLOCK_SIZE
      /\ BLOCK_SIZE \in Nat
  BY ReadClamped, UsableRefersToFile, TableAssumption DEF MappedInv, NodeType
<1>2. h \in Handle \ free_open_file_entries
  BY DEF Usable
<1>3. PICK inum \in Inumber \ freeinode_ts : inum = open_file_table[h].of_inumber
  BY UsableRefersToFile DEF MappedInv
<1>4. old = Contents(inum)
  BY <1>2, <1>3, HandleOnEntry
<1>5. old = [i \in 1 .. size |-> fs_data[b][i - 1]]
  BY <1>3, <1>4 DEF Contents, NodeOf
<1> HIDE DEF from, n, size, old
<1>6. old \in Seq(Byte) /\ Len(old) = size
  BY <1>3, <1>4, StillMapped DEF ContentsTyped, NodeOf, size
<1>7. \A i \in 1 .. n : data[i] = old[from + i]
  <2> SUFFICES ASSUME NEW i \in 1 .. n PROVE data[i] = old[from + i]
    OBVIOUS
  <2>1. from + i \in 1 .. size /\ from + i <= BLOCK_SIZE
    BY <1>1
  <2>2. data[i] = fs_data[b][from + i - 1]
    BY <2>1 DEF from, n
  <2>3. \A k \in 1 .. size : old[k] = fs_data[b][k - 1]
    BY <1>5
  <2>4. old[from + i] = fs_data[b][from + i - 1]
    <3>1. PICK k \in 1 .. size : k = from + i
      BY <2>1
    <3>2. old[k] = fs_data[b][k - 1]
      BY <2>3
    <3> QED
      BY <1>1, <3>1, <3>2
  <2> QED
    BY <2>2, <2>4
<1>8. data \in [1 .. n -> Byte]
  BY DEF n
<1>9. data = SubSeq(old, from + 1, from + n)
  BY <1>1, <1>6, <1>7, <1>8, ConsecutiveBytes
<1> QED
  BY <1>9 DEF from, n, old

\* tfs_read up to the end of the file or, on a handle whose file was truncated
\* under it, past the end.
LEMMA ReadIsRead ==
  ASSUME OpenHandlesOnly, MappedInv, MappedInv',
         NEW h \in Handle, NEW len \in ReadLen, tfs_read(h, len)
  PROVE  Store!Next
<1> USE TableAssumption, InputAssumption
<1> DEFINE from == open_file_table[h].of_offset
           size == NodeOf(h).i_size
           n == ToRead(h, len)
           old == FilesOfTables[HandlesOfTables[h].name]
<1>1. Usable(h) /\ h \in Handle \ free_open_file_entries
  BY DEF tfs_read, Usable
<1>2. UNCHANGED <<dirVars, blockVars>> /\ UNCHANGED dirVars
  BY DEF tfs_read
<1>3. FilesOfTables' = FilesOfTables
  BY <1>2, ReadSparesFiles
<1>4. /\ from \in Nat /\ size \in Nat /\ len \in Nat
      /\ from <= size => n = Store!Smaller(len, size - from) /\ n \in Nat
      /\ from > size => n = len
  <2>1. /\ from \in Nat /\ size \in Nat /\ len \in Nat
        /\ from > size => n = len
    BY <1>1, ReadClamped
  <2>2. from <= size => n = Store!Smaller(len, size - from)
    BY <1>1, ReadClamped
  <2>3. from <= size => n \in Nat
    BY <1>1, ReadClamped
  <2> QED
    BY <2>1, <2>2, <2>3
<1>5. h \in DOMAIN HandlesOfTables /\ HandlesOfTables[h].pos = from
  BY <1>1, StillMapped DEF HandlesMapped
<1>6. Len(old) = size
  <2>1. PICK inum \in Inumber \ freeinode_ts : inum = open_file_table[h].of_inumber
    BY <1>1, UsableRefersToFile DEF MappedInv
  <2>2. old = Contents(inum)
    BY <1>1, <2>1, HandleOnEntry
  <2> QED
    BY <2>1, <2>2, StillMapped DEF ContentsTyped, NodeOf
<1>7. n \in Nat
  BY <1>4
<1>8. ASSUME UNCHANGED handleVars
      PROVE  /\ HandlesOfTables' = HandlesOfTables
             /\ HandlesOfTables' = [HandlesOfTables EXCEPT ![h].pos = from + 0]
  <2> DEFINE new == [HandlesOfTables EXCEPT ![h].pos = from]
             open == Handle \ free_open_file_entries
  <2>1. HandlesOfTables' = HandlesOfTables
    BY <1>2, <1>8, HandlesUntouched
  <2>2. HandlesOfTables \in [open -> [name : Name, pos : Nat]]
    BY StillMapped DEF HandlesMapped
  <2> HIDE DEF from
  <2>3. new \in [open -> [name : Name, pos : Nat]] /\ new[h] = HandlesOfTables[h]
    BY <1>1, <1>4, <1>5, <2>2
  <2>4. \A g \in open : new[g] = HandlesOfTables[g]
    BY <2>2, <2>3
  <2>5. HandlesOfTables = new
    <3> HIDE DEF new
    <3> QED
      BY <2>2, <2>3, <2>4, SameFunction
  <2>6. from + 0 = from
    BY <1>4
  <2> QED
    BY <2>1, <2>5, <2>6
<1> HIDE DEF from, size, n, old
<1>9. ASSUME NEW data \in [1 .. n -> Byte],
             reply' = [op |-> "tfs_read", ret |-> n, data |-> data],
             HandlesOfTables' = [HandlesOfTables EXCEPT ![h].pos = from + n],
             from <= size => data = SubSeq(old, from + 1, from + n)
      PROVE  Store!Next
  <2>1. CASE from <= size
    <3>1. Store!Read(h, len)
      BY <1>3, <1>4, <1>5, <1>6, <1>9, <2>1 DEF Store!Read, Store!Open, old
    <3> QED
      BY <3>1 DEF Store!Next
  <2>2. CASE from > size
    <3>1. Store!ReadPastEnd(h, len)
      BY <1>3, <1>4, <1>5, <1>6, <1>9, <2>2 DEF Store!ReadPastEnd, Store!Open, old
    <3> QED
      BY <3>1 DEF Store!Next
  <2> QED
    BY <1>4, <2>1, <2>2
<1>10. CASE ReadNothing(h, len)
  <2>1. n = 0 /\ reply' = [op |-> "tfs_read", ret |-> 0, data |-> << >>]
        /\ UNCHANGED handleVars
    BY <1>10 DEF ReadNothing, Return, n
  <2>2. << >> \in [1 .. 0 -> Byte]
    OBVIOUS
  <2>3. SubSeq(old, from + 1, from + 0) = << >>
    BY <1>4, SubSeqEmpty
  <2> QED
    BY <1>8, <1>9, <2>1, <2>2, <2>3
<1>11. CASE ReadNoBlock(h, len)
  <2>1. n > 0 /\ NodeOf(h).i_data_block \notin Block /\ Return("tfs_read", -1)
        /\ UNCHANGED handleVars
    BY <1>11 DEF ReadNoBlock, n
  <2>2. size = 0
    <3>1. open_file_table[h].of_inumber \in Inumber \ freeinode_ts
      BY <1>1, UsableRefersToFile DEF MappedInv
    <3> QED
      BY <1>4, <2>1, <3>1 DEF MappedInv, TablesInv, BlocksAccounted, Owners, NodeOf, size
  <2>3. from > size
    BY <1>4, <2>1, <2>2 DEF Store!Smaller
  <2>4. Store!ReadPastEnd(h, len)
    BY <1>3, <1>5, <1>6, <1>8, <2>1, <2>3
       DEF Store!ReadPastEnd, Store!Open, Store!Fail, Store!Return, Return, old
  <2> QED
    BY <2>4 DEF Store!Next
<1>12. CASE ReadBytes(h, len)
  <2>1. PICK b \in Block, data \in [1 .. ToRead(h, len) -> Byte] : ReadBytes(h, len)!(b, data)
    BY <1>12 DEF ReadBytes
  <2>2. /\ b = NodeOf(h).i_data_block
        /\ \A i \in DOMAIN data : open_file_table[h].of_offset + i <= BLOCK_SIZE =>
             data[i] = fs_data[b][open_file_table[h].of_offset + i - 1]
        /\ open_file_table' = [open_file_table EXCEPT ![h].of_offset = from + n]
        /\ reply' = [op |-> "tfs_read", ret |-> n, data |-> data]
        /\ UNCHANGED free_open_file_entries
    BY <2>1 DEF from, n
  <2>3. from <= size => data = SubSeq(old, from + 1, from + n)
    BY <1>1, <2>2, ReadReturnsContents DEF from, n, old, size
  <2>4. from + n \in Nat
    BY <1>4, <1>7
  <2>5. HandlesOfTables' = [HandlesOfTables EXCEPT ![h].pos = from + n]
    BY <1>1, <1>2, <2>2, <2>4, HandleMoved
  <2> QED
    BY <1>9, <2>2, <2>3, <2>5 DEF n
<1> QED
  BY <1>10, <1>11, <1>12 DEF tfs_read

-----------------------------------------------------------------------------
(* The refinement *)

\* The tables tfs_init leaves are a store without files or handles.
LEMMA InitIsInit == Init => Store!Init
<1> SUFFICES ASSUME Init PROVE Store!Init
  OBVIOUS
<1>1. FreeSlots = Slot
  BY DEF Init, FreeSlots
<1>2. {root_dir[s].d_name : s \in Slot \ FreeSlots} = {}
  BY <1>1
<1>3. Handle \ free_open_file_entries = {}
  BY DEF Init
<1>4. FilesOfTables = [n \in {} |-> << >>]
  BY <1>2 DEF FilesOfTables
<1>5. HandlesOfTables = [h \in {} |-> {}]
  BY <1>3 DEF HandlesOfTables
<1> QED
  BY <1>4, <1>5 DEF Init, Store!Init

\* Every step of the tables is a step of the store or leaves it alone.
LEMMA StepIsStoreStep ==
  ASSUME OpenHandlesOnly, AbsolutePathsOnly
  PROVE  MappedInv /\ MappedInv' /\ [Next]_vars => [Store!Next]_(Store!fvars)
<1> SUFFICES ASSUME MappedInv, MappedInv', [Next]_vars
             PROVE  Store!Next \/ UNCHANGED Store!fvars
  OBVIOUS
<1>1. ASSUME NEW p \in Path, tfs_lookup(p) PROVE Store!Next
  BY <1>1, LookupIsLookup
<1>2. ASSUME NEW p \in Path, NEW flags \in Flags, tfs_open(p, flags) PROVE Store!Next
  BY <1>2, OpenExistingIsOpenFile, OpenCreateIsCreateFile, OpenFailureIsFail
     DEF tfs_open, AbsolutePathsOnly
<1>3. ASSUME NEW h \in Handle \ free_open_file_entries, tfs_close(h) PROVE Store!Next
  BY <1>3, CloseIsClose
<1>4. ASSUME NEW h \in Handle, NEW buffer \in Payload, tfs_write(h, buffer)
      PROVE  Store!Next
  BY <1>4, WriteNothingIsWrite, WriteNoBlockIsWriteFails, WriteBytesIsWrite DEF tfs_write
<1>5. ASSUME NEW h \in Handle, NEW len \in ReadLen, tfs_read(h, len) PROVE Store!Next
  BY <1>5, ReadIsRead
<1>6. ASSUME NEW op, InvalidHandle(op) PROVE FALSE
  BY <1>6 DEF InvalidHandle
<1>7. CASE UNCHANGED vars
  <2>1. UNCHANGED <<dirVars, blockVars>> /\ UNCHANGED <<dirVars, handleVars>> /\ UNCHANGED reply
    BY <1>7 DEF vars, dirVars, blockVars, handleVars
  <2>2. FilesOfTables' = FilesOfTables /\ HandlesOfTables' = HandlesOfTables
    BY <2>1, ReadSparesFiles, HandlesUntouched
  <2> QED
    BY <2>1, <2>2 DEF Store!fvars
<1> QED
  BY <1>1, <1>2, <1>3, <1>4, <1>5, <1>6, <1>7 DEF Next

\* The tables implement the file store: whatever inodes, blocks and handles
\* are reused on the way, a write reaches the bytes it names of the one file
\* its handle is on, a read returns that file's bytes, and a failure changes
\* nothing.  A closed handle still works on the tables and a relative path
\* creates a name twice, so the callers are assumed to do neither.
THEOREM TablesImplementStore ==
  ASSUME OpenHandlesOnly, \A p \in Path : p.abs
  PROVE  Spec => ImplementsStore
<1>1. AbsolutePathsOnly
  BY DEF AbsolutePathsOnly
<1>2. Spec => []MappedInv
  BY <1>1, AlwaysMapped
<1>3. MappedInv /\ MappedInv' /\ [Next]_vars => [Store!Next]_(Store!fvars)
  BY <1>1, StepIsStoreStep
<1> QED
  BY <1>2, <1>3, InitIsInit, PTL DEF Spec, ImplementsStore, Store!Spec
=============================================================================
