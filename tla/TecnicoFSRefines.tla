-------------------------- MODULE TecnicoFSRefines --------------------------
(***************************************************************************)
(* The tables of TecnicoFS implement FileStore: a file is a directory      *)
(* entry, its contents the first i_size bytes of its inode's block, and a  *)
(* handle is a TAKEN entry of the open file table.                         *)
(***************************************************************************)
EXTENDS TecnicoFS

EntryOf(inum) == CHOOSE s \in Slot : root_dir[s].d_inumber = inum

Contents(inum) == [i \in 1 .. inode_table[inum].i_size |->
                      fs_data[inode_table[inum].i_data_block][i - 1]]

FilesOfTables ==
    [n \in {root_dir[s].d_name : s \in Slot \ FreeSlots} |->
        Contents(root_dir[CHOOSE s \in Slot \ FreeSlots :
                              root_dir[s].d_name = n].d_inumber)]

HandlesOfTables ==
    [h \in Handle \ free_open_file_entries |->
        [name |-> root_dir[EntryOf(open_file_table[h].of_inumber)].d_name,
         pos |-> open_file_table[h].of_offset]]

Store == INSTANCE FileStore WITH
    MaxSize <- BLOCK_SIZE, files <- FilesOfTables, handles <- HandlesOfTables

\* Every open, close, lookup, read and write of the tables is one of the file
\* store or leaves it alone: a write reaches only the bytes it names of the
\* one file its handle is on, a read returns that file's bytes, a failure
\* changes nothing, however blocks, inodes and handles are reused.
ImplementsStore == Store!Spec
=============================================================================
