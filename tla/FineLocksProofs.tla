-------------------------- MODULE FineLocksProofs ---------------------------
(***************************************************************************)
(* For any number of threads and calls, tables of any size and files of    *)
(* any length: the locks of ex1 are held by the calls whose steps say so,  *)
(* and under them handles, inodes and names stay accounted for, however    *)
(* the calls interleave.                                                   *)
(***************************************************************************)
EXTENDS FineLocks, FiniteSetTheorems, TLAPS

OpenSteps == {"open_existing", "create", "add_entry", "delete", "add_handle"}
IoSteps == {"inode_lock", "writing", "reading", "read_done"}
CopySteps == {"aux_lock", "handle_lock", "inode_lock", "reading", "read_done", "fwrite",
              "close"}

\* Which steps a call goes through, and which of its variables are set there.
Shaped(c) ==
    /\ \/ c.op = "none" /\ c.at = "idle"
       \/ c.op = "open" /\ c.at \in OpenSteps
       \/ c.op = "close" /\ c.at = "close"
       \/ c.op = "write" /\ c.at \in {"handle_lock", "inode_lock", "writing"}
       \/ c.op = "read" /\ c.at \in {"handle_lock", "inode_lock", "reading", "read_done"}
       \/ c.op = "copy" /\ c.at \in OpenSteps \cup CopySteps
    /\ c.handle = -1 <=> c.at \in OpenSteps \cup {"idle"}
    /\ c.at \in OpenSteps \cup IoSteps \cup {"fwrite"} => c.inum \in Inumber
    /\ c.at \in {"create", "add_entry", "delete"} => c.inum # ROOT_DIR_INUM

CallsShaped == \A t \in Thread : Shaped(call[t])

Typed == TypeOK /\ CallsShaped

\* A handle is locked by the one call that reads or writes through it; an inode
\* by the one that writes to it, or by those that read it.
LocksHeld ==
    /\ \A h \in Handle, t \in Thread : open_file_entries_rw_locks[h] = t
            <=> call[t].at \in IoSteps /\ call[t].handle = h
    /\ \A i \in Inumber, t \in Thread :
            /\ inode_rw_locks[i].writer = t <=> call[t].at = "writing" /\ call[t].inum = i
            /\ t \in inode_rw_locks[i].readers
                    <=> call[t].at = "reading" /\ call[t].inum = i
    /\ \A i \in Inumber : inode_rw_locks[i].writer # NoThread
                                => inode_rw_locks[i].readers = {}

\* The copy that has the buffer is the one with the mutex, and what it has read
\* into it stays.
HoldsBuffer(c) ==
    c.op = "copy" /\ c.at \in {"handle_lock", "inode_lock", "reading", "read_done", "fwrite"}
BufferHeld ==
    /\ \A t \in Thread : aux_buffer_mtx = t <=> HoldsBuffer(call[t])
    /\ \A t \in Thread :
            call[t].op = "copy" /\ call[t].at \in {"reading", "read_done", "fwrite"}
                => aux_buffer = call[t].inum

\* The handle a call will close or drop.
Held(c) == IF c.op \in {"close", "copy"} THEN c.handle ELSE -1

\* A TAKEN handle is in one hand.
HandlesHeld ==
    /\ Handle \ free_open_file_entries = given \cup InHand \cup dropped
    /\ given \cap dropped = {} /\ InHand \cap (given \cup dropped) = {}
    /\ \A t, u \in Thread : Held(call[t]) = Held(call[u]) /\ Held(call[t]) # -1 => t = u

\* The directory names the files of the handles, and those about to get one.
Named(i) == \E s \in Entries : root_dir[s].d_inumber = i
StillNamed(i) == \E s \in Entries' : root_dir'[s].d_inumber = i
HandlesNamed ==
    /\ \A h \in Handle \ free_open_file_entries : Named(open_file_table[h].of_inumber)
    /\ \A t \in Thread : call[t].at \in {"open_existing", "add_handle"} => Named(call[t].inum)

\* A call that has locked its handle has it as it was; one that has not knows
\* the file of its handle, unless a close came first.
UsedIn(c, free, table) ==
    /\ c.at \in IoSteps =>
            /\ c.handle \notin free
            /\ table[c.handle].of_inumber = c.inum
            /\ c.meant \in {-1, c.inum}
    /\ c.at \in {"writing", "reading", "read_done"} => table[c.handle].of_offset = c.offset
    /\ c.at \in {"aux_lock", "handle_lock"} /\ c.meant # -1 =>
            c.handle \notin free /\ table[c.handle].of_inumber = c.meant
HandlesUsed == \A t \in Thread : UsedIn(call[t], free_open_file_entries, open_file_table)

\* The directory fills from its first entry on.
EntriesPacked == \A s \in FreeSlots : \A r \in Slot : r >= s => r \in FreeSlots

\* An inode that is not FREE has an entry or is with a call that creates it,
\* no inode has two of them, and both lead to files.
InodesOwned ==
    /\ \A s \in Entries :
            /\ root_dir[s].d_inumber \in Inumber \ (freeinode_ts \cup {ROOT_DIR_INUM})
            /\ inode_table[root_dir[s].d_inumber].i_node_type = "T_FILE"
            /\ \A r \in Entries : root_dir[r].d_inumber = root_dir[s].d_inumber => r = s
            /\ \A t \in Creating : call[t].inum # root_dir[s].d_inumber
    /\ \A t \in Creating :
            /\ call[t].inum \in Inumber \ (freeinode_ts \cup {ROOT_DIR_INUM})
            /\ inode_table[call[t].inum].i_node_type = "T_FILE"
            /\ \A u \in Creating : call[u].inum = call[t].inum => u = t
    /\ \A i \in Inumber \ (freeinode_ts \cup {ROOT_DIR_INUM}) :
            Named(i) \/ \E t \in Creating : call[t].inum = i

LocksInv == /\ Typed /\ LocksHeld /\ BufferHeld /\ HandlesHeld /\ HandlesNamed
            /\ HandlesUsed /\ EntriesPacked /\ InodesOwned

\* No call but that of t moves.
Moves(t) == call' \in [Thread -> Call] /\ \A u \in Thread \ {t} : call'[u] = call[u]

\* No call but that of t gets to another step, inode or handle.
Keeps(t) ==
    \A u \in Thread \ {t} :
        /\ call'[u].op = call[u].op /\ call'[u].at = call[u].at
        /\ call'[u].inum = call[u].inum /\ call'[u].handle = call[u].handle

\* The steps outside the lock of a handle, and those within it.
OpenStep(t) ==
    \/ \E op \in {"open", "copy"}, n \in Name, flags \in SUBSET FlagNames :
            open_lookup(t, op, n, flags)
    \/ open_existing(t) \/ inode_create(t) \/ add_dir_entry(t) \/ inode_delete(t)
    \/ add_to_open_file_table(t)
CloseStep(t) == (\E h \in Handle : close_begin(t, h)) \/ tfs_close(t)
CopyStep(t) == copy_lock(t) \/ copy_fwrite(t)
BeginIoStep(t) == \E h \in Handle, op \in {"write", "read"} : begin_io(t, op, h)
IoStep(t) ==
    \/ lock_handle(t) \/ write_begin(t) \/ write_end(t) \/ write_fails(t)
    \/ read_begin(t) \/ read_end(t) \/ read_past_end(t) \/ read_done(t)
Step(t) == OpenStep(t) \/ CloseStep(t) \/ CopyStep(t) \/ BeginIoStep(t) \/ IoStep(t)

-----------------------------------------------------------------------------
(* What each step does, pointwise *)

LEMMA IdleTyped == Idle \in Call /\ Shaped(Idle) /\ Idle.at = "idle" /\ Idle.op = "none"
                   /\ Idle.handle = -1 /\ Idle.meant = -1
  BY LockAssumption DEF Idle, Call, Steps, Shaped, OpenSteps, IoSteps

LEMMA Fields ==
  ASSUME NEW c \in Call
  PROVE  /\ c.op \in {"none", "open", "close", "write", "read", "copy"}
         /\ c.at \in Steps /\ c.name \in Name \cup {NoName} /\ c.flags \in SUBSET FlagNames
         /\ c.inum \in Inumber \cup {-1} /\ c.offset \in 0 .. MAX_FILE_SIZE
         /\ c.end \in 0 .. MAX_FILE_SIZE /\ c.handle \in Handle \cup {-1}
         /\ c.meant \in Inumber \cup {-1}
  BY DEF Call

LEMMA CallTyped ==
  ASSUME Typed, NEW t \in Thread
  PROVE  /\ call[t] \in Call /\ Shaped(call[t])
         /\ call[t].at \in OpenSteps \cup IoSteps \cup {"fwrite"} => call[t].inum \in Inumber
         /\ call[t].at \notin OpenSteps \cup {"idle"} => call[t].handle \in Handle
         /\ call[t].at \in OpenSteps \cup {"idle"} => call[t].handle = -1
<1>1. call[t] \in Call /\ Shaped(call[t])
  BY DEF Typed, TypeOK, CallsShaped
<1> QED BY <1>1 DEF Call, Shaped

LEMMA Goes ==
  ASSUME Typed, NEW t \in Thread, NEW c \in Call, Shaped(c), call' = [call EXCEPT ![t] = c]
  PROVE  Moves(t) /\ call'[t] = c /\ CallsShaped'
<1>1. Moves(t) /\ call'[t] = c
  BY DEF Moves, Typed, TypeOK
<1>2. \A u \in Thread : Shaped(call'[u])
  BY <1>1 DEF Moves, Typed, CallsShaped
<1> QED BY <1>1, <1>2 DEF CallsShaped, Shaped

LEMMA Returns ==
  ASSUME Typed, NEW t \in Thread, Return(t)
  PROVE  Moves(t) /\ call'[t] = Idle /\ CallsShaped'
  BY IdleTyped, Goes DEF Return

LEMMA Begins ==
  ASSUME Typed, NEW t \in Thread, NEW c \in Call, Shaped(c), Begin(t, c)
  PROVE  /\ Moves(t) /\ call'[t] = c /\ CallsShaped' /\ call[t].at = "idle"
         /\ calls' \in [Thread -> Nat] /\ \A u \in Thread : calls'[u] <= MaxCalls[u]
<1> USE DEF Typed
<1>1. Moves(t) /\ call'[t] = c /\ CallsShaped' /\ call[t].at = "idle"
  BY Goes DEF Begin, At
<1>2. MaxCalls[t] \in Nat /\ calls[t] \in Nat /\ calls'[t] = calls[t] + 1 /\ calls[t] < MaxCalls[t]
  BY LockAssumption DEF TypeOK, Begin
<1>3. calls' \in [Thread -> Nat] /\ \A u \in Thread \ {t} : calls'[u] = calls[u]
  BY <1>2 DEF TypeOK, Begin
<1> QED BY <1>1, <1>2, <1>3 DEF TypeOK

LEMMA OpenLookupDoes ==
  ASSUME Typed, NEW t \in Thread, NEW op \in {"open", "copy"}, NEW n \in Name,
         NEW flags \in SUBSET FlagNames, open_lookup(t, op, n, flags)
  PROVE  /\ Typed' /\ Moves(t) /\ call[t].at = "idle"
         /\ call'[t].op = op
         /\ \/ /\ call'[t].at = "open_existing"
               /\ \E s \in Slot \ FreeSlots : root_dir[s].d_inumber = call'[t].inum
            \/ call'[t].at = "create"
         /\ UNCHANGED <<inodeVars, root_dir, handleVars, lockVars, auxVars, given, dropped>>
<1> USE DEF Typed
<1>1. PICK c \in Call : /\ Begin(t, c) /\ Shaped(c) /\ c.op = op
                        /\ \/ /\ c.at = "open_existing"
                              /\ \E s \in Slot \ FreeSlots : root_dir[s].d_inumber = c.inum
                           \/ c.at = "create"
  <2>1. ASSUME NEW s \in Slot, IsFirst(s, Found(n)),
               Begin(t, [Idle EXCEPT !.op = op, !.at = "open_existing", !.name = n,
                            !.flags = flags, !.inum = root_dir[s].d_inumber])
        PROVE  \E c \in Call : /\ Begin(t, c) /\ Shaped(c) /\ c.op = op
                               /\ c.at = "open_existing"
                               /\ \E r \in Slot \ FreeSlots : root_dir[r].d_inumber = c.inum
    <3> DEFINE c == [Idle EXCEPT !.op = op, !.at = "open_existing", !.name = n,
                            !.flags = flags, !.inum = root_dir[s].d_inumber]
    <3>1. root_dir[s].d_inumber \in Inumber /\ s \in Slot \ FreeSlots
      BY <2>1 DEF IsFirst, Found, FreeSlots, TypeOK
    <3>2. c \in Call /\ c.at = "open_existing" /\ c.op = op /\ c.handle = -1
          /\ c.inum = root_dir[s].d_inumber
      BY <3>1, IdleTyped DEF Idle, Call, Steps
    <3>3. Begin(t, c)
      BY <2>1
    <3> HIDE DEF c
    <3>4. Shaped(c)
      BY <3>1, <3>2 DEF Shaped, OpenSteps
    <3> QED BY <3>1, <3>2, <3>3, <3>4
  <2>2. ASSUME Begin(t, [Idle EXCEPT !.op = op, !.at = "create", !.name = n,
                            !.flags = flags, !.inum = ROOT_DIR_INUM + 1])
        PROVE  \E c \in Call : /\ Begin(t, c) /\ Shaped(c) /\ c.op = op /\ c.at = "create"
    <3> DEFINE c == [Idle EXCEPT !.op = op, !.at = "create", !.name = n,
                            !.flags = flags, !.inum = ROOT_DIR_INUM + 1]
    <3>1. 1 \in Inumber /\ ROOT_DIR_INUM + 1 = 1 /\ 1 # ROOT_DIR_INUM
      BY LockAssumption DEF Inumber, ROOT_DIR_INUM
    <3>2. c \in Call /\ c.at = "create" /\ c.op = op /\ c.handle = -1 /\ c.inum = 1
      BY <3>1, IdleTyped DEF Idle, Call, Steps
    <3>3. Begin(t, c)
      BY <2>2
    <3> HIDE DEF c
    <3>4. Shaped(c)
      BY <3>1, <3>2 DEF Shaped, OpenSteps
    <3> QED BY <3>2, <3>3, <3>4
  <2> QED BY <2>1, <2>2 DEF open_lookup
<1>2. Moves(t) /\ call'[t] = c /\ CallsShaped' /\ call[t].at = "idle"
      /\ calls' \in [Thread -> Nat] /\ \A u \in Thread : calls'[u] <= MaxCalls[u]
  BY <1>1, Begins
<1>4. UNCHANGED <<inodeVars, root_dir, handleVars, lockVars, auxVars, given, dropped>>
  BY DEF open_lookup
<1>3. TypeOK'
  BY <1>2, <1>4 DEF TypeOK, Moves, inodeVars, handleVars, lockVars, auxVars
<1> QED BY <1>1, <1>2, <1>3, <1>4

LEMMA OpenExistingDoes ==
  ASSUME Typed, NEW t \in Thread, open_existing(t)
  PROVE  /\ Typed' /\ Moves(t)
         /\ call[t].at = "open_existing" /\ call'[t].at = "add_handle"
         /\ call'[t].op = call[t].op /\ call'[t].inum = call[t].inum
         /\ \A i \in Inumber : inode_table'[i].i_node_type = inode_table[i].i_node_type
         /\ UNCHANGED <<freeinode_ts, root_dir, handleVars, lockVars, auxVars, callerVars>>
<1> USE DEF Typed
<1>0. UNCHANGED <<freeinode_ts, root_dir, handleVars, lockVars, auxVars, callerVars>>
  BY DEF open_existing
<1>1. /\ call[t] \in Call /\ call[t].inum \in Inumber /\ call[t].at = "open_existing"
      /\ Shaped(call[t])
  BY CallTyped DEF open_existing, At, OpenSteps
<1> DEFINE size == IF "TFS_O_TRUNC" \in call[t].flags THEN 0 ELSE inode_table[call[t].inum].i_size
           offset == IF "TFS_O_APPEND" \in call[t].flags THEN size ELSE 0
           c == [call[t] EXCEPT !.at = "add_handle", !.offset = offset]
<1>2. size \in 0 .. MAX_FILE_SIZE /\ offset \in 0 .. MAX_FILE_SIZE
  BY <1>1, LockAssumption DEF TypeOK
<1>3. /\ call' = [call EXCEPT ![t].at = "add_handle", ![t].offset = offset]
      /\ inode_table' = [inode_table EXCEPT ![call[t].inum].i_size = size]
  BY DEF open_existing
<1> HIDE DEF size, offset
<1>4. c \in Call /\ c.at = "add_handle" /\ c.op = call[t].op /\ c.inum = call[t].inum
      /\ c.handle = call[t].handle /\ call' = [call EXCEPT ![t] = c]
  BY <1>1, <1>2, <1>3 DEF Call, Steps
<1> HIDE DEF c
<1>5. Shaped(c)
  BY <1>1, <1>4 DEF Shaped, OpenSteps
<1>6. Moves(t) /\ call'[t] = c /\ CallsShaped'
  BY <1>4, <1>5, Goes
<1>7. inode_table' \in [Inumber -> [i_node_type : {"T_DIRECTORY", "T_FILE", "T_PREV_USED"},
                                    i_size : 0 .. MAX_FILE_SIZE]]
      /\ \A i \in Inumber : inode_table'[i].i_node_type = inode_table[i].i_node_type
  BY <1>1, <1>2, <1>3 DEF TypeOK
<1>8. TypeOK'
  BY <1>6, <1>7 DEF open_existing, TypeOK, Moves, handleVars, lockVars, auxVars, callerVars
<1> QED BY <1>0, <1>1, <1>4, <1>6, <1>7, <1>8

LEMMA InodeCreateDoes ==
  ASSUME Typed, NEW t \in Thread, inode_create(t)
  PROVE  /\ Typed' /\ Moves(t) /\ call[t].at = "create"
         /\ \/ /\ call[t].inum \in freeinode_ts
               /\ call'[t].at = "add_entry"
               /\ call'[t].op = call[t].op /\ call'[t].inum = call[t].inum
               /\ freeinode_ts' = freeinode_ts \ {call[t].inum}
               /\ \A i \in Inumber : inode_table'[i].i_node_type
                        = IF i = call[t].inum THEN "T_FILE" ELSE inode_table[i].i_node_type
            \/ /\ UNCHANGED inodeVars
               /\ \/ call'[t].at = "create" /\ call'[t].op = call[t].op
                  \/ call'[t] = Idle
         /\ UNCHANGED <<root_dir, handleVars, lockVars, auxVars, callerVars>>
<1> USE DEF Typed
<1>0. UNCHANGED <<root_dir, handleVars, lockVars, auxVars, callerVars>>
  BY DEF inode_create
<1> DEFINE i == call[t].inum
<1>1. /\ call[t] \in Call /\ i \in Inumber /\ call[t].at = "create"
      /\ Shaped(call[t]) /\ i # ROOT_DIR_INUM
  BY CallTyped DEF inode_create, At, OpenSteps, Shaped
<1>2. CASE /\ i \in freeinode_ts
           /\ freeinode_ts' = freeinode_ts \ {i}
           /\ inode_table' = [inode_table EXCEPT
                                    ![i] = [i_node_type |-> "T_FILE", i_size |-> 0]]
           /\ Goto(t, "add_entry")
  <2> DEFINE c == [call[t] EXCEPT !.at = "add_entry"]
  <2>1. c \in Call /\ c.at = "add_entry" /\ c.op = call[t].op /\ c.inum = i
        /\ c.handle = call[t].handle /\ call' = [call EXCEPT ![t] = c]
    BY <1>1, <1>2 DEF Call, Steps, Goto
  <2> HIDE DEF c
  <2>2. Shaped(c)
    BY <1>1, <2>1 DEF Shaped, OpenSteps
  <2>3. Moves(t) /\ call'[t] = c /\ CallsShaped'
    BY <2>1, <2>2, Goes
  <2>4. /\ inode_table' \in [Inumber -> [i_node_type : {"T_DIRECTORY", "T_FILE", "T_PREV_USED"},
                                          i_size : 0 .. MAX_FILE_SIZE]]
        /\ \A j \in Inumber : inode_table'[j].i_node_type
                        = IF j = i THEN "T_FILE" ELSE inode_table[j].i_node_type
    BY <1>1, <1>2, LockAssumption DEF TypeOK
  <2>5. TypeOK'
    BY <1>2, <2>3, <2>4 DEF inode_create, TypeOK, Moves, handleVars, lockVars, auxVars,
                            callerVars
  <2> QED BY <1>0, <1>1, <1>2, <2>1, <2>3, <2>4, <2>5
<1>3. CASE /\ i \notin freeinode_ts
           /\ IF i + 1 \in Inumber
              THEN call' = [call EXCEPT ![t].inum = i + 1]
              ELSE Return(t)
           /\ UNCHANGED inodeVars
  <2>1. CASE i + 1 \in Inumber
    <3> DEFINE c == [call[t] EXCEPT !.inum = i + 1]
    <3>1. c \in Call /\ c.at = "create" /\ c.op = call[t].op /\ c.inum = i + 1
          /\ c.handle = call[t].handle /\ call' = [call EXCEPT ![t] = c]
      BY <1>1, <1>3, <2>1 DEF Call, Steps
    <3> HIDE DEF c
    <3>2. i + 1 # ROOT_DIR_INUM
      BY <1>1, LockAssumption DEF Inumber, ROOT_DIR_INUM
    <3>3. Shaped(c)
      BY <1>1, <2>1, <3>1, <3>2 DEF Shaped, OpenSteps
    <3>4. Moves(t) /\ call'[t] = c /\ CallsShaped'
      BY <3>1, <3>3, Goes
    <3>5. TypeOK'
      BY <1>3, <3>4 DEF inode_create, TypeOK, Moves, inodeVars, handleVars, lockVars,
                        auxVars, callerVars
    <3> QED BY <1>0, <1>1, <1>3, <3>1, <3>4, <3>5
  <2>2. CASE i + 1 \notin Inumber
    <3>1. Moves(t) /\ call'[t] = Idle /\ CallsShaped'
      BY <1>3, <2>2, Returns
    <3>2. TypeOK'
      BY <1>3, <3>1 DEF inode_create, TypeOK, Moves, inodeVars, handleVars, lockVars,
                        auxVars, callerVars
    <3> QED BY <1>0, <1>1, <1>3, <3>1, <3>2
  <2> QED BY <1>0, <2>1, <2>2
<1> QED BY <1>0, <1>2, <1>3 DEF inode_create

LEMMA AddDirEntryDoes ==
  ASSUME Typed, NEW t \in Thread, add_dir_entry(t)
  PROVE  /\ Typed' /\ Moves(t) /\ call[t].at = "add_entry"
         /\ call'[t].op = call[t].op /\ call'[t].inum = call[t].inum
         /\ \/ /\ call'[t].at = "add_handle"
               /\ \E s \in Slot :
                    /\ IsFirst(s, FreeSlots)
                    /\ root_dir'[s] = [d_name |-> call[t].name, d_inumber |-> call[t].inum]
                    /\ \A r \in Slot \ {s} : root_dir'[r] = root_dir[r]
            \/ /\ call'[t].at = "delete"
               /\ UNCHANGED root_dir
         /\ UNCHANGED <<inodeVars, handleVars, lockVars, auxVars, callerVars>>
<1> USE DEF Typed
<1>0. UNCHANGED <<inodeVars, handleVars, lockVars, auxVars, callerVars>>
  BY DEF add_dir_entry
<1>1. /\ call[t] \in Call /\ call[t].inum \in Inumber /\ call[t].at = "add_entry"
      /\ Shaped(call[t]) /\ call[t].inum # ROOT_DIR_INUM /\ call[t].name \in Name \cup {NoName}
  BY CallTyped, Fields DEF add_dir_entry, At, OpenSteps, Shaped
<1>2. ASSUME NEW step \in {"add_handle", "delete"}, Goto(t, step)
      PROVE  /\ Moves(t) /\ CallsShaped' /\ call'[t].at = step /\ call'[t].op = call[t].op
             /\ call'[t].inum = call[t].inum
  <2> DEFINE c == [call[t] EXCEPT !.at = step]
  <2>1. c \in Call /\ c.at = step /\ c.op = call[t].op /\ c.inum = call[t].inum
        /\ c.handle = call[t].handle /\ call' = [call EXCEPT ![t] = c]
    BY <1>1, <1>2 DEF Call, Steps, Goto
  <2> HIDE DEF c
  <2>2. Shaped(c)
    BY <1>1, <2>1 DEF Shaped, OpenSteps
  <2> QED BY <1>0, <2>1, <2>2, Goes
<1>3. ASSUME NEW s \in Slot, IsFirst(s, FreeSlots), Goto(t, "add_handle"),
             root_dir' = [root_dir EXCEPT
                    ![s] = [d_name |-> call[t].name, d_inumber |-> call[t].inum]]
      PROVE  /\ root_dir' \in [Slot -> [d_name : Name \cup {NoName}, d_inumber : Inumber \cup {-1}]]
             /\ root_dir'[s] = [d_name |-> call[t].name, d_inumber |-> call[t].inum]
             /\ \A r \in Slot \ {s} : root_dir'[r] = root_dir[r]
  BY <1>1, <1>3 DEF TypeOK
<1>4. CASE \E s \in Slot :
            /\ IsFirst(s, FreeSlots)
            /\ root_dir' = [root_dir EXCEPT
                    ![s] = [d_name |-> call[t].name, d_inumber |-> call[t].inum]]
            /\ Goto(t, "add_handle")
  <2>1. TypeOK'
    BY <1>2, <1>3, <1>4 DEF add_dir_entry, TypeOK, Moves, inodeVars, handleVars, lockVars,
                            auxVars, callerVars
  <2> QED BY <1>0, <1>1, <1>2, <1>3, <1>4, <2>1
<1>5. CASE /\ FreeSlots = {}
           /\ Goto(t, "delete")
           /\ UNCHANGED root_dir
  <2>1. TypeOK'
    BY <1>2, <1>5 DEF add_dir_entry, TypeOK, Moves, inodeVars, handleVars, lockVars,
                      auxVars, callerVars
  <2> QED BY <1>0, <1>1, <1>2, <1>5, <2>1
<1> QED BY <1>0, <1>4, <1>5 DEF add_dir_entry

LEMMA InodeDeleteDoes ==
  ASSUME Typed, NEW t \in Thread, inode_delete(t)
  PROVE  /\ Typed' /\ Moves(t) /\ call[t].at = "delete" /\ call'[t] = Idle
         /\ freeinode_ts' = freeinode_ts \cup {call[t].inum}
         /\ \A i \in Inumber : i # call[t].inum
                => inode_table'[i].i_node_type = inode_table[i].i_node_type
         /\ UNCHANGED <<root_dir, handleVars, lockVars, auxVars, callerVars>>
<1> USE DEF Typed
<1>0. UNCHANGED <<root_dir, handleVars, lockVars, auxVars, callerVars>>
  BY DEF inode_delete
<1>1. /\ call[t].inum \in Inumber /\ call[t].at = "delete" /\ call[t].inum # ROOT_DIR_INUM
  BY CallTyped DEF inode_delete, At, OpenSteps, Shaped
<1>2. Moves(t) /\ call'[t] = Idle /\ CallsShaped'
  BY Returns DEF inode_delete
<1>3. /\ inode_table' \in [Inumber -> [i_node_type : {"T_DIRECTORY", "T_FILE", "T_PREV_USED"},
                                        i_size : 0 .. MAX_FILE_SIZE]]
      /\ \A i \in Inumber : i # call[t].inum
                => inode_table'[i].i_node_type = inode_table[i].i_node_type
  BY <1>1 DEF inode_delete, TypeOK
<1>4. TypeOK'
  BY <1>1, <1>2, <1>3 DEF inode_delete, TypeOK, Moves, handleVars, lockVars, auxVars, callerVars
<1> QED BY <1>0, <1>1, <1>2, <1>3, <1>4 DEF inode_delete

LEMMA AddHandleDoes ==
  ASSUME Typed, NEW t \in Thread, add_to_open_file_table(t)
  PROVE  /\ Typed' /\ Moves(t) /\ call[t].at = "add_handle" /\ call[t].inum \in Inumber
         /\ call[t].op \in {"open", "copy"}
         /\ \/ \E h \in free_open_file_entries :
                  /\ free_open_file_entries' = free_open_file_entries \ {h}
                  /\ open_file_table'[h].of_inumber = call[t].inum
                  /\ \A g \in Handle \ {h} : open_file_table'[g] = open_file_table[g]
                  /\ \/ call'[t] = Idle /\ given' = given \cup {h} /\ UNCHANGED dropped
                     \/ call'[t] = Idle /\ dropped' = dropped \cup {h} /\ UNCHANGED given
                     \/ /\ UNCHANGED <<given, dropped>>
                        /\ call'[t].op = "copy" /\ call'[t].at = "aux_lock"
                        /\ call'[t].handle = h /\ call'[t].meant = call[t].inum
            \/ call'[t] = Idle /\ UNCHANGED <<handleVars, given, dropped>>
         /\ UNCHANGED <<inodeVars, root_dir, lockVars, auxVars, calls>>
<1> USE DEF Typed
<1>0. UNCHANGED <<inodeVars, root_dir, lockVars, auxVars, calls>>
  BY DEF add_to_open_file_table
<1>1. /\ call[t] \in Call /\ call[t].inum \in Inumber /\ call[t].at = "add_handle"
      /\ Shaped(call[t]) /\ call[t].offset \in 0 .. MAX_FILE_SIZE
      /\ call[t].op \in {"open", "copy"}
  BY CallTyped, Fields DEF add_to_open_file_table, At, OpenSteps, Shaped
<1>2. ASSUME Return(t) PROVE Moves(t) /\ call'[t] = Idle /\ CallsShaped'
  BY <1>2, Returns
<1>3. ASSUME NEW h \in Handle,
             call' = [call EXCEPT ![t].at = "aux_lock", ![t].handle = h,
                                          ![t].meant = call[t].inum],
             call[t].op = "copy"
      PROVE  /\ Moves(t) /\ CallsShaped'
             /\ call'[t].op = "copy" /\ call'[t].at = "aux_lock"
             /\ call'[t].handle = h /\ call'[t].meant = call[t].inum
  <2> DEFINE c == [call[t] EXCEPT !.at = "aux_lock", !.handle = h, !.meant = call[t].inum]
  <2>1. c \in Call /\ c.at = "aux_lock" /\ c.op = "copy" /\ c.inum = call[t].inum
        /\ c.handle = h /\ c.meant = call[t].inum /\ call' = [call EXCEPT ![t] = c]
    BY <1>1, <1>3 DEF Call, Steps
  <2> HIDE DEF c
  <2>2. h # -1
    BY DEF Handle
  <2>3. Shaped(c)
    BY <1>1, <2>1, <2>2 DEF Shaped, OpenSteps, CopySteps, IoSteps
  <2> QED BY <1>0, <2>1, <2>3, Goes
<1>4. ASSUME NEW h \in Handle,
             IsFirst(h, free_open_file_entries),
             free_open_file_entries' = free_open_file_entries \ {h},
             open_file_table' = [open_file_table EXCEPT
                    ![h] = [of_inumber |-> call[t].inum, of_offset |-> call[t].offset]]
      PROVE  /\ open_file_table' \in [Handle -> [of_inumber : Inumber,
                                                  of_offset : 0 .. MAX_FILE_SIZE]]
             /\ free_open_file_entries' \subseteq Handle
             /\ h \in free_open_file_entries
             /\ open_file_table'[h].of_inumber = call[t].inum
             /\ \A g \in Handle \ {h} : open_file_table'[g] = open_file_table[g]
  BY <1>1, <1>4 DEF TypeOK, IsFirst
<1>5. UNCHANGED <<inodeVars, root_dir, lockVars, auxVars, calls>>
  BY DEF add_to_open_file_table
<1>6. CASE free_open_file_entries = {} /\ Return(t) /\ UNCHANGED <<handleVars, given, dropped>>
  <2>1. TypeOK'
    BY <1>2, <1>5, <1>6 DEF TypeOK, Moves, inodeVars, handleVars, lockVars, auxVars
  <2> QED BY <1>0, <1>1, <1>2, <1>6, <2>1
<1>7. ASSUME NEW h \in Handle,
             IsFirst(h, free_open_file_entries),
             free_open_file_entries' = free_open_file_entries \ {h},
             open_file_table' = [open_file_table EXCEPT
                    ![h] = [of_inumber |-> call[t].inum, of_offset |-> call[t].offset]],
             \/ Return(t) /\ given' = given \cup {h} /\ UNCHANGED dropped
             \/ Return(t) /\ dropped' = dropped \cup {h} /\ UNCHANGED given
             \/ /\ call[t].op = "copy"
                /\ call' = [call EXCEPT ![t].at = "aux_lock", ![t].handle = h,
                                          ![t].meant = call[t].inum]
                /\ UNCHANGED <<given, dropped>>
      PROVE  /\ TypeOK' /\ CallsShaped' /\ Moves(t)
             /\ \/ call'[t] = Idle /\ given' = given \cup {h} /\ UNCHANGED dropped
                \/ call'[t] = Idle /\ dropped' = dropped \cup {h} /\ UNCHANGED given
                \/ /\ UNCHANGED <<given, dropped>>
                   /\ call'[t].op = "copy" /\ call'[t].at = "aux_lock"
                   /\ call'[t].handle = h /\ call'[t].meant = call[t].inum
  <2>1. /\ CallsShaped' /\ Moves(t)
        /\ \/ call'[t] = Idle /\ given' = given \cup {h} /\ UNCHANGED dropped
           \/ call'[t] = Idle /\ dropped' = dropped \cup {h} /\ UNCHANGED given
           \/ /\ UNCHANGED <<given, dropped>>
              /\ call'[t].op = "copy" /\ call'[t].at = "aux_lock"
              /\ call'[t].handle = h /\ call'[t].meant = call[t].inum
    BY <1>2, <1>3, <1>7
  <2>2. given' \subseteq Handle /\ dropped' \subseteq Handle
    BY <2>1 DEF TypeOK
  <2>3. /\ open_file_table' \in [Handle -> [of_inumber : Inumber,
                                             of_offset : 0 .. MAX_FILE_SIZE]]
        /\ free_open_file_entries' \subseteq Handle
    BY <1>4, <1>7
  <2>4. TypeOK'
    BY <1>5, <2>1, <2>2, <2>3 DEF TypeOK, Moves, inodeVars, lockVars, auxVars
  <2> QED BY <1>0, <2>1, <2>4
<1>8. CASE \E h \in Handle :
            /\ IsFirst(h, free_open_file_entries)
            /\ free_open_file_entries' = free_open_file_entries \ {h}
            /\ open_file_table' = [open_file_table EXCEPT
                    ![h] = [of_inumber |-> call[t].inum, of_offset |-> call[t].offset]]
            /\ \/ Return(t) /\ given' = given \cup {h} /\ UNCHANGED dropped
               \/ Return(t) /\ dropped' = dropped \cup {h} /\ UNCHANGED given
               \/ /\ call[t].op = "copy"
                  /\ call' = [call EXCEPT ![t].at = "aux_lock", ![t].handle = h,
                                          ![t].meant = call[t].inum]
                  /\ UNCHANGED <<given, dropped>>
  BY <1>0, <1>1, <1>4, <1>7, <1>8
<1> QED BY <1>0, <1>6, <1>8 DEF add_to_open_file_table

LEMMA CloseBeginDoes ==
  ASSUME Typed, NEW t \in Thread, NEW h \in Handle, close_begin(t, h)
  PROVE  /\ Typed' /\ Moves(t) /\ call[t].at = "idle"
         /\ h \in given /\ given' = given \ {h}
         /\ call'[t].op = "close" /\ call'[t].at = "close" /\ call'[t].handle = h
         /\ UNCHANGED <<inodeVars, root_dir, handleVars, lockVars, auxVars, dropped>>
<1> USE DEF Typed
<1>0. UNCHANGED <<inodeVars, root_dir, handleVars, lockVars, auxVars, dropped>>
  BY DEF close_begin
<1> DEFINE c == [Idle EXCEPT !.op = "close", !.at = "close", !.handle = h]
<1>1. c \in Call /\ c.at = "close" /\ c.op = "close" /\ c.handle = h
  BY IdleTyped DEF Idle, Call, Steps
<1>2. Begin(t, c) /\ h \in given /\ given' = given \ {h}
  BY DEF close_begin
<1> HIDE DEF c
<1>3. h # -1
  BY DEF Handle
<1>4. Shaped(c)
  BY <1>1, <1>3 DEF Shaped, OpenSteps, IoSteps
<1>5. /\ Moves(t) /\ call'[t] = c /\ CallsShaped' /\ call[t].at = "idle"
      /\ calls' \in [Thread -> Nat] /\ \A u \in Thread : calls'[u] <= MaxCalls[u]
  BY <1>1, <1>2, <1>4, Begins
<1>6. TypeOK'
  BY <1>0, <1>2, <1>5 DEF TypeOK, Moves, inodeVars, handleVars, lockVars, auxVars
<1> QED BY <1>0, <1>1, <1>2, <1>5, <1>6

\* A close reaches into the calls that are about to use the handle.
LEMMA TfsCloseDoes ==
  ASSUME Typed, NEW t \in Thread, tfs_close(t)
  PROVE  /\ Typed' /\ call' \in [Thread -> Call]
         /\ call[t].at = "close" /\ call[t].handle \in Handle /\ call'[t] = Idle
         /\ open_file_entries_rw_locks[call[t].handle] = NoThread
         /\ free_open_file_entries' = free_open_file_entries \cup {call[t].handle}
         /\ \A u \in Thread \ {t} :
                /\ call'[u].op = call[u].op /\ call'[u].at = call[u].at
                /\ call'[u].inum = call[u].inum /\ call'[u].handle = call[u].handle
                /\ call'[u].offset = call[u].offset /\ call'[u].end = call[u].end
                /\ call'[u].meant
                    = IF call[u].at = "handle_lock" /\ call[u].handle = call[t].handle
                      THEN -1 ELSE call[u].meant
         /\ UNCHANGED <<inodeVars, root_dir, open_file_table, lockVars, auxVars, callerVars>>
<1> USE DEF Typed
<1> DEFINE h == call[t].handle
<1>0. UNCHANGED <<inodeVars, root_dir, open_file_table, lockVars, auxVars, callerVars>>
  BY DEF tfs_close
<1>1. call[t].at = "close" /\ h \in Handle /\ open_file_entries_rw_locks[h] = NoThread
      /\ free_open_file_entries' = free_open_file_entries \cup {h}
  BY CallTyped DEF tfs_close, At, OpenSteps
<1>2. call' = [u \in Thread |->
            IF u = t THEN Idle
            ELSE [call[u] EXCEPT !.meant = IF u \in ClosedUnder(h) THEN -1 ELSE @]]
  BY DEF tfs_close
<1> HIDE DEF h
<1>3. ASSUME NEW u \in Thread \ {t}
      PROVE  /\ call'[u] \in Call
             /\ call'[u].op = call[u].op /\ call'[u].at = call[u].at
             /\ call'[u].inum = call[u].inum /\ call'[u].handle = call[u].handle
             /\ call'[u].offset = call[u].offset /\ call'[u].end = call[u].end
             /\ call'[u].meant = IF call[u].at = "handle_lock" /\ call[u].handle = h
                                 THEN -1 ELSE call[u].meant
  <2>1. call[u] \in Call
    BY DEF TypeOK
  <2>2. call'[u] = [call[u] EXCEPT !.meant = IF u \in ClosedUnder(h) THEN -1 ELSE @]
    BY <1>2
  <2>3. u \in ClosedUnder(h) <=> call[u].at = "handle_lock" /\ call[u].handle = h
    BY DEF ClosedUnder, At
  <2> QED BY <2>1, <2>2, <2>3 DEF Call
<1>4. call' \in [Thread -> Call] /\ call'[t] = Idle
  BY <1>2, <1>3, IdleTyped
<1>5. CallsShaped'
  <2>1. \A u \in Thread : Shaped(call'[u])
    BY <1>3, <1>4, IdleTyped DEF CallsShaped, Shaped
  <2> QED BY <2>1 DEF CallsShaped, Shaped
<1>6. TypeOK'
  BY <1>0, <1>1, <1>4 DEF TypeOK, inodeVars, lockVars, auxVars, callerVars
<1> QED BY <1>0, <1>1, <1>3, <1>4, <1>5, <1>6 DEF h

LEMMA BeginIoDoes ==
  ASSUME Typed, NEW t \in Thread, NEW h \in Handle, NEW op \in {"write", "read"},
         begin_io(t, op, h)
  PROVE  /\ Typed' /\ Moves(t) /\ call[t].at = "idle"
         /\ h \in given
         /\ call'[t].op = op /\ call'[t].at = "handle_lock" /\ call'[t].handle = h
         /\ call'[t].meant = open_file_table[h].of_inumber
         /\ UNCHANGED <<inodeVars, root_dir, handleVars, lockVars, auxVars, given, dropped>>
<1> USE DEF Typed
<1>0. UNCHANGED <<inodeVars, root_dir, handleVars, lockVars, auxVars, given, dropped>>
  BY DEF begin_io
<1> DEFINE c == [Idle EXCEPT !.op = op, !.at = "handle_lock", !.handle = h,
                    !.meant = open_file_table[h].of_inumber]
<1>1. open_file_table[h].of_inumber \in Inumber
  BY DEF TypeOK
<1>2. c \in Call /\ c.at = "handle_lock" /\ c.op = op /\ c.handle = h
      /\ c.meant = open_file_table[h].of_inumber
  BY <1>1, IdleTyped DEF Idle, Call, Steps
<1>3. Begin(t, c) /\ h \in given
  BY DEF begin_io
<1> HIDE DEF c
<1>4. h # -1
  BY DEF Handle
<1>5. Shaped(c)
  BY <1>2, <1>4 DEF Shaped, OpenSteps, IoSteps
<1>6. /\ Moves(t) /\ call'[t] = c /\ CallsShaped' /\ call[t].at = "idle"
      /\ calls' \in [Thread -> Nat] /\ \A u \in Thread : calls'[u] <= MaxCalls[u]
  BY <1>2, <1>3, <1>5, Begins
<1>7. TypeOK'
  BY <1>0, <1>6 DEF TypeOK, Moves, inodeVars, handleVars, lockVars, auxVars
<1> QED BY <1>0, <1>2, <1>3, <1>6, <1>7

LEMMA LockHandleDoes ==
  ASSUME Typed, NEW t \in Thread, lock_handle(t)
  PROVE  /\ Typed' /\ Moves(t) /\ call[t].at = "handle_lock"
         /\ call[t].handle \in Handle
         /\ open_file_entries_rw_locks[call[t].handle] = NoThread
         /\ \/ /\ call[t].handle \notin free_open_file_entries
               /\ open_file_entries_rw_locks'[call[t].handle] = t
               /\ \A h \in Handle \ {call[t].handle} :
                        open_file_entries_rw_locks'[h] = open_file_entries_rw_locks[h]
               /\ call'[t].op = call[t].op /\ call'[t].at = "inode_lock"
               /\ call'[t].inum = open_file_table[call[t].handle].of_inumber
               /\ call'[t].handle = call[t].handle /\ call'[t].meant = call[t].meant
            \/ /\ call[t].handle \in free_open_file_entries
               /\ call'[t] = Idle
               /\ UNCHANGED open_file_entries_rw_locks
         /\ UNCHANGED <<inodeVars, root_dir, handleVars, inode_rw_locks, auxVars, callerVars>>
<1> USE DEF Typed
<1> DEFINE h == call[t].handle
<1>0. UNCHANGED <<inodeVars, root_dir, handleVars, inode_rw_locks, auxVars, callerVars>>
  BY DEF lock_handle
<1>1. call[t].at = "handle_lock" /\ h \in Handle /\ open_file_entries_rw_locks[h] = NoThread
      /\ call[t] \in Call /\ Shaped(call[t])
  BY CallTyped DEF lock_handle, At, OpenSteps
<1>2. CASE /\ h \notin free_open_file_entries
           /\ open_file_entries_rw_locks' = [open_file_entries_rw_locks EXCEPT ![h] = t]
           /\ call' = [call EXCEPT ![t].at = "inode_lock",
                                     ![t].inum = open_file_table[h].of_inumber]
  <2> DEFINE c == [call[t] EXCEPT !.at = "inode_lock", !.inum = open_file_table[h].of_inumber]
  <2>1. open_file_table[h].of_inumber \in Inumber
    BY <1>1 DEF TypeOK
  <2>2. c \in Call /\ c.at = "inode_lock" /\ c.op = call[t].op /\ c.handle = call[t].handle
        /\ c.inum = open_file_table[h].of_inumber /\ c.meant = call[t].meant
        /\ call' = [call EXCEPT ![t] = c]
    BY <1>1, <1>2, <2>1 DEF Call, Steps
  <2> HIDE DEF c
  <2>3. Shaped(c)
    BY <1>1, <2>1, <2>2 DEF Shaped, OpenSteps, CopySteps, IoSteps
  <2>4. Moves(t) /\ call'[t] = c /\ CallsShaped'
    BY <2>2, <2>3, Goes
  <2>5. /\ open_file_entries_rw_locks' \in [Handle -> Thread \cup {NoThread}]
        /\ open_file_entries_rw_locks'[h] = t
        /\ \A g \in Handle \ {h} :
                        open_file_entries_rw_locks'[g] = open_file_entries_rw_locks[g]
    BY <1>1, <1>2 DEF TypeOK
  <2>6. TypeOK'
    BY <1>0, <2>4, <2>5 DEF TypeOK, Moves, inodeVars, handleVars, auxVars, callerVars
  <2> QED BY <1>0, <1>1, <1>2, <2>2, <2>4, <2>5, <2>6
<1>3. CASE /\ h \in free_open_file_entries
           /\ Return(t)
           /\ UNCHANGED open_file_entries_rw_locks
  <2>1. Moves(t) /\ call'[t] = Idle /\ CallsShaped'
    BY <1>3, Returns
  <2>2. TypeOK'
    BY <1>0, <1>3, <2>1 DEF TypeOK, Moves, inodeVars, handleVars, auxVars, callerVars
  <2> QED BY <1>0, <1>1, <1>3, <2>1, <2>2
<1> QED BY <1>2, <1>3 DEF lock_handle

\* A call within its inode_lock, writing, reading, read_done or fwrite step.
LEMMA IoCall ==
  ASSUME Typed, NEW t \in Thread, call[t].at \in IoSteps \cup {"fwrite"}
  PROVE  /\ call[t] \in Call /\ Shaped(call[t])
         /\ call[t].inum \in Inumber /\ call[t].handle \in Handle
         /\ call[t].offset \in 0 .. MAX_FILE_SIZE /\ call[t].end \in 0 .. MAX_FILE_SIZE
<1>1. call[t] \in Call
  BY DEF Typed, TypeOK
<1> QED BY <1>1, CallTyped, Fields DEF IoSteps, OpenSteps

LEMMA UnlockDoes ==
  ASSUME Typed, NEW t \in Thread, call[t].at \in IoSteps, Unlock(t)
  PROVE  /\ inode_rw_locks' \in [Inumber -> [writer : Thread \cup {NoThread},
                                             readers : SUBSET Thread]]
         /\ inode_rw_locks'[call[t].inum].writer = NoThread
         /\ inode_rw_locks'[call[t].inum].readers
                = inode_rw_locks[call[t].inum].readers \ {t}
         /\ \A i \in Inumber \ {call[t].inum} : inode_rw_locks'[i] = inode_rw_locks[i]
         /\ open_file_entries_rw_locks' \in [Handle -> Thread \cup {NoThread}]
         /\ open_file_entries_rw_locks'[call[t].handle] = NoThread
         /\ \A h \in Handle \ {call[t].handle} :
                        open_file_entries_rw_locks'[h] = open_file_entries_rw_locks[h]
<1>1. call[t].inum \in Inumber /\ call[t].handle \in Handle
  BY IoCall
<1> QED BY <1>1 DEF Unlock, Typed, TypeOK

LEMMA WriteBeginDoes ==
  ASSUME Typed, NEW t \in Thread, write_begin(t)
  PROVE  /\ Typed' /\ Moves(t) /\ call[t].at = "inode_lock" /\ call[t].op = "write"
         /\ call[t].inum \in Inumber /\ call[t].handle \in Handle
         /\ inode_rw_locks[call[t].inum] = Unlocked
         /\ inode_rw_locks'[call[t].inum].writer = t
         /\ inode_rw_locks'[call[t].inum].readers = {}
         /\ \A i \in Inumber \ {call[t].inum} : inode_rw_locks'[i] = inode_rw_locks[i]
         /\ call'[t].op = "write" /\ call'[t].at = "writing"
         /\ call'[t].inum = call[t].inum /\ call'[t].handle = call[t].handle
         /\ call'[t].meant = call[t].meant
         /\ call'[t].offset = open_file_table[call[t].handle].of_offset
         /\ UNCHANGED <<inodeVars, root_dir, handleVars, open_file_entries_rw_locks,
                        auxVars, callerVars>>
<1> USE DEF Typed
<1>0. UNCHANGED <<inodeVars, root_dir, handleVars, open_file_entries_rw_locks,
                  auxVars, callerVars>>
  BY DEF write_begin
<1>1. /\ call[t].at = "inode_lock" /\ call[t].op = "write" /\ call[t] \in Call
      /\ Shaped(call[t]) /\ call[t].inum \in Inumber /\ call[t].handle \in Handle
  BY IoCall DEF write_begin, At, IoSteps
<1> DEFINE offset == open_file_table[call[t].handle].of_offset
           c == [call[t] EXCEPT !.at = "writing", !.offset = offset]
<1>2. offset \in 0 .. MAX_FILE_SIZE
  BY <1>1 DEF TypeOK
<1>3. call' = [call EXCEPT ![t].at = "writing", ![t].offset = offset]
  BY DEF write_begin
<1> HIDE DEF offset
<1>4. c \in Call /\ c.at = "writing" /\ c.op = "write" /\ c.inum = call[t].inum
      /\ c.handle = call[t].handle /\ c.meant = call[t].meant /\ c.offset = offset
      /\ call' = [call EXCEPT ![t] = c]
  BY <1>1, <1>2, <1>3 DEF Call, Steps
<1> HIDE DEF c
<1>5. Shaped(c)
  BY <1>1, <1>4 DEF Shaped, OpenSteps, IoSteps
<1>6. Moves(t) /\ call'[t] = c /\ CallsShaped'
  BY <1>4, <1>5, Goes
<1>7. /\ inode_rw_locks' \in [Inumber -> [writer : Thread \cup {NoThread},
                                           readers : SUBSET Thread]]
      /\ inode_rw_locks[call[t].inum] = Unlocked
      /\ inode_rw_locks'[call[t].inum].writer = t
      /\ inode_rw_locks'[call[t].inum].readers = inode_rw_locks[call[t].inum].readers
      /\ \A i \in Inumber \ {call[t].inum} : inode_rw_locks'[i] = inode_rw_locks[i]
  BY <1>1 DEF write_begin, CanWrlock, TypeOK
<1>8. inode_rw_locks[call[t].inum].readers = {}
  BY <1>7 DEF Unlocked
<1>9. TypeOK'
  BY <1>0, <1>6, <1>7 DEF TypeOK, Moves, inodeVars, handleVars, auxVars, callerVars
<1> QED BY <1>0, <1>1, <1>4, <1>6, <1>7, <1>8, <1>9 DEF offset

LEMMA WriteEndDoes ==
  ASSUME Typed, NEW t \in Thread, write_end(t)
  PROVE  /\ Typed' /\ Moves(t) /\ call[t].at = "writing" /\ call'[t] = Idle
         /\ call[t].inum \in Inumber /\ call[t].handle \in Handle
         /\ Unlock(t)
         /\ open_file_table'[call[t].handle].of_inumber
                = open_file_table[call[t].handle].of_inumber
         /\ \A h \in Handle \ {call[t].handle} : open_file_table'[h] = open_file_table[h]
         /\ \A i \in Inumber : inode_table'[i].i_node_type = inode_table[i].i_node_type
         /\ \A i \in Inumber \ {call[t].inum} : inode_table'[i] = inode_table[i]
         /\ UNCHANGED <<freeinode_ts, root_dir, free_open_file_entries, auxVars, callerVars>>
<1> USE DEF Typed
<1>0. UNCHANGED <<freeinode_ts, root_dir, free_open_file_entries, auxVars, callerVars>>
      /\ Unlock(t)
  BY DEF write_end
<1>1. /\ call[t].at = "writing" /\ call[t].inum \in Inumber /\ call[t].handle \in Handle
      /\ call[t].offset \in 0 .. MAX_FILE_SIZE
  BY IoCall DEF write_end, At, IoSteps
<1>2. Moves(t) /\ call'[t] = Idle /\ CallsShaped'
  BY Returns DEF write_end
<1> DEFINE last == AtMost(call[t].offset + 1, MAX_FILE_SIZE)
           size == IF last = call[t].offset THEN inode_table[call[t].inum].i_size
                   ELSE AtLeast(inode_table[call[t].inum].i_size, last)
<1>3. last \in 0 .. MAX_FILE_SIZE /\ size \in 0 .. MAX_FILE_SIZE
  <2>1. inode_table[call[t].inum].i_size \in 0 .. MAX_FILE_SIZE
    BY <1>1 DEF TypeOK
  <2> QED BY <1>1, <2>1, LockAssumption DEF AtMost, AtLeast
<1>4. /\ open_file_table' = [open_file_table EXCEPT ![call[t].handle].of_offset = last]
      /\ inode_table' = [inode_table EXCEPT ![call[t].inum].i_size = size]
  BY DEF write_end
<1> HIDE DEF last, size
<1>5. /\ open_file_table' \in [Handle -> [of_inumber : Inumber, of_offset : 0 .. MAX_FILE_SIZE]]
      /\ open_file_table'[call[t].handle].of_inumber
                = open_file_table[call[t].handle].of_inumber
      /\ \A h \in Handle \ {call[t].handle} : open_file_table'[h] = open_file_table[h]
  BY <1>1, <1>3, <1>4 DEF TypeOK
<1>6. /\ inode_table' \in [Inumber -> [i_node_type : {"T_DIRECTORY", "T_FILE", "T_PREV_USED"},
                                        i_size : 0 .. MAX_FILE_SIZE]]
      /\ \A i \in Inumber : inode_table'[i].i_node_type = inode_table[i].i_node_type
      /\ \A i \in Inumber \ {call[t].inum} : inode_table'[i] = inode_table[i]
  <2>1. inode_table \in [Inumber -> [i_node_type : {"T_DIRECTORY", "T_FILE", "T_PREV_USED"},
                                      i_size : 0 .. MAX_FILE_SIZE]]
    BY DEF TypeOK
  <2>2. /\ inode_table'[call[t].inum].i_node_type = inode_table[call[t].inum].i_node_type
        /\ inode_table'[call[t].inum].i_size = size
        /\ inode_table'[call[t].inum] \in
                [i_node_type : {"T_DIRECTORY", "T_FILE", "T_PREV_USED"},
                 i_size : 0 .. MAX_FILE_SIZE]
        /\ \A i \in Inumber \ {call[t].inum} : inode_table'[i] = inode_table[i]
    BY <1>1, <1>3, <1>4, <2>1
  <2> QED BY <1>1, <1>4, <2>1, <2>2
<1>7. /\ inode_rw_locks' \in [Inumber -> [writer : Thread \cup {NoThread},
                                           readers : SUBSET Thread]]
      /\ open_file_entries_rw_locks' \in [Handle -> Thread \cup {NoThread}]
  BY <1>0, <1>1, UnlockDoes DEF IoSteps
<1>8. TypeOK'
  BY <1>0, <1>2, <1>5, <1>6, <1>7 DEF TypeOK, Moves, auxVars, callerVars
<1> QED BY <1>0, <1>1, <1>2, <1>5, <1>6, <1>8

LEMMA WriteFailsDoes ==
  ASSUME Typed, NEW t \in Thread, write_fails(t)
  PROVE  /\ Typed' /\ Moves(t) /\ call[t].at = "writing" /\ call'[t] = Idle
         /\ call[t].inum \in Inumber /\ call[t].handle \in Handle
         /\ Unlock(t)
         /\ UNCHANGED <<inodeVars, root_dir, handleVars, auxVars, callerVars>>
<1> USE DEF Typed
<1>0. UNCHANGED <<inodeVars, root_dir, handleVars, auxVars, callerVars>> /\ Unlock(t)
  BY DEF write_fails
<1>1. /\ call[t].at = "writing" /\ call[t].inum \in Inumber /\ call[t].handle \in Handle
  BY IoCall DEF write_fails, At, IoSteps
<1>2. Moves(t) /\ call'[t] = Idle /\ CallsShaped'
  BY Returns DEF write_fails
<1>3. TypeOK'
  BY <1>0, <1>1, <1>2, UnlockDoes
     DEF TypeOK, Moves, inodeVars, handleVars, auxVars, callerVars, IoSteps
<1> QED BY <1>0, <1>1, <1>2, <1>3

LEMMA ReadBeginDoes ==
  ASSUME Typed, NEW t \in Thread, read_begin(t)
  PROVE  /\ Typed' /\ Moves(t) /\ call[t].at = "inode_lock" /\ call[t].op \in {"read", "copy"}
         /\ call[t].inum \in Inumber /\ call[t].handle \in Handle
         /\ inode_rw_locks[call[t].inum].writer = NoThread
         /\ inode_rw_locks'[call[t].inum].writer = NoThread
         /\ inode_rw_locks'[call[t].inum].readers
                = inode_rw_locks[call[t].inum].readers \cup {t}
         /\ \A i \in Inumber \ {call[t].inum} : inode_rw_locks'[i] = inode_rw_locks[i]
         /\ call'[t].op = call[t].op /\ call'[t].at = "reading"
         /\ call'[t].inum = call[t].inum /\ call'[t].handle = call[t].handle
         /\ call'[t].meant = call[t].meant
         /\ call'[t].offset = open_file_table[call[t].handle].of_offset
         /\ aux_buffer' = IF call[t].op = "copy" THEN call[t].inum ELSE aux_buffer
         /\ UNCHANGED <<inodeVars, root_dir, handleVars, open_file_entries_rw_locks,
                        aux_buffer_mtx, callerVars>>
<1> USE DEF Typed
<1>0. UNCHANGED <<inodeVars, root_dir, handleVars, open_file_entries_rw_locks,
                  aux_buffer_mtx, callerVars>>
      /\ aux_buffer' = IF call[t].op = "copy" THEN call[t].inum ELSE aux_buffer
  BY DEF read_begin
<1>1. /\ call[t].at = "inode_lock" /\ call[t].op \in {"read", "copy"} /\ call[t] \in Call
      /\ Shaped(call[t]) /\ call[t].inum \in Inumber /\ call[t].handle \in Handle
  BY IoCall DEF read_begin, At, IoSteps
<1> DEFINE offset == open_file_table[call[t].handle].of_offset
           c == [call[t] EXCEPT !.at = "reading", !.offset = offset]
<1>2. offset \in 0 .. MAX_FILE_SIZE
  BY <1>1 DEF TypeOK
<1>3. call' = [call EXCEPT ![t].at = "reading", ![t].offset = offset]
  BY DEF read_begin
<1> HIDE DEF offset
<1>4. c \in Call /\ c.at = "reading" /\ c.op = call[t].op /\ c.inum = call[t].inum
      /\ c.handle = call[t].handle /\ c.meant = call[t].meant /\ c.offset = offset
      /\ call' = [call EXCEPT ![t] = c]
  BY <1>1, <1>2, <1>3 DEF Call, Steps
<1> HIDE DEF c
<1>5. Shaped(c)
  BY <1>1, <1>4 DEF Shaped, OpenSteps, CopySteps, IoSteps
<1>6. Moves(t) /\ call'[t] = c /\ CallsShaped'
  BY <1>4, <1>5, Goes
<1>7. /\ inode_rw_locks' \in [Inumber -> [writer : Thread \cup {NoThread},
                                           readers : SUBSET Thread]]
      /\ inode_rw_locks[call[t].inum].writer = NoThread
      /\ inode_rw_locks'[call[t].inum].writer = NoThread
      /\ inode_rw_locks'[call[t].inum].readers
                = inode_rw_locks[call[t].inum].readers \cup {t}
      /\ \A i \in Inumber \ {call[t].inum} : inode_rw_locks'[i] = inode_rw_locks[i]
  <2>1. /\ inode_rw_locks \in [Inumber -> [writer : Thread \cup {NoThread},
                                           readers : SUBSET Thread]]
        /\ inode_rw_locks' = [inode_rw_locks EXCEPT ![call[t].inum].readers = @ \cup {t}]
        /\ inode_rw_locks[call[t].inum].writer = NoThread
    BY DEF read_begin, CanRdlock, TypeOK
  <2> QED BY <1>1, <2>1
<1>8. aux_buffer' \in Inumber \cup {-1}
  BY <1>0, <1>1 DEF TypeOK
<1>9. TypeOK'
  BY <1>0, <1>6, <1>7, <1>8 DEF TypeOK, Moves, inodeVars, handleVars, callerVars
<1> QED BY <1>0, <1>1, <1>4, <1>6, <1>7, <1>9 DEF offset

LEMMA ReadEndDoes ==
  ASSUME Typed, NEW t \in Thread, read_end(t)
  PROVE  /\ Typed' /\ Moves(t) /\ call[t].at = "reading"
         /\ call[t].inum \in Inumber /\ call[t].handle \in Handle
         /\ inode_rw_locks'[call[t].inum].writer = inode_rw_locks[call[t].inum].writer
         /\ inode_rw_locks'[call[t].inum].readers
                = inode_rw_locks[call[t].inum].readers \ {t}
         /\ \A i \in Inumber \ {call[t].inum} : inode_rw_locks'[i] = inode_rw_locks[i]
         /\ call'[t].op = call[t].op /\ call'[t].at = "read_done"
         /\ call'[t].inum = call[t].inum /\ call'[t].handle = call[t].handle
         /\ call'[t].meant = call[t].meant /\ call'[t].offset = call[t].offset
         /\ call'[t].offset <= call'[t].end
         /\ UNCHANGED <<inodeVars, root_dir, handleVars, open_file_entries_rw_locks,
                        auxVars, callerVars>>
<1> USE DEF Typed
<1>0. UNCHANGED <<inodeVars, root_dir, handleVars, open_file_entries_rw_locks,
                  auxVars, callerVars>>
  BY DEF read_end
<1>1. /\ call[t].at = "reading" /\ call[t] \in Call
      /\ Shaped(call[t]) /\ call[t].inum \in Inumber /\ call[t].handle \in Handle
      /\ call[t].offset \in 0 .. MAX_FILE_SIZE
      /\ call[t].offset <= inode_table[call[t].inum].i_size
  BY IoCall DEF read_end, At, IoSteps
<1> DEFINE last == ReadEnd(call[t])
           c == [call[t] EXCEPT !.at = "read_done", !.end = last]
<1>2. last \in 0 .. MAX_FILE_SIZE /\ call[t].offset <= last
  <2>1. inode_table[call[t].inum].i_size \in 0 .. MAX_FILE_SIZE
    BY <1>1 DEF TypeOK
  <2> QED BY <1>1, <2>1, LockAssumption DEF AtMost, ReadEnd
<1>3. call' = [call EXCEPT ![t].at = "read_done", ![t].end = last]
  BY DEF read_end
<1> HIDE DEF last
<1>4. c \in Call /\ c.at = "read_done" /\ c.op = call[t].op /\ c.inum = call[t].inum
      /\ c.handle = call[t].handle /\ c.meant = call[t].meant /\ c.offset = call[t].offset
      /\ c.end = last /\ call' = [call EXCEPT ![t] = c]
  BY <1>1, <1>2, <1>3 DEF Call, Steps
<1> HIDE DEF c
<1>5. Shaped(c)
  BY <1>1, <1>4 DEF Shaped, OpenSteps, CopySteps, IoSteps
<1>6. Moves(t) /\ call'[t] = c /\ CallsShaped'
  BY <1>4, <1>5, Goes
<1>7. /\ inode_rw_locks' \in [Inumber -> [writer : Thread \cup {NoThread},
                                           readers : SUBSET Thread]]
      /\ inode_rw_locks'[call[t].inum].writer = inode_rw_locks[call[t].inum].writer
      /\ inode_rw_locks'[call[t].inum].readers
                = inode_rw_locks[call[t].inum].readers \ {t}
      /\ \A i \in Inumber \ {call[t].inum} : inode_rw_locks'[i] = inode_rw_locks[i]
  BY <1>1 DEF read_end, TypeOK
<1>8. TypeOK'
  BY <1>0, <1>6, <1>7 DEF TypeOK, Moves, inodeVars, handleVars, auxVars, callerVars
<1> QED BY <1>0, <1>1, <1>2, <1>4, <1>6, <1>7, <1>8

LEMMA ReadPastEndDoes ==
  ASSUME Typed, NEW t \in Thread, read_past_end(t)
  PROVE  /\ Typed' /\ Moves(t) /\ call[t].at = "reading" /\ call'[t] = Idle
         /\ call[t].inum \in Inumber /\ call[t].handle \in Handle
         /\ Unlock(t)
         /\ IF call[t].op = "copy"
            THEN aux_buffer_mtx' = Left /\ dropped' = dropped \cup {call[t].handle}
            ELSE UNCHANGED <<aux_buffer_mtx, dropped>>
         /\ UNCHANGED <<inodeVars, root_dir, handleVars, aux_buffer, calls, given>>
<1> USE DEF Typed
<1>0. /\ UNCHANGED <<inodeVars, root_dir, handleVars, aux_buffer, calls, given>> /\ Unlock(t)
      /\ IF call[t].op = "copy"
            THEN aux_buffer_mtx' = Left /\ dropped' = dropped \cup {call[t].handle}
            ELSE UNCHANGED <<aux_buffer_mtx, dropped>>
  BY DEF read_past_end
<1>1. /\ call[t].at = "reading" /\ call[t].inum \in Inumber /\ call[t].handle \in Handle
  BY IoCall DEF read_past_end, At, IoSteps
<1>2. Moves(t) /\ call'[t] = Idle /\ CallsShaped'
  BY Returns DEF read_past_end
<1>3. aux_buffer_mtx' \in Thread \cup {NoThread, Left} /\ dropped' \subseteq Handle
  BY <1>0, <1>1 DEF TypeOK
<1>4. TypeOK'
  BY <1>0, <1>1, <1>2, <1>3, UnlockDoes DEF TypeOK, Moves, inodeVars, handleVars, IoSteps
<1> QED BY <1>0, <1>1, <1>2, <1>4

LEMMA ReadDoneDoes ==
  ASSUME Typed, NEW t \in Thread, read_done(t)
  PROVE  /\ Typed' /\ Moves(t) /\ call[t].at = "read_done"
         /\ call[t].inum \in Inumber /\ call[t].handle \in Handle
         /\ open_file_table'[call[t].handle].of_inumber
                = open_file_table[call[t].handle].of_inumber
         /\ \A h \in Handle \ {call[t].handle} : open_file_table'[h] = open_file_table[h]
         /\ open_file_entries_rw_locks'[call[t].handle] = NoThread
         /\ \A h \in Handle \ {call[t].handle} :
                        open_file_entries_rw_locks'[h] = open_file_entries_rw_locks[h]
         /\ \/ /\ call[t].op = "copy" /\ call'[t].op = "copy" /\ call'[t].at = "fwrite"
               /\ call'[t].inum = call[t].inum /\ call'[t].handle = call[t].handle
            \/ call[t].op # "copy" /\ call'[t] = Idle
         /\ UNCHANGED <<inodeVars, root_dir, free_open_file_entries, inode_rw_locks,
                        auxVars, callerVars>>
<1> USE DEF Typed
<1>0. UNCHANGED <<inodeVars, root_dir, free_open_file_entries, inode_rw_locks,
                  auxVars, callerVars>>
  BY DEF read_done
<1>1. /\ call[t].at = "read_done" /\ call[t].inum \in Inumber /\ call[t].handle \in Handle
      /\ call[t] \in Call /\ Shaped(call[t]) /\ call[t].end \in 0 .. MAX_FILE_SIZE
  BY IoCall DEF read_done, At, IoSteps
<1>2. /\ open_file_table' \in [Handle -> [of_inumber : Inumber, of_offset : 0 .. MAX_FILE_SIZE]]
      /\ open_file_table'[call[t].handle].of_inumber
                = open_file_table[call[t].handle].of_inumber
      /\ \A h \in Handle \ {call[t].handle} : open_file_table'[h] = open_file_table[h]
  BY <1>1 DEF read_done, TypeOK
<1>3. /\ open_file_entries_rw_locks' \in [Handle -> Thread \cup {NoThread}]
      /\ open_file_entries_rw_locks'[call[t].handle] = NoThread
      /\ \A h \in Handle \ {call[t].handle} :
                        open_file_entries_rw_locks'[h] = open_file_entries_rw_locks[h]
  BY <1>1 DEF read_done, TypeOK
<1>4. CASE call[t].op = "copy"
  <2> DEFINE c == [call[t] EXCEPT !.at = "fwrite"]
  <2>1. c \in Call /\ c.at = "fwrite" /\ c.op = "copy" /\ c.inum = call[t].inum
        /\ c.handle = call[t].handle /\ call' = [call EXCEPT ![t] = c]
    BY <1>1, <1>4 DEF Call, Steps, read_done, Goto
  <2> HIDE DEF c
  <2>2. Shaped(c)
    BY <1>1, <2>1 DEF Shaped, OpenSteps, CopySteps, IoSteps
  <2>3. Moves(t) /\ call'[t] = c /\ CallsShaped'
    BY <2>1, <2>2, Goes
  <2>4. TypeOK'
    BY <1>0, <1>2, <1>3, <2>3 DEF TypeOK, Moves, inodeVars, auxVars, callerVars
  <2> QED BY <1>0, <1>1, <1>2, <1>3, <1>4, <2>1, <2>3, <2>4
<1>5. CASE call[t].op # "copy"
  <2>1. Moves(t) /\ call'[t] = Idle /\ CallsShaped'
    BY <1>5, Returns DEF read_done
  <2>2. TypeOK'
    BY <1>0, <1>2, <1>3, <2>1 DEF TypeOK, Moves, inodeVars, auxVars, callerVars
  <2> QED BY <1>0, <1>1, <1>2, <1>3, <1>5, <2>1, <2>2
<1> QED BY <1>4, <1>5

LEMMA CopyLockDoes ==
  ASSUME Typed, NEW t \in Thread, copy_lock(t)
  PROVE  /\ Typed' /\ Moves(t) /\ call[t].at = "aux_lock" /\ call[t].op = "copy"
         /\ call[t].handle \in Handle
         /\ aux_buffer_mtx = NoThread /\ aux_buffer_mtx' = t
         /\ call'[t].op = "copy" /\ call'[t].at = "handle_lock"
         /\ call'[t].handle = call[t].handle /\ call'[t].meant = call[t].meant
         /\ UNCHANGED <<inodeVars, root_dir, handleVars, lockVars, aux_buffer, callerVars>>
<1> USE DEF Typed
<1>0. UNCHANGED <<inodeVars, root_dir, handleVars, lockVars, aux_buffer, callerVars>>
      /\ aux_buffer_mtx = NoThread /\ aux_buffer_mtx' = t
  BY DEF copy_lock
<1>1. /\ call[t].at = "aux_lock" /\ call[t].handle \in Handle
      /\ call[t] \in Call /\ Shaped(call[t])
  BY CallTyped DEF copy_lock, At, OpenSteps
<1>2. call[t].op = "copy"
  BY <1>1 DEF Shaped, OpenSteps
<1> DEFINE c == [call[t] EXCEPT !.at = "handle_lock"]
<1>3. c \in Call /\ c.at = "handle_lock" /\ c.op = "copy" /\ c.meant = call[t].meant
      /\ c.handle = call[t].handle /\ call' = [call EXCEPT ![t] = c]
  BY <1>1, <1>2 DEF Call, Steps, copy_lock, Goto
<1> HIDE DEF c
<1>4. Shaped(c)
  BY <1>1, <1>3 DEF Shaped, OpenSteps, CopySteps, IoSteps
<1>5. Moves(t) /\ call'[t] = c /\ CallsShaped'
  BY <1>3, <1>4, Goes
<1>6. TypeOK'
  BY <1>0, <1>5 DEF TypeOK, Moves, inodeVars, handleVars, lockVars, callerVars
<1> QED BY <1>0, <1>1, <1>2, <1>3, <1>5, <1>6

LEMMA CopyFwriteDoes ==
  ASSUME Typed, NEW t \in Thread, copy_fwrite(t)
  PROVE  /\ Typed' /\ Moves(t) /\ call[t].at = "fwrite" /\ call[t].op = "copy"
         /\ call[t].handle \in Handle
         /\ aux_buffer_mtx' = NoThread
         /\ \/ /\ call'[t].op = "copy" /\ call'[t].at = "close"
               /\ call'[t].handle = call[t].handle
               /\ UNCHANGED dropped
            \/ /\ call'[t] = Idle
               /\ dropped' = dropped \cup {call[t].handle}
         /\ UNCHANGED <<inodeVars, root_dir, handleVars, lockVars, aux_buffer, calls, given>>
<1> USE DEF Typed
<1>0. UNCHANGED <<inodeVars, root_dir, handleVars, lockVars, aux_buffer, calls, given>>
      /\ aux_buffer_mtx' = NoThread
  BY DEF copy_fwrite
<1>1. /\ call[t].at = "fwrite" /\ call[t].handle \in Handle
      /\ call[t] \in Call /\ Shaped(call[t])
  BY CallTyped DEF copy_fwrite, At, OpenSteps
<1>2. call[t].op = "copy"
  BY <1>1 DEF Shaped, OpenSteps
<1>3. CASE Goto(t, "close") /\ UNCHANGED dropped
  <2> DEFINE c == [call[t] EXCEPT !.at = "close"]
  <2>1. c \in Call /\ c.at = "close" /\ c.op = "copy"
        /\ c.handle = call[t].handle /\ call' = [call EXCEPT ![t] = c]
    BY <1>1, <1>2, <1>3 DEF Call, Steps, Goto
  <2> HIDE DEF c
  <2>2. Shaped(c)
    BY <1>1, <2>1 DEF Shaped, OpenSteps, CopySteps, IoSteps
  <2>3. Moves(t) /\ call'[t] = c /\ CallsShaped'
    BY <2>1, <2>2, Goes
  <2>4. TypeOK'
    BY <1>0, <1>3, <2>3 DEF TypeOK, Moves, inodeVars, handleVars, lockVars
  <2> QED BY <1>0, <1>1, <1>2, <1>3, <2>1, <2>3, <2>4
<1>4. CASE Return(t) /\ dropped' = dropped \cup {call[t].handle}
  <2>1. Moves(t) /\ call'[t] = Idle /\ CallsShaped'
    BY <1>4, Returns
  <2>2. dropped' \subseteq Handle
    BY <1>1, <1>4 DEF TypeOK
  <2>3. TypeOK'
    BY <1>0, <2>1, <2>2 DEF TypeOK, Moves, inodeVars, handleVars, lockVars
  <2> QED BY <1>0, <1>1, <1>2, <1>4, <2>1, <2>3
<1> QED BY <1>3, <1>4 DEF copy_fwrite

LEMMA NextSteps == Next => \E t \in Thread : Step(t)
<1> SUFFICES ASSUME Next PROVE \E t \in Thread : Step(t)
  OBVIOUS
<1>1. OpenFlags \subseteq SUBSET FlagNames /\ {} \in SUBSET FlagNames
  BY LockAssumption
<1> QED BY <1>1 DEF Next, Continue, Step, OpenStep, CloseStep, CopyStep, BeginIoStep, IoStep

\* The steps outside the lock of a handle leave the locks of inodes and handles
\* alone, and nobody is within a lock before or after them.
LEMMA QuietSteps ==
  ASSUME Typed, NEW t \in Thread,
         OpenStep(t) \/ CloseStep(t) \/ CopyStep(t) \/ BeginIoStep(t)
  PROVE  /\ Typed' /\ Keeps(t) /\ UNCHANGED lockVars
         /\ call[t].at \notin IoSteps /\ call'[t].at \notin IoSteps
<1> USE DEF Keeps, Moves, IoSteps
<1>1. ASSUME NEW op \in {"open", "copy"}, NEW n \in Name, NEW flags \in SUBSET FlagNames,
             open_lookup(t, op, n, flags)
      PROVE  /\ Typed' /\ Keeps(t) /\ UNCHANGED lockVars
             /\ call[t].at \notin IoSteps /\ call'[t].at \notin IoSteps
  BY <1>1, OpenLookupDoes
<1>2. CASE open_existing(t)
  BY <1>2, OpenExistingDoes
<1>3. CASE inode_create(t)
  BY <1>3, InodeCreateDoes, IdleTyped
<1>4. CASE add_dir_entry(t)
  BY <1>4, AddDirEntryDoes
<1>5. CASE inode_delete(t)
  BY <1>5, InodeDeleteDoes, IdleTyped
<1>6. CASE add_to_open_file_table(t)
  BY <1>6, AddHandleDoes, IdleTyped
<1>7. ASSUME NEW h \in Handle, close_begin(t, h)
      PROVE  /\ Typed' /\ Keeps(t) /\ UNCHANGED lockVars
             /\ call[t].at \notin IoSteps /\ call'[t].at \notin IoSteps
  BY <1>7, CloseBeginDoes
<1>8. CASE tfs_close(t)
  BY <1>8, TfsCloseDoes, IdleTyped
<1>9. CASE copy_lock(t)
  BY <1>9, CopyLockDoes
<1>10. CASE copy_fwrite(t)
  BY <1>10, CopyFwriteDoes, IdleTyped
<1>11. ASSUME NEW h \in Handle, NEW op \in {"write", "read"}, begin_io(t, op, h)
       PROVE  /\ Typed' /\ Keeps(t) /\ UNCHANGED lockVars
              /\ call[t].at \notin IoSteps /\ call'[t].at \notin IoSteps
  BY <1>11, BeginIoDoes
<1> QED
  BY <1>1, <1>2, <1>3, <1>4, <1>5, <1>6, <1>7, <1>8, <1>9, <1>10, <1>11
     DEF OpenStep, CloseStep, CopyStep, BeginIoStep

\* The steps within it leave the directory, the inodes' types, the FREE inodes
\* and handles and the handles' inodes alone.
LEMMA IoStepDoes ==
  ASSUME Typed, NEW t \in Thread, IoStep(t)
  PROVE  /\ Typed' /\ Moves(t)
         /\ call[t].at \in IoSteps \cup {"handle_lock"}
         /\ call'[t].at \in IoSteps \cup {"idle", "fwrite"}
         /\ UNCHANGED <<freeinode_ts, root_dir, free_open_file_entries, given>>
         /\ \A i \in Inumber : inode_table'[i].i_node_type = inode_table[i].i_node_type
         /\ \A h \in Handle : open_file_table'[h].of_inumber = open_file_table[h].of_inumber
<1> USE IdleTyped DEF IoSteps, inodeVars, handleVars, callerVars
<1>1. CASE lock_handle(t)
  BY <1>1, LockHandleDoes
<1>2. CASE write_begin(t)
  BY <1>2, WriteBeginDoes
<1>3. CASE write_end(t)
  BY <1>3, WriteEndDoes
<1>4. CASE write_fails(t)
  BY <1>4, WriteFailsDoes
<1>5. CASE read_begin(t)
  BY <1>5, ReadBeginDoes
<1>6. CASE read_end(t)
  BY <1>6, ReadEndDoes
<1>7. CASE read_past_end(t)
  BY <1>7, ReadPastEndDoes
<1>8. CASE read_done(t)
  BY <1>8, ReadDoneDoes
<1> QED BY <1>1, <1>2, <1>3, <1>4, <1>5, <1>6, <1>7, <1>8 DEF IoStep

-----------------------------------------------------------------------------
(* The locks of handles and inodes *)

LEMMA LocksStay ==
  ASSUME Typed, Typed', LocksHeld, NEW t \in Thread, Keeps(t), UNCHANGED lockVars,
         call[t].at \notin IoSteps, call'[t].at \notin IoSteps
  PROVE  LocksHeld'
<1>1. ASSUME NEW u \in Thread
      PROVE  \/ u # t /\ call'[u].at = call[u].at /\ call'[u].inum = call[u].inum
                      /\ call'[u].handle = call[u].handle
             \/ call[u].at \notin IoSteps /\ call'[u].at \notin IoSteps
  BY DEF Keeps
<1>2. inode_rw_locks' = inode_rw_locks
      /\ open_file_entries_rw_locks' = open_file_entries_rw_locks
  BY DEF lockVars
<1>3. \A h \in Handle, u \in Thread : open_file_entries_rw_locks'[h] = u
            <=> call'[u].at \in IoSteps /\ call'[u].handle = h
  BY <1>1, <1>2 DEF LocksHeld
<1>4. \A i \in Inumber, u \in Thread :
            /\ inode_rw_locks'[i].writer = u <=> call'[u].at = "writing" /\ call'[u].inum = i
            /\ u \in inode_rw_locks'[i].readers
                    <=> call'[u].at = "reading" /\ call'[u].inum = i
  BY <1>1, <1>2 DEF LocksHeld, IoSteps
<1> QED BY <1>2, <1>3, <1>4 DEF LocksHeld

LEMMA LocksHeldStep ==
  ASSUME Typed, LocksHeld, NEW t \in Thread, Step(t)
  PROVE  LocksHeld'
<1>1. CASE OpenStep(t) \/ CloseStep(t) \/ CopyStep(t) \/ BeginIoStep(t)
  BY <1>1, QuietSteps, LocksStay
<1>2. NoThread \notin Thread
  BY LockAssumption
<1>3. CASE lock_handle(t)
  BY <1>2, <1>3, LockHandleDoes, IdleTyped DEF LocksHeld, Moves, IoSteps
<1>4. CASE write_begin(t)
  <2>1. /\ inode_rw_locks[call[t].inum].writer = NoThread
        /\ inode_rw_locks[call[t].inum].readers = {}
    BY <1>4, WriteBeginDoes DEF Unlocked
  <2> QED BY <1>2, <1>4, <2>1, WriteBeginDoes DEF LocksHeld, Moves, IoSteps
<1>5. CASE write_end(t)
  BY <1>2, <1>5, WriteEndDoes, UnlockDoes, IdleTyped DEF LocksHeld, Moves, IoSteps
<1>6. CASE write_fails(t)
  BY <1>2, <1>6, WriteFailsDoes, UnlockDoes, IdleTyped DEF LocksHeld, Moves, IoSteps
<1>7. CASE read_begin(t)
  BY <1>2, <1>7, ReadBeginDoes DEF LocksHeld, Moves, IoSteps
<1>8. CASE read_end(t)
  BY <1>2, <1>8, ReadEndDoes DEF LocksHeld, Moves, IoSteps
<1>9. CASE read_past_end(t)
  BY <1>2, <1>9, ReadPastEndDoes, UnlockDoes, IdleTyped DEF LocksHeld, Moves, IoSteps
<1>10. CASE read_done(t)
  BY <1>2, <1>10, ReadDoneDoes, IdleTyped DEF LocksHeld, Moves, IoSteps
<1> QED BY <1>1, <1>3, <1>4, <1>5, <1>6, <1>7, <1>8, <1>9, <1>10 DEF Step, IoStep

-----------------------------------------------------------------------------
(* The hands the handles are in *)

LEMMA InHandIs ==
  /\ \A h : h \in InHand <=> h # -1 /\ \E u \in Thread : Held(call[u]) = h
  /\ \A h : h \in InHand' <=> h # -1 /\ \E u \in Thread : Held(call'[u]) = h
<1>1. ASSUME NEW h, h # -1
      PROVE  /\ h \in InHand <=> \E u \in Thread : Held(call[u]) = h
             /\ h \in InHand' <=> \E u \in Thread : Held(call'[u]) = h
  BY <1>1 DEF InHand, Held
<1>2. -1 \notin InHand /\ -1 \notin InHand'
  BY DEF InHand
<1> QED BY <1>1, <1>2

\* Only the hand of the call that moves is emptied, and filled.
LEMMA HandMoves ==
  ASSUME HandlesHeld, NEW t \in Thread, Keeps(t),
         Held(call'[t]) \notin InHand \/ Held(call'[t]) = Held(call[t])
  PROVE  /\ InHand' = (InHand \ {Held(call[t])}) \cup ({Held(call'[t])} \ {-1})
         /\ Held(call[t]) # -1 => Held(call[t]) \in InHand
         /\ \A u, v \in Thread : Held(call'[u]) = Held(call'[v]) /\ Held(call'[u]) # -1 => u = v
<1>1. \A u \in Thread \ {t} : Held(call'[u]) = Held(call[u])
  BY DEF Keeps, Held
<1>2. \A u, v \in Thread : Held(call[u]) = Held(call[v]) /\ Held(call[u]) # -1 => u = v
  BY DEF HandlesHeld
<1>3. ASSUME NEW h, h # -1
      PROVE  h \in InHand' <=> (h \in InHand /\ h # Held(call[t])) \/ h = Held(call'[t])
  BY <1>1, <1>2, <1>3, InHandIs
<1>4. InHand' = (InHand \ {Held(call[t])}) \cup ({Held(call'[t])} \ {-1})
  BY <1>3, InHandIs
<1>5. Held(call[t]) # -1 => Held(call[t]) \in InHand
  BY InHandIs
<1>6. ASSUME NEW u \in Thread \ {t}, Held(call'[u]) = Held(call'[t]), Held(call'[t]) # -1
      PROVE  FALSE
  BY <1>1, <1>2, <1>6, InHandIs
<1> QED BY <1>1, <1>2, <1>4, <1>5, <1>6

LEMMA HandsStay ==
  ASSUME HandlesHeld, NEW t \in Thread, Keeps(t), Held(call'[t]) = Held(call[t]),
         UNCHANGED <<free_open_file_entries, given, dropped>>
  PROVE  HandlesHeld'
<1>1. InHand' = InHand
  BY HandMoves, InHandIs
<1> QED BY <1>1, HandMoves DEF HandlesHeld

LEMMA HandlesHeldStep ==
  ASSUME Typed, HandlesHeld, NEW t \in Thread, Step(t)
  PROVE  HandlesHeld'
<1> USE DEF Typed
<1>0. Keeps(t) /\ Typed' /\ free_open_file_entries \subseteq Handle
      /\ given \subseteq Handle /\ dropped \subseteq Handle
  BY QuietSteps, IoStepDoes DEF Step, Keeps, Moves, TypeOK
<1>1. Shaped(call[t]) /\ Held(Idle) = -1
  BY CallTyped, IdleTyped DEF Held
<1>2. ASSUME Held(call'[t]) = Held(call[t]), UNCHANGED <<free_open_file_entries, given, dropped>>
      PROVE  HandlesHeld'
  BY <1>0, <1>2, HandsStay
<1>3. ASSUME NEW op \in {"open", "copy"}, NEW n \in Name, NEW flags \in SUBSET FlagNames,
             open_lookup(t, op, n, flags)
      PROVE  HandlesHeld'
  <2>1. call[t].handle = -1 /\ call'[t].handle = -1
    BY <1>0, <1>3, OpenLookupDoes, CallTyped DEF CallsShaped, Shaped, OpenSteps
  <2> QED BY <1>2, <1>3, <2>1, OpenLookupDoes DEF Held, handleVars
<1>4. CASE open_existing(t) \/ inode_create(t) \/ add_dir_entry(t) \/ inode_delete(t)
  <2>1. call[t].at \in OpenSteps /\ call'[t].at \in OpenSteps \cup {"idle"}
    BY <1>4, OpenExistingDoes, InodeCreateDoes, AddDirEntryDoes, InodeDeleteDoes, IdleTyped
       DEF OpenSteps
  <2>2. call[t].handle = -1 /\ call'[t].handle = -1
    BY <1>0, <1>1, <2>1 DEF CallsShaped, Shaped
  <2>3. UNCHANGED <<free_open_file_entries, given, dropped>>
    BY <1>4 DEF open_existing, inode_create, add_dir_entry, inode_delete, handleVars, callerVars
  <2> QED BY <1>2, <2>2, <2>3 DEF Held
<1>5. CASE add_to_open_file_table(t)
  <2>1. Held(call[t]) = -1
    BY <1>1, <1>5, AddHandleDoes DEF Held, Shaped, OpenSteps
  <2>2. ASSUME NEW h \in free_open_file_entries,
               free_open_file_entries' = free_open_file_entries \ {h},
               \/ call'[t] = Idle /\ given' = given \cup {h} /\ UNCHANGED dropped
               \/ call'[t] = Idle /\ dropped' = dropped \cup {h} /\ UNCHANGED given
               \/ /\ UNCHANGED <<given, dropped>>
                  /\ call'[t].op = "copy" /\ call'[t].handle = h
        PROVE  HandlesHeld'
    <3>1. h \in Handle /\ h \notin given \cup InHand \cup dropped /\ h # -1
      BY <1>0 DEF HandlesHeld, Handle
    <3>2. Handle \ free_open_file_entries' = (Handle \ free_open_file_entries) \cup {h}
      BY <2>2, <3>1
    <3>3. \/ Held(call'[t]) = -1 /\ given' = given \cup {h} /\ UNCHANGED dropped
          \/ Held(call'[t]) = -1 /\ dropped' = dropped \cup {h} /\ UNCHANGED given
          \/ Held(call'[t]) = h /\ UNCHANGED <<given, dropped>>
      BY <1>1, <2>2 DEF Held
    <3> QED BY <1>0, <2>1, <3>1, <3>2, <3>3, HandMoves, InHandIs DEF HandlesHeld
  <2>3. CASE call'[t] = Idle /\ UNCHANGED <<handleVars, given, dropped>>
    BY <1>1, <1>2, <2>1, <2>3 DEF handleVars
  <2> QED BY <1>5, <2>2, <2>3, AddHandleDoes
<1>6. ASSUME NEW h \in Handle, close_begin(t, h)
      PROVE  HandlesHeld'
  <2>1. Held(call[t]) = -1 /\ Held(call'[t]) = h /\ h # -1
    BY <1>1, <1>6, CloseBeginDoes DEF Held, Shaped, Handle
  <2>2. h \in given /\ given' = given \ {h} /\ UNCHANGED <<free_open_file_entries, dropped>>
    BY <1>6, CloseBeginDoes DEF handleVars
  <2>3. h \notin InHand \cup dropped
    BY <2>2 DEF HandlesHeld
  <2> QED BY <1>0, <2>1, <2>2, <2>3, HandMoves, InHandIs DEF HandlesHeld
<1>7. CASE tfs_close(t)
  <2>1. /\ call[t].handle \in Handle /\ Held(call[t]) = call[t].handle
        /\ Held(call'[t]) = -1 /\ call[t].handle # -1
        /\ free_open_file_entries' = free_open_file_entries \cup {call[t].handle}
        /\ UNCHANGED <<given, dropped>>
    BY <1>1, <1>7, TfsCloseDoes DEF Held, Shaped, Handle, OpenSteps, callerVars
  <2>2. Handle \ free_open_file_entries' = (Handle \ free_open_file_entries) \ {call[t].handle}
    BY <2>1
  <2> QED BY <1>0, <2>1, <2>2, HandMoves, InHandIs DEF HandlesHeld
<1>8. CASE copy_lock(t)
  BY <1>2, <1>8, CopyLockDoes DEF Held, handleVars, callerVars
<1>9. CASE copy_fwrite(t)
  <2>1. /\ call[t].handle \in Handle /\ Held(call[t]) = call[t].handle
        /\ call[t].handle # -1
        /\ \/ Held(call'[t]) = call[t].handle /\ UNCHANGED dropped
           \/ Held(call'[t]) = -1 /\ dropped' = dropped \cup {call[t].handle}
        /\ UNCHANGED <<free_open_file_entries, given>>
    BY <1>1, <1>9, CopyFwriteDoes DEF Held, Handle, handleVars
  <2> QED BY <1>0, <1>2, <2>1, HandMoves, InHandIs DEF HandlesHeld
<1>10. ASSUME NEW h \in Handle, NEW op \in {"write", "read"}, begin_io(t, op, h)
       PROVE  HandlesHeld'
  <2>1. Held(call[t]) = -1 /\ Held(call'[t]) = -1
    BY <1>1, <1>10, BeginIoDoes DEF Held, Shaped
  <2> QED BY <1>2, <1>10, <2>1, BeginIoDoes DEF handleVars
<1>11. CASE lock_handle(t)
  <2>1. CASE call'[t].op = call[t].op /\ call'[t].handle = call[t].handle
    BY <1>2, <1>11, <2>1, LockHandleDoes DEF Held, handleVars, callerVars
  <2>2. CASE call[t].handle \in free_open_file_entries /\ call'[t] = Idle
    <3>1. Held(call[t]) = -1
      BY <1>0, <1>11, <2>2, LockHandleDoes, InHandIs DEF Held, HandlesHeld
    <3> QED BY <1>1, <1>2, <1>11, <2>2, <3>1, LockHandleDoes DEF handleVars, callerVars
  <2> QED BY <1>11, <2>1, <2>2, LockHandleDoes
<1>12. CASE write_begin(t) \/ write_end(t) \/ write_fails(t)
  <2>1. call[t].op = "write" /\ (call'[t].op = "write" \/ call'[t] = Idle)
    BY <1>1, <1>12, WriteBeginDoes, WriteEndDoes, WriteFailsDoes DEF Shaped, OpenSteps, CopySteps
  <2>2. UNCHANGED <<free_open_file_entries, given, dropped>>
    BY <1>12 DEF write_begin, write_end, write_fails, handleVars, callerVars
  <2> QED BY <1>1, <1>2, <2>1, <2>2 DEF Held
<1>13. CASE read_begin(t) \/ read_end(t)
  BY <1>2, <1>13, ReadBeginDoes, ReadEndDoes DEF Held, handleVars, callerVars
<1>14. CASE read_past_end(t)
  <2>1. call[t].handle \in Handle /\ call[t].handle # -1 /\ Held(call'[t]) = -1
        /\ call[t].op # "close"
        /\ UNCHANGED <<free_open_file_entries, given>>
    BY <1>1, <1>14, ReadPastEndDoes DEF Handle, handleVars, Shaped
  <2>2. CASE call[t].op = "copy"
    <3>1. Held(call[t]) = call[t].handle /\ dropped' = dropped \cup {call[t].handle}
      BY <1>14, <2>2, ReadPastEndDoes DEF Held
    <3> QED BY <1>0, <2>1, <3>1, HandMoves, InHandIs DEF HandlesHeld
  <2>3. CASE call[t].op # "copy"
    BY <1>2, <1>14, <2>1, <2>3, ReadPastEndDoes DEF Held
  <2> QED BY <2>2, <2>3
<1>15. CASE read_done(t)
  <2>1. Held(call'[t]) = Held(call[t])
    BY <1>1, <1>15, ReadDoneDoes DEF Held, Shaped
  <2> QED BY <1>2, <1>15, <2>1, ReadDoneDoes DEF callerVars
<1> QED
  BY <1>3, <1>4, <1>5, <1>6, <1>7, <1>8, <1>9, <1>10, <1>11, <1>12, <1>13, <1>14, <1>15
     DEF Step, OpenStep, CloseStep, CopyStep, BeginIoStep, IoStep

-----------------------------------------------------------------------------
(* The buffer of the copies *)

LEMMA BufferStays ==
  ASSUME BufferHeld, NEW t \in Thread, Keeps(t), UNCHANGED auxVars,
         HoldsBuffer(call'[t]) <=> HoldsBuffer(call[t]),
         call'[t].op = "copy" /\ call'[t].at \in {"reading", "read_done", "fwrite"}
            => /\ call[t].op = "copy" /\ call[t].at \in {"reading", "read_done", "fwrite"}
               /\ call'[t].inum = call[t].inum
  PROVE  BufferHeld'
<1>1. aux_buffer_mtx' = aux_buffer_mtx /\ aux_buffer' = aux_buffer
  BY DEF auxVars
<1>2. \A u \in Thread : HoldsBuffer(call'[u]) <=> HoldsBuffer(call[u])
  BY DEF Keeps, HoldsBuffer
<1>3. \A u \in Thread :
        call'[u].op = "copy" /\ call'[u].at \in {"reading", "read_done", "fwrite"}
            => /\ call[u].op = "copy" /\ call[u].at \in {"reading", "read_done", "fwrite"}
               /\ call'[u].inum = call[u].inum
  BY DEF Keeps
<1> QED BY <1>1, <1>2, <1>3 DEF BufferHeld, HoldsBuffer

LEMMA BufferHeldStep ==
  ASSUME Typed, BufferHeld, HandlesHeld, NEW t \in Thread, Step(t)
  PROVE  BufferHeld'
<1> USE DEF Typed
<1>0. Keeps(t)
  BY QuietSteps, IoStepDoes DEF Step, Keeps, Moves
<1>1. /\ Shaped(call[t]) /\ ~ HoldsBuffer(Idle) /\ Idle.op # "copy"
      /\ Left \notin Thread /\ NoThread \notin Thread
  BY CallTyped, IdleTyped, LockAssumption DEF HoldsBuffer
<1>2. ASSUME UNCHANGED auxVars, ~ HoldsBuffer(call[t]), ~ HoldsBuffer(call'[t])
      PROVE  BufferHeld'
  BY <1>0, <1>2, BufferStays DEF HoldsBuffer
<1>3. CASE OpenStep(t) \/ CloseStep(t) \/ BeginIoStep(t)
  <2>1. UNCHANGED auxVars
    BY <1>3 DEF OpenStep, CloseStep, BeginIoStep, open_lookup, open_existing, inode_create,
                add_dir_entry, inode_delete, add_to_open_file_table, close_begin, tfs_close,
                begin_io
  <2>2. CASE OpenStep(t) \/ CloseStep(t)
    <3>1. /\ call[t].at \in OpenSteps \cup {"idle", "close"}
          /\ call'[t].at \in OpenSteps \cup {"idle", "close", "aux_lock"}
      BY <2>2, IdleTyped, OpenLookupDoes, OpenExistingDoes, InodeCreateDoes, AddDirEntryDoes,
         InodeDeleteDoes, AddHandleDoes, CloseBeginDoes, TfsCloseDoes
         DEF OpenStep, CloseStep, OpenSteps
    <3> QED BY <1>2, <2>1, <3>1 DEF HoldsBuffer, OpenSteps
  <2>3. CASE BeginIoStep(t)
    BY <1>1, <1>2, <2>1, <2>3, BeginIoDoes DEF BeginIoStep, HoldsBuffer
  <2> QED BY <1>3, <2>2, <2>3
<1>4. CASE copy_lock(t)
  BY <1>0, <1>1, <1>4, CopyLockDoes DEF BufferHeld, HoldsBuffer, Keeps
<1>5. CASE copy_fwrite(t)
  BY <1>0, <1>1, <1>5, CopyFwriteDoes DEF BufferHeld, HoldsBuffer, Keeps
<1>6. CASE lock_handle(t)
  <2>1. CASE call'[t].op = call[t].op /\ call'[t].at = "inode_lock"
    BY <1>0, <1>6, <2>1, LockHandleDoes, BufferStays DEF HoldsBuffer
  <2>2. CASE call[t].handle \in free_open_file_entries /\ call'[t] = Idle
    <3>1. call[t].op # "copy"
      BY <1>6, <2>2, LockHandleDoes, InHandIs DEF Held, HandlesHeld, Handle
    <3> QED BY <1>1, <1>2, <1>6, <2>2, <3>1, LockHandleDoes DEF HoldsBuffer
  <2> QED BY <1>6, <2>1, <2>2, LockHandleDoes
<1>7. CASE write_begin(t) \/ write_end(t) \/ write_fails(t)
  <2>1. call[t].op = "write" /\ (call'[t].op = "write" \/ call'[t] = Idle)
    BY <1>1, <1>7, WriteBeginDoes, WriteEndDoes, WriteFailsDoes DEF Shaped, OpenSteps, CopySteps
  <2> QED BY <1>1, <1>2, <1>7, <2>1, WriteBeginDoes, WriteEndDoes, WriteFailsDoes
             DEF HoldsBuffer
<1>8. CASE read_begin(t)
  BY <1>0, <1>1, <1>8, ReadBeginDoes DEF BufferHeld, HoldsBuffer, Keeps
<1>9. CASE read_end(t)
  BY <1>0, <1>1, <1>9, ReadEndDoes, BufferStays DEF HoldsBuffer
<1>10. CASE read_past_end(t)
  BY <1>0, <1>1, <1>10, ReadPastEndDoes DEF BufferHeld, HoldsBuffer, Keeps
<1>11. CASE read_done(t)
  BY <1>0, <1>1, <1>11, ReadDoneDoes, BufferStays DEF HoldsBuffer
<1> QED BY <1>3, <1>4, <1>5, <1>6, <1>7, <1>8, <1>9, <1>10, <1>11 DEF Step, CopyStep, IoStep

-----------------------------------------------------------------------------
(* The directory's names *)

LEMMA RootDirStays ==
  ASSUME NEW t \in Thread, Step(t)
  PROVE  UNCHANGED root_dir \/ add_dir_entry(t)
  BY DEF Step, OpenStep, CloseStep, CopyStep, BeginIoStep, IoStep, open_lookup, open_existing,
         inode_create, inode_delete, add_to_open_file_table, close_begin, tfs_close,
         copy_lock, copy_fwrite, begin_io, lock_handle, write_begin, write_end, write_fails,
         read_begin, read_end, read_past_end, read_done

\* An entry stays, and so does what it leads to.
LEMMA EntriesStay ==
  ASSUME Typed, NEW t \in Thread, Step(t)
  PROVE  /\ \A s \in Entries : s \in Entries' /\ root_dir'[s] = root_dir[s]
         /\ \A i : Named(i) => StillNamed(i)
<1>1. CASE UNCHANGED root_dir
  BY <1>1 DEF Entries, FreeSlots, Named, StillNamed
<1>2. CASE add_dir_entry(t)
  <2>1. \A s \in Entries : s \in Entries' /\ root_dir'[s] = root_dir[s]
    BY <1>2, AddDirEntryDoes DEF Entries, FreeSlots, IsFirst
  <2> QED BY <2>1 DEF Named, StillNamed
<1> QED BY <1>1, <1>2, RootDirStays

LEMMA HandlesNamedStep ==
  ASSUME Typed, HandlesNamed, NEW t \in Thread, Step(t)
  PROVE  HandlesNamed'
<1> USE DEF Typed
<1>0. Keeps(t)
  BY QuietSteps, IoStepDoes DEF Step, Keeps, Moves
<1>1. \A i : Named(i) => StillNamed(i)
  BY EntriesStay
<1>2. ASSUME call'[t].at \in {"open_existing", "add_handle"} => StillNamed(call'[t].inum)
      PROVE  \A u \in Thread : call'[u].at \in {"open_existing", "add_handle"}
                                    => StillNamed(call'[u].inum)
  BY <1>0, <1>1, <1>2 DEF HandlesNamed, Keeps
<1>3. ASSUME \A h \in Handle \ free_open_file_entries' :
                /\ h \notin free_open_file_entries
                /\ open_file_table'[h].of_inumber = open_file_table[h].of_inumber,
             call'[t].at \in {"open_existing", "add_handle"} => StillNamed(call'[t].inum)
      PROVE  HandlesNamed'
  BY <1>1, <1>2, <1>3 DEF HandlesNamed, StillNamed, Named
<1>4. ASSUME NEW op \in {"open", "copy"}, NEW n \in Name, NEW flags \in SUBSET FlagNames,
             open_lookup(t, op, n, flags)
      PROVE  HandlesNamed'
  BY <1>1, <1>3, <1>4, OpenLookupDoes DEF Named, Entries, handleVars
<1>5. CASE open_existing(t)
  <2>1. Named(call[t].inum)
    BY <1>5, OpenExistingDoes DEF HandlesNamed
  <2> QED BY <1>1, <1>3, <1>5, <2>1, OpenExistingDoes DEF handleVars
<1>6. CASE inode_create(t) \/ inode_delete(t)
  BY <1>3, <1>6, InodeCreateDoes, InodeDeleteDoes, IdleTyped DEF handleVars
<1>7. CASE add_dir_entry(t)
  <2>1. call'[t].at = "add_handle" => StillNamed(call[t].inum)
    <3> SUFFICES ASSUME call'[t].at = "add_handle"
                 PROVE  \E s \in Slot : s \notin FreeSlots' /\ root_dir'[s].d_inumber = call[t].inum
      BY DEF StillNamed, Entries
    <3>1. PICK s \in Slot :
                root_dir'[s] = [d_name |-> call[t].name, d_inumber |-> call[t].inum]
      BY <1>7, AddDirEntryDoes
    <3>2. call[t].inum # -1
      <4>1. call[t].inum \in Inumber
        BY <1>7, AddDirEntryDoes, CallTyped DEF OpenSteps
      <4> QED BY <4>1 DEF Inumber
    <3> QED BY <3>1, <3>2 DEF FreeSlots
  <2> QED BY <1>3, <1>7, <2>1, AddDirEntryDoes DEF handleVars
<1>8. CASE add_to_open_file_table(t)
  <2>1. StillNamed(call[t].inum)
    BY <1>1, <1>8, AddHandleDoes DEF HandlesNamed
  <2>2. call'[t].at \notin {"open_existing", "add_handle"}
    BY <1>8, AddHandleDoes, IdleTyped
  <2>3. \A h \in Handle \ free_open_file_entries' :
            StillNamed(open_file_table'[h].of_inumber)
    BY <1>1, <1>8, <2>1, AddHandleDoes DEF HandlesNamed, handleVars
  <2> QED BY <1>2, <2>2, <2>3 DEF HandlesNamed, StillNamed, Named
<1>9. CASE CloseStep(t) \/ CopyStep(t) \/ BeginIoStep(t)
  BY <1>3, <1>9, IdleTyped, CloseBeginDoes, TfsCloseDoes, CopyLockDoes, CopyFwriteDoes,
     BeginIoDoes DEF CloseStep, CopyStep, BeginIoStep, handleVars
<1>10. CASE IoStep(t)
  BY <1>3, <1>10, IoStepDoes DEF IoSteps
<1> QED BY <1>4, <1>5, <1>6, <1>7, <1>8, <1>9, <1>10 DEF Step, OpenStep

-----------------------------------------------------------------------------
(* The handles of the calls that read or write *)

LEMMA UsedStays ==
  ASSUME Typed, HandlesUsed, NEW t \in Thread, Moves(t),
         UsedIn(call'[t], free_open_file_entries', open_file_table'),
         \A u \in Thread \ {t} :
            \/ call[u].at \in IoSteps
            \/ call[u].at \in {"aux_lock", "handle_lock"} /\ call[u].handle \notin free_open_file_entries
            => /\ call[u].handle \notin free_open_file_entries'
               /\ open_file_table'[call[u].handle].of_inumber
                    = open_file_table[call[u].handle].of_inumber
               /\ call[u].at \in IoSteps
                    => open_file_table'[call[u].handle] = open_file_table[call[u].handle]
  PROVE  HandlesUsed'
<1>1. ASSUME NEW u \in Thread \ {t}
      PROVE  UsedIn(call'[u], free_open_file_entries', open_file_table')
  <2>1. call'[u] = call[u] /\ UsedIn(call[u], free_open_file_entries, open_file_table)
    BY DEF Moves, HandlesUsed
  <2> QED BY <2>1 DEF UsedIn, IoSteps
<1> QED BY <1>1 DEF HandlesUsed, UsedIn

LEMMA HandlesUsedStep ==
  ASSUME Typed, LocksHeld, HandlesHeld, HandlesUsed, NEW t \in Thread, Step(t)
  PROVE  HandlesUsed'
<1> USE DEF Typed
<1>0. UsedIn(call[t], free_open_file_entries, open_file_table)
  BY DEF HandlesUsed
<1>1. ASSUME NEW c, c.at \notin IoSteps \cup {"aux_lock", "handle_lock"}
      PROVE  UsedIn(c, free_open_file_entries', open_file_table')
  BY <1>1 DEF UsedIn, IoSteps
<1>2. ASSUME Moves(t), UNCHANGED handleVars,
             UsedIn(call'[t], free_open_file_entries, open_file_table)
      PROVE  HandlesUsed'
  <2>1. \A u \in Thread : call[u].at \in IoSteps => call[u].handle \notin free_open_file_entries
    BY DEF HandlesUsed, UsedIn
  <2> QED BY <1>2, <2>1, UsedStays DEF handleVars
<1>3. ASSUME NEW op \in {"open", "copy"}, NEW n \in Name, NEW flags \in SUBSET FlagNames,
             open_lookup(t, op, n, flags)
      PROVE  HandlesUsed'
  BY <1>2, <1>3, OpenLookupDoes DEF UsedIn, IoSteps
<1>4. CASE open_existing(t) \/ inode_create(t) \/ add_dir_entry(t) \/ inode_delete(t)
  <2>1. Moves(t) /\ UNCHANGED handleVars /\ call'[t].at \in OpenSteps \cup {"idle"}
    BY <1>4, OpenExistingDoes, InodeCreateDoes, AddDirEntryDoes, InodeDeleteDoes, IdleTyped
       DEF OpenSteps
  <2> QED BY <1>2, <2>1 DEF UsedIn, IoSteps, OpenSteps
<1>5. CASE add_to_open_file_table(t)
  <2>1. CASE UNCHANGED handleVars /\ call'[t] = Idle
    BY <1>2, <1>5, <2>1, AddHandleDoes, IdleTyped DEF UsedIn, IoSteps
  <2>2. ASSUME NEW h \in free_open_file_entries,
               free_open_file_entries' = free_open_file_entries \ {h},
               open_file_table'[h].of_inumber = call[t].inum,
               \A g \in Handle \ {h} : open_file_table'[g] = open_file_table[g],
               \/ call'[t] = Idle
               \/ /\ call'[t].at = "aux_lock" /\ call'[t].handle = h
                  /\ call'[t].meant = call[t].inum
        PROVE  HandlesUsed'
    <3>1. UsedIn(call'[t], free_open_file_entries', open_file_table')
      BY <2>2, IdleTyped DEF UsedIn, IoSteps
    <3>2. ASSUME NEW u \in Thread \ {t}, call[u].at \in IoSteps \cup {"aux_lock", "handle_lock"},
                 call[u].handle \notin free_open_file_entries
          PROVE  /\ call[u].handle \notin free_open_file_entries'
                 /\ open_file_table'[call[u].handle] = open_file_table[call[u].handle]
      BY <2>2, <3>2, CallTyped DEF OpenSteps, IoSteps
    <3>3. \A u \in Thread : call[u].at \in IoSteps => call[u].handle \notin free_open_file_entries
      BY DEF HandlesUsed, UsedIn
    <3> QED BY <1>5, <3>1, <3>2, <3>3, UsedStays, AddHandleDoes
  <2> QED BY <1>5, <2>1, <2>2, AddHandleDoes
<1>6. ASSUME NEW h \in Handle, close_begin(t, h)
      PROVE  HandlesUsed'
  BY <1>2, <1>6, CloseBeginDoes DEF UsedIn, IoSteps
<1>7. CASE tfs_close(t)
  <2>1. UsedIn(call'[t], free_open_file_entries', open_file_table')
    BY <1>1, <1>7, TfsCloseDoes, IdleTyped DEF IoSteps
  <2>2. ASSUME NEW u \in Thread \ {t}
        PROVE  UsedIn(call'[u], free_open_file_entries', open_file_table')
    <3>1. UsedIn(call[u], free_open_file_entries, open_file_table) /\ Shaped(call[u])
      BY CallTyped DEF HandlesUsed
    <3>2. call[u].at \in IoSteps => call[u].handle # call[t].handle
      BY <1>7, TfsCloseDoes, LockAssumption DEF LocksHeld
    <3>3. call[u].at = "aux_lock" => call[u].handle # call[t].handle
      <4>1. call[u].at = "aux_lock" => Held(call[u]) = call[u].handle
        BY <3>1 DEF Shaped, Held, OpenSteps
      <4>2. Held(call[t]) = call[t].handle /\ call[t].handle # -1
        BY <1>7, TfsCloseDoes, CallTyped DEF Shaped, Held, OpenSteps, Handle
      <4> QED BY <4>1, <4>2 DEF HandlesHeld
    <3> QED BY <1>7, <3>1, <3>2, <3>3, TfsCloseDoes DEF UsedIn, IoSteps
  <2> QED BY <2>1, <2>2 DEF HandlesUsed, UsedIn
<1>8. CASE copy_lock(t)
  BY <1>0, <1>2, <1>8, CopyLockDoes DEF UsedIn, IoSteps
<1>9. CASE copy_fwrite(t)
  BY <1>2, <1>9, CopyFwriteDoes, IdleTyped DEF UsedIn, IoSteps
<1>10. ASSUME NEW h \in Handle, NEW op \in {"write", "read"}, begin_io(t, op, h)
       PROVE  HandlesUsed'
  <2>1. h \notin free_open_file_entries
    BY <1>10, BeginIoDoes DEF HandlesHeld
  <2> QED BY <1>2, <1>10, <2>1, BeginIoDoes DEF UsedIn, IoSteps
<1>11. CASE lock_handle(t)
  <2>1. UsedIn(call'[t], free_open_file_entries, open_file_table)
    BY <1>0, <1>11, LockHandleDoes, IdleTyped DEF UsedIn, IoSteps
  <2> QED BY <1>2, <1>11, <2>1, LockHandleDoes
<1>12. CASE write_begin(t)
  BY <1>0, <1>2, <1>12, WriteBeginDoes DEF UsedIn, IoSteps
<1>13. CASE write_end(t) \/ read_done(t)
  <2>1. /\ Moves(t) /\ call[t].at \in IoSteps /\ call[t].handle \in Handle
        /\ call'[t].at \in {"idle", "fwrite"}
        /\ UNCHANGED free_open_file_entries
        /\ open_file_table'[call[t].handle].of_inumber
                = open_file_table[call[t].handle].of_inumber
        /\ \A h \in Handle \ {call[t].handle} : open_file_table'[h] = open_file_table[h]
    BY <1>13, WriteEndDoes, ReadDoneDoes, IdleTyped DEF IoSteps
  <2>2. UsedIn(call'[t], free_open_file_entries', open_file_table')
    BY <1>1, <2>1 DEF IoSteps
  <2>3. ASSUME NEW u \in Thread \ {t}, call[u].at \in IoSteps
        PROVE  call[u].handle # call[t].handle /\ call[u].handle \notin free_open_file_entries
    BY <2>1, <2>3 DEF LocksHeld, HandlesUsed, UsedIn
  <2>4. ASSUME NEW u \in Thread \ {t}, call[u].at \in IoSteps \cup {"aux_lock", "handle_lock"}
        PROVE  /\ call[u].handle \in Handle
               /\ open_file_table'[call[u].handle].of_inumber
                    = open_file_table[call[u].handle].of_inumber
    BY <2>1, <2>4, CallTyped DEF OpenSteps, IoSteps
  <2> QED BY <2>1, <2>2, <2>3, <2>4, UsedStays
<1>14. CASE write_fails(t) \/ read_past_end(t)
  BY <1>2, <1>14, WriteFailsDoes, ReadPastEndDoes, IdleTyped DEF UsedIn, IoSteps
<1>15. CASE read_begin(t)
  BY <1>0, <1>2, <1>15, ReadBeginDoes DEF UsedIn, IoSteps
<1>16. CASE read_end(t)
  BY <1>0, <1>2, <1>16, ReadEndDoes DEF UsedIn, IoSteps
<1> QED
  BY <1>3, <1>4, <1>5, <1>6, <1>7, <1>8, <1>9, <1>10, <1>11, <1>12, <1>13, <1>14, <1>15, <1>16
     DEF Step, OpenStep, CloseStep, CopyStep, BeginIoStep, IoStep

-----------------------------------------------------------------------------
(* The entries and the inodes *)

LEMMA EntriesPackedStep ==
  ASSUME Typed, EntriesPacked, NEW t \in Thread, Step(t)
  PROVE  EntriesPacked'
<1>1. CASE UNCHANGED root_dir
  BY <1>1 DEF EntriesPacked, FreeSlots
<1>2. CASE add_dir_entry(t) /\ root_dir' # root_dir
  <2>1. PICK s \in Slot : /\ IsFirst(s, FreeSlots)
                          /\ \A r \in Slot \ {s} : root_dir'[r] = root_dir[r]
    BY <1>2, AddDirEntryDoes
  <2> QED BY <2>1 DEF EntriesPacked, FreeSlots, IsFirst, Slot
<1> QED BY <1>1, <1>2, RootDirStays

LEMMA EntryIs ==
  /\ \A s : s \in Entries <=> s \in Slot /\ root_dir[s].d_inumber # -1
  /\ \A s : s \in Entries' <=> s \in Slot /\ root_dir'[s].d_inumber # -1
  BY DEF Entries, FreeSlots

LEMMA CreatingIs ==
  /\ \A t : t \in Creating <=> t \in Thread /\ call[t].at \in {"add_entry", "delete"}
  /\ \A t : t \in Creating' <=> t \in Thread /\ call'[t].at \in {"add_entry", "delete"}
  BY DEF Creating

LEMMA OwnedStays ==
  ASSUME InodesOwned, NEW t \in Thread, Keeps(t), UNCHANGED <<freeinode_ts, root_dir>>,
         \A i \in Inumber : inode_table'[i].i_node_type = inode_table[i].i_node_type,
         \/ call[t].at \notin {"add_entry", "delete"} /\ call'[t].at \notin {"add_entry", "delete"}
         \/ /\ call[t].at \in {"add_entry", "delete"} /\ call'[t].at \in {"add_entry", "delete"}
            /\ call'[t].inum = call[t].inum
  PROVE  InodesOwned'
<1>1. Entries' = Entries /\ \A i : Named(i) <=> StillNamed(i)
  BY DEF Entries, FreeSlots, Named, StillNamed
<1>2. Creating' = Creating /\ \A u \in Creating : call'[u].inum = call[u].inum
  BY DEF Creating, Keeps
<1> QED BY <1>1, <1>2 DEF InodesOwned, Named, StillNamed

LEMMA InodesOwnedStep ==
  ASSUME Typed, InodesOwned, NEW t \in Thread, Step(t)
  PROVE  InodesOwned'
<1> USE DEF Typed
<1>0. Keeps(t)
  BY QuietSteps, IoStepDoes DEF Step, Keeps, Moves
<1> DEFINE i == call[t].inum
<1>1. ASSUME NEW op \in {"open", "copy"}, NEW n \in Name, NEW flags \in SUBSET FlagNames,
             open_lookup(t, op, n, flags)
      PROVE  InodesOwned'
  BY <1>0, <1>1, OpenLookupDoes, OwnedStays DEF inodeVars
<1>2. CASE open_existing(t)
  BY <1>0, <1>2, OpenExistingDoes, OwnedStays
<1>3. CASE inode_create(t)
  <2>1. CASE UNCHANGED inodeVars
    <3>1. call'[t].at \notin {"add_entry", "delete"}
      BY <1>3, <2>1, InodeCreateDoes, IdleTyped DEF inodeVars
    <3> QED BY <1>0, <1>3, <2>1, <3>1, InodeCreateDoes, OwnedStays DEF inodeVars
  <2>2. CASE /\ i \in freeinode_ts /\ freeinode_ts' = freeinode_ts \ {i}
             /\ call'[t].at = "add_entry" /\ call'[t].inum = i
             /\ \A j \in Inumber : inode_table'[j].i_node_type
                        = IF j = i THEN "T_FILE" ELSE inode_table[j].i_node_type
    <3>1. i \in Inumber \ {ROOT_DIR_INUM}
      BY <2>2 DEF TypeOK
    <3>2. /\ Entries' = Entries /\ root_dir' = root_dir
          /\ \A j : Named(j) <=> StillNamed(j)
      BY <1>3, InodeCreateDoes DEF Entries, FreeSlots, Named, StillNamed
    <3>3. /\ Creating' = Creating \cup {t} /\ t \notin Creating
          /\ \A u \in Creating : call'[u].inum = call[u].inum /\ u # t
      BY <1>0, <1>3, <2>2, InodeCreateDoes DEF Creating, Keeps
    <3>4. \A j \in Inumber \ (freeinode_ts' \cup {ROOT_DIR_INUM}) :
            StillNamed(j) \/ \E u \in Creating' : call'[u].inum = j
      BY <2>2, <3>2, <3>3 DEF InodesOwned
    <3>5. \A s \in Entries' :
            /\ root_dir'[s].d_inumber \in Inumber \ (freeinode_ts' \cup {ROOT_DIR_INUM})
            /\ inode_table'[root_dir'[s].d_inumber].i_node_type = "T_FILE"
            /\ \A r \in Entries' : root_dir'[r].d_inumber = root_dir'[s].d_inumber => r = s
            /\ \A u \in Creating' : call'[u].inum # root_dir'[s].d_inumber
      BY <2>2, <3>2, <3>3 DEF InodesOwned
    <3>6. \A u \in Creating' :
            /\ call'[u].inum \in Inumber \ (freeinode_ts' \cup {ROOT_DIR_INUM})
            /\ inode_table'[call'[u].inum].i_node_type = "T_FILE"
            /\ \A v \in Creating' : call'[v].inum = call'[u].inum => v = u
      BY <2>2, <3>1, <3>3 DEF InodesOwned
    <3> QED BY <3>4, <3>5, <3>6 DEF InodesOwned, Named, StillNamed
  <2> QED BY <1>3, <2>1, <2>2, InodeCreateDoes
<1>4. CASE add_dir_entry(t)
  <2>1. CASE UNCHANGED root_dir /\ call'[t].at = "delete"
    BY <1>0, <1>4, <2>1, AddDirEntryDoes, OwnedStays DEF inodeVars
  <2>2. ASSUME NEW s \in FreeSlots,
               root_dir'[s].d_inumber = i,
               \A r \in Slot \ {s} : root_dir'[r] = root_dir[r],
               call'[t].at = "add_handle"
        PROVE  InodesOwned'
    <3>1. UNCHANGED inodeVars /\ t \in Creating
      BY <1>4, AddDirEntryDoes, CreatingIs
    <3>2. i # -1 /\ i \in Inumber \ (freeinode_ts \cup {ROOT_DIR_INUM})
          /\ inode_table[i].i_node_type = "T_FILE"
      BY <3>1 DEF InodesOwned, Inumber
    <3>3. /\ s \in Slot /\ s \notin Entries /\ Entries' = Entries \cup {s}
          /\ \A r \in Entries : root_dir'[r] = root_dir[r] /\ r # s
      BY <2>2, <3>2, EntryIs DEF FreeSlots, Entries
    <3>4. /\ Creating' = Creating \ {t}
          /\ \A u \in Creating' : call'[u].inum = call[u].inum
      BY <1>0, <2>2 DEF Creating, Keeps
    <3>5. \A j \in Inumber \ (freeinode_ts' \cup {ROOT_DIR_INUM}) :
            StillNamed(j) \/ \E u \in Creating' : call'[u].inum = j
      <4>1. \A j : Named(j) \/ j = i => StillNamed(j)
        BY <2>2, <3>3 DEF Named, StillNamed
      <4> QED BY <3>1, <3>4, <4>1 DEF InodesOwned, inodeVars
    <3>6. \A r \in Entries' :
            /\ root_dir'[r].d_inumber \in Inumber \ (freeinode_ts' \cup {ROOT_DIR_INUM})
            /\ inode_table'[root_dir'[r].d_inumber].i_node_type = "T_FILE"
            /\ \A u \in Creating' : call'[u].inum # root_dir'[r].d_inumber
      BY <2>2, <3>1, <3>2, <3>3, <3>4 DEF InodesOwned, inodeVars
    <3>7. \A q, r \in Entries' : root_dir'[r].d_inumber = root_dir'[q].d_inumber => r = q
      BY <2>2, <3>1, <3>3 DEF InodesOwned
    <3>8. \A u \in Creating' :
            /\ call'[u].inum \in Inumber \ (freeinode_ts' \cup {ROOT_DIR_INUM})
            /\ inode_table'[call'[u].inum].i_node_type = "T_FILE"
            /\ \A v \in Creating' : call'[v].inum = call'[u].inum => v = u
      BY <3>1, <3>4 DEF InodesOwned, inodeVars
    <3>9. \A r \in Entries' :
            /\ root_dir'[r].d_inumber \in Inumber \ (freeinode_ts' \cup {ROOT_DIR_INUM})
            /\ inode_table'[root_dir'[r].d_inumber].i_node_type = "T_FILE"
            /\ \A q \in Entries' : root_dir'[q].d_inumber = root_dir'[r].d_inumber => q = r
            /\ \A u \in Creating' : call'[u].inum # root_dir'[r].d_inumber
      BY <3>6, <3>7
    <3> QED BY <3>5, <3>8, <3>9 DEF InodesOwned, Named, StillNamed
  <2>3. CASE call'[t].at = "add_handle"
    <3>1. PICK s \in Slot :
                /\ IsFirst(s, FreeSlots)
                /\ root_dir'[s] = [d_name |-> call[t].name, d_inumber |-> i]
                /\ \A r \in Slot \ {s} : root_dir'[r] = root_dir[r]
      BY <1>4, <2>3, AddDirEntryDoes
    <3>2. s \in FreeSlots /\ root_dir'[s].d_inumber = i
      BY <3>1 DEF IsFirst
    <3> QED BY <2>2, <2>3, <3>1, <3>2
  <2> QED BY <1>4, <2>1, <2>3, AddDirEntryDoes
<1>5. CASE inode_delete(t)
  <2>1. /\ t \in Creating /\ freeinode_ts' = freeinode_ts \cup {i} /\ root_dir' = root_dir
        /\ call'[t].at \notin {"add_entry", "delete"}
        /\ \A j \in Inumber : j # i => inode_table'[j].i_node_type = inode_table[j].i_node_type
    BY <1>5, InodeDeleteDoes, CreatingIs, IdleTyped
  <2>2. Entries' = Entries /\ \A j : Named(j) <=> StillNamed(j)
    BY <2>1 DEF Entries, FreeSlots, Named, StillNamed
  <2>3. /\ Creating' = Creating \ {t}
        /\ \A u \in Creating' : call'[u].inum = call[u].inum /\ call[u].inum # i
    BY <1>0, <2>1 DEF Creating, Keeps, InodesOwned
  <2>4. \A j \in Inumber \ (freeinode_ts' \cup {ROOT_DIR_INUM}) :
            StillNamed(j) \/ \E u \in Creating' : call'[u].inum = j
    BY <2>1, <2>2, <2>3 DEF InodesOwned
  <2>5. \A s \in Entries' :
            /\ root_dir'[s].d_inumber \in Inumber \ (freeinode_ts' \cup {ROOT_DIR_INUM})
            /\ inode_table'[root_dir'[s].d_inumber].i_node_type = "T_FILE"
            /\ \A r \in Entries' : root_dir'[r].d_inumber = root_dir'[s].d_inumber => r = s
            /\ \A u \in Creating' : call'[u].inum # root_dir'[s].d_inumber
    BY <2>1, <2>2, <2>3 DEF InodesOwned
  <2>6. \A u \in Creating' :
            /\ call'[u].inum \in Inumber \ (freeinode_ts' \cup {ROOT_DIR_INUM})
            /\ inode_table'[call'[u].inum].i_node_type = "T_FILE"
            /\ \A v \in Creating' : call'[v].inum = call'[u].inum => v = u
    BY <2>1, <2>3 DEF InodesOwned
  <2> QED BY <2>4, <2>5, <2>6 DEF InodesOwned, Named, StillNamed
<1>6. CASE add_to_open_file_table(t)
  BY <1>0, <1>6, AddHandleDoes, IdleTyped, OwnedStays DEF inodeVars
<1>7. CASE CloseStep(t) \/ CopyStep(t) \/ BeginIoStep(t)
  <2>1. /\ call[t].at \notin {"add_entry", "delete"} /\ call'[t].at \notin {"add_entry", "delete"}
        /\ UNCHANGED <<inodeVars, root_dir>>
    BY <1>7, IdleTyped, CloseBeginDoes, TfsCloseDoes, CopyLockDoes, CopyFwriteDoes, BeginIoDoes
       DEF CloseStep, CopyStep, BeginIoStep
  <2> QED BY <1>0, <2>1, OwnedStays DEF inodeVars
<1>8. CASE IoStep(t)
  <2>1. call[t].at \notin {"add_entry", "delete"} /\ call'[t].at \notin {"add_entry", "delete"}
    BY <1>8, IoStepDoes DEF IoSteps
  <2> QED BY <1>0, <1>8, <2>1, IoStepDoes, OwnedStays
<1> QED BY <1>1, <1>2, <1>3, <1>4, <1>5, <1>6, <1>7, <1>8 DEF Step, OpenStep

-----------------------------------------------------------------------------
(* The invariant *)

LEMMA LocksInvInit == Init => LocksInv
<1> SUFFICES ASSUME Init PROVE LocksInv
  OBVIOUS
<1>1. TypeOK
  <2>1. call \in [Thread -> Call]
    BY IdleTyped DEF Init
  <2>2. inode_table \in [Inumber -> [i_node_type : {"T_DIRECTORY", "T_FILE", "T_PREV_USED"},
                                      i_size : 0 .. MAX_FILE_SIZE]]
    BY LockAssumption DEF Init
  <2>3. open_file_table \in [Handle -> [of_inumber : Inumber, of_offset : 0 .. MAX_FILE_SIZE]]
    BY LockAssumption DEF Init, Inumber
  <2>4. inode_rw_locks \in [Inumber -> [writer : Thread \cup {NoThread},
                                         readers : SUBSET Thread]]
    BY DEF Init, Unlocked
  <2>5. calls \in [Thread -> Nat] /\ \A t \in Thread : calls[t] <= MaxCalls[t]
    BY LockAssumption DEF Init
  <2> QED BY <2>1, <2>2, <2>3, <2>4, <2>5 DEF Init, TypeOK
<1>2. \A t \in Thread : call[t] = Idle /\ Held(Idle) = -1
  BY IdleTyped DEF Init, Held
<1>3. Typed
  BY <1>1, <1>2, IdleTyped DEF Typed, CallsShaped, Shaped
<1>4. LocksHeld
  BY <1>2, IdleTyped, LockAssumption DEF Init, LocksHeld, Unlocked, IoSteps
<1>5. BufferHeld
  BY <1>2, IdleTyped, LockAssumption DEF Init, BufferHeld, HoldsBuffer
<1>6. HandlesHeld
  <2>1. InHand = {}
    BY <1>2, InHandIs
  <2> QED BY <1>2, <2>1 DEF Init, HandlesHeld
<1>7. HandlesNamed /\ HandlesUsed
  BY <1>2, IdleTyped DEF Init, HandlesNamed, HandlesUsed, UsedIn, IoSteps
<1>8. FreeSlots = Slot /\ Entries = {} /\ Creating = {}
  BY <1>2, IdleTyped DEF Init, FreeSlots, Entries, Creating
<1>9. EntriesPacked /\ InodesOwned
  BY <1>8 DEF Init, EntriesPacked, InodesOwned
<1> QED BY <1>3, <1>4, <1>5, <1>6, <1>7, <1>9 DEF LocksInv

LEMMA LocksInvStep == LocksInv /\ [Next]_vars => LocksInv'
<1> SUFFICES ASSUME LocksInv, [Next]_vars PROVE LocksInv'
  OBVIOUS
<1> USE DEF LocksInv
<1>1. CASE Next
  <2> PICK t \in Thread : Step(t)
    BY <1>1, NextSteps
  <2>1. Typed'
    BY QuietSteps, IoStepDoes DEF Step
  <2> QED BY <2>1, LocksHeldStep, BufferHeldStep, HandlesHeldStep, HandlesNamedStep,
             HandlesUsedStep, EntriesPackedStep, InodesOwnedStep
<1>2. CASE UNCHANGED vars
  <2> USE <1>2 DEF vars, inodeVars, handleVars, lockVars, auxVars, callerVars
  <2>1. Typed'
    BY DEF Typed, TypeOK, CallsShaped, Shaped
  <2>2. LocksHeld' /\ BufferHeld'
    BY DEF LocksHeld, BufferHeld, HoldsBuffer
  <2>3. HandlesHeld'
    BY DEF HandlesHeld, InHand, Held
  <2>4. HandlesNamed' /\ HandlesUsed'
    BY DEF HandlesNamed, Named, Entries, FreeSlots, HandlesUsed, UsedIn
  <2>5. EntriesPacked' /\ InodesOwned'
    BY DEF EntriesPacked, InodesOwned, Named, Entries, FreeSlots, Creating
  <2> QED BY <2>1, <2>2, <2>3, <2>4, <2>5
<1> QED BY <1>1, <1>2

\* The inductive invariant: the locks of handles and inodes, the buffer of the
\* copies, handles, names and inodes are with the calls their steps say, for any
\* number of threads and calls and for tables of any size.
THEOREM LocksAlwaysHeld == Spec => []LocksInv
  BY LocksInvInit, LocksInvStep, PTL DEF Spec

\* Inodes, handles, positions and the local variables of calls stay within
\* their tables and sizes, however the steps of the calls interleave.
THEOREM LocksTypeCorrect == Spec => []TypeOK
<1>1. LocksInv => TypeOK
  BY DEF LocksInv, Typed
<1> QED BY <1>1, LocksAlwaysHeld, PTL

\* Every TAKEN inode has one entry or is in the hands of one tfs_open that
\* creates it (inode_create, add_dir_entry, inode_delete); no entry leads to a
\* FREE or deleted inode.
THEOREM InodesAlwaysAccounted == Spec => []InodesAccounted
<1>1. LocksInv => InodesAccounted
  <2> SUFFICES ASSUME LocksInv PROVE InodesAccounted
    OBVIOUS
  <2> USE DEF LocksInv
  <2> DEFINE Es(i) == {s \in Entries : root_dir[s].d_inumber = i}
             Cs(i) == {t \in Creating : call[t].inum = i}
  <2>1. ASSUME NEW i \in Inumber \ {ROOT_DIR_INUM}, i \in freeinode_ts
        PROVE  Cardinality(Es(i)) + Cardinality(Cs(i)) = 0
    <3>1. Es(i) = {} /\ Cs(i) = {}
      BY <2>1 DEF InodesOwned
    <3>2. Cardinality(Es(i)) = 0 /\ Cardinality(Cs(i)) = 0
      BY <3>1, FS_EmptySet
    <3> QED BY <3>2
  <2>2. ASSUME NEW i \in Inumber \ {ROOT_DIR_INUM}, i \notin freeinode_ts
        PROVE  Cardinality(Es(i)) + Cardinality(Cs(i)) = 1
    <3>1. CASE Named(i)
      <4>1. PICK s \in Entries : root_dir[s].d_inumber = i
        BY <3>1 DEF Named
      <4>2. Es(i) = {s} /\ Cs(i) = {}
        BY <4>1 DEF InodesOwned
      <4>3. Cardinality(Es(i)) = 1 /\ Cardinality(Cs(i)) = 0
        BY <4>2, FS_EmptySet, FS_Singleton
      <4> QED BY <4>3
    <3>2. CASE ~ Named(i)
      <4>1. PICK t \in Creating : call[t].inum = i
        BY <2>2, <3>2 DEF InodesOwned
      <4>2. Cs(i) = {t} /\ Es(i) = {}
        BY <3>2, <4>1 DEF InodesOwned, Named
      <4>3. Cardinality(Cs(i)) = 1 /\ Cardinality(Es(i)) = 0
        BY <4>2, FS_EmptySet, FS_Singleton
      <4> QED BY <4>3
    <3> QED BY <3>1, <3>2
  <2>3. \A s \in Entries : inode_table[root_dir[s].d_inumber].i_node_type = "T_FILE"
    BY DEF InodesOwned
  <2> QED BY <2>1, <2>2, <2>3 DEF InodesAccounted
<1> QED BY <1>1, LocksAlwaysHeld, PTL

\* A TAKEN handle is its caller's, or a tfs_close's or copy's that will give it
\* back, or was left open by a failed copy, never two of them; and the
\* directory names its file.
THEOREM HandlesAlwaysAccounted == Spec => []HandlesAccounted
<1>1. LocksInv => HandlesAccounted
  BY DEF LocksInv, HandlesHeld, HandlesNamed, Named, HandlesAccounted
<1> QED BY <1>1, LocksAlwaysHeld, PTL

\* While tfs_write or tfs_read works on the inode it looked up under the lock
\* of its handle, no tfs_close, tfs_open or other call through the handle gives
\* the handle away or moves it.
THEOREM CallsNeverOvertaken == Spec => []NoCallOvertaken
<1>1. LocksInv => NoCallOvertaken
  <2> SUFFICES ASSUME LocksInv, NEW t \in Thread,
                      call[t].at \in {"writing", "reading", "read_done"}
               PROVE  /\ call[t].handle \notin free_open_file_entries
                      /\ open_file_table[call[t].handle]
                            = [of_inumber |-> call[t].inum, of_offset |-> call[t].offset]
                      /\ call[t].meant \in {-1, call[t].inum}
    BY DEF NoCallOvertaken
  <2> USE DEF LocksInv
  <2>1. UsedIn(call[t], free_open_file_entries, open_file_table) /\ call[t].at \in IoSteps
    BY DEF HandlesUsed, IoSteps
  <2>2. open_file_table[call[t].handle] \in [of_inumber : Inumber, of_offset : 0 .. MAX_FILE_SIZE]
    BY <2>1, IoCall DEF Typed, TypeOK
  <2> QED BY <2>1, <2>2 DEF UsedIn
<1> QED BY <1>1, LocksAlwaysHeld, PTL

\* While write_impl is at work on an inode, no read_impl and no other write_impl
\* is, through whichever handle: the inode's lock excludes them.
THEOREM WritesAlwaysAlone == Spec => []WritesAlone
<1>1. LocksInv => WritesAlone
  <2> SUFFICES ASSUME LocksInv, NEW t \in Thread, NEW u \in Thread \ {t},
                      At(t, "writing"), call[u].at \in {"writing", "reading"},
                      call[u].inum = call[t].inum
               PROVE  FALSE
    BY DEF WritesAlone
  <2> USE DEF LocksInv, At
  <2> DEFINE i == call[t].inum
  <2>1. i \in Inumber
    BY IoCall DEF IoSteps
  <2>2. inode_rw_locks[i].writer = t /\ inode_rw_locks[i].readers = {}
    BY <2>1, LockAssumption DEF LocksHeld
  <2>3. inode_rw_locks[i].writer = u \/ u \in inode_rw_locks[i].readers
    BY <2>1 DEF LocksHeld
  <2> QED BY <2>2, <2>3
<1> QED BY <1>1, LocksAlwaysHeld, PTL

\* Which steps change an inode: those that have its lock, or take it.
LEMMA SizesStay ==
  ASSUME Typed, NEW u \in Thread, Step(u), NEW i \in Inumber
  PROVE  \/ inode_table'[i] = inode_table[i]
         \/ inode_rw_locks[i] = Unlocked
         \/ call[u].at = "writing" /\ call[u].inum = i /\ call'[u].at = "idle"
<1> USE DEF Typed, TypeOK
<1>1. CASE open_existing(u) \/ inode_create(u) \/ inode_delete(u)
  BY <1>1 DEF open_existing, inode_create, inode_delete, CanWrlock, inodeVars
<1>2. CASE write_end(u)
  BY <1>2, WriteEndDoes, IdleTyped
<1>3. CASE UNCHANGED inode_table
  BY <1>3
<1>4. UNCHANGED inode_table \/ open_existing(u) \/ inode_create(u) \/ inode_delete(u)
      \/ write_end(u)
  BY DEF Step, OpenStep, CloseStep, CopyStep, BeginIoStep, IoStep, open_lookup,
         add_dir_entry, add_to_open_file_table, close_begin, tfs_close, copy_lock,
         copy_fwrite, begin_io, lock_handle, write_begin, write_fails, read_begin,
         read_end, read_past_end, read_done, inodeVars
<1> QED BY <1>1, <1>2, <1>3, <1>4

\* While write_impl or read_impl is at work on an inode, no tfs_open truncates the
\* file and no tfs_write makes it longer.
THEOREM SizesKeptUnderCalls == Spec => SizeKeptUnderCall
<1> DEFINE Keeping == \A t \in Thread :
              call[t].at \in {"writing", "reading"} /\ call'[t] = call[t] =>
                  inode_table'[call[t].inum] = inode_table[call[t].inum]
<1>1. LocksInv /\ [Next]_vars => [Keeping]_vars
  <2> SUFFICES ASSUME LocksInv, Next, NEW t \in Thread,
                      call[t].at \in {"writing", "reading"}, call'[t] = call[t]
               PROVE  inode_table'[call[t].inum] = inode_table[call[t].inum]
    OBVIOUS
  <2> USE DEF LocksInv
  <2> DEFINE i == call[t].inum
  <2>1. PICK u \in Thread : Step(u)
    BY NextSteps
  <2>2. i \in Inumber
    BY IoCall DEF IoSteps
  <2>3. inode_rw_locks[i].writer = t \/ t \in inode_rw_locks[i].readers
    BY <2>2 DEF LocksHeld
  <2>4. inode_rw_locks[i] # Unlocked
    BY <2>3, LockAssumption DEF Unlocked
  <2>5. ~ (call[u].at = "writing" /\ call[u].inum = i /\ call'[u].at = "idle")
    <3> SUFFICES ASSUME call[u].at = "writing", call[u].inum = i, call'[u].at = "idle"
                 PROVE  FALSE
      OBVIOUS
    <3>1. inode_rw_locks[i].writer = u
      BY <2>2 DEF LocksHeld
    <3>2. inode_rw_locks[i].readers = {} /\ u # t
      BY <2>2, <3>1, LockAssumption DEF LocksHeld
    <3> QED BY <2>3, <3>1, <3>2
  <2> QED BY <2>1, <2>2, <2>4, <2>5, SizesStay
<1> QED BY <1>1, LocksAlwaysHeld, PTL DEF SizeKeptUnderCall, Spec

\* tfs_copy_to_external_fs writes out what its own tfs_read put into the buffer
\* that all copies share.
THEOREM CopiesWriteWhatTheyRead == Spec => []CopyWritesWhatItRead
<1>1. LocksInv => CopyWritesWhatItRead
  BY CallTyped DEF LocksInv, BufferHeld, HoldsBuffer, CopyWritesWhatItRead, At, Shaped,
                   OpenSteps
<1> QED BY <1>1, LocksAlwaysHeld, PTL

\* A name that tfs_lookup has found leads to the same file for good, although
\* two tfs_open may both miss it and create it.
THEOREM NamesKeepTheirFiles == Spec => NameKeepsItsFile
<1> DEFINE Keeping == \A n \in Name, s \in Slot : IsFirst(s, Found(n)) =>
                            IsFirst(s, Found(n))' /\ root_dir'[s] = root_dir[s]
<1>1. LocksInv /\ [Next]_vars => [Keeping]_vars
  <2> SUFFICES ASSUME LocksInv, Next PROVE Keeping
    OBVIOUS
  <2>1. PICK t \in Thread : Step(t)
    BY NextSteps
  <2>2. CASE UNCHANGED root_dir
    BY <2>2 DEF IsFirst, Found, FreeSlots
  <2>3. CASE add_dir_entry(t) /\ root_dir' # root_dir
    <3>1. PICK r \in Slot : /\ IsFirst(r, FreeSlots)
                            /\ \A q \in Slot \ {r} : root_dir'[q] = root_dir[q]
      BY <2>3, AddDirEntryDoes DEF LocksInv
    <3>2. ASSUME NEW n \in Name, NEW s \in Slot, IsFirst(s, Found(n))
          PROVE  IsFirst(s, Found(n))' /\ root_dir'[s] = root_dir[s]
      <4>1. s \in Slot \ FreeSlots /\ root_dir[s].d_name = n /\ s <= r
        BY <3>1, <3>2 DEF IsFirst, Found, LocksInv, EntriesPacked, Slot
      <4>2. root_dir'[s] = root_dir[s] /\ s \in Found(n)'
        BY <3>1, <4>1 DEF IsFirst, Found, FreeSlots
      <4>3. \A q \in Found(n)' : q \in Found(n) \/ q = r
        BY <3>1 DEF Found, FreeSlots
      <4> QED BY <3>2, <4>1, <4>2, <4>3 DEF IsFirst
    <3> QED BY <3>2
  <2> QED BY <2>1, <2>2, <2>3, RootDirStays
<1> QED BY <1>1, LocksAlwaysHeld, PTL DEF NameKeepsItsFile, Spec
=============================================================================
