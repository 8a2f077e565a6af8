---------------------------- MODULE SessionFiles ----------------------------
(***************************************************************************)
(* Which files the sessions of ex2 have open: the handle table and its     *)
(* counter (fs/operations.c), and what each worker writes down in          *)
(* open_files and open_files_amount to close the files of a client that    *)
(* leaves or dies (fs/tfs_server.c).                                       *)
(*                                                                         *)
(* One step is what a worker does under one lock of the file system and,   *)
(* with it, what it does to its own session's entries.  Clients close the  *)
(* handles they were given, and leave when a request of theirs fails: what *)
(* a client does that goes on is in module SessionServer, with pipes and   *)
(* buffers.  The gate's own steps are in module ExecGate.                  *)
(***************************************************************************)
EXTENDS Integers, FiniteSets

CONSTANTS
    Session,
    NoSession,
    MAX_OPEN_FILES,      \* handles, and entries a session has for them
    SIZE_MOD,            \* one more than the largest size_t
    UINT_MOD,            \* one more than the largest unsigned int
    MaxMounts, MaxOpens  \* bounds: mounts, and calls of tfs_open

ASSUME FilesAssumption ==
    /\ IsFiniteSet(Session) /\ NoSession \notin Session
    /\ MAX_OPEN_FILES \in Nat \ {0} /\ MaxMounts \in Nat /\ MaxOpens \in Nat
    /\ SIZE_MOD \in Nat /\ SIZE_MOD > MAX_OPEN_FILES
    /\ UINT_MOD \in Nat /\ UINT_MOD > MAX_OPEN_FILES + MaxOpens

VARIABLES
    free_open_file_entries,     \* the FREE handles
    open_count,                 \* open_files of operations.c
    can_exec,
    free_open_session_entries,  \* the FREE sessions
    open_files,                 \* each session's entries, -1 for none
    open_files_amount,
    thread,                     \* where each session's worker is
    main,                       \* the session the main thread takes back, if any
    stopped,                    \* has the server exited, and from where?
    client,                     \* the client of each session
    given,                      \* the handles it was given and has not closed
    opened_by,                  \* history: the session that opened a handle
    several,                    \* history: sessions with two files open at once
    reclaimed,                  \* history: sessions taken over from the dead
    robbed,                     \* history: an ending session closed another's file
    failed,                     \* history: opens that failed and were counted
    mounts, opens               \* counters for the bounds

tables == <<free_open_file_entries, open_count, opened_by>>
entries == <<open_files, open_files_amount>>
history == <<several, reclaimed, robbed, failed>>
server == <<can_exec, main, stopped>>
vars == <<tables, free_open_session_entries, entries, thread, server, client, given,
          history, mounts, opens>>

Handle == 0 .. MAX_OPEN_FILES - 1
Entry == 0 .. MAX_OPEN_FILES - 1

IsFirst(i, S) == i \in S /\ \A j \in S : i <= j

Init ==
    /\ free_open_file_entries = Handle
    /\ open_count = 0
    /\ can_exec = TRUE /\ main = NoSession /\ stopped = "no"
    /\ free_open_session_entries = Session
    /\ open_files = [s \in Session |-> [i \in Entry |-> -1]]
    /\ open_files_amount = [s \in Session |-> 0]
    /\ thread = [s \in Session |-> [at |-> "waiting", handle |-> -1]]
    /\ client = [s \in Session |-> "none"]
    /\ given = [s \in Session |-> {}]
    /\ opened_by = [h \in Handle |-> NoSession]
    /\ several = {} /\ reclaimed = {} /\ robbed = FALSE /\ failed = 0
    /\ mounts = 0 /\ opens = 0

\* Nothing happens in a server that exited.
Running == stopped = "no"
At(s, step) == Running /\ thread[s].at = step
Goto(s, step, h) == thread' = [thread EXCEPT ![s] = [at |-> step, handle |-> h]]

\* do_unmount up to its loop: the session is FREE before its files are closed,
\* and none is looked at if the amount is zero.
do_unmount(s, amount) ==
    /\ free_open_session_entries' = free_open_session_entries \cup {s}
    /\ client' = [client EXCEPT ![s] = "none"]
    /\ given' = [given EXCEPT ![s] = {}]
    /\ Goto(s, IF amount # 0 THEN "unmounting" ELSE "waiting", -1)

-----------------------------------------------------------------------------
(* Mounts *)

\* decide_mount finds a FREE session, maybe while its worker still closes the
\* files of the last client.
mount_free(s) ==
    /\ Running /\ main = NoSession
    /\ mounts < MaxMounts
    /\ s \in free_open_session_entries
    /\ free_open_session_entries' = free_open_session_entries \ {s}
    /\ client' = [client EXCEPT ![s] = "mounting"]
    /\ mounts' = mounts + 1
    /\ UNCHANGED <<tables, server, entries, thread, given, history, opens>>

\* decide_mount polls a TAKEN one whose client is dead, and waits for its worker.
poll_dead(s) ==
    /\ Running /\ main = NoSession
    /\ mounts < MaxMounts
    /\ s \notin free_open_session_entries /\ client[s] = "dead"
    /\ main' = s
    /\ mounts' = mounts + 1
    /\ UNCHANGED <<tables, free_open_session_entries, entries, thread, can_exec, stopped,
                   client, given, history, opens>>

\* The worker waits for a request: the session is TAKEN again, even if it was
\* ended meanwhile.  If it was not, nobody looks at the files it has open.
mount_dead(s) ==
    /\ main = s
    /\ At(s, "waiting")
    /\ main' = NoSession
    /\ free_open_session_entries' = free_open_session_entries \ {s}
    /\ client' = [client EXCEPT ![s] = "mounting"]
    /\ given' = [given EXCEPT ![s] = {}]
    /\ reclaimed' = IF client[s] = "dead" THEN reclaimed \cup {s} ELSE reclaimed
    /\ UNCHANGED <<tables, entries, thread, can_exec, stopped, several, robbed, failed,
                   mounts, opens>>

\* The worker answers, unless the client died.
server_mount_state(s) ==
    /\ At(s, "waiting") /\ client[s] = "mounting"
    /\ \/ /\ client' = [client EXCEPT ![s] = "alive"]
          /\ UNCHANGED <<free_open_session_entries, thread, given>>
       \/ do_unmount(s, open_files_amount[s])
    /\ UNCHANGED <<tables, server, entries, history, mounts, opens>>

\* A client dies between two requests, or while its open is served.
client_dies(s) ==
    /\ Running
    /\ client[s] = "alive"
    /\ client' = [client EXCEPT ![s] = "dead"]
    /\ UNCHANGED <<tables, server, free_open_session_entries, entries, thread,
                   given, history, mounts, opens>>

\* UNMOUNT, or a READ or WRITE that fails or whose client dies meanwhile.
server_unmount_state(s) ==
    /\ At(s, "waiting") /\ client[s] = "alive"
    /\ do_unmount(s, open_files_amount[s])
    /\ UNCHANGED <<tables, server, entries, history, mounts, opens>>

-----------------------------------------------------------------------------
(* OPEN *)

\* tfs_open, up to where it counts; behind a closed gate nothing is counted.
server_open_state(s) ==
    /\ At(s, "waiting") /\ client[s] = "alive"
    /\ opens < MaxOpens
    /\ opens' = opens + 1
    /\ \/ /\ can_exec
          /\ \E h \in Handle :
                /\ IsFirst(h, free_open_file_entries)
                /\ free_open_file_entries' = free_open_file_entries \ {h}
                /\ opened_by' = [opened_by EXCEPT ![h] = s]
                /\ Goto(s, "opening", h)
          /\ UNCHANGED <<free_open_session_entries, client, given>>
       \/ /\ can_exec
          /\ Goto(s, "opening", -1)
          /\ UNCHANGED <<free_open_file_entries, opened_by, free_open_session_entries,
                         client, given>>
       \/ /\ ~ can_exec
          /\ do_unmount(s, open_files_amount[s])
          /\ UNCHANGED <<free_open_file_entries, opened_by>>
    /\ UNCHANGED <<open_count, server, entries, history, mounts>>

\* Mutant: the client is given -1 as if it were a handle.
open_failed_Given(s) ==
    /\ At(s, "opening") /\ thread[s].handle = -1
    /\ open_count' = (open_count + 1) % UINT_MOD
    /\ failed' = failed + 1
    /\ given' = [given EXCEPT ![s] = @ \cup {-1}]
    /\ Goto(s, "waiting", -1)
    /\ UNCHANGED <<free_open_file_entries, opened_by, server, entries, client,
                   free_open_session_entries, several, reclaimed, robbed, mounts, opens>>

\* A failed open is counted, and its answer, -1, ends the session.
open_failed(s) ==
    /\ At(s, "opening") /\ thread[s].handle = -1
    /\ open_count' = (open_count + 1) % UINT_MOD
    /\ failed' = failed + 1
    /\ do_unmount(s, open_files_amount[s])
    /\ UNCHANGED <<free_open_file_entries, opened_by, server, entries, several,
                   reclaimed, robbed, mounts, opens>>

\* Mutant: the amount does not follow the entries.
record_NotCounted(s, h) ==
    /\ open_files' = [open_files EXCEPT ![s] =
            [i \in Entry |-> IF @[i] = -1 THEN h ELSE @[i]]]
    /\ UNCHANGED open_files_amount

\* Every entry that names no handle gets this one.
record(s, h) ==
    /\ open_files' = [open_files EXCEPT ![s] =
            [i \in Entry |-> IF @[i] = -1 THEN h ELSE @[i]]]
    /\ open_files_amount' = [open_files_amount EXCEPT ![s] = (@ + 1) % SIZE_MOD]

\* The handle is counted, recorded and given to the client, unless it died.
open_done(s) ==
    LET h == thread[s].handle
    IN /\ At(s, "opening") /\ h # -1
       /\ open_count' = (open_count + 1) % UINT_MOD
       /\ record(s, h)
       /\ several' = IF given[s] # {} THEN several \cup {s} ELSE several
       /\ \/ /\ client[s] = "alive"
             /\ given' = [given EXCEPT ![s] = @ \cup {h}]
             /\ Goto(s, "waiting", -1)
             /\ UNCHANGED <<free_open_session_entries, client>>
          \/ /\ client[s] = "dead"
             /\ do_unmount(s, open_files_amount'[s])
       /\ UNCHANGED <<free_open_file_entries, opened_by, server, reclaimed, robbed,
                      failed, mounts, opens>>

-----------------------------------------------------------------------------
(* CLOSE, and the loop of do_unmount *)

\* Mutant: a handle that is FREE already is counted off all the same.
tfs_close_CountsAgain(h) ==
    /\ free_open_file_entries' = free_open_file_entries \cup {h}
    /\ open_count' = (open_count - 1) % UINT_MOD
    /\ opened_by' = [opened_by EXCEPT ![h] = NoSession]

\* tfs_close: a handle that is FREE already is an error and nothing changes.
tfs_close(h) ==
    IF h \in free_open_file_entries THEN UNCHANGED tables
    ELSE /\ free_open_file_entries' = free_open_file_entries \cup {h}
         /\ open_count' = (open_count - 1) % UINT_MOD
         /\ opened_by' = [opened_by EXCEPT ![h] = NoSession]

Recorded(s, h) == {i \in Entry : open_files[s][i] = h}

\* Mutant: the entries keep the handle.
forget_Keeps(s, h) == UNCHANGED entries

\* Every entry that names the handle is cleared and counted off.
forget(s, h) ==
    /\ open_files' = [open_files EXCEPT ![s] =
            [i \in Entry |-> IF @[i] = h THEN -1 ELSE @[i]]]
    /\ open_files_amount' = [open_files_amount EXCEPT ![s] =
            (@ - Cardinality(Recorded(s, h))) % SIZE_MOD]

\* The answer may find the client dead, or be -1: the session ends.
server_close_state(s, h) ==
    /\ At(s, "waiting") /\ client[s] = "alive"
    /\ h \in given[s]
    /\ tfs_close(h)
    /\ \/ /\ h \notin free_open_file_entries
          /\ forget(s, h)
          /\ \/ /\ given' = [given EXCEPT ![s] = @ \ {h}]
                /\ UNCHANGED <<free_open_session_entries, thread, client>>
             \/ do_unmount(s, open_files_amount'[s])
       \/ /\ h \in free_open_file_entries
          /\ do_unmount(s, open_files_amount[s])
          /\ UNCHANGED entries
    /\ UNCHANGED <<server, history, mounts, opens>>

\* Mutant: the loop goes on until the amount is zero.
unmount_close_ByAmount(s) ==
    /\ At(s, "unmounting")
    /\ \/ \E i \in Entry :
            LET h == open_files[s][i]
            IN /\ IsFirst(i, {j \in Entry : open_files[s][j] # -1})
               /\ tfs_close(h)
               /\ robbed' = (robbed \/ opened_by[h] \notin {s, NoSession})
               /\ open_files' = [open_files EXCEPT ![s][i] = -1]
               /\ open_files_amount' = [open_files_amount EXCEPT ![s] =
                                            (@ - 1) % SIZE_MOD]
               /\ UNCHANGED thread
       \/ /\ open_files_amount[s] = 0
          /\ Goto(s, "waiting", -1)
          /\ UNCHANGED <<tables, entries, robbed>>
    /\ UNCHANGED <<server, free_open_session_entries, client, given, several,
                   reclaimed, failed, mounts, opens>>

\* One turn of the loop: the next entry that names a handle.
unmount_close(s) ==
    /\ At(s, "unmounting")
    /\ \/ \E i \in Entry :
            LET h == open_files[s][i]
            IN /\ IsFirst(i, {j \in Entry : open_files[s][j] # -1})
               /\ tfs_close(h)
               /\ robbed' = (robbed \/ opened_by[h] \notin {s, NoSession})
               /\ open_files' = [open_files EXCEPT ![s][i] = -1]
               /\ open_files_amount' = [open_files_amount EXCEPT ![s] =
                                            (@ - 1) % SIZE_MOD]
               /\ UNCHANGED thread
       \/ /\ Recorded(s, -1) = Entry
          /\ Goto(s, "waiting", -1)
          /\ UNCHANGED <<tables, entries, robbed>>
    /\ UNCHANGED <<server, free_open_session_entries, client, given, several,
                   reclaimed, failed, mounts, opens>>

-----------------------------------------------------------------------------
(* SHUTDOWN_AFTER_ALL_CLOSED *)

\* The gate is closed and the worker waits for the files.
server_shutdown_state(s) ==
    /\ At(s, "waiting") /\ client[s] = "alive"
    /\ can_exec
    /\ can_exec' = FALSE
    /\ Goto(s, "destroying", -1)
    /\ UNCHANGED <<tables, free_open_session_entries, entries, main, stopped, client,
                   given, history, mounts, opens>>

\* Mutant: the worker does not wait.
shutdown_done_NoWait(s) ==
    /\ At(s, "destroying")
    /\ stopped' = "destroyed"
    /\ UNCHANGED <<tables, free_open_session_entries, entries, thread, can_exec, main,
                   client, given, history, mounts, opens>>

shutdown_done(s) ==
    /\ At(s, "destroying")
    /\ open_count = 0
    /\ stopped' = "destroyed"
    /\ UNCHANGED <<tables, free_open_session_entries, entries, thread, can_exec, main,
                   client, given, history, mounts, opens>>

\* A second one finds the gate closed: its answer is -1, and the server exits.
shutdown_refused(s) ==
    /\ At(s, "waiting") /\ client[s] = "alive"
    /\ ~ can_exec
    /\ stopped' = "refused"
    /\ UNCHANGED <<tables, free_open_session_entries, entries, thread, can_exec, main,
                   client, given, history, mounts, opens>>

-----------------------------------------------------------------------------
Continue(s) ==
    \/ server_mount_state(s)
    \/ open_failed(s) \/ open_done(s)
    \/ unmount_close(s)
    \/ shutdown_done(s)

Next == \E s \in Session :
    \/ mount_free(s) \/ poll_dead(s) \/ mount_dead(s)
    \/ client_dies(s)
    \/ server_unmount_state(s) \/ server_open_state(s)
    \/ \E h \in Handle : server_close_state(s, h)
    \/ server_shutdown_state(s) \/ shutdown_refused(s)
    \/ Continue(s)

Spec == Init /\ [][Next]_vars

\* The workers and the main thread are scheduled; clients do as they like.
FairSpec == Spec /\ \A s \in Session : WF_vars(Continue(s)) /\ WF_vars(mount_dead(s))

-----------------------------------------------------------------------------
(* Properties *)

TypeOK ==
    /\ free_open_file_entries \subseteq Handle
    /\ open_count \in 0 .. UINT_MOD - 1
    /\ can_exec \in BOOLEAN
    /\ main \in Session \cup {NoSession}
    /\ stopped \in {"no", "destroyed", "refused"}
    /\ free_open_session_entries \subseteq Session
    /\ open_files \in [Session -> [Entry -> Handle \cup {-1}]]
    /\ open_files_amount \in [Session -> 0 .. SIZE_MOD - 1]
    /\ thread \in [Session -> [at : {"waiting", "opening", "unmounting", "destroying"},
                               handle : Handle \cup {-1}]]
    /\ client \in [Session -> {"none", "mounting", "alive", "dead"}]
    /\ given \in [Session -> SUBSET Handle]
    /\ opened_by \in [Handle -> Session \cup {NoSession}]
    /\ several \subseteq Session /\ reclaimed \subseteq Session
    /\ robbed \in BOOLEAN
    /\ failed \in 0 .. MaxOpens /\ mounts \in 0 .. MaxMounts /\ opens \in 0 .. MaxOpens

\* The sessions whose open has a handle and is not counted yet.
Uncounted == {s \in Session : thread[s].at = "opening" /\ thread[s].handle # -1}

\* However often the end of a session closes one handle, files are counted
\* off once: the counter is the TAKEN handles that were counted, and the opens
\* that failed.  It may pass below zero only while an open is not counted yet.
FilesCounted ==
    open_count = (Cardinality(Handle \ free_open_file_entries) + failed
                    - Cardinality(Uncounted)) % UINT_MOD

\* The handle a session has on record: its entries, where they name one, name
\* the same one.
OnRecord(s) == {open_files[s][i] : i \in Entry} \ {-1}

\* What a session's entries name and what its client was given are files it
\* opened and that are open, so that its closes and its end close no file of
\* another session; until the end of a session, which closes its handle once
\* for every entry, meets a session that opened a file under that handle.
FilesAreOwn ==
    /\ \A s \in Session : Cardinality(OnRecord(s)) <= 1
    /\ ~ robbed => \A s \in Session :
            \A h \in given[s] \cup IF thread[s].at = "unmounting" THEN {} ELSE OnRecord(s) :
                h \notin free_open_file_entries /\ opened_by[h] = s

\* A session that ended, by its client's wish, by its death in a request or by
\* a failed request, leaves no file open; unless it had two files open at
\* once, or was taken over from a client that died between two requests.
EndClosesFiles ==
    \A s \in free_open_session_entries \ (several \cup reclaimed) :
        thread[s].at = "waiting" => \A h \in Handle : opened_by[h] # s

\* The server exits when no client has a file open, as
\* tfs_shutdown_after_all_closed says; unless a second one is asked for it
\* while the first waits.
ExitAfterCloses ==
    stopped = "destroyed" /\ ~ robbed => \A s \in Session : given[s] = {}

\* The main thread gets hold of a dead client's session; unless its worker is
\* the one that waits for all files to be closed.
MainGoesOn ==
    \A s \in Session : main = s ~> (main # s \/ stopped # "no" \/ At(s, "destroying"))
=============================================================================
