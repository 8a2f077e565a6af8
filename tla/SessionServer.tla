--------------------------- MODULE SessionServer ---------------------------
(***************************************************************************)
(* The session layer of ex2: client processes (client/                     *)
(* tecnicofs_client_api.c), the server's main thread and its S workers     *)
(* (fs/thread.c), and the worker's handlers (fs/tfs_server.c).             *)
(*                                                                         *)
(* One step is one critical section, one pipe call, or what a thread does  *)
(* between two of them.  OPEN, CLOSE, READ and WRITE are one op code here, *)
(* REQUEST: their handlers differ in what they do to the files (modules    *)
(* TecnicoFS and ExecGate), not in how they treat the session.  Its        *)
(* arguments are shorter than a pipe's path, as those of close and read.   *)
(* A worker holds threads_mutex except while its thread is "starting",     *)
(* "waiting" or "woken"; the main thread holds it only within a step.      *)
(***************************************************************************)
EXTENDS Integers, Sequences

CONSTANTS
    Client,          \* client processes; each has a pipe path of its own
    None,            \* no client, or nothing
    Other,           \* a descriptor of something no client of ours reads
    S,               \* the number of sessions
    MaxFd,           \* bound: the server's descriptors are 0..MaxFd
    MaxMounts,       \* bound: mounts a client asks for
    MaxRequests,     \* bound: requests a client makes
    Results,         \* what an operation of the file system may answer
    Interruptible,   \* clients that may get one SIGINT
    Killable,        \* clients that may die without a word
    KilledAt,        \* where in their calls: the values of pc
    WorkersReady     \* do all workers wait before the first request comes?

ASSUME SessionAssumption ==
    /\ S \in Nat \ {0}
    /\ MaxFd \in Nat /\ MaxMounts \in Nat /\ MaxRequests \in Nat
    /\ None \notin Client /\ Other \notin Client /\ None # Other
    /\ "Closed" \notin Client /\ "Gone" \notin Client
    /\ Other \notin {"Closed", "Gone"}
    /\ Results \subseteq {0, -1}
    /\ Interruptible \subseteq Client /\ Killable \subseteq Client
    /\ WorkersReady \in BOOLEAN

VARIABLES
    (* shared by the server's threads *)
    free_open_session_entries,
    open_session_table,
    prod_cons,       \* a session's buffer: the op code not yet read (NO_OP
                     \* if none) and the arguments behind it
    descriptors,     \* what the process's descriptors refer to
    (* local to a thread *)
    thread,          \* what each worker is about to do
    local,           \* its client_pipe_path, or fd
    main,            \* what the main thread is about to do, and its locals
    (* between the processes *)
    req_pipe,        \* the server's pipe
    replies,         \* each client's pipe
    (* the clients *)
    pc,
    session_id,
    interrupted,     \* the client is in handle_interr
    mounts, requests, \* counters for the bounds
    mistaken         \* history: decide_mount polled the descriptor of a slot's
                     \* last session for the next one's, and found it dead

sessions == <<free_open_session_entries, open_session_table>>
observed == <<mounts, requests, mistaken>>
vars == <<sessions, prod_cons, descriptors, thread, local, main, req_pipe,
          replies, pc, session_id, interrupted, observed>>

Session == 0..(S - 1)
Descriptor == 0..MaxFd
\* Closed: the descriptor is free.  Gone: the other end of the pipe is closed.
PC == {"idle", "opening", "mounting", "refused", "mounted", "requesting",
       "unmounting", "closing", "left"}
Target == Client \cup {"Closed", "Gone", Other}
\* NOT_A_CODE stands for bytes of an argument read as an op code.
OpCode == {"NO_OP", "MOUNT", "UNMOUNT", "REQUEST", "NOT_A_CODE"}
Message == [op : {"MOUNT"}, to : Client]
           \cup [op : {"UNMOUNT", "REQUEST"}, to : Session]
Args == Client \cup {"args", None}

Init ==
    /\ free_open_session_entries = [i \in Session |-> "FREE"]
    /\ open_session_table = [i \in Session |-> 0]
    /\ prod_cons = [i \in Session |-> [op |-> "NO_OP", args |-> None]]
    \* Descriptor 0 is the standard input; the others below are not counted.
    /\ descriptors = [f \in Descriptor |-> IF f = 0 THEN Other ELSE "Closed"]
    /\ thread = [i \in Session |-> IF WorkersReady THEN "waiting"
                                                   ELSE "starting"]
    /\ local = [i \in Session |-> None]
    /\ main = [at |-> "read", slot |-> 0, path |-> None, fd |-> -1,
               high |-> FALSE]
    /\ req_pipe = <<>>
    /\ replies = [c \in Client |-> <<>>]
    /\ pc = [c \in Client |-> "idle"]
    /\ session_id = [c \in Client |-> 0]
    /\ interrupted = [c \in Client |-> FALSE]
    /\ mounts = [c \in Client |-> 0]
    /\ requests = [c \in Client |-> 0]
    /\ mistaken = FALSE

-----------------------------------------------------------------------------
(* Pipes, as the kernel and common.c's wrappers present them *)

\* open returns the lowest free descriptor.
IsLowestFree(f) ==
    /\ descriptors[f] = "Closed"
    /\ \A g \in Descriptor : g < f => descriptors[g] # "Closed"

\* A write succeeds on an open descriptor whose reader has not gone.
Writable(f) == f \in Descriptor /\ descriptors[f] \notin {"Closed", "Gone"}

\* The pipes after r is written to f.
Written(f, r) ==
    IF f \in Descriptor /\ descriptors[f] \in Client
    THEN [replies EXCEPT ![descriptors[f]] = Append(@, r)]
    ELSE replies

\* The reader of c's pipe closes it, or leaves it for a new pipe of that path.
Detached(c, target) ==
    [f \in Descriptor |-> IF descriptors[f] = c THEN target ELSE descriptors[f]]

\* An open of c's pipe for writing meets c's open for reading; a client that
\* was interrupted there closes its end at once.
Connect(c, f) ==
    /\ pc[c] = "opening"
    /\ IsLowestFree(f)
    /\ descriptors' = [descriptors EXCEPT ![f] = c]
    /\ pc' = [pc EXCEPT ![c] = IF interrupted[c] THEN "closing" ELSE "mounting"]

\* read finds an answer, or the end of file: no descriptor writes to the pipe.
EndOfFile(c) ==
    /\ replies[c] = <<>>
    /\ \A f \in Descriptor : descriptors[f] # c
Answered(c) == replies[c] # <<>> \/ EndOfFile(c)
Rest(c) == IF replies[c] = <<>> THEN <<>> ELSE Tail(replies[c])

Send(message) == req_pipe' = Append(req_pipe, message)

-----------------------------------------------------------------------------
(* The main thread: main_thread_work and decide_mount *)

MainGoto(at, slot) == main' = [main EXCEPT !.at = at, !.slot = slot]

\* thread_worker_schedule_prod resets the buffer, read or not, and fills it.
Schedule(i, op, args) ==
    prod_cons' = [prod_cons EXCEPT ![i] = [op |-> op, args |-> args]]

read_mount ==
    /\ main.at = "read" /\ req_pipe # <<>>
    /\ Head(req_pipe).op = "MOUNT"
    /\ main' = [main EXCEPT !.at = "decide", !.slot = 0,
                            !.path = Head(req_pipe).to]
    /\ req_pipe' = Tail(req_pipe)
    /\ UNCHANGED <<sessions, prod_cons, descriptors, thread, local, replies, pc,
                   session_id, interrupted, observed>>

read_request ==
    /\ main.at = "read" /\ req_pipe # <<>>
    /\ LET m == Head(req_pipe)
       IN  /\ m.op # "MOUNT"
           /\ Schedule(m.to, m.op, IF m.op = "UNMOUNT" THEN None ELSE "args")
           /\ MainGoto("signal", m.to)
    /\ req_pipe' = Tail(req_pipe)
    /\ UNCHANGED <<sessions, descriptors, thread, local, replies, pc, session_id,
                   interrupted, observed>>

\* Four of session_id's eight bytes are read from the pipe; the rest may be
\* what decide_mount's -1 left there, and the request is out of range.  The
\* arguments it leaves in the pipe are taken to read as NO_OPs, as those of
\* handle 0 do; others would be read as op codes, which is left out.
drop_request ==
    /\ main.at = "read" /\ req_pipe # <<>>
    /\ Head(req_pipe).op # "MOUNT"
    /\ main.high
    /\ req_pipe' = Tail(req_pipe)
    /\ UNCHANGED <<sessions, prod_cons, descriptors, thread, local, main,
                   replies, pc, session_id, interrupted, observed>>

\* Mutant: the slot is not marked.
decide_free_Unmarked ==
    /\ main.at = "decide" /\ main.slot < S
    /\ free_open_session_entries[main.slot] = "FREE"
    /\ MainGoto("schedule", main.slot)
    /\ UNCHANGED <<sessions, prod_cons, descriptors, thread, local, req_pipe,
                   replies, pc, session_id, interrupted, observed>>

\* One round of decide_mount's loop, under open_session_locks[slot].
decide_free ==
    /\ main.at = "decide" /\ main.slot < S
    /\ free_open_session_entries[main.slot] = "FREE"
    /\ free_open_session_entries' =
           [free_open_session_entries EXCEPT ![main.slot] = "TAKEN"]
    /\ MainGoto("schedule", main.slot)
    /\ UNCHANGED <<open_session_table, prod_cons, descriptors, thread, local,
                   req_pipe, replies, pc, session_id, interrupted, observed>>

\* Mutant: any event counts, POLLOUT as well.
PollErr_AnyEvent(f) == f \in Descriptor

\* poll says POLLERR of a pipe without reader (of a closed one, POLLNVAL).
PollErr(f) == f \in Descriptor /\ descriptors[f] = "Gone"

\* The mount of the slot's client is still to come: what open_session_table
\* holds is the descriptor its last session closed, or an older one.
Pending(i) == prod_cons[i].op = "MOUNT" \/ thread[i] \in {"mount", "open_pipe"}

decide_taken ==
    /\ main.at = "decide" /\ main.slot < S
    /\ free_open_session_entries[main.slot] = "TAKEN"
    /\ LET cur_fd == open_session_table[main.slot]
       IN  \/ /\ PollErr(cur_fd)
              /\ main' = [main EXCEPT !.at = "reclaim", !.fd = cur_fd]
              /\ mistaken' = (mistaken \/ Pending(main.slot))
           \/ /\ ~PollErr(cur_fd)
              /\ MainGoto("decide", main.slot + 1)
              /\ UNCHANGED mistaken
    /\ UNCHANGED <<sessions, prod_cons, descriptors, thread, local, req_pipe,
                   replies, pc, session_id, interrupted, mounts, requests>>

MutexFree(i) == thread[i] \in {"starting", "waiting", "woken"}

\* Everything done under threads_mutex[slot].
decide_reclaim ==
    /\ main.at = "reclaim"
    /\ MutexFree(main.slot)
    /\ descriptors' = [descriptors EXCEPT ![main.fd] = "Closed"]
    /\ free_open_session_entries' =
           [free_open_session_entries EXCEPT ![main.slot] = "TAKEN"]
    /\ open_session_table' = [open_session_table EXCEPT ![main.slot] = -1]
    /\ MainGoto("schedule", main.slot)
    /\ UNCHANGED <<prod_cons, thread, local, req_pipe, replies, pc, session_id,
                   interrupted, observed>>

schedule_mount ==
    /\ main.at = "schedule"
    /\ Schedule(main.slot, "MOUNT", main.path)
    /\ main' = [main EXCEPT !.at = "signal", !.path = None, !.high = FALSE]
    /\ UNCHANGED <<sessions, descriptors, thread, local, req_pipe, replies, pc,
                   session_id, interrupted, observed>>

\* No slot: the main thread opens the client's pipe, says -1, never closes it.
refuse_mount ==
    /\ main.at = "decide" /\ main.slot = S
    /\ \E f \in Descriptor : Connect(main.path, f)
    /\ replies' = [replies EXCEPT ![main.path] = Append(@, -1)]
    /\ main' = [main EXCEPT !.at = "read", !.path = None, !.high = TRUE]
    /\ UNCHANGED <<sessions, prod_cons, thread, local, req_pipe, session_id,
                   interrupted, observed>>

\* Mutant: the signal is sent without locking threads_mutex.
signal_Unlocked ==
    /\ main.at = "signal"
    /\ thread' = [thread EXCEPT ![main.slot] =
                     IF @ = "waiting" THEN "woken" ELSE @]
    /\ MainGoto("read", main.slot)
    /\ UNCHANGED <<sessions, prod_cons, descriptors, local, req_pipe, replies,
                   pc, session_id, interrupted, observed>>

signal ==
    /\ main.at = "signal"
    /\ MutexFree(main.slot)
    /\ thread' = [thread EXCEPT ![main.slot] =
                     IF @ = "waiting" THEN "woken" ELSE @]
    /\ MainGoto("read", main.slot)
    /\ UNCHANGED <<sessions, prod_cons, descriptors, local, req_pipe, replies,
                   pc, session_id, interrupted, observed>>

MainThread ==
    \/ read_mount \/ read_request \/ drop_request
    \/ decide_free \/ decide_taken \/ decide_reclaim
    \/ schedule_mount \/ refuse_mount \/ signal

-----------------------------------------------------------------------------
(* The workers: thread_wait and the server_*_state handlers *)

Goto(i, label) == thread' = [thread EXCEPT ![i] = label]

thread_start(i) ==
    /\ thread[i] = "starting"
    /\ Goto(i, "waiting")
    /\ UNCHANGED <<sessions, prod_cons, descriptors, local, main, req_pipe,
                   replies, pc, session_id, interrupted, observed>>

\* pthread_cond_wait may return without a signal, and nothing is tested.
spurious_wakeup(i) ==
    /\ thread[i] = "waiting"
    /\ Goto(i, "woken")
    /\ UNCHANGED <<sessions, prod_cons, descriptors, local, main, req_pipe,
                   replies, pc, session_id, interrupted, observed>>

\* The op code is read; the arguments stay in the buffer.  A byte that is no
\* op code ends the server, and every pipe with it.
Handler(op) ==
    CASE op = "NO_OP" -> "waiting"
      [] op = "MOUNT" -> "mount"
      [] op = "UNMOUNT" -> "unmount"
      [] op = "REQUEST" -> "request"
      [] op = "NOT_A_CODE" -> "exit"

thread_wait(i) ==
    /\ thread[i] = "woken"
    /\ Goto(i, Handler(prod_cons[i].op))
    /\ prod_cons' = [prod_cons EXCEPT ![i].op = "NO_OP"]
    /\ descriptors' = [f \in Descriptor |->
                           IF prod_cons[i].op = "NOT_A_CODE" THEN "Closed"
                                                             ELSE descriptors[f]]
    /\ UNCHANGED <<sessions, local, main, req_pipe, replies, pc,
                   session_id, interrupted, observed>>

\* The main thread reset the buffer after the worker read the op code.
Torn(i) == prod_cons[i].op # "NO_OP"

\* Reading arguments from a torn buffer: there are none, or they are another
\* request's bytes and what follows them is read next as an op code.
TornRead(i) ==
    IF prod_cons[i].args = None
    THEN UNCHANGED prod_cons
    ELSE \E op \in {"NO_OP", "NOT_A_CODE"} :
             prod_cons' = [prod_cons EXCEPT ![i].op = op]

\* Mutant: the path is used whether or not it could be read.
mount_read_path_Unchecked(i) ==
    /\ thread[i] = "mount"
    /\ local' = [local EXCEPT ![i] = prod_cons[i].args]
    /\ Goto(i, "open_pipe")
    /\ UNCHANGED <<sessions, prod_cons, descriptors, main, req_pipe, replies, pc,
                   session_id, interrupted, observed>>

\* server_mount_state.
mount_read_path(i) ==
    /\ thread[i] = "mount"
    /\ ~Torn(i)
    /\ local' = [local EXCEPT ![i] = prod_cons[i].args]
    /\ Goto(i, "open_pipe")
    /\ UNCHANGED <<sessions, prod_cons, descriptors, main, req_pipe, replies, pc,
                   session_id, interrupted, observed>>

\* No path to read: the handler returns and the slot stays TAKEN.
mount_without_path(i) ==
    /\ thread[i] = "mount"
    /\ Torn(i)
    /\ TornRead(i)
    /\ Goto(i, "waiting")
    /\ UNCHANGED <<sessions, descriptors, local, main, req_pipe, replies, pc,
                   session_id, interrupted, observed>>

mount_open_pipe(i) ==
    /\ thread[i] = "open_pipe"
    /\ \E f \in Descriptor :
           /\ Connect(local[i], f)
           /\ open_session_table' = [open_session_table EXCEPT ![i] = f]
           /\ local' = [local EXCEPT ![i] = f]
    /\ Goto(i, "inform")
    /\ UNCHANGED <<free_open_session_entries, prod_cons, main, req_pipe, replies,
                   session_id, interrupted, observed>>

mount_inform(i) ==
    /\ thread[i] = "inform"
    /\ replies' = Written(local[i], i)
    /\ Goto(i, IF Writable(local[i]) THEN "waiting" ELSE "end")
    /\ UNCHANGED <<sessions, prod_cons, descriptors, local, main, req_pipe, pc,
                   session_id, interrupted, observed>>

\* server_open_state, _close_, _read_ and _write_state: the arguments first.
request_read_args(i) ==
    /\ thread[i] = "request"
    /\ IF Torn(i) THEN TornRead(i) ELSE UNCHANGED prod_cons
    /\ \/ /\ Torn(i) /\ prod_cons[i].args = None
          /\ replies' = Written(open_session_table[i], -1)
          /\ Goto(i, "end")
       \/ /\ ~(Torn(i) /\ prod_cons[i].args = None)
          /\ Goto(i, "answer")
          /\ UNCHANGED replies
    /\ UNCHANGED <<sessions, descriptors, local, main, req_pipe, pc, session_id,
                   interrupted, observed>>

\* r_pipe_inform returns the answer, or -1 if it could not be written: -1 ends
\* the session either way.
Ends(fd, answer) == answer = -1 \/ ~Writable(fd)

request_answer(i) ==
    /\ thread[i] = "answer"
    /\ \E answer \in Results :
           /\ replies' = Written(open_session_table[i], answer)
           /\ Goto(i, IF Ends(open_session_table[i], answer) THEN "end"
                                                             ELSE "waiting")
    /\ UNCHANGED <<sessions, prod_cons, descriptors, local, main, req_pipe, pc,
                   session_id, interrupted, observed>>

\* do_unmount: the slot is FREE, then the client is told, if it asked.
do_unmount(i) ==
    /\ thread[i] \in {"unmount", "end"}
    /\ local' = [local EXCEPT ![i] = open_session_table[i]]
    /\ free_open_session_entries' =
           [free_open_session_entries EXCEPT ![i] = "FREE"]
    /\ replies' = IF thread[i] = "unmount" THEN Written(open_session_table[i], 0)
                                           ELSE replies
    /\ Goto(i, "close")
    /\ UNCHANGED <<open_session_table, prod_cons, descriptors, main, req_pipe,
                   pc, session_id, interrupted, observed>>

\* The end of do_unmount: open_session_table keeps the closed descriptor.
unmount_close(i) ==
    /\ thread[i] = "close"
    /\ descriptors' = [f \in Descriptor |->
                           IF f = local[i] THEN "Closed" ELSE descriptors[f]]
    /\ Goto(i, "waiting")
    /\ UNCHANGED <<sessions, prod_cons, local, main, req_pipe, replies, pc,
                   session_id, interrupted, observed>>

Worker(i) ==
    \/ thread_start(i) \/ thread_wait(i)
    \/ mount_read_path(i) \/ mount_without_path(i)
    \/ mount_open_pipe(i) \/ mount_inform(i)
    \/ request_read_args(i) \/ request_answer(i)
    \/ do_unmount(i) \/ unmount_close(i)

-----------------------------------------------------------------------------
(* The clients: tecnicofs_client_api.c *)

ClientGoto(c, label) == pc' = [pc EXCEPT ![c] = label]

\* A new pipe takes the path; a refused client's old one stays open, unread.
tfs_mount(c) ==
    /\ pc[c] \in {"idle", "refused"}
    /\ mounts[c] < MaxMounts
    /\ mounts' = [mounts EXCEPT ![c] = @ + 1]
    /\ descriptors' = Detached(c, Other)
    /\ replies' = [replies EXCEPT ![c] = <<>>]
    /\ Send([op |-> "MOUNT", to |-> c])
    /\ ClientGoto(c, "opening")
    /\ UNCHANGED <<sessions, prod_cons, thread, local, main, session_id,
                   interrupted, requests, mistaken>>

\* At the end of file id is uninitialized: a refusal, or any session.
mount_read_id(c) ==
    /\ pc[c] = "mounting"
    /\ Answered(c)
    /\ \E id \in IF EndOfFile(c) THEN Session \cup {-1} ELSE {Head(replies[c])} :
           IF id = -1
           THEN ClientGoto(c, "refused") /\ UNCHANGED session_id
           ELSE /\ ClientGoto(c, "mounted")
                /\ session_id' = [session_id EXCEPT ![c] = id]
    /\ replies' = [replies EXCEPT ![c] = Rest(c)]
    /\ UNCHANGED <<sessions, prod_cons, descriptors, thread, local, main,
                   req_pipe, interrupted, observed>>

\* tfs_open, tfs_close, tfs_read or tfs_write.
send_request(c) ==
    /\ pc[c] = "mounted"
    /\ requests[c] < MaxRequests
    /\ requests' = [requests EXCEPT ![c] = @ + 1]
    /\ Send([op |-> "REQUEST", to |-> session_id[c]])
    /\ ClientGoto(c, "requesting")
    /\ UNCHANGED <<sessions, prod_cons, descriptors, thread, local, main,
                   replies, session_id, interrupted, mounts, mistaken>>

read_answer(c) ==
    /\ pc[c] = "requesting"
    /\ Answered(c)
    /\ replies' = [replies EXCEPT ![c] = Rest(c)]
    /\ ClientGoto(c, "mounted")
    /\ UNCHANGED <<sessions, prod_cons, descriptors, thread, local, main,
                   req_pipe, session_id, interrupted, observed>>

tfs_unmount(c) ==
    /\ pc[c] = "mounted"
    /\ Send([op |-> "UNMOUNT", to |-> session_id[c]])
    /\ ClientGoto(c, "unmounting")
    /\ UNCHANGED <<sessions, prod_cons, descriptors, thread, local, main,
                   replies, session_id, interrupted, observed>>

\* The reader's end of c's pipe is closed and what it held is lost.
CloseReader(c) ==
    /\ descriptors' = Detached(c, "Gone")
    /\ replies' = [replies EXCEPT ![c] = <<>>]

unmount_close_pipes(c) ==
    /\ pc[c] = "unmounting"
    /\ Answered(c)
    /\ CloseReader(c)
    /\ ClientGoto(c, IF interrupted[c] THEN "left" ELSE "idle")
    /\ UNCHANGED <<sessions, prod_cons, thread, local, main, req_pipe,
                   session_id, interrupted, observed>>

\* The process ends: refused, or once handle_interr opened and closed its pipe.
client_exit(c) ==
    /\ pc[c] \in {"refused", "closing"}
    /\ CloseReader(c)
    /\ ClientGoto(c, "left")
    /\ UNCHANGED <<sessions, prod_cons, thread, local, main, req_pipe,
                   session_id, interrupted, observed>>

\* SIGINT while fclient is -1: before or after a session there is no pipe to
\* open; within tfs_mount the handler opens it in the client's stead.
handle_interr_unconnected(c) ==
    /\ c \in Interruptible /\ ~interrupted[c]
    /\ pc[c] \in {"idle", "opening"}
    /\ interrupted' = [interrupted EXCEPT ![c] = TRUE]
    /\ ClientGoto(c, IF pc[c] = "idle" THEN "left" ELSE "opening")
    /\ UNCHANGED <<sessions, prod_cons, descriptors, thread, local, main,
                   req_pipe, replies, session_id, observed>>

\* SIGINT later: handle_interr unmounts session_id, whatever that is by now.
handle_interr_unmount(c) ==
    /\ c \in Interruptible /\ ~interrupted[c]
    /\ pc[c] \in {"mounting", "refused", "mounted", "requesting", "unmounting"}
    /\ interrupted' = [interrupted EXCEPT ![c] = TRUE]
    /\ Send([op |-> "UNMOUNT", to |-> session_id[c]])
    /\ ClientGoto(c, "unmounting")
    /\ UNCHANGED <<sessions, prod_cons, descriptors, thread, local, main,
                   replies, session_id, observed>>

client_killed(c) ==
    /\ c \in Killable
    /\ pc[c] \in KilledAt
    /\ CloseReader(c)
    /\ ClientGoto(c, "left")
    /\ UNCHANGED <<sessions, prod_cons, thread, local, main, req_pipe,
                   session_id, interrupted, observed>>

\* What a client does because the server answered it.
ClientReads(c) ==
    mount_read_id(c) \/ read_answer(c) \/ unmount_close_pipes(c)
ClientActs(c) ==
    \/ tfs_mount(c) \/ send_request(c) \/ tfs_unmount(c) \/ client_exit(c)
    \/ handle_interr_unconnected(c) \/ handle_interr_unmount(c)
    \/ client_killed(c)

-----------------------------------------------------------------------------
Running == \A i \in Session : thread[i] # "exit"

Next ==
    \/ Running /\ MainThread
    \/ \E i \in Session : Running /\ (Worker(i) \/ spurious_wakeup(i))
    \/ \E c \in Client : ClientReads(c) \/ ClientActs(c)

Spec == Init /\ [][Next]_vars

\* The scheduler runs every thread that can run, and a client blocked in read
\* goes on once the answer is there; what a client asks for is its own affair.
Fairness ==
    /\ WF_vars(Running /\ MainThread)
    /\ \A i \in Session : WF_vars(Running /\ Worker(i))
    /\ \A c \in Client : WF_vars(ClientReads(c))
FairSpec == Spec /\ Fairness

-----------------------------------------------------------------------------
(* Properties *)

SessionsTyped ==
    /\ free_open_session_entries \in [Session -> {"FREE", "TAKEN"}]
    /\ open_session_table \in [Session -> Descriptor \cup {-1}]
    /\ prod_cons \in [Session -> [op : OpCode, args : Args]]

WorkersTyped ==
    /\ thread \in [Session -> {"starting", "waiting", "woken", "mount",
                               "open_pipe", "inform", "request", "answer",
                               "unmount", "end", "close", "exit"}]
    /\ local \in [Session -> Client \cup Descriptor \cup {None, -1}]
    /\ \A i \in Session : thread[i] = "open_pipe" => local[i] \in Client

MainTyped ==
    /\ main \in [at : {"read", "decide", "reclaim", "schedule", "signal"},
                 slot : 0..S, path : Client \cup {None},
                 fd : Descriptor \cup {-1}, high : BOOLEAN]
    /\ main.at \in {"reclaim", "schedule", "signal"} => main.slot \in Session
    /\ main.at \in {"decide", "reclaim", "schedule"} => main.path \in Client
    /\ main.at = "reclaim" => main.fd \in Descriptor

PipesTyped ==
    /\ descriptors \in [Descriptor -> Target]
    /\ req_pipe \in Seq(Message)
    /\ replies \in [Client -> Seq(Session \cup {0, -1})]

ClientsTyped ==
    /\ pc \in [Client -> PC]
    /\ session_id \in [Client -> Session]
    /\ interrupted \in [Client -> BOOLEAN]
    /\ mounts \in [Client -> 0..MaxMounts]
    /\ requests \in [Client -> 0..MaxRequests]
    /\ mistaken \in BOOLEAN

\* Every variable keeps to the values its C type and the protocol give it; in
\* particular a worker never opens a path it did not read.
TypeOK == SessionsTyped /\ WorkersTyped /\ MainTyped /\ PipesTyped /\ ClientsTyped

\* A request in a session's buffer is never slept on: its worker has been
\* woken, or the main thread is about to signal it.  thread_wait calls
\* pthread_cond_wait without testing the buffer first, so this is all that
\* keeps a request from waiting for the next one.
WakeupPending ==
    \A i \in Session :
        prod_cons[i].op # "NO_OP" =>
            \/ thread[i] \in {"woken", "exit"}
            \/ main.at = "signal" /\ main.slot = i

\* A client that mounted owns its session until it asks to leave: the slot is
\* TAKEN, and what the worker writes to it reaches that client alone.  Two
\* clients of one session would break it, and so would a descriptor closed by
\* another session's do_unmount.
OwnSession ==
    ~mistaken =>
        \A c \in Client :
            pc[c] \in {"mounted", "requesting"} =>
                LET i == session_id[c]
                IN  /\ free_open_session_entries[i] = "TAKEN"
                    /\ open_session_table[i] \in Descriptor
                    /\ descriptors[open_session_table[i]] = c

\* The main thread never resets a buffer that holds a request no worker has
\* read to its end: thread_worker_schedule_prod does not look, and counts on
\* clients that wait for each answer and on decide_mount's choice of a slot.
NoRequestOverwritten ==
    [][~mistaken =>
           \A i \in Session :
               (main.at # "signal" /\ main'.at = "signal" /\ main'.slot = i) =>
                   prod_cons[i].op = "NO_OP" /\ thread[i] \notin {"mount", "request"}
      ]_vars

\* No client that mounted, or that was told its session and has not read it yet,
\* loses its slot to decide_mount: only one whose mount is still to come can.
ReclaimsNoSession ==
    ~mistaken /\ main.at = "reclaim" =>
        ~ \E c \in Client :
              \/ pc[c] \in {"mounted", "requesting"} /\ session_id[c] = main.slot
              \/ pc[c] = "mounting" /\ replies[c] = <<main.slot>>

\* Every blocking call of a client returns: the mount gets its session or a
\* refusal, a request its answer.
CallsReturn ==
    \A c \in Client :
        pc[c] \in {"opening", "mounting", "requesting", "unmounting"} ~>
            pc[c] \in {"idle", "mounted", "refused", "left"}
=============================================================================
