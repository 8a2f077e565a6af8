------------------------- MODULE SessionServerProofs -------------------------
(***************************************************************************)
(* For every number of clients and sessions, under every fault the module  *)
(* has: the types are kept, and no request is slept on.                    *)
(***************************************************************************)
EXTENDS SessionServer, TLAPS

\* A MOUNT's arguments are a client's path until the buffer is reset: while
\* the op code is unread, and while its worker is about to read them.
MountHasPath ==
    \A i \in Session :
        prod_cons[i].op = "MOUNT" \/ (thread[i] = "mount" /\ ~Torn(i)) =>
            prod_cons[i].args \in Client

ServerInv == TypeOK /\ MountHasPath

\* Once every worker waits, none is back before its first wait.
NoneStarting == \A i \in Session : thread[i] # "starting"

WakeupInv == NoneStarting /\ WakeupPending

-----------------------------------------------------------------------------

\* A write appends an answer to the pipe of at most one client.
LEMMA WrittenTyped ==
  ASSUME PipesTyped, NEW f, NEW r \in Session \cup {0, -1}
  PROVE  Written(f, r) \in [Client -> Seq(Session \cup {0, -1})]
  BY DEF PipesTyped, Written

\* Closing or abandoning a pipe's reader keeps every descriptor a target.
LEMMA DetachedTyped ==
  ASSUME PipesTyped, NEW c \in Client, NEW target \in Target
  PROVE  Detached(c, target) \in [Descriptor -> Target]
  BY DEF PipesTyped, Detached

\* An open of a client's pipe keeps the types of what it changes.
LEMMA ConnectTyped ==
  ASSUME PipesTyped, ClientsTyped, NEW c \in Client, NEW f \in Descriptor,
         Connect(c, f)
  PROVE  descriptors' \in [Descriptor -> Target] /\ pc' \in [Client -> PC]
  BY DEF PipesTyped, ClientsTyped, Connect, Target, PC

\* What a read leaves in a pipe.
LEMMA RestTyped ==
  ASSUME PipesTyped, NEW c \in Client
  PROVE  [replies EXCEPT ![c] = Rest(c)] \in [Client -> Seq(Session \cup {0, -1})]
<1>1. replies[c] \in Seq(Session \cup {0, -1})
  BY DEF PipesTyped
<1>2. Rest(c) \in Seq(Session \cup {0, -1})
  BY <1>1 DEF Rest
<1> QED
  BY <1>2 DEF PipesTyped

MainLabel == {"read", "decide", "reclaim", "schedule", "signal"}
MainRecord == [at : MainLabel, slot : 0..S, path : Client \cup {None},
               fd : Descriptor \cup {-1}, high : BOOLEAN]

\* A step of the main thread to another label and slot keeps its locals typed.
LEMMA MainMoves ==
  ASSUME MainTyped, NEW at \in MainLabel, NEW slot \in 0..S,
         NEW path \in Client \cup {None}, NEW fd \in Descriptor \cup {-1},
         main' = [main EXCEPT !.at = at, !.slot = slot, !.path = path, !.fd = fd],
         at \in {"reclaim", "schedule", "signal"} => slot \in Session,
         at \in {"decide", "reclaim", "schedule"} => path \in Client,
         at = "reclaim" => fd \in Descriptor
  PROVE  MainTyped'
<1>1. main \in MainRecord
  BY DEF MainTyped, MainRecord, MainLabel
<1>2. /\ main' \in MainRecord
      /\ main'.at = at /\ main'.slot = slot /\ main'.path = path /\ main'.fd = fd
  BY <1>1 DEF MainRecord
<1> QED
  BY <1>2 DEF MainTyped, MainRecord, MainLabel

\* The initial state.
LEMMA InitServer == Init => ServerInv
<1> SUFFICES ASSUME Init PROVE ServerInv
  OBVIOUS
<1>1. 0 \in Session /\ 0 \in Descriptor
  BY SessionAssumption DEF Session, Descriptor
<1>2. SessionsTyped /\ WorkersTyped /\ MainTyped
  BY <1>1, SessionAssumption DEF Init, SessionsTyped, WorkersTyped, MainTyped, OpCode, Args
<1>3. PipesTyped
  BY <1>1, SessionAssumption DEF Init, PipesTyped, Target
<1>4. ClientsTyped
  <2>1. mistaken \in BOOLEAN
    BY DEF Init
  <2> QED
    BY <1>1, <2>1, SessionAssumption DEF Init, ClientsTyped, PC
<1>5. MountHasPath
  BY DEF Init, MountHasPath
<1> QED
  BY <1>2, <1>3, <1>4, <1>5 DEF ServerInv, TypeOK

\* A step of the main thread.
LEMMA MainKeeps == ServerInv /\ MainThread => ServerInv'
<1> SUFFICES ASSUME ServerInv, MainThread PROVE ServerInv'
  OBVIOUS
<1> USE SessionAssumption DEF ServerInv, TypeOK, MainGoto
<1>1. CASE read_mount
  <2>1. Head(req_pipe) \in Message /\ Tail(req_pipe) \in Seq(Message)
    BY <1>1 DEF read_mount, PipesTyped
  <2>2. Head(req_pipe).to \in Client
    BY <1>1, <2>1 DEF read_mount, Message
  <2>3. MainTyped'
    <3>1. main' = [main EXCEPT !.at = "decide", !.slot = 0,
                               !.path = Head(req_pipe).to, !.fd = main.fd]
      BY <1>1 DEF read_mount, MainTyped
    <3>2. main.fd \in Descriptor \cup {-1} /\ 0 \in 0..S
      BY DEF MainTyped
    <3> QED
      BY <2>2, <3>1, <3>2, MainMoves DEF MainLabel
  <2>4. PipesTyped'
    BY <1>1, <2>1 DEF read_mount, PipesTyped
  <2>5. SessionsTyped' /\ WorkersTyped' /\ ClientsTyped' /\ MountHasPath'
    BY <1>1 DEF read_mount, SessionsTyped, WorkersTyped, ClientsTyped, sessions,
       observed, MountHasPath, Torn
  <2> QED
    BY <2>3, <2>5, <2>4
<1>2. CASE read_request
  <2>1. Head(req_pipe) \in Message /\ Tail(req_pipe) \in Seq(Message)
    BY <1>2 DEF read_request, PipesTyped
  <2>2. /\ Head(req_pipe).to \in Session
        /\ Head(req_pipe).op \in {"UNMOUNT", "REQUEST"}
    BY <1>2, <2>1 DEF read_request, Message
  <2>3. SessionsTyped' /\ MountHasPath'
    BY <1>2, <2>2 DEF read_request, Schedule, SessionsTyped, sessions, OpCode, Args,
       MountHasPath, Torn
  <2>4. MainTyped'
    <3>1. main' = [main EXCEPT !.at = "signal", !.slot = Head(req_pipe).to,
                               !.path = main.path, !.fd = main.fd]
      BY <1>2 DEF read_request, MainTyped
    <3>2. /\ main.fd \in Descriptor \cup {-1} /\ main.path \in Client \cup {None}
          /\ Head(req_pipe).to \in 0..S
      BY <2>2 DEF MainTyped, Session
    <3> QED
      BY <2>2, <3>1, <3>2, MainMoves DEF MainLabel
  <2>5. PipesTyped'
    BY <1>2, <2>1 DEF read_request, PipesTyped
  <2>6. WorkersTyped' /\ ClientsTyped'
    BY <1>2 DEF read_request, WorkersTyped, ClientsTyped, observed
  <2> QED
    BY <2>3, <2>4, <2>6, <2>5
<1>3. CASE drop_request
  BY <1>3 DEF drop_request, SessionsTyped, WorkersTyped, MainTyped, PipesTyped,
     ClientsTyped, sessions, observed, MountHasPath, Torn
<1>4. CASE decide_free
  <2>1. main.slot \in Session
    BY <1>4 DEF decide_free, MainTyped, Session
  <2>2. SessionsTyped' /\ MainTyped'
    BY <1>4, <2>1 DEF decide_free, SessionsTyped, MainTyped
  <2> QED
    BY <1>4, <2>2 DEF decide_free, WorkersTyped, PipesTyped, ClientsTyped, observed,
       MountHasPath, Torn
<1>5. CASE decide_taken
  <2>1. /\ main.at = "decide" /\ main.slot \in Session /\ main.slot \in 0..S
        /\ main.slot + 1 \in 0..S
        /\ main.path \in Client /\ main.fd \in Descriptor \cup {-1}
    BY <1>5 DEF decide_taken, MainTyped, Session
  <2>2. ASSUME PollErr(open_session_table[main.slot]) PROVE MainTyped'
    <3>1. main' = [main EXCEPT !.at = "reclaim", !.slot = main.slot,
                               !.path = main.path, !.fd = open_session_table[main.slot]]
      <4>1. main' = [main EXCEPT !.at = "reclaim", !.fd = open_session_table[main.slot]]
        BY <1>5, <2>2 DEF decide_taken
      <4> QED
        BY <4>1 DEF MainTyped
    <3>2. open_session_table[main.slot] \in Descriptor
      BY <2>2 DEF PollErr
    <3> QED
      BY <2>1, <3>1, <3>2, MainMoves DEF MainLabel
  <2>3. ASSUME ~PollErr(open_session_table[main.slot]) PROVE MainTyped'
    <3>1. main' = [main EXCEPT !.at = "decide", !.slot = main.slot + 1,
                               !.path = main.path, !.fd = main.fd]
      <4>1. main' = [main EXCEPT !.at = "decide", !.slot = main.slot + 1]
        BY <1>5, <2>3 DEF decide_taken
      <4> QED
        BY <4>1 DEF MainTyped
    <3> QED
      BY <2>1, <3>1, MainMoves DEF MainLabel
  <2>4. MainTyped'
    BY <2>2, <2>3
  <2> QED
    BY <1>5, <2>4 DEF decide_taken, SessionsTyped, WorkersTyped, PipesTyped,
       ClientsTyped, sessions, observed, MountHasPath, Torn
<1>6. CASE decide_reclaim
  <2>1. SessionsTyped' /\ PipesTyped'
    BY <1>6 DEF decide_reclaim, SessionsTyped, PipesTyped, Target
  <2>2. MainTyped'
    BY <1>6 DEF decide_reclaim, MainTyped
  <2> QED
    BY <1>6, <2>1, <2>2 DEF decide_reclaim, WorkersTyped, ClientsTyped, observed,
       MountHasPath, Torn
<1>7. CASE schedule_mount
  <2>1. main.slot \in Session /\ main.path \in Client
    BY <1>7 DEF schedule_mount, MainTyped
  <2>2. SessionsTyped' /\ MountHasPath'
    BY <1>7, <2>1 DEF schedule_mount, Schedule, SessionsTyped, sessions, OpCode, Args,
       MountHasPath, Torn
  <2>3. MainTyped'
    BY <1>7, <2>1 DEF schedule_mount, MainTyped
  <2> QED
    BY <1>7, <2>2, <2>3 DEF schedule_mount, WorkersTyped, PipesTyped, ClientsTyped,
       observed
<1>8. CASE refuse_mount
  <2>1. main.path \in Client
    BY <1>8 DEF refuse_mount, MainTyped
  <2>2. descriptors' \in [Descriptor -> Target] /\ pc' \in [Client -> PC]
    BY <1>8, <2>1, ConnectTyped DEF refuse_mount
  <2>3. replies' \in [Client -> Seq(Session \cup {0, -1})]
    <3>1. replies[main.path] \in Seq(Session \cup {0, -1})
      BY <2>1 DEF PipesTyped
    <3>2. Append(replies[main.path], -1) \in Seq(Session \cup {0, -1})
      BY <3>1
    <3> QED
      BY <1>8, <3>2 DEF refuse_mount, PipesTyped
  <2>4. PipesTyped'
    BY <1>8, <2>2, <2>3 DEF refuse_mount, PipesTyped
  <2>5. PipesTyped' /\ ClientsTyped'
    BY <1>8, <2>2, <2>4 DEF refuse_mount, ClientsTyped, observed
  <2>6. MainTyped'
    BY <1>8 DEF refuse_mount, MainTyped
  <2> QED
    BY <1>8, <2>5, <2>6 DEF refuse_mount, SessionsTyped, WorkersTyped, sessions,
       MountHasPath, Torn
<1>9. CASE signal
  <2>1. WorkersTyped' /\ MountHasPath'
    BY <1>9 DEF signal, WorkersTyped, MountHasPath, Torn
  <2>2. MainTyped'
    BY <1>9 DEF signal, MainTyped
  <2> QED
    BY <1>9, <2>1, <2>2 DEF signal, SessionsTyped, PipesTyped, ClientsTyped, sessions,
       observed
<1> QED
  BY <1>1, <1>2, <1>3, <1>4, <1>5, <1>6, <1>7, <1>8, <1>9 DEF MainThread

\* A step of a worker.
LEMMA WorkerKeeps ==
  ASSUME ServerInv, NEW i \in Session, Worker(i) \/ spurious_wakeup(i)
  PROVE  ServerInv'
<1> USE SessionAssumption DEF ServerInv, TypeOK, Goto
<1>1. CASE thread_start(i) \/ spurious_wakeup(i)
  <2>1. WorkersTyped' /\ MountHasPath'
    BY <1>1 DEF thread_start, spurious_wakeup, WorkersTyped, MountHasPath, Torn
  <2> QED
    BY <1>1, <2>1 DEF thread_start, spurious_wakeup, SessionsTyped, MainTyped,
       PipesTyped, ClientsTyped, sessions, observed
<1>2. CASE thread_wait(i)
  <2>1. SessionsTyped' /\ PipesTyped'
    BY <1>2 DEF thread_wait, SessionsTyped, PipesTyped, sessions, OpCode, Target
  <2>2. prod_cons[i].op \in OpCode
    BY DEF SessionsTyped
  <2>3. Handler(prod_cons[i].op) \in {"waiting", "mount", "unmount", "request", "exit"}
    BY <2>2 DEF Handler, OpCode
  <2>4. WorkersTyped'
    BY <1>2, <2>3 DEF thread_wait, WorkersTyped
  <2>5. Handler(prod_cons[i].op) = "mount" => prod_cons[i].op = "MOUNT"
    BY <2>2 DEF Handler, OpCode
  <2>6. MountHasPath'
    BY <1>2, <2>5 DEF thread_wait, SessionsTyped, WorkersTyped, MountHasPath, Torn
  <2> QED
    BY <1>2, <2>1, <2>4, <2>6 DEF thread_wait, MainTyped, ClientsTyped, observed
<1>3. CASE mount_read_path(i)
  <2>1. prod_cons[i].args \in Client
    BY <1>3 DEF mount_read_path, MountHasPath
  <2>2. WorkersTyped' /\ MountHasPath'
    BY <1>3, <2>1 DEF mount_read_path, WorkersTyped, MountHasPath, Torn
  <2> QED
    BY <1>3, <2>2 DEF mount_read_path, SessionsTyped, MainTyped, PipesTyped,
       ClientsTyped, sessions, observed
<1>4. CASE mount_without_path(i)
  <2>1. SessionsTyped' /\ MountHasPath'
    BY <1>4 DEF mount_without_path, TornRead, SessionsTyped, WorkersTyped, sessions,
       OpCode, MountHasPath, Torn
  <2>2. WorkersTyped'
    BY <1>4 DEF mount_without_path, WorkersTyped
  <2> QED
    BY <1>4, <2>1, <2>2 DEF mount_without_path, MainTyped, PipesTyped, ClientsTyped,
       observed
<1>5. CASE mount_open_pipe(i)
  <2>1. PICK f \in Descriptor :
            /\ Connect(local[i], f)
            /\ open_session_table' = [open_session_table EXCEPT ![i] = f]
            /\ local' = [local EXCEPT ![i] = f]
    BY <1>5 DEF mount_open_pipe
  <2>2. local[i] \in Client
    BY <1>5 DEF mount_open_pipe, WorkersTyped
  <2>3. descriptors' \in [Descriptor -> Target] /\ pc' \in [Client -> PC]
    BY <2>1, <2>2, ConnectTyped
  <2>4. SessionsTyped' /\ WorkersTyped'
    BY <1>5, <2>1 DEF mount_open_pipe, SessionsTyped, WorkersTyped
  <2>5. PipesTyped' /\ ClientsTyped'
    BY <1>5, <2>3 DEF mount_open_pipe, PipesTyped, ClientsTyped, observed
  <2> QED
    BY <1>5, <2>4, <2>5 DEF mount_open_pipe, MainTyped, WorkersTyped, MountHasPath, Torn
<1>6. CASE mount_inform(i)
  <2>1. PipesTyped'
    BY <1>6, WrittenTyped DEF mount_inform, PipesTyped
  <2>2. WorkersTyped' /\ MountHasPath'
    BY <1>6 DEF mount_inform, WorkersTyped, MountHasPath, Torn
  <2> QED
    BY <1>6, <2>1, <2>2 DEF mount_inform, SessionsTyped, MainTyped, ClientsTyped,
       sessions, observed
<1>7. CASE request_read_args(i)
  <2>1. SessionsTyped' /\ MountHasPath'
    BY <1>7 DEF request_read_args, TornRead, SessionsTyped, WorkersTyped, sessions,
       OpCode, MountHasPath, Torn
  <2>2. WorkersTyped'
    BY <1>7 DEF request_read_args, WorkersTyped
  <2>3. PipesTyped'
    BY <1>7, WrittenTyped DEF request_read_args, PipesTyped
  <2> QED
    BY <1>7, <2>1, <2>2, <2>3 DEF request_read_args, MainTyped, ClientsTyped, observed
<1>8. CASE request_answer(i)
  <2>1. PICK answer \in Results :
            /\ replies' = Written(open_session_table[i], answer)
            /\ thread' = [thread EXCEPT ![i] =
                             IF Ends(open_session_table[i], answer)
                             THEN "end" ELSE "waiting"]
    BY <1>8 DEF request_answer
  <2>2. PipesTyped'
    BY <1>8, <2>1, WrittenTyped DEF request_answer, PipesTyped
  <2>3. WorkersTyped' /\ MountHasPath'
    BY <1>8, <2>1 DEF request_answer, WorkersTyped, MountHasPath, Torn
  <2> QED
    BY <1>8, <2>2, <2>3 DEF request_answer, SessionsTyped, MainTyped, ClientsTyped,
       sessions, observed
<1>9. CASE do_unmount(i)
  <2>1. PipesTyped'
    BY <1>9, WrittenTyped DEF do_unmount, PipesTyped
  <2>2. WorkersTyped' /\ MountHasPath'
    BY <1>9 DEF do_unmount, SessionsTyped, WorkersTyped, MountHasPath, Torn
  <2>3. SessionsTyped'
    BY <1>9 DEF do_unmount, SessionsTyped
  <2> QED
    BY <1>9, <2>1, <2>2, <2>3 DEF do_unmount, MainTyped, ClientsTyped, observed
<1>10. CASE unmount_close(i)
  <2>1. PipesTyped'
    BY <1>10 DEF unmount_close, PipesTyped, Target
  <2>2. WorkersTyped' /\ MountHasPath'
    BY <1>10 DEF unmount_close, WorkersTyped, MountHasPath, Torn
  <2> QED
    BY <1>10, <2>1, <2>2 DEF unmount_close, SessionsTyped, MainTyped, ClientsTyped,
       sessions, observed
<1> QED
  BY <1>1, <1>2, <1>3, <1>4, <1>5, <1>6, <1>7, <1>8, <1>9, <1>10 DEF Worker

\* What no client changes.
LEMMA ClientLeaves ==
  ASSUME ServerInv, NEW c \in Client, ClientReads(c) \/ ClientActs(c)
  PROVE  /\ SessionsTyped' /\ WorkersTyped' /\ MainTyped' /\ MountHasPath'
         /\ UNCHANGED <<prod_cons, thread, main>>
<1>1. UNCHANGED <<sessions, prod_cons, thread, local, main>>
  BY DEF ClientReads, ClientActs, mount_read_id, read_answer, unmount_close_pipes,
     tfs_mount, send_request, tfs_unmount, client_exit, handle_interr_unconnected,
     handle_interr_unmount, client_killed
<1> QED
  BY <1>1 DEF ServerInv, TypeOK, SessionsTyped, WorkersTyped, MainTyped,
     MountHasPath, Torn, sessions

\* A step of a client.
LEMMA ClientKeeps ==
  ASSUME ServerInv, NEW c \in Client, ClientReads(c) \/ ClientActs(c)
  PROVE  ServerInv'
<1> SUFFICES PipesTyped' /\ ClientsTyped'
  BY ClientLeaves DEF ServerInv, TypeOK
<1> USE SessionAssumption DEF ServerInv, TypeOK, ClientGoto
<1>1. CASE tfs_mount(c)
  <2>1. Detached(c, Other) \in [Descriptor -> Target]
    BY DetachedTyped DEF Target
  <2>2. [op |-> "MOUNT", to |-> c] \in Message
    BY DEF Message
  <2>3. PipesTyped'
    BY <1>1, <2>1, <2>2 DEF tfs_mount, Send, PipesTyped
  <2> QED
    BY <1>1, <2>3 DEF tfs_mount, ClientsTyped, PC
<1>2. CASE mount_read_id(c)
  <2>1. PICK id \in IF EndOfFile(c) THEN Session \cup {-1} ELSE {Head(replies[c])} :
            IF id = -1
            THEN ClientGoto(c, "refused") /\ UNCHANGED session_id
            ELSE /\ ClientGoto(c, "mounted")
                 /\ session_id' = [session_id EXCEPT ![c] = id]
    BY <1>2 DEF mount_read_id
  <2>2. ASSUME ~EndOfFile(c) PROVE Head(replies[c]) \in Session \cup {-1}
    <3>1. replies[c] \in Seq(Session \cup {0, -1}) /\ replies[c] # <<>>
      BY <1>2, <2>2 DEF mount_read_id, Answered, PipesTyped
    <3>2. Head(replies[c]) \in Session \cup {0, -1}
      BY <3>1
    <3> QED
      BY <3>2 DEF Session
  <2>3. id \in Session \cup {-1}
    BY <2>1, <2>2
  <2>4. ClientsTyped'
    BY <1>2, <2>1, <2>3 DEF mount_read_id, ClientsTyped, PC, observed
  <2> QED
    BY <1>2, <2>4, RestTyped DEF mount_read_id, PipesTyped
<1>3. CASE read_answer(c)
  BY <1>3, RestTyped DEF read_answer, PipesTyped, ClientsTyped, PC, observed
<1>4. CASE send_request(c)
  <2>1. [op |-> "REQUEST", to |-> session_id[c]] \in Message
    BY DEF Message, ClientsTyped
  <2>2. PipesTyped'
    BY <1>4, <2>1 DEF send_request, Send, PipesTyped
  <2> QED
    BY <1>4, <2>2 DEF send_request, ClientsTyped, PC
<1>5. CASE tfs_unmount(c) \/ handle_interr_unmount(c)
  <2>1. [op |-> "UNMOUNT", to |-> session_id[c]] \in Message
    BY DEF Message, ClientsTyped
  <2>2. /\ req_pipe' = Append(req_pipe, [op |-> "UNMOUNT", to |-> session_id[c]])
        /\ UNCHANGED <<descriptors, replies>>
    BY <1>5 DEF tfs_unmount, handle_interr_unmount, Send
  <2>3. PipesTyped'
    BY <2>1, <2>2 DEF PipesTyped
  <2> QED
    BY <1>5, <2>3 DEF tfs_unmount, handle_interr_unmount, ClientsTyped, PC, observed
<1>6. CASE unmount_close_pipes(c) \/ client_exit(c) \/ client_killed(c)
  <2>1. Detached(c, "Gone") \in [Descriptor -> Target]
    BY DetachedTyped DEF Target
  <2>2. CloseReader(c) /\ UNCHANGED req_pipe
    BY <1>6 DEF unmount_close_pipes, client_exit, client_killed
  <2>3. PipesTyped'
    BY <2>1, <2>2 DEF CloseReader, PipesTyped
  <2> QED
    BY <1>6, <2>3 DEF unmount_close_pipes, client_exit, client_killed, ClientsTyped,
       PC, observed
<1>7. CASE handle_interr_unconnected(c)
  BY <1>7 DEF handle_interr_unconnected, PipesTyped, ClientsTyped, PC, observed
<1> QED
  BY <1>1, <1>2, <1>3, <1>4, <1>5, <1>6, <1>7 DEF ClientReads, ClientActs

\* Every step.
LEMMA NextServer == ServerInv /\ [Next]_vars => ServerInv'
<1>1. ASSUME ServerInv, UNCHANGED vars PROVE ServerInv'
  BY <1>1 DEF ServerInv, TypeOK, SessionsTyped, WorkersTyped, MainTyped, PipesTyped,
     ClientsTyped, MountHasPath, Torn, vars, sessions, observed
<1> QED
  BY <1>1, MainKeeps, WorkerKeeps, ClientKeeps DEF Next

\* Every variable keeps its type, and workers open only paths they read.
THEOREM ServerTypeCorrect == Spec => []TypeOK
<1>1. ServerInv => TypeOK
  BY DEF ServerInv
<1> QED
  BY <1>1, InitServer, NextServer, PTL DEF Spec

-----------------------------------------------------------------------------
(* No request is slept on *)

\* A step of the main thread: it signals whatever it has scheduled.
LEMMA MainWakes == ServerInv /\ WakeupInv /\ MainThread => WakeupInv'
<1> SUFFICES ASSUME ServerInv, WakeupInv, MainThread PROVE WakeupInv'
  OBVIOUS
<1> USE DEF WakeupInv, NoneStarting, WakeupPending, MainGoto
<1>1. CASE read_request \/ schedule_mount
  <2>1. main.at # "signal" /\ main'.at = "signal" /\ UNCHANGED thread
    BY <1>1 DEF read_request, schedule_mount, ServerInv, TypeOK, MainTyped
  <2>2. PICK slot, new : /\ main'.slot = slot
                         /\ prod_cons' = [prod_cons EXCEPT ![slot] = new]
    <3>1. CASE read_request
      BY <3>1 DEF read_request, Schedule, ServerInv, TypeOK, MainTyped
    <3>2. CASE schedule_mount
      BY <3>2 DEF schedule_mount, Schedule, ServerInv, TypeOK, MainTyped
    <3> QED
      BY <1>1, <3>1, <3>2
  <2>3. \A j \in Session : j # slot => prod_cons'[j] = prod_cons[j]
    BY <2>2 DEF ServerInv, TypeOK, SessionsTyped
  <2> QED
    BY <2>1, <2>2, <2>3
<1>2. CASE signal
  <2>1. /\ main.at = "signal" /\ main'.at = "read" /\ UNCHANGED prod_cons
        /\ thread'[main.slot] = "woken"
        /\ \A j \in Session : j # main.slot => thread'[j] = thread[j]
    BY <1>2 DEF signal, MutexFree, ServerInv, TypeOK, WorkersTyped, MainTyped
  <2> QED
    BY <2>1
<1>3. CASE read_mount \/ drop_request \/ decide_free \/ decide_taken \/ decide_reclaim
           \/ refuse_mount
  <2>1. main.at # "signal" /\ UNCHANGED <<prod_cons, thread>>
    BY <1>3 DEF read_mount, drop_request, decide_free, decide_taken, decide_reclaim,
       refuse_mount
  <2> QED
    BY <2>1
<1> QED
  BY <1>1, <1>2, <1>3 DEF MainThread

\* A step of a worker: it empties its buffer, or is at work while the main
\* thread waits to signal it.
LEMMA WorkerWakes ==
  ASSUME ServerInv, WakeupInv, NEW i \in Session, Worker(i) \/ spurious_wakeup(i)
  PROVE  WakeupInv'
<1> USE DEF WakeupInv, NoneStarting, WakeupPending
<1>1. UNCHANGED main
  BY DEF Worker, thread_start, spurious_wakeup, thread_wait, mount_read_path,
     mount_without_path, mount_open_pipe, mount_inform, request_read_args,
     request_answer, do_unmount, unmount_close
<1>2. /\ thread'[i] # "starting"
      /\ \A j \in Session \ {i} : thread'[j] = thread[j]
  BY DEF Worker, thread_start, spurious_wakeup, thread_wait, mount_read_path,
     mount_without_path, mount_open_pipe, mount_inform, request_read_args,
     request_answer, do_unmount, unmount_close, Goto, ServerInv, TypeOK, WorkersTyped,
     SessionsTyped, Handler, OpCode
<1>3. \A j \in Session \ {i} : prod_cons'[j] = prod_cons[j]
  BY DEF Worker, thread_start, spurious_wakeup, thread_wait, mount_read_path,
     mount_without_path, mount_open_pipe, mount_inform, request_read_args,
     request_answer, do_unmount, unmount_close, TornRead, ServerInv, TypeOK,
     SessionsTyped
<1>4. CASE spurious_wakeup(i)
  <2>1. thread'[i] = "woken"
    BY <1>4 DEF spurious_wakeup, Goto, ServerInv, TypeOK, WorkersTyped
  <2> QED
    BY <1>1, <1>2, <1>3, <2>1
<1>5. CASE thread_wait(i)
  <2>1. prod_cons'[i].op = "NO_OP"
    BY <1>5 DEF thread_wait, ServerInv, TypeOK, SessionsTyped
  <2> QED
    BY <1>1, <1>2, <1>3, <2>1
<1>6. CASE Worker(i) /\ ~thread_wait(i)
  <2>1. thread[i] \notin {"woken", "exit"}
    BY <1>6 DEF Worker, thread_start, mount_read_path, mount_without_path,
       mount_open_pipe, mount_inform, request_read_args, request_answer, do_unmount,
       unmount_close
  <2>2. prod_cons'[i].op # "NO_OP" => prod_cons[i].op # "NO_OP"
    BY <1>6 DEF Worker, thread_start, mount_read_path, mount_without_path,
       mount_open_pipe, mount_inform, request_read_args, request_answer, do_unmount,
       unmount_close, TornRead, Torn
  <2> QED
    BY <1>1, <1>2, <1>3, <2>1, <2>2
<1> QED
  BY <1>4, <1>5, <1>6

\* When every worker waits before the first request comes, no request is ever
\* slept on, whatever clients do and however often wakeups are spurious.
THEOREM NoRequestSleptOn ==
  ASSUME WorkersReady
  PROVE  Spec => []WakeupPending
<1>1. Init => WakeupInv
  BY DEF Init, WakeupInv, NoneStarting, WakeupPending
<1>2. ServerInv /\ WakeupInv /\ [Next]_vars => WakeupInv'
  <2>1. ASSUME ServerInv, WakeupInv, NEW c \in Client, ClientReads(c) \/ ClientActs(c)
        PROVE  WakeupInv'
    BY <2>1, ClientLeaves DEF WakeupInv, NoneStarting, WakeupPending
  <2>2. ASSUME WakeupInv, UNCHANGED vars PROVE WakeupInv'
    BY <2>2 DEF WakeupInv, NoneStarting, WakeupPending, vars
  <2> QED
    BY <2>1, <2>2, MainWakes, WorkerWakes DEF Next
<1>3. WakeupInv => WakeupPending
  BY DEF WakeupInv
<1> QED
  BY <1>1, <1>2, <1>3, InitServer, NextServer, PTL DEF Spec
=============================================================================
