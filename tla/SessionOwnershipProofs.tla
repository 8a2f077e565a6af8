----------------------- MODULE SessionOwnershipProofs -----------------------
(***************************************************************************)
(* For any number of clients and sessions: while operations succeed and    *)
(* clients die only between two calls, each client that mounted has a      *)
(* session of its own, until decide_mount polls a slot's old descriptor.   *)
(* As in SessionServer, the arguments of a dropped request are NO_OPs.     *)
(***************************************************************************)
EXTENDS SessionServerProofs

-----------------------------------------------------------------------------
(* Words for what a slot, its worker and its client are doing *)

\* A worker that is in no handler, or at the end of do_unmount.
Idle == {"starting", "waiting", "woken", "close"}

\* The main thread has a mount in hand.
Deciding == {"decide", "reclaim", "schedule"}

Scheduled(i) == main.at = "schedule" /\ main.slot = i

\* The slot's client was given its pipe's descriptor, and not yet its leave.
Serving(i) ==
    free_open_session_entries[i] = "TAKEN" /\ ~Pending(i) /\ ~Scheduled(i)

Serves(i, c) ==
    /\ Serving(i) /\ open_session_table[i] \in Descriptor
    /\ descriptors[open_session_table[i]] = c

Quiet(i) == thread[i] \in {"waiting", "woken"} /\ prod_cons[i].op = "NO_OP"

\* Message k of the server's pipe is a request of session i.
ForSession(k, i) ==
    k \in 1 .. Len(req_pipe) /\ req_pipe[k].op # "MOUNT" /\ req_pipe[k].to = i
InPipe(i) == \E k \in 1 .. Len(req_pipe) : ForSession(k, i)

\* Message k of the server's pipe is a mount of client c.
ForClient(k, c) ==
    k \in 1 .. Len(req_pipe) /\ req_pipe[k].op = "MOUNT" /\ req_pipe[k].to = c

\* The client whose mount is pending at a slot.
MountOf(i) == IF thread[i] = "open_pipe" THEN local[i] ELSE prod_cons[i].args

\* The descriptor that a slot has to close, one day.
HasFd(i) == Serving(i) \/ thread[i] = "close"
Fd(i) == IF thread[i] = "close" THEN local[i] ELSE open_session_table[i]

-----------------------------------------------------------------------------
(* The invariant *)

\* Which buffers, threads and entries go together.
SlotShape(i) ==
    LET op == prod_cons[i].op
        taken == free_open_session_entries[i] = "TAKEN"
    IN  /\ op # "NOT_A_CODE" /\ thread[i] \notin {"end", "exit"}
        /\ ~taken => op = "NO_OP" /\ thread[i] \in Idle
        /\ Scheduled(i) => taken /\ op = "NO_OP" /\ thread[i] \in Idle
        /\ op = "MOUNT" => taken /\ thread[i] \in Idle
        /\ op \in {"UNMOUNT", "REQUEST"} =>
               Serving(i) /\ thread[i] \in {"waiting", "woken"}
        /\ thread[i] \notin Idle => taken /\ op = "NO_OP"
        /\ Serving(i) => thread[i] \notin {"starting", "close"}
SlotsShaped == \A i \in Session : SlotShape(i)

\* A mount is in one place: the pipe, the main thread's hands, or a slot.
MountsPending ==
    /\ \A i \in Session : Pending(i) => MountOf(i) \in Client /\ pc[MountOf(i)] = "opening"
    /\ \A i, j \in Session :
         Pending(i) /\ Pending(j) /\ MountOf(i) = MountOf(j) => i = j
MountsInHand ==
    main.at \in Deciding =>
        /\ pc[main.path] = "opening"
        /\ \A i \in Session : Pending(i) => MountOf(i) # main.path
MountsInPipe ==
    \A c \in Client, k \in Nat :
        ForClient(k, c) =>
            /\ pc[c] = "opening"
            /\ main.at \in Deciding => main.path # c
            /\ \A i \in Session : Pending(i) => MountOf(i) # c
            /\ \A l \in Nat : ForClient(l, c) => l = k

\* A session has at most one request in the pipe.
RequestsInPipe ==
    /\ \A i \in Session : InPipe(i) => Serving(i)
    /\ \A i \in Session, k, l \in Nat : ForSession(k, i) /\ ForSession(l, i) => k = l

\* No two slots are to close the same descriptor, and none a free one.
FdsDistinct ==
    /\ \A i \in Session : HasFd(i) => Fd(i) \in Descriptor /\ descriptors[Fd(i)] # "Closed"
    /\ \A i, j \in Session : HasFd(i) /\ HasFd(j) /\ Fd(i) = Fd(j) => i = j
    /\ \A i, j \in Session, c \in Client : Serves(i, c) /\ Serves(j, c) => i = j

\* Who is behind a slot's descriptor.
FdsUsed ==
    /\ \A i \in Session :
         Serving(i) => \/ descriptors[open_session_table[i]] \in Client
                       \/ /\ descriptors[open_session_table[i]] = "Gone"
                          /\ Quiet(i) /\ ~InPipe(i)
    /\ \A i \in Session : thread[i] = "inform" => local[i] = open_session_table[i]
    /\ \A i \in Session :
         thread[i] = "close" =>
             \/ descriptors[local[i]] = "Gone"
             \/ \E c \in Client : /\ descriptors[local[i]] = c
                                  /\ pc[c] = "unmounting" /\ replies[c] = << 0 >>
    /\ main.at = "reclaim" => /\ Serving(main.slot)
                              /\ open_session_table[main.slot] = main.fd
                              /\ descriptors[main.fd] = "Gone"

\* What the client of a slot waits for, and what is done for it.
Phase(i, c) ==
    LET op == prod_cons[i].op
    IN  /\ pc[c] \in {"mounting", "mounted", "requesting", "unmounting"}
        /\ pc[c] # "mounting" => session_id[c] = i
        /\ pc[c] = "mounting" =>
               /\ ~InPipe(i)
               /\ \/ thread[i] = "inform" /\ replies[c] = <<>>
                  \/ Quiet(i) /\ replies[c] = <<i>>
        /\ pc[c] = "mounted" => ~InPipe(i) /\ Quiet(i) /\ replies[c] = <<>>
        /\ pc[c] = "requesting" =>
               /\ thread[i] \in {"waiting", "woken", "request", "answer"}
               /\ op \in {"NO_OP", "REQUEST"} /\ replies[c] \in {<<>>, << 0 >>}
        /\ pc[c] = "unmounting" =>
               /\ thread[i] \in {"waiting", "woken", "unmount"}
               /\ op \in {"NO_OP", "UNMOUNT"} /\ replies[c] = <<>>
        /\ InPipe(i) \/ replies[c] # <<>> => Quiet(i)
        /\ InPipe(i) => replies[c] = <<>>
        /\ \A k \in Nat : ForSession(k, i) =>
               req_pipe[k].op = IF pc[c] = "requesting" THEN "REQUEST" ELSE "UNMOUNT"
Phases == \A i \in Session, c \in Client : Serves(i, c) => Phase(i, c)

\* A client that mounted is its session's.
Standing(c) ==
    /\ ~interrupted[c] /\ pc[c] # "closing"
    /\ pc[c] = "opening" => replies[c] = <<>>
    /\ pc[c] = "mounting" =>
           \/ replies[c] = <<-1>> /\ \E f \in Descriptor : descriptors[f] = c
           \/ \E i \in Session : Serves(i, c)
    /\ pc[c] \in {"mounted", "requesting"} => Serves(session_id[c], c)
    /\ pc[c] = "unmounting" => IF replies[c] = <<>> THEN Serves(session_id[c], c)
                                                     ELSE replies[c] = << 0 >>
Standings == \A c \in Client : Standing(c)

Good ==
    /\ SlotsShaped /\ MountsPending /\ MountsInHand /\ MountsInPipe /\ RequestsInPipe
    /\ FdsDistinct /\ FdsUsed /\ Phases /\ Standings

OwnInv == ~mistaken => Good

-----------------------------------------------------------------------------
(* What a step leaves alone *)

SlotKept(i) ==
    /\ free_open_session_entries'[i] = free_open_session_entries[i]
    /\ open_session_table'[i] = open_session_table[i]
    /\ prod_cons'[i] = prod_cons[i]
    /\ thread'[i] = thread[i] /\ local'[i] = local[i]
    /\ Scheduled(i)' <=> Scheduled(i)

\* A slot that a step leaves alone is what it was.
LEMMA KeptSlot ==
  ASSUME NEW i \in Session, SlotKept(i)
  PROVE  /\ Serving(i)' <=> Serving(i)
         /\ Pending(i)' <=> Pending(i)
         /\ Quiet(i)' <=> Quiet(i)
         /\ HasFd(i)' <=> HasFd(i)
         /\ Fd(i)' = Fd(i) /\ MountOf(i)' = MountOf(i)
         /\ SlotShape(i)' <=> SlotShape(i)
<1>1. /\ Serving(i)' <=> Serving(i)
      /\ Pending(i)' <=> Pending(i)
      /\ Quiet(i)' <=> Quiet(i)
  BY DEF SlotKept, Serving, Pending, Quiet
<1>2. Fd(i)' = Fd(i) /\ MountOf(i)' = MountOf(i) /\ (HasFd(i)' <=> HasFd(i))
  BY <1>1 DEF SlotKept, Fd, MountOf, HasFd
<1>3. SlotShape(i)' <=> SlotShape(i)
  BY <1>1 DEF SlotKept, SlotShape
<1> QED
  BY <1>1, <1>2, <1>3

\* The pipe is as it was.
LEMMA PipeKept ==
  ASSUME UNCHANGED req_pipe
  PROVE  /\ \A k, i : ForSession(k, i)' <=> ForSession(k, i)
         /\ \A k, c : ForClient(k, c)' <=> ForClient(k, c)
         /\ \A i : InPipe(i)' <=> InPipe(i)
  BY DEF ForSession, ForClient, InPipe

\* A step of one worker, or a signal to it, by which its slot neither gets nor
\* loses a client or a mount.
LEMMA SlotMoves ==
  ASSUME ServerInv, Good, SlotsShaped',
         UNCHANGED <<descriptors, req_pipe, replies, pc, session_id, interrupted,
                     open_session_table>>,
         \A j \in Session : (Serving(j)' <=> Serving(j)) /\ (Pending(j)' <=> Pending(j)),
         \A j \in Session : Pending(j) => MountOf(j)' = MountOf(j),
         \A j \in Session : thread'[j] = "close" <=> thread[j] = "close",
         \A j \in Session : thread'[j] \in {"close", "inform"} =>
            thread'[j] = thread[j] /\ local'[j] = local[j],
         main'.at \in Deciding => main.at \in Deciding /\ main'.path = main.path,
         main'.at = "reclaim" =>
            main.at = "reclaim" /\ main'.slot = main.slot /\ main'.fd = main.fd,
         main.at = "reclaim" => main.slot \in Session,
         \A j \in Session : Serving(j) /\ Quiet(j) => Quiet(j)',
         \A j \in Session, c \in Client : Serves(j, c) => Phase(j, c)'
  PROVE  Good'
<1> USE DEF Good
<1>1. \A j \in Session : (HasFd(j)' <=> HasFd(j)) /\ (HasFd(j) => Fd(j)' = Fd(j))
  BY DEF HasFd, Fd
<1>2. \A j \in Session : \A c : Serves(j, c)' <=> Serves(j, c)
  BY DEF Serves
<1>3. MountsPending' /\ MountsInHand' /\ MountsInPipe'
  BY PipeKept DEF MountsPending, MountsInHand, MountsInPipe
<1>4. RequestsInPipe'
  BY PipeKept DEF RequestsInPipe
<1>5. FdsDistinct'
  BY <1>1, <1>2 DEF FdsDistinct
<1>6. FdsUsed'
  BY PipeKept DEF FdsUsed
<1>7. Phases'
  BY <1>2 DEF Phases
<1>8. Standings'
  <2> SUFFICES ASSUME NEW c \in Client PROVE Standing(c)'
    BY DEF Standings
  <2>1. Standing(c)
    BY DEF Standings
  <2>2. session_id[c] \in Session
    BY DEF ServerInv, TypeOK, ClientsTyped
  <2> QED
    BY <1>2, <2>1, <2>2 DEF Standing
<1> QED
  BY <1>3, <1>4, <1>5, <1>6, <1>7, <1>8

-----------------------------------------------------------------------------
(* The main thread's part in the variables *)

\* What the slots' variables are.
LEMMA SlotTypes ==
  ServerInv => \A i \in Session :
    /\ free_open_session_entries[i] \in {"FREE", "TAKEN"}
    /\ open_session_table[i] \in Descriptor \cup {-1}
    /\ prod_cons[i].op \in OpCode
    /\ thread[i] \in {"starting", "waiting", "woken", "mount", "open_pipe", "inform",
                      "request", "answer", "unmount", "end", "close", "exit"}
  BY DEF ServerInv, TypeOK, SessionsTyped, WorkersTyped

\* What a client's variables are.
LEMMA ClientTypes ==
  ServerInv => \A c \in Client :
    /\ pc[c] \in PC /\ session_id[c] \in Session
    /\ replies[c] \in Seq(Session \cup {0, -1})
  BY DEF ServerInv, TypeOK, ClientsTyped, PipesTyped

\* A signal wakes a worker that waits.
LEMMA Signal ==
  ASSUME ServerInv, Good, signal
  PROVE  Good'
<1>1. /\ main.at = "signal" /\ main'.at = "read"
      /\ \A j \in Session : \/ thread'[j] = thread[j]
                            \/ thread[j] = "waiting" /\ thread'[j] = "woken"
      /\ UNCHANGED <<free_open_session_entries, open_session_table, prod_cons,
                     descriptors, local, req_pipe, replies, pc, session_id, interrupted>>
  BY DEF signal, MainGoto, sessions, ServerInv, TypeOK, WorkersTyped, MainTyped
<1>2. \A j \in Session : /\ Serving(j)' <=> Serving(j)
                         /\ Pending(j)' <=> Pending(j)
                         /\ Quiet(j)' <=> Quiet(j)
                         /\ ~Scheduled(j)' /\ ~Scheduled(j)
                         /\ MountOf(j)' = MountOf(j)
  BY <1>1 DEF Serving, Pending, Scheduled, Quiet, MountOf
<1>3. SlotsShaped'
  BY <1>1, <1>2 DEF Good, SlotsShaped, SlotShape, Idle
<1>4. \A j \in Session, c \in Client : Serves(j, c) => Phase(j, c)'
  <2> SUFFICES ASSUME NEW j \in Session, NEW c \in Client, Serves(j, c) PROVE Phase(j, c)'
    OBVIOUS
  <2>1. Phase(j, c)
    BY DEF Good, Phases
  <2> QED
    BY <1>1, <1>2, <2>1, PipeKept DEF Phase
<1> QED
  BY <1>1, <1>2, <1>3, <1>4, SlotMoves DEF Deciding

-----------------------------------------------------------------------------
(* The workers *)

\* A worker that waits, or waits again.
LEMMA StartOrWake ==
  ASSUME ServerInv, Good, NEW i \in Session, thread_start(i) \/ spurious_wakeup(i)
  PROVE  Good'
<1>1. /\ \A j \in Session \ {i} : thread'[j] = thread[j]
      /\ thread[i] \in {"starting", "waiting"} /\ thread'[i] \in {"waiting", "woken"}
      /\ UNCHANGED <<free_open_session_entries, open_session_table, prod_cons, main,
                     descriptors, local, req_pipe, replies, pc, session_id, interrupted>>
  BY DEF thread_start, spurious_wakeup, Goto, sessions, ServerInv, TypeOK, WorkersTyped
<1>2. \A j \in Session : /\ Serving(j)' <=> Serving(j)
                         /\ Pending(j)' <=> Pending(j)
                         /\ Scheduled(j)' <=> Scheduled(j)
                         /\ Serving(j) => (Quiet(j)' <=> Quiet(j))
                         /\ MountOf(j)' = MountOf(j)
  BY <1>1 DEF Serving, Pending, Scheduled, Quiet, MountOf, Good, SlotsShaped, SlotShape
<1>3. SlotsShaped'
  BY <1>1, <1>2 DEF Good, SlotsShaped, SlotShape, Idle
<1>4. \A j \in Session, c \in Client : Serves(j, c) => Phase(j, c)'
  <2> SUFFICES ASSUME NEW j \in Session, NEW c \in Client, Serves(j, c) PROVE Phase(j, c)'
    OBVIOUS
  <2>1. Phase(j, c) /\ Serving(j)
    BY DEF Good, Phases, Serves
  <2> QED
    BY <1>1, <1>2, <2>1, PipeKept DEF Phase
<1>5. main.at = "reclaim" => main.slot \in Session
  BY DEF ServerInv, TypeOK, MainTyped
<1> QED
  BY <1>1, <1>2, <1>3, <1>4, <1>5, SlotMoves DEF Deciding

\* A worker reads its op code: what was asked in the buffer is what it does.
LEMMA ThreadWait ==
  ASSUME ServerInv, Good, NEW i \in Session, thread_wait(i)
  PROVE  Good'
<1> DEFINE op == prod_cons[i].op
<1>0. op \in {"NO_OP", "MOUNT", "UNMOUNT", "REQUEST"}
  BY SlotTypes DEF Good, SlotsShaped, SlotShape, OpCode
<1>1. /\ \A j \in Session \ {i} : thread'[j] = thread[j] /\ prod_cons'[j] = prod_cons[j]
      /\ thread[i] = "woken" /\ thread'[i] = Handler(op)
      /\ prod_cons'[i].op = "NO_OP" /\ prod_cons'[i].args = prod_cons[i].args
      /\ UNCHANGED <<free_open_session_entries, open_session_table, main,
                     local, req_pipe, replies, pc, session_id, interrupted>>
  BY DEF thread_wait, Goto, sessions, ServerInv, TypeOK, WorkersTyped, SessionsTyped
<1>2. UNCHANGED descriptors
  BY <1>0 DEF thread_wait, ServerInv, TypeOK, PipesTyped
<1>3. /\ op = "NO_OP" => thread'[i] = "waiting"
      /\ op = "MOUNT" => thread'[i] = "mount"
      /\ op = "UNMOUNT" => thread'[i] = "unmount"
      /\ op = "REQUEST" => thread'[i] = "request"
  BY <1>1 DEF Handler
<1>4. \A j \in Session : /\ Serving(j)' <=> Serving(j)
                         /\ Pending(j)' <=> Pending(j)
                         /\ Scheduled(j)' <=> Scheduled(j)
                         /\ Quiet(j) => Quiet(j)'
                         /\ MountOf(j)' = MountOf(j)
  BY <1>0, <1>1, <1>3 DEF Serving, Pending, Scheduled, Quiet, MountOf
<1>5. SlotsShaped'
  <2> SUFFICES ASSUME NEW j \in Session PROVE SlotShape(j)'
    BY DEF SlotsShaped
  <2>1. SlotShape(j)
    BY DEF Good, SlotsShaped
  <2> QED
    BY <1>0, <1>1, <1>3, <1>4, <2>1 DEF SlotShape, Idle, Serving
<1>6. \A j \in Session, c \in Client : Serves(j, c) => Phase(j, c)'
  <2> SUFFICES ASSUME NEW j \in Session, NEW c \in Client, Serves(j, c) PROVE Phase(j, c)'
    OBVIOUS
  <2>1. Phase(j, c) /\ Serving(j)
    BY DEF Good, Phases, Serves
  <2>2. CASE j # i
    BY <1>1, <1>4, <2>1, <2>2, PipeKept DEF Phase
  <2>3. CASE j = i
    <3>1. op # "MOUNT"
      BY <2>1, <2>3 DEF Serving, Pending
    <3>2. InPipe(i)' <=> InPipe(i)
      BY <1>1, PipeKept
    <3>3. op # "NO_OP" => ~Quiet(i)
      BY DEF Quiet
    <3> QED
      BY <1>0, <1>1, <1>3, <1>4, <2>1, <2>3, <3>1, <3>2, <3>3, PipeKept DEF Phase
  <2> QED
    BY <2>2, <2>3
<1>7. main.at = "reclaim" => main.slot \in Session
  BY DEF ServerInv, TypeOK, MainTyped
<1>8. \A j \in Session : /\ thread'[j] = "close" <=> thread[j] = "close"
                         /\ thread'[j] \in {"close", "inform"} => thread'[j] = thread[j]
  BY <1>0, <1>1, <1>3
<1> QED
  BY <1>1, <1>2, <1>4, <1>5, <1>6, <1>7, <1>8, SlotMoves DEF Deciding

\* The worker of a mount reads a path: the buffer is not torn.
LEMMA MountReadPath ==
  ASSUME ServerInv, Good, NEW i \in Session, mount_read_path(i)
  PROVE  Good'
<1>1. /\ \A j \in Session \ {i} : thread'[j] = thread[j] /\ local'[j] = local[j]
      /\ thread[i] = "mount" /\ thread'[i] = "open_pipe" /\ local'[i] = prod_cons[i].args
      /\ UNCHANGED <<free_open_session_entries, open_session_table, prod_cons, main,
                     descriptors, req_pipe, replies, pc, session_id, interrupted>>
  BY DEF mount_read_path, Goto, sessions, ServerInv, TypeOK, WorkersTyped
<1>2. \A j \in Session : /\ Serving(j)' <=> Serving(j)
                         /\ Pending(j)' <=> Pending(j)
                         /\ Scheduled(j)' <=> Scheduled(j)
                         /\ Quiet(j)' <=> Quiet(j)
                         /\ MountOf(j)' = MountOf(j)
  BY <1>1 DEF Serving, Pending, Scheduled, Quiet, MountOf
<1>3. SlotsShaped'
  BY <1>1, <1>2 DEF Good, SlotsShaped, SlotShape, Idle
<1>4. \A j \in Session, c \in Client : Serves(j, c) => Phase(j, c)'
  <2> SUFFICES ASSUME NEW j \in Session, NEW c \in Client, Serves(j, c) PROVE Phase(j, c)'
    OBVIOUS
  <2>1. Phase(j, c) /\ Serving(j)
    BY DEF Good, Phases, Serves
  <2>2. j # i
    BY <1>1, <2>1 DEF Serving, Pending
  <2> QED
    BY <1>1, <1>2, <2>1, <2>2, PipeKept DEF Phase
<1>5. main.at = "reclaim" => main.slot \in Session
  BY DEF ServerInv, TypeOK, MainTyped
<1>6. \A j \in Session : /\ thread'[j] = "close" <=> thread[j] = "close"
                         /\ thread'[j] \in {"close", "inform"} =>
                              thread'[j] = thread[j] /\ local'[j] = local[j]
  BY <1>1
<1> QED
  BY <1>1, <1>2, <1>3, <1>4, <1>5, <1>6, SlotMoves DEF Deciding

\* The arguments of a request are there: the buffer is not torn.
LEMMA RequestReadArgs ==
  ASSUME ServerInv, Good, NEW i \in Session, request_read_args(i)
  PROVE  Good'
<1>0. thread[i] = "request" /\ ~Torn(i)
  BY DEF request_read_args, Torn, Good, SlotsShaped, SlotShape, Idle
<1>1. /\ \A j \in Session \ {i} : thread'[j] = thread[j]
      /\ thread'[i] = "answer"
      /\ UNCHANGED <<free_open_session_entries, open_session_table, prod_cons, main, local,
                     descriptors, req_pipe, replies, pc, session_id, interrupted>>
  BY <1>0 DEF request_read_args, Goto, sessions, ServerInv, TypeOK, WorkersTyped
<1>2. \A j \in Session : /\ Serving(j)' <=> Serving(j)
                         /\ Pending(j)' <=> Pending(j)
                         /\ Scheduled(j)' <=> Scheduled(j)
                         /\ Quiet(j)' <=> Quiet(j)
                         /\ MountOf(j)' = MountOf(j)
  BY <1>0, <1>1 DEF Serving, Pending, Scheduled, Quiet, MountOf
<1>3. SlotsShaped'
  BY <1>0, <1>1, <1>2 DEF Good, SlotsShaped, SlotShape, Idle
<1>4. \A j \in Session, c \in Client : Serves(j, c) => Phase(j, c)'
  <2> SUFFICES ASSUME NEW j \in Session, NEW c \in Client, Serves(j, c) PROVE Phase(j, c)'
    OBVIOUS
  <2>1. Phase(j, c)
    BY DEF Good, Phases
  <2> QED
    BY <1>0, <1>1, <1>2, <2>1, PipeKept DEF Phase, Quiet
<1>5. main.at = "reclaim" => main.slot \in Session
  BY DEF ServerInv, TypeOK, MainTyped
<1>6. \A j \in Session : /\ thread'[j] = "close" <=> thread[j] = "close"
                         /\ thread'[j] \in {"close", "inform"} =>
                              thread'[j] = thread[j] /\ local'[j] = local[j]
  BY <1>0, <1>1
<1> QED
  BY <1>1, <1>2, <1>3, <1>4, <1>5, <1>6, SlotMoves DEF Deciding

\* A worker at a request has a client that waits for it.
LEMMA AtWork ==
  ASSUME ServerInv, Good, NEW i \in Session,
         thread[i] \in {"inform", "request", "answer", "unmount"}
  PROVE  \E c \in Client :
            /\ Serves(i, c) /\ replies[c] = <<>> /\ session_id[c] \in Session
            /\ prod_cons[i].op = "NO_OP" /\ ~InPipe(i)
            /\ pc[c] = CASE thread[i] = "inform" -> "mounting"
                         [] thread[i] = "unmount" -> "unmounting"
                         [] OTHER -> "requesting"
<1>1. SlotShape(i)
  BY DEF Good, SlotsShaped
<1>2. prod_cons[i].op = "NO_OP" /\ Serving(i) /\ ~Quiet(i) /\ thread[i] # "close"
  BY <1>1 DEF SlotShape, Idle, Serving, Pending, Quiet
<1>3. open_session_table[i] \in Descriptor
  BY <1>2 DEF Good, FdsDistinct, HasFd, Fd
<1>4. descriptors[open_session_table[i]] \in Client
  BY <1>2 DEF Good, FdsUsed
<1>5. PICK c \in Client : Serves(i, c)
  BY <1>2, <1>3, <1>4 DEF Serves
<1>6. Phase(i, c) /\ session_id[c] \in Session
  BY <1>5, ClientTypes DEF Good, Phases
<1>7. replies[c] = <<>> /\ ~InPipe(i)
  BY <1>2, <1>6 DEF Phase
<1> QED
  BY <1>2, <1>5, <1>6, <1>7 DEF Phase, Quiet

\* A worker writes its answer: its client alone reads it.
LEMMA Answer ==
  ASSUME ServerInv, Good, NEW i \in Session, NEW c \in Client,
         Serves(i, c), ~InPipe(i), replies[c] = <<>>, prod_cons[i].op = "NO_OP",
         thread[i] \in {"inform", "answer"}, thread'[i] = "waiting",
         \A j \in Session \ {i} : thread'[j] = thread[j],
         \A d \in Client \ {c} : replies'[d] = replies[d],
         \/ pc[c] = "mounting" /\ replies'[c] = <<i>>
         \/ pc[c] = "requesting" /\ replies'[c] = << 0 >>,
         UNCHANGED <<free_open_session_entries, open_session_table, prod_cons, main, local,
                     descriptors, req_pipe, pc, session_id, interrupted>>
  PROVE  Good'
<1>1. \A j \in Session : /\ Serving(j)' <=> Serving(j)
                         /\ Pending(j)' <=> Pending(j)
                         /\ Scheduled(j)' <=> Scheduled(j)
                         /\ Quiet(j) => Quiet(j)'
                         /\ MountOf(j)' = MountOf(j)
                         /\ HasFd(j)' <=> HasFd(j)
                         /\ Fd(j)' = Fd(j)
                         /\ thread'[j] = "close" <=> thread[j] = "close"
                         /\ thread'[j] = "inform" => thread[j] = "inform"
  BY DEF Serving, Pending, Scheduled, Quiet, MountOf, HasFd, Fd
<1>2. \A j \in Session : \A d : Serves(j, d)' <=> Serves(j, d)
  BY <1>1 DEF Serves
<1>3. SlotsShaped'
  BY <1>1 DEF Good, SlotsShaped, SlotShape, Idle
<1>4. MountsPending' /\ MountsInHand' /\ MountsInPipe' /\ RequestsInPipe' /\ FdsDistinct'
  BY <1>1, <1>2, PipeKept DEF Good, MountsPending, MountsInHand, MountsInPipe,
     RequestsInPipe, FdsDistinct
<1>5. FdsUsed'
  <2>1. main.at = "reclaim" => main.slot \in Session
    BY DEF ServerInv, TypeOK, MainTyped
  <2>2. \A d \in Client : pc[d] = "unmounting" => replies'[d] = replies[d]
    OBVIOUS
  <2>3. \A j \in Session :
          thread'[j] = "close" =>
             \/ descriptors[local[j]] = "Gone"
             \/ \E d \in Client : /\ descriptors[local[j]] = d
                                  /\ pc[d] = "unmounting" /\ replies'[d] = << 0 >>
    <3> SUFFICES ASSUME NEW j \in Session, thread'[j] = "close",
                        descriptors[local[j]] # "Gone"
                 PROVE  \E d \in Client : /\ descriptors[local[j]] = d
                                         /\ pc[d] = "unmounting" /\ replies'[d] = << 0 >>
      OBVIOUS
    <3>1. PICK d \in Client : /\ descriptors[local[j]] = d
                             /\ pc[d] = "unmounting" /\ replies[d] = << 0 >>
      BY <1>1 DEF Good, FdsUsed
    <3> QED
      BY <2>2, <3>1
  <2>4. \A j \in Session :
          Serving(j)' => \/ descriptors[open_session_table[j]] \in Client
                         \/ /\ descriptors[open_session_table[j]] = "Gone"
                            /\ Quiet(j)' /\ ~InPipe(j)'
    BY <1>1, PipeKept DEF Good, FdsUsed
  <2> QED
    BY <1>1, <2>1, <2>3, <2>4 DEF Good, FdsUsed
<1>6. Phases'
  <2> SUFFICES ASSUME NEW j \in Session, NEW d \in Client, Serves(j, d) PROVE Phase(j, d)'
    BY <1>2 DEF Phases
  <2>1. Phase(j, d)
    BY DEF Good, Phases
  <2>2. CASE d = c
    <3>1. j = i
      BY <2>2 DEF Good, FdsDistinct
    <3>2. Quiet(i)' /\ ~InPipe(i)' /\ \A k : ~ ForSession(k, i)'
      BY PipeKept DEF Quiet, InPipe, ForSession
    <3> QED
      BY <2>1, <2>2, <3>1, <3>2 DEF Phase
  <2>3. CASE d # c
    <3>1. j # i
      BY <2>3 DEF Serves
    <3> QED
      BY <1>1, <2>1, <2>3, <3>1, PipeKept DEF Phase
  <2> QED
    BY <2>2, <2>3
<1>7. Standings'
  <2> SUFFICES ASSUME NEW d \in Client PROVE Standing(d)'
    BY DEF Standings
  <2>1. Standing(d) /\ session_id[d] \in Session
    BY ClientTypes DEF Good, Standings
  <2>2. CASE d = c
    BY <1>2, <2>1, <2>2 DEF Standing
  <2>3. CASE d # c
    BY <1>2, <2>1, <2>3 DEF Standing
  <2> QED
    BY <2>2, <2>3
<1> QED
  BY <1>3, <1>4, <1>5, <1>6, <1>7 DEF Good

\* A write to the pipe of a client that reads no answer yet.
LEMMA WrittenTo ==
  ASSUME ServerInv, NEW f \in Descriptor, NEW c \in Client, descriptors[f] = c,
         replies[c] = <<>>, NEW r, replies' = Written(f, r)
  PROVE  /\ replies'[c] = <<r>> /\ \A d \in Client \ {c} : replies'[d] = replies[d]
         /\ Writable(f)
<1>1. replies \in [Client -> Seq(Session \cup {0, -1})]
  BY DEF ServerInv, TypeOK, PipesTyped
<1>2. replies' = [replies EXCEPT ![c] = Append(@, r)]
  BY DEF Written
<1>3. Append(<<>>, r) = <<r>>
  OBVIOUS
<1>4. Writable(f)
  BY SessionAssumption DEF Writable
<1> QED
  BY <1>1, <1>2, <1>3, <1>4

\* A mounted client is told its session.
LEMMA MountInform ==
  ASSUME ServerInv, Good, NEW i \in Session, mount_inform(i)
  PROVE  Good'
<1>1. thread[i] = "inform"
  BY DEF mount_inform
<1>2. PICK c \in Client : /\ Serves(i, c) /\ replies[c] = <<>> /\ ~InPipe(i)
                          /\ prod_cons[i].op = "NO_OP" /\ pc[c] = "mounting"
  BY <1>1, AtWork
<1>3. local[i] = open_session_table[i]
  BY <1>1 DEF Good, FdsUsed
<1>4. /\ replies'[c] = <<i>> /\ \A d \in Client \ {c} : replies'[d] = replies[d]
      /\ Writable(local[i])
  BY <1>2, <1>3, WrittenTo DEF mount_inform, Serves
<1>5. thread'[i] = "waiting" /\ \A j \in Session \ {i} : thread'[j] = thread[j]
  BY <1>4 DEF mount_inform, Goto, ServerInv, TypeOK, WorkersTyped
<1>6. UNCHANGED <<free_open_session_entries, open_session_table, prod_cons, main, local,
                  descriptors, req_pipe, pc, session_id, interrupted>>
  BY DEF mount_inform, sessions
<1> QED
  BY <1>1, <1>2, <1>4, <1>5, <1>6, Answer

\* A request that succeeds is answered.
LEMMA RequestAnswer ==
  ASSUME Results \subseteq {0}, ServerInv, Good, NEW i \in Session, request_answer(i)
  PROVE  Good'
<1>1. thread[i] = "answer"
  BY DEF request_answer
<1>2. PICK c \in Client : /\ Serves(i, c) /\ replies[c] = <<>> /\ ~InPipe(i)
                          /\ prod_cons[i].op = "NO_OP" /\ pc[c] = "requesting"
  BY <1>1, AtWork
<1>3. PICK answer \in Results :
         /\ replies' = Written(open_session_table[i], answer)
         /\ Goto(i, IF Ends(open_session_table[i], answer) THEN "end" ELSE "waiting")
  BY DEF request_answer
<1>4. /\ replies'[c] = << 0 >> /\ \A d \in Client \ {c} : replies'[d] = replies[d]
      /\ Writable(open_session_table[i])
  BY <1>2, <1>3, WrittenTo DEF Serves
<1>5. thread'[i] = "waiting" /\ \A j \in Session \ {i} : thread'[j] = thread[j]
  BY <1>3, <1>4 DEF Ends, Goto, ServerInv, TypeOK, WorkersTyped
<1> QED
  BY <1>1, <1>2, <1>4, <1>5, Answer DEF request_answer, sessions

\* What is known of the slots that a step on slot i leaves alone.
Others(i) ==
    \A j \in Session \ {i} :
        /\ Serving(j)' <=> Serving(j)
        /\ Pending(j)' <=> Pending(j)
        /\ Quiet(j)' <=> Quiet(j)
        /\ HasFd(j)' <=> HasFd(j)
        /\ Fd(j)' = Fd(j) /\ MountOf(j)' = MountOf(j)
        /\ SlotShape(j)' <=> SlotShape(j)
        /\ open_session_table'[j] = open_session_table[j] /\ local'[j] = local[j]
        /\ thread'[j] = thread[j] /\ prod_cons'[j] = prod_cons[j]

\* What a step leaves alone is as it was.
LEMMA OthersKept ==
  ASSUME NEW i, \A j \in Session \ {i} : SlotKept(j)
  PROVE  Others(i)
<1> SUFFICES ASSUME NEW j \in Session \ {i}
             PROVE  /\ Serving(j)' <=> Serving(j)
                    /\ Pending(j)' <=> Pending(j)
                    /\ Quiet(j)' <=> Quiet(j)
                    /\ HasFd(j)' <=> HasFd(j)
                    /\ Fd(j)' = Fd(j) /\ MountOf(j)' = MountOf(j)
                    /\ SlotShape(j)' <=> SlotShape(j)
  BY DEF Others, SlotKept
<1>1. SlotKept(j)
  OBVIOUS
<1> QED
  BY <1>1, KeptSlot

\* The client has asked to leave, and is told so.
LEMMA DoUnmount ==
  ASSUME ServerInv, Good, NEW i \in Session, do_unmount(i)
  PROVE  Good'
<1>1. thread[i] = "unmount" /\ SlotShape(i)
  BY DEF do_unmount, Good, SlotsShaped, SlotShape
<1>2. PICK c \in Client : /\ Serves(i, c) /\ replies[c] = <<>> /\ ~InPipe(i)
                          /\ prod_cons[i].op = "NO_OP" /\ pc[c] = "unmounting"
  BY <1>1, AtWork
<1>3. /\ free_open_session_entries'[i] = "FREE"
      /\ local'[i] = open_session_table[i] /\ thread'[i] = "close"
      /\ \A j \in Session \ {i} : SlotKept(j)
      /\ UNCHANGED <<open_session_table, prod_cons, descriptors, main, req_pipe, pc,
                     session_id, interrupted>>
  BY DEF do_unmount, Goto, SlotKept, Scheduled, ServerInv, TypeOK, WorkersTyped,
     SessionsTyped
<1>4. replies'[c] = << 0 >> /\ \A d \in Client \ {c} : replies'[d] = replies[d]
  BY <1>1, <1>2, WrittenTo DEF do_unmount, Serves
<1>5. Others(i)
  BY <1>3, OthersKept
<1>6. /\ Serving(i) /\ ~Serving(i)' /\ ~Pending(i)' /\ ~Scheduled(i)' /\ ~Pending(i)
      /\ HasFd(i) /\ HasFd(i)' /\ Fd(i)' = Fd(i)
      /\ open_session_table[i] \in Descriptor
  BY <1>1, <1>2, <1>3 DEF Serving, Serves, Pending, Scheduled, HasFd, Fd, SlotShape, Idle
<1>7. SlotsShaped'
  BY <1>2, <1>3, <1>5, <1>6 DEF Good, SlotsShaped, SlotShape, Others, Idle
<1>8. MountsPending' /\ MountsInHand' /\ MountsInPipe'
  BY <1>3, <1>5, <1>6, PipeKept DEF Good, MountsPending, MountsInHand, MountsInPipe, Others
<1>9. RequestsInPipe'
  BY <1>2, <1>3, <1>5, PipeKept DEF Good, RequestsInPipe, Others
<1>10. \A j \in Session : \A d : Serves(j, d)' <=> (j # i /\ Serves(j, d))
  BY <1>3, <1>5, <1>6 DEF Serves, Others
<1>11. FdsDistinct'
  <2>1. \A j \in Session : (HasFd(j)' <=> HasFd(j)) /\ Fd(j)' = Fd(j)
    BY <1>5, <1>6 DEF Others
  <2> QED
    BY <1>3, <1>10, <2>1 DEF Good, FdsDistinct
<1>12. \A d \in Client : replies[d] = << 0 >> /\ pc[d] = "unmounting" => replies'[d] = << 0 >>
  BY <1>2, <1>4
<1>13. FdsUsed'
  <2>1. main.at = "reclaim" => main.slot \in Session /\ main.slot # i
    <3>1. descriptors[open_session_table[i]] # "Gone"
      BY <1>2, SessionAssumption DEF Serves
    <3> QED
      BY <3>1 DEF Good, FdsUsed, ServerInv, TypeOK, MainTyped
  <2>2. \A j \in Session :
          Serving(j)' => \/ descriptors[open_session_table[j]] \in Client
                         \/ /\ descriptors[open_session_table[j]] = "Gone"
                            /\ Quiet(j)' /\ ~InPipe(j)'
    BY <1>3, <1>5, <1>6, PipeKept DEF Good, FdsUsed, Others
  <2>3. ASSUME NEW j \in Session, thread'[j] = "close", descriptors[local'[j]] # "Gone"
        PROVE  \E d \in Client : /\ descriptors[local'[j]] = d
                                 /\ pc[d] = "unmounting" /\ replies'[d] = << 0 >>
    <3>1. CASE j = i
      BY <1>2, <1>3, <1>4, <3>1 DEF Serves
    <3>2. CASE j # i
      <4>1. PICK d \in Client : /\ descriptors[local[j]] = d
                                /\ pc[d] = "unmounting" /\ replies[d] = << 0 >>
        BY <1>5, <2>3, <3>2 DEF Good, FdsUsed, Others
      <4> QED
        BY <1>5, <1>12, <3>2, <4>1 DEF Others
    <3> QED
      BY <3>1, <3>2
  <2>4. \A j \in Session : thread'[j] = "inform" => local'[j] = open_session_table[j]
    BY <1>3, <1>5 DEF Good, FdsUsed, Others
  <2> QED
    BY <1>3, <1>5, <2>1, <2>2, <2>3, <2>4 DEF Good, FdsUsed, Others
<1>14. Phases'
  <2> SUFFICES ASSUME NEW j \in Session, NEW d \in Client, Serves(j, d), j # i
               PROVE  Phase(j, d)'
    BY <1>10 DEF Phases
  <2>1. Phase(j, d)
    BY DEF Good, Phases
  <2>2. d # c
    BY <1>2 DEF Good, FdsDistinct
  <2> QED
    BY <1>3, <1>4, <1>5, <2>1, <2>2, PipeKept DEF Phase, Others
<1>15. Standings'
  <2> SUFFICES ASSUME NEW d \in Client PROVE Standing(d)'
    BY DEF Standings
  <2>1. Standing(d) /\ session_id[d] \in Session
    BY ClientTypes DEF Good, Standings
  <2>2. CASE d = c
    BY <1>2, <1>3, <1>4, <2>1, <2>2 DEF Standing
  <2>3. CASE d # c
    <3>1. ~Serves(i, d)
      BY <1>2, <2>3 DEF Serves
    <3> QED
      BY <1>3, <1>4, <1>10, <2>1, <2>3, <3>1 DEF Standing
  <2> QED
    BY <2>2, <2>3
<1> QED
  BY <1>7, <1>8, <1>9, <1>11, <1>13, <1>14, <1>15 DEF Good

\* A slot's old descriptor is closed: no other slot has it.
LEMMA UnmountClose ==
  ASSUME ServerInv, Good, NEW i \in Session, unmount_close(i)
  PROVE  Good'
<1>1. thread[i] = "close" /\ SlotShape(i)
  BY DEF unmount_close, Good, SlotsShaped
<1>2. /\ thread'[i] = "waiting" /\ \A j \in Session \ {i} : SlotKept(j)
      /\ UNCHANGED <<free_open_session_entries, open_session_table, prod_cons, local, main,
                     req_pipe, replies, pc, session_id, interrupted>>
  BY DEF unmount_close, Goto, SlotKept, Scheduled, sessions, ServerInv, TypeOK, WorkersTyped
<1>3. /\ local[i] \in Descriptor /\ HasFd(i) /\ Fd(i) = local[i]
      /\ \A f \in Descriptor \ {local[i]} : descriptors'[f] = descriptors[f]
  BY <1>1 DEF unmount_close, Good, FdsDistinct, HasFd, Fd
<1>4. Others(i)
  BY <1>2, OthersKept
<1>5. /\ ~Serving(i) /\ ~Serving(i)' /\ ~HasFd(i)'
      /\ Pending(i)' <=> Pending(i)
      /\ Scheduled(i)' <=> Scheduled(i)
      /\ MountOf(i)' = MountOf(i)
  BY <1>1, <1>2 DEF Serving, Pending, Scheduled, HasFd, SlotShape, MountOf
<1>6. \A j \in Session : HasFd(j) /\ j # i =>
         Fd(j) \in Descriptor /\ Fd(j) # local[i] /\ descriptors'[Fd(j)] = descriptors[Fd(j)]
  BY <1>3 DEF Good, FdsDistinct
<1>7. \A j \in Session : \A d : Serves(j, d)' <=> Serves(j, d)
  <2> SUFFICES ASSUME NEW j \in Session, Serving(j), j # i
               PROVE  \A d : Serves(j, d)' <=> Serves(j, d)
    BY <1>4, <1>5 DEF Serves, Others
  <2>1. HasFd(j) /\ Fd(j) = open_session_table[j]
    BY DEF Good, SlotsShaped, SlotShape, HasFd, Fd
  <2> QED
    BY <1>2, <1>4, <1>6, <2>1 DEF Serves, Others
<1>8. SlotsShaped'
  BY <1>1, <1>2, <1>4, <1>5 DEF Good, SlotsShaped, SlotShape, Others, Idle
<1>9. MountsPending' /\ MountsInHand' /\ MountsInPipe'
  BY <1>2, <1>4, <1>5, PipeKept DEF Good, MountsPending, MountsInHand, MountsInPipe, Others
<1>10. RequestsInPipe'
  BY <1>2, <1>4, <1>5, PipeKept DEF Good, RequestsInPipe, Others
<1>11. FdsDistinct'
  BY <1>4, <1>5, <1>6, <1>7 DEF Good, FdsDistinct, Others
<1>12. \A j \in Session : Serving(j) =>
          /\ j # i /\ open_session_table[j] \in Descriptor
          /\ descriptors'[open_session_table[j]] = descriptors[open_session_table[j]]
  BY <1>1, <1>6 DEF Good, SlotsShaped, SlotShape, HasFd, Fd
<1>13. FdsUsed'
  <2>1. main.at = "reclaim" => main.slot \in Session
    BY DEF ServerInv, TypeOK, MainTyped
  <2>2. \A j \in Session :
          Serving(j)' => \/ descriptors'[open_session_table[j]] \in Client
                         \/ /\ descriptors'[open_session_table[j]] = "Gone"
                            /\ Quiet(j)' /\ ~InPipe(j)'
    BY <1>2, <1>4, <1>5, <1>12, PipeKept DEF Good, FdsUsed, Others
  <2>3. \A j \in Session : thread'[j] = "close" =>
          j # i /\ thread[j] = "close" /\ descriptors'[local[j]] = descriptors[local[j]]
    BY <1>2, <1>4, <1>6 DEF Others, HasFd, Fd
  <2>4. \A j \in Session : thread'[j] = "inform" => local[j] = open_session_table[j]
    BY <1>2, <1>4 DEF Good, FdsUsed, Others
  <2> QED
    BY <1>2, <1>4, <1>12, <2>1, <2>2, <2>3, <2>4 DEF Good, FdsUsed, Others
<1>14. Phases'
  <2> SUFFICES ASSUME NEW j \in Session, NEW d \in Client, Serves(j, d)
               PROVE  Phase(j, d)'
    BY <1>7 DEF Phases
  <2>1. Phase(j, d) /\ j # i
    BY <1>5 DEF Good, Phases, Serves
  <2> QED
    BY <1>2, <1>4, <2>1, PipeKept DEF Phase, Others
<1>15. Standings'
  <2> SUFFICES ASSUME NEW d \in Client PROVE Standing(d)'
    BY DEF Standings
  <2>1. Standing(d) /\ session_id[d] \in Session
    BY ClientTypes DEF Good, Standings
  <2>2. ASSUME NEW f \in Descriptor, descriptors[f] = d, pc[d] = "mounting"
        PROVE  descriptors'[f] = d
    <3>1. descriptors[local[i]] # d
      BY <1>1, <2>2, SessionAssumption DEF Good, FdsUsed
    <3> QED
      BY <1>3, <2>2, <3>1
  <2> QED
    BY <1>2, <1>7, <2>1, <2>2 DEF Standing
<1> QED
  BY <1>8, <1>9, <1>10, <1>11, <1>13, <1>14, <1>15 DEF Good


\* A path is there to read: no buffer of a mount is torn.
LEMMA MountWithoutPath ==
  ASSUME Good, NEW i \in Session
  PROVE  ~mount_without_path(i)
  BY DEF mount_without_path, Torn, Good, SlotsShaped, SlotShape, Idle

\* A pipe gets a descriptor that no slot, and no refused client, has.
LEMMA Connected ==
  ASSUME ServerInv, Good, NEW c \in Client, NEW f \in Descriptor, Connect(c, f)
  PROVE  /\ pc[c] = "opening" /\ replies[c] = <<>> /\ pc'[c] = "mounting"
         /\ descriptors[f] = "Closed" /\ descriptors'[f] = c
         /\ \A g \in Descriptor \ {f} : descriptors'[g] = descriptors[g]
         /\ \A d \in Client \ {c} : pc'[d] = pc[d]
         /\ \A j \in Session : HasFd(j) => Fd(j) \in Descriptor \ {f}
         /\ \A j \in Session : Serving(j) =>
              HasFd(j) /\ Fd(j) = open_session_table[j]
         /\ \A j \in Session : ~Serves(j, c)
<1>1. pc[c] = "opening" /\ descriptors[f] = "Closed" /\ Standing(c)
  BY DEF Connect, IsLowestFree, Good, Standings
<1>2. replies[c] = <<>> /\ ~interrupted[c]
  BY <1>1 DEF Standing
<1>3. /\ pc'[c] = "mounting" /\ descriptors'[f] = c
      /\ \A g \in Descriptor \ {f} : descriptors'[g] = descriptors[g]
      /\ \A d \in Client \ {c} : pc'[d] = pc[d]
  BY <1>2 DEF Connect, ServerInv, TypeOK, PipesTyped, ClientsTyped
<1>4. \A j \in Session : HasFd(j) => Fd(j) \in Descriptor \ {f}
  BY <1>1 DEF Good, FdsDistinct
<1>5. \A j \in Session : Serving(j) => HasFd(j) /\ Fd(j) = open_session_table[j]
  BY DEF Good, SlotsShaped, SlotShape, HasFd, Fd
<1>6. \A j \in Session : ~Serves(j, c)
  BY <1>1 DEF Good, Phases, Phase
<1> QED
  BY <1>1, <1>2, <1>3, <1>4, <1>5, <1>6

\* A worker opens its client's pipe: the slot serves that client from now on.
LEMMA MountOpenPipe ==
  ASSUME ServerInv, Good, NEW i \in Session, mount_open_pipe(i)
  PROVE  Good'
<1> DEFINE c == local[i]
<1>1. thread[i] = "open_pipe" /\ SlotShape(i) /\ c \in Client /\ c = MountOf(i)
  BY DEF mount_open_pipe, Good, SlotsShaped, ServerInv, TypeOK, WorkersTyped, MountOf
<1>2. PICK f \in Descriptor :
         /\ Connect(c, f)
         /\ open_session_table' = [open_session_table EXCEPT ![i] = f]
         /\ local' = [local EXCEPT ![i] = f]
  BY DEF mount_open_pipe
<1>3. /\ pc[c] = "opening" /\ replies[c] = <<>> /\ pc'[c] = "mounting"
      /\ descriptors[f] = "Closed" /\ descriptors'[f] = c
      /\ \A g \in Descriptor \ {f} : descriptors'[g] = descriptors[g]
      /\ \A d \in Client \ {c} : pc'[d] = pc[d]
      /\ \A j \in Session : HasFd(j) => Fd(j) \in Descriptor \ {f}
      /\ \A j \in Session : Serving(j) => HasFd(j) /\ Fd(j) = open_session_table[j]
      /\ \A j \in Session : ~Serves(j, c)
  BY <1>1, <1>2, Connected
<1>4. /\ open_session_table'[i] = f /\ local'[i] = f /\ thread'[i] = "inform"
      /\ \A j \in Session \ {i} : SlotKept(j)
      /\ UNCHANGED <<free_open_session_entries, prod_cons, main, req_pipe, replies,
                     session_id, interrupted>>
  BY <1>2 DEF mount_open_pipe, Goto, SlotKept, Scheduled, ServerInv, TypeOK, WorkersTyped,
     SessionsTyped
<1>5. Others(i)
  BY <1>4, OthersKept
<1>6. /\ Pending(i) /\ ~Serving(i) /\ ~HasFd(i) /\ ~Pending(i)'
      /\ Serving(i)' /\ HasFd(i)' /\ Fd(i)' = f
      /\ free_open_session_entries[i] = "TAKEN" /\ prod_cons[i].op = "NO_OP"
  BY <1>1, <1>4 DEF Serving, Pending, Scheduled, HasFd, Fd, SlotShape, Idle
<1>7. ~InPipe(i) /\ ~InPipe(i)' /\ \A k : ~ForSession(k, i)'
  BY <1>4, <1>6, PipeKept DEF Good, RequestsInPipe, InPipe, ForSession
<1>8. \A j \in Session \ {i} : \A d : Serves(j, d)' <=> Serves(j, d)
  BY <1>3, <1>5 DEF Serves, Others
<1>9. \A d \in Client : Serves(i, d)' <=> d = c
  BY <1>3, <1>4, <1>6 DEF Serves
<1>10. SlotsShaped'
  <2>1. SlotShape(i)'
    BY <1>1, <1>4, <1>6 DEF SlotShape, Scheduled, Idle
  <2>2. \A j \in Session \ {i} : SlotShape(j)'
    BY <1>5 DEF Good, SlotsShaped, Others
  <2> QED
    BY <2>1, <2>2 DEF SlotsShaped
<1>11. MountsPending'
  BY <1>1, <1>3, <1>5, <1>6 DEF Good, MountsPending, Others
<1>12. MountsInHand'
  <2> SUFFICES ASSUME main.at \in Deciding
               PROVE  /\ pc'[main.path] = "opening"
                      /\ \A j \in Session : Pending(j)' => MountOf(j)' # main.path
    BY <1>4 DEF MountsInHand
  <2>1. main.path \in Client /\ main.path # c
    BY <1>1, <1>6 DEF Good, MountsInHand, ServerInv, TypeOK, MainTyped, Deciding
  <2> QED
    BY <1>3, <1>5, <1>6, <2>1 DEF Good, MountsInHand, Others
<1>13. MountsInPipe'
  <2> SUFFICES ASSUME NEW d \in Client, NEW k \in Nat, ForClient(k, d)
               PROVE  /\ pc'[d] = "opening"
                      /\ main.at \in Deciding => main.path # d
                      /\ \A j \in Session : Pending(j)' => MountOf(j)' # d
                      /\ \A l \in Nat : ForClient(l, d) => l = k
    BY <1>4, PipeKept DEF MountsInPipe
  <2>1. d # c
    BY <1>1, <1>6 DEF Good, MountsInPipe
  <2> QED
    BY <1>3, <1>5, <1>6, <2>1 DEF Good, MountsInPipe, Others
<1>14. RequestsInPipe'
  BY <1>4, <1>5, <1>7, PipeKept DEF Good, RequestsInPipe, Others
<1>15. FdsDistinct'
  <2>1. \A j \in Session : HasFd(j)' => Fd(j)' \in Descriptor /\ descriptors'[Fd(j)'] # "Closed"
    <3> SUFFICES ASSUME NEW j \in Session, HasFd(j)'
                 PROVE  Fd(j)' \in Descriptor /\ descriptors'[Fd(j)'] # "Closed"
      OBVIOUS
    <3>1. CASE j = i
      BY <1>3, <1>6, <1>1, <3>1, SessionAssumption
    <3>2. CASE j # i
      BY <1>3, <1>5, <3>2 DEF Good, FdsDistinct, Others
    <3> QED
      BY <3>1, <3>2
  <2>2. \A j, k \in Session : HasFd(j)' /\ HasFd(k)' /\ Fd(j)' = Fd(k)' => j = k
    BY <1>3, <1>5, <1>6 DEF Good, FdsDistinct, Others
  <2>3. \A j, k \in Session, d \in Client : Serves(j, d)' /\ Serves(k, d)' => j = k
    BY <1>3, <1>8, <1>9 DEF Good, FdsDistinct
  <2> QED
    BY <2>1, <2>2, <2>3 DEF FdsDistinct
<1>16. FdsUsed'
  <2>1. main.at = "reclaim" =>
          main.slot \in Session /\ main.slot # i /\ main.fd \in Descriptor \ {f}
    BY <1>3, <1>6 DEF Good, FdsUsed, ServerInv, TypeOK, MainTyped
  <2>2. \A j \in Session :
          Serving(j)' => \/ descriptors'[open_session_table'[j]] \in Client
                         \/ /\ descriptors'[open_session_table'[j]] = "Gone"
                            /\ Quiet(j)' /\ ~InPipe(j)'
    <3> SUFFICES ASSUME NEW j \in Session, Serving(j)', j # i
                 PROVE  \/ descriptors'[open_session_table'[j]] \in Client
                        \/ /\ descriptors'[open_session_table'[j]] = "Gone"
                           /\ Quiet(j)' /\ ~InPipe(j)'
      BY <1>1, <1>3, <1>4
    <3> QED
      BY <1>3, <1>4, <1>5, PipeKept DEF Good, FdsUsed, Others
  <2>3. ASSUME NEW j \in Session, thread'[j] = "close", descriptors'[local'[j]] # "Gone"
        PROVE  \E d \in Client : /\ descriptors'[local'[j]] = d
                                 /\ pc'[d] = "unmounting" /\ replies'[d] = << 0 >>
    <3>1. /\ j # i /\ thread[j] = "close" /\ local'[j] = local[j]
          /\ descriptors'[local[j]] = descriptors[local[j]]
      BY <1>3, <1>4, <1>5, <2>3 DEF Others, HasFd, Fd
    <3>2. PICK d \in Client : /\ descriptors[local[j]] = d
                              /\ pc[d] = "unmounting" /\ replies[d] = << 0 >>
      BY <2>3, <3>1 DEF Good, FdsUsed
    <3> QED
      BY <1>3, <1>4, <3>1, <3>2
  <2>4. \A j \in Session : thread'[j] = "inform" => local'[j] = open_session_table'[j]
    BY <1>4, <1>5 DEF Good, FdsUsed, Others
  <2>5. main'.at = "reclaim" =>
          /\ Serving(main.slot)' /\ open_session_table'[main.slot] = main.fd
          /\ descriptors'[main.fd] = "Gone"
    BY <1>3, <1>4, <1>5, <2>1 DEF Good, FdsUsed, Others
  <2> QED
    BY <1>4, <2>2, <2>3, <2>4, <2>5 DEF FdsUsed
<1>17. Phases'
  <2> SUFFICES ASSUME NEW j \in Session, NEW d \in Client, Serves(j, d)' PROVE Phase(j, d)'
    BY DEF Phases
  <2>1. CASE j = i
    <3>1. d = c
      BY <1>9, <2>1
    <3>2. ~Quiet(i)' /\ ~InPipe(i)'
      BY <1>4, <1>7 DEF Quiet
    <3> QED
      BY <1>3, <1>4, <1>7, <2>1, <3>1, <3>2 DEF Phase
  <2>2. CASE j # i
    <3>1. Serves(j, d) /\ d # c
      BY <1>3, <1>8, <2>2
    <3>2. Phase(j, d)
      BY <3>1 DEF Good, Phases
    <3> QED
      BY <1>3, <1>4, <1>5, <2>2, <3>1, <3>2, PipeKept DEF Phase, Others
  <2> QED
    BY <2>1, <2>2
<1>18. Standings'
  <2> SUFFICES ASSUME NEW d \in Client PROVE Standing(d)'
    BY DEF Standings
  <2>1. Standing(d) /\ session_id[d] \in Session
    BY ClientTypes DEF Good, Standings
  <2>2. CASE d = c
    BY <1>3, <1>4, <1>9, <2>1, <2>2 DEF Standing
  <2>3. CASE d # c
    <3>1. \A g \in Descriptor : descriptors[g] = d => descriptors'[g] = d
      BY <1>3, SessionAssumption
    <3>2. \A j \in Session : Serves(j, d) => Serves(j, d)'
      BY <1>6, <1>8 DEF Serves
    <3> QED
      BY <1>3, <1>4, <2>1, <2>3, <3>1, <3>2 DEF Standing
  <2> QED
    BY <2>2, <2>3
<1> QED
  BY <1>10, <1>11, <1>12, <1>13, <1>14, <1>15, <1>16, <1>17, <1>18 DEF Good

-----------------------------------------------------------------------------
(* The main thread *)

\* The first message leaves the server's pipe: the others move up.
LEMMA Popped ==
  ASSUME ServerInv, req_pipe # <<>>, req_pipe' = Tail(req_pipe)
  PROVE  /\ Head(req_pipe) = req_pipe[1] /\ 1 \in 1 .. Len(req_pipe)
         /\ req_pipe[1] \in Message
         /\ \A k \in Nat : \A i : ForSession(k, i)' => k # 0 /\ ForSession(k + 1, i)
         /\ \A k \in Nat : \A c : ForClient(k, c)' => k # 0 /\ ForClient(k + 1, c)
         /\ \A k \in Nat : \A i : ForSession(k, i)' => req_pipe'[k] = req_pipe[k + 1]
         /\ \A i : InPipe(i)' => InPipe(i)
<1>1. req_pipe \in Seq(Message)
  BY DEF ServerInv, TypeOK, PipesTyped
<1>2. /\ Len(req_pipe) \in Nat /\ Len(req_pipe) # 0
      /\ Len(req_pipe') = Len(req_pipe) - 1
      /\ \A k \in 1 .. Len(req_pipe') : req_pipe'[k] = req_pipe[k + 1]
      /\ Head(req_pipe) = req_pipe[1] /\ req_pipe[1] \in Message
      /\ 1 \in 1 .. Len(req_pipe)
  BY <1>1
<1>3. \A k \in Nat : k \in 1 .. Len(req_pipe') => k # 0 /\ k + 1 \in 1 .. Len(req_pipe)
  BY <1>2
<1>4. \A k \in Nat : \A i : ForSession(k, i)' => k # 0 /\ ForSession(k + 1, i)
  BY <1>2, <1>3 DEF ForSession
<1>5. \A k \in Nat : \A c : ForClient(k, c)' => k # 0 /\ ForClient(k + 1, c)
  BY <1>2, <1>3 DEF ForClient
<1>6. \A i : InPipe(i)' => InPipe(i)
  <2> SUFFICES ASSUME NEW i, InPipe(i)' PROVE InPipe(i)
    OBVIOUS
  <2>1. PICK k \in 1 .. Len(req_pipe') : ForSession(k, i)'
    BY DEF InPipe
  <2>2. k \in Nat /\ k + 1 \in 1 .. Len(req_pipe) /\ ForSession(k + 1, i)
    BY <1>2, <1>4, <2>1
  <2> QED
    BY <2>2 DEF InPipe
<1>7. \A k \in Nat : \A i : ForSession(k, i)' => req_pipe'[k] = req_pipe[k + 1]
  BY <1>2 DEF ForSession
<1> QED
  BY <1>2, <1>4, <1>5, <1>6, <1>7

\* A step of the main thread that takes no slot: only the pipe may shrink.
LEMMA TakesNoSlot ==
  ASSUME ServerInv, Good,
         UNCHANGED <<free_open_session_entries, open_session_table, prod_cons, descriptors,
                     thread, local, replies, pc, session_id, interrupted>>,
         \A j : ~Scheduled(j), \A j : ~Scheduled(j)',
         UNCHANGED req_pipe \/ (req_pipe # <<>> /\ req_pipe' = Tail(req_pipe)),
         MountsInHand', MountsInPipe',
         main'.at = "reclaim" =>
            /\ main'.slot \in Session /\ Serving(main'.slot)
            /\ open_session_table[main'.slot] = main'.fd /\ descriptors[main'.fd] = "Gone"
  PROVE  Good'
<1>1. \A j \in Session : /\ Serving(j)' <=> Serving(j)
                         /\ Pending(j)' <=> Pending(j)
                         /\ Quiet(j)' <=> Quiet(j)
                         /\ HasFd(j)' <=> HasFd(j)
                         /\ Fd(j)' = Fd(j) /\ MountOf(j)' = MountOf(j)
                         /\ SlotShape(j)' <=> SlotShape(j)
  BY KeptSlot DEF SlotKept
<1>2. \A j \in Session : \A d : Serves(j, d)' <=> Serves(j, d)
  BY <1>1 DEF Serves
<1>3. \A j : InPipe(j)' => InPipe(j)
  BY Popped, PipeKept
<1>4. SlotsShaped' /\ MountsPending' /\ FdsDistinct'
  BY <1>1, <1>2 DEF Good, SlotsShaped, MountsPending, FdsDistinct
<1>5. RequestsInPipe'
  <2>1. \A j \in Session : InPipe(j)' => Serving(j)'
    BY <1>1, <1>3 DEF Good, RequestsInPipe
  <2>2. ASSUME NEW j \in Session, NEW k \in Nat, NEW l \in Nat,
               ForSession(k, j)', ForSession(l, j)'
        PROVE  k = l
    <3>1. CASE UNCHANGED req_pipe
      BY <2>2, <3>1, PipeKept DEF Good, RequestsInPipe
    <3>2. CASE req_pipe # <<>> /\ req_pipe' = Tail(req_pipe)
      <4>1. ForSession(k + 1, j) /\ ForSession(l + 1, j) /\ k + 1 \in Nat /\ l + 1 \in Nat
        BY <2>2, <3>2, Popped
      <4>2. k + 1 = l + 1
        BY <4>1 DEF Good, RequestsInPipe
      <4> QED
        BY <4>2
    <3> QED
      BY <3>1, <3>2
  <2> QED
    BY <2>1, <2>2 DEF RequestsInPipe
<1>6. FdsUsed'
  <2>1. main'.at = "reclaim" => main'.slot \in Session /\ Serving(main.slot)'
    BY <1>1
  <2> QED
    BY <1>1, <1>3, <2>1 DEF Good, FdsUsed
<1>7. Phases'
  <2> SUFFICES ASSUME NEW j \in Session, NEW d \in Client, Serves(j, d) PROVE Phase(j, d)'
    BY <1>2 DEF Phases
  <2>1. Phase(j, d)
    BY DEF Good, Phases
  <2>2. \A k \in Nat : ForSession(k, j)' =>
          req_pipe'[k].op = IF pc[d] = "requesting" THEN "REQUEST" ELSE "UNMOUNT"
    <3> SUFFICES ASSUME NEW k \in Nat, ForSession(k, j)'
                 PROVE  req_pipe'[k].op = IF pc[d] = "requesting" THEN "REQUEST"
                                                                 ELSE "UNMOUNT"
      OBVIOUS
    <3>1. CASE UNCHANGED req_pipe
      BY <2>1, <3>1, PipeKept DEF Phase
    <3>2. CASE req_pipe # <<>> /\ req_pipe' = Tail(req_pipe)
      <4>1. ForSession(k + 1, j) /\ k + 1 \in Nat
        BY <3>2, Popped
      <4>2. req_pipe'[k] = req_pipe[k + 1]
        BY <3>2, Popped
      <4> QED
        BY <2>1, <4>1, <4>2 DEF Phase
    <3> QED
      BY <3>1, <3>2
  <2> QED
    BY <1>1, <1>3, <2>1, <2>2 DEF Phase
<1>8. Standings'
  <2> SUFFICES ASSUME NEW d \in Client PROVE Standing(d)'
    BY DEF Standings
  <2>1. Standing(d) /\ session_id[d] \in Session
    BY ClientTypes DEF Good, Standings
  <2> QED
    BY <1>2, <2>1 DEF Standing
<1> QED
  BY <1>4, <1>5, <1>6, <1>7, <1>8 DEF Good

\* A mount goes from the pipe to the main thread.
LEMMA ReadMount ==
  ASSUME ServerInv, Good, read_mount
  PROVE  Good'
<1> DEFINE c == Head(req_pipe).to
<1>1. /\ main.at = "read" /\ main'.at = "decide" /\ main'.path = c
      /\ req_pipe # <<>> /\ req_pipe' = Tail(req_pipe) /\ Head(req_pipe).op = "MOUNT"
      /\ UNCHANGED <<free_open_session_entries, open_session_table, prod_cons, descriptors,
                     thread, local, replies, pc, session_id, interrupted>>
  BY DEF read_mount, sessions, ServerInv, TypeOK, MainTyped
<1>2. c \in Client /\ ForClient(1, c)
  BY <1>1, Popped DEF Message, ForClient
<1>3. pc[c] = "opening" /\ \A j \in Session : Pending(j)' => MountOf(j)' # c
  BY <1>1, <1>2 DEF Good, MountsInPipe, Pending, MountOf
<1>4. MountsInHand'
  BY <1>1, <1>3 DEF MountsInHand
<1>5. MountsInPipe'
  <2> SUFFICES ASSUME NEW d \in Client, NEW k \in Nat, ForClient(k, d)'
               PROVE  /\ pc[d] = "opening" /\ c # d
                      /\ \A j \in Session : Pending(j)' => MountOf(j)' # d
                      /\ \A l \in Nat : ForClient(l, d)' => l = k
    BY <1>1 DEF MountsInPipe
  <2>1. k # 0 /\ k + 1 \in Nat /\ ForClient(k + 1, d)
    BY <1>1, Popped
  <2>2. c # d
    BY <1>2, <2>1 DEF Good, MountsInPipe
  <2>3. ASSUME NEW l \in Nat, ForClient(l, d)'
        PROVE  l = k
    <3>1. l + 1 \in Nat /\ ForClient(l + 1, d)
      BY <1>1, <2>3, Popped
    <3>2. l + 1 = k + 1
      BY <2>1, <3>1 DEF Good, MountsInPipe
    <3> QED
      BY <3>2
  <2>4. \A j \in Session : Pending(j)' => MountOf(j)' # d
    BY <1>1, <2>1 DEF Good, MountsInPipe, Pending, MountOf
  <2>5. pc[d] = "opening"
    BY <2>1 DEF Good, MountsInPipe
  <2> QED
    BY <2>2, <2>3, <2>4, <2>5
<1> QED
  BY <1>1, <1>4, <1>5, TakesNoSlot DEF Scheduled

\* The mounts in the pipe and in hand, when the pipe shrinks at most.
LEMMA MountsKept ==
  ASSUME ServerInv, Good,
         UNCHANGED <<prod_cons, thread, local, pc>>,
         UNCHANGED req_pipe \/ (req_pipe # <<>> /\ req_pipe' = Tail(req_pipe)),
         main'.at \in Deciding => main.at \in Deciding /\ main'.path = main.path
  PROVE  MountsInHand' /\ MountsInPipe'
<1>1. MountsInHand'
  BY DEF Good, MountsInHand, Pending, MountOf
<1>2. MountsInPipe'
  <2> SUFFICES ASSUME NEW d \in Client, NEW k \in Nat, ForClient(k, d)'
               PROVE  /\ pc[d] = "opening"
                      /\ main'.at \in Deciding => main'.path # d
                      /\ \A j \in Session : Pending(j)' => MountOf(j)' # d
                      /\ \A l \in Nat : ForClient(l, d)' => l = k
    BY DEF MountsInPipe
  <2>1. CASE UNCHANGED req_pipe
    BY <2>1, PipeKept DEF Good, MountsInPipe, Pending, MountOf
  <2>2. CASE req_pipe # <<>> /\ req_pipe' = Tail(req_pipe)
    <3>1. k + 1 \in Nat /\ ForClient(k + 1, d)
      BY <2>2, Popped
    <3>2. ASSUME NEW l \in Nat, ForClient(l, d)'
          PROVE  l = k
      <4>1. l + 1 \in Nat /\ ForClient(l + 1, d)
        BY <2>2, <3>2, Popped
      <4>2. l + 1 = k + 1
        BY <3>1, <4>1 DEF Good, MountsInPipe
      <4> QED
        BY <4>2
    <3>3. /\ pc[d] = "opening"
          /\ main'.at \in Deciding => main'.path # d
          /\ \A j \in Session : Pending(j)' => MountOf(j)' # d
      BY <3>1 DEF Good, MountsInPipe, Pending, MountOf
    <3> QED
      BY <3>2, <3>3
  <2> QED
    BY <2>1, <2>2
<1> QED
  BY <1>1, <1>2

\* A dropped request leaves its client waiting, and nothing else amiss.
LEMMA DropRequest ==
  ASSUME ServerInv, Good, drop_request
  PROVE  Good'
<1>1. /\ main.at = "read" /\ UNCHANGED main /\ req_pipe # <<>> /\ req_pipe' = Tail(req_pipe)
      /\ UNCHANGED <<free_open_session_entries, open_session_table, prod_cons, descriptors,
                     thread, local, replies, pc, session_id, interrupted>>
  BY DEF drop_request, sessions
<1>2. MountsInHand' /\ MountsInPipe'
  BY <1>1, MountsKept
<1> QED
  BY <1>1, <1>2, TakesNoSlot DEF Scheduled

\* A taken slot is passed over, or its client has gone: if the descriptor polled
\* is its own.
LEMMA DecideTaken ==
  ASSUME ServerInv, Good, decide_taken, ~mistaken'
  PROVE  Good'
<1>0. /\ main.at = "decide" /\ free_open_session_entries[main.slot] = "TAKEN"
      /\ main.slot < S
      /\ UNCHANGED <<free_open_session_entries, open_session_table, prod_cons, descriptors,
                     thread, local, req_pipe, replies, pc, session_id, interrupted>>
  BY DEF decide_taken, sessions
<1>a. main.slot \in Session
  BY <1>0, SessionAssumption DEF Session, ServerInv, TypeOK, MainTyped
<1>b. main'.path = main.path
  BY DEF decide_taken, MainGoto, ServerInv, TypeOK, MainTyped
<1>1. /\ main.at = "decide" /\ main.slot \in Session /\ main'.path = main.path
      /\ free_open_session_entries[main.slot] = "TAKEN"
      /\ UNCHANGED <<free_open_session_entries, open_session_table, prod_cons, descriptors,
                     thread, local, req_pipe, replies, pc, session_id, interrupted>>
  BY <1>0, <1>a, <1>b
<1>2. \/ main'.at = "decide"
      \/ /\ main'.at = "reclaim" /\ main'.slot = main.slot
         /\ main'.fd = open_session_table[main.slot]
         /\ descriptors[main'.fd] = "Gone" /\ ~Pending(main.slot)
  BY <1>1 DEF decide_taken, MainGoto, PollErr, ServerInv, TypeOK, MainTyped
<1>3. MountsInHand' /\ MountsInPipe'
  BY <1>1, <1>2, MountsKept DEF Deciding
<1>4. main'.at = "reclaim" =>
         /\ main'.slot \in Session /\ Serving(main'.slot)
         /\ open_session_table[main'.slot] = main'.fd /\ descriptors[main'.fd] = "Gone"
  BY <1>1, <1>2 DEF Serving, Scheduled
<1> QED
  BY <1>1, <1>2, <1>3, <1>4, TakesNoSlot DEF Scheduled

\* A free slot is taken for the mount in hand.
LEMMA DecideFree ==
  ASSUME ServerInv, Good, NEW i \in Session, main.slot = i, decide_free
  PROVE  Good'
<1>1. /\ main.at = "decide" /\ free_open_session_entries[i] = "FREE"
      /\ UNCHANGED <<open_session_table, prod_cons, descriptors, thread, local, req_pipe,
                     replies, pc, session_id, interrupted>>
  BY DEF decide_free
<1>3. /\ main'.at = "schedule" /\ main'.slot = i /\ main'.path = main.path
      /\ free_open_session_entries'[i] = "TAKEN"
      /\ \A j \in Session \ {i} :
            free_open_session_entries'[j] = free_open_session_entries[j]
  BY DEF decide_free, MainGoto, ServerInv, TypeOK, MainTyped, SessionsTyped
<1>4. \A j \in Session \ {i} : SlotKept(j)
  BY <1>1, <1>3 DEF SlotKept, Scheduled
<1>5. Others(i)
  BY <1>4, OthersKept
<1>6. /\ SlotShape(i) /\ ~Serving(i) /\ ~Serving(i)' /\ Scheduled(i)'
      /\ Pending(i)' <=> Pending(i)
      /\ HasFd(i)' <=> HasFd(i)
      /\ Fd(i)' = Fd(i) /\ MountOf(i)' = MountOf(i)
  BY <1>1, <1>3 DEF Good, SlotsShaped, Serving, Scheduled, Pending, HasFd, Fd, MountOf
<1>7. SlotsShaped'
  <2>1. SlotShape(i)'
    BY <1>1, <1>3, <1>6 DEF SlotShape, Idle
  <2> QED
    BY <1>5, <2>1 DEF Good, SlotsShaped, Others
<1>8. \A j \in Session : /\ Serving(j)' <=> Serving(j)
                         /\ Pending(j)' <=> Pending(j)
                         /\ Quiet(j)' <=> Quiet(j)
                         /\ HasFd(j)' <=> HasFd(j)
                         /\ Fd(j)' = Fd(j) /\ MountOf(j)' = MountOf(j)
  BY <1>1, <1>5, <1>6 DEF Others, Quiet
<1>9. \A j \in Session : \A d : Serves(j, d)' <=> Serves(j, d)
  BY <1>1, <1>8 DEF Serves
<1>10. MountsPending' /\ FdsDistinct' /\ RequestsInPipe'
  BY <1>1, <1>8, <1>9, PipeKept DEF Good, MountsPending, FdsDistinct, RequestsInPipe
<1>11. MountsInHand' /\ MountsInPipe'
  BY <1>1, <1>3, MountsKept DEF Deciding
<1>12. FdsUsed'
  BY <1>1, <1>3, <1>8, PipeKept DEF Good, FdsUsed
<1>13. Phases'
  <2> SUFFICES ASSUME NEW j \in Session, NEW d \in Client, Serves(j, d) PROVE Phase(j, d)'
    BY <1>9 DEF Phases
  <2>1. Phase(j, d)
    BY DEF Good, Phases
  <2> QED
    BY <1>1, <1>8, <2>1, PipeKept DEF Phase
<1>14. Standings'
  <2> SUFFICES ASSUME NEW d \in Client PROVE Standing(d)'
    BY DEF Standings
  <2>1. Standing(d) /\ session_id[d] \in Session
    BY ClientTypes DEF Good, Standings
  <2> QED
    BY <1>1, <1>9, <2>1 DEF Standing
<1> QED
  BY <1>7, <1>10, <1>11, <1>12, <1>13, <1>14 DEF Good

\* A dead client's slot is taken: its descriptor was no one else's.
LEMMA DecideReclaim ==
  ASSUME ServerInv, Good, NEW i \in Session, main.slot = i, decide_reclaim
  PROVE  Good'
<1>1. /\ main.at = "reclaim"
      /\ UNCHANGED <<prod_cons, thread, local, req_pipe, replies, pc, session_id, interrupted>>
  BY DEF decide_reclaim
<1>2. main.fd \in Descriptor
  BY <1>1 DEF ServerInv, TypeOK, MainTyped
<1>3. /\ main'.at = "schedule" /\ main'.slot = i /\ main'.path = main.path
      /\ free_open_session_entries'[i] = "TAKEN"
      /\ \A j \in Session \ {i} :
            /\ free_open_session_entries'[j] = free_open_session_entries[j]
            /\ open_session_table'[j] = open_session_table[j]
      /\ \A g \in Descriptor \ {main.fd} : descriptors'[g] = descriptors[g]
  BY <1>2 DEF decide_reclaim, MainGoto, ServerInv, TypeOK, MainTyped, SessionsTyped, PipesTyped
<1>4. \A j \in Session \ {i} : SlotKept(j)
  BY <1>1, <1>3 DEF SlotKept, Scheduled
<1>5. Others(i)
  BY <1>4, OthersKept
<1>6. /\ SlotShape(i) /\ Serving(i) /\ open_session_table[i] = main.fd
      /\ descriptors[main.fd] = "Gone"
  BY <1>1, <1>2 DEF Good, SlotsShaped, FdsUsed
<1>7. Quiet(i) /\ ~InPipe(i)
  BY <1>2, <1>6, SessionAssumption DEF Good, FdsUsed
<1>8. /\ ~Serving(i)' /\ Scheduled(i)' /\ ~HasFd(i)' /\ ~Pending(i) /\ ~Pending(i)'
      /\ HasFd(i) /\ Fd(i) = main.fd
  BY <1>1, <1>3, <1>6, <1>7 DEF Serving, Scheduled, Pending, HasFd, Fd, Quiet
<1>9. SlotsShaped'
  <2>1. SlotShape(i)'
    BY <1>1, <1>3, <1>6, <1>7, <1>8 DEF SlotShape, Idle, Quiet
  <2> QED
    BY <1>5, <2>1 DEF Good, SlotsShaped, Others
<1>10. MountsPending'
  BY <1>1, <1>5, <1>8 DEF Good, MountsPending, Others
<1>11. MountsInHand' /\ MountsInPipe'
  BY <1>1, <1>3, MountsKept DEF Deciding
<1>12. RequestsInPipe'
  BY <1>1, <1>5, <1>7, PipeKept DEF Good, RequestsInPipe, Others
<1>13. \A j \in Session : HasFd(j) /\ j # i =>
         Fd(j) \in Descriptor \ {main.fd} /\ descriptors'[Fd(j)] = descriptors[Fd(j)]
  BY <1>2, <1>3, <1>8 DEF Good, FdsDistinct
<1>14. \A j \in Session : Serving(j) /\ j # i =>
          /\ open_session_table[j] \in Descriptor /\ HasFd(j) /\ Fd(j) = open_session_table[j]
          /\ open_session_table'[j] = open_session_table[j]
          /\ descriptors'[open_session_table[j]] = descriptors[open_session_table[j]]
  BY <1>3, <1>13 DEF Good, SlotsShaped, SlotShape, HasFd, Fd
<1>15. \A j \in Session : \A d \in Client : Serves(j, d)' <=> Serves(j, d)
  <2> SUFFICES ASSUME NEW j \in Session, NEW d \in Client PROVE Serves(j, d)' <=> Serves(j, d)
    OBVIOUS
  <2>1. CASE j = i
    BY <1>6, <1>8, <2>1, SessionAssumption DEF Serves
  <2>2. CASE j # i
    BY <1>5, <1>14, <2>2 DEF Serves, Others
  <2> QED
    BY <2>1, <2>2
<1>16. FdsDistinct'
  BY <1>5, <1>8, <1>13, <1>15 DEF Good, FdsDistinct, Others
<1>17. FdsUsed'
  <2>1. \A j \in Session :
          Serving(j)' => \/ descriptors'[open_session_table'[j]] \in Client
                         \/ /\ descriptors'[open_session_table'[j]] = "Gone"
                            /\ Quiet(j)' /\ ~InPipe(j)'
    BY <1>1, <1>5, <1>8, <1>14, PipeKept DEF Good, FdsUsed, Others
  <2>2. \A j \in Session : thread[j] = "close" => j # i /\ descriptors'[local[j]] = descriptors[local[j]]
    BY <1>7, <1>13 DEF HasFd, Fd, Quiet
  <2>3. \A j \in Session : thread[j] = "inform" => j # i
    BY <1>7 DEF Quiet
  <2> QED
    BY <1>1, <1>3, <2>1, <2>2, <2>3 DEF Good, FdsUsed
<1>18. Phases'
  <2> SUFFICES ASSUME NEW j \in Session, NEW d \in Client, Serves(j, d) PROVE Phase(j, d)'
    BY <1>15 DEF Phases
  <2>1. Phase(j, d)
    BY DEF Good, Phases
  <2> QED
    BY <1>1, <2>1, PipeKept DEF Phase, Quiet
<1>19. Standings'
  <2> SUFFICES ASSUME NEW d \in Client PROVE Standing(d)'
    BY DEF Standings
  <2>1. Standing(d) /\ session_id[d] \in Session
    BY ClientTypes DEF Good, Standings
  <2>2. \A f \in Descriptor : descriptors[f] = d => descriptors'[f] = d
    BY <1>3, <1>6, SessionAssumption
  <2> QED
    BY <1>1, <1>15, <2>1, <2>2 DEF Standing
<1> QED
  BY <1>9, <1>10, <1>11, <1>12, <1>16, <1>17, <1>18, <1>19 DEF Good

\* The mount in hand is handed to its slot.
LEMMA ScheduleMount ==
  ASSUME ServerInv, Good, NEW i \in Session, main.slot = i, schedule_mount
  PROVE  Good'
<1>1. /\ main.at = "schedule" /\ Scheduled(i)
      /\ UNCHANGED <<free_open_session_entries, open_session_table, descriptors, thread, local,
                     req_pipe, replies, pc, session_id, interrupted>>
  BY DEF schedule_mount, sessions, Scheduled
<1>2. main.path \in Client
  BY <1>1 DEF ServerInv, TypeOK, MainTyped
<1>3. /\ main'.at = "signal"
      /\ prod_cons'[i] = [op |-> "MOUNT", args |-> main.path]
      /\ \A j \in Session \ {i} : prod_cons'[j] = prod_cons[j]
  BY <1>2 DEF schedule_mount, Schedule, ServerInv, TypeOK, MainTyped, SessionsTyped
<1>4. \A j \in Session \ {i} : SlotKept(j)
  BY <1>1, <1>3 DEF SlotKept, Scheduled
<1>5. Others(i)
  BY <1>4, OthersKept
<1>6. /\ SlotShape(i) /\ free_open_session_entries[i] = "TAKEN"
      /\ prod_cons[i].op = "NO_OP" /\ thread[i] \in Idle
  BY <1>1, <1>2 DEF Good, SlotsShaped, SlotShape
<1>7. /\ ~Serving(i) /\ ~Serving(i)' /\ ~Scheduled(i)' /\ ~Pending(i) /\ Pending(i)'
      /\ MountOf(i)' = main.path
      /\ HasFd(i)' <=> HasFd(i)
      /\ Fd(i)' = Fd(i)
  BY <1>1, <1>3, <1>6 DEF Serving, Scheduled, Pending, HasFd, Fd, MountOf, Idle
<1>8. SlotsShaped'
  <2>1. SlotShape(i)'
    BY <1>1, <1>3, <1>6, <1>7 DEF SlotShape, Idle
  <2> QED
    BY <1>5, <2>1 DEF Good, SlotsShaped, Others
<1>9. MountsPending'
  BY <1>1, <1>2, <1>5, <1>7 DEF Good, MountsPending, MountsInHand, Others, Deciding
<1>10. MountsInHand'
  BY <1>3 DEF MountsInHand, Deciding
<1>11. MountsInPipe'
  BY <1>1, <1>3, <1>5, <1>7, PipeKept DEF Good, MountsInPipe, Others, Deciding
<1>12. \A j \in Session : /\ Serving(j)' <=> Serving(j)
                          /\ HasFd(j)' <=> HasFd(j)
                          /\ Fd(j)' = Fd(j)
                          /\ Serving(j) => j # i /\ (Quiet(j)' <=> Quiet(j))
  BY <1>5, <1>7 DEF Others
<1>13. \A j \in Session : \A d : Serves(j, d)' <=> Serves(j, d)
  BY <1>1, <1>12 DEF Serves
<1>14. RequestsInPipe' /\ FdsDistinct'
  BY <1>1, <1>12, <1>13, PipeKept DEF Good, RequestsInPipe, FdsDistinct
<1>15. FdsUsed'
  BY <1>1, <1>3, <1>12, PipeKept DEF Good, FdsUsed
<1>16. Phases'
  <2> SUFFICES ASSUME NEW j \in Session, NEW d \in Client, Serves(j, d) PROVE Phase(j, d)'
    BY <1>13 DEF Phases
  <2>1. Phase(j, d) /\ j # i
    BY <1>12 DEF Good, Phases, Serves
  <2> QED
    BY <1>1, <1>5, <2>1, PipeKept DEF Phase, Others
<1>17. Standings'
  <2> SUFFICES ASSUME NEW d \in Client PROVE Standing(d)'
    BY DEF Standings
  <2>1. Standing(d) /\ session_id[d] \in Session
    BY ClientTypes DEF Good, Standings
  <2> QED
    BY <1>1, <1>13, <2>1 DEF Standing
<1> QED
  BY <1>8, <1>9, <1>10, <1>11, <1>14, <1>15, <1>16, <1>17 DEF Good

\* A request in the pipe comes from the client of its session, whose worker waits.
LEMMA Requested ==
  ASSUME ServerInv, Good, NEW i \in Session, InPipe(i)
  PROVE  Quiet(i) /\ \E c \in Client : Serves(i, c)
<1>1. PICK c \in Client : Serves(i, c)
  BY SessionAssumption DEF Good, RequestsInPipe, FdsUsed, FdsDistinct, HasFd, Fd,
     SlotsShaped, SlotShape, Serves
<1>2. Phase(i, c)
  BY <1>1 DEF Good, Phases
<1> QED
  BY <1>1, <1>2 DEF Phase

\* A request goes from the pipe to its session: the client waits for it, and the
\* worker has nothing else in hand.
LEMMA ReadRequest ==
  ASSUME ServerInv, Good, NEW i \in Session, Head(req_pipe).to = i, read_request
  PROVE  Good'
<1> DEFINE m == req_pipe[1]
<1>1. /\ main.at = "read" /\ req_pipe # <<>> /\ req_pipe' = Tail(req_pipe)
      /\ UNCHANGED <<free_open_session_entries, open_session_table, descriptors, thread, local,
                     replies, pc, session_id, interrupted>>
  BY DEF read_request, sessions
<1>2. m \in Message /\ m = Head(req_pipe) /\ m.op # "MOUNT" /\ m.to = i
  BY <1>1, Popped DEF read_request
<1>3. ForSession(1, i) /\ InPipe(i)
  BY <1>1, <1>2, Popped DEF ForSession, InPipe
<1>4. PICK c \in Client : Serves(i, c)
  BY <1>3, Requested
<1>5. /\ Phase(i, c) /\ Quiet(i) /\ replies[c] = <<>> /\ Serving(i) /\ SlotShape(i)
      /\ pc[c] \in {"requesting", "unmounting"}
      /\ m.op = IF pc[c] = "requesting" THEN "REQUEST" ELSE "UNMOUNT"
  BY <1>3, <1>4 DEF Good, SlotsShaped, Phases, Phase, Serves
<1>6. /\ main'.at = "signal"
      /\ prod_cons'[i].op = m.op
      /\ \A j \in Session \ {i} : prod_cons'[j] = prod_cons[j]
  BY <1>2 DEF read_request, Schedule, MainGoto, ServerInv, TypeOK, MainTyped, SessionsTyped
<1>7. \A j \in Session \ {i} : SlotKept(j)
  BY <1>1, <1>6 DEF SlotKept, Scheduled
<1>8. Others(i)
  BY <1>7, OthersKept
<1>9. /\ ~Pending(i) /\ ~Pending(i)' /\ Serving(i)' /\ ~Scheduled(i)'
      /\ HasFd(i)' <=> HasFd(i)
      /\ Fd(i)' = Fd(i)
  BY <1>1, <1>5, <1>6 DEF Serving, Scheduled, Pending, HasFd, Fd
<1>10. SlotsShaped'
  <2>1. SlotShape(i)'
    BY <1>1, <1>5, <1>6, <1>9 DEF SlotShape, Serving, Quiet, Idle
  <2> QED
    BY <1>8, <2>1 DEF Good, SlotsShaped, Others
<1>11. MountsPending'
  BY <1>1, <1>8, <1>9 DEF Good, MountsPending, Others
<1>12. MountsInHand'
  BY <1>6 DEF MountsInHand, Deciding
<1>13. MountsInPipe'
  <2> SUFFICES ASSUME NEW d \in Client, NEW k \in Nat, ForClient(k, d)'
               PROVE  /\ pc[d] = "opening"
                      /\ \A j \in Session : Pending(j)' => MountOf(j)' # d
                      /\ \A l \in Nat : ForClient(l, d)' => l = k
    BY <1>1, <1>6 DEF MountsInPipe, Deciding
  <2>1. k + 1 \in Nat /\ ForClient(k + 1, d)
    BY <1>1, Popped
  <2>2. pc[d] = "opening" /\ \A j \in Session : Pending(j)' => MountOf(j)' # d
    BY <1>8, <1>9, <2>1 DEF Good, MountsInPipe, Others
  <2>3. ASSUME NEW l \in Nat, ForClient(l, d)'
        PROVE  l = k
    <3>1. l + 1 \in Nat /\ ForClient(l + 1, d)
      BY <1>1, <2>3, Popped
    <3>2. l + 1 = k + 1
      BY <2>1, <3>1 DEF Good, MountsInPipe
    <3> QED
      BY <3>2
  <2> QED
    BY <2>2, <2>3
<1>14. \A k \in Nat : ~ForSession(k, i)'
  <2> SUFFICES ASSUME NEW k \in Nat, ForSession(k, i)' PROVE FALSE
    OBVIOUS
  <2>1. k # 0 /\ k + 1 \in Nat /\ ForSession(k + 1, i)
    BY <1>1, Popped
  <2>2. k + 1 = 1
    BY <1>3, <2>1 DEF Good, RequestsInPipe
  <2> QED
    BY <2>1, <2>2
<1>15. ~InPipe(i)'
  <2> SUFFICES ASSUME NEW k \in 1 .. Len(req_pipe)', ForSession(k, i)' PROVE FALSE
    BY DEF InPipe
  <2>1. k \in Nat
    OBVIOUS
  <2> QED
    BY <1>14, <2>1
<1>16. \A j \in Session : InPipe(j)' => InPipe(j)
  BY <1>1, Popped
<1>17. RequestsInPipe'
  <2>1. \A j \in Session : InPipe(j)' => Serving(j)'
    BY <1>8, <1>15, <1>16 DEF Good, RequestsInPipe, Others
  <2>2. ASSUME NEW j \in Session, NEW k \in Nat, NEW l \in Nat,
               ForSession(k, j)', ForSession(l, j)'
        PROVE  k = l
    <3>1. ForSession(k + 1, j) /\ ForSession(l + 1, j) /\ k + 1 \in Nat /\ l + 1 \in Nat
      BY <1>1, <2>2, Popped
    <3>2. k + 1 = l + 1
      BY <3>1 DEF Good, RequestsInPipe
    <3> QED
      BY <3>2
  <2> QED
    BY <2>1, <2>2 DEF RequestsInPipe
<1>18. \A j \in Session : /\ Serving(j)' <=> Serving(j)
                          /\ HasFd(j)' <=> HasFd(j)
                          /\ Fd(j)' = Fd(j)
  BY <1>5, <1>8, <1>9 DEF Others
<1>19. \A j \in Session : \A d : Serves(j, d)' <=> Serves(j, d)
  BY <1>1, <1>18 DEF Serves
<1>20. FdsDistinct'
  BY <1>1, <1>18, <1>19 DEF Good, FdsDistinct
<1>21. FdsUsed'
  <2>1. descriptors[open_session_table[i]] \in Client
    BY <1>4 DEF Serves
  <2>2. \A j \in Session :
          Serving(j)' => \/ descriptors[open_session_table[j]] \in Client
                         \/ /\ descriptors[open_session_table[j]] = "Gone"
                            /\ Quiet(j)' /\ ~InPipe(j)'
    BY <1>8, <1>16, <1>18, <2>1 DEF Good, FdsUsed, Others
  <2> QED
    BY <1>1, <1>6, <2>2 DEF Good, FdsUsed
<1>22. Phases'
  <2> SUFFICES ASSUME NEW j \in Session, NEW d \in Client, Serves(j, d) PROVE Phase(j, d)'
    BY <1>19 DEF Phases
  <2>1. Phase(j, d)
    BY DEF Good, Phases
  <2>2. CASE j = i
    <3>1. d = c
      BY <1>4, <2>2 DEF Serves
    <3> QED
      BY <1>1, <1>5, <1>6, <1>14, <1>15, <2>1, <2>2, <3>1 DEF Phase, Quiet
  <2>3. CASE j # i
    <3>1. \A k \in Nat : ForSession(k, j)' =>
            req_pipe'[k].op = IF pc[d] = "requesting" THEN "REQUEST" ELSE "UNMOUNT"
      <4> SUFFICES ASSUME NEW k \in Nat, ForSession(k, j)'
                   PROVE  req_pipe'[k].op = IF pc[d] = "requesting" THEN "REQUEST"
                                                                   ELSE "UNMOUNT"
        OBVIOUS
      <4>1. ForSession(k + 1, j) /\ k + 1 \in Nat
        BY <1>1, Popped
      <4>2. req_pipe'[k] = req_pipe[k + 1]
        BY <1>1, Popped
      <4> QED
        BY <2>1, <4>1, <4>2 DEF Phase
    <3> QED
      BY <1>1, <1>8, <1>16, <2>1, <2>3, <3>1 DEF Phase, Others
  <2> QED
    BY <2>2, <2>3
<1>23. Standings'
  <2> SUFFICES ASSUME NEW d \in Client PROVE Standing(d)'
    BY DEF Standings
  <2>1. Standing(d) /\ session_id[d] \in Session
    BY ClientTypes DEF Good, Standings
  <2> QED
    BY <1>1, <1>19, <2>1 DEF Standing
<1> QED
  BY <1>10, <1>11, <1>12, <1>13, <1>17, <1>20, <1>21, <1>22, <1>23 DEF Good

\* No slot is left: the client is told so by a descriptor that stays open.
LEMMA RefuseMount ==
  ASSUME ServerInv, Good, NEW c \in Client, main.path = c, refuse_mount
  PROVE  Good'
<1>1. main.at = "decide" /\ main'.at = "read"
  BY DEF refuse_mount, ServerInv, TypeOK, MainTyped
<1>2. /\ replies' = [replies EXCEPT ![c] = Append(@, -1)]
      /\ UNCHANGED <<free_open_session_entries, open_session_table, prod_cons, thread, local,
                     req_pipe, session_id, interrupted>>
  BY DEF refuse_mount, sessions
<1>3. PICK f \in Descriptor : Connect(c, f)
  BY DEF refuse_mount
<1>4. /\ pc[c] = "opening" /\ replies[c] = <<>> /\ pc'[c] = "mounting"
      /\ descriptors[f] = "Closed" /\ descriptors'[f] = c
      /\ \A g \in Descriptor \ {f} : descriptors'[g] = descriptors[g]
      /\ \A d \in Client \ {c} : pc'[d] = pc[d]
      /\ \A j \in Session : HasFd(j) => Fd(j) \in Descriptor \ {f}
      /\ \A j \in Session : Serving(j) => HasFd(j) /\ Fd(j) = open_session_table[j]
      /\ \A j \in Session : ~Serves(j, c)
  BY <1>3, Connected
<1>5. replies'[c] = <<-1>> /\ \A d \in Client \ {c} : replies'[d] = replies[d]
  <2>1. Append(<<>>, -1) = <<-1>>
    OBVIOUS
  <2> QED
    BY <1>2, <1>4, <2>1 DEF ServerInv, TypeOK, PipesTyped
<1>6. \A j \in Session : SlotKept(j)
  BY <1>1, <1>2 DEF SlotKept, Scheduled
<1>7. \A j \in Session : /\ Serving(j)' <=> Serving(j)
                         /\ Pending(j)' <=> Pending(j)
                         /\ Quiet(j)' <=> Quiet(j)
                         /\ HasFd(j)' <=> HasFd(j)
                         /\ Fd(j)' = Fd(j) /\ MountOf(j)' = MountOf(j)
                         /\ SlotShape(j)' <=> SlotShape(j)
  BY <1>6, KeptSlot
<1>8. \A j \in Session : HasFd(j) => Fd(j) # f /\ descriptors'[Fd(j)] = descriptors[Fd(j)]
  BY <1>4
<1>9. \A j \in Session : \A d : Serves(j, d)' <=> Serves(j, d)
  BY <1>2, <1>4, <1>7, <1>8 DEF Serves
<1>10. SlotsShaped'
  BY <1>7 DEF Good, SlotsShaped
<1>11. \A j \in Session : Pending(j) => MountOf(j) # c
  BY <1>1 DEF Good, MountsInHand, Deciding
<1>12. MountsPending'
  BY <1>4, <1>7, <1>11 DEF Good, MountsPending
<1>13. MountsInHand'
  BY <1>1 DEF MountsInHand, Deciding
<1>14. MountsInPipe'
  <2> SUFFICES ASSUME NEW d \in Client, NEW k \in Nat, ForClient(k, d)
               PROVE  /\ pc'[d] = "opening"
                      /\ \A j \in Session : Pending(j) => MountOf(j) # d
                      /\ \A l \in Nat : ForClient(l, d) => l = k
    BY <1>1, <1>2, <1>7, PipeKept DEF MountsInPipe, Deciding
  <2>1. d # c
    BY <1>1 DEF Good, MountsInPipe, Deciding
  <2> QED
    BY <1>4, <2>1 DEF Good, MountsInPipe
<1>15. RequestsInPipe'
  BY <1>2, <1>7, PipeKept DEF Good, RequestsInPipe
<1>16. FdsDistinct'
  BY <1>7, <1>8, <1>9 DEF Good, FdsDistinct
<1>17. \A d \in Client : pc[d] = "unmounting" => pc'[d] = pc[d] /\ replies'[d] = replies[d]
  BY <1>4, <1>5
<1>18. FdsUsed'
  <2>1. \A j \in Session :
          Serving(j)' => \/ descriptors'[open_session_table'[j]] \in Client
                         \/ /\ descriptors'[open_session_table'[j]] = "Gone"
                            /\ Quiet(j)' /\ ~InPipe(j)'
    BY <1>2, <1>4, <1>7, <1>8, PipeKept DEF Good, FdsUsed
  <2>2. \A j \in Session : thread[j] = "close" => descriptors'[local[j]] = descriptors[local[j]]
    BY <1>8 DEF HasFd, Fd
  <2>3. ASSUME NEW j \in Session, thread[j] = "close", descriptors[local[j]] # "Gone"
        PROVE  \E d \in Client : /\ descriptors'[local[j]] = d
                                 /\ pc'[d] = "unmounting" /\ replies'[d] = << 0 >>
    <3>1. PICK d \in Client : /\ descriptors[local[j]] = d
                              /\ pc[d] = "unmounting" /\ replies[d] = << 0 >>
      BY <2>3 DEF Good, FdsUsed
    <3> QED
      BY <1>17, <2>2, <2>3, <3>1
  <2> QED
    BY <1>1, <1>2, <2>1, <2>2, <2>3 DEF Good, FdsUsed
<1>19. Phases'
  <2> SUFFICES ASSUME NEW j \in Session, NEW d \in Client, Serves(j, d) PROVE Phase(j, d)'
    BY <1>9 DEF Phases
  <2>1. Phase(j, d) /\ d # c
    BY <1>4 DEF Good, Phases
  <2> QED
    BY <1>2, <1>4, <1>5, <1>7, <2>1, PipeKept DEF Phase
<1>20. Standings'
  <2> SUFFICES ASSUME NEW d \in Client PROVE Standing(d)'
    BY DEF Standings
  <2>1. Standing(d) /\ session_id[d] \in Session
    BY ClientTypes DEF Good, Standings
  <2>2. CASE d = c
    BY <1>2, <1>4, <1>5, <2>1, <2>2 DEF Standing
  <2>3. CASE d # c
    <3>1. \A g \in Descriptor : descriptors[g] = d => descriptors'[g] = d
      BY <1>4, SessionAssumption
    <3> QED
      BY <1>2, <1>4, <1>5, <1>9, <2>1, <2>3, <3>1 DEF Standing
  <2> QED
    BY <2>2, <2>3
<1> QED
  BY <1>10, <1>12, <1>13, <1>14, <1>15, <1>16, <1>18, <1>19, <1>20 DEF Good

-----------------------------------------------------------------------------
(* The clients *)

\* A client's step leaves the slots, their workers and the main thread alone, and
\* what another client is doing.
ByClient(c) ==
    /\ UNCHANGED <<free_open_session_entries, open_session_table, prod_cons, thread, local,
                   main, interrupted>>
    /\ \A d \in Client \ {c} :
          pc'[d] = pc[d] /\ replies'[d] = replies[d] /\ session_id'[d] = session_id[d]

\* What a client's step leaves alone.
LEMMA ClientKeepsSlots ==
  ASSUME Good, NEW c \in Client, ByClient(c)
  PROVE  /\ \A j \in Session : /\ Serving(j)' <=> Serving(j)
                               /\ Pending(j)' <=> Pending(j)
                               /\ Quiet(j)' <=> Quiet(j)
                               /\ HasFd(j)' <=> HasFd(j)
                               /\ Fd(j)' = Fd(j) /\ MountOf(j)' = MountOf(j)
                               /\ SlotShape(j)' <=> SlotShape(j)
         /\ SlotsShaped'
<1>1. \A j \in Session : SlotKept(j)
  BY DEF ByClient, SlotKept, Scheduled
<1>2. \A j \in Session : /\ Serving(j)' <=> Serving(j)
                         /\ Pending(j)' <=> Pending(j)
                         /\ Quiet(j)' <=> Quiet(j)
                         /\ HasFd(j)' <=> HasFd(j)
                         /\ Fd(j)' = Fd(j) /\ MountOf(j)' = MountOf(j)
                         /\ SlotShape(j)' <=> SlotShape(j)
  BY <1>1, KeptSlot
<1> QED
  BY <1>2 DEF Good, SlotsShaped

\* The mounts that are pending, when a client that waits for none moves on.
LEMMA ClientKeepsMounts ==
  ASSUME ServerInv, Good, NEW c \in Client, ByClient(c), pc[c] # "opening",
         \A k \in Nat, d \in Client : ForClient(k, d)' => ForClient(k, d)
  PROVE  MountsPending' /\ MountsInHand' /\ MountsInPipe'
<1>1. \A j \in Session : /\ Pending(j)' <=> Pending(j)
                         /\ MountOf(j)' = MountOf(j)
  BY ClientKeepsSlots
<1>2. MountsPending'
  <2> SUFFICES ASSUME NEW j \in Session, Pending(j)
               PROVE  MountOf(j) \in Client /\ pc'[MountOf(j)] = "opening"
    BY <1>1 DEF Good, MountsPending
  <2>1. MountOf(j) \in Client /\ pc[MountOf(j)] = "opening"
    BY DEF Good, MountsPending
  <2> QED
    BY <2>1 DEF ByClient
<1>3. MountsInHand'
  <2> SUFFICES ASSUME main.at \in Deciding
               PROVE  /\ pc'[main.path] = "opening"
                      /\ \A j \in Session : Pending(j) => MountOf(j) # main.path
    BY <1>1 DEF MountsInHand, ByClient
  <2>1. main.path \in Client /\ pc[main.path] = "opening"
    BY DEF Good, MountsInHand, ServerInv, TypeOK, MainTyped, Deciding
  <2> QED
    BY <2>1 DEF Good, MountsInHand, ByClient
<1>4. MountsInPipe'
  <2> SUFFICES ASSUME NEW d \in Client, NEW k \in Nat, ForClient(k, d)'
               PROVE  /\ pc'[d] = "opening"
                      /\ main.at \in Deciding => main.path # d
                      /\ \A j \in Session : Pending(j) => MountOf(j) # d
                      /\ \A l \in Nat : ForClient(l, d)' => l = k
    BY <1>1 DEF MountsInPipe, ByClient
  <2>1. ForClient(k, d)
    OBVIOUS
  <2>2. pc[d] = "opening"
    BY <2>1 DEF Good, MountsInPipe
  <2> QED
    BY <2>1, <2>2 DEF Good, MountsInPipe, ByClient
<1> QED
  BY <1>2, <1>3, <1>4

\* A message is added to the server's pipe.
LEMMA Sent ==
  ASSUME ServerInv, NEW m, Send(m)
  PROVE  /\ \A k \in Nat : \A i : ForSession(k, i)' <=>
              \/ ForSession(k, i)
              \/ k = Len(req_pipe) + 1 /\ m.op # "MOUNT" /\ m.to = i
         /\ \A k \in Nat : \A c : ForClient(k, c)' <=>
              \/ ForClient(k, c)
              \/ k = Len(req_pipe) + 1 /\ m.op = "MOUNT" /\ m.to = c
         /\ \A k \in Nat : \A i : ForSession(k, i) => req_pipe'[k] = req_pipe[k]
         /\ req_pipe'[Len(req_pipe) + 1] = m
         /\ \A i : InPipe(i)' <=> InPipe(i) \/ (m.op # "MOUNT" /\ m.to = i)
<1>1. req_pipe \in Seq(Message) /\ req_pipe' = Append(req_pipe, m)
  BY DEF Send, ServerInv, TypeOK, PipesTyped
<1>2. /\ Len(req_pipe) \in Nat /\ Len(req_pipe') = Len(req_pipe) + 1
      /\ \A k \in 1 .. Len(req_pipe) : req_pipe'[k] = req_pipe[k]
      /\ req_pipe'[Len(req_pipe) + 1] = m
  BY <1>1
<1>3. \A k \in Nat : k \in 1 .. Len(req_pipe') <=>
         k \in 1 .. Len(req_pipe) \/ k = Len(req_pipe) + 1
  BY <1>2
<1>4. Len(req_pipe) + 1 \in Nat /\ Len(req_pipe) + 1 \notin 1 .. Len(req_pipe)
  BY <1>2
<1>5. \A k \in Nat : \A i : ForSession(k, i)' <=>
         \/ ForSession(k, i)
         \/ k = Len(req_pipe) + 1 /\ m.op # "MOUNT" /\ m.to = i
  BY <1>2, <1>3, <1>4 DEF ForSession
<1>6. \A k \in Nat : \A c : ForClient(k, c)' <=>
         \/ ForClient(k, c)
         \/ k = Len(req_pipe) + 1 /\ m.op = "MOUNT" /\ m.to = c
  BY <1>2, <1>3, <1>4 DEF ForClient
<1>7. \A i : InPipe(i)' <=> \E k \in Nat : ForSession(k, i)'
  BY <1>2 DEF InPipe, ForSession
<1>8. \A i : InPipe(i) <=> \E k \in Nat : ForSession(k, i)
  BY <1>2 DEF InPipe, ForSession
<1>9. \A i : InPipe(i)' <=> InPipe(i) \/ (m.op # "MOUNT" /\ m.to = i)
  BY <1>4, <1>5, <1>7, <1>8
<1>10. \A k \in Nat : \A i : ForSession(k, i) => req_pipe'[k] = req_pipe[k]
  BY <1>2 DEF ForSession
<1> QED
  BY <1>2, <1>5, <1>6, <1>9, <1>10

\* A mount is asked for: it is nowhere yet.
LEMMA TfsMount ==
  ASSUME ServerInv, Good, NEW c \in Client, tfs_mount(c)
  PROVE  Good'
<1> DEFINE m == [op |-> "MOUNT", to |-> c]
<1>1. /\ pc[c] \in {"idle", "refused"} /\ pc'[c] = "opening" /\ replies'[c] = <<>>
      /\ ByClient(c) /\ UNCHANGED session_id /\ Send(m)
  BY DEF tfs_mount, ClientGoto, ByClient, sessions, ServerInv, TypeOK, PipesTyped,
     ClientsTyped
<1>2. \A f \in Descriptor :
         descriptors'[f] = IF descriptors[f] = c THEN Other ELSE descriptors[f]
  BY DEF tfs_mount, Detached
<1>3. /\ \A j \in Session : /\ Serving(j)' <=> Serving(j)
                            /\ Pending(j)' <=> Pending(j)
                            /\ Quiet(j)' <=> Quiet(j)
                            /\ HasFd(j)' <=> HasFd(j)
                            /\ Fd(j)' = Fd(j) /\ MountOf(j)' = MountOf(j)
      /\ SlotsShaped'
  BY <1>1, ClientKeepsSlots
<1>4. m.op = "MOUNT" /\ m.to = c
  OBVIOUS
<1> HIDE DEF m
<1>5. /\ \A k \in Nat : \A i : ForSession(k, i)' <=> ForSession(k, i)
      /\ \A k \in Nat : \A d : ForClient(k, d)' <=>
            ForClient(k, d) \/ (k = Len(req_pipe) + 1 /\ d = c)
      /\ \A k \in Nat : \A i : ForSession(k, i) => req_pipe'[k] = req_pipe[k]
      /\ \A i : InPipe(i)' <=> InPipe(i)
  BY <1>1, <1>4, Sent
<1>6. \A j \in Session : ~Serves(j, c)
  BY <1>1 DEF Good, Phases, Phase
<1>7. \A j \in Session : Serving(j) =>
         /\ open_session_table[j] \in Descriptor
         /\ descriptors'[open_session_table[j]] = descriptors[open_session_table[j]]
  BY <1>2, <1>6 DEF Good, FdsDistinct, SlotsShaped, SlotShape, HasFd, Fd, Serves
<1>8. \A j \in Session : thread[j] = "close" =>
         local[j] \in Descriptor /\ descriptors'[local[j]] = descriptors[local[j]]
  BY <1>1, <1>2, SessionAssumption DEF Good, FdsDistinct, FdsUsed, HasFd, Fd
<1>9. \A j \in Session : \A d : Serves(j, d)' <=> Serves(j, d)
  BY <1>1, <1>3, <1>7 DEF Serves, ByClient
<1>10. MountsPending'
  <2>1. \A j \in Session : Pending(j) => MountOf(j) # c
    BY <1>1 DEF Good, MountsPending
  <2> QED
    BY <1>1, <1>3, <2>1 DEF Good, MountsPending, ByClient
<1>11. MountsInHand'
  <2>1. main.at \in Deciding => main.path # c /\ main.path \in Client
    BY <1>1 DEF Good, MountsInHand, ServerInv, TypeOK, MainTyped, Deciding
  <2> QED
    BY <1>1, <1>3, <2>1 DEF Good, MountsInHand, ByClient
<1>12. MountsInPipe'
  <2> SUFFICES ASSUME NEW d \in Client, NEW k \in Nat, ForClient(k, d)'
               PROVE  /\ pc'[d] = "opening"
                      /\ main.at \in Deciding => main.path # d
                      /\ \A j \in Session : Pending(j) => MountOf(j) # d
                      /\ \A l \in Nat : ForClient(l, d)' => l = k
    BY <1>1, <1>3 DEF MountsInPipe, ByClient
  <2>1. CASE d = c
    <3>1. \A l \in Nat : ~ForClient(l, c)
      BY <1>1 DEF Good, MountsInPipe
    <3> QED
      BY <1>1, <1>5, <2>1, <3>1 DEF Good, MountsPending, MountsInHand
  <2>2. CASE d # c
    <3>1. ForClient(k, d) /\ \A l \in Nat : ForClient(l, d)' => ForClient(l, d)
      BY <1>5, <2>2
    <3> QED
      BY <1>1, <2>2, <3>1 DEF Good, MountsInPipe, ByClient
  <2> QED
    BY <2>1, <2>2
<1>13. RequestsInPipe'
  BY <1>3, <1>5 DEF Good, RequestsInPipe
<1>14. FdsDistinct'
  <2>1. \A j \in Session : HasFd(j) => Fd(j) \in Descriptor /\ descriptors'[Fd(j)] # "Closed"
    BY <1>2, SessionAssumption DEF Good, FdsDistinct
  <2> QED
    BY <1>3, <1>9, <2>1 DEF Good, FdsDistinct
<1>15. FdsUsed'
  <2>1. \A j \in Session :
          Serving(j)' => \/ descriptors'[open_session_table[j]] \in Client
                         \/ /\ descriptors'[open_session_table[j]] = "Gone"
                            /\ Quiet(j)' /\ ~InPipe(j)'
    BY <1>3, <1>5, <1>7 DEF Good, FdsUsed
  <2>2. ASSUME NEW j \in Session, thread[j] = "close", descriptors'[local[j]] # "Gone"
        PROVE  \E d \in Client : /\ descriptors'[local[j]] = d
                                 /\ pc'[d] = "unmounting" /\ replies'[d] = << 0 >>
    <3>1. PICK d \in Client : /\ descriptors[local[j]] = d
                              /\ pc[d] = "unmounting" /\ replies[d] = << 0 >>
      BY <1>8, <2>2 DEF Good, FdsUsed
    <3> QED
      BY <1>1, <1>8, <2>2, <3>1 DEF ByClient
  <2>3. main.at = "reclaim" => main.slot \in Session /\ main.fd \in Descriptor
    BY DEF ServerInv, TypeOK, MainTyped
  <2>4. main.at = "reclaim" => descriptors'[main.fd] = "Gone"
    BY <1>2, <2>3, SessionAssumption DEF Good, FdsUsed
  <2> QED
    BY <1>1, <1>3, <2>1, <2>2, <2>3, <2>4 DEF Good, FdsUsed, ByClient
<1>16. Phases'
  <2> SUFFICES ASSUME NEW j \in Session, NEW d \in Client, Serves(j, d) PROVE Phase(j, d)'
    BY <1>9 DEF Phases
  <2>1. Phase(j, d) /\ d # c
    BY <1>6 DEF Good, Phases
  <2> QED
    BY <1>1, <1>3, <1>5, <2>1 DEF Phase, ByClient
<1>17. Standings'
  <2> SUFFICES ASSUME NEW d \in Client PROVE Standing(d)'
    BY DEF Standings
  <2>1. Standing(d) /\ session_id[d] \in Session
    BY ClientTypes DEF Good, Standings
  <2>2. CASE d = c
    BY <1>1, <2>1, <2>2 DEF Standing, ByClient
  <2>3. CASE d # c
    <3>1. \A g \in Descriptor : descriptors[g] = d => descriptors'[g] = d
      BY <1>2, <2>3
    <3> QED
      BY <1>1, <1>9, <2>1, <2>3, <3>1 DEF Standing, ByClient
  <2> QED
    BY <2>2, <2>3
<1> QED
  BY <1>3, <1>10, <1>11, <1>12, <1>13, <1>14, <1>15, <1>16, <1>17 DEF Good

\* Who is served does not change with what a client does.
LEMMA ServesKept ==
  ASSUME Good, NEW c \in Client, ByClient(c), UNCHANGED descriptors
  PROVE  \A j \in Session : \A d : Serves(j, d)' <=> Serves(j, d)
<1>1. \A j \in Session : Serving(j)' <=> Serving(j)
  BY ClientKeepsSlots
<1> QED
  BY <1>1 DEF Serves, ByClient

\* A client reads, or asks its session for something: what remains to be shown is
\* what becomes of that client.
LEMMA ClientMoves ==
  ASSUME ServerInv, Good, NEW c \in Client, ByClient(c), UNCHANGED descriptors,
         pc[c] \notin {"opening", "unmounting"},
         NEW i \in Session,
         \/ UNCHANGED req_pipe
         \/ /\ \E op \in {"REQUEST", "UNMOUNT"} : Send([op |-> op, to |-> i])
            /\ Serves(i, c) /\ ~InPipe(i),
         \A j \in Session : Serves(j, c) => Phase(j, c)',
         Standing(c)'
  PROVE  Good'
<1>1. /\ \A j \in Session : /\ Serving(j)' <=> Serving(j)
                            /\ Pending(j)' <=> Pending(j)
                            /\ Quiet(j)' <=> Quiet(j)
                            /\ HasFd(j)' <=> HasFd(j)
                            /\ Fd(j)' = Fd(j) /\ MountOf(j)' = MountOf(j)
      /\ SlotsShaped'
  BY ClientKeepsSlots
<1>2. \A j \in Session : \A d : Serves(j, d)' <=> Serves(j, d)
  BY ServesKept
<1>3. /\ \A k \in Nat : \A j : ForSession(k, j)' =>
            ForSession(k, j) \/ (k = Len(req_pipe) + 1 /\ j = i /\ Serves(i, c) /\ ~InPipe(i))
      /\ \A k \in Nat : \A d : ForClient(k, d)' <=> ForClient(k, d)
      /\ \A k \in Nat : \A j : ForSession(k, j) => req_pipe'[k] = req_pipe[k]
      /\ \A j : j # i => (InPipe(j)' <=> InPipe(j))
      /\ InPipe(i)' => InPipe(i) \/ Serves(i, c)
  <2>1. CASE UNCHANGED req_pipe
    BY <2>1, PipeKept
  <2>2. ASSUME NEW op \in {"REQUEST", "UNMOUNT"}, Send([op |-> op, to |-> i]),
               Serves(i, c), ~InPipe(i)
        PROVE  /\ \A k \in Nat : \A j : ForSession(k, j)' =>
                     ForSession(k, j) \/ (k = Len(req_pipe) + 1 /\ j = i)
               /\ \A k \in Nat : \A d : ForClient(k, d)' <=> ForClient(k, d)
               /\ \A k \in Nat : \A j : ForSession(k, j) => req_pipe'[k] = req_pipe[k]
               /\ \A j : j # i => (InPipe(j)' <=> InPipe(j))
    <3> DEFINE m == [op |-> op, to |-> i]
    <3>1. m.op # "MOUNT" /\ m.to = i /\ Send(m)
      BY <2>2
    <3> HIDE DEF m
    <3> QED
      BY <3>1, Sent
  <2> QED
    BY <2>1, <2>2
<1>4. MountsPending' /\ MountsInHand' /\ MountsInPipe'
  BY <1>3, ClientKeepsMounts
<1>5. RequestsInPipe'
  <2>1. \A j \in Session : InPipe(j)' => Serving(j)'
    BY <1>1, <1>3 DEF Good, RequestsInPipe, Serves
  <2>2. ~InPipe(i) => \A k \in Nat : ~ForSession(k, i)
    BY DEF InPipe, ForSession
  <2>3. \A j \in Session, k, l \in Nat : ForSession(k, j)' /\ ForSession(l, j)' => k = l
    BY <1>3, <2>2 DEF Good, RequestsInPipe
  <2> QED
    BY <2>1, <2>3 DEF RequestsInPipe
<1>6. FdsDistinct'
  BY <1>1, <1>2 DEF Good, FdsDistinct
<1>7. FdsUsed'
  <2>1. \A j \in Session :
          Serving(j)' => \/ descriptors[open_session_table[j]] \in Client
                         \/ /\ descriptors[open_session_table[j]] = "Gone"
                            /\ Quiet(j)' /\ ~InPipe(j)'
    <3> SUFFICES ASSUME NEW j \in Session, Serving(j),
                        descriptors[open_session_table[j]] \notin Client
                 PROVE  /\ descriptors[open_session_table[j]] = "Gone"
                        /\ Quiet(j)' /\ ~InPipe(j)'
      BY <1>1
    <3>1. /\ descriptors[open_session_table[j]] = "Gone"
          /\ Quiet(j) /\ ~InPipe(j)
      BY DEF Good, FdsUsed
    <3>2. ~Serves(j, c)
      BY DEF Serves
    <3> QED
      BY <1>1, <1>3, <3>1, <3>2
  <2>2. \A j \in Session : thread[j] = "close" =>
             \/ descriptors[local[j]] = "Gone"
             \/ \E d \in Client : /\ descriptors[local[j]] = d
                                  /\ pc'[d] = "unmounting" /\ replies'[d] = << 0 >>
    BY DEF Good, FdsUsed, ByClient
  <2>3. main.at = "reclaim" => main.slot \in Session
    BY DEF ServerInv, TypeOK, MainTyped
  <2> QED
    BY <1>1, <2>1, <2>2, <2>3 DEF Good, FdsUsed, ByClient
<1>8. Phases'
  <2> SUFFICES ASSUME NEW j \in Session, NEW d \in Client \ {c}, Serves(j, d)
               PROVE  Phase(j, d)'
    BY <1>2 DEF Phases
  <2>1. Phase(j, d) /\ ~Serves(j, c)
    BY DEF Good, Phases, Serves
  <2>2. /\ InPipe(j)' => InPipe(j)
        /\ \A k \in Nat : ForSession(k, j)' => ForSession(k, j) /\ req_pipe'[k] = req_pipe[k]
    BY <1>3, <2>1
  <2> QED
    BY <1>1, <2>1, <2>2 DEF Phase, ByClient
<1>9. Standings'
  <2> SUFFICES ASSUME NEW d \in Client \ {c} PROVE Standing(d)'
    BY DEF Standings
  <2>1. Standing(d) /\ session_id[d] \in Session
    BY ClientTypes DEF Good, Standings
  <2> QED
    BY <1>2, <2>1 DEF Standing, ByClient
<1> QED
  BY <1>1, <1>4, <1>5, <1>6, <1>7, <1>8, <1>9 DEF Good

\* A client that is served finds no end of file.
LEMMA ServedReads ==
  ASSUME NEW c \in Client, NEW i \in Session, Serves(i, c)
  PROVE  ~EndOfFile(c)
  BY DEF EndOfFile, Serves

\* A client reads its session, or that there is none for it.
LEMMA MountReadId ==
  ASSUME ServerInv, Good, NEW c \in Client, mount_read_id(c)
  PROVE  Good'
<1>1. /\ pc[c] = "mounting" /\ Answered(c) /\ Standing(c)
      /\ UNCHANGED <<descriptors, req_pipe>>
  BY DEF mount_read_id, Good, Standings
<1>2. ~EndOfFile(c)
  BY <1>1, ServedReads DEF Standing, EndOfFile
<1>3. replies[c] # <<>> /\ replies' = [replies EXCEPT ![c] = Tail(replies[c])]
  BY <1>1, <1>2 DEF Answered, Rest, mount_read_id
<1>4. /\ Head(replies[c]) = -1 => pc'[c] = "refused" /\ UNCHANGED session_id
      /\ Head(replies[c]) # -1 => pc'[c] = "mounted" /\ session_id'[c] = Head(replies[c])
      /\ ByClient(c)
  BY <1>2, <1>3 DEF mount_read_id, ClientGoto, ByClient, sessions, ServerInv, TypeOK,
     PipesTyped, ClientsTyped
<1>5. \A j \in Session : \A d : Serves(j, d)' <=> Serves(j, d)
  BY <1>1, <1>4, ServesKept
<1>6. CASE replies[c] = <<-1>>
  <2>1. \A j \in Session : ~Serves(j, c)
    <3> SUFFICES ASSUME NEW j \in Session, Serves(j, c) PROVE FALSE
      OBVIOUS
    <3>1. replies[c] = <<j>> /\ j # -1
      BY <1>1, <1>3, SessionAssumption DEF Good, Phases, Phase, Session
    <3> QED
      BY <1>6, <3>1
  <2>2. Head(replies[c]) = -1 /\ Tail(replies[c]) = <<>>
    BY <1>6
  <2>3. pc'[c] = "refused" /\ replies'[c] = <<>>
    BY <1>3, <1>4, <2>2 DEF ServerInv, TypeOK, PipesTyped
  <2>4. Standing(c)'
    BY <1>1, <1>4, <2>3 DEF Standing, ByClient
  <2>5. 0 \in Session
    BY SessionAssumption DEF Session
  <2> QED
    BY <1>1, <1>4, <2>1, <2>4, <2>5, ClientMoves
<1>7. ASSUME NEW i \in Session, Serves(i, c)
      PROVE  Good'
  <2>1. Phase(i, c)
    BY <1>7 DEF Good, Phases
  <2>2. replies[c] = <<i>> /\ Quiet(i) /\ ~InPipe(i)
    BY <1>1, <1>3, <2>1 DEF Phase
  <2>3. Head(replies[c]) = i /\ Tail(replies[c]) = <<>> /\ i # -1
    BY <2>2, SessionAssumption DEF Session
  <2>4. pc'[c] = "mounted" /\ replies'[c] = <<>> /\ session_id'[c] = i
    BY <1>3, <1>4, <2>3 DEF ServerInv, TypeOK, PipesTyped
  <2>5. Quiet(i)' /\ ~InPipe(i)' /\ \A k \in Nat : ~ForSession(k, i)'
    BY <1>1, <1>4, <2>2, ClientKeepsSlots, PipeKept DEF InPipe, ForSession
  <2>6. Phase(i, c)'
    BY <2>4, <2>5 DEF Phase
  <2>7. \A j \in Session : Serves(j, c) => j = i
    BY <1>7 DEF Good, FdsDistinct
  <2>8. Standing(c)'
    BY <1>1, <1>4, <1>5, <1>7, <2>4 DEF Standing, ByClient
  <2> QED
    BY <1>1, <1>4, <2>6, <2>7, <2>8, ClientMoves
<1> QED
  BY <1>1, <1>6, <1>7 DEF Standing

\* A client reads its answer: the session has nothing in hand.
LEMMA ReadAnswer ==
  ASSUME ServerInv, Good, NEW c \in Client, read_answer(c)
  PROVE  Good'
<1> DEFINE i == session_id[c]
<1>1. /\ pc[c] = "requesting" /\ Answered(c) /\ Standing(c) /\ i \in Session
      /\ UNCHANGED <<descriptors, req_pipe>>
  BY ClientTypes DEF read_answer, Good, Standings
<1>2. Serves(i, c) /\ Phase(i, c)
  BY <1>1 DEF Standing, Good, Phases
<1>3. replies[c] # <<>>
  BY <1>1, <1>2, ServedReads DEF Answered
<1>4. replies[c] = << 0 >> /\ Quiet(i) /\ ~InPipe(i)
  BY <1>1, <1>2, <1>3 DEF Phase
<1>5. Rest(c) = <<>>
  BY <1>4 DEF Rest
<1>6. /\ pc'[c] = "mounted" /\ replies'[c] = <<>> /\ session_id'[c] = i /\ ByClient(c)
  BY <1>5 DEF read_answer, ClientGoto, ByClient, sessions, ServerInv, TypeOK, PipesTyped,
     ClientsTyped
<1>7. \A j \in Session : \A d : Serves(j, d)' <=> Serves(j, d)
  BY <1>1, <1>6, ServesKept
<1>8. ASSUME NEW j \in Session, Serves(j, c)
      PROVE  Phase(j, c)'
  <2>1. j = i
    BY <1>1, <1>2, <1>8 DEF Good, FdsDistinct
  <2>2. Quiet(j)' /\ ~InPipe(j)' /\ \A k \in Nat : ~ForSession(k, j)'
    BY <1>1, <1>4, <1>6, <2>1, ClientKeepsSlots, PipeKept DEF InPipe, ForSession
  <2> QED
    BY <1>6, <2>1, <2>2 DEF Phase
<1>9. Standing(c)'
  BY <1>1, <1>2, <1>6, <1>7 DEF Standing, ByClient
<1> QED
  BY <1>1, <1>6, <1>8, <1>9, ClientMoves

\* A client that mounted asks its session for something.
LEMMA Asks ==
  ASSUME ServerInv, Good, NEW c \in Client, pc[c] = "mounted", ByClient(c),
         UNCHANGED <<descriptors, replies, session_id>>,
         \/ Send([op |-> "REQUEST", to |-> session_id[c]]) /\ pc'[c] = "requesting"
         \/ Send([op |-> "UNMOUNT", to |-> session_id[c]]) /\ pc'[c] = "unmounting"
  PROVE  Good'
<1>1. session_id[c] \in Session /\ Standing(c)
  BY ClientTypes DEF Good, Standings
<1>2. PICK i \in Session : i = session_id[c]
  BY <1>1
<1>3. PICK op \in {"REQUEST", "UNMOUNT"} :
         /\ Send([op |-> op, to |-> i])
         /\ pc'[c] = IF op = "REQUEST" THEN "requesting" ELSE "unmounting"
  BY <1>2
<1>4. Serves(i, c) /\ Phase(i, c)
  BY <1>1, <1>2 DEF Standing, Good, Phases
<1>5. ~InPipe(i) /\ Quiet(i) /\ replies[c] = <<>>
  BY <1>4 DEF Phase
<1>6. \A j \in Session : \A d : Serves(j, d)' <=> Serves(j, d)
  BY ServesKept
<1>7. \A k \in Nat : ForSession(k, i)' => req_pipe'[k].op = op
  <2> DEFINE m == [op |-> op, to |-> i]
  <2>1. m.op = op /\ Send(m)
    BY <1>3
  <2> HIDE DEF m
  <2>2. \A k \in Nat : ~ForSession(k, i)
    BY <1>5 DEF InPipe, ForSession
  <2> QED
    BY <2>1, <2>2, Sent
<1>8. ASSUME NEW j \in Session, Serves(j, c)
      PROVE  Phase(j, c)'
  <2>1. j = i
    BY <1>4, <1>8 DEF Good, FdsDistinct
  <2>2. Quiet(i)'
    BY <1>5, ClientKeepsSlots
  <2> QED
    BY <1>2, <1>3, <1>5, <1>7, <2>1, <2>2 DEF Phase, Quiet
<1>9. Standing(c)'
  BY <1>1, <1>2, <1>3, <1>4, <1>5, <1>6 DEF Standing, ByClient
<1> QED
  BY <1>3, <1>4, <1>5, <1>8, <1>9, ClientMoves

\* A client closes its end of its pipe: what it asked for has been done.
LEMMA ClosesReader ==
  ASSUME ServerInv, Good, NEW c \in Client, ByClient(c), UNCHANGED <<req_pipe, session_id>>,
         CloseReader(c), pc[c] # "opening", pc'[c] \in {"idle", "left"},
         pc[c] = "unmounting" => replies[c] # <<>>,
         \A j \in Session : Serves(j, c) => Quiet(j) /\ ~InPipe(j)
  PROVE  Good'
<1>1. replies'[c] = <<>>
  BY DEF CloseReader, ServerInv, TypeOK, PipesTyped
<1>2. \A f \in Descriptor :
         descriptors'[f] = IF descriptors[f] = c THEN "Gone" ELSE descriptors[f]
  BY DEF CloseReader, Detached
<1>3. /\ \A j \in Session : /\ Serving(j)' <=> Serving(j)
                            /\ Pending(j)' <=> Pending(j)
                            /\ Quiet(j)' <=> Quiet(j)
                            /\ HasFd(j)' <=> HasFd(j)
                            /\ Fd(j)' = Fd(j) /\ MountOf(j)' = MountOf(j)
      /\ SlotsShaped'
  BY ClientKeepsSlots
<1>4. MountsPending' /\ MountsInHand' /\ MountsInPipe'
  BY PipeKept, ClientKeepsMounts
<1>5. RequestsInPipe'
  BY <1>3, PipeKept DEF Good, RequestsInPipe
<1>6. \A j \in Session : HasFd(j) =>
         Fd(j) \in Descriptor /\ descriptors'[Fd(j)] # "Closed"
  BY <1>2, SessionAssumption DEF Good, FdsDistinct
<1>7. \A j \in Session : Serving(j) => open_session_table[j] \in Descriptor
  BY DEF Good, FdsDistinct, SlotsShaped, SlotShape, HasFd, Fd
<1>8. \A j \in Session : \A d \in Client : Serves(j, d)' <=> d # c /\ Serves(j, d)
  BY <1>2, <1>3, SessionAssumption DEF Serves, ByClient
<1>9. FdsDistinct'
  BY <1>3, <1>6, <1>8 DEF Good, FdsDistinct
<1>10. FdsUsed'
  <2>1. \A j \in Session :
          Serving(j)' => \/ descriptors'[open_session_table[j]] \in Client
                         \/ /\ descriptors'[open_session_table[j]] = "Gone"
                            /\ Quiet(j)' /\ ~InPipe(j)'
    <3> SUFFICES ASSUME NEW j \in Session, Serving(j)
                 PROVE  \/ descriptors'[open_session_table[j]] \in Client
                        \/ /\ descriptors'[open_session_table[j]] = "Gone"
                           /\ Quiet(j)' /\ ~InPipe(j)'
      BY <1>3
    <3>1. CASE descriptors[open_session_table[j]] = c
      BY <1>2, <1>3, <1>7, <3>1, PipeKept DEF Serves
    <3>2. CASE descriptors[open_session_table[j]] # c
      BY <1>2, <1>3, <1>7, <3>2, PipeKept DEF Good, FdsUsed
    <3> QED
      BY <3>1, <3>2
  <2>2. ASSUME NEW j \in Session, thread[j] = "close", descriptors'[local[j]] # "Gone"
        PROVE  \E d \in Client : /\ descriptors'[local[j]] = d
                                 /\ pc'[d] = "unmounting" /\ replies'[d] = << 0 >>
    <3>1. local[j] \in Descriptor
      BY <2>2 DEF Good, FdsDistinct, HasFd, Fd
    <3>2. descriptors[local[j]] # c /\ descriptors'[local[j]] = descriptors[local[j]]
      BY <1>2, <2>2, <3>1
    <3>3. PICK d \in Client : /\ descriptors[local[j]] = d
                              /\ pc[d] = "unmounting" /\ replies[d] = << 0 >>
      BY <2>2, <3>2 DEF Good, FdsUsed
    <3> QED
      BY <3>2, <3>3 DEF ByClient
  <2>3. main.at = "reclaim" => main.slot \in Session /\ main.fd \in Descriptor
    BY DEF ServerInv, TypeOK, MainTyped
  <2>4. main.at = "reclaim" => descriptors'[main.fd] = "Gone"
    BY <1>2, <2>3, SessionAssumption DEF Good, FdsUsed
  <2> QED
    BY <1>3, <2>1, <2>2, <2>3, <2>4 DEF Good, FdsUsed, ByClient
<1>11. Phases'
  <2> SUFFICES ASSUME NEW j \in Session, NEW d \in Client \ {c}, Serves(j, d)
               PROVE  Phase(j, d)'
    BY <1>8 DEF Phases
  <2>1. Phase(j, d)
    BY DEF Good, Phases
  <2> QED
    BY <1>3, <2>1, PipeKept DEF Phase, ByClient
<1>12. Standings'
  <2> SUFFICES ASSUME NEW d \in Client PROVE Standing(d)'
    BY DEF Standings
  <2>1. Standing(d) /\ session_id[d] \in Session
    BY ClientTypes DEF Good, Standings
  <2>2. CASE d = c
    BY <2>1, <2>2 DEF Standing, ByClient
  <2>3. CASE d # c
    <3>1. \A g \in Descriptor : descriptors[g] = d => descriptors'[g] = d
      BY <1>2, <2>3
    <3> QED
      BY <1>8, <2>1, <2>3, <3>1 DEF Standing, ByClient
  <2> QED
    BY <2>2, <2>3
<1> QED
  BY <1>3, <1>4, <1>5, <1>9, <1>10, <1>11, <1>12 DEF Good

\* A client reads that it may leave, and does.
LEMMA UnmountClosePipes ==
  ASSUME ServerInv, Good, NEW c \in Client, unmount_close_pipes(c)
  PROVE  Good'
<1>1. /\ pc[c] = "unmounting" /\ Answered(c) /\ CloseReader(c) /\ Standing(c)
      /\ session_id[c] \in Session /\ UNCHANGED <<req_pipe, session_id>>
  BY ClientTypes DEF unmount_close_pipes, Good, Standings
<1>2. ByClient(c) /\ pc'[c] = "idle"
  BY <1>1 DEF unmount_close_pipes, ClientGoto, ByClient, CloseReader, Standing, sessions,
     ServerInv, TypeOK, PipesTyped, ClientsTyped
<1>3. replies[c] # <<>>
  BY <1>1, ServedReads DEF Answered, Standing
<1>4. \A j \in Session : ~Serves(j, c)
  BY <1>1, <1>3 DEF Good, Phases, Phase
<1> QED
  BY <1>1, <1>2, <1>3, <1>4, ClosesReader

\* A client ends between two calls, by itself or killed.
LEMMA ClientEnds ==
  ASSUME KilledAt \subseteq {"idle", "refused", "mounted"}, ServerInv, Good,
         NEW c \in Client, client_exit(c) \/ client_killed(c)
  PROVE  Good'
<1>1. /\ pc[c] \in {"idle", "refused", "mounted"} /\ CloseReader(c)
      /\ UNCHANGED <<req_pipe, session_id>>
  BY DEF client_exit, client_killed, Good, Standings, Standing
<1>2. ByClient(c) /\ pc'[c] = "left"
  BY DEF client_exit, client_killed, ClientGoto, ByClient, CloseReader, sessions,
     ServerInv, TypeOK, PipesTyped, ClientsTyped
<1>3. \A j \in Session : Serves(j, c) => Quiet(j) /\ ~InPipe(j)
  BY <1>1 DEF Good, Phases, Phase
<1> QED
  BY <1>1, <1>2, <1>3, ClosesReader

-----------------------------------------------------------------------------
(* The invariant holds *)

\* At first there are no sessions, no mounts and no requests.
LEMMA InitGood == Init => Good
<1> SUFFICES ASSUME Init PROVE Good
  OBVIOUS
<1>1. \A i \in Session : /\ free_open_session_entries[i] = "FREE"
                         /\ prod_cons[i].op = "NO_OP"
                         /\ thread[i] \in {"starting", "waiting"}
  BY DEF Init
<1>2. \A i : ~Scheduled(i)
  BY DEF Init, Scheduled
<1>3. \A i \in Session : ~Serving(i) /\ ~Pending(i) /\ ~HasFd(i)
  BY <1>1 DEF Serving, Pending, HasFd
<1>4. \A i \in Session : \A c : ~Serves(i, c)
  BY <1>3 DEF Serves
<1>5. Len(req_pipe) = 0
  BY DEF Init
<1>6. \A k \in Nat : \A i : ~ForSession(k, i) /\ ~ForClient(k, i)
  BY <1>5 DEF ForSession, ForClient
<1>7. \A i : ~InPipe(i)
  BY <1>5 DEF InPipe, ForSession
<1>8. main.at = "read"
  BY DEF Init
<1>9. SlotsShaped
  BY <1>1, <1>2, <1>3 DEF SlotsShaped, SlotShape, Idle
<1>10. MountsPending /\ MountsInHand /\ MountsInPipe /\ RequestsInPipe
  BY <1>3, <1>6, <1>7, <1>8 DEF MountsPending, MountsInHand, MountsInPipe, RequestsInPipe,
     Deciding
<1>11. FdsDistinct /\ FdsUsed /\ Phases
  BY <1>1, <1>3, <1>4, <1>8 DEF FdsDistinct, FdsUsed, Phases
<1>12. Standings
  BY DEF Init, Standings, Standing
<1> QED
  BY <1>9, <1>10, <1>11, <1>12 DEF Good

\* The main thread keeps the invariant, until it is mistaken.
LEMMA MainKeepsGood ==
  ASSUME ServerInv, Good, MainThread, ~mistaken'
  PROVE  Good'
<1>1. CASE decide_free
  <2>1. main.slot \in Session
    BY <1>1, SessionAssumption DEF decide_free, Session, ServerInv, TypeOK, MainTyped
  <2> QED
    BY <1>1, <2>1, DecideFree
<1>2. CASE decide_reclaim
  <2>1. main.slot \in Session
    BY <1>2 DEF decide_reclaim, ServerInv, TypeOK, MainTyped
  <2> QED
    BY <1>2, <2>1, DecideReclaim
<1>3. CASE schedule_mount
  <2>1. main.slot \in Session
    BY <1>3 DEF schedule_mount, ServerInv, TypeOK, MainTyped
  <2> QED
    BY <1>3, <2>1, ScheduleMount
<1>4. CASE refuse_mount
  <2>1. main.path \in Client
    BY <1>4 DEF refuse_mount, ServerInv, TypeOK, MainTyped
  <2> QED
    BY <1>4, <2>1, RefuseMount
<1>5. CASE read_request
  <2>1. Head(req_pipe) \in Message /\ Head(req_pipe).op # "MOUNT"
    BY <1>5 DEF read_request, ServerInv, TypeOK, PipesTyped
  <2>2. Head(req_pipe).to \in Session
    BY <2>1 DEF Message
  <2> QED
    BY <1>5, <2>2, ReadRequest
<1> QED
  BY <1>1, <1>2, <1>3, <1>4, <1>5, ReadMount, DropRequest, DecideTaken, Signal
  DEF MainThread

\* A worker keeps the invariant, when operations succeed.
LEMMA WorkerKeepsGood ==
  ASSUME Results \subseteq {0}, ServerInv, Good, NEW i \in Session,
         Worker(i) \/ spurious_wakeup(i)
  PROVE  Good'
  BY StartOrWake, ThreadWait, MountReadPath, MountWithoutPath, MountOpenPipe, MountInform,
     RequestReadArgs, RequestAnswer, DoUnmount, UnmountClose
  DEF Worker

\* A client keeps the invariant, when it ends between two calls only.
LEMMA ClientKeepsGood ==
  ASSUME Interruptible = {}, KilledAt \subseteq {"idle", "refused", "mounted"},
         ServerInv, Good, NEW c \in Client, ClientReads(c) \/ ClientActs(c)
  PROVE  Good'
<1>1. CASE send_request(c)
  <2>1. /\ pc[c] = "mounted" /\ ByClient(c) /\ pc'[c] = "requesting"
        /\ Send([op |-> "REQUEST", to |-> session_id[c]])
        /\ UNCHANGED <<descriptors, replies, session_id>>
    BY <1>1 DEF send_request, ClientGoto, ByClient, sessions, ServerInv, TypeOK, ClientsTyped
  <2> QED
    BY <2>1, Asks
<1>2. CASE tfs_unmount(c)
  <2>1. /\ pc[c] = "mounted" /\ ByClient(c) /\ pc'[c] = "unmounting"
        /\ Send([op |-> "UNMOUNT", to |-> session_id[c]])
        /\ UNCHANGED <<descriptors, replies, session_id>>
    BY <1>2 DEF tfs_unmount, ClientGoto, ByClient, sessions, ServerInv, TypeOK, ClientsTyped
  <2> QED
    BY <2>1, Asks
<1>3. ~handle_interr_unconnected(c) /\ ~handle_interr_unmount(c)
  BY DEF handle_interr_unconnected, handle_interr_unmount
<1> QED
  BY <1>1, <1>2, <1>3, MountReadId, ReadAnswer, UnmountClosePipes, TfsMount, ClientEnds
  DEF ClientReads, ClientActs

\* A step that changes nothing.
LEMMA StutterKeepsGood ==
  ASSUME ServerInv, Good, UNCHANGED vars
  PROVE  Good'
<1>1. UNCHANGED <<free_open_session_entries, open_session_table, prod_cons, descriptors,
                  thread, local, main, req_pipe, replies, pc, session_id, interrupted>>
  BY DEF vars, sessions
<1>2. \A i \in Session : SlotKept(i)
  BY <1>1 DEF SlotKept, Scheduled
<1>3. \A i \in Session : /\ Serving(i)' <=> Serving(i)
                         /\ Pending(i)' <=> Pending(i)
                         /\ Quiet(i)' <=> Quiet(i)
                         /\ HasFd(i)' <=> HasFd(i)
                         /\ Fd(i)' = Fd(i) /\ MountOf(i)' = MountOf(i)
                         /\ SlotShape(i)' <=> SlotShape(i)
  BY <1>2, KeptSlot
<1>4. \A i \in Session : \A c : Serves(i, c)' <=> Serves(i, c)
  BY <1>1, <1>3 DEF Serves
<1>5. SlotsShaped' /\ MountsPending' /\ MountsInHand' /\ MountsInPipe' /\ RequestsInPipe'
  BY <1>1, <1>3, PipeKept DEF Good, SlotsShaped, MountsPending, MountsInHand, MountsInPipe,
     RequestsInPipe
<1>6. FdsDistinct' /\ FdsUsed'
  <2>1. main.at = "reclaim" => main.slot \in Session
    BY DEF ServerInv, TypeOK, MainTyped
  <2>2. FdsDistinct'
    BY <1>1, <1>3, <1>4 DEF Good, FdsDistinct
  <2>3. FdsUsed'
    BY <1>1, <1>3, <2>1, PipeKept DEF Good, FdsUsed
  <2> QED
    BY <2>2, <2>3
<1>7. Phases' /\ Standings'
  BY <1>1 DEF Good, Phases, Phase, Standings, Standing, Serves, Serving, Pending, Scheduled,
     Quiet, InPipe, ForSession
<1> QED
  BY <1>5, <1>6, <1>7 DEF Good

\* The main thread's mistake is remembered.
LEMMA MistakenStays == [Next]_vars /\ mistaken => mistaken'
  BY DEF Next, MainThread, Worker, ClientReads, ClientActs, vars, observed,
     read_mount, read_request, drop_request, decide_free, decide_taken, decide_reclaim,
     schedule_mount, refuse_mount, signal, thread_start, spurious_wakeup, thread_wait,
     mount_read_path, mount_without_path, mount_open_pipe, mount_inform,
     request_read_args, request_answer, do_unmount, unmount_close, tfs_mount,
     mount_read_id, send_request, read_answer, tfs_unmount, unmount_close_pipes,
     client_exit, handle_interr_unconnected, handle_interr_unmount, client_killed

\* Every step keeps the invariant.
LEMMA NextOwn ==
  ASSUME Results \subseteq {0}, Interruptible = {},
         KilledAt \subseteq {"idle", "refused", "mounted"}
  PROVE  ServerInv /\ OwnInv /\ [Next]_vars => OwnInv'
<1> SUFFICES ASSUME ServerInv, Good, [Next]_vars, ~mistaken' PROVE Good'
  BY MistakenStays DEF OwnInv
<1> QED
  BY MainKeepsGood, WorkerKeepsGood, ClientKeepsGood, StutterKeepsGood DEF Next

-----------------------------------------------------------------------------
(* What follows for clients and their sessions *)

\* A client that mounted owns its session until it asks to leave, however many
\* clients, sessions and mounts there are: while operations succeed, clients die
\* only between two calls, and decide_mount has not yet taken the old descriptor
\* of a slot that is being mounted for its session's.
THEOREM SessionsOwned ==
  ASSUME Results \subseteq {0}, Interruptible = {},
         KilledAt \subseteq {"idle", "refused", "mounted"}
  PROVE  Spec => []OwnSession
<1>1. Init => OwnInv
  BY InitGood DEF OwnInv
<1>2. ServerInv /\ OwnInv /\ [Next]_vars => OwnInv'
  BY NextOwn
<1>3. OwnInv => OwnSession
  BY DEF OwnInv, OwnSession, Good, Standings, Standing, Serves, Serving
<1> QED
  BY <1>1, <1>2, <1>3, InitServer, NextServer, PTL DEF Spec

\* Under the same conditions decide_mount takes no slot from a client that
\* mounted on it, or was told that it did.
THEOREM NoSessionReclaimed ==
  ASSUME Results \subseteq {0}, Interruptible = {},
         KilledAt \subseteq {"idle", "refused", "mounted"}
  PROVE  Spec => []ReclaimsNoSession
<1>1. Init => OwnInv
  BY InitGood DEF OwnInv
<1>2. ServerInv /\ OwnInv /\ [Next]_vars => OwnInv'
  BY NextOwn
<1>3. ServerInv /\ OwnInv => ReclaimsNoSession
  <2> SUFFICES ASSUME ServerInv, Good, main.at = "reclaim", NEW c \in Client,
                      \/ /\ pc[c] \in {"mounted", "requesting"}
                         /\ session_id[c] = main.slot
                      \/ pc[c] = "mounting" /\ replies[c] = <<main.slot>>
               PROVE  FALSE
    BY DEF OwnInv, ReclaimsNoSession
  <2>1. main.slot \in Session /\ main.slot # -1
    BY SessionAssumption DEF Session, ServerInv, TypeOK, MainTyped
  <2>2. ~Serves(main.slot, c)
    BY SessionAssumption DEF Good, FdsUsed, Serves
  <2>3. pc[c] = "mounting" /\ replies[c] = <<main.slot>>
    BY <2>2 DEF Good, Standings, Standing
  <2>4. PICK i \in Session : Serves(i, c)
    BY <2>1, <2>3 DEF Good, Standings, Standing
  <2>5. replies[c] = <<i>>
    BY <2>3, <2>4 DEF Good, Phases, Phase
  <2> QED
    BY <2>2, <2>3, <2>4, <2>5
<1> QED
  BY <1>1, <1>2, <1>3, InitServer, NextServer, PTL DEF Spec

\* Under the same conditions the main thread never resets a buffer that holds a
\* request no worker has read to its end.
THEOREM RequestsNotOverwritten ==
  ASSUME Results \subseteq {0}, Interruptible = {},
         KilledAt \subseteq {"idle", "refused", "mounted"}
  PROVE  Spec => NoRequestOverwritten
<1> DEFINE Kept == ~mistaken =>
              \A i \in Session :
                 (main.at # "signal" /\ main'.at = "signal" /\ main'.slot = i) =>
                    prod_cons[i].op = "NO_OP" /\ thread[i] \notin {"mount", "request"}
<1>1. Init => OwnInv
  BY InitGood DEF OwnInv
<1>2. ServerInv /\ OwnInv /\ [Next]_vars => OwnInv'
  BY NextOwn
<1>3. ServerInv /\ OwnInv /\ [Next]_vars => [Kept]_vars
  <2> SUFFICES ASSUME ServerInv, Good, Next, NEW i \in Session,
                      main.at # "signal", main'.at = "signal", main'.slot = i
               PROVE  prod_cons[i].op = "NO_OP" /\ thread[i] \notin {"mount", "request"}
    BY DEF OwnInv
  <2>1. read_request \/ schedule_mount
    <3>1. MainThread
      BY DEF Next, Worker, ClientReads, ClientActs, thread_start, spurious_wakeup,
         thread_wait, mount_read_path, mount_without_path, mount_open_pipe, mount_inform,
         request_read_args, request_answer, do_unmount, unmount_close, tfs_mount,
         mount_read_id, send_request, read_answer, tfs_unmount, unmount_close_pipes,
         client_exit, handle_interr_unconnected, handle_interr_unmount, client_killed
    <3> QED
      BY <3>1 DEF MainThread, read_mount, drop_request, decide_free, decide_taken,
         decide_reclaim, refuse_mount, signal, MainGoto, ServerInv, TypeOK, MainTyped
  <2>2. CASE schedule_mount
    <3>1. Scheduled(i)
      BY <2>2 DEF schedule_mount, Scheduled, ServerInv, TypeOK, MainTyped
    <3> QED
      BY <3>1 DEF Good, SlotsShaped, SlotShape, Idle
  <2>3. CASE read_request
    <3>1. req_pipe # <<>> /\ Head(req_pipe).op # "MOUNT" /\ Head(req_pipe).to = i
      BY <2>3 DEF read_request, MainGoto, ServerInv, TypeOK, MainTyped
    <3>2. req_pipe' = Tail(req_pipe)
      BY <2>3 DEF read_request
    <3>3. InPipe(i)
      BY <3>1, <3>2, Popped DEF ForSession, InPipe
    <3> QED
      BY <3>3, Requested DEF Quiet
  <2> QED
    BY <2>1, <2>2, <2>3
<1> QED
  BY <1>1, <1>2, <1>3, InitServer, NextServer, PTL DEF Spec, NoRequestOverwritten
=============================================================================
