------------------------- MODULE SessionFilesProofs -------------------------
(***************************************************************************)
(* For any number of sessions and handles: the counter of open files is    *)
(* exact, sessions have only their own files on record as long as none was *)
(* robbed, the server exits when no client has a file open, and the end of *)
(* a session closes its file.                                              *)
(***************************************************************************)
EXTENDS SessionFiles, FiniteSetTheorems, TLAPS

\* The sessions whose open failed and is not counted yet.
Failing == {s \in Session : thread[s].at = "opening" /\ thread[s].handle = -1}

\* Every failed open is one of the opens.
FailuresBounded == failed + Cardinality(Failing) <= opens

\* A handle is TAKEN as long as somebody opened it.
TakenOwned == \A h \in Handle : h \in free_open_file_entries <=> opened_by[h] = NoSession

\* A session's entries all hold the same, or, while its end clears them one by
\* one, -1 and the same handle.
OneOnRecord ==
    \A s \in Session : \A i, j \in Entry :
        \/ open_files[s][i] = open_files[s][j]
        \/ thread[s].at = "unmounting" /\ -1 \in {open_files[s][i], open_files[s][j]}

\* Until a session is robbed, what its client was given, what its entries name
\* and what its open is about to give is its own; and the last is none of the
\* first.
OwnFiles ==
    \A s \in Session :
        /\ thread[s].at = "unmounting" => given[s] = {}
        /\ ~ robbed =>
            /\ \A h \in given[s] : opened_by[h] = s
            /\ thread[s].at # "unmounting" =>
                    \A i \in Entry : open_files[s][i] # -1 => opened_by[open_files[s][i]] = s
            /\ s \in Uncounted =>
                    opened_by[thread[s].handle] = s /\ thread[s].handle \notin given[s]

FilesInv ==
    /\ TypeOK /\ FailuresBounded /\ FilesCounted
    /\ TakenOwned /\ OneOnRecord /\ OwnFiles
    /\ ExitAfterCloses

Step == {"waiting", "opening", "unmounting", "destroying"}

-----------------------------------------------------------------------------

\* Adding or removing one element moves the cardinality by at most one.
LEMMA OneMore ==
  ASSUME NEW S, IsFiniteSet(S), NEW x
  PROVE  /\ Cardinality(S) \in Nat
         /\ IsFiniteSet(S \cup {x}) /\ IsFiniteSet(S \ {x})
         /\ Cardinality(S \cup {x}) = IF x \in S THEN Cardinality(S) ELSE Cardinality(S) + 1
         /\ Cardinality(S \ {x}) = IF x \in S THEN Cardinality(S) - 1 ELSE Cardinality(S)
  BY FS_AddElement, FS_RemoveElement, FS_CardinalityType

LEMMA OneUp ==
  ASSUME NEW S, IsFiniteSet(S), NEW x, x \notin S, NEW R, R = S \cup {x}
  PROVE  Cardinality(R) = Cardinality(S) + 1
  BY OneMore

LEMMA OneDown ==
  ASSUME NEW S, IsFiniteSet(S), NEW x, x \in S, NEW R, R = S \ {x}
  PROVE  Cardinality(R) = Cardinality(S) - 1 /\ Cardinality(R) \in Nat
  BY OneMore

LEMMA Division ==
  ASSUME NEW a \in Int, NEW M \in Nat \ {0}
  PROVE  a % M \in 0 .. M - 1 /\ a \div M \in Int /\ a = M * (a \div M) + (a % M)
  OBVIOUS

LEMMA Remainder ==
  ASSUME NEW M \in Nat \ {0}, NEW q \in Int, NEW r \in 0 .. M - 1, NEW a \in Int, a = M * q + r
  PROVE  a % M = r
  OBVIOUS

\* Unsigned counting up and down commutes with the remainder.
LEMMA CountUp ==
  ASSUME NEW a \in Int, NEW M \in Nat \ {0}
  PROVE  ((a % M) + 1) % M = (a + 1) % M
<1> DEFINE q == a \div M
           r == a % M
<1>1. r \in 0 .. M - 1 /\ q \in Int /\ a = M * q + r
  BY Division
<1> HIDE DEF q, r
<1>2. CASE r + 1 < M
  <2>1. (a + 1) % M = r + 1
    <3>1. a + 1 = M * q + (r + 1) /\ r + 1 \in 0 .. M - 1
      BY <1>1, <1>2
    <3> QED BY <1>1, <3>1, Remainder
  <2>2. (r + 1) % M = r + 1
    <3>1. r + 1 = M * 0 + (r + 1) /\ r + 1 \in 0 .. M - 1
      BY <1>1, <1>2
    <3> QED BY <3>1, Remainder
  <2> QED BY <2>1, <2>2 DEF r
<1>3. CASE r + 1 = M
  <2>1. (a + 1) % M = 0
    <3>1. a + 1 = M * (q + 1) + 0 /\ q + 1 \in Int /\ 0 \in 0 .. M - 1
      <4>1. M * (q + 1) = M * q + M
        BY <1>1
      <4> QED BY <1>1, <1>3, <4>1
    <3> QED BY <1>1, <3>1, Remainder
  <2>2. (r + 1) % M = 0
    <3>1. r + 1 = M * 1 + 0 /\ 0 \in 0 .. M - 1
      BY <1>1, <1>3
    <3> QED BY <1>1, <3>1, Remainder
  <2> QED BY <2>1, <2>2 DEF r
<1> QED BY <1>1, <1>2, <1>3

LEMMA CountDown ==
  ASSUME NEW a \in Int, NEW M \in Nat \ {0}
  PROVE  ((a % M) - 1) % M = (a - 1) % M
<1> DEFINE q == a \div M
           r == a % M
<1>1. r \in 0 .. M - 1 /\ q \in Int /\ a = M * q + r
  BY Division
<1> HIDE DEF q, r
<1>2. CASE r >= 1
  <2>1. (a - 1) % M = r - 1
    <3>1. a - 1 = M * q + (r - 1) /\ r - 1 \in 0 .. M - 1
      BY <1>1, <1>2
    <3> QED BY <1>1, <3>1, Remainder
  <2>2. (r - 1) % M = r - 1
    <3>1. r - 1 = M * 0 + (r - 1) /\ r - 1 \in 0 .. M - 1
      BY <1>1, <1>2
    <3> QED BY <3>1, Remainder
  <2> QED BY <2>1, <2>2 DEF r
<1>3. CASE r = 0
  <2>1. (a - 1) % M = M - 1
    <3>1. a - 1 = M * (q - 1) + (M - 1) /\ q - 1 \in Int /\ M - 1 \in 0 .. M - 1
      <4>1. M * (q - 1) = M * q - M
        BY <1>1
      <4> QED BY <1>1, <1>3, <4>1
    <3> QED BY <1>1, <3>1, Remainder
  <2>2. (r - 1) % M = M - 1
    <3>1. r - 1 = M * (-1) + (M - 1) /\ M - 1 \in 0 .. M - 1
      BY <1>1, <1>3
    <3> QED BY <1>1, <3>1, Remainder
  <2> QED BY <2>1, <2>2 DEF r
<1> QED BY <1>1, <1>2, <1>3

-----------------------------------------------------------------------------

LEMMA CountedFinite ==
  ASSUME TypeOK
  PROVE  /\ IsFiniteSet(Handle) /\ Cardinality(Handle) = MAX_OPEN_FILES
         /\ IsFiniteSet(Handle \ free_open_file_entries)
         /\ IsFiniteSet(Uncounted) /\ IsFiniteSet(Failing)
<1>1. IsFiniteSet(Handle) /\ Cardinality(Handle) = MAX_OPEN_FILES
  BY FS_Interval, FilesAssumption DEF Handle
<1> QED BY <1>1, FS_Subset, FilesAssumption DEF Uncounted, Failing

\* What a step of a worker does to the sets that are counted.
LEMMA WorkerMoves ==
  ASSUME TypeOK, NEW s \in Session, NEW step \in Step, NEW h \in Handle \cup {-1},
         Goto(s, step, h)
  PROVE  /\ thread' \in [Session -> [at : Step, handle : Handle \cup {-1}]]
         /\ thread'[s].at = step /\ thread'[s].handle = h
         /\ \A u \in Session \ {s} : thread'[u] = thread[u]
         /\ Uncounted' = IF step = "opening" /\ h # -1 THEN Uncounted \cup {s}
                         ELSE Uncounted \ {s}
         /\ Failing' = IF step = "opening" /\ h = -1 THEN Failing \cup {s}
                       ELSE Failing \ {s}
<1>1. thread' \in [Session -> [at : Step, handle : Handle \cup {-1}]]
  BY DEF TypeOK, Goto, Step
<1>2. thread'[s] = [at |-> step, handle |-> h] /\ \A u \in Session \ {s} : thread'[u] = thread[u]
  BY DEF TypeOK, Goto
<1> QED BY <1>1, <1>2 DEF Uncounted, Failing

\* A worker that ends its session is not about to count an open.
LEMMA UnmountMoves ==
  ASSUME TypeOK, NEW s \in Session, NEW amount \in Nat, do_unmount(s, amount)
  PROVE  /\ thread' \in [Session -> [at : Step, handle : Handle \cup {-1}]]
         /\ thread'[s].at = IF amount # 0 THEN "unmounting" ELSE "waiting"
         /\ thread'[s].handle = -1
         /\ \A u \in Session \ {s} : thread'[u] = thread[u]
         /\ Uncounted' = Uncounted \ {s} /\ Failing' = Failing \ {s}
         /\ client' \in [Session -> {"none", "mounting", "alive", "dead"}]
         /\ given' = [given EXCEPT ![s] = {}]
         /\ given' \in [Session -> SUBSET Handle]
         /\ free_open_session_entries' \subseteq Session
<1>1. Goto(s, IF amount # 0 THEN "unmounting" ELSE "waiting", -1)
  BY DEF do_unmount
<1>2. (IF amount # 0 THEN "unmounting" ELSE "waiting") \in Step
  BY DEF Step
<1>3. /\ client' \in [Session -> {"none", "mounting", "alive", "dead"}]
      /\ given' = [given EXCEPT ![s] = {}]
      /\ given' \in [Session -> SUBSET Handle]
      /\ free_open_session_entries' \subseteq Session
  BY DEF do_unmount, TypeOK
<1> QED BY <1>1, <1>2, <1>3, WorkerMoves

\* open_count as FilesCounted has it, before the remainder is taken.
Balance == Cardinality(Handle \ free_open_file_entries) + failed - Cardinality(Uncounted)

LEMMA BalanceInteger ==
  ASSUME TypeOK
  PROVE  Balance \in Int /\ Cardinality(Handle \ free_open_file_entries) \in Nat
         /\ Cardinality(Uncounted) \in Nat /\ Cardinality(Failing) \in Nat
<1>1. failed \in Nat /\ UINT_MOD \in Nat \ {0} /\ SIZE_MOD \in Nat \ {0}
  BY FilesAssumption DEF TypeOK
<1> QED BY <1>1, CountedFinite, FS_CardinalityType DEF Balance

-----------------------------------------------------------------------------

CountInv == TypeOK /\ FailuresBounded /\ FilesCounted

LEMMA CountInit == Init => CountInv
<1> SUFFICES ASSUME Init PROVE CountInv
  OBVIOUS
<1>1. TypeOK
  <2>1. open_files \in [Session -> [Entry -> Handle \cup {-1}]]
    BY DEF Init
  <2>2. thread \in [Session -> [at : {"waiting", "opening", "unmounting", "destroying"},
                                handle : Handle \cup {-1}]]
    BY DEF Init
  <2>3. open_count \in 0 .. UINT_MOD - 1 /\ open_files_amount \in [Session -> 0 .. SIZE_MOD - 1]
        /\ failed \in 0 .. MaxOpens /\ mounts \in 0 .. MaxMounts /\ opens \in 0 .. MaxOpens
    BY FilesAssumption DEF Init
  <2>4. /\ client \in [Session -> {"none", "mounting", "alive", "dead"}]
        /\ given \in [Session -> SUBSET Handle]
        /\ opened_by \in [Handle -> Session \cup {NoSession}]
    BY DEF Init
  <2> QED BY <2>1, <2>2, <2>3, <2>4 DEF Init, TypeOK
<1>2. Uncounted = {} /\ Failing = {} /\ Handle \ free_open_file_entries = {}
  BY DEF Init, Uncounted, Failing
<1>3. FailuresBounded
  BY <1>2, FS_EmptySet DEF Init, FailuresBounded
<1>4. FilesCounted
  <2>1. 0 = UINT_MOD * 0 + 0 /\ 0 \in 0 .. UINT_MOD - 1 /\ UINT_MOD \in Nat \ {0}
    BY FilesAssumption
  <2>2. 0 % UINT_MOD = 0
    BY <2>1, Remainder
  <2>3. open_count = 0 /\ failed = 0
    BY DEF Init
  <2>4. 0 + 0 - 0 = 0
    OBVIOUS
  <2> QED BY <1>2, <2>2, <2>3, <2>4, FS_EmptySet DEF FilesCounted
<1> QED BY <1>1, <1>3, <1>4 DEF CountInv

\* The steps that touch neither the handle table nor what a worker does.
LEMMA CountedAlike ==
  ASSUME CountInv, TypeOK',
         UNCHANGED <<free_open_file_entries, open_count, failed>>,
         opens' >= opens, Uncounted' = Uncounted, Failing' = Failing
  PROVE  CountInv'
<1>1. FilesCounted'
  BY DEF CountInv, FilesCounted
<1>2. Cardinality(Failing) \in Nat /\ failed \in Nat /\ opens \in Nat /\ opens' \in Nat
  BY BalanceInteger, FilesAssumption DEF CountInv, TypeOK
<1>3. FailuresBounded'
  BY <1>2 DEF CountInv, FailuresBounded
<1> QED BY <1>1, <1>3 DEF CountInv

LEMMA CountMounts ==
  ASSUME CountInv, NEW s \in Session, mount_free(s) \/ poll_dead(s) \/ mount_dead(s)
  PROVE  CountInv'
<1>1. TypeOK'
  <2>1. CASE mount_free(s)
    BY <2>1, FilesAssumption DEF mount_free, CountInv, TypeOK, tables, server, entries, history
  <2>2. CASE poll_dead(s)
    BY <2>2, FilesAssumption DEF poll_dead, CountInv, TypeOK, tables, server, entries, history
  <2>3. CASE mount_dead(s)
    BY <2>3, FilesAssumption DEF mount_dead, CountInv, TypeOK, tables, server, entries, history
  <2> QED BY <2>1, <2>2, <2>3
<1>2. UNCHANGED <<free_open_file_entries, open_count, failed, thread, opens>>
  BY DEF mount_free, poll_dead, mount_dead, tables, history
<1>3. Uncounted' = Uncounted /\ Failing' = Failing
  BY <1>2 DEF Uncounted, Failing
<1> QED BY <1>1, <1>2, <1>3, CountedAlike, FilesAssumption DEF CountInv, TypeOK

LEMMA CountDiesStops ==
  ASSUME CountInv, NEW s \in Session,
         client_dies(s) \/ shutdown_done(s) \/ shutdown_refused(s)
  PROVE  CountInv'
<1>1. TypeOK'
  BY DEF client_dies, shutdown_done, shutdown_refused, CountInv, TypeOK, tables, server,
         entries, history
<1>2. UNCHANGED <<free_open_file_entries, open_count, failed, thread, opens>>
  BY DEF client_dies, shutdown_done, shutdown_refused, tables, history
<1>3. Uncounted' = Uncounted /\ Failing' = Failing
  BY <1>2 DEF Uncounted, Failing
<1> QED BY <1>1, <1>2, <1>3, CountedAlike, FilesAssumption DEF CountInv, TypeOK

LEMMA CountEnds ==
  ASSUME CountInv, NEW s \in Session,
         server_mount_state(s) \/ server_unmount_state(s)
  PROVE  CountInv'
<1>1. CASE client' = [client EXCEPT ![s] = "alive"]
           /\ UNCHANGED <<free_open_session_entries, thread, given>> /\ server_mount_state(s)
  <2>1. TypeOK'
    BY <1>1 DEF server_mount_state, CountInv, TypeOK, tables, server, entries, history
  <2>2. UNCHANGED <<free_open_file_entries, open_count, failed, thread, opens>>
    BY <1>1 DEF server_mount_state, tables, history
  <2>3. Uncounted' = Uncounted /\ Failing' = Failing
    BY <2>2 DEF Uncounted, Failing
  <2> QED BY <2>1, <2>2, <2>3, CountedAlike, FilesAssumption DEF CountInv, TypeOK
<1>2. CASE do_unmount(s, open_files_amount[s])
  <2>1. open_files_amount[s] \in Nat
    BY FilesAssumption DEF CountInv, TypeOK
  <2>2. At(s, "waiting") /\ UNCHANGED <<tables, server, entries, history, mounts, opens>>
    BY DEF server_mount_state, server_unmount_state
  <2>3. s \notin Uncounted /\ s \notin Failing
    BY <2>2 DEF At, Uncounted, Failing
  <2>4. Uncounted' = Uncounted /\ Failing' = Failing
    <3>1. Uncounted' = Uncounted \ {s} /\ Failing' = Failing \ {s}
      BY <1>2, <2>1, UnmountMoves DEF CountInv
    <3> QED BY <2>3, <3>1
  <2>5. TypeOK'
    BY <1>2, <2>1, <2>2, UnmountMoves DEF CountInv, TypeOK, Step, tables, server, entries, history
  <2> QED BY <2>2, <2>4, <2>5, CountedAlike, FilesAssumption DEF CountInv, TypeOK, tables, history
<1> QED BY <1>1, <1>2 DEF server_mount_state, server_unmount_state

LEMMA CountShutdown ==
  ASSUME CountInv, NEW s \in Session, server_shutdown_state(s)
  PROVE  CountInv'
<1>1. Goto(s, "destroying", -1) /\ "destroying" \in Step
  BY DEF server_shutdown_state, Step
<1>2. s \notin Uncounted /\ s \notin Failing
  BY DEF server_shutdown_state, At, Uncounted, Failing
<1>3. Uncounted' = Uncounted /\ Failing' = Failing
      /\ thread' \in [Session -> [at : Step, handle : Handle \cup {-1}]]
  <2>1. /\ thread' \in [Session -> [at : Step, handle : Handle \cup {-1}]]
        /\ Uncounted' = Uncounted \ {s} /\ Failing' = Failing \ {s}
    BY <1>1, WorkerMoves DEF CountInv
  <2> QED BY <1>2, <2>1
<1>4. TypeOK'
  BY <1>3 DEF server_shutdown_state, CountInv, TypeOK, Step, tables, entries, history
<1> QED BY <1>3, <1>4, CountedAlike, FilesAssumption
        DEF server_shutdown_state, CountInv, TypeOK, tables, history

-----------------------------------------------------------------------------

LEMMA UnsignedTyped ==
  ASSUME NEW a \in Int
  PROVE  a % UINT_MOD \in 0 .. UINT_MOD - 1 /\ a % SIZE_MOD \in 0 .. SIZE_MOD - 1
  BY Division, FilesAssumption

\* tfs_open takes a handle, or none, before it counts.
LEMMA CountOpen ==
  ASSUME CountInv, NEW s \in Session, server_open_state(s)
  PROVE  CountInv'
<1> USE DEF CountInv
<1>1. s \notin Uncounted /\ s \notin Failing /\ opens' = opens + 1 /\ opens < MaxOpens
  BY DEF server_open_state, At, Uncounted, Failing
<1>2. UNCHANGED <<open_count, failed, open_files, open_files_amount, can_exec, main, stopped,
                  several, reclaimed, robbed, mounts>>
  BY DEF server_open_state, server, entries, history
<1>3. "opening" \in Step
  BY DEF Step
<1>4. opens' \in 0 .. MaxOpens /\ opens \in Nat
  BY <1>1, FilesAssumption DEF TypeOK
<1>5. CASE \E h \in Handle :
             /\ IsFirst(h, free_open_file_entries)
             /\ free_open_file_entries' = free_open_file_entries \ {h}
             /\ opened_by' = [opened_by EXCEPT ![h] = s]
             /\ Goto(s, "opening", h)
             /\ UNCHANGED <<free_open_session_entries, client, given>>
  <2> PICK h \in Handle :
             /\ IsFirst(h, free_open_file_entries)
             /\ free_open_file_entries' = free_open_file_entries \ {h}
             /\ opened_by' = [opened_by EXCEPT ![h] = s]
             /\ Goto(s, "opening", h)
             /\ UNCHANGED <<free_open_session_entries, client, given>>
    BY <1>5
  <2>1. h # -1 /\ h \in free_open_file_entries
    BY DEF Handle, IsFirst
  <2>2. /\ thread' \in [Session -> [at : Step, handle : Handle \cup {-1}]]
        /\ Uncounted' = Uncounted \cup {s} /\ Failing' = Failing \ {s}
    BY <1>3, <2>1, WorkerMoves
  <2>3. TypeOK'
    BY <1>2, <1>4, <2>2 DEF TypeOK, Step
  <2>4. Handle \ free_open_file_entries' = (Handle \ free_open_file_entries) \cup {h}
        /\ h \notin Handle \ free_open_file_entries
    BY <2>1
  <2>5. Cardinality(Handle \ free_open_file_entries')
          = Cardinality(Handle \ free_open_file_entries) + 1
    BY <2>4, CountedFinite, OneUp
  <2>6. Cardinality(Uncounted') = Cardinality(Uncounted) + 1
    BY <1>1, <2>2, CountedFinite, OneMore
  <2>7. Balance' = Balance
    BY <1>2, <2>5, <2>6, BalanceInteger, FilesAssumption DEF Balance, TypeOK
  <2>8. FilesCounted'
    BY <1>2, <2>7 DEF FilesCounted, Balance
  <2>9. Failing' = Failing
    BY <1>1, <2>2
  <2>10. FailuresBounded'
    BY <1>1, <1>2, <1>4, <2>9, BalanceInteger DEF FailuresBounded, TypeOK
  <2> QED BY <2>3, <2>8, <2>10
<1>6. CASE Goto(s, "opening", -1)
           /\ UNCHANGED <<free_open_file_entries, opened_by, free_open_session_entries,
                          client, given>>
  <2>1. /\ thread' \in [Session -> [at : Step, handle : Handle \cup {-1}]]
        /\ Uncounted' = Uncounted \ {s} /\ Failing' = Failing \cup {s}
    BY <1>3, <1>6, WorkerMoves
  <2>2. Uncounted' = Uncounted
    BY <1>1, <2>1
  <2>3. TypeOK'
    BY <1>2, <1>4, <1>6, <2>1 DEF TypeOK, Step
  <2>4. FilesCounted'
    BY <1>2, <1>6, <2>2 DEF FilesCounted
  <2>5. Cardinality(Failing') = Cardinality(Failing) + 1
    BY <1>1, <2>1, CountedFinite, OneMore
  <2>6. FailuresBounded'
    BY <1>1, <1>2, <1>4, <2>5, BalanceInteger DEF FailuresBounded, TypeOK
  <2> QED BY <2>3, <2>4, <2>6
<1>7. CASE do_unmount(s, open_files_amount[s])
           /\ UNCHANGED <<free_open_file_entries, opened_by>>
  <2>1. open_files_amount[s] \in Nat
    BY FilesAssumption DEF TypeOK
  <2>2. /\ thread' \in [Session -> [at : Step, handle : Handle \cup {-1}]]
        /\ Uncounted' = Uncounted \ {s} /\ Failing' = Failing \ {s}
        /\ client' \in [Session -> {"none", "mounting", "alive", "dead"}]
        /\ given' \in [Session -> SUBSET Handle]
        /\ free_open_session_entries' \subseteq Session
    BY <1>7, <2>1, UnmountMoves
  <2>3. Uncounted' = Uncounted /\ Failing' = Failing
    BY <1>1, <2>2
  <2>4. TypeOK'
    BY <1>2, <1>4, <1>7, <2>2 DEF TypeOK, Step
  <2> QED BY <1>1, <1>2, <1>4, <1>7, <2>3, <2>4, CountedAlike
<1> QED BY <1>5, <1>6, <1>7 DEF server_open_state

LEMMA CountOpenFailed ==
  ASSUME CountInv, NEW s \in Session, open_failed(s)
  PROVE  CountInv'
<1> USE DEF CountInv
<1>1. s \notin Uncounted /\ s \in Failing
  BY DEF open_failed, At, Uncounted, Failing
<1>2. /\ open_count' = (open_count + 1) % UINT_MOD /\ failed' = failed + 1
      /\ UNCHANGED <<free_open_file_entries, opened_by, open_files, open_files_amount,
                     can_exec, main, stopped, several, reclaimed, robbed, mounts, opens>>
      /\ do_unmount(s, open_files_amount[s])
  BY DEF open_failed, server, entries
<1>3. open_files_amount[s] \in Nat
  BY FilesAssumption DEF TypeOK
<1>4. /\ thread' \in [Session -> [at : Step, handle : Handle \cup {-1}]]
      /\ Uncounted' = Uncounted \ {s} /\ Failing' = Failing \ {s}
      /\ client' \in [Session -> {"none", "mounting", "alive", "dead"}]
      /\ given' \in [Session -> SUBSET Handle]
      /\ free_open_session_entries' \subseteq Session
  BY <1>2, <1>3, UnmountMoves
<1>5. Uncounted' = Uncounted
  BY <1>1, <1>4
<1>6. Cardinality(Failing') = Cardinality(Failing) - 1 /\ Cardinality(Failing') \in Nat
  BY <1>1, <1>4, CountedFinite, OneDown
<1>7. failed \in Nat /\ opens \in Nat /\ opens <= MaxOpens /\ MaxOpens \in Nat
      /\ Cardinality(Failing) \in Nat /\ Cardinality(Failing') \in Nat
  BY <1>6, BalanceInteger, FilesAssumption DEF TypeOK
<1>8. FailuresBounded'
  BY <1>2, <1>6, <1>7 DEF FailuresBounded
<1>9. failed' \in 0 .. MaxOpens
  BY <1>2, <1>7, <1>8 DEF FailuresBounded
<1>10. open_count' \in 0 .. UINT_MOD - 1
  BY <1>2, UnsignedTyped, FilesAssumption DEF TypeOK
<1>11. TypeOK'
  BY <1>2, <1>4, <1>9, <1>10 DEF TypeOK, Step
<1>12. FilesCounted'
  <2>1. Balance' = Balance + 1
    BY <1>2, <1>5, <1>7, BalanceInteger DEF Balance
  <2>2. ((Balance % UINT_MOD) + 1) % UINT_MOD = (Balance + 1) % UINT_MOD
    BY CountUp, BalanceInteger, FilesAssumption
  <2> QED BY <1>2, <2>1, <2>2 DEF FilesCounted, Balance
<1> QED BY <1>8, <1>11, <1>12

LEMMA CountOpenDone ==
  ASSUME CountInv, NEW s \in Session, open_done(s)
  PROVE  CountInv'
<1> USE DEF CountInv
<1> DEFINE h == thread[s].handle
<1>1. s \in Uncounted /\ s \notin Failing /\ h \in Handle
  BY DEF open_done, At, Uncounted, Failing, TypeOK
<1>2. /\ open_count' = (open_count + 1) % UINT_MOD
      /\ record(s, h)
      /\ several' \in {several, several \cup {s}}
      /\ UNCHANGED <<free_open_file_entries, opened_by, can_exec, main, stopped, reclaimed,
                     robbed, failed, mounts, opens>>
  BY DEF open_done, server
<1>3. /\ open_files' \in [Session -> [Entry -> Handle \cup {-1}]]
      /\ open_files_amount' \in [Session -> 0 .. SIZE_MOD - 1]
  <2>1. open_files_amount[s] + 1 \in Int
    BY DEF TypeOK
  <2>2. (open_files_amount[s] + 1) % SIZE_MOD \in 0 .. SIZE_MOD - 1
    BY <2>1, UnsignedTyped
  <2> QED BY <1>1, <1>2, <2>2 DEF record, TypeOK
<1>4. /\ thread' \in [Session -> [at : Step, handle : Handle \cup {-1}]]
      /\ Uncounted' = Uncounted \ {s} /\ Failing' = Failing \ {s}
      /\ client' \in [Session -> {"none", "mounting", "alive", "dead"}]
      /\ given' \in [Session -> SUBSET Handle]
      /\ free_open_session_entries' \subseteq Session
  <2>1. CASE /\ given' = [given EXCEPT ![s] = @ \cup {h}]
             /\ Goto(s, "waiting", -1)
             /\ UNCHANGED <<free_open_session_entries, client>>
    <3>1. "waiting" \in Step
      BY DEF Step
    <3>2. given' \in [Session -> SUBSET Handle]
      BY <1>1, <2>1 DEF TypeOK
    <3>3. client' \in [Session -> {"none", "mounting", "alive", "dead"}]
          /\ free_open_session_entries' \subseteq Session
      BY <2>1 DEF TypeOK
    <3> QED BY <2>1, <3>1, <3>2, <3>3, WorkerMoves
  <2>2. CASE do_unmount(s, open_files_amount'[s])
    <3>1. open_files_amount'[s] \in Nat
      BY <1>3, FilesAssumption
    <3> QED BY <2>2, <3>1, UnmountMoves
  <2> QED BY <2>1, <2>2 DEF open_done
<1>5. Failing' = Failing
  BY <1>1, <1>4
<1>6. Cardinality(Uncounted') = Cardinality(Uncounted) - 1
  BY <1>1, <1>4, CountedFinite, OneDown
<1>7. open_count' \in 0 .. UINT_MOD - 1
  BY <1>2, UnsignedTyped, FilesAssumption DEF TypeOK
<1>8. TypeOK'
  BY <1>2, <1>3, <1>4, <1>7 DEF TypeOK, Step
<1>9. FilesCounted'
  <2>1. Balance' = Balance + 1
    BY <1>2, <1>6, BalanceInteger, FilesAssumption DEF Balance, TypeOK
  <2>2. ((Balance % UINT_MOD) + 1) % UINT_MOD = (Balance + 1) % UINT_MOD
    BY CountUp, BalanceInteger, FilesAssumption
  <2> QED BY <1>2, <2>1, <2>2 DEF FilesCounted, Balance
<1>10. FailuresBounded'
  BY <1>2, <1>5 DEF FailuresBounded
<1> QED BY <1>8, <1>9, <1>10

\* A tfs_close, by whomever: the balance and the counter go down together.
LEMMA CloseCounts ==
  ASSUME CountInv, NEW h \in Handle, tfs_close(h),
         Uncounted' = Uncounted, failed' = failed
  PROVE  /\ free_open_file_entries' \subseteq Handle
         /\ open_count' \in 0 .. UINT_MOD - 1
         /\ opened_by' \in [Handle -> Session \cup {NoSession}]
         /\ FilesCounted'
<1> USE DEF CountInv
<1>1. CASE h \in free_open_file_entries
  BY <1>1 DEF tfs_close, tables, TypeOK, FilesCounted
<1>2. CASE h \notin free_open_file_entries
  <2>1. /\ free_open_file_entries' = free_open_file_entries \cup {h}
        /\ open_count' = (open_count - 1) % UINT_MOD
        /\ opened_by' = [opened_by EXCEPT ![h] = NoSession]
    BY <1>2 DEF tfs_close
  <2>2. Handle \ free_open_file_entries' = (Handle \ free_open_file_entries) \ {h}
        /\ h \in Handle \ free_open_file_entries
    BY <1>2, <2>1
  <2>3. Cardinality(Handle \ free_open_file_entries')
          = Cardinality(Handle \ free_open_file_entries) - 1
    BY <2>2, CountedFinite, OneDown
  <2>4. Balance' = Balance - 1
    BY <2>3, BalanceInteger, FilesAssumption DEF Balance, TypeOK
  <2>5. ((Balance % UINT_MOD) - 1) % UINT_MOD = (Balance - 1) % UINT_MOD
    BY CountDown, BalanceInteger, FilesAssumption
  <2>6. FilesCounted'
    BY <2>1, <2>4, <2>5 DEF FilesCounted, Balance
  <2>7. open_count' \in 0 .. UINT_MOD - 1
    BY <2>1, UnsignedTyped, FilesAssumption DEF TypeOK
  <2> QED BY <2>1, <2>6, <2>7 DEF TypeOK
<1> QED BY <1>1, <1>2

LEMMA CountClose ==
  ASSUME CountInv, NEW s \in Session, NEW h \in Handle, server_close_state(s, h)
  PROVE  CountInv'
<1> USE DEF CountInv
<1>1. s \notin Uncounted /\ s \notin Failing
  BY DEF server_close_state, At, Uncounted, Failing
<1>2. UNCHANGED <<can_exec, main, stopped, several, reclaimed, robbed, failed, mounts, opens>>
      /\ tfs_close(h)
  BY DEF server_close_state, server, history
<1>3. /\ open_files' \in [Session -> [Entry -> Handle \cup {-1}]]
      /\ open_files_amount' \in [Session -> 0 .. SIZE_MOD - 1]
  <2>1. CASE forget(s, h)
    <3>1. IsFiniteSet(Recorded(s, h))
      <4>1. Recorded(s, h) \subseteq Handle
        BY DEF Recorded, Entry, Handle
      <4> QED BY <4>1, CountedFinite, FS_Subset
    <3>2. open_files_amount[s] - Cardinality(Recorded(s, h)) \in Int
      BY <3>1, FS_CardinalityType DEF TypeOK
    <3>3. (open_files_amount[s] - Cardinality(Recorded(s, h))) % SIZE_MOD \in 0 .. SIZE_MOD - 1
      BY <3>2, UnsignedTyped
    <3> QED BY <2>1, <3>3 DEF forget, TypeOK
  <2>2. CASE UNCHANGED entries
    BY <2>2 DEF entries, TypeOK
  <2> QED BY <2>1, <2>2 DEF server_close_state
<1>4. /\ thread' \in [Session -> [at : Step, handle : Handle \cup {-1}]]
      /\ Uncounted' = Uncounted /\ Failing' = Failing
      /\ client' \in [Session -> {"none", "mounting", "alive", "dead"}]
      /\ given' \in [Session -> SUBSET Handle]
      /\ free_open_session_entries' \subseteq Session
  <2>1. CASE /\ given' = [given EXCEPT ![s] = @ \ {h}]
             /\ UNCHANGED <<free_open_session_entries, thread, client>>
    BY <2>1 DEF TypeOK, Step, Uncounted, Failing
  <2>2. CASE do_unmount(s, open_files_amount'[s]) \/ do_unmount(s, open_files_amount[s])
    <3>1. open_files_amount[s] \in Nat /\ open_files_amount'[s] \in Nat
      BY <1>3, FilesAssumption DEF TypeOK
    <3>2. /\ thread' \in [Session -> [at : Step, handle : Handle \cup {-1}]]
          /\ Uncounted' = Uncounted \ {s} /\ Failing' = Failing \ {s}
          /\ client' \in [Session -> {"none", "mounting", "alive", "dead"}]
          /\ given' \in [Session -> SUBSET Handle]
          /\ free_open_session_entries' \subseteq Session
      BY <2>2, <3>1, UnmountMoves
    <3> QED BY <1>1, <3>2
  <2> QED BY <2>1, <2>2 DEF server_close_state
<1>5. TypeOK' /\ FilesCounted'
  <2>1. /\ free_open_file_entries' \subseteq Handle
        /\ open_count' \in 0 .. UINT_MOD - 1
        /\ opened_by' \in [Handle -> Session \cup {NoSession}]
        /\ FilesCounted'
    BY <1>2, <1>4, CloseCounts
  <2> QED BY <1>2, <1>3, <1>4, <2>1 DEF TypeOK, Step
<1>6. FailuresBounded'
  BY <1>2, <1>4 DEF FailuresBounded
<1> QED BY <1>5, <1>6

LEMMA CountUnmount ==
  ASSUME CountInv, NEW s \in Session, unmount_close(s)
  PROVE  CountInv'
<1> USE DEF CountInv
<1>1. s \notin Uncounted /\ s \notin Failing
  BY DEF unmount_close, At, Uncounted, Failing
<1>2. UNCHANGED <<can_exec, main, stopped, free_open_session_entries, client, given, several,
                  reclaimed, failed, mounts, opens>>
  BY DEF unmount_close, server
<1>3. ASSUME NEW i \in Entry, tfs_close(open_files[s][i]), open_files[s][i] # -1,
             robbed' = (robbed \/ opened_by[open_files[s][i]] \notin {s, NoSession}),
             open_files' = [open_files EXCEPT ![s][i] = -1],
             open_files_amount' = [open_files_amount EXCEPT ![s] = (@ - 1) % SIZE_MOD],
             UNCHANGED thread
      PROVE  CountInv'
  <2>1. open_files[s][i] \in Handle
    BY <1>3 DEF TypeOK
  <2>2. Uncounted' = Uncounted /\ Failing' = Failing
    BY <1>3 DEF Uncounted, Failing
  <2>3. open_files_amount' \in [Session -> 0 .. SIZE_MOD - 1]
    <3>1. open_files_amount[s] - 1 \in Int
      BY DEF TypeOK
    <3>2. (open_files_amount[s] - 1) % SIZE_MOD \in 0 .. SIZE_MOD - 1
      BY <3>1, UnsignedTyped
    <3> QED BY <1>3, <3>2 DEF TypeOK
  <2>4. open_files' \in [Session -> [Entry -> Handle \cup {-1}]] /\ robbed' \in BOOLEAN
    BY <1>3 DEF TypeOK
  <2>5. /\ free_open_file_entries' \subseteq Handle
        /\ open_count' \in 0 .. UINT_MOD - 1
        /\ opened_by' \in [Handle -> Session \cup {NoSession}]
        /\ FilesCounted'
    BY <1>2, <1>3, <2>1, <2>2, CloseCounts
  <2>6. TypeOK'
    BY <1>2, <1>3, <2>3, <2>4, <2>5 DEF TypeOK
  <2> QED BY <1>2, <2>2, <2>5, <2>6 DEF FailuresBounded
<1>4. CASE Goto(s, "waiting", -1) /\ UNCHANGED <<tables, entries, robbed>>
  <2>1. "waiting" \in Step
    BY DEF Step
  <2>2. /\ thread' \in [Session -> [at : Step, handle : Handle \cup {-1}]]
        /\ Uncounted' = Uncounted \ {s} /\ Failing' = Failing \ {s}
    BY <1>4, <2>1, WorkerMoves
  <2>3. Uncounted' = Uncounted /\ Failing' = Failing
    BY <1>1, <2>2
  <2>4. TypeOK'
    BY <1>2, <1>4, <2>2 DEF TypeOK, Step, tables, entries
  <2> QED BY <1>2, <1>4, <2>3, <2>4 DEF tables, FailuresBounded, FilesCounted
<1> QED BY <1>3, <1>4 DEF unmount_close, IsFirst

-----------------------------------------------------------------------------

OwnInv == TakenOwned /\ OneOnRecord /\ OwnFiles

LEMMA OwnInit == Init => OwnInv
<1> SUFFICES ASSUME Init PROVE OwnInv
  OBVIOUS
<1>1. TakenOwned
  BY DEF Init, TakenOwned
<1>2. OneOnRecord
  BY DEF Init, OneOnRecord
<1>3. OwnFiles
  BY DEF Init, OwnFiles, Uncounted
<1> QED BY <1>1, <1>2, <1>3 DEF OwnInv

\* The steps of one worker that open and close nothing, and leave what its
\* client was given alone or take it away.
LEMMA OwnKept ==
  ASSUME TypeOK, OwnInv, NEW s \in Session,
         UNCHANGED <<free_open_file_entries, opened_by, open_files, robbed>>,
         given' \in {given, [given EXCEPT ![s] = {}]},
         \A u \in Session \ {s} : thread'[u] = thread[u],
         \/ thread'[s] = thread[s]
         \/ /\ thread[s].at # "unmounting"
            /\ thread'[s].at = "unmounting" => given' = [given EXCEPT ![s] = {}]
            /\ s \notin Uncounted'
  PROVE  OwnInv'
<1> USE DEF OwnInv
<1>1. TakenOwned'
  BY DEF TakenOwned
<1>2. OneOnRecord'
  BY DEF OneOnRecord
<1>3. ASSUME NEW u \in Session
      PROVE  /\ thread'[u].at = "unmounting" => given'[u] = {}
             /\ ~ robbed' =>
                 /\ \A h \in given'[u] : opened_by'[h] = u
                 /\ thread'[u].at # "unmounting" =>
                      \A i \in Entry : open_files'[u][i] # -1
                                            => opened_by'[open_files'[u][i]] = u
                 /\ u \in Uncounted' =>
                      opened_by'[thread'[u].handle] = u /\ thread'[u].handle \notin given'[u]
  <2>1. given'[u] \subseteq given[u] /\ (u # s => given'[u] = given[u])
    BY DEF TypeOK
  <2>2. given' = [given EXCEPT ![s] = {}] => given'[s] = {}
    BY DEF TypeOK
  <2>3. CASE thread'[u] = thread[u]
    BY <2>1, <2>3 DEF OwnFiles, Uncounted
  <2>4. CASE thread'[u] # thread[u]
    <3>1. u = s
      BY <2>4
    <3> QED BY <2>1, <2>2, <2>4, <3>1 DEF OwnFiles
  <2> QED BY <2>3, <2>4
<1>4. OwnFiles'
  BY <1>3 DEF OwnFiles
<1> QED BY <1>1, <1>2, <1>4

\* The steps that change no worker and no handle.
LEMMA OwnAround ==
  ASSUME TypeOK, OwnInv, NEW s \in Session,
         \/ mount_free(s) \/ poll_dead(s) \/ mount_dead(s) \/ client_dies(s)
         \/ shutdown_done(s) \/ shutdown_refused(s)
  PROVE  OwnInv'
<1>1. UNCHANGED <<free_open_file_entries, opened_by, open_files, robbed, thread>>
  BY DEF mount_free, poll_dead, mount_dead, client_dies, shutdown_done, shutdown_refused,
         tables, entries, history
<1>2. given' \in {given, [given EXCEPT ![s] = {}]}
  BY DEF mount_free, poll_dead, mount_dead, client_dies, shutdown_done, shutdown_refused
<1> QED BY <1>1, <1>2, OwnKept

\* A session ends.
LEMMA OwnEnds ==
  ASSUME TypeOK, OwnInv, NEW s \in Session, NEW amount \in Nat, do_unmount(s, amount),
         thread[s].at # "unmounting",
         UNCHANGED <<free_open_file_entries, opened_by, open_files, robbed>>
  PROVE  OwnInv'
<1>1. /\ given' = [given EXCEPT ![s] = {}]
      /\ \A u \in Session \ {s} : thread'[u] = thread[u]
      /\ Uncounted' = Uncounted \ {s}
  BY UnmountMoves
<1>2. s \notin Uncounted'
  BY <1>1
<1> QED BY <1>1, <1>2, OwnKept

LEMMA OwnMountUnmountFailed ==
  ASSUME TypeOK, OwnInv, NEW s \in Session,
         server_mount_state(s) \/ server_unmount_state(s) \/ open_failed(s)
  PROVE  OwnInv'
<1>1. UNCHANGED <<free_open_file_entries, opened_by, open_files, robbed>>
      /\ thread[s].at # "unmounting"
  BY DEF server_mount_state, server_unmount_state, open_failed, At, tables, entries, history
<1>2. CASE do_unmount(s, open_files_amount[s])
  <2>1. open_files_amount[s] \in Nat
    BY FilesAssumption DEF TypeOK
  <2> QED BY <1>1, <1>2, <2>1, OwnEnds
<1>3. CASE UNCHANGED <<thread, given>>
  BY <1>1, <1>3, OwnKept
<1> QED BY <1>2, <1>3 DEF server_mount_state, server_unmount_state, open_failed

LEMMA OwnShutdown ==
  ASSUME TypeOK, OwnInv, NEW s \in Session, server_shutdown_state(s)
  PROVE  OwnInv'
<1>1. /\ UNCHANGED <<free_open_file_entries, opened_by, open_files, robbed, given>>
      /\ thread[s].at # "unmounting"
      /\ Goto(s, "destroying", -1) /\ "destroying" \in Step
  BY DEF server_shutdown_state, At, tables, entries, history, Step
<1>2. thread'[s].at = "destroying" /\ \A u \in Session \ {s} : thread'[u] = thread[u]
  BY <1>1, WorkerMoves
<1>3. s \notin Uncounted'
  BY <1>2 DEF Uncounted
<1> QED BY <1>1, <1>2, <1>3, OwnKept

\* The handle that tfs_open takes is nobody's.
LEMMA OwnOpen ==
  ASSUME TypeOK, OwnInv, NEW s \in Session, server_open_state(s)
  PROVE  OwnInv'
<1> USE DEF OwnInv
<1>1. UNCHANGED <<open_files, open_files_amount, robbed>> /\ thread[s].at = "waiting"
  BY DEF server_open_state, At, entries, history
<1>2. "opening" \in Step
  BY DEF Step
<1>3. ASSUME NEW h \in Handle, IsFirst(h, free_open_file_entries),
             free_open_file_entries' = free_open_file_entries \ {h},
             opened_by' = [opened_by EXCEPT ![h] = s],
             Goto(s, "opening", h), UNCHANGED <<free_open_session_entries, client, given>>
      PROVE  OwnInv'
  <2>1. h \in free_open_file_entries /\ opened_by[h] = NoSession /\ h # -1
    BY <1>3 DEF IsFirst, TakenOwned, Handle
  <2>2. thread'[s].at = "opening" /\ thread'[s].handle = h
        /\ \A u \in Session \ {s} : thread'[u] = thread[u]
    BY <1>2, <1>3, <2>1, WorkerMoves
  <2>3. opened_by'[h] = s /\ \A g \in Handle \ {h} : opened_by'[g] = opened_by[g]
    BY <1>3 DEF TypeOK
  <2>4. TakenOwned'
    BY <1>3, <2>1, <2>3, FilesAssumption DEF TakenOwned
  <2>5. OneOnRecord'
    BY <1>1, <2>2 DEF OneOnRecord
  <2>6. ASSUME NEW u \in Session, NEW g \in Handle, opened_by[g] = u
        PROVE  opened_by'[g] = u
    BY <2>1, <2>3, <2>6, FilesAssumption
  <2>7. ASSUME NEW u \in Session, ~ robbed'
        PROVE  /\ \A g \in given'[u] : opened_by'[g] = u
               /\ thread'[u].at # "unmounting" =>
                    \A i \in Entry : open_files'[u][i] # -1
                                        => opened_by'[open_files'[u][i]] = u
               /\ u \in Uncounted' =>
                    opened_by'[thread'[u].handle] = u /\ thread'[u].handle \notin given'[u]
    <3>1. \A g \in given[u] : g \in Handle /\ opened_by[g] = u
      BY <1>1, <2>7 DEF OwnFiles, TypeOK
    <3>2. \A g \in given'[u] : opened_by'[g] = u
      BY <1>3, <2>6, <3>1
    <3>3. ASSUME thread'[u].at # "unmounting", NEW i \in Entry, open_files'[u][i] # -1
          PROVE  opened_by'[open_files'[u][i]] = u
      <4>1. thread[u].at # "unmounting"
        BY <1>1, <2>2, <3>3
      <4>2. open_files[u][i] \in Handle /\ opened_by[open_files[u][i]] = u
        BY <1>1, <2>7, <3>3, <4>1 DEF OwnFiles, TypeOK
      <4> QED BY <1>1, <2>6, <4>2
    <3>4. ASSUME u \in Uncounted'
          PROVE  opened_by'[thread'[u].handle] = u /\ thread'[u].handle \notin given'[u]
      <4>1. CASE u = s
        <5>1. h \notin given[s]
          BY <2>1, <3>1, <4>1, FilesAssumption
        <5> QED BY <1>3, <2>2, <2>3, <4>1, <5>1
      <4>2. CASE u # s
        <5>1. u \in Uncounted /\ thread'[u] = thread[u] /\ thread[u].handle \in Handle
          BY <2>2, <3>4, <4>2 DEF Uncounted, TypeOK
        <5>2. opened_by[thread[u].handle] = u /\ thread[u].handle \notin given[u]
          BY <1>1, <2>7, <5>1 DEF OwnFiles
        <5> QED BY <1>3, <2>6, <5>1, <5>2
      <4> QED BY <4>1, <4>2
    <3> QED BY <3>2, <3>3, <3>4
  <2>8. ASSUME NEW u \in Session, thread'[u].at = "unmounting" PROVE given'[u] = {}
    BY <1>3, <2>2, <2>8 DEF OwnFiles
  <2>9. OwnFiles'
    BY <2>7, <2>8 DEF OwnFiles
  <2> QED BY <2>4, <2>5, <2>9
<1>4. CASE Goto(s, "opening", -1)
           /\ UNCHANGED <<free_open_file_entries, opened_by, given>>
  <2>1. thread'[s].at = "opening" /\ thread'[s].handle = -1
        /\ \A u \in Session \ {s} : thread'[u] = thread[u]
    BY <1>2, <1>4, WorkerMoves
  <2>2. s \notin Uncounted'
    BY <2>1 DEF Uncounted
  <2>3. thread[s].at # "unmounting" /\ thread'[s].at # "unmounting"
    BY <1>1, <2>1
  <2> QED BY <1>1, <1>4, <2>1, <2>2, <2>3, OwnKept
<1>5. CASE do_unmount(s, open_files_amount[s])
           /\ UNCHANGED <<free_open_file_entries, opened_by>>
  <2>1. open_files_amount[s] \in Nat
    BY FilesAssumption DEF TypeOK
  <2> QED BY <1>1, <1>5, <2>1, OwnEnds
<1> QED BY <1>3, <1>4, <1>5 DEF server_open_state

\* The handle an open gives to its client and puts on record is its own.
LEMMA OwnOpenDone ==
  ASSUME CountInv, OwnInv, NEW s \in Session, open_done(s)
  PROVE  OwnInv'
<1> USE DEF OwnInv
<1> DEFINE h == thread[s].handle
<1>1. s \in Uncounted /\ h \in Handle /\ thread[s].at = "opening" /\ h # -1 /\ TypeOK
  BY DEF open_done, At, Uncounted, TypeOK, CountInv
<1>2. record(s, h) /\ UNCHANGED <<free_open_file_entries, opened_by, robbed>>
  BY DEF open_done
<1>3. /\ \A u \in Session \ {s} : open_files'[u] = open_files[u]
      /\ \A i \in Entry : open_files'[s][i]
                            = IF open_files[s][i] = -1 THEN h ELSE open_files[s][i]
  BY <1>1, <1>2 DEF record, TypeOK
<1>4. /\ \A u \in Session \ {s} : thread'[u] = thread[u] /\ given'[u] = given[u]
      /\ s \notin Uncounted'
      /\ given'[s] \subseteq given[s] \cup {h}
      /\ thread'[s].at = "unmounting" => given'[s] = {}
  <2>1. CASE /\ given' = [given EXCEPT ![s] = @ \cup {h}]
             /\ Goto(s, "waiting", -1)
    <3>1. "waiting" \in Step
      BY DEF Step
    <3>2. /\ \A u \in Session \ {s} : thread'[u] = thread[u]
          /\ thread'[s].at = "waiting"
      BY <1>1, <2>1, <3>1, WorkerMoves
    <3> QED BY <1>1, <2>1, <3>2 DEF Uncounted, TypeOK
  <2>2. CASE do_unmount(s, open_files_amount'[s])
    <3>1. open_files_amount'[s] \in Nat
      <4>1. CountInv'
        BY CountOpenDone
      <4> QED BY <4>1, FilesAssumption DEF CountInv, TypeOK
    <3>2. /\ given' = [given EXCEPT ![s] = {}]
          /\ \A u \in Session \ {s} : thread'[u] = thread[u]
          /\ Uncounted' = Uncounted \ {s}
      BY <1>1, <2>2, <3>1, UnmountMoves
    <3> QED BY <1>1, <3>2 DEF TypeOK
  <2> QED BY <2>1, <2>2 DEF open_done
<1>5. TakenOwned'
  BY <1>2 DEF TakenOwned
<1>6. \A i, j \in Entry : open_files[s][i] = open_files[s][j]
  BY <1>1 DEF OneOnRecord
<1>7. OneOnRecord'
  BY <1>3, <1>4, <1>6 DEF OneOnRecord
<1>8. ASSUME NEW u \in Session
      PROVE  /\ thread'[u].at = "unmounting" => given'[u] = {}
             /\ ~ robbed' =>
                 /\ \A g \in given'[u] : opened_by'[g] = u
                 /\ thread'[u].at # "unmounting" =>
                      \A i \in Entry : open_files'[u][i] # -1
                                            => opened_by'[open_files'[u][i]] = u
                 /\ u \in Uncounted' =>
                      opened_by'[thread'[u].handle] = u /\ thread'[u].handle \notin given'[u]
  <2>1. CASE u = s
    <3>1. ~ robbed => opened_by[h] = s
      BY <1>1 DEF OwnFiles
    <3>2. ~ robbed => \A g \in given'[s] : opened_by'[g] = s
      BY <1>2, <1>4, <3>1 DEF OwnFiles
    <3>3. ~ robbed => \A i \in Entry : open_files'[s][i] # -1
                                          => opened_by'[open_files'[s][i]] = s
      BY <1>1, <1>2, <1>3, <3>1 DEF OwnFiles
    <3> QED BY <1>2, <1>4, <2>1, <3>2, <3>3
  <2>2. CASE u # s
    <3>1. thread'[u] = thread[u] /\ given'[u] = given[u] /\ open_files'[u] = open_files[u]
          /\ (u \in Uncounted' => u \in Uncounted)
      BY <1>3, <1>4, <2>2 DEF Uncounted
    <3> QED BY <1>2, <3>1 DEF OwnFiles
  <2> QED BY <2>1, <2>2
<1>9. OwnFiles'
  BY <1>8 DEF OwnFiles
<1> QED BY <1>5, <1>7, <1>9

\* Closing a session's handle takes nothing from another session.
LEMMA OthersKeep ==
  ASSUME TypeOK, OwnInv, NEW s \in Session, NEW g \in Handle, tfs_close(g),
         opened_by[g] \in {s, NoSession},
         UNCHANGED robbed,
         NEW u \in Session \ {s},
         thread'[u] = thread[u], given'[u] = given[u], open_files'[u] = open_files[u]
  PROVE  /\ thread'[u].at = "unmounting" => given'[u] = {}
         /\ ~ robbed' =>
              /\ \A h \in given'[u] : opened_by'[h] = u
              /\ thread'[u].at # "unmounting" =>
                   \A i \in Entry : open_files'[u][i] # -1
                                         => opened_by'[open_files'[u][i]] = u
              /\ u \in Uncounted' =>
                   opened_by'[thread'[u].handle] = u /\ thread'[u].handle \notin given'[u]
<1> USE DEF OwnInv
<1>1. \A h \in Handle : opened_by[h] = u => opened_by'[h] = u
  BY FilesAssumption DEF tfs_close, tables, TypeOK
<1>2. given[u] \subseteq Handle /\ \A i \in Entry : open_files[u][i] \in Handle \cup {-1}
  BY DEF TypeOK
<1>3. u \in Uncounted' => u \in Uncounted /\ thread[u].handle \in Handle
  BY DEF Uncounted, TypeOK
<1> QED BY <1>1, <1>2, <1>3 DEF OwnFiles

LEMMA CloseOwned ==
  ASSUME TypeOK, OwnInv, NEW g \in Handle, tfs_close(g)
  PROVE  TakenOwned'
<1> USE DEF OwnInv
<1>1. CASE g \in free_open_file_entries
  BY <1>1 DEF tfs_close, tables, TakenOwned
<1>2. CASE g \notin free_open_file_entries
  BY <1>2 DEF tfs_close, TakenOwned, TypeOK
<1> QED BY <1>1, <1>2

LEMMA OwnClose ==
  ASSUME CountInv, OwnInv, NEW s \in Session, NEW g \in Handle, server_close_state(s, g)
  PROVE  OwnInv'
<1> USE DEF OwnInv
<1>1. /\ thread[s].at = "waiting" /\ g \in given[s] /\ tfs_close(g) /\ TypeOK
      /\ UNCHANGED robbed
  BY DEF server_close_state, At, CountInv, history
<1>2. CASE g \in free_open_file_entries
  <2>1. do_unmount(s, open_files_amount[s]) /\ UNCHANGED entries /\ UNCHANGED tables
    BY <1>2 DEF server_close_state, tfs_close
  <2>2. open_files_amount[s] \in Nat
    BY <1>1, FilesAssumption DEF TypeOK
  <2> QED BY <1>1, <2>1, <2>2, OwnEnds DEF tables, entries
<1>3. CASE g \notin free_open_file_entries
  <2>1. forget(s, g)
    BY <1>3 DEF server_close_state
  <2>2. /\ \A u \in Session \ {s} : open_files'[u] = open_files[u]
        /\ \A i \in Entry : open_files'[s][i]
                              = IF open_files[s][i] = g THEN -1 ELSE open_files[s][i]
    BY <1>1, <2>1 DEF forget, TypeOK
  <2>3. /\ \A u \in Session \ {s} : thread'[u] = thread[u] /\ given'[u] = given[u]
        /\ s \notin Uncounted'
        /\ given'[s] \subseteq given[s] \ {g}
        /\ thread'[s].at = "unmounting" => given'[s] = {}
    <3>1. CASE given' = [given EXCEPT ![s] = @ \ {g}] /\ UNCHANGED thread
      BY <1>1, <3>1 DEF Uncounted, TypeOK
    <3>2. CASE do_unmount(s, open_files_amount'[s])
      <4>1. open_files_amount'[s] \in Nat
        <5>1. CountInv'
          BY CountClose
        <5> QED BY <5>1, FilesAssumption DEF CountInv, TypeOK
      <4>2. /\ given' = [given EXCEPT ![s] = {}]
            /\ \A u \in Session \ {s} : thread'[u] = thread[u]
            /\ Uncounted' = Uncounted \ {s}
        BY <1>1, <3>2, <4>1, UnmountMoves
      <4> QED BY <1>1, <4>2 DEF TypeOK
    <3> QED BY <1>3, <3>1, <3>2 DEF server_close_state
  <2>4. TakenOwned'
    BY <1>1, CloseOwned
  <2>5. OneOnRecord'
    <3>1. \A i, j \in Entry : open_files[s][i] = open_files[s][j]
      BY <1>1 DEF OneOnRecord
    <3> QED BY <2>2, <2>3, <3>1 DEF OneOnRecord
  <2>6. CASE robbed
    <3>1. \A u \in Session : thread'[u].at = "unmounting" => given'[u] = {}
      BY <2>3 DEF OwnFiles
    <3>2. OwnFiles'
      BY <1>1, <2>6, <3>1 DEF OwnFiles
    <3> QED BY <2>4, <2>5, <3>2
  <2>7. CASE ~ robbed
    <3>1. opened_by[g] = s
      BY <1>1, <2>7 DEF OwnFiles
    <3>2. \A h \in Handle \ {g} : opened_by'[h] = opened_by[h]
      BY <1>1, <1>3 DEF tfs_close, TypeOK
    <3>3. \A h \in given'[s] : opened_by'[h] = s
      BY <1>1, <2>3, <2>7, <3>2 DEF OwnFiles, TypeOK
    <3>4. ASSUME NEW i \in Entry, open_files'[s][i] # -1
          PROVE  opened_by'[open_files'[s][i]] = s
      <4>1. open_files'[s][i] = open_files[s][i] /\ open_files[s][i] # g
            /\ open_files[s][i] \in Handle
        BY <1>1, <2>2, <3>4 DEF TypeOK
      <4>2. opened_by[open_files[s][i]] = s
        BY <1>1, <2>7, <3>4, <4>1 DEF OwnFiles
      <4> QED BY <3>2, <4>1, <4>2
    <3>5. OwnFiles'
      BY <1>1, <2>2, <2>3, <3>1, <3>3, <3>4, OthersKeep DEF OwnFiles
    <3> QED BY <2>4, <2>5, <3>5
  <2> QED BY <2>6, <2>7
<1> QED BY <1>2, <1>3

\* The end of a session, as long as it closes no other session's file.
LEMMA OwnUnmount ==
  ASSUME CountInv, OwnInv, NEW s \in Session, unmount_close(s)
  PROVE  OwnInv'
<1> USE DEF OwnInv
<1>1. /\ thread[s].at = "unmounting" /\ given[s] = {} /\ UNCHANGED given /\ TypeOK
      /\ s \notin Uncounted
  BY DEF unmount_close, At, OwnFiles, CountInv, Uncounted
<1>2. ASSUME NEW i \in Entry, open_files[s][i] # -1,
             tfs_close(open_files[s][i]),
             robbed' = (robbed \/ opened_by[open_files[s][i]] \notin {s, NoSession}),
             open_files' = [open_files EXCEPT ![s][i] = -1],
             UNCHANGED thread
      PROVE  OwnInv'
  <2> DEFINE g == open_files[s][i]
  <2>1. g \in Handle
    BY <1>1, <1>2 DEF TypeOK
  <2>2. /\ \A u \in Session \ {s} : open_files'[u] = open_files[u]
        /\ \A j \in Entry : open_files'[s][j] = IF j = i THEN -1 ELSE open_files[s][j]
    BY <1>1, <1>2 DEF TypeOK
  <2>3. TakenOwned'
    BY <1>1, <1>2, <2>1, CloseOwned
  <2>4. OneOnRecord'
    BY <1>1, <1>2, <2>2 DEF OneOnRecord
  <2>5. \A u \in Session : thread'[u].at = "unmounting" => given'[u] = {}
    BY <1>1, <1>2 DEF OwnFiles
  <2>6. CASE robbed'
    <3>1. OwnFiles'
      BY <2>5, <2>6 DEF OwnFiles
    <3> QED BY <2>3, <2>4, <3>1
  <2>7. CASE ~ robbed'
    <3>1. opened_by[g] \in {s, NoSession} /\ robbed = FALSE /\ robbed' = robbed
      BY <1>1, <1>2, <2>7 DEF TypeOK
    <3>2. \A u \in Session \ {s} :
            /\ thread'[u].at = "unmounting" => given'[u] = {}
            /\ ~ robbed' =>
                 /\ \A h \in given'[u] : opened_by'[h] = u
                 /\ thread'[u].at # "unmounting" =>
                      \A j \in Entry : open_files'[u][j] # -1
                                            => opened_by'[open_files'[u][j]] = u
                 /\ u \in Uncounted' =>
                      opened_by'[thread'[u].handle] = u /\ thread'[u].handle \notin given'[u]
      BY <1>1, <1>2, <2>1, <2>2, <3>1, OthersKeep
    <3>3. thread'[s].at = "unmounting" /\ given'[s] = {} /\ s \notin Uncounted'
      BY <1>1, <1>2 DEF Uncounted
    <3>4. OwnFiles'
      BY <3>2, <3>3 DEF OwnFiles
    <3> QED BY <2>3, <2>4, <3>4
  <2> QED BY <2>6, <2>7
<1>3. CASE /\ Recorded(s, -1) = Entry
           /\ Goto(s, "waiting", -1)
           /\ UNCHANGED <<tables, entries, robbed>>
  <2>1. "waiting" \in Step
    BY DEF Step
  <2>2. /\ \A u \in Session \ {s} : thread'[u] = thread[u]
        /\ thread'[s].at = "waiting"
    BY <1>1, <1>3, <2>1, WorkerMoves
  <2>3. UNCHANGED <<free_open_file_entries, opened_by, open_files, robbed, given>>
    BY <1>1, <1>3 DEF tables, entries
  <2>4. \A i \in Entry : open_files[s][i] = -1
    BY <1>3 DEF Recorded
  <2>5. TakenOwned'
    BY <2>3 DEF TakenOwned
  <2>6. OneOnRecord'
    BY <2>2, <2>3, <2>4 DEF OneOnRecord
  <2>7. \A u \in Session : u \in Uncounted' => u \in Uncounted /\ u # s
    BY <2>2 DEF Uncounted
  <2>8. OwnFiles'
    BY <1>1, <2>2, <2>3, <2>4, <2>7 DEF OwnFiles
  <2> QED BY <2>5, <2>6, <2>8
<1> QED BY <1>2, <1>3 DEF unmount_close, IsFirst

-----------------------------------------------------------------------------

\* While a client has a file open, the counter is not zero: of the TAKEN handles
\* at least its own is counted, because every open that is not counted yet has
\* a handle of its own.
LEMMA GivenIsCounted ==
  ASSUME CountInv, OwnInv, ~ robbed, NEW s \in Session, NEW h \in given[s]
  PROVE  open_count # 0
<1> DEFINE taken == Handle \ free_open_file_entries
           f == [u \in Uncounted |-> thread[u].handle]
<1>1. TypeOK /\ FailuresBounded /\ FilesCounted /\ OwnFiles /\ TakenOwned
  BY DEF CountInv, OwnInv
<1>2. h \in taken /\ opened_by[h] = s
  BY <1>1, FilesAssumption DEF OwnFiles, TakenOwned, TypeOK
<1>3. \A u \in Uncounted :
         /\ thread[u].handle \in taken \ {h}
         /\ opened_by[thread[u].handle] = u
  <2> SUFFICES ASSUME NEW u \in Uncounted
               PROVE  /\ thread[u].handle \in taken \ {h}
                      /\ opened_by[thread[u].handle] = u
    OBVIOUS
  <2>1. u \in Session /\ thread[u].handle \in Handle
    BY <1>1 DEF Uncounted, TypeOK
  <2>2. opened_by[thread[u].handle] = u /\ thread[u].handle \notin given[u]
    BY <1>1, <2>1 DEF OwnFiles
  <2>3. thread[u].handle \in taken
    BY <1>1, <2>1, <2>2, FilesAssumption DEF TakenOwned
  <2>4. thread[u].handle # h
    BY <1>2, <2>2
  <2> QED BY <2>2, <2>3, <2>4
<1>4. f \in Injection(Uncounted, taken \ {h})
  <2>1. f \in [Uncounted -> taken \ {h}]
    BY <1>3
  <2>2. \A u, v \in Uncounted : f[u] = f[v] => u = v
    BY <1>3
  <2> QED BY <2>1, <2>2 DEF Injection, IsInjective
<1>5. Cardinality(Uncounted) <= Cardinality(taken \ {h})
  <2>1. IsFiniteSet(taken \ {h})
    BY <1>1, CountedFinite, FS_Subset
  <2> QED BY <1>4, <2>1, FS_Injection
<1>6. Cardinality(taken \ {h}) = Cardinality(taken) - 1
  BY <1>1, <1>2, CountedFinite, OneDown
<1>7. Cardinality(taken) \in Nat /\ Cardinality(taken) <= MAX_OPEN_FILES
      /\ Cardinality(Uncounted) \in Nat
  BY <1>1, CountedFinite, FS_Subset, BalanceInteger
<1>8. failed \in Nat /\ failed <= MaxOpens
  BY <1>1, FilesAssumption DEF TypeOK
<1>9. Balance \in 1 .. UINT_MOD - 1
  BY <1>5, <1>6, <1>7, <1>8, FilesAssumption DEF Balance
<1>10. Balance % UINT_MOD = Balance
  <2>1. Balance = UINT_MOD * 0 + Balance /\ Balance \in 0 .. UINT_MOD - 1
        /\ UINT_MOD \in Nat \ {0}
    BY <1>9, FilesAssumption
  <2> QED BY <2>1, Remainder
<1> QED BY <1>1, <1>9, <1>10 DEF FilesCounted, Balance

-----------------------------------------------------------------------------

LEMMA FilesInit == Init => FilesInv
<1>1. Init => ExitAfterCloses
  BY DEF Init, ExitAfterCloses
<1> QED BY <1>1, CountInit, OwnInit DEF FilesInv, CountInv, OwnInv

\* Nothing happens once the server exited, and it exits when the counter is zero.
LEMMA ExitKept ==
  ASSUME CountInv, OwnInv, ExitAfterCloses, Next
  PROVE  ExitAfterCloses'
<1>1. ASSUME NEW s \in Session, shutdown_done(s) PROVE ExitAfterCloses'
  <2>1. open_count = 0 /\ given' = given /\ robbed' = robbed
    BY <1>1 DEF shutdown_done, history
  <2>2. ~ robbed => \A u \in Session : given[u] = {}
    BY <2>1, GivenIsCounted
  <2> QED BY <2>1, <2>2 DEF ExitAfterCloses
<1>2. ASSUME NEW s \in Session,
             \/ mount_free(s) \/ poll_dead(s) \/ mount_dead(s) \/ client_dies(s)
             \/ server_unmount_state(s) \/ server_open_state(s)
             \/ \E h \in Handle : server_close_state(s, h)
             \/ server_shutdown_state(s) \/ server_mount_state(s)
             \/ open_failed(s) \/ open_done(s) \/ unmount_close(s)
      PROVE  stopped' = "no"
  <2>1. CASE mount_free(s) \/ poll_dead(s) \/ mount_dead(s) \/ client_dies(s)
    BY <2>1 DEF mount_free, poll_dead, mount_dead, client_dies, Running, At, server
  <2>2. CASE server_unmount_state(s) \/ server_open_state(s) \/ server_mount_state(s)
             \/ open_failed(s) \/ server_shutdown_state(s)
    BY <2>2 DEF server_unmount_state, server_open_state, server_mount_state, open_failed,
                server_shutdown_state, Running, At, server
  <2>3. CASE open_done(s) \/ unmount_close(s)
    BY <2>3 DEF open_done, unmount_close, Running, At, server
  <2>4. CASE \E h \in Handle : server_close_state(s, h)
    BY <2>4 DEF server_close_state, Running, At, server
  <2> QED BY <1>2, <2>1, <2>2, <2>3, <2>4
<1>3. ASSUME NEW s \in Session, shutdown_refused(s) PROVE stopped' = "refused"
  BY <1>3 DEF shutdown_refused
<1> QED BY <1>1, <1>2, <1>3 DEF Next, Continue, ExitAfterCloses

LEMMA CountKept ==
  ASSUME CountInv, Next
  PROVE  CountInv'
<1> SUFFICES ASSUME NEW s \in Session,
                    \/ mount_free(s) \/ poll_dead(s) \/ mount_dead(s)
                    \/ client_dies(s)
                    \/ server_unmount_state(s) \/ server_open_state(s)
                    \/ \E h \in Handle : server_close_state(s, h)
                    \/ server_shutdown_state(s) \/ shutdown_refused(s)
                    \/ Continue(s)
             PROVE  CountInv'
  BY DEF Next
<1>1. CASE mount_free(s) \/ poll_dead(s) \/ mount_dead(s)
  BY <1>1, CountMounts
<1>2. CASE client_dies(s) \/ shutdown_refused(s)
  BY <1>2, CountDiesStops
<1>3. CASE server_unmount_state(s)
  BY <1>3, CountEnds
<1>4. CASE server_open_state(s)
  BY <1>4, CountOpen
<1>5. CASE \E h \in Handle : server_close_state(s, h)
  BY <1>5, CountClose
<1>6. CASE server_shutdown_state(s)
  BY <1>6, CountShutdown
<1>7. CASE Continue(s)
  BY <1>7, CountEnds, CountOpenFailed, CountOpenDone, CountUnmount, CountDiesStops
     DEF Continue
<1> QED BY <1>1, <1>2, <1>3, <1>4, <1>5, <1>6, <1>7

LEMMA OwnNext ==
  ASSUME CountInv, OwnInv, Next
  PROVE  OwnInv'
<1> SUFFICES ASSUME NEW s \in Session,
                    \/ mount_free(s) \/ poll_dead(s) \/ mount_dead(s)
                    \/ client_dies(s)
                    \/ server_unmount_state(s) \/ server_open_state(s)
                    \/ \E h \in Handle : server_close_state(s, h)
                    \/ server_shutdown_state(s) \/ shutdown_refused(s)
                    \/ Continue(s)
             PROVE  OwnInv'
  BY DEF Next
<1>1. TypeOK
  BY DEF CountInv
<1>2. CASE mount_free(s) \/ poll_dead(s) \/ mount_dead(s) \/ client_dies(s)
           \/ shutdown_refused(s)
  BY <1>1, <1>2, OwnAround
<1>3. CASE server_unmount_state(s)
  BY <1>1, <1>3, OwnMountUnmountFailed
<1>4. CASE server_open_state(s)
  BY <1>1, <1>4, OwnOpen
<1>5. CASE \E h \in Handle : server_close_state(s, h)
  BY <1>5, OwnClose
<1>6. CASE server_shutdown_state(s)
  BY <1>1, <1>6, OwnShutdown
<1>7. CASE Continue(s)
  BY <1>1, <1>7, OwnMountUnmountFailed, OwnOpenDone, OwnUnmount, OwnAround DEF Continue
<1> QED BY <1>2, <1>3, <1>4, <1>5, <1>6, <1>7

LEMMA FilesStep == FilesInv /\ [Next]_vars => FilesInv'
<1> SUFFICES ASSUME FilesInv, [Next]_vars PROVE FilesInv'
  OBVIOUS
<1>1. CountInv /\ OwnInv /\ ExitAfterCloses
  BY DEF FilesInv, CountInv, OwnInv
<1>2. CASE Next
  <2>1. CountInv' /\ OwnInv' /\ ExitAfterCloses'
    BY <1>1, <1>2, CountKept, OwnNext, ExitKept
  <2> QED BY <2>1 DEF FilesInv, CountInv, OwnInv
<1>3. CASE UNCHANGED vars
  BY <1>3 DEF FilesInv, TypeOK, FailuresBounded, Failing, FilesCounted, Uncounted, TakenOwned,
              OneOnRecord, OwnFiles, ExitAfterCloses, vars, tables, entries, history, server
<1> QED BY <1>2, <1>3

\* A session's entries that hold one handle and -1 name one handle at most.
LEMMA OwnOnRecord ==
  ASSUME TypeOK, OwnInv
  PROVE  FilesAreOwn
<1> USE DEF OwnInv
<1>1. ASSUME NEW s \in Session PROVE Cardinality(OnRecord(s)) <= 1
  <2>1. CASE OnRecord(s) = {}
    <3>1. Cardinality(OnRecord(s)) = 0
      BY <2>1, FS_EmptySet
    <3> QED BY <3>1
  <2>2. CASE OnRecord(s) # {}
    <3>1. PICK h \in OnRecord(s) : TRUE
      BY <2>2
    <3>2. \A g \in OnRecord(s) : g = h
      BY <3>1 DEF OnRecord, OneOnRecord
    <3>3. OnRecord(s) = {h}
      BY <3>1, <3>2
    <3>4. Cardinality({h}) = 1
      BY FS_Singleton
    <3>5. Cardinality(OnRecord(s)) = 1
      BY <3>3, <3>4
    <3> QED BY <3>5
  <2> QED BY <2>1, <2>2
<1>2. ASSUME ~ robbed, NEW s \in Session, NEW h \in given[s]
      PROVE  h \notin free_open_file_entries /\ opened_by[h] = s
  BY <1>2, FilesAssumption DEF OwnFiles, TakenOwned, TypeOK
<1>3. ASSUME ~ robbed, NEW s \in Session, thread[s].at # "unmounting", NEW h \in OnRecord(s)
      PROVE  h \notin free_open_file_entries /\ opened_by[h] = s
  BY <1>3, FilesAssumption DEF OwnFiles, TakenOwned, OnRecord, TypeOK
<1> QED BY <1>1, <1>2, <1>3 DEF FilesAreOwn

\* The counter, the types and who owns which handle hold together: a shutdown
\* waits for closes because every counted file has an owner.
THEOREM FilesAlwaysHold == Spec => []FilesInv
  BY FilesInit, FilesStep, PTL DEF Spec

\* The handle table, the entries and the counters keep their types; the two
\* unsigned counters stay within their width.
THEOREM FilesTypeCorrect == Spec => []TypeOK
<1>1. FilesInv => TypeOK
  BY DEF FilesInv
<1> QED BY <1>1, FilesAlwaysHold, PTL

\* tfs_open and tfs_close, called by any number of workers, and by the loop of
\* do_unmount several times for one handle, keep open_files of operations.c
\* equal to the TAKEN handles that were counted and the opens that failed.
THEOREM FilesAlwaysCounted == Spec => []FilesCounted
<1>1. FilesInv => FilesCounted
  BY DEF FilesInv
<1> QED BY <1>1, FilesAlwaysHold, PTL

\* A session's entries name one handle at most; and until the loop of
\* do_unmount closes a handle another session took meanwhile, every session has
\* only files it opened, and that are open, on record and with its client.
THEOREM FilesAlwaysOwn == Spec => []FilesAreOwn
<1>1. FilesInv => FilesAreOwn
  BY OwnOnRecord DEF FilesInv, OwnInv
<1> QED BY <1>1, FilesAlwaysHold, PTL

\* tfs_destroy_after_all_closed returns, and the server exits, when no client
\* has a file open, until a session was robbed.
THEOREM ExitWaitsForCloses == Spec => []ExitAfterCloses
<1>1. FilesInv => ExitAfterCloses
  BY DEF FilesInv
<1> QED BY <1>1, FilesAlwaysHold, PTL

-----------------------------------------------------------------------------
(* What the end of a session closes *)

Held(s, h) == \A i \in Entry : open_files[s][i] = h
Named(s) == {i \in Entry : open_files[s][i] # -1}

\* The amount of a session with n entries that name a handle, after e opens: each
\* counts one, and what it wrote into all entries is counted off entry by entry.
Amount(n, e) == (n - e * (MAX_OPEN_FILES - 1)) % SIZE_MOD

\* With entries to clear the amount is not zero.
AmountsApart == MAX_OPEN_FILES # 2 /\ MaxOpens * (MAX_OPEN_FILES - 1) < SIZE_MOD

\* A session without client has given no file, and the main thread waits for one
\* whose client died, whether or not it was ended since.
Left(s) ==
    /\ s \in free_open_session_entries => client[s] = "none"
    /\ client[s] = "none" => given[s] = {}
    /\ main = s => client[s] \in {"dead", "none"}

\* The opens of any session that are recorded, if s has one that is not.
Before(s) == IF thread[s].at = "opening" THEN opens - 1 ELSE opens

\* Outside of do_unmount a session has the handle in all entries that its client
\* was given, or none; and no other file, but for one that is being opened.
Ready(s, h, e) ==
    /\ Held(s, h) /\ given[s] = {h} \ {-1}
    /\ open_files_amount[s] = Amount(IF h = -1 THEN 0 ELSE MAX_OPEN_FILES, e)
    /\ \A g \in Handle :
          opened_by[g] = s => g = h \/ thread[s] = [at |-> "opening", handle |-> g]

\* Within it the file is closed with the first entry that is cleared.
Ending(s, e) ==
    /\ open_files_amount[s] = Amount(Cardinality(Named(s)), e)
    /\ \A g \in Handle : opened_by[g] = s => Held(s, g)

Kept(s) ==
    IF thread[s].at = "unmounting" THEN \E e \in 0 .. opens : Ending(s, e)
    ELSE \E h \in Handle \cup {-1}, e \in 0 .. Before(s) : Ready(s, h, e)

\* Of sessions that had one file open at a time, and were not taken over from
\* the dead.
EndInv ==
    /\ \A s \in Session : Left(s)
    /\ \A s \in Session \ (several \cup reclaimed) : Kept(s)

\* Subtracting commutes with the remainder.
LEMMA CountOff ==
  ASSUME NEW a \in Int, NEW b \in Int, NEW M \in Nat \ {0}
  PROVE  ((a % M) - b) % M = (a - b) % M
<1> DEFINE q == a \div M
           r == a % M
           p == (r - b) \div M
           t == (r - b) % M
<1>1. r \in 0 .. M - 1 /\ q \in Int /\ a = M * q + r
  BY Division
<1>2. r - b \in Int
  BY <1>1
<1>3. t \in 0 .. M - 1 /\ p \in Int /\ r - b = M * p + t
  BY <1>2, Division
<1> HIDE DEF q, r, p, t
<1>4. PICK m \in Int : a - b = M * m + t /\ a - b \in Int
  <2>1. M * (q + p) = M * q + M * p
    BY <1>1, <1>3
  <2>2. M * q \in Int /\ M * p \in Int
    BY <1>1, <1>3
  <2>3. a - b = M * (q + p) + t /\ q + p \in Int /\ a - b \in Int
    BY <1>1, <1>3, <2>1, <2>2
  <2> QED BY <2>3
<1>5. (a - b) % M = t
  BY <1>3, <1>4, Remainder
<1> QED BY <1>5 DEF t, r

\* The amount of a session that has a handle on record is not zero.
LEMMA AmountNotZero ==
  ASSUME AmountsApart, NEW e \in 0 .. MaxOpens
  PROVE  Amount(MAX_OPEN_FILES, e) # 0
<1> DEFINE K == MAX_OPEN_FILES - 1
           p == e * K
<1>1. K \in Nat /\ e \in Nat /\ MaxOpens \in Nat /\ MaxOpens - e \in Nat /\ SIZE_MOD \in Nat \ {0}
  BY FilesAssumption
<1>2. p \in Nat
  BY <1>1
<1>3. p < SIZE_MOD
  <2>1. MaxOpens * K = p + (MaxOpens - e) * K
    BY <1>1
  <2>2. (MaxOpens - e) * K \in Nat
    BY <1>1
  <2> QED BY <1>1, <1>2, <2>1, <2>2 DEF AmountsApart
<1>4. p # MAX_OPEN_FILES
  <2>1. CASE e = 0
    BY <2>1, <1>1, FilesAssumption
  <2>2. CASE e = 1
    BY <2>2, <1>1, FilesAssumption
  <2>3. CASE e >= 2 /\ K = 0
    BY <2>3, <1>1, FilesAssumption
  <2>4. CASE e >= 2 /\ K # 0
    <3>1. e - 2 \in Nat /\ (e - 2) * K \in Nat /\ p = 2 * K + (e - 2) * K
      BY <1>1, <2>4
    <3>2. K >= 2
      BY <1>1, <2>4, FilesAssumption DEF AmountsApart
    <3> QED BY <1>1, <3>1, <3>2, FilesAssumption
  <2> QED BY <1>1, <2>1, <2>2, <2>3, <2>4
<1> HIDE DEF p, K
<1>5. CASE p < MAX_OPEN_FILES
  <2>1. /\ MAX_OPEN_FILES - p \in 1 .. SIZE_MOD - 1 /\ MAX_OPEN_FILES - p \in Int
        /\ MAX_OPEN_FILES - p = SIZE_MOD * 0 + (MAX_OPEN_FILES - p)
    BY <1>1, <1>2, <1>5, FilesAssumption
  <2>2. (MAX_OPEN_FILES - p) % SIZE_MOD = MAX_OPEN_FILES - p
    BY <1>1, <2>1, Remainder
  <2> QED BY <2>1, <2>2 DEF Amount, p, K
<1>6. CASE p > MAX_OPEN_FILES
  <2> DEFINE r == SIZE_MOD + MAX_OPEN_FILES - p
  <2>1. /\ r \in 1 .. SIZE_MOD - 1 /\ MAX_OPEN_FILES - p \in Int
        /\ MAX_OPEN_FILES - p = SIZE_MOD * (-1) + r
    BY <1>1, <1>2, <1>3, <1>6, FilesAssumption
  <2>2. (MAX_OPEN_FILES - p) % SIZE_MOD = r
    BY <1>1, <2>1, Remainder
  <2> QED BY <2>1, <2>2 DEF Amount, p, K
<1> QED BY <1>2, <1>4, <1>5, <1>6, FilesAssumption

\* While no open is under way a session has no file but the one on record.
LEMMA NoOtherFile ==
  ASSUME NEW s \in Session, NEW h, NEW e, Ready(s, h, e), thread[s].at # "opening"
  PROVE  \A g \in Handle : opened_by[g] = s => g = h
<1>1. \A g : [at |-> "opening", handle |-> g].at = "opening"
  OBVIOUS
<1>2. \A g : thread[s] # [at |-> "opening", handle |-> g]
  BY <1>1
<1> QED
  BY <1>2 DEF Ready

\* A session on whose files and worker a step has no effect.
LEMMA KeptAlike ==
  ASSUME TypeOK, NEW u \in Session, Kept(u),
         thread'[u] = thread[u], open_files'[u] = open_files[u],
         open_files_amount'[u] = open_files_amount[u], given'[u] = given[u],
         opens' \in {opens, opens + 1},
         \A g \in Handle : opened_by'[g] = u => opened_by[g] = u
  PROVE  Kept(u)'
<1>1. opens \in Nat
  BY FilesAssumption DEF TypeOK
<1>2. \A h : Held(u, h)' <=> Held(u, h)
  BY DEF Held
<1>3. Cardinality(Named(u)') = Cardinality(Named(u))
  <2>1. Named(u)' = Named(u)
    BY DEF Named
  <2> QED BY <2>1
<1>4. CASE thread[u].at = "unmounting"
  <2>1. PICK e \in 0 .. opens : Ending(u, e)
    BY <1>4 DEF Kept
  <2>2. Ending(u, e)' /\ e \in 0 .. opens'
    BY <1>1, <1>2, <1>3, <2>1 DEF Ending, Amount
  <2> QED BY <1>4, <2>2 DEF Kept
<1>5. CASE thread[u].at # "unmounting"
  <2>1. PICK h \in Handle \cup {-1}, e \in 0 .. Before(u) : Ready(u, h, e)
    BY <1>5 DEF Kept
  <2>2. Ready(u, h, e)'
    BY <1>2, <2>1 DEF Ready, Amount
  <2>3. e \in 0 .. Before(u)'
    BY <1>1, <2>1 DEF Before
  <2> QED BY <1>5, <2>2, <2>3 DEF Kept
<1> QED BY <1>4, <1>5

\* How many entries name a handle.
LEMMA NamedCounted ==
  ASSUME NEW f, NEW h, \A i \in Entry : f[i] = h
  PROVE  Cardinality({i \in Entry : f[i] # -1}) = IF h = -1 THEN 0 ELSE MAX_OPEN_FILES
<1>1. IsFiniteSet(Entry) /\ Cardinality(Entry) = MAX_OPEN_FILES
  BY FS_Interval, FilesAssumption DEF Entry
<1>2. CASE h = -1
  <2>1. {i \in Entry : f[i] # -1} = {}
    BY <1>2
  <2> QED BY <1>2, <2>1, FS_EmptySet
<1>3. CASE h # -1
  <2>1. {i \in Entry : f[i] # -1} = Entry
    BY <1>3
  <2> QED BY <1>1, <1>3, <2>1
<1> QED BY <1>2, <1>3

\* do_unmount enters its loop if there is an entry to clear, since the amount is
\* not zero then.
LEMMA EndsKept ==
  ASSUME AmountsApart, TypeOK, NEW s \in Session, NEW amount \in Nat, do_unmount(s, amount),
         NEW h \in Handle \cup {-1}, NEW e \in Nat, e <= opens', opens' \in 0 .. MaxOpens,
         Held(s, h)', open_files_amount'[s] = amount,
         amount = Amount(IF h = -1 THEN 0 ELSE MAX_OPEN_FILES, e),
         \A g \in Handle : opened_by'[g] = s => g = h
  PROVE  Kept(s)'
<1>1. /\ thread'[s].at = IF amount # 0 THEN "unmounting" ELSE "waiting"
      /\ given'[s] = {}
  BY UnmountMoves DEF TypeOK
<1>2. e \in 0 .. opens' /\ e \in 0 .. MaxOpens
  BY FilesAssumption
<1>3. CASE amount # 0
  <2>1. Cardinality(Named(s)') = IF h = -1 THEN 0 ELSE MAX_OPEN_FILES
    BY NamedCounted DEF Named, Held
  <2>2. Ending(s, e)'
    BY <2>1 DEF Ending, Amount
  <2> QED BY <1>1, <1>2, <1>3, <2>2 DEF Kept
<1>4. CASE amount = 0
  <2>1. h = -1
    BY <1>2, <1>4, AmountNotZero
  <2>2. Ready(s, h, e)'
    BY <1>1, <2>1 DEF Ready, Amount
  <2>3. e \in 0 .. Before(s)'
    BY <1>1, <1>2, <1>4 DEF Before
  <2> QED BY <1>1, <1>4, <2>2, <2>3 DEF Kept
<1> QED BY <1>3, <1>4

\* A step of one session, of its client, or of the main thread with it.
Move(s) ==
    \/ mount_free(s) \/ poll_dead(s) \/ mount_dead(s)
    \/ client_dies(s)
    \/ server_unmount_state(s) \/ server_open_state(s)
    \/ \E h \in Handle : server_close_state(s, h)
    \/ server_shutdown_state(s) \/ shutdown_refused(s)
    \/ Continue(s)

\* The steps that change no worker and no entry.
Outside(s) ==
    \/ mount_free(s) \/ poll_dead(s) \/ mount_dead(s) \/ client_dies(s)
    \/ shutdown_done(s) \/ shutdown_refused(s)

LEMMA UnmountElsewhere ==
  ASSUME TypeOK, NEW s \in Session, NEW amount, do_unmount(s, amount)
  PROVE  \A u \in Session \ {s} : thread'[u] = thread[u] /\ given'[u] = given[u]
  BY DEF do_unmount, Goto, TypeOK

LEMMA CloseElsewhere ==
  ASSUME TypeOK, NEW s \in Session, NEW h \in Handle, tfs_close(h)
  PROVE  \A g \in Handle : opened_by'[g] = s => opened_by[g] = s
  BY FilesAssumption DEF tfs_close, tables, TypeOK

\* No session's step touches another session's worker, entries or client, nor
\* opens a file for it.
LEMMA OthersAlike ==
  ASSUME TypeOK, NEW s \in Session, Move(s), NEW u \in Session \ {s}
  PROVE  /\ thread'[u] = thread[u] /\ open_files'[u] = open_files[u]
         /\ open_files_amount'[u] = open_files_amount[u] /\ given'[u] = given[u]
         /\ opens' \in {opens, opens + 1}
         /\ \A g \in Handle : opened_by'[g] = u => opened_by[g] = u
<1>1. CASE Outside(s)
  BY <1>1 DEF Outside, mount_free, poll_dead, mount_dead, client_dies, shutdown_done,
     shutdown_refused, tables, entries, TypeOK
<1>2. CASE server_mount_state(s) \/ server_unmount_state(s) \/ open_failed(s)
  <2>1. thread'[u] = thread[u] /\ given'[u] = given[u]
    BY <1>2, UnmountElsewhere DEF server_mount_state, server_unmount_state, open_failed
  <2> QED
    BY <1>2, <2>1 DEF server_mount_state, server_unmount_state, open_failed, tables, entries
<1>3. CASE server_open_state(s)
  <2>1. thread'[u] = thread[u] /\ given'[u] = given[u]
    BY <1>3, UnmountElsewhere DEF server_open_state, Goto, TypeOK
  <2>2. \A g \in Handle : opened_by'[g] = u => opened_by[g] = u
    BY <1>3 DEF server_open_state, TypeOK
  <2> QED
    BY <1>3, <2>1, <2>2 DEF server_open_state, entries
<1>4. CASE open_done(s)
  <2>1. thread'[u] = thread[u] /\ given'[u] = given[u]
    BY <1>4, UnmountElsewhere DEF open_done, Goto, TypeOK
  <2> QED
    BY <1>4, <2>1 DEF open_done, record, TypeOK
<1>5. ASSUME NEW h \in Handle, server_close_state(s, h)
      PROVE  /\ thread'[u] = thread[u] /\ open_files'[u] = open_files[u]
             /\ open_files_amount'[u] = open_files_amount[u] /\ given'[u] = given[u]
             /\ opens' = opens
             /\ \A g \in Handle : opened_by'[g] = u => opened_by[g] = u
  <2>1. thread'[u] = thread[u] /\ given'[u] = given[u]
    BY <1>5, UnmountElsewhere DEF server_close_state, TypeOK
  <2>2. \A g \in Handle : opened_by'[g] = u => opened_by[g] = u
    BY <1>5, CloseElsewhere DEF server_close_state, tables
  <2> QED
    BY <1>5, <2>1, <2>2 DEF server_close_state, forget, entries, TypeOK
<1>6. CASE unmount_close(s)
  <2>1. thread'[u] = thread[u] /\ given'[u] = given[u] /\ opens' = opens
        /\ open_files'[u] = open_files[u] /\ open_files_amount'[u] = open_files_amount[u]
    BY <1>6 DEF unmount_close, Goto, entries, TypeOK
  <2>2. ASSUME NEW i \in Entry, open_files[s][i] # -1, tfs_close(open_files[s][i])
        PROVE  \A g \in Handle : opened_by'[g] = u => opened_by[g] = u
    <3>1. open_files[s][i] \in Handle
      BY <2>2 DEF TypeOK
    <3> QED
      BY <2>2, <3>1, CloseElsewhere DEF tables
  <2>3. \A g \in Handle : opened_by'[g] = u => opened_by[g] = u
    BY <1>6, <2>2 DEF unmount_close, IsFirst, tables
  <2> QED
    BY <2>1, <2>3
<1>7. CASE server_shutdown_state(s)
  BY <1>7 DEF server_shutdown_state, Goto, tables, entries, TypeOK
<1> QED
  BY <1>1, <1>2, <1>3, <1>4, <1>5, <1>6, <1>7 DEF Move, Outside, Continue

\* The histories only grow.
LEMMA HistoryGrows ==
  ASSUME NEW s \in Session, Move(s)
  PROVE  several \subseteq several' /\ reclaimed \subseteq reclaimed'
<1>1. CASE Outside(s)
  BY <1>1 DEF Outside, mount_free, poll_dead, mount_dead, client_dies, shutdown_done,
     shutdown_refused, history
<1>2. CASE ~ Outside(s)
  BY <1>2 DEF Move, Outside, Continue, server_mount_state, server_unmount_state, open_failed,
     server_open_state, open_done, server_close_state, unmount_close, server_shutdown_state,
     history
<1> QED
  BY <1>1, <1>2

\* The client of a session that the main thread waits for comes back no more.
LEMMA LeftStays ==
  ASSUME TypeOK, \A u \in Session : Left(u), NEW s \in Session, Move(s)
  PROVE  \A u \in Session : Left(u)'
<1>1. CASE mount_free(s)
  BY <1>1, FilesAssumption DEF mount_free, server, Left, TypeOK
<1>2. CASE poll_dead(s)
  BY <1>2 DEF poll_dead, Left, TypeOK
<1>3. CASE mount_dead(s)
  BY <1>3, FilesAssumption DEF mount_dead, Left, TypeOK
<1>4. CASE client_dies(s) \/ shutdown_done(s) \/ shutdown_refused(s)
  BY <1>4 DEF client_dies, shutdown_done, shutdown_refused, server, Left, TypeOK
<1>5. ASSUME NEW amount, do_unmount(s, amount), UNCHANGED main
      PROVE  \A u \in Session : Left(u)'
  BY <1>5 DEF do_unmount, Left, TypeOK
<1>6. CASE server_mount_state(s) \/ server_unmount_state(s) \/ open_failed(s)
  BY <1>5, <1>6 DEF server_mount_state, server_unmount_state, open_failed, server, Left, TypeOK
<1>7. CASE server_open_state(s)
  BY <1>5, <1>7 DEF server_open_state, server, Left
<1>8. CASE open_done(s)
  BY <1>5, <1>8 DEF open_done, server, Left, TypeOK
<1>9. CASE \E h \in Handle : server_close_state(s, h)
  BY <1>5, <1>9 DEF server_close_state, server, Left, TypeOK
<1>10. CASE unmount_close(s) \/ server_shutdown_state(s)
  BY <1>10 DEF unmount_close, server_shutdown_state, server, Left
<1> QED
  BY <1>1, <1>2, <1>3, <1>4, <1>6, <1>7, <1>8, <1>9, <1>10 DEF Move, Continue

\* The steps of the main thread, of the client and of the exit: a session whose
\* files are left open is remembered.
LEMMA KeptOutside ==
  ASSUME TypeOK, EndInv, NEW s \in Session, Outside(s), s \notin (several \cup reclaimed)'
  PROVE  Kept(s)'
<1>1. s \notin several \cup reclaimed
  <2>1. Move(s)
    BY DEF Outside, Move, Continue
  <2> QED
    BY <2>1, HistoryGrows
<1>2. /\ thread' = thread /\ open_files' = open_files /\ opened_by' = opened_by
      /\ open_files_amount' = open_files_amount /\ opens' = opens
  BY DEF Outside, mount_free, poll_dead, mount_dead, client_dies, shutdown_done,
     shutdown_refused, tables, entries
<1>3. given'[s] = given[s]
  <2>1. CASE mount_dead(s)
    <3>1. main = s /\ client[s] # "dead" /\ given' = [given EXCEPT ![s] = {}]
      BY <2>1 DEF mount_dead
    <3> QED
      BY <3>1 DEF EndInv, Left, TypeOK
  <2> QED
    BY <2>1 DEF Outside, mount_free, poll_dead, client_dies, shutdown_done, shutdown_refused
<1> QED
  BY <1>1, <1>2, <1>3, KeptAlike DEF EndInv

\* A session that ends while no open of its is under way.
LEMMA EndsAsItIs ==
  ASSUME AmountsApart, TypeOK, NEW s \in Session, Kept(s), opens' \in 0 .. MaxOpens,
         opens <= opens', thread[s].at # "unmounting",
         \A g \in Handle : thread[s] # [at |-> "opening", handle |-> g],
         do_unmount(s, open_files_amount[s]), UNCHANGED <<open_files, open_files_amount>>,
         \A g \in Handle : opened_by'[g] = s => opened_by[g] = s
  PROVE  Kept(s)'
<1>1. PICK h \in Handle \cup {-1}, e \in 0 .. Before(s) : Ready(s, h, e)
  BY DEF Kept
<1>2. opens \in Nat /\ open_files_amount[s] \in Nat
  BY FilesAssumption DEF TypeOK
<1>3. e \in Nat /\ e <= opens'
  BY <1>1, <1>2, FilesAssumption DEF Before
<1>4. Held(s, h)'
  BY <1>1 DEF Ready, Held
<1>5. \A g \in Handle : opened_by'[g] = s => g = h
  BY <1>1 DEF Ready
<1>6. /\ open_files_amount'[s] = open_files_amount[s]
      /\ open_files_amount[s] = Amount(IF h = -1 THEN 0 ELSE MAX_OPEN_FILES, e)
  BY <1>1 DEF Ready
<1> QED
  BY <1>2, <1>3, <1>4, <1>5, <1>6, EndsKept

LEMMA KeptMountUnmountFailed ==
  ASSUME AmountsApart, TypeOK, NEW s \in Session, Kept(s),
         server_mount_state(s) \/ server_unmount_state(s) \/ open_failed(s)
  PROVE  Kept(s)'
<1>1. /\ thread[s].at # "unmounting" /\ UNCHANGED <<entries, opened_by, opens>>
      /\ \A g \in Handle : thread[s] # [at |-> "opening", handle |-> g]
  BY DEF server_mount_state, server_unmount_state, open_failed, At, Handle, tables
<1>2. CASE do_unmount(s, open_files_amount[s])
  BY <1>1, <1>2, EndsAsItIs, FilesAssumption DEF entries, TypeOK
<1>3. CASE UNCHANGED <<thread, given>>
  BY <1>1, <1>3, KeptAlike DEF entries
<1> QED
  BY <1>2, <1>3 DEF server_mount_state, server_unmount_state, open_failed

\* An open under way has no effect on the entries yet.
LEMMA KeptOpen ==
  ASSUME AmountsApart, TypeOK, TypeOK', NEW s \in Session, Kept(s), server_open_state(s)
  PROVE  Kept(s)'
<1>1. /\ thread[s].at = "waiting" /\ opens' = opens + 1 /\ opens' \in 0 .. MaxOpens
      /\ opens \in Nat /\ UNCHANGED <<open_files, open_files_amount>>
  BY FilesAssumption DEF server_open_state, At, entries, TypeOK
<1>2. CASE do_unmount(s, open_files_amount[s]) /\ UNCHANGED opened_by
  BY <1>1, <1>2, EndsAsItIs
<1>3. ASSUME NEW k \in Handle \cup {-1}, Goto(s, "opening", k), UNCHANGED given,
             \A g \in Handle : opened_by'[g] = s => opened_by[g] = s \/ g = k
      PROVE  Kept(s)'
  <2>1. thread'[s] = [at |-> "opening", handle |-> k]
    BY <1>3 DEF Goto, TypeOK
  <2>2. PICK h \in Handle \cup {-1}, e \in 0 .. opens : Ready(s, h, e)
    BY <1>1 DEF Kept, Before
  <2>3. \A g \in Handle : opened_by'[g] = s =>
           g = h \/ thread'[s] = [at |-> "opening", handle |-> g]
    <3>1. \A g \in Handle : opened_by[g] = s => g = h
      BY <1>1, <2>2, NoOtherFile
    <3> QED
      BY <1>3, <2>1, <3>1
  <2>4. Ready(s, h, e)'
    BY <1>1, <1>3, <2>2, <2>3 DEF Ready, Held, Amount
  <2>5. e \in 0 .. Before(s)'
    BY <1>1, <2>1, <2>2 DEF Before
  <2> QED
    BY <2>1, <2>4, <2>5 DEF Kept
<1>4. ASSUME NEW k \in Handle, opened_by' = [opened_by EXCEPT ![k] = s]
      PROVE  \A g \in Handle : opened_by'[g] = s => opened_by[g] = s \/ g = k
  BY <1>4 DEF TypeOK
<1> QED
  BY <1>2, <1>3, <1>4 DEF server_open_state

\* A file that is opened while the session has no other is recorded in every
\* entry, and counted once.
LEMMA KeptOpenDone ==
  ASSUME AmountsApart, TypeOK, TypeOK', NEW s \in Session, Kept(s), open_done(s),
         s \notin several'
  PROVE  Kept(s)'
<1>1. PICK k \in Handle : /\ thread[s].at = "opening" /\ thread[s].handle = k
                          /\ k # -1 /\ record(s, k)
                          /\ UNCHANGED <<opened_by, opens>> /\ given[s] = {}
                          /\ opens \in Nat /\ opens \in 0 .. MaxOpens
  BY FilesAssumption DEF open_done, At, TypeOK
<1>2. PICK h \in Handle \cup {-1}, e \in 0 .. opens - 1 : Ready(s, h, e)
  BY <1>1 DEF Kept, Before
<1>3. h = -1
  BY <1>1, <1>2 DEF Ready
<1>4. Held(s, k)'
  BY <1>1, <1>2, <1>3 DEF Ready, Held, record, TypeOK
<1>5. open_files_amount'[s] = Amount(MAX_OPEN_FILES, e + 1)
  <2> DEFINE p == e * (MAX_OPEN_FILES - 1)
  <2>1. p \in Int /\ SIZE_MOD \in Nat \ {0}
    BY FilesAssumption
  <2>2. open_files_amount'[s] = (((0 - p) % SIZE_MOD) + 1) % SIZE_MOD
    BY <1>1, <1>2, <1>3 DEF Ready, Amount, record, TypeOK
  <2>3. (((0 - p) % SIZE_MOD) + 1) % SIZE_MOD = ((0 - p) + 1) % SIZE_MOD
    BY <2>1, CountUp
  <2>4. (0 - p) + 1 = MAX_OPEN_FILES - (e + 1) * (MAX_OPEN_FILES - 1)
    <3>1. (e + 1) * (MAX_OPEN_FILES - 1) = p + (MAX_OPEN_FILES - 1)
      BY FilesAssumption
    <3> QED
      BY <2>1, <3>1, FilesAssumption
  <2> QED
    BY <2>2, <2>3, <2>4 DEF Amount
<1>6. ASSUME NEW g \in Handle, opened_by'[g] = s PROVE g = k
  <2>1. g # -1
    BY DEF Handle
  <2>2. opened_by[g] = s
    BY <1>1, <1>6
  <2>3. g = h \/ thread[s] = [at |-> "opening", handle |-> g]
    BY <1>2, <2>2 DEF Ready
  <2> QED
    BY <1>1, <1>3, <2>1, <2>3
<1>7. CASE given' = [given EXCEPT ![s] = @ \cup {k}] /\ Goto(s, "waiting", -1)
  <2>1. thread'[s].at = "waiting" /\ given'[s] = {k}
    BY <1>1, <1>7 DEF Goto, TypeOK
  <2>2. Ready(s, k, e + 1)'
    BY <1>1, <1>4, <1>5, <1>6, <2>1 DEF Ready, Amount
  <2>3. e + 1 \in 0 .. Before(s)'
    BY <1>1, <2>1 DEF Before
  <2> QED
    BY <1>1, <2>1, <2>2, <2>3 DEF Kept
<1>8. CASE do_unmount(s, open_files_amount'[s])
  <2>1. open_files_amount'[s] \in Nat /\ e + 1 \in Nat /\ e + 1 <= opens'
        /\ opens' \in 0 .. MaxOpens
    BY <1>1, FilesAssumption DEF TypeOK
  <2> QED
    BY <1>1, <1>4, <1>5, <1>6, <1>8, <2>1, EndsKept
<1> QED
  BY <1>1, <1>7, <1>8 DEF open_done

\* A close counts off every entry that named the handle.
LEMMA KeptClose ==
  ASSUME AmountsApart, TypeOK, TypeOK', TakenOwned, NEW s \in Session, Kept(s),
         NEW k \in Handle, server_close_state(s, k)
  PROVE  Kept(s)'
<1>1. /\ thread[s].at = "waiting" /\ k \in given[s] /\ tfs_close(k) /\ UNCHANGED opens
      /\ opens \in Nat /\ opens \in 0 .. MaxOpens /\ k # -1
  BY FilesAssumption DEF server_close_state, At, TypeOK, Handle
<1>2. CASE k \in free_open_file_entries
  <2>1. /\ do_unmount(s, open_files_amount[s]) /\ UNCHANGED <<open_files, open_files_amount>>
        /\ UNCHANGED opened_by
    BY <1>2 DEF server_close_state, tfs_close, tables, entries
  <2> QED
    BY <1>1, <2>1, EndsAsItIs
<1>3. CASE k \notin free_open_file_entries
  <2>1. /\ forget(s, k) /\ opened_by' = [opened_by EXCEPT ![k] = NoSession]
    BY <1>3 DEF server_close_state, tfs_close
  <2>2. PICK h \in Handle \cup {-1}, e \in 0 .. opens : Ready(s, h, e)
    BY <1>1 DEF Kept, Before
  <2>3. h = k
    BY <1>1, <2>2 DEF Ready
  <2>4. Held(s, -1)'
    BY <2>1, <2>2, <2>3 DEF Ready, Held, forget, TypeOK
  <2>5. open_files_amount'[s] = Amount(0, e)
    <3> DEFINE p == e * (MAX_OPEN_FILES - 1)
    <3>1. Recorded(s, k) = Entry
      BY <2>2, <2>3 DEF Ready, Held, Recorded
    <3>2. Cardinality(Recorded(s, k)) = MAX_OPEN_FILES
      BY <3>1, FS_Interval, FilesAssumption DEF Entry
    <3>3. open_files_amount'[s]
            = (((MAX_OPEN_FILES - p) % SIZE_MOD) - MAX_OPEN_FILES) % SIZE_MOD
      BY <1>1, <2>1, <2>2, <2>3, <3>2 DEF forget, Ready, Amount, TypeOK
    <3>4. p \in Int /\ MAX_OPEN_FILES - p \in Int /\ MAX_OPEN_FILES \in Int
          /\ SIZE_MOD \in Nat \ {0}
      BY FilesAssumption
    <3>5. open_files_amount'[s] = ((MAX_OPEN_FILES - p) - MAX_OPEN_FILES) % SIZE_MOD
      BY <3>3, <3>4, CountOff
    <3>6. (MAX_OPEN_FILES - p) - MAX_OPEN_FILES = 0 - p
      BY <3>4
    <3> QED
      BY <3>5, <3>6 DEF Amount
  <2>6. \A g \in Handle : opened_by'[g] # s
    <3>1. thread[s].at # "opening"
      BY <1>1
    <3>2. \A g \in Handle : opened_by[g] = s => g = k
      BY <2>2, <2>3, <3>1, NoOtherFile
    <3>3. opened_by'[k] = NoSession
          /\ \A g \in Handle \ {k} : opened_by'[g] = opened_by[g]
      BY <2>1 DEF TypeOK
    <3> QED
      BY <3>2, <3>3, FilesAssumption
  <2>7. CASE given' = [given EXCEPT ![s] = @ \ {k}] /\ UNCHANGED thread
    <3>1. given'[s] = {}
      BY <2>2, <2>3, <2>7 DEF Ready, TypeOK
    <3>2. Ready(s, -1, e)'
      BY <2>4, <2>5, <2>6, <3>1 DEF Ready, Amount
    <3>3. e \in 0 .. Before(s)'
      BY <1>1, <2>7 DEF Before
    <3> QED
      BY <1>1, <2>7, <3>2, <3>3 DEF Kept
  <2>8. CASE do_unmount(s, open_files_amount'[s])
    <3>1. open_files_amount'[s] \in Nat /\ e \in Nat /\ e <= opens'
      BY <1>1, FilesAssumption DEF TypeOK
    <3>2. open_files_amount'[s] = Amount(IF -1 = -1 THEN 0 ELSE MAX_OPEN_FILES, e)
          /\ -1 \in Handle \cup {-1}
      BY <2>5
    <3> QED
      BY <1>1, <2>4, <2>6, <2>8, <3>1, <3>2, EndsKept
  <2> QED
    BY <1>3, <2>7, <2>8 DEF server_close_state
<1> QED
  BY <1>2, <1>3

\* A turn of the loop closes the handle, if it was not closed before, and counts
\* off one entry; after the last no entry names one.
LEMMA KeptUnmount ==
  ASSUME TypeOK, TypeOK', TakenOwned, OwnFiles, NEW s \in Session, Kept(s), unmount_close(s)
  PROVE  Kept(s)'
<1>1. /\ thread[s].at = "unmounting" /\ given[s] = {} /\ UNCHANGED <<given, opens>>
      /\ opens \in Nat
  BY FilesAssumption DEF unmount_close, At, OwnFiles, TypeOK
<1>2. PICK e \in 0 .. opens : Ending(s, e)
  BY <1>1 DEF Kept
<1>3. ASSUME NEW i \in Entry, NEW k \in Handle, k = open_files[s][i], tfs_close(k),
             open_files' = [open_files EXCEPT ![s][i] = -1],
             open_files_amount' = [open_files_amount EXCEPT ![s] = (@ - 1) % SIZE_MOD],
             UNCHANGED thread
      PROVE  Kept(s)'
  <2> DEFINE n == Cardinality(Named(s))
             p == e * (MAX_OPEN_FILES - 1)
  <2>1. k # -1
    BY DEF Handle
  <2>2. IsFiniteSet(Named(s))
    <3>1. IsFiniteSet(Entry) /\ Named(s) \subseteq Entry
      BY FS_Interval, FilesAssumption DEF Entry, Named
    <3> QED
      BY <3>1, FS_Subset
  <2>3. n \in Nat
    BY <2>2, FS_CardinalityType
  <2>4. Cardinality(Named(s)') = n - 1
    <3>1. Named(s)' = Named(s) \ {i} /\ i \in Named(s)
      BY <1>3, <2>1 DEF Named, TypeOK
    <3> QED
      BY <2>2, <3>1, OneDown
  <2>5. open_files_amount'[s] = ((n - 1) - p) % SIZE_MOD
    <3>1. n - p \in Int /\ p \in Int /\ SIZE_MOD \in Nat \ {0}
      BY <2>3, FilesAssumption
    <3>2. open_files_amount'[s] = (((n - p) % SIZE_MOD) - 1) % SIZE_MOD
      BY <1>2, <1>3 DEF Ending, Amount, TypeOK
    <3>3. (((n - p) % SIZE_MOD) - 1) % SIZE_MOD = ((n - p) - 1) % SIZE_MOD
      BY <3>1, CountDown
    <3>4. (n - p) - 1 = (n - 1) - p
      BY <2>3, <3>1
    <3> QED
      BY <3>2, <3>3, <3>4
  <2>6. \A g \in Handle : opened_by'[g] # s
    <3>1. \A g \in Handle : opened_by[g] = s => g = k
      BY <1>2, <1>3 DEF Ending, Held
    <3>2. opened_by'[k] # s
      BY <1>3, FilesAssumption DEF tfs_close, tables, TakenOwned, TypeOK
    <3> QED
      BY <1>3, <3>1, <3>2, CloseElsewhere
  <2>7. Ending(s, e)'
    BY <2>4, <2>5, <2>6 DEF Ending, Amount
  <2> QED
    BY <1>1, <1>3, <2>7 DEF Kept
<1>4. CASE /\ Recorded(s, -1) = Entry
           /\ Goto(s, "waiting", -1)
           /\ UNCHANGED <<tables, entries, robbed>>
  <2>1. Held(s, -1)
    BY <1>4 DEF Recorded, Held
  <2>2. Cardinality(Named(s)) = 0
    <3>1. \A i \in Entry : open_files[s][i] = -1
      BY <2>1 DEF Held
    <3> QED
      BY <3>1, NamedCounted DEF Named
  <2>3. \A g \in Handle : opened_by[g] # s
    <3>1. 0 \in Entry /\ -1 \notin Handle
      BY FilesAssumption DEF Entry, Handle
    <3> QED
      BY <1>2, <2>1, <3>1 DEF Ending, Held
  <2>4. thread'[s].at = "waiting" /\ given'[s] = {}
    BY <1>1, <1>4 DEF Goto, TypeOK
  <2>5. Held(s, -1)' /\ open_files_amount'[s] = Amount(0, e)
    BY <1>2, <1>4, <2>1, <2>2 DEF Ending, Held, entries
  <2>6. Ready(s, -1, e)'
    BY <1>4, <2>3, <2>4, <2>5 DEF Ready, Amount, tables
  <2>7. e \in 0 .. Before(s)'
    BY <1>1, <2>4 DEF Before
  <2> QED
    BY <2>4, <2>6, <2>7 DEF Kept
<1>5. \A i \in Entry : open_files[s][i] # -1 => open_files[s][i] \in Handle
  BY DEF TypeOK
<1> QED
  BY <1>3, <1>4, <1>5 DEF unmount_close, IsFirst

\* What a worker that waits for the files to be closed has on record stays.
LEMMA KeptShutdown ==
  ASSUME TypeOK, NEW s \in Session, Kept(s), server_shutdown_state(s)
  PROVE  Kept(s)'
<1>1. /\ thread[s].at = "waiting" /\ thread'[s].at = "destroying"
      /\ UNCHANGED <<open_files, open_files_amount, opened_by, given, opens>>
  BY DEF server_shutdown_state, At, Goto, tables, entries, TypeOK
<1>2. PICK h \in Handle \cup {-1}, e \in 0 .. opens : Ready(s, h, e)
  BY <1>1 DEF Kept, Before
<1>3. Ready(s, h, e)'
  <2>1. \A g \in Handle : opened_by'[g] = s => g = h
    BY <1>1, <1>2, NoOtherFile
  <2> QED
    BY <1>1, <1>2, <2>1 DEF Ready, Held, Amount
<1>4. e \in 0 .. Before(s)'
  BY <1>1 DEF Before
<1> QED
  BY <1>1, <1>3, <1>4 DEF Kept

-----------------------------------------------------------------------------

\* At first no session has a file.
LEMMA EndInit == Init => EndInv
<1> SUFFICES ASSUME Init PROVE EndInv
  OBVIOUS
<1>1. \A s \in Session : Left(s)
  BY FilesAssumption DEF Init, Left
<1>2. ASSUME NEW s \in Session PROVE Kept(s)
  <2>1. thread[s].at = "waiting" /\ given[s] = {} /\ Held(s, -1)
        /\ \A g \in Handle : opened_by[g] # s
    BY FilesAssumption DEF Init, Held
  <2>2. open_files_amount[s] = Amount(0, 0)
    <3>1. 0 - 0 * (MAX_OPEN_FILES - 1) = 0
      BY FilesAssumption
    <3>2. 0 % SIZE_MOD = 0
      <4>1. 0 = SIZE_MOD * 0 + 0 /\ 0 \in 0 .. SIZE_MOD - 1 /\ SIZE_MOD \in Nat \ {0}
        BY FilesAssumption
      <4> QED
        BY <4>1, Remainder
    <3> QED
      BY <3>1, <3>2 DEF Init, Amount
  <2>3. Ready(s, -1, 0)
    BY <2>1, <2>2 DEF Ready
  <2>4. 0 \in 0 .. Before(s)
    BY <2>1 DEF Init, Before
  <2> QED
    BY <2>1, <2>3, <2>4 DEF Kept
<1> QED
  BY <1>1, <1>2 DEF EndInv

\* Every step keeps it.
LEMMA EndNext ==
  ASSUME AmountsApart, FilesInv, EndInv, [Next]_vars
  PROVE  EndInv'
<1>1. CountInv /\ OwnInv /\ TypeOK /\ TakenOwned /\ OwnFiles
  BY DEF FilesInv, CountInv, OwnInv
<1>2. ASSUME NEW s \in Session, Move(s) PROVE EndInv'
  <2>1. TypeOK'
    <3>1. Next
      BY <1>2 DEF Next, Move
    <3> QED
      BY <1>1, <3>1, CountKept DEF CountInv
  <2>2. \A u \in Session : Left(u)'
    BY <1>1, <1>2, LeftStays DEF EndInv
  <2>3. several \subseteq several' /\ reclaimed \subseteq reclaimed'
    BY <1>2, HistoryGrows
  <2>4. ASSUME NEW u \in Session \ {s}, u \notin (several \cup reclaimed)'
        PROVE  Kept(u)'
    <3>1. Kept(u)
      BY <2>3, <2>4 DEF EndInv
    <3> QED
      BY <1>1, <1>2, <3>1, OthersAlike, KeptAlike
  <2>5. ASSUME s \notin (several \cup reclaimed)'
        PROVE  Kept(s)'
    <3>1. Kept(s)
      BY <2>3, <2>5 DEF EndInv
    <3>2. CASE Outside(s)
      BY <1>1, <2>5, <3>2, KeptOutside
    <3>3. CASE server_mount_state(s) \/ server_unmount_state(s) \/ open_failed(s)
      BY <1>1, <3>1, <3>3, KeptMountUnmountFailed
    <3>4. CASE server_open_state(s)
      BY <1>1, <2>1, <3>1, <3>4, KeptOpen
    <3>5. CASE open_done(s)
      BY <1>1, <2>1, <2>5, <3>1, <3>5, KeptOpenDone
    <3>6. CASE \E h \in Handle : server_close_state(s, h)
      BY <1>1, <2>1, <3>1, <3>6, KeptClose
    <3>7. CASE unmount_close(s)
      BY <1>1, <2>1, <3>1, <3>7, KeptUnmount
    <3>8. CASE server_shutdown_state(s)
      BY <1>1, <3>1, <3>8, KeptShutdown
    <3> QED
      BY <1>2, <3>2, <3>3, <3>4, <3>5, <3>6, <3>7, <3>8 DEF Move, Outside, Continue
  <2> QED
    BY <2>2, <2>4, <2>5 DEF EndInv
<1>3. CASE UNCHANGED vars
  <2>1. \A s \in Session : Left(s)'
    BY <1>3 DEF EndInv, Left, vars, server
  <2>2. ASSUME NEW s \in Session, Kept(s) PROVE Kept(s)'
    BY <1>1, <1>3, <2>2, KeptAlike DEF vars, tables, entries
  <2> QED
    BY <1>3, <2>1, <2>2 DEF EndInv, vars, history
<1> QED
  BY <1>2, <1>3 DEF Next, Move

\* A session that ended has no file open, unless it had two at once or was taken
\* over from the dead: its open wrote the handle into every entry, so its end
\* closes it with the first entry it clears, and it does clear them, because the
\* amount is zero only when no entry names a handle.  The hypotheses say when
\* that is so: with two entries the amount is zero at the second open, and the
\* 20 entries of the code need more than 2^64 / 19 opens.
THEOREM EndsCloseFiles ==
  ASSUME MAX_OPEN_FILES # 2, MaxOpens * (MAX_OPEN_FILES - 1) < SIZE_MOD
  PROVE  Spec => []EndClosesFiles
<1>1. FilesInv /\ EndInv => EndClosesFiles
  <2> SUFFICES ASSUME FilesInv, EndInv,
                      NEW s \in free_open_session_entries \ (several \cup reclaimed),
                      thread[s].at = "waiting", NEW g \in Handle, opened_by[g] = s
               PROVE  FALSE
    BY DEF EndClosesFiles
  <2>1. s \in Session /\ Kept(s) /\ given[s] = {}
    BY DEF FilesInv, TypeOK, EndInv, Left
  <2>2. PICK h \in Handle \cup {-1}, e \in 0 .. Before(s) : Ready(s, h, e)
    BY <2>1 DEF Kept
  <2>3. h = -1
    BY <2>1, <2>2 DEF Ready
  <2>4. g # -1
    BY DEF Handle
  <2>5. g = h
    BY <2>1, <2>2, NoOtherFile
  <2> QED
    BY <2>3, <2>4, <2>5
<1>2. FilesInv /\ EndInv /\ [Next]_vars => EndInv'
  BY EndNext DEF AmountsApart
<1> QED
  BY <1>1, <1>2, EndInit, FilesInit, FilesStep, PTL DEF Spec
=============================================================================
