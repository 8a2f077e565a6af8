--------------------------- MODULE ExecGateProofs ---------------------------
(***************************************************************************)
(* For every number of threads and handles: open_files is exact, and the   *)
(* tables are destroyed only after every returned handle was closed.       *)
(***************************************************************************)
EXTENDS ExecGate, FiniteSetTheorems, TLAPS

\* The bound on failures leaves room for the opens under way, and a failed
\* open on its way to be counted has failed.
FailuresBounded ==
    /\ failed + Cardinality(Opening) <= MaxFailed
    /\ Cardinality(Failing) <= failed

\* A handle between the table and its caller: being returned, or being closed.
InHand(t) == pc[t] = "close" \/ (pc[t] = "open_count" /\ arg[t] # -1)

\* No handle is in two places, so adding one to held adds one to the count.
HandlesApart ==
    /\ held \subseteq taken
    /\ \A t \in Thread : InHand(t) => arg[t] \in taken \ held
    /\ \A t, u \in Thread : InHand(t) /\ InHand(u) /\ arg[t] = arg[u] => t = u

\* From the moment it finds no file open until tfs_destroy returns, the
\* destroying thread holds the mutex the count is kept under.
DestroyerAlone ==
    \A d \in Thread :
      /\ pc[d] \in {"destroy", "destroy_failed"} => tfs_exec_allowed = d
      /\ pc[d] = "destroy" => open_files = 0

GateInv == TypeOK /\ CountExact /\ FailuresBounded /\ HandlesApart /\ DestroyerAlone

-----------------------------------------------------------------------------

\* Adding or removing one element moves the cardinality by at most one.
LEMMA OneMore ==
  ASSUME NEW S, IsFiniteSet(S), NEW x
  PROVE  /\ Cardinality(S) \in Nat
         /\ IsFiniteSet(S \cup {x}) /\ IsFiniteSet(S \ {x})
         /\ Cardinality(S \cup {x}) = IF x \in S THEN Cardinality(S) ELSE Cardinality(S) + 1
         /\ Cardinality(S \ {x}) = IF x \in S THEN Cardinality(S) - 1 ELSE Cardinality(S)
  BY FS_AddElement, FS_RemoveElement, FS_CardinalityType

\* The sets of threads and handles that are counted are finite.
LEMMA CountedFinite ==
  ASSUME TypeOK
  PROVE  /\ IsFiniteSet(Closing) /\ IsFiniteSet(Opening)
         /\ IsFiniteSet(Failing) /\ IsFiniteSet(held)
  BY FS_Subset, GateAssumption DEF TypeOK, Closing, Opening, Failing

\* What a step of thread t to another label does to those sets.
LEMMA LabelMoves ==
  ASSUME TypeOK, NEW t \in Thread, NEW label \in PC, Goto(t, label),
         \A u \in Thread \ {t} : arg'[u] = arg[u]
  PROVE  /\ Closing' = IF label \in {"close", "close_count"}
                       THEN Closing \cup {t} ELSE Closing \ {t}
         /\ Opening' = IF label \in {"open_lock", "open"}
                       THEN Opening \cup {t} ELSE Opening \ {t}
         /\ Failing' = IF label = "open_count" /\ arg'[t] = -1
                       THEN Failing \cup {t} ELSE Failing \ {t}
         /\ pc' \in [Thread -> PC] /\ pc'[t] = label
         /\ \A u \in Thread \ {t} : pc'[u] = pc[u]
<1>1. /\ pc' \in [Thread -> PC] /\ pc'[t] = label
      /\ \A u \in Thread \ {t} : pc'[u] = pc[u]
  BY DEF TypeOK, Goto
<1>2. Closing' = IF label \in {"close", "close_count"}
                 THEN Closing \cup {t} ELSE Closing \ {t}
  BY <1>1 DEF Closing
<1>3. Opening' = IF label \in {"open_lock", "open"}
                 THEN Opening \cup {t} ELSE Opening \ {t}
  BY <1>1 DEF Opening
<1>4. Failing' = IF label = "open_count" /\ arg'[t] = -1
                 THEN Failing \cup {t} ELSE Failing \ {t}
  BY <1>1 DEF Failing
<1> QED
  BY <1>1, <1>2, <1>3, <1>4

\* What the label of a thread says of the sets it is counted in.
LEMMA LabelCounts ==
  ASSUME NEW t \in Thread
  PROVE  /\ t \in Closing <=> pc[t] \in {"close", "close_count"}
         /\ t \in Opening <=> pc[t] \in {"open_lock", "open"}
         /\ t \in Failing <=> pc[t] = "open_count" /\ arg[t] = -1
  BY DEF Closing, Opening, Failing

\* The state tfs_init leaves.
LEMMA InitGate == Init => GateInv
<1> SUFFICES ASSUME Init PROVE GateInv
  OBVIOUS
<1>1. Closing = {} /\ Opening = {} /\ Failing = {} /\ held = {}
  BY DEF Init, Closing, Opening, Failing
<1>2. Cardinality({}) = 0
  BY FS_EmptySet
<1>3. TypeOK
  BY GateAssumption DEF Init, TypeOK, PC
<1>4. CountExact /\ FailuresBounded
  BY <1>1, <1>2, GateAssumption DEF Init, CountExact, FailuresBounded
<1>5. HandlesApart /\ DestroyerAlone
  BY DEF Init, HandlesApart, InHand, DestroyerAlone
<1> QED
  BY <1>3, <1>4, <1>5 DEF GateInv

\* The same in numbers.
LEMMA CountMoves ==
  ASSUME TypeOK, NEW t \in Thread, NEW label \in PC, Goto(t, label),
         \A u \in Thread \ {t} : arg'[u] = arg[u]
  PROVE  /\ Cardinality(Closing) \in Nat /\ Cardinality(Opening) \in Nat
         /\ Cardinality(Failing) \in Nat /\ Cardinality(held) \in Nat
         /\ Cardinality(Closing') = Cardinality(Closing)
              + (IF label \in {"close", "close_count"} THEN 1 ELSE 0)
              - (IF pc[t] \in {"close", "close_count"} THEN 1 ELSE 0)
         /\ Cardinality(Opening') = Cardinality(Opening)
              + (IF label \in {"open_lock", "open"} THEN 1 ELSE 0)
              - (IF pc[t] \in {"open_lock", "open"} THEN 1 ELSE 0)
         /\ Cardinality(Failing') = Cardinality(Failing)
              + (IF label = "open_count" /\ arg'[t] = -1 THEN 1 ELSE 0)
              - (IF pc[t] = "open_count" /\ arg[t] = -1 THEN 1 ELSE 0)
<1> DEFINE Moved(S, T, into, from) ==
      /\ IsFiniteSet(S)
      /\ T = IF into THEN S \cup {t} ELSE S \ {t}
      /\ t \in S <=> from
<1>1. ASSUME NEW S, NEW T, NEW into \in BOOLEAN, NEW from \in BOOLEAN,
             Moved(S, T, into, from)
      PROVE  /\ Cardinality(S) \in Nat
             /\ Cardinality(T) = Cardinality(S) + (IF into THEN 1 ELSE 0)
                                                - (IF from THEN 1 ELSE 0)
  <2>1. /\ Cardinality(S) \in Nat
        /\ Cardinality(S \cup {t}) = IF t \in S THEN Cardinality(S) ELSE Cardinality(S) + 1
        /\ Cardinality(S \ {t}) = IF t \in S THEN Cardinality(S) - 1 ELSE Cardinality(S)
    BY <1>1, OneMore
  <2> QED
    BY <1>1, <2>1
<1>2. Moved(Closing, Closing', label = "close" \/ label = "close_count",
            pc[t] = "close" \/ pc[t] = "close_count")
  BY CountedFinite, LabelMoves, LabelCounts
<1>3. Moved(Opening, Opening', label = "open_lock" \/ label = "open",
            pc[t] = "open_lock" \/ pc[t] = "open")
  BY CountedFinite, LabelMoves, LabelCounts
<1>4. Moved(Failing, Failing', label = "open_count" /\ arg'[t] = -1,
            pc[t] = "open_count" /\ arg[t] = -1)
  BY CountedFinite, LabelMoves, LabelCounts
<1>5. Cardinality(held) \in Nat
  BY CountedFinite, OneMore
<1>6. /\ Cardinality(Closing) \in Nat
      /\ Cardinality(Closing') = Cardinality(Closing)
              + (IF label = "close" \/ label = "close_count" THEN 1 ELSE 0)
              - (IF pc[t] = "close" \/ pc[t] = "close_count" THEN 1 ELSE 0)
  <2> HIDE DEF Moved
  <2> QED
    BY <1>1, <1>2
<1>7. /\ Cardinality(Opening) \in Nat
      /\ Cardinality(Opening') = Cardinality(Opening)
              + (IF label = "open_lock" \/ label = "open" THEN 1 ELSE 0)
              - (IF pc[t] = "open_lock" \/ pc[t] = "open" THEN 1 ELSE 0)
  <2> HIDE DEF Moved
  <2> QED
    BY <1>1, <1>3
<1>8. /\ Cardinality(Failing) \in Nat
      /\ Cardinality(Failing') = Cardinality(Failing)
              + (IF label = "open_count" /\ arg'[t] = -1 THEN 1 ELSE 0)
              - (IF pc[t] = "open_count" /\ arg[t] = -1 THEN 1 ELSE 0)
  <2> HIDE DEF Moved
  <2> QED
    BY <1>1, <1>4
<1> QED
  BY <1>5, <1>6, <1>7, <1>8

\* A step that leaves handles and counts alone and goes from one uncounted
\* label to another (or between labels counted alike).
LEMMA QuietStep ==
  ASSUME GateInv, NEW t \in Thread, NEW label \in PC, Goto(t, label),
         UNCHANGED <<open_files, taken, arg, held, failed>>,
         pc[t] \notin {"open", "open_lock", "open_count", "close", "close_count"},
         label \notin {"open", "open_lock", "open_count", "close", "close_count"}
  PROVE  CountExact' /\ FailuresBounded' /\ HandlesApart'
<1>1. /\ Closing' = Closing /\ Opening' = Opening /\ Failing' = Failing
      /\ pc'[t] = label /\ \A u \in Thread \ {t} : pc'[u] = pc[u]
  BY LabelMoves, LabelCounts DEF GateInv
<1>2. CountExact' /\ FailuresBounded'
  BY <1>1 DEF GateInv, CountExact, FailuresBounded
<1>3. HandlesApart'
  BY <1>1 DEF GateInv, HandlesApart, InHand
<1> QED
  BY <1>2, <1>3

LEMMA LookupSteps ==
  ASSUME GateInv, NEW t \in Thread, lookup_lock(t) \/ lookup_unlock(t)
  PROVE  GateInv'
<1> USE DEF lookup_lock, lookup_unlock, gate
<1>1. PICK label \in {"lookup", "idle"} : Goto(t, label) /\ pc[t] \in {"lookup", "idle"}
  OBVIOUS
<1>2. TypeOK'
  BY <1>1, LabelMoves DEF GateInv, TypeOK, PC
<1>3. CountExact' /\ FailuresBounded' /\ HandlesApart'
  BY <1>1, QuietStep DEF PC
<1>4. DestroyerAlone'
  BY <1>1 DEF GateInv, TypeOK, Goto, DestroyerAlone
<1> QED
  BY <1>2, <1>3, <1>4 DEF GateInv

LEMMA OpenCheckStep ==
  ASSUME GateInv, NEW t \in Thread, open_check(t)
  PROVE  GateInv'
<1> USE DEF open_check, gate, locks
<1>1. "open_lock" \in PC /\ Goto(t, "open_lock") /\ UNCHANGED arg /\ pc[t] = "idle"
  BY DEF PC
<1>2. TypeOK'
  BY <1>1, LabelMoves DEF GateInv, TypeOK
<1>3. CountExact' /\ FailuresBounded'
  <2>1. /\ Cardinality(Closing) \in Nat /\ Cardinality(Opening) \in Nat
        /\ Cardinality(Failing) \in Nat /\ Cardinality(held) \in Nat
        /\ Cardinality(Closing') = Cardinality(Closing)
        /\ Cardinality(Opening') = Cardinality(Opening) + 1
        /\ Cardinality(Failing') = Cardinality(Failing)
    BY <1>1, CountMoves DEF GateInv
  <2> QED
    BY <2>1, GateAssumption DEF GateInv, CountExact, FailuresBounded, TypeOK
<1>4. HandlesApart' /\ DestroyerAlone'
  BY <1>1 DEF GateInv, TypeOK, Goto, HandlesApart, InHand, DestroyerAlone
<1> QED
  BY <1>2, <1>3, <1>4 DEF GateInv

LEMMA OpenLockStep ==
  ASSUME GateInv, NEW t \in Thread, open_lock(t)
  PROVE  GateInv'
<1> USE DEF open_lock, gate
<1>1. PICK label \in {"open", "idle"} : Goto(t, label)
  OBVIOUS
<1>2. label \in PC /\ UNCHANGED arg /\ pc[t] = "open_lock"
  BY <1>1 DEF PC
<1>3. TypeOK'
  BY <1>1, <1>2, LabelMoves DEF GateInv, TypeOK
<1>4. CountExact' /\ FailuresBounded'
  <2>1. /\ Cardinality(Closing) \in Nat /\ Cardinality(Opening) \in Nat
        /\ Cardinality(Failing) \in Nat /\ Cardinality(held) \in Nat
        /\ Cardinality(Closing') = Cardinality(Closing)
        /\ Cardinality(Opening') \in {Cardinality(Opening), Cardinality(Opening) - 1}
        /\ Cardinality(Failing') = Cardinality(Failing)
    BY <1>1, <1>2, CountMoves DEF GateInv
  <2> QED
    BY <2>1, GateAssumption DEF GateInv, CountExact, FailuresBounded, TypeOK
<1>5. HandlesApart' /\ DestroyerAlone'
  BY <1>1, <1>2 DEF GateInv, TypeOK, Goto, HandlesApart, InHand, DestroyerAlone
<1> QED
  BY <1>3, <1>4, <1>5 DEF GateInv

LEMMA OpenBodyStep ==
  ASSUME GateInv, NEW t \in Thread, open_body(t)
  PROVE  GateInv'
<1> USE GateAssumption DEF open_body, gate
<1>1. "open_count" \in PC /\ Goto(t, "open_count") /\ pc[t] = "open"
  BY DEF PC
<1>2. PICK h \in Handle \cup {-1} :
        /\ arg' = [arg EXCEPT ![t] = h]
        /\ IF h = -1 THEN taken' = taken /\ failed' = failed + 1
                     ELSE h \notin taken /\ taken' = taken \cup {h} /\ failed' = failed
  OBVIOUS
<1>3. /\ arg' \in [Thread -> Handle \cup {-1}] /\ arg'[t] = h
      /\ \A u \in Thread \ {t} : arg'[u] = arg[u]
  BY <1>2 DEF GateInv, TypeOK
<1>4. CountExact' /\ FailuresBounded'
  <2>1. /\ Cardinality(Closing) \in Nat /\ Cardinality(Opening) \in Nat
        /\ Cardinality(Failing) \in Nat /\ Cardinality(held) \in Nat
        /\ Cardinality(Closing') = Cardinality(Closing)
        /\ Cardinality(Opening') = Cardinality(Opening) - 1
        /\ Cardinality(Failing') = Cardinality(Failing) + (IF h = -1 THEN 1 ELSE 0)
    BY <1>1, <1>3, CountMoves DEF GateInv
  <2> QED
    BY <1>2, <2>1 DEF GateInv, CountExact, FailuresBounded, TypeOK
<1>5. TypeOK'
  <2>1. failed' \in 0 .. MaxFailed
    <3>1. Cardinality(Opening') \in Nat
      <4>1. t \in Opening /\ IsFiniteSet(Opening) /\ Opening' = Opening \ {t}
        BY <1>1, <1>3, LabelMoves, LabelCounts, CountedFinite DEF GateInv
      <4> QED
        BY <4>1, OneMore
    <3> QED
      BY <1>2, <1>4, <3>1 DEF FailuresBounded, GateInv, TypeOK
  <2> QED
    BY <1>1, <1>2, <1>3, <2>1, LabelMoves DEF GateInv, TypeOK
<1>6. /\ pc'[t] = "open_count" /\ \A u \in Thread \ {t} : pc'[u] = pc[u]
  BY <1>1, <1>3, LabelMoves DEF GateInv
<1>7. HandlesApart'
  BY <1>1, <1>2, <1>3, <1>6 DEF GateInv, HandlesApart, InHand
<1>8. DestroyerAlone'
  BY <1>6 DEF GateInv, DestroyerAlone
<1> QED
  BY <1>4, <1>5, <1>7, <1>8 DEF GateInv

\* The count never wraps: there is room for every handle, thread and failure.
LEMMA OpenCountStep ==
  ASSUME GateInv, NEW t \in Thread, open_count(t)
  PROVE  GateInv'
<1> USE GateAssumption DEF open_count, locks
<1>1. "idle" \in PC /\ Goto(t, "idle") /\ UNCHANGED arg /\ pc[t] = "open_count"
  BY DEF PC
<1>2. held' = IF arg[t] = -1 THEN held ELSE held \cup {arg[t]}
  OBVIOUS
<1>3. arg[t] # -1 => arg[t] \in taken \ held /\ arg[t] \in Handle
  BY <1>1 DEF GateInv, HandlesApart, InHand, TypeOK
<1>4. Cardinality(held') = Cardinality(held) + (IF arg[t] = -1 THEN 0 ELSE 1)
  <2>1. IsFiniteSet(held) /\ Cardinality(held) \in Nat
    BY CountedFinite, OneMore DEF GateInv
  <2>2. arg[t] # -1 => Cardinality(held \cup {arg[t]}) = Cardinality(held) + 1
    BY <2>1, <1>3, OneMore
  <2> QED
    BY <1>2, <2>1, <2>2
<1>5. /\ Cardinality(held) \in Nat /\ Cardinality(held) <= Cardinality(Handle)
      /\ Cardinality(Closing) \in Nat /\ Cardinality(Closing) <= Cardinality(Thread) - 1
      /\ Cardinality(Handle) \in Nat /\ Cardinality(Thread) \in Nat
  <2>1. held \subseteq Handle /\ Closing \subseteq Thread \ {t}
    BY <1>1 DEF GateInv, TypeOK, Closing
  <2>2. IsFiniteSet(Thread \ {t}) /\ Cardinality(Thread \ {t}) = Cardinality(Thread) - 1
        /\ Cardinality(Thread) \in Nat
    BY OneMore
  <2> QED
    BY <2>1, <2>2, FS_Subset, FS_CardinalityType
<1>6. open_files < UINT_MAX
  <2>1. Cardinality(Failing) \in Nat
    BY CountedFinite, OneMore DEF GateInv
  <2> QED
    BY <1>5, <2>1 DEF GateInv, CountExact, TypeOK
<1>7. open_files' = open_files + 1
  BY <1>6 DEF Increment, GateInv, TypeOK
<1>8. CountExact' /\ FailuresBounded'
  <2>1. /\ Cardinality(Closing) \in Nat /\ Cardinality(Opening) \in Nat
        /\ Cardinality(Failing) \in Nat /\ Cardinality(held) \in Nat
        /\ Cardinality(Closing') = Cardinality(Closing)
        /\ Cardinality(Opening') = Cardinality(Opening)
        /\ Cardinality(Failing') = Cardinality(Failing) - (IF arg[t] = -1 THEN 1 ELSE 0)
    BY <1>1, CountMoves DEF GateInv
  <2> QED
    BY <1>1, <1>4, <1>7, <2>1 DEF GateInv, CountExact, FailuresBounded, TypeOK
<1>9. TypeOK'
  BY <1>1, <1>2, <1>3, <1>6, <1>7, LabelMoves DEF GateInv, TypeOK
<1>10. pc'[t] = "idle" /\ \A u \in Thread \ {t} : pc'[u] = pc[u]
  BY <1>1, LabelMoves DEF GateInv
<1>11. HandlesApart'
  BY <1>1, <1>2, <1>3, <1>10 DEF GateInv, HandlesApart, InHand
<1>12. DestroyerAlone'
  BY <1>10 DEF GateFree, GateInv, DestroyerAlone
<1> QED
  BY <1>8, <1>9, <1>11, <1>12 DEF GateInv

LEMMA CloseLockStep ==
  ASSUME GateInv, NEW t \in Thread, NEW h \in Handle, close_lock(t, h)
  PROVE  GateInv'
<1> USE DEF close_lock, gate
<1>1. "close" \in PC /\ Goto(t, "close") /\ pc[t] = "idle" /\ h \in held
  BY DEF PC
<1>2. /\ arg' \in [Thread -> Handle \cup {-1}] /\ arg'[t] = h
      /\ \A u \in Thread \ {t} : arg'[u] = arg[u]
  BY DEF GateInv, TypeOK
<1>3. Cardinality(held') = Cardinality(held) - 1
  BY <1>1, CountedFinite, OneMore DEF GateInv
<1>4. CountExact' /\ FailuresBounded'
  <2>1. /\ Cardinality(Closing) \in Nat /\ Cardinality(Opening) \in Nat
        /\ Cardinality(Failing) \in Nat /\ Cardinality(held) \in Nat
        /\ Cardinality(Closing') = Cardinality(Closing) + 1
        /\ Cardinality(Opening') = Cardinality(Opening)
        /\ Cardinality(Failing') = Cardinality(Failing)
    BY <1>1, <1>2, CountMoves DEF GateInv
  <2> QED
    BY <1>3, <2>1 DEF GateInv, CountExact, FailuresBounded, TypeOK
<1>5. TypeOK'
  BY <1>1, <1>2, LabelMoves DEF GateInv, TypeOK
<1>6. pc'[t] = "close" /\ \A u \in Thread \ {t} : pc'[u] = pc[u]
  BY <1>1, <1>2, LabelMoves DEF GateInv
<1>7. HandlesApart'
  BY <1>1, <1>2, <1>6 DEF GateInv, HandlesApart, InHand
<1>8. DestroyerAlone'
  BY <1>6 DEF GateInv, DestroyerAlone
<1> QED
  BY <1>4, <1>5, <1>7, <1>8 DEF GateInv

LEMMA CloseBodyStep ==
  ASSUME GateInv, NEW t \in Thread, close_body(t)
  PROVE  GateInv'
<1> USE DEF close_body, gate
<1>1. "close_count" \in PC /\ Goto(t, "close_count") /\ UNCHANGED arg /\ pc[t] = "close"
  BY DEF PC
<1>2. CountExact' /\ FailuresBounded'
  <2>1. /\ Cardinality(Closing) \in Nat /\ Cardinality(Opening) \in Nat
        /\ Cardinality(Failing) \in Nat /\ Cardinality(held) \in Nat
        /\ Cardinality(Closing') = Cardinality(Closing)
        /\ Cardinality(Opening') = Cardinality(Opening)
        /\ Cardinality(Failing') = Cardinality(Failing)
    BY <1>1, CountMoves DEF GateInv
  <2> QED
    BY <2>1 DEF GateInv, CountExact, FailuresBounded, TypeOK
<1>3. TypeOK'
  BY <1>1, LabelMoves DEF GateInv, TypeOK
<1>4. pc'[t] = "close_count" /\ \A u \in Thread \ {t} : pc'[u] = pc[u]
  BY <1>1, LabelMoves DEF GateInv
<1>5. HandlesApart'
  BY <1>1, <1>4 DEF GateInv, HandlesApart, InHand
<1>6. DestroyerAlone'
  BY <1>4 DEF GateInv, DestroyerAlone
<1> QED
  BY <1>2, <1>3, <1>5, <1>6 DEF GateInv

\* There is something to count off: the close itself.
LEMMA CloseCountStep ==
  ASSUME GateInv, NEW t \in Thread, close_count(t)
  PROVE  GateInv'
<1> USE GateAssumption DEF close_count, locks
<1>1. "idle" \in PC /\ Goto(t, "idle") /\ UNCHANGED arg /\ pc[t] = "close_count"
  BY DEF PC
<1>2. /\ Cardinality(Closing) \in Nat /\ Cardinality(Closing) >= 1
      /\ Cardinality(held) \in Nat /\ Cardinality(Failing) \in Nat
  <2>1. IsFiniteSet(Closing) /\ t \in Closing /\ IsFiniteSet(Closing \ {t})
    BY <1>1, CountedFinite, LabelCounts, OneMore DEF GateInv
  <2>2. /\ Cardinality(Closing) \in Nat /\ Cardinality(Closing \ {t}) \in Nat
        /\ Cardinality(Closing \ {t}) = Cardinality(Closing) - 1
    BY <2>1, OneMore
  <2>3. Cardinality(held) \in Nat /\ Cardinality(Failing) \in Nat
    BY CountedFinite, OneMore DEF GateInv
  <2> QED
    BY <2>2, <2>3
<1>3. open_files > 0
  BY <1>2 DEF GateInv, CountExact, FailuresBounded, TypeOK
<1>4. open_files' = open_files - 1
  BY <1>3 DEF Decrement
<1>5. CountExact' /\ FailuresBounded'
  <2>1. /\ Cardinality(Closing) \in Nat /\ Cardinality(Opening) \in Nat
        /\ Cardinality(Failing) \in Nat /\ Cardinality(held) \in Nat
        /\ Cardinality(Closing') = Cardinality(Closing) - 1
        /\ Cardinality(Opening') = Cardinality(Opening)
        /\ Cardinality(Failing') = Cardinality(Failing)
    BY <1>1, CountMoves DEF GateInv
  <2> QED
    BY <1>4, <2>1 DEF GateInv, CountExact, FailuresBounded, TypeOK
<1>6. waiting' \subseteq Thread
  BY DEF Signal, GateInv, TypeOK
<1>7. TypeOK'
  BY <1>1, <1>3, <1>4, <1>6, LabelMoves DEF GateInv, TypeOK
<1>8. pc'[t] = "idle" /\ \A u \in Thread \ {t} : pc'[u] = pc[u]
  BY <1>1, LabelMoves DEF GateInv
<1>9. HandlesApart'
  BY <1>1, <1>8 DEF GateInv, HandlesApart, InHand
<1>10. DestroyerAlone'
  BY <1>8 DEF GateFree, GateInv, DestroyerAlone
<1> QED
  BY <1>5, <1>7, <1>9, <1>10 DEF GateInv

\* Entering the wait, looking again, and finding no file open.
LEMMA DestroyCheckStep ==
  ASSUME GateInv, NEW d \in Thread, destroy_enter(d) \/ destroy_recheck(d)
  PROVE  GateInv'
<1> USE GateAssumption DEF destroy_enter, destroy_recheck
<1>1. PICK label \in {"destroy_wait", "destroy"} : Goto(d, label)
  BY DEF CheckAllClosed
<1>2. /\ label \in PC /\ pc[d] \in {"idle", "destroy_wait"} /\ GateFree
      /\ UNCHANGED <<open_files, taken, arg, held, failed>>
      /\ UNCHANGED single_global_lock
  BY DEF PC
<1>3. pc'[d] = label /\ pc' \in [Thread -> PC] /\ \A u \in Thread \ {d} : pc'[u] = pc[u]
  BY <1>1, <1>2, LabelMoves DEF GateInv
<1>4. /\ label = "destroy" => tfs_exec_allowed' = d /\ open_files = 0
      /\ waiting' \subseteq Thread
      /\ tfs_exec_allowed' \in Thread \cup {Free}
      /\ can_exec' \in BOOLEAN
  BY <1>1, <1>3 DEF CheckAllClosed, Goto, GateInv, TypeOK
<1>5. TypeOK'
  BY <1>2, <1>3, <1>4 DEF GateInv, TypeOK
<1>6. CountExact' /\ FailuresBounded' /\ HandlesApart'
  BY <1>1, <1>2, QuietStep
<1>7. DestroyerAlone'
  BY <1>1, <1>2, <1>3, <1>4 DEF GateFree, GateInv, DestroyerAlone
<1> QED
  BY <1>5, <1>6, <1>7 DEF GateInv

LEMMA DestroyTablesStep ==
  ASSUME GateInv, NEW d \in Thread, destroy_tables(d)
  PROVE  GateInv'
<1> USE GateAssumption DEF destroy_tables, gate, locks
<1>1. PICK label \in {"destroyed", "destroy_failed"} :
        /\ Goto(d, label)
        /\ label = "destroy_failed" => UNCHANGED tfs_exec_allowed
  OBVIOUS
<1>2. /\ label \in PC /\ pc[d] = "destroy"
      /\ UNCHANGED <<open_files, taken, arg, held, failed>>
  BY DEF PC
<1>3. pc'[d] = label /\ pc' \in [Thread -> PC] /\ \A u \in Thread \ {d} : pc'[u] = pc[u]
  BY <1>1, <1>2, LabelMoves DEF GateInv
<1>4. TypeOK'
  BY <1>2, <1>3 DEF GateInv, TypeOK
<1>5. CountExact' /\ FailuresBounded' /\ HandlesApart'
  BY <1>1, <1>2, QuietStep
<1>6. DestroyerAlone'
  BY <1>1, <1>2, <1>3 DEF GateInv, DestroyerAlone
<1> QED
  BY <1>4, <1>5, <1>6 DEF GateInv

LEMMA WakeupStep ==
  ASSUME GateInv, NEW d \in Thread, spurious_wakeup(d)
  PROVE  GateInv'
  BY DEF spurious_wakeup, locks, GateInv, TypeOK, CountExact, FailuresBounded,
     HandlesApart, InHand, DestroyerAlone, Closing, Opening, Failing

\* Every step keeps the gate's invariant.
LEMMA NextGate == GateInv /\ [Next]_vars => GateInv'
<1> SUFFICES ASSUME GateInv, [Next]_vars PROVE GateInv'
  OBVIOUS
<1>1. ASSUME UNCHANGED vars PROVE GateInv'
  BY <1>1 DEF vars, GateInv, TypeOK, CountExact, FailuresBounded,
     HandlesApart, InHand, DestroyerAlone, Closing, Opening, Failing
<1>2. ASSUME NEW t \in Thread, Begin(t) PROVE GateInv'
  BY <1>1, <1>2, LookupSteps, OpenCheckStep, CloseLockStep, DestroyCheckStep
     DEF Begin, refused
<1>3. ASSUME NEW t \in Thread, Continue(t) PROVE GateInv'
  BY <1>3, LookupSteps, OpenLockStep, OpenBodyStep, OpenCountStep, CloseBodyStep,
     CloseCountStep, DestroyCheckStep, DestroyTablesStep DEF Continue
<1> QED
  BY <1>1, <1>2, <1>3, WakeupStep DEF Next

\* The inductive invariant holds in every behaviour.
THEOREM GateAlwaysHolds == Spec => []GateInv
  BY InitGate, NextGate, PTL DEF Spec

\* Every variable of the gate keeps its type: the count never wraps.
THEOREM GateTypeCorrect == Spec => []TypeOK
<1>1. GateInv => TypeOK
  BY DEF GateInv
<1> QED
  BY <1>1, GateAlwaysHolds, PTL

\* open_files is exact, for every number of threads and handles.
THEOREM CountAlwaysExact == Spec => []CountExact
<1>1. GateInv => CountExact
  BY DEF GateInv
<1> QED
  BY <1>1, GateAlwaysHolds, PTL

\* The tables are never destroyed under a handle a caller still holds.
THEOREM DestroyWaitsForCloses == Spec => DestroyAfterCloses
<1>1. ASSUME GateInv, [Next]_vars,
             single_global_lock' = Destroyed, single_global_lock # Destroyed
      PROVE  held = {} /\ Closing = {}
  <2>1. PICK d \in Thread : pc[d] = "destroy"
    BY <1>1, GateAssumption DEF Next, Begin, Continue, lookup_lock, lookup_unlock,
       open_check, open_lock, open_body, open_count, close_lock, close_body, close_count,
       destroy_enter, destroy_recheck, destroy_tables, spurious_wakeup, refused,
       locks, vars
  <2>2. open_files = 0
    BY <1>1, <2>1 DEF GateInv, DestroyerAlone
  <2>3. /\ IsFiniteSet(held) /\ IsFiniteSet(Closing)
        /\ Cardinality(held) \in Nat /\ Cardinality(Closing) \in Nat
        /\ Cardinality(Failing) \in Nat
    BY <1>1, CountedFinite, OneMore DEF GateInv
  <2>4. Cardinality(held) = 0 /\ Cardinality(Closing) = 0
    BY <1>1, <2>2, <2>3 DEF GateInv, CountExact, FailuresBounded, TypeOK
  <2> QED
    BY <2>3, <2>4, FS_EmptySet
<1> QED
  BY <1>1, GateAlwaysHolds, PTL DEF Spec, DestroyAfterCloses
=============================================================================
