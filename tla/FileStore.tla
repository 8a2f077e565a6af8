----------------------------- MODULE FileStore -----------------------------
(***************************************************************************)
(* What fs/operations.h promises of the file system, without tables: files *)
(* by name, each a sequence of bytes no longer than MaxSize, and open      *)
(* handles, each a position in a file.                                     *)
(*                                                                         *)
(* The one freedom a caller may not expect is kept in the open: a handle   *)
(* whose file another tfs_open truncated may stand past the end.  There a  *)
(* read may return anything, and a write fills the gap with anything.      *)
(***************************************************************************)
EXTENDS Integers, Sequences

CONSTANTS Name, NoName, Byte, MaxSize, Handle, Payload, ReadLen

VARIABLES
    files,      \* the contents of each file there is
    handles,    \* the [name, pos] of each open handle
    reply       \* what the last operation returned

fvars == <<files, handles, reply>>

Existing == DOMAIN files
Open == DOMAIN handles
Return(op, r) == reply' = [op |-> op, ret |-> r, data |-> << >>]
Smaller(a, b) == IF a < b THEN a ELSE b

Init ==
    /\ files = [n \in {} |-> << >>]
    /\ handles = [h \in {} |-> {}]
    /\ reply = [op |-> "tfs_init", ret |-> 0, data |-> << >>]

\* An operation that fails changes neither a file nor a handle.
Fail(op) == Return(op, -1) /\ UNCHANGED <<files, handles>>

\* A lookup fails exactly for a name no file has.
Lookup(n) ==
    /\ reply'.op = "tfs_lookup"
    /\ reply'.data = << >>
    /\ IF n \in Existing THEN reply'.ret \in Nat ELSE reply'.ret = -1
    /\ UNCHANGED <<files, handles>>

\* A handle is given out if there is one left, and no other handle changes.
GiveHandle(n, pos) ==
    \/ /\ Open = Handle
       /\ Return("tfs_open", -1)
       /\ UNCHANGED handles
    \/ \E h \in Handle \ Open :
         /\ handles' = [g \in Open \cup {h} |->
                          IF g = h THEN [name |-> n, pos |-> pos] ELSE handles[g]]
         /\ Return("tfs_open", h)

OpenFile(n, truncate, append) ==
    LET contents == IF truncate THEN << >> ELSE files[n]
    IN /\ n \in Existing
       /\ files' = [files EXCEPT ![n] = contents]
       /\ GiveHandle(n, IF append THEN Len(contents) ELSE 0)

CreateFile(n) ==
    /\ n \in Name \ Existing
    /\ files' = [m \in Existing \cup {n} |-> IF m = n THEN << >> ELSE files[m]]
    /\ GiveHandle(n, 0)

Close(h) ==
    /\ h \in Open
    /\ handles' = [g \in Open \ {h} |-> handles[g]]
    /\ Return("tfs_close", 0)
    /\ UNCHANGED files

\* The bytes of buffer that fit land at the handle's position, the rest of
\* the file stays, and only a gap before the position is unspecified.
Write(h, buffer) ==
    LET name == handles[h].name
        pos == handles[h].pos
        old == files[name]
        n == Smaller(Len(buffer), MaxSize - pos)
    IN /\ h \in Open
       /\ n >= 0
       /\ \E new \in UNION {[1 .. k -> Byte] : k \in {Len(old), pos + n}} :
            /\ Len(new) = IF n > 0 /\ pos + n > Len(old) THEN pos + n ELSE Len(old)
            /\ \A i \in DOMAIN new :
                 IF pos < i /\ i <= pos + n THEN new[i] = buffer[i - pos]
                 ELSE i <= Len(old) => new[i] = old[i]
            /\ files' = [files EXCEPT ![name] = new]
       /\ handles' = [handles EXCEPT ![h].pos = pos + n]
       /\ Return("tfs_write", n)

\* Only the first write to an empty file can run out of space.
WriteFails(h) ==
    /\ h \in Open
    /\ files[handles[h].name] = << >>
    /\ Fail("tfs_write")

Read(h, len) ==
    LET pos == handles[h].pos
        old == files[handles[h].name]
        n == Smaller(len, Len(old) - pos)
    IN /\ h \in Open
       /\ pos <= Len(old)
       /\ reply' = [op |-> "tfs_read", ret |-> n, data |-> SubSeq(old, pos + 1, pos + n)]
       /\ handles' = [handles EXCEPT ![h].pos = pos + n]
       /\ UNCHANGED files

ReadPastEnd(h, len) ==
    LET pos == handles[h].pos
    IN /\ h \in Open
       /\ pos > Len(files[handles[h].name])
       /\ \/ /\ \E data \in [1 .. len -> Byte] :
                  reply' = [op |-> "tfs_read", ret |-> len, data |-> data]
             /\ handles' = [handles EXCEPT ![h].pos = pos + len]
             /\ UNCHANGED files
          \/ Fail("tfs_read")

Next ==
    \/ Fail("tfs_open")
    \/ \E n \in Name \cup {NoName} : Lookup(n)
    \/ \E n \in Name : \/ CreateFile(n)
                       \/ \E t, a \in BOOLEAN : OpenFile(n, t, a)
    \/ \E h \in Handle : \/ Close(h)
                         \/ \E buffer \in Payload : Write(h, buffer)
                         \/ WriteFails(h)
                         \/ \E len \in ReadLen : Read(h, len) \/ ReadPastEnd(h, len)

Spec == Init /\ [][Next]_fvars
=============================================================================
