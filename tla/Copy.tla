-------------------------------- MODULE Copy --------------------------------
(***************************************************************************)
(* ac_fs_copy (src/ac_fs.c:140) and the file_copy of each platform         *)
(* (src/platform): several callers copy files, one system call at a time,  *)
(* while other programs change the files and system calls are refused.     *)
(*                                                                         *)
(* The file system is external.  A file's content is a sequence of blocks, *)
(* all different, and no file is removed or renamed while it is copied.    *)
(***************************************************************************)
EXTENDS Integers, Sequences

CONSTANTS Callers,     \* processes that call the function, once each
          Files,       \* the names of files
          Requests,    \* what is asked for: triples of source, destination and flags
          IoSize,      \* IO_SIZE and BUF_SIZE, in blocks
          MaxSize,     \* bound: the blocks of a file
          MaxMeddle,   \* bound: the steps of other programs
          NONE         \* no such file

VARIABLES linux,       \* which platform's functions were built in
          file,        \* the content of each file
          call,        \* each call's arguments, descriptors and local variables
          pc,          \* what each call does next
          ret,         \* its answer
          met,         \* history: what came in its way
          meddled      \* bound: the steps others have taken

ASSUME RequestsAssumption ==
    Requests \subseteq Files \X Files \X {"none", "overwrite", "unknown"}

vars == <<linux, file, call, pc, ret, met, meddled>>

Zero == <<"zero", 0>>
New  == <<"new", 0>>

Block   == {Zero, New} \cup (Files \X (1..MaxSize))
Content == UNION {[1..n -> Block] : n \in 0..MaxSize}

ASSUME NoneAssumption == NONE \notin Callers \cup Content

ASSUME SizesAssumption == MaxSize \in Nat /\ IoSize \in Nat

Initial(f, n) == IF n < 0 THEN NONE ELSE [i \in 1..n |-> <<f, i>>]

NoCall == [from |-> NONE, to |-> NONE, flags |-> "none", was |-> NONE,
           size |-> 0, in |-> 0, buf |-> << >>, total |-> 0, fds |-> {}]

Init ==
    /\ linux \in BOOLEAN
    /\ \E n \in [Files -> -1..MaxSize] : file = [f \in Files |-> Initial(f, n[f])]
    /\ call = [c \in Callers |-> NoCall]
    /\ pc = [c \in Callers |-> "idle"] /\ ret = [c \in Callers |-> 0]
    /\ met = [c \in Callers |-> {}] /\ meddled = 0
----------------------------------------------------------------------------
(***************************************************************************)
(* What the calls that have begun see of a step of `by' on file f, which   *)
(* is one of them or NONE: the history of what came in their way.          *)
(***************************************************************************)
Shrinks(f) == file[f] # NONE /\ Len(file'[f]) < Len(file[f])

Seen(by, f) ==
    [c \in Callers |->
        IF c = by \/ pc[c] = "idle" \/ file'[f] = file[f] THEN met[c]
        ELSE met[c] \cup (IF call[c].to = f THEN {"to"} ELSE {})
                    \cup (IF call[c].from = f THEN {"from"} ELSE {})
                    \cup (IF call[c].from = f /\ Shrinks(f) THEN {"shrunk"} ELSE {})]

Change(by, f, content) ==
    /\ file' = [file EXCEPT ![f] = content]
    /\ met' = Seen(by, f)

Gone(c, fds) == [call[c] EXCEPT !.size = 0, !.in = 0, !.buf = << >>, !.total = 0, !.fds = fds]

(***************************************************************************)
(* Every way out of the function closes what it has opened, and the local  *)
(* variables are gone.                                                     *)
(***************************************************************************)
Cleanup(c, r) ==
    /\ call' = [call EXCEPT ![c] = Gone(c, {})]
    /\ pc' = [pc EXCEPT ![c] = "done"]
    /\ ret' = [ret EXCEPT ![c] = r]

Goto(c, label, fields) ==
    /\ pc' = [pc EXCEPT ![c] = label]
    /\ call' = [call EXCEPT ![c] = fields]
    /\ UNCHANGED ret

(***************************************************************************)
(* The flags are checked and the source is opened.                         *)
(***************************************************************************)
Call(c, from, to, flags) ==
    LET args == [NoCall EXCEPT !.from = from, !.to = to, !.flags = flags, !.was = file[from]]
    IN  /\ pc[c] = "idle"
        /\ IF flags = "unknown" \/ file[from] = NONE
           THEN /\ call' = [call EXCEPT ![c] = args]
                /\ pc' = [pc EXCEPT ![c] = "done"] /\ ret' = [ret EXCEPT ![c] = -1]
           ELSE Goto(c, "open", [args EXCEPT !.fds = {"ifd"}])
        /\ UNCHANGED <<linux, file, met, meddled>>

(***************************************************************************)
(* The destination is opened, and emptied or created; then fstat gives the *)
(* size of the source.                                                     *)
(***************************************************************************)

Exists(c) == call[c].flags = "none" /\ file[call[c].to] # NONE

Open(c) ==
    /\ pc[c] = "open"
    /\ IF Exists(c)
       THEN /\ met' = [met EXCEPT ![c] = @ \cup {"exists"}]
            /\ Cleanup(c, -1) /\ UNCHANGED file
       ELSE /\ Change(c, call[c].to, << >>)
            /\ Goto(c, "alloc", [call[c] EXCEPT !.fds = @ \cup {"ofd"},
                                                !.size = Len(file'[call[c].from])])
    /\ UNCHANGED <<linux, meddled>>

(***************************************************************************)
(* fallocate(2) refuses a length of 0 on Linux, and may not be supported   *)
(* by the file system for any other; that of FreeBSD is never supported    *)
(* (platform/freebsd/fallocate.c).  fallocate never makes a file shorter,  *)
(* ftruncate may.                                                          *)
(***************************************************************************)
fallocate(size) ==
    IF ~linux THEN {"EOPNOTSUPP"}
    ELSE IF size = 0 THEN {"EINVAL"}
    ELSE {"done", "EOPNOTSUPP"}

Resized(content, size) ==
    [i \in 1..size |-> IF i <= Len(content) THEN content[i] ELSE Zero]

FallbackNever(err) == FALSE     \* faulty: no error of fallocate is forgiven

Fallback(err) == err = "EOPNOTSUPP"

Allocate(c) ==
    LET to   == call[c].to
        size == call[c].size
    IN  /\ pc[c] = "alloc"
        /\ \E err \in fallocate(size) :
              IF err = "done" \/ Fallback(err)
              THEN /\ IF err = "done" /\ Len(file[to]) >= size
                      THEN UNCHANGED <<file, met>>
                      ELSE Change(c, to, Resized(file[to], size))
                   /\ Goto(c, "copy", call[c])
              ELSE /\ Cleanup(c, -1)
                   /\ UNCHANGED <<file, met>>
        /\ UNCHANGED <<linux, meddled>>
----------------------------------------------------------------------------
(***************************************************************************)
(* What a read can give: not nothing, unless the source is at its end, and *)
(* no more than was asked for.                                             *)
(***************************************************************************)
Source(c) == file[call[c].from]

Counts(c) ==
    LET left == Len(Source(c)) - call[c].in
    IN  IF left <= 0 THEN {0} ELSE {n \in 1..IoSize : n <= left}

Blocks(c, n) == SubSeq(Source(c), call[c].in + 1, call[c].in + n)

Put(content, offset, blocks) ==
    LET end == offset + Len(blocks)
    IN  [i \in 1..(IF end > Len(content) THEN end ELSE Len(content)) |->
            IF i \in offset + 1..end THEN blocks[i - offset]
            ELSE IF i <= Len(content) THEN content[i] ELSE Zero]

DoneIfShort(n) == n < IoSize     \* faulty: a short count is taken for the end

Done(n) == n = 0

(***************************************************************************)
(* Linux: sendfile reads and writes.                                       *)
(***************************************************************************)
SendFile(c) ==
    /\ linux /\ pc[c] = "copy"
    /\ \E n \in Counts(c) :
          IF Done(n)
          THEN Cleanup(c, call[c].total + n) /\ UNCHANGED <<file, met>>
          ELSE /\ Change(c, call[c].to,
                         Put(file[call[c].to], call[c].total, Blocks(c, n)))
               /\ Goto(c, "copy", [call[c] EXCEPT !.in = @ + n, !.total = @ + n])
    /\ UNCHANGED <<linux, meddled>>

(***************************************************************************)
(* FreeBSD: a read into a buffer and a write of the buffer, which may      *)
(* write less than it holds.  The rest of the buffer is then forgotten.    *)
(***************************************************************************)
Read(c) ==
    /\ ~linux /\ pc[c] = "copy"
    /\ \E n \in Counts(c) :
          IF Done(n)
          THEN Cleanup(c, call[c].total)
          ELSE Goto(c, "write", [call[c] EXCEPT !.in = @ + n, !.buf = Blocks(c, n)])
    /\ UNCHANGED <<linux, file, met, meddled>>

Write(c) ==
    /\ pc[c] = "write"
    /\ \E n \in 1..Len(call[c].buf) :
          LET blocks == SubSeq(call[c].buf, 1, n)
          IN  /\ file' = [file EXCEPT ![call[c].to] = Put(@, call[c].total, blocks)]
              /\ met' = [Seen(c, call[c].to) EXCEPT ![c] =
                            IF n < Len(call[c].buf) THEN @ \cup {"short"} ELSE @]
              /\ Goto(c, "copy", [call[c] EXCEPT !.total = @ + n, !.buf = << >>])
    /\ UNCHANGED <<linux, meddled>>

(***************************************************************************)
(* open, fallocate, ftruncate, sendfile, read and write may each be        *)
(* refused, for want of space or permission.                               *)
(***************************************************************************)
Refused(c) ==
    /\ pc[c] \in {"open", "alloc", "copy", "write"}
    /\ met' = [met EXCEPT ![c] = @ \cup {"refused"}]
    /\ Cleanup(c, -1)
    /\ UNCHANGED <<linux, file, meddled>>

(***************************************************************************)
(* Other programs create a file, append to it or empty it.                 *)
(***************************************************************************)
Others ==
    /\ meddled < MaxMeddle /\ meddled' = meddled + 1
    /\ \E f \in Files :
          \/ Change(NONE, f, << >>)
          \/ /\ file[f] # NONE /\ Len(file[f]) < MaxSize
             /\ Change(NONE, f, Append(file[f], New))
    /\ UNCHANGED <<linux, call, pc, ret>>

Step(c) ==
    \/ \E asked \in Requests : Call(c, asked[1], asked[2], asked[3])
    \/ Open(c) \/ Allocate(c) \/ SendFile(c) \/ Read(c) \/ Write(c) \/ Refused(c)

(***************************************************************************)
(* Every call has been answered.                                           *)
(***************************************************************************)
AllDone == (\A c \in Callers : pc[c] = "done") /\ UNCHANGED vars

Next == (\E c \in Callers : Step(c)) \/ Others \/ AllDone

Spec == Init /\ [][Next]_vars /\ \A c \in Callers : WF_vars(Step(c))
----------------------------------------------------------------------------
(***************************************************************************)
(* Contents are sequences of blocks, and a call's two offsets differ by    *)
(* what is in the buffer, unless a write was cut short (the loops of       *)
(* file_copy).                                                             *)
(***************************************************************************)
TypeOK ==
    /\ linux \in BOOLEAN
    /\ \A f \in Files : file[f] \in Content \cup {NONE}
    /\ \A c \in Callers :
          /\ pc[c] \in {"idle", "open", "alloc", "copy", "write", "done"}
          /\ ret[c] \in -1..MaxSize
          /\ met[c] \subseteq {"exists", "refused", "short", "from", "to", "shrunk"}
          /\ call[c].buf \in Content
          /\ "short" \notin met[c] => call[c].in = call[c].total + Len(call[c].buf)

(***************************************************************************)
(* Answered, with a count, and the destination is not the source itself,   *)
(* which AC_FS_COPY_OVERWRITE would have emptied.                          *)
(***************************************************************************)
Copied(c) == pc[c] = "done" /\ ret[c] >= 0 /\ call[c].from # call[c].to

(***************************************************************************)
(* A copy that nothing came in the way of is whole: as short as the counts *)
(* of the single calls may be, the destination has the source's content,   *)
(* and nothing else.  The space that is set aside before the copy shows    *)
(* behind its end only if the source got shorter meanwhile, or a write was *)
(* cut short (ac_fs.c:170-181, file_copy).                                 *)
(***************************************************************************)
CopyIsWhole ==
    \A c \in Callers :
        /\ Copied(c) /\ met[c] = {} =>
               file[call[c].to] = call[c].was /\ ret[c] = Len(call[c].was)
        /\ Copied(c) /\ met[c] \cap {"to", "shrunk", "short"} = {} =>
               ret[c] = Len(file[call[c].to])

(***************************************************************************)
(* Without AC_FS_COPY_OVERWRITE, one of several copies to the same         *)
(* destination succeeds at most (O_EXCL, line 145).                        *)
(***************************************************************************)
OneWinner ==
    \A c, d \in Callers :
        /\ Copied(c) /\ Copied(d) /\ c # d
        /\ call[c].flags = "none" /\ call[d].flags = "none"
        => call[c].to # call[d].to

Excused(c) ==
    \/ call[c].flags = "unknown" \/ call[c].was = NONE
    \/ met[c] # {}

(***************************************************************************)
(* A copy fails only if its flags are unknown, its source is absent, its   *)
(* destination exists, or something came in its way - or its source is     *)
(* empty, or emptied by itself.  No way out leaves a file open (lines 166  *)
(* and 183-185).                                                           *)
(***************************************************************************)
FailsForAReason ==
    \A c \in Callers :
        pc[c] = "done" =>
            /\ ret[c] = -1 =>
                   Excused(c) \/ call[c].was = << >> \/ call[c].from = call[c].to
            /\ call[c].fds = {}

(***************************************************************************)
(* What is promised: the number of bytes written, which is 0 for an empty  *)
(* file (ac_fs.c:138).                                                     *)
(***************************************************************************)
EmptyIsCopied ==
    \A c \in Callers : pc[c] = "done" /\ ret[c] = -1 =>
                          Excused(c) \/ call[c].from = call[c].to
=============================================================================
