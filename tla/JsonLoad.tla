------------------------------ MODULE JsonLoad ------------------------------
(***************************************************************************)
(* ac_json_load_from_fd and ac_json_load_from_file (src/ac_json.c): a file *)
(* is read piece by piece into a string.  The file, read(2) and the stream *)
(* in memory are external.                                                 *)
(*                                                                         *)
(* A byte is its place in the file, so that all are different, or NUL.     *)
(***************************************************************************)
EXTENDS Integers, Sequences

CONSTANTS BufSize,     \* what a read asks for: 4096 bytes, one less than the buffer
          MaxSize,     \* bound: bytes of a file
          NONE         \* no file, no answer

NUL == 0

VARIABLES file,        \* its content, or NONE
          call,        \* the call's arguments and local variables
          pc, ret,
          met          \* history: what came in the call's way

vars == <<file, call, pc, ret, met>>

Contents == UNION {{s \in [1..n -> 0..MaxSize] : \A i \in 1..n : s[i] \in {i, NUL}} :
                        n \in 0..MaxSize}

Init ==
    /\ file \in Contents \cup {NONE}
    /\ call = [start |-> 0, in |-> 0, was |-> 0, out |-> << >>, fd |-> "none"]
    /\ pc = "idle" /\ ret = NONE /\ met = {}

(***************************************************************************)
(* lseek moves nothing where the descriptor is that of a pipe.             *)
(***************************************************************************)
Begin(fd, start) ==
    /\ call' = [call EXCEPT !.start = start, !.in = start, !.was = Len(file), !.fd = fd]
    /\ pc' = "read" /\ UNCHANGED ret

FromFd ==
    /\ pc = "idle" /\ file # NONE
    /\ \E offset \in 0..MaxSize, seekable \in BOOLEAN :
          Begin("caller's", IF seekable THEN offset ELSE 0)
    /\ UNCHANGED <<file, met>>

FromFile ==
    /\ pc = "idle"
    /\ IF file = NONE
       THEN pc' = "done" /\ ret' = NONE /\ UNCHANGED call
       ELSE \E offset \in 0..MaxSize : Begin("open", offset)
    /\ UNCHANGED <<file, met>>

(***************************************************************************)
(* What a read can give, and what "%s" prints of it.                       *)
(***************************************************************************)
Counts ==
    LET left == Len(file) - call.in
    IN  IF left <= 0 THEN {0} ELSE {n \in 1..BufSize : n <= left}

Printed(buf) ==
    LET nuls == {i \in 1..Len(buf) : buf[i] = NUL}
    IN  IF nuls = {} THEN buf
        ELSE SubSeq(buf, 1, (CHOOSE i \in nuls : \A j \in nuls : i <= j) - 1)

Finish(out) ==
    /\ pc' = "done" /\ ret' = out
    /\ call' = [call EXCEPT !.fd = IF @ = "open" THEN "closed" ELSE @]

LastIfShort(n) == n < BufSize      \* faulty: a short count is taken for the end

Last(n) == n <= 0

Read ==
    /\ pc = "read"
    /\ \E n \in Counts :
          LET out == call.out \o Printed(SubSeq(file, call.in + 1, call.in + n))
          IN  IF Last(n)
              THEN Finish(out)
              ELSE /\ call' = [call EXCEPT !.in = @ + n, !.out = out]
                   /\ UNCHANGED <<pc, ret>>
    /\ UNCHANGED <<file, met>>

(***************************************************************************)
(* A read that fails ends the loop like the end of the file.               *)
(***************************************************************************)
ReadFails ==
    /\ pc = "read" /\ Last(-1)
    /\ met' = met \cup {"failed"}
    /\ Finish(call.out)
    /\ UNCHANGED file

(***************************************************************************)
(* Another program appends to the file.                                    *)
(***************************************************************************)
Appended ==
    /\ pc = "read" /\ Len(file) < MaxSize
    /\ file' = Append(file, Len(file) + 1)
    /\ UNCHANGED <<call, pc, ret, met>>

Step == FromFd \/ FromFile \/ Read \/ ReadFails

Finished == pc = "done" /\ UNCHANGED vars

Next == Step \/ Appended \/ Finished

Spec == Init /\ [][Next]_vars /\ WF_vars(Step)
----------------------------------------------------------------------------
(***************************************************************************)
(* However short the single reads are, and even if the file grows between  *)
(* them, what is loaded is the file from its offset on, all of what there  *)
(* was at the call unless a read failed; of a text without NULs nothing is *)
(* missing inside.  With NULs, what is left is in order.  The descriptor   *)
(* is closed if and only if the function opened it (ac_json.c:40-50, 75).  *)
(***************************************************************************)
LoadsWhole ==
    pc = "done" /\ ret # NONE =>
        /\ call.fd \in {"closed", "caller's"}
        /\ met = {} => call.in >= call.was
        /\ \A i, j \in 1..Len(ret) : i < j => ret[i] < ret[j]
        /\ (\A i \in 1..Len(file) : file[i] # NUL) =>
               ret = SubSeq(file, call.start + 1, call.in)
=============================================================================
