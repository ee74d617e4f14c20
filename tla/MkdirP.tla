------------------------------- MODULE MkdirP -------------------------------
(***************************************************************************)
(* ac_fs_mkdir_p (src/ac_fs.c:73): several processes make directories with *)
(* their parents, each by a stat and a mkdir per component, in a file      *)
(* system where others remove directories and create files.                *)
(*                                                                         *)
(* The file system is external.  The directory behind `dirfd' is taken for *)
(* the root, so that a path means the same with and without a slash in     *)
(* front, and every name is one byte long.                                 *)
(***************************************************************************)
EXTENDS Integers, Sequences, FiniteSets

CONSTANTS Callers,     \* processes that call the function, once each
          Places,      \* bound: where there may be something, as sequences of names
          Paths,       \* the paths asked for: [abs, tokens], see IsPath
          PathMax,     \* PATH_MAX
          MaxMeddle    \* bound: the steps of other programs

VARIABLES fs,          \* what there is at every place
          path,        \* the argument of each call
          pc,          \* what each call does next
          at,          \* how many tokens it is done with
          ret,         \* its answer: 0 or -1
          met,         \* history: what came in its way
          meddled      \* bound: the steps others have taken

vars == <<fs, path, pc, at, ret, met, meddled>>

(***************************************************************************)
(* strsep gives the tokens between the slashes behind the first character; *)
(* those of "a//b" and of "a/" are empty in places.                        *)
(***************************************************************************)
IsPath(p) ==
    /\ DOMAIN p = {"abs", "tokens"} /\ p.abs \in BOOLEAN
    /\ p.tokens \in Seq(STRING) /\ Len(p.tokens) > 0
    /\ ~p.abs /\ Len(p.tokens) > 1 => p.tokens[1] # ""

(***************************************************************************)
(* The place that the first k tokens lead to.                              *)
(***************************************************************************)
Named(token) == token # ""

Place(p, k) ==
    LET place[j \in 0..Len(p.tokens)] ==
            IF j = 0 THEN << >>
            ELSE IF Named(p.tokens[j]) THEN Append(place[j - 1], p.tokens[j])
            ELSE place[j - 1]
    IN  place[k]

Parent(place) == SubSeq(place, 1, Len(place) - 1)

PathsGiven ==
    /\ \A p \in Paths : IsPath(p) /\ Place(p, Len(p.tokens)) \in Places
    /\ << >> \in Places
    /\ \A place \in Places : place # << >> => Parent(place) \in Places

(***************************************************************************)
(* `mdir' with k tokens and a slash behind each, in bytes; and the path.   *)
(***************************************************************************)
MdirLen(p, k) == (IF p.abs THEN 1 ELSE 0) + Len(Place(p, k)) + k

strlen(p) == MdirLen(p, Len(p.tokens)) - 1

Active == {c \in Callers : pc[c] \in {"stat", "mkdir"}}

Init ==
    /\ fs \in [Places -> {"none", "dir", "file", "dangling"}]
    /\ fs[<< >>] = "dir"
    /\ \A p \in Places \ {<< >>} : fs[p] # "none" => fs[Parent(p)] = "dir"
    /\ path \in [Callers -> Paths]
    /\ pc = [c \in Callers |-> "idle"] /\ at = [c \in Callers |-> 0]
    /\ ret = [c \in Callers |-> 0] /\ met = [c \in Callers |-> {}]
    /\ meddled = 0
----------------------------------------------------------------------------
(***************************************************************************)
(* The file system's answers for a caller's `mdir'.  A slash at the end    *)
(* asks for a directory, and nothing has the empty name.                   *)
(***************************************************************************)
Here(c) == Place(path[c], at[c] + 1)

Nameless(c) == ~path[c].abs /\ Here(c) = << >>

fstatat(c) ==
    IF \/ Nameless(c)
       \/ fs[Here(c)] = "dangling"
       \/ fs[Here(c)] = "file" /\ path[c].tokens[at[c] + 1] = ""
    THEN "none"
    ELSE fs[Here(c)]

mkdirat(c) ==
    IF Nameless(c) THEN "ENOENT"
    ELSE IF fs[Here(c)] # "none" THEN "EEXIST"
    ELSE IF fs[Parent(Here(c))] # "dir" THEN "ENOENT"
    ELSE "made"
----------------------------------------------------------------------------
Return(c, r) ==
    /\ pc' = [pc EXCEPT ![c] = "ended"]
    /\ ret' = [ret EXCEPT ![c] = r]
    /\ UNCHANGED at

(***************************************************************************)
(* next_component: a slash is appended, and the next token is taken.       *)
(***************************************************************************)
NextComponent(c) ==
    /\ at' = [at EXCEPT ![c] = @ + 1]
    /\ IF at[c] + 1 = Len(path[c].tokens)
       THEN /\ pc' = [pc EXCEPT ![c] = "ended"]
            /\ ret' = [ret EXCEPT ![c] = 0]
       ELSE /\ pc' = [pc EXCEPT ![c] = "stat"]
            /\ UNCHANGED ret

TooLong(c) == strlen(path[c]) >= PathMax

Call(c) ==
    /\ pc[c] = "idle"
    /\ IF TooLong(c)
       THEN Return(c, -1)
       ELSE pc' = [pc EXCEPT ![c] = "stat"] /\ UNCHANGED <<at, ret>>
    /\ UNCHANGED <<fs, path, met, meddled>>

Stat(c) ==
    /\ pc[c] = "stat"
    /\ CASE fstatat(c) = "dir"  -> NextComponent(c)
         [] fstatat(c) = "file" -> Return(c, -1)
         [] OTHER -> pc' = [pc EXCEPT ![c] = "mkdir"] /\ UNCHANGED <<at, ret>>
    /\ UNCHANGED <<fs, path, met, meddled>>

MkdirLost(c, err) == Return(c, -1)     \* faulty: someone was faster, and that is an error

MkdirAgain(c, err) ==                  \* faulty: looks again whether it is a directory
    IF err = "EEXIST"
    THEN pc' = [pc EXCEPT ![c] = "stat"] /\ UNCHANGED <<at, ret>>
    ELSE Return(c, -1)

MkdirFailed(c, err) == IF err = "EEXIST" THEN NextComponent(c) ELSE Return(c, -1)

(***************************************************************************)
(* mkdirat may also be refused (no space, no permission).                  *)
(***************************************************************************)
Mkdir(c) ==
    /\ pc[c] = "mkdir"
    /\ \/ /\ mkdirat(c) = "made"
          /\ fs' = [fs EXCEPT ![Here(c)] = "dir"]
          /\ NextComponent(c) /\ UNCHANGED met
       \/ /\ mkdirat(c) # "made"
          /\ MkdirFailed(c, mkdirat(c)) /\ UNCHANGED <<fs, met>>
       \/ /\ mkdirat(c) = "made"
          /\ met' = [met EXCEPT ![c] = @ \cup {"refused"}]
          /\ MkdirFailed(c, "EACCES") /\ UNCHANGED fs
    /\ UNCHANGED <<path, meddled>>

(***************************************************************************)
(* Other programs remove an empty directory, a file or a link, or create a *)
(* file.  Who may notice is told by the history.                           *)
(***************************************************************************)
OnWay(c, place) == \E k \in 1..Len(path[c].tokens) : Place(path[c], k) = place

Meddle(place, event) ==
    /\ meddled < MaxMeddle /\ meddled' = meddled + 1
    /\ met' = [c \in Callers |->
                  IF OnWay(c, place) /\ pc[c] # "idle"
                  THEN met[c] \cup {event} ELSE met[c]]
    /\ UNCHANGED <<path, pc, at, ret>>

Removed(place) ==
    /\ place # << >> /\ fs[place] # "none"
    /\ \A p \in Places : p # << >> /\ Parent(p) = place => fs[p] = "none"
    /\ fs' = [fs EXCEPT ![place] = "none"]
    /\ Meddle(place, "removed")

FileCreated(place) ==
    /\ place # << >> /\ fs[place] = "none" /\ fs[Parent(place)] = "dir"
    /\ fs' = [fs EXCEPT ![place] = "file"]
    /\ Meddle(place, "file")

Others == \E place \in Places : Removed(place) \/ FileCreated(place)

Step(c) == Call(c) \/ Stat(c) \/ Mkdir(c)

(***************************************************************************)
(* Every call has been answered.                                           *)
(***************************************************************************)
AllEnded == (\A c \in Callers : pc[c] = "ended") /\ UNCHANGED vars

Next == (\E c \in Callers : Step(c)) \/ Others \/ AllEnded

Spec == Init /\ [][Next]_vars /\ \A c \in Callers : WF_vars(Step(c))
----------------------------------------------------------------------------
TypeOK ==
    /\ fs \in [Places -> {"none", "dir", "file", "dangling"}]
    /\ path \in [Callers -> Paths]
    /\ pc \in [Callers -> {"idle", "stat", "mkdir", "ended"}]
    /\ ret \in [Callers -> {0, -1}]
    /\ met \in [Callers -> SUBSET {"removed", "file", "refused"}]
    /\ \A c \in Callers : at[c] \in 0..Len(path[c].tokens)
    /\ \A c \in Active : at[c] < Len(path[c].tokens)

(***************************************************************************)
(* `mdir' has PATH_MAX bytes besides that of its NUL, and the path with a  *)
(* slash at its end fits (line 77, its comment, and line 80).              *)
(***************************************************************************)
MdirFits ==
    \A c \in Callers : pc[c] # "idle" => MdirLen(path[c], at[c]) <= PathMax

Destination(c) == Place(path[c], Len(path[c].tokens))

(***************************************************************************)
(* However many callers make the same or overlapping directories at once,  *)
(* a call that no other program came in the way of succeeds exactly when   *)
(* its directory is there afterwards, unless a link leads nowhere; and it  *)
(* fails only for a path that is empty, too long or led through a file     *)
(* (lines 106 and 116).                                                    *)
(***************************************************************************)
WayIs(c, kind) == \E k \in 1..Len(path[c].tokens) : fs[Place(path[c], k)] = kind

AskedForNothing(c) == ~path[c].abs /\ Destination(c) = << >>

CalmCallMakes ==
    \A c \in Callers :
        pc[c] = "ended" /\ met[c] = {} /\ ~WayIs(c, "dangling") =>
            IF ret[c] = 0
            THEN fs[Destination(c)] = "dir"
            ELSE TooLong(c) \/ AskedForNothing(c) \/ WayIs(c, "file")

(***************************************************************************)
(* What is promised: 0 means success (line 71), a directory that nobody    *)
(* has removed since the call began.  It does not hold: where a path ends  *)
(* in a link to nowhere, or a file is created between the two system       *)
(* calls, EEXIST is taken for success (line 116).                          *)
(***************************************************************************)
SuccessIsDirectory ==
    \A c \in Callers :
        pc[c] = "ended" /\ ret[c] = 0 /\ "removed" \notin met[c] =>
            fs[Destination(c)] = "dir"
=============================================================================
