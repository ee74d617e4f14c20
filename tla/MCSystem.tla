------------------------------ MODULE MCSystem ------------------------------
(***************************************************************************)
(* The helpers that meet the system, of which each behaviour takes one:    *)
(* two callers that make directories, or that copy files; or a single call *)
(* that loads a file, sleeps or looks up a host.  The modules share the    *)
(* variables that tell where a call is, what it has, and its answer.       *)
(***************************************************************************)
EXTENDS Copy

CONSTANTS f, g,
          Places, Paths, PathMax,      \* of MkdirP
          BufSize, LongestFile,        \* of JsonLoad
          NsSec, Durations,            \* of Sleep
          Addresses, MaxFound, Unset   \* of Resolver

VARIABLES fs, path, at,     \* of MkdirP
          kind

allVars  == <<vars, fs, path, at, kind>>
dirsOnly == <<fs, path, at>>
----------------------------------------------------------------------------
(***************************************************************************)
(* Copies that race for one destination, go opposite ways, and copy a file *)
(* onto itself.                                                            *)
(***************************************************************************)
MCRequests == {<<f, g, "none">>, <<f, g, "overwrite">>, <<g, f, "overwrite">>,
               <<f, f, "overwrite">>, <<f, g, "unknown">>}

(***************************************************************************)
(* Paths with and without a slash in front, with empty tokens inside and   *)
(* at the end, empty, the root, and too long by one.                       *)
(***************************************************************************)
PathOf(slash, tokens) == [abs |-> slash, tokens |-> tokens]

MCPaths == {PathOf(FALSE, <<"a">>), PathOf(TRUE, <<"a", "b">>),
            PathOf(FALSE, <<"a", "", "b">>), PathOf(FALSE, <<"a", "b", "">>),
            PathOf(FALSE, <<"">>), PathOf(TRUE, <<"">>), PathOf(TRUE, <<"a", "", "b">>)}

MCPlaces == {<< >>, <<"a">>, <<"a", "b">>}

MCDurations == 0..11

Dirs == INSTANCE MkdirP

Loading  == INSTANCE JsonLoad WITH MaxSize <- LongestFile
Sleeping == INSTANCE Sleep
Lookups  == INSTANCE Resolver WITH Junk <- Unset

ASSUME PathsAssumption == Dirs!PathsGiven /\ PathMax \in Nat \ {0}

ASSUME NumbersAssumption ==
    /\ BufSize \in Nat /\ LongestFile \in Nat /\ MaxFound \in Nat
    /\ NsSec \in Nat \ {0} /\ Durations \subseteq Nat

ASSUME UnsetAssumption == \A n \in 0..MaxFound : Unset \notin [1..n -> Addresses]
----------------------------------------------------------------------------
NoDirs  == fs = << >> /\ path = << >> /\ at = << >>
NoFiles == linux = TRUE /\ meddled = 0

SystemInit ==
    \/ kind = "copy" /\ Init /\ NoDirs
    \/ kind = "mkdir" /\ Dirs!Init /\ linux = TRUE /\ file = << >> /\ call = << >>
    \/ kind = "load" /\ Loading!Init /\ NoDirs /\ NoFiles
    \/ kind = "sleep" /\ Sleeping!Init /\ NoDirs /\ NoFiles /\ file = << >> /\ met = {}
    \/ kind = "lookup" /\ Lookups!Init /\ NoDirs /\ NoFiles /\ file = << >>

NotDirs  == UNCHANGED <<dirsOnly, kind>>
NotFiles == UNCHANGED <<linux, meddled, dirsOnly, kind>>

CopyStep(c) == kind = "copy" /\ Step(c) /\ NotDirs

MkdirStep(c) == kind = "mkdir" /\ Dirs!Step(c) /\ UNCHANGED <<linux, file, call, kind>>

SingleStep ==
    \/ kind = "load" /\ Loading!Step /\ NotFiles
    \/ kind = "sleep" /\ Sleeping!Step /\ UNCHANGED <<file, met>> /\ NotFiles
    \/ kind = "lookup" /\ Lookups!Step /\ UNCHANGED file /\ NotFiles

SystemNext ==
    \/ \E c \in Callers : CopyStep(c) \/ MkdirStep(c)
    \/ kind = "copy" /\ (Others \/ AllDone) /\ NotDirs
    \/ kind = "mkdir" /\ (Dirs!Others \/ Dirs!AllEnded) /\ UNCHANGED <<linux, file, call, kind>>
    \/ SingleStep
    \/ kind = "load" /\ (Loading!Appended \/ Loading!Finished) /\ NotFiles
    \/ kind = "sleep" /\ Sleeping!Finished /\ UNCHANGED <<file, met>> /\ NotFiles
    \/ kind = "lookup" /\ Lookups!Finished /\ UNCHANGED file /\ NotFiles

Fairness ==
    /\ \A c \in Callers : WF_allVars(CopyStep(c)) /\ WF_allVars(MkdirStep(c))
    /\ WF_allVars(SingleStep)

SystemSpec == SystemInit /\ [][SystemNext]_allVars /\ Fairness
----------------------------------------------------------------------------
(***************************************************************************)
(* The properties of MkdirP (ac_fs.c:73-127) and Copy (140-188), each      *)
(* where it applies.                                                       *)
(***************************************************************************)
MkdirMakes          == kind = "mkdir" => Dirs!TypeOK /\ Dirs!CalmCallMakes /\ Dirs!MdirFits
WholeCopies         == kind = "copy" => TypeOK /\ CopyIsWhole /\ OneWinner
CopyFailsForAReason == kind = "copy" => FailsForAReason
CopiesEmpty         == kind = "copy" => EmptyIsCopied

(***************************************************************************)
(* The properties of JsonLoad (ac_json.c:29-78), Sleep (ac_time.c:68-93)   *)
(* and Resolver (ac_net.c:111-168).                                        *)
(***************************************************************************)
WholeLoads      == kind = "load" => Loading!LoadsWhole
SleepsAsAsked   == kind = "sleep" => Sleeping!SleepsAsAsked
LookupDelivers  == kind = "lookup" => Lookups!LookupDelivers
FailureReported == kind = "lookup" => Lookups!FailureReported

(***************************************************************************)
(* Every call of a helper that makes system calls or calls back is         *)
(* answered (ac_fs.c:93, file_copy, ac_json.c:39, ac_time.c:83,            *)
(* ac_net.c:123).                                                          *)
(***************************************************************************)
HasEnded ==
    CASE kind = "mkdir"   -> \A c \in Callers : pc[c] = "ended"
      [] kind = "copy"    -> \A c \in Callers : pc[c] = "done"
      [] kind = "lookup"  -> Lookups!Ended
      [] kind \in {"load", "sleep"} -> pc = "done"
      [] OTHER            -> TRUE

AllAnswered == <>HasEnded
=============================================================================
