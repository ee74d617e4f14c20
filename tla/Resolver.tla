------------------------------ MODULE Resolver ------------------------------
(***************************************************************************)
(* ac_net_ns_lookup_by_host and ac_net_ns_lookup_by_ip (src/ac_net.c): the *)
(* results of getaddrinfo(3) and getnameinfo(3), which are external, are   *)
(* handed to a callback.                                                   *)
(***************************************************************************)
EXTENDS Integers, Sequences

CONSTANTS Addresses,   \* of hosts
          MaxFound,    \* bound: addresses found for a host
          Junk         \* a local variable that was not set, or memory given back

VARIABLES call,        \* by: host or ip; found: what the resolver found; res: what is
                       \* left of it to go through, or Junk; given: what the callback
                       \* was given; stopped: whether it asked to be called no more
          pc, ret,
          met          \* history: what failed

vars == <<call, pc, ret, met>>

Lists == {s \in UNION {[1..n -> Addresses] : n \in 1..MaxFound} :
             \A i, j \in 1..Len(s) : s[i] = s[j] => i = j}

Text(a) == <<"text", a>>
Name(a) == <<"name", a>>

Init ==
    /\ \E by \in {"host", "ip"} :
          call = [by |-> by, found |-> << >>, res |-> Junk, given |-> << >>, stopped |-> FALSE]
    /\ pc = "idle" /\ ret = 0 /\ met = {}

Return(r) == pc' = "done" /\ ret' = r

(***************************************************************************)
(* getaddrinfo finds something and allocates a list of it.                 *)
(***************************************************************************)
Resolved ==
    /\ pc = "idle"
    /\ \E list \in Lists :
          /\ call.by = "ip" => Len(list) = 1
          /\ call' = [call EXCEPT !.found = list, !.res = list]
    /\ pc' = "callback" /\ UNCHANGED <<ret, met>>

(***************************************************************************)
(* It fails, with one of its error numbers, of which -1 is EAI_BADFLAGS;   *)
(* that is the only one the code takes for a failure.  Otherwise it goes   *)
(* on with a pointer that was not set: to nothing, or to anything.         *)
(***************************************************************************)
Unresolved ==
    /\ pc = "idle"
    /\ met' = {"failed"}
    /\ \E err \in {"EAI_BADFLAGS", "EAI_NONAME"} :
          \/ err = "EAI_BADFLAGS" /\ Return(-1)
          \/ err # "EAI_BADFLAGS" /\ call.by = "host" /\ Return(0)
          \/ err # "EAI_BADFLAGS" /\ pc' = "crashed" /\ UNCHANGED ret
    /\ UNCHANGED call

freeaddrinfo == Junk

(***************************************************************************)
(* One round of the loop: the callback says whether it is to be called     *)
(* again, and after the last round the list is given back.                 *)
(***************************************************************************)
OnAnyway(again, rest) == rest # << >>        \* faulty: the answer is ignored

On(again, rest) == again /\ rest # << >>

HostCallback(again) ==
    LET rest == Tail(call.res)
        call1 == [call EXCEPT !.given = Append(@, Text(Head(call.res))), !.stopped = ~again]
    IN  /\ pc = "callback" /\ call.by = "host"
        /\ IF On(again, rest)
           THEN call' = [call1 EXCEPT !.res = rest] /\ UNCHANGED <<pc, ret>>
           ELSE call' = [call1 EXCEPT !.res = freeaddrinfo] /\ Return(0)
        /\ UNCHANGED met

(***************************************************************************)
(* getnameinfo may find no name, which the code does not notice: `host' is *)
(* then what it was.                                                       *)
(***************************************************************************)
IpCallback ==
    /\ pc = "callback" /\ call.by = "ip"
    /\ \/ call' = [call EXCEPT !.given = <<Name(Head(call.res))>>, !.res = freeaddrinfo]
          /\ UNCHANGED met
       \/ call' = [call EXCEPT !.given = <<Junk>>, !.res = freeaddrinfo]
          /\ met' = {"unnamed"}
    /\ Return(0)

Step == Resolved \/ Unresolved \/ (\E again \in BOOLEAN : HostCallback(again)) \/ IpCallback

Ended    == pc \in {"done", "crashed"}
Finished == Ended /\ UNCHANGED vars

Next == Step \/ Finished

Spec == Init /\ [][Next]_vars /\ WF_vars(Step)
----------------------------------------------------------------------------
Wanted == IF call.by = "ip" THEN <<Name(call.found[1])>>
          ELSE [i \in 1..Len(call.found) |-> Text(call.found[i])]

(***************************************************************************)
(* Where the resolver found something, the callback is given the addresses *)
(* in order, all of them unless it asked to stop, and none after that; in  *)
(* the end the list is given back, and not while it is in use              *)
(* (ac_net.c:123-132).                                                     *)
(***************************************************************************)
LookupDelivers ==
    call.found # << >> /\ met = {} =>
        /\ call.given = SubSeq(Wanted, 1, Len(call.given))
        /\ call.stopped => pc = "done"
        /\ pc = "done" => /\ ret = 0 /\ call.res = Junk
                          /\ call.stopped \/ call.given = Wanted
        /\ pc = "callback" => call.res # Junk

(***************************************************************************)
(* ac_net.c:109 and :147: "0 on success, -1 on failure check errno".       *)
(***************************************************************************)
FailureReported == Ended /\ "failed" \in met => pc = "done" /\ ret = -1
=============================================================================
