-------------------------------- MODULE Sleep --------------------------------
(***************************************************************************)
(* ac_time_nsleep (src/ac_time.c:68): a sleep that goes on when a signal   *)
(* interrupts it.  nanosleep(2) and the signals are external.              *)
(***************************************************************************)
EXTENDS Integers

CONSTANTS NsSec,       \* AC_TIME_NS_SEC, nanoseconds in a second
          Durations    \* what is asked for, in nanoseconds

VARIABLES call,        \* nsecs, the argument; req; slept, the time since the call
          pc, ret

vars == <<call, pc, ret>>

Tspec(n)  == [sec |-> n \div NsSec, nsec |-> n % NsSec]
Length(t) == t.sec * NsSec + t.nsec
Valid(t)  == t.nsec < NsSec

Init ==
    /\ \E n \in Durations : call = [nsecs |-> n, req |-> Tspec(0), slept |-> 0]
    /\ pc = "idle" /\ ret = 0

Call ==
    /\ pc = "idle"
    /\ call' = [call EXCEPT !.req = IF call.nsecs < NsSec
                                    THEN [sec |-> 0, nsec |-> call.nsecs]
                                    ELSE Tspec(call.nsecs)]
    /\ pc' = "sleep" /\ UNCHANGED ret

Return(r) == pc' = "done" /\ ret' = r

(***************************************************************************)
(* nanosleep refuses a time that is not one; it sleeps to the end, or is   *)
(* interrupted after some time and gives the remaining time.               *)
(***************************************************************************)
Slept(n) == call.slept + n

SleepOn ==
    /\ pc = "sleep"
    /\ IF Valid(call.req)
       THEN call' = [call EXCEPT !.slept = Slept(Length(call.req))] /\ Return(0)
       ELSE Return(-1) /\ UNCHANGED call

RemainingSeconds(rem) == [call.req EXCEPT !.sec = rem.sec]     \* faulty

Remaining(rem) == rem

Interrupted ==
    /\ pc = "sleep" /\ Valid(call.req)
    /\ \E n \in 1..Length(call.req) :
          call' = [call EXCEPT !.slept = Slept(n),
                               !.req = Remaining(Tspec(Length(call.req) - n))]
    /\ UNCHANGED <<pc, ret>>

Step == Call \/ SleepOn \/ Interrupted

Finished == pc = "done" /\ UNCHANGED vars

Next == Step \/ Finished

Spec == Init /\ [][Next]_vars /\ WF_vars(Step)
----------------------------------------------------------------------------
(***************************************************************************)
(* However often and wherever signals interrupt it, a sleep succeeds, and  *)
(* lasts exactly as long as was asked: no part of a second is lost or      *)
(* slept twice over (ac_time.c:82-92).                                     *)
(***************************************************************************)
SleepsAsAsked ==
    /\ pc = "done" => ret = 0 /\ call.slept = call.nsecs
    /\ pc = "sleep" => call.slept + Length(call.req) = call.nsecs
=============================================================================
