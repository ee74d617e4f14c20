---------------------------- MODULE SystemProofs ----------------------------
(***************************************************************************)
(* Proofs about the helpers of MCSystem.                                   *)
(***************************************************************************)
EXTENDS MCSystem, Lemmas

(***************************************************************************)
(* A behaviour stays with its kind of helper, and a step of it is one of   *)
(* that helper's.                                                          *)
(***************************************************************************)
LEMMA Kinds ==
    ASSUME [SystemNext]_allVars
    PROVE  /\ kind' = kind
           /\ kind = "copy" => [Next]_vars
           /\ kind = "mkdir" => [Dirs!Next]_(Dirs!vars)
           /\ kind = "load" => [Loading!Next]_(Loading!vars)
           /\ kind = "sleep" => [Sleeping!Next]_(Sleeping!vars)
           /\ kind = "lookup" => [Lookups!Next]_(Lookups!vars)
  <1>1. CASE UNCHANGED allVars
        BY <1>1 DEF allVars, vars, Dirs!vars, Loading!vars, Sleeping!vars, Lookups!vars
  <1>2. ASSUME NEW c \in Callers, CopyStep(c)
        PROVE  kind' = kind /\ kind = "copy" /\ Next
        BY <1>2 DEF CopyStep, NotDirs, Next
  <1>3. ASSUME NEW c \in Callers, MkdirStep(c)
        PROVE  kind' = kind /\ kind = "mkdir" /\ Dirs!Next
        BY <1>3 DEF MkdirStep, Dirs!Next
  <1>4. ASSUME SingleStep
        PROVE  /\ kind' = kind
               /\ \/ kind = "load" /\ Loading!Next
                  \/ kind = "sleep" /\ Sleeping!Next
                  \/ kind = "lookup" /\ Lookups!Next
        BY <1>4 DEF SingleStep, NotFiles, Loading!Next, Sleeping!Next, Lookups!Next
  <1>5. ASSUME kind = "copy" /\ (Others \/ AllDone) /\ NotDirs
        PROVE  kind' = kind /\ kind = "copy" /\ Next
        BY <1>5 DEF NotDirs, Next
  <1>6. ASSUME kind = "mkdir" /\ (Dirs!Others \/ Dirs!AllEnded) /\ UNCHANGED <<linux, file, call, kind>>
        PROVE  kind' = kind /\ kind = "mkdir" /\ Dirs!Next
        BY <1>6 DEF Dirs!Next
  <1>7. ASSUME \/ kind = "load" /\ (Loading!Appended \/ Loading!Finished) /\ NotFiles
               \/ kind = "sleep" /\ Sleeping!Finished /\ UNCHANGED <<file, met>> /\ NotFiles
               \/ kind = "lookup" /\ Lookups!Finished /\ UNCHANGED file /\ NotFiles
        PROVE  /\ kind' = kind
               /\ \/ kind = "load" /\ Loading!Next
                  \/ kind = "sleep" /\ Sleeping!Next
                  \/ kind = "lookup" /\ Lookups!Next
        BY <1>7 DEF NotFiles, Loading!Next, Sleeping!Next, Lookups!Next
  <1> QED BY <1>1, <1>2, <1>3, <1>4, <1>5, <1>6, <1>7 DEF SystemNext
----------------------------------------------------------------------------
(***************************************************************************)
(* Sleep.  What was asked for and is not slept yet is in req.              *)
(***************************************************************************)
SleepInv ==
    /\ call \in [nsecs : Nat, req : [sec : Nat, nsec : Nat], slept : Nat]
    /\ pc \in {"idle", "sleep", "done"}
    /\ pc = "idle" => call.slept = 0
    /\ pc = "sleep" => call.req.nsec < NsSec
    /\ Sleeping!SleepsAsAsked

LEMMA TimeIsWhole ==
    ASSUME NEW n \in Nat
    PROVE  /\ Sleeping!Tspec(n) \in [sec : Nat, nsec : 0..NsSec - 1]
           /\ Sleeping!Length(Sleeping!Tspec(n)) = n
  BY NumbersAssumption DEF Sleeping!Tspec, Sleeping!Length

LEMMA SleepStarts == Sleeping!Init => SleepInv
  <1> SUFFICES ASSUME Sleeping!Init PROVE SleepInv
      OBVIOUS
  <1>1. PICK n \in Durations : call = [nsecs |-> n, req |-> Sleeping!Tspec(0), slept |-> 0]
        BY DEF Sleeping!Init
  <1>2. n \in Nat
        BY NumbersAssumption
  <1>3. Sleeping!Tspec(0) \in [sec : Nat, nsec : Nat]
        BY TimeIsWhole
  <1> QED BY <1>1, <1>2, <1>3 DEF Sleeping!Init, SleepInv, Sleeping!SleepsAsAsked

LEMMA SleepGoesOn == SleepInv /\ [Sleeping!Next]_(Sleeping!vars) => SleepInv'
  <1> SUFFICES ASSUME SleepInv, [Sleeping!Next]_(Sleeping!vars) PROVE SleepInv'
      OBVIOUS
  <1> USE NumbersAssumption
  <1>1. CASE UNCHANGED Sleeping!vars
        BY <1>1 DEF Sleeping!vars, SleepInv, Sleeping!SleepsAsAsked, Sleeping!Length
  <1>2. CASE Sleeping!Call
    <2> DEFINE req == IF call.nsecs < NsSec THEN [sec |-> 0, nsec |-> call.nsecs]
                      ELSE Sleeping!Tspec(call.nsecs)
    <2>1. call.nsecs \in Nat /\ call.slept = 0
          BY <1>2 DEF SleepInv, Sleeping!Call
    <2>2. /\ req \in [sec : Nat, nsec : 0..NsSec - 1]
          /\ Sleeping!Length(req) = call.nsecs
      <3>1. CASE call.nsecs < NsSec
            BY <2>1, <3>1 DEF Sleeping!Length
      <3>2. CASE ~(call.nsecs < NsSec)
            BY <2>1, <3>2, TimeIsWhole
      <3> QED BY <3>1, <3>2
    <2>3. call' = [call EXCEPT !.req = req] /\ pc' = "sleep" /\ ret' = ret
          BY <1>2 DEF Sleeping!Call
    <2> HIDE DEF req
    <2>4. /\ call' \in [nsecs : Nat, req : [sec : Nat, nsec : Nat], slept : Nat]
          /\ call'.req = req /\ call'.slept = 0 /\ call'.nsecs = call.nsecs
          BY <2>1, <2>2, <2>3 DEF SleepInv
    <2>5. Sleeping!Length(call'.req) = call.nsecs
          BY <2>2, <2>4
    <2>6. req.nsec < NsSec
          BY <2>2
    <2> QED BY <2>1, <2>3, <2>4, <2>5, <2>6 DEF SleepInv, Sleeping!SleepsAsAsked, Sleeping!Length
  <1>3. CASE Sleeping!SleepOn
    <2>1. /\ pc = "sleep" /\ Sleeping!Valid(call.req)
          /\ call.slept + Sleeping!Length(call.req) = call.nsecs
          BY <1>3 DEF Sleeping!SleepOn, SleepInv, Sleeping!SleepsAsAsked, Sleeping!Valid
    <2>2. call' = [call EXCEPT !.slept = call.nsecs] /\ pc' = "done" /\ ret' = 0
          BY <1>3, <2>1 DEF Sleeping!SleepOn, Sleeping!Return, Sleeping!Slept
    <2> QED BY <2>2 DEF SleepInv, Sleeping!SleepsAsAsked
  <1>4. CASE Sleeping!Interrupted
    <2> DEFINE all == Sleeping!Length(call.req)
    <2>1. call.slept + all = call.nsecs /\ all \in Nat /\ call.slept \in Nat
          BY <1>4 DEF Sleeping!Interrupted, SleepInv, Sleeping!SleepsAsAsked, Sleeping!Length
    <2>2. PICK n \in 1..all :
             call' = [call EXCEPT !.slept = call.slept + n, !.req = Sleeping!Tspec(all - n)]
          BY <1>4 DEF Sleeping!Interrupted, Sleeping!Slept, Sleeping!Remaining
    <2>3. pc' = "sleep" /\ ret' = ret
          BY <1>4 DEF Sleeping!Interrupted
    <2> HIDE DEF all
    <2> DEFINE req == Sleeping!Tspec(all - n)
    <2>4. /\ req \in [sec : Nat, nsec : 0..NsSec - 1]
          /\ Sleeping!Length(req) = all - n
          BY <2>1, TimeIsWhole
    <2>5. call' = [call EXCEPT !.slept = call.slept + n, !.req = req]
          BY <2>2
    <2> HIDE DEF req
    <2>6. /\ call' \in [nsecs : Nat, req : [sec : Nat, nsec : Nat], slept : Nat]
          /\ call'.req = req /\ call'.slept = call.slept + n /\ call'.nsecs = call.nsecs
      <3> DEFINE m == call.slept + n
      <3>1. m \in Nat /\ req \in [sec : Nat, nsec : Nat]
            BY <2>1, <2>4
      <3>2. call' = [call EXCEPT !.slept = m, !.req = req]
            BY <2>5
      <3> HIDE DEF m
      <3>3. /\ call' \in [nsecs : Nat, req : [sec : Nat, nsec : Nat], slept : Nat]
            /\ call'.req = req /\ call'.slept = m /\ call'.nsecs = call.nsecs
            BY <3>1, <3>2 DEF SleepInv
      <3> QED BY <3>3 DEF m
    <2>7. call'.slept + Sleeping!Length(call'.req) = call'.nsecs
          BY <2>1, <2>4, <2>6
    <2>8. req.nsec < NsSec
          BY <2>4
    <2> QED BY <2>3, <2>6, <2>7, <2>8 DEF SleepInv, Sleeping!SleepsAsAsked, Sleeping!Length
  <1>5. CASE Sleeping!Finished
        BY <1>1, <1>5 DEF Sleeping!Finished
  <1> QED BY <1>1, <1>2, <1>3, <1>4, <1>5 DEF Sleeping!Next, Sleeping!Step

(***************************************************************************)
(* A sleep lasts as long as was asked, however often signals interrupt it  *)
(* (ac_time.c:82-92).                                                      *)
(***************************************************************************)
THEOREM SleepLasts == SystemSpec => []SleepsAsAsked
  <1> DEFINE I == kind = "sleep" => SleepInv
  <1>1. SystemInit => I
        BY SleepStarts DEF SystemInit
  <1>2. I /\ [SystemNext]_allVars => I'
        BY Kinds, SleepGoesOn
  <1>3. I => SleepsAsAsked
        BY DEF SleepInv, SleepsAsAsked
  <1> QED BY <1>1, <1>2, <1>3, PTL DEF SystemSpec
----------------------------------------------------------------------------
(***************************************************************************)
(* Lookups.  The first k addresses were given to the callback, and what is *)
(* left of the list follows.                                               *)
(***************************************************************************)
Given(k) ==
    /\ call.given = [i \in 1..k |-> Lookups!Text(call.found[i])]
    /\ call.res = [i \in 1..Len(call.found) - k |-> call.found[k + i]]

LookupInv ==
    /\ call \in [by : {"host", "ip"}, found : {call.found}, res : {call.res},
                 given : {call.given}, stopped : BOOLEAN]
    /\ pc \in {"idle", "callback", "done", "crashed"}
    /\ pc \in {"idle", "crashed"} => call.found = << >>
    /\ pc = "callback" =>
          /\ met = {} /\ ret = 0 /\ ~call.stopped
          /\ \E n \in 1..MaxFound : call.found \in [1..n -> Addresses]
          /\ \E k \in 0..Len(call.found) - 1 : Given(k)
          /\ call.by = "ip" => Len(call.found) = 1
    /\ pc = "idle" => ret = 0 /\ met = {} /\ call.given = << >> /\ ~call.stopped
    /\ Lookups!LookupDelivers

(***************************************************************************)
(* Before the last address has been given, the list is still allocated.    *)
(***************************************************************************)
LEMMA LookupGives ==
    ASSUME NEW n \in 1..MaxFound, call.found \in [1..n -> Addresses],
           NEW k \in 0..n - 1, Given(k),
           met = {}, ret = 0, ~call.stopped, pc = "callback",
           call.by \in {"host", "ip"}, call.by = "ip" => n = 1
    PROVE  /\ Len(call.found) = n
           /\ call.res # Unset
           /\ Lookups!LookupDelivers
  <1> USE NumbersAssumption
  <1>1. Len(call.found) = n /\ n \in Nat
        OBVIOUS
  <1>2. call.res # Unset
    <2>1. n - k \in 0..MaxFound
          OBVIOUS
    <2>2. call.res \in [1..n - k -> Addresses]
          BY <1>1 DEF Given
    <2> QED BY <2>1, <2>2, UnsetAssumption
  <1>3. call.given = SubSeq(Lookups!Wanted, 1, Len(call.given))
    <2>1. Len(call.given) = k
          BY DEF Given
    <2>2. CASE k = 0
      <3>1. call.given = << >>
            BY <2>2 DEF Given
      <3>2. SubSeq(Lookups!Wanted, 1, 0) = << >>
            OBVIOUS
      <3> QED BY <2>1, <2>2, <3>1, <3>2
    <2>3. CASE k # 0
      <3>1. call.by = "host"
            BY <2>3
      <3>2. Lookups!Wanted = [i \in 1..n |-> Lookups!Text(call.found[i])]
            BY <1>1, <3>1 DEF Lookups!Wanted
      <3>3. SubSeq(Lookups!Wanted, 1, k) = [i \in 1..k |-> Lookups!Text(call.found[i])]
            BY <2>3, <3>2
      <3> QED BY <2>1, <3>3 DEF Given
    <2> QED BY <2>2, <2>3
  <1> QED BY <1>1, <1>2, <1>3 DEF Lookups!LookupDelivers

LEMMA LookupStarts == Lookups!Init => LookupInv
  <1> SUFFICES ASSUME Lookups!Init PROVE LookupInv
      OBVIOUS
  <1>1. PICK by \in {"host", "ip"} :
           call = [by |-> by, found |-> << >>, res |-> Unset, given |-> << >>, stopped |-> FALSE]
        BY DEF Lookups!Init
  <1> QED BY <1>1 DEF Lookups!Init, LookupInv, Lookups!LookupDelivers

(***************************************************************************)
(* The same, to be used of the state that follows a step.                  *)
(***************************************************************************)
GivesRight ==
    \A n \in 1..MaxFound : \A k \in 0..n - 1 :
       /\ call.found \in [1..n -> Addresses] /\ Given(k)
       /\ met = {} /\ ret = 0 /\ ~call.stopped /\ pc = "callback"
       /\ call.by \in {"host", "ip"} /\ (call.by = "ip" => n = 1)
       => Lookups!LookupDelivers

LEMMA GivesRightly == GivesRight
  BY LookupGives DEF GivesRight

LEMMA GivesRightThen == GivesRight'
  BY GivesRightly, PTL

LEMMA ResolvedGives == LookupInv /\ Lookups!Resolved => LookupInv'
  <1> SUFFICES ASSUME LookupInv, Lookups!Resolved PROVE LookupInv'
      OBVIOUS
  <1> USE NumbersAssumption
  <1>1. PICK list \in Lookups!Lists :
           /\ call.by = "ip" => Len(list) = 1
           /\ call' = [call EXCEPT !.found = list, !.res = list]
        BY DEF Lookups!Resolved
  <1>2. PICK n \in 1..MaxFound : list \in [1..n -> Addresses]
        BY DEF Lookups!Lists
  <1>3. /\ pc = "idle" /\ ret = 0 /\ met = {} /\ call.given = << >> /\ ~call.stopped
        /\ pc' = "callback" /\ ret' = ret /\ met' = met /\ call.by \in {"host", "ip"}
        BY DEF Lookups!Resolved, LookupInv
  <1>4. /\ call'.found = list /\ call'.res = list /\ call'.by = call.by
        /\ call'.given = << >> /\ ~call'.stopped
        /\ call' \in [by : {"host", "ip"}, found : {call'.found}, res : {call'.res},
                      given : {call'.given}, stopped : BOOLEAN]
        BY <1>1, <1>3 DEF LookupInv
  <1>5. n \in Nat /\ Len(list) = n /\ 0 \in 0..n - 1
        BY <1>2
  <1>6. Given(0)'
    <2>1. call'.given = [i \in 1..0 |-> Lookups!Text(call'.found[i])]
          BY <1>4
    <2>2. call'.res = [i \in 1..n - 0 |-> call'.found[0 + i]]
          BY <1>2, <1>4, <1>5
    <2> QED BY <1>4, <1>5, <2>1, <2>2 DEF Given, Lookups!Text
  <1>7. Lookups!LookupDelivers'
    <2>1. call'.found \in [1..n -> Addresses] /\ call'.by \in {"host", "ip"}
          /\ (call'.by = "ip" => n = 1)
          BY <1>1, <1>2, <1>3, <1>4, <1>5
    <2> QED BY <1>3, <1>4, <1>5, <1>6, <2>1, GivesRightThen DEF GivesRight
  <1> QED BY <1>1, <1>2, <1>3, <1>4, <1>5, <1>6, <1>7 DEF LookupInv

LEMMA HostIsGiven ==
    ASSUME LookupInv, NEW again \in BOOLEAN, Lookups!HostCallback(again)
    PROVE  LookupInv'
  <1> USE NumbersAssumption
  <1> DEFINE found == call.found
  <1>1. PICK n \in 1..MaxFound : found \in [1..n -> Addresses]
        BY DEF Lookups!HostCallback, LookupInv
  <1>2. n \in Nat /\ Len(found) = n
        BY <1>1
  <1>3. PICK k \in 0..n - 1 : Given(k)
        BY <1>2 DEF Lookups!HostCallback, LookupInv
  <1>4. /\ pc = "callback" /\ met = {} /\ met' = {} /\ ret = 0 /\ ~call.stopped /\ call.by = "host"
        BY DEF Lookups!HostCallback, LookupInv
  <1> DEFINE rest  == Tail(call.res)
             given == Append(call.given, Lookups!Text(Head(call.res)))
             left  == [i \in 1..n - (k + 1) |-> found[(k + 1) + i]]
             done  == [i \in 1..k + 1 |-> Lookups!Text(found[i])]
  <1>5. rest = left /\ (rest = << >> <=> k + 1 = n)
    <2> DEFINE r == call.res
               m == n - k
    <2>1. m \in Nat \ {0} /\ k \in Nat /\ r = [i \in 1..m |-> found[k + i]]
          BY <1>2, <1>3 DEF Given
    <2>2. r \in Seq(Addresses) /\ Len(r) = m
      <3>1. \A i \in 1..m : k + i \in 1..n
            BY <1>2
      <3> HIDE DEF found, r, m
      <3> QED BY <1>1, <2>1, <3>1
    <2>3. m - 1 \in Nat /\ n - (k + 1) = m - 1
          BY <1>2, <2>1
    <2> HIDE DEF r, found, m
    <2>4. /\ Tail(r) \in Seq(Addresses) /\ Len(Tail(r)) = m - 1
          /\ \A i \in 1..m - 1 : Tail(r)[i] = r[i + 1]
      <3>1. r # << >>
            BY <2>1, <2>2
      <3> QED BY <2>2, <3>1
    <2>5. \A i \in 1..m - 1 : Tail(r)[i] = found[(k + 1) + i]
      <3> SUFFICES ASSUME NEW i \in 1..m - 1 PROVE Tail(r)[i] = found[(k + 1) + i]
          OBVIOUS
      <3>1. Tail(r)[i] = r[i + 1] /\ i + 1 \in 1..m
            BY <2>1, <2>3, <2>4
      <3>2. k + (i + 1) = (k + 1) + i
            BY <1>2, <2>3
      <3> QED BY <2>1, <3>1, <3>2
    <2>6. Tail(r) = [i \in 1..m - 1 |-> found[(k + 1) + i]]
      <3> DEFINE t == Tail(r)
      <3>1. t \in Seq(Addresses) /\ Len(t) = m - 1
            BY <2>4
      <3> HIDE DEF t
      <3>2. t \in [1..m - 1 -> Addresses]
            BY <3>1
      <3>3. Tail(r) \in [1..m - 1 -> Addresses]
            BY <3>2 DEF t
      <3> QED BY <2>5, <3>3
    <2>7. (Tail(r) = << >> <=> m - 1 = 0) /\ (m - 1 = 0 <=> k + 1 = n)
      <3>1. m - 1 = 0 <=> k + 1 = n
            BY <1>2, <2>1 DEF m
      <3> QED BY <2>3, <2>4, <3>1
    <2> QED BY <2>3, <2>6, <2>7 DEF r
  <1>6. given = done
    <2>1. Head(call.res) = found[k + 1]
          BY <1>2, <1>3 DEF Given
    <2>2. call.given = [i \in 1..k |-> Lookups!Text(found[i])]
          BY <1>3 DEF Given
    <2> HIDE DEF found
    <2> QED BY <2>1, <2>2
  <1> HIDE DEF given, rest, left, done, found
  <1>7. \/ /\ again /\ rest # << >>
           /\ call' = [call EXCEPT !.given = given, !.stopped = ~again, !.res = rest]
           /\ pc' = pc /\ ret' = ret
        \/ /\ ~again \/ rest = << >>
           /\ call' = [call EXCEPT !.given = given, !.stopped = ~again, !.res = Unset]
           /\ pc' = "done" /\ ret' = 0
        BY DEF Lookups!HostCallback, Lookups!On, Lookups!Return, Lookups!freeaddrinfo, given, rest
  <1>8. /\ call'.found = found /\ call'.given = done /\ call'.stopped = ~again /\ call'.by = "host"
        /\ call' \in [by : {"host", "ip"}, found : {call'.found}, res : {call'.res},
                      given : {call'.given}, stopped : BOOLEAN]
        BY <1>4, <1>6, <1>7 DEF LookupInv, found
  <1>9. CASE again /\ rest # << >>
    <2>1. call'.res = left /\ pc' = "callback" /\ ret' = 0 /\ k + 1 \in 0..n - 1
      <3>1. k + 1 # n
            BY <1>5, <1>9
      <3>2. k + 1 \in 0..n - 1
            BY <1>2, <3>1
      <3> QED BY <1>4, <1>5, <1>7, <1>9, <3>2 DEF LookupInv
    <2>2. Given(k + 1)'
          BY <1>2, <1>8, <2>1 DEF Given, left, done, Lookups!Text
    <2>3. Lookups!LookupDelivers'
          BY <1>1, <1>4, <1>8, <1>9, <2>1, <2>2, GivesRightThen DEF GivesRight
    <2> QED BY <1>1, <1>2, <1>4, <1>8, <1>9, <2>1, <2>2, <2>3 DEF LookupInv
  <1>10. CASE ~again \/ rest = << >>
    <2>1. call'.res = Unset /\ pc' = "done" /\ ret' = 0
          BY <1>7, <1>10 DEF LookupInv
    <2>2. Lookups!Wanted' = [i \in 1..n |-> Lookups!Text(found[i])]
          BY <1>2, <1>8 DEF Lookups!Wanted, Lookups!Text
    <2>3. Len(done) = k + 1 /\ done = SubSeq(Lookups!Wanted', 1, k + 1)
          BY <1>2, <2>2 DEF done
    <2>4. again => done = Lookups!Wanted'
          BY <1>5, <1>10, <2>2 DEF done
    <2>5. Lookups!LookupDelivers'
          BY <1>8, <2>1, <2>3, <2>4 DEF Lookups!LookupDelivers
    <2> QED BY <1>8, <2>1, <2>5 DEF LookupInv
  <1> QED BY <1>9, <1>10

LEMMA LookupGoesOn == LookupInv /\ [Lookups!Next]_(Lookups!vars) => LookupInv'
  <1> SUFFICES ASSUME LookupInv, [Lookups!Next]_(Lookups!vars) PROVE LookupInv'
      OBVIOUS
  <1>1. CASE UNCHANGED Lookups!vars
    <2>1. call' = call /\ pc' = pc /\ ret' = ret /\ met' = met
          BY <1>1 DEF Lookups!vars
    <2>2. Lookups!Wanted' = Lookups!Wanted
          BY <2>1 DEF Lookups!Wanted, Lookups!Text, Lookups!Name
    <2>3. Lookups!LookupDelivers'
          BY <2>1, <2>2 DEF LookupInv, Lookups!LookupDelivers
    <2>4. \A k : Given(k) <=> Given(k)'
          BY <2>1 DEF Given, Lookups!Text
    <2> QED BY <2>1, <2>3, <2>4 DEF LookupInv
  <1>2. CASE Lookups!Resolved
        BY <1>2, ResolvedGives
  <1>3. CASE Lookups!Unresolved
    <2>1. call' = call /\ call.found = << >> /\ pc' \in {"done", "crashed"}
          BY <1>3 DEF Lookups!Unresolved, Lookups!Return, LookupInv
    <2> QED BY <2>1 DEF LookupInv, Lookups!LookupDelivers
  <1>4. CASE \E again \in BOOLEAN : Lookups!HostCallback(again)
        BY <1>4, HostIsGiven
  <1>5. CASE Lookups!IpCallback
    <2> DEFINE name == Lookups!Name(Head(call.res))
    <2>1. /\ pc' = "done" /\ ret' = 0 /\ call.by = "ip" /\ ~call.stopped /\ met = {}
          /\ Len(call.found) = 1
          BY <1>5 DEF Lookups!IpCallback, Lookups!Return, LookupInv
    <2>2. PICK k \in 0..0 : Given(k)
          BY <1>5, <2>1 DEF Lookups!IpCallback, LookupInv
    <2>3. Head(call.res) = call.found[1]
          BY <2>1, <2>2 DEF Given
    <2>4. \/ call' = [call EXCEPT !.given = <<name>>, !.res = Unset] /\ met' = met
          \/ call' = [call EXCEPT !.given = <<Unset>>, !.res = Unset] /\ met' = {"unnamed"}
          BY <1>5 DEF Lookups!IpCallback, Lookups!freeaddrinfo
    <2> HIDE DEF name
    <2>5. /\ call'.found = call.found /\ call'.res = Unset /\ call'.by = "ip" /\ ~call'.stopped
          /\ call' \in [by : {"host", "ip"}, found : {call'.found}, res : {call'.res},
                        given : {call'.given}, stopped : BOOLEAN]
          /\ met' = {} => call'.given = <<name>>
          BY <2>1, <2>4 DEF LookupInv
    <2>6. Lookups!Wanted' = <<name>>
          BY <2>3, <2>5 DEF Lookups!Wanted, Lookups!Name, name
    <2>7. Lookups!LookupDelivers'
          BY <2>1, <2>5, <2>6 DEF Lookups!LookupDelivers
    <2> QED BY <2>1, <2>5, <2>7 DEF LookupInv
  <1>6. CASE Lookups!Finished
        BY <1>1, <1>6 DEF Lookups!Finished
  <1> QED BY <1>1, <1>2, <1>3, <1>4, <1>5, <1>6 DEF Lookups!Next, Lookups!Step

(***************************************************************************)
(* The callback is given what the resolver found, in order, and all of it  *)
(* unless it asks to stop; the list is given back behind its last use      *)
(* (ac_net.c:123-132).                                                     *)
(***************************************************************************)
THEOREM LookupsDeliver == SystemSpec => []LookupDelivers
  <1> DEFINE I == kind = "lookup" => LookupInv
  <1>1. SystemInit => I
        BY LookupStarts DEF SystemInit
  <1>2. I /\ [SystemNext]_allVars => I'
        BY Kinds, LookupGoesOn
  <1>3. I => LookupDelivers
        BY DEF LookupInv, LookupDelivers
  <1> QED BY <1>1, <1>2, <1>3, PTL DEF SystemSpec
----------------------------------------------------------------------------
(***************************************************************************)
(* Parts of sequences.                                                     *)
(***************************************************************************)
LEMMA Part ==
    ASSUME NEW S, NEW s \in Seq(S), NEW a \in Nat, NEW n \in Nat, a + n <= Len(s)
    PROVE  /\ SubSeq(s, a + 1, a + n) \in Seq(S)
           /\ Len(SubSeq(s, a + 1, a + n)) = n
           /\ \A i \in 1..n : SubSeq(s, a + 1, a + n)[i] = s[a + i]
  <1>1. \A i \in (a + 1)..(a + n) : i \in 1..Len(s)
        OBVIOUS
  <1>2. SubSeq(s, a + 1, a + n) \in Seq(S)
        OBVIOUS
  <1>3. Len(SubSeq(s, a + 1, a + n)) = n
        OBVIOUS
  <1>4. ASSUME NEW i \in 1..n PROVE SubSeq(s, a + 1, a + n)[i] = s[a + i]
    <2>1. SubSeq(s, a + 1, a + n)[i] = s[(a + 1) + i - 1]
          OBVIOUS
    <2>2. (a + 1) + i - 1 = a + i
          OBVIOUS
    <2> QED BY <2>1, <2>2
  <1> QED BY <1>2, <1>3, <1>4

LEMMA SameSequence ==
    ASSUME NEW S, NEW s \in Seq(S), NEW t \in Seq(S), Len(s) = Len(t),
           \A i \in 1..Len(s) : s[i] = t[i]
    PROVE  s = t
  OBVIOUS

LEMMA Joined ==
    ASSUME NEW S, NEW s \in Seq(S), NEW t \in Seq(S)
    PROVE  /\ s \o t \in Seq(S) /\ Len(s \o t) = Len(s) + Len(t)
           /\ \A i \in 1..Len(s) : (s \o t)[i] = s[i]
           /\ \A i \in 1..Len(t) : (s \o t)[Len(s) + i] = t[i]
           /\ \A i \in 1..Len(s) + Len(t) :
                 i \in 1..Len(s) \/ \E j \in 1..Len(t) : i = Len(s) + j
  <1>1. s \o t \in Seq(S) /\ Len(s \o t) = Len(s) + Len(t) /\ Len(s) \in Nat /\ Len(t) \in Nat
        OBVIOUS
  <1>2. \A i \in 1..Len(s) : (s \o t)[i] = s[i]
        OBVIOUS
  <1>3. ASSUME NEW i \in 1..Len(t) PROVE (s \o t)[Len(s) + i] = t[i]
    <2>1. Len(s) + i \in 1..Len(s) + Len(t) /\ Len(s) + i > Len(s) /\ Len(s) + i - Len(s) = i
          BY <1>1
    <2> QED BY <2>1
  <1>4. ASSUME NEW i \in 1..Len(s) + Len(t), i \notin 1..Len(s)
        PROVE  \E j \in 1..Len(t) : i = Len(s) + j
    <2>1. i - Len(s) \in 1..Len(t) /\ i = Len(s) + (i - Len(s))
          BY <1>1, <1>4
    <2> QED BY <2>1
  <1> QED BY <1>1, <1>2, <1>3, <1>4

LEMMA PartsJoin ==
    ASSUME NEW S, NEW s \in Seq(S), NEW a \in Nat, NEW m \in Nat, NEW n \in Nat,
           a + m + n <= Len(s)
    PROVE  SubSeq(s, a + 1, a + m) \o SubSeq(s, a + m + 1, a + m + n) =
           SubSeq(s, a + 1, a + (m + n))
  <1> DEFINE x == SubSeq(s, a + 1, a + m)
             y == SubSeq(s, (a + m) + 1, (a + m) + n)
             z == SubSeq(s, a + 1, a + (m + n))
  <1>1. x \in Seq(S) /\ Len(x) = m /\ \A i \in 1..m : x[i] = s[a + i]
        BY Part
  <1>2. y \in Seq(S) /\ Len(y) = n /\ \A i \in 1..n : y[i] = s[(a + m) + i]
    <2>1. a + m \in Nat /\ (a + m) + n <= Len(s)
          OBVIOUS
    <2> QED BY <2>1, Part
  <1>3. z \in Seq(S) /\ Len(z) = m + n /\ \A i \in 1..m + n : z[i] = s[a + i]
    <2>1. m + n \in Nat /\ a + (m + n) <= Len(s)
          OBVIOUS
    <2> QED BY <2>1, Part
  <1> HIDE DEF x, y, z
  <1>4. /\ x \o y \in Seq(S) /\ Len(x \o y) = m + n
        /\ \A i \in 1..m : (x \o y)[i] = x[i]
        /\ \A i \in 1..n : (x \o y)[m + i] = y[i]
        /\ \A i \in 1..m + n : i \in 1..m \/ \E j \in 1..n : i = m + j
    <2>1. /\ x \o y \in Seq(S) /\ Len(x \o y) = Len(x) + Len(y)
          /\ \A i \in 1..Len(x) : (x \o y)[i] = x[i]
          /\ \A i \in 1..Len(y) : (x \o y)[Len(x) + i] = y[i]
          /\ \A i \in 1..Len(x) + Len(y) :
                i \in 1..Len(x) \/ \E j \in 1..Len(y) : i = Len(x) + j
      <3>1. x \in Seq(S) /\ y \in Seq(S)
            BY <1>1, <1>2
      <3> QED BY <3>1, Joined
    <2>2. Len(x) = m /\ Len(y) = n
          BY <1>1, <1>2
    <2> HIDE <1>1, <1>2
    <2> QED BY <2>1, <2>2
  <1>5. ASSUME NEW i \in 1..m + n PROVE (x \o y)[i] = z[i]
    <2>1. CASE i \in 1..m
          BY <1>1, <1>3, <1>4, <2>1
    <2>2. ASSUME NEW j \in 1..n, i = m + j PROVE (x \o y)[i] = z[i]
      <3>1. a + (m + j) = (a + m) + j /\ m + j \in 1..m + n
            OBVIOUS
      <3>2. (x \o y)[m + j] = y[j]
            BY <1>4
      <3>3. y[j] = s[(a + m) + j]
            BY <1>2
      <3>4. z[m + j] = s[a + (m + j)]
            BY <1>3, <3>1
      <3> QED BY <2>2, <3>1, <3>2, <3>3, <3>4
    <2> QED BY <1>4, <2>1, <2>2
  <1>6. x \o y = z
        BY <1>3, <1>4, <1>5, SameSequence
  <1> QED BY <1>6 DEF x, y, z
----------------------------------------------------------------------------
(***************************************************************************)
(* Loads.  What was printed is in order and from before the place where    *)
(* the next read begins, which may be behind the end of the file only if   *)
(* the caller's offset was.                                                *)
(***************************************************************************)
NULsOnly(s) ==
    s \in Seq(Nat) /\ Len(s) <= LongestFile /\ \A i \in 1..Len(s) : s[i] \in {i, Loading!NUL}

NoNULs(s) == \A i \in 1..Len(s) : s[i] # Loading!NUL

Ordered(s) == \A i, j \in 1..Len(s) : i < j => s[i] < s[j]

Reading ==
    /\ NULsOnly(file)
    /\ call.start \in Nat /\ call.in \in Nat /\ call.start <= call.in
    /\ call.in <= Len(file) \/ call.in = call.start
    /\ call.was \in Nat /\ call.was <= Len(file)
    /\ call.fd \in {"open", "caller's"}
    /\ call.out \in Seq(Nat) /\ Ordered(call.out)
    /\ \A i \in 1..Len(call.out) : call.out[i] <= call.in
    /\ NoNULs(file) => call.out = SubSeq(file, call.start + 1, call.in)

LoadInv ==
    /\ call \in [start : {call.start}, in : {call.in}, was : {call.was}, out : {call.out},
                 fd : {"none", "open", "caller's", "closed"}]
    /\ pc \in {"idle", "read", "done"}
    /\ pc = "idle" => (file = NONE \/ NULsOnly(file)) /\ call.out = << >> /\ ret = NONE
    /\ pc = "read" => Reading /\ ret = NONE
    /\ Loading!LoadsWhole

LEMMA LoadStarts == Loading!Init => LoadInv
  <1> SUFFICES ASSUME Loading!Init PROVE LoadInv
      OBVIOUS
  <1> USE NumbersAssumption
  <1>1. ASSUME file \in Loading!Contents PROVE NULsOnly(file)
    <2>1. PICK n \in 0..LongestFile : file \in {s \in [1..n -> 0..LongestFile] :
                                                   \A i \in 1..n : s[i] \in {i, Loading!NUL}}
          BY <1>1 DEF Loading!Contents
    <2>2. n \in Nat /\ file \in [1..n -> Nat] /\ Len(file) = n
          BY <2>1
    <2> QED BY <2>1, <2>2 DEF NULsOnly
  <1>2. file = NONE \/ NULsOnly(file)
        BY <1>1 DEF Loading!Init
  <1>3. call = [start |-> 0, in |-> 0, was |-> 0, out |-> << >>, fd |-> "none"]
        /\ pc = "idle" /\ ret = NONE
        BY DEF Loading!Init
  <1> QED BY <1>2, <1>3 DEF LoadInv, Loading!LoadsWhole

(***************************************************************************)
(* "%s" prints what is in front of the first NUL.                          *)
(***************************************************************************)
LEMMA PrintedIs ==
    ASSUME NEW buf \in Seq(Nat)
    PROVE  \E m \in 0..Len(buf) :
              /\ Loading!Printed(buf) = SubSeq(buf, 1, m)
              /\ \A i \in 1..m : buf[i] # Loading!NUL
              /\ (\A i \in 1..Len(buf) : buf[i] # Loading!NUL) => m = Len(buf)
  <1> DEFINE nuls == {i \in 1..Len(buf) : buf[i] = Loading!NUL}
             n    == Len(buf)
  <1>1. CASE nuls = {}
    <2>1. Loading!Printed(buf) = buf
          BY <1>1 DEF Loading!Printed
    <2>2. SubSeq(buf, 1, n) = buf /\ n \in 0..n
          OBVIOUS
    <2> QED BY <1>1, <2>1, <2>2
  <1>2. CASE nuls # {}
    <2> DEFINE first == CHOOSE i \in nuls : \A j \in nuls : i <= j
    <2>1. nuls \in SUBSET Nat
          OBVIOUS
    <2>2. \E i \in nuls : \A j \in nuls : i <= j
          BY <1>2, <2>1, Least
    <2>3. first \in nuls /\ \A j \in nuls : first <= j
      <3> HIDE DEF nuls
      <3> QED BY <2>2
    <2>4. Loading!Printed(buf) = SubSeq(buf, 1, first - 1)
          BY <1>2 DEF Loading!Printed
    <2> HIDE DEF first
    <2>5. first \in 1..n /\ buf[first] = Loading!NUL /\ n \in Nat
          BY <2>3
    <2>6. \A i \in 1..first - 1 : buf[i] # Loading!NUL
      <3> SUFFICES ASSUME NEW i \in 1..first - 1, i \in nuls PROVE FALSE
          BY <2>5
      <3>1. first <= i
            BY <2>3
      <3> QED BY <2>5, <3>1
    <2>7. first - 1 \in 0..n
          BY <2>5
    <2> QED BY <2>4, <2>5, <2>6, <2>7
  <1> QED BY <1>1, <1>2

LEMMA Continued ==
    ASSUME NEW o \in Seq(Nat), NEW p \in Seq(Nat), NEW in \in Nat, NEW n \in Nat,
           Ordered(o), \A i \in 1..Len(o) : o[i] <= in,
           Len(p) <= n, \A i \in 1..Len(p) : p[i] = in + i
    PROVE  /\ o \o p \in Seq(Nat) /\ Ordered(o \o p)
           /\ \A i \in 1..Len(o \o p) : (o \o p)[i] <= in + n
  <1> DEFINE out == o \o p
             k   == Len(o)
             m   == Len(p)
  <1>1. /\ out \in Seq(Nat) /\ Len(out) = k + m
        /\ \A i \in 1..k : out[i] = o[i]
        /\ \A j \in 1..m : out[k + j] = p[j]
        /\ \A i \in 1..k + m : i \in 1..k \/ \E j \in 1..m : i = k + j
        BY Joined
  <1>2. k \in Nat /\ m \in Nat /\ m <= n
        OBVIOUS
  <1>3. \A i \in 1..k : out[i] \in Nat /\ out[i] <= in
    <2>1. \A i \in 1..k : o[i] \in Nat /\ o[i] <= in
          OBVIOUS
    <2> QED BY <1>1, <2>1
  <1>4. \A i, j \in 1..k : i < j => out[i] < out[j]
        BY <1>1 DEF Ordered
  <1>5. \A j \in 1..m : out[k + j] = in + j
        BY <1>1
  <1> HIDE DEF out, k, m
  <1>6. \A i \in 1..k + m : out[i] <= in + n
    <2>1. \A i \in 1..k : out[i] <= in + n
          BY <1>3
    <2>2. ASSUME NEW j \in 1..m PROVE out[k + j] <= in + n
      <3>1. out[k + j] = in + j
            BY <1>5
      <3>2. j <= n
            BY <1>2
      <3> HIDE <1>5
      <3> QED BY <3>1, <3>2
    <2> QED BY <1>1, <2>1, <2>2
  <1>7. ASSUME NEW i \in 1..k + m, NEW j \in 1..k + m, i < j PROVE out[i] < out[j]
    <2>1. CASE j \in 1..k
      <3>1. i \in 1..k
            BY <1>2, <1>7, <2>1
      <3> QED BY <1>4, <1>7, <2>1, <3>1
    <2>2. ASSUME NEW y \in 1..m, j = k + y PROVE out[i] < out[j]
      <3>1. out[j] = in + y
            BY <1>5, <2>2
      <3>2. CASE i \in 1..k
            BY <1>3, <3>1, <3>2
      <3>3. ASSUME NEW x \in 1..m, i = k + x PROVE out[i] < out[j]
        <4>1. out[i] = in + x
              BY <1>5, <3>3
        <4>2. x < y
              BY <1>2, <1>7, <2>2, <3>3
        <4> QED BY <3>1, <4>1, <4>2
      <3> QED BY <1>1, <3>2, <3>3
    <2> QED BY <1>1, <2>1, <2>2
  <1> QED BY <1>1, <1>6, <1>7 DEF Ordered, out

(***************************************************************************)
(* A read that gives n bytes.                                              *)
(***************************************************************************)
LEMMA ReadAppends ==
    ASSUME Reading, NEW n \in Nat, n > 0, call.in + n <= Len(file),
           NEW out, out = call.out \o Loading!Printed(SubSeq(file, call.in + 1, call.in + n))
    PROVE  /\ out \in Seq(Nat) /\ Ordered(out)
           /\ \A i \in 1..Len(out) : out[i] <= call.in + n
           /\ NoNULs(file) => out = SubSeq(file, call.start + 1, call.in + n)
  <1> DEFINE in  == call.in
             buf == SubSeq(file, in + 1, in + n)
             o   == call.out
  <1>1. in \in Nat /\ file \in Seq(Nat) /\ in + n <= Len(file) /\ o \in Seq(Nat)
        BY DEF Reading, NULsOnly
  <1>2. buf \in Seq(Nat) /\ Len(buf) = n /\ \A i \in 1..n : buf[i] = file[in + i]
    <2> DEFINE whole == file
    <2>1. whole \in Seq(Nat) /\ in \in Nat /\ in + n <= Len(whole)
          BY <1>1
    <2> HIDE DEF whole, in
    <2>2. /\ SubSeq(whole, in + 1, in + n) \in Seq(Nat)
          /\ Len(SubSeq(whole, in + 1, in + n)) = n
          /\ \A i \in 1..n : SubSeq(whole, in + 1, in + n)[i] = whole[in + i]
          BY <2>1, Part
    <2> QED BY <2>2 DEF whole
  <1> HIDE DEF buf
  <1>3. PICK m \in 0..n :
           /\ Loading!Printed(buf) = SubSeq(buf, 1, m)
           /\ \A i \in 1..m : buf[i] # Loading!NUL
           /\ (\A i \in 1..n : buf[i] # Loading!NUL) => m = n
        BY <1>2, PrintedIs
  <1> DEFINE p == SubSeq(buf, 1, m)
  <1>4. p \in Seq(Nat) /\ Len(p) = m /\ \A i \in 1..m : p[i] = in + i
    <2>1. p \in Seq(Nat) /\ Len(p) = m /\ \A i \in 1..m : p[i] = buf[i]
      <3>1. 0 + m <= Len(buf) /\ m \in Nat
            BY <1>2
      <3>2. SubSeq(buf, 0 + 1, 0 + m) = p
            BY <3>1
      <3>3. /\ SubSeq(buf, 0 + 1, 0 + m) \in Seq(Nat)
            /\ Len(SubSeq(buf, 0 + 1, 0 + m)) = m
            /\ \A i \in 1..m : SubSeq(buf, 0 + 1, 0 + m)[i] = buf[0 + i]
            BY <1>2, <3>1, Part
      <3> QED BY <3>2, <3>3
    <2>2. ASSUME NEW i \in 1..m PROVE p[i] = in + i
      <3>1. i \in 1..n /\ in + i \in 1..Len(file)
            BY <1>1
      <3>2. p[i] = file[in + i] /\ p[i] # Loading!NUL
            BY <1>2, <1>3, <2>1, <3>1
      <3>3. file[in + i] \in {in + i, Loading!NUL}
            BY <3>1 DEF Reading, NULsOnly
      <3> QED BY <3>2, <3>3
    <2> QED BY <2>1, <2>2
  <1>5. out = o \o p
        BY <1>3 DEF buf
  <1> HIDE DEF p, o, in
  <1>6. /\ out \in Seq(Nat) /\ Ordered(out)
        /\ \A i \in 1..Len(out) : out[i] <= in + n
    <2>1. Ordered(o) /\ \A i \in 1..Len(o) : o[i] <= in
          BY DEF Reading, o, in
    <2>2. p \in Seq(Nat) /\ Len(p) <= n /\ \A i \in 1..Len(p) : p[i] = in + i
          BY <1>4
    <2> QED BY <1>1, <1>5, <2>1, <2>2, Continued
  <1>7. ASSUME NoNULs(file) PROVE out = SubSeq(file, call.start + 1, call.in + n)
    <2>1. m = n
      <3>1. ASSUME NEW i \in 1..n PROVE buf[i] # Loading!NUL
        <4>1. in + i \in 1..Len(file)
              BY <1>1
        <4> QED BY <1>2, <1>7, <4>1 DEF NoNULs
      <3> QED BY <1>3, <3>1
    <2>2. p = buf
      <3>1. \A i \in 1..n : p[i] = buf[i]
        <4>1. \A i \in 1..n : p[i] = in + i
              BY <1>4, <2>1
        <4>2. ASSUME NEW i \in 1..n PROVE buf[i] = in + i
          <5>1. in + i \in 1..Len(file)
                BY <1>1
          <5>2. buf[i] = file[in + i] /\ file[in + i] # Loading!NUL
                BY <1>2, <1>7, <5>1 DEF NoNULs
          <5>3. file[in + i] \in {in + i, Loading!NUL}
                BY <5>1 DEF Reading, NULsOnly
          <5> QED BY <5>2, <5>3
        <4> QED BY <4>1, <4>2
      <3>2. p \in Seq(Nat) /\ buf \in Seq(Nat) /\ Len(p) = n /\ Len(buf) = n
            BY <1>2, <1>4, <2>1
      <3> HIDE <1>2, <1>4
      <3> QED BY <3>1, <3>2, SameSequence
    <2> DEFINE a == call.start
               b == in - a
    <2>3. a \in Nat /\ b \in Nat /\ in = a + b /\ a + b + n <= Len(file)
      <3>1. a \in Nat /\ a <= in
            BY DEF Reading, in
      <3> QED BY <1>1, <3>1
    <2>4. o = SubSeq(file, a + 1, a + b)
      <3>1. o = SubSeq(file, a + 1, in)
            BY <1>7 DEF Reading, o, in
      <3> QED BY <2>3, <3>1
    <2>5. p = SubSeq(file, a + b + 1, a + b + n)
          BY <2>2, <2>3 DEF buf
    <2>6. a + (b + n) = in + n
          BY <2>3
    <2> HIDE DEF a, b
    <2>7. o \o p = SubSeq(file, a + 1, a + (b + n))
          BY <1>1, <2>3, <2>4, <2>5, PartsJoin
    <2> QED BY <1>5, <2>6, <2>7 DEF a, in
  <1> QED BY <1>6, <1>7 DEF in

LEMMA BeginReads ==
    ASSUME LoadInv, pc = "idle", NULsOnly(file), NEW fd \in {"open", "caller's"},
           NEW start \in Nat, Loading!Begin(fd, start), UNCHANGED <<file, met>>
    PROVE  LoadInv'
  <1>1. /\ call' = [call EXCEPT !.start = start, !.in = start, !.was = Len(file), !.fd = fd]
        /\ pc' = "read" /\ ret' = ret /\ file' = file /\ call.out = << >> /\ ret = NONE
        BY DEF Loading!Begin, LoadInv
  <1>2. /\ call'.start = start /\ call'.in = start /\ call'.was = Len(file) /\ call'.fd = fd
        /\ call'.out = << >>
        /\ call' \in [start : {call'.start}, in : {call'.in}, was : {call'.was}, out : {call'.out},
                      fd : {"none", "open", "caller's", "closed"}]
        BY <1>1 DEF LoadInv
  <1>3. SubSeq(file, start + 1, start) = << >>
        BY DEF NULsOnly
  <1>4. NULsOnly(file') /\ Len(file) \in Nat
        BY <1>1 DEF NULsOnly
  <1>5. Reading'
    <2>1. NULsOnly(file)'
          BY <1>4 DEF NULsOnly, Loading!NUL
    <2>2. call'.out \in Seq(Nat) /\ Ordered(call.out)' /\ \A i \in 1..Len(call'.out) : FALSE
          BY <1>2 DEF Ordered
    <2>3. file' = file /\ call'.out = SubSeq(file', call'.start + 1, call'.in)
          BY <1>1, <1>2, <1>3
    <2>4. /\ call'.start \in Nat /\ call'.in = call'.start /\ call'.start <= call'.in
          /\ call'.was \in Nat /\ call'.was <= Len(file')
          /\ call'.fd \in {"open", "caller's"}
          BY <1>1, <1>2, <1>4
    <2> QED BY <2>1, <2>2, <2>3, <2>4 DEF Reading
  <1> QED BY <1>1, <1>2, <1>5 DEF LoadInv, Loading!LoadsWhole

(***************************************************************************)
(* A load that ends returns what was printed.                              *)
(***************************************************************************)
LEMMA LoadEnds ==
    ASSUME LoadInv, pc = "read", Loading!Finish(call.out), UNCHANGED file,
           met' = {} => call.in >= call.was
    PROVE  LoadInv'
  <1>1. Reading
        BY DEF LoadInv
  <1>2. /\ call' = [call EXCEPT !.fd = IF call.fd = "open" THEN "closed" ELSE call.fd]
        /\ pc' = "done" /\ ret' = call.out
        BY DEF Loading!Finish
  <1>3. /\ call'.start = call.start /\ call'.in = call.in /\ call'.was = call.was
        /\ call'.out = call.out /\ call'.fd \in {"closed", "caller's"}
        /\ call' \in [start : {call'.start}, in : {call'.in}, was : {call'.was}, out : {call'.out},
                      fd : {"none", "open", "caller's", "closed"}]
        BY <1>1, <1>2 DEF LoadInv, Reading
  <1>4. Ordered(call.out) /\ (NoNULs(file) => call.out = SubSeq(file, call.start + 1, call.in))
        BY <1>1 DEF Reading
  <1>5. Loading!LoadsWhole'
        BY <1>2, <1>3, <1>4 DEF Loading!LoadsWhole, Ordered, NoNULs, Loading!NUL
  <1> QED BY <1>2, <1>3, <1>5 DEF LoadInv

LEMMA ReadGoesOn == LoadInv /\ Loading!Read => LoadInv'
  <1> SUFFICES ASSUME LoadInv, Loading!Read PROVE LoadInv'
      OBVIOUS
  <1> USE NumbersAssumption
  <1> DEFINE in     == call.in
             out(n) == call.out \o Loading!Printed(SubSeq(file, in + 1, in + n))
  <1>1. Reading /\ pc = "read" /\ file' = file /\ met' = met /\ ret = NONE
        BY DEF LoadInv, Loading!Read
  <1>2. PICK n \in Loading!Counts :
           IF Loading!Last(n) THEN Loading!Finish(out(n))
           ELSE /\ call' = [call EXCEPT !.in = in + n, !.out = out(n)]
                /\ pc' = pc /\ ret' = ret
        BY DEF Loading!Read
  <1>3. in \in Nat /\ Len(file) \in Nat /\ call.was <= Len(file)
        /\ call.start \in Nat /\ call.start <= in
        BY <1>1 DEF Reading, NULsOnly
  <1>4. \/ n = 0 /\ Len(file) - in <= 0
        \/ n \in Nat /\ n > 0 /\ n <= Len(file) - in
        BY <1>3 DEF Loading!Counts
  <1>5. CASE n = 0 /\ Len(file) - in <= 0
    <2>1. SubSeq(file, in + 1, in + 0) = << >>
          BY <1>1, <1>3 DEF Reading, NULsOnly
    <2>2. Loading!Printed(<< >>) = << >>
      <3>1. {i \in 1..Len(<< >>) : << >>[i] = Loading!NUL} = {}
            OBVIOUS
      <3> QED BY <3>1 DEF Loading!Printed
    <2>3. out(n) = call.out
      <3>1. call.out \in Seq(Nat)
            BY <1>1 DEF Reading
      <3>2. call.out \o << >> = call.out
            BY <3>1
      <3> QED BY <1>5, <2>1, <2>2, <3>2
    <2>4. Loading!Finish(call.out)
      <3>1. Loading!Last(n)
            BY <1>5 DEF Loading!Last
      <3> HIDE DEF out
      <3> QED BY <1>2, <2>3, <3>1
    <2>5. in >= call.was
      <3>1. call.was \in Int
            BY <1>1 DEF Reading
      <3> QED BY <1>3, <1>5, <3>1
    <2> HIDE DEF out
    <2> QED BY <1>1, <2>4, <2>5, LoadEnds
  <1>6. CASE n \in Nat /\ n > 0 /\ n <= Len(file) - in
    <2> DEFINE o == out(n)
    <2>1. in + n <= Len(file)
          BY <1>3, <1>6
    <2>2. /\ o \in Seq(Nat) /\ Ordered(o)
          /\ \A i \in 1..Len(o) : o[i] <= in + n
          /\ NoNULs(file) => o = SubSeq(file, call.start + 1, in + n)
          BY <1>1, <1>6, <2>1, ReadAppends
    <2>3. ~Loading!Last(n)
          BY <1>6 DEF Loading!Last
    <2>4. call' = [call EXCEPT !.in = in + n, !.out = o] /\ pc' = pc /\ ret' = ret
      <3> HIDE DEF out
      <3> QED BY <1>2, <2>3
    <2> HIDE DEF o, out
    <2>5. /\ call'.start = call.start /\ call'.in = in + n /\ call'.was = call.was
          /\ call'.out = o /\ call'.fd = call.fd
          /\ call' \in [start : {call'.start}, in : {call'.in}, was : {call'.was}, out : {call'.out},
                        fd : {"none", "open", "caller's", "closed"}]
          BY <2>4 DEF LoadInv
    <2>6. in + n \in Nat /\ call.start <= in + n
          BY <1>3, <1>6
    <2>7. Reading'
      <3>1. NULsOnly(file)' /\ call.was \in Nat
            BY <1>1 DEF Reading, NULsOnly, Loading!NUL
      <3>2. call'.out \in Seq(Nat) /\ Ordered(call.out)'
            BY <2>2, <2>5 DEF Ordered
      <3>3. NoNULs(file)' <=> NoNULs(file)
            BY <1>1 DEF NoNULs, Loading!NUL
      <3>4. call.fd \in {"open", "caller's"}
            BY <1>1 DEF Reading
      <3> HIDE DEF in
      <3> QED BY <1>1, <1>3, <2>1, <2>2, <2>5, <2>6, <3>1, <3>2, <3>3, <3>4 DEF Reading
    <2> QED BY <1>1, <2>4, <2>5, <2>7 DEF LoadInv, Loading!LoadsWhole
  <1> QED BY <1>4, <1>5, <1>6

LEMMA AppendedLater == LoadInv /\ Loading!Appended => LoadInv'
  <1> SUFFICES ASSUME LoadInv, Loading!Appended PROVE LoadInv'
      OBVIOUS
  <1> USE NumbersAssumption
  <1>1. /\ Reading /\ pc = "read" /\ Len(file) < LongestFile
        /\ file' = Append(file, Len(file) + 1)
        /\ call' = call /\ pc' = pc /\ ret' = ret /\ met' = met /\ ret = NONE
        BY DEF LoadInv, Loading!Appended
  <1>2. NULsOnly(file) /\ Len(file) \in Nat
        BY <1>1 DEF Reading, NULsOnly
  <1>3. /\ file' \in Seq(Nat) /\ Len(file') = Len(file) + 1
        /\ file'[Len(file) + 1] = Len(file) + 1
        /\ \A i \in 1..Len(file) : file'[i] = file[i]
        BY <1>1, <1>2 DEF NULsOnly
  <1>4. NULsOnly(file)'
    <2>1. \A i \in 1..Len(file) + 1 : file'[i] \in {i, Loading!NUL}
          BY <1>2, <1>3 DEF NULsOnly
    <2> QED BY <1>1, <1>2, <1>3, <2>1 DEF NULsOnly, Loading!NUL
  <1>5. NoNULs(file)' => NoNULs(file)
        BY <1>2, <1>3 DEF NoNULs, Loading!NUL
  <1>6. SubSeq(file', call.start + 1, call.in) = SubSeq(file, call.start + 1, call.in)
    <2> DEFINE a == call.start
               n == call.in - call.start
    <2>1. a \in Nat /\ n \in Nat /\ call.in = a + n
          BY <1>1 DEF Reading
    <2>2. CASE n = 0
      <3>1. SubSeq(file', a + 1, a) = << >> /\ SubSeq(file, a + 1, a) = << >>
            BY <1>2, <1>3, <2>1 DEF NULsOnly
      <3> QED BY <2>1, <2>2, <3>1
    <2>3. CASE n # 0
      <3>1. a + n <= Len(file)
            BY <1>1, <2>1, <2>3 DEF Reading
      <3> HIDE DEF a, n
      <3> DEFINE s == SubSeq(file, a + 1, a + n)
                 t == SubSeq(file', a + 1, a + n)
      <3>2. s \in Seq(Nat) /\ Len(s) = n /\ \A i \in 1..n : s[i] = file[a + i]
            BY <1>2, <2>1, <3>1, Part DEF NULsOnly
      <3>3. t \in Seq(Nat) /\ Len(t) = n /\ \A i \in 1..n : t[i] = file'[a + i]
        <4>1. a + n <= Len(file')
              BY <1>2, <1>3, <2>1, <3>1
        <4> QED BY <1>3, <2>1, <4>1, Part
      <3>4. \A i \in 1..n : t[i] = s[i]
        <4>1. \A i \in 1..n : a + i \in 1..Len(file)
              BY <1>2, <2>1, <3>1
        <4> HIDE DEF s, t
        <4> QED BY <1>3, <3>2, <3>3, <4>1
      <3> HIDE DEF s, t
      <3>5. s = t
            BY <3>2, <3>3, <3>4, SameSequence
      <3> QED BY <2>1, <3>5 DEF s, t, a
    <2> QED BY <2>2, <2>3
  <1>7. Reading'
    <2>1. /\ call.start \in Nat /\ call.in \in Nat /\ call.start <= call.in
          /\ call.in <= Len(file) \/ call.in = call.start
          /\ call.was \in Nat /\ call.was <= Len(file)
          /\ call.fd \in {"open", "caller's"}
          /\ call.out \in Seq(Nat) /\ Ordered(call.out)
          /\ \A i \in 1..Len(call.out) : call.out[i] <= call.in
          /\ NoNULs(file) => call.out = SubSeq(file, call.start + 1, call.in)
          BY <1>1 DEF Reading
    <2>2. call.was <= Len(file') /\ (call.in <= Len(file') \/ call.in = call.start)
          BY <1>2, <1>3, <2>1
    <2>3. NoNULs(file)' => call.out = SubSeq(file', call.start + 1, call.in)
          BY <1>5, <1>6, <2>1
    <2>4. Ordered(call.out)'
          BY <1>1, <2>1 DEF Ordered
    <2> QED BY <1>1, <1>4, <2>1, <2>2, <2>3, <2>4 DEF Reading
  <1> QED BY <1>1, <1>7 DEF LoadInv, Loading!LoadsWhole

LEMMA LoadGoesOn == LoadInv /\ [Loading!Next]_(Loading!vars) => LoadInv'
  <1> SUFFICES ASSUME LoadInv, [Loading!Next]_(Loading!vars) PROVE LoadInv'
      OBVIOUS
  <1> USE NumbersAssumption
  <1>1. CASE UNCHANGED Loading!vars
    <2>1. file' = file /\ call' = call /\ pc' = pc /\ ret' = ret /\ met' = met
          BY <1>1 DEF Loading!vars
    <2>2. Reading' <=> Reading
          BY <2>1 DEF Reading, NULsOnly, NoNULs, Ordered, Loading!NUL
    <2>3. Loading!LoadsWhole' <=> Loading!LoadsWhole
          BY <2>1 DEF Loading!LoadsWhole, Loading!NUL
    <2>4. NULsOnly(file)' <=> NULsOnly(file)
          BY <2>1 DEF NULsOnly, Loading!NUL
    <2> QED BY <2>1, <2>2, <2>3, <2>4 DEF LoadInv
  <1>2. CASE Loading!FromFd
    <2>1. pc = "idle" /\ file # NONE /\ UNCHANGED <<file, met>>
          BY <1>2 DEF Loading!FromFd
    <2>2. PICK offset \in 0..LongestFile, seekable \in BOOLEAN :
             Loading!Begin("caller's", IF seekable THEN offset ELSE 0)
          BY <1>2 DEF Loading!FromFd
    <2>3. NULsOnly(file)
          BY <2>1 DEF LoadInv
    <2> DEFINE start == IF seekable THEN offset ELSE 0
    <2>4. start \in Nat /\ Loading!Begin("caller's", start)
          BY <2>2
    <2> HIDE DEF start
    <2> QED BY <2>1, <2>3, <2>4, BeginReads
  <1>3. CASE Loading!FromFile
    <2>1. pc = "idle" /\ UNCHANGED <<file, met>>
          BY <1>3 DEF Loading!FromFile
    <2>2. CASE file = NONE
      <3>1. pc' = "done" /\ ret' = NONE /\ call' = call
            BY <1>3, <2>2 DEF Loading!FromFile
      <3> QED BY <3>1 DEF LoadInv, Loading!LoadsWhole
    <2>3. CASE file # NONE
      <3>1. PICK offset \in 0..LongestFile : Loading!Begin("open", offset)
            BY <1>3, <2>3 DEF Loading!FromFile
      <3>2. NULsOnly(file) /\ offset \in Nat
            BY <2>1, <2>3 DEF LoadInv
      <3> QED BY <2>1, <3>1, <3>2, BeginReads
    <2> QED BY <2>2, <2>3
  <1>4. CASE Loading!Read
        BY <1>4, ReadGoesOn
  <1>5. CASE Loading!ReadFails
    <2>1. pc = "read" /\ Loading!Finish(call.out) /\ UNCHANGED file /\ met' # {}
          BY <1>5 DEF Loading!ReadFails
    <2> QED BY <2>1, LoadEnds
  <1>6. CASE Loading!Appended
        BY <1>6, AppendedLater
  <1>7. CASE Loading!Finished
        BY <1>1, <1>7 DEF Loading!Finished
  <1> QED BY <1>1, <1>2, <1>3, <1>4, <1>5, <1>6, <1>7 DEF Loading!Next, Loading!Step

(***************************************************************************)
(* What is loaded is the file from its offset on, all of what there was    *)
(* unless a read failed, and the descriptor is closed if the function      *)
(* opened it (ac_json.c:29-78).                                            *)
(***************************************************************************)
THEOREM LoadsAreWhole == SystemSpec => []WholeLoads
  <1> DEFINE I == kind = "load" => LoadInv
  <1>1. SystemInit => I
        BY LoadStarts DEF SystemInit
  <1>2. I /\ [SystemNext]_allVars => I'
        BY Kinds, LoadGoesOn
  <1>3. I => WholeLoads
        BY DEF LoadInv, WholeLoads
  <1> QED BY <1>1, <1>2, <1>3, PTL DEF SystemSpec
----------------------------------------------------------------------------
(***************************************************************************)
(* Copies.  CallInv says of every call what its variables are; SizesInv    *)
(* how long the destination of one is that nothing shortened; ContentsInv  *)
(* what it contains if nothing at all came in the way.                     *)
(***************************************************************************)
Busy(c)   == pc[c] \in {"open", "alloc", "copy", "write"}
Opened(c) == pc[c] \in {"alloc", "copy", "write"} \/ (pc[c] = "done" /\ ret[c] >= 0)
Differ(c) == call[c].from # call[c].to

Calls == [from : Files \cup {NONE}, to : Files \cup {NONE},
          flags : {"none", "overwrite", "unknown"}, was : Content \cup {NONE},
          size : 0..MaxSize, in : 0..MaxSize, buf : Content, total : 0..MaxSize,
          fds : SUBSET {"ifd", "ofd"}]

TypesInv ==
    /\ linux \in BOOLEAN
    /\ file \in [Files -> Content \cup {NONE}]
    /\ call \in [Callers -> Calls]
    /\ pc \in [Callers -> {"idle", "open", "alloc", "copy", "write", "done"}]
    /\ ret \in [Callers -> -1..MaxSize]
    /\ met \in [Callers -> SUBSET {"exists", "refused", "short", "from", "to", "shrunk"}]

CallInv(c) ==
    LET k == call[c]
    IN  /\ pc[c] = "idle" => k = NoCall /\ met[c] = {}
        /\ pc[c] # "idle" => k.from \in Files /\ k.to \in Files
        /\ Busy(c) => k.flags # "unknown" /\ file[k.from] \in Content /\ k.was \in Content
        /\ Opened(c) => file[k.to] \in Content
        /\ k.total + Len(k.buf) <= k.in
        /\ "short" \notin met[c] => k.in = k.total + Len(k.buf)
        /\ pc[c] # "write" => k.buf = << >>
        /\ pc[c] \in {"open", "alloc"} => k.in = 0
        /\ pc[c] = "done" => k.fds = {}

SizesInv(c) ==
    LET k == call[c]
    IN  Differ(c) /\ met[c] \cap {"to", "shrunk", "short"} = {} =>
        /\ pc[c] = "alloc" => file[k.to] = << >>
        /\ pc[c] \in {"alloc", "copy", "write"} => k.size <= Len(file[k.from])
        /\ pc[c] \in {"copy", "write"} =>
              /\ k.in <= Len(file[k.from])
              /\ Len(file[k.to]) = IF k.size > k.total THEN k.size ELSE k.total
        /\ pc[c] = "done" /\ ret[c] >= 0 => ret[c] = Len(file[k.to])

ContentsInv(c) ==
    LET k == call[c]
    IN  Differ(c) /\ met[c] = {} =>
        /\ Busy(c) => file[k.from] = k.was
        /\ pc[c] = "alloc" => k.size = Len(k.was)
        /\ pc[c] \in {"copy", "write"} => \A i \in 1..k.total : file[k.to][i] = k.was[i]
        /\ pc[c] = "write" => \A i \in 1..Len(k.buf) : k.buf[i] = k.was[k.total + i]
        /\ pc[c] = "done" /\ ret[c] >= 0 => file[k.to] = k.was
        /\ pc[c] = "done" /\ ret[c] = -1 =>
              k.flags = "unknown" \/ k.was = NONE \/ k.was = << >>

(***************************************************************************)
(* Of two copies that do not overwrite, the second to open finds a file.   *)
(***************************************************************************)
OneEach ==
    \A c, d \in Callers :
        /\ c # d /\ Opened(c) /\ Opened(d)
        /\ call[c].flags = "none" /\ call[d].flags = "none"
        => call[c].to # call[d].to

CopyInv ==
    /\ TypesInv
    /\ \A c \in Callers : CallInv(c) /\ SizesInv(c) /\ ContentsInv(c)
    /\ OneEach
----------------------------------------------------------------------------
(***************************************************************************)
(* What the operators on contents give.                                    *)
(***************************************************************************)
LEMMA ContentIs == \A s : s \in Content <=> s \in Seq(Block) /\ Len(s) <= MaxSize
  <1> USE SizesAssumption
  <1>1. ASSUME NEW s \in Content PROVE s \in Seq(Block) /\ Len(s) <= MaxSize
    <2>1. PICK n \in 0..MaxSize : s \in [1..n -> Block]
          BY DEF Content
    <2> HIDE DEF Block
    <2> QED BY <2>1
  <1>2. ASSUME NEW s \in Seq(Block), Len(s) <= MaxSize PROVE s \in Content
    <2>1. Len(s) \in 0..MaxSize /\ s \in [1..Len(s) -> Block]
          BY <1>2
    <2> QED BY <2>1 DEF Content
  <1> QED BY <1>1, <1>2

LEMMA NotNone == NONE \notin Content /\ << >> \in Content
  <1>1. << >> \in Seq(Block) /\ Len(<< >>) <= MaxSize
        BY SizesAssumption
  <1> QED BY <1>1, ContentIs, NoneAssumption

LEMMA PutIs ==
    ASSUME NEW s \in Content, NEW b \in Seq(Block), NEW offset \in Nat,
           offset + Len(b) <= MaxSize
    PROVE  LET t   == Put(s, offset, b)
               end == offset + Len(b)
           IN  /\ t \in Content
               /\ Len(t) = IF end > Len(s) THEN end ELSE Len(s)
               /\ \A i \in 1..Len(b) : t[offset + i] = b[i]
               /\ \A i \in 1..offset : i <= Len(s) => t[i] = s[i]
  <1> USE SizesAssumption
  <1> DEFINE t   == Put(s, offset, b)
             end == offset + Len(b)
             m   == Len(s)
             n   == IF end > m THEN end ELSE m
             e(i) == IF i \in offset + 1..end THEN b[i - offset]
                     ELSE IF i <= m THEN s[i] ELSE Zero
  <1>1. s \in Seq(Block) /\ m <= MaxSize /\ m \in Nat /\ Len(b) \in Nat
        BY ContentIs
  <1>2. n \in Nat /\ n <= MaxSize /\ n >= end /\ n >= m /\ end \in Nat /\ end >= offset
        BY <1>1
  <1>3. t = [i \in 1..n |-> e(i)]
        BY DEF Put
  <1>4. ASSUME NEW i \in 1..n PROVE e(i) \in Block
    <2>1. CASE i \in offset + 1..end
      <3>1. i - offset \in 1..Len(b)
            BY <1>1, <2>1
      <3>2. b[i - offset] \in Block
            BY <3>1
      <3> QED BY <2>1, <3>2
    <2>2. CASE i \notin offset + 1..end /\ i <= m
      <3>1. i \in 1..m
            BY <1>2, <2>2
      <3>2. s[i] \in Block
            BY <1>1, <3>1
      <3> QED BY <2>2, <3>2
    <2>3. CASE i \notin offset + 1..end /\ ~(i <= m)
          BY <2>3 DEF Block
    <2> QED BY <2>1, <2>2, <2>3
  <1>5. \A i \in 1..Len(b) : offset + i \in offset + 1..end /\ (offset + i) - offset = i /\ offset + i \in 1..n
        BY <1>1, <1>2
  <1>6. \A i \in 1..offset : i <= m => i \notin offset + 1..end /\ i \in 1..n
        BY <1>1, <1>2
  <1> HIDE DEF n, t, m, end
  <1>7. t \in Seq(Block) /\ Len(t) = n
    <2> HIDE DEF e
    <2>1. t \in [1..n -> Block]
          BY <1>3, <1>4
    <2> QED BY <1>2, <2>1
  <1>8. t \in Content
        BY <1>2, <1>7, ContentIs
  <1>9. \A i \in 1..Len(b) : t[offset + i] = b[i]
        BY <1>3, <1>5
  <1>10. \A i \in 1..offset : i <= m => t[i] = s[i]
        BY <1>3, <1>6
  <1> QED BY <1>7, <1>8, <1>9, <1>10 DEF t, n, m, end

LEMMA ResizedIs ==
    ASSUME NEW s \in Content, NEW size \in 0..MaxSize
    PROVE  Resized(s, size) \in Content /\ Len(Resized(s, size)) = size
  <1> USE SizesAssumption
  <1> DEFINE t == Resized(s, size)
  <1>1. s \in Seq(Block) /\ Len(s) \in Nat
        BY ContentIs
  <1>2. \A i \in 1..size : (IF i <= Len(s) THEN s[i] ELSE Zero) \in Block
    <2>1. \A i \in 1..size : i <= Len(s) => s[i] \in Block
          BY <1>1
    <2>2. Zero \in Block
          BY DEF Block
    <2> QED BY <2>1, <2>2
  <1>3. t \in [1..size -> Block] /\ size \in Nat
        BY <1>2 DEF Resized
  <1> HIDE DEF t
  <1>4. t \in Seq(Block) /\ Len(t) = size
        BY <1>3
  <1> QED BY <1>4, ContentIs DEF t

(***************************************************************************)
(* A count is 0 only at the end of the source, and what is read is there.  *)
(***************************************************************************)
LEMMA CountsAre ==
    ASSUME NEW c \in Callers, Source(c) \in Content, call[c].in \in Nat, NEW n \in Counts(c)
    PROVE  LET in == call[c].in
               b  == Blocks(c, n)
           IN  /\ n \in Nat
               /\ n = 0 => Len(Source(c)) <= in
               /\ n # 0 => /\ n > 0 /\ in + n <= Len(Source(c)) /\ Len(Source(c)) <= MaxSize
                           /\ b \in Content /\ Len(b) = n
                           /\ \A i \in 1..n : b[i] = Source(c)[in + i]
  <1> USE SizesAssumption
  <1> DEFINE in == call[c].in
             s  == Source(c)
             b  == Blocks(c, n)
  <1>1. s \in Seq(Block) /\ Len(s) \in Nat /\ Len(s) <= MaxSize
        BY ContentIs
  <1>2. n \in Nat /\ (n = 0 => Len(s) <= in) /\ (n # 0 => n > 0 /\ in + n <= Len(s))
    <2> HIDE DEF s
    <2> QED BY <1>1 DEF Counts, s
  <1>3. ASSUME n # 0
        PROVE  b \in Content /\ Len(b) = n /\ \A i \in 1..n : b[i] = s[in + i]
    <2>1. b = SubSeq(s, in + 1, in + n)
          BY DEF Blocks
    <2> HIDE DEF b, s, in
    <2>2. /\ b \in Seq(Block) /\ Len(b) = n
          /\ \A i \in 1..n : b[i] = s[in + i]
      <3>1. in \in Nat /\ n \in Nat /\ in + n <= Len(s)
            BY <1>2, <1>3 DEF in
      <3> DEFINE S == Block
      <3>2. s \in Seq(S)
            BY <1>1
      <3> HIDE SizesAssumption
      <3> HIDE DEF S
      <3>3. /\ SubSeq(s, in + 1, in + n) \in Seq(S)
            /\ Len(SubSeq(s, in + 1, in + n)) = n
            /\ \A i \in 1..n : SubSeq(s, in + 1, in + n)[i] = s[in + i]
            BY <3>1, <3>2, Part
      <3>4. b \in Seq(S) /\ Len(b) = n /\ \A i \in 1..n : b[i] = s[in + i]
            BY <2>1, <3>3
      <3> QED BY <3>4 DEF S
    <2>3. n <= MaxSize
          BY <1>1, <1>2, <1>3 DEF in
    <2> QED BY <2>2, <2>3, ContentIs
  <1> HIDE DEF b, s, in
  <1> QED BY <1>1, <1>2, <1>3 DEF b, s, in
----------------------------------------------------------------------------
(***************************************************************************)
(* What a step of another may do to a call: it marks what it changes.      *)
(***************************************************************************)
FilesStay == \A x \in Files : file[x] \in Content => file'[x] \in Content

Undisturbed(c) ==
    LET k == call[c]
    IN  /\ call'[c] = k /\ pc'[c] = pc[c] /\ ret'[c] = ret[c]
        /\ met[c] \subseteq met'[c]
        /\ pc[c] = "idle" => met'[c] = met[c]
        /\ pc[c] # "idle" =>
              /\ "to" \in met'[c] \/ file'[k.to] = file[k.to]
              /\ "from" \in met'[c] \/ file'[k.from] = file[k.from]
              /\ \/ "shrunk" \in met'[c] \/ file[k.from] = NONE
                 \/ Len(file'[k.from]) >= Len(file[k.from])

AllInv(c) == CallInv(c) /\ SizesInv(c) /\ ContentsInv(c)

LEMMA Spreads ==
    ASSUME TypesInv, NEW by, NEW x \in Files, NEW content \in Content,
           file' = [file EXCEPT ![x] = content],
           NEW c \in Callers, c # by, CallInv(c), met'[c] = Seen(by, x)[c],
           call'[c] = call[c], pc'[c] = pc[c], ret'[c] = ret[c]
    PROVE  Undisturbed(c)
  <1> DEFINE k == call[c]
  <1>1. /\ file'[x] = content
        /\ \A y \in Files : y # x => file'[y] = file[y]
        BY DEF TypesInv
  <1>2. met'[c] = IF pc[c] = "idle" \/ file'[x] = file[x] THEN met[c]
                  ELSE met[c] \cup (IF k.to = x THEN {"to"} ELSE {})
                              \cup (IF k.from = x THEN {"from"} ELSE {})
                              \cup (IF k.from = x /\ Shrinks(x) THEN {"shrunk"} ELSE {})
        BY DEF Seen
  <1>3. met[c] \subseteq met'[c] /\ (pc[c] = "idle" => met'[c] = met[c])
        BY <1>2
  <1>4. ASSUME pc[c] # "idle"
        PROVE  /\ "to" \in met'[c] \/ file'[k.to] = file[k.to]
               /\ "from" \in met'[c] \/ file'[k.from] = file[k.from]
               /\ \/ "shrunk" \in met'[c] \/ file[k.from] = NONE
                  \/ Len(file'[k.from]) >= Len(file[k.from])
    <2>1. k.to \in Files /\ k.from \in Files
          BY <1>4 DEF CallInv
    <2> HIDE DEF k
    <2>2. "to" \in met'[c] \/ file'[k.to] = file[k.to]
          BY <1>1, <1>2, <1>4, <2>1
    <2>3. "from" \in met'[c] \/ file'[k.from] = file[k.from]
          BY <1>1, <1>2, <1>4, <2>1
    <2>4. file[k.from] # NONE => Len(file[k.from]) \in Nat
          BY <2>1, ContentIs DEF TypesInv
    <2>5. Len(content) \in Nat
          BY ContentIs
    <2>6. \/ "shrunk" \in met'[c] \/ file[k.from] = NONE
          \/ Len(file'[k.from]) >= Len(file[k.from])
      <3>1. CASE k.from = x /\ file[x] # NONE /\ file'[x] # file[x]
        <4>1. Shrinks(x) => "shrunk" \in met'[c]
              BY <1>2, <1>4, <3>1
        <4>2. ~Shrinks(x) => Len(file'[x]) >= Len(file[x])
              BY <1>1, <2>4, <2>5, <3>1 DEF Shrinks
        <4> QED BY <3>1, <4>1, <4>2
      <3>2. CASE ~(k.from = x /\ file[x] # NONE /\ file'[x] # file[x])
            BY <1>1, <2>1, <2>4, <3>2
      <3> QED BY <3>1, <3>2
    <2> QED BY <2>2, <2>3, <2>6
  <1> QED BY <1>3, <1>4 DEF Undisturbed

LEMMA NothingSpreads ==
    ASSUME TypesInv, NEW c \in Callers, CallInv(c), file' = file, met'[c] = met[c],
           call'[c] = call[c], pc'[c] = pc[c], ret'[c] = ret[c]
    PROVE  Undisturbed(c)
  <1>1. pc[c] # "idle" /\ file[call[c].from] # NONE => Len(file[call[c].from]) \in Nat
        BY ContentIs DEF TypesInv, CallInv
  <1> QED BY <1>1 DEF Undisturbed

(***************************************************************************)
(* A call keeps its invariant while others take their steps.               *)
(***************************************************************************)
LEMMA Stays ==
    ASSUME TypesInv, NEW c \in Callers, AllInv(c), Undisturbed(c), FilesStay
    PROVE  AllInv(c)'
  <1> DEFINE k == call[c]
  <1>1. /\ call'[c] = k /\ pc'[c] = pc[c] /\ ret'[c] = ret[c] /\ met[c] \subseteq met'[c]
        /\ pc[c] = "idle" => met'[c] = met[c]
        BY DEF Undisturbed
  <1>2. pc[c] # "idle" =>
           /\ "to" \in met'[c] \/ file'[k.to] = file[k.to]
           /\ "from" \in met'[c] \/ file'[k.from] = file[k.from]
           /\ \/ "shrunk" \in met'[c] \/ file[k.from] = NONE
              \/ Len(file'[k.from]) >= Len(file[k.from])
        BY DEF Undisturbed
  <1>3. (Busy(c)' <=> Busy(c)) /\ (Opened(c)' <=> Opened(c)) /\ (Differ(c)' <=> Differ(c))
        BY <1>1 DEF Busy, Opened, Differ
  <1>4. /\ pc[c] # "idle" => k.from \in Files /\ k.to \in Files
        /\ Busy(c) => file[k.from] \in Content /\ file[k.from] # NONE
        /\ Opened(c) => file[k.to] \in Content
        BY NotNone DEF AllInv, CallInv
  <1>5. CallInv(c)'
    <2>1. Busy(c) => file'[k.from] \in Content
          BY <1>4 DEF FilesStay, Busy
    <2>2. Opened(c) => file'[k.to] \in Content
          BY <1>4 DEF FilesStay, Opened
    <2> QED BY <1>1, <1>3, <2>1, <2>2 DEF AllInv, CallInv
  <1>6. SizesInv(c)'
    <2> SUFFICES ASSUME Differ(c), met'[c] \cap {"to", "shrunk", "short"} = {}
                 PROVE  /\ pc[c] = "alloc" => file'[k.to] = << >>
                        /\ pc[c] \in {"alloc", "copy", "write"} => k.size <= Len(file'[k.from])
                        /\ pc[c] \in {"copy", "write"} =>
                              /\ k.in <= Len(file'[k.from])
                              /\ Len(file'[k.to]) = IF k.size > k.total THEN k.size ELSE k.total
                        /\ pc[c] = "done" /\ ret[c] >= 0 => ret[c] = Len(file'[k.to])
        BY <1>1, <1>3 DEF SizesInv
    <2>1. met[c] \cap {"to", "shrunk", "short"} = {}
          BY <1>1
    <2>2. pc[c] # "idle" => file'[k.to] = file[k.to]
          BY <1>2
    <2>3. Busy(c) => /\ Len(file'[k.from]) >= Len(file[k.from])
                     /\ Len(file[k.from]) \in Nat /\ Len(file'[k.from]) \in Nat
      <3>1. Busy(c) => file'[k.from] \in Content
            BY <1>4 DEF FilesStay, Busy
      <3> QED BY <1>2, <1>4, <3>1, ContentIs DEF Busy
    <2>4. k.in \in Nat /\ k.size \in Nat
          BY SizesAssumption DEF TypesInv, Calls
    <2>5. /\ pc[c] = "alloc" => file[k.to] = << >>
          /\ pc[c] \in {"alloc", "copy", "write"} => k.size <= Len(file[k.from])
          /\ pc[c] \in {"copy", "write"} =>
                /\ k.in <= Len(file[k.from])
                /\ Len(file[k.to]) = IF k.size > k.total THEN k.size ELSE k.total
          /\ pc[c] = "done" /\ ret[c] >= 0 => ret[c] = Len(file[k.to])
          BY <2>1 DEF AllInv, SizesInv
    <2> HIDE DEF k
    <2>6. /\ pc[c] \in {"alloc", "copy", "write"} => k.size <= Len(file'[k.from])
          /\ pc[c] \in {"copy", "write"} => k.in <= Len(file'[k.from])
          BY <2>3, <2>4, <2>5 DEF Busy
    <2> QED BY <2>2, <2>5, <2>6
  <1>7. ContentsInv(c)'
    <2>1. ASSUME met'[c] = {}, pc[c] # "idle"
          PROVE  met[c] = {} /\ file'[k.to] = file[k.to] /\ file'[k.from] = file[k.from]
          BY <1>1, <1>2, <2>1
    <2>2. pc[c] = "idle" => ~Differ(c)
          BY DEF AllInv, CallInv, NoCall, Differ
    <2> HIDE DEF k
    <2> QED BY <1>1, <1>3, <2>1, <2>2 DEF AllInv, ContentsInv, k
  <1> QED BY <1>5, <1>6, <1>7 DEF AllInv
----------------------------------------------------------------------------
(***************************************************************************)
(* A step of one call, which changes a file or does not, leaves the        *)
(* invariant of the others to the two lemmas before.                       *)
(***************************************************************************)
Marks  == SUBSET {"exists", "refused", "short", "from", "to", "shrunk"}
Labels == {"idle", "open", "alloc", "copy", "write", "done"}

Moves(c, fields, label, r) ==
    /\ linux' = linux
    /\ call' = [call EXCEPT ![c] = fields]
    /\ pc' = [pc EXCEPT ![c] = label]
    /\ ret' = [ret EXCEPT ![c] = r]

Writes(c, x, content, m) ==
    /\ file' = [file EXCEPT ![x] = content]
    /\ met' = [Seen(c, x) EXCEPT ![c] = m]

Spares(c, m) ==
    /\ file' = file
    /\ met' = [met EXCEPT ![c] = m]

LEMMA QuietStep ==
    ASSUME CopyInv, NEW c \in Callers, NEW fields \in Calls, NEW label \in Labels,
           NEW r \in -1..MaxSize, Moves(c, fields, label, r),
           NEW m \in Marks, Spares(c, m)
    PROVE  /\ call'[c] = fields /\ pc'[c] = label /\ ret'[c] = r /\ met'[c] = m
           /\ TypesInv' /\ FilesStay
           /\ \A d \in Callers : d # c => Undisturbed(d)
  <1> USE DEF Spares
  <1>1. TypesInv /\ \A d \in Callers : CallInv(d)
        BY DEF CopyInv
  <1>2. call'[c] = fields /\ pc'[c] = label /\ ret'[c] = r /\ met'[c] = m
        BY <1>1 DEF TypesInv, Moves
  <1>3. TypesInv'
    <2> HIDE DEF Calls
    <2> QED BY <1>1 DEF TypesInv, Moves, Labels, Marks
  <1>4. FilesStay
        BY DEF FilesStay
  <1>5. ASSUME NEW d \in Callers, d # c PROVE Undisturbed(d)
    <2>1. call'[d] = call[d] /\ pc'[d] = pc[d] /\ ret'[d] = ret[d] /\ met'[d] = met[d]
          BY <1>1, <1>5 DEF TypesInv, Moves
    <2> QED BY <1>1, <2>1, NothingSpreads
  <1> QED BY <1>2, <1>3, <1>4, <1>5

LEMMA FileStep ==
    ASSUME CopyInv, NEW c \in Callers, NEW fields \in Calls, NEW label \in Labels,
           NEW r \in -1..MaxSize, Moves(c, fields, label, r),
           NEW x \in Files, NEW content \in Content, NEW m \in Marks, Writes(c, x, content, m)
    PROVE  /\ call'[c] = fields /\ pc'[c] = label /\ ret'[c] = r /\ met'[c] = m
           /\ file'[x] = content /\ \A y \in Files : y # x => file'[y] = file[y]
           /\ TypesInv' /\ FilesStay
           /\ \A d \in Callers : d # c => Undisturbed(d)
  <1>1. TypesInv /\ \A d \in Callers : CallInv(d)
        BY DEF CopyInv
  <1> USE DEF Writes
  <1>2. file'[x] = content /\ \A y \in Files : y # x => file'[y] = file[y]
        BY <1>1 DEF TypesInv
  <1>3. call'[c] = fields /\ pc'[c] = label /\ ret'[c] = r /\ met'[c] = m
        BY <1>1 DEF TypesInv, Moves, Seen
  <1>4. met' \in [Callers -> Marks]
    <2>1. \A d \in Callers : Seen(c, x)[d] \in Marks
          BY <1>1 DEF TypesInv, Seen, Marks
    <2>2. Seen(c, x) \in [Callers -> Marks]
          BY <2>1 DEF Seen
    <2> QED BY <2>2
  <1>5. TypesInv'
    <2> HIDE DEF Calls, Content
    <2> QED BY <1>1, <1>4 DEF TypesInv, Moves, Labels, Marks
  <1>6. FilesStay
        BY <1>2 DEF FilesStay
  <1>7. ASSUME NEW d \in Callers, d # c PROVE Undisturbed(d)
    <2>1. call'[d] = call[d] /\ pc'[d] = pc[d] /\ ret'[d] = ret[d]
          BY <1>1, <1>7 DEF TypesInv, Moves
    <2>2. met'[d] = Seen(c, x)[d]
          BY <1>7 DEF Seen
    <2> QED BY <1>1, <1>7, <2>1, <2>2, Spreads
  <1> QED BY <1>2, <1>3, <1>5, <1>6, <1>7

LEMMA OneStays ==
    ASSUME CopyInv, NEW c \in Callers, \A d \in Callers : d # c => Undisturbed(d),
           Opened(c)' => Opened(c) /\ call'[c].flags = call[c].flags /\ call'[c].to = call[c].to
    PROVE  OneEach'
  <1>1. \A d \in Callers : Opened(d)' => /\ Opened(d)
                                         /\ call'[d].flags = call[d].flags
                                         /\ call'[d].to = call[d].to
        BY DEF Undisturbed, Opened
  <1>2. OneEach
        BY DEF CopyInv
  <1> HIDE DEF Opened
  <1> QED BY <1>1, <1>2 DEF OneEach

LEMMA Keeps ==
    ASSUME CopyInv, NEW c \in Callers, TypesInv', FilesStay, OneEach', AllInv(c)',
           \A d \in Callers : d # c => Undisturbed(d)
    PROVE  CopyInv'
  <1>1. \A d \in Callers : AllInv(d)'
    <2> SUFFICES ASSUME NEW d \in Callers PROVE AllInv(d)'
        OBVIOUS
    <2>1. CASE d = c
          BY <2>1
    <2>2. CASE d # c
          BY <2>2, Stays DEF CopyInv, AllInv
    <2> QED BY <2>1, <2>2
  <1> QED BY <1>1 DEF CopyInv, AllInv
----------------------------------------------------------------------------
(***************************************************************************)
(* Each step of a call keeps the invariant.                                *)
(***************************************************************************)
LEMMA CallKeeps ==
    ASSUME CopyInv, NEW c \in Callers, NEW from \in Files, NEW to \in Files,
           NEW flags \in {"none", "overwrite", "unknown"}, Call(c, from, to, flags)
    PROVE  CopyInv'
  <1> USE SizesAssumption
  <1> DEFINE fds    == IF flags = "unknown" \/ file[from] = NONE THEN {} ELSE {"ifd"}
             fields == [from |-> from, to |-> to, flags |-> flags, was |-> file[from],
                        size |-> 0, in |-> 0, buf |-> << >>, total |-> 0, fds |-> fds]
             label  == IF flags = "unknown" \/ file[from] = NONE THEN "done" ELSE "open"
             r      == IF flags = "unknown" \/ file[from] = NONE THEN -1 ELSE ret[c]
  <1>1. TypesInv /\ CallInv(c) /\ pc[c] = "idle" /\ met[c] = {}
        BY DEF CopyInv, Call, CallInv
  <1>2. file[from] \in Content \cup {NONE} /\ << >> \in Content
        BY <1>1, NotNone DEF TypesInv
  <1>3. fields \in Calls /\ label \in Labels /\ r \in -1..MaxSize /\ met[c] \in Marks
    <2>1. fds \in SUBSET {"ifd", "ofd"} /\ 0 \in 0..MaxSize
          OBVIOUS
    <2>2. label \in Labels /\ r \in -1..MaxSize /\ met[c] \in Marks
          BY <1>1 DEF TypesInv, Labels, Marks
    <2> HIDE DEF fds, Content
    <2>3. fields \in Calls
          BY <1>2, <2>1 DEF Calls
    <2> QED BY <2>2, <2>3
  <1>4. Moves(c, fields, label, r) /\ met' = [met EXCEPT ![c] = met[c]] /\ file' = file
    <2>1. ret = [ret EXCEPT ![c] = ret[c]] /\ met = [met EXCEPT ![c] = met[c]]
          BY <1>1 DEF TypesInv
    <2> QED BY <2>1 DEF Call, Goto, Moves, NoCall
  <1> HIDE DEF fields, label, r
  <1>5. /\ call'[c] = fields /\ pc'[c] = label /\ ret'[c] = r /\ met'[c] = {}
        /\ TypesInv' /\ FilesStay
        /\ \A d \in Callers : d # c => Undisturbed(d)
        BY <1>1, <1>3, <1>4, QuietStep DEF Spares
  <1>6. AllInv(c)'
    <2>1. fields.from = from /\ fields.to = to /\ fields.flags = flags
          /\ fields.was = file[from] /\ fields.in = 0 /\ fields.buf = << >>
          /\ fields.total = 0 /\ fields.fds = fds
          BY DEF fields
    <2>2. \/ label = "done" /\ r = -1 /\ fds = {} /\ (flags = "unknown" \/ file[from] = NONE)
          \/ label = "open" /\ flags # "unknown" /\ file[from] # NONE
          BY DEF label, r
    <2> HIDE DEF fds
    <2>3. CallInv(c)'
          BY <1>2, <1>4, <1>5, <2>1, <2>2 DEF CallInv, Busy, Opened
    <2>4. SizesInv(c)'
          BY <1>4, <1>5, <2>1, <2>2 DEF SizesInv
    <2>5. ContentsInv(c)'
          BY <1>4, <1>5, <2>1, <2>2 DEF ContentsInv, Busy
    <2> QED BY <2>3, <2>4, <2>5 DEF AllInv
  <1>7. ~Opened(c)'
        BY <1>5 DEF Opened, label, r
  <1>8. OneEach'
        BY <1>5, <1>7, OneStays
  <1> QED BY <1>5, <1>6, <1>8, Keeps

(***************************************************************************)
(* A call that gives up.                                                   *)
(***************************************************************************)
LEMMA FailKeeps ==
    ASSUME CopyInv, NEW c \in Callers, Busy(c), NEW m \in Marks,
           Cleanup(c, -1), Spares(c, m), linux' = linux,
           met[c] \subseteq m, m = {} => call[c].was = << >> \/ ~Differ(c)
    PROVE  CopyInv'
  <1> USE SizesAssumption
  <1> DEFINE fields == Gone(c, {})
             r == -1
             label == "done"
  <1>1. TypesInv /\ CallInv(c) /\ SizesInv(c) /\ ContentsInv(c) /\ call[c] \in Calls
        BY DEF CopyInv, TypesInv
  <1>2. /\ fields \in Calls /\ fields.from = call[c].from /\ fields.to = call[c].to
        /\ fields.flags = call[c].flags /\ fields.was = call[c].was
        /\ fields.in = 0 /\ fields.total = 0 /\ fields.buf = << >> /\ fields.fds = {}
    <2>1. << >> \in Content /\ 0 \in 0..MaxSize
          BY NotNone
    <2> HIDE DEF Content
    <2> QED BY <1>1, <2>1 DEF Gone, Calls
  <1> HIDE DEF fields
  <1>3. r \in -1..MaxSize /\ r = -1 /\ label \in Labels /\ label = "done"
        BY DEF Labels
  <1> HIDE DEF r, label
  <1>4. Moves(c, fields, label, r)
        BY <1>3 DEF Cleanup, Moves, fields
  <1>5. /\ call'[c] = fields /\ pc'[c] = label /\ ret'[c] = r /\ met'[c] = m
        /\ TypesInv' /\ FilesStay
        /\ \A d \in Callers : d # c => Undisturbed(d)
        BY <1>2, <1>3, <1>4, QuietStep
  <1>6. CallInv(c)'
        BY <1>1, <1>2, <1>3, <1>5 DEF CallInv, Busy, Opened, Spares
  <1>7. SizesInv(c)'
        BY <1>3, <1>5 DEF SizesInv
  <1>8. ContentsInv(c)'
        BY <1>2, <1>3, <1>5 DEF ContentsInv, Busy, Differ, Spares
  <1>9. OneEach'
    <2>1. ~Opened(c)'
          BY <1>3, <1>5 DEF Opened
    <2> QED BY <1>5, <2>1, OneStays
  <1> QED BY <1>5, <1>6, <1>7, <1>8, <1>9, Keeps DEF AllInv

LEMMA RefusedKeeps ==
    ASSUME CopyInv, NEW c \in Callers, Refused(c)
    PROVE  CopyInv'
  <1> DEFINE m == met[c] \cup {"refused"}
  <1>1. Busy(c) /\ met[c] \in Marks
        BY DEF Refused, Busy, CopyInv, TypesInv, Marks
  <1>2. m \in Marks /\ m # {} /\ met[c] \subseteq m
        BY <1>1 DEF Marks
  <1>3. met' = [met EXCEPT ![c] = m] /\ Cleanup(c, -1) /\ file' = file /\ linux' = linux
        BY DEF Refused
  <1> HIDE DEF m
  <1> QED BY <1>1, <1>2, <1>3, FailKeeps DEF Spares

LEMMA SeenIs ==
    ASSUME CopyInv, NEW c \in Callers, NEW x
    PROVE  Seen(c, x) = [Seen(c, x) EXCEPT ![c] = met[c]] /\ met[c] \in Marks
  <1>1. Seen(c, x)[c] = met[c] /\ met[c] \in Marks
        BY DEF Seen, CopyInv, TypesInv, Marks
  <1>2. Seen(c, x) = [d \in Callers |-> Seen(c, x)[d]]
        BY DEF Seen
  <1> QED BY <1>1, <1>2

LEMMA OpenKeeps ==
    ASSUME CopyInv, NEW c \in Callers, Open(c)
    PROVE  CopyInv'
  <1> USE SizesAssumption
  <1> DEFINE k == call[c]
  <1>1. /\ TypesInv /\ CallInv(c) /\ SizesInv(c) /\ ContentsInv(c) /\ k \in Calls
        /\ pc[c] = "open" /\ OneEach /\ \A d \in Callers : CallInv(d)
        BY DEF CopyInv, Open, TypesInv
  <1>2. CASE Exists(c)
    <2> DEFINE m == met[c] \cup {"exists"}
    <2>1. m \in Marks /\ m # {} /\ met[c] \subseteq m /\ Busy(c)
          BY <1>1 DEF TypesInv, Marks, Busy
    <2>2. met' = [met EXCEPT ![c] = m] /\ Cleanup(c, -1) /\ file' = file /\ linux' = linux
          BY <1>2 DEF Open
    <2> HIDE DEF m
    <2> QED BY <2>1, <2>2, FailKeeps DEF Spares
  <1>3. CASE ~Exists(c)
    <2> DEFINE x      == k.to
               empty  == << >>
               size   == Len(file'[k.from])
               fields == [k EXCEPT !.fds = @ \cup {"ofd"}, !.size = size]
               label  == "alloc"
               r      == ret[c]
               m      == met[c]
    <2>1. /\ x \in Files /\ k.from \in Files /\ file[k.from] \in Content /\ k.was \in Content
          /\ k.in = 0 /\ k.total = 0 /\ k.buf = << >> /\ k.flags # "unknown"
          BY <1>1 DEF CallInv, Busy, Calls
    <2>2. file' = [file EXCEPT ![x] = empty] /\ empty \in Content
          BY <1>3, NotNone DEF Open, Change
    <2>3. file'[x] = empty /\ \A y \in Files : y # x => file'[y] = file[y]
          BY <1>1, <2>1, <2>2 DEF TypesInv
    <2>4. file'[k.from] \in Content /\ size \in 0..MaxSize
      <3>1. file'[k.from] \in Content
            BY <2>1, <2>2, <2>3
      <3> QED BY <3>1, ContentIs
    <2>5. met' = [Seen(c, x) EXCEPT ![c] = m] /\ m \in Marks
          BY <1>3, SeenIs DEF Open, Change
    <2> HIDE DEF size
    <2>6. /\ fields \in Calls
          /\ fields.from = k.from /\ fields.to = k.to /\ fields.flags = k.flags
          /\ fields.was = k.was /\ fields.size = size /\ fields.in = 0 /\ fields.buf = << >>
          /\ fields.total = 0
      <3> HIDE DEF k, Content
      <3> QED BY <1>1, <2>1, <2>4 DEF Calls
    <2>7. label \in Labels /\ r \in -1..MaxSize /\ label = "alloc"
          BY <1>1 DEF Labels, TypesInv
    <2>8. Moves(c, fields, label, r)
      <3>1. ret = [ret EXCEPT ![c] = ret[c]]
            BY <1>1 DEF TypesInv
      <3> QED BY <1>3, <3>1 DEF Open, Goto, Moves, size
    <2> HIDE DEF fields, label, r, m, x, empty
    <2>9. Writes(c, x, empty, m)
          BY <2>2, <2>5 DEF Writes
    <2>10. /\ call'[c] = fields /\ pc'[c] = label /\ met'[c] = m
          /\ TypesInv' /\ FilesStay
          /\ \A d \in Callers : d # c => Undisturbed(d)
          BY <2>1, <2>2, <2>5, <2>6, <2>7, <2>8, <2>9, FileStep
    <2>11. AllInv(c)'
      <3>1. CallInv(c)'
            BY <1>1, <2>1, <2>2, <2>3, <2>4, <2>6, <2>7, <2>10 DEF CallInv, Busy, Opened, x, m
      <3>2. SizesInv(c)'
            BY <2>1, <2>3, <2>4, <2>6, <2>7, <2>10 DEF SizesInv, Differ, x, empty, size
      <3>3. ContentsInv(c)'
            BY <1>1, <2>1, <2>3, <2>6, <2>7, <2>10 DEF ContentsInv, Busy, Differ, x, m, size
      <3> QED BY <3>1, <3>2, <3>3 DEF AllInv
    <2>12. OneEach'
      <3>1. k.flags = "none" => file[x] = NONE
            BY <1>3 DEF Exists, x
      <3>2. \A d \in Callers : d # c /\ Opened(d)' =>
               /\ Opened(d) /\ call'[d] = call[d] /\ file[call[d].to] # NONE
            BY <1>1, <2>10, NotNone DEF Undisturbed, Opened, CallInv
      <3> HIDE DEF Opened
      <3> QED BY <1>1, <2>6, <2>10, <3>1, <3>2 DEF OneEach, x
    <2> QED BY <2>10, <2>11, <2>12, Keeps
  <1> QED BY <1>2, <1>3

LEMMA AllocateKeeps ==
    ASSUME CopyInv, NEW c \in Callers, Allocate(c)
    PROVE  CopyInv'
  <1> USE SizesAssumption
  <1> DEFINE k     == call[c]
             x     == k.to
             label == "copy"
             r     == ret[c]
             m     == met[c]
  <1>1. /\ TypesInv /\ CallInv(c) /\ SizesInv(c) /\ ContentsInv(c) /\ k \in Calls
        /\ pc[c] = "alloc" /\ r \in -1..MaxSize /\ m \in Marks /\ Opened(c)
        BY DEF CopyInv, Allocate, TypesInv, Marks, Opened
  <1>2. PICK err \in fallocate(k.size) :
           IF err = "done" \/ Fallback(err)
           THEN /\ IF err = "done" /\ Len(file[x]) >= k.size
                   THEN UNCHANGED <<file, met>>
                   ELSE Change(c, x, Resized(file[x], k.size))
                /\ Goto(c, "copy", k)
           ELSE Cleanup(c, -1) /\ UNCHANGED <<file, met>>
        BY DEF Allocate
  <1>3. /\ x \in Files /\ k.from \in Files /\ file[k.from] \in Content /\ k.was \in Content
        /\ file[x] \in Content /\ k.in = 0 /\ k.total = 0 /\ k.buf = << >> /\ k.flags # "unknown"
        /\ k.size \in 0..MaxSize
        BY <1>1 DEF CallInv, Busy, Opened, Calls
  <1>4. linux' = linux /\ met = [met EXCEPT ![c] = m] /\ ret = [ret EXCEPT ![c] = r]
        BY <1>1 DEF Allocate, TypesInv
  <1>5. label \in Labels /\ label = "copy"
        BY DEF Labels
  <1>6. CASE ~(err = "done" \/ Fallback(err))
    <2>1. k.size = 0
          BY <1>2, <1>6 DEF fallocate, Fallback
    <2>2. m = {} => k.was = << >> \/ ~Differ(c)
      <3>1. m = {} /\ Differ(c) => Len(k.was) = 0
            BY <1>1, <2>1 DEF ContentsInv
      <3>2. k.was \in Seq(Block)
            BY <1>3, ContentIs
      <3> QED BY <3>1, <3>2
    <2>3. Cleanup(c, -1) /\ met' = [met EXCEPT ![c] = m] /\ file' = file /\ Busy(c)
          BY <1>1, <1>2, <1>4, <1>6 DEF Busy
    <2> HIDE DEF m
    <2>4. m \subseteq m
          OBVIOUS
    <2> QED BY <1>1, <1>4, <2>2, <2>3, <2>4, FailKeeps DEF m, Spares
  <1>7. CASE err = "done" \/ Fallback(err)
    <2>1. Moves(c, k, label, r)
          BY <1>2, <1>4, <1>7 DEF Moves, Goto
    <2>2. CASE err = "done" /\ Len(file[x]) >= k.size
      <3>1. file' = file /\ met' = [met EXCEPT ![c] = m]
            BY <1>2, <1>4, <1>7, <2>2
      <3> HIDE DEF k, label, r, m
      <3>2. /\ call'[c] = k /\ pc'[c] = label /\ met'[c] = m
            /\ TypesInv' /\ FilesStay
            /\ \A d \in Callers : d # c => Undisturbed(d)
            BY <1>1, <1>5, <2>1, <3>1, QuietStep DEF Spares
      <3>3. CallInv(c)'
            BY <1>1, <1>3, <1>5, <3>1, <3>2 DEF CallInv, Busy, Opened, x, m, k
      <3>4. SizesInv(c)'
        <4>1. Len(<< >>) = 0 /\ Len(file[k.from]) \in Nat
              BY <1>3, ContentIs
        <4> QED BY <1>1, <1>3, <1>5, <2>2, <3>1, <3>2, <4>1 DEF SizesInv, Differ, x, m, k
      <3>5. ContentsInv(c)'
            BY <1>1, <1>3, <1>5, <3>1, <3>2 DEF ContentsInv, Busy, Differ, x, m, k
      <3>6. OneEach'
            BY <1>1, <3>2, OneStays DEF k
      <3> QED BY <3>2, <3>3, <3>4, <3>5, <3>6, Keeps DEF AllInv
    <2>3. CASE ~(err = "done" /\ Len(file[x]) >= k.size)
      <3> DEFINE t == Resized(file[x], k.size)
      <3>1. t \in Content /\ Len(t) = k.size
            BY <1>3, ResizedIs
      <3>2. file' = [file EXCEPT ![x] = t] /\ met' = [Seen(c, x) EXCEPT ![c] = m]
            BY <1>2, <1>7, <2>3, SeenIs DEF Change
      <3> HIDE DEF k, label, r, m, t, x
      <3>3. Writes(c, x, t, m)
            BY <3>2 DEF Writes
      <3>4. /\ call'[c] = k /\ pc'[c] = label /\ met'[c] = m
            /\ file'[x] = t /\ \A y \in Files : y # x => file'[y] = file[y]
            /\ TypesInv' /\ FilesStay
            /\ \A d \in Callers : d # c => Undisturbed(d)
            BY <1>1, <1>3, <1>5, <2>1, <3>1, <3>3, FileStep
      <3>5. CallInv(c)'
            BY <1>1, <1>3, <1>5, <3>1, <3>4 DEF CallInv, Busy, Opened, x, m, k
      <3>6. SizesInv(c)'
        <4>1. Len(file[k.from]) \in Nat
              BY <1>3, ContentIs
        <4> QED BY <1>1, <1>3, <1>5, <3>1, <3>4, <4>1 DEF SizesInv, Differ, x, m, k
      <3>7. ContentsInv(c)'
            BY <1>1, <1>3, <1>5, <3>4 DEF ContentsInv, Busy, Differ, x, m, k
      <3>8. OneEach'
            BY <1>1, <3>4, OneStays DEF k
      <3> QED BY <3>4, <3>5, <3>6, <3>7, <3>8, Keeps DEF AllInv
    <2> QED BY <2>2, <2>3
  <1> QED BY <1>6, <1>7

(***************************************************************************)
(* The end of the source is reached: what was written is all there is.     *)
(***************************************************************************)
LEMMA EndKeeps ==
    ASSUME CopyInv, NEW c \in Callers, pc[c] = "copy", Cleanup(c, call[c].total),
           file' = file, met' = met, linux' = linux, Len(Source(c)) <= call[c].in
    PROVE  CopyInv'
  <1> USE SizesAssumption
  <1> DEFINE k      == call[c]
             fields == Gone(c, {})
             label  == "done"
             r      == k.total
             m      == met[c]
  <1>1. /\ TypesInv /\ CallInv(c) /\ SizesInv(c) /\ ContentsInv(c) /\ k \in Calls
        /\ m \in Marks /\ Opened(c)
        BY DEF CopyInv, TypesInv, Marks, Opened
  <1>2. /\ fields \in Calls /\ fields.from = k.from /\ fields.to = k.to
        /\ fields.flags = k.flags /\ fields.was = k.was
        /\ fields.in = 0 /\ fields.total = 0 /\ fields.buf = << >> /\ fields.fds = {}
    <2>1. << >> \in Content /\ 0 \in 0..MaxSize
          BY NotNone
    <2> HIDE DEF Content
    <2> QED BY <1>1, <2>1 DEF Gone, Calls
  <1>3. /\ k.to \in Files /\ k.from \in Files /\ file[k.from] \in Content
        /\ file[k.to] \in Content /\ k.was \in Content /\ k.buf = << >>
        /\ k.in \in Nat /\ k.total \in 0..MaxSize /\ k.size \in Nat
        BY <1>1 DEF CallInv, Busy, Opened, Calls
  <1>4. label \in Labels /\ label = "done" /\ r \in -1..MaxSize /\ r \in Nat
        BY <1>3 DEF Labels
  <1>5. Moves(c, fields, label, r) /\ Spares(c, m)
        BY <1>1 DEF Cleanup, Moves, Spares, TypesInv
  <1> HIDE DEF k, fields, label, r, m
  <1>6. /\ call'[c] = fields /\ pc'[c] = label /\ ret'[c] = r /\ met'[c] = m
        /\ TypesInv' /\ FilesStay
        /\ \A d \in Callers : d # c => Undisturbed(d)
        BY <1>1, <1>2, <1>4, <1>5, QuietStep
  <1>7. Differ(c) /\ m \cap {"to", "shrunk", "short"} = {} =>
           r = Len(file[k.to]) /\ r = Len(file[k.from])
    <2> SUFFICES ASSUME Differ(c), m \cap {"to", "shrunk", "short"} = {}
                 PROVE  r = Len(file[k.to]) /\ r = Len(file[k.from])
        OBVIOUS
    <2>1. /\ k.size <= Len(file[k.from]) /\ k.in <= Len(file[k.from])
          /\ Len(file[k.to]) = IF k.size > k.total THEN k.size ELSE k.total
          BY <1>1 DEF SizesInv, k, m
    <2>2. k.in = k.total + Len(k.buf) /\ Len(k.buf) = 0
          BY <1>1, <1>3 DEF CallInv, k, m
    <2>3. Len(file[k.from]) \in Nat /\ Len(file[k.from]) <= k.in
          BY <1>3, ContentIs DEF Source, k
    <2> QED BY <1>3, <2>1, <2>2, <2>3 DEF r
  <1>8. Differ(c) /\ m = {} => file[k.to] = k.was
    <2> SUFFICES ASSUME Differ(c), m = {} PROVE file[k.to] = k.was
        OBVIOUS
    <2>1. /\ file[k.from] = k.was
          /\ \A i \in 1..k.total : file[k.to][i] = k.was[i]
          BY <1>1 DEF ContentsInv, Busy, k, m
    <2>2. Len(file[k.to]) = k.total /\ Len(k.was) = k.total
          BY <1>7, <2>1 DEF r
    <2>3. file[k.to] \in Seq(Block) /\ k.was \in Seq(Block)
          BY <1>3, ContentIs
    <2> QED BY <2>1, <2>2, <2>3, SameSequence
  <1>9. CallInv(c)'
        BY <1>2, <1>3, <1>4, <1>6 DEF CallInv, Busy, Opened
  <1>10. SizesInv(c)'
        BY <1>2, <1>4, <1>6, <1>7 DEF SizesInv, Differ, k
  <1>11. ContentsInv(c)'
        BY <1>2, <1>4, <1>6, <1>8 DEF ContentsInv, Busy, Differ, k
  <1>12. OneEach'
        BY <1>1, <1>2, <1>6, OneStays DEF k
  <1> QED BY <1>6, <1>9, <1>10, <1>11, <1>12, Keeps DEF AllInv

LEMMA Lengthened ==
    ASSUME NEW s \in Content, NEW b \in Seq(Block), NEW offset \in Nat,
           offset + Len(b) <= MaxSize, offset <= Len(s), NEW w,
           \A i \in 1..offset : s[i] = w[i],
           \A i \in 1..Len(b) : b[i] = w[offset + i]
    PROVE  \A i \in 1..offset + Len(b) : Put(s, offset, b)[i] = w[i]
  <1> DEFINE t == Put(s, offset, b)
  <1>1. /\ \A i \in 1..Len(b) : t[offset + i] = b[i]
        /\ \A i \in 1..offset : i <= Len(s) => t[i] = s[i]
        BY PutIs
  <1>2. Len(s) \in Nat /\ Len(b) \in Nat
        BY ContentIs
  <1> HIDE DEF t
  <1> SUFFICES ASSUME NEW i \in 1..offset + Len(b) PROVE t[i] = w[i]
      BY DEF t
  <1>3. CASE i <= offset
    <2>1. i \in 1..offset /\ i <= Len(s)
          BY <1>2, <1>3
    <2> QED BY <1>1, <2>1
  <1>4. CASE ~(i <= offset)
    <2>1. PICK j \in 1..Len(b) : i = offset + j
      <3>1. i - offset \in 1..Len(b) /\ i = offset + (i - offset)
            BY <1>2, <1>4
      <3> QED BY <3>1
    <2> QED BY <1>1, <2>1
  <1> QED BY <1>3, <1>4

(***************************************************************************)
(* n blocks of the source, or of the buffer, are put behind the others.    *)
(***************************************************************************)
LEMMA PutKeeps ==
    ASSUME CopyInv, NEW c \in Callers, pc[c] \in {"copy", "write"},
           NEW in \in Nat, NEW b \in Content, NEW m \in Marks,
           Moves(c, [call[c] EXCEPT !.in = in, !.total = @ + Len(b), !.buf = << >>], "copy", ret[c]),
           Writes(c, call[c].to, Put(file[call[c].to], call[c].total, b), m),
           m = met[c] \/ m = met[c] \cup {"short"},
           in <= MaxSize, call[c].total + Len(b) <= in,
           "short" \notin m => in = call[c].total + Len(b),
           "short" \notin m /\ in > call[c].in => in <= Len(file[call[c].from]),
           call[c].in <= in,
           Differ(c) /\ m = {} => \A i \in 1..Len(b) : b[i] = call[c].was[call[c].total + i]
    PROVE  CopyInv'
  <1> USE SizesAssumption
  <1> DEFINE k      == call[c]
             x      == k.to
             total  == k.total + Len(b)
             fields == [call[c] EXCEPT !.in = in, !.total = @ + Len(b), !.buf = << >>]
             label  == "copy"
             r      == ret[c]
             t      == Put(file[x], k.total, b)
  <1>1. /\ TypesInv /\ CallInv(c) /\ SizesInv(c) /\ ContentsInv(c) /\ k \in Calls
        /\ r \in -1..MaxSize /\ Opened(c)
        BY DEF CopyInv, TypesInv, Opened
  <1>2. /\ x \in Files /\ k.from \in Files /\ file[k.from] \in Content
        /\ file[x] \in Content /\ k.was \in Content /\ k.flags # "unknown"
        /\ k.in \in Nat /\ k.total \in Nat /\ k.size \in Nat
        /\ b \in Seq(Block) /\ Len(b) \in Nat /\ Len(file[x]) \in Nat
        /\ Len(file[k.from]) \in Nat
    <2>1. /\ x \in Files /\ k.from \in Files /\ file[k.from] \in Content
          /\ file[x] \in Content /\ k.was \in Content /\ k.flags # "unknown"
          BY <1>1 DEF CallInv, Busy, Opened
    <2>2. k.in \in Nat /\ k.total \in Nat /\ k.size \in Nat
      <3> HIDE DEF k, Content
      <3> QED BY <1>1 DEF Calls
    <2> QED BY <2>1, <2>2, ContentIs
  <1>3. total \in Nat /\ total <= MaxSize
        BY <1>2
  <1>4. /\ t \in Content
        /\ Len(t) = IF total > Len(file[x]) THEN total ELSE Len(file[x])
        BY <1>2, <1>3, PutIs
  <1>5. label \in Labels /\ label = "copy"
        BY DEF Labels
  <1>6. /\ fields \in Calls /\ fields.from = k.from /\ fields.to = x
        /\ fields.flags = k.flags /\ fields.was = k.was /\ fields.size = k.size
        /\ fields.in = in /\ fields.total = total /\ fields.buf = << >>
        /\ fields.fds = k.fds
    <2>1. << >> \in Content /\ in \in 0..MaxSize /\ total \in 0..MaxSize
          BY <1>3, NotNone
    <2>2. fields = [k EXCEPT !.in = in, !.total = total, !.buf = << >>]
          OBVIOUS
    <2> HIDE DEF Content, total, k, fields
    <2> QED BY <1>1, <2>1, <2>2 DEF Calls, x
  <1>7. Moves(c, fields, label, r) /\ Writes(c, x, t, m)
        OBVIOUS
  <1>8. m = {} => met[c] = {}
        OBVIOUS
  <1>9. m \cap {"to", "shrunk", "short"} = {} => met[c] \cap {"to", "shrunk", "short"} = {}
        OBVIOUS
  <1>10. /\ "short" \notin m => in = total
         /\ "short" \notin m /\ in > k.in => in <= Len(file[k.from])
         /\ Differ(c) /\ m = {} => \A i \in 1..Len(b) : b[i] = k.was[k.total + i]
         /\ total <= in /\ k.in <= in
        OBVIOUS
  <1>11. /\ call'[c] = fields /\ pc'[c] = label /\ met'[c] = m
         /\ file'[x] = t /\ \A y \in Files : y # x => file'[y] = file[y]
         /\ TypesInv' /\ FilesStay
         /\ \A d \in Callers : d # c => Undisturbed(d)
    <2> HIDE DEF k, x, total, fields, label, r, t
    <2> QED BY <1>1, <1>2, <1>4, <1>5, <1>6, <1>7, FileStep
  <1>12. CallInv(c)'
    <2> HIDE DEF k, x, total, fields, label, r, t
    <2>1. Len(<< >>) = 0
          OBVIOUS
    <2> QED BY <1>1, <1>2, <1>3, <1>4, <1>5, <1>6, <1>10, <1>11, <2>1
            DEF CallInv, Busy, Opened, x
  <1>13. Differ(c) /\ met[c] \cap {"to", "shrunk", "short"} = {} =>
            /\ k.in <= Len(file[k.from]) /\ k.size <= Len(file[k.from])
            /\ Len(file[x]) = IF k.size > k.total THEN k.size ELSE k.total
        BY <1>1 DEF SizesInv
  <1>14. SizesInv(c)'
    <2> SUFFICES ASSUME Differ(c), m \cap {"to", "shrunk", "short"} = {}
                 PROVE  /\ k.size <= Len(file'[k.from])
                        /\ in <= Len(file'[k.from])
                        /\ Len(t) = IF k.size > total THEN k.size ELSE total
      <3> HIDE DEF k, x, total, fields, label, r, t
      <3> QED BY <1>5, <1>6, <1>11 DEF SizesInv, Differ, x, k
    <2>1. file'[k.from] = file[k.from]
          BY <1>2, <1>11 DEF Differ
    <2>2. "short" \notin m /\ met[c] \cap {"to", "shrunk", "short"} = {}
          BY <1>9
    <2>3. Differ(c)
          OBVIOUS
    <2> HIDE DEF k, x, t
    <2>4. /\ k.in <= Len(file[k.from]) /\ k.size <= Len(file[k.from])
          /\ Len(file[x]) = IF k.size > k.total THEN k.size ELSE k.total
          BY <1>13, <2>2, <2>3
    <2> HIDE <1>13
    <2>5. in \in Nat /\ k.in <= in /\ (in > k.in => in <= Len(file[k.from]))
          BY <1>2, <1>3, <1>10, <2>2
    <2>6. in <= Len(file[k.from])
          BY <1>2, <2>4, <2>5
    <2>7. k.total \in Nat /\ total \in Nat /\ k.total <= total /\ k.size \in Nat
          BY <1>2, <1>3
    <2>8. Len(t) = IF k.size > total THEN k.size ELSE total
          BY <1>4, <2>4, <2>7
    <2> QED BY <2>1, <2>4, <2>6, <2>8
  <1>15. ContentsInv(c)'
    <2> SUFFICES ASSUME Differ(c), m = {}
                 PROVE  /\ file'[k.from] = k.was
                        /\ \A i \in 1..total : t[i] = k.was[i]
      <3> HIDE DEF k, x, total, fields, label, r, t
      <3> QED BY <1>5, <1>6, <1>11 DEF ContentsInv, Busy, Differ, x, k
    <2>1. file'[k.from] = k.was
          BY <1>1, <1>2, <1>8, <1>11 DEF Differ, ContentsInv, Busy
    <2>2. met[c] = {} /\ \A i \in 1..k.total : file[x][i] = k.was[i]
          BY <1>1, <1>8 DEF ContentsInv
    <2>3. k.total <= Len(file[x])
          BY <1>2, <1>13, <2>2
    <2>4. \A i \in 1..k.total + Len(b) : Put(file[x], k.total, b)[i] = k.was[i]
      <3> DEFINE s == file[x]
                 w == k.was
                 offset == k.total
      <3>1. /\ s \in Content /\ offset \in Nat /\ offset + Len(b) <= MaxSize /\ offset <= Len(s)
            /\ b \in Seq(Block) /\ \A i \in 1..offset : s[i] = w[i]
            BY <1>2, <1>3, <2>2, <2>3
      <3>2. \A i \in 1..Len(b) : b[i] = w[offset + i]
            BY <1>10
      <3>3. \A i \in 1..offset + Len(b) : Put(s, offset, b)[i] = w[i]
        <4> HIDE DEF s, w, offset, k, x
        <4> QED BY <3>1, <3>2, Lengthened
      <3> QED BY <3>3
    <2> QED BY <2>1, <2>4
  <1>16. OneEach'
    <2> HIDE DEF fields
    <2> QED BY <1>1, <1>6, <1>11, OneStays
  <1> QED BY <1>11, <1>12, <1>14, <1>15, <1>16, Keeps DEF AllInv

(***************************************************************************)
(* Before a read, all that was read has been written.                      *)
(***************************************************************************)
LEMMA CopyTypes ==
    ASSUME CopyInv, NEW c \in Callers, pc[c] \in {"copy", "write"}
    PROVE  /\ TypesInv /\ CallInv(c) /\ SizesInv(c) /\ ContentsInv(c) /\ call[c] \in Calls
           /\ ret[c] \in -1..MaxSize /\ met[c] \in Marks /\ Opened(c)
           /\ Source(c) \in Content /\ call[c].in \in Nat /\ call[c].total \in Nat
           /\ call[c].buf \in Seq(Block)
           /\ ret = [ret EXCEPT ![c] = ret[c]] /\ met = [met EXCEPT ![c] = met[c]]
           /\ Differ(c) /\ met[c] = {} => Source(c) = call[c].was
  <1>1. /\ TypesInv /\ CallInv(c) /\ SizesInv(c) /\ ContentsInv(c) /\ call[c] \in Calls
        /\ ret[c] \in -1..MaxSize /\ met[c] \in Marks /\ Opened(c)
        BY DEF CopyInv, TypesInv, Marks, Opened
  <1>2. Source(c) \in Content
        BY <1>1 DEF CallInv, Busy, Source
  <1>3. call[c].in \in Nat /\ call[c].total \in Nat /\ call[c].buf \in Content
    <2> HIDE DEF Content
    <2> QED BY <1>1, SizesAssumption DEF Calls
  <1>4. ret = [ret EXCEPT ![c] = ret[c]] /\ met = [met EXCEPT ![c] = met[c]]
        BY <1>1 DEF TypesInv
  <1>5. Differ(c) /\ met[c] = {} => Source(c) = call[c].was
        BY <1>1 DEF ContentsInv, Busy, Source
  <1> QED BY <1>1, <1>2, <1>3, <1>4, <1>5, ContentIs

LEMMA SendFileKeeps ==
    ASSUME CopyInv, NEW c \in Callers, SendFile(c)
    PROVE  CopyInv'
  <1> USE SizesAssumption
  <1> DEFINE k == call[c]
             x == k.to
  <1>1. pc[c] = "copy" /\ linux' = linux
        BY DEF SendFile
  <1>2. PICK n \in Counts(c) :
           IF n = 0
           THEN Cleanup(c, k.total + n) /\ UNCHANGED <<file, met>>
           ELSE /\ Change(c, x, Put(file[x], k.total, Blocks(c, n)))
                /\ Goto(c, "copy", [k EXCEPT !.in = @ + n, !.total = @ + n])
        BY DEF SendFile, Done
  <1>3. /\ CallInv(c) /\ k \in Calls /\ Source(c) \in Content /\ k.in \in Nat /\ k.total \in Nat
        /\ ret = [ret EXCEPT ![c] = ret[c]]
        /\ Differ(c) /\ met[c] = {} => Source(c) = k.was
        BY <1>1, CopyTypes
  <1>4. k.buf = << >> /\ k.total <= k.in /\ ("short" \notin met[c] => k.in = k.total)
    <2>1. k.buf = << >> /\ Len(<< >>) = 0
          BY <1>1, <1>3 DEF CallInv
    <2> QED BY <1>3, <2>1 DEF CallInv
  <1>5. CASE n = 0
    <2>1. Cleanup(c, k.total) /\ file' = file /\ met' = met
      <3>1. k.total + n = k.total
            BY <1>3, <1>5
      <3> QED BY <1>2, <1>5, <3>1
    <2>2. Len(Source(c)) <= k.in
          BY <1>3, <1>5, CountsAre
    <2> QED BY <1>1, <2>1, <2>2, EndKeeps
  <1>6. CASE n # 0
    <2> DEFINE in == k.in + n
               b  == Blocks(c, n)
               m  == met[c]
               fields == [k EXCEPT !.in = in, !.total = @ + Len(b), !.buf = << >>]
    <2>1. /\ n \in Nat /\ in <= Len(Source(c)) /\ Len(Source(c)) <= MaxSize
          /\ b \in Content /\ Len(b) = n
          /\ \A i \in 1..n : b[i] = Source(c)[k.in + i]
          BY <1>3, <1>6, CountsAre
    <2>2. in \in Nat /\ m \in Marks /\ in >= k.in
          BY <1>1, <1>3, <2>1, CopyTypes
    <2>3. fields = [k EXCEPT !.in = @ + n, !.total = @ + n]
      <3> HIDE DEF k, b, Content
      <3> QED BY <1>3, <1>4, <2>1 DEF Calls
    <2>4. Moves(c, fields, "copy", ret[c])
          BY <1>1, <1>2, <1>3, <1>6, <2>3 DEF Goto, Moves
    <2>5. Writes(c, x, Put(file[x], k.total, b), m)
          BY <1>2, <1>6, SeenIs DEF Change, Writes
    <2>6. Differ(c) /\ m = {} => \A i \in 1..Len(b) : b[i] = k.was[k.total + i]
          BY <1>3, <1>4, <2>1
    <2>7. k.total + Len(b) <= in /\ ("short" \notin m => in = k.total + Len(b)) /\ in <= MaxSize
      <3> HIDE DEF k, b
      <3>1. Len(Source(c)) \in Nat
            BY <1>3, ContentIs
      <3> QED BY <1>3, <1>4, <2>1, <3>1
    <2>8. in <= Len(file[k.from])
          BY <2>1 DEF Source
    <2> HIDE DEF in, b, m
    <2> QED BY <1>1, <2>1, <2>2, <2>4, <2>5, <2>6, <2>7, <2>8, PutKeeps DEF m
  <1> QED BY <1>5, <1>6

LEMMA WriteKeeps ==
    ASSUME CopyInv, NEW c \in Callers, Write(c)
    PROVE  CopyInv'
  <1> USE SizesAssumption
  <1> DEFINE k == call[c]
             x == k.to
  <1>1. pc[c] = "write" /\ linux' = linux
        BY DEF Write
  <1>2. PICK n \in 1..Len(k.buf) :
           /\ file' = [file EXCEPT ![x] = Put(@, k.total, SubSeq(k.buf, 1, n))]
           /\ met' = [Seen(c, x) EXCEPT ![c] = IF n < Len(k.buf) THEN @ \cup {"short"} ELSE @]
           /\ Goto(c, "copy", [k EXCEPT !.total = @ + n, !.buf = << >>])
        BY DEF Write
  <1>3. /\ CallInv(c) /\ ContentsInv(c) /\ TypesInv /\ k \in Calls /\ k.in \in Nat /\ k.total \in Nat
        /\ k.buf \in Seq(Block) /\ Len(k.buf) \in Nat /\ n \in Nat /\ met[c] \in Marks
        /\ ret = [ret EXCEPT ![c] = ret[c]] /\ k.in <= MaxSize
    <2>1. k.in <= MaxSize
      <3> HIDE DEF k, Content
      <3>1. k \in Calls
            BY <1>1, CopyTypes DEF k
      <3> QED BY <3>1 DEF Calls
    <2> QED BY <1>1, <2>1, CopyTypes
  <1>4. k.total + Len(k.buf) <= k.in /\ ("short" \notin met[c] => k.in = k.total + Len(k.buf))
        BY <1>3 DEF CallInv
  <1> DEFINE in == k.in
             b  == SubSeq(k.buf, 1, n)
             m  == IF n < Len(k.buf) THEN met[c] \cup {"short"} ELSE met[c]
             fields == [k EXCEPT !.in = in, !.total = @ + Len(b), !.buf = << >>]
  <1>5. b \in Seq(Block) /\ Len(b) = n /\ \A i \in 1..n : b[i] = k.buf[i]
    <2>1. /\ SubSeq(k.buf, 0 + 1, 0 + n) \in Seq(Block) /\ Len(SubSeq(k.buf, 0 + 1, 0 + n)) = n
          /\ \A i \in 1..n : SubSeq(k.buf, 0 + 1, 0 + n)[i] = k.buf[0 + i]
      <3> HIDE DEF k
      <3> QED BY <1>3, Part
    <2>2. 0 + 1 = 1 /\ 0 + n = n /\ \A i \in 1..n : 0 + i = i
          BY <1>3
    <2> QED BY <2>1, <2>2
  <1> HIDE DEF b
  <1>6. b \in Content
    <2>1. n <= MaxSize
      <3> HIDE DEF k
      <3> QED BY <1>3, <1>4
    <2> QED BY <1>5, <2>1, ContentIs
  <1>7. m \in Marks /\ (m = met[c] \/ m = met[c] \cup {"short"})
        BY <1>3 DEF Marks
  <1>8. fields = [k EXCEPT !.total = @ + n, !.buf = << >>]
    <2> HIDE DEF k, Content
    <2> QED BY <1>3, <1>5 DEF Calls
  <1>9. Moves(c, fields, "copy", ret[c])
        BY <1>1, <1>2, <1>3, <1>8 DEF Goto, Moves
  <1>10. Writes(c, x, Put(file[x], k.total, b), m)
    <2>1. Seen(c, x) = [d \in Callers |-> Seen(c, x)[d]] /\ Seen(c, x)[c] = met[c]
          BY DEF Seen
    <2>2. met' = [Seen(c, x) EXCEPT ![c] = m]
          BY <1>2, <2>1
    <2>3. file' = [file EXCEPT ![x] = Put(file[x], k.total, b)]
          BY <1>2 DEF b
    <2> QED BY <2>2, <2>3 DEF Writes
  <1>11. k.total + Len(b) <= in /\ ("short" \notin m => in = k.total + Len(b))
    <2>1. k.total + n <= k.in
      <3> HIDE DEF k
      <3> QED BY <1>3, <1>4
    <2>2. "short" \notin m => "short" \notin met[c] /\ n = Len(k.buf)
          BY <1>3
    <2> QED BY <1>4, <1>5, <2>1, <2>2
  <1>12. Differ(c) /\ m = {} => \A i \in 1..Len(b) : b[i] = k.was[k.total + i]
    <2>1. m = {} => met[c] = {}
          OBVIOUS
    <2>2. \A i \in 1..n : i \in 1..Len(k.buf)
          BY <1>3
    <2> QED BY <1>1, <1>3, <1>5, <2>1, <2>2 DEF ContentsInv
  <1>13. in \in Nat /\ in <= MaxSize /\ ~(in > k.in) /\ k.in <= in
        BY <1>3
  <1> HIDE DEF m, in
  <1> QED BY <1>1, <1>6, <1>7, <1>9, <1>10, <1>11, <1>12, <1>13, PutKeeps

LEMMA ReadKeeps ==
    ASSUME CopyInv, NEW c \in Callers, Read(c)
    PROVE  CopyInv'
  <1> USE SizesAssumption
  <1> DEFINE k == call[c]
  <1>1. pc[c] = "copy" /\ linux' = linux /\ file' = file /\ met' = met
        BY DEF Read
  <1>2. PICK n \in Counts(c) :
           IF n = 0 THEN Cleanup(c, k.total)
           ELSE Goto(c, "write", [k EXCEPT !.in = @ + n, !.buf = Blocks(c, n)])
        BY DEF Read, Done
  <1>3. /\ CallInv(c) /\ SizesInv(c) /\ ContentsInv(c) /\ k \in Calls /\ Source(c) \in Content
        /\ k.in \in Nat /\ k.total \in Nat /\ ret[c] \in -1..MaxSize /\ met[c] \in Marks
        /\ ret = [ret EXCEPT ![c] = ret[c]] /\ met = [met EXCEPT ![c] = met[c]] /\ Opened(c)
        /\ Differ(c) /\ met[c] = {} => Source(c) = k.was
        BY <1>1, CopyTypes
  <1>4. k.buf = << >> /\ k.total <= k.in /\ ("short" \notin met[c] => k.in = k.total)
    <2>1. k.buf = << >> /\ Len(<< >>) = 0
          BY <1>1, <1>3 DEF CallInv
    <2> QED BY <1>3, <2>1 DEF CallInv
  <1>5. CASE n = 0
    <2>1. Cleanup(c, k.total)
          BY <1>2, <1>5
    <2>2. Len(Source(c)) <= k.in
          BY <1>3, <1>5, CountsAre
    <2> QED BY <1>1, <2>1, <2>2, EndKeeps
  <1>6. CASE n # 0
    <2> DEFINE in == k.in + n
               b  == Blocks(c, n)
               m  == met[c]
               label == "write"
               r  == ret[c]
               fields == [k EXCEPT !.in = in, !.buf = b]
    <2>1. /\ n \in Nat /\ in <= Len(Source(c)) /\ Len(Source(c)) <= MaxSize
          /\ b \in Content /\ Len(b) = n
          /\ \A i \in 1..n : b[i] = Source(c)[k.in + i]
          BY <1>3, <1>6, CountsAre
    <2>2. in \in Nat /\ in <= MaxSize /\ k.total + Len(b) <= in
          /\ ("short" \notin m => in = k.total + Len(b))
      <3>1. Len(Source(c)) \in Nat
            BY <1>3, ContentIs
      <3> HIDE DEF k, b
      <3> QED BY <1>3, <1>4, <2>1, <3>1
    <2>3. /\ fields \in Calls /\ fields.from = k.from /\ fields.to = k.to
          /\ fields.flags = k.flags /\ fields.was = k.was /\ fields.size = k.size
          /\ fields.in = in /\ fields.total = k.total /\ fields.buf = b
      <3>1. in \in 0..MaxSize
            BY <2>2
      <3> HIDE DEF k, b, in, Content
      <3> QED BY <1>3, <2>1, <3>1 DEF Calls
    <2>4. label \in Labels /\ label = "write"
          BY DEF Labels
    <2>5. Moves(c, fields, label, r)
          BY <1>1, <1>2, <1>3, <1>6 DEF Goto, Moves
    <2>6. Spares(c, m)
          BY <1>1, <1>3 DEF Spares
    <2> HIDE DEF k, in, b, m, label, r, fields
    <2>7. /\ call'[c] = fields /\ pc'[c] = label /\ met'[c] = m
          /\ TypesInv' /\ FilesStay
          /\ \A d \in Callers : d # c => Undisturbed(d)
          BY <1>3, <2>3, <2>4, <2>5, <2>6, QuietStep DEF m, r
    <2>8. CallInv(c)'
          BY <1>1, <1>3, <2>2, <2>3, <2>4, <2>7 DEF CallInv, Busy, Opened, k, m
    <2>9. SizesInv(c)'
      <3>1. in <= Len(file[k.from])
            BY <2>1 DEF Source, k
      <3> QED BY <1>1, <1>3, <2>3, <2>4, <2>7, <3>1 DEF SizesInv, Differ, k, m
    <2>10. ContentsInv(c)'
      <3>1. Differ(c) /\ m = {} => \A i \in 1..Len(b) : b[i] = k.was[k.total + i]
            BY <1>3, <1>4, <2>1 DEF m
      <3> QED BY <1>1, <1>3, <2>3, <2>4, <2>7, <3>1 DEF ContentsInv, Busy, Differ, k, m
    <2>11. OneEach'
          BY <1>3, <2>3, <2>7, OneStays DEF k
    <2> QED BY <2>7, <2>8, <2>9, <2>10, <2>11, Keeps DEF AllInv
  <1> QED BY <1>5, <1>6

(***************************************************************************)
(* Other programs mark the calls whose files they change.                  *)
(***************************************************************************)
LEMMA OthersKeep ==
    ASSUME CopyInv, Others
    PROVE  CopyInv'
  <1>1. TypesInv /\ \A c \in Callers : AllInv(c)
        BY DEF CopyInv, AllInv
  <1>2. call' = call /\ pc' = pc /\ ret' = ret /\ linux' = linux
        BY DEF Others
  <1>3. PICK x \in Files, content \in Content : Change(NONE, x, content)
    <2>1. ASSUME NEW x \in Files, file[x] # NONE, Len(file[x]) < MaxSize
          PROVE  Append(file[x], New) \in Content
      <3> DEFINE s == file[x]
      <3>1. s \in Seq(Block) /\ Len(s) < MaxSize
            BY <1>1, <2>1, ContentIs DEF TypesInv
      <3>2. New \in Block
            BY DEF Block
      <3> HIDE DEF s, New
      <3>3. Append(s, New) \in Seq(Block) /\ Len(Append(s, New)) = Len(s) + 1
            BY <3>1, <3>2
      <3>4. Len(s) \in Nat /\ Len(s) + 1 <= MaxSize
            BY <3>1, SizesAssumption
      <3> QED BY <3>3, <3>4, ContentIs DEF s
    <2>2. << >> \in Content
          BY NotNone
    <2> QED BY <2>1, <2>2 DEF Others
  <1>4. /\ file' = [file EXCEPT ![x] = content] /\ met' = Seen(NONE, x)
        BY <1>3 DEF Change
  <1>5. \A c \in Callers : Undisturbed(c)
    <2> SUFFICES ASSUME NEW c \in Callers PROVE Undisturbed(c)
        OBVIOUS
    <2>1. c # NONE
          BY NoneAssumption
    <2>2. CallInv(c) /\ met'[c] = Seen(NONE, x)[c]
          BY <1>1, <1>4 DEF AllInv
    <2> QED BY <1>1, <1>2, <1>4, <2>1, <2>2, Spreads
  <1>6. met' \in [Callers -> Marks]
    <2>1. \A c \in Callers : Seen(NONE, x)[c] \in Marks
          BY <1>1 DEF TypesInv, Seen, Marks
    <2> QED BY <1>4, <2>1 DEF Seen
  <1>7. TypesInv' /\ FilesStay
    <2>1. file' \in [Files -> Content \cup {NONE}] /\ FilesStay
      <3> HIDE DEF Content
      <3> QED BY <1>1, <1>4 DEF TypesInv, FilesStay
    <2> QED BY <1>1, <1>2, <1>6, <2>1 DEF TypesInv, Marks
  <1>8. \A c \in Callers : AllInv(c)'
        BY <1>1, <1>5, <1>7, Stays
  <1>9. OneEach'
        BY <1>2 DEF CopyInv, OneEach, Opened
  <1> QED BY <1>7, <1>8, <1>9 DEF CopyInv, AllInv

LEMMA CopyStarts == Init => CopyInv
  <1> SUFFICES ASSUME Init PROVE CopyInv
      OBVIOUS
  <1> USE SizesAssumption
  <1>1. PICK n \in [Files -> -1..MaxSize] : file = [x \in Files |-> Initial(x, n[x])]
        BY DEF Init
  <1>2. \A x \in Files : Initial(x, n[x]) \in Content \cup {NONE}
    <2> SUFFICES ASSUME NEW x \in Files, ~(n[x] < 0) PROVE Initial(x, n[x]) \in Content
        BY DEF Initial
    <2>1. n[x] \in 0..MaxSize
          BY <1>1
    <2>2. \A i \in 1..n[x] : <<x, i>> \in Block
          BY <2>1 DEF Block
    <2>3. Initial(x, n[x]) \in [1..n[x] -> Block]
      <3> HIDE DEF Block
      <3> QED BY <2>2 DEF Initial
    <2> QED BY <2>1, <2>3 DEF Content
  <1>3. NoCall \in Calls
    <2>1. << >> \in Content /\ 0 \in 0..MaxSize
          BY NotNone
    <2> HIDE DEF Content
    <2> QED BY <2>1 DEF NoCall, Calls
  <1>4. TypesInv
    <2>1. file \in [Files -> Content \cup {NONE}]
      <3> HIDE DEF Content, Initial
      <3> QED BY <1>1, <1>2
    <2> QED BY <1>3, <2>1 DEF Init, TypesInv
  <1>5. \A c \in Callers : call[c] = NoCall /\ pc[c] = "idle" /\ met[c] = {}
        BY DEF Init
  <1>6. ASSUME NEW c \in Callers PROVE CallInv(c) /\ SizesInv(c) /\ ContentsInv(c)
    <2>1. ~Differ(c) /\ NoCall.total = 0 /\ NoCall.in = 0 /\ NoCall.buf = << >> /\ Len(<< >>) = 0
          BY <1>5 DEF Differ, NoCall
    <2> QED BY <1>5, <2>1 DEF CallInv, Busy, Opened, SizesInv, ContentsInv
  <1>7. OneEach
        BY <1>5 DEF OneEach, Opened
  <1> QED BY <1>4, <1>6, <1>7 DEF CopyInv

LEMMA CopyGoesOn == CopyInv /\ [Next]_vars => CopyInv'
  <1> SUFFICES ASSUME CopyInv, [Next]_vars PROVE CopyInv'
      OBVIOUS
  <1>1. CASE UNCHANGED vars
        BY <1>1 DEF vars, CopyInv, TypesInv, CallInv, SizesInv, ContentsInv, OneEach,
                    Busy, Opened, Differ
  <1>2. ASSUME NEW c \in Callers, Step(c) PROVE CopyInv'
    <2>1. ASSUME NEW asked \in Requests, Call(c, asked[1], asked[2], asked[3]) PROVE CopyInv'
      <3>1. /\ asked[1] \in Files /\ asked[2] \in Files
            /\ asked[3] \in {"none", "overwrite", "unknown"}
            BY RequestsAssumption
      <3> QED BY <2>1, <3>1, CallKeeps
    <2> QED BY <1>2, <2>1, OpenKeeps, AllocateKeeps, SendFileKeeps, ReadKeeps, WriteKeeps,
               RefusedKeeps DEF Step
  <1>3. CASE Others
        BY <1>3, OthersKeep
  <1>4. CASE AllDone
        BY <1>1, <1>4 DEF AllDone
  <1> QED BY <1>1, <1>2, <1>3, <1>4 DEF Next

LEMMA CopiesRight == CopyInv => TypeOK /\ CopyIsWhole /\ OneWinner /\ FailsForAReason
  <1> SUFFICES ASSUME CopyInv PROVE TypeOK /\ CopyIsWhole /\ OneWinner /\ FailsForAReason
      OBVIOUS
  <1>1. TypesInv /\ OneEach /\ \A c \in Callers : CallInv(c) /\ SizesInv(c) /\ ContentsInv(c)
        BY DEF CopyInv
  <1>2. TypeOK
    <2>1. \A c \in Callers : call[c].buf \in Content
      <3> HIDE DEF Content
      <3> QED BY <1>1 DEF TypesInv, Calls
    <2> HIDE DEF Content
    <2> QED BY <1>1, <2>1 DEF TypesInv, CallInv, TypeOK
  <1>3. CopyIsWhole
    <2> SUFFICES ASSUME NEW c \in Callers, Copied(c)
                 PROVE  /\ met[c] = {} =>
                              file[call[c].to] = call[c].was /\ ret[c] = Len(call[c].was)
                        /\ met[c] \cap {"to", "shrunk", "short"} = {} =>
                              ret[c] = Len(file[call[c].to])
        BY DEF CopyIsWhole
    <2> QED BY <1>1 DEF Copied, Differ, SizesInv, ContentsInv
  <1>4. OneWinner
        BY <1>1 DEF OneWinner, OneEach, Opened, Copied
  <1>5. FailsForAReason
        BY <1>1 DEF FailsForAReason, Excused, ContentsInv, CallInv, Differ
  <1> QED BY <1>2, <1>3, <1>4, <1>5

(***************************************************************************)
(* A copy that nothing came in the way of is whole, and of several that do *)
(* not overwrite one destination, one succeeds (ac_fs.c:140-188).          *)
(***************************************************************************)
THEOREM CopiesAreWhole == SystemSpec => []WholeCopies
  <1> DEFINE I == kind = "copy" => CopyInv
  <1>1. SystemInit => I
        BY CopyStarts DEF SystemInit
  <1>2. I /\ [SystemNext]_allVars => I'
        BY Kinds, CopyGoesOn
  <1>3. I => WholeCopies
        BY CopiesRight DEF WholeCopies
  <1> QED BY <1>1, <1>2, <1>3, PTL DEF SystemSpec

(***************************************************************************)
(* A copy that fails has a reason, and no file is left open (ac_fs.c:166,  *)
(* 183-185).                                                               *)
(***************************************************************************)
THEOREM CopiesFailForAReason == SystemSpec => []CopyFailsForAReason
  <1> DEFINE I == kind = "copy" => CopyInv
  <1>1. SystemInit => I
        BY CopyStarts DEF SystemInit
  <1>2. I /\ [SystemNext]_allVars => I'
        BY Kinds, CopyGoesOn
  <1>3. I => CopyFailsForAReason
        BY CopiesRight DEF CopyFailsForAReason
  <1> QED BY <1>1, <1>2, <1>3, PTL DEF SystemSpec
----------------------------------------------------------------------------
(***************************************************************************)
(* The places that the tokens of a path lead to, one after another.        *)
(***************************************************************************)
LEMMA PlaceIs ==
    ASSUME NEW p, p.tokens \in Seq(STRING)
    PROVE  /\ Dirs!Place(p, 0) = << >>
           /\ \A k \in 1..Len(p.tokens) :
                 Dirs!Place(p, k) = IF Dirs!Named(p.tokens[k])
                                    THEN Append(Dirs!Place(p, k - 1), p.tokens[k])
                                    ELSE Dirs!Place(p, k - 1)
  <1> DEFINE t == p.tokens
             n == Len(t)
             E(h, j) == IF j = 0 THEN << >>
                        ELSE IF Dirs!Named(t[j]) THEN Append(h[j - 1], t[j])
                        ELSE h[j - 1]
             Fun(h, m) == h = [j \in 0..m |-> E(h, j)]
             S == {m \in Nat : \E h : Fun(h, m)}
             place == CHOOSE h : Fun(h, n)
  <1>1. \A k : Dirs!Place(p, k) = place[k]
        BY DEF Dirs!Place
  <1>2. 0 \in S
    <2> DEFINE h == [j \in 0..0 |-> << >>]
    <2>1. Fun(h, 0)
          OBVIOUS
    <2> HIDE DEF Fun
    <2> QED BY <2>1
  <1>3. ASSUME NEW m \in Nat, m \in S PROVE m + 1 \in S
    <2>1. PICK h : Fun(h, m)
          BY <1>3
    <2> DEFINE d == [j \in 0..m + 1 |-> IF j = m + 1 THEN E(h, m + 1) ELSE h[j]]
    <2>2. \A j \in 0..m : h[j] = E(h, j)
          BY <2>1
    <2>3. ASSUME NEW j \in 0..m + 1 PROVE d[j] = E(d, j)
      <3>1. CASE j = 0
            BY <2>2, <3>1
      <3>2. CASE j # 0
        <4>1. j - 1 \in 0..m /\ j - 1 # m + 1
              BY <3>2
        <4>2. d[j - 1] = h[j - 1]
              BY <4>1
        <4>3. E(d, j) = E(h, j)
          <5> HIDE DEF d
          <5> QED BY <3>2, <4>2
        <4>4. d[j] = E(h, j)
          <5> HIDE DEF E
          <5>1. CASE j = m + 1
                BY <5>1
          <5>2. CASE j # m + 1
            <6>1. j \in 0..m
                  BY <5>2
            <6> QED BY <2>2, <5>2, <6>1
          <5> QED BY <5>1, <5>2
        <4> HIDE DEF d, E
        <4> QED BY <4>3, <4>4
      <3> QED BY <3>1, <3>2
    <2>4. Fun(d, m + 1)
      <3>1. d = [j \in 0..m + 1 |-> d[j]]
            OBVIOUS
      <3> HIDE DEF d, E
      <3> QED BY <2>3, <3>1
    <2> HIDE DEF d, Fun
    <2> QED BY <2>4
  <1> HIDE DEF S
  <1>4. Nat \subseteq S
        BY <1>2, <1>3, Induct
  <1>5. n \in Nat
        OBVIOUS
  <1>6. \E h : Fun(h, n)
        BY <1>4, <1>5 DEF S
  <1> HIDE DEF Fun
  <1>7. Fun(place, n)
        BY <1>6
  <1> HIDE DEF place, n, t
  <1>8. \A j \in 0..n : place[j] = E(place, j)
    <2> HIDE DEF E
    <2> QED BY <1>7 DEF Fun
  <1>9. 0 \in 0..n /\ \A k \in 1..n : k \in 0..n /\ k # 0
        BY <1>5
  <1> QED BY <1>1, <1>8, <1>9 DEF n, t
----------------------------------------------------------------------------
(***************************************************************************)
(* Directories.  A call that nothing came in the way of stands in a        *)
(* directory, whoever made it.                                             *)
(***************************************************************************)
Tokens(c)   == Len(path[c].tokens)
Stand(c)    == Dirs!Place(path[c], at[c])
Calm(c)     == pc[c] # "idle" /\ met[c] = {} /\ ~Dirs!WayIs(c, "dangling")

WayInv(c) ==
    /\ pc[c] # "ended" => ret[c] = 0
    /\ pc[c] = "idle" => at[c] = 0
    /\ pc[c] \in {"stat", "mkdir"} => ~Dirs!TooLong(c)
    /\ pc[c] # "idle" => ~Dirs!TooLong(c) \/ at[c] = 0
    /\ pc[c] = "ended" /\ ret[c] = 0 => at[c] = Tokens(c)
    /\ Calm(c) /\ ret[c] = 0 => fs[Stand(c)] = "dir"
    /\ Calm(c) /\ pc[c] = "mkdir" => fs[Dirs!Here(c)] # "file"
    /\ Calm(c) /\ ret[c] # 0 =>
          Dirs!TooLong(c) \/ Dirs!AskedForNothing(c) \/ Dirs!WayIs(c, "file")

DirsInv ==
    /\ Dirs!TypeOK
    /\ at \in [Callers -> Nat]
    /\ fs[<< >>] = "dir"
    /\ \A c \in Callers : WayInv(c)

LEMMA PlacesAre ==
    ASSUME NEW p \in Paths
    PROVE  LET n    == Len(p.tokens)
               P(k) == Dirs!Place(p, k)
           IN  /\ p.tokens \in Seq(STRING) /\ n \in Nat \ {0} /\ Dirs!IsPath(p)
               /\ P(0) = << >>
               /\ \A k \in 0..n : P(k) \in Places /\ P(k) \in Seq(STRING) /\ Len(P(k)) <= Len(P(n))
               /\ \A k \in 1..n : IF Dirs!Named(p.tokens[k])
                                  THEN P(k) # << >> /\ Dirs!Parent(P(k)) = P(k - 1)
                                  ELSE P(k) = P(k - 1)
  <1> DEFINE t    == p.tokens
             n    == Len(t)
             P(k) == Dirs!Place(p, k)
             Names == STRING
  <1>0. Dirs!IsPath(p) /\ P(n) \in Places
        BY PathsAssumption DEF Dirs!PathsGiven
  <1>1. t \in Seq(Names) /\ n \in Nat \ {0} /\ Dirs!IsPath(p) /\ P(n) \in Places
    <2>1. t \in Seq(Names) /\ n > 0
          BY <1>0 DEF Dirs!IsPath
    <2> HIDE DEF t, Names
    <2> QED BY <1>0, <2>1
  <1>2. P(0) = << >>
        BY <1>1, PlaceIs
  <1>3. \A k \in 1..n : P(k) = IF Dirs!Named(t[k]) THEN Append(P(k - 1), t[k]) ELSE P(k - 1)
        BY <1>1, PlaceIs
  <1> HIDE DEF Names
  <1>4. \A k \in 1..n : t[k] \in Names
        BY <1>1
  <1> HIDE DEF t, n, P
  <1>5. \A k \in 0..n : P(k) \in Seq(Names)
    <2> DEFINE S == {k \in Nat : k <= n => P(k) \in Seq(Names)}
    <2>1. 0 \in S
      <3>1. << >> \in Seq(Names)
            OBVIOUS
      <3>2. P(0) \in Seq(Names)
            BY <1>2, <3>1
      <3> QED BY <3>2
    <2>2. ASSUME NEW k \in Nat, k \in S PROVE k + 1 \in S
      <3> SUFFICES ASSUME k + 1 <= n PROVE P(k + 1) \in Seq(Names)
          OBVIOUS
      <3>1. k + 1 \in 1..n /\ (k + 1) - 1 = k /\ P(k) \in Seq(Names)
            BY <1>1, <2>2
      <3>2. P(k + 1) = IF Dirs!Named(t[k + 1]) THEN Append(P(k), t[k + 1]) ELSE P(k)
            BY <1>3, <3>1
      <3> DEFINE u == P(k)
                 e == t[k + 1]
      <3>3. u \in Seq(Names) /\ e \in Names
            BY <1>4, <3>1
      <3>4. P(k + 1) = IF Dirs!Named(e) THEN Append(u, e) ELSE u
            BY <3>2
      <3> HIDE DEF u, e
      <3>5. Append(u, e) \in Seq(Names)
            BY <3>3
      <3> QED BY <3>3, <3>4, <3>5
    <2> HIDE DEF S
    <2>3. Nat \subseteq S
          BY <2>1, <2>2, Induct
    <2> QED BY <1>1, <2>3 DEF S
  <1>6. ASSUME NEW k \in 1..n
        PROVE  /\ IF Dirs!Named(t[k]) THEN P(k) # << >> /\ Dirs!Parent(P(k)) = P(k - 1)
                  ELSE P(k) = P(k - 1)
               /\ Len(P(k - 1)) <= Len(P(k))
    <2> DEFINE s == P(k - 1)
               e == t[k]
    <2>1. s \in Seq(Names) /\ e \in Names /\ Len(s) \in Nat
          BY <1>1, <1>4, <1>5
    <2>2. P(k) = IF Dirs!Named(e) THEN Append(s, e) ELSE s
          BY <1>3
    <2> HIDE DEF s, e
    <2>3. Append(s, e) # << >> /\ Len(Append(s, e)) = Len(s) + 1
          BY <2>1
    <2>4. Dirs!Parent(Append(s, e)) = s
      <3> DEFINE u == Append(s, e)
      <3>1. u \in Seq(Names) /\ Len(u) = Len(s) + 1 /\ \A i \in 1..Len(s) : u[i] = s[i]
            BY <2>1
      <3>2. Dirs!Parent(u) = SubSeq(u, 0 + 1, 0 + Len(s))
            BY <2>1, <3>1 DEF Dirs!Parent
      <3> HIDE DEF u
      <3>3. /\ SubSeq(u, 0 + 1, 0 + Len(s)) \in Seq(Names)
            /\ Len(SubSeq(u, 0 + 1, 0 + Len(s))) = Len(s)
            /\ \A i \in 1..Len(s) : SubSeq(u, 0 + 1, 0 + Len(s))[i] = u[0 + i]
        <4>1. 0 + Len(s) <= Len(u)
              BY <2>1, <3>1
        <4> QED BY <2>1, <3>1, <4>1, Part
      <3>4. \A i \in 1..Len(s) : 0 + i = i
            BY <2>1
      <3>5. SubSeq(u, 0 + 1, 0 + Len(s)) = s
            BY <2>1, <3>1, <3>3, <3>4, SameSequence
      <3> QED BY <3>2, <3>5 DEF u
    <2> QED BY <2>1, <2>2, <2>3, <2>4 DEF s, e
  <1>7. \A k \in 0..n : P(k) \in Places /\ Len(P(k)) <= Len(P(n))
    <2> DEFINE S == {i \in Nat : i <= n => P(n - i) \in Places /\ Len(P(n - i)) <= Len(P(n))}
    <2>1. 0 \in S
      <3>1. n - 0 = n /\ Len(P(n)) \in Nat
            BY <1>1, <1>5
      <3> QED BY <1>1, <3>1
    <2>2. ASSUME NEW i \in Nat, i \in S PROVE i + 1 \in S
      <3> SUFFICES ASSUME i + 1 <= n
                   PROVE  P(n - (i + 1)) \in Places /\ Len(P(n - (i + 1))) <= Len(P(n))
          OBVIOUS
      <3> DEFINE k == n - i
      <3>1. k \in 1..n /\ k - 1 = n - (i + 1) /\ P(k) \in Places /\ Len(P(k)) <= Len(P(n))
            BY <1>1, <2>2
      <3>2. k - 1 \in 0..n /\ k \in 0..n /\ n \in 0..n
            BY <1>1, <3>1
      <3> HIDE DEF k
      <3>3. Len(P(k - 1)) \in Nat /\ Len(P(k)) \in Nat /\ Len(P(n)) \in Nat
            BY <1>5, <3>2
      <3>4. P(k - 1) \in Places
            BY <1>6, <3>1, PathsAssumption DEF Dirs!PathsGiven
      <3>5. Len(P(k - 1)) <= Len(P(k))
            BY <1>6, <3>1
      <3>6. Len(P(k - 1)) <= Len(P(n))
            BY <3>1, <3>3, <3>5
      <3> QED BY <3>1, <3>4, <3>6
    <2> HIDE DEF S
    <2>3. Nat \subseteq S
          BY <2>1, <2>2, Induct
    <2> SUFFICES ASSUME NEW k \in 0..n PROVE P(k) \in Places /\ Len(P(k)) <= Len(P(n))
        OBVIOUS
    <2>4. n - k \in Nat /\ n - k <= n /\ n - (n - k) = k
          BY <1>1
    <2>5. n - k \in S
          BY <2>3, <2>4
    <2> QED BY <2>4, <2>5 DEF S
  <1> QED BY <1>1, <1>2, <1>5, <1>6, <1>7 DEF t, n, P, Names

LEMMA MdirGrows ==
    ASSUME NEW p \in Paths, NEW k \in 0..Len(p.tokens)
    PROVE  /\ Dirs!MdirLen(p, k) <= Dirs!MdirLen(p, Len(p.tokens))
           /\ Dirs!MdirLen(p, 0) <= 1
           /\ Dirs!MdirLen(p, k) \in Nat /\ Dirs!MdirLen(p, Len(p.tokens)) \in Nat
  <1> DEFINE n    == Len(p.tokens)
             l(j) == Len(Dirs!Place(p, j))
             a    == IF p.abs THEN 1 ELSE 0
  <1>1. n \in Nat /\ k \in Nat /\ k <= n /\ l(k) <= l(n) /\ l(0) = 0 /\ 0 \in 0..n /\ n \in 0..n
        BY PlacesAre
  <1>2. l(k) \in Nat /\ l(n) \in Nat
        BY <1>1, PlacesAre
  <1>3. \A j : Dirs!MdirLen(p, j) = a + l(j) + j
        BY DEF Dirs!MdirLen
  <1>4. a \in 0..1
        OBVIOUS
  <1> HIDE DEF n, l, a
  <1>5. /\ Dirs!MdirLen(p, k) <= Dirs!MdirLen(p, n)
        /\ Dirs!MdirLen(p, 0) <= 1
        /\ Dirs!MdirLen(p, k) \in Nat /\ Dirs!MdirLen(p, n) \in Nat
        BY <1>1, <1>2, <1>3, <1>4
  <1> QED BY <1>5 DEF n

(***************************************************************************)
(* What the invariant says is what is promised.                            *)
(***************************************************************************)
LEMMA DirsRight ==
    DirsInv => Dirs!TypeOK /\ Dirs!CalmCallMakes /\ Dirs!MdirFits
  <1> SUFFICES ASSUME DirsInv PROVE Dirs!TypeOK /\ Dirs!CalmCallMakes /\ Dirs!MdirFits
      OBVIOUS
  <1>1. Dirs!TypeOK /\ \A c \in Callers : WayInv(c)
        BY DEF DirsInv
  <1>2. Dirs!CalmCallMakes
    <2> SUFFICES ASSUME NEW c \in Callers, pc[c] = "ended", met[c] = {},
                        ~Dirs!WayIs(c, "dangling")
                 PROVE  IF ret[c] = 0 THEN fs[Dirs!Destination(c)] = "dir"
                        ELSE \/ Dirs!TooLong(c) \/ Dirs!AskedForNothing(c)
                             \/ Dirs!WayIs(c, "file")
        BY DEF Dirs!CalmCallMakes
    <2>1. Calm(c)
          BY DEF Calm
    <2> QED BY <1>1, <2>1 DEF WayInv, Stand, Tokens, Dirs!Destination
  <1>3. ASSUME NEW c \in Callers, pc[c] # "idle"
        PROVE  Dirs!MdirLen(path[c], at[c]) <= PathMax
    <2> DEFINE p == path[c]
               n == Len(p.tokens)
               all == Dirs!MdirLen(p, n)
    <2>1. p \in Paths /\ at[c] \in 0..n
          BY <1>1 DEF Dirs!TypeOK
    <2>2. /\ Dirs!MdirLen(p, at[c]) <= all /\ Dirs!MdirLen(p, 0) <= 1
          /\ Dirs!MdirLen(p, at[c]) \in Nat /\ all \in Nat
      <3> HIDE DEF p
      <3> QED BY <2>1, MdirGrows
    <2>3. CASE at[c] = 0
          BY <2>2, <2>3, PathsAssumption
    <2>4. CASE ~Dirs!TooLong(c)
      <3>1. ~(all - 1 >= PathMax)
            BY <2>4 DEF Dirs!TooLong, Dirs!strlen
      <3> HIDE DEF all
      <3> QED BY <2>2, <3>1, PathsAssumption
    <2> QED BY <1>1, <1>3, <2>3, <2>4 DEF WayInv
  <1> QED BY <1>1, <1>2, <1>3 DEF Dirs!MdirFits

LEMMA DirsStart == Dirs!Init => DirsInv
  <1> SUFFICES ASSUME Dirs!Init PROVE DirsInv
      OBVIOUS
  <1>1. \A p \in Paths : Len(p.tokens) \in Nat \ {0} /\ Dirs!Place(p, 0) = << >>
        BY PlacesAre
  <1>2. /\ path \in [Callers -> Paths] /\ fs[<< >>] = "dir"
        /\ \A c \in Callers : pc[c] = "idle" /\ at[c] = 0 /\ ret[c] = 0
        BY DEF Dirs!Init
  <1>3. Dirs!TypeOK
        BY <1>1 DEF Dirs!Init, Dirs!TypeOK, Dirs!Active
  <1>4. \A c \in Callers : WayInv(c)
        BY <1>2 DEF WayInv, Calm
  <1> QED BY <1>2, <1>3, <1>4 DEF DirsInv, Dirs!Init
----------------------------------------------------------------------------
(***************************************************************************)
(* What the others may do to a call that stays calm: make directories.     *)
(***************************************************************************)
MadeAt(place) == fs'[place] = fs[place] \/ (fs[place] = "none" /\ fs'[place] = "dir")

MadeOnWay(c) == \A k \in 0..Tokens(c) : MadeAt(Dirs!Place(path[c], k))

LEMMA CalmBefore ==
    ASSUME NEW c \in Callers, path' = path, pc'[c] # "idle" => pc[c] # "idle",
           met[c] \subseteq met'[c], Calm(c)', MadeOnWay(c)
    PROVE  Calm(c) /\ (Dirs!WayIs(c, "file") => Dirs!WayIs(c, "file")')
  <1>1. \A k \in 1..Tokens(c) : MadeAt(Dirs!Place(path[c], k))
        BY DEF MadeOnWay
  <1>2. Dirs!WayIs(c, "dangling") => Dirs!WayIs(c, "dangling")'
        BY <1>1 DEF MadeAt, Dirs!WayIs, Tokens
  <1>3. Dirs!WayIs(c, "file") => Dirs!WayIs(c, "file")'
        BY <1>1 DEF MadeAt, Dirs!WayIs, Tokens
  <1> QED BY <1>2, <1>3 DEF Calm

LEMMA WayStays ==
    ASSUME DirsInv, NEW c \in Callers, path' = path,
           pc'[c] = pc[c], at'[c] = at[c], ret'[c] = ret[c], met[c] \subseteq met'[c],
           pc[c] # "idle" /\ met'[c] = {} => MadeOnWay(c)
    PROVE  WayInv(c)'
  <1> DEFINE p == path[c]
             n == Len(p.tokens)
  <1>1. WayInv(c) /\ p \in Paths /\ at[c] \in 0..n /\ (pc[c] = "mkdir" => at[c] < n)
        BY DEF DirsInv, Dirs!TypeOK, Dirs!Active
  <1>2. Calm(c)' => Calm(c) /\ (Dirs!WayIs(c, "file") => Dirs!WayIs(c, "file")') /\ MadeOnWay(c)
        BY CalmBefore DEF Calm
  <1>3. n \in Nat
        BY <1>1, PlacesAre
  <1>4. Calm(c)' => MadeAt(Stand(c)) /\ (pc[c] = "mkdir" => MadeAt(Dirs!Here(c)))
    <2>1. pc[c] = "mkdir" => at[c] + 1 \in 0..n
          BY <1>1, <1>3
    <2> QED BY <1>1, <1>2, <2>1 DEF MadeOnWay, Stand, Dirs!Here, Tokens
  <1>5. Stand(c)' = Dirs!Place(path[c], at[c]) /\ Dirs!Here(c)' = Dirs!Place(path[c], at[c] + 1)
        BY DEF Stand, Dirs!Here
  <1>6. (Dirs!TooLong(c)' <=> Dirs!TooLong(c)) /\ Tokens(c)' = Tokens(c)
        /\ (Dirs!AskedForNothing(c)' <=> Dirs!AskedForNothing(c))
        BY DEF Dirs!TooLong, Tokens, Dirs!AskedForNothing, Dirs!Destination
  <1>7. Calm(c)' /\ ret[c] = 0 => fs'[Stand(c)] = "dir"
        BY <1>1, <1>2, <1>4 DEF WayInv, MadeAt
  <1>8. Calm(c)' /\ pc[c] = "mkdir" => fs'[Dirs!Here(c)] # "file"
        BY <1>1, <1>2, <1>4 DEF WayInv, MadeAt
  <1>9. Calm(c)' /\ ret[c] # 0 =>
           Dirs!TooLong(c) \/ Dirs!AskedForNothing(c) \/ Dirs!WayIs(c, "file")'
        BY <1>1, <1>2 DEF WayInv
  <1>10. Stand(c)' = Stand(c) /\ Dirs!Here(c)' = Dirs!Here(c)
        BY <1>5 DEF Stand, Dirs!Here
  <1> HIDE DEF p, n
  <1> QED BY <1>1, <1>6, <1>7, <1>8, <1>9, <1>10 DEF WayInv

(***************************************************************************)
(* A step of one caller, which makes a directory or does not.              *)
(***************************************************************************)
DirsMove(c, label, k, r, m) ==
    /\ path' = path
    /\ pc' = [pc EXCEPT ![c] = label]
    /\ at' = [at EXCEPT ![c] = k]
    /\ ret' = [ret EXCEPT ![c] = r]
    /\ met' = [met EXCEPT ![c] = m]

Makes ==
    \/ fs' = fs
    \/ \E place \in Places : fs[place] = "none" /\ fs' = [fs EXCEPT ![place] = "dir"]

DirMarks  == SUBSET {"removed", "file", "refused"}
DirLabels == {"idle", "stat", "mkdir", "ended"}

LEMMA DirsStep ==
    ASSUME DirsInv, NEW c \in Callers, NEW label \in DirLabels, NEW k \in 0..Tokens(c),
           NEW r \in {0, -1}, NEW m \in DirMarks, DirsMove(c, label, k, r, m), Makes
    PROVE  /\ pc'[c] = label /\ at'[c] = k /\ ret'[c] = r /\ met'[c] = m
           /\ fs'[<< >>] = "dir" /\ \A place \in Places : MadeAt(place)
           /\ \A d \in Callers : d # c => WayInv(d)'
           /\ MadeOnWay(c)
           /\ (label \in {"stat", "mkdir"} => k < Tokens(c)) /\ WayInv(c)' => DirsInv'
  <1>1. /\ fs \in [Places -> {"none", "dir", "file", "dangling"}]
        /\ path \in [Callers -> Paths] /\ pc \in [Callers -> DirLabels]
        /\ ret \in [Callers -> {0, -1}] /\ met \in [Callers -> DirMarks]
        /\ at \in [Callers -> Nat] /\ fs[<< >>] = "dir"
        /\ \A d \in Callers : at[d] \in 0..Tokens(d)
        /\ \A d \in Callers : pc[d] \in {"stat", "mkdir"} => at[d] < Tokens(d)
        BY DEF DirsInv, Dirs!TypeOK, DirMarks, DirLabels, Dirs!Active, Tokens
  <1>2. \A d \in Callers : Tokens(d) \in Nat /\ Tokens(d)' = Tokens(d)
        BY <1>1, PlacesAre DEF Tokens, DirsMove
  <1>3. /\ pc'[c] = label /\ at'[c] = k /\ ret'[c] = r /\ met'[c] = m
        /\ \A d \in Callers : d # c => /\ pc'[d] = pc[d] /\ at'[d] = at[d]
                                       /\ ret'[d] = ret[d] /\ met'[d] = met[d]
        BY <1>1 DEF DirsMove
  <1>4. /\ fs' \in [Places -> {"none", "dir", "file", "dangling"}]
        /\ fs'[<< >>] = "dir" /\ \A place \in Places : MadeAt(place)
    <2>1. << >> \in Places
          BY PathsAssumption DEF Dirs!PathsGiven
    <2> QED BY <1>1, <2>1 DEF Makes, MadeAt
  <1>5. \A d \in Callers : MadeOnWay(d)
    <2>1. \A d \in Callers : \A j \in 0..Tokens(d) : Dirs!Place(path[d], j) \in Places
          BY <1>1, PlacesAre DEF Tokens
    <2> QED BY <1>4, <2>1 DEF MadeOnWay
  <1>6. ASSUME NEW d \in Callers, d # c PROVE WayInv(d)'
    <2>1. met[d] \subseteq met'[d] /\ path' = path
          BY <1>3, <1>6 DEF DirsMove
    <2> QED BY <1>3, <1>5, <1>6, <2>1, WayStays
  <1>7. ASSUME label \in {"stat", "mkdir"} => k < Tokens(c), WayInv(c)' PROVE DirsInv'
    <2>1. /\ pc' \in [Callers -> DirLabels] /\ at' \in [Callers -> Nat]
          /\ ret' \in [Callers -> {0, -1}] /\ met' \in [Callers -> DirMarks] /\ path' = path
          BY <1>1, <1>2 DEF DirsMove
    <2>2. \A d \in Callers : /\ at'[d] \in 0..Tokens(d)
                             /\ pc'[d] \in {"stat", "mkdir"} => at'[d] < Tokens(d)
          BY <1>1, <1>3, <1>7
    <2>3. Dirs!TypeOK'
          BY <1>1, <1>2, <1>4, <2>1, <2>2
             DEF Dirs!TypeOK, DirMarks, DirLabels, Dirs!Active, Tokens
    <2> QED BY <1>4, <1>6, <1>7, <2>1, <2>3 DEF DirsInv
  <1> QED BY <1>3, <1>4, <1>5, <1>6, <1>7

LEMMA ActiveIs ==
    ASSUME DirsInv, NEW c \in Callers, pc[c] \in {"stat", "mkdir"}
    PROVE  LET p == path[c]
               k == at[c]
           IN  /\ p \in Paths /\ Tokens(c) \in Nat /\ k \in Nat /\ k + 1 \in 1..Tokens(c)
               /\ ret[c] = 0 /\ ~Dirs!TooLong(c) /\ met[c] \in DirMarks /\ WayInv(c)
               /\ Dirs!Here(c) \in Places /\ fs[<< >>] = "dir"
               /\ fs \in [Places -> {"none", "dir", "file", "dangling"}]
               /\ IF Dirs!Named(p.tokens[k + 1])
                  THEN Dirs!Parent(Dirs!Here(c)) = Stand(c)
                  ELSE Dirs!Here(c) = Stand(c)
               /\ ret = [ret EXCEPT ![c] = 0] /\ met = [met EXCEPT ![c] = met[c]]
               /\ at = [at EXCEPT ![c] = k]
  <1> DEFINE p == path[c]
             k == at[c]
             n == Len(p.tokens)
  <1>1. /\ p \in Paths /\ k \in 0..n /\ k < n /\ k \in Nat /\ met[c] \in DirMarks
        /\ fs[<< >>] = "dir" /\ WayInv(c)
        /\ fs \in [Places -> {"none", "dir", "file", "dangling"}]
        BY DEF DirsInv, Dirs!TypeOK, Dirs!Active, DirMarks
  <1>2. ret[c] = 0 /\ ~Dirs!TooLong(c)
        BY <1>1 DEF WayInv
  <1>3. ret = [ret EXCEPT ![c] = 0] /\ met = [met EXCEPT ![c] = met[c]] /\ at = [at EXCEPT ![c] = k]
        BY <1>2 DEF DirsInv, Dirs!TypeOK
  <1>4. n \in Nat /\ k + 1 \in 1..n /\ k + 1 \in 0..n /\ (k + 1) - 1 = k
        BY <1>1, PlacesAre
  <1>5. Dirs!Here(c) = Dirs!Place(p, k + 1) /\ Stand(c) = Dirs!Place(p, k)
        BY DEF Dirs!Here, Stand
  <1>6. /\ Dirs!Here(c) \in Places
        /\ IF Dirs!Named(p.tokens[k + 1])
           THEN Dirs!Parent(Dirs!Here(c)) = Stand(c)
           ELSE Dirs!Here(c) = Stand(c)
    <2> HIDE DEF p, k
    <2>1. \A j \in 1..n : IF Dirs!Named(p.tokens[j])
                          THEN Dirs!Parent(Dirs!Place(p, j)) = Dirs!Place(p, j - 1)
                          ELSE Dirs!Place(p, j) = Dirs!Place(p, j - 1)
          BY <1>1, PlacesAre
    <2>2. Dirs!Place(p, k + 1) \in Places
          BY <1>1, <1>4, PlacesAre
    <2> QED BY <1>4, <1>5, <2>1, <2>2
  <1> QED BY <1>1, <1>2, <1>3, <1>4, <1>6 DEF Tokens

(***************************************************************************)
(* A caller that goes on to the next component, or gives up.               *)
(***************************************************************************)
LEMMA PassesOn ==
    ASSUME DirsInv, NEW c \in Callers, pc[c] \in {"stat", "mkdir"}, Dirs!NextComponent(c),
           path' = path, met' = met, Makes, Calm(c)' => fs'[Dirs!Here(c)] = "dir"
    PROVE  DirsInv'
  <1> DEFINE k     == at[c] + 1
             label == IF k = Tokens(c) THEN "ended" ELSE "stat"
             r     == 0
             m     == met[c]
  <1>1. /\ k \in 0..Tokens(c) /\ m \in DirMarks /\ r \in {0, -1} /\ label \in DirLabels
        /\ label \in {"stat", "mkdir"} => k < Tokens(c)
        /\ ~Dirs!TooLong(c)
        BY ActiveIs DEF DirLabels
  <1>2. DirsMove(c, label, k, r, m)
        BY ActiveIs DEF DirsMove, Dirs!NextComponent, Tokens
  <1>3. /\ label \in {"ended", "stat"} /\ (label = "ended" => k = Tokens(c))
        BY <1>1
  <1>4. Stand(c)' = Dirs!Place(path[c], at'[c]) /\ Tokens(c)' = Tokens(c)
        /\ (Dirs!TooLong(c)' <=> Dirs!TooLong(c))
        BY DEF Stand, Tokens, Dirs!TooLong
  <1>5. Dirs!Here(c) = Dirs!Place(path[c], k)
        BY DEF Dirs!Here
  <1> HIDE DEF k, label, r, m
  <1>6. /\ pc'[c] = label /\ at'[c] = k /\ ret'[c] = r
        /\ (label \in {"stat", "mkdir"} => k < Tokens(c)) /\ WayInv(c)' => DirsInv'
        BY <1>1, <1>2, DirsStep
  <1>7. WayInv(c)'
        BY <1>1, <1>3, <1>4, <1>5, <1>6 DEF WayInv, r
  <1> QED BY <1>1, <1>6, <1>7

LEMMA GivesUp ==
    ASSUME DirsInv, NEW c \in Callers, pc[c] \in {"idle", "stat", "mkdir"}, Dirs!Return(c, -1),
           path' = path, NEW m \in DirMarks, met' = [met EXCEPT ![c] = m], fs' = fs,
           ~Dirs!TooLong(c) \/ at[c] = 0,
           Calm(c)' => Dirs!TooLong(c) \/ Dirs!AskedForNothing(c) \/ Dirs!WayIs(c, "file")
    PROVE  DirsInv'
  <1> DEFINE k     == at[c]
             label == "ended"
             r     == -1
  <1>1. /\ k \in 0..Tokens(c) /\ r \in {0, -1} /\ label \in DirLabels /\ label = "ended" /\ r # 0
        BY DEF DirLabels, DirsInv, Dirs!TypeOK, Tokens
  <1>2. DirsMove(c, label, k, r, m)
    <2>1. at = [at EXCEPT ![c] = k]
          BY DEF DirsInv
    <2> QED BY <2>1 DEF DirsMove, Dirs!Return
  <1>3. Makes
        BY DEF Makes
  <1>4. /\ Dirs!TooLong(c)' <=> Dirs!TooLong(c)
        /\ Dirs!AskedForNothing(c)' <=> Dirs!AskedForNothing(c)
        /\ Dirs!WayIs(c, "file")' <=> Dirs!WayIs(c, "file")
        BY DEF Dirs!TooLong, Dirs!AskedForNothing, Dirs!Destination, Dirs!WayIs
  <1> HIDE DEF k, label, r
  <1>5. /\ pc'[c] = label /\ at'[c] = k /\ ret'[c] = r
        /\ (label \in {"stat", "mkdir"} => k < Tokens(c)) /\ WayInv(c)' => DirsInv'
        BY <1>1, <1>2, <1>3, DirsStep
  <1>6. WayInv(c)'
        BY <1>1, <1>4, <1>5 DEF WayInv, k
  <1> QED BY <1>1, <1>5, <1>6

(***************************************************************************)
(* Before its next system call: looking again, or making a directory.      *)
(***************************************************************************)
LEMMA Turns ==
    ASSUME DirsInv, NEW c \in Callers, pc[c] \in {"idle", "stat"}, NEW label \in {"stat", "mkdir"},
           pc' = [pc EXCEPT ![c] = label], UNCHANGED <<at, ret, fs, path, met>>,
           ~Dirs!TooLong(c),
           label = "mkdir" => pc[c] = "stat" /\ (Calm(c)' => fs[Dirs!Here(c)] # "file")
    PROVE  DirsInv'
  <1> DEFINE k == at[c]
             r == ret[c]
             m == met[c]
  <1>1. /\ WayInv(c) /\ r = 0 /\ fs[<< >>] = "dir" /\ k \in Nat
        /\ pc[c] = "idle" => k = 0
        BY DEF DirsInv, WayInv
  <1>2. /\ k \in 0..Tokens(c) /\ r \in {0, -1} /\ m \in DirMarks /\ label \in DirLabels
        /\ k < Tokens(c) /\ Dirs!Place(path[c], 0) = << >>
    <2>1. path[c] \in Paths /\ k \in 0..Tokens(c) /\ m \in DirMarks
          BY DEF DirsInv, Dirs!TypeOK, DirMarks, Tokens
    <2>2. Tokens(c) \in Nat \ {0} /\ Dirs!Place(path[c], 0) = << >>
          BY <2>1, PlacesAre DEF Tokens
    <2>3. pc[c] = "stat" => k < Tokens(c)
          BY DEF DirsInv, Dirs!TypeOK, Dirs!Active, Tokens
    <2> HIDE DEF k
    <2> QED BY <1>1, <2>1, <2>2, <2>3 DEF DirLabels
  <1>3. DirsMove(c, label, k, r, m) /\ Makes
    <2>1. at = [at EXCEPT ![c] = k] /\ ret = [ret EXCEPT ![c] = r] /\ met = [met EXCEPT ![c] = m]
          BY DEF DirsInv, Dirs!TypeOK
    <2> QED BY <2>1 DEF DirsMove, Makes
  <1> HIDE DEF k, r, m
  <1>4. /\ pc'[c] = label /\ at'[c] = k /\ ret'[c] = r /\ met'[c] = m
        /\ WayInv(c)' => DirsInv'
        BY <1>2, <1>3, DirsStep
  <1>5. Stand(c)' = Stand(c) /\ Dirs!Here(c)' = Dirs!Here(c)
        /\ (Dirs!TooLong(c)' <=> Dirs!TooLong(c))
        /\ (Dirs!WayIs(c, "dangling")' <=> Dirs!WayIs(c, "dangling"))
        BY DEF Stand, Dirs!Here, Dirs!TooLong, Dirs!WayIs
  <1>6. Calm(c)' => fs[Stand(c)] = "dir"
    <2>1. CASE pc[c] = "idle"
          BY <1>1, <1>2, <2>1 DEF Stand, k
    <2>2. CASE pc[c] # "idle"
          BY <1>1, <1>5, <2>2 DEF Calm, WayInv, r
    <2> QED BY <2>1, <2>2
  <1>7. WayInv(c)'
    <2>1. fs' = fs
          OBVIOUS
    <2> QED BY <1>1, <1>4, <1>5, <1>6, <2>1 DEF WayInv
  <1> QED BY <1>4, <1>7

LEMMA DirsCallKeeps ==
    ASSUME DirsInv, NEW c \in Callers, Dirs!Call(c)
    PROVE  DirsInv'
  <1>1. pc[c] = "idle" /\ at[c] = 0 /\ met[c] \in DirMarks
        BY DEF Dirs!Call, DirsInv, WayInv, Dirs!TypeOK, DirMarks
  <1>2. CASE Dirs!TooLong(c)
    <2>1. Dirs!Return(c, -1) /\ path' = path /\ fs' = fs
          BY <1>2 DEF Dirs!Call
    <2>2. met' = [met EXCEPT ![c] = met[c]]
          BY DEF Dirs!Call, DirsInv, Dirs!TypeOK
    <2> QED BY <1>1, <1>2, <2>1, <2>2, GivesUp
  <1>3. CASE ~Dirs!TooLong(c)
    <2> DEFINE label == "stat"
    <2>1. /\ pc' = [pc EXCEPT ![c] = label] /\ UNCHANGED <<at, ret, fs, path, met>>
          BY <1>3 DEF Dirs!Call
    <2>2. label \in {"stat", "mkdir"} /\ label # "mkdir"
          OBVIOUS
    <2> HIDE DEF label
    <2> QED BY <1>1, <1>3, <2>1, <2>2, Turns
  <1> QED BY <1>2, <1>3

LEMMA StatKeeps ==
    ASSUME DirsInv, NEW c \in Callers, Dirs!Stat(c)
    PROVE  DirsInv'
  <1>1. pc[c] = "stat" /\ UNCHANGED <<fs, path, met>>
        BY DEF Dirs!Stat
  <1>2. CASE Dirs!fstatat(c) = "dir"
    <2>1. Dirs!NextComponent(c)
          BY <1>2 DEF Dirs!Stat
    <2>2. fs'[Dirs!Here(c)] = "dir"
          BY <1>1, <1>2 DEF Dirs!fstatat
    <2> QED BY <1>1, <2>1, <2>2, PassesOn DEF Makes
  <1>3. CASE Dirs!fstatat(c) = "file"
    <2>1. Dirs!Return(c, -1)
          BY <1>3 DEF Dirs!Stat
    <2>2. Dirs!WayIs(c, "file")
      <3>1. fs[Dirs!Here(c)] = "file" /\ at[c] + 1 \in 1..Len(path[c].tokens)
            BY <1>1, <1>3, ActiveIs DEF Dirs!fstatat, Tokens
      <3> QED BY <3>1 DEF Dirs!WayIs, Dirs!Here
    <2>3. met' = [met EXCEPT ![c] = met[c]] /\ met[c] \in DirMarks /\ ~Dirs!TooLong(c)
          BY <1>1, ActiveIs
    <2> QED BY <1>1, <2>1, <2>2, <2>3, GivesUp
  <1>4. CASE Dirs!fstatat(c) \notin {"dir", "file"}
    <2> DEFINE label == "mkdir"
    <2>1. pc' = [pc EXCEPT ![c] = label] /\ UNCHANGED <<at, ret, fs, path, met>>
          BY <1>1, <1>4 DEF Dirs!Stat
    <2>2. Calm(c)' => fs[Dirs!Here(c)] # "file"
      <3> SUFFICES ASSUME Calm(c)', fs[Dirs!Here(c)] = "file" PROVE FALSE
          OBVIOUS
      <3>1. Calm(c)
            BY <1>1 DEF Calm, Dirs!WayIs
      <3>2. fs[Stand(c)] = "dir" /\ fs[<< >>] = "dir"
            BY <1>1, <3>1, ActiveIs DEF WayInv
      <3>3. Dirs!Nameless(c) \/ path[c].tokens[at[c] + 1] = ""
            BY <1>4 DEF Dirs!fstatat
      <3>4. CASE Dirs!Nameless(c)
            BY <3>2, <3>4 DEF Dirs!Nameless
      <3>5. CASE path[c].tokens[at[c] + 1] = ""
            BY <1>1, <3>2, <3>5, ActiveIs DEF Dirs!Named
      <3> QED BY <3>3, <3>4, <3>5
    <2>3. label \in {"stat", "mkdir"} /\ ~Dirs!TooLong(c)
          BY <1>1, ActiveIs
    <2> HIDE DEF label
    <2> QED BY <1>1, <2>1, <2>2, <2>3, Turns
  <1> QED BY <1>2, <1>3, <1>4

(***************************************************************************)
(* The only path that names nothing is empty.                              *)
(***************************************************************************)
LEMMA NamelessIsEmpty ==
    ASSUME DirsInv, NEW c \in Callers, pc[c] \in {"stat", "mkdir"}, Dirs!Nameless(c)
    PROVE  Dirs!AskedForNothing(c)
  <1> DEFINE p    == path[c]
             t    == p.tokens
             n    == Len(t)
             P(k) == Dirs!Place(p, k)
             k    == at[c]
  <1>1. p \in Paths /\ n \in Nat /\ k \in Nat /\ k + 1 \in 1..n /\ ~p.abs /\ P(k + 1) = << >>
        BY ActiveIs DEF Tokens, Dirs!Nameless, Dirs!Here
  <1>2. \A j \in 1..n : IF Dirs!Named(t[j]) THEN P(j) # << >> ELSE P(j) = P(j - 1)
    <2> HIDE DEF p
    <2> QED BY <1>1, PlacesAre
  <1>3. n > 1 => Dirs!Named(t[1])
    <2>1. Dirs!IsPath(p)
          BY <1>1, PathsAssumption DEF Dirs!PathsGiven
    <2> QED BY <1>1, <2>1 DEF Dirs!IsPath, Dirs!Named
  <1> HIDE DEF t, n, P, k
  <1>4. CASE n > 1
    <2> DEFINE S == {j \in Nat : j + 1 \in 1..n => P(j + 1) # << >>}
    <2>1. 0 \in S
          BY <1>1, <1>2, <1>3, <1>4
    <2>2. ASSUME NEW j \in Nat, j \in S PROVE j + 1 \in S
      <3> SUFFICES ASSUME (j + 1) + 1 \in 1..n PROVE P((j + 1) + 1) # << >>
          OBVIOUS
      <3>1. j + 1 \in 1..n /\ ((j + 1) + 1) - 1 = j + 1 /\ P(j + 1) # << >>
            BY <1>1, <2>2
      <3> QED BY <1>2, <3>1
    <2> HIDE DEF S
    <2>3. Nat \subseteq S
          BY <2>1, <2>2, Induct
    <2>4. k \in S
          BY <1>1, <2>3
    <2> QED BY <1>1, <2>4 DEF S
  <1>5. CASE ~(n > 1)
    <2>1. k + 1 = n
          BY <1>1, <1>5
    <2>2. P(n) = << >>
          BY <1>1, <2>1
    <2> QED BY <1>1, <2>2 DEF Dirs!AskedForNothing, Dirs!Destination, P, n, t
  <1> QED BY <1>4, <1>5

LEMMA MkdirKeeps ==
    ASSUME DirsInv, NEW c \in Callers, Dirs!Mkdir(c)
    PROVE  DirsInv'
  <1> DEFINE here == Dirs!Here(c)
  <1>1. pc[c] = "mkdir" /\ path' = path
        BY DEF Dirs!Mkdir
  <1>2. /\ here \in Places /\ ~Dirs!TooLong(c) /\ met[c] \in DirMarks /\ WayInv(c) /\ ret[c] = 0
        /\ fs \in [Places -> {"none", "dir", "file", "dangling"}] /\ fs[<< >>] = "dir"
        /\ met = [met EXCEPT ![c] = met[c]]
        /\ at[c] + 1 \in 1..Len(path[c].tokens)
        BY <1>1, ActiveIs DEF Tokens
  <1>3. CASE Dirs!mkdirat(c) = "made" /\ fs' = [fs EXCEPT ![here] = "dir"] /\ Dirs!NextComponent(c)
             /\ met' = met
    <2>1. fs[here] = "none"
          BY <1>3 DEF Dirs!mkdirat
    <2>2. Makes /\ fs'[here] = "dir"
          BY <1>2, <1>3, <2>1 DEF Makes
    <2> QED BY <1>1, <1>3, <2>2, PassesOn
  <1>4. CASE Dirs!mkdirat(c) # "made" /\ Dirs!MkdirFailed(c, Dirs!mkdirat(c)) /\ UNCHANGED <<fs, met>>
    <2>1. Calm(c)' => Calm(c)
          BY <1>1, <1>4 DEF Calm, Dirs!WayIs
    <2>2. CASE Dirs!mkdirat(c) = "EEXIST"
      <3>1. Dirs!NextComponent(c) /\ Makes /\ met' = met /\ fs' = fs
            BY <1>4, <2>2 DEF Dirs!MkdirFailed, Makes
      <3>2. fs[here] # "none"
            BY <2>2 DEF Dirs!mkdirat
      <3>3. Calm(c) => fs[here] # "file" /\ fs[here] # "dangling"
            BY <1>1, <1>2 DEF WayInv, Calm, Dirs!WayIs, Dirs!Here
      <3>4. fs[here] \in {"none", "dir", "file", "dangling"}
            BY <1>2
      <3>5. Calm(c)' => fs'[here] = "dir"
            BY <2>1, <3>1, <3>2, <3>3, <3>4
      <3> HIDE DEF here
      <3> QED BY <1>1, <3>1, <3>5, PassesOn DEF here
    <2>3. CASE Dirs!mkdirat(c) # "EEXIST"
      <3>1. Dirs!Return(c, -1) /\ fs' = fs /\ met' = [met EXCEPT ![c] = met[c]]
            BY <1>2, <1>4, <2>3 DEF Dirs!MkdirFailed
      <3>2. CASE Dirs!Nameless(c)
        <4>1. Dirs!AskedForNothing(c)
              BY <1>1, <3>2, NamelessIsEmpty
        <4> QED BY <1>1, <1>2, <3>1, <4>1, GivesUp
      <3>3. CASE ~Dirs!Nameless(c)
        <4>1. fs[here] = "none" /\ fs[Dirs!Parent(here)] # "dir"
              BY <1>4, <2>3, <3>3 DEF Dirs!mkdirat
        <4>2. ~Calm(c)
          <5> SUFFICES ASSUME Calm(c) PROVE FALSE
              OBVIOUS
          <5>1. fs[Stand(c)] = "dir"
                BY <1>2 DEF WayInv
          <5>2. here = Stand(c) \/ Dirs!Parent(here) = Stand(c)
                BY <1>1, ActiveIs
          <5> QED BY <4>1, <5>1, <5>2
        <4> QED BY <1>1, <1>2, <2>1, <3>1, <4>2, GivesUp
      <3> QED BY <3>2, <3>3
    <2> QED BY <2>2, <2>3
  <1>5. CASE met' = [met EXCEPT ![c] = @ \cup {"refused"}] /\ Dirs!MkdirFailed(c, "EACCES") /\ fs' = fs
    <2> DEFINE m == met[c] \cup {"refused"}
    <2>1. Dirs!Return(c, -1)
          BY <1>5 DEF Dirs!MkdirFailed
    <2>2. m \in DirMarks /\ met' = [met EXCEPT ![c] = m] /\ m # {}
          BY <1>2, <1>5 DEF DirMarks
    <2>3. ~Calm(c)'
      <3>1. met'[c] = m
            BY <1>2, <2>2 DEF DirsInv, Dirs!TypeOK
      <3> QED BY <2>2, <3>1 DEF Calm
    <2> HIDE DEF m
    <2> QED BY <1>1, <1>2, <1>5, <2>1, <2>2, <2>3, GivesUp
  <1> QED BY <1>3, <1>4, <1>5 DEF Dirs!Mkdir

(***************************************************************************)
(* Other programs mark the calls on whose way they remove or create.       *)
(***************************************************************************)
LEMMA DirsOthersKeep ==
    ASSUME DirsInv, Dirs!Others
    PROVE  DirsInv'
  <1>1. PICK place \in Places : Dirs!Removed(place) \/ Dirs!FileCreated(place)
        BY DEF Dirs!Others
  <1>2. PICK what \in {"none", "file"}, event \in {"removed", "file"} :
           /\ place # << >> /\ fs' = [fs EXCEPT ![place] = what] /\ Dirs!Meddle(place, event)
        BY <1>1 DEF Dirs!Removed, Dirs!FileCreated
  <1>3. UNCHANGED <<path, pc, at, ret>>
        BY <1>2 DEF Dirs!Meddle
  <1>4. /\ fs \in [Places -> {"none", "dir", "file", "dangling"}] /\ fs[<< >>] = "dir"
        /\ met \in [Callers -> DirMarks] /\ path \in [Callers -> Paths]
        BY DEF DirsInv, Dirs!TypeOK, DirMarks
  <1>5. /\ fs' \in [Places -> {"none", "dir", "file", "dangling"}] /\ fs'[<< >>] = "dir"
        /\ \A x \in Places : x # place => fs'[x] = fs[x]
    <2>1. << >> \in Places
          BY PathsAssumption DEF Dirs!PathsGiven
    <2> QED BY <1>2, <1>4, <2>1
  <1>6. \A c \in Callers : met'[c] = IF Dirs!OnWay(c, place) /\ pc[c] # "idle"
                                     THEN met[c] \cup {event} ELSE met[c]
        BY <1>2 DEF Dirs!Meddle
  <1>7. met' \in [Callers -> DirMarks]
    <2>1. \A c \in Callers : met'[c] \in DirMarks
          BY <1>4, <1>6 DEF DirMarks
    <2>2. met' = [c \in Callers |-> met'[c]]
          BY <1>2 DEF Dirs!Meddle
    <2> QED BY <2>1, <2>2
  <1>8. ASSUME NEW c \in Callers PROVE WayInv(c)'
    <2>1. met[c] \subseteq met'[c]
          BY <1>6
    <2>2. ASSUME pc[c] # "idle", met'[c] = {} PROVE MadeOnWay(c)
      <3>1. ~Dirs!OnWay(c, place)
            BY <1>6, <2>2
      <3>2. \A k \in 1..Tokens(c) : Dirs!Place(path[c], k) # place
            BY <3>1 DEF Dirs!OnWay, Tokens
      <3>3. /\ Dirs!Place(path[c], 0) # place
            /\ \A k \in 0..Tokens(c) : k = 0 \/ k \in 1..Tokens(c)
            /\ \A k \in 0..Tokens(c) : Dirs!Place(path[c], k) \in Places
            BY <1>2, <1>4, PlacesAre DEF Tokens
      <3>4. \A k \in 0..Tokens(c) : Dirs!Place(path[c], k) # place
            BY <3>2, <3>3
      <3> QED BY <1>5, <3>3, <3>4 DEF MadeOnWay, MadeAt
    <2> QED BY <1>3, <2>1, <2>2, WayStays
  <1>9. Dirs!TypeOK' /\ at' \in [Callers -> Nat]
        BY <1>3, <1>5, <1>7 DEF DirsInv, Dirs!TypeOK, DirMarks, Dirs!Active
  <1> QED BY <1>5, <1>8, <1>9 DEF DirsInv

LEMMA DirsGoOn == DirsInv /\ [Dirs!Next]_(Dirs!vars) => DirsInv'
  <1> SUFFICES ASSUME DirsInv, [Dirs!Next]_(Dirs!vars) PROVE DirsInv'
      OBVIOUS
  <1>1. CASE UNCHANGED Dirs!vars
    <2>1. /\ UNCHANGED <<fs, path, pc, at, ret, met>>
          BY <1>1 DEF Dirs!vars
    <2>2. Dirs!TypeOK'
          BY <2>1 DEF DirsInv, Dirs!TypeOK, Dirs!Active
    <2>3. ASSUME NEW c \in Callers PROVE WayInv(c)'
      <3>1. MadeOnWay(c)
            BY <2>1 DEF MadeOnWay, MadeAt
      <3> QED BY <2>1, <3>1, WayStays
    <2> QED BY <2>1, <2>2, <2>3 DEF DirsInv
  <1>2. ASSUME NEW c \in Callers, Dirs!Step(c) PROVE DirsInv'
        BY <1>2, DirsCallKeeps, StatKeeps, MkdirKeeps DEF Dirs!Step
  <1>3. CASE Dirs!Others
        BY <1>3, DirsOthersKeep
  <1>4. CASE Dirs!AllEnded
        BY <1>1, <1>4 DEF Dirs!AllEnded
  <1> QED BY <1>1, <1>2, <1>3, <1>4 DEF Dirs!Next

(***************************************************************************)
(* However many callers make the same directories at once, a call that no  *)
(* other program came in the way of leaves its directory there, or has a   *)
(* reason to fail; and mdir fits its buffer (ac_fs.c:73-127).              *)
(***************************************************************************)
THEOREM DirectoriesMade == SystemSpec => []MkdirMakes
  <1> DEFINE I == kind = "mkdir" => DirsInv
  <1>1. SystemInit => I
        BY DirsStart DEF SystemInit
  <1>2. I /\ [SystemNext]_allVars => I'
        BY Kinds, DirsGoOn
  <1>3. I => MkdirMakes
        BY DirsRight DEF MkdirMakes
  <1> QED BY <1>1, <1>2, <1>3, PTL DEF SystemSpec
=============================================================================
