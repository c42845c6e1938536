------------------------- MODULE StatusServiceProofs -------------------------
(***************************************************************************)
(* For any threads, users, servers and bounds: the chat server that        *)
(* GetChatServer hands out is a least loaded one, although the counts      *)
(* change while they are read and reads may fail; and the token a user got *)
(* last works, except in the three cases that LastTokenWorks names.        *)
(***************************************************************************)
EXTENDS StatusService, TLAPS

(* What the constants give.                                                *)
LEMMA Constants ==
  /\ Len(Servers) \in Nat /\ Len(Servers) >= 1 /\ Index = 1..Len(Servers)
  /\ MaxCount \in Nat /\ MaxStarts \in Nat /\ MaxCalls \in Nat
  /\ INT_MAX = MaxCount + 1 /\ Off = -1 /\ None \notin Threads
BY StatusAssumption DEF Index, INT_MAX, Off

(* A count that is read is at most INT_MAX, and INT_MAX only when off.     *)
LEMMA ReadRange ==
  ASSUME TypeOK, NEW i \in Index
  PROVE  Read(i) \in 0..INT_MAX /\ (Read(i) = INT_MAX <=> count[i] = Off)
<1>1. count[i] \in -1..MaxCount
  BY Constants DEF TypeOK
<1> QED
  BY <1>1, Constants DEF Read

(* What a scan takes an HGET for: the count, or INT_MAX when it fails.     *)
LEMMA HgetRange ==
  ASSUME TypeOK, NEW i \in Index, NEW ok \in BOOLEAN
  PROVE  /\ Hget(i, ok) \in 0..INT_MAX /\ Missed(i, ok) \subseteq {i}
         /\ i \notin Missed(i, ok) => Hget(i, ok) = Read(i)
         /\ i \in Missed(i, ok) => Hget(i, ok) = INT_MAX
BY ReadRange, Constants DEF Hget, Missed, INT_MAX

(* The chat servers change no call.                                        *)
ServerStep == \E i \in Index : ServerStart(i) \/ ServerStop(i) \/ ServerLogin(i)

(* A count that is the same to a call since its scan began, has only grown *)
(* and is there when it was there.                                         *)
LEMMA CountStep ==
  ASSUME TypeOK, ServerStep
  PROVE  /\ count' \in [Index -> Off..MaxCount] /\ starts' \in 0..MaxStarts
         /\ unsure' \in [Threads -> SUBSET Index]
         /\ UNCHANGED <<token, mtx, call, got, calls, fates>>
         /\ \A t \in Threads : call[t].at # "none" =>
              /\ unsure[t] \subseteq unsure'[t]
              /\ \A j \in Index \ unsure'[t] :
                   Read(j) <= Read(j)' /\ (count[j] = Off <=> count'[j] = Off)
<1>0. /\ count \in [Index -> -1..MaxCount] /\ unsure \in [Threads -> SUBSET Index]
      /\ starts \in 0..MaxStarts
  BY Constants DEF TypeOK
<1>1. PICK i \in Index : ServerStart(i) \/ ServerStop(i) \/ ServerLogin(i)
  BY DEF ServerStep
<1>2. UNCHANGED <<token, mtx, call, got, calls, fates>>
  BY <1>1 DEF ServerStart, ServerStop, ServerLogin
<1>3. \/ /\ unsure' = Changed(i)
         /\ \E n \in -1..MaxCount : count' = [count EXCEPT ![i] = n]
      \/ /\ UNCHANGED unsure
         /\ count[i] \in 0..(MaxCount - 1) /\ count' = [count EXCEPT ![i] = @ + 1]
  <2>1. CASE ServerStart(i) \/ ServerStop(i)
    BY <2>1, Constants DEF ServerStart, ServerStop
  <2>2. CASE ServerLogin(i)
    BY <2>2, Constants DEF ServerLogin
  <2> QED
    BY <1>1, <2>1, <2>2
<1>4. starts' \in 0..MaxStarts
  BY <1>0, <1>1, Constants DEF ServerStart, ServerStop, ServerLogin
<1>5. count' \in [Index -> Off..MaxCount]
  BY <1>0, <1>3, Constants
<1>6. unsure' \in [Threads -> SUBSET Index]
  BY <1>0, <1>3 DEF Changed
<1>7. ASSUME NEW t \in Threads, call[t].at # "none"
      PROVE  /\ unsure[t] \subseteq unsure'[t]
             /\ \A j \in Index \ unsure'[t] :
                  Read(j) <= Read(j)' /\ (count[j] = Off <=> count'[j] = Off)
  <2>1. CASE unsure' = Changed(i) /\ \E n \in -1..MaxCount : count' = [count EXCEPT ![i] = n]
    <3>1. unsure'[t] = unsure[t] \union {i}
      BY <1>7, <2>1 DEF Changed
    <3>2. \A j \in Index \ {i} : count'[j] = count[j]
      BY <1>0, <2>1
    <3> QED
      BY <1>0, <3>1, <3>2, Constants DEF Read
  <2>2. CASE UNCHANGED unsure /\ count[i] \in 0..(MaxCount - 1)
             /\ count' = [count EXCEPT ![i] = @ + 1]
    BY <1>0, <2>2, Constants DEF Read
  <2> QED
    BY <1>3, <2>1, <2>2
<1> QED
  BY <1>2, <1>4, <1>5, <1>6, <1>7

(* Every step keeps the types, and the mutex with the thread that scans.   *)
LEMMA GuardedStep == Guarded /\ [Next]_vars => Guarded'
<1> SUFFICES ASSUME Guarded, [Next]_vars PROVE Guarded'
  OBVIOUS
<1>0. /\ TypeOK
      /\ \A t \in Threads : call[t].at = "scan" <=> mtx = t
      /\ \A t \in Threads : call[t].at # "none" => call[t].user \in Users /\ call[t].token \in Tokens
  BY DEF Guarded
<1>1. ASSUME NEW t \in Threads, NEW u \in Users, Ask(t, u)
      PROVE  Guarded'
  <2>1. calls + 1 \in Tokens /\ calls' \in 0..MaxCalls
    BY <1>0, <1>1, Constants DEF Ask, TypeOK, Tokens
  <2>2. call'[t] \in Call /\ call'[t].at = "lock" /\ call[t].at = "none"
        /\ call'[t].user = u /\ call'[t].token = calls + 1
        /\ \A s \in Threads \ {t} : call'[s] = call[s]
    <3>1. call[t] \in Call /\ call[t].at = "none" /\ 1 \in Index
      BY <1>0, <1>1, Constants DEF Ask, TypeOK
    <3>2. call' = [call EXCEPT ![t] = [at |-> "lock", user |-> u, next |-> 1, min |-> 1,
                                       least |-> 0, token |-> calls + 1]]
      BY <1>1 DEF Ask, NewCall
    <3>3. call'[t] = [at |-> "lock", user |-> u, next |-> 1, min |-> 1,
                      least |-> 0, token |-> calls + 1]
          /\ \A s \in Threads \ {t} : call'[s] = call[s]
      BY <1>0, <3>2 DEF TypeOK
    <3> QED
      BY <2>1, <3>1, <3>3, Constants DEF Call
  <2>3. call' \in [Threads -> Call]
    BY <1>0, <1>1, <2>2 DEF Ask, TypeOK
  <2> QED
    <3>1. before' \in [Tokens -> SUBSET Tokens]
      BY <1>0, <1>1, <2>1 DEF TypeOK, Ask
    <3> QED
      BY <1>0, <1>1, <2>1, <2>2, <2>3, <3>1 DEF Guarded, TypeOK, Ask
<1>2. ASSUME NEW t \in Threads, ScanFirst(t)
      PROVE  Guarded'
  <2>0. PICK ok \in BOOLEAN :
              /\ call' = [call EXCEPT ![t].at = "scan", ![t].next = 2, ![t].min = 1,
                                      ![t].least = Hget(1, ok)]
              /\ unsure' = [unsure EXCEPT ![t] = Missed(1, ok)]
    BY <1>2 DEF ScanFirst
  <2>1. Hget(1, ok) \in 0..INT_MAX /\ Missed(1, ok) \subseteq Index
    BY <1>0, HgetRange, Constants
  <2>2. call'[t] \in Call /\ call'[t].at = "scan"
        /\ call[t].at # "none" /\ call'[t].user = call[t].user /\ call'[t].token = call[t].token
        /\ \A s \in Threads \ {t} : call'[s] = call[s]
    <3>1. call[t] \in Call /\ call[t].at = "lock" /\ 1 \in Index /\ 2 \in 1..(Len(Servers) + 1)
      BY <1>0, <1>2, Constants DEF ScanFirst, TypeOK
    <3>2. call'[t] = [at |-> "scan", user |-> call[t].user, next |-> 2, min |-> 1,
                      least |-> Hget(1, ok), token |-> call[t].token]
          /\ \A s \in Threads \ {t} : call'[s] = call[s]
      BY <1>0, <2>0, <3>1 DEF TypeOK, Call
    <3> QED
      BY <2>1, <3>1, <3>2 DEF Call
  <2>3. call' \in [Threads -> Call]
    BY <1>0, <2>0, <2>2 DEF TypeOK
  <2>4. unsure' \in [Threads -> SUBSET Index]
    BY <1>0, <2>0, <2>1 DEF TypeOK
  <2> QED
    BY <1>0, <1>2, <2>2, <2>3, <2>4, Constants DEF Guarded, TypeOK, ScanFirst, fates
<1>3. ASSUME NEW t \in Threads, ScanNext(t)
      PROVE  Guarded'
  <2>0. PICK ok \in BOOLEAN :
              /\ call' = [call EXCEPT ![t].next = @ + 1,
                           ![t].min = IF Hget(call[t].next, ok) < call[t].least THEN call[t].next ELSE @,
                           ![t].least = IF Hget(call[t].next, ok) < call[t].least
                                        THEN Hget(call[t].next, ok) ELSE @]
              /\ unsure' = [unsure EXCEPT ![t] = @ \union Missed(call[t].next, ok)]
    BY <1>3 DEF ScanNext
  <2>1. Hget(call[t].next, ok) \in 0..INT_MAX /\ Missed(call[t].next, ok) \subseteq Index
    BY <1>0, <1>3, HgetRange DEF ScanNext
  <2>2. call'[t] \in Call /\ call'[t].at = call[t].at
        /\ call[t].at # "none" /\ call'[t].user = call[t].user /\ call'[t].token = call[t].token
        /\ \A s \in Threads \ {t} : call'[s] = call[s]
    <3> DEFINE c == call[t]
               less == Hget(c.next, ok) < c.least
    <3>1. c \in Call /\ c.at = "scan" /\ c.next \in Index /\ c.next + 1 \in 1..(Len(Servers) + 1)
      BY <1>0, <1>3, Constants DEF ScanNext, TypeOK
    <3>2. call'[t] = [at |-> "scan", user |-> c.user, next |-> c.next + 1,
                      min |-> IF less THEN c.next ELSE c.min,
                      least |-> IF less THEN Hget(c.next, ok) ELSE c.least, token |-> c.token]
          /\ \A s \in Threads \ {t} : call'[s] = call[s]
      BY <1>0, <2>0, <3>1 DEF TypeOK, Call
    <3> QED
      BY <2>1, <3>1, <3>2 DEF Call
  <2>3. call' \in [Threads -> Call]
    BY <1>0, <2>0, <2>2 DEF TypeOK
  <2>4. unsure' \in [Threads -> SUBSET Index]
    BY <1>0, <2>0, <2>1 DEF TypeOK
  <2> QED
    BY <1>0, <1>3, <2>2, <2>3, <2>4 DEF Guarded, TypeOK, ScanNext, fates
<1>4. ASSUME NEW t \in Threads, ScanDone(t)
      PROVE  Guarded'
  <2>1. call'[t] \in Call /\ call'[t].at = "token" /\ call[t].at = "scan"
        /\ call[t].at # "none" /\ call'[t].user = call[t].user /\ call'[t].token = call[t].token
        /\ \A s \in Threads \ {t} : call'[s] = call[s]
    BY <1>0, <1>4, ZenonT(40) DEF ScanDone, TypeOK, Call
  <2>2. call' \in [Threads -> Call]
    BY <1>0, <1>4, <2>1 DEF ScanDone, TypeOK
  <2> QED
    BY <1>0, <1>4, <2>1, <2>2, Constants DEF Guarded, TypeOK, ScanDone, fates
<1>5. ASSUME NEW t \in Threads, InsertToken(t)
      PROVE  Guarded'
  <2>1. call'[t] \in Call /\ call'[t].at = "reply" /\ call[t].at = "token"
        /\ call[t].at # "none" /\ call'[t].user = call[t].user /\ call'[t].token = call[t].token
        /\ \A s \in Threads \ {t} : call'[s] = call[s]
    BY <1>0, <1>5 DEF InsertToken, TypeOK, Call
  <2>2. call' \in [Threads -> Call]
    BY <1>0, <1>5, <2>1 DEF InsertToken, TypeOK
  <2>3. token' \in [Users -> Tokens \union {None}] /\ unset' \in SUBSET Tokens
    BY <1>0, <1>5, <2>1 DEF InsertToken, TypeOK
  <2> QED
    BY <1>0, <1>5, <2>1, <2>2, <2>3 DEF Guarded, TypeOK, InsertToken
<1>6. ASSUME NEW t \in Threads, Reply(t)
      PROVE  Guarded'
  <2>1. call'[t] \in Call /\ call'[t].at = "none" /\ call[t].at = "reply"
        /\ \A s \in Threads \ {t} : call'[s] = call[s]
    BY <1>0, <1>6, Constants DEF Reply, TypeOK, Call, NoCall, NewCall
  <2>2. call' \in [Threads -> Call]
    BY <1>0, <1>6, <2>1 DEF Reply, TypeOK
  <2>3. /\ got' \in [Users -> Tokens \union {None}]
        /\ lost' \in SUBSET Tokens /\ ended' \in SUBSET Tokens
    BY <1>0, <1>6, <2>1 DEF Reply, TypeOK
  <2>4. unsure' \in [Threads -> SUBSET Index]
    BY <1>0, <1>6 DEF Reply, TypeOK
  <2> QED
    BY <1>0, <1>6, <2>1, <2>2, <2>3, <2>4 DEF Guarded, TypeOK, Reply
<1>7. CASE ServerStep
  BY <1>0, <1>7, CountStep DEF Guarded, TypeOK, fates
<1>8. CASE UNCHANGED vars
  BY <1>0, <1>8 DEF vars, fates, Guarded, TypeOK
<1> QED
  BY <1>1, <1>2, <1>3, <1>4, <1>5, <1>6, <1>7, <1>8 DEF Next, Step, ServerStep

(* Every step of a scan keeps least below what it has read.                *)
LEMMA ScanStep == IndInv /\ [Next]_vars => ScanInv'
<1> SUFFICES ASSUME IndInv, [Next]_vars, NEW t \in Threads,
                    call'[t].at \in {"scan", "token", "reply"}
             PROVE  /\ \A i \in ReadSoFar(t)' \ unsure'[t] : call'[t].least <= Read(i)'
                    /\ call'[t].min \notin unsure'[t] /\ count'[call'[t].min] = Off
                          => call'[t].least = INT_MAX
  BY DEF ScanInv
<1>0. /\ TypeOK /\ ScanInv /\ call \in [Threads -> Call] /\ unsure \in [Threads -> SUBSET Index]
      /\ call[t] \in Call /\ call[t].min \in Index /\ call[t].least \in 0..INT_MAX
  BY DEF IndInv, Guarded, TypeOK, Call
<1>a. ASSUME call'[t] = call[t], unsure'[t] = unsure[t], UNCHANGED count
      PROVE  /\ \A i \in ReadSoFar(t)' \ unsure'[t] : call'[t].least <= Read(i)'
             /\ call'[t].min \notin unsure'[t] /\ count'[call'[t].min] = Off
                   => call'[t].least = INT_MAX
  BY <1>0, <1>a DEF ScanInv, ReadSoFar, Read
<1>1. ASSUME NEW s \in Threads, NEW u \in Users, Ask(s, u)
      PROVE  call'[t] = call[t] /\ unsure'[t] = unsure[t] /\ UNCHANGED count
  <2>1. call'[s].at = "lock"
    BY <1>0, <1>1 DEF Ask, NoCall, NewCall
  <2> QED
    BY <1>0, <1>1, <2>1 DEF Ask
<1>2. ASSUME ScanFirst(t)
      PROVE  /\ \A i \in ReadSoFar(t)' \ unsure'[t] : call'[t].least <= Read(i)'
             /\ call'[t].min \notin unsure'[t] /\ count'[call'[t].min] = Off
                   => call'[t].least = INT_MAX
  <2>0. PICK ok \in BOOLEAN :
              /\ call' = [call EXCEPT ![t].at = "scan", ![t].next = 2, ![t].min = 1,
                                      ![t].least = Hget(1, ok)]
              /\ unsure' = [unsure EXCEPT ![t] = Missed(1, ok)]
    BY <1>2 DEF ScanFirst
  <2>1. call'[t].at = "scan" /\ call'[t].next = 2 /\ call'[t].min = 1
        /\ call'[t].least = Hget(1, ok) /\ unsure'[t] = Missed(1, ok) /\ UNCHANGED count
    BY <1>0, <1>2, <2>0 DEF ScanFirst, Call
  <2>2. ReadSoFar(t)' = {1}
    BY <2>1 DEF ReadSoFar
  <2>3. Read(1)' = Read(1) /\ Read(1) \in Int /\ (Read(1) = INT_MAX <=> count[1] = Off)
    BY <1>0, <2>1, ReadRange, Constants DEF Read
  <2>4. 1 \notin Missed(1, ok) => Hget(1, ok) = Read(1)
    BY <1>0, HgetRange, Constants
  <2> QED
    BY <2>1, <2>2, <2>3, <2>4
<1>3. ASSUME ScanNext(t)
      PROVE  /\ \A i \in ReadSoFar(t)' \ unsure'[t] : call'[t].least <= Read(i)'
             /\ call'[t].min \notin unsure'[t] /\ count'[call'[t].min] = Off
                   => call'[t].least = INT_MAX
  <2> DEFINE c == call[t]
  <2>0. PICK ok \in BOOLEAN :
              /\ call' = [call EXCEPT ![t].next = @ + 1,
                           ![t].min = IF Hget(c.next, ok) < c.least THEN c.next ELSE @,
                           ![t].least = IF Hget(c.next, ok) < c.least THEN Hget(c.next, ok) ELSE @]
              /\ unsure' = [unsure EXCEPT ![t] = @ \union Missed(c.next, ok)]
    BY <1>3 DEF ScanNext
  <2> DEFINE n == Hget(c.next, ok)
             less == n < c.least
  <2>1. c.at = "scan" /\ c.next \in Index /\ UNCHANGED count
        /\ unsure'[t] = unsure[t] \union Missed(c.next, ok)
    BY <1>0, <1>3, <2>0 DEF ScanNext
  <2>2. call'[t].at = "scan" /\ call'[t].next = c.next + 1
        /\ call'[t].min = (IF less THEN c.next ELSE c.min)
        /\ call'[t].least = (IF less THEN n ELSE c.least)
    BY <1>0, <2>0, <2>1 DEF Call
  <2>3. ReadSoFar(t)' = ReadSoFar(t) \union {c.next} /\ ReadSoFar(t) \subseteq Index
    BY <2>1, <2>2, Constants DEF ReadSoFar
  <2>4. \A i \in Index : Read(i)' = Read(i) /\ Read(i) \in 0..INT_MAX
                         /\ (Read(i) = INT_MAX <=> count[i] = Off)
    BY <1>0, <2>1, ReadRange DEF Read
  <2>5. /\ \A i \in ReadSoFar(t) \ unsure[t] : c.least <= Read(i)
        /\ c.min \notin unsure[t] /\ count[c.min] = Off => c.least = INT_MAX
    BY <1>0, <2>1 DEF ScanInv
  <2>9. /\ n \in 0..INT_MAX /\ Missed(c.next, ok) \subseteq {c.next}
        /\ c.next \notin Missed(c.next, ok) => n = Read(c.next)
    BY <1>0, <2>1, HgetRange
  <2> HIDE DEF n
  <2>6. call'[t].least <= c.least /\ call'[t].least <= n /\ call'[t].least \in Int
    BY <1>0, <2>1, <2>2, <2>9, Constants
  <2>7. \A i \in ReadSoFar(t)' \ unsure'[t] : call'[t].least <= Read(i)'
    BY <1>0, <2>1, <2>3, <2>4, <2>5, <2>6, <2>9, Constants
  <2>8. call'[t].min \notin unsure'[t] /\ count'[call'[t].min] = Off => call'[t].least = INT_MAX
    BY <2>1, <2>2, <2>4, <2>5, <2>9
  <2> QED
    BY <2>7, <2>8
<1>4. ASSUME ScanDone(t)
      PROVE  /\ \A i \in ReadSoFar(t)' \ unsure'[t] : call'[t].least <= Read(i)'
             /\ call'[t].min \notin unsure'[t] /\ count'[call'[t].min] = Off
                   => call'[t].least = INT_MAX
  <2>1. call[t].at = "scan" /\ call[t].next \notin Index /\ UNCHANGED <<count, unsure>>
        /\ call'[t].at = "token" /\ call'[t].least = call[t].least /\ call'[t].min = call[t].min
    BY <1>0, <1>4 DEF ScanDone, Call
  <2>2. call[t].next = Len(Servers) + 1
    BY <1>0, <2>1, Constants DEF Call
  <2>3. ReadSoFar(t)' = Index /\ ReadSoFar(t) = Index
    BY <2>1, <2>2, Constants DEF ReadSoFar
  <2> QED
    BY <1>0, <2>1, <2>3 DEF ScanInv, Read
<1>5. ASSUME InsertToken(t)
      PROVE  /\ \A i \in ReadSoFar(t)' \ unsure'[t] : call'[t].least <= Read(i)'
             /\ call'[t].min \notin unsure'[t] /\ count'[call'[t].min] = Off
                   => call'[t].least = INT_MAX
  <2>1. call[t].at = "token" /\ UNCHANGED <<count, unsure>>
        /\ call'[t].at = "reply" /\ call'[t].least = call[t].least /\ call'[t].min = call[t].min
    BY <1>0, <1>5 DEF InsertToken, Call
  <2> QED
    BY <1>0, <2>1 DEF ScanInv, Read, ReadSoFar
<1>6. ~Reply(t)
  BY <1>0 DEF Reply, NoCall, NewCall
<1>7. ASSUME NEW s \in Threads \ {t}, Step(s)
      PROVE  call'[t] = call[t] /\ unsure'[t] = unsure[t] /\ UNCHANGED count
  BY <1>0, <1>7 DEF Step, ScanFirst, ScanNext, ScanDone, InsertToken, Reply
<1>8. CASE ServerStep
  <2>1. /\ call' = call /\ unsure[t] \subseteq unsure'[t] /\ TypeOK'
        /\ \A j \in Index \ unsure'[t] :
             Read(j) <= Read(j)' /\ (count[j] = Off <=> count'[j] = Off)
    BY <1>0, <1>8, CountStep, GuardedStep DEF IndInv, Guarded
  <2>2. \A i \in Index : Read(i) \in Int
    BY <1>0, ReadRange
  <2>3. \A i \in Index : Read(i)' \in Int
    BY <2>1, Constants DEF TypeOK, Read
  <2>4. ReadSoFar(t)' = ReadSoFar(t) /\ ReadSoFar(t) \subseteq Index
    BY <1>0, <2>1, Constants DEF ReadSoFar, Call
  <2>5. /\ \A i \in ReadSoFar(t) \ unsure[t] : call[t].least <= Read(i)
        /\ call[t].min \notin unsure[t] /\ count[call[t].min] = Off => call[t].least = INT_MAX
    BY <1>0, <2>1 DEF ScanInv
  <2>6. call[t].least \in Int
    BY <1>0, Constants
  <2> QED
    BY <1>0, <2>1, <2>2, <2>3, <2>4, <2>5, <2>6
<1>9. CASE UNCHANGED vars
  BY <1>a, <1>9 DEF vars
<1> QED
  BY <1>a, <1>1, <1>2, <1>3, <1>4, <1>5, <1>6, <1>7, <1>8, <1>9 DEF Next, Step, ServerStep

(* The inductive invariant of the scan.                                    *)
THEOREM Inductive == Spec => []IndInv
<1>1. Init => IndInv
  <2> SUFFICES ASSUME Init PROVE IndInv
    OBVIOUS
  <2>1. NoCall \in Call /\ NoCall.at = "none"
    BY Constants DEF NoCall, NewCall, Call
  <2>2. call = [t \in Threads |-> NoCall]
    BY DEF Init
  <2>3. \A t \in Threads : call[t] \in Call /\ call[t].at = "none"
    BY <2>1, <2>2
  <2>4. TypeOK
    BY <2>2, <2>3, Constants DEF Init, TypeOK
  <2> QED
    BY <2>3, <2>4, Constants DEF Init, IndInv, Guarded, ScanInv
<1>2. IndInv /\ [Next]_vars => IndInv'
  BY GuardedStep, ScanStep DEF IndInv
<1> QED
  BY <1>1, <1>2, PTL DEF Spec

(* For any servers, threads and users: GetChatServer never hands out a     *)
(* server that is off, or one with more logins than another, unless counts *)
(* came or went during the call.                                           *)
THEOREM HandsOutLeastLoaded == Spec => []LeastLoaded
<1>1. IndInv => LeastLoaded
  <2> SUFFICES ASSUME IndInv, NEW t \in Threads, Decided(t)
               PROVE  /\ \A i \in Index \ unsure[t] : call[t].least <= Read(i)
                      /\ (\E i \in Index \ unsure[t] : count[i] # Off)
                            => count[call[t].min] # Off \/ call[t].min \in unsure[t]
    BY DEF LeastLoaded, IndInv
  <2>1. /\ \A i \in Index \ unsure[t] : call[t].least <= Read(i)
        /\ call[t].min \notin unsure[t] /\ count[call[t].min] = Off => call[t].least = INT_MAX
    BY DEF IndInv, ScanInv, ReadSoFar, Decided
  <2>2. \A i \in Index : Read(i) \in 0..INT_MAX /\ (Read(i) = INT_MAX <=> count[i] = Off)
    BY ReadRange DEF IndInv, Guarded
  <2> QED
    BY <2>1, <2>2, Constants
<1> QED
  BY <1>1, Inductive, PTL

(* What a step does to the call of a thread, as far as tokens go.          *)
Kept(t) == call'[t].at = call[t].at /\ call'[t].user = call[t].user /\ call'[t].token = call[t].token
Scans(t) ==
  /\ call[t].at \in {"lock", "scan"} /\ call'[t].at \in {"scan", "token"}
  /\ call'[t].user = call[t].user /\ call'[t].token = call[t].token

(* The steps, told apart by what they do to tokens: a call begins; tokens  *)
(* are left alone; a token is stored or is not; a call returns.            *)
LEMMA TokenSteps ==
  ASSUME Guarded, [Next]_vars
  PROVE  \/ \E t \in Threads, u \in Users :
              /\ call[t].at = "none" /\ calls' = calls + 1
              /\ call'[t].at = "lock" /\ call'[t].user = u /\ call'[t].token = calls + 1
              /\ before' = [before EXCEPT ![calls + 1] = ended]
              /\ UNCHANGED <<token, got, unset, lost, ended>>
              /\ \A s \in Threads \ {t} : call'[s] = call[s]
         \/ /\ UNCHANGED <<token, got, calls, unset, lost, ended, before>>
            /\ \A t \in Threads : Kept(t) \/ Scans(t)
         \/ \E t \in Threads :
              /\ call[t].at = "token" /\ call'[t].at = "reply"
              /\ call'[t].user = call[t].user /\ call'[t].token = call[t].token
              /\ \/ token' = [token EXCEPT ![call[t].user] = call[t].token] /\ UNCHANGED unset
                 \/ unset' = unset \union {call[t].token} /\ UNCHANGED token
              /\ UNCHANGED <<got, calls, lost, ended, before>>
              /\ \A s \in Threads \ {t} : call'[s] = call[s]
         \/ \E t \in Threads :
              /\ call[t].at = "reply" /\ call'[t].at = "none" /\ ended' = ended \union {call[t].token}
              /\ \/ got' = [got EXCEPT ![call[t].user] = call[t].token] /\ UNCHANGED lost
                 \/ lost' = lost \union {call[t].token} /\ UNCHANGED got
              /\ UNCHANGED <<token, calls, unset, before>>
              /\ \A s \in Threads \ {t} : call'[s] = call[s]
<1>0. call \in [Threads -> Call] /\ TypeOK
  BY DEF Guarded, TypeOK
<1>1. ASSUME NEW t \in Threads, NEW u \in Users, Ask(t, u)
      PROVE  /\ call[t].at = "none" /\ calls' = calls + 1
             /\ call'[t].at = "lock" /\ call'[t].user = u /\ call'[t].token = calls + 1
             /\ before' = [before EXCEPT ![calls + 1] = ended]
             /\ UNCHANGED <<token, got, unset, lost, ended>>
             /\ \A s \in Threads \ {t} : call'[s] = call[s]
  BY <1>0, <1>1 DEF Ask, NewCall
<1>2. ASSUME NEW t \in Threads, ScanFirst(t) \/ ScanNext(t) \/ ScanDone(t)
      PROVE  /\ UNCHANGED <<token, got, calls, unset, lost, ended, before>>
             /\ \A s \in Threads : Kept(s) \/ Scans(s)
  <2>1. CASE ScanFirst(t)
    BY <1>0, <2>1 DEF ScanFirst, fates, Kept, Scans, Call
  <2>2. CASE ScanNext(t)
    BY <1>0, <2>2 DEF ScanNext, fates, Kept, Scans, Call
  <2>3. CASE ScanDone(t)
    BY <1>0, <2>3 DEF ScanDone, fates, Kept, Scans, Call
  <2> QED
    BY <1>2, <2>1, <2>2, <2>3
<1>3. ASSUME NEW t \in Threads, InsertToken(t)
      PROVE  /\ call[t].at = "token" /\ call'[t].at = "reply"
             /\ call'[t].user = call[t].user /\ call'[t].token = call[t].token
             /\ \/ token' = [token EXCEPT ![call[t].user] = call[t].token] /\ UNCHANGED unset
                \/ unset' = unset \union {call[t].token} /\ UNCHANGED token
             /\ UNCHANGED <<got, calls, lost, ended, before>>
             /\ \A s \in Threads \ {t} : call'[s] = call[s]
  BY <1>0, <1>3 DEF InsertToken, Call
<1>4. ASSUME NEW t \in Threads, Reply(t)
      PROVE  /\ call[t].at = "reply" /\ call'[t].at = "none" /\ ended' = ended \union {call[t].token}
             /\ \/ got' = [got EXCEPT ![call[t].user] = call[t].token] /\ UNCHANGED lost
                \/ lost' = lost \union {call[t].token} /\ UNCHANGED got
             /\ UNCHANGED <<token, calls, unset, before>>
             /\ \A s \in Threads \ {t} : call'[s] = call[s]
  BY <1>0, <1>4 DEF Reply, NoCall, NewCall
<1>5. ASSUME ServerStep \/ UNCHANGED vars
      PROVE  /\ UNCHANGED <<token, got, calls, unset, lost, ended, before>>
             /\ \A s \in Threads : Kept(s) \/ Scans(s)
  BY <1>0, <1>5, CountStep DEF vars, fates, Kept
<1>6. CASE \E t \in Threads, u \in Users : Ask(t, u)
  BY <1>1, <1>6
<1>7. CASE \E t \in Threads : ScanFirst(t) \/ ScanNext(t) \/ ScanDone(t)
  BY <1>2, <1>7
<1>8. CASE \E t \in Threads : InsertToken(t)
  BY <1>3, <1>8
<1>9. CASE \E t \in Threads : Reply(t)
  BY <1>4, <1>9
<1> QED
  BY <1>5, <1>6, <1>7, <1>8, <1>9 DEF Next, Step, ServerStep

(* Every step keeps the four parts.  A token that is overwritten belongs   *)
(* to a call that has not returned; so the call that overwrites it cannot  *)
(* have begun after its end, nor have ended before it began.               *)
LEMMA TokenStep == Guarded /\ TokenInv /\ [Next]_vars => TokenInv'
<1> SUFFICES ASSUME Guarded, TokenInv, [Next]_vars PROVE TokenInv'
  OBVIOUS
<1>0. /\ token \in [Users -> Tokens \union {None}] /\ got \in [Users -> Tokens \union {None}]
      /\ calls \in 0..MaxCalls /\ calls' \in 0..MaxCalls /\ calls \in Int /\ Tokens \subseteq Int
      /\ ended \in SUBSET Tokens /\ before \in [Tokens -> SUBSET Tokens] /\ None \notin Tokens
      /\ \A t \in Threads : call[t].at # "none" => call[t].user \in Users /\ call[t].token \in Tokens
  BY GuardedStep, StatusAssumption, Constants DEF Guarded, TypeOK, Tokens
<1>i. CallsApart /\ TokensMade /\ OverwrittenLater /\ Explained
  BY DEF TokenInv
<1>1. ASSUME NEW t \in Threads, NEW u \in Users,
             call[t].at = "none", calls' = calls + 1,
             call'[t].at = "lock", call'[t].user = u, call'[t].token = calls + 1,
             before' = [before EXCEPT ![calls + 1] = ended],
             UNCHANGED <<token, got, unset, lost, ended>>,
             \A s \in Threads \ {t} : call'[s] = call[s]
      PROVE  TokenInv'
  <2>1. calls + 1 \in Tokens /\ calls + 1 \notin ended /\ before'[calls + 1] = ended
        /\ \A n \in Tokens \ {calls + 1} : before'[n] = before[n]
    BY <1>0, <1>1, <1>i DEF CallsApart, Tokens
  <2>2. CallsApart'
    <3>1. \A s \in Threads : call'[s].at # "none" =>
             \/ s # t /\ call'[s] = call[s] /\ call[s].at # "none" /\ call[s].token <= calls
                /\ call[s].token \notin ended
             \/ s = t /\ call'[s].token = calls + 1
      <4> SUFFICES ASSUME NEW s \in Threads \ {t}, call'[s].at # "none"
                   PROVE  /\ call'[s] = call[s] /\ call[s].at # "none" /\ call[s].token <= calls
                          /\ call[s].token \notin ended
        BY <1>1
      <4> QED
        BY <1>1, <1>i DEF CallsApart
    <3>2. \A s \in Threads : call'[s].at # "none" => call'[s].token <= calls + 1 /\ call'[s].token \notin ended
      <4> SUFFICES ASSUME NEW s \in Threads, call'[s].at # "none"
                   PROVE  call'[s].token <= calls + 1 /\ call'[s].token \notin ended
        OBVIOUS
      <4>1. CASE s = t
        BY <1>0, <1>1, <2>1, <4>1
      <4>2. CASE s # t
        <5>1. call'[s].token = call[s].token /\ call[s].token <= calls /\ call[s].token \notin ended
          BY <3>1, <4>2
        <5>2. call[s].token \in Int
          BY <1>0, <3>1, <4>2
        <5> QED
          BY <1>0, <5>1, <5>2
      <4> QED
        BY <4>1, <4>2
    <3>3. \A r, s \in Threads : r # s /\ call'[r].at # "none" /\ call'[s].at # "none"
             => call'[r].token # call'[s].token
      BY <1>0, <1>i, <3>1 DEF CallsApart
    <3>4. \A n \in ended : n <= calls + 1
      <4> SUFFICES ASSUME NEW n \in ended PROVE n <= calls + 1
        OBVIOUS
      <4>1. n <= calls
        BY <1>i DEF CallsApart
      <4>2. n \in Int /\ calls \in Int
        BY <1>0
      <4> QED
        BY <4>1, <4>2
    <3>5. \A n \in Tokens : before'[n] \subseteq ended
      BY <1>i, <2>1 DEF CallsApart
    <3> QED
      BY <1>1, <3>2, <3>3, <3>4, <3>5 DEF CallsApart
  <2>3. TokensMade'
    BY <1>0, <1>1, <1>i DEF TokensMade
  <2>4. \A s \in Threads : call[s].at = "reply" => call[s].token # calls + 1
    BY <1>0, <1>i DEF CallsApart
  <2>5. OverwrittenLater'
    <3> SUFFICES ASSUME NEW s \in Threads, call'[s].at = "reply", call'[s].token \notin unset
                 PROVE  token[call'[s].user] # None /\ token[call'[s].user] \notin before'[call'[s].token]
      BY <1>1 DEF OverwrittenLater
    <3>1. s # t /\ call'[s] = call[s] /\ call[s].token \in Tokens \ {calls + 1}
      BY <1>0, <1>1, <2>4
    <3> QED
      BY <1>i, <2>1, <3>1 DEF OverwrittenLater
  <2>6. Explained'
    BY <1>0, <1>1, <1>i, <2>1 DEF Explained, Overlap, TokensMade, CallsApart
  <2> QED
    BY <2>2, <2>3, <2>5, <2>6 DEF TokenInv
<1>2. ASSUME UNCHANGED <<token, got, calls, unset, lost, ended, before>>,
             \A t \in Threads : Kept(t) \/ Scans(t)
      PROVE  TokenInv'
  <2>1. CallsApart'
    BY <1>2, <1>i DEF CallsApart, Kept, Scans
  <2>2. TokensMade'
    BY <1>2, <1>i DEF TokensMade, Kept, Scans
  <2>3. OverwrittenLater'
    BY <1>2, <1>i DEF OverwrittenLater, Kept, Scans
  <2>4. Explained'
    BY <1>2, <1>i DEF Explained, Overlap
  <2> QED
    BY <2>1, <2>2, <2>3, <2>4 DEF TokenInv
<1>3. ASSUME NEW t \in Threads,
             call[t].at = "token", call'[t].at = "reply",
             call'[t].user = call[t].user, call'[t].token = call[t].token,
             \/ token' = [token EXCEPT ![call[t].user] = call[t].token] /\ UNCHANGED unset
             \/ unset' = unset \union {call[t].token} /\ UNCHANGED token,
             UNCHANGED <<got, calls, lost, ended, before>>,
             \A s \in Threads \ {t} : call'[s] = call[s]
      PROVE  TokenInv'
  <2>1. CallsApart'
    BY <1>3, <1>i DEF CallsApart
  <2>2. call[t].token \in Tokens /\ call[t].token \notin ended /\ call[t].user \in Users
        /\ \A n \in Tokens : call[t].token \notin before[n]
    BY <1>0, <1>3, <1>i DEF CallsApart
  <2>3. CASE token' = [token EXCEPT ![call[t].user] = call[t].token] /\ UNCHANGED unset
    <3>1. token'[call[t].user] = call[t].token
          /\ \A u \in Users \ {call[t].user} : token'[u] = token[u]
      BY <1>0, <2>2, <2>3
    <3>2. TokensMade'
      BY <1>0, <1>3, <1>i, <2>2, <3>1 DEF TokensMade
    <3>3. OverwrittenLater'
      <4> SUFFICES ASSUME NEW s \in Threads, call'[s].at = "reply", call'[s].token \notin unset
                   PROVE  token'[call'[s].user] # None
                          /\ token'[call'[s].user] \notin before[call'[s].token]
        BY <1>3, <2>3 DEF OverwrittenLater
      <4>1. call'[s].user = call[s].user /\ call'[s].token = call[s].token /\ call[s].at # "none"
        BY <1>3
      <4>2. CASE call[s].user = call[t].user
        BY <1>0, <2>2, <3>1, <4>1, <4>2
      <4>3. CASE call[s].user # call[t].user
        BY <1>0, <1>3, <1>i, <3>1, <4>1, <4>3 DEF OverwrittenLater
      <4> QED
        BY <4>2, <4>3
    <3>4. Explained'
      BY <1>0, <1>3, <1>i, <2>2, <2>3, <3>1 DEF Explained, Overlap
    <3> QED
      BY <2>1, <3>2, <3>3, <3>4 DEF TokenInv
  <2>4. CASE unset' = unset \union {call[t].token} /\ UNCHANGED token
    <3>2. TokensMade'
      BY <1>0, <1>3, <1>i, <2>4 DEF TokensMade
    <3>3. OverwrittenLater'
      BY <1>0, <1>3, <1>i, <2>4 DEF OverwrittenLater
    <3>4. Explained'
      BY <1>0, <1>3, <1>i, <2>4 DEF Explained, Overlap
    <3> QED
      BY <2>1, <3>2, <3>3, <3>4 DEF TokenInv
  <2> QED
    BY <1>3, <2>3, <2>4
<1>4. ASSUME NEW t \in Threads,
             call[t].at = "reply", call'[t].at = "none", ended' = ended \union {call[t].token},
             \/ got' = [got EXCEPT ![call[t].user] = call[t].token] /\ UNCHANGED lost
             \/ lost' = lost \union {call[t].token} /\ UNCHANGED got,
             UNCHANGED <<token, calls, unset, before>>,
             \A s \in Threads \ {t} : call'[s] = call[s]
      PROVE  TokenInv'
  <2>1. CallsApart'
    BY <1>0, <1>4, <1>i DEF CallsApart
  <2>2. call[t].token \in Tokens /\ call[t].token \notin ended /\ call[t].user \in Users
        /\ \A n \in Tokens : call[t].token \notin before[n]
    BY <1>0, <1>4, <1>i DEF CallsApart
  <2>3. \A u \in Users : token[u] = call[t].token => u = call[t].user
    <3> SUFFICES ASSUME NEW u \in Users, token[u] = call[t].token
                 PROVE  u = call[t].user
      OBVIOUS
    <3>1. PICK s \in Threads : call[s].at = "reply" /\ call[s].user = u /\ call[s].token = token[u]
      BY <1>0, <1>i, <2>2 DEF TokensMade
    <3> QED
      BY <1>4, <1>i, <3>1 DEF CallsApart
  <2>4. OverwrittenLater'
    BY <1>0, <1>4, <1>i DEF OverwrittenLater
  <2>5. CASE got' = [got EXCEPT ![call[t].user] = call[t].token] /\ UNCHANGED lost
    <3>1. got'[call[t].user] = call[t].token
          /\ \A u \in Users \ {call[t].user} : got'[u] = got[u]
      BY <1>0, <2>2, <2>5
    <3>2. TokensMade'
      BY <1>0, <1>4, <1>i, <3>1 DEF TokensMade
    <3>3. Explained'
      <4> SUFFICES ASSUME NEW u \in Users, got'[u] # None, got'[u] # token[u], got'[u] \notin unset
                   PROVE  /\ token[u] # None
                          /\ \/ token[u] \notin ended' \/ token[u] \in lost
                             \/ got'[u] \notin before[token[u]] /\ token[u] \notin before[got'[u]]
        BY <1>4, <2>5 DEF Explained, Overlap
      <4>1. CASE u = call[t].user
        BY <1>0, <1>4, <1>i, <2>2, <3>1, <4>1 DEF OverwrittenLater
      <4>2. CASE u # call[t].user
        BY <1>0, <1>4, <1>i, <2>3, <3>1, <4>2 DEF Explained, Overlap
      <4> QED
        BY <4>1, <4>2
    <3> QED
      BY <2>1, <2>4, <3>2, <3>3 DEF TokenInv
  <2>6. CASE lost' = lost \union {call[t].token} /\ UNCHANGED got
    <3>1. TokensMade'
      BY <1>0, <1>4, <1>i, <2>6 DEF TokensMade
    <3>2. Explained'
      BY <1>0, <1>4, <1>i, <2>6 DEF Explained, Overlap
    <3> QED
      BY <2>1, <2>4, <3>1, <3>2 DEF TokenInv
  <2> QED
    BY <1>4, <2>5, <2>6
<1> QED
  BY <1>1, <1>2, <1>3, <1>4, TokenSteps

(* For any threads and users: the token that a user got last is the one in *)
(* redis, or its SET failed, or the reply of the call that stored a later  *)
(* one was lost, or the two calls overlapped.                              *)
THEOREM TokensWork == Spec => []LastTokenWorks
<1>1. Init => TokenInv
  <2> SUFFICES ASSUME Init PROVE TokenInv
    OBVIOUS
  <2>1. \A t \in Threads : call[t].at = "none"
    BY DEF Init, NoCall, NewCall
  <2> QED
    BY <2>1 DEF Init, TokenInv, CallsApart, TokensMade, OverwrittenLater, Explained
<1>2. Guarded /\ TokenInv => LastTokenWorks
  <2> SUFFICES ASSUME Guarded, TokenInv, NEW u \in Users,
                      \A t \in Threads : call[t].user # u, got[u] # None, got[u] # token[u],
                      got[u] \notin unset
               PROVE  token[u] # None /\ (token[u] \in lost \/ Overlap(got[u], token[u]))
    BY DEF LastTokenWorks
  <2>1. /\ token[u] # None
        /\ token[u] \notin ended \/ token[u] \in lost \/ Overlap(got[u], token[u])
    BY DEF TokenInv, Explained
  <2>2. token[u] \in ended
    BY <2>1 DEF TokenInv, TokensMade
  <2> QED
    BY <2>1, <2>2
<1>3. Spec => []Guarded
  BY Inductive, PTL DEF IndInv
<1> QED
  BY <1>1, <1>2, <1>3, TokenStep, PTL DEF Spec
==============================================================================
