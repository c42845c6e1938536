--------------------------- MODULE AccountProofs ---------------------------
(***************************************************************************)
(* Proofs about the accounts of the gate server: the codes of the verify   *)
(* server are never stored without being mailed and never kept for ever,   *)
(* and an account belongs to somebody who was mailed a code.               *)
(*                                                                         *)
(* The codes are numbered as they are made.  That the numbers stay within  *)
(* the bound is the counting argument CodesCounted; that a number is of    *)
(* one address only is CodesOwned, and it is why a code somebody typed and *)
(* redis has under an address was mailed to that address.                  *)
(***************************************************************************)
EXTENDS Account, FiniteSetTheorems, TLAPS

(* What becomes of a request that is answered: its locals are gone, but    *)
(* for the name and, of a reset_pwd, the email of what was asked.          *)
LEMMA AnsweredIs ==
    ASSUME NEW r \in Request, NEW ok \in BOOLEAN, LocalsOf(r), r.at \notin {"idle", "silent"}
    PROVE  /\ Answered(r, ok) \in Request /\ LocalsOf(Answered(r, ok))
           /\ Answered(r, ok).at = "writing" /\ Answered(r, ok).op = r.op
           /\ Answered(r, ok).name = r.name /\ Answered(r, ok).ok = ok
           /\ r.op = "reset" => Answered(r, ok).email = r.email
<1> DEFINE a == Answered(r, ok)
<1>1. /\ r.at \in Phases /\ r.op \in Ops \union {None} /\ r.email \in Emails \union {None}
      /\ r.name \in Names \union {None}
  BY DEF Request
<1>3. /\ a.at = "writing" /\ a.op = r.op /\ a.name = r.name /\ a.ok = ok
      /\ r.op = "reset" => a.email = r.email
  BY DEF Answered
<1>4. a \in Request
  BY <1>1 DEF Answered, Request, Phases
<1>5. r.op = "reset" => r.name \in Names /\ r.email \in Emails
  BY <1>1 DEF LocalsOf, Phases, VerifyPhases, SqlPhases
<1>6. LocalsOf(a)
  <2> HIDE DEF a
  <2> QED BY <1>3, <1>5 DEF LocalsOf, VerifyPhases
<1> QED BY <1>3, <1>4, <1>6

(* The requests a connection can bring.                                    *)
LEMMA BlankIs == Blank \in Request /\ LocalsOf(Blank) /\ Blank.at = "idle"
  BY DEF Blank, Request, Phases, LocalsOf, VerifyPhases

(* A request for a code has its types and the locals of its phase.         *)
LEMMA CodeRequest ==
    ASSUME NEW e \in Emails, NEW r, r = [Blank EXCEPT !.at = "get", !.op = "code", !.email = e]
    PROVE  r \in Request /\ LocalsOf(r) /\ r.at = "get"
<1>1. r \in Request /\ r.at = "get" /\ r.op = "code" /\ r.email = e
  BY DEF Blank, Request, Phases, VerifyPhases, Ops
<1> QED BY <1>1 DEF LocalsOf, VerifyPhases

(* So has a login.                                                         *)
LEMMA LoginRequest ==
    ASSUME NEW e \in Emails, NEW p \in Pwds, NEW r,
           r = [Blank EXCEPT !.at = "pwd", !.op = "login", !.email = e, !.pwd = p]
    PROVE  r \in Request /\ LocalsOf(r) /\ r.at = "pwd"
<1>1. r \in Request /\ r.at = "pwd" /\ r.op = "login" /\ r.email = e /\ r.pwd = p
  BY DEF Blank, Request, Phases, SqlPhases, Ops
<1> QED BY <1>1 DEF LocalsOf, VerifyPhases

(* So has a request of another kind.                                       *)
LEMMA OtherRequest ==
    ASSUME NEW r, r = [Blank EXCEPT !.at = "silent", !.op = "other"]
    PROVE  r \in Request /\ LocalsOf(r) /\ r.at = "silent"
<1>1. r \in Request /\ r.at = "silent"
  BY DEF Blank, Request, Phases, Ops
<1> QED BY <1>1 DEF LocalsOf, VerifyPhases

(* So has a registration or a reset.                                       *)
LEMMA AccountRequest ==
    ASSUME NEW o \in {"register", "reset"}, NEW e \in Emails, NEW n \in Names, NEW p \in Pwds,
           NEW c \in Codes \union {None}, NEW r,
           r = [at |-> "verify", op |-> o, email |-> e, name |-> n, pwd |-> p, code |-> c, ok |-> FALSE]
    PROVE  r \in Request /\ LocalsOf(r) /\ r.at = "verify" /\ r.code = c
  BY DEF Request, Phases, Ops, LocalsOf, VerifyPhases

(* What a call of a handler makes of the requests: only the one of its     *)
(* connection changes.                                                     *)
Turns(h, r) == r \in Request /\ LocalsOf(r) /\ req' = [req EXCEPT ![h] = r]

(* Answering leaves every other connection's request alone.                *)
LEMMA AnswerTurns ==
    ASSUME req \in [Conns -> Request], Locals, NEW h \in Conns, NEW ok \in BOOLEAN,
           req[h].at \notin {"idle", "silent"}, Answer(h, ok)
    PROVE  Turns(h, Answered(req[h], ok))
  BY AnsweredIs DEF Answer, Turns, Locals

(* So does a move to the next phase.                                       *)
LEMMA GotoTurns ==
    ASSUME req \in [Conns -> Request], NEW h \in Conns, NEW phase \in Phases, Goto(h, phase)
    PROVE  \E r \in Request :
              /\ req' = [req EXCEPT ![h] = r] /\ r.at = phase
              /\ r.op = req[h].op /\ r.email = req[h].email /\ r.name = req[h].name
              /\ r.pwd = req[h].pwd /\ r.code = req[h].code
<1> DEFINE r == [req[h] EXCEPT !.at = phase]
<1>1. r \in Request /\ req' = [req EXCEPT ![h] = r]
  BY DEF Goto, Request
<1>2. /\ r.at = phase
      /\ r.op = req[h].op /\ r.email = req[h].email /\ r.name = req[h].name
      /\ r.pwd = req[h].pwd /\ r.code = req[h].code
  BY DEF Request
<1> QED BY <1>1, <1>2

(* So does making a code.                                                  *)
LEMMA NewCodeTurns ==
    ASSUME req \in [Conns -> Request], NEW h \in Conns, issued + 1 \in Codes, NewCode(h)
    PROVE  \E r \in Request :
              /\ req' = [req EXCEPT ![h] = r] /\ r.at = "set" /\ r.code = issued + 1
              /\ r.op = req[h].op /\ r.email = req[h].email /\ r.name = req[h].name
<1> DEFINE r == [req[h] EXCEPT !.at = "set", !.code = issued + 1]
<1>1. req' = [req EXCEPT ![h] = r]
  BY DEF NewCode
<1>2. r \in Request
  BY DEF Request, Phases, VerifyPhases
<1>3. /\ r.at = "set" /\ r.code = issued + 1
      /\ r.op = req[h].op /\ r.email = req[h].email /\ r.name = req[h].name
  BY DEF Request
<1> QED BY <1>1, <1>2, <1>3

(* The steps of a connection, by what they do with the codes.              *)
Brought(h, r) ==
    /\ req[h].at = "idle" /\ r.at \in {"get", "verify", "pwd", "silent"}
    /\ r.at = "verify" => r.code \in Typed
    /\ reqs < MaxReqs /\ reqs' = reqs + 1
    /\ UNCHANGED <<code, ttl, mail, user, leaked, issued, ticks, faults>>
Made(h, r) ==
    /\ req[h].at = "get" /\ r.at = "set" /\ r.code = issued + 1 /\ r.email = req[h].email
    /\ issued' = issued + 1
    /\ \/ faults' = faults
       \/ faults < MaxFaults /\ faults' = faults + 1
    /\ UNCHANGED <<code, ttl, mail, user, leaked, reqs, ticks>>
Found(h, r) ==
    /\ req[h].at = "get" /\ r.at = "mail" /\ r.email = req[h].email
    /\ r.code = code[r.email] /\ r.code # None
    /\ UNCHANGED <<code, ttl, mail, user, leaked, counters>>
Stored(h, r) ==
    /\ req[h].at = "set" /\ r.at = "expire" /\ r.email = req[h].email /\ r.code = req[h].code
    /\ code' = [code EXCEPT ![r.email] = r.code] /\ ttl' = [ttl EXCEPT ![r.email] = Forever]
    /\ UNCHANGED <<mail, user, leaked, counters>>
Expiring(h, r) ==
    /\ req[h].at = "expire" /\ r.at = "mail" /\ r.email = req[h].email /\ r.code = req[h].code
    /\ \E life \in {0, Ttl} : ttl' = [ttl EXCEPT ![r.email] = life]
    /\ UNCHANGED <<code, mail, user, leaked, counters>>
Sent(h, r) ==
    /\ req[h].at = "mail" /\ r.at = "writing" /\ r.op = "code"
    /\ mail' = [mail EXCEPT ![req[h].email] = @ \union {req[h].code}]
    /\ UNCHANGED <<code, ttl, user, leaked, counters>>
Failed(h, r) ==
    /\ req[h].at \notin {"idle", "silent", "get"} /\ r.at = "writing" /\ r.ok = FALSE
    /\ faults < MaxFaults /\ faults' = faults + 1
    /\ UNCHANGED <<code, ttl, mail, user, leaked, issued, reqs, ticks>>

(* The steps of the other handlers, by what they do with the accounts.     *)
Ended(h, r) ==
    /\ req[h].at \in {"writing", "silent", "verify", "reg", "check", "pwd", "status"}
    /\ r.at \in {"idle", "writing", "status"}
    /\ r.at = "writing" /\ r.op = "reset" => r.ok = FALSE
    /\ UNCHANGED <<user, leaked>>
Verified(h, r) ==
    /\ req[h].at = "verify" /\ r.at \in {"reg", "check"} /\ r.email = req[h].email
    /\ code[r.email] # None /\ code[r.email] = req[h].code
    /\ UNCHANGED <<user, leaked>>
Registered(h, r) ==
    /\ req[h].at = "reg" /\ r.at = "writing" /\ r.op = "register"
    /\ user[req[h].name] = None
    /\ user' = [user EXCEPT ![req[h].name] = [email |-> req[h].email, pwd |-> req[h].pwd]]
    /\ UNCHANGED leaked
Checked(h, r) ==
    /\ req[h].at = "check" /\ r.at = "update" /\ r.email = req[h].email /\ r.name = req[h].name
    /\ \/ leaked < PoolSize /\ leaked' = leaked + 1
       \/ user[r.name] # None /\ user[r.name].email = r.email /\ UNCHANGED leaked
    /\ UNCHANGED user
Updated(h, r) ==
    /\ req[h].at = "update" /\ req[h].op = "reset"
    /\ r.at = "writing" /\ r.email = req[h].email /\ r.name = req[h].name
    /\ user' = IF user[r.name] = None THEN user ELSE [user EXCEPT ![r.name].pwd = req[h].pwd]
    /\ UNCHANGED leaked
Served(h, r) ==
    /\ UNCHANGED <<code, ttl, mail, counters>>
    /\ Ended(h, r) \/ Verified(h, r) \/ Registered(h, r) \/ Checked(h, r) \/ Updated(h, r)

Step(h, r) ==
    \/ Brought(h, r) \/ Made(h, r) \/ Found(h, r) \/ Stored(h, r) \/ Expiring(h, r)
    \/ Sent(h, r) \/ Failed(h, r) \/ Served(h, r)

(* There is a number left for the code that a call of get_verify_code      *)
(* makes: it is one of the requests that have made none yet.               *)
LEMMA RoomForCode ==
    ASSUME TypeOK, CodesCounted, NEW h \in Conns, req[h].at = "get"
    PROVE  issued + 1 \in Codes /\ issued + 1 <= reqs
<1>1. h \in Getting
  BY DEF Getting
<1>2. Cardinality(Getting) \in Nat /\ Cardinality(Getting) # 0
  <2>1. IsFiniteSet(Getting) /\ Getting # {}
    BY <1>1 DEF CodesCounted
  <2> QED BY <2>1, FS_CardinalityType, FS_EmptySet
<1>3. issued \in Nat /\ reqs \in Nat /\ reqs <= MaxReqs /\ MaxReqs \in Nat
  BY AccountAssumption DEF TypeOK
<1> QED BY <1>2, <1>3 DEF CodesCounted, Codes

(* What the connections do is one of the steps above.                      *)
LEMMA Steps ==
    ASSUME TypeOK, Locals, CodesCounted, NEW h \in Conns,
           \/ ReceiveCode(h) \/ ReceiveAccount(h) \/ ReceiveLogin(h) \/ ReceiveOther(h)
           \/ HandlerStep(h) \/ Written(h) \/ Deadline(h)
    PROVE  \E r : Turns(h, r) /\ Step(h, r)
<1>0. req \in [Conns -> Request] /\ req[h] \in Request /\ LocalsOf(req[h])
  BY DEF TypeOK, Locals
<1>t. Typed \subseteq Codes \union {None}
  <2>1. \A e \in Emails : mail[e] \subseteq Codes
    BY DEF TypeOK
  <2>2. \A c \in UNION {mail[e] : e \in Emails} : \E e \in Emails : c \in mail[e]
    OBVIOUS
  <2>3. UNION {mail[e] : e \in Emails} \subseteq Codes
    BY <2>1, <2>2
  <2> QED BY <2>3, Zenon DEF Typed
<1>1. CASE ReceiveCode(h)
  <2>1. PICK e \in Emails : Receive(h, [Blank EXCEPT !.at = "get", !.op = "code", !.email = e])
    BY <1>1 DEF ReceiveCode
  <2> DEFINE r == [Blank EXCEPT !.at = "get", !.op = "code", !.email = e]
  <2>2. r \in Request /\ LocalsOf(r) /\ r.at = "get"
    BY CodeRequest
  <2> HIDE DEF r
  <2>3. Turns(h, r) /\ Brought(h, r)
    BY <2>1, <2>2 DEF r, Receive, Turns, Brought, redis
  <2> QED BY <2>3 DEF Step
<1>2. CASE ReceiveAccount(h)
  <2>1. PICK o \in {"register", "reset"}, e \in Emails, n \in Names, p \in Pwds, c \in Typed :
           Receive(h, [at |-> "verify", op |-> o, email |-> e, name |-> n, pwd |-> p, code |-> c, ok |-> FALSE])
    BY <1>2 DEF ReceiveAccount
  <2> DEFINE r == [at |-> "verify", op |-> o, email |-> e, name |-> n, pwd |-> p, code |-> c, ok |-> FALSE]
  <2>2. r \in Request /\ LocalsOf(r) /\ r.at = "verify" /\ r.code = c
    BY AccountRequest, <1>t
  <2> HIDE DEF r
  <2>3. Turns(h, r) /\ Brought(h, r)
    BY <2>1, <2>2 DEF r, Receive, Turns, Brought, redis
  <2> QED BY <2>3 DEF Step
<1>3. CASE ReceiveLogin(h)
  <2>1. PICK e \in Emails, p \in Pwds :
           Receive(h, [Blank EXCEPT !.at = "pwd", !.op = "login", !.email = e, !.pwd = p])
    BY <1>3 DEF ReceiveLogin
  <2> DEFINE r == [Blank EXCEPT !.at = "pwd", !.op = "login", !.email = e, !.pwd = p]
  <2>2. r \in Request /\ LocalsOf(r) /\ r.at = "pwd"
    BY LoginRequest
  <2> HIDE DEF r
  <2>3. Turns(h, r) /\ Brought(h, r)
    BY <2>1, <2>2 DEF r, Receive, Turns, Brought, redis
  <2> QED BY <2>3 DEF Step
<1>4. CASE ReceiveOther(h)
  <2> DEFINE r == [Blank EXCEPT !.at = "silent", !.op = "other"]
  <2>2. r \in Request /\ LocalsOf(r) /\ r.at = "silent"
    BY OtherRequest
  <2> HIDE DEF r
  <2>3. Turns(h, r) /\ Brought(h, r)
    BY <1>4, <2>2 DEF ReceiveOther, r, Receive, Turns, Brought, redis
  <2> QED BY <2>3 DEF Step
<1>5. CASE GetRedis(h) \/ GetRedisFails(h)
  <2>1. req[h].at = "get" /\ req[h].op = "code" /\ req[h].email \in Emails
    BY <1>0, <1>5 DEF GetRedis, GetRedisFails, LocalsOf, VerifyPhases
  <2>2. CASE NewCode(h)
    <3>1. issued + 1 \in Codes
      BY <2>1, RoomForCode
    <3>2. PICK r \in Request :
              /\ req' = [req EXCEPT ![h] = r] /\ r.at = "set" /\ r.code = issued + 1
              /\ r.op = req[h].op /\ r.email = req[h].email /\ r.name = req[h].name
      BY <1>0, <2>2, <3>1, NewCodeTurns
    <3>3. LocalsOf(r)
      BY <2>1, <3>1, <3>2 DEF LocalsOf, VerifyPhases
    <3>4. Made(h, r)
      BY <1>5, <2>1, <2>2, <3>2 DEF Made, GetRedis, GetRedisFails, NewCode, redis
    <3> QED BY <3>2, <3>3, <3>4 DEF Turns, Step
  <2>3. CASE ~NewCode(h)
    <3>1. /\ code[req[h].email] # None
          /\ req' = [req EXCEPT ![h].at = "mail", ![h].code = code[req[h].email]]
          /\ UNCHANGED <<code, ttl, mail, user, leaked, counters>>
      BY <1>5, <2>3 DEF GetRedis, GetRedisFails, redis, counters
    <3> DEFINE r == [req[h] EXCEPT !.at = "mail", !.code = code[req[h].email]]
    <3>2. code[req[h].email] \in Codes
      BY <2>1, <3>1 DEF TypeOK
    <3>3. r \in Request
      BY <1>0, <3>2 DEF Request, Phases, VerifyPhases
    <3>4. r.at = "mail" /\ r.code = code[req[h].email] /\ r.op = req[h].op /\ r.email = req[h].email
      BY <1>0 DEF Request
    <3>5. req' = [req EXCEPT ![h] = r]
      BY <1>0, <3>1
    <3> HIDE DEF r
    <3>6. LocalsOf(r)
      BY <2>1, <3>2, <3>4 DEF LocalsOf, VerifyPhases
    <3>7. Found(h, r)
      BY <2>1, <3>1, <3>4 DEF Found
    <3> QED BY <3>3, <3>5, <3>6, <3>7 DEF Turns, Step
  <2> QED BY <2>2, <2>3
<1>6. CASE SetRedis(h)
  <2>1. /\ req[h].at = "set" /\ req[h].op = "code" /\ req[h].email \in Emails /\ req[h].code \in Codes
        /\ "expire" \in Phases
    BY <1>0, <1>6 DEF SetRedis, LocalsOf, VerifyPhases, Phases
  <2>2. PICK r \in Request :
              /\ req' = [req EXCEPT ![h] = r] /\ r.at = "expire"
              /\ r.op = req[h].op /\ r.email = req[h].email /\ r.name = req[h].name
              /\ r.pwd = req[h].pwd /\ r.code = req[h].code
    BY <1>0, <1>6, <2>1, GotoTurns DEF SetRedis
  <2>3. LocalsOf(r)
    BY <2>1, <2>2 DEF LocalsOf, VerifyPhases
  <2>4. Stored(h, r)
    BY <1>6, <2>1, <2>2 DEF SetRedis, Stored
  <2> QED BY <2>2, <2>3, <2>4 DEF Turns, Step
<1>7. CASE ExpireRedis(h)
  <2>1. /\ req[h].at = "expire" /\ req[h].op = "code" /\ req[h].email \in Emails /\ req[h].code \in Codes
        /\ "mail" \in Phases
    BY <1>0, <1>7 DEF ExpireRedis, LocalsOf, VerifyPhases, Phases
  <2>2. PICK r \in Request :
              /\ req' = [req EXCEPT ![h] = r] /\ r.at = "mail"
              /\ r.op = req[h].op /\ r.email = req[h].email /\ r.name = req[h].name
              /\ r.pwd = req[h].pwd /\ r.code = req[h].code
    BY <1>0, <1>7, <2>1, GotoTurns DEF ExpireRedis
  <2>3. LocalsOf(r)
    BY <2>1, <2>2 DEF LocalsOf, VerifyPhases
  <2>4. Expiring(h, r)
    BY <1>7, <2>1, <2>2 DEF ExpireRedis, Expiring
  <2> QED BY <2>2, <2>3, <2>4 DEF Turns, Step
<1>8. CASE SendMail(h)
  <2>1. req[h].at = "mail" /\ req[h].op = "code"
    BY <1>0, <1>8 DEF SendMail, LocalsOf, VerifyPhases
  <2> DEFINE r == Answered(req[h], TRUE)
  <2>2. Turns(h, r)
    BY <1>0, <1>8, <2>1, AnswerTurns DEF SendMail
  <2>3. r.at = "writing" /\ r.op = "code"
    BY <1>0, <2>1, AnsweredIs
  <2> HIDE DEF r
  <2>4. Sent(h, r)
    BY <1>8, <2>1, <2>3 DEF SendMail, Sent, redis
  <2> QED BY <2>2, <2>4 DEF Step
<1>9. CASE CallFails(h)
  <2>1. req[h].at \notin {"idle", "silent", "get"}
    BY <1>9 DEF CallFails, SqlPhases
  <2> DEFINE r == Answered(req[h], FALSE)
  <2>2. Turns(h, r)
    BY <1>0, <1>9, <2>1, AnswerTurns DEF CallFails
  <2>3. r.at = "writing" /\ r.ok = FALSE
    BY <1>0, <2>1, AnsweredIs
  <2> HIDE DEF r
  <2>4. Failed(h, r)
    BY <1>9, <2>1, <2>3 DEF CallFails, Failed, redis
  <2> QED BY <2>2, <2>4 DEF Step
<1>10. CASE CheckCode(h)
  <2>1. /\ req[h].at = "verify" /\ req[h].op \in {"register", "reset"} /\ req[h].email \in Emails
        /\ req[h].name \in Names /\ req[h].pwd \in Pwds
    BY <1>0, <1>10 DEF CheckCode, LocalsOf, VerifyPhases
  <2>2. UNCHANGED <<code, ttl, mail, user, leaked, counters>>
    BY <1>10 DEF CheckCode, redis
  <2>3. CASE Answer(h, FALSE)
    <3> DEFINE r == Answered(req[h], FALSE)
    <3>1. Turns(h, r) /\ r.at = "writing" /\ r.ok = FALSE
      BY <1>0, <2>1, <2>3, AnswerTurns, AnsweredIs
    <3> HIDE DEF r
    <3>2. Served(h, r)
      BY <2>1, <2>2, <3>1 DEF Served, Ended
    <3> QED BY <3>1, <3>2 DEF Step
  <2>4. CASE ~Answer(h, FALSE)
    <3> DEFINE phase == IF req[h].op = "register" THEN "reg" ELSE "check"
    <3>1. Goto(h, phase) /\ code[req[h].email] # None /\ code[req[h].email] = req[h].code
      BY <1>10, <2>4 DEF CheckCode
    <3>2. phase \in Phases /\ phase \in {"reg", "check"}
      BY DEF Phases, SqlPhases
    <3>3. (phase = "reg" /\ req[h].op = "register") \/ (phase = "check" /\ req[h].op = "reset")
      BY <2>1
    <3> HIDE DEF phase
    <3>4. PICK r \in Request :
              /\ req' = [req EXCEPT ![h] = r] /\ r.at = phase
              /\ r.op = req[h].op /\ r.email = req[h].email /\ r.name = req[h].name
              /\ r.pwd = req[h].pwd /\ r.code = req[h].code
      BY <1>0, <3>1, <3>2, GotoTurns
    <3>5. LocalsOf(r)
      BY <2>1, <3>3, <3>4 DEF LocalsOf, VerifyPhases
    <3>6. Served(h, r)
      BY <2>1, <2>2, <3>1, <3>2, <3>4 DEF Served, Verified
    <3> QED BY <3>4, <3>5, <3>6 DEF Turns, Step
  <2> QED BY <2>3, <2>4
<1>11. CASE RegUser(h)
  <2>1. req[h].at = "reg" /\ req[h].op = "register" /\ req[h].name \in Names
    BY <1>0, <1>11 DEF RegUser, LocalsOf, VerifyPhases
  <2>2. UNCHANGED <<code, ttl, mail, leaked, counters>>
    BY <1>11 DEF RegUser, redis
  <2>3. PICK ok \in BOOLEAN : Answer(h, ok)
    BY <1>11 DEF RegUser
  <2> DEFINE r == Answered(req[h], ok)
  <2>4. Turns(h, r) /\ r.at = "writing" /\ r.op = "register"
    BY <1>0, <2>1, <2>3, AnswerTurns, AnsweredIs
  <2> HIDE DEF r
  <2>5. Ended(h, r) \/ Registered(h, r)
    BY <1>11, <2>1, <2>2, <2>4 DEF RegUser, Ended, Registered
  <2> QED BY <2>2, <2>4, <2>5 DEF Step, Served
<1>12. CASE CheckEmail(h)
  <2>1. /\ req[h].at = "check" /\ req[h].op = "reset" /\ req[h].email \in Emails
        /\ req[h].name \in Names /\ req[h].pwd \in Pwds /\ "update" \in Phases
    BY <1>0, <1>12 DEF CheckEmail, LocalsOf, VerifyPhases, Phases, SqlPhases
  <2>2. UNCHANGED <<code, ttl, mail, user, counters>> /\ leaked < PoolSize
    BY <1>12 DEF CheckEmail, redis, Connected
  <2>3. CASE Answer(h, FALSE) /\ UNCHANGED leaked
    <3> DEFINE r == Answered(req[h], FALSE)
    <3>1. Turns(h, r) /\ r.at = "writing" /\ r.ok = FALSE
      BY <1>0, <2>1, <2>3, AnswerTurns, AnsweredIs
    <3> HIDE DEF r
    <3>2. Served(h, r)
      BY <2>1, <2>2, <2>3, <3>1 DEF Served, Ended
    <3> QED BY <3>1, <3>2 DEF Step
  <2>4. CASE /\ Goto(h, "update")
             /\ \/ leaked' = leaked + 1
                \/ /\ user[req[h].name] # None /\ user[req[h].name].email = req[h].email
                   /\ UNCHANGED leaked
    <3>4. PICK r \in Request :
              /\ req' = [req EXCEPT ![h] = r] /\ r.at = "update"
              /\ r.op = req[h].op /\ r.email = req[h].email /\ r.name = req[h].name
              /\ r.pwd = req[h].pwd /\ r.code = req[h].code
      BY <1>0, <2>1, <2>4, GotoTurns
    <3>5. LocalsOf(r)
      BY <2>1, <3>4 DEF LocalsOf, VerifyPhases
    <3>6. Served(h, r)
      BY <2>1, <2>2, <2>4, <3>4 DEF Served, Checked
    <3> QED BY <3>4, <3>5, <3>6 DEF Turns, Step
  <2> QED BY <1>12, <2>3, <2>4 DEF CheckEmail
<1>13. CASE UpdatePwd(h)
  <2>1. req[h].at = "update" /\ req[h].op = "reset" /\ req[h].name \in Names
    BY <1>0, <1>13 DEF UpdatePwd, LocalsOf, VerifyPhases
  <2> DEFINE r == Answered(req[h], TRUE)
  <2>2. Turns(h, r) /\ r.at = "writing" /\ r.name = req[h].name /\ r.email = req[h].email
    BY <1>0, <1>13, <2>1, AnswerTurns, AnsweredIs DEF UpdatePwd
  <2> HIDE DEF r
  <2>3. Served(h, r)
    BY <1>13, <2>1, <2>2 DEF UpdatePwd, Served, Updated, redis
  <2> QED BY <2>2, <2>3 DEF Step
<1>14. CASE CheckPwd(h)
  <2>1. req[h].at = "pwd" /\ req[h].op = "login" /\ "status" \in Phases
    BY <1>0, <1>14 DEF CheckPwd, LocalsOf, VerifyPhases, Phases
  <2>2. UNCHANGED <<code, ttl, mail, user, leaked, counters>>
    BY <1>14 DEF CheckPwd, redis
  <2>3. CASE Answer(h, FALSE)
    <3> DEFINE r == Answered(req[h], FALSE)
    <3>1. Turns(h, r) /\ r.at = "writing" /\ r.ok = FALSE
      BY <1>0, <2>1, <2>3, AnswerTurns, AnsweredIs
    <3> HIDE DEF r
    <3>2. Served(h, r)
      BY <2>1, <2>2, <3>1 DEF Served, Ended
    <3> QED BY <3>1, <3>2 DEF Step
  <2>4. CASE Goto(h, "status")
    <3>4. PICK r \in Request :
              /\ req' = [req EXCEPT ![h] = r] /\ r.at = "status"
              /\ r.op = req[h].op /\ r.email = req[h].email /\ r.name = req[h].name
              /\ r.pwd = req[h].pwd /\ r.code = req[h].code
      BY <1>0, <2>1, <2>4, GotoTurns
    <3>5. LocalsOf(r)
      BY <2>1, <3>4 DEF LocalsOf, VerifyPhases
    <3>6. Served(h, r)
      BY <2>1, <2>2, <3>4 DEF Served, Ended
    <3> QED BY <3>4, <3>5, <3>6 DEF Turns, Step
  <2> QED BY <1>14, <2>3, <2>4 DEF CheckPwd
<1>15. CASE GetChatServer(h)
  <2>1. req[h].at = "status" /\ req[h].op = "login"
    BY <1>0, <1>15 DEF GetChatServer, LocalsOf
  <2> DEFINE r == Answered(req[h], TRUE)
  <2>2. Turns(h, r) /\ r.at = "writing" /\ r.op = "login"
    BY <1>0, <1>15, <2>1, AnswerTurns, AnsweredIs DEF GetChatServer
  <2> HIDE DEF r
  <2>3. Served(h, r)
    BY <1>15, <2>1, <2>2 DEF GetChatServer, Served, Ended, redis
  <2> QED BY <2>2, <2>3 DEF Step
<1>16. CASE Written(h) \/ Deadline(h)
  <2>1. Turns(h, Blank) /\ req[h].at \in {"writing", "silent"}
    BY <1>16, BlankIs DEF Turns, Written, Deadline
  <2>2. Served(h, Blank)
    BY <1>16, <2>1, BlankIs DEF Written, Deadline, Served, Ended, redis
  <2> QED BY <2>1, <2>2 DEF Step
<1> QED
  BY <1>1, <1>2, <1>3, <1>4, <1>5, <1>6, <1>7, <1>8, <1>9, <1>10, <1>11, <1>12,
     <1>13, <1>14, <1>15, <1>16 DEF HandlerStep

(* The calls of get_verify_code that have no code yet, when the request of *)
(* one connection changes.                                                 *)
LEMMA GettingTurns ==
    ASSUME req \in [Conns -> Request], NEW h \in Conns, NEW r, Turns(h, r), IsFiniteSet(Getting)
    PROVE  /\ IsFiniteSet(Getting')
           /\ Cardinality(Getting) \in Nat /\ Cardinality(Getting') \in Nat
           /\ (req[h].at = "get" <=> r.at = "get") => Cardinality(Getting') = Cardinality(Getting)
           /\ req[h].at # "get" /\ r.at = "get" => Cardinality(Getting') = Cardinality(Getting) + 1
           /\ req[h].at = "get" /\ r.at # "get" => Cardinality(Getting') = Cardinality(Getting) - 1
<1>0. \A g \in Conns : req'[g] = IF g = h THEN r ELSE req[g]
  BY DEF Turns
<1>1. CASE r.at = "get"
  <2>1. Getting' = Getting \union {h}
    BY <1>0, <1>1 DEF Getting
  <2>2. h \in Getting <=> req[h].at = "get"
    BY DEF Getting
  <2>3. /\ IsFiniteSet(Getting')
        /\ Cardinality(Getting') = IF h \in Getting THEN Cardinality(Getting) ELSE Cardinality(Getting) + 1
    BY <2>1, FS_AddElement
  <2> QED BY <1>1, <2>2, <2>3, FS_CardinalityType
<1>2. CASE r.at # "get"
  <2>1. Getting' = Getting \ {h}
    BY <1>0, <1>2 DEF Getting
  <2>2. h \in Getting <=> req[h].at = "get"
    BY DEF Getting
  <2>3. /\ IsFiniteSet(Getting')
        /\ Cardinality(Getting') = IF h \in Getting THEN Cardinality(Getting) - 1 ELSE Cardinality(Getting)
    BY <2>1, FS_RemoveElement
  <2> QED BY <1>2, <2>2, <2>3, FS_CardinalityType
<1> QED BY <1>1, <1>2

(* The counting argument: a step takes a number for a code only when the   *)
(* call that takes it leaves Getting.                                      *)
LEMMA CountedStep ==
    ASSUME TypeOK, CodesCounted, NEW h \in Conns, NEW r, Turns(h, r), Step(h, r)
    PROVE  CodesCounted'
<1> DEFINE n == Cardinality(Getting)
<1>1. /\ IsFiniteSet(Getting') /\ n \in Nat /\ n' \in Nat
      /\ (req[h].at = "get" <=> r.at = "get") => n' = n
      /\ req[h].at # "get" /\ r.at = "get" => n' = n + 1
      /\ req[h].at = "get" /\ r.at # "get" => n' = n - 1
  BY GettingTurns DEF TypeOK, CodesCounted
<1>2. issued \in Nat /\ reqs \in Nat /\ issued + n <= reqs
  BY DEF TypeOK, CodesCounted
<1>3. SUFFICES issued' + n' <= reqs'
  BY <1>1 DEF CodesCounted
<1> HIDE DEF n
<1>4. CASE Brought(h, r)
  <2>1. issued' = issued /\ reqs' = reqs + 1 /\ req[h].at # "get"
    BY <1>4 DEF Brought
  <2>2. n' = n \/ n' = n + 1
    BY <1>1, <2>1
  <2>3. n \in Nat /\ n' \in Nat
    BY <1>1
  <2>4. \A i, k, m, q \in Nat : i + k <= q /\ (m = k \/ m = k + 1) => i + m <= q + 1
    OBVIOUS
  <2>5. issued + n' <= reqs + 1
    BY <1>2, <2>2, <2>3, <2>4
  <2> QED BY <2>1, <2>5
<1>5. CASE Made(h, r)
  BY <1>1, <1>2, <1>5 DEF Made
<1>6. CASE Found(h, r)
  BY <1>1, <1>2, <1>6 DEF Found, counters
<1>7. CASE Stored(h, r) \/ Expiring(h, r) \/ Sent(h, r) \/ Failed(h, r)
  BY <1>1, <1>2, <1>7 DEF Stored, Expiring, Sent, Failed, counters
<1>8. CASE Served(h, r)
  <2>1. req[h].at # "get" /\ r.at # "get"
    BY <1>8 DEF Served, Ended, Verified, Registered, Checked, Updated
  <2> QED BY <1>1, <1>2, <1>8, <2>1 DEF Served, counters
<1> QED BY <1>4, <1>5, <1>6, <1>7, <1>8 DEF Step

(* Types and the locals.                                                   *)
LEMMA TypeStep ==
    ASSUME TypeOK, Locals, CodesCounted, NEW h \in Conns, NEW r, Turns(h, r), Step(h, r)
    PROVE  TypeOK' /\ Locals'
<1>1. req' \in [Conns -> Request] /\ Locals'
  BY DEF Turns, TypeOK, Locals
<1>2. r \in Request /\ LocalsOf(r) /\ req[h] \in Request /\ LocalsOf(req[h])
  BY DEF Turns, TypeOK, Locals
<1>3. {Ttl, PoolSize} \subseteq Nat \ {0} /\ {MaxReqs, MaxTicks, MaxFaults} \subseteq Nat
  BY AccountAssumption
<1>4. CASE Brought(h, r)
  BY <1>1, <1>3, <1>4 DEF Brought, TypeOK
<1>5. CASE Made(h, r)
  <2>1. issued' \in 0..MaxReqs
    BY <1>3, <1>5, RoomForCode DEF Made, Codes, TypeOK
  <2> QED BY <1>1, <1>3, <1>5, <2>1 DEF Made, TypeOK
<1>6. CASE Found(h, r)
  BY <1>1, <1>6 DEF Found, counters, TypeOK
<1>7. CASE Stored(h, r)
  <2>1. r.email \in Emails /\ r.code \in Codes /\ Forever \in Forever..Ttl
    BY <1>2, <1>3, <1>7 DEF Stored, LocalsOf, VerifyPhases, Forever
  <2> QED BY <1>1, <1>7, <2>1 DEF Stored, counters, TypeOK
<1>8. CASE Expiring(h, r)
  <2>1. \A life \in {0, Ttl} : life \in Forever..Ttl
    BY <1>3 DEF Forever
  <2> QED BY <1>1, <1>8, <2>1 DEF Expiring, counters, TypeOK
<1>9. CASE Sent(h, r)
  <2>1. req[h].email \in Emails /\ req[h].code \in Codes
    BY <1>2, <1>9 DEF Sent, LocalsOf, VerifyPhases
  <2>2. mail' \in [Emails -> SUBSET Codes]
    BY <1>9, <2>1 DEF Sent, TypeOK
  <2> QED BY <1>1, <1>9, <2>2 DEF Sent, counters, TypeOK
<1>10. CASE Failed(h, r)
  BY <1>1, <1>3, <1>10 DEF Failed, TypeOK
<1>11. CASE Served(h, r)
  <2>1. UNCHANGED <<code, ttl, mail, issued, reqs, ticks, faults>>
    BY <1>11 DEF Served, counters
  <2>2. CASE Ended(h, r) \/ Verified(h, r)
    BY <1>1, <2>1, <2>2 DEF Ended, Verified, TypeOK
  <2>3. CASE Registered(h, r)
    <3>1. req[h].email \in Emails /\ req[h].pwd \in Pwds /\ req[h].name \in Names
      BY <1>2, <2>3 DEF Registered, LocalsOf
    <3>2. user' \in [Names -> [email : Emails, pwd : Pwds] \union {None}]
      BY <2>3, <3>1 DEF Registered, TypeOK
    <3> QED BY <1>1, <2>1, <2>3, <3>2 DEF Registered, TypeOK
  <2>4. CASE Checked(h, r)
    BY <1>1, <1>3, <2>1, <2>4 DEF Checked, TypeOK
  <2>5. CASE Updated(h, r)
    <3>1. req[h].pwd \in Pwds /\ req[h].name \in Names
      BY <1>2, <2>5 DEF Updated, LocalsOf
    <3>2. user \in [Names -> [email : Emails, pwd : Pwds] \union {None}]
      BY DEF TypeOK
    <3>3. user' \in [Names -> [email : Emails, pwd : Pwds] \union {None}]
      BY <2>5, <3>1, <3>2 DEF Updated
    <3> QED BY <1>1, <2>1, <2>5, <3>3 DEF Updated, TypeOK
  <2> QED BY <1>11, <2>2, <2>3, <2>4, <2>5 DEF Served
<1> QED BY <1>4, <1>5, <1>6, <1>7, <1>8, <1>9, <1>10, <1>11 DEF Step

(* A stored code is mailed, or a call is about to; and it has a life, or a *)
(* call is about to give it one.                                           *)
LEMMA StoredStep ==
    ASSUME TypeOK, Locals, StoredOrMailing, CodesExpire,
           NEW h \in Conns, NEW r, Turns(h, r), Step(h, r)
    PROVE  StoredOrMailing' /\ CodesExpire'
<1>0. \A g \in Conns : req'[g] = IF g = h THEN r ELSE req[g]
  BY DEF Turns, TypeOK
<1>2. r \in Request /\ LocalsOf(r) /\ req[h] \in Request /\ LocalsOf(req[h])
  BY DEF Turns, TypeOK, Locals
<1>3. /\ code \in [Emails -> Codes \union {None}] /\ ttl \in [Emails -> Forever..Ttl]
      /\ mail \in [Emails -> SUBSET Codes] /\ faults \in Nat
      /\ Forever # 0 /\ Forever # Ttl
  BY AccountAssumption DEF TypeOK, Forever
<1>4. CASE Brought(h, r) \/ Served(h, r)
  <2>1. req[h].at \notin {"expire", "mail"} /\ UNCHANGED <<code, ttl, mail, faults>>
    BY <1>4 DEF Brought, Served, counters, Ended, Verified, Registered, Checked, Updated
  <2> QED BY <1>0, <2>1 DEF StoredOrMailing, CodesExpire
<1>5. CASE Made(h, r) \/ Found(h, r)
  <2>1. /\ req[h].at \notin {"expire", "mail"} /\ UNCHANGED <<code, ttl, mail>>
        /\ faults' = 0 => faults = 0
    BY <1>3, <1>5 DEF Made, Found, counters
  <2> QED BY <1>0, <2>1 DEF StoredOrMailing, CodesExpire
<1>6. CASE Failed(h, r)
  BY <1>3, <1>6 DEF Failed, StoredOrMailing, CodesExpire
<1>7. CASE Stored(h, r)
  <2>1. /\ r.email \in Emails /\ r.at = "expire" /\ r.code = code'[r.email]
        /\ \A e \in Emails \ {r.email} : code'[e] = code[e] /\ ttl'[e] = ttl[e]
        /\ req[h].email = r.email /\ mail' = mail /\ faults' = faults
    BY <1>2, <1>3, <1>7 DEF Stored, counters, LocalsOf, VerifyPhases
  <2>2. /\ req'[h] = r /\ \A e \in Emails \ {r.email} : req[h].email # e
        /\ \A g \in Conns \ {h} : req'[g] = req[g]
    BY <1>0, <2>1
  <2> QED BY <2>1, <2>2 DEF StoredOrMailing, CodesExpire
<1>8. CASE Expiring(h, r)
  <2>1. /\ r.email \in Emails /\ r.at = "mail" /\ req[h].email = r.email /\ r.code = req[h].code
        /\ UNCHANGED <<code, mail, faults>>
        /\ \A e \in Emails \ {r.email} : ttl'[e] = ttl[e]
        /\ ttl'[r.email] # Forever
    BY <1>2, <1>3, <1>8 DEF Expiring, counters, LocalsOf, VerifyPhases
  <2>2. /\ req'[h] = r /\ \A g \in Conns \ {h} : req'[g] = req[g]
    BY <1>0
  <2>3. StoredOrMailing'
    BY <2>1, <2>2 DEF StoredOrMailing
  <2>4. CodesExpire'
    BY <2>1, <2>2 DEF CodesExpire
  <2> QED BY <2>3, <2>4
<1>9. CASE Sent(h, r)
  <2>1. /\ req[h].email \in Emails /\ req[h].at = "mail" /\ UNCHANGED <<code, ttl, faults>>
        /\ req[h].code \in mail'[req[h].email]
        /\ \A e \in Emails : mail[e] \subseteq mail'[e]
    BY <1>2, <1>3, <1>9 DEF Sent, counters, LocalsOf, VerifyPhases
  <2>2. \A g \in Conns \ {h} : req'[g] = req[g]
    BY <1>0
  <2>3. StoredOrMailing'
    BY <2>1, <2>2 DEF StoredOrMailing
  <2>4. CodesExpire'
    BY <2>1, <2>2 DEF CodesExpire
  <2> QED BY <2>3, <2>4
<1> QED BY <1>4, <1>5, <1>6, <1>7, <1>8, <1>9 DEF Step

(* Time passing keeps the invariant: a code that expires is forgotten.     *)
LEMMA TickStep ==
    ASSUME CodesInv, Tick
    PROVE  CodesInv'
<1>1. TypeOK'
  <2>1. /\ ticks \in Nat /\ ticks < MaxTicks /\ ticks' = ticks + 1 /\ MaxTicks \in Nat
        /\ Ttl \in Nat \ {0} /\ Forever = -1
    BY AccountAssumption DEF Tick, CodesInv, TypeOK, Forever
  <2>2. ticks' \in 0..MaxTicks
    BY <2>1
  <2>3. ttl' \in [Emails -> Forever..Ttl]
    BY <2>1 DEF Tick, CodesInv, TypeOK
  <2>4. code' \in [Emails -> Codes \union {None}]
    BY DEF Tick, CodesInv, TypeOK
  <2> QED BY <2>2, <2>3, <2>4 DEF Tick, CodesInv, TypeOK
<1>2. Locals' /\ CodesCounted'
  BY DEF Tick, CodesInv, Locals, CodesCounted, Getting
<1>3. StoredOrMailing'
  BY DEF Tick, CodesInv, StoredOrMailing, TypeOK
<1>4. CodesExpire'
  <2>1. \A e \in Emails : ttl'[e] = Forever => ttl[e] = Forever
    BY AccountAssumption DEF Tick, CodesInv, TypeOK, Forever
  <2> QED BY <2>1 DEF Tick, CodesInv, CodesExpire
<1> QED BY <1>1, <1>2, <1>3, <1>4 DEF CodesInv

(* A crash of verify_server keeps it: the requests it held fail.           *)
LEMMA CrashStep ==
    ASSUME CodesInv, VerifyCrash
    PROVE  CodesInv'
<1>0. /\ faults \in Nat /\ faults < MaxFaults /\ faults' = faults + 1 /\ MaxFaults \in Nat
      /\ req \in [Conns -> Request]
  BY AccountAssumption DEF VerifyCrash, CodesInv, TypeOK
<1>1. \A h \in Conns : /\ req'[h] \in Request /\ LocalsOf(req'[h]) /\ req'[h].at \notin VerifyPhases
  <2> TAKE h \in Conns
  <2>1. req'[h] = IF req[h].at \in VerifyPhases THEN Answered(req[h], FALSE) ELSE req[h]
    BY DEF VerifyCrash
  <2>2. req[h] \in Request /\ LocalsOf(req[h])
    BY DEF CodesInv, TypeOK, Locals
  <2>3. CASE req[h].at \in VerifyPhases
    <3>1. req[h].at \notin {"idle", "silent"}
      BY <2>3 DEF VerifyPhases
    <3>2. req'[h] \in Request /\ LocalsOf(req'[h]) /\ req'[h].at = "writing"
      BY <2>1, <2>2, <2>3, <3>1, AnsweredIs
    <3> QED BY <3>2 DEF VerifyPhases
  <2>4. CASE req[h].at \notin VerifyPhases
    BY <2>1, <2>2, <2>4
  <2> QED BY <2>3, <2>4
<1>2. TypeOK' /\ Locals'
  <2>1. req' \in [Conns -> Request]
    BY <1>1 DEF VerifyCrash
  <2>2. faults' \in 0..MaxFaults
    BY <1>0
  <2> QED BY <1>1, <2>1, <2>2 DEF VerifyCrash, redis, CodesInv, TypeOK, Locals
<1>3. CodesCounted'
  <2>1. Getting' = {}
    BY <1>1 DEF Getting, VerifyPhases
  <2>2. /\ issued \in Nat /\ reqs \in Nat /\ Cardinality(Getting) \in Nat
        /\ issued + Cardinality(Getting) <= reqs
    BY FS_CardinalityType DEF CodesInv, TypeOK, CodesCounted
  <2>3. issued' + 0 <= reqs'
    BY <2>2 DEF VerifyCrash
  <2> QED BY <2>1, <2>3, FS_EmptySet DEF CodesCounted
<1>4. faults' # 0
  BY <1>0
<1> QED BY <1>2, <1>3, <1>4 DEF CodesInv, StoredOrMailing, CodesExpire

(* Every step keeps the invariant of the codes ...                         *)
LEMMA CodesInvStep == CodesInv /\ [Next]_vars => CodesInv'
<1> SUFFICES ASSUME CodesInv, [Next]_vars PROVE CodesInv'
  OBVIOUS
<1>1. ASSUME NEW h \in Conns,
             \/ ReceiveCode(h) \/ ReceiveAccount(h) \/ ReceiveLogin(h) \/ ReceiveOther(h)
             \/ HandlerStep(h) \/ Written(h) \/ Deadline(h)
      PROVE  CodesInv'
  <2>1. PICK r : Turns(h, r) /\ Step(h, r)
    BY <1>1, Steps DEF CodesInv
  <2> QED BY <2>1, TypeStep, CountedStep, StoredStep DEF CodesInv
<1>2. CASE UNCHANGED vars
  BY <1>2 DEF vars, CodesInv, TypeOK, Locals, CodesCounted, Getting, StoredOrMailing, CodesExpire
<1> QED BY <1>1, <1>2, TickStep, CrashStep DEF Next

(* ... which holds at the start.                                           *)
LEMMA CodesInvInit == Init => CodesInv
<1> SUFFICES ASSUME Init PROVE CodesInv
  OBVIOUS
<1>1. TypeOK
  BY AccountAssumption, BlankIs DEF Init, TypeOK, Forever
<1>2. \A h \in Conns : req[h] = Blank
  BY DEF Init
<1>3. Locals
  BY <1>2, BlankIs DEF Locals
<1>4. CodesCounted
  <2>1. Getting = {}
    BY <1>2, BlankIs DEF Getting
  <2> QED BY <2>1, FS_EmptySet DEF CodesCounted, Init
<1>5. StoredOrMailing /\ CodesExpire
  BY DEF Init, StoredOrMailing, CodesExpire, Forever
<1> QED BY <1>1, <1>3, <1>4, <1>5 DEF CodesInv

(* Whoever asks for a code at the same time and whatever fails, a code in  *)
(* redis is one that was mailed, and it does not stay there for ever.      *)
THEOREM CodesUsable == Spec => []CodesSound
<1>2. CodesInv => CodesSound
  <2> SUFFICES ASSUME CodesInv PROVE CodesSound
    OBVIOUS
  <2>1. StoredIsMailed
    BY DEF CodesInv, StoredOrMailing, StoredIsMailed, Calling, VerifyPhases
  <2> QED BY <2>1 DEF CodesInv, CodesSound
<1> QED BY <1>2, CodesInvInit, CodesInvStep, PTL DEF Spec

(* A step gives an address no code but the one it makes.                   *)
LEMMA CodeOfStep ==
    ASSUME CodesInv, NEW h \in Conns, NEW r, Turns(h, r), Step(h, r),
           NEW c \in Codes, NEW e \in Emails, CodeOf(c, e)'
    PROVE  CodeOf(c, e) \/ (Made(h, r) /\ c = issued + 1 /\ e = r.email)
<1>0. \A g \in Conns : req'[g] = IF g = h THEN r ELSE req[g]
  BY DEF Turns, CodesInv, TypeOK
<1>2. r \in Request /\ LocalsOf(r) /\ req[h] \in Request /\ LocalsOf(req[h])
  BY DEF Turns, CodesInv, TypeOK, Locals
<1>3. /\ code \in [Emails -> Codes \union {None}] /\ mail \in [Emails -> SUBSET Codes]
      /\ c # None
  BY AccountAssumption DEF CodesInv, TypeOK, Codes
<1>4. CASE Brought(h, r) \/ Served(h, r) \/ Failed(h, r)
  <2>1. r.at \notin VerifyPhases \ {"get"} /\ UNCHANGED <<code, mail>>
    BY <1>4 DEF Brought, Served, Failed, Ended, Verified, Registered, Checked, Updated, VerifyPhases
  <2> QED BY <1>0, <2>1 DEF CodeOf
<1>5. CASE Made(h, r)
  BY <1>0, <1>5 DEF Made, CodeOf
<1>6. CASE Found(h, r)
  BY <1>0, <1>3, <1>6 DEF Found, CodeOf
<1>7. CASE Stored(h, r)
  <2>1. /\ req[h].at \in VerifyPhases \ {"get"} /\ req[h].email = r.email /\ req[h].code = r.code
        /\ code'[e] = IF e = r.email THEN r.code ELSE code[e]
        /\ mail' = mail
    BY <1>3, <1>7 DEF Stored, VerifyPhases
  <2> QED BY <1>0, <2>1 DEF CodeOf
<1>8. CASE Expiring(h, r)
  <2>1. /\ req[h].at \in VerifyPhases \ {"get"} /\ req[h].email = r.email /\ req[h].code = r.code
        /\ UNCHANGED <<code, mail>>
    BY <1>8 DEF Expiring, VerifyPhases
  <2> QED BY <1>0, <2>1 DEF CodeOf
<1>9. CASE Sent(h, r)
  <2>1. /\ req[h].at \in VerifyPhases \ {"get"} /\ r.at \notin VerifyPhases
        /\ c \in mail'[e] => c \in mail[e] \/ (e = req[h].email /\ c = req[h].code)
        /\ UNCHANGED code
    BY <1>3, <1>9 DEF Sent, VerifyPhases
  <2> QED BY <1>0, <2>1 DEF CodeOf
<1> QED BY <1>4, <1>5, <1>6, <1>7, <1>8, <1>9 DEF Step

(* A step of one connection keeps each code with one address.              *)
LEMMA OwnedStep ==
    ASSUME CodesInv, CodesOwned, NEW h \in Conns, NEW r, Turns(h, r), Step(h, r)
    PROVE  CodesOwned'
<1>1. issued \in Nat /\ issued' \in Nat /\ issued <= issued' /\ (Made(h, r) => issued' = issued + 1)
  BY DEF CodesInv, TypeOK, Step, Brought, Made, Found, Stored, Expiring, Sent, Failed, Served, counters
<1>2. \A c \in Codes : c \in Nat
  BY AccountAssumption DEF Codes
<1>3. ASSUME NEW c \in Codes, NEW e \in Emails, CodeOf(c, e)'
      PROVE  c <= issued'
  <2>1. CASE CodeOf(c, e)
    <3>1. c <= issued
      BY <2>1 DEF CodesOwned
    <3> QED BY <1>1, <1>2, <3>1
  <2>2. CASE Made(h, r) /\ c = issued + 1
    BY <1>1, <2>2
  <2> QED BY <1>3, <2>1, <2>2, CodeOfStep
<1>4. ASSUME NEW c \in Codes, NEW e \in Emails, NEW f \in Emails, CodeOf(c, e)', CodeOf(c, f)'
      PROVE  e = f
  <2>1. CASE c = issued + 1
    <3>1. ~CodeOf(c, e) /\ ~CodeOf(c, f)
      <4>1. ~(c <= issued)
        BY <1>1, <2>1
      <4> QED BY <4>1 DEF CodesOwned
    <3> QED BY <1>4, <3>1, CodeOfStep
  <2>2. CASE c # issued + 1
    <3>1. CodeOf(c, e) /\ CodeOf(c, f)
      BY <1>4, <2>2, CodeOfStep
    <3> QED BY <3>1 DEF CodesOwned
  <2> QED BY <2>1, <2>2
<1> QED BY <1>3, <1>4 DEF CodesOwned

(* A mail stays in its mailbox.                                            *)
LEMMA MailKept ==
    ASSUME CodesInv, NEW h \in Conns, NEW r, Step(h, r)
    PROVE  (\A e \in Emails : mail[e] \subseteq mail'[e]) /\ Typed \subseteq Typed'
<1>1. \A e \in Emails : mail[e] \subseteq mail'[e]
  BY DEF CodesInv, TypeOK, Step, Brought, Made, Found, Stored, Expiring, Sent, Failed, Served
<1>2. (UNION {mail[e] : e \in Emails}) \subseteq UNION {mail'[e] : e \in Emails}
  BY <1>1
<1> QED BY <1>1, <1>2 DEF Typed

(* What a request brings as a code was mailed to somebody.                 *)
LEMMA TypedStep ==
    ASSUME CodesInv, CodesOwned, TypedByReader, NEW h \in Conns, NEW r, Turns(h, r), Step(h, r)
    PROVE  TypedByReader'
<1>0. \A g \in Conns : req'[g] = IF g = h THEN r ELSE req[g]
  BY DEF Turns, CodesInv, TypeOK
<1>2. r \in Request /\ LocalsOf(r) /\ req[h] \in Request /\ LocalsOf(req[h])
  BY DEF Turns, CodesInv, TypeOK, Locals
<1>3. \A g \in Conns : req[g].at = "reg" => req[g].email \in Emails
  BY DEF CodesInv, Locals, LocalsOf
<1>4. \A g \in Conns \ {h} : /\ req'[g].at = "verify" => req'[g].code \in Typed'
                             /\ req'[g].at = "reg" => mail'[req'[g].email] # {}
  BY <1>0, <1>3, MailKept DEF TypedByReader
<1>5. r.at = "verify" => r.code \in Typed'
  <2>1. r.at = "verify" => Brought(h, r)
    BY DEF Step, Made, Found, Stored, Expiring, Sent, Failed, Served, Ended, Verified, Registered, Checked, Updated
  <2> QED BY <2>1, MailKept DEF Brought
<1>6. r.at = "reg" => mail'[r.email] # {}
  <2> SUFFICES ASSUME r.at = "reg" PROVE mail'[r.email] # {}
    OBVIOUS
  <2>1. Verified(h, r)
    BY DEF Step, Brought, Made, Found, Stored, Expiring, Sent, Failed, Served, Ended, Registered, Checked, Updated
  <2>2. /\ req[h].at = "verify" /\ r.email \in Emails
        /\ code[r.email] # None /\ code[r.email] = req[h].code
    BY <1>2, <2>1 DEF Verified, LocalsOf
  <2>3. req[h].code \in Typed /\ req[h].code # None
    BY <2>2 DEF TypedByReader
  <2>4. PICK f \in Emails : req[h].code \in mail[f]
    BY <2>3 DEF Typed
  <2>5. req[h].code \in Codes
    BY <2>4 DEF CodesInv, TypeOK
  <2>6. CodeOf(req[h].code, f) /\ CodeOf(req[h].code, r.email)
    BY <2>2, <2>4 DEF CodeOf
  <2>7. f = r.email
    BY <2>2, <2>5, <2>6 DEF CodesOwned
  <2> QED BY <2>2, <2>4, <2>7, MailKept
<1> QED BY <1>0, <1>4, <1>5, <1>6 DEF TypedByReader

(* An account is made or changed by who reads its mail.                    *)
LEMMA ByMailStep ==
    ASSUME CodesInv, TypedByReader, AccountsByMail, NEW h \in Conns, NEW r, Turns(h, r), Step(h, r)
    PROVE  AccountsByMail'
<1> DEFINE Goes(x) == x.op = "reset" /\ (x.at = "update" \/ (x.at = "writing" /\ x.ok))
           Row(x) == user[x.name] # None /\ user[x.name].email = x.email
<1>0. \A g \in Conns : req'[g] = IF g = h THEN r ELSE req[g]
  BY DEF Turns, CodesInv, TypeOK
<1>1. r \in Request /\ LocalsOf(r) /\ req[h] \in Request /\ LocalsOf(req[h])
  BY DEF Turns, CodesInv, TypeOK, Locals
<1>2. /\ user \in [Names -> [email : Emails, pwd : Pwds] \union {None}]
      /\ leaked \in Nat /\ \A e \in Emails : mail[e] \subseteq mail'[e]
      /\ None \notin [email : Emails, pwd : Pwds]
  BY AccountAssumption, MailKept DEF CodesInv, TypeOK
<1>3. \A n \in Names : user[n] # None => mail[user[n].email] # {} /\ user[n].email \in Emails
  BY <1>2 DEF AccountsByMail
<1>4. \A g \in Conns : Goes(req[g]) /\ leaked = 0 => Row(req[g])
  BY DEF AccountsByMail
<1>5. \A g \in Conns : Goes(req[g]) => req[g].name \in Names
  BY DEF CodesInv, Locals, LocalsOf
(* The rows of the table stay and keep their emails. *)
<1>6. UNCHANGED user \/ Registered(h, r) \/ Updated(h, r)
  BY DEF Step, Brought, Made, Found, Stored, Expiring, Sent, Failed, Served, Ended, Verified, Checked
<1>7. \A n \in Names : user[n] # None => user'[n] # None /\ user'[n].email = user[n].email
  <2>1. CASE UNCHANGED user
    BY <2>1
  <2>2. CASE Registered(h, r)
    BY <1>2, <2>2 DEF Registered
  <2>3. CASE Updated(h, r)
    <3>1. r.name \in Names /\ req[h].pwd \in Pwds
      BY <1>1, <2>3 DEF Updated, LocalsOf
    <3>2. CASE user[r.name] = None
      BY <2>3, <3>2 DEF Updated
    <3>3. CASE user[r.name] # None
      <4>1. user' = [user EXCEPT ![r.name].pwd = req[h].pwd] /\ user[r.name] \in [email : Emails, pwd : Pwds]
        BY <1>2, <2>3, <3>1, <3>3 DEF Updated
      <4>2. /\ user'[r.name] = [user[r.name] EXCEPT !.pwd = req[h].pwd]
            /\ \A n \in Names \ {r.name} : user'[n] = user[n]
        BY <1>2, <3>1, <4>1
      <4>3. user'[r.name] \in [email : Emails, pwd : Pwds] /\ user'[r.name].email = user[r.name].email
        BY <3>1, <4>1, <4>2
      <4> QED BY <1>2, <4>2, <4>3
    <3> QED BY <3>2, <3>3
  <2> QED BY <1>6, <2>1, <2>2, <2>3
(* A new row is of an address that a code was mailed to. *)
<1>8. \A n \in Names : user'[n] # None => mail'[user'[n].email] # {}
  <2>1. CASE ~Registered(h, r)
    <3>1. \A n \in Names : user'[n] # None => user[n] # None
      BY <1>2, <1>6, <2>1 DEF Updated
    <3> QED BY <1>2, <1>3, <1>7, <3>1
  <2>2. CASE Registered(h, r)
    <3>1. /\ req[h].at = "reg" /\ req[h].email \in Emails /\ req[h].name \in Names
          /\ user' = [user EXCEPT ![req[h].name] = [email |-> req[h].email, pwd |-> req[h].pwd]]
      BY <1>1, <2>2 DEF Registered, LocalsOf
    <3>2. mail'[req[h].email] # {}
      BY <1>2, <3>1 DEF TypedByReader
    <3>3. \A n \in Names : user'[n] = IF n = req[h].name THEN [email |-> req[h].email, pwd |-> req[h].pwd]
                                      ELSE user[n]
      BY <1>2, <3>1
    <3> QED BY <1>2, <1>3, <3>2, <3>3
  <2> QED BY <2>1, <2>2
<1>9. leaked' = 0 => leaked = 0
  BY <1>2 DEF Step, Brought, Made, Found, Stored, Expiring, Sent, Failed, Served, Ended, Verified, Registered,
              Checked, Updated
(* A reset_pwd comes to update_pwd and to its answer by check_email. *)
<1>10. ASSUME Goes(r), leaked' = 0
       PROVE  user'[r.name] # None /\ user'[r.name].email = r.email
  <2>1. Checked(h, r) \/ Updated(h, r)
    BY <1>10 DEF Step, Brought, Made, Found, Stored, Expiring, Sent, Failed, Served, Ended, Verified, Registered
  <2>2. r.name \in Names /\ r.name = req[h].name /\ r.email = req[h].email
    BY <1>1, <1>10, <2>1 DEF LocalsOf, Checked, Updated
  <2>3. CASE Checked(h, r)
    <3>1. Row(r)
      BY <1>2, <1>10, <2>3 DEF Checked
    <3> QED BY <1>7, <2>2, <3>1
  <2>4. CASE Updated(h, r)
    <3>1. Row(req[h])
      BY <1>4, <1>9, <1>10, <2>4 DEF Updated
    <3> QED BY <1>7, <2>2, <3>1
  <2> QED BY <2>1, <2>3, <2>4
<1>11. ASSUME NEW g \in Conns, Goes(req'[g]), leaked' = 0
       PROVE  user'[req'[g].name] # None /\ user'[req'[g].name].email = req'[g].email
  <2>1. CASE g = h
    BY <1>0, <1>10, <1>11, <2>1
  <2>2. CASE g # h
    BY <1>0, <1>4, <1>5, <1>7, <1>9, <1>11, <2>2
  <2> QED BY <2>1, <2>2
<1> QED BY <1>8, <1>11 DEF AccountsByMail

(* Time and a crash of the verify server only take codes away.             *)
LEMMA RestStep ==
    ASSUME CodesInv, AccountsInv, Tick \/ VerifyCrash \/ UNCHANGED vars
    PROVE  AccountsInv'
<1>1. UNCHANGED <<mail, user, leaked, issued>>
  BY DEF Tick, VerifyCrash, vars
<1>2. \A e \in Emails : code'[e] = code[e] \/ code'[e] = None
  BY DEF Tick, VerifyCrash, redis, vars
<1>3. ASSUME NEW h \in Conns
      PROVE  \/ req'[h] = req[h]
             \/ req'[h].at = "writing" /\ req'[h].ok = FALSE
  <2>1. CASE VerifyCrash /\ req[h].at \in VerifyPhases
    <3>1. req'[h] = Answered(req[h], FALSE)
      BY <2>1 DEF VerifyCrash
    <3>2. req[h] \in Request /\ LocalsOf(req[h]) /\ req[h].at \notin {"idle", "silent"}
      BY <2>1 DEF CodesInv, TypeOK, Locals, VerifyPhases
    <3> QED BY <3>1, <3>2, AnsweredIs
  <2>2. CASE ~(VerifyCrash /\ req[h].at \in VerifyPhases)
    BY <2>2 DEF VerifyCrash, Tick, vars
  <2> QED BY <2>1, <2>2
<1>4. \A c \in Codes, e \in Emails : CodeOf(c, e)' => CodeOf(c, e)
  BY <1>1, <1>2, <1>3 DEF CodeOf, VerifyPhases
<1>5. CodesOwned'
  BY <1>1, <1>4 DEF AccountsInv, CodesOwned
<1>6. TypedByReader'
  BY <1>1, <1>3 DEF AccountsInv, TypedByReader, Typed
<1>7. AccountsByMail'
  BY <1>1, <1>3 DEF AccountsInv, AccountsByMail
<1> QED BY <1>5, <1>6, <1>7 DEF AccountsInv

(* Who has an account could read the mails to its address, however codes   *)
(* are asked for, stored again, expire and are used; and a reset_pwd that  *)
(* is answered was of the name's own email.                                *)
THEOREM AccountsOwned == Spec => []AccountsByMail
<1>1. Init => AccountsInv
  <2> SUFFICES ASSUME Init PROVE AccountsInv
    OBVIOUS
  <2>1. \A h \in Conns : req[h] = Blank
    BY DEF Init
  <2>2. \A e \in Emails : mail[e] = {} /\ code[e] = None
    BY DEF Init
  <2>3. \A c, e : c \in Codes /\ e \in Emails => ~CodeOf(c, e)
    BY <2>1, <2>2, BlankIs DEF CodeOf, VerifyPhases
  <2>4. TypedByReader
    BY <2>1, BlankIs DEF TypedByReader
  <2>5. AccountsByMail
    BY <2>1, BlankIs DEF AccountsByMail, Init
  <2> QED BY <2>3, <2>4, <2>5 DEF AccountsInv, CodesOwned
<1>2. CodesInv /\ AccountsInv /\ [Next]_vars => AccountsInv'
  <2> SUFFICES ASSUME CodesInv, AccountsInv, [Next]_vars PROVE AccountsInv'
    OBVIOUS
  <2>1. ASSUME NEW h \in Conns,
               \/ ReceiveCode(h) \/ ReceiveAccount(h) \/ ReceiveLogin(h) \/ ReceiveOther(h)
               \/ HandlerStep(h) \/ Written(h) \/ Deadline(h)
        PROVE  AccountsInv'
    <3>1. PICK r : Turns(h, r) /\ Step(h, r)
      BY <2>1, Steps DEF CodesInv
    <3> QED BY <3>1, OwnedStep, TypedStep, ByMailStep DEF AccountsInv
  <2> QED BY <2>1, RestStep DEF Next
<1>3. AccountsInv => AccountsByMail
  BY DEF AccountsInv
<1> QED BY <1>1, <1>2, <1>3, CodesInvInit, CodesInvStep, PTL DEF Spec
=============================================================================
