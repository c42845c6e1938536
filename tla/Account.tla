------------------------------ MODULE Account ------------------------------
(***************************************************************************)
(* The gate server's accounts: the HTTP connections (http_conn) with the   *)
(* POST handlers of its logic_system, the methods of its mysql_dao they    *)
(* call, and the verify server's get_verify_code, which runs its awaits    *)
(* interleaved for all callers.                                            *)
(*                                                                         *)
(* Each connection is served by an io thread of its own, as consecutive    *)
(* connections are by ioservice_pool.  A phase names the call that the     *)
(* connection's handler makes next; each call to redis, MySQL, the mailer  *)
(* or the status server is one step.  Verification codes are taken to be   *)
(* all different, and are numbered.                                        *)
(***************************************************************************)
EXTENDS Integers, FiniteSets

CONSTANTS Conns,               \* connections at a time, each on its io thread
          Emails, Names, Pwds,
          None,
          Ttl,                 \* life of a code, in ticks
          PoolSize,            \* MySQL connections of the gate server
          MaxReqs, MaxTicks, MaxFaults  \* bounds

ASSUME AccountAssumption ==
    /\ {Ttl, PoolSize} \subseteq Nat \ {0}
    /\ {MaxReqs, MaxTicks, MaxFaults} \subseteq Nat
    /\ None \notin Emails \union Names \union Pwds \union Nat \union [email : Emails, pwd : Pwds]

VARIABLES code, ttl,   \* redis: the code of each email and its remaining life
          mail,        \* the codes in each mailbox
          user,        \* MySQL: table user
          leaked,      \* connections that check_email did not return
          req,         \* the http_conn objects, with the handler's locals
          issued,      \* codes made so far
          reqs, ticks, faults

vars == <<code, ttl, mail, user, leaked, req, issued, reqs, ticks, faults>>
redis == <<code, ttl>>
counters == <<issued, reqs, ticks, faults>>

Forever == -1
Codes == 1..MaxReqs

VerifyPhases == {"get", "set", "expire", "mail"}
SqlPhases == {"reg", "check", "update", "pwd"}
Phases == {"idle", "writing", "silent", "verify", "status"} \union VerifyPhases \union SqlPhases
Ops == {"code", "register", "reset", "login", "other"}

Request == [at : Phases, op : Ops \union {None}, email : Emails \union {None}, name : Names \union {None},
            pwd : Pwds \union {None}, code : Codes \union {None}, ok : BOOLEAN]
Blank == [at |-> "idle", op |-> None, email |-> None, name |-> None, pwd |-> None, code |-> None, ok |-> FALSE]

TypeOK ==
    /\ code \in [Emails -> Codes \union {None}]
    /\ ttl \in [Emails -> Forever..Ttl]
    /\ mail \in [Emails -> SUBSET Codes]
    /\ user \in [Names -> [email : Emails, pwd : Pwds] \union {None}]
    /\ leaked \in 0..PoolSize
    /\ req \in [Conns -> Request]
    /\ issued \in 0..MaxReqs
    /\ reqs \in 0..MaxReqs /\ ticks \in 0..MaxTicks /\ faults \in 0..MaxFaults

Init ==
    /\ code = [e \in Emails |-> None] /\ ttl = [e \in Emails |-> 0]
    /\ mail = [e \in Emails |-> {}]
    /\ user = [n \in Names |-> None]
    /\ leaked = 0
    /\ req = [h \in Conns |-> Blank]
    /\ issued = 0 /\ reqs = 0 /\ ticks = 0 /\ faults = 0

------------------------------------------------------------------------------
(* http_conn                                                               *)

(* A code that a client types is one it was mailed, or not a code.         *)
Typed == (UNION {mail[e] : e \in Emails}) \union {None}

(* A connection is accepted, its request read and the handler begins in    *)
(* req_handler; until then the connection has no deadline, and one whose   *)
(* read fails is gone without a trace.  A method other than GET and POST   *)
(* is not answered at all.                                                 *)
Receive(h, r) ==
    /\ req[h].at = "idle" /\ reqs < MaxReqs
    /\ reqs' = reqs + 1
    /\ req' = [req EXCEPT ![h] = r]
    /\ UNCHANGED <<redis, mail, user, leaked, issued, ticks, faults>>

ReceiveCode(h) ==
    \E e \in Emails : Receive(h, [Blank EXCEPT !.at = "get", !.op = "code", !.email = e])
ReceiveAccount(h) ==
    \E o \in {"register", "reset"}, e \in Emails, n \in Names, p \in Pwds, c \in Typed :
        Receive(h, [at |-> "verify", op |-> o, email |-> e, name |-> n, pwd |-> p, code |-> c, ok |-> FALSE])
ReceiveLogin(h) ==
    \E e \in Emails, p \in Pwds : Receive(h, [Blank EXCEPT !.at = "pwd", !.op = "login", !.email = e, !.pwd = p])
ReceiveOther(h) == Receive(h, [Blank EXCEPT !.at = "silent", !.op = "other"])

(* The handler returns, its locals are gone: write_response starts the     *)
(* write and check_tmo the deadline.                                       *)
Answered(r, ok) == [at |-> "writing", op |-> r.op, ok |-> ok, name |-> r.name, pwd |-> None, code |-> None,
                    email |-> IF r.op = "reset" THEN r.email ELSE None]
Answer(h, ok) == req' = [req EXCEPT ![h] = Answered(@, ok)]
Goto(h, phase) == req' = [req EXCEPT ![h].at = phase]

(* The response is written and the deadline cancelled, or the deadline     *)
(* closes the socket first.                                                *)
Written(h) ==
    /\ req[h].at = "writing"
    /\ req' = [req EXCEPT ![h] = Blank]
    /\ UNCHANGED <<redis, mail, user, leaked, counters>>

(* Mutant: the deadline is set only with a response.                       *)
DeadlineWriting(h) ==
    /\ req[h].at = "writing"
    /\ req' = [req EXCEPT ![h] = Blank]
    /\ UNCHANGED <<redis, mail, user, leaked, counters>>

Deadline(h) ==
    /\ req[h].at \in {"writing", "silent"}
    /\ req' = [req EXCEPT ![h] = Blank]
    /\ UNCHANGED <<redis, mail, user, leaked, counters>>

------------------------------------------------------------------------------
(* verify_server: get_verify_code                                          *)

(* uuidv4.                                                                 *)
NewCode(h) ==
    /\ issued' = issued + 1
    /\ req' = [req EXCEPT ![h].at = "set", ![h].code = issued + 1]

(* GetRedis; an error counts as no code.                                   *)
GetRedis(h) ==
    LET e == req[h].email IN
    /\ req[h].at = "get"
    /\ IF code[e] = None THEN NewCode(h)
       ELSE req' = [req EXCEPT ![h].at = "mail", ![h].code = code[e]] /\ UNCHANGED issued
    /\ UNCHANGED <<redis, mail, user, leaked, reqs, ticks, faults>>

(* SetRedisExpire: SET, which takes a life away, and then EXPIRE.          *)
SetRedis(h) ==
    LET e == req[h].email IN
    /\ req[h].at = "set"
    /\ code' = [code EXCEPT ![e] = req[h].code] /\ ttl' = [ttl EXCEPT ![e] = Forever]
    /\ Goto(h, "expire")
    /\ UNCHANGED <<mail, user, leaked, counters>>

ExpireRedis(h) ==
    LET e == req[h].email IN
    /\ req[h].at = "expire"
    /\ ttl' = [ttl EXCEPT ![e] = IF code[e] = None THEN 0 ELSE Ttl]
    /\ Goto(h, "mail")
    /\ UNCHANGED <<code, mail, user, leaked, counters>>

(* Mutant: an address that has had a mail gets no other.                   *)
SendMailOnce(h) ==
    LET e == req[h].email IN
    /\ req[h].at = "mail"
    /\ mail' = [mail EXCEPT ![e] = IF @ = {} THEN {req[h].code} ELSE @]
    /\ Answer(h, TRUE)
    /\ UNCHANGED <<redis, user, leaked, counters>>

SendMail(h) ==
    LET e == req[h].email IN
    /\ req[h].at = "mail"
    /\ mail' = [mail EXCEPT ![e] = @ \union {req[h].code}]
    /\ Answer(h, TRUE)
    /\ UNCHANGED <<redis, user, leaked, counters>>

------------------------------------------------------------------------------
(* logic_system of the gate server                                         *)

(* Mutant: any code that was ever mailed to somebody will do.              *)
CheckCodeExists(h) ==
    LET r == req[h] IN
    /\ r.at = "verify"
    /\ IF r.code = None
       THEN Answer(h, FALSE)
       ELSE Goto(h, IF r.op = "register" THEN "reg" ELSE "check")
    /\ UNCHANGED <<redis, mail, user, leaked, counters>>

(* user_register and reset_pwd compare the code with the one in redis;     *)
(* the code is not used up.                                                *)
CheckCode(h) ==
    LET r == req[h] IN
    /\ r.at = "verify"
    /\ IF code[r.email] = None \/ code[r.email] # r.code
       THEN Answer(h, FALSE)
       ELSE Goto(h, IF r.op = "register" THEN "reg" ELSE "check")
    /\ UNCHANGED <<redis, mail, user, leaked, counters>>

(* A method of mysql_dao waits until the pool has a connection.            *)
Connected == leaked < PoolSize

(* reg_user: the stored procedure refuses a name or an email it has.       *)
RegUser(h) ==
    LET r == req[h] IN
    /\ r.at = "reg" /\ Connected
    /\ IF \E n \in Names : user[n] # None /\ (n = r.name \/ user[n].email = r.email)
       THEN Answer(h, FALSE) /\ UNCHANGED user
       ELSE Answer(h, TRUE) /\ user' = [user EXCEPT ![r.name] = [email |-> r.email, pwd |-> r.pwd]]
    /\ UNCHANGED <<redis, mail, leaked, counters>>

(* Mutant: nothing is compared.                                            *)
CheckEmailNot(h) ==
    LET r == req[h] IN
    /\ r.at = "check" /\ Connected
    /\ Goto(h, "update")
    /\ leaked' = IF user[r.name] = None THEN leaked + 1 ELSE leaked
    /\ UNCHANGED <<redis, mail, user, counters>>

(* check_email: without such a name the loop has no round: true, and the   *)
(* connection is not returned.                                             *)
CheckEmail(h) ==
    LET r == req[h] IN
    /\ r.at = "check" /\ Connected
    /\ IF user[r.name] = None
       THEN Goto(h, "update") /\ leaked' = leaked + 1
       ELSE /\ IF user[r.name].email = r.email THEN Goto(h, "update") ELSE Answer(h, FALSE)
            /\ UNCHANGED leaked
    /\ UNCHANGED <<redis, mail, user, counters>>

(* update_pwd: true also when no row has the name.                         *)
UpdatePwd(h) ==
    LET r == req[h] IN
    /\ r.at = "update" /\ Connected
    /\ user' = IF user[r.name] = None THEN user ELSE [user EXCEPT ![r.name].pwd = r.pwd]
    /\ Answer(h, TRUE)
    /\ UNCHANGED <<redis, mail, leaked, counters>>

(* user_login: check_pwd, then the status server.                          *)
CheckPwd(h) ==
    LET r == req[h] IN
    /\ r.at = "pwd" /\ Connected
    /\ IF \E n \in Names : user[n] = [email |-> r.email, pwd |-> r.pwd]
       THEN Goto(h, "status") ELSE Answer(h, FALSE)
    /\ UNCHANGED <<redis, mail, user, leaked, counters>>

GetChatServer(h) ==
    /\ req[h].at = "status"
    /\ Answer(h, TRUE)
    /\ UNCHANGED <<redis, mail, user, leaked, counters>>

------------------------------------------------------------------------------
(* Time and failures                                                       *)

(* A unit of time passes in redis.                                         *)
Tick ==
    /\ ticks < MaxTicks
    /\ ticks' = ticks + 1
    /\ ttl' = [e \in Emails |-> IF ttl[e] > 0 THEN ttl[e] - 1 ELSE ttl[e]]
    /\ code' = [e \in Emails |-> IF ttl[e] = 1 THEN None ELSE code[e]]
    /\ UNCHANGED <<mail, user, leaked, req, issued, reqs, faults>>

(* The call of a phase fails: every handler answers with an error, and the *)
(* methods of mysql_dao return their connection.                           *)
CallFails(h) ==
    /\ req[h].at \in {"set", "expire", "mail", "verify", "status"} \/ (req[h].at \in SqlPhases /\ Connected)
    /\ faults < MaxFaults
    /\ faults' = faults + 1
    /\ Answer(h, FALSE)
    /\ UNCHANGED <<redis, mail, user, leaked, issued, reqs, ticks>>

(* GetRedis fails: get_verify_code goes on as if there were no code.       *)
GetRedisFails(h) ==
    /\ req[h].at = "get" /\ faults < MaxFaults
    /\ faults' = faults + 1
    /\ NewCode(h)
    /\ UNCHANGED <<redis, mail, user, leaked, reqs, ticks>>

(* The verify server ends: every call to it fails with ERR_RPC.            *)
VerifyCrash ==
    /\ faults < MaxFaults
    /\ faults' = faults + 1
    /\ req' = [h \in Conns |-> IF req[h].at \in VerifyPhases
                               THEN Answered(req[h], FALSE) ELSE req[h]]
    /\ UNCHANGED <<redis, mail, user, leaked, issued, reqs, ticks>>

HandlerStep(h) ==
    \/ GetRedis(h) \/ SetRedis(h) \/ ExpireRedis(h) \/ SendMail(h)
    \/ CheckCode(h) \/ RegUser(h) \/ CheckEmail(h) \/ UpdatePwd(h)
    \/ CheckPwd(h) \/ GetChatServer(h)
    \/ CallFails(h) \/ GetRedisFails(h)

Next ==
    \/ \E h \in Conns :
         \/ ReceiveCode(h) \/ ReceiveAccount(h) \/ ReceiveLogin(h) \/ ReceiveOther(h)
         \/ HandlerStep(h)
         \/ Written(h) \/ Deadline(h)
    \/ Tick \/ VerifyCrash

Spec == Init /\ [][Next]_vars

(* A handler goes on, and a deadline that has been set passes; a client    *)
(* need not send anything.                                                 *)
Fairness == \A h \in Conns : WF_vars(HandlerStep(h)) /\ WF_vars(Deadline(h))

FairSpec == Spec /\ Fairness

------------------------------------------------------------------------------
(* Properties                                                              *)

Calling(e) == \E h \in Conns : req[h].email = e /\ req[h].at \in VerifyPhases

(* However the awaits of concurrent get_verify_code calls interleave, when *)
(* they are done the code that redis has is one the user was mailed.       *)
StoredIsMailed ==
    \A e \in Emails : code[e] # None /\ ~Calling(e) /\ faults = 0 => code[e] \in mail[e]

(* A code has a life, except between the two commands of SetRedisExpire or *)
(* when they were cut short by a failure.                                  *)
CodesExpire ==
    \A e \in Emails : ttl[e] = Forever /\ faults = 0 =>
        \E h \in Conns : req[h].email = e /\ req[h].at = "expire"

(* Types; and whoever asks for a code at the same time and whatever fails, *)
(* the codes of get_verify_code in redis can be used, and not for ever.    *)
CodesSound == TypeOK /\ StoredIsMailed /\ CodesExpire

(* Who has an account could read the mails to its address; and from        *)
(* check_email to the answer, name and email of a reset_pwd go together in *)
(* the table, unless check_email met a name that was not there (and lost   *)
(* its connection).                                                        *)
AccountsByMail ==
    /\ \A n \in Names : user[n] # None => mail[user[n].email] # {}
    /\ \A h \in Conns :
        LET r == req[h] IN
        r.op = "reset" /\ (r.at = "update" \/ (r.at = "writing" /\ r.ok)) /\ leaked = 0
            => user[r.name] # None /\ user[r.name].email = r.email

(* What the locals of a handler hold in each of its phases.                *)
LocalsOf(r) ==
    /\ r.at \in VerifyPhases => r.op = "code" /\ r.email \in Emails
    /\ r.at \in VerifyPhases \ {"get"} => r.code \in Codes
    /\ r.at \in {"verify", "reg", "check", "update"} =>
          /\ r.email \in Emails /\ r.name \in Names /\ r.pwd \in Pwds
          /\ r.op = "reset" \/ (r.op = "register" /\ r.at \in {"verify", "reg"})
    /\ r.at = "reg" => r.op = "register"
    /\ r.at \in {"pwd", "status"} => r.op = "login"
    /\ r.at = "pwd" => r.email \in Emails /\ r.pwd \in Pwds
    /\ r.at = "writing" /\ r.op = "reset" => r.name \in Names /\ r.email \in Emails

Locals == \A h \in Conns : LocalsOf(req[h])

(* The calls of get_verify_code that may still make a code: with the codes *)
(* made they are no more than the requests.                                *)
Getting == {h \in Conns : req[h].at = "get"}
CodesCounted == IsFiniteSet(Getting) /\ issued + Cardinality(Getting) <= reqs

(* A code is of the address it was made for: in its mailbox, in redis      *)
(* under it, or on its way in a call of get_verify_code.                   *)
CodeOf(c, e) ==
    \/ c \in mail[e]
    \/ c # None /\ c = code[e]
    \/ \E h \in Conns : /\ req[h].at \in VerifyPhases \ {"get"}
                        /\ req[h].email = e /\ req[h].code = c
CodesOwned ==
    /\ \A c \in Codes, e \in Emails : CodeOf(c, e) => c <= issued
    /\ \A c \in Codes, e, f \in Emails : CodeOf(c, e) /\ CodeOf(c, f) => e = f

(* What a handler was given as a code somebody was mailed; what has passed *)
(* CheckCode was mailed to the address it is given for.                    *)
TypedByReader ==
    \A h \in Conns :
        /\ req[h].at = "verify" => req[h].code \in Typed
        /\ req[h].at = "reg" => mail[req[h].email] # {}

(* A stored code is in the mailbox, or a call is about to send it.         *)
StoredOrMailing ==
    \A e \in Emails : code[e] # None /\ faults = 0 =>
        \/ code[e] \in mail[e]
        \/ \E h \in Conns : /\ req[h].at \in {"expire", "mail"}
                            /\ req[h].email = e /\ req[h].code = code[e]

(* The inductive invariant of the codes, and what the accounts add to it.  *)
CodesInv == TypeOK /\ Locals /\ CodesCounted /\ StoredOrMailing /\ CodesExpire
AccountsInv == CodesOwned /\ TypedByReader /\ AccountsByMail

(* Every request is answered or its connection closed, unless check_email  *)
(* has lost all the connections of the pool.                               *)
RequestsEnd ==
    \A h \in Conns : (req[h].at # "idle") ~> (req[h].at = "idle" \/ ~Connected)
==============================================================================
