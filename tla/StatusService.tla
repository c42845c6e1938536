---------------------------- MODULE StatusService ----------------------------
(***************************************************************************)
(* The status server's GetChatServer, which scans the login counts that    *)
(* the chat servers keep in redis, one HGET after the other under          *)
(* server_mtx_, and hands out a token.  The gRPC server runs the calls on  *)
(* threads of its own; the chat servers start, stop and count logins       *)
(* meanwhile.  Login changes nothing and is left out.  The number of a     *)
(* call stands for the uuid it makes.                                      *)
(*                                                                         *)
(* What may fail: an HGET, which then reads as the empty string of a field *)
(* that is not there; the SET of the token, whose result is ignored; and   *)
(* the way of the reply to the gate server (ERR_RPC) or on to the user.    *)
(***************************************************************************)
EXTENDS Integers, Sequences

CONSTANTS Threads, Users,
          Servers,    \* the names in servers_, in the order of the map
          None,
          MaxCount,   \* bound: logins a chat server counts
          MaxStarts,  \* bound: times that a count comes back
          MaxCalls    \* bound: calls of GetChatServer

ASSUME StatusAssumption ==
    /\ Servers \in Seq(STRING) /\ Servers # <<>>
    /\ \A i, j \in DOMAIN Servers : i # j => Servers[i] # Servers[j]
    /\ {MaxCount, MaxStarts, MaxCalls} \subseteq Nat /\ None \notin Threads \union Nat

Index == DOMAIN Servers
Off == -1                  \* no such field in the hash
INT_MAX == MaxCount + 1    \* above every count
Tokens == 1..MaxCalls

VARIABLES count,    \* redis: LOGIN_COUNT of each server
          token,    \* redis: the token of each user
          mtx,      \* server_mtx_
          call,     \* the calls under way
          got,      \* the token that each user got last
          calls, starts,
          unsure,   \* history: servers that started or stopped since the scan began, or whose HGET failed
          unset,    \* history: tokens that redis did not store
          lost,     \* history: tokens that the user did not get
          ended,    \* history: the calls that have returned ...
          before    \* ... and those that had when a call began

fates == <<unset, lost, ended, before>>
vars == <<count, token, mtx, call, got, calls, starts, unsure, fates>>

(* A scan has read the servers before next; min is the best so far.        *)
Call == [at : {"none", "lock", "scan", "token", "reply"}, user : Users \union {None},
         next : 1..(Len(Servers) + 1), min : Index, least : 0..INT_MAX, token : Tokens \union {None}]
NewCall(at, u, n) == [at |-> at, user |-> u, next |-> 1, min |-> 1, least |-> 0, token |-> n]
NoCall == NewCall("none", None, None)

TypeOK ==
    /\ count \in [Index -> Off..MaxCount]
    /\ unsure \in [Threads -> SUBSET Index]
    /\ token \in [Users -> Tokens \union {None}]
    /\ mtx \in Threads \union {None}
    /\ call \in [Threads -> Call]
    /\ got \in [Users -> Tokens \union {None}]
    /\ calls \in 0..MaxCalls /\ starts \in 0..MaxStarts
    /\ unset \in SUBSET Tokens /\ lost \in SUBSET Tokens /\ ended \in SUBSET Tokens
    /\ before \in [Tokens -> SUBSET Tokens]

(* Chat servers may be running and have counted logins.                   *)
Init ==
    /\ count \in [Index -> Off..MaxCount]
    /\ unsure = [t \in Threads |-> {}]
    /\ token = [u \in Users |-> None]
    /\ mtx = None
    /\ call = [t \in Threads |-> NoCall]
    /\ got = [u \in Users |-> None]
    /\ calls = 0 /\ starts = 0
    /\ unset = {} /\ lost = {} /\ ended = {} /\ before = [n \in Tokens |-> {}]

------------------------------------------------------------------------------
(* The chat servers, see ChatCluster                                       *)

Changed(i) == [t \in Threads |-> IF call[t].at = "none" THEN {} ELSE unsure[t] \union {i}]

(* main sets the count to 0, and deletes it at the end.                    *)
ServerStart(i) ==
    /\ starts < MaxStarts
    /\ starts' = starts + 1
    /\ count' = [count EXCEPT ![i] = 0]
    /\ unsure' = Changed(i)
    /\ UNCHANGED <<token, mtx, call, got, calls, fates>>

ServerStop(i) ==
    /\ count[i] # Off
    /\ count' = [count EXCEPT ![i] = Off]
    /\ unsure' = Changed(i)
    /\ UNCHANGED <<token, mtx, call, got, calls, starts, fates>>

(* login_handler reads the count and sets it to one more; a login that is  *)
(* under way when main deletes the count sets it again.                    *)
ServerLogin(i) ==
    /\ \/ /\ count[i] \in 0..(MaxCount - 1)
          /\ count' = [count EXCEPT ![i] = @ + 1]
          /\ UNCHANGED <<unsure, starts>>
       \/ /\ count[i] = Off /\ starts < MaxStarts
          /\ starts' = starts + 1
          /\ \E n \in 1..MaxCount : count' = [count EXCEPT ![i] = n]
          /\ unsure' = Changed(i)
    /\ UNCHANGED <<token, mtx, call, got, calls, fates>>

------------------------------------------------------------------------------
(* GetChatServer                                                           *)

Ask(t, u) ==
    /\ call[t].at = "none" /\ calls < MaxCalls
    /\ calls' = calls + 1
    /\ call' = [call EXCEPT ![t] = NewCall("lock", u, calls + 1)]
    /\ before' = [before EXCEPT ![calls + 1] = ended]
    /\ UNCHANGED <<count, token, mtx, got, starts, unsure, unset, lost, ended>>

(* The count that an HGET finds, and what the scan takes it for.           *)
Read(i) == IF count[i] = Off THEN INT_MAX ELSE count[i]
Hget(i, ok) == IF ok THEN Read(i) ELSE INT_MAX
Missed(i, ok) == IF ok THEN {} ELSE {i}

(* get_chatserver: the lock, and the count of the first server.            *)
ScanFirst(t) ==
    /\ call[t].at = "lock" /\ mtx = None
    /\ mtx' = t
    /\ \E ok \in BOOLEAN :
          /\ call' = [call EXCEPT ![t].at = "scan", ![t].next = 2, ![t].min = 1,
                                  ![t].least = Hget(1, ok)]
          /\ unsure' = [unsure EXCEPT ![t] = Missed(1, ok)]
    /\ UNCHANGED <<count, token, got, calls, starts, fates>>

(* Mutant: a server without a count is taken for one without logins.       *)
ScanNextOff(t) ==
    LET c == call[t]
        n == IF count[c.next] = Off THEN 0 ELSE count[c.next] IN
    /\ c.at = "scan" /\ c.next \in Index
    /\ call' = [call EXCEPT ![t].next = @ + 1,
                            ![t].min = IF n < c.least THEN c.next ELSE @,
                            ![t].least = IF n < c.least THEN n ELSE @]
    /\ UNCHANGED <<count, token, mtx, got, calls, starts, unsure, fates>>

(* The count of the next server.                                           *)
ScanNext(t) ==
    LET c == call[t] IN
    /\ c.at = "scan" /\ c.next \in Index
    /\ \E ok \in BOOLEAN :
          LET n == Hget(c.next, ok) IN
          /\ call' = [call EXCEPT ![t].next = @ + 1,
                                  ![t].min = IF n < c.least THEN c.next ELSE @,
                                  ![t].least = IF n < c.least THEN n ELSE @]
          /\ unsure' = [unsure EXCEPT ![t] = @ \union Missed(c.next, ok)]
    /\ UNCHANGED <<count, token, mtx, got, calls, starts, fates>>

(* The lock is released; a token is made.                                  *)
ScanDone(t) ==
    /\ call[t].at = "scan" /\ call[t].next \notin Index
    /\ mtx' = None
    /\ call' = [call EXCEPT ![t].at = "token"]
    /\ UNCHANGED <<count, token, got, calls, starts, unsure, fates>>

(* Mutant: the token is stored only when the user has none.                *)
InsertTokenOnce(t) ==
    LET c == call[t] IN
    /\ c.at = "token"
    /\ \/ /\ token' = [token EXCEPT ![c.user] = IF @ = None THEN c.token ELSE @]
          /\ UNCHANGED unset
       \/ unset' = unset \union {c.token} /\ UNCHANGED token
    /\ call' = [call EXCEPT ![t].at = "reply"]
    /\ UNCHANGED <<count, mtx, got, calls, starts, unsure, lost, ended, before>>

(* insert_token: the result of the SET is ignored.                         *)
InsertToken(t) ==
    LET c == call[t] IN
    /\ c.at = "token"
    /\ \/ token' = [token EXCEPT ![c.user] = c.token] /\ UNCHANGED unset
       \/ unset' = unset \union {c.token} /\ UNCHANGED token
    /\ call' = [call EXCEPT ![t].at = "reply"]
    /\ UNCHANGED <<count, mtx, got, calls, starts, unsure, lost, ended, before>>

(* The call returns, and the gate server passes the token on; or the RPC   *)
(* fails, and the user is answered ERR_RPC without one.                    *)
Reply(t) ==
    LET c == call[t] IN
    /\ c.at = "reply"
    /\ \/ got' = [got EXCEPT ![c.user] = c.token] /\ UNCHANGED lost
       \/ lost' = lost \union {c.token} /\ UNCHANGED got
    /\ ended' = ended \union {c.token}
    /\ call' = [call EXCEPT ![t] = NoCall]
    /\ unsure' = [unsure EXCEPT ![t] = {}]
    /\ UNCHANGED <<count, token, mtx, calls, starts, unset, before>>

Step(t) == ScanFirst(t) \/ ScanNext(t) \/ ScanDone(t) \/ InsertToken(t) \/ Reply(t)

Next ==
    \/ \E t \in Threads : Step(t) \/ \E u \in Users : Ask(t, u)
    \/ \E i \in Index : ServerStart(i) \/ ServerStop(i) \/ ServerLogin(i)

Spec == Init /\ [][Next]_vars

------------------------------------------------------------------------------
(* Properties                                                              *)

Decided(t) == call[t].at \in {"token", "reply"}

(* Types, and the thread that scans has the mutex.                         *)
Guarded ==
    /\ TypeOK
    /\ \A t \in Threads : call[t].at = "scan" <=> mtx = t
    /\ \A t \in Threads : call[t].at # "none" => call[t].user \in Users /\ call[t].token \in Tokens

(* Although the counts change while they are read: of the servers that     *)
(* neither started nor stopped since the scan began, and whose HGET did    *)
(* not fail, none has fewer logins than the chosen one was seen to have;   *)
(* and when one of them is online, a server that is off is not chosen.     *)
LeastLoaded ==
    /\ Guarded
    /\ \A t \in Threads : Decided(t) =>
        /\ \A i \in Index \ unsure[t] : call[t].least <= Read(i)
        /\ (\E i \in Index \ unsure[t] : count[i] # Off)
              => count[call[t].min] # Off \/ call[t].min \in unsure[t]

(* What a scan has found, of the servers it has read: no server that it is *)
(* sure of has fewer logins than least, and least is INT_MAX when the      *)
(* server chosen is off.                                                   *)
ReadSoFar(t) == IF call[t].at = "scan" THEN 1..(call[t].next - 1) ELSE Index

ScanInv ==
    \A t \in Threads : call[t].at \in {"scan", "token", "reply"} =>
        /\ \A i \in ReadSoFar(t) \ unsure[t] : call[t].least <= Read(i)
        /\ call[t].min \notin unsure[t] /\ count[call[t].min] = Off => call[t].least = INT_MAX

IndInv == Guarded /\ ScanInv

(* Two calls were under way at the same time.                              *)
Overlap(m, n) == m \notin before[n] /\ n \notin before[m]

(* Once no call for a user is under way, the token that the user got last  *)
(* is the one that the chat servers find in redis, except in three cases,  *)
(* and in no others: its SET failed; the token that redis has was stored   *)
(* later by a call whose reply was lost; or its call and that one          *)
(* overlapped, and the replies came in the other order than the SETs.      *)
LastTokenWorks ==
    \A u \in Users :
        (\A t \in Threads : call[t].user # u) /\ got[u] # None /\ got[u] # token[u]
            => \/ got[u] \in unset
               \/ token[u] # None /\ (token[u] \in lost \/ Overlap(got[u], token[u]))

------------------------------------------------------------------------------
(* What the proof of LastTokenWorks needs besides.                         *)

(* Each call has a number of its own, and has returned or is under way.    *)
CallsApart ==
    /\ \A t \in Threads : call[t].at # "none" => call[t].token <= calls /\ call[t].token \notin ended
    /\ \A t, s \in Threads :
          t # s /\ call[t].at # "none" /\ call[s].at # "none" => call[t].token # call[s].token
    /\ \A n \in ended : n <= calls
    /\ \A n \in Tokens : before[n] \subseteq ended

(* A user's token in redis is that of a call for the user, which has       *)
(* returned or is about to; what the user has got, has returned.           *)
TokensMade ==
    \A u \in Users :
        /\ token[u] # None /\ token[u] \notin ended
              => \E t \in Threads : call[t].at = "reply" /\ call[t].user = u /\ call[t].token = token[u]
        /\ got[u] # None => got[u] \in ended

(* A token that was stored and is not there any more was overwritten by a  *)
(* call that had not returned when this one began ...                      *)
OverwrittenLater ==
    \A t \in Threads : call[t].at = "reply" /\ call[t].token \notin unset =>
        LET r == token[call[t].user] IN r # None /\ r \notin before[call[t].token]

(* ... so, when the user gets it, the two have overlapped.                 *)
Explained ==
    \A u \in Users : got[u] # None /\ got[u] # token[u] /\ got[u] \notin unset =>
        /\ token[u] # None
        /\ token[u] \notin ended \/ token[u] \in lost \/ Overlap(got[u], token[u])

TokenInv == CallsApart /\ TokensMade /\ OverwrittenLater /\ Explained
=============================================================================
