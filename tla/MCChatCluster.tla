--------------------------- MODULE MCChatCluster ---------------------------
(***************************************************************************)
(* Two servers that have been restarted while redis kept the homes of two  *)
(* users, each at another server: a request at either one calls the other. *)
(***************************************************************************)
EXTENDS ChatCluster

CONSTANTS s1, s2, u1, u2

MCServers == {s1, s2}
MCUsers == {u1, u2}

MCInit == Init /\ uip = [u \in MCUsers |-> IF u = u1 THEN s2 ELSE s1]

MCFairSpec == MCInit /\ [][Next]_vars /\ Fairness
=============================================================================
