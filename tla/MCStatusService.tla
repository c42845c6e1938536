--------------------------- MODULE MCStatusService ---------------------------
(* Two chat servers, two gRPC threads.                                   *)
EXTENDS StatusService

MCServers == <<"s1", "s2">>
==============================================================================
