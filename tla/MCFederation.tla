---------------------------- MODULE MCFederation ----------------------------
(* Two other servers, the clock of one at the limit of the skew; a cache for one *)
(* answer.  One peer is connected, a second can be added, or take its name.      *)
EXTENDS Federation

MCSkew == [u \in Urls |-> IF u = "u1" THEN 0 ELSE MaxSkew]
MCPeers == {[id |-> 1, name |-> "a", url |-> "u1", secret |-> "k", status |-> "connected"]}
=============================================================================
