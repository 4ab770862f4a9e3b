----------------------- MODULE MCPendingMessagesQueue -----------------------
EXTENDS PendingMessagesQueue, TLC

CONSTANTS m1, m2, m3, s1, s2

(* Two messages for accounts of different shards, and one whose account is *)
(* in both: a shard and its successor after a split overlap.               *)
MCHome == m1 :> {s1} @@ m2 :> {s2} @@ m3 :> {s1, s2}
=============================================================================
