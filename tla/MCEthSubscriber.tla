-------------------------- MODULE MCEthSubscriber --------------------------
EXTENDS EthSubscriber

CONSTANTS i1, i2, c1, c2, c3

(* c1 and c2 are for the same log and differ in the voted block (the first *)
(* one mined, or the one that replaces it), c3 is for another log.         *)
MCId == [c \in Calls |-> IF c = c3 THEN i2 ELSE i1]
MCBlock == [c \in Calls |-> IF c = c3 THEN 3 ELSE 2]
MCHash == [c \in Calls |-> IF c = c2 THEN 1 ELSE 0]
MCConf == [c \in Calls |-> MaxReorg]

(* Two configurations with the same emitter and topic: c1 and c2 agree on  *)
(* the log and on its block.                                               *)
MCHashSame == [c \in Calls |-> 0]
=============================================================================
