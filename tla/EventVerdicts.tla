---------------------------- MODULE EventVerdicts ----------------------------
(***************************************************************************)
(* What EthSubscriber promises to the callers of verify, with no loop, no  *)
(* map, no ranges of blocks and no receipts: a call waits until its target *)
(* block and is then judged in one step, by the chain of that moment.  It  *)
(* is answered once, or dropped by a later call for the same log.          *)
(*                                                                         *)
(* Of the chain it says only which part can change: a log comes to, or     *)
(* leaves, none but the last MaxReorg blocks and the new ones.             *)
(***************************************************************************)
EXTENDS Integers

CONSTANTS
    Ids, Calls, Id, Block, Hash, Genuine, Conf,  \* as in EthSubscriber
    MaxReorg                                     \* the depth of what can change

VARIABLES
    height,  \* number of the last block
    log,     \* the block that holds the log of an id, or Absent
    moved,   \* ids whose log has left a block
    answer   \* what the caller of verify has received

vars == <<height, log, moved, answer>>

Absent == [num |-> 0, ver |-> 0]
Answer == {"None", "Waiting", "Exists", "NotExists", "Dropped"}

Shallow(place) == place = Absent \/ place.num + MaxReorg > height

OnChain(c) ==
    c \in Genuine /\ log[Id[c]] = [num |-> Block[c], ver |-> Hash[c]]

Init ==
    /\ height = 1
    /\ log = [i \in Ids |-> Absent]
    /\ moved = {}
    /\ answer = [c \in Calls |-> "None"]

ChainMoves ==
    /\ height' >= height
    /\ \A i \in Ids : log'[i] # log[i] => Shallow(log[i]) /\ Shallow(log'[i])
    /\ moved \subseteq moved'
    /\ \A i \in Ids : log'[i] # log[i] /\ log[i] # Absent => i \in moved'
    /\ UNCHANGED answer

Ask(c) ==
    /\ answer[c] = "None"
    /\ answer' = [d \in Calls |->
                     IF d = c THEN "Waiting"
                     ELSE IF Id[d] = Id[c] /\ answer[d] = "Waiting" THEN "Dropped"
                     ELSE answer[d]]
    /\ UNCHANGED <<height, log, moved>>

(* A log that is in its block is refused only if it was elsewhere before,  *)
(* and only where more than one block can be replaced.                     *)
Verdict(c, v) ==
    /\ Block[c] + Conf[c] <= height
    /\ \/ v = "Exists" /\ OnChain(c)
       \/ v = "NotExists" /\ (OnChain(c) => MaxReorg > 1 /\ Id[c] \in moved)

(* One look at the chain may settle several calls.                         *)
Judge ==
    /\ answer' \in [Calls -> Answer]
    /\ \A c \in Calls :
          answer'[c] # answer[c] => answer[c] = "Waiting" /\ Verdict(c, answer'[c])
    /\ UNCHANGED <<height, log, moved>>

Next == ChainMoves \/ (\E c \in Calls : Ask(c)) \/ Judge

Spec == Init /\ [][Next]_vars
=============================================================================
