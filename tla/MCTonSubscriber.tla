--------------------------- MODULE MCTonSubscriber ---------------------------
EXTENDS TonSubscriber

CONSTANTS a1, s1, s2, x, y, w1, w2, w3, o1

(* One account, two calls that wait for it and one that reads it, and an   *)
(* observer.  Blocks of the second shard only drop subscriptions.          *)
MCHome == [a \in Accounts |-> s1]
MCTarget == [w \in Waiters |-> a1]
MCObserved == [o \in Observers |-> a1]
=============================================================================
