---------------------------- MODULE MessageExpiry ----------------------------
(***************************************************************************)
(* What PendingMessagesQueue promises to its callers, with no lock, no     *)
(* cached minimum and no counter: a message waits until it is seen in a    *)
(* block (Delivered) or until a block of its own shard is later than its   *)
(* deadline (Expired).  Sweep(s, t) is the whole effect of one call of     *)
(* update for a block of shard s generated at time t, in one step.         *)
(***************************************************************************)
EXTENDS Integers, Maps

CONSTANTS
    Msgs,    \* PendingMessageId: (account, message hash)
    Shards,  \* shard identifiers
    Home,    \* the shards that contain the account of a message
    U32Max   \* the largest u32

VARIABLES
    waiting, \* the deadline of every message somebody waits for
    answer,  \* what the waiter of a message was told last
    swept    \* per shard, the time of the last block that was swept

vars == <<waiting, answer, swept>>

Overdue(s, t) == {m \in DOMAIN waiting : s \in Home[m] /\ t > waiting[m]}

Init ==
    /\ waiting = EmptyMap
    /\ answer = [m \in Msgs |-> "None"]
    /\ swept = [s \in Shards |-> 0]

Add(m, deadline) ==
    /\ m \notin DOMAIN waiting
    /\ waiting' = Put(waiting, m, deadline)
    /\ answer' = [answer EXCEPT ![m] = "Pending"]
    /\ UNCHANGED swept

Deliver(m) ==
    /\ m \in DOMAIN waiting
    /\ waiting' = Drop(waiting, {m})
    /\ answer' = [answer EXCEPT ![m] = "Delivered"]
    /\ UNCHANGED swept

Sweep(s, t) ==
    /\ t >= swept[s]
    /\ waiting' = Drop(waiting, Overdue(s, t))
    /\ answer' = [m \in Msgs |->
                     IF m \in Overdue(s, t) THEN "Expired" ELSE answer[m]]
    /\ swept' = [swept EXCEPT ![s] = t]

Next ==
    \/ \E m \in Msgs, deadline \in 0..U32Max : Add(m, deadline)
    \/ \E m \in Msgs : Deliver(m)
    \/ \E s \in Shards, t \in 0..U32Max : Sweep(s, t)

Spec == Init /\ [][Next]_vars
=============================================================================
