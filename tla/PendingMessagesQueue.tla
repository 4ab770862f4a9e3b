------------------------ MODULE PendingMessagesQueue ------------------------
(***************************************************************************)
(* src/utils/pending_messages_queue.rs: the messages this relay has sent   *)
(* to the TON network and still waits for.  add_message is called by the   *)
(* task that sends a message, deliver_message and update by the handler of *)
(* a shard block: first one deliver_message for every message found in the *)
(* block, then one update with the block's time.  Blocks of different      *)
(* shards are handled concurrently.                                        *)
(*                                                                         *)
(* Every mutation happens under the mutex `entries`, so a critical section *)
(* is one step.  `update` reads min_expire_at before it takes the lock:    *)
(* that read and the critical section are two steps, and anything may      *)
(* happen between them.                                                    *)
(***************************************************************************)
EXTENDS Integers, FiniteSetsExt, Maps

CONSTANTS
    Msgs,    \* PendingMessageId: (account, message hash)
    Shards,  \* shard identifiers
    Home,    \* Home[m]: the shards that contain the account of m
    U32Max   \* u32::MAX: the value of an empty minimum and the end of time

ASSUME ConstAssumption ==
    /\ Home \in [Msgs -> SUBSET Shards]
    /\ U32Max \in Nat

VARIABLES
    entries,       \* the map: message -> expire_at
    min_expire_at, \* AtomicU32
    entry_count,   \* AtomicUsize
    rx,            \* what the oneshot receiver of a message holds
    pc,            \* the handler of a shard: "idle", or "lock": inside update
    utime,         \* the argument current_utime of the call of a shard
    swept          \* history: the current_utime of the last call that returned

vars == <<entries, min_expire_at, entry_count, rx, pc, utime, swept>>

Utime == 0..U32Max

RxValue == {"None", "Pending", "Delivered", "Expired"}

contains_account(s, m) == s \in Home[m]

(* What the loops over the entries compute: u32::MAX when there are none.  *)
MinOf(f) == Min({U32Max} \cup {f[m] : m \in DOMAIN f})

(* The entries that the closure given to `retain` in update drops.         *)
Expired(f, s, t) ==
    {m \in DOMAIN f : ~(t <= f[m] \/ ~contains_account(s, m))}

TypeOK ==
    /\ DOMAIN entries \subseteq Msgs
    /\ entries \in [DOMAIN entries -> Utime]
    /\ min_expire_at \in Utime
    /\ entry_count \in Nat
    /\ rx \in [Msgs -> RxValue]
    /\ pc \in [Shards -> {"idle", "lock"}]
    /\ utime \in [Shards -> Utime]
    /\ swept \in [Shards -> Utime]

Init ==
    /\ entries = EmptyMap
    /\ min_expire_at = U32Max
    /\ entry_count = 0
    /\ rx = [m \in Msgs |-> "None"]
    /\ pc = [s \in Shards |-> "idle"]
    /\ utime = [s \in Shards |-> 0]
    /\ swept = [s \in Shards |-> 0]

-----------------------------------------------------------------------------
(* Plausible mistakes, used to see that the properties notice them.        *)

NoCountOnAdd(m, e) ==
    /\ m \notin DOMAIN entries
    /\ entries' = Put(entries, m, e)
    /\ min_expire_at' = Min({min_expire_at, e})
    /\ rx' = [rx EXCEPT ![m] = "Pending"]
    /\ UNCHANGED <<entry_count, pc, utime, swept>>

DropWithoutAnswer(m) ==
    /\ m \in DOMAIN entries
    /\ entries' = Drop(entries, {m})
    /\ entry_count' = entry_count - 1
    /\ min_expire_at' = MinOf(entries')
    /\ UNCHANGED <<rx, pc, utime, swept>>

DeliverUnknown(m) ==
    /\ entries' = Drop(entries, {m})
    /\ entry_count' = entry_count - 1
    /\ rx' = [rx EXCEPT ![m] = "Delivered"]
    /\ min_expire_at' = MinOf(entries')
    /\ UNCHANGED <<pc, utime, swept>>

KeepMinOnDeliver(m) ==
    /\ m \in DOMAIN entries
    /\ entries' = Drop(entries, {m})
    /\ entry_count' = entry_count - 1
    /\ rx' = [rx EXCEPT ![m] = "Delivered"]
    /\ UNCHANGED <<min_expire_at, pc, utime, swept>>

NothingDueOffByOne(t) == t <= min_expire_at + 1

MinOfOwnShard(s, t) ==
    LET gone == Expired(entries, s, t)
        own == {m \in DOMAIN entries : contains_account(s, m)}
        kept == Drop(entries, gone)
    IN  /\ entries' = kept
        /\ entry_count' = Cardinality(DOMAIN kept)
        /\ min_expire_at' = MinOf([m \in DOMAIN kept \cap own |-> kept[m]])
        /\ rx' = [m \in Msgs |-> IF m \in gone THEN "Expired" ELSE rx[m]]

-----------------------------------------------------------------------------
(* add_message for an id that is not in the map.  For one that is, it      *)
(* returns AlreadyExists and changes nothing.                              *)
add_message(m, expire_at) ==
    /\ m \notin DOMAIN entries
    /\ entries' = Put(entries, m, expire_at)
    /\ min_expire_at' = Min({min_expire_at, expire_at})
    /\ entry_count' = entry_count + 1
    /\ rx' = [rx EXCEPT ![m] = "Pending"]
    /\ UNCHANGED <<pc, utime, swept>>

(* deliver_message for an id that is in the map (for another it returns at *)
(* once).  The minimum is computed again only if this entry may have been  *)
(* the one that set it.                                                    *)
deliver_message(m) ==
    /\ m \in DOMAIN entries
    /\ entries' = Drop(entries, {m})
    /\ entry_count' = entry_count - 1
    /\ rx' = [rx EXCEPT ![m] = "Delivered"]
    /\ min_expire_at' = IF min_expire_at # entries[m]
                        THEN min_expire_at
                        ELSE MinOf(entries')
    /\ UNCHANGED <<pc, utime, swept>>

(* A message is found in a block of a shard that contains its account,     *)
(* while the handler of that shard is not inside update.                   *)
Deliver(m) ==
    /\ \E s \in Shards : contains_account(s, m) /\ pc[s] = "idle"
    /\ deliver_message(m)

(* The early return of update.                                             *)
NothingDue(t) == t <= min_expire_at

(* update(s, t): the unlocked read of min_expire_at.  The times of the     *)
(* blocks of a shard never decrease.                                       *)
UpdateCheck(s, t) ==
    /\ pc[s] = "idle"
    /\ t >= utime[s]
    /\ utime' = [utime EXCEPT ![s] = t]
    /\ IF NothingDue(t)
       THEN pc' = pc /\ swept' = [swept EXCEPT ![s] = t]
       ELSE pc' = [pc EXCEPT ![s] = "lock"] /\ swept' = swept
    /\ UNCHANGED <<entries, min_expire_at, entry_count, rx>>

(* The critical section of update: retain, then both stores.               *)
Retain(s, t) ==
    LET gone == Expired(entries, s, t)
    IN  /\ entries' = Drop(entries, gone)
        /\ min_expire_at' = MinOf(entries')
        /\ entry_count' = Cardinality(DOMAIN entries')
        /\ rx' = [m \in Msgs |-> IF m \in gone THEN "Expired" ELSE rx[m]]

UpdateBody(s) ==
    /\ pc[s] = "lock"
    /\ Retain(s, utime[s])
    /\ pc' = [pc EXCEPT ![s] = "idle"]
    /\ swept' = [swept EXCEPT ![s] = utime[s]]
    /\ UNCHANGED utime

Next ==
    \/ \E m \in Msgs, e \in Utime : add_message(m, e)
    \/ \E m \in Msgs : Deliver(m)
    \/ \E s \in Shards, t \in Utime : UpdateCheck(s, t)
    \/ \E s \in Shards : UpdateBody(s)

Spec == Init /\ [][Next]_vars

(* Every shard keeps producing blocks and only finitely many of them share *)
(* a second (hence strong fairness: between two of them the handler is     *)
(* busy), and a handler that waits for the mutex gets it (nobody keeps it  *)
(* across a wait).                                                         *)
LaterBlock(s) ==
    \E t \in Utime : (t > utime[s] \/ t = U32Max) /\ UpdateCheck(s, t)

Fairness == \A s \in Shards : SF_vars(LaterBlock(s)) /\ WF_vars(UpdateBody(s))

FairSpec == Spec /\ Fairness

-----------------------------------------------------------------------------
(* The cached minimum is the least deadline in the map: `update` trusts it *)
(* without the lock, a value too large loses an expiry for as long as no   *)
(* other message is added, a value too small scans the map on every block. *)
MinExpireAtExact == min_expire_at = MinOf(entries)

(* entry_count, which three functions maintain in two different ways       *)
(* (fetch_add / fetch_sub, and store of the length) and the metrics read,  *)
(* is the number of messages in the map.                                   *)
CountExact ==
    /\ IsFiniteSet(DOMAIN entries)
    /\ entry_count = Cardinality(DOMAIN entries)

(* A receiver is unanswered exactly while the map holds its sender: nobody *)
(* waits for a message the queue has forgotten, and no message is resolved *)
(* twice.                                                                  *)
WaiterHasEntry ==
    \A m \in Msgs : rx[m] = "Pending" <=> m \in DOMAIN entries

(* Checking the deadline cache without the lock and sweeping under it is   *)
(* as good as one atomic sweep: an update that returns early had nothing   *)
(* to expire, and one that does not expires exactly the overdue messages   *)
(* of its own shard.                                                       *)
Abstract == INSTANCE MessageExpiry WITH waiting <- entries, answer <- rx
Refinement == Abstract!Spec

(* A message whose deadline is not the end of time does not wait forever,  *)
(* if some shard contains its account.                                     *)
Resolved ==
    \A m \in Msgs :
        (m \in DOMAIN entries /\ entries[m] < U32Max /\ Home[m] # {})
            ~> rx[m] \in {"Delivered", "Expired"}
=============================================================================
