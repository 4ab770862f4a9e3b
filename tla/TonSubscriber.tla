---------------------------- MODULE TonSubscriber ----------------------------
(***************************************************************************)
(* src/engine/ton_subscriber/mod.rs: how the relay sees the TON network.   *)
(* The node calls process_block for every block; tasks of the relay wait   *)
(* for the state of a contract, subscribe to the transactions of one, or   *)
(* wait for a masterchain block.                                           *)
(*                                                                         *)
(* Each account of interest has one watch channel.  The map keeps a        *)
(* receiver of its own (state_rx), which waiters clone: a clone starts     *)
(* with what that receiver has seen.  The version counter of the channel   *)
(* is reduced to one flag per receiver, whether the last value is new to   *)
(* it.  Blocks and calls exclude each other by the lock of the map; a      *)
(* waiter reads, and drops its receiver, without it.                       *)
(*                                                                         *)
(* The calls of the messages queue that end handle_shard_block are module  *)
(* PendingMessagesQueue, what observers report is in BridgeEvents.         *)
(***************************************************************************)
EXTENDS Integers, Maps

CONSTANTS
    Accounts,   \* contracts
    Shards,     \* shards of the basechain
    Home,       \* Home[a]: the shard that contains account a
    Actives,    \* the states of an active contract
    Waiters,    \* calls of get_contract_state and wait_contract_state
    Target,     \* Target[w]: the argument `account` of call w
    Getters,    \* the calls of get_contract_state
    Observers,  \* arguments `subscription` of add_transactions_subscription
    Observed,   \* Observed[o]: the account that o is subscribed to
    MaxTime     \* bound: the last second

ASSUME ConstAssumption ==
    /\ Home \in [Accounts -> Shards]
    /\ Target \in [Waiters -> Accounts] /\ Getters \subseteq Waiters
    /\ Observed \in [Observers -> Accounts]
    /\ Actives \cap {"Missing", "Uninit", "Frozen", "None", "Waiting", "Failed"} = {}
    /\ MaxTime \in Nat

VARIABLES
    account,       \* node: the state of an account after the last block
    clock,         \* the wall clock
    ready,         \* AtomicBool
    notified,      \* engine_status_changed has called notify_waiters
    current_utime, \* time of the last masterchain block
    subs,          \* state_subscriptions: account -> [value, unseen, observers]
    call,          \* calls: "None", "Waiting", "Failed" or the returned state
    unseen,        \* waiting calls whose receiver has not seen the value
    alive,         \* observers that are subscribed and not dropped
    startup,       \* where `start` is
    since          \* the argument of wait_shards in `start`

waits == <<subs, call, unseen, alive>>
vars == <<account, clock, ready, notified, current_utime, waits, startup, since>>

AccountState == Actives \cup {"Missing", "Uninit", "Frozen"}
Subscription ==
    [value : AccountState, unseen : BOOLEAN, observers : SUBSET Observers]

TypeOK ==
    /\ account \in [Accounts -> AccountState]
    /\ clock \in 0..MaxTime /\ current_utime \in 0..MaxTime /\ since \in 0..MaxTime
    /\ ready \in BOOLEAN /\ notified \in BOOLEAN
    /\ DOMAIN subs \subseteq Accounts
    /\ subs \in [DOMAIN subs -> Subscription]
    /\ call \in [Waiters -> {"None", "Waiting", "Failed"} \cup AccountState]
    /\ unseen \subseteq Waiters
    /\ alive \subseteq Observers
    /\ startup \in {"load", "register", "signal", "woken", "shards", "done"}

Init ==
    /\ account \in [Accounts -> AccountState]
    /\ clock = 0 /\ ready = FALSE /\ notified = FALSE /\ current_utime = 0
    /\ subs = EmptyMap
    /\ call = [w \in Waiters |-> "None"]
    /\ unseen = {} /\ alive = {}
    /\ startup = "load" /\ since = 0

Waiting(w) == call[w] = "Waiting"

Receivers(a) == {w \in Waiters : Waiting(w) /\ Target[w] = a}

-----------------------------------------------------------------------------
(* Plausible mistakes, used to see that the properties notice them.        *)

StopWithoutReceivers(a) == IF Receivers(a) # {} THEN "Alive" ELSE "Stopped"

ObserversFirst(a) ==
    IF subs[a].observers \cap alive # {} THEN "PartlyAlive"
    ELSE IF Receivers(a) # {} THEN "Alive" ELSE "Stopped"

LeaveUnseen(a) == subs[a]

NoTest ==
    /\ startup = "load"
    /\ startup' = "register"
    /\ UNCHANGED <<account, clock, ready, notified, current_utime, waits, since>>

TakeFrozen(w, value) ==
    IF w \in Getters \/ value \notin {"Missing", "Uninit"} THEN value ELSE "Waiting"

-----------------------------------------------------------------------------
(* The callers.                                                            *)

(* A channel that holds None (the value of a missing account), not yet     *)
(* sent.                                                                   *)
NewSubscription(obs) == [value |-> "Missing", unseen |-> FALSE, observers |-> obs]

HasSub(a) == a \in DOMAIN subs

(* get_contract_state and wait_contract_state, up to the first await.      *)
CallState(w) ==
    /\ startup = "done"
    /\ call[w] = "None"
    /\ call' = [call EXCEPT ![w] = "Waiting"]
    /\ subs' = IF HasSub(Target[w]) THEN subs
               ELSE Put(subs, Target[w], NewSubscription({}))
    /\ unseen' = IF HasSub(Target[w]) /\ subs[Target[w]].unseen
                 THEN unseen \cup {w} ELSE unseen
    /\ UNCHANGED <<account, clock, ready, notified, current_utime, alive, startup, since>>

(* What a call makes of a value: the loop of wait_contract_state goes on   *)
(* while the account is missing or not initialised.                        *)
Outcome(w, value) ==
    IF w \in Getters \/ value \in Actives THEN value
    ELSE IF value = "Frozen" THEN "Failed" ELSE "Waiting"

(* changed() returns, or fails since the sender is gone; borrow_and_update. *)
Wake(w) ==
    /\ Waiting(w)
    /\ \/ /\ HasSub(Target[w]) /\ w \in unseen
          /\ call' = [call EXCEPT ![w] = Outcome(w, subs[Target[w]].value)]
       \/ /\ ~HasSub(Target[w])
          /\ call' = [call EXCEPT ![w] = "Failed"]
    /\ unseen' = unseen \ {w}
    /\ UNCHANGED <<account, clock, ready, notified, current_utime, subs, alive,
                   startup, since>>

(* The caller is done with the answer and a later one takes its place.     *)
Return(w) ==
    /\ call[w] \notin {"None", "Waiting"}
    /\ call' = [call EXCEPT ![w] = "None"]
    /\ UNCHANGED <<account, clock, ready, notified, current_utime, subs, unseen,
                   alive, startup, since>>

Subscribe(o) ==
    LET a == Observed[o]
    IN  subs' = IF HasSub(a) THEN [subs EXCEPT ![a].observers = @ \cup {o}]
                ELSE Put(subs, a, NewSubscription({o}))

add_transactions_subscription(o) ==
    /\ startup = "done"
    /\ o \notin alive
    /\ Subscribe(o)
    /\ alive' = alive \cup {o}
    /\ UNCHANGED <<account, clock, ready, notified, current_utime, call, unseen,
                   startup, since>>

(* The last Arc of the observer is dropped; the map only has a Weak, which *)
(* the next block removes.  A later observer may take the name.            *)
DropObserver(o) ==
    /\ o \in alive
    /\ alive' = alive \ {o}
    /\ UNCHANGED <<account, clock, ready, notified, current_utime, subs, call,
                   unseen, startup, since>>

-----------------------------------------------------------------------------
(* The node: engine_status_changed and process_block.                      *)

(* The two statements of engine_status_changed(Synced).                    *)
SetReady ==
    /\ ~ready
    /\ ready' = TRUE
    /\ UNCHANGED <<account, clock, notified, current_utime, waits, startup, since>>

NotifyWaiters ==
    /\ ready /\ ~notified
    /\ notified' = TRUE
    /\ startup' = IF startup = "signal" THEN "woken" ELSE startup
    /\ UNCHANGED <<account, clock, ready, current_utime, waits, since>>

(* StateSubscription::update_status.                                       *)
update_status(a) ==
    IF Receivers(a) # {} THEN "Alive"
    ELSE IF subs[a].observers \cap alive # {} THEN "PartlyAlive" ELSE "Stopped"

(* `state_rx.borrow_and_update()`, when nobody waits for the state.        *)
MarkSeen(a) == [subs[a] EXCEPT !.unseen = FALSE]

(* A subscription after a block of shard s with the account states acc.    *)
AfterBlock(s, acc, a) ==
    LET sub == IF Home[a] # s THEN subs[a]
               ELSE IF update_status(a) = "Alive"
                    THEN [subs[a] EXCEPT !.value = acc[a], !.unseen = TRUE]
                    ELSE MarkSeen(a)
    IN  [sub EXCEPT !.observers = @ \cap alive]

(* handle_shard_block: drops the subscriptions nobody needs, of any shard, *)
(* and sends the new states of this one.                                   *)
handle_shard_block(s, acc) ==
    /\ subs' = [a \in {b \in DOMAIN subs : update_status(b) # "Stopped"} |->
                   AfterBlock(s, acc, a)]
    /\ unseen' = unseen \cup
          {w \in Waiters : /\ Waiting(w) /\ HasSub(Target[w])
                           /\ Home[Target[w]] = s
                           /\ update_status(Target[w]) = "Alive"}

(* A block of shard s: its accounts are in the states acc.                 *)
ShardBlock(s, acc) ==
    /\ \A a \in Accounts : Home[a] # s => acc[a] = account[a]
    /\ account' = acc
    /\ IF ready THEN handle_shard_block(s, acc) ELSE UNCHANGED <<subs, unseen>>
    /\ UNCHANGED <<clock, ready, notified, current_utime, call, alive, startup, since>>

(* The test of the awaiter that wait_shards inserts.                       *)
LateEnough(t) == t >= since

(* handle_masterchain_block, with the awaiter of `start`: an awaiter       *)
(* without `since` is answered by the next block.                          *)
MasterchainBlock(t) ==
    /\ t \in current_utime..clock
    /\ current_utime' = t
    /\ startup' = IF ready /\ startup = "shards" /\ LateEnough(t)
                  THEN "done" ELSE startup
    /\ UNCHANGED <<account, clock, ready, notified, waits, since>>

-----------------------------------------------------------------------------
(* start: wait_sync, then wait_shards for a block of now.                  *)

StartLoad ==
    /\ startup = "load"
    /\ startup' = IF ready THEN "woken" ELSE "register"
    /\ UNCHANGED <<account, clock, ready, notified, current_utime, waits, since>>

(* `ready_signal.notified()`: a notification before this is lost.          *)
StartRegister ==
    /\ startup = "register"
    /\ startup' = "signal"
    /\ UNCHANGED <<account, clock, ready, notified, current_utime, waits, since>>

StartWaitShards ==
    /\ startup = "woken"
    /\ startup' = "shards"
    /\ since' = clock
    /\ UNCHANGED <<account, clock, ready, notified, current_utime, waits>>

Tick ==
    /\ clock < MaxTime
    /\ clock' = clock + 1
    /\ UNCHANGED <<account, ready, notified, current_utime, waits, startup, since>>

BlockOf(s) == \E acc \in [Accounts -> AccountState] : ShardBlock(s, acc)

Next ==
    \/ \E w \in Waiters : CallState(w) \/ Wake(w) \/ Return(w)
    \/ \E o \in Observers : add_transactions_subscription(o) \/ DropObserver(o)
    \/ SetReady \/ NotifyWaiters
    \/ \E s \in Shards : BlockOf(s)
    \/ \E t \in 0..MaxTime : MasterchainBlock(t)
    \/ StartLoad \/ StartRegister \/ StartWaitShards \/ Tick

Spec == Init /\ [][Next]_vars

(* The node synchronises and produces blocks of every shard and of the     *)
(* masterchain, which follow the clock; the tasks of the relay are         *)
(* scheduled.                                                              *)
Fairness ==
    /\ WF_vars(SetReady) /\ WF_vars(NotifyWaiters) /\ WF_vars(Tick)
    /\ \A s \in Shards : WF_vars(BlockOf(s))
    /\ WF_vars(MasterchainBlock(clock))
    /\ WF_vars(StartLoad) /\ WF_vars(StartRegister) /\ WF_vars(StartWaitShards)
    /\ \A w \in Waiters : WF_vars(Wake(w))

FairSpec == Spec /\ Fairness

-----------------------------------------------------------------------------
(* A call returns the state after the last block of the account's shard,   *)
(* not an older one left in the channel by a caller that is gone, and not  *)
(* the None a new channel holds.  What the bridge decides about an event   *)
(* rests on this.                                                          *)
ReturnsLatest ==
    [][\A w \in Waiters :
          Waiting(w) /\ call'[w] \in AccountState
              => call'[w] = account[Target[w]]]_vars

(* Channels, flags and subscriptions that blocks drop are nowhere to be    *)
(* seen: a call is one read of the account, and fails only if it is frozen *)
(* - never because the sender of its channel is gone.                      *)
States == INSTANCE ContractStates
ImplementsStates == States!Spec

(* The map has no subscription that is still needed to lose: a block of    *)
(* any shard may drop subscriptions, but whoever waits for a state has its *)
(* sender there, and an observer that is alive is listed.                  *)
SubscriptionsKept ==
    /\ \A w \in Waiters : Waiting(w) => HasSub(Target[w])
    /\ \A o \in alive : HasSub(Observed[o]) /\ o \in subs[Observed[o]].observers

(* `start` returns: the relay notices that the node is in sync whether it  *)
(* was before the test of `ready` or after the registration, and then gets *)
(* its masterchain block.  It hangs in one way only: the notification,     *)
(* which is sent once, falls between the test and the registration         *)
(* (326-331, 335-342).                                                     *)
NotifiedTooEarly ==
    <>(startup = "register" /\ ~notified) /\ <>(startup = "register" /\ notified)

StartReturns == <>(startup = "done") \/ NotifiedTooEarly

(* Whoever waits for a contract that stays active gets its state.          *)
WaiterServed ==
    \A w \in Waiters :
        <>[](account[Target[w]] \in Actives) => (Waiting(w) ~> ~Waiting(w))
=============================================================================
