------------------------- MODULE TonSubscriberProofs -------------------------
(***************************************************************************)
(* The state handed to a waiter is the latest, and no subscription that is *)
(* needed is dropped, for any accounts, shards, calls and observers.       *)
(***************************************************************************)
EXTENDS TonSubscriber, TLAPS

(* Every point of `start` after wait_sync is reached with `ready` set, and *)
(* before that there are no subscriptions.                                 *)
SyncInv ==
    /\ startup \in {"woken", "shards", "done"} => ready
    /\ startup # "done" => DOMAIN subs = {} /\ unseen = {} /\ alive = {}
    /\ startup # "done" => \A w \in Waiters : call[w] = "None"

(* A value that is new to a receiver, be it the map's own or a waiter's,   *)
(* is the state after the last block: when nobody waits, the map's own     *)
(* receiver is told at every block that it has seen the value.             *)
UnseenIsLatest ==
    /\ \A a \in DOMAIN subs : subs[a].unseen => subs[a].value = account[a]
    /\ \A w \in unseen : /\ Waiting(w)
                         /\ HasSub(Target[w])
                         /\ subs[Target[w]].value = account[Target[w]]

TonInv ==
    TypeOK /\ SyncInv /\ SubscriptionsKept /\ UnseenIsLatest

-----------------------------------------------------------------------------
(* The subscriber that TonSubscriber::new builds satisfies TonInv.         *)
LEMMA TonInit == Init => TonInv
<1> SUFFICES ASSUME Init PROVE TonInv
  OBVIOUS
<1> USE DEF Init, EmptyMap
<1>1. TypeOK
  <2>1. 0 \in 0..MaxTime
    BY ConstAssumption
  <2>2. subs \in [DOMAIN subs -> Subscription] /\ DOMAIN subs \subseteq Accounts
    OBVIOUS
  <2>3. call \in [Waiters -> {"None", "Waiting", "Failed"} \cup AccountState]
    OBVIOUS
  <2> QED BY <2>1, <2>2, <2>3 DEF TypeOK
<1>2. SyncInv
  BY DEF SyncInv
<1>3. SubscriptionsKept /\ UnseenIsLatest
  BY DEF SubscriptionsKept, UnseenIsLatest, Waiting
<1> QED
  BY <1>1, <1>2, <1>3 DEF TonInv

(* Steps that leave subscriptions, calls and states alone.                 *)
LEMMA QuietStep ==
    ASSUME TonInv, UNCHANGED <<account, subs, call, unseen, alive>>
    PROVE  SubscriptionsKept' /\ UnseenIsLatest'
BY DEF TonInv, SubscriptionsKept, UnseenIsLatest, Waiting, HasSub

(* A new call finds or makes its subscription, and its receiver starts     *)
(* with what the map's own receiver has seen.                              *)
LEMMA CallStateInv ==
    ASSUME TonInv, NEW w \in Waiters, CallState(w)
    PROVE  TonInv'
<1> USE DEF TonInv, CallState
<1> DEFINE a == Target[w]
<1>0. a \in Accounts
  BY ConstAssumption
<1>1. /\ DOMAIN subs' = DOMAIN subs \cup {a}
      /\ \A b \in DOMAIN subs : subs'[b] = subs[b]
      /\ a \notin DOMAIN subs => subs'[a] = NewSubscription({})
  BY DEF HasSub, Put
<1>2. NewSubscription({}) \in Subscription
  BY DEF NewSubscription, Subscription, AccountState
<1>3. subs' \in [DOMAIN subs' -> Subscription]
  BY <1>1, <1>2 DEF TypeOK, HasSub, Put
<1>4. TypeOK'
  BY <1>0, <1>1, <1>3 DEF TypeOK
<1>5. SyncInv'
  BY DEF SyncInv
<1>6. SubscriptionsKept'
  <2>1. \A v \in Waiters : Waiting(v)' => Target[v] \in DOMAIN subs'
    BY <1>1 DEF SubscriptionsKept, TypeOK, Waiting, HasSub
  <2>2. \A o \in alive : Observed[o] \in DOMAIN subs' /\ o \in subs'[Observed[o]].observers
    BY <1>1 DEF SubscriptionsKept, HasSub
  <2> QED BY <2>1, <2>2 DEF SubscriptionsKept, HasSub
<1>7. UnseenIsLatest'
  <2>1. \A b \in DOMAIN subs' : subs'[b].unseen => subs'[b].value = account'[b]
    BY <1>1 DEF UnseenIsLatest, NewSubscription
  <2>2. ASSUME NEW v \in unseen'
        PROVE  Waiting(v)' /\ HasSub(Target[v])'
               /\ subs'[Target[v]].value = account'[Target[v]]
    <3>1. CASE v \in unseen
      BY <1>1, <3>1 DEF UnseenIsLatest, TypeOK, Waiting, HasSub
    <3>2. CASE v \notin unseen
      <4>1. v = w /\ a \in DOMAIN subs /\ subs[a].unseen
        BY <3>2, <2>2 DEF HasSub
      <4> QED BY <1>1, <4>1 DEF UnseenIsLatest, TypeOK, Waiting, HasSub
    <3> QED BY <3>1, <3>2
  <2> QED BY <2>1, <2>2 DEF UnseenIsLatest
<1> QED BY <1>4, <1>5, <1>6, <1>7

(* A waiter reads the channel and perhaps goes.                            *)
LEMMA WakeInv ==
    ASSUME TonInv, NEW w \in Waiters, Wake(w)
    PROVE  TonInv'
<1> USE DEF TonInv, Wake
<1> DEFINE a == Target[w]
<1>1. HasSub(a)
  BY DEF SubscriptionsKept
<1>2. w \in unseen /\ call' = [call EXCEPT ![w] = Outcome(w, subs[a].value)]
  BY <1>1
<1>3. subs[a].value \in AccountState
  BY <1>1 DEF TypeOK, HasSub, Subscription
<1>4. Outcome(w, subs[a].value) \in {"Waiting", "Failed"} \cup AccountState
  BY <1>3 DEF Outcome
<1>5. TypeOK'
  BY <1>2, <1>4 DEF TypeOK
<1>6. startup = "done"
  BY DEF SyncInv, Waiting
<1>7. SyncInv'
  BY <1>6 DEF SyncInv
<1>8. \A v \in Waiters : Waiting(v)' => Waiting(v)
  BY <1>2 DEF TypeOK, Waiting
<1>9. \A v \in Waiters \ {w} : Waiting(v) => Waiting(v)'
  BY <1>2 DEF TypeOK, Waiting
<1>10. SubscriptionsKept'
  BY <1>8 DEF SubscriptionsKept, HasSub
<1>11. UnseenIsLatest'
  BY <1>9 DEF UnseenIsLatest, HasSub, TypeOK
<1> QED BY <1>5, <1>7, <1>10, <1>11

(* A caller that was answered leaves.                                     *)
LEMMA ReturnInv ==
    ASSUME TonInv, NEW w \in Waiters, Return(w)
    PROVE  TonInv'
<1> USE DEF TonInv, Return
<1>1. TypeOK'
  BY DEF TypeOK
<1>2. SyncInv'
  BY DEF SyncInv, TypeOK
<1>3. \A v \in Waiters : Waiting(v)' <=> Waiting(v)
  BY DEF TypeOK, Waiting
<1>4. SubscriptionsKept'
  BY <1>3 DEF SubscriptionsKept, HasSub
<1>5. UnseenIsLatest'
  BY <1>3 DEF UnseenIsLatest, HasSub, TypeOK
<1> QED BY <1>1, <1>2, <1>4, <1>5

(* add_transactions_subscription only adds: an entry keeps its value and   *)
(* its flag.                                                               *)
LEMMA SubscribeInv ==
    ASSUME TonInv, NEW o \in Observers, add_transactions_subscription(o)
    PROVE  TonInv'
<1> USE DEF TonInv, add_transactions_subscription
<1> DEFINE a == Observed[o]
<1>0. a \in Accounts
  BY ConstAssumption
<1>1. NewSubscription({o}) \in Subscription
  BY DEF NewSubscription, Subscription, AccountState
<1>2. /\ DOMAIN subs' = DOMAIN subs \cup {a}
      /\ subs' \in [DOMAIN subs' -> Subscription]
      /\ \A b \in DOMAIN subs : /\ subs'[b].value = subs[b].value
                                /\ subs'[b].unseen = subs[b].unseen
                                /\ subs[b].observers \subseteq subs'[b].observers
      /\ a \notin DOMAIN subs => subs'[a] = NewSubscription({o})
      /\ o \in subs'[a].observers
  <2>1. CASE a \in DOMAIN subs
    <3>1. subs' = [subs EXCEPT ![a].observers = @ \cup {o}]
      BY <2>1 DEF Subscribe, HasSub
    <3> QED BY <2>1, <3>1 DEF TypeOK, Subscription
  <2>2. CASE a \notin DOMAIN subs
    <3>1. subs' = Put(subs, a, NewSubscription({o}))
      BY <2>2 DEF Subscribe, HasSub
    <3>2. /\ DOMAIN subs' = DOMAIN subs \cup {a}
          /\ \A b \in DOMAIN subs : subs'[b] = subs[b]
          /\ subs'[a] = NewSubscription({o})
      BY <2>2, <3>1 DEF Put
    <3>3. subs' \in [DOMAIN subs' -> Subscription]
      BY <3>1, <3>2, <1>1 DEF TypeOK, Put
    <3>4. o \in subs'[a].observers
      BY <3>2 DEF NewSubscription
    <3> QED BY <2>2, <3>2, <3>3, <3>4
  <2> QED BY <2>1, <2>2
<1>3. TypeOK'
  BY <1>0, <1>2 DEF TypeOK
<1>4. SyncInv'
  BY DEF SyncInv
<1>5. SubscriptionsKept'
  BY <1>2 DEF SubscriptionsKept, HasSub, Waiting
<1>6. UnseenIsLatest'
  BY <1>2 DEF UnseenIsLatest, HasSub, Waiting, NewSubscription
<1> QED BY <1>3, <1>4, <1>5, <1>6

(* Dropping an observer weakens what has to be kept.                       *)
LEMMA DropObserverInv ==
    ASSUME TonInv, NEW o \in Observers, DropObserver(o)
    PROVE  TonInv'
<1> USE DEF TonInv, DropObserver
<1>1. TypeOK'
  BY DEF TypeOK
<1>2. SyncInv'
  BY DEF SyncInv
<1>3. SubscriptionsKept' /\ UnseenIsLatest'
  BY DEF SubscriptionsKept, UnseenIsLatest, HasSub, Waiting
<1> QED BY <1>1, <1>2, <1>3

(* A block: subscriptions somebody waits on get the new state, all others  *)
(* of its shard are marked as seen, those of other shards keep a state     *)
(* that is still the latest.                                               *)
LEMMA ShardBlockInv ==
    ASSUME TonInv, NEW s \in Shards, NEW acc \in [Accounts -> AccountState],
           ShardBlock(s, acc)
    PROVE  TonInv'
<1> USE DEF TonInv, ShardBlock
<1>1. CASE ~ready
  <2>1. DOMAIN subs = {} /\ unseen = {}
    BY <1>1 DEF SyncInv
  <2>2. TypeOK' /\ SyncInv'
    BY <1>1 DEF TypeOK, SyncInv
  <2>3. SubscriptionsKept'
    BY <1>1 DEF SubscriptionsKept, HasSub, Waiting
  <2>4. UnseenIsLatest'
    BY <1>1, <2>1 DEF UnseenIsLatest
  <2> QED BY <2>2, <2>3, <2>4
<1>2. CASE ready
  <2> DEFINE Kept == {b \in DOMAIN subs : update_status(b) # "Stopped"}
  <2>1. /\ subs' = [b \in Kept |-> AfterBlock(s, acc, b)]
        /\ unseen' = unseen \cup
              {w \in Waiters : /\ Waiting(w) /\ HasSub(Target[w])
                               /\ Home[Target[w]] = s
                               /\ update_status(Target[w]) = "Alive"}
    BY <1>2 DEF handle_shard_block
  <2>2. ASSUME NEW b \in DOMAIN subs
        PROVE  /\ AfterBlock(s, acc, b) \in Subscription
               /\ AfterBlock(s, acc, b).observers = subs[b].observers \cap alive
               /\ Home[b] # s => /\ AfterBlock(s, acc, b).unseen = subs[b].unseen
                                 /\ AfterBlock(s, acc, b).value = subs[b].value
               /\ Home[b] = s /\ update_status(b) = "Alive"
                    => AfterBlock(s, acc, b).value = acc[b]
               /\ Home[b] = s /\ update_status(b) # "Alive"
                    => ~AfterBlock(s, acc, b).unseen
    <3>1. subs[b] \in Subscription /\ acc[b] \in AccountState
      BY DEF TypeOK
    <3>2. /\ [subs[b] EXCEPT !.value = acc[b], !.unseen = TRUE] \in Subscription
          /\ [subs[b] EXCEPT !.value = acc[b], !.unseen = TRUE].value = acc[b]
          /\ [subs[b] EXCEPT !.value = acc[b], !.unseen = TRUE].observers = subs[b].observers
      BY <3>1 DEF Subscription
    <3>3. /\ MarkSeen(b) \in Subscription /\ ~MarkSeen(b).unseen
          /\ MarkSeen(b).observers = subs[b].observers
      BY <3>1 DEF Subscription, MarkSeen
    <3>4. ASSUME NEW sub \in Subscription
          PROVE  /\ [sub EXCEPT !.observers = @ \cap alive] \in Subscription
                 /\ [sub EXCEPT !.observers = @ \cap alive].observers
                       = sub.observers \cap alive
                 /\ [sub EXCEPT !.observers = @ \cap alive].unseen = sub.unseen
                 /\ [sub EXCEPT !.observers = @ \cap alive].value = sub.value
      BY DEF Subscription
    <3>5. CASE Home[b] # s
      BY <3>1, <3>4, <3>5 DEF AfterBlock
    <3>6. CASE Home[b] = s /\ update_status(b) = "Alive"
      <4>1. AfterBlock(s, acc, b) =
              [[subs[b] EXCEPT !.value = acc[b], !.unseen = TRUE]
                  EXCEPT !.observers = @ \cap alive]
        BY <3>6 DEF AfterBlock
      <4> QED BY <3>2, <3>4, <3>6, <4>1
    <3>7. CASE Home[b] = s /\ update_status(b) # "Alive"
      <4>1. AfterBlock(s, acc, b) = [MarkSeen(b) EXCEPT !.observers = @ \cap alive]
        BY <3>7 DEF AfterBlock
      <4> QED BY <3>3, <3>4, <3>7, <4>1
    <3> QED BY <3>5, <3>6, <3>7
  <2>3. \A w \in Waiters : Waiting(w) => update_status(Target[w]) = "Alive"
    BY DEF update_status, Receivers
  <2>4. \A o \in alive : update_status(Observed[o]) # "Stopped"
    BY DEF update_status, SubscriptionsKept
  <2>5. \A w \in Waiters : Waiting(w) => Target[w] \in Kept
    BY <2>3 DEF SubscriptionsKept, HasSub
  <2>6. \A o \in alive : Observed[o] \in Kept
    BY <2>4 DEF SubscriptionsKept, HasSub
  <2>7. subs' \in [DOMAIN subs' -> Subscription] /\ DOMAIN subs' = Kept
    BY <2>1, <2>2
  <2>8. TypeOK'
    BY <2>1, <2>7 DEF TypeOK
  <2>9. SyncInv'
    <3>1. startup # "done" => DOMAIN subs' = {} /\ unseen' = {}
      BY <2>1, <2>7 DEF SyncInv, HasSub
    <3> QED BY <3>1 DEF SyncInv
  <2>10. SubscriptionsKept'
    <3>1. \A w \in Waiters : Waiting(w)' => HasSub(Target[w])'
      BY <2>5, <2>7 DEF Waiting, HasSub
    <3>2. ASSUME NEW o \in alive'
          PROVE  HasSub(Observed[o])' /\ o \in subs'[Observed[o]].observers
      <4>1. o \in alive /\ Observed[o] \in Kept /\ o \in subs[Observed[o]].observers
        BY <2>6 DEF SubscriptionsKept
      <4>2. subs'[Observed[o]].observers = subs[Observed[o]].observers \cap alive
        BY <2>1, <2>2, <4>1
      <4> QED BY <2>7, <4>1, <4>2 DEF HasSub
    <3> QED BY <3>1, <3>2 DEF SubscriptionsKept
  <2>11. UnseenIsLatest'
    <3>1. ASSUME NEW b \in DOMAIN subs', subs'[b].unseen
          PROVE  subs'[b].value = account'[b]
      <4>1. b \in Kept /\ b \in DOMAIN subs /\ b \in Accounts
            /\ subs'[b] = AfterBlock(s, acc, b)
        BY <2>1, <2>7 DEF TypeOK
      <4>2. CASE Home[b] # s
        BY <2>2, <3>1, <4>1, <4>2 DEF UnseenIsLatest
      <4>3. CASE Home[b] = s
        BY <2>2, <3>1, <4>1, <4>3
      <4> QED BY <4>2, <4>3
    <3>2. ASSUME NEW w \in unseen'
          PROVE  Waiting(w)' /\ HasSub(Target[w])'
                 /\ subs'[Target[w]].value = account'[Target[w]]
      <4> DEFINE b == Target[w]
      <4>1. w \in Waiters /\ Waiting(w)
        BY <2>1 DEF UnseenIsLatest, TypeOK
      <4>2. b \in Kept /\ b \in DOMAIN subs /\ b \in Accounts
            /\ update_status(b) = "Alive" /\ subs'[b] = AfterBlock(s, acc, b)
        BY <2>1, <2>3, <2>5, <4>1 DEF TypeOK
      <4>3. CASE Home[b] = s
        BY <2>2, <2>7, <4>1, <4>2, <4>3 DEF Waiting, HasSub
      <4>4. CASE Home[b] # s
        <5>1. w \in unseen
          BY <2>1, <4>4
        <5> QED BY <2>2, <2>7, <4>1, <4>2, <4>4, <5>1 DEF UnseenIsLatest, Waiting, HasSub
      <4> QED BY <4>3, <4>4
    <3> QED BY <3>1, <3>2 DEF UnseenIsLatest
  <2> QED BY <2>8, <2>9, <2>10, <2>11
<1> QED BY <1>1, <1>2

(* The node's status, masterchain blocks, the steps of `start` and time.   *)
LEMMA StartInv ==
    ASSUME TonInv,
           \/ SetReady \/ NotifyWaiters
           \/ \E t \in 0..MaxTime : MasterchainBlock(t)
           \/ StartLoad \/ StartRegister \/ StartWaitShards \/ Tick
    PROVE  TonInv'
<1> USE DEF TonInv, waits
<1>1. UNCHANGED <<account, subs, call, unseen, alive>>
  BY DEF SetReady, NotifyWaiters, MasterchainBlock, StartLoad, StartRegister,
         StartWaitShards, Tick
<1>2. SubscriptionsKept' /\ UnseenIsLatest'
  BY <1>1, QuietStep
<1> USE ConstAssumption DEF TypeOK
<1>3. CASE SetReady
  BY <1>1, <1>2, <1>3 DEF SetReady, SyncInv
<1>4. CASE NotifyWaiters
  BY <1>1, <1>2, <1>4 DEF NotifyWaiters, SyncInv
<1>5. CASE \E t \in 0..MaxTime : MasterchainBlock(t)
  BY <1>1, <1>2, <1>5 DEF MasterchainBlock, LateEnough, SyncInv
<1>6. CASE StartLoad \/ StartRegister
  BY <1>1, <1>2, <1>6 DEF StartLoad, StartRegister, SyncInv
<1>7. CASE StartWaitShards
  BY <1>1, <1>2, <1>7 DEF StartWaitShards, SyncInv
<1>8. CASE Tick
  BY <1>1, <1>2, <1>8 DEF Tick, SyncInv
<1> QED BY <1>3, <1>4, <1>5, <1>6, <1>7, <1>8

(* Every step of the subscriber, its callers and the node keeps TonInv.    *)
LEMMA TonStep == TonInv /\ [Next]_vars => TonInv'
<1> SUFFICES ASSUME TonInv, [Next]_vars PROVE TonInv'
  OBVIOUS
<1>1. CASE UNCHANGED vars
  BY <1>1 DEF vars, waits, TonInv, TypeOK, SyncInv, SubscriptionsKept,
     UnseenIsLatest, Waiting, HasSub
<1>2. ASSUME NEW w \in Waiters, CallState(w) \/ Wake(w) \/ Return(w)
      PROVE  TonInv'
  BY <1>2, CallStateInv, WakeInv, ReturnInv
<1>3. ASSUME NEW o \in Observers,
             add_transactions_subscription(o) \/ DropObserver(o)
      PROVE  TonInv'
  BY <1>3, SubscribeInv, DropObserverInv
<1>4. ASSUME NEW s \in Shards, BlockOf(s)
      PROVE  TonInv'
  BY <1>4, ShardBlockInv DEF BlockOf
<1>5. CASE \/ SetReady \/ NotifyWaiters
           \/ \E t \in 0..MaxTime : MasterchainBlock(t)
           \/ StartLoad \/ StartRegister \/ StartWaitShards \/ Tick
  BY <1>5, StartInv
<1> QED
  BY <1>1, <1>2, <1>3, <1>4, <1>5 DEF Next

-----------------------------------------------------------------------------
(* No block, of whatever shard, drops a subscription that a caller or an   *)
(* observer needs.                                                         *)
THEOREM NothingNeededIsDropped == Spec => []TypeOK /\ []SubscriptionsKept
<1>1. TonInv => TypeOK /\ SubscriptionsKept
  BY DEF TonInv
<1> QED
  BY <1>1, TonInit, TonStep, PTL DEF Spec

(* get_contract_state and wait_contract_state return the state after the   *)
(* last handled block of the account's shard.                              *)
THEOREM StatesAreLatest == Spec => ReturnsLatest
<1> DEFINE Latest ==
      \A w \in Waiters : Waiting(w) /\ call'[w] \in AccountState
                            => call'[w] = account[Target[w]]
<1>1. TonInv /\ [Next]_vars => [Latest]_vars
  <2> SUFFICES ASSUME TonInv, Next, NEW w \in Waiters,
                      Waiting(w), call'[w] \in AccountState
               PROVE  call'[w] = account[Target[w]]
    OBVIOUS
  <2>1. "Waiting" \notin AccountState /\ "Failed" \notin AccountState
    BY ConstAssumption DEF AccountState
  <2>2. call'[w] # call[w]
    BY <2>1 DEF Waiting
  <2>3. ASSUME NEW v \in Waiters, CallState(v) \/ Return(v)
        PROVE  FALSE
    <3>1. v # w
      BY <2>3 DEF CallState, Return, Waiting
    <3> QED BY <2>2, <2>3, <3>1 DEF CallState, Return, TonInv, TypeOK
  <2>4. ASSUME NEW v \in Waiters, Wake(v)
        PROVE  call'[w] = account[Target[w]]
    <3>1. v = w
      BY <2>2, <2>4 DEF Wake, TonInv, TypeOK
    <3>2. HasSub(Target[w])
      BY DEF TonInv, SubscriptionsKept
    <3>3. w \in unseen /\ call'[w] = Outcome(w, subs[Target[w]].value)
      BY <2>4, <3>1, <3>2 DEF Wake, TonInv, TypeOK
    <3>4. Outcome(w, subs[Target[w]].value) = subs[Target[w]].value
      BY <2>1, <3>3 DEF Outcome
    <3> QED BY <3>3, <3>4 DEF TonInv, UnseenIsLatest
  <2>5. CASE call' = call
    BY <2>2, <2>5
  <2>6. call' = call \/ \E v \in Waiters : CallState(v) \/ Wake(v) \/ Return(v)
    BY DEF Next, BlockOf, ShardBlock, handle_shard_block, SetReady, NotifyWaiters,
           MasterchainBlock, StartLoad, StartRegister, StartWaitShards, Tick, waits,
           add_transactions_subscription, DropObserver
  <2> QED BY <2>3, <2>4, <2>5, <2>6
<1> QED
  BY <1>1, TonInit, TonStep, PTL DEF Spec, ReturnsLatest

-----------------------------------------------------------------------------
(* The refinement of ContractStates.                                       *)

(* A waiter that wakes reads the account as it is, or goes on to wait: its *)
(* channel is there, and a value that is new to it is the latest.          *)
LEMMA WakeRefines ==
    ASSUME TonInv, NEW w \in Waiters, Wake(w)
    PROVE  States!Read(w) \/ UNCHANGED States!vars
<1> DEFINE state == account[Target[w]]
<1>1. HasSub(Target[w])
  BY DEF TonInv, SubscriptionsKept, Wake
<1>2. /\ w \in unseen /\ account' = account /\ call[w] = "Waiting"
      /\ call' = [call EXCEPT ![w] = Outcome(w, state)]
  BY <1>1 DEF Wake, Waiting, TonInv, UnseenIsLatest
<1>3. state \in AccountState
  BY ConstAssumption DEF TonInv, TypeOK
<1>4. CASE w \in Getters \/ state \in Actives
  BY <1>2, <1>4 DEF Outcome, States!Read, States!Become
<1>5. CASE w \notin Getters /\ state \notin Actives /\ state = "Frozen"
  BY <1>2, <1>5 DEF Outcome, States!Read, States!Become
<1>6. CASE w \notin Getters /\ state \notin Actives /\ state # "Frozen"
  <2>1. call' = call
    BY <1>2, <1>6 DEF Outcome, TonInv, TypeOK
  <2> QED BY <1>2, <2>1 DEF States!vars
<1> QED
  BY <1>4, <1>5, <1>6

(* Every step is a step of ContractStates or changes nothing it shows.     *)
LEMMA StatesNext ==
    ASSUME TonInv, [Next]_vars
    PROVE  [States!Next]_(States!vars)
<1> USE DEF States!Next
<1>1. ASSUME UNCHANGED <<account, call>> PROVE UNCHANGED States!vars
  BY <1>1 DEF States!vars
<1>2. ASSUME NEW w \in Waiters, CallState(w) PROVE States!Next
  BY <1>2 DEF CallState, States!Ask, States!Become
<1>3. ASSUME NEW w \in Waiters, Wake(w) PROVE [States!Next]_(States!vars)
  BY <1>3, WakeRefines
<1>4. ASSUME NEW w \in Waiters, Return(w) PROVE States!Next
  <2>1. call[w] \in AccountState \cup {"Failed"}
    BY <1>4 DEF Return, TonInv, TypeOK
  <2>2. States!Return(w)
    BY <1>4, <2>1 DEF Return, States!Return, States!Become, AccountState,
                      States!AccountState
  <2> QED BY <2>2
<1>5. ASSUME NEW s \in Shards, BlockOf(s) PROVE States!Next
  <2>1. States!Block(s)
    BY <1>5 DEF BlockOf, ShardBlock, States!Block, AccountState, States!AccountState
  <2> QED BY <2>1
<1>6. ASSUME NEW o \in Observers, add_transactions_subscription(o) \/ DropObserver(o)
      PROVE  UNCHANGED <<account, call>>
  BY <1>6 DEF add_transactions_subscription, DropObserver
<1>7. ASSUME \/ SetReady \/ NotifyWaiters
             \/ \E t \in 0..MaxTime : MasterchainBlock(t)
             \/ StartLoad \/ StartRegister \/ StartWaitShards \/ Tick
      PROVE  UNCHANGED <<account, call>>
  BY <1>7 DEF SetReady, NotifyWaiters, MasterchainBlock, StartLoad, StartRegister,
     StartWaitShards, Tick, waits
<1>8. CASE UNCHANGED vars
  BY <1>1, <1>8 DEF vars, waits
<1> QED
  BY <1>1, <1>2, <1>3, <1>4, <1>5, <1>6, <1>7, <1>8 DEF Next

(* The subscriber implements ContractStates: a call of get_contract_state  *)
(* or wait_contract_state cannot be told from one read of the account,     *)
(* whatever blocks, other calls and observers do to its channel.           *)
THEOREM SubscriberRefinesStates == Spec => ImplementsStates
<1>1. Init => States!Init
  BY DEF Init, States!Init, AccountState, States!AccountState
<1>2. TonInv /\ [Next]_vars => [States!Next]_(States!vars)
  BY StatesNext
<1> QED
  BY <1>1, <1>2, TonInit, TonStep, PTL DEF Spec, ImplementsStates, States!Spec
=============================================================================
