------------------------ MODULE EthSubscriberProofs ------------------------
(***************************************************************************)
(* Proofs about EthSubscriber for every set of calls and logs, every depth *)
(* of reorganisation and every confirmation count not below that depth.    *)
(***************************************************************************)
EXTENDS EthSubscriber, FiniteSetTheorems, TLAPS

Vote(c) == [num |-> Block[c], ver |-> Hash[c]]

(* The log is somewhere else than in the voted block, and was never moved. *)
Elsewhere(c) == log[Id[c]].num # 0 /\ log[Id[c]] # Vote(c)

(* The chain as the node reports it.                                       *)
ChainInv ==
    /\ cur <= height
    /\ \A i \in Ids : log[i].num <= height
    /\ \A i \in Ids : log[i].num = 0 => log[i] = Absent

(* An entry is filed under the id of its call, and receipts are requested  *)
(* only inside the lock and only for confirmations that are due.           *)
EntryInv ==
    /\ \A i \in DOMAIN pending : Id[pending[i].call] = i
    /\ pc # "check" => todo = {} /\ DOMAIN results = {}
    /\ \A i \in todo \cup DOMAIN results : TargetReached(i)

(* A receipt read during this update is still true of the chain as far as  *)
(* the chain can no longer change, although the chain has moved on since.  *)
ReceiptInv ==
    \A i \in DOMAIN results :
        /\ results[i].num # 0 /\ results[i].num + MaxReorg <= cur => log[i] = results[i]
        /\ \/ i \in moved
           \/ log[i] = results[i]
           \/ results[i] = Absent /\ log[i].num + MaxReorg > cur

(* The same for a log received earlier in this update.                     *)
EventsInv ==
    \A i \in DOMAIN events : i \in moved \/ (events[i] = log[i] /\ log[i].num # 0)

ConfirmInv ==
    \A c \in Calls :
        answer[c] = "Exists" => OnChain(c) /\ Block[c] + MaxReorg <= height

InvalidInv ==
    \A i \in DOMAIN pending :
        pending[i].status = "Invalid" =>
            \/ i \in moved
            \/ pending[i].call \notin Genuine
            \/ Elsewhere(pending[i].call)

RejectInv ==
    \A c \in Calls :
        answer[c] = "NotExists" =>
            \/ Id[c] \in moved
            \/ c \notin Genuine
            \/ Elsewhere(c)
            \/ log[Id[c]].num = 0 /\ Block[c] + MaxReorg <= height

CountInv == IsFiniteSet(DOMAIN pending) /\ CountExact

EthInv ==
    /\ TypeOK /\ ChainInv /\ EntryInv /\ ReceiptInv /\ EventsInv
    /\ ConfirmInv /\ InvalidInv /\ RejectInv /\ WaiterHasEntry /\ CountInv

(* The state that EthSubscriber::new leaves satisfies EthInv.              *)
LEMMA EthInit == Init => EthInv
<1> SUFFICES ASSUME Init PROVE EthInv
  OBVIOUS
<1> USE DEF Init, EmptyMap, Absent
<1>1. TypeOK
  BY DEF TypeOK, Place, Status, Answer, PC
<1>2. ChainInv /\ EntryInv /\ ReceiptInv /\ EventsInv
  BY DEF ChainInv, EntryInv, ReceiptInv, EventsInv
<1>3. ConfirmInv /\ InvalidInv /\ RejectInv /\ WaiterHasEntry
  BY DEF ConfirmInv, InvalidInv, RejectInv, WaiterHasEntry
<1>4. CountInv
  BY FS_EmptySet DEF CountInv, CountExact
<1> QED
  BY <1>1, <1>2, <1>3, <1>4 DEF EthInv

(* A new block leaves every settled fact alone: it only places logs that   *)
(* were absent, above the current height.                                  *)
LEMMA MinePreserves ==
    ASSUME EthInv, NEW S \in SUBSET Ids, Mine(S)
    PROVE  EthInv'
<1> USE DEF EthInv, Mine
<1>1. /\ height \in Nat /\ height' = height + 1 /\ MaxReorg \in Nat /\ cur \in Nat
      /\ reorgs \in Nat /\ Conf \in [Calls -> Nat] /\ Block \in [Calls -> Nat]
      /\ Id \in [Calls -> Ids]
  BY ConstAssumption, ConfAssumption DEF TypeOK
<1>2. /\ \A i \in Ids : log[i] \in Place /\ log'[i] \in Place
      /\ \A i \in Ids : log'[i] = log[i] \/
            (log[i] = Absent /\ log'[i].num = height + 1)
  BY <1>1 DEF TypeOK, Place, Absent
<1>3. TypeOK'
  BY <1>1, <1>2 DEF TypeOK, iter
<1>4. ChainInv'
  BY <1>1, <1>2 DEF ChainInv, iter, Place, Absent
<1>5. EntryInv'
  BY DEF EntryInv, TargetReached, target_block, iter
<1>6. ReceiptInv'
  <2> SUFFICES ASSUME NEW i \in DOMAIN results
               PROVE  /\ results[i].num # 0 /\ results[i].num + MaxReorg <= cur
                           => log'[i] = results[i]
                      /\ \/ i \in moved
                         \/ log'[i] = results[i]
                         \/ results[i] = Absent /\ log'[i].num + MaxReorg > cur
    BY DEF ReceiptInv, iter
  <2>1. i \in Ids /\ cur <= height /\ results[i] \in Place
    BY DEF TypeOK, ChainInv
  <2>2. CASE log'[i] = log[i]
    BY <2>1, <2>2 DEF ReceiptInv
  <2>3. CASE log[i] = Absent /\ log'[i].num = height + 1
    BY <1>1, <1>2, <2>1, <2>3 DEF ReceiptInv, Absent, Place
  <2> QED BY <1>2, <2>1, <2>2, <2>3
<1>7. EventsInv'
  BY <1>2 DEF EventsInv, iter, TypeOK, Absent
<1>8. ConfirmInv'
  <2> SUFFICES ASSUME NEW c \in Calls, answer[c] = "Exists"
               PROVE  log'[Id[c]] = log[Id[c]] /\ Block[c] \in Nat
    BY <1>1 DEF ConfirmInv, OnChain
  <2>1. Id[c] \in Ids /\ Block[c] \in Nat /\ Block[c] # 0
    BY ConstAssumption
  <2>2. log[Id[c]] = Vote(c) /\ Vote(c).num = Block[c]
    BY DEF ConfirmInv, OnChain, Vote
  <2> QED BY <1>2, <2>1, <2>2 DEF Absent
<1>9. InvalidInv'
  BY <1>1, <1>2 DEF InvalidInv, Elsewhere, TypeOK, Absent
<1>10. RejectInv'
  <2> SUFFICES ASSUME NEW c \in Calls, answer[c] = "NotExists"
               PROVE  \/ Id[c] \in moved
                      \/ c \notin Genuine
                      \/ Elsewhere(c)'
                      \/ log'[Id[c]].num = 0 /\ Block[c] + MaxReorg <= height'
    BY DEF RejectInv
  <2>1. Id[c] \in Ids /\ Block[c] \in Nat
    BY <1>1
  <2>2. CASE log'[Id[c]] = log[Id[c]]
    BY <1>1, <2>1, <2>2 DEF RejectInv, Elsewhere
  <2>3. CASE log[Id[c]] = Absent /\ log'[Id[c]].num = height + 1
    <3>1. Vote(c).num = Block[c]
      BY DEF Vote
    <3> QED BY <1>1, <2>1, <2>3, <3>1 DEF RejectInv, Elsewhere, Absent
  <2> QED BY <1>2, <2>1, <2>2, <2>3
<1>11. WaiterHasEntry' /\ CountInv'
  BY DEF WaiterHasEntry, CountInv, CountExact, Locked
<1> QED
  BY <1>3, <1>4, <1>5, <1>6, <1>7, <1>8, <1>9, <1>10, <1>11

(* A reorganisation leaves every settled fact alone: it only moves logs    *)
(* that are absent or in its last MaxReorg blocks, to these blocks.        *)
LEMMA ReorgPreserves ==
    ASSUME EthInv, NEW n \in 1..MaxHeight, NEW to \in [Ids -> 0..MaxHeight],
           Reorg(n, to)
    PROVE  EthInv'
<1> USE DEF EthInv, Reorg
<1>1. /\ height \in Nat /\ height' = height /\ MaxReorg \in Nat /\ cur \in Nat
      /\ reorgs \in Nat /\ Conf \in [Calls -> Nat] /\ Block \in [Calls -> Nat]
      /\ Id \in [Calls -> Ids] /\ n \in Nat /\ n > 0 /\ n + MaxReorg > height
  BY ConstAssumption, ConfAssumption DEF TypeOK
<1>2. \A i \in Ids : log[i] \in Place /\ log'[i] \in Place /\ to[i] \in Nat
  BY <1>1, ConstAssumption DEF TypeOK, Place, Absent
<1>3. \A i \in Ids :
         \/ log'[i] = log[i]
         \/ i \in moved' /\ log[i].num >= n /\ (log'[i] = Absent \/ log'[i].num \in n..height)
         \/ log[i] = Absent /\ log'[i].num \in n..height
  BY <1>1, <1>2 DEF Place
<1>4. moved \subseteq moved' /\ moved' \subseteq Ids
  BY DEF TypeOK
<1>5. TypeOK'
  BY <1>1, <1>2, <1>4 DEF TypeOK, iter
<1>6. ChainInv'
  BY <1>1, <1>2, <1>3 DEF ChainInv, iter, Place, Absent
<1>7. EntryInv'
  BY DEF EntryInv, TargetReached, target_block, iter
<1>8. ReceiptInv'
  <2> SUFFICES ASSUME NEW i \in DOMAIN results
               PROVE  /\ results[i].num # 0 /\ results[i].num + MaxReorg <= cur
                           => log'[i] = results[i]
                      /\ \/ i \in moved'
                         \/ log'[i] = results[i]
                         \/ results[i] = Absent /\ log'[i].num + MaxReorg > cur
    BY DEF ReceiptInv, iter
  <2>1. i \in Ids /\ cur <= height /\ results[i] \in Place /\ results[i].num \in Nat
        /\ log[i].num \in Nat /\ log'[i].num \in Nat
    BY <1>2 DEF TypeOK, ChainInv, Place
  <2>2. CASE log'[i] = log[i]
    BY <1>4, <2>1, <2>2 DEF ReceiptInv
  <2>3. CASE i \in moved' /\ log[i].num >= n
    BY <1>1, <2>1, <2>3 DEF ReceiptInv
  <2>4. CASE log[i] = Absent /\ log'[i].num \in n..height
    BY <1>1, <1>4, <2>1, <2>4 DEF ReceiptInv, Absent
  <2> QED BY <1>3, <2>1, <2>2, <2>3, <2>4
<1>9. EventsInv'
  BY <1>3, <1>4 DEF EventsInv, iter, TypeOK, Absent
<1>10. ConfirmInv'
  <2> SUFFICES ASSUME NEW c \in Calls, answer[c] = "Exists"
               PROVE  log'[Id[c]] = log[Id[c]]
    BY <1>1 DEF ConfirmInv, OnChain
  <2>1. Id[c] \in Ids /\ Block[c] \in Nat /\ Block[c] # 0
    BY ConstAssumption
  <2>2. /\ log[Id[c]] = Vote(c) /\ Vote(c).num = Block[c]
        /\ Block[c] + MaxReorg <= height
    BY DEF ConfirmInv, OnChain, Vote
  <2> QED BY <1>1, <1>3, <2>1, <2>2 DEF Absent
<1>11. InvalidInv'
  <2> SUFFICES ASSUME NEW i \in DOMAIN pending, pending[i].status = "Invalid"
               PROVE  \/ i \in moved'
                      \/ pending[i].call \notin Genuine
                      \/ Elsewhere(pending[i].call)'
    BY DEF InvalidInv
  <2>1. i \in Ids /\ Id[pending[i].call] = i
    BY DEF TypeOK, EntryInv
  <2>2. CASE log'[i] = log[i]
    BY <1>4, <2>1, <2>2 DEF InvalidInv, Elsewhere, Vote
  <2>3. CASE log[i] = Absent
    BY <1>4, <2>1, <2>3 DEF InvalidInv, Elsewhere, Absent
  <2> QED BY <1>3, <2>1, <2>2, <2>3
<1>12. RejectInv'
  <2> SUFFICES ASSUME NEW c \in Calls, answer[c] = "NotExists"
               PROVE  \/ Id[c] \in moved'
                      \/ c \notin Genuine
                      \/ Elsewhere(c)'
                      \/ log'[Id[c]].num = 0 /\ Block[c] + MaxReorg <= height'
    BY DEF RejectInv
  <2>1. Id[c] \in Ids /\ Block[c] \in Nat
    BY <1>1
  <2>2. CASE log'[Id[c]] = log[Id[c]]
    BY <1>1, <1>4, <2>1, <2>2 DEF RejectInv, Elsewhere
  <2>3. CASE log[Id[c]] = Absent /\ log'[Id[c]].num \in n..height
    <3>1. Vote(c).num = Block[c]
      BY DEF Vote
    <3> QED BY <1>1, <1>4, <2>1, <2>3, <3>1 DEF RejectInv, Elsewhere, Absent
  <2> QED BY <1>3, <2>1, <2>2, <2>3
<1>13. WaiterHasEntry' /\ CountInv'
  BY DEF WaiterHasEntry, CountInv, CountExact, Locked
<1> QED
  BY <1>5, <1>6, <1>7, <1>8, <1>9, <1>10, <1>11, <1>12, <1>13

-----------------------------------------------------------------------------
(* The parts of EthInv that speak of the map, the answers and the chain    *)
(* hold after a step that changes none of them.                            *)
LEMMA MapUntouched ==
    ASSUME EthInv, UNCHANGED <<evm, pending, count, answer>>
    PROVE  /\ ConfirmInv' /\ InvalidInv' /\ RejectInv' /\ WaiterHasEntry'
           /\ IsFiniteSet(DOMAIN pending)'
  BY DEF EthInv, evm, ConfirmInv, InvalidInv, RejectInv, WaiterHasEntry,
         CountInv, OnChain, Elsewhere, Vote

(* subscribe only adds a topic.                                            *)
LEMMA SubscribePreserves ==
    ASSUME EthInv, NEW i \in Ids, subscribe(i)
    PROVE  EthInv'
<1> USE DEF subscribe, iter
<1>1. ConfirmInv' /\ InvalidInv' /\ RejectInv' /\ WaiterHasEntry' /\ IsFiniteSet(DOMAIN pending)'
  BY MapUntouched DEF evm
<1>2. TypeOK' /\ ChainInv' /\ EntryInv' /\ ReceiptInv' /\ EventsInv' /\ CountExact'
  BY DEF EthInv, evm, TypeOK, ChainInv, EntryInv, ReceiptInv, EventsInv,
         CountInv, CountExact, Locked, TargetReached, target_block
<1> QED
  BY <1>1, <1>2 DEF EthInv, CountInv

(* verify inserts an entry outside the lock, where no receipt is being     *)
(* read, and answers nobody with a verdict.                                *)
LEMMA VerifyPreserves ==
    ASSUME EthInv, NEW c \in Calls, verify(c)
    PROVE  EthInv'
<1> USE DEF EthInv, verify, iter, evm
<1>1. /\ DOMAIN pending' = DOMAIN pending \cup {Id[c]}
      /\ pending'[Id[c]] = [call |-> c, status |-> "InProcess"]
      /\ \A i \in DOMAIN pending : i # Id[c] => pending'[i] = pending[i]
  BY DEF Put
<1>2. Id[c] \in Ids /\ todo = {} /\ DOMAIN results = {} /\ pc # "check"
  BY ConstAssumption DEF EntryInv, Locked
<1>3. CountInv' /\ count' \in Nat
  <2>1. IsFiniteSet(DOMAIN pending')
    BY <1>1, FS_AddElement DEF CountInv
  <2> QED BY <2>1, FS_CardinalityType DEF CountInv, CountExact, CountAfterInsert
<1>4. /\ DOMAIN pending' \subseteq Ids
      /\ pending' \in [DOMAIN pending' -> [call : Calls, status : Status]]
  BY <1>2 DEF TypeOK, Put, Status
<1>5. TypeOK'
  BY <1>2, <1>3, <1>4 DEF TypeOK, Answer
<1>6. ChainInv' /\ EventsInv' /\ ReceiptInv'
  BY <1>2 DEF ChainInv, EventsInv, ReceiptInv
<1>7. EntryInv'
  BY <1>1, <1>2 DEF EntryInv
<1>8. ConfirmInv' /\ RejectInv'
  BY DEF ConfirmInv, RejectInv, OnChain, Elsewhere, Vote, TypeOK
<1>9. InvalidInv'
  BY <1>1 DEF InvalidInv, Elsewhere, Vote
<1>10. WaiterHasEntry'
  <2> SUFFICES ASSUME NEW d \in Calls
               PROVE  answer'[d] = "Waiting" <=>
                        Id[d] \in DOMAIN pending' /\ pending'[Id[d]].call = d
    BY DEF WaiterHasEntry
  <2>1. CASE d = c
    BY <1>1, <2>1 DEF TypeOK
  <2>2. CASE d # c /\ Id[d] = Id[c]
    BY <1>1, <2>2 DEF WaiterHasEntry, TypeOK
  <2>3. CASE d # c /\ Id[d] # Id[c]
    <3>1. ~(Id[c] \in DOMAIN pending /\ d = pending[Id[c]].call)
      BY <2>3 DEF EntryInv
    <3>2. answer'[d] = answer[d]
      BY <2>3, <3>1
    <3> QED BY <1>1, <2>3, <3>2 DEF WaiterHasEntry
  <2> QED BY <2>1, <2>2, <2>3
<1> QED
  BY <1>3, <1>5, <1>6, <1>7, <1>8, <1>9, <1>10

(* The steps of update outside the lock.                                   *)
LEMMA OutsidePreserves ==
    ASSUME EthInv,
           \/ IsEmpty \/ Register \/ Notified \/ IdlePollElapsed
           \/ GetHeight \/ RequestFailed \/ Commit
    PROVE  EthInv'
<1> USE DEF Goto, iter
<1>1. /\ UNCHANGED <<evm, topics, pending, count, answer, todo, results>>
      /\ pc # "check" /\ pc' # "check" /\ pc' \in PC
      /\ cur' \in {cur, 0, height, last_processed + MaxRange}
      /\ last_processed' \in {last_processed, cur}
      /\ events' = events \/ events' = EmptyMap
      /\ woken' = woken \/ woken' = FALSE
  BY DEF IsEmpty, Register, Notified, IdlePollElapsed, IdlePoll, GetHeight,
         RequestFailed, Commit, PC
<1>2. cur' \in Nat /\ cur' <= height
  BY <1>1, ConstAssumption DEF IsEmpty, Register, Notified, IdlePollElapsed,
     GetHeight, RequestFailed, Commit, EthInv, TypeOK, ChainInv
<1>3. ConfirmInv' /\ InvalidInv' /\ RejectInv' /\ WaiterHasEntry' /\ IsFiniteSet(DOMAIN pending)'
  BY <1>1, MapUntouched
<1>4. TypeOK'
  BY <1>1, <1>2 DEF EthInv, evm, TypeOK, EmptyMap
<1>5. ChainInv'
  BY <1>1, <1>2 DEF EthInv, evm, ChainInv
<1>6. EntryInv' /\ ReceiptInv'
  BY <1>1 DEF EthInv, evm, EntryInv, ReceiptInv
<1>7. EventsInv'
  BY <1>1 DEF EthInv, evm, EventsInv, EmptyMap
<1>8. CountExact'
  BY <1>1 DEF EthInv, CountInv, CountExact, Locked
<1> QED
  BY <1>3, <1>4, <1>5, <1>6, <1>7, <1>8 DEF EthInv, CountInv

(* The response of the node is true of the chain when it is read.          *)
LEMMA GetLogsPreserves ==
    ASSUME EthInv, NEW R \in SUBSET Ids, GetLogs(R)
    PROVE  EthInv'
<1> USE DEF GetLogs, Goto
<1>1. ConfirmInv' /\ InvalidInv' /\ RejectInv' /\ WaiterHasEntry' /\ IsFiniteSet(DOMAIN pending)'
  BY MapUntouched
<1>2. /\ DOMAIN events' \subseteq Ids
      /\ \A i \in DOMAIN events' :
            events'[i] = log[i] /\ (i \in moved \/ log[i] # Absent)
  BY DEF EthInv, TypeOK
<1>3. events' \in [DOMAIN events' -> Place]
  BY DEF EthInv, TypeOK
<1>4. TypeOK'
  BY <1>2, <1>3 DEF EthInv, evm, TypeOK, PC
<1>5. EventsInv'
  BY <1>2 DEF EthInv, evm, EventsInv, ChainInv
<1>6. ChainInv' /\ EntryInv' /\ ReceiptInv' /\ CountExact'
  BY DEF EthInv, evm, ChainInv, EntryInv, ReceiptInv, CountInv, CountExact,
         Locked, TargetReached, target_block
<1> QED
  BY <1>1, <1>4, <1>5, <1>6 DEF EthInv, CountInv

(* Applying the logs: an entry becomes Invalid, and a caller is refused    *)
(* without a receipt, only when the log was moved or is elsewhere.         *)
LEMMA ApplyPreserves ==
    ASSUME EthInv, Apply
    PROVE  EthInv'
<1> DEFINE refuted == {i \in DOMAIN pending : TargetReached(i) /\ StatusAfter(i) = "Invalid"}
           due == {i \in DOMAIN pending : TargetReached(i) /\ StatusAfter(i) # "Invalid"}
<1>1. /\ pc = "apply" /\ pc' = "check"
      /\ DOMAIN pending' = DOMAIN pending \ refuted
      /\ \A i \in DOMAIN pending \ refuted :
            pending'[i] = [call |-> pending[i].call, status |-> StatusAfter(i)]
      /\ pending' = [i \in DOMAIN pending \ refuted |->
                        [call |-> pending[i].call, status |-> StatusAfter(i)]]
      /\ answer' = [c \in Calls |-> IF \E i \in refuted : pending[i].call = c
                                    THEN "NotExists" ELSE answer[c]]
      /\ todo' = due
      /\ UNCHANGED <<evm, topics, count, last_processed, woken, cur, events, results>>
  BY DEF Apply, Goto
<1>2. DOMAIN results = {} /\ refuted \subseteq DOMAIN pending
      /\ due \subseteq DOMAIN pending /\ due \cap refuted = {}
  BY <1>1 DEF EthInv, EntryInv
<1>3. \A i \in DOMAIN pending :
         /\ i \in Ids /\ pending[i].call \in Calls /\ pending[i].status \in Status
         /\ Id[pending[i].call] = i
         /\ StatusAfter(i) \in Status
         /\ i \in due => target_block(pending[i].call) <= cur
         /\ i \in refuted => StatusAfter(i) = "Invalid"
  BY DEF EthInv, EntryInv, TypeOK, StatusAfter, ToStatus, Status, TargetReached
<1>4. \A i \in DOMAIN pending : StatusAfter(i) = "Invalid" =>
         \/ i \in moved
         \/ pending[i].call \notin Genuine
         \/ Elsewhere(pending[i].call)
  <2> SUFFICES ASSUME NEW i \in DOMAIN pending, StatusAfter(i) = "Invalid"
               PROVE  \/ i \in moved
                      \/ pending[i].call \notin Genuine
                      \/ Elsewhere(pending[i].call)
    OBVIOUS
  <2>1. CASE i \notin DOMAIN events
    BY <2>1 DEF StatusAfter, EthInv, InvalidInv
  <2>2. CASE i \in DOMAIN events
    <3>1. pending[i].call \notin Genuine \/ events[i] # Vote(pending[i].call)
      BY <2>2 DEF StatusAfter, ToStatus, check, Vote
    <3>2. i \in moved \/ (events[i] = log[i] /\ log[i].num # 0)
      BY <2>2 DEF EthInv, EventsInv
    <3> QED BY <1>3, <3>1, <3>2 DEF Elsewhere
  <2> QED BY <2>1, <2>2
<1> HIDE DEF refuted, due
<1>5. TypeOK'
  <2>1. pending' \in [DOMAIN pending' -> [call : Calls, status : Status]]
    BY <1>1, <1>2, <1>3
  <2>2. answer' \in [Calls -> Answer]
    BY <1>1 DEF EthInv, TypeOK, Answer
  <2> QED BY <1>1, <1>2, <2>1, <2>2 DEF EthInv, evm, TypeOK, PC
<1>6. ChainInv' /\ EventsInv' /\ ReceiptInv'
  BY <1>1, <1>2 DEF EthInv, evm, ChainInv, EventsInv, ReceiptInv
<1>7. EntryInv'
  <2>1. \A i \in DOMAIN pending' : pending'[i].call = pending[i].call
    BY <1>1
  <2> QED BY <1>1, <1>2, <1>3, <2>1 DEF EntryInv, TargetReached, target_block
<1>8. ConfirmInv'
  BY <1>1 DEF EthInv, evm, ConfirmInv, OnChain
<1>9. InvalidInv'
  BY <1>1, <1>3, <1>4 DEF InvalidInv, Elsewhere, Vote, evm
<1>10. RejectInv'
  <2> SUFFICES ASSUME NEW c \in Calls, answer'[c] = "NotExists"
               PROVE  \/ Id[c] \in moved
                      \/ c \notin Genuine
                      \/ Elsewhere(c)
                      \/ log[Id[c]].num = 0 /\ Block[c] + MaxReorg <= height
    BY <1>1 DEF RejectInv, Elsewhere, Vote, evm
  <2>1. CASE \E i \in refuted : pending[i].call = c
    BY <1>2, <1>3, <1>4, <2>1
  <2>2. CASE ~ \E i \in refuted : pending[i].call = c
    BY <1>1, <2>2 DEF EthInv, RejectInv
  <2> QED BY <2>1, <2>2
<1>11. WaiterHasEntry'
  <2> SUFFICES ASSUME NEW c \in Calls
               PROVE  answer'[c] = "Waiting" <=>
                        Id[c] \in DOMAIN pending' /\ pending'[Id[c]].call = c
    BY DEF WaiterHasEntry
  <2>1. answer[c] = "Waiting" <=> Id[c] \in DOMAIN pending /\ pending[Id[c]].call = c
    BY DEF EthInv, WaiterHasEntry
  <2>2. CASE \E i \in refuted : pending[i].call = c
    <3>1. Id[c] \in refuted
      BY <1>2, <1>3, <2>2
    <3> QED BY <1>1, <2>2, <3>1
  <2>3. CASE ~ \E i \in refuted : pending[i].call = c
    BY <1>1, <2>1, <2>3
  <2> QED BY <2>2, <2>3
<1>12. CountInv'
  BY <1>1, FS_Subset DEF EthInv, CountInv, CountExact, Locked
<1> QED
  BY <1>5, <1>6, <1>7, <1>8, <1>9, <1>10, <1>11, <1>12 DEF EthInv

(* A receipt is true of the chain when it is read; a failed request        *)
(* changes only the set of open requests.                                  *)
LEMMA ReceiptPreserves ==
    ASSUME EthInv, NEW i \in Ids, Receipt(i) \/ ReceiptFailed(i)
    PROVE  EthInv'
<1>1. /\ UNCHANGED <<evm, topics, pending, count, answer, last_processed, pc,
                     woken, cur, events>>
      /\ pc = "check" /\ i \in todo /\ todo' = todo \ {i}
      /\ results' = results \/ results' = Put(results, i, log[i])
  BY DEF Receipt, ReceiptFailed, KeepForLater, Locked
<1>2. /\ i \in DOMAIN pending /\ i \in Ids /\ log[i] \in Place
      /\ DOMAIN results \subseteq DOMAIN pending
  BY <1>1 DEF EthInv, TypeOK
<1>3. /\ DOMAIN results' \subseteq DOMAIN results \cup {i}
      /\ \A k \in DOMAIN results' :
            (k \in DOMAIN results /\ results'[k] = results[k]) \/ results'[k] = log[k]
      /\ results' \in [DOMAIN results' -> Place]
  BY <1>1, <1>2 DEF Put, EthInv, TypeOK
<1>4. ConfirmInv' /\ InvalidInv' /\ RejectInv' /\ WaiterHasEntry' /\ IsFiniteSet(DOMAIN pending)'
  BY <1>1, MapUntouched
<1>5. TypeOK'
  BY <1>1, <1>2, <1>3 DEF EthInv, evm, TypeOK
<1>6. ChainInv' /\ EventsInv' /\ CountExact'
  BY <1>1 DEF EthInv, evm, ChainInv, EventsInv, CountInv, CountExact, Locked
<1>7. EntryInv'
  BY <1>1, <1>2, <1>3 DEF EthInv, EntryInv, TargetReached, target_block
<1>8. ReceiptInv'
  BY <1>1, <1>3 DEF EthInv, evm, ReceiptInv
<1> QED
  BY <1>4, <1>5, <1>6, <1>7, <1>8 DEF EthInv, CountInv

(* The verdict on a receipt: a match is for a block too deep to be         *)
(* replaced, and a mismatch can no longer become a match.                  *)
LEMMA VerdictIsFinal ==
    ASSUME EthInv, NEW i \in DOMAIN results, NEW c \in Calls, pending[i].call = c
    PROVE  /\ Id[c] = i
           /\ check(c, results[i]) = "Exists" =>
                 OnChain(c) /\ Block[c] + MaxReorg <= height
           /\ check(c, results[i]) = "NotExists" =>
                 \/ Id[c] \in moved
                 \/ c \notin Genuine
                 \/ Elsewhere(c)
                 \/ log[Id[c]].num = 0 /\ Block[c] + MaxReorg <= height
<1>1. /\ Id[c] = i /\ i \in Ids /\ target_block(c) <= cur /\ cur <= height
      /\ results[i] \in Place /\ log[i] \in Place
      /\ results[i].num # 0 /\ results[i].num + MaxReorg <= cur => log[i] = results[i]
      /\ \/ i \in moved
         \/ log[i] = results[i]
         \/ results[i] = Absent /\ log[i].num + MaxReorg > cur
  BY DEF EthInv, EntryInv, ChainInv, TypeOK, TargetReached, ReceiptInv
<1>2. /\ Block[c] \in Nat /\ Block[c] # 0 /\ Conf[c] \in Nat /\ Conf[c] >= MaxReorg
      /\ MaxReorg \in Nat /\ cur \in Nat /\ height \in Nat
  BY ConstAssumption, ConfAssumption DEF EthInv, TypeOK
<1>3. Block[c] + MaxReorg <= cur /\ Block[c] + MaxReorg <= height
  BY <1>1, <1>2 DEF target_block
<1>4. Vote(c).num = Block[c] /\ Vote(c) = [num |-> Block[c], ver |-> Hash[c]]
  BY DEF Vote
<1>5. ASSUME check(c, results[i]) = "Exists" PROVE OnChain(c)
  <2>1. c \in Genuine /\ results[i] = Vote(c)
    BY <1>5, <1>4 DEF check
  <2>2. log[i] = results[i]
    BY <1>1, <1>2, <1>3, <1>4, <2>1
  <2> QED BY <1>1, <1>4, <2>1, <2>2 DEF OnChain
<1>6. ASSUME check(c, results[i]) = "NotExists", i \notin moved, c \in Genuine
      PROVE  Elsewhere(c) \/ log[i].num = 0
  <2>1. results[i] # Vote(c)
    BY <1>6, <1>4 DEF check
  <2>2. CASE log[i] = results[i]
    BY <1>1, <2>1, <2>2 DEF Elsewhere
  <2>3. CASE log[i].num + MaxReorg > cur
    <3>1. log[i].num # Block[c]
      BY <1>2, <1>3, <2>3
    <3> QED BY <1>1, <1>4, <3>1 DEF Elsewhere
  <2> QED BY <1>1, <1>6, <2>2, <2>3
<1> QED
  BY <1>1, <1>3, <1>5, <1>6

(* Answering on the receipts and releasing the lock.                       *)
LEMMA ResolvePreserves ==
    ASSUME EthInv, Resolve
    PROVE  EthInv'
<1>1. /\ pc = "check" /\ pc' = "commit" /\ todo = {} /\ todo' = {}
      /\ answer' = [c \in Calls |->
                       IF \E i \in DOMAIN results : pending[i].call = c
                       THEN check(c, results[Id[c]]) ELSE answer[c]]
      /\ DOMAIN pending' = DOMAIN pending \ DOMAIN results
      /\ \A i \in DOMAIN pending' : pending'[i] = pending[i]
      /\ pending' = [i \in DOMAIN pending \ DOMAIN results |-> pending[i]]
      /\ count' = Cardinality(DOMAIN pending')
      /\ DOMAIN results' = {} /\ results' = EmptyMap
      /\ UNCHANGED <<evm, topics, last_processed, woken, cur, events>>
  BY DEF Resolve, Goto, Drop, Decided, EmptyMap
<1>2. \A c \in Calls, p \in Place : check(c, p) \in {"Exists", "NotExists"}
  BY DEF check
<1>3. /\ DOMAIN results \subseteq DOMAIN pending
      /\ \A i \in DOMAIN pending : Id[pending[i].call] = i /\ pending[i].call \in Calls
      /\ \A i \in DOMAIN results : results[i] \in Place
  BY DEF EthInv, TypeOK, EntryInv
<1>4. CountInv' /\ count' \in Nat
  <2>1. IsFiniteSet(DOMAIN pending')
    BY <1>1, FS_Subset DEF EthInv, CountInv
  <2> QED BY <1>1, <2>1, FS_CardinalityType DEF CountInv, CountExact
<1>5. TypeOK'
  <2>1. pending' \in [DOMAIN pending' -> [call : Calls, status : Status]]
    BY <1>1 DEF EthInv, TypeOK
  <2>2. answer' \in [Calls -> Answer]
    BY <1>1, <1>2, <1>3 DEF EthInv, TypeOK, Answer
  <2> QED BY <1>1, <1>4, <2>1, <2>2 DEF EthInv, evm, TypeOK, PC, EmptyMap
<1>6. ChainInv' /\ EventsInv' /\ ReceiptInv' /\ EntryInv'
  BY <1>1 DEF EthInv, evm, ChainInv, EventsInv, ReceiptInv, EntryInv
<1>7. InvalidInv'
  BY <1>1 DEF EthInv, evm, InvalidInv, Elsewhere, Vote
<1>8. \A c \in Calls :
         \/ answer'[c] = answer[c] /\ ~ \E i \in DOMAIN results : pending[i].call = c
         \/ \E i \in DOMAIN results :
               /\ pending[i].call = c /\ Id[c] = i
               /\ answer'[c] = check(c, results[i])
  BY <1>1, <1>3
<1>9. ConfirmInv'
  <2> SUFFICES ASSUME NEW c \in Calls, answer'[c] = "Exists"
               PROVE  OnChain(c) /\ Block[c] + MaxReorg <= height
    BY <1>1 DEF ConfirmInv, OnChain, evm
  <2> QED BY <1>8, VerdictIsFinal DEF EthInv, ConfirmInv
<1>10. RejectInv'
  <2> SUFFICES ASSUME NEW c \in Calls, answer'[c] = "NotExists"
               PROVE  \/ Id[c] \in moved
                      \/ c \notin Genuine
                      \/ Elsewhere(c)
                      \/ log[Id[c]].num = 0 /\ Block[c] + MaxReorg <= height
    BY <1>1 DEF RejectInv, Elsewhere, Vote, evm
  <2> QED BY <1>8, VerdictIsFinal DEF EthInv, RejectInv
<1>11. WaiterHasEntry'
  <2> SUFFICES ASSUME NEW c \in Calls
               PROVE  answer'[c] = "Waiting" <=>
                        Id[c] \in DOMAIN pending' /\ pending'[Id[c]].call = c
    BY DEF WaiterHasEntry
  <2>1. answer[c] = "Waiting" <=> Id[c] \in DOMAIN pending /\ pending[Id[c]].call = c
    BY DEF EthInv, WaiterHasEntry
  <2>2. CASE answer'[c] = answer[c] /\ ~ \E i \in DOMAIN results : pending[i].call = c
    BY <1>1, <2>1, <2>2
  <2>3. CASE \E i \in DOMAIN results :
               /\ pending[i].call = c /\ Id[c] = i
               /\ answer'[c] = check(c, results[i])
    BY <1>1, <1>2, <1>3, <2>3
  <2> QED BY <1>8, <2>2, <2>3
<1> QED
  BY <1>4, <1>5, <1>6, <1>7, <1>9, <1>10, <1>11 DEF EthInv

-----------------------------------------------------------------------------
(* Every step of the network, the callers and the loop preserves EthInv.   *)
LEMMA EthNext == EthInv /\ [Next]_vars => EthInv'
<1> SUFFICES ASSUME EthInv, [Next]_vars PROVE EthInv'
  OBVIOUS
<1>1. ASSUME NEW S \in SUBSET Ids, Mine(S) PROVE EthInv'
  BY <1>1, MinePreserves
<1>2. ASSUME NEW n \in 1..MaxHeight, NEW to \in [Ids -> 0..MaxHeight], Reorg(n, to)
      PROVE  EthInv'
  BY <1>2, ReorgPreserves
<1>3. ASSUME NEW i \in Ids, subscribe(i) PROVE EthInv'
  BY <1>3, SubscribePreserves
<1>4. ASSUME NEW c \in Calls, verify(c) PROVE EthInv'
  BY <1>4, VerifyPreserves
<1>5. ASSUME Loop PROVE EthInv'
  BY <1>5, OutsidePreserves, GetLogsPreserves, ApplyPreserves, ReceiptPreserves,
     ResolvePreserves DEF Loop
<1>6. CASE UNCHANGED vars
  <2>1. ConfirmInv' /\ InvalidInv' /\ RejectInv' /\ WaiterHasEntry' /\ IsFiniteSet(DOMAIN pending)'
    BY <1>6, MapUntouched DEF vars
  <2>2. TypeOK' /\ ChainInv' /\ EntryInv' /\ ReceiptInv' /\ EventsInv' /\ CountExact'
    BY <1>6 DEF vars, iter, EthInv, evm, TypeOK, ChainInv, EntryInv, ReceiptInv,
       EventsInv, CountInv, CountExact, Locked, TargetReached, target_block
  <2> QED BY <2>1, <2>2 DEF EthInv, CountInv
<1> QED
  BY <1>1, <1>2, <1>3, <1>4, <1>5, <1>6 DEF Next

(* EthInv holds in every reachable state.                                  *)
LEMMA EthInvariant == Spec => []EthInv
<1>1. Init => EthInv
  BY EthInit
<1>2. EthInv /\ [Next]_vars => EthInv'
  BY EthNext
<1> QED
  BY <1>1, <1>2, PTL DEF Spec

(* An event the relay was told exists is in the voted block for good: for  *)
(* every network whose reorganisations are not deeper than the             *)
(* configuration's blocks_to_confirm, however requests, reorganisations,   *)
(* new calls and failures interleave with update.                          *)
THEOREM ConfirmationsAreFinal == Spec => []ConfirmIsFinal
<1>1. EthInv => ConfirmIsFinal
  BY DEF EthInv, ConfirmInv, ConfirmIsFinal
<1> QED
  BY <1>1, EthInvariant, PTL

(* An event that settled in the voted block is refused only if its log was *)
(* in another block before: a failed request or a late log is no reason.   *)
THEOREM WrongRejectionNeedsReorg == Spec => []WrongRejectOnlyIfMoved
<1>1. EthInv => WrongRejectOnlyIfMoved
  <2> SUFFICES ASSUME EthInv, NEW c \in Calls, answer[c] = "NotExists", Settled(c)
               PROVE  Id[c] \in moved
    BY DEF WrongRejectOnlyIfMoved
  <2>1. c \in Genuine /\ log[Id[c]] = Vote(c)
    BY DEF Settled, OnChain, Vote
  <2>2. Vote(c).num # 0
    BY ConstAssumption DEF Vote
  <2> QED BY <2>1, <2>2 DEF EthInv, RejectInv, Elsewhere
<1> QED
  BY <1>1, EthInvariant, PTL

(* The types hold, every caller that waits has its entry in the map and    *)
(* every entry a caller that waits, and the counter is right outside the   *)
(* lock.                                                                   *)
THEOREM ConfirmationsConsistent == Spec => [](TypeOK /\ WaiterHasEntry /\ CountExact)
<1>1. EthInv => TypeOK /\ WaiterHasEntry /\ CountExact
  BY DEF EthInv, CountInv
<1> QED
  BY <1>1, EthInvariant, PTL

-----------------------------------------------------------------------------
(* Rejections, on a network that replaces at most its last block.          *)

(* The log is not in the voted block, which can no longer be replaced.     *)
Dead(c) == log[Id[c]] # Vote(c) /\ height >= Block[c] + MaxReorg

(* No settled log can come of the call any more.                           *)
Refuted(c) == c \notin Genuine \/ Dead(c)

(* The last block whose logs the entries of the map take into account.     *)
Scanned == IF pc \in {"apply", "check", "commit"} THEN cur ELSE last_processed

(* An Invalid entry is right, or an update to come asks for the logs of    *)
(* the voted block once more before the entry is due.                      *)
Doubtful(c) ==
    \/ Refuted(c)
    \/ Id[c] \in topics /\ Scanned < Block[c] + MaxReorg

InvalidDoubt ==
    \A i \in DOMAIN pending :
        pending[i].status = "Invalid" /\ (pc = "apply" => i \notin DOMAIN events)
            => Doubtful(pending[i].call)

(* The logs that Apply is about to use, for whatever call is filed then.   *)
EventsDoubt ==
    pc = "apply" =>
        \A c \in Calls :
            Id[c] \in DOMAIN events /\ events[Id[c]] # Vote(c) => Doubtful(c)

ResultsRefute ==
    \A i \in DOMAIN results :
        results[i] # Vote(pending[i].call) => Refuted(pending[i].call)

RejectRefuted == \A c \in Calls : answer[c] = "NotExists" => Refuted(c)

FinalInv == InvalidDoubt /\ EventsDoubt /\ ResultsRefute /\ RejectRefuted

(* Nothing is refuted when the loop starts, for nothing was asked.         *)
LEMMA FinalInit == Init => FinalInv
  BY DEF Init, EmptyMap, FinalInv, InvalidDoubt, EventsDoubt, ResultsRefute, RejectRefuted

(* A block deeper than MaxReorg does not change: neither a new block nor a *)
(* reorganisation puts a log there, or takes one away.                     *)
LEMMA DeadForGood ==
    ASSUME EthInv, NEW c \in Calls, Dead(c),
           \/ \E S \in SUBSET Ids : Mine(S)
           \/ \E n \in 1..MaxHeight, to \in [Ids -> 0..MaxHeight] : Reorg(n, to)
    PROVE  Dead(c)'
<1> DEFINE i == Id[c]
<1>1. /\ i \in Ids /\ Block[c] \in Nat /\ MaxReorg \in Nat /\ height \in Nat
      /\ reorgs \in Nat /\ log[i] \in Place /\ log \in [Ids -> Place]
  BY ConstAssumption DEF EthInv, TypeOK
<1>2. log[i] # Vote(c) /\ height >= Block[c] + MaxReorg /\ Vote(c).num = Block[c]
  BY DEF Dead, Vote
<1>3. ASSUME NEW S \in SUBSET Ids, Mine(S) PROVE Dead(c)'
  <2>1. height' = height + 1 /\ (log'[i] = log[i] \/ log'[i].num = height + 1)
    BY <1>1, <1>3 DEF Mine
  <2>2. log'[i] # Vote(c)
    BY <1>1, <1>2, <2>1
  <2> QED BY <1>1, <1>2, <2>1, <2>2 DEF Dead, Vote
<1>4. ASSUME NEW n \in 1..MaxHeight, NEW to \in [Ids -> 0..MaxHeight], Reorg(n, to)
      PROVE  Dead(c)'
  <2>1. height' = height /\ n \in Nat /\ n + MaxReorg > height /\ n > 0 /\ to[i] \in Nat
    BY <1>1, <1>4, ConstAssumption DEF Reorg
  <2>2. log'[i] = log[i] \/ log'[i] = Absent \/ log'[i].num >= n
    BY <1>1, <1>4, <2>1 DEF Reorg
  <2>3. Vote(c) # Absent
    BY ConstAssumption, <1>2 DEF Absent
  <2>4. log'[i] # Vote(c)
    BY <1>1, <1>2, <2>1, <2>2, <2>3
  <2> QED BY <1>1, <1>2, <2>1, <2>4 DEF Dead, Vote
<1> QED BY <1>3, <1>4

(* The chain moves on and everything that was refuted stays refuted.       *)
LEMMA FinalChain ==
    ASSUME EthInv, FinalInv,
           \/ \E S \in SUBSET Ids : Mine(S)
           \/ \E n \in 1..MaxHeight, to \in [Ids -> 0..MaxHeight] : Reorg(n, to)
    PROVE  FinalInv'
<1>1. UNCHANGED <<topics, pending, count, answer, last_processed, pc, woken, iter>>
  BY DEF Mine, Reorg
<1>2. \A c \in Calls : Refuted(c) => Refuted(c)'
  BY DeadForGood DEF Refuted
<1>3. \A c \in Calls : Doubtful(c) => Doubtful(c)'
  BY <1>1, <1>2 DEF Doubtful, Scanned, iter
<1>4. \A k \in DOMAIN pending : pending[k].call \in Calls
  BY DEF EthInv, TypeOK
<1>5. DOMAIN results \subseteq DOMAIN pending
  BY DEF EthInv, TypeOK
<1> QED
  BY <1>1, <1>2, <1>3, <1>4, <1>5 DEF FinalInv, InvalidDoubt, EventsDoubt, ResultsRefute,
     RejectRefuted, iter, Vote

(* The callers: subscribe only adds a topic, and an entry is InProcess     *)
(* when verify files it, over whatever entry was there.                    *)
LEMMA FinalCallers ==
    ASSUME EthInv, FinalInv,
           (\E i \in Ids : subscribe(i)) \/ (\E c \in Calls : verify(c))
    PROVE  FinalInv'
<1>1. /\ UNCHANGED <<evm, last_processed, pc, iter>> /\ topics \subseteq topics'
  BY DEF subscribe, verify
<1>2. \A c \in Calls : (Refuted(c) => Refuted(c)') /\ (Doubtful(c) => Doubtful(c)')
  BY <1>1 DEF Refuted, Dead, Vote, Doubtful, Scanned, iter, evm
<1>3. ASSUME NEW i \in Ids, subscribe(i) PROVE FinalInv'
  <2>1. \A k \in DOMAIN pending : pending[k].call \in Calls
    BY DEF EthInv, TypeOK
  <2>2. DOMAIN results \subseteq DOMAIN pending
    BY DEF EthInv, TypeOK
  <2> QED BY <1>1, <1>2, <1>3, <2>1, <2>2 DEF subscribe, iter, FinalInv, InvalidDoubt,
             EventsDoubt, ResultsRefute, RejectRefuted, Vote
<1>4. ASSUME NEW c \in Calls, verify(c) PROVE FinalInv'
  <2>1. /\ DOMAIN pending' = DOMAIN pending \cup {Id[c]}
        /\ pending'[Id[c]].status = "InProcess"
        /\ \A i \in DOMAIN pending : i # Id[c] => pending'[i] = pending[i]
        /\ \A i \in DOMAIN pending : pending[i].call \in Calls
    BY <1>4 DEF verify, Put, EthInv, TypeOK
  <2>2. DOMAIN results = {} /\ results' = results
    BY <1>1, <1>4 DEF verify, EthInv, EntryInv, Locked, iter
  <2>3. \A d \in Calls : answer'[d] = "NotExists" => answer[d] = "NotExists"
    BY <1>4 DEF verify
  <2>4. InvalidDoubt'
    BY <1>1, <1>2, <2>1 DEF FinalInv, InvalidDoubt, iter
  <2>5. EventsDoubt' /\ RejectRefuted'
    BY <1>1, <1>2, <2>3 DEF FinalInv, EventsDoubt, RejectRefuted, iter, Vote
  <2>6. ResultsRefute'
    BY <2>2 DEF ResultsRefute
  <2> QED BY <2>4, <2>5, <2>6 DEF FinalInv
<1> QED BY <1>3, <1>4

(* The steps of update outside the lock: Commit stores cur where it was    *)
(* read from before, the others leave last_processed_block alone.          *)
LEMMA FinalOutside ==
    ASSUME EthInv, FinalInv,
           \/ IsEmpty \/ Register \/ Notified \/ IdlePollElapsed
           \/ GetHeight \/ RequestFailed \/ Commit
    PROVE  FinalInv'
<1>1. /\ UNCHANGED <<evm, topics, pending, answer, results>>
      /\ pc # "apply" /\ pc' # "apply" /\ Scanned' = Scanned
  BY DEF Goto, Scanned, IsEmpty, Register, Notified, IdlePollElapsed, IdlePoll, GetHeight,
         RequestFailed, Commit, iter
<1>2. \A c \in Calls : (Refuted(c) => Refuted(c)') /\ (Doubtful(c) => Doubtful(c)')
  BY <1>1 DEF Refuted, Dead, Vote, Doubtful, evm
<1>3. /\ \A k \in DOMAIN pending : pending[k].call \in Calls
      /\ DOMAIN results \subseteq DOMAIN pending
  BY DEF EthInv, TypeOK
<1>4. InvalidDoubt'
  BY <1>1, <1>2, <1>3 DEF FinalInv, InvalidDoubt
<1>5. EventsDoubt'
  BY <1>1 DEF EventsDoubt
<1>6. ResultsRefute' /\ RejectRefuted'
  BY <1>1, <1>2, <1>3 DEF FinalInv, ResultsRefute, RejectRefuted, Vote
<1> QED
  BY <1>4, <1>5, <1>6 DEF FinalInv

(* The logs of the blocks from last_processed_block to cur, both included. *)
(* A voted block that can no longer change is among them when it was still *)
(* open at the last update, because only one block can be replaced: the    *)
(* range starts at the last block seen and not behind it.                  *)
LEMMA FinalGetLogs ==
    ASSUME MaxReorg <= 1, EthInv, FinalInv, NEW R \in SUBSET Ids, GetLogs(R)
    PROVE  FinalInv'
<1>1. /\ UNCHANGED <<evm, topics, pending, answer, last_processed, results, cur>>
      /\ pc = "logs" /\ pc' = "apply" /\ Scanned = last_processed /\ Scanned' = cur
  BY DEF GetLogs, Goto, Scanned
<1>2. /\ DOMAIN events' \subseteq topics
      /\ \A i \in DOMAIN events' : events'[i] = log[i]
      /\ \A i \in Ids \cap topics : log[i] # Absent /\ InRange(i) => i \in DOMAIN events'
  BY DEF GetLogs
<1>3. /\ \A k \in DOMAIN pending : pending[k].call \in Calls /\ Id[pending[k].call] = k
      /\ DOMAIN results \subseteq DOMAIN pending
  BY DEF EthInv, TypeOK, EntryInv
<1>4. \A c \in Calls : /\ Block[c] \in Nat /\ Block[c] # 0 /\ Id[c] \in Ids
                       /\ Vote(c).num = Block[c] /\ Vote(c) # Absent
  BY ConstAssumption DEF Vote, Absent
<1>5. cur \in Nat /\ height \in Nat /\ last_processed \in Nat /\ MaxReorg \in Nat /\ cur <= height
  BY ConstAssumption DEF EthInv, TypeOK, ChainInv
<1>6. \A c \in Calls : Refuted(c)' <=> Refuted(c)
  BY <1>1 DEF Refuted, Dead, Vote, evm
<1>7. \A c \in Calls :
         Id[c] \in topics /\ log[Id[c]] # Vote(c) => Doubtful(c)'
  BY <1>1, <1>4, <1>5, <1>6 DEF Doubtful, Refuted, Dead
<1>8. ASSUME NEW c \in Calls, Doubtful(c), Id[c] \notin DOMAIN events' PROVE Doubtful(c)'
  <2>1. CASE Refuted(c)
    BY <1>6, <2>1 DEF Doubtful
  <2>2. CASE Id[c] \in topics /\ last_processed < Block[c] + MaxReorg
    <3>1. CASE log[Id[c]] # Vote(c)
      BY <1>7, <2>2, <3>1
    <3>2. CASE log[Id[c]] = Vote(c) /\ cur < Block[c] + MaxReorg
      BY <1>1, <2>2, <3>2 DEF Doubtful
    <3>3. CASE log[Id[c]] = Vote(c) /\ cur >= Block[c] + MaxReorg
      <4>1. log[Id[c]].num \in last_processed..cur
        BY <1>4, <1>5, <2>2, <3>3
      <4> QED BY <1>2, <1>4, <1>8, <2>2, <3>3, <4>1 DEF InRange
    <3> QED BY <1>4, <1>5, <3>1, <3>2, <3>3
  <2> QED BY <1>1, <1>8, <2>1, <2>2 DEF Doubtful
<1>9. InvalidDoubt'
  BY <1>1, <1>3, <1>8 DEF FinalInv, InvalidDoubt
<1>10. EventsDoubt'
  BY <1>1, <1>2, <1>7 DEF EventsDoubt, Vote
<1>11. ResultsRefute' /\ RejectRefuted'
  BY <1>1, <1>3, <1>6 DEF FinalInv, ResultsRefute, RejectRefuted, Vote
<1> QED
  BY <1>9, <1>10, <1>11 DEF FinalInv

(* Applying the logs: where the target is reached no doubt is left, so     *)
(* that a call refused without a receipt is refuted.                       *)
LEMMA FinalApply ==
    ASSUME EthInv, FinalInv, Apply
    PROVE  FinalInv'
<1> DEFINE refuted == {i \in DOMAIN pending : TargetReached(i) /\ StatusAfter(i) = "Invalid"}
<1>1. /\ pc = "apply" /\ pc' = "check"
      /\ DOMAIN pending' = DOMAIN pending \ refuted
      /\ \A i \in DOMAIN pending \ refuted :
            pending'[i] = [call |-> pending[i].call, status |-> StatusAfter(i)]
      /\ answer' = [c \in Calls |-> IF \E i \in refuted : pending[i].call = c
                                    THEN "NotExists" ELSE answer[c]]
      /\ UNCHANGED <<evm, topics, last_processed, cur, events, results>>
  BY DEF Apply, Goto
<1>2. /\ \A k \in DOMAIN pending : pending[k].call \in Calls /\ Id[pending[k].call] = k
      /\ DOMAIN results = {}
  BY <1>1 DEF EthInv, TypeOK, EntryInv
<1>3. \A c \in Calls : (Refuted(c) <=> Refuted(c)') /\ (Doubtful(c) <=> Doubtful(c)')
  BY <1>1 DEF Refuted, Dead, Vote, Doubtful, Scanned, evm
<1>4. ASSUME NEW i \in DOMAIN pending, StatusAfter(i) = "Invalid"
      PROVE  Doubtful(pending[i].call)
  <2>1. CASE i \notin DOMAIN events
    BY <1>4, <2>1 DEF StatusAfter, FinalInv, InvalidDoubt
  <2>2. CASE i \in DOMAIN events
    <3>1. pending[i].call \notin Genuine \/ events[i] # Vote(pending[i].call)
      BY <1>4, <2>2 DEF StatusAfter, ToStatus, check, Vote
    <3> QED BY <1>1, <1>2, <2>2, <3>1 DEF FinalInv, EventsDoubt, Doubtful, Refuted
  <2> QED BY <2>1, <2>2
<1>5. ASSUME NEW i \in refuted PROVE Refuted(pending[i].call)
  <2>1. Block[pending[i].call] + MaxReorg <= cur
    BY <1>2, ConstAssumption, ConfAssumption DEF TargetReached, target_block, EthInv, TypeOK
  <2>2. cur \in Nat /\ Block[pending[i].call] \in Nat /\ MaxReorg \in Nat
    BY <1>2, ConstAssumption DEF EthInv, TypeOK
  <2> QED BY <1>1, <1>4, <2>1, <2>2 DEF Doubtful, Scanned
<1> HIDE DEF refuted
<1>6. InvalidDoubt'
  BY <1>1, <1>2, <1>3, <1>4 DEF InvalidDoubt
<1>7. EventsDoubt' /\ ResultsRefute'
  BY <1>1, <1>2 DEF EventsDoubt, ResultsRefute
<1>8. RejectRefuted'
  BY <1>1, <1>3, <1>5 DEF FinalInv, RejectRefuted
<1> QED
  BY <1>6, <1>7, <1>8 DEF FinalInv

(* A receipt is read for a block too deep to change, and says what is      *)
(* there; whatever happens to the chain before Resolve, its verdict stays. *)
LEMMA FinalReceipt ==
    ASSUME EthInv, FinalInv, NEW i \in Ids, Receipt(i) \/ ReceiptFailed(i)
    PROVE  FinalInv'
<1>1. /\ UNCHANGED <<evm, topics, pending, answer, last_processed, pc, cur, events>>
      /\ pc = "check" /\ i \in todo
      /\ results' = results \/ results' = Put(results, i, log[i])
  BY DEF Receipt, ReceiptFailed, KeepForLater, Locked
<1>2. /\ \A k \in DOMAIN pending : pending[k].call \in Calls /\ Id[pending[k].call] = k
      /\ i \in DOMAIN pending /\ DOMAIN results \subseteq DOMAIN pending
      /\ TargetReached(i) /\ cur <= height /\ cur \in Nat /\ height \in Nat
  BY <1>1 DEF EthInv, TypeOK, EntryInv, ChainInv
<1>3. \A c \in Calls : (Refuted(c) => Refuted(c)') /\ (Doubtful(c) => Doubtful(c)')
  BY <1>1 DEF Refuted, Dead, Vote, Doubtful, Scanned, evm
<1>4. log[i] # Vote(pending[i].call) => Refuted(pending[i].call)
  <2>1. Block[pending[i].call] + MaxReorg <= height
    BY <1>2, ConstAssumption, ConfAssumption DEF TargetReached, target_block
  <2> QED BY <1>2, <2>1, ConstAssumption DEF Refuted, Dead
<1>5. \A k \in DOMAIN results' :
         k \in DOMAIN pending /\
         ((k \in DOMAIN results /\ results'[k] = results[k]) \/ (k = i /\ results'[k] = log[i]))
  BY <1>1, <1>2 DEF Put
<1>6. ResultsRefute'
  BY <1>1, <1>2, <1>3, <1>4, <1>5 DEF FinalInv, ResultsRefute, Vote
<1>7. InvalidDoubt' /\ EventsDoubt' /\ RejectRefuted'
  BY <1>1, <1>2, <1>3 DEF FinalInv, InvalidDoubt, EventsDoubt, RejectRefuted
<1> QED
  BY <1>6, <1>7 DEF FinalInv

(* The answers on the receipts.                                            *)
LEMMA FinalResolve ==
    ASSUME EthInv, FinalInv, Resolve
    PROVE  FinalInv'
<1>1. /\ pc = "check" /\ pc' = "commit"
      /\ answer' = [c \in Calls |->
                       IF \E i \in DOMAIN results : pending[i].call = c
                       THEN check(c, results[Id[c]]) ELSE answer[c]]
      /\ DOMAIN pending' = DOMAIN pending \ DOMAIN results
      /\ \A i \in DOMAIN pending' : pending'[i] = pending[i]
      /\ DOMAIN results' = {}
      /\ UNCHANGED <<evm, topics, last_processed, cur>>
  BY DEF Resolve, Goto, Drop, Decided, EmptyMap
<1>2. /\ \A k \in DOMAIN pending : pending[k].call \in Calls /\ Id[pending[k].call] = k
      /\ DOMAIN results \subseteq DOMAIN pending
  BY DEF EthInv, TypeOK, EntryInv
<1>3. \A c \in Calls : (Refuted(c) <=> Refuted(c)') /\ (Doubtful(c) <=> Doubtful(c)')
  BY <1>1 DEF Refuted, Dead, Vote, Doubtful, Scanned, evm
<1>4. InvalidDoubt'
  BY <1>1, <1>2, <1>3 DEF FinalInv, InvalidDoubt
<1>5. EventsDoubt' /\ ResultsRefute'
  BY <1>1 DEF EventsDoubt, ResultsRefute
<1>6. RejectRefuted'
  <2> SUFFICES ASSUME NEW c \in Calls, answer'[c] = "NotExists" PROVE Refuted(c)
    BY <1>3 DEF RejectRefuted
  <2>1. CASE \E i \in DOMAIN results : pending[i].call = c
    <3>1. PICK i \in DOMAIN results : pending[i].call = c
      BY <2>1
    <3>2. Id[c] = i /\ check(c, results[i]) = "NotExists"
      BY <1>1, <1>2, <2>1, <3>1
    <3>3. c \notin Genuine \/ results[i] # Vote(c)
      BY <3>2 DEF check, Vote
    <3> QED BY <3>1, <3>3 DEF FinalInv, ResultsRefute, Refuted
  <2>2. CASE ~ \E i \in DOMAIN results : pending[i].call = c
    BY <1>1, <2>2 DEF FinalInv, RejectRefuted
  <2> QED BY <2>1, <2>2
<1> QED
  BY <1>4, <1>5, <1>6 DEF FinalInv

(* Where the network replaces at most its last block.                      *)
RejectSound == MaxReorg <= 1 => FinalInv

(* FinalInv holds in every reachable state when the network replaces at    *)
(* most its last block.                                                    *)
LEMMA FinalInvariant == Spec => []RejectSound
<1>1. Init => RejectSound
  BY FinalInit DEF RejectSound
<1>2. EthInv /\ RejectSound /\ [Next]_vars => RejectSound'
  <2> SUFFICES ASSUME MaxReorg <= 1, EthInv, FinalInv, [Next]_vars PROVE FinalInv'
    BY DEF RejectSound
  <2>1. ASSUME Loop PROVE FinalInv'
    BY <2>1, FinalOutside, FinalGetLogs, FinalApply, FinalReceipt, FinalResolve DEF Loop
  <2>2. CASE UNCHANGED vars
    BY <2>2 DEF vars, evm, iter, FinalInv, InvalidDoubt, EventsDoubt, ResultsRefute,
       RejectRefuted, Refuted, Dead, Vote, Doubtful, Scanned
  <2> QED
    BY <2>1, <2>2, FinalChain, FinalCallers DEF Next
<1> QED
  BY <1>1, <1>2, EthInvariant, PTL DEF Spec

(* On a network that replaces at most its last block (the run              *)
(* eth_wrong_reject shows that two are too many) no event that settled in  *)
(* the voted block is refused, whether or not a reorganisation moved it    *)
(* there: however new blocks, calls and failed requests interleave with    *)
(* update, the logs of the block are asked for again before the verdict.   *)
THEOREM RejectionsAreFinal ==
    ASSUME MaxReorg <= 1
    PROVE  Spec => []RejectIsFinal
<1>1. RejectSound => RejectIsFinal
  BY DEF RejectSound, FinalInv, RejectRefuted, Refuted, Dead, RejectIsFinal, Settled,
         OnChain, Vote
<1> QED
  BY <1>1, FinalInvariant, PTL

-----------------------------------------------------------------------------
(* The refinement of EventVerdicts.                                        *)

(* New blocks and reorganisations change only what EventVerdicts allows.   *)
LEMMA ChainRefines ==
    ASSUME EthInv,
           \/ \E S \in SUBSET Ids : Mine(S)
           \/ \E n \in 1..MaxHeight, to \in [Ids -> 0..MaxHeight] : Reorg(n, to)
    PROVE  Verdicts!ChainMoves
<1> USE DEF Verdicts!ChainMoves, Verdicts!Shallow, Verdicts!Absent
<1>1. /\ height \in Nat /\ MaxReorg \in Nat /\ reorgs \in Nat /\ MaxHeight \in Nat
      /\ log \in [Ids -> Place] /\ \A i \in Ids : log[i].num \in Nat
  BY ConstAssumption DEF EthInv, TypeOK, Place
<1>2. ASSUME NEW S \in SUBSET Ids, Mine(S) PROVE Verdicts!ChainMoves
  <2>1. height' = height + 1 /\ moved' = moved /\ answer' = answer
    BY <1>2 DEF Mine
  <2>2. \A i \in Ids :
           log'[i] = log[i] \/ (log[i] = Absent /\ log'[i].num = height + 1)
    BY <1>2 DEF Mine
  <2> QED BY <1>1, <2>1, <2>2 DEF Absent
<1>3. ASSUME NEW n \in 1..MaxHeight, NEW to \in [Ids -> 0..MaxHeight], Reorg(n, to)
      PROVE  Verdicts!ChainMoves
  <2>1. /\ height' = height /\ answer' = answer /\ moved \subseteq moved'
        /\ n \in Nat /\ n > 0 /\ n + MaxReorg > height
    BY <1>1, <1>3 DEF Reorg
  <2>2. ASSUME NEW i \in Ids, log'[i] # log[i]
        PROVE  /\ log[i] = Absent \/ (log[i].num >= n /\ i \in moved')
               /\ log'[i] = Absent \/ log'[i].num >= n
    <3>1. to[i] \in Nat /\ (to[i] # 0 => to[i] >= n /\ to[i] <= height)
      BY <1>1, <1>3, <2>1 DEF Reorg
    <3>2. log'[i] = IF to[i] # 0 THEN [num |-> to[i], ver |-> reorgs + 1]
                    ELSE IF log[i].num >= n THEN Absent ELSE log[i]
      BY <1>3 DEF Reorg
    <3>3. log[i].num >= n => i \in moved'
      BY <1>3 DEF Reorg
    <3>4. log[i] = Absent \/ log[i].num >= n
      BY <1>3, <2>2, <3>2 DEF Reorg
    <3> QED BY <2>2, <3>1, <3>2, <3>3, <3>4
  <2>3. \A i \in Ids : log'[i] # log[i] =>
           /\ log[i] = Absent \/ log[i].num + MaxReorg > height
           /\ log'[i] = Absent \/ log'[i].num + MaxReorg > height
    <3> SUFFICES ASSUME NEW i \in Ids, log'[i] # log[i]
                 PROVE  /\ log[i] = Absent \/ log[i].num + MaxReorg > height
                        /\ log'[i] = Absent \/ log'[i].num + MaxReorg > height
      OBVIOUS
    <3>1. log'[i].num \in Nat
      BY <1>1, <1>3 DEF Reorg, Absent
    <3> QED BY <1>1, <2>1, <2>2, <3>1
  <2> QED BY <1>1, <2>1, <2>2, <2>3 DEF Absent
<1> QED BY <1>2, <1>3

(* A new call drops the one that waits for the same log, if there is one.  *)
LEMMA VerifyRefines ==
    ASSUME EthInv, NEW c \in Calls, verify(c)
    PROVE  Verdicts!Ask(c)
<1>1. \A d \in Calls : d # c =>
         ((Id[c] \in DOMAIN pending /\ d = pending[Id[c]].call)
             <=> (Id[d] = Id[c] /\ answer[d] = "Waiting"))
  BY DEF EthInv, WaiterHasEntry, EntryInv
<1> QED
  BY <1>1 DEF verify, Verdicts!Ask, evm

(* Answers that agree with the invariants are a judgement.                 *)
LEMMA AnswersRefine ==
    ASSUME EthInv, EthInv', RejectSound', UNCHANGED evm,
           \A c \in Calls : answer'[c] # answer[c] =>
               /\ answer[c] = "Waiting" /\ answer'[c] \in {"Exists", "NotExists"}
               /\ target_block(c) <= cur
    PROVE  Verdicts!Judge
<1>1. answer' \in [Calls -> Verdicts!Answer]
  BY DEF EthInv, TypeOK, Answer, Verdicts!Answer
<1>2. ASSUME NEW c \in Calls, answer'[c] # answer[c]
      PROVE  answer[c] = "Waiting" /\ Verdicts!Verdict(c, answer'[c])
  <2>1. Block[c] + Conf[c] <= height
    <3>1. /\ cur \in Nat /\ height \in Nat /\ cur <= height
          /\ Block[c] \in Nat /\ Conf[c] \in Nat
      BY ConstAssumption, ConfAssumption DEF EthInv, TypeOK, ChainInv
    <3> QED BY <1>2, <3>1 DEF target_block
  <2>2. Vote(c).num # 0
    BY ConstAssumption DEF Vote
  <2>3. CASE answer'[c] = "Exists"
    <3>1. Verdicts!OnChain(c)
      BY <2>3 DEF EthInv, ConfirmInv, OnChain, Verdicts!OnChain, evm
    <3> QED BY <1>2, <2>1, <2>3, <3>1 DEF Verdicts!Verdict
  <2>4. CASE answer'[c] = "NotExists"
    <3>1. ASSUME Verdicts!OnChain(c) PROVE MaxReorg > 1 /\ Id[c] \in moved
      <4>1. c \in Genuine /\ log[Id[c]] = Vote(c) /\ log'[Id[c]] = Vote(c)
        BY <3>1 DEF Verdicts!OnChain, Vote, evm
      <4>2. Id[c] \in moved
        BY <2>2, <2>4, <4>1 DEF EthInv, RejectInv, Elsewhere, Vote, evm
      <4>3. ~(MaxReorg <= 1)
        BY <2>4, <4>1 DEF RejectSound, FinalInv, RejectRefuted, Refuted, Dead, Vote
      <4> QED BY <4>2, <4>3, ConstAssumption
    <3> QED BY <1>2, <2>1, <2>4, <3>1 DEF Verdicts!Verdict
  <2> QED BY <1>2, <2>3, <2>4
<1> QED
  BY <1>1, <1>2 DEF Verdicts!Judge, evm

(* The two steps of update that answer, each with what it knows.           *)
LEMMA UpdateRefines ==
    ASSUME EthInv, EthInv', RejectSound', Apply \/ Resolve
    PROVE  Verdicts!Judge
<1> SUFFICES ASSUME NEW c \in Calls, answer'[c] # answer[c]
             PROVE  /\ answer[c] = "Waiting" /\ answer'[c] \in {"Exists", "NotExists"}
                    /\ target_block(c) <= cur
  <2>1. UNCHANGED evm
    BY DEF Apply, Resolve
  <2> QED BY <2>1, AnswersRefine
<1>1. /\ \A i \in DOMAIN pending : pending[i].call \in Calls /\ Id[pending[i].call] = i
      /\ DOMAIN results \subseteq DOMAIN pending
      /\ \A i \in DOMAIN results : TargetReached(i)
  BY DEF EthInv, TypeOK, EntryInv
<1>2. PICK i \in DOMAIN pending : pending[i].call = c /\ TargetReached(i)
  <2>1. CASE Apply
    BY <2>1 DEF Apply
  <2>2. CASE Resolve
    BY <1>1, <2>2 DEF Resolve
  <2> QED BY <2>1, <2>2
<1>3. answer[c] = "Waiting"
  BY <1>1, <1>2 DEF EthInv, WaiterHasEntry
<1>4. answer'[c] \in {"Exists", "NotExists"}
  BY DEF Apply, Resolve, check
<1> QED
  BY <1>2, <1>3, <1>4 DEF TargetReached

(* Every step is a step of EventVerdicts or changes nothing it shows.      *)
LEMMA VerdictsNext ==
    ASSUME EthInv, EthInv', RejectSound', [Next]_vars
    PROVE  [Verdicts!Next]_(Verdicts!vars)
<1> USE DEF Verdicts!Next
<1>1. ASSUME UNCHANGED <<evm, answer>> PROVE UNCHANGED Verdicts!vars
  BY <1>1 DEF evm, Verdicts!vars
<1>2. CASE Loop
  <2>1. Apply \/ Resolve \/ UNCHANGED <<evm, answer>>
    BY <1>2 DEF Loop, IsEmpty, Register, Notified, IdlePollElapsed, GetHeight,
       RequestFailed, GetLogs, Receipt, ReceiptFailed, Commit
  <2> QED BY <1>1, <2>1, UpdateRefines
<1>3. ASSUME NEW i \in Ids, subscribe(i) PROVE UNCHANGED <<evm, answer>>
  BY <1>3 DEF subscribe
<1>4. CASE UNCHANGED vars
  BY <1>4, <1>1 DEF vars
<1> QED
  BY <1>1, <1>2, <1>3, <1>4, ChainRefines, VerifyRefines DEF Next

(* update implements EventVerdicts: the logs it received, the statuses it  *)
(* remembers from earlier updates and the receipts it reads one by one,    *)
(* while the chain moves on and calls come in, amount to one look at the   *)
(* chain at or after the target block, and every call is answered once.    *)
THEOREM UpdateRefinesVerdicts == Spec => ImplementsVerdicts
<1>1. Init => Verdicts!Init
  BY DEF Init, Verdicts!Init, Absent, Verdicts!Absent
<1>2. EthInv /\ EthInv' /\ RejectSound' /\ [Next]_vars => [Verdicts!Next]_(Verdicts!vars)
  BY VerdictsNext
<1> QED
  BY <1>1, <1>2, EthInvariant, FinalInvariant, PTL
     DEF Spec, ImplementsVerdicts, Verdicts!Spec
=============================================================================
