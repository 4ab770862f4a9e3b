---------------------------- MODULE EthSubscriber ----------------------------
(***************************************************************************)
(* src/engine/eth_subscriber/mod.rs: one EVM network as seen by the relay. *)
(* Tasks of the bridge call verify and wait; one loop (start / update)     *)
(* polls the node, keeps the pending confirmations and answers them.       *)
(*                                                                         *)
(* The EVM chain and its node are external.  A block is identified by its  *)
(* number and version: the number of reorganisations before it was mined   *)
(* stands for its hash.  Blocks deeper than MaxReorg are never replaced.   *)
(* The chain is the one this relay's node follows; others may be ahead of  *)
(* it, so a call may name a block that this node adopts later, or never.   *)
(***************************************************************************)
EXTENDS Integers, FiniteSets, Maps

CONSTANTS
    Ids,       \* EventId: (transaction hash, log index)
    Calls,     \* calls of verify, one for each event contract
    Id,        \* Id[c]: event_transaction and event_index of c's vote data
    Block,     \* Block[c]: event_block_number of c's vote data
    Hash,      \* Hash[c]: event_block (the hash) of c's vote data
    Genuine,   \* calls whose emitter, topic and data are those of the log
    Conf,      \* Conf[c]: blocks_to_confirm of c's configuration
    MaxReorg,  \* the deepest reorganisation the network can have
    MaxReorgs, \* bound: number of reorganisations
    MaxHeight, \* bound: number of blocks
    MaxRange   \* max_block_range of the configuration

ASSUME ConstAssumption ==
    /\ Id \in [Calls -> Ids]
    /\ Block \in [Calls -> Nat \ {0}]
    /\ Hash \in [Calls -> Nat]
    /\ Genuine \subseteq Calls
    /\ MaxReorg \in Nat /\ MaxReorgs \in Nat
    /\ MaxHeight \in Nat \ {0}
    /\ MaxRange \in Nat \ {0}

(* A configuration asks for at least as many confirmations as its network  *)
(* can undo.                                                               *)
ASSUME ConfAssumption == Conf \in [Calls -> Nat] /\ \A c \in Calls : Conf[c] >= MaxReorg

VARIABLES
    height,         \* EVM: number of the last block
    reorgs,         \* EVM: the version of the blocks being mined
    log,            \* EVM: the block that holds the log of an id, or Absent
    moved,          \* history: ids whose log a reorganisation took away
    topics,         \* ids whose topic and emitter are subscribed
    pending,        \* pending_confirmations: id -> [call, status]
    count,          \* pending_confirmation_count
    answer,         \* what the caller of verify has received
    last_processed, \* last_processed_block
    pc,             \* where the loop is in update
    woken,          \* the loop's Notified future has completed
    cur,            \* current_block of the running update
    events,         \* logs received by the running update
    todo,           \* events_to_check whose receipt is still requested
    results         \* events_to_check whose receipt was read: id -> place

evm == <<height, reorgs, log, moved>>
iter == <<cur, events, todo, results>>
vars == <<evm, topics, pending, count, answer, last_processed, pc, woken, iter>>

Absent == [num |-> 0, ver |-> 0]
Place == [num : Nat, ver : Nat]

Status == {"InProcess", "Valid", "Invalid"}
Answer == {"None", "Waiting", "Exists", "NotExists", "Dropped"}
PC == {"start", "register", "select", "height", "logs", "apply", "check", "commit"}

TypeOK ==
    /\ height \in Nat /\ reorgs \in Nat
    /\ log \in [Ids -> Place]
    /\ moved \subseteq Ids
    /\ topics \subseteq Ids
    /\ DOMAIN pending \subseteq Ids
    /\ pending \in [DOMAIN pending -> [call : Calls, status : Status]]
    /\ count \in Nat
    /\ answer \in [Calls -> Answer]
    /\ last_processed \in Nat
    /\ pc \in PC
    /\ woken \in BOOLEAN
    /\ cur \in Nat
    /\ DOMAIN events \subseteq Ids
    /\ events \in [DOMAIN events -> Place]
    /\ todo \subseteq DOMAIN pending
    /\ DOMAIN results \subseteq DOMAIN pending
    /\ results \in [DOMAIN results -> Place]

(* EthSubscriber::new has read the height; the chain already holds a block. *)
Init ==
    /\ height = 1 /\ reorgs = 0
    /\ log = [i \in Ids |-> Absent]
    /\ moved = {} /\ topics = {}
    /\ pending = EmptyMap /\ count = 0
    /\ answer = [c \in Calls |-> "None"]
    /\ last_processed = 1
    /\ pc = "start" /\ woken = FALSE
    /\ cur = 0 /\ events = EmptyMap /\ todo = {} /\ results = EmptyMap

-----------------------------------------------------------------------------
(* Plausible mistakes, used to see that the properties notice them.        *)

TargetWithoutConfirmations(c) == Block[c]

target_block(c) == Block[c] + Conf[c]

ErrorIsAbsence(i) ==
    /\ results' = Put(results, i, Absent)
    /\ todo' = todo \ {i}

NoIdlePoll == FALSE

ExclusiveRange(i) == log[i].num \in (last_processed + 1)..cur

NumberOnly(c, place) ==
    IF c \in Genuine /\ place.num = Block[c] THEN "Exists" ELSE "NotExists"

NoConversion(verification) == verification

ForgetFailed == {i \in DOMAIN pending : target_block(pending[i].call) <= cur}

-----------------------------------------------------------------------------
(* The EVM network.                                                        *)

(* A new block, with the transactions of any ids not yet on the chain.     *)
Mine(S) ==
    /\ height < MaxHeight
    /\ \A i \in S : log[i] = Absent
    /\ height' = height + 1
    /\ log' = [i \in Ids |-> IF i \in S THEN [num |-> height + 1, ver |-> reorgs]
                                        ELSE log[i]]
    /\ UNCHANGED <<reorgs, moved, topics, pending, count, answer,
                   last_processed, pc, woken, iter>>

(* Blocks n..height are replaced by as many new ones.  A transaction of a  *)
(* replaced block, or one not mined so far, goes to any new block or none. *)
Reorg(n, to) ==
    /\ reorgs < MaxReorgs
    /\ n \in 1..height /\ n > height - MaxReorg
    /\ \A i \in Ids : to[i] # 0 => /\ to[i] \in n..height
                                   /\ log[i] = Absent \/ log[i].num >= n
    /\ reorgs' = reorgs + 1
    /\ log' = [i \in Ids |-> IF to[i] # 0 THEN [num |-> to[i], ver |-> reorgs + 1]
                             ELSE IF log[i].num >= n THEN Absent ELSE log[i]]
    /\ moved' = moved \cup {i \in Ids : log[i].num >= n}
    /\ UNCHANGED <<height, topics, pending, count, answer, last_processed, pc,
                   woken, iter>>

-----------------------------------------------------------------------------
(* The callers.                                                            *)

(* subscribe, called when an event configuration is added.  Nothing calls  *)
(* unsubscribe.                                                            *)
subscribe(i) ==
    /\ i \notin topics
    /\ topics' = topics \cup {i}
    /\ UNCHANGED <<evm, pending, count, answer, last_processed, pc, woken, iter>>

(* The loop keeps the lock of pending_confirmations while it waits for     *)
(* receipts.                                                               *)
Locked == pc = "check"

CountAfterInsert(f) == Cardinality(DOMAIN f)

(* Inserting over an entry drops its sender: the earlier caller's `rx` ends *)
(* with an error.  notify_waiters reaches the loop only while it waits.    *)
(* Bound: no call once the chain has reached MaxHeight (the loop looks at  *)
(* a call only after a new block).                                         *)
verify(c) ==
    /\ ~Locked
    /\ height < MaxHeight
    /\ answer[c] = "None"
    /\ pending' = Put(pending, Id[c], [call |-> c, status |-> "InProcess"])
    /\ count' = CountAfterInsert(pending')
    /\ answer' = [d \in Calls |->
                     IF d = c THEN "Waiting"
                     ELSE IF Id[c] \in DOMAIN pending /\ d = pending[Id[c]].call
                          THEN "Dropped" ELSE answer[d]]
    /\ woken' = (woken \/ pc = "select")
    /\ UNCHANGED <<evm, topics, last_processed, pc, iter>>

-----------------------------------------------------------------------------
(* The loop: update.                                                       *)

Goto(from, to) == pc = from /\ pc' = to

(* `if pending_confirmations.lock().await.is_empty()`                      *)
IsEmpty ==
    /\ Goto("start", IF DOMAIN pending = {} THEN "register" ELSE "height")
    /\ UNCHANGED <<evm, topics, pending, count, answer, last_processed, woken, iter>>

(* `new_events_notify.notified()`: a notification before this is lost.     *)
Register ==
    /\ Goto("register", "select")
    /\ woken' = FALSE
    /\ UNCHANGED <<evm, topics, pending, count, answer, last_processed, iter>>

Notified ==
    /\ woken
    /\ Goto("select", "height")
    /\ UNCHANGED <<evm, topics, pending, count, answer, last_processed, woken, iter>>

IdlePoll == pc = "select"

IdlePollElapsed ==
    /\ IdlePoll
    /\ Goto("select", "height")
    /\ UNCHANGED <<evm, topics, pending, count, answer, last_processed, woken, iter>>

(* The height, the test against last_processed_block (after a pause the    *)
(* update ends) and the cut of the range.                                  *)
GetHeight ==
    /\ IF last_processed >= height
       THEN Goto("height", "start") /\ UNCHANGED cur
       ELSE /\ Goto("height", "logs")
            /\ cur' = IF last_processed + MaxRange < height
                      THEN last_processed + MaxRange ELSE height
    /\ UNCHANGED <<evm, topics, pending, count, answer, last_processed, woken,
                   events, todo, results>>

(* The node did not answer in time or answered with an error, for the      *)
(* height or for the logs: the update ends.                                *)
RequestFailed ==
    /\ pc \in {"height", "logs"} /\ pc' = "start"
    /\ cur' = 0
    /\ UNCHANGED <<evm, topics, pending, count, answer, last_processed, woken,
                   events, todo, results>>

(* process_blocks: the logs of the subscribed topics in the range, ends    *)
(* included.  The node may also report a log that is gone as removed.      *)
InRange(i) == log[i].num \in last_processed..cur

GetLogs(R) ==
    /\ Goto("logs", "apply")
    /\ R \subseteq {i \in moved \cap topics : log[i] = Absent}
    /\ events' = [i \in {k \in topics : log[k] # Absent /\ InRange(k)} \cup R |->
                     log[i]]
    /\ UNCHANGED <<evm, topics, pending, count, answer, last_processed, woken,
                   cur, todo, results>>

(* PendingConfirmation::check, for a log or for the absence of one.        *)
check(c, place) ==
    IF c \in Genuine /\ place = [num |-> Block[c], ver |-> Hash[c]]
    THEN "Exists" ELSE "NotExists"

ToStatus(verification) == IF verification = "Exists" THEN "Valid" ELSE "Invalid"

(* The status of a confirmation after the received and removed logs.       *)
StatusAfter(i) ==
    IF i \in DOMAIN events THEN ToStatus(check(pending[i].call, events[i]))
                           ELSE pending[i].status

TargetReached(i) == target_block(pending[i].call) <= cur

(* Takes the lock, applies the logs, answers the confirmations that are    *)
(* due and known to be invalid, and starts a request for the receipt of    *)
(* every other one that is due.                                            *)
Apply ==
    LET refuted == {i \in DOMAIN pending : TargetReached(i) /\ StatusAfter(i) = "Invalid"}
        due == {i \in DOMAIN pending : TargetReached(i) /\ StatusAfter(i) # "Invalid"}
    IN  /\ Goto("apply", "check")
        /\ pending' = [i \in DOMAIN pending \ refuted |->
                          [call |-> pending[i].call, status |-> StatusAfter(i)]]
        /\ answer' = [c \in Calls |->
                         IF \E i \in refuted : pending[i].call = c
                         THEN "NotExists" ELSE answer[c]]
        /\ todo' = due
        /\ UNCHANGED <<evm, topics, count, last_processed, woken, cur, events, results>>

(* find_event: the receipt of the transaction on the chain of this moment. *)
Receipt(i) ==
    /\ Locked
    /\ i \in todo
    /\ results' = Put(results, i, log[i])
    /\ todo' = todo \ {i}
    /\ UNCHANGED <<evm, topics, pending, count, answer, last_processed, pc,
                   woken, cur, events>>

(* An error keeps the confirmation for a later update.                     *)
KeepForLater(i) ==
    /\ todo' = todo \ {i}
    /\ UNCHANGED results

(* The node did not answer.  Bound: while the chain can still grow, since  *)
(* the request is repeated only after a new block.                         *)
ReceiptFailed(i) ==
    /\ Locked
    /\ height < MaxHeight
    /\ i \in todo
    /\ KeepForLater(i)
    /\ UNCHANGED <<evm, topics, pending, count, answer, last_processed, pc,
                   woken, cur, events>>

(* The entries that leave the map: those whose receipt was read.           *)
Decided == DOMAIN results

(* All requests have ended: answers and removes what could be decided and  *)
(* releases the lock.                                                      *)
Resolve ==
    /\ Goto("check", "commit")
    /\ todo = {}
    /\ answer' = [c \in Calls |->
                     IF \E i \in DOMAIN results : pending[i].call = c
                     THEN check(c, results[Id[c]]) ELSE answer[c]]
    /\ pending' = Drop(pending, Decided)
    /\ count' = Cardinality(DOMAIN pending')
    /\ results' = EmptyMap
    /\ UNCHANGED <<evm, topics, last_processed, woken, cur, events, todo>>

(* last_processed_block is stored after the lock is released.              *)
Commit ==
    /\ Goto("commit", "start")
    /\ last_processed' = cur
    /\ events' = EmptyMap /\ cur' = 0
    /\ UNCHANGED <<evm, topics, pending, count, answer, woken, todo, results>>

Loop ==
    \/ IsEmpty \/ Register \/ Notified \/ IdlePollElapsed
    \/ GetHeight \/ RequestFailed
    \/ \E R \in SUBSET Ids : GetLogs(R)
    \/ Apply
    \/ \E i \in Ids : Receipt(i) \/ ReceiptFailed(i)
    \/ Resolve \/ Commit

Next ==
    \/ \E S \in SUBSET Ids : Mine(S)
    \/ \E n \in 1..MaxHeight, to \in [Ids -> 0..MaxHeight] : Reorg(n, to)
    \/ \E i \in Ids : subscribe(i)
    \/ \E c \in Calls : verify(c)
    \/ Loop

Spec == Init /\ [][Next]_vars

(* The network keeps growing; the scheduler runs the loop and its timer    *)
(* fires; a request that is repeated forever is answered some time.        *)
RunsOn ==
    \/ IsEmpty \/ Register \/ Notified \/ IdlePollElapsed
    \/ Apply \/ (\E i \in Ids : Receipt(i)) \/ Resolve \/ Commit

Fairness ==
    /\ WF_vars(\E S \in SUBSET Ids : Mine(S))
    /\ WF_vars(RunsOn)
    /\ SF_vars(GetHeight)
    /\ SF_vars(\E R \in SUBSET Ids : GetLogs(R))

FairSpec == Spec /\ Fairness

-----------------------------------------------------------------------------
(* The chain holds the log that c's event contract describes.              *)
OnChain(c) ==
    c \in Genuine /\ log[Id[c]] = [num |-> Block[c], ver |-> Hash[c]]

Settled(c) == OnChain(c) /\ height >= Block[c] + MaxReorg

(* A call that was answered Exists (the relay then votes to confirm) is    *)
(* for a log that is in the voted block and stays there, whatever the      *)
(* chain does between the requests of an update and afterwards.            *)
ConfirmIsFinal == \A c \in Calls : answer[c] = "Exists" => OnChain(c)

(* A call that was answered NotExists (the relay votes to reject) is not   *)
(* for a log that has settled in the voted block.                          *)
RejectIsFinal == \A c \in Calls : answer[c] = "NotExists" => ~Settled(c)

(* The only way to reject an event that has settled: its log was in        *)
(* another block before.                                                   *)
WrongRejectOnlyIfMoved ==
    \A c \in Calls :
        answer[c] = "NotExists" /\ Settled(c) => Id[c] \in moved

(* A caller of verify waits exactly while the map holds its confirmation:  *)
(* no failed request, overwritten entry or early answer strands a caller.  *)
WaiterHasEntry ==
    \A c \in Calls :
        answer[c] = "Waiting" <=>
            Id[c] \in DOMAIN pending /\ pending[Id[c]].call = c

(* pending_confirmation_count, stored by two tasks, is the size of the map *)
(* whenever the lock is free.                                              *)
CountExact == ~Locked => count = Cardinality(DOMAIN pending)

(* No caller can tell update - logs, receipts and a chain that moves in    *)
(* between - from one look at the chain at or after its target block.      *)
Verdicts == INSTANCE EventVerdicts
ImplementsVerdicts == Verdicts!Spec

(* A caller is answered once the chain has reached its target block,       *)
(* although a notification sent between the test for emptiness and the     *)
(* registration is lost.                                                   *)
EveryCallAnswered ==
    \A c \in Calls :
        answer[c] = "Waiting" /\ target_block(c) <= MaxHeight
            ~> answer[c] # "Waiting"
=============================================================================
