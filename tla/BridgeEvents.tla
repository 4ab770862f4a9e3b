---------------------------- MODULE BridgeEvents ----------------------------
(***************************************************************************)
(* The event half of src/engine/bridge/mod.rs: how the relay learns of an  *)
(* event contract, keeps it in `pending`, votes for it once and lets it    *)
(* go.  Three things run concurrently: the listener of the configuration's *)
(* transactions (EventDeployed), the listener of the event contract's own  *)
(* transactions, and background tasks (preprocess_event, update_eth_event, *)
(* update_ton_event), which wait for contract states, verifications and    *)
(* deliveries.  At a start of the relay a scan of the contracts found in   *)
(* the last shard states runs beside them.                                 *)
(*                                                                         *)
(* The event contract is external: its status, our vote and its balance    *)
(* are what the last block that the node handled says.  A transaction is   *)
(* reported to the relay only while an observer of the account is alive.   *)
(***************************************************************************)
EXTENDS Integers, Sequences, Maps

CONSTANTS
    Accounts,     \* event contracts
    Tasks,        \* bound: slots of background tasks
    Kinds,        \* the kinds of events of this run: "Eth", "Ton"
    InitStatus,   \* the statuses a contract may have when the relay starts
    MaxDeploys,   \* bound: EventDeployed transactions for one address
    Faults        \* whether requests to the node may fail

ASSUME ConstAssumption ==
    /\ Kinds \subseteq {"Eth", "Ton"}
    /\ InitStatus \subseteq {"None", "Initializing", "Pending", "Confirmed", "Rejected"}
    /\ MaxDeploys \in Nat
    /\ Faults \in BOOLEAN

VARIABLES
    attr,       \* what never changes of an event: kind, whether our key is
                \* among its relays, api version and configuration are known
    status,     \* contract: EventStatus, "None" before the deployment
    voted,      \* contract: our key is no more among the empty votes
    low,        \* contract: the balance is below MIN_EVENT_BALANCE
    deploys,    \* contract: EventDeployed transactions so far
    announced,  \* EventDeployed not yet handled by the relay
    queue,      \* the contract's transactions not yet handled by the relay
    scan,       \* get_all_events: accounts of the snapshot not yet visited
    pending,    \* EventsState.pending: account -> processing_started
    task,       \* background tasks
    skipped     \* history: events given up for lack of a configuration or of
                \* a verification

contract == <<attr, status, voted, low, deploys>>
vars == <<contract, announced, queue, scan, pending, task, skipped>>

Status == {"None", "Initializing", "Pending", "Confirmed", "Rejected"}
TxKind == {"Relays", "OurVote", "OtherVote", "Closed"}

Free == [pc |-> "free"]
TaskPC == {"preprocess", "update", "state", "verify", "deliver", "sent"}

TypeOK ==
    /\ attr \in [Accounts -> [kind : Kinds, relay : BOOLEAN,
                              supported : BOOLEAN, configured : BOOLEAN]]
    /\ status \in [Accounts -> Status]
    /\ voted \in [Accounts -> BOOLEAN] /\ low \in [Accounts -> BOOLEAN]
    /\ deploys \in [Accounts -> Nat] /\ announced \in [Accounts -> Nat]
    /\ queue \in [Accounts -> Seq([tx : TxKind, status : Status])]
    /\ scan \subseteq Accounts /\ skipped \subseteq Accounts
    /\ DOMAIN pending \subseteq Accounts
    /\ pending \in [DOMAIN pending -> BOOLEAN]
    /\ task \in [Tasks -> {Free} \cup [pc : TaskPC, account : Accounts]]

-----------------------------------------------------------------------------
(* EventBaseContract::process on the contract's state of this moment.      *)
CanVote(a) == ~voted[a] /\ attr[a].relay /\ attr[a].supported

process(a) ==
    CASE status[a] = "Initializing" -> "Nop"
      [] status[a] = "Pending" /\ CanVote(a) -> "Vote"
      [] status[a] = "Confirmed" /\ attr[a].kind = "Ton" /\ ~low[a] /\ CanVote(a)
            -> "Vote"
      [] OTHER -> "Remove"

(* The relay starts: no pending events and no tasks; contracts may be in   *)
(* any stage.  The snapshot is of this moment, and only holds events of    *)
(* known configurations that still need something.                         *)
Init ==
    /\ attr \in [Accounts -> [kind : Kinds, relay : BOOLEAN,
                              supported : BOOLEAN, configured : BOOLEAN]]
    /\ status \in [Accounts -> InitStatus]
    /\ voted \in [Accounts -> BOOLEAN]
    /\ \A a \in Accounts :
          voted[a] => status[a] \notin {"None", "Initializing"} /\ attr[a].relay
    /\ low = [a \in Accounts |-> FALSE]
    /\ deploys = [a \in Accounts |-> IF status[a] = "None" THEN 0 ELSE 1]
    /\ announced = [a \in Accounts |-> 0]
    /\ queue = [a \in Accounts |-> <<>>]
    /\ scan = {a \in Accounts : /\ status[a] # "None" /\ attr[a].configured
                                /\ process(a) \in {"Nop", "Vote"}}
    /\ pending = EmptyMap
    /\ task = [t \in Tasks |-> Free]
    /\ skipped = {}

-----------------------------------------------------------------------------
(* Plausible mistakes, used to see that the properties notice them.        *)

AlwaysStart(a) == a \in DOMAIN pending

RemoveTonOnConfirmed(a, e) ==
    \/ e.status \in {"Confirmed", "Rejected"}
    \/ e.tx = "Relays" /\ ~attr[a].relay
    \/ e.tx = "OurVote"

IgnoreRelays(a, e) == FALSE

KeepSlot(t) == task' = [task EXCEPT ![t].pc = "free"]

NoRetry(t) == task' = [task EXCEPT ![t] = Free]

-----------------------------------------------------------------------------
(* EventsState::start_processing, remove and the tasks.                    *)

MayStart(a) == a \in DOMAIN pending /\ ~pending[a]

Start(a) == pending' = Put(pending, a, TRUE)

Remove(a) == pending' = Drop(pending, {a})

Is(t, pc) == task[t].pc = pc

Become(t, pc) == task' = [task EXCEPT ![t].pc = pc]

Finish(t) == task' = [task EXCEPT ![t] = Free]

(* spawn_background_task, into any free slot.                              *)
Spawn(pc, a) ==
    \E t \in Tasks :
        /\ Is(t, "free")
        /\ task' = [task EXCEPT ![t] = [pc |-> pc, account |-> a]]

(* An observer of a is alive: held by the entry, or by a delivery.         *)
Observed(a) ==
    \/ a \in DOMAIN pending
    \/ \E t \in Tasks : task[t].pc \in {"deliver", "sent"} /\ task[t].account = a

-----------------------------------------------------------------------------
(* The event contract and the node.                                        *)

(* A block with transactions txs on a, which leave it in status s.  Each   *)
(* one is reported with the status at the end of the block.                *)
Report(a, txs, s) ==
    queue' = IF Observed(a)
             THEN [queue EXCEPT ![a] = @ \o [i \in DOMAIN txs |->
                                               [tx |-> txs[i], status |-> s]]]
             ELSE queue

(* A deployEvent transaction on the configuration.                         *)
DeployEvent(a) ==
    /\ deploys[a] < MaxDeploys
    /\ deploys' = [deploys EXCEPT ![a] = @ + 1]
    /\ announced' = [announced EXCEPT ![a] = @ + 1]
    /\ UNCHANGED <<attr, status, voted, low, queue, scan, pending, task, skipped>>

(* Its message reaches the address of the event, in the same block or in a *)
(* later one of another shard.                                             *)
Activate(a) ==
    /\ deploys[a] > 0 /\ status[a] = "None"
    /\ status' = [status EXCEPT ![a] = "Initializing"]
    /\ UNCHANGED <<attr, voted, low, deploys, announced, queue, scan, pending,
                   task, skipped>>

(* The relays arrive; the others may conclude the vote in the same block.  *)
ReceiveRoundRelays(a, s) ==
    /\ status[a] = "Initializing"
    /\ s \in {"Pending", "Confirmed", "Rejected"}
    /\ status' = [status EXCEPT ![a] = s]
    /\ Report(a, IF s = "Pending" THEN <<"Relays">> ELSE <<"Relays", "OtherVote">>, s)
    /\ UNCHANGED <<attr, voted, low, deploys, announced, scan, pending, task, skipped>>

(* The vote of another relay that concludes the voting.  The balance may   *)
(* have run low meanwhile.                                                 *)
OthersConclude(a, s, drained) ==
    /\ status[a] = "Pending"
    /\ s \in {"Confirmed", "Rejected"}
    /\ status' = [status EXCEPT ![a] = s]
    /\ low' = [low EXCEPT ![a] = @ \/ drained]
    /\ Report(a, <<"OtherVote">>, s)
    /\ UNCHANGED <<attr, voted, deploys, announced, scan, pending, task, skipped>>

(* `close` of a transfer contract: a transaction of no known kind.         *)
Close(a) ==
    /\ attr[a].kind = "Ton" /\ status[a] \in {"Pending", "Confirmed"} /\ ~low[a]
    /\ low' = [low EXCEPT ![a] = TRUE]
    /\ Report(a, <<"Closed">>, status[a])
    /\ UNCHANGED <<attr, status, voted, deploys, announced, scan, pending, task, skipped>>

(* The contract accepts the message of task t: the block that holds it     *)
(* answers the sender (MessageStatus::Delivered) and reports the vote,     *)
(* which may be the one that concludes the voting.                         *)
Accept(t, s) ==
    LET a == task[t].account
    IN  /\ Is(t, "sent")
        /\ process(a) = "Vote"
        /\ s = status[a] \/ (status[a] = "Pending" /\ s \in {"Confirmed", "Rejected"})
        /\ voted' = [voted EXCEPT ![a] = TRUE]
        /\ status' = [status EXCEPT ![a] = s]
        /\ Report(a, <<"OurVote">>, s)
        /\ Finish(t)
        /\ UNCHANGED <<attr, low, deploys, announced, scan, pending, skipped>>

-----------------------------------------------------------------------------
(* The relay: listeners.                                                   *)

(* add_pending_event: inserts the entry, not started, and subscribes.      *)
add_pending_event(a) == pending' = Put(pending, a, FALSE)

(* process_[eth|ton]_event_configuration_event, EventDeployed.             *)
EventDeployed(a) ==
    /\ announced[a] > 0
    /\ announced' = [announced EXCEPT ![a] = @ - 1]
    /\ \/ a \in DOMAIN pending /\ UNCHANGED <<pending, task>>
       \/ a \notin DOMAIN pending /\ add_pending_event(a) /\ Spawn("preprocess", a)
    /\ UNCHANGED <<contract, queue, scan, skipped>>

(* The cases of process_eth_event and process_ton_event that remove.       *)
EthRemoves(a, e) ==
    \/ e.status \in {"Confirmed", "Rejected"}
    \/ e.tx = "Relays" /\ ~attr[a].relay
    \/ e.tx = "OurVote"

TonRemoves(a, e) ==
    \/ e.tx = "Closed" /\ e.status = "Confirmed"
    \/ e.status = "Rejected"
    \/ e.tx = "Relays" /\ ~attr[a].relay
    \/ e.tx = "OurVote"

Removes(a, e) ==
    \/ attr[a].kind = "Eth" /\ EthRemoves(a, e)
    \/ attr[a].kind = "Ton" /\ TonRemoves(a, e)

StartsVoting(a, e) == e.tx = "Relays" /\ ~Removes(a, e)

(* process_eth_event / process_ton_event; EthEvent has no Closed.          *)
ProcessEvent(a) ==
    LET e == Head(queue[a])
    IN  /\ queue[a] # <<>>
        /\ queue' = [queue EXCEPT ![a] = Tail(@)]
        /\ \/ a \notin DOMAIN pending /\ UNCHANGED <<pending, task>>
           \/ a \in DOMAIN pending /\ Removes(a, e) /\ Remove(a) /\ UNCHANGED task
           \/ a \in DOMAIN pending /\ StartsVoting(a, e) /\ Spawn("update", a)
                 /\ UNCHANGED pending
           \/ a \in DOMAIN pending /\ ~Removes(a, e) /\ ~StartsVoting(a, e)
                 /\ UNCHANGED <<pending, task>>
        /\ UNCHANGED <<contract, announced, scan, skipped>>

(* get_all_events: an event of the snapshot, unless a listener was faster. *)
ScanEvent(a) ==
    /\ a \in scan
    /\ scan' = scan \ {a}
    /\ \/ a \in DOMAIN pending /\ UNCHANGED <<pending, task>>
       \/ a \notin DOMAIN pending /\ add_pending_event(a) /\ Spawn("update", a)
    /\ UNCHANGED <<contract, announced, queue, skipped>>

-----------------------------------------------------------------------------
(* The relay: background tasks.                                            *)

(* wait_contract_state returns the state of an active contract.            *)
Active(a) == status[a] # "None"

(* preprocess_event once wait_contract_state returned.                     *)
Preprocess(t) ==
    LET a == task[t].account
    IN  /\ Is(t, "preprocess") /\ Active(a)
        /\ \/ process(a) = "Nop" /\ Finish(t) /\ UNCHANGED pending
           \/ process(a) = "Remove" /\ Finish(t) /\ Remove(a)
           \/ process(a) = "Vote" /\ Become(t, "update") /\ UNCHANGED pending
        /\ UNCHANGED <<contract, announced, queue, scan, skipped>>

(* The first lines of update_[eth|ton]_event.                              *)
StartProcessing(t) ==
    LET a == task[t].account
    IN  /\ Is(t, "update")
        /\ \/ MayStart(a) /\ Start(a) /\ Become(t, "state")
           \/ ~MayStart(a) /\ Finish(t) /\ UNCHANGED pending
        /\ UNCHANGED <<contract, announced, queue, scan, skipped>>

(* update_[eth|ton]_event once wait_contract_state returned: the action    *)
(* and the look-up of the configuration.                                   *)
CheckState(t) ==
    LET a == task[t].account
    IN  /\ Is(t, "state") /\ Active(a)
        /\ \/ process(a) = "Nop" /\ Finish(t) /\ UNCHANGED <<pending, skipped>>
           \/ process(a) = "Remove" /\ Finish(t) /\ Remove(a) /\ UNCHANGED skipped
           \/ /\ process(a) = "Vote" /\ ~attr[a].configured
              /\ Finish(t) /\ Remove(a) /\ skipped' = skipped \cup {a}
           \/ /\ process(a) = "Vote" /\ attr[a].configured
              /\ Become(t, "verify") /\ UNCHANGED <<pending, skipped>>
        /\ UNCHANGED <<contract, announced, queue, scan>>

(* The vote is known (EthSubscriber::verify answered, or the TON data was  *)
(* decoded): takes the observer of the entry, if there still is one.       *)
Verified(t) ==
    LET a == task[t].account
    IN  /\ Is(t, "verify")
        /\ \/ a \in DOMAIN pending /\ Become(t, "deliver")
           \/ a \notin DOMAIN pending /\ Finish(t)
        /\ UNCHANGED <<contract, announced, queue, scan, pending, skipped>>

(* EthSubscriber::verify ended with an error: the event is skipped.        *)
VerifyFailed(t) ==
    LET a == task[t].account
    IN  /\ Faults
        /\ Is(t, "verify") /\ attr[a].kind = "Eth"
        /\ Finish(t) /\ Remove(a)
        /\ skipped' = skipped \cup {a}
        /\ UNCHANGED <<contract, announced, queue, scan>>

(* deliver_message: the condition, then signing and sending.               *)
Send(t) ==
    /\ Is(t, "deliver")
    /\ \/ task[t].account \in DOMAIN pending /\ Become(t, "sent")
       \/ task[t].account \notin DOMAIN pending /\ Finish(t)
    /\ UNCHANGED <<contract, announced, queue, scan, pending, skipped>>

(* MessageStatus::Expired: back to the condition.                          *)
Retry(t) == Become(t, "deliver")

Expire(t) ==
    /\ Is(t, "sent")
    /\ Retry(t)
    /\ UNCHANGED <<contract, announced, queue, scan, pending, skipped>>

(* wait_contract_state, a getter or the broadcast failed: `?` ends the     *)
(* task and leaves the entry as it is.                                     *)
TaskFailed(t) ==
    /\ Faults
    /\ task[t].pc \in {"preprocess", "state", "deliver"}
    /\ Finish(t)
    /\ UNCHANGED <<contract, announced, queue, scan, pending, skipped>>

Contract ==
    \E a \in Accounts :
        \/ DeployEvent(a) \/ Activate(a) \/ Close(a)
        \/ \E s \in Status : ReceiveRoundRelays(a, s)
        \/ \E s \in Status, drained \in BOOLEAN : OthersConclude(a, s, drained)

Relay ==
    \/ \E a \in Accounts : EventDeployed(a) \/ ProcessEvent(a) \/ ScanEvent(a)
    \/ \E t \in Tasks : \/ Preprocess(t) \/ StartProcessing(t) \/ CheckState(t)
                        \/ Verified(t) \/ VerifyFailed(t)
                        \/ Send(t) \/ Expire(t) \/ TaskFailed(t)

Next ==
    \/ Contract
    \/ \E t \in Tasks, s \in Status : Accept(t, s)
    \/ Relay

Spec == Init /\ [][Next]_vars

(* Listeners and tasks are scheduled; a message that is sent again and     *)
(* again while the contract would accept it is accepted some time.         *)
Fairness ==
    /\ \A a \in Accounts : /\ WF_vars(EventDeployed(a))
                           /\ WF_vars(ProcessEvent(a))
                           /\ WF_vars(ScanEvent(a))
    /\ \A t \in Tasks : /\ WF_vars(Preprocess(t)) /\ WF_vars(StartProcessing(t))
                        /\ WF_vars(CheckState(t)) /\ WF_vars(Verified(t))
                        /\ WF_vars(Send(t))
                        /\ SF_vars(\E s \in Status : Accept(t, s))

FairSpec == Spec /\ Fairness

-----------------------------------------------------------------------------
(* The contract waits for our vote, now or after the relays are received.  *)
MayStillVote(a) ==
    /\ CanVote(a)
    /\ \/ status[a] \in {"Initializing", "Pending"}
       \/ status[a] = "Confirmed" /\ attr[a].kind = "Ton" /\ ~low[a]

Duty(a) == process(a) = "Vote" /\ ~low[a] /\ attr[a].configured

(* Decisions to drop an event rest on a state read before, or on a         *)
(* transaction handled late; still no event that could use our vote is     *)
(* dropped, other than the ones given up for lack of a configuration or of *)
(* a verification.                                                         *)
DroppedOnlyWhenUseless ==
    [][\A a \in Accounts :
          a \in DOMAIN pending /\ a \notin DOMAIN pending'
              => ~MayStillVote(a)' \/ a \in skipped']_vars

Voting(t) == task[t].pc \in {"verify", "deliver", "sent"}

(* However often an event is announced, scanned and initialised, and even  *)
(* if it is dropped and added again while a task still works on it, no two *)
(* tasks vote for it at the same time.                                     *)
OneVoter ==
    \A t, u \in Tasks :
        Voting(t) /\ Voting(u) /\ task[t].account = task[u].account => t = u

(* An entry whose contract waits for our vote is being worked on, or the   *)
(* transaction that starts the work is still to be handled.                *)
NotAbandoned ==
    \A a \in DOMAIN pending :
        Duty(a) =>
            \/ \E t \in Tasks : task[t] # Free /\ task[t].account = a
            \/ ~pending[a] /\ \E i \in DOMAIN queue[a] : queue[a][i].tx = "Relays"

(* Every event that waits for our vote gets it, or stops waiting for it.   *)
DutyDone == \A a \in Accounts : Duty(a) ~> ~Duty(a)
=============================================================================
