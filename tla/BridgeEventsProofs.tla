------------------------- MODULE BridgeEventsProofs -------------------------
(***************************************************************************)
(* Proofs about BridgeEvents for any number of event contracts and tasks,  *)
(* any number of announcements and with failing requests.                  *)
(*                                                                         *)
(* OneVoter is not inductive.  What keeps a second task from voting is     *)
(* that the flag processing_started belongs to the entry and the entry     *)
(* stays as long as the contract can use our vote (is Open): so while it   *)
(* is Open, at most one task has passed start_processing.  Once it is not, *)
(* it never is again, and a task that is only now past start_processing    *)
(* finds nothing to vote for.  That the entry stays needs, in turn, that a *)
(* transaction handled late still tells the truth about its contract.      *)
(*                                                                         *)
(* The last part is about requests that do not fail: who cares for an      *)
(* event that waits for our vote (CareInv).                                *)
(***************************************************************************)
EXTENDS BridgeEvents, SequenceTheorems, TLAPS

(* The contract can use our vote, now or later.                            *)
Open(a) ==
    /\ CanVote(a)
    /\ \/ status[a] \in {"None", "Initializing", "Pending"}
       \/ status[a] = "Confirmed" /\ attr[a].kind = "Ton" /\ ~low[a]

(* Task t has passed start_processing for a, or is on its way to a vote.   *)
Works(t, a) ==
    task[t].pc \in {"state", "verify", "deliver", "sent"} /\ task[t].account = a

Votes(t, a) == Voting(t) /\ task[t].account = a

(* What a transaction that is still to be handled says of its contract.    *)
Truthful(e, st, vote, drained) ==
    /\ e.status \in {"Confirmed", "Rejected"} => st = e.status
    /\ e.tx = "OurVote" => vote = TRUE
    /\ e.tx = "Closed" => drained = TRUE

QueueTruth ==
    \A a \in Accounts : \A i \in 1..Len(queue[a]) :
        Truthful(queue[a][i], status[a], voted[a], low[a])

EntryHeld ==
    \A t \in Tasks, a \in Accounts :
        Works(t, a) /\ Open(a) => a \in DOMAIN pending /\ pending[a] = TRUE

Alone ==
    \A t, u \in Tasks, a \in Accounts :
        Works(t, a) /\ Works(u, a) /\ Open(a) => t = u

BridgeInv == TypeOK /\ QueueTruth /\ EntryHeld /\ Alone /\ OneVoter

-----------------------------------------------------------------------------
(* The invariant holds when the relay starts: no tasks and empty queues.   *)
LEMMA BridgeInit == Init => BridgeInv
<1> SUFFICES ASSUME Init PROVE BridgeInv
  OBVIOUS
<1> USE ConstAssumption
<1>1. TypeOK
  <2>1. queue \in [Accounts -> Seq([tx : TxKind, status : Status])]
    BY DEF Init
  <2>2. status \in [Accounts -> Status]
    BY DEF Init, Status
  <2>3. pending \in [DOMAIN pending -> BOOLEAN] /\ DOMAIN pending \subseteq Accounts
    BY DEF Init, EmptyMap
  <2>4. task \in [Tasks -> {Free} \cup [pc : TaskPC, account : Accounts]]
    BY DEF Init
  <2>5. deploys \in [Accounts -> Nat] /\ announced \in [Accounts -> Nat]
    BY DEF Init
  <2>6. scan \subseteq Accounts /\ skipped \subseteq Accounts
    BY DEF Init
  <2>7. low \in [Accounts -> BOOLEAN]
    BY DEF Init
  <2> QED
    BY <2>1, <2>2, <2>3, <2>4, <2>5, <2>6, <2>7 DEF TypeOK, Init
<1>2. \A t \in Tasks : task[t] = Free
  BY DEF Init
<1>3. QueueTruth
  BY DEF Init, QueueTruth
<1>4. EntryHeld /\ Alone /\ OneVoter
  BY <1>2 DEF EntryHeld, Alone, OneVoter, Works, Voting, Free
<1> QED
  BY <1>1, <1>3, <1>4 DEF BridgeInv
-----------------------------------------------------------------------------
(* A step that starts no new work, opens no contract and keeps the entries *)
(* of open contracts that are worked on, keeps the invariant.              *)
LEMMA NoNewWork ==
    ASSUME BridgeInv, TypeOK', QueueTruth',
           \A a \in Accounts : Open(a)' => Open(a),
           \A t \in Tasks, a \in Accounts : Works(t, a)' => Works(t, a),
           \A t \in Tasks, a \in Accounts : Votes(t, a)' => Votes(t, a),
           \A t \in Tasks, a \in Accounts :
               Works(t, a)' /\ Open(a)' => a \in DOMAIN pending' /\ pending'[a] = TRUE
    PROVE  BridgeInv'
<1>1. EntryHeld'
  BY DEF EntryHeld
<1>2. Alone'
  BY DEF BridgeInv, Alone
<1>3. OneVoter'
  <2> SUFFICES ASSUME NEW t \in Tasks, NEW u \in Tasks,
                      Voting(t)', Voting(u)', task'[t].account = task'[u].account
               PROVE  t = u
    BY DEF OneVoter
  <2>1. task'[t].account \in Accounts
    BY DEF TypeOK, Voting, Free
  <2>2. Votes(t, task'[t].account) /\ Votes(u, task'[t].account)
    BY <2>1 DEF Votes
  <2> QED
    BY <2>2 DEF Votes, BridgeInv, OneVoter
<1> QED
  BY <1>1, <1>2, <1>3 DEF BridgeInv

(* A step of contract a that reports txs, after which the status is s.     *)
LEMMA ReportType ==
    ASSUME TypeOK, NEW a \in Accounts, NEW s \in Status, NEW txs \in Seq(TxKind),
           Report(a, txs, s)
    PROVE  queue' \in [Accounts -> Seq([tx : TxKind, status : Status])]
<1> DEFINE r == [i \in DOMAIN txs |-> [tx |-> txs[i], status |-> s]]
<1>1. r \in Seq([tx : TxKind, status : Status])
  <2>1. r \in [1..Len(txs) -> [tx : TxKind, status : Status]] /\ Len(txs) \in Nat
    OBVIOUS
  <2> QED
    BY <2>1, SeqDef
<1>2. queue[a] \o r \in Seq([tx : TxKind, status : Status])
  BY <1>1, ConcatProperties DEF TypeOK
<1> QED
  BY <1>2 DEF Report, TypeOK

(* What is reported is true of the new state, what was reported stays so.  *)
LEMMA ReportTruth ==
    ASSUME BridgeInv, NEW a \in Accounts, NEW s \in Status, NEW txs \in Seq(TxKind),
           Report(a, txs, s),
           \A i \in 1..Len(txs) :
               Truthful([tx |-> txs[i], status |-> s], status'[a], voted'[a], low'[a]),
           \A b \in Accounts, e \in [tx : TxKind, status : Status] :
               Truthful(e, status[b], voted[b], low[b])
                   => Truthful(e, status'[b], voted'[b], low'[b])
    PROVE  QueueTruth'
<1> DEFINE r == [i \in DOMAIN txs |-> [tx |-> txs[i], status |-> s]]
<1> SUFFICES ASSUME NEW b \in Accounts, NEW i \in 1..Len(queue'[b])
             PROVE  Truthful(queue'[b][i], status'[b], voted'[b], low'[b])
  BY DEF QueueTruth
<1>1. r \in Seq([tx : TxKind, status : Status]) /\ Len(r) = Len(txs)
  <2>1. r \in [1..Len(txs) -> [tx : TxKind, status : Status]] /\ Len(txs) \in Nat
    OBVIOUS
  <2> QED
    BY <2>1, SeqDef
<1>2. queue[b] \in Seq([tx : TxKind, status : Status])
  BY DEF BridgeInv, TypeOK
<1>3. CASE queue'[b] = queue[b]
  <2>1. Truthful(queue[b][i], status[b], voted[b], low[b])
    BY <1>3 DEF BridgeInv, QueueTruth
  <2>2. queue[b][i] \in [tx : TxKind, status : Status]
    BY <1>2, <1>3, ElementOfSeq
  <2> QED
    BY <2>1, <2>2, <1>3
<1>4. CASE b = a /\ queue'[a] = queue[a] \o r
  <2>1. CASE i \in 1..Len(queue[a])
    <3>1. queue'[b][i] = queue[a][i]
      BY <1>1, <1>2, <1>4, <2>1, ConcatProperties
    <3>2. Truthful(queue[a][i], status[a], voted[a], low[a])
      BY <2>1 DEF BridgeInv, QueueTruth
    <3>3. queue[a][i] \in [tx : TxKind, status : Status]
      BY <1>2, <1>4, <2>1, ElementOfSeq
    <3> QED
      BY <3>1, <3>2, <3>3, <1>4
  <2>2. CASE i \notin 1..Len(queue[a])
    <3> DEFINE k == i - Len(queue[a])
    <3>1. k \in 1..Len(txs) /\ queue'[b][i] = r[k]
      BY <1>1, <1>2, <1>4, <2>2, ConcatProperties
    <3>2. r[k] = [tx |-> txs[k], status |-> s]
      BY <3>1, <1>1
    <3> QED
      BY <3>1, <3>2, <1>4
  <2> QED
    BY <2>1, <2>2
<1>5. queue'[b] = queue[b] \/ (b = a /\ queue'[a] = queue[a] \o r)
  BY DEF Report, BridgeInv, TypeOK
<1> QED
  BY <1>3, <1>4, <1>5
(* A step of the relay leaves the contracts alone, and handling one        *)
(* transaction leaves those behind it.                                     *)
LEMMA QueueKept ==
    ASSUME BridgeInv, UNCHANGED contract,
           \/ queue' = queue
           \/ \E a \in Accounts : queue[a] # <<>> /\ queue' = [queue EXCEPT ![a] = Tail(@)]
    PROVE  /\ QueueTruth'
           /\ queue' \in [Accounts -> Seq([tx : TxKind, status : Status])]
<1>1. CASE queue' = queue
  BY <1>1 DEF BridgeInv, QueueTruth, TypeOK, contract
<1>2. CASE \E a \in Accounts : queue[a] # <<>> /\ queue' = [queue EXCEPT ![a] = Tail(@)]
  <2>1. PICK a \in Accounts : queue[a] # <<>> /\ queue' = [queue EXCEPT ![a] = Tail(@)]
    BY <1>2
  <2>2. queue[a] \in Seq([tx : TxKind, status : Status])
    BY DEF BridgeInv, TypeOK
  <2>3. /\ Tail(queue[a]) \in Seq([tx : TxKind, status : Status])
        /\ Len(Tail(queue[a])) = Len(queue[a]) - 1
        /\ \A i \in 1..Len(Tail(queue[a])) : Tail(queue[a])[i] = queue[a][i + 1]
    BY <2>1, <2>2, HeadTailProperties
  <2>4. queue' \in [Accounts -> Seq([tx : TxKind, status : Status])]
    BY <2>1, <2>3 DEF BridgeInv, TypeOK
  <2>5. ASSUME NEW b \in Accounts, NEW i \in 1..Len(queue'[b])
        PROVE  Truthful(queue'[b][i], status'[b], voted'[b], low'[b])
    <3>1. UNCHANGED <<status, voted, low>>
      BY DEF contract
    <3>2. CASE b = a
      <4>1. i + 1 \in 1..Len(queue[a]) /\ queue'[b][i] = queue[a][i + 1]
        <5>1. queue'[b] = Tail(queue[a])
          BY <2>1, <3>2 DEF BridgeInv, TypeOK
        <5>2. Len(queue[a]) \in Nat
          BY <2>2
        <5> QED
          BY <5>1, <5>2, <2>3
      <4> QED
        BY <4>1, <3>1, <3>2 DEF BridgeInv, QueueTruth
    <3>3. CASE b # a
      BY <2>1, <3>1, <3>3 DEF BridgeInv, QueueTruth, TypeOK
    <3> QED
      BY <3>2, <3>3
  <2> QED
    BY <2>4, <2>5 DEF QueueTruth
<1> QED
  BY <1>1, <1>2

(* The transaction at the head of a queue tells the truth.                 *)
LEMMA HeadTruth ==
    ASSUME BridgeInv, NEW a \in Accounts, queue[a] # <<>>
    PROVE  /\ Truthful(Head(queue[a]), status[a], voted[a], low[a])
           /\ Head(queue[a]) \in [tx : TxKind, status : Status]
<1>1. queue[a] \in Seq([tx : TxKind, status : Status])
  BY DEF BridgeInv, TypeOK
<1>2. Head(queue[a]) = queue[a][1] /\ 1 \in 1..Len(queue[a])
  BY <1>1
<1> QED
  BY <1>1, <1>2, ElementOfSeq DEF BridgeInv, QueueTruth
-----------------------------------------------------------------------------
(* What the operations on tasks do to who works and who votes.             *)

(* A task that ends works and votes no more.                               *)
LEMMA FinishTask ==
    ASSUME TypeOK, NEW t \in Tasks, Finish(t)
    PROVE  /\ task' \in [Tasks -> {Free} \cup [pc : TaskPC, account : Accounts]]
           /\ \A u \in Tasks, a \in Accounts :
                 /\ Works(u, a)' => Works(u, a) /\ u # t
                 /\ Votes(u, a)' => Votes(u, a)
<1>1. task' \in [Tasks -> {Free} \cup [pc : TaskPC, account : Accounts]]
  BY DEF TypeOK, Finish
<1>2. \A u \in Tasks : task'[u] = IF u = t THEN Free ELSE task[u]
  BY DEF TypeOK, Finish
<1>3. Free.pc = "free"
  BY DEF Free
<1> QED
  BY <1>1, <1>2, <1>3 DEF Works, Votes, Voting

(* A spawned task works, and does not vote yet.                            *)
LEMMA SpawnTask ==
    ASSUME TypeOK, NEW a \in Accounts, NEW p \in {"preprocess", "update"}, Spawn(p, a)
    PROVE  /\ task' \in [Tasks -> {Free} \cup [pc : TaskPC, account : Accounts]]
           /\ \A u \in Tasks, b \in Accounts :
                 (Works(u, b)' => Works(u, b)) /\ (Votes(u, b)' => Votes(u, b))
<1>1. PICK t \in Tasks : task' = [task EXCEPT ![t] = [pc |-> p, account |-> a]]
  BY DEF Spawn
<1>2. [pc |-> p, account |-> a] \in [pc : TaskPC, account : Accounts]
  BY DEF TaskPC
<1>3. task' \in [Tasks -> {Free} \cup [pc : TaskPC, account : Accounts]]
  BY <1>1, <1>2 DEF TypeOK
<1>4. \A u \in Tasks :
         task'[u] = IF u = t THEN [pc |-> p, account |-> a] ELSE task[u]
  BY <1>1 DEF TypeOK
<1> QED
  BY <1>3, <1>4 DEF Works, Votes, Voting

(* A task that goes on to another step.                                    *)
LEMMA BecomeTask ==
    ASSUME TypeOK, NEW t \in Tasks, NEW p \in TaskPC, task[t].pc \in TaskPC, Become(t, p)
    PROVE  /\ task' \in [Tasks -> {Free} \cup [pc : TaskPC, account : Accounts]]
           /\ task[t].account \in Accounts
           /\ task'[t].pc = p /\ task'[t].account = task[t].account
           /\ \A u \in Tasks \ {t} : task'[u] = task[u]
<1>1. task[t] \in [pc : TaskPC, account : Accounts]
  BY DEF TypeOK, Free, TaskPC
<1>2. [task[t] EXCEPT !.pc = p] \in [pc : TaskPC, account : Accounts]
  BY <1>1
<1>3. task' = [task EXCEPT ![t] = [task[t] EXCEPT !.pc = p]]
  BY DEF Become
<1> QED
  BY <1>1, <1>2, <1>3 DEF TypeOK

(* A task that is not free has an account.                                 *)
LEMMA TaskAccount ==
    ASSUME TypeOK, NEW t \in Tasks, task[t].pc \in TaskPC
    PROVE  task[t].account \in Accounts
BY DEF TypeOK, Free, TaskPC

(* process says Remove only of a contract that is not open, and Vote only  *)
(* of one that is.                                                         *)
LEMMA ProcessOpen ==
    ASSUME TypeOK, NEW a \in Accounts, Active(a)
    PROVE  /\ process(a) = "Remove" => ~Open(a)
           /\ process(a) = "Vote" => Open(a)
BY DEF TypeOK, Active, process, Open, CanVote, Status

(* The transactions that remove an entry are about contracts not open.     *)
LEMMA RemovesClosed ==
    ASSUME TypeOK, NEW a \in Accounts, NEW e \in [tx : TxKind, status : Status],
           Truthful(e, status[a], voted[a], low[a]), Removes(a, e)
    PROVE  ~Open(a)
BY DEF TypeOK, Removes, EthRemoves, TonRemoves, Truthful, Open, CanVote
-----------------------------------------------------------------------------
(* Steps of the contracts.                                                 *)

(* A contract only moves forward: its end statuses, our vote and a low     *)
(* balance stay.                                                           *)
Forward(a) ==
    /\ attr' = attr
    /\ status'[a] # status[a] => status[a] \in {"None", "Initializing", "Pending"}
    /\ voted[a] = TRUE => voted'[a] = TRUE
    /\ low[a] = TRUE => low'[a] = TRUE

(* Steps that only move contracts forward keep what tasks have read true.  *)
LEMMA ForwardStep ==
    ASSUME TypeOK, TypeOK', NEW a \in Accounts, Forward(a)
    PROVE  /\ Open(a)' => Open(a)
           /\ \A e \in [tx : TxKind, status : Status] :
                 Truthful(e, status[a], voted[a], low[a])
                     => Truthful(e, status'[a], voted'[a], low'[a])
<1>1. voted[a] \in BOOLEAN /\ voted'[a] \in BOOLEAN /\ low[a] \in BOOLEAN /\ low'[a] \in BOOLEAN
  BY DEF TypeOK
<1>2. Open(a)' => Open(a)
  BY <1>1 DEF Open, CanVote, Forward
<1>3. \A e \in [tx : TxKind, status : Status] :
         Truthful(e, status[a], voted[a], low[a])
             => Truthful(e, status'[a], voted'[a], low'[a])
  BY DEF Truthful, Forward
<1> QED
  BY <1>2, <1>3

(* The invariant under a step of a contract.                               *)
LEMMA ContractStep ==
    ASSUME BridgeInv, TypeOK', QueueTruth', pending' = pending,
           \A a \in Accounts : Forward(a),
           \A t \in Tasks, a \in Accounts :
               (Works(t, a)' => Works(t, a)) /\ (Votes(t, a)' => Votes(t, a))
    PROVE  BridgeInv'
<1>1. \A a \in Accounts : Open(a)' => Open(a)
  BY ForwardStep DEF BridgeInv
<1>2. \A t \in Tasks, a \in Accounts :
         Works(t, a)' /\ Open(a)' => a \in DOMAIN pending' /\ pending'[a] = TRUE
  BY <1>1 DEF BridgeInv, EntryHeld
<1> QED
  BY <1>1, <1>2, NoNewWork

(* Nobody starts to work when the tasks are unchanged.                     *)
LEMMA SameTasks ==
    ASSUME task' = task
    PROVE  \A t \in Tasks, a \in Accounts :
               (Works(t, a)' => Works(t, a)) /\ (Votes(t, a)' => Votes(t, a))
BY DEF Works, Votes, Voting

(* deployEvent of an event configuration contract.                         *)
LEMMA DeployEventInv ==
    ASSUME BridgeInv, NEW a \in Accounts, DeployEvent(a)
    PROVE  BridgeInv'
<1>1. TypeOK'
  <2>1. deploys' \in [Accounts -> Nat]
    BY DEF BridgeInv, TypeOK, DeployEvent
  <2>2. announced' \in [Accounts -> Nat]
    BY DEF BridgeInv, TypeOK, DeployEvent
  <2> QED
    BY <2>1, <2>2 DEF BridgeInv, TypeOK, DeployEvent
<1>2. QueueTruth'
  BY DEF BridgeInv, QueueTruth, DeployEvent
<1>3. \A b \in Accounts : Forward(b)
  BY DEF Forward, DeployEvent
<1>4. task' = task /\ pending' = pending
  BY DEF DeployEvent
<1> QED
  BY <1>1, <1>2, <1>3, <1>4, SameTasks, ContractStep

(* The constructor of an event contract.                                   *)
LEMMA ActivateInv ==
    ASSUME BridgeInv, NEW a \in Accounts, Activate(a)
    PROVE  BridgeInv'
<1>1. TypeOK'
  BY DEF BridgeInv, TypeOK, Activate, Status
<1>2. \A b \in Accounts : Forward(b)
  BY DEF BridgeInv, TypeOK, Forward, Activate
<1>3. QueueTruth'
  <2> SUFFICES ASSUME NEW b \in Accounts, NEW i \in 1..Len(queue[b])
               PROVE  Truthful(queue[b][i], status'[b], voted'[b], low'[b])
    BY DEF QueueTruth, Activate
  <2>1. queue[b][i] \in [tx : TxKind, status : Status]
    BY ElementOfSeq DEF BridgeInv, TypeOK
  <2> QED
    BY <1>1, <1>2, <2>1, ForwardStep DEF BridgeInv, QueueTruth
<1>4. task' = task /\ pending' = pending
  BY DEF Activate
<1> QED
  BY <1>1, <1>2, <1>3, <1>4, SameTasks, ContractStep

(* An event contract learns the relays of the round.                       *)
LEMMA ReceiveRoundRelaysInv ==
    ASSUME BridgeInv, NEW a \in Accounts, NEW s \in Status, ReceiveRoundRelays(a, s)
    PROVE  BridgeInv'
<1> DEFINE txs == IF s = "Pending" THEN <<"Relays">> ELSE <<"Relays", "OtherVote">>
<1>1. txs \in Seq(TxKind) /\ Report(a, txs, s)
  <2>1. "Relays" \in TxKind /\ "OtherVote" \in TxKind
    BY DEF TxKind
  <2>2. <<"Relays">> \in Seq(TxKind) /\ <<"Relays", "OtherVote">> \in Seq(TxKind)
    BY <2>1
  <2> QED
    BY <2>2 DEF ReceiveRoundRelays
<1>2. TypeOK'
  <2>1. queue' \in [Accounts -> Seq([tx : TxKind, status : Status])]
    BY <1>1, ReportType DEF BridgeInv
  <2> QED
    BY <2>1 DEF BridgeInv, TypeOK, ReceiveRoundRelays
<1>3. \A b \in Accounts : Forward(b)
  BY DEF BridgeInv, TypeOK, Forward, ReceiveRoundRelays
<1>4. \A i \in 1..Len(txs) :
         Truthful([tx |-> txs[i], status |-> s], status'[a], voted'[a], low'[a])
  <2>1. status'[a] = s
    BY DEF BridgeInv, TypeOK, ReceiveRoundRelays
  <2>2. \A i \in 1..Len(txs) : txs[i] \in {"Relays", "OtherVote"}
    OBVIOUS
  <2> QED
    BY <2>1, <2>2 DEF Truthful
<1>5. QueueTruth'
  BY <1>1, <1>2, <1>3, <1>4, ForwardStep, ReportTruth DEF BridgeInv
<1>6. task' = task /\ pending' = pending
  BY DEF ReceiveRoundRelays
<1> QED
  BY <1>2, <1>3, <1>5, <1>6, SameTasks, ContractStep

(* Votes of other relays conclude an event.                                *)
LEMMA OthersConcludeInv ==
    ASSUME BridgeInv, NEW a \in Accounts, NEW s \in Status, NEW drained \in BOOLEAN,
           OthersConclude(a, s, drained)
    PROVE  BridgeInv'
<1> DEFINE txs == <<"OtherVote">>
<1>1. txs \in Seq(TxKind) /\ Report(a, txs, s)
  BY DEF TxKind, OthersConclude
<1>2. TypeOK'
  <2>1. queue' \in [Accounts -> Seq([tx : TxKind, status : Status])]
    BY <1>1, ReportType DEF BridgeInv
  <2>2. low' \in [Accounts -> BOOLEAN]
    BY DEF BridgeInv, TypeOK, OthersConclude
  <2> QED
    BY <2>1, <2>2 DEF BridgeInv, TypeOK, OthersConclude
<1>3. \A b \in Accounts : Forward(b)
  BY DEF BridgeInv, TypeOK, Forward, OthersConclude
<1>4. \A i \in 1..Len(txs) :
         Truthful([tx |-> txs[i], status |-> s], status'[a], voted'[a], low'[a])
  BY DEF BridgeInv, TypeOK, OthersConclude, Truthful
<1>5. QueueTruth'
  BY <1>1, <1>2, <1>3, <1>4, ForwardStep, ReportTruth DEF BridgeInv
<1>6. task' = task /\ pending' = pending
  BY DEF OthersConclude
<1> QED
  BY <1>2, <1>3, <1>5, <1>6, SameTasks, ContractStep

(* A transfer contract is closed.                                          *)
LEMMA CloseInv ==
    ASSUME BridgeInv, NEW a \in Accounts, Close(a)
    PROVE  BridgeInv'
<1> DEFINE txs == <<"Closed">>
<1>1. /\ txs \in Seq(TxKind) /\ Report(a, txs, status[a])
      /\ status[a] \in Status
  BY DEF TxKind, Close, BridgeInv, TypeOK
<1>2. TypeOK'
  <2>1. queue' \in [Accounts -> Seq([tx : TxKind, status : Status])]
    BY <1>1, ReportType DEF BridgeInv
  <2> QED
    BY <2>1 DEF BridgeInv, TypeOK, Close
<1>3. \A b \in Accounts : Forward(b)
  BY DEF BridgeInv, TypeOK, Forward, Close
<1>4. \A i \in 1..Len(txs) :
         Truthful([tx |-> txs[i], status |-> status[a]], status'[a], voted'[a], low'[a])
  BY DEF BridgeInv, TypeOK, Close, Truthful
<1>5. QueueTruth'
  BY <1>1, <1>2, <1>3, <1>4, ForwardStep, ReportTruth DEF BridgeInv
<1>6. task' = task /\ pending' = pending
  BY DEF Close
<1> QED
  BY <1>2, <1>3, <1>5, <1>6, SameTasks, ContractStep

(* An event contract accepts the vote of this relay.                       *)
LEMMA AcceptInv ==
    ASSUME BridgeInv, NEW t \in Tasks, NEW s \in Status, Accept(t, s)
    PROVE  BridgeInv'
<1> DEFINE a == task[t].account
           txs == <<"OurVote">>
<1>1. a \in Accounts
  BY TaskAccount DEF BridgeInv, Accept, Is, TaskPC
<1> HIDE DEF a
<1>2. txs \in Seq(TxKind) /\ Report(a, txs, s)
  BY DEF TxKind, Accept, a
<1>3. TypeOK'
  <2>1. queue' \in [Accounts -> Seq([tx : TxKind, status : Status])]
    BY <1>1, <1>2, ReportType DEF BridgeInv
  <2>2. Finish(t)
    BY DEF Accept
  <2> QED
    BY <1>1, <2>1, <2>2, FinishTask DEF BridgeInv, TypeOK, Accept, a
<1>4. \A b \in Accounts : Forward(b)
  BY <1>1 DEF BridgeInv, TypeOK, Forward, Accept, a
<1>5. \A i \in 1..Len(txs) :
         Truthful([tx |-> txs[i], status |-> s], status'[a], voted'[a], low'[a])
  BY <1>1 DEF BridgeInv, TypeOK, Accept, Truthful, a
<1>6. QueueTruth'
  BY <1>1, <1>2, <1>3, <1>4, <1>5, ForwardStep, ReportTruth DEF BridgeInv
<1>7. pending' = pending /\ Finish(t)
  BY DEF Accept
<1> QED
  BY <1>3, <1>4, <1>6, <1>7, FinishTask, ContractStep DEF BridgeInv
-----------------------------------------------------------------------------
(* Steps of the relay.                                                     *)

(* The invariant under a step of the relay that leaves contracts alone.    *)
LEMMA SameContract ==
    ASSUME UNCHANGED contract
    PROVE  \A a \in Accounts :
               (Open(a)' <=> Open(a)) /\ (MayStillVote(a)' <=> MayStillVote(a))
BY DEF contract, Open, CanVote, MayStillVote

(* The entries after an insertion (or the start of the processing) of a,   *)
(* and after its removal.                                                  *)
LEMMA PutEntry ==
    ASSUME TypeOK, NEW a \in Accounts, NEW v \in BOOLEAN, pending' = Put(pending, a, v)
    PROVE  /\ DOMAIN pending' = DOMAIN pending \cup {a}
           /\ DOMAIN pending' \subseteq Accounts
           /\ pending' \in [DOMAIN pending' -> BOOLEAN]
           /\ pending'[a] = v
           /\ \A b \in DOMAIN pending \ {a} : pending'[b] = pending[b]
BY DEF TypeOK, Put

(* Removing an entry of the pending events.                                *)
LEMMA DropEntry ==
    ASSUME TypeOK, NEW a \in Accounts, Remove(a)
    PROVE  /\ DOMAIN pending' = DOMAIN pending \ {a}
           /\ DOMAIN pending' \subseteq Accounts
           /\ pending' \in [DOMAIN pending' -> BOOLEAN]
           /\ \A b \in DOMAIN pending \ {a} : pending'[b] = pending[b]
BY DEF TypeOK, Remove, Drop

(* A step that inserts the entry of a, not started, and spawns a task.     *)
LEMMA AddsEvent ==
    ASSUME BridgeInv, NEW a \in Accounts, NEW p \in {"preprocess", "update"},
           TypeOK', QueueTruth', UNCHANGED contract,
           a \notin DOMAIN pending, add_pending_event(a), Spawn(p, a)
    PROVE  BridgeInv'
<1>1. pending' = Put(pending, a, FALSE)
  BY DEF add_pending_event
<1>2. \A b \in DOMAIN pending : b \in DOMAIN pending' /\ pending'[b] = pending[b]
  BY <1>1, PutEntry DEF BridgeInv
<1>3. \A u \in Tasks, b \in Accounts :
         (Works(u, b)' => Works(u, b)) /\ (Votes(u, b)' => Votes(u, b))
  BY SpawnTask DEF BridgeInv
<1>4. \A b \in Accounts : Open(b)' <=> Open(b)
  BY SameContract
<1>5. \A u \in Tasks, b \in Accounts :
         Works(u, b)' /\ Open(b)' => b \in DOMAIN pending' /\ pending'[b] = TRUE
  BY <1>2, <1>3, <1>4 DEF BridgeInv, EntryHeld
<1> QED
  BY <1>3, <1>4, <1>5, NoNewWork

(* A step that neither starts work nor touches the entries.                *)
LEMMA KeepsEntries ==
    ASSUME BridgeInv, TypeOK', QueueTruth', UNCHANGED contract, pending' = pending,
           \A t \in Tasks, a \in Accounts :
               (Works(t, a)' => Works(t, a)) /\ (Votes(t, a)' => Votes(t, a))
    PROVE  BridgeInv'
<1>1. \A a \in Accounts : Forward(a)
  BY DEF Forward, contract
<1> QED
  BY <1>1, ContractStep

(* A step that removes the entry of a, which is not open or has no worker  *)
(* left.                                                                   *)
LEMMA RemovesEvent ==
    ASSUME BridgeInv, NEW a \in Accounts, TypeOK', QueueTruth', UNCHANGED contract,
           Remove(a),
           \A t \in Tasks, b \in Accounts :
               (Works(t, b)' => Works(t, b)) /\ (Votes(t, b)' => Votes(t, b)),
           Open(a) => \A t \in Tasks : ~Works(t, a)'
    PROVE  BridgeInv'
<1>1. \A b \in DOMAIN pending \ {a} : b \in DOMAIN pending' /\ pending'[b] = pending[b]
  BY DropEntry DEF BridgeInv
<1>2. \A b \in Accounts : Open(b)' <=> Open(b)
  BY SameContract
<1>3. \A u \in Tasks, b \in Accounts :
         Works(u, b)' /\ Open(b)' => b \in DOMAIN pending' /\ pending'[b] = TRUE
  BY <1>1, <1>2 DEF BridgeInv, EntryHeld
<1> QED
  BY <1>2, <1>3, NoNewWork

(* The listener of an event configuration.                                 *)
LEMMA EventDeployedInv ==
    ASSUME BridgeInv, NEW a \in Accounts, EventDeployed(a)
    PROVE  BridgeInv'
<1>1. QueueTruth' /\ UNCHANGED contract
  <2>1. UNCHANGED contract /\ queue' = queue
    BY DEF EventDeployed
  <2> QED
    BY <2>1, QueueKept
<1>2. announced' \in [Accounts -> Nat]
  <2>1. announced[a] - 1 \in Nat
    BY DEF BridgeInv, TypeOK, EventDeployed
  <2> QED
    BY <2>1 DEF BridgeInv, TypeOK, EventDeployed
<1>3. CASE UNCHANGED <<pending, task>>
  <2>1. TypeOK'
    BY <1>2, <1>3 DEF BridgeInv, TypeOK, EventDeployed, contract
  <2> QED
    BY <1>1, <1>3, <2>1, SameTasks, KeepsEntries
<1>4. CASE a \notin DOMAIN pending /\ add_pending_event(a) /\ Spawn("preprocess", a)
  <2>1. TypeOK'
    <3>1. task' \in [Tasks -> {Free} \cup [pc : TaskPC, account : Accounts]]
      BY <1>4, SpawnTask DEF BridgeInv
    <3>2. DOMAIN pending' \subseteq Accounts /\ pending' \in [DOMAIN pending' -> BOOLEAN]
      BY <1>4, PutEntry DEF BridgeInv, add_pending_event
    <3> QED
      BY <1>2, <3>1, <3>2 DEF BridgeInv, TypeOK, EventDeployed, contract
  <2> QED
    BY <1>1, <1>4, <2>1, AddsEvent
<1> QED
  BY <1>3, <1>4 DEF EventDeployed

(* The scan of the start-up.                                               *)
LEMMA ScanEventInv ==
    ASSUME BridgeInv, NEW a \in Accounts, ScanEvent(a)
    PROVE  BridgeInv'
<1>1. QueueTruth' /\ UNCHANGED contract
  <2>1. UNCHANGED contract /\ queue' = queue
    BY DEF ScanEvent
  <2> QED
    BY <2>1, QueueKept
<1>2. scan' \subseteq Accounts
  BY DEF BridgeInv, TypeOK, ScanEvent
<1>3. CASE UNCHANGED <<pending, task>>
  <2>1. TypeOK'
    BY <1>2, <1>3 DEF BridgeInv, TypeOK, ScanEvent, contract
  <2> QED
    BY <1>1, <1>3, <2>1, SameTasks, KeepsEntries
<1>4. CASE a \notin DOMAIN pending /\ add_pending_event(a) /\ Spawn("update", a)
  <2>1. TypeOK'
    <3>1. task' \in [Tasks -> {Free} \cup [pc : TaskPC, account : Accounts]]
      BY <1>4, SpawnTask DEF BridgeInv
    <3>2. DOMAIN pending' \subseteq Accounts /\ pending' \in [DOMAIN pending' -> BOOLEAN]
      BY <1>4, PutEntry DEF BridgeInv, add_pending_event
    <3> QED
      BY <1>2, <3>1, <3>2 DEF BridgeInv, TypeOK, ScanEvent, contract
  <2> QED
    BY <1>1, <1>4, <2>1, AddsEvent
<1> QED
  BY <1>3, <1>4 DEF ScanEvent

(* The listener of an event contract.                                      *)
LEMMA ProcessEventInv ==
    ASSUME BridgeInv, NEW a \in Accounts, ProcessEvent(a)
    PROVE  BridgeInv'
<1> DEFINE e == Head(queue[a])
<1>1. UNCHANGED contract /\ queue[a] # <<>> /\ queue' = [queue EXCEPT ![a] = Tail(@)]
  BY DEF ProcessEvent
<1>2. QueueTruth' /\ queue' \in [Accounts -> Seq([tx : TxKind, status : Status])]
  BY <1>1, QueueKept
<1>3. CASE UNCHANGED <<pending, task>>
  <2>1. TypeOK'
    BY <1>2, <1>3 DEF BridgeInv, TypeOK, ProcessEvent, contract
  <2> QED
    BY <1>1, <1>2, <1>3, <2>1, SameTasks, KeepsEntries
<1>4. CASE Removes(a, e) /\ Remove(a) /\ UNCHANGED task
  <2>1. TypeOK'
    <3>1. DOMAIN pending' \subseteq Accounts /\ pending' \in [DOMAIN pending' -> BOOLEAN]
      BY <1>4, DropEntry DEF BridgeInv
    <3> QED
      BY <1>2, <1>4, <3>1 DEF BridgeInv, TypeOK, ProcessEvent, contract
  <2>2. ~Open(a)
    BY <1>1, <1>4, HeadTruth, RemovesClosed DEF BridgeInv
  <2> QED
    BY <1>1, <1>2, <1>4, <2>1, <2>2, SameTasks, RemovesEvent
<1>5. CASE Spawn("update", a) /\ UNCHANGED pending
  <2>1. TypeOK'
    <3>1. task' \in [Tasks -> {Free} \cup [pc : TaskPC, account : Accounts]]
      BY <1>5, SpawnTask DEF BridgeInv
    <3> QED
      BY <1>2, <1>5, <3>1 DEF BridgeInv, TypeOK, ProcessEvent, contract
  <2>2. \A u \in Tasks, b \in Accounts :
           (Works(u, b)' => Works(u, b)) /\ (Votes(u, b)' => Votes(u, b))
    BY <1>5, SpawnTask DEF BridgeInv
  <2> QED
    BY <1>1, <1>2, <1>5, <2>1, <2>2, KeepsEntries
<1> QED
  BY <1>3, <1>4, <1>5 DEF ProcessEvent
(* preprocess_event, once the contract is there.                           *)
LEMMA PreprocessInv ==
    ASSUME BridgeInv, NEW t \in Tasks, Preprocess(t)
    PROVE  BridgeInv'
<1> DEFINE a == task[t].account
<1>1. a \in Accounts /\ task[t].pc = "preprocess"
  BY TaskAccount DEF BridgeInv, Preprocess, Is, TaskPC
<1>2. UNCHANGED contract /\ queue' = queue
  BY DEF Preprocess
<1>3. QueueTruth'
  BY <1>2, QueueKept
<1>4. CASE Finish(t) /\ UNCHANGED pending
  <2>1. TypeOK'
    BY <1>4, FinishTask DEF BridgeInv, TypeOK, Preprocess, contract
  <2> QED
    BY <1>2, <1>3, <1>4, <2>1, FinishTask, KeepsEntries DEF BridgeInv
<1>5. CASE process(a) = "Remove" /\ Finish(t) /\ Remove(a)
  <2>1. TypeOK'
    <3>1. DOMAIN pending' \subseteq Accounts /\ pending' \in [DOMAIN pending' -> BOOLEAN]
      BY <1>1, <1>5, DropEntry DEF BridgeInv
    <3> QED
      BY <1>5, <3>1, FinishTask DEF BridgeInv, TypeOK, Preprocess, contract
  <2>2. ~Open(a)
    BY <1>1, <1>5, ProcessOpen DEF BridgeInv, Preprocess
  <2> QED
    BY <1>1, <1>2, <1>3, <1>5, <2>1, <2>2, FinishTask, RemovesEvent DEF BridgeInv
<1>6. CASE Become(t, "update") /\ UNCHANGED pending
  <2>1. /\ task' \in [Tasks -> {Free} \cup [pc : TaskPC, account : Accounts]]
        /\ task'[t].pc = "update"
        /\ \A u \in Tasks \ {t} : task'[u] = task[u]
    BY <1>1, <1>6, BecomeTask DEF BridgeInv, TaskPC
  <2>2. TypeOK'
    BY <1>6, <2>1 DEF BridgeInv, TypeOK, Preprocess, contract
  <2>3. \A u \in Tasks, b \in Accounts :
           (Works(u, b)' => Works(u, b)) /\ (Votes(u, b)' => Votes(u, b))
    BY <2>1 DEF Works, Votes, Voting
  <2> QED
    BY <1>2, <1>3, <1>6, <2>2, <2>3, KeepsEntries
<1> QED
  BY <1>4, <1>5, <1>6 DEF Preprocess

(* start_processing: if the contract is open nobody works on it so far,    *)
(* since the entry's flag is not set.                                      *)
LEMMA StartProcessingInv ==
    ASSUME BridgeInv, NEW t \in Tasks, StartProcessing(t)
    PROVE  BridgeInv'
<1> DEFINE a == task[t].account
<1>1. a \in Accounts /\ task[t].pc = "update"
  BY TaskAccount DEF BridgeInv, StartProcessing, Is, TaskPC
<1>2. UNCHANGED contract /\ queue' = queue
  BY DEF StartProcessing
<1>3. QueueTruth'
  BY <1>2, QueueKept
<1>4. CASE Finish(t) /\ UNCHANGED pending
  <2>1. TypeOK'
    BY <1>4, FinishTask DEF BridgeInv, TypeOK, StartProcessing, contract
  <2> QED
    BY <1>2, <1>3, <1>4, <2>1, FinishTask, KeepsEntries DEF BridgeInv
<1>5. CASE MayStart(a) /\ Start(a) /\ Become(t, "state")
  <2>1. /\ task' \in [Tasks -> {Free} \cup [pc : TaskPC, account : Accounts]]
        /\ task'[t].pc = "state" /\ task'[t].account = a
        /\ \A u \in Tasks \ {t} : task'[u] = task[u]
    BY <1>1, <1>5, BecomeTask DEF BridgeInv, TaskPC
  <2>2. /\ DOMAIN pending' = DOMAIN pending \cup {a}
        /\ DOMAIN pending' \subseteq Accounts
        /\ pending' \in [DOMAIN pending' -> BOOLEAN]
        /\ pending'[a] = TRUE
        /\ \A b \in DOMAIN pending \ {a} : pending'[b] = pending[b]
    BY <1>1, <1>5, PutEntry DEF BridgeInv, Start
  <2>3. TypeOK'
    BY <2>1, <2>2 DEF BridgeInv, TypeOK, StartProcessing, contract
  <2>4. \A b \in Accounts : Open(b)' <=> Open(b)
    BY <1>2, SameContract
  <2>5. \A u \in Tasks, b \in Accounts :
           Works(u, b)' => (u = t /\ b = a) \/ (u # t /\ Works(u, b))
    BY <2>1 DEF Works
  <2>6. \A u \in Tasks : Open(a) => ~Works(u, a)
    BY <1>1, <1>5 DEF BridgeInv, EntryHeld, MayStart
  <2>7. EntryHeld'
    BY <2>2, <2>4, <2>5 DEF BridgeInv, EntryHeld
  <2>8. Alone'
    BY <2>4, <2>5, <2>6 DEF BridgeInv, Alone
  <2>9. OneVoter'
    BY <2>1 DEF BridgeInv, OneVoter, Voting
  <2> QED
    BY <1>3, <2>3, <2>7, <2>8, <2>9 DEF BridgeInv
<1> QED
  BY <1>4, <1>5 DEF StartProcessing

(* The state says Vote only while the contract is open, and then this task *)
(* is the only one at work.                                                *)
LEMMA CheckStateInv ==
    ASSUME BridgeInv, NEW t \in Tasks, CheckState(t)
    PROVE  BridgeInv'
<1>1. PICK a \in Accounts : a = task[t].account /\ task[t].pc = "state"
  BY TaskAccount DEF BridgeInv, CheckState, Is, TaskPC
<1>2. UNCHANGED contract /\ queue' = queue
  BY DEF CheckState
<1>3. QueueTruth'
  BY <1>2, QueueKept
<1>4. CASE Finish(t) /\ UNCHANGED <<pending, skipped>>
  <2>1. TypeOK'
    BY <1>4, FinishTask DEF BridgeInv, TypeOK, CheckState, contract
  <2> QED
    BY <1>2, <1>3, <1>4, <2>1, FinishTask, KeepsEntries DEF BridgeInv
<1>5. CASE Finish(t) /\ Remove(a) /\ (skipped' = skipped \/ skipped' = skipped \cup {a})
  <2>1. TypeOK'
    <3>1. DOMAIN pending' \subseteq Accounts /\ pending' \in [DOMAIN pending' -> BOOLEAN]
      BY <1>1, <1>5, DropEntry DEF BridgeInv
    <3>2. skipped' \subseteq Accounts
      BY <1>1, <1>5 DEF BridgeInv, TypeOK
    <3> QED
      BY <1>5, <3>1, <3>2, FinishTask DEF BridgeInv, TypeOK, CheckState, contract
  <2>2. ASSUME Open(a), NEW u \in Tasks PROVE ~Works(u, a)'
    <3>1. Works(t, a)
      BY <1>1 DEF Works
    <3>2. Works(u, a)' => Works(u, a) /\ u # t
      BY <1>1, <1>5, FinishTask DEF BridgeInv
    <3> QED
      BY <1>1, <2>2, <3>1, <3>2 DEF BridgeInv, Alone
  <2> QED
    BY <1>1, <1>2, <1>3, <1>5, <2>1, <2>2, FinishTask, RemovesEvent DEF BridgeInv
<1>6. CASE process(a) = "Vote" /\ Become(t, "verify") /\ UNCHANGED <<pending, skipped>>
  <2>1. /\ task' \in [Tasks -> {Free} \cup [pc : TaskPC, account : Accounts]]
        /\ task'[t].pc = "verify" /\ task'[t].account = a
        /\ \A u \in Tasks \ {t} : task'[u] = task[u]
    BY <1>1, <1>6, BecomeTask DEF BridgeInv, TaskPC
  <2>2. TypeOK'
    BY <1>6, <2>1 DEF BridgeInv, TypeOK, CheckState, contract
  <2>3. \A b \in Accounts : Open(b)' <=> Open(b)
    BY <1>2, SameContract
  <2>4. \A u \in Tasks, b \in Accounts : Works(u, b)' => Works(u, b)
    BY <1>1, <2>1 DEF Works
  <2>5. Open(a) /\ Works(t, a)
    BY <1>1, <1>6, ProcessOpen DEF BridgeInv, CheckState, Works
  <2>6. EntryHeld'
    BY <1>6, <2>3, <2>4 DEF BridgeInv, EntryHeld
  <2>7. Alone'
    BY <2>3, <2>4 DEF BridgeInv, Alone
  <2>8. OneVoter'
    <3>1. ASSUME NEW u \in Tasks, Voting(u)', task'[u].account = a PROVE u = t
      <4>1. SUFFICES ASSUME u # t PROVE Works(u, a)
        BY <1>1, <2>5 DEF BridgeInv, Alone
      <4> QED
        BY <2>1, <3>1, <4>1 DEF Works, Voting
    <3>2. ASSUME NEW u \in Tasks, NEW w \in Tasks, Voting(u)', Voting(w)',
                 task'[u].account = task'[w].account
          PROVE  u = w
      <4>1. CASE task'[u].account = a
        BY <3>1, <3>2, <4>1
      <4>2. CASE task'[u].account # a
        <5>1. task'[u] = task[u] /\ task'[w] = task[w]
          BY <2>1, <3>2, <4>2
        <5> QED
          BY <3>2, <5>1 DEF BridgeInv, OneVoter, Voting
      <4> QED
        BY <4>1, <4>2
    <3> QED
      BY <3>2 DEF OneVoter
  <2> QED
    BY <1>3, <2>2, <2>6, <2>7, <2>8 DEF BridgeInv
<1> QED
  BY <1>1, <1>4, <1>5, <1>6 DEF CheckState

(* Steps of a task that votes and goes on, or ends.                        *)
LEMMA VoterStep ==
    ASSUME BridgeInv, NEW t \in Tasks, Voting(t), NEW p \in {"deliver", "sent"},
           UNCHANGED <<contract, announced, queue, scan, pending, skipped>>,
           Become(t, p) \/ Finish(t)
    PROVE  BridgeInv'
<1>1. QueueTruth' /\ UNCHANGED contract
  BY QueueKept
<1>2. CASE Become(t, p)
  <2>1. /\ task' \in [Tasks -> {Free} \cup [pc : TaskPC, account : Accounts]]
        /\ task'[t].pc = p /\ task'[t].account = task[t].account
        /\ \A u \in Tasks \ {t} : task'[u] = task[u]
    BY <1>2, BecomeTask DEF BridgeInv, TaskPC, Voting
  <2>2. TypeOK'
    BY <2>1 DEF BridgeInv, TypeOK, contract
  <2>3. \A u \in Tasks, b \in Accounts :
           (Works(u, b)' => Works(u, b)) /\ (Votes(u, b)' => Votes(u, b))
    BY <2>1 DEF Works, Votes, Voting
  <2> QED
    BY <1>1, <2>2, <2>3, KeepsEntries
<1>3. CASE Finish(t)
  <2>1. TypeOK'
    BY <1>3, FinishTask DEF BridgeInv, TypeOK, contract
  <2> QED
    BY <1>1, <1>3, <2>1, FinishTask, KeepsEntries DEF BridgeInv
<1> QED
  BY <1>2, <1>3

(* The verification has an answer.                                         *)
LEMMA VerifiedInv ==
    ASSUME BridgeInv, NEW t \in Tasks, Verified(t)
    PROVE  BridgeInv'
BY VoterStep DEF Verified, Voting, Is

(* deliver_message sends the vote.                                         *)
LEMMA SendInv ==
    ASSUME BridgeInv, NEW t \in Tasks, Send(t)
    PROVE  BridgeInv'
BY VoterStep DEF Send, Voting, Is

(* The vote has expired and deliver_message looks whether to send it       *)
(* again.                                                                  *)
LEMMA ExpireInv ==
    ASSUME BridgeInv, NEW t \in Tasks, Expire(t)
    PROVE  BridgeInv'
BY VoterStep DEF Expire, Retry, Voting, Is

(* A failed verification removes the entry although the contract may be    *)
(* open; this task was the only one at work on it.                         *)
LEMMA VerifyFailedInv ==
    ASSUME BridgeInv, NEW t \in Tasks, VerifyFailed(t)
    PROVE  BridgeInv'
<1>1. PICK a \in Accounts : a = task[t].account /\ task[t].pc = "verify"
  BY TaskAccount DEF BridgeInv, VerifyFailed, Is, TaskPC
<1>2. UNCHANGED contract /\ queue' = queue
  BY DEF VerifyFailed
<1>3. QueueTruth'
  BY <1>2, QueueKept
<1>4. Finish(t) /\ Remove(a) /\ skipped' = skipped \cup {a}
  BY <1>1 DEF VerifyFailed
<1>5. TypeOK'
  <2>1. DOMAIN pending' \subseteq Accounts /\ pending' \in [DOMAIN pending' -> BOOLEAN]
    BY <1>1, <1>4, DropEntry DEF BridgeInv
  <2> QED
    BY <1>1, <1>4, <2>1, FinishTask DEF BridgeInv, TypeOK, VerifyFailed, contract
<1>6. ASSUME Open(a), NEW u \in Tasks PROVE ~Works(u, a)'
  <2>1. Works(t, a)
    BY <1>1 DEF Works
  <2>2. Works(u, a)' => Works(u, a) /\ u # t
    BY <1>1, <1>4, FinishTask DEF BridgeInv
  <2> QED
    BY <1>1, <1>6, <2>1, <2>2 DEF BridgeInv, Alone
<1> QED
  BY <1>1, <1>2, <1>3, <1>4, <1>5, <1>6, FinishTask, RemovesEvent DEF BridgeInv

(* An error ends a background task.                                        *)
LEMMA TaskFailedInv ==
    ASSUME BridgeInv, NEW t \in Tasks, TaskFailed(t)
    PROVE  BridgeInv'
<1>1. UNCHANGED contract /\ queue' = queue /\ pending' = pending /\ Finish(t)
  BY DEF TaskFailed
<1>2. QueueTruth'
  BY <1>1, QueueKept
<1>3. TypeOK'
  BY <1>1, FinishTask DEF BridgeInv, TypeOK, TaskFailed, contract
<1> QED
  BY <1>1, <1>2, <1>3, FinishTask, KeepsEntries DEF BridgeInv

(* Every step, one action at a time.                                       *)
LEMMA BridgeNext == BridgeInv /\ [Next]_vars => BridgeInv'
<1> SUFFICES ASSUME BridgeInv, [Next]_vars PROVE BridgeInv'
  OBVIOUS
<1>1. CASE Contract
  BY <1>1, DeployEventInv, ActivateInv, CloseInv, ReceiveRoundRelaysInv, OthersConcludeInv
     DEF Contract
<1>2. ASSUME NEW t \in Tasks, NEW s \in Status, Accept(t, s) PROVE BridgeInv'
  BY <1>2, AcceptInv
<1>3. CASE Relay
  BY <1>3, EventDeployedInv, ProcessEventInv, ScanEventInv, PreprocessInv,
     StartProcessingInv, CheckStateInv, VerifiedInv, VerifyFailedInv, SendInv,
     ExpireInv, TaskFailedInv DEF Relay
<1>4. CASE UNCHANGED vars
  <2>1. UNCHANGED contract /\ queue' = queue /\ task' = task /\ pending' = pending
    BY <1>4 DEF vars
  <2>2. TypeOK'
    BY <1>4 DEF BridgeInv, TypeOK, vars, contract
  <2> QED
    BY <2>1, <2>2, QueueKept, SameTasks, KeepsEntries
<1> QED
  BY <1>1, <1>2, <1>3, <1>4 DEF Next

(* No two background tasks vote for the same event at the same time, and   *)
(* the state keeps its type.                                               *)
THEOREM OneVoterPerEvent == Spec => []TypeOK /\ []OneVoter
<1>1. BridgeInv => TypeOK /\ OneVoter
  BY DEF BridgeInv
<1> QED
  BY <1>1, BridgeInit, BridgeNext, PTL DEF Spec

-----------------------------------------------------------------------------
(* One step of DroppedOnlyWhenUseless.                                     *)
DropIsUseless ==
    \A a \in Accounts :
        a \in DOMAIN pending /\ a \notin DOMAIN pending'
            => ~MayStillVote(a)' \/ a \in skipped'

(* An event that can use the vote is open.                                 *)
LEMMA OpenCoversVote == \A a \in Accounts : MayStillVote(a) => Open(a)
BY DEF MayStillVote, Open

(* No step drops an entry that is of use.                                  *)
LEMMA DropStep == BridgeInv /\ [Next]_vars => DropIsUseless
<1> SUFFICES ASSUME BridgeInv, [Next]_vars,
                    NEW a \in Accounts, a \in DOMAIN pending, a \notin DOMAIN pending'
             PROVE  ~MayStillVote(a)' \/ a \in skipped'
  BY DEF DropIsUseless
<1>1. SUFFICES ASSUME UNCHANGED contract PROVE ~Open(a) \/ a \in skipped'
  <2>1. UNCHANGED contract
    <3>1. CASE Contract
      BY <3>1 DEF Contract, DeployEvent, Activate, Close, ReceiveRoundRelays, OthersConclude
    <3>2. ASSUME NEW t \in Tasks, NEW s \in Status, Accept(t, s) PROVE FALSE
      BY <3>2 DEF Accept
    <3>3. CASE Relay
      BY <3>3 DEF Relay, EventDeployed, ProcessEvent, ScanEvent, Preprocess,
                  StartProcessing, CheckState, Verified, VerifyFailed, Send, Expire,
                  TaskFailed
    <3>4. CASE UNCHANGED vars
      BY <3>4 DEF vars
    <3> QED
      BY <3>1, <3>2, <3>3, <3>4 DEF Next
  <2> QED
    BY <2>1, SameContract, OpenCoversVote
<1>2. CASE Contract
  BY <1>2 DEF Contract, DeployEvent, Activate, Close, ReceiveRoundRelays, OthersConclude
<1>3. ASSUME NEW t \in Tasks, NEW s \in Status, Accept(t, s) PROVE FALSE
  BY <1>3 DEF Accept
<1>4. ASSUME NEW b \in Accounts, EventDeployed(b) \/ ScanEvent(b) PROVE FALSE
  BY <1>4 DEF EventDeployed, ScanEvent, add_pending_event, Put
<1>5. ASSUME NEW b \in Accounts, ProcessEvent(b) PROVE ~Open(a)
  <2>1. Removes(b, Head(queue[b])) /\ Remove(b) /\ queue[b] # <<>>
    BY <1>5 DEF ProcessEvent
  <2>2. b = a
    BY <2>1 DEF Remove, Drop
  <2> QED
    BY <2>1, <2>2, HeadTruth, RemovesClosed DEF BridgeInv
<1>6. ASSUME NEW t \in Tasks, Preprocess(t) PROVE ~Open(a)
  <2>1. /\ process(task[t].account) = "Remove" /\ Remove(task[t].account)
        /\ Active(task[t].account)
    BY <1>6 DEF Preprocess
  <2>2. task[t].account = a
    BY <2>1 DEF Remove, Drop
  <2> QED
    BY <2>1, <2>2, ProcessOpen DEF BridgeInv
<1>7. ASSUME NEW t \in Tasks, CheckState(t) PROVE ~Open(a) \/ a \in skipped'
  <2>1. /\ Remove(task[t].account) /\ Active(task[t].account)
        /\ \/ process(task[t].account) = "Remove"
           \/ skipped' = skipped \cup {task[t].account}
    BY <1>7 DEF CheckState
  <2>2. task[t].account = a
    BY <2>1 DEF Remove, Drop
  <2> QED
    BY <2>1, <2>2, ProcessOpen DEF BridgeInv
<1>8. ASSUME NEW t \in Tasks, VerifyFailed(t) PROVE a \in skipped'
  <2>1. Remove(task[t].account) /\ skipped' = skipped \cup {task[t].account}
    BY <1>8 DEF VerifyFailed
  <2>2. task[t].account = a
    BY <2>1 DEF Remove, Drop
  <2> QED
    BY <2>1, <2>2
<1>9. ASSUME NEW t \in Tasks, StartProcessing(t) PROVE FALSE
  BY <1>9 DEF StartProcessing, Start, Put
<1>10. ASSUME NEW t \in Tasks, Verified(t) \/ Send(t) \/ Expire(t) \/ TaskFailed(t)
       PROVE  FALSE
  BY <1>10 DEF Verified, Send, Expire, TaskFailed
<1>11. CASE UNCHANGED vars
  BY <1>11 DEF vars
<1> QED
  BY <1>2, <1>3, <1>4, <1>5, <1>6, <1>7, <1>8, <1>9, <1>10, <1>11 DEF Next, Relay

(* An event is dropped only when the contract can no longer use our vote,  *)
(* or for lack of a configuration or of a verification, however late the   *)
(* transactions and the states that decide about it are handled.           *)
THEOREM DropsAreUseless == Spec => DroppedOnlyWhenUseless
<1>1. BridgeInv /\ [Next]_vars => [DropIsUseless]_vars
  BY DropStep
<1>2. Spec => [][DropIsUseless]_vars
  BY <1>1, BridgeInit, BridgeNext, PTL DEF Spec
<1> QED
  BY <1>2 DEF DroppedOnlyWhenUseless, DropIsUseless

-----------------------------------------------------------------------------
(* Entries are not abandoned: what it takes when no request fails and no   *)
(* contract was initialising when the relay started.                       *)

(* The relays of the round have arrived, and the voting has begun.         *)
Started(a) == status[a] \in {"Pending", "Confirmed", "Rejected"}

(* Task t is about to find out whether to start with a, or to start.       *)
Heads(t, a) == task[t].pc \in {"preprocess", "update"} /\ task[t].account = a

(* Task t has been told to vote for a.                                     *)
Engaged(t, a) == Works(t, a) \/ (task[t].pc = "update" /\ task[t].account = a)

RelaysAhead(a) == \E i \in 1..Len(queue[a]) : queue[a][i].tx = "Relays"

(* Whoever starts with a does so after the voting has begun: a task that   *)
(* starts earlier reads Nop and leaves the entry marked for good.          *)
StartsInTime(a) ==
    (\/ a \in scan \/ queue[a] # <<>>
     \/ a \in DOMAIN pending /\ pending[a] = TRUE
     \/ \E t \in Tasks : Engaged(t, a)) => Started(a)

MarkedIsWorkedOn(a) ==
    a \in DOMAIN pending /\ pending[a] = TRUE /\ Duty(a) => \E t \in Tasks : Works(t, a)

UnmarkedWillStart(a) ==
    a \in DOMAIN pending /\ pending[a] = FALSE /\ Duty(a)
        => RelaysAhead(a) \/ \E t \in Tasks : Heads(t, a)

Cared(a) == StartsInTime(a) /\ MarkedIsWorkedOn(a) /\ UnmarkedWillStart(a)

CareInv == \A a \in Accounts : Cared(a)

(* At the start there are no entries, and the snapshot holds no contract   *)
(* before the voting.                                                      *)
LEMMA CareInit ==
    ASSUME "Initializing" \notin InitStatus, Init
    PROVE  CareInv
<1> SUFFICES ASSUME NEW a \in Accounts PROVE Cared(a)
  BY DEF CareInv
<1>1. DOMAIN pending = {} /\ queue[a] = <<>> /\ \A t \in Tasks : task[t].pc = "free"
  BY DEF Init, EmptyMap, Free
<1>2. a \in scan => Started(a)
  <2>1. status[a] \in InitStatus
    BY DEF Init
  <2>2. a \in scan => status[a] # "None"
    BY DEF Init
  <2> QED BY <2>1, <2>2, ConstAssumption DEF Started
<1> QED
  BY <1>1, <1>2 DEF Cared, StartsInTime, MarkedIsWorkedOn, UnmarkedWillStart,
                    Engaged, Works

(* A step of another account's contract, entry or task.                    *)
LEMMA Untouched ==
    ASSUME NEW b \in Accounts, Cared(b),
           attr' = attr, status'[b] = status[b], voted'[b] = voted[b], low'[b] = low[b],
           queue'[b] = queue[b], b \in scan' => b \in scan,
           b \in DOMAIN pending' <=> b \in DOMAIN pending,
           b \in DOMAIN pending => pending'[b] = pending[b],
           \A u \in Tasks : /\ Works(u, b)' <=> Works(u, b)
                            /\ Heads(u, b)' <=> Heads(u, b)
                            /\ Engaged(u, b)' <=> Engaged(u, b)
    PROVE  Cared(b)'
<1>1. (Started(b)' <=> Started(b)) /\ (Duty(b)' <=> Duty(b))
  BY DEF Started, Duty, process, CanVote
<1>2. RelaysAhead(b)' <=> RelaysAhead(b)
  BY DEF RelaysAhead
<1>3. StartsInTime(b)'
  BY <1>1 DEF Cared, StartsInTime
<1>4. MarkedIsWorkedOn(b)'
  BY <1>1 DEF Cared, MarkedIsWorkedOn
<1>5. UnmarkedWillStart(b)'
  BY <1>1, <1>2 DEF Cared, UnmarkedWillStart
<1> QED
  BY <1>3, <1>4, <1>5 DEF Cared

(* A task of a that begins, goes on or ends is none of b's business.       *)
LEMMA TaskElsewhere ==
    ASSUME NEW t \in Tasks, NEW a \in Accounts, NEW b \in Accounts, a # b,
           \A u \in Tasks \ {t} : task'[u] = task[u],
           task[t].pc = "free" \/ task[t].account = a,
           task'[t].pc = "free" \/ task'[t].account = a
    PROVE  \A u \in Tasks : /\ Works(u, b)' <=> Works(u, b)
                            /\ Heads(u, b)' <=> Heads(u, b)
                            /\ Engaged(u, b)' <=> Engaged(u, b)
BY DEF Works, Heads, Engaged

(* The same tasks serve the same accounts.                                 *)
LEMMA TasksUntouched ==
    ASSUME task' = task
    PROVE  \A u \in Tasks, b \in Accounts : /\ Works(u, b)' <=> Works(u, b)
                                            /\ Heads(u, b)' <=> Heads(u, b)
                                            /\ Engaged(u, b)' <=> Engaged(u, b)
BY DEF Works, Heads, Engaged

(* What Finish and Spawn do, task by task.                                 *)
LEMMA FinishEffect ==
    ASSUME TypeOK, NEW t \in Tasks, Finish(t)
    PROVE  task'[t].pc = "free" /\ \A u \in Tasks \ {t} : task'[u] = task[u]
BY DEF TypeOK, Finish, Free

(* What spawn_background_task does.                                        *)
LEMMA SpawnEffect ==
    ASSUME TypeOK, NEW p, NEW a \in Accounts, Spawn(p, a)
    PROVE  \E t \in Tasks :
              /\ task[t].pc = "free" /\ task'[t].pc = p /\ task'[t].account = a
              /\ \A u \in Tasks \ {t} : task'[u] = task[u]
BY DEF TypeOK, Spawn, Is

(* A report keeps what waits in the queues; one that begins with the       *)
(* relays and has an observer puts the start of the voting there.          *)
LEMMA ReportAhead ==
    ASSUME TypeOK, NEW a \in Accounts, NEW s \in Status, NEW txs \in Seq(TxKind),
           Report(a, txs, s)
    PROVE  /\ \A b \in Accounts \ {a} : queue'[b] = queue[b]
           /\ RelaysAhead(a) => RelaysAhead(a)'
           /\ a \in DOMAIN pending /\ txs # <<>> /\ txs[1] = "Relays" => RelaysAhead(a)'
<1> DEFINE r == [i \in DOMAIN txs |-> [tx |-> txs[i], status |-> s]]
<1>1. r \in Seq([tx : TxKind, status : Status]) /\ Len(r) = Len(txs) /\ Len(txs) \in Nat
  <2>1. r \in [1..Len(txs) -> [tx : TxKind, status : Status]] /\ Len(txs) \in Nat
    OBVIOUS
  <2> QED
    BY <2>1, SeqDef
<1>2. queue[a] \in Seq([tx : TxKind, status : Status]) /\ Len(queue[a]) \in Nat
  <2>1. queue[a] \in Seq([tx : TxKind, status : Status])
    BY DEF TypeOK
  <2> QED BY <2>1, LenProperties
<1>3. \A b \in Accounts \ {a} : queue'[b] = queue[b]
  BY DEF Report, TypeOK
<1>4. CASE ~Observed(a)
  BY <1>3, <1>4 DEF Report, RelaysAhead, Observed
<1>5. CASE Observed(a)
  <2>1. queue'[a] = queue[a] \o r
    BY <1>5 DEF Report, TypeOK
  <2>2. /\ Len(queue'[a]) = Len(queue[a]) + Len(txs)
        /\ \A i \in 1..Len(queue[a]) : queue'[a][i] = queue[a][i]
        /\ \A i \in 1..Len(txs) : queue'[a][Len(queue[a]) + i] = r[i]
    <3> HIDE DEF r
    <3>1. /\ Len(queue[a] \o r) = Len(queue[a]) + Len(r)
          /\ \A i \in 1..Len(queue[a]) + Len(r) :
                (queue[a] \o r)[i] = IF i <= Len(queue[a]) THEN queue[a][i]
                                                          ELSE r[i - Len(queue[a])]
      BY <1>1, <1>2, ConcatProperties
    <3> QED BY <1>1, <1>2, <2>1, <3>1
  <2>3. RelaysAhead(a) => RelaysAhead(a)'
    BY <1>1, <1>2, <2>2 DEF RelaysAhead
  <2>4. ASSUME txs # <<>>, txs[1] = "Relays" PROVE RelaysAhead(a)'
    <3>1. 1 \in 1..Len(txs)
      BY <1>1, <2>4, EmptySeq
    <3>2. r[1].tx = "Relays"
      BY <2>4, <3>1
    <3> HIDE DEF r
    <3>3. /\ Len(queue[a]) + 1 \in 1..Len(queue'[a])
          /\ queue'[a][Len(queue[a]) + 1].tx = "Relays"
      BY <1>1, <1>2, <2>2, <3>1, <3>2
    <3> QED BY <3>3 DEF RelaysAhead
  <2> QED BY <1>3, <2>3, <2>4
<1> QED
  BY <1>4, <1>5
-----------------------------------------------------------------------------
(* A step of a contract after which the voting has begun or goes on, that  *)
(* gives the relay no new duty.                                            *)
LEMMA NoNewDuty ==
    ASSUME NEW a \in Accounts, Cared(a), Started(a)', pending' = pending, task' = task,
           Duty(a)' => Duty(a), RelaysAhead(a) => RelaysAhead(a)'
    PROVE  Cared(a)'
BY TasksUntouched DEF Cared, StartsInTime, MarkedIsWorkedOn, UnmarkedWillStart

(* A deployEvent transaction and the arrival of the contract: there is no  *)
(* duty before the relays arrive.                                          *)
LEMMA CareDeploy ==
    ASSUME BridgeInv, CareInv, NEW a \in Accounts, DeployEvent(a) \/ Activate(a)
    PROVE  CareInv'
<1>1. /\ UNCHANGED <<attr, voted, low, queue, scan, pending, task>>
      /\ \A b \in Accounts \ {a} : status'[b] = status[b]
  BY DEF DeployEvent, Activate, BridgeInv, TypeOK
<1>2. ASSUME NEW b \in Accounts, status'[b] = status[b] PROVE Cared(b)'
  BY <1>1, <1>2, TasksUntouched, Untouched DEF CareInv
<1>3. ASSUME status'[a] # status[a] PROVE Cared(a)'
  <2>1. status[a] = "None" /\ status'[a] = "Initializing"
    BY <1>3 DEF DeployEvent, Activate, BridgeInv, TypeOK
  <2>2. ~Started(a) /\ ~Duty(a)'
    BY <2>1 DEF Started, Duty, process
  <2>3. StartsInTime(a)'
    BY <1>1, <2>2, TasksUntouched DEF CareInv, Cared, StartsInTime
  <2> QED BY <2>2, <2>3 DEF Cared, MarkedIsWorkedOn, UnmarkedWillStart
<1> QED
  BY <1>1, <1>2, <1>3 DEF CareInv

(* The relays arrive.  No entry is marked so far, and the transaction is   *)
(* reported for every entry there is.                                      *)
LEMMA CareRelays ==
    ASSUME BridgeInv, CareInv, NEW a \in Accounts, NEW s \in Status, ReceiveRoundRelays(a, s)
    PROVE  CareInv'
<1> DEFINE txs == IF s = "Pending" THEN <<"Relays">> ELSE <<"Relays", "OtherVote">>
<1>1. txs \in Seq(TxKind) /\ Report(a, txs, s) /\ txs # <<>> /\ txs[1] = "Relays"
  <2>1. "Relays" \in TxKind /\ "OtherVote" \in TxKind
    BY DEF TxKind
  <2>2. <<"Relays">> \in Seq(TxKind) /\ <<"Relays", "OtherVote">> \in Seq(TxKind)
    BY <2>1
  <2> QED
    BY <2>2 DEF ReceiveRoundRelays
<1> HIDE DEF txs
<1>2. /\ UNCHANGED <<attr, voted, low, scan, pending, task>>
      /\ \A b \in Accounts \ {a} : status'[b] = status[b]
      /\ status[a] = "Initializing" /\ status'[a] \in {"Pending", "Confirmed", "Rejected"}
  BY DEF ReceiveRoundRelays, BridgeInv, TypeOK
<1>3. /\ \A b \in Accounts \ {a} : queue'[b] = queue[b]
      /\ a \in DOMAIN pending => RelaysAhead(a)'
  BY <1>1, ReportAhead DEF BridgeInv
<1>4. ASSUME NEW b \in Accounts \ {a} PROVE Cared(b)'
  BY <1>2, <1>3, TasksUntouched, Untouched DEF CareInv
<1>5. ~(a \in DOMAIN pending /\ pending[a] = TRUE)
  BY <1>2 DEF CareInv, Cared, StartsInTime, Started
<1>6. Cared(a)'
  BY <1>2, <1>3, <1>5 DEF Cared, StartsInTime, Started, MarkedIsWorkedOn, UnmarkedWillStart
<1> QED
  BY <1>4, <1>6 DEF CareInv

(* The voting ends, or the contract is closed: a duty may only go.         *)
LEMMA CareConclude ==
    ASSUME BridgeInv, CareInv, NEW a \in Accounts,
           Close(a) \/ \E s \in Status, drained \in BOOLEAN : OthersConclude(a, s, drained)
    PROVE  CareInv'
<1>1. PICK s \in Status, txs \in Seq(TxKind) : Report(a, txs, s)
  <2>1. <<"Closed">> \in Seq(TxKind) /\ <<"OtherVote">> \in Seq(TxKind)
    BY DEF TxKind
  <2>2. status[a] \in Status
    BY DEF BridgeInv, TypeOK
  <2> QED
    BY <2>1, <2>2 DEF Close, OthersConclude
<1>2. /\ UNCHANGED <<attr, voted, scan, pending, task>>
      /\ \A b \in Accounts \ {a} : status'[b] = status[b] /\ low'[b] = low[b]
      /\ \/ status[a] = "Pending" /\ status'[a] \in {"Confirmed", "Rejected"}
         \/ status[a] \in {"Pending", "Confirmed"} /\ status'[a] = status[a]
      /\ low[a] = TRUE => low'[a] = TRUE
      /\ low[a] \in BOOLEAN /\ low'[a] \in BOOLEAN
  BY DEF Close, OthersConclude, BridgeInv, TypeOK
<1>3. /\ \A b \in Accounts \ {a} : queue'[b] = queue[b]
      /\ RelaysAhead(a) => RelaysAhead(a)'
  BY <1>1, ReportAhead DEF BridgeInv
<1>4. ASSUME NEW b \in Accounts \ {a} PROVE Cared(b)'
  BY <1>2, <1>3, TasksUntouched, Untouched DEF CareInv
<1>5. Started(a)'
  BY <1>2 DEF Started
<1>6. Duty(a)' => Duty(a)
  BY <1>2 DEF Duty, process, CanVote
<1>7. Cared(a)'
  BY <1>2, <1>3, <1>5, <1>6, NoNewDuty DEF CareInv
<1> QED
  BY <1>4, <1>7 DEF CareInv

(* Our vote is accepted, and the duty is done.                             *)
LEMMA CareAccept ==
    ASSUME BridgeInv, CareInv, NEW t \in Tasks, NEW s \in Status, Accept(t, s)
    PROVE  CareInv'
<1>1. PICK a \in Accounts : a = task[t].account
  BY TaskAccount DEF BridgeInv, Accept, Is, TaskPC
<1>2. /\ Report(a, <<"OurVote">>, s) /\ <<"OurVote">> \in Seq(TxKind)
      /\ UNCHANGED <<attr, low, scan, pending>> /\ Finish(t) /\ process(a) = "Vote"
      /\ voted'[a] = TRUE /\ (status'[a] = status[a] \/ status'[a] \in {"Confirmed", "Rejected"})
      /\ \A b \in Accounts \ {a} : status'[b] = status[b] /\ voted'[b] = voted[b]
  <2>1. "OurVote" \in TxKind
    BY DEF TxKind
  <2>2. <<"OurVote">> \in Seq(TxKind)
    BY <2>1
  <2>3. /\ Report(a, <<"OurVote">>, s) /\ Finish(t) /\ process(a) = "Vote"
        /\ UNCHANGED <<attr, low, scan, pending>>
        /\ s = status[a] \/ s \in {"Confirmed", "Rejected"}
        /\ voted' = [voted EXCEPT ![a] = TRUE] /\ status' = [status EXCEPT ![a] = s]
    BY <1>1 DEF Accept
  <2>4. DOMAIN voted = Accounts /\ DOMAIN status = Accounts
    BY DEF BridgeInv, TypeOK
  <2> QED BY <2>2, <2>3, <2>4
<1>3. \A b \in Accounts \ {a} : queue'[b] = queue[b]
  BY <1>2, ReportAhead DEF BridgeInv
<1>4. ASSUME NEW b \in Accounts \ {a} PROVE Cared(b)'
  <2>1. task'[t].pc = "free" /\ \A u \in Tasks \ {t} : task'[u] = task[u]
    BY <1>2, FinishEffect DEF BridgeInv
  <2>2. \A u \in Tasks : /\ Works(u, b)' <=> Works(u, b)
                         /\ Heads(u, b)' <=> Heads(u, b)
                         /\ Engaged(u, b)' <=> Engaged(u, b)
    BY <1>1, <2>1, TaskElsewhere
  <2> QED BY <1>2, <1>3, <2>2, Untouched DEF CareInv
<1>5. Started(a)' /\ ~Duty(a)'
  BY <1>2 DEF Started, process, Duty, CanVote
<1>6. Cared(a)'
  BY <1>5 DEF Cared, StartsInTime, MarkedIsWorkedOn, UnmarkedWillStart
<1> QED
  BY <1>4, <1>6 DEF CareInv
-----------------------------------------------------------------------------
(* A step of the relay gives it no duty and takes none.                    *)
LEMMA SameDuty ==
    ASSUME UNCHANGED contract
    PROVE  \A b \in Accounts : (Started(b)' <=> Started(b)) /\ (Duty(b)' <=> Duty(b))
BY DEF contract, Started, Duty, process, CanVote

(* A new entry comes with the task that finds out what to do with it.      *)
LEMMA CareAdd ==
    ASSUME BridgeInv, CareInv, NEW a \in Accounts, a \notin DOMAIN pending,
           UNCHANGED contract, queue' = queue, scan' \subseteq scan, add_pending_event(a),
           Spawn("preprocess", a) \/ (Started(a) /\ Spawn("update", a))
    PROVE  CareInv'
<1>1. PICK t \in Tasks :
         /\ task[t].pc = "free" /\ task'[t].account = a
         /\ task'[t].pc = "preprocess" \/ (task'[t].pc = "update" /\ Started(a))
         /\ \A u \in Tasks \ {t} : task'[u] = task[u]
  BY SpawnEffect DEF BridgeInv
<1>2. /\ DOMAIN pending' = DOMAIN pending \cup {a} /\ pending'[a] = FALSE
      /\ \A b \in DOMAIN pending \ {a} : pending'[b] = pending[b]
  BY PutEntry DEF BridgeInv, add_pending_event
<1>3. ASSUME NEW b \in Accounts \ {a} PROVE Cared(b)'
  <2>1. \A u \in Tasks : /\ Works(u, b)' <=> Works(u, b)
                         /\ Heads(u, b)' <=> Heads(u, b)
                         /\ Engaged(u, b)' <=> Engaged(u, b)
    BY <1>1, TaskElsewhere
  <2> QED BY <1>2, <2>1, Untouched DEF CareInv, contract
<1>4. StartsInTime(a)'
  <2>1. \A u \in Tasks : Engaged(u, a)' => Engaged(u, a) \/ Started(a)
    BY <1>1 DEF Engaged, Works
  <2> QED BY <1>2, <2>1, SameDuty DEF CareInv, Cared, StartsInTime
<1>5. Heads(t, a)'
  BY <1>1 DEF Heads
<1>6. Cared(a)'
  BY <1>2, <1>4, <1>5 DEF Cared, MarkedIsWorkedOn, UnmarkedWillStart
<1> QED
  BY <1>3, <1>6 DEF CareInv

(* The announcement of an event and the scan of the start-up.              *)
LEMMA CareFound ==
    ASSUME BridgeInv, CareInv, NEW a \in Accounts, EventDeployed(a) \/ ScanEvent(a)
    PROVE  CareInv'
<1>1. UNCHANGED contract /\ queue' = queue /\ scan' \subseteq scan
  BY DEF EventDeployed, ScanEvent
<1>2. CASE UNCHANGED <<pending, task>>
  BY <1>1, <1>2, TasksUntouched, Untouched DEF CareInv, contract
<1>3. CASE a \notin DOMAIN pending /\ add_pending_event(a) /\ Spawn("preprocess", a)
  BY <1>1, <1>3, CareAdd
<1>4. CASE a \in scan /\ a \notin DOMAIN pending /\ add_pending_event(a) /\ Spawn("update", a)
  <2>1. Started(a)
    BY <1>4 DEF CareInv, Cared, StartsInTime
  <2> QED BY <1>1, <1>4, <2>1, CareAdd
<1> QED
  BY <1>2, <1>3, <1>4 DEF EventDeployed, ScanEvent

(* A step after which a has no entry.                                      *)
LEMMA CareRemove ==
    ASSUME BridgeInv, CareInv, NEW a \in Accounts,
           UNCHANGED contract, scan' = scan, Remove(a),
           queue' = queue \/ (queue[a] # <<>> /\ queue' = [queue EXCEPT ![a] = Tail(@)]),
           task' = task \/ \E t \in Tasks : task[t].account = a /\ Finish(t)
    PROVE  CareInv'
<1>1. /\ DOMAIN pending' = DOMAIN pending \ {a}
      /\ \A b \in DOMAIN pending \ {a} : pending'[b] = pending[b]
  BY DropEntry DEF BridgeInv
<1>2. ASSUME NEW b \in Accounts \ {a} PROVE Cared(b)'
  <2>1. queue'[b] = queue[b]
    BY DEF BridgeInv, TypeOK
  <2>2. \A u \in Tasks : /\ Works(u, b)' <=> Works(u, b)
                         /\ Heads(u, b)' <=> Heads(u, b)
                         /\ Engaged(u, b)' <=> Engaged(u, b)
    BY FinishEffect, TaskElsewhere, TasksUntouched DEF BridgeInv
  <2> QED BY <1>1, <2>1, <2>2, Untouched DEF CareInv, contract
<1>3. \A u \in Tasks : Engaged(u, a)' => Engaged(u, a)
  BY FinishEffect DEF BridgeInv, Engaged, Works
<1>4. queue'[a] # <<>> => queue[a] # <<>>
  BY DEF BridgeInv, TypeOK
<1>5. Cared(a)'
  BY <1>1, <1>3, <1>4, SameDuty DEF CareInv, Cared, StartsInTime, MarkedIsWorkedOn,
     UnmarkedWillStart
<1> QED
  BY <1>2, <1>5 DEF CareInv

(* A transaction of the contract: the relays start the voting, and what    *)
(* waits behind the others stays.                                          *)
LEMMA CareProcessEvent ==
    ASSUME BridgeInv, CareInv, NEW a \in Accounts, ProcessEvent(a)
    PROVE  CareInv'
<1> DEFINE e == Head(queue[a])
<1>1. /\ UNCHANGED <<contract, scan>> /\ queue[a] # <<>>
      /\ queue' = [queue EXCEPT ![a] = Tail(@)]
  BY DEF ProcessEvent
<1>2. CASE Removes(a, e) /\ Remove(a) /\ UNCHANGED task
  BY <1>1, <1>2, CareRemove
<1>3. ASSUME pending' = pending,
             \/ task' = task /\ (a \in DOMAIN pending => e.tx # "Relays")
             \/ Spawn("update", a)
      PROVE  CareInv'
  <2>1. /\ queue[a] \in Seq([tx : TxKind, status : Status]) /\ queue'[a] = Tail(queue[a])
        /\ \A b \in Accounts \ {a} : queue'[b] = queue[b]
    BY <1>1 DEF BridgeInv, TypeOK
  <2>2. Started(a)
    BY <1>1 DEF CareInv, Cared, StartsInTime
  <2>3. ASSUME RelaysAhead(a), e.tx # "Relays" PROVE RelaysAhead(a)'
    <3>1. PICK i \in 1..Len(queue[a]) : queue[a][i].tx = "Relays"
      BY <2>3 DEF RelaysAhead
    <3>2. /\ Len(queue[a]) \in Nat /\ Head(queue[a]) = queue[a][1]
          /\ Len(Tail(queue[a])) = Len(queue[a]) - 1
          /\ \A k \in 1..Len(Tail(queue[a])) : Tail(queue[a])[k] = queue[a][k + 1]
      BY <1>1, <2>1, HeadTailProperties
    <3>3. i - 1 \in 1..Len(Tail(queue[a])) /\ Tail(queue[a])[i - 1] = queue[a][i]
      BY <2>3, <3>1, <3>2
    <3> QED BY <2>1, <3>1, <3>3 DEF RelaysAhead
  <2>4. CASE task' = task /\ (a \in DOMAIN pending => e.tx # "Relays")
    <3>1. Cared(a)'
      BY <1>1, <1>3, <2>2, <2>3, <2>4, SameDuty, TasksUntouched DEF CareInv, Cared,
         StartsInTime, MarkedIsWorkedOn, UnmarkedWillStart
    <3>2. ASSUME NEW b \in Accounts \ {a} PROVE Cared(b)'
      BY <1>1, <1>3, <2>1, <2>4, TasksUntouched, Untouched DEF CareInv, contract
    <3> QED BY <3>1, <3>2 DEF CareInv
  <2>5. CASE Spawn("update", a)
    <3>1. PICK t \in Tasks :
             /\ task[t].pc = "free" /\ task'[t].pc = "update" /\ task'[t].account = a
             /\ \A u \in Tasks \ {t} : task'[u] = task[u]
      BY <2>5, SpawnEffect DEF BridgeInv
    <3>2. ASSUME NEW b \in Accounts \ {a} PROVE Cared(b)'
      <4>1. \A u \in Tasks : /\ Works(u, b)' <=> Works(u, b)
                             /\ Heads(u, b)' <=> Heads(u, b)
                             /\ Engaged(u, b)' <=> Engaged(u, b)
        BY <3>1, TaskElsewhere
      <4> QED BY <1>1, <1>3, <2>1, <4>1, Untouched DEF CareInv, contract
    <3>3. Heads(t, a)' /\ \A u \in Tasks : Works(u, a) => Works(u, a)'
      BY <3>1 DEF Heads, Works
    <3>4. Cared(a)'
      BY <1>1, <1>3, <2>2, <3>3, SameDuty DEF CareInv, Cared, StartsInTime,
         MarkedIsWorkedOn, UnmarkedWillStart
    <3> QED BY <3>2, <3>4 DEF CareInv
  <2> QED BY <1>3, <2>4, <2>5
<1> QED
  BY <1>2, <1>3 DEF ProcessEvent, StartsVoting

(* A task of a that goes on to p or ends, with the entries as they are:    *)
(* what is left to show is about a alone.                                  *)
LEMMA CareTask ==
    ASSUME BridgeInv, CareInv, NEW t \in Tasks, NEW p \in TaskPC, NEW a \in Accounts,
           task[t].pc \in TaskPC, task[t].account = a,
           UNCHANGED <<contract, queue, scan>>,
           \A b \in Accounts \ {a} :
               /\ b \in DOMAIN pending' <=> b \in DOMAIN pending
               /\ b \in DOMAIN pending => pending'[b] = pending[b],
           Become(t, p) \/ Finish(t)
    PROVE  /\ \A b \in Accounts \ {a} : Cared(b)'
           /\ \A u \in Tasks \ {t} : task'[u] = task[u]
           /\ Become(t, p) => task'[t].pc = p /\ task'[t].account = a
<1>1. /\ \A u \in Tasks \ {t} : task'[u] = task[u]
      /\ task'[t].pc = "free" \/ task'[t].account = a
      /\ Become(t, p) => task'[t].pc = p /\ task'[t].account = a
  BY BecomeTask, FinishEffect DEF BridgeInv
<1>2. ASSUME NEW b \in Accounts \ {a} PROVE Cared(b)'
  <2>1. \A u \in Tasks : /\ Works(u, b)' <=> Works(u, b)
                         /\ Heads(u, b)' <=> Heads(u, b)
                         /\ Engaged(u, b)' <=> Engaged(u, b)
    BY <1>1, TaskElsewhere
  <2> QED BY <2>1, Untouched DEF CareInv, contract
<1> QED
  BY <1>1, <1>2

(* preprocess_event leaves an entry alone only before the relays arrive,   *)
(* and goes on to the vote after.                                          *)
LEMMA CarePreprocess ==
    ASSUME BridgeInv, CareInv, NEW t \in Tasks, Preprocess(t)
    PROVE  CareInv'
<1>1. PICK a \in Accounts : a = task[t].account /\ task[t].pc = "preprocess"
  BY TaskAccount DEF BridgeInv, Preprocess, Is, TaskPC
<1>2. UNCHANGED <<contract, queue, scan>> /\ task[t].pc \in TaskPC
  BY <1>1 DEF Preprocess, TaskPC
<1>3. CASE Finish(t) /\ Remove(a)
  BY <1>1, <1>2, <1>3, CareRemove
<1>4. CASE process(a) = "Nop" /\ Finish(t) /\ UNCHANGED pending
  <2>1. /\ \A b \in Accounts \ {a} : Cared(b)'
        /\ \A u \in Tasks \ {t} : task'[u] = task[u]
    BY <1>1, <1>2, <1>4, CareTask
  <2>2. task'[t].pc = "free"
    BY <1>4, FinishEffect DEF BridgeInv
  <2>3. \A u \in Tasks : Engaged(u, a)' => Engaged(u, a)
    BY <2>1, <2>2 DEF Engaged, Works
  <2>4. ~Duty(a)
    BY <1>4 DEF Duty
  <2>5. Cared(a)'
    BY <1>2, <1>4, <2>3, <2>4, SameDuty DEF CareInv, Cared, StartsInTime,
       MarkedIsWorkedOn, UnmarkedWillStart
  <2> QED BY <2>1, <2>5 DEF CareInv
<1>5. CASE process(a) = "Vote" /\ Become(t, "update") /\ UNCHANGED pending
  <2>1. /\ \A b \in Accounts \ {a} : Cared(b)'
        /\ \A u \in Tasks \ {t} : task'[u] = task[u]
        /\ task'[t].pc = "update" /\ task'[t].account = a
    BY <1>1, <1>2, <1>5, CareTask DEF TaskPC
  <2>2. Started(a)
    BY <1>5 DEF process, Started
  <2>3. Heads(t, a)' /\ \A u \in Tasks : Works(u, a) => Works(u, a)'
    BY <1>1, <2>1 DEF Heads, Works
  <2>4. Cared(a)'
    BY <1>2, <1>5, <2>2, <2>3, SameDuty DEF CareInv, Cared, StartsInTime,
       MarkedIsWorkedOn, UnmarkedWillStart
  <2> QED BY <2>1, <2>4 DEF CareInv
<1> QED
  BY <1>1, <1>3, <1>4, <1>5 DEF Preprocess

(* start_processing marks the entry and works on; a task that finds it     *)
(* marked leaves it to the task at work.                                   *)
LEMMA CareStart ==
    ASSUME BridgeInv, CareInv, NEW t \in Tasks, StartProcessing(t)
    PROVE  CareInv'
<1>1. PICK a \in Accounts : a = task[t].account /\ task[t].pc = "update"
  BY TaskAccount DEF BridgeInv, StartProcessing, Is, TaskPC
<1>2. UNCHANGED <<contract, queue, scan>> /\ task[t].pc \in TaskPC
  BY <1>1 DEF StartProcessing, TaskPC
<1>3. Started(a)
  BY <1>1 DEF CareInv, Cared, StartsInTime, Engaged
<1>4. CASE MayStart(a) /\ Start(a) /\ Become(t, "state")
  <2>1. /\ DOMAIN pending' = DOMAIN pending \cup {a} /\ pending'[a] = TRUE
        /\ \A b \in DOMAIN pending \ {a} : pending'[b] = pending[b]
    BY <1>4, PutEntry DEF BridgeInv, Start
  <2>2. /\ \A b \in Accounts \ {a} : Cared(b)'
        /\ task'[t].pc = "state" /\ task'[t].account = a
    BY <1>1, <1>2, <1>4, <2>1, CareTask DEF TaskPC
  <2>3. Works(t, a)'
    BY <2>2 DEF Works
  <2>4. Cared(a)'
    BY <1>2, <1>3, <2>1, <2>3, SameDuty DEF Cared, StartsInTime, MarkedIsWorkedOn,
       UnmarkedWillStart
  <2> QED BY <2>2, <2>4 DEF CareInv
<1>5. CASE ~MayStart(a) /\ Finish(t) /\ UNCHANGED pending
  <2>1. /\ \A b \in Accounts \ {a} : Cared(b)'
        /\ \A u \in Tasks \ {t} : task'[u] = task[u]
    BY <1>1, <1>2, <1>5, CareTask
  <2>2. \A u \in Tasks : Works(u, a) => Works(u, a)'
    BY <1>1, <2>1 DEF Works
  <2>3. ~(a \in DOMAIN pending /\ pending[a] = FALSE)
    BY <1>5 DEF MayStart
  <2>4. Cared(a)'
    BY <1>2, <1>3, <1>5, <2>2, <2>3, SameDuty DEF CareInv, Cared, StartsInTime,
       MarkedIsWorkedOn, UnmarkedWillStart
  <2> QED BY <2>1, <2>4 DEF CareInv
<1> QED
  BY <1>1, <1>4, <1>5 DEF StartProcessing

(* The state read after start_processing: Nop is impossible, for the       *)
(* voting has begun.                                                       *)
LEMMA CareCheckState ==
    ASSUME BridgeInv, CareInv, NEW t \in Tasks, CheckState(t)
    PROVE  CareInv'
<1>1. PICK a \in Accounts : a = task[t].account /\ task[t].pc = "state"
  BY TaskAccount DEF BridgeInv, CheckState, Is, TaskPC
<1>2. UNCHANGED <<contract, queue, scan>> /\ task[t].pc \in TaskPC
  BY <1>1 DEF CheckState, TaskPC
<1>3. Started(a)
  BY <1>1 DEF CareInv, Cared, StartsInTime, Engaged, Works
<1>4. process(a) # "Nop"
  BY <1>3 DEF Started, process
<1>5. CASE Finish(t) /\ Remove(a)
  BY <1>1, <1>2, <1>5, CareRemove
<1>6. CASE Become(t, "verify") /\ UNCHANGED <<pending, skipped>>
  <2>1. /\ \A b \in Accounts \ {a} : Cared(b)'
        /\ \A u \in Tasks \ {t} : task'[u] = task[u]
        /\ task'[t].pc = "verify" /\ task'[t].account = a
    BY <1>1, <1>2, <1>6, CareTask DEF TaskPC
  <2>2. \A u \in Tasks : (Works(u, a) => Works(u, a)') /\ (Heads(u, a) => Heads(u, a)')
    BY <1>1, <2>1 DEF Works, Heads
  <2>3. Cared(a)'
    BY <1>2, <1>3, <1>6, <2>2, SameDuty DEF CareInv, Cared, StartsInTime,
       MarkedIsWorkedOn, UnmarkedWillStart, RelaysAhead
  <2> QED BY <2>1, <2>3 DEF CareInv
<1> QED
  BY <1>1, <1>4, <1>5, <1>6 DEF CheckState

(* A task that votes gives up only when the entry is gone.                 *)
LEMMA CareVoter ==
    ASSUME BridgeInv, CareInv, NEW t \in Tasks, Verified(t) \/ Send(t) \/ Expire(t)
    PROVE  CareInv'
<1>1. PICK a \in Accounts : a = task[t].account /\ task[t].pc \in {"verify", "deliver", "sent"}
  BY TaskAccount DEF BridgeInv, Verified, Send, Expire, Is, TaskPC
<1>2. UNCHANGED <<contract, queue, scan, pending>> /\ task[t].pc \in TaskPC
  BY <1>1 DEF Verified, Send, Expire, TaskPC
<1>3. PICK p \in {"deliver", "sent"} : Become(t, p) \/ (a \notin DOMAIN pending /\ Finish(t))
  BY <1>1 DEF Verified, Send, Expire, Retry
<1>4. Started(a)
  BY <1>1 DEF CareInv, Cared, StartsInTime, Engaged, Works
<1>5. /\ \A b \in Accounts \ {a} : Cared(b)'
      /\ \A u \in Tasks \ {t} : task'[u] = task[u]
      /\ Become(t, p) => task'[t].pc = p /\ task'[t].account = a
  BY <1>1, <1>2, <1>3, CareTask DEF TaskPC
<1>6. CASE a \notin DOMAIN pending
  BY <1>2, <1>4, <1>5, <1>6, SameDuty DEF CareInv, Cared, StartsInTime,
     MarkedIsWorkedOn, UnmarkedWillStart
<1>7. CASE Become(t, p)
  <2>1. \A u \in Tasks : (Works(u, a) => Works(u, a)') /\ (Heads(u, a) => Heads(u, a)')
    BY <1>1, <1>5, <1>7 DEF Works, Heads
  <2>2. Cared(a)'
    BY <1>2, <1>4, <2>1, SameDuty DEF CareInv, Cared, StartsInTime,
       MarkedIsWorkedOn, UnmarkedWillStart, RelaysAhead
  <2> QED BY <1>5, <2>2 DEF CareInv
<1> QED
  BY <1>3, <1>6, <1>7

(* CareInv holds in every reachable state when no request fails and no     *)
(* contract was initialising at the start.                                 *)
LEMMA CareInvariant ==
    ASSUME ~Faults, "Initializing" \notin InitStatus
    PROVE  Spec => [](BridgeInv /\ CareInv)
<1>1. Init => CareInv
  BY CareInit
<1>2. BridgeInv /\ CareInv /\ [Next]_vars => CareInv'
  <2> SUFFICES ASSUME BridgeInv, CareInv, [Next]_vars PROVE CareInv'
    OBVIOUS
  <2>1. CASE Contract
    BY <2>1, CareDeploy, CareRelays, CareConclude DEF Contract
  <2>2. ASSUME NEW t \in Tasks, NEW s \in Status, Accept(t, s) PROVE CareInv'
    BY <2>2, CareAccept
  <2>3. CASE Relay
    BY <2>3, CareFound, CareProcessEvent, CarePreprocess, CareStart, CareCheckState,
       CareVoter DEF Relay, VerifyFailed, TaskFailed
  <2>4. CASE UNCHANGED vars
    BY <2>4, TasksUntouched, Untouched DEF vars, contract, CareInv
  <2> QED
    BY <2>1, <2>2, <2>3, <2>4 DEF Next
<1> QED
  BY <1>1, <1>2, BridgeInit, BridgeNext, PTL DEF Spec

(* While no request to the node fails and no contract was initialising at  *)
(* the start, an entry whose contract waits for our vote has a task, or is *)
(* unmarked and the transaction that starts one is still to be handled.    *)
(* The run bridge_startup shows that the second hypothesis is needed.      *)
THEOREM NoEventAbandoned ==
    ASSUME ~Faults, "Initializing" \notin InitStatus
    PROVE  Spec => []NotAbandoned
<1>1. BridgeInv /\ CareInv => NotAbandoned
  <2> SUFFICES ASSUME BridgeInv, CareInv, NEW a \in DOMAIN pending, Duty(a)
               PROVE  \/ \E t \in Tasks : task[t] # Free /\ task[t].account = a
                      \/ ~pending[a] /\ \E i \in DOMAIN queue[a] : queue[a][i].tx = "Relays"
    BY DEF NotAbandoned
  <2>1. a \in Accounts /\ pending[a] \in BOOLEAN
    BY DEF BridgeInv, TypeOK
  <2>2. DOMAIN queue[a] = 1..Len(queue[a])
    BY <2>1 DEF BridgeInv, TypeOK
  <2>3. \A t \in Tasks : Works(t, a) \/ Heads(t, a) => task[t] # Free
    BY DEF Works, Heads, Free
  <2>4. CASE pending[a] = TRUE
    BY <2>1, <2>3, <2>4 DEF CareInv, Cared, MarkedIsWorkedOn, Works
  <2>5. CASE pending[a] = FALSE
    BY <2>1, <2>2, <2>3, <2>5 DEF CareInv, Cared, UnmarkedWillStart, RelaysAhead, Heads
  <2> QED BY <2>1, <2>4, <2>5
<1> QED
  BY <1>1, CareInvariant, PTL
=============================================================================
