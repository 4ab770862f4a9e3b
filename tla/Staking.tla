------------------------------- MODULE Staking -------------------------------
(***************************************************************************)
(* src/engine/staking/mod.rs: the relay takes part in the elections of     *)
(* relay rounds.  A listener of the staking contract keeps the state of    *)
(* the round and notifies; a loop starts and ends the elections when they  *)
(* are due; a task per election becomes a relay of the next round; a task  *)
(* per round collects its reward.                                          *)
(*                                                                         *)
(* An event carries the state of the contract after its BLOCK, which may   *)
(* hold further transactions.  A tokio Notify wakes the futures that were  *)
(* created before notify_waiters; the loop and the tasks create theirs     *)
(* under the lock that the listeners hold while they notify, so reading    *)
(* the state and registering is one step.                                  *)
(*                                                                         *)
(* The staking and user data contracts are not part of the repository;     *)
(* they are modelled from what the relay reads of them.  Confirming the    *)
(* relay's keys, the first step of Staking::new, is AddressVerification.   *)
(***************************************************************************)
EXTENDS Integers, Sequences

CONSTANTS
    Configs,         \* relay configs: [before, election, deposit]
    Balances,        \* token balances of the staker
    IgnoreElections, \* settings.ignore_elections
    InRound,         \* whether the staker is a relay of the round of the start
    MaxRound,        \* bound: the last round
    MaxTime,         \* bound: the last second
    MaxChanges,      \* bound: deposits and updates of the config
    MaxBlock         \* bound: events of the staking contract in one block

ASSUME StakingAssumption ==
    /\ Configs \subseteq [before : Nat, election : Nat, deposit : Nat]
    /\ Configs # {}
    /\ Balances \subseteq Nat /\ Balances # {}
    /\ IgnoreElections \in BOOLEAN /\ InRound \in BOOLEAN
    /\ MaxRound \in Nat /\ MaxTime \in Nat \ {0} /\ MaxChanges \in Nat /\ MaxBlock \in Nat

VARIABLES
    clock,
    contract,     \* the staking contract
    member,       \* the staker is in the contract of the next elections
    balance,      \* token balance in the user data contract
    changes,      \* deposits and config updates so far
    block,        \* events of the block that is being made
    events,       \* staking_events_rx
    userEvents,   \* user_data_events_rx
    lost,         \* an event came after the snapshot and before the subscription
    startup,      \* where Staking::new is
    state,        \* current_relay_round.state
    known,        \* current_relay_round.user_data_balance
    elected,      \* Tristate
    participates, \* Tristate
    loop,         \* elections loop: [pc, state it has read]
    vote,         \* vote[n]: the task that becomes a relay in the elections of round n
    rewards       \* rounds whose reward a task collects

chain == <<clock, contract, member, balance, changes, block>>
channels == <<events, userEvents, lost>>
flags == <<elected, participates>>
tasks == <<loop, vote, rewards>>
vars == <<chain, channels, startup, state, known, flags, tasks>>

Rounds == 0..MaxRound
FirstRound == 0  \* that of the start
Kinds == {"ElectionStarted", "ElectionEnded", "RelayRoundInitialized", "RelayConfigUpdated"}
Elections == {"NotStarted", "Started", "Finished"}
RoundState == [number : Rounds, elections : Elections, time : Nat, deposit : Nat]
Contract == [round : Rounds, roundStart : Nat, electionStart : Nat, ended : BOOLEAN,
             config : Configs, relayOf : SUBSET Rounds]
Header == [kind : Kinds, num : Rounds]
Event == [kind : Kinds, num : Rounds, state : RoundState]
UserEvent == [kind : {"RelayMembershipRequested", "DepositProcessed"}, balance : Balances]
Tristate == {"None", "True", "False"}
LoopPc == {"off", "lock", "sleep", "deliver", "wait", "failed"}
VotePc == {"none", "spawned", "check", "wait", "deliver", "orphan", "done", "failed"}

(* ReadFromTransaction uses what the contract is after the block; the      *)
(* state of the elections is told by the two fields of the contract.       *)
get_round_state(c) ==
    LET elections == IF c.electionStart # 0 THEN "Started"
                     ELSE IF c.ended THEN "Finished" ELSE "NotStarted"
    IN  [number |-> c.round, elections |-> elections, deposit |-> c.config.deposit,
         time |-> CASE elections = "NotStarted" -> c.roundStart + c.config.before
                    [] elections = "Started"    -> c.electionStart + c.config.election
                    [] OTHER -> 0]

Phase(c) == get_round_state(c).elections

TypeOK ==
    /\ clock \in 1..MaxTime /\ contract \in Contract
    /\ member \in BOOLEAN /\ balance \in Balances /\ changes \in 0..MaxChanges
    /\ block \in Seq(Header) /\ events \in Seq(Event) /\ userEvents \in Seq(UserEvent)
    /\ lost \in BOOLEAN
    /\ startup \in {"subscribe", "vote", "collect", "done"}
    /\ state \in RoundState /\ known \in Balances
    /\ elected \in Tristate /\ participates \in Tristate
    /\ loop \in [pc : LoopPc, state : RoundState]
    /\ vote \in [Rounds -> VotePc]
    /\ rewards \subseteq Rounds

Flag(b) == IF b THEN "True" ELSE "False"

(* What Staking::new reads of the contracts, in any phase of a round.      *)
Snapshot ==
    /\ state = get_round_state(contract)
    /\ known = balance
    /\ elected = IF Phase(contract) = "NotStarted" THEN "None" ELSE Flag(member)
    /\ participates = Flag(contract.round \in contract.relayOf)

Init ==
    /\ clock = 1
    /\ \E c \in Configs, start \in {0, 1}, ended \in BOOLEAN :
          /\ ended => start = 0
          /\ contract = [round |-> FirstRound, roundStart |-> 1, electionStart |-> start,
                         ended |-> ended, config |-> c,
                         relayOf |-> IF InRound THEN {FirstRound} ELSE {}]
    /\ member \in BOOLEAN /\ (member => Phase(contract) # "NotStarted")
    /\ balance \in Balances /\ changes = 0
    /\ block = <<>> /\ events = <<>> /\ userEvents = <<>> /\ lost = FALSE
    /\ startup = "subscribe" /\ Snapshot
    /\ loop = [pc |-> "off", state |-> state]
    /\ vote = [n \in Rounds |-> "none"]
    /\ rewards = {}

Subscribed == startup # "subscribe"

LoopStep(from, to) ==
    /\ loop.pc = from
    /\ loop' = [loop EXCEPT !.pc = to]

-----------------------------------------------------------------------------
(* Plausible mistakes, used to see that the properties notice them.        *)

ForgetConfigOfStarted(s) ==
    CASE s.elections = "NotStarted" -> {"start", "config"}
      [] s.elections = "Started"    -> {"end"}
      [] s.elections = "Finished"   -> {"round"}

NoRetry ==
    /\ LoopStep("deliver", "wait")
    /\ UNCHANGED <<chain, channels, startup, state, known, flags, vote, rewards>>

WakeNone == vote

CollectFromSnapshot ==
    /\ startup = "collect" /\ block = <<>>
    /\ startup' = "done"
    /\ rewards' = rewards \cup (contract.relayOf \cap {n \in Rounds : n <= state.number})
    /\ UNCHANGED <<chain, channels, state, known, flags, loop, vote>>

AddDeposit ==
    /\ userEvents # <<>>
    /\ userEvents' = Tail(userEvents)
    /\ known' = known + Head(userEvents).balance
    /\ UNCHANGED <<chain, events, lost, startup, state, flags, tasks>>

-----------------------------------------------------------------------------
(* The contracts.  A transaction emits its event; the block is handed to   *)
(* the relay as a whole.                                                   *)

Emit(k, n) ==
    /\ Len(block) < MaxBlock
    /\ block' = Append(block, [kind |-> k, num |-> n])

(* startElectionOnNewRound and endElection are accepted from any relay.    *)
StartElection ==
    /\ Phase(contract) = "NotStarted" /\ clock >= get_round_state(contract).time
    /\ contract' = [contract EXCEPT !.electionStart = clock]
    /\ Emit("ElectionStarted", contract.round)

EndElection ==
    /\ Phase(contract) = "Started" /\ clock >= get_round_state(contract).time
    /\ contract' = [contract EXCEPT !.electionStart = 0, !.ended = TRUE]
    /\ Emit("ElectionEnded", contract.round)

OtherRelay ==
    /\ StartElection \/ EndElection
    /\ UNCHANGED <<clock, member, balance, changes, channels, startup, state, known,
                   flags, tasks>>

(* The elected relays are installed.                                       *)
InitializeRound ==
    LET next == contract.round + 1
    IN  /\ Phase(contract) = "Finished" /\ next <= MaxRound
        /\ contract' = [contract EXCEPT
              !.round = next, !.roundStart = clock, !.ended = FALSE,
              !.relayOf = IF member THEN @ \cup {next} ELSE @]
        /\ member' = FALSE
        /\ Emit("RelayRoundInitialized", next)
        /\ UNCHANGED <<clock, balance, changes, channels, startup, state, known, flags, tasks>>

UpdateConfig(c) ==
    /\ changes < MaxChanges /\ c # contract.config
    /\ changes' = changes + 1
    /\ contract' = [contract EXCEPT !.config = c]
    /\ Emit("RelayConfigUpdated", contract.round)
    /\ UNCHANGED <<clock, member, balance, channels, startup, state, known, flags, tasks>>

(* A block of the staking contract reaches the observer, if there is one.  *)
EndBlock ==
    /\ block # <<>>
    /\ block' = <<>>
    /\ IF Subscribed
       THEN /\ events' = events \o [i \in DOMAIN block |->
                  [kind |-> block[i].kind, num |-> block[i].num,
                   state |-> get_round_state(contract)]]
            /\ UNCHANGED lost
       ELSE /\ UNCHANGED events
            /\ lost' = TRUE
    /\ UNCHANGED <<clock, contract, member, balance, changes, userEvents, startup,
                   state, known, flags, tasks>>

EmitUser(k, b) ==
    IF Subscribed
    THEN /\ userEvents' = Append(userEvents, [kind |-> k, balance |-> b])
         /\ UNCHANGED lost
    ELSE /\ UNCHANGED userEvents
         /\ lost' = TRUE

Deposit(b) ==
    /\ changes < MaxChanges /\ b > balance
    /\ changes' = changes + 1
    /\ balance' = b
    /\ EmitUser("DepositProcessed", b)
    /\ UNCHANGED <<clock, contract, member, block, events, startup, state, known, flags, tasks>>

Tick ==
    /\ clock < MaxTime
    /\ clock' = clock + 1
    /\ UNCHANGED <<contract, member, balance, changes, block, channels, startup, state,
                   known, flags, tasks>>

-----------------------------------------------------------------------------
(* The listeners.  A notification drops what its select! was doing.        *)

(* The Notify whose waiters an event wakes.                                *)
Notifies(k) ==
    CASE k = "ElectionStarted"       -> "start"
      [] k = "ElectionEnded"         -> "end"
      [] k = "RelayRoundInitialized" -> "round"
      [] k = "RelayConfigUpdated"    -> "config"

(* The ones for which the loop creates futures, given the state it read.   *)
ListensTo(s) ==
    CASE s.elections = "NotStarted" -> {"start", "config"}
      [] s.elections = "Started"    -> {"end", "config"}
      [] s.elections = "Finished"   -> {"round"}

Wakes(k, s) == Notifies(k) \in ListensTo(s)

Registered == loop.pc \notin {"off", "lock"}

(* The end of the elections drops a task that has registered for it; its   *)
(* message may be in flight.                                               *)
CancelVotes ==
    [n \in Rounds |-> CASE vote[n] \in {"check", "wait"} -> "done"
                        [] vote[n] = "deliver" -> "orphan"
                        [] OTHER -> vote[n]]

(* A deposit or a new config wakes the tasks that wait for the balance.    *)
WakeVotes == [n \in Rounds |-> IF vote[n] = "wait" THEN "check" ELSE vote[n]]

SpawnVote(n) == IF IgnoreElections THEN vote ELSE [vote EXCEPT ![n] = "spawned"]

(* process_staking_event, under the lock.                                  *)
process_staking_event ==
    LET e == Head(events)
        reset == IF e.state.elections = "NotStarted" THEN "None" ELSE elected
        isInit == e.kind = "RelayRoundInitialized"
    IN  /\ events # <<>>
        /\ events' = Tail(events)
        /\ state' = e.state
        /\ elected' = IF e.kind = "ElectionStarted" /\ reset = "None" THEN "False" ELSE reset
        /\ loop' = IF Registered /\ Wakes(e.kind, loop.state)
                   THEN [loop EXCEPT !.pc = "lock"] ELSE loop
        /\ vote' = CASE e.kind = "ElectionStarted"    -> SpawnVote(e.num)
                     [] e.kind = "ElectionEnded"      -> CancelVotes
                     [] e.kind = "RelayConfigUpdated" -> WakeVotes
                     [] OTHER -> vote
        /\ participates' = IF isInit THEN "None" ELSE participates
        /\ rewards' = IF isInit THEN rewards \cup {e.num} ELSE rewards
        /\ UNCHANGED <<chain, userEvents, lost, startup, known>>

(* process_user_data_event; other keys of the staker end the program.      *)
process_user_data_event ==
    LET e == Head(userEvents)
    IN  /\ userEvents # <<>>
        /\ userEvents' = Tail(userEvents)
        /\ \/ /\ e.kind = "RelayMembershipRequested"
              /\ elected' = "True"
              /\ UNCHANGED <<known, vote>>
           \/ /\ e.kind = "DepositProcessed"
              /\ known' = e.balance
              /\ vote' = WakeVotes
              /\ UNCHANGED elected
        /\ UNCHANGED <<chain, events, lost, startup, state, participates, loop, rewards>>

(* update_participates_in_round_status, spawned whenever the flag is       *)
(* cleared, looks for the address of the staking contract among the        *)
(* stakers of the round, where it never is.                                *)
StakingAccountInRound == "False"

UpdateParticipates ==
    /\ participates = "None"
    /\ participates' = StakingAccountInRound
    /\ UNCHANGED <<chain, channels, startup, state, known, elected, tasks>>

-----------------------------------------------------------------------------
(* start_managing_elections.                                               *)

(* Under the lock: reads the state and registers for what ends it.         *)
LoopRead ==
    /\ loop.pc = "lock"
    /\ loop' = [pc |-> IF state.elections = "Finished" THEN "wait" ELSE "sleep",
                state |-> state]
    /\ UNCHANGED <<chain, channels, startup, state, known, flags, vote, rewards>>

LoopSleepEnds ==
    /\ clock >= loop.state.time
    /\ LoopStep("sleep", "deliver")
    /\ UNCHANGED <<chain, channels, startup, state, known, flags, vote, rewards>>

(* start_election or end_election: deliver_message sends anew until the    *)
(* message is found in a block.  An error, which may come each time, is    *)
(* logged and leaves the elections to other relays.                        *)
LoopFails ==
    /\ LoopStep("deliver", "failed")
    /\ UNCHANGED <<chain, channels, startup, state, known, flags, vote, rewards>>

LoopDelivered ==
    /\ LoopStep("deliver", "wait")
    /\ \/ loop.state.elections = "NotStarted" /\ StartElection
       \/ loop.state.elections = "Started" /\ EndElection
    /\ UNCHANGED <<clock, member, balance, changes, channels, startup, state, known,
                   flags, vote, rewards>>

-----------------------------------------------------------------------------
(* become_relay_next_round, in a select! with the end of the elections.    *)

VoteStep(n, from, to) ==
    /\ vote[n] = from
    /\ vote' = [vote EXCEPT ![n] = to]

(* The task runs for the first time, and only now registers for the end.   *)
VoteStart(n) ==
    /\ VoteStep(n, "spawned", "check")
    /\ UNCHANGED <<chain, channels, startup, state, known, flags, loop, rewards>>

(* Under the lock: compares the balance, or registers for a change of it.  *)
VoteCheck(n) ==
    /\ VoteStep(n, "check", IF known >= state.deposit THEN "deliver" ELSE "wait")
    /\ UNCHANGED <<chain, channels, startup, state, known, flags, loop, rewards>>

(* Sending fails with an error, or the message of a dropped task expires.  *)
VoteFails(n) ==
    /\ VoteStep(n, "deliver", "failed") \/ VoteStep(n, "orphan", "done")
    /\ UNCHANGED <<chain, channels, startup, state, known, flags, loop, rewards>>

(* The contracts take the staker for the elections that run.               *)
VoteDelivered(n) ==
    /\ VoteStep(n, "deliver", "done") \/ VoteStep(n, "orphan", "done")
    /\ Phase(contract) = "Started" /\ ~member /\ balance >= contract.config.deposit
    /\ member' = TRUE
    /\ EmitUser("RelayMembershipRequested", balance)
    /\ UNCHANGED <<clock, contract, balance, changes, block, events, startup, state,
                   known, flags, loop, rewards>>

-----------------------------------------------------------------------------
(* Staking::new, after the snapshot.                                       *)

should_vote == state.elections = "Started" /\ ~IgnoreElections /\ elected = "False"

(* elections_end_fut exists before the listeners are started.              *)
StartupSubscribe ==
    /\ startup = "subscribe"
    /\ IF should_vote
       THEN /\ startup' = "vote" /\ vote' = [vote EXCEPT ![FirstRound] = "check"]
            /\ UNCHANGED loop
       ELSE startup' = "collect" /\ LoopStep("off", "lock") /\ UNCHANGED vote
    /\ UNCHANGED <<chain, channels, state, known, flags, rewards>>

(* The vote of the startup has ended, in whatever way; the loop starts.    *)
StartupVoted ==
    /\ startup = "vote"
    /\ vote[FirstRound] \in {"orphan", "done", "failed"}
    /\ startup' = "collect"
    /\ LoopStep("off", "lock")
    /\ UNCHANGED <<chain, channels, state, known, flags, vote, rewards>>

RecentRounds(r) == {n \in Rounds : n >= r - 2 /\ n <= r}

(* collect_all_unclaimed_reward: the rounds with a reward of this relay,   *)
(* in the contracts after a block.                                         *)
StartupCollect ==
    /\ startup = "collect" /\ block = <<>>
    /\ startup' = "done"
    /\ rewards' = rewards \cup (RecentRounds(contract.round) \cap contract.relayOf)
    /\ UNCHANGED <<chain, channels, state, known, flags, loop, vote>>

-----------------------------------------------------------------------------
Listen == process_staking_event \/ process_user_data_event \/ UpdateParticipates

Loop == LoopRead \/ LoopSleepEnds

VoteTask(n) == VoteStart(n) \/ VoteCheck(n)

Startup == StartupSubscribe \/ StartupVoted \/ StartupCollect

Environment ==
    \/ OtherRelay \/ InitializeRound \/ EndBlock \/ Tick
    \/ \E c \in Configs : UpdateConfig(c)
    \/ \E b \in Balances : Deposit(b)

Next ==
    \/ Environment \/ Listen \/ Startup
    \/ Loop \/ LoopFails \/ LoopDelivered
    \/ \E n \in Rounds : VoteTask(n) \/ VoteFails(n) \/ VoteDelivered(n)

Spec == Init /\ [][Next]_vars

(* Tasks are scheduled, blocks are made, and of the messages that are sent *)
(* over and over one is put into a block while the contract accepts it.    *)
Fairness ==
    /\ WF_vars(EndBlock) /\ WF_vars(process_staking_event) /\ WF_vars(process_user_data_event)
    /\ WF_vars(Loop) /\ WF_vars(LoopDelivered) /\ WF_vars(Startup)
    /\ \A n \in Rounds : WF_vars(VoteTask(n)) /\ WF_vars(VoteDelivered(n))

FairSpec == Spec /\ Fairness

-----------------------------------------------------------------------------
(* The lock and the notifications lose nothing: when the loop waits in a   *)
(* state of the elections that the contract has left, an event that wakes  *)
(* it is in the channel or in the block (419-460, 301-384).  The event may *)
(* not be the next one, and may carry the state of a later moment.         *)
Current(s) ==
    LET now == get_round_state(contract)
    IN  s.number = now.number /\ s.elections = now.elections /\ s.time = now.time

OnItsWay(s) ==
    \/ \E i \in DOMAIN events : Wakes(events[i].kind, s)
    \/ \E i \in DOMAIN block : Wakes(block[i].kind, s)

LoopNotStale ==
    Registered /\ ~lost => Current(loop.state) \/ OnItsWay(loop.state)

(* No reward is missed, not even the one of a round that is initialised    *)
(* while Staking::new is between its snapshot and its subscription: after  *)
(* the start, every recent round of this relay has its task, or the event  *)
(* that will spawn it is in the channel.                                   *)
InitOnItsWay(n) ==
    \/ \E i \in DOMAIN events :
          events[i].kind = "RelayRoundInitialized" /\ events[i].num = n
    \/ \E i \in DOMAIN block :
          block[i].kind = "RelayRoundInitialized" /\ block[i].num = n

RewardsCovered ==
    startup = "done" =>
        \A n \in contract.relayOf \cap RecentRounds(contract.round) :
            n \in rewards \/ InitOnItsWay(n)

(* Elections that are due are started and ended by this relay alone, or    *)
(* sending the message has failed with an error.                           *)
Overdue ==
    Phase(contract) \in {"NotStarted", "Started"} /\ clock >= get_round_state(contract).time

ElectionsProgress ==
    startup = "done" /\ ~lost /\ Overdue ~> ~Overdue \/ loop.pc = "failed"

(* A staker with the deposit enters every election it sees, be it that the *)
(* deposit comes, or the required one changes, while the task is waiting.  *)
CanVote ==
    /\ ~IgnoreElections /\ ~lost
    /\ Phase(contract) = "Started" /\ ~member /\ balance >= contract.config.deposit

VotesInElections ==
    \A n \in Rounds :
        CanVote /\ contract.round = n ~> ~CanVote \/ contract.round # n \/ vote[n] = "failed"
=============================================================================
