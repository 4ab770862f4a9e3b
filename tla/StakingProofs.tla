---------------------------- MODULE StakingProofs ----------------------------
(***************************************************************************)
(* Proofs about Staking for any configs, balances and bounds.              *)
(*                                                                         *)
(* LoopNotStale speaks of the state the loop has read.  It is inductive    *)
(* only together with the same fact about the states the loop will read:   *)
(* the one the listener keeps, and the one in each event, for which only   *)
(* the events behind it count.  That a change of the contract leaves every *)
(* state current or wakes it is a fact about ListensTo alone.              *)
(***************************************************************************)
EXTENDS Staking, SequenceTheorems, TLAPS

(* s is the state of the contract, or an event behind the first k ones     *)
(* will wake a loop that has read it.                                      *)
Fresh(s, k) ==
    \/ Current(s)
    \/ \E j \in DOMAIN events : j > k /\ Wakes(events[j].kind, s)
    \/ \E j \in DOMAIN block : Wakes(block[j].kind, s)

FreshInv ==
    ~lost =>
        /\ Fresh(state, 0)
        /\ \A i \in DOMAIN events : Fresh(events[i].state, i)
        /\ Registered => Fresh(loop.state, 0)

StakingInv == TypeOK /\ FreshInv /\ RewardsCovered

-----------------------------------------------------------------------------
(* Facts about sequences.                                                  *)
LEMMA AppendFacts ==
    ASSUME NEW S, NEW s \in Seq(S), NEW y \in S
    PROVE  /\ Len(s) \in Nat /\ DOMAIN s = 1..Len(s)
           /\ Append(s, y) \in Seq(S) /\ DOMAIN Append(s, y) = 1..(Len(s) + 1)
           /\ Append(s, y)[Len(s) + 1] = y
           /\ \A i \in 1..Len(s) : Append(s, y)[i] = s[i]
  OBVIOUS

(* What is left of a sequence without its first element.                   *)
LEMMA TailFacts ==
    ASSUME NEW S, NEW s \in Seq(S), s # <<>>
    PROVE  /\ Len(s) \in Nat \ {0} /\ DOMAIN s = 1..Len(s) /\ Head(s) = s[1] /\ Head(s) \in S
           /\ Tail(s) \in Seq(S) /\ DOMAIN Tail(s) = 1..(Len(s) - 1)
           /\ \A i \in 1..(Len(s) - 1) : Tail(s)[i] = s[i + 1]
  OBVIOUS

(* The state of the contract is a round state.                             *)
LEMMA RoundStateType == ASSUME NEW c \in Contract PROVE get_round_state(c) \in RoundState
<1>1. /\ c.round \in Rounds /\ c.roundStart \in Nat /\ c.electionStart \in Nat
      /\ c.config \in Configs
  BY DEF Contract
<1>2. c.config.before \in Nat /\ c.config.election \in Nat /\ c.config.deposit \in Nat
  BY <1>1, StakingAssumption
<1> QED BY <1>1, <1>2 DEF get_round_state, RoundState, Elections

(* What its parts are, one phase at a time.                                *)
LEMMA RoundStateParts ==
    ASSUME NEW c \in Contract
    PROVE  /\ get_round_state(c).number = c.round
           /\ c.electionStart # 0 =>
                 /\ Phase(c) = "Started"
                 /\ get_round_state(c).time = c.electionStart + c.config.election
           /\ c.electionStart = 0 /\ c.ended => Phase(c) = "Finished" /\ get_round_state(c).time = 0
           /\ c.electionStart = 0 /\ ~c.ended =>
                 /\ Phase(c) = "NotStarted"
                 /\ get_round_state(c).time = c.roundStart + c.config.before
  BY DEF get_round_state, Phase

(* A phase tells the two fields.                                           *)
LEMMA PhaseFields ==
    ASSUME NEW c \in Contract
    PROVE  /\ Phase(c) = "NotStarted" => c.electionStart = 0 /\ ~c.ended
           /\ Phase(c) = "Started" => c.electionStart # 0
           /\ Phase(c) = "Finished" => c.electionStart = 0 /\ c.ended
  BY DEF get_round_state, Phase

-----------------------------------------------------------------------------
(* What a transaction that emits event k with number n does.               *)
Changes(k, n) ==
    /\ contract' \in Contract /\ k \in Kinds /\ n \in Rounds
    /\ block' = Append(block, [kind |-> k, num |-> n])
    /\ \A s \in RoundState : Current(s) => Current(s)' \/ Wakes(k, s)
    /\ \A m \in contract'.relayOf \cap RecentRounds(contract'.round) :
          \/ m \in contract.relayOf \cap RecentRounds(contract.round)
          \/ k = "RelayRoundInitialized" /\ m = n

(* The start of the elections wakes who waits for it.                      *)
LEMMA StartElectionChanges ==
    ASSUME TypeOK, StartElection PROVE \E k, n : Changes(k, n)
<1>1. contract \in Contract /\ clock \in Nat \ {0}
  BY StakingAssumption DEF TypeOK
<1>2. /\ Phase(contract) = "NotStarted" /\ contract' = [contract EXCEPT !.electionStart = clock]
      /\ block' = Append(block, [kind |-> "ElectionStarted", num |-> contract.round])
  BY DEF StartElection, Emit
<1>3. contract' \in Contract /\ UNCHANGED <<contract.relayOf, contract.round>> /\ contract.round \in Rounds
  BY <1>1, <1>2 DEF Contract
<1>4. \A s \in RoundState : Current(s) => Wakes("ElectionStarted", s)
  BY <1>2 DEF Current, Wakes, Notifies, ListensTo, Phase
<1>5. Changes("ElectionStarted", contract.round)
  BY <1>2, <1>3, <1>4 DEF Changes, Kinds
<1> QED BY <1>5

(* So does their end.                                                      *)
LEMMA EndElectionChanges ==
    ASSUME TypeOK, EndElection PROVE \E k, n : Changes(k, n)
<1>1. contract \in Contract
  BY DEF TypeOK
<1>2. /\ Phase(contract) = "Started"
      /\ contract' = [contract EXCEPT !.electionStart = 0, !.ended = TRUE]
      /\ block' = Append(block, [kind |-> "ElectionEnded", num |-> contract.round])
  BY DEF EndElection, Emit
<1>3. contract' \in Contract /\ UNCHANGED <<contract.relayOf, contract.round>> /\ contract.round \in Rounds
  BY <1>1, <1>2 DEF Contract
<1>4. \A s \in RoundState : Current(s) => Wakes("ElectionEnded", s)
  BY <1>2 DEF Current, Wakes, Notifies, ListensTo, Phase
<1>5. Changes("ElectionEnded", contract.round)
  BY <1>2, <1>3, <1>4 DEF Changes, Kinds
<1> QED BY <1>5

(* And a new round, which is the only one to add a round of this relay.    *)
LEMMA InitializeRoundChanges ==
    ASSUME TypeOK, InitializeRound PROVE \E k, n : Changes(k, n)
<1> DEFINE next == contract.round + 1
<1>1. contract \in Contract /\ clock \in Nat
  BY StakingAssumption DEF TypeOK
<1>2. /\ Phase(contract) = "Finished" /\ next <= MaxRound
      /\ contract' = [contract EXCEPT
              !.round = next, !.roundStart = clock, !.ended = FALSE,
              !.relayOf = IF member THEN @ \cup {next} ELSE @]
      /\ block' = Append(block, [kind |-> "RelayRoundInitialized", num |-> next])
  BY DEF InitializeRound, Emit
<1>3. next \in Rounds /\ contract.round \in Rounds /\ contract.relayOf \subseteq Rounds
  BY <1>1, <1>2, StakingAssumption DEF Contract, Rounds
<1>4. /\ contract' \in Contract /\ contract'.round = next
      /\ contract'.relayOf \subseteq contract.relayOf \cup {next}
  BY <1>1, <1>2, <1>3 DEF Contract
<1>5. \A s \in RoundState : Current(s) => Wakes("RelayRoundInitialized", s)
  BY <1>2 DEF Current, Wakes, Notifies, ListensTo, Phase
<1>6. \A m \in contract'.relayOf \cap RecentRounds(contract'.round) :
          m \in contract.relayOf \cap RecentRounds(contract.round) \/ m = next
  BY <1>3, <1>4, StakingAssumption DEF RecentRounds, Rounds
<1>7. Changes("RelayRoundInitialized", next)
  BY <1>2, <1>3, <1>4, <1>5, <1>6 DEF Changes, Kinds
<1> QED BY <1>7

(* A new config changes the times of the elections to come; once they are  *)
(* finished there is no time to change.                                    *)
LEMMA UpdateConfigChanges ==
    ASSUME TypeOK, NEW c \in Configs, UpdateConfig(c) PROVE \E k, n : Changes(k, n)
<1>1. contract \in Contract
  BY DEF TypeOK
<1>2. /\ contract' = [contract EXCEPT !.config = c]
      /\ block' = Append(block, [kind |-> "RelayConfigUpdated", num |-> contract.round])
  BY DEF UpdateConfig, Emit
<1>3. /\ contract' \in Contract /\ UNCHANGED <<contract.relayOf, contract.round>>
      /\ UNCHANGED <<contract.electionStart, contract.ended>> /\ contract.round \in Rounds
  BY <1>1, <1>2 DEF Contract
<1>4. ASSUME NEW s \in RoundState, Current(s)
      PROVE  Current(s)' \/ Wakes("RelayConfigUpdated", s)
  <2>1. CASE Phase(contract) = "Finished"
    <3>1. contract.electionStart = 0 /\ contract.ended
      BY <1>1, <2>1, PhaseFields
    <3>2. contract'.electionStart = 0 /\ contract'.ended
      BY <1>3, <3>1
    <3>3. /\ get_round_state(contract').number = get_round_state(contract).number
          /\ get_round_state(contract').elections = get_round_state(contract).elections
          /\ get_round_state(contract').time = get_round_state(contract).time
      BY <1>1, <1>3, <3>1, <3>2, RoundStateParts DEF Phase
    <3> QED BY <1>4, <3>3 DEF Current
  <2>2. CASE Phase(contract) # "Finished"
    <3>1. s.elections \in {"NotStarted", "Started"}
      BY <1>4, <2>2 DEF Current, Phase, RoundState, Elections
    <3> QED BY <3>1 DEF Wakes, Notifies, ListensTo
  <2> QED BY <2>1, <2>2
<1>5. Changes("RelayConfigUpdated", contract.round)
  BY <1>2, <1>3, <1>4 DEF Changes, Kinds
<1> QED BY <1>5

(* The states the relay has read stay fresh if every state does.           *)
LEMMA FreshKept ==
    ASSUME StakingInv, UNCHANGED <<events, state, loop.state>>, ~lost' => ~lost,
           Registered' => Registered,
           \A s \in RoundState, i \in Nat : Fresh(s, i) => Fresh(s, i)'
    PROVE  FreshInv'
<1> SUFFICES ASSUME ~lost' PROVE /\ Fresh(state, 0)'
                                 /\ (\A i \in DOMAIN events : Fresh(events[i].state, i))'
                                 /\ Registered' => Fresh(loop.state, 0)'
  BY DEF FreshInv
<1>1. ~lost
  OBVIOUS
<1>2. state \in RoundState /\ loop.state \in RoundState /\ events \in Seq(Event)
  BY DEF StakingInv, TypeOK
<1>3. PICK st \in RoundState, ls \in RoundState : st = state /\ ls = loop.state
  BY <1>2
<1>4. Fresh(state, 0)'
  <2>1. Fresh(st, 0)
    BY <1>1, <1>3 DEF StakingInv, FreshInv
  <2>2. Fresh(st, 0)'
    BY <2>1
  <2> QED BY <1>3, <2>2 DEF Fresh, Current
<1>5. Registered' => Fresh(loop.state, 0)'
  <2> SUFFICES ASSUME Registered' PROVE Fresh(loop.state, 0)'
    OBVIOUS
  <2>1. Fresh(ls, 0)
    BY <1>1, <1>3 DEF StakingInv, FreshInv
  <2>2. Fresh(ls, 0)'
    BY <2>1
  <2> QED BY <1>3, <2>2 DEF Fresh, Current
<1>6. ASSUME NEW i \in DOMAIN events PROVE Fresh(events[i].state, i)'
  <2>1. events[i] \in Event /\ i \in Nat
    BY <1>2
  <2>2. PICK es \in RoundState : es = events[i].state
    BY <2>1 DEF Event
  <2>3. Fresh(es, i)
    BY <1>1, <2>2 DEF StakingInv, FreshInv
  <2>4. Fresh(es, i)'
    BY <2>1, <2>3
  <2> QED BY <2>2, <2>4 DEF Fresh, Current
<1> QED BY <1>4, <1>5, <1>6

(* So no transaction makes a state stale without an event that wakes it.   *)
LEMMA ChangesPreserve ==
    ASSUME StakingInv, NEW k, NEW n, Changes(k, n),
           UNCHANGED <<events, lost, startup, state, rewards, loop.state>>, Registered' => Registered
    PROVE  FreshInv' /\ RewardsCovered' /\ block' \in Seq(Header)
<1> DEFINE h == [kind |-> k, num |-> n]
<1>1. h \in Header /\ block \in Seq(Header) /\ block' = Append(block, h)
  BY DEF Changes, Header, StakingInv, TypeOK
<1>2. /\ Len(block) \in Nat /\ DOMAIN block = 1..Len(block)
      /\ block' \in Seq(Header) /\ DOMAIN block' = 1..(Len(block) + 1)
      /\ block'[Len(block) + 1] = h
      /\ \A i \in 1..Len(block) : block'[i] = block[i]
  BY <1>1, AppendFacts
<1>3. h.kind = k /\ h.num = n
  OBVIOUS
<1> HIDE DEF h
<1>4. ASSUME NEW s \in RoundState, NEW i \in Nat, Fresh(s, i) PROVE Fresh(s, i)'
  <2>1. CASE Current(s)
    <3>1. CASE Wakes(k, s)
      <4>1. PICK j \in DOMAIN block' : Wakes(block'[j].kind, s)
        BY <1>2, <1>3, <3>1
      <4>2. (Wakes(block[j].kind, s))' <=> Wakes(block'[j].kind, s)
        BY DEF Wakes, Notifies, ListensTo
      <4> QED BY <4>1, <4>2 DEF Fresh
    <3> QED BY <2>1, <3>1 DEF Changes, Fresh
  <2>2. CASE \E j \in DOMAIN events : j > i /\ Wakes(events[j].kind, s)
    BY <2>2 DEF Fresh, Wakes, Notifies, ListensTo
  <2>3. CASE \E j \in DOMAIN block : Wakes(block[j].kind, s)
    <3>1. PICK j \in DOMAIN block : Wakes(block[j].kind, s)
      BY <2>3
    <3>2. j \in DOMAIN block' /\ block'[j] = block[j]
      BY <1>2, <3>1
    <3> QED BY <3>1, <3>2 DEF Fresh, Wakes, Notifies, ListensTo
  <2> QED BY <1>4, <2>1, <2>2, <2>3 DEF Fresh
<1>5. FreshInv'
  BY <1>4, FreshKept
<1>6. RewardsCovered'
  <2> SUFFICES ASSUME startup = "done", NEW m \in contract'.relayOf \cap RecentRounds(contract'.round)
               PROVE  m \in rewards \/ InitOnItsWay(m)'
    BY DEF RewardsCovered, RecentRounds
  <2>1. CASE m \in contract.relayOf \cap RecentRounds(contract.round)
    <3>1. m \in rewards \/ InitOnItsWay(m)
      BY <2>1 DEF StakingInv, RewardsCovered
    <3>2. InitOnItsWay(m) => InitOnItsWay(m)'
      BY <1>2 DEF InitOnItsWay
    <3> QED BY <3>1, <3>2
  <2>2. CASE k = "RelayRoundInitialized" /\ m = n
    BY <1>2, <1>3, <2>2 DEF InitOnItsWay
  <2> QED BY <2>1, <2>2 DEF Changes
<1> QED BY <1>2, <1>5, <1>6

-----------------------------------------------------------------------------
(* The invariant holds after the snapshot.                                 *)
LEMMA StakingInit == Init => StakingInv
<1> SUFFICES ASSUME Init PROVE StakingInv
  OBVIOUS
<1>1. contract \in Contract
  <2>1. PICK c \in Configs, start \in {0, 1}, ended \in BOOLEAN :
          contract = [round |-> FirstRound, roundStart |-> 1, electionStart |-> start,
                      ended |-> ended, config |-> c, relayOf |-> IF InRound THEN {FirstRound} ELSE {}]
    BY DEF Init
  <2>2. FirstRound \in Rounds
    BY StakingAssumption DEF Rounds, FirstRound
  <2>3. (IF InRound THEN {FirstRound} ELSE {}) \in SUBSET Rounds
    BY <2>2
  <2> QED BY <2>1, <2>2, <2>3 DEF Contract
<1>2. state = get_round_state(contract) /\ state \in RoundState
  BY <1>1, RoundStateType DEF Init, Snapshot
<1>3. TypeOK
  <2>1. member \in BOOLEAN /\ lost \in BOOLEAN
    BY Zenon DEF Init
  <2>2. elected \in Tristate /\ participates \in Tristate
    BY DEF Init, Snapshot, Flag, Tristate
  <2>3. loop \in [pc : LoopPc, state : RoundState] /\ vote \in [Rounds -> VotePc]
    BY <1>2 DEF Init, LoopPc, VotePc
  <2>4. /\ clock \in 1..MaxTime /\ balance \in Balances /\ changes \in 0..MaxChanges
        /\ block \in Seq(Header) /\ events \in Seq(Event) /\ userEvents \in Seq(UserEvent)
        /\ startup \in {"subscribe", "vote", "collect", "done"} /\ known \in Balances
        /\ rewards \subseteq Rounds
    BY StakingAssumption DEF Init, Snapshot
  <2> QED BY <1>1, <1>2, <2>1, <2>2, <2>3, <2>4 DEF TypeOK
<1>4. FreshInv
  <2>1. Current(state)
    BY <1>2 DEF Current
  <2>2. events = <<>> /\ ~Registered
    BY DEF Init, Registered
  <2> QED BY <2>1, <2>2 DEF FreshInv, Fresh
<1>5. RewardsCovered
  BY DEF Init, RewardsCovered
<1> QED BY <1>3, <1>4, <1>5 DEF StakingInv

-----------------------------------------------------------------------------
(* Types.                                                                  *)

(* An event of the user data contract is of its type, or lost.             *)
LEMMA EmitUserTypes ==
    ASSUME TypeOK, NEW k \in {"RelayMembershipRequested", "DepositProcessed"},
           NEW b \in Balances, EmitUser(k, b)
    PROVE  userEvents' \in Seq(UserEvent) /\ lost' \in BOOLEAN
<1>1. [kind |-> k, balance |-> b] \in UserEvent /\ userEvents \in Seq(UserEvent)
  BY DEF UserEvent, TypeOK
<1>2. Append(userEvents, [kind |-> k, balance |-> b]) \in Seq(UserEvent)
  BY <1>1, AppendFacts
<1> QED BY <1>1, <1>2 DEF EmitUser, TypeOK

(* A step of a task that votes.                                            *)
LEMMA VoteType ==
    ASSUME TypeOK, NEW n \in Rounds, NEW from, NEW to \in VotePc, VoteStep(n, from, to)
    PROVE  vote' \in [Rounds -> VotePc]
  BY DEF TypeOK, VoteStep

(* A step of the loop that keeps the state it has read.                    *)
LEMMA LoopType ==
    ASSUME TypeOK, NEW from, NEW to \in LoopPc, LoopStep(from, to)
    PROVE  /\ loop' \in [pc : LoopPc, state : RoundState]
           /\ loop.pc = from /\ loop'.pc = to /\ loop'.state = loop.state
  BY DEF TypeOK, LoopStep

(* Steps that leave the contract, the events and the states alone.         *)
LEMMA Unconcerned ==
    ASSUME StakingInv, UNCHANGED <<contract, block, events, state, rewards, loop.state>>,
           startup' = "done" => startup = "done", ~lost' => ~lost, Registered' => Registered
    PROVE  FreshInv' /\ RewardsCovered'
<1>1. RewardsCovered'
  BY DEF StakingInv, RewardsCovered, RecentRounds, InitOnItsWay
<1>2. \A s \in RoundState, i \in Nat : Fresh(s, i) => Fresh(s, i)'
  BY DEF Fresh, Current
<1>3. FreshInv'
  BY <1>2, FreshKept
<1> QED BY <1>1, <1>3

-----------------------------------------------------------------------------
(* Transactions of the staking contract, by whomever.                      *)
LEMMA ContractSteps ==
    ASSUME StakingInv,
           OtherRelay \/ InitializeRound \/ (\E c \in Configs : UpdateConfig(c)) \/ LoopDelivered
    PROVE  StakingInv'
<1> USE DEF StakingInv
<1>1. \E k, n : Changes(k, n)
  BY StartElectionChanges, EndElectionChanges, InitializeRoundChanges, UpdateConfigChanges
     DEF OtherRelay, LoopDelivered
<1>2. /\ UNCHANGED <<clock, balance, events, userEvents, lost, startup, state, known, elected,
                     participates, vote, rewards>>
      /\ \/ UNCHANGED loop
         \/ LoopStep("deliver", "wait")
  BY DEF OtherRelay, InitializeRound, UpdateConfig, LoopDelivered, channels, flags, tasks
<1>3. /\ loop' \in [pc : LoopPc, state : RoundState] /\ UNCHANGED loop.state
      /\ Registered' => Registered
  <2>1. CASE UNCHANGED loop
    BY <2>1 DEF TypeOK, Registered
  <2>2. CASE LoopStep("deliver", "wait")
    BY <2>2, LoopType DEF LoopPc, Registered
  <2> QED BY <1>2, <2>1, <2>2
<1>4. FreshInv' /\ RewardsCovered' /\ block' \in Seq(Header)
  BY <1>1, <1>2, <1>3, ChangesPreserve
<1>5. contract' \in Contract
  BY <1>1 DEF Changes
<1>6. member' \in BOOLEAN
  BY Zenon DEF OtherRelay, InitializeRound, UpdateConfig, LoopDelivered, TypeOK
<1>7. changes' \in 0..MaxChanges
  <2>1. changes \in 0..MaxChanges
    BY DEF TypeOK
  <2>2. changes' = changes \/ (changes < MaxChanges /\ changes' = changes + 1)
    BY DEF OtherRelay, InitializeRound, UpdateConfig, LoopDelivered
  <2> QED BY <2>1, <2>2, StakingAssumption
<1>8. TypeOK'
  BY <1>2, <1>3, <1>4, <1>5, <1>6, <1>7 DEF TypeOK
<1> QED BY <1>4, <1>8

(* The end of a block: its events carry the state of the contract now.     *)
LEMMA EndBlockStep == ASSUME StakingInv, EndBlock PROVE StakingInv'
<1> USE DEF StakingInv
<1> DEFINE now == get_round_state(contract)
           stamped(i) == [kind |-> block[i].kind, num |-> block[i].num, state |-> now]
           new == [i \in DOMAIN block |-> stamped(i)]
<1>1. /\ UNCHANGED <<clock, contract, member, balance, changes, userEvents, startup,
                     state, known, elected, participates, loop, vote, rewards>>
      /\ block' = <<>>
      /\ \/ Subscribed /\ events' = events \o new /\ UNCHANGED lost
         \/ ~Subscribed /\ UNCHANGED events /\ lost' = TRUE
  BY DEF EndBlock, flags, tasks
<1>2. CASE ~Subscribed
  <2>1. TypeOK'
    <3>1. block' \in Seq(Header)
      BY <1>1
    <3>2. lost' \in BOOLEAN
      BY <1>1, <1>2
    <3> QED BY <1>1, <1>2, <3>1, <3>2 DEF TypeOK
  <2>2. FreshInv' /\ RewardsCovered'
    BY <1>1, <1>2 DEF FreshInv, RewardsCovered, Subscribed
  <2> QED BY <2>1, <2>2
<1>3. CASE Subscribed
  <2>1. block \in Seq(Header) /\ events \in Seq(Event) /\ now \in RoundState
    BY RoundStateType DEF TypeOK
  <2>2. Len(block) \in Nat /\ DOMAIN block = 1..Len(block) /\ \A i \in 1..Len(block) : block[i] \in Header
    BY <2>1
  <2>3. PICK nw \in RoundState : nw = now
    BY <2>1
  <2>4. /\ DOMAIN new = 1..Len(block)
        /\ \A i \in 1..Len(block) : /\ new[i] \in Event /\ new[i].kind = block[i].kind
                                    /\ new[i].num = block[i].num /\ new[i].state = now
    BY <2>1, <2>2 DEF Event, Header
  <2>5. new \in Seq(Event) /\ Len(new) = Len(block)
    <3> HIDE DEF now
    <3>0. \A i \in DOMAIN block : stamped(i) \in Event
      BY <2>1, <2>2 DEF Event, Header
    <3> HIDE DEF stamped
    <3>1. new \in [DOMAIN block -> Event]
      BY <3>0
    <3> HIDE DEF new
    <3>2. new \in Seq(Event)
      <4>1. new \in [1..Len(block) -> Event]
        BY <2>2, <3>1
      <4> QED BY <2>2, <4>1, SeqDef
    <3> QED BY <2>2, <3>1, <3>2
  <2> HIDE DEF stamped, new, now
  <2>6. /\ events' \in Seq(Event) /\ Len(events) \in Nat /\ DOMAIN events = 1..Len(events)
        /\ DOMAIN events' = 1..(Len(events) + Len(block))
        /\ \A i \in 1..Len(events) : events'[i] = events[i]
        /\ \A i \in 1..Len(block) : events'[Len(events) + i] = new[i]
    <3>1. events' = events \o new
      BY <1>1, <1>3
    <3>2. /\ events' \in Seq(Event) /\ Len(events') = Len(events) + Len(new)
          /\ Len(events) \in Nat /\ DOMAIN events = 1..Len(events)
          /\ \A i \in 1..(Len(events) + Len(new)) :
                events'[i] = IF i <= Len(events) THEN events[i] ELSE new[i - Len(events)]
      <4>1. events \in Seq(Event) /\ new \in Seq(Event)
        BY <2>1, <2>5
      <4>2. /\ events \o new \in Seq(Event) /\ Len(events \o new) = Len(events) + Len(new)
            /\ \A i \in 1..(Len(events) + Len(new)) :
                  (events \o new)[i] = IF i <= Len(events) THEN events[i] ELSE new[i - Len(events)]
        BY <4>1, ConcatProperties, Zenon
      <4> QED BY <3>1, <4>1, <4>2
    <3>3. ASSUME NEW i \in 1..Len(block) PROVE events'[Len(events) + i] = new[i]
      <4>1. /\ Len(events) + i \in 1..(Len(events) + Len(new)) /\ ~(Len(events) + i <= Len(events))
            /\ (Len(events) + i) - Len(events) = i
        BY <2>2, <2>5, <3>2
      <4> QED BY <3>2, <4>1
    <3> QED BY <2>2, <2>5, <3>2, <3>3
  <2>7. TypeOK'
    <3>1. block' \in Seq(Header) /\ lost' \in BOOLEAN
      BY <1>1, <1>3 DEF TypeOK
    <3> QED BY <1>1, <2>6, <3>1 DEF TypeOK
  <2>8. \A s \in RoundState : Current(s)' <=> Current(s)
    BY <1>1 DEF Current
  <2>9. ASSUME NEW s \in RoundState, NEW i \in 0..Len(events), Fresh(s, i) PROVE Fresh(s, i)'
    <3>1. CASE Current(s)
      BY <2>8, <3>1 DEF Fresh
    <3>2. CASE \E j \in DOMAIN events : j > i /\ Wakes(events[j].kind, s)
      <4>1. PICK j \in 1..Len(events) : j > i /\ Wakes(events[j].kind, s)
        BY <2>6, <3>2
      <4>2. j \in DOMAIN events' /\ events'[j] = events[j]
        BY <2>2, <2>6
      <4> QED BY <4>1, <4>2 DEF Fresh, Wakes, Notifies, ListensTo
    <3>3. CASE \E j \in DOMAIN block : Wakes(block[j].kind, s)
      <4>1. PICK j \in 1..Len(block) : Wakes(block[j].kind, s)
        BY <2>2, <3>3
      <4>2. PICK k \in DOMAIN events' : k > i /\ events'[k] = new[j]
        <5>1. Len(events) + j \in DOMAIN events' /\ Len(events) + j > i
          BY <2>2, <2>6
        <5> QED BY <2>6, <5>1
      <4>3. events'[k].kind = block[j].kind
        BY <2>4, <4>2
      <4> QED BY <4>1, <4>2, <4>3 DEF Fresh, Wakes, Notifies, ListensTo
    <3> QED BY <2>9, <3>1, <3>2, <3>3 DEF Fresh
  <2>10. FreshInv'
    <3> SUFFICES ASSUME ~lost PROVE /\ Fresh(state, 0)'
                                    /\ (\A i \in DOMAIN events : Fresh(events[i].state, i))'
                                    /\ Registered' => Fresh(loop.state, 0)'
      BY <1>1, <1>3 DEF FreshInv
    <3>0. 0 \in 0..Len(events)
      BY <2>6
    <3>1. PICK st \in RoundState, ls \in RoundState : st = state /\ ls = loop.state
      BY DEF TypeOK
    <3>2. Fresh(st, 0) /\ (Registered => Fresh(ls, 0))
      BY <3>1 DEF FreshInv
    <3>3. Fresh(st, 0)' /\ (Registered => Fresh(ls, 0)')
      BY <2>9, <3>0, <3>2
    <3>4. Fresh(state, 0)' /\ (Registered => Fresh(loop.state, 0)') /\ (Registered' <=> Registered)
      BY <1>1, <3>1, <3>3 DEF Fresh, Current, Registered
    <3>5. ASSUME NEW i \in 1..(Len(events) + Len(block)) PROVE Fresh(events[i].state, i)'
      <4>1. CASE i \in 1..Len(events)
        <5>0. Fresh(events[i].state, i) /\ events[i].state \in RoundState
          <6>1. i \in DOMAIN events /\ events[i] \in Event
            BY <2>1, <2>6, <4>1
          <6> QED BY <6>1 DEF FreshInv, Event
        <5>1. PICK es \in RoundState : es = events[i].state /\ Fresh(es, i)
          BY <5>0
        <5>2. Fresh(es, i)'
          BY <2>6, <2>9, <4>1, <5>1
        <5>3. events'[i].state = es
          BY <2>6, <4>1, <5>1
        <5> QED BY <5>2, <5>3 DEF Fresh, Current
      <4>2. CASE i \notin 1..Len(events)
        <5>1. PICK j \in 1..Len(block) : i = Len(events) + j
          <6>1. i - Len(events) \in 1..Len(block) /\ i = Len(events) + (i - Len(events))
            BY <2>2, <2>6, <4>2
          <6> QED BY <6>1
        <5>2. events'[i].state = now
          BY <2>4, <2>6, <5>1
        <5>3. Current(events[i].state)'
          BY <1>1, <5>2 DEF Current, now
        <5> QED BY <5>3 DEF Fresh
      <4> QED BY <4>1, <4>2
    <3> QED BY <2>6, <3>4, <3>5
  <2>11. RewardsCovered'
    <3>1. ASSUME NEW m, InitOnItsWay(m) PROVE InitOnItsWay(m)'
      <4>1. CASE \E i \in DOMAIN events : events[i].kind = "RelayRoundInitialized" /\ events[i].num = m
        <5>1. PICK i \in 1..Len(events) : events[i].kind = "RelayRoundInitialized" /\ events[i].num = m
          BY <2>6, <4>1
        <5>2. i \in DOMAIN events' /\ events'[i] = events[i]
          BY <2>2, <2>6
        <5> QED BY <5>1, <5>2 DEF InitOnItsWay
      <4>2. CASE \E i \in DOMAIN block : block[i].kind = "RelayRoundInitialized" /\ block[i].num = m
        <5>1. PICK i \in 1..Len(block) : block[i].kind = "RelayRoundInitialized" /\ block[i].num = m
          BY <2>2, <4>2
        <5>2. Len(events) + i \in DOMAIN events' /\ events'[Len(events) + i] = new[i]
          BY <2>2, <2>6
        <5>3. new[i].kind = block[i].kind /\ new[i].num = block[i].num
          BY <2>4
        <5> QED BY <5>1, <5>2, <5>3 DEF InitOnItsWay
      <4> QED BY <3>1, <4>1, <4>2 DEF InitOnItsWay
    <3> QED BY <1>1, <3>1 DEF RewardsCovered, RecentRounds
  <2> QED BY <2>7, <2>10, <2>11
<1> QED BY <1>2, <1>3

-----------------------------------------------------------------------------
(* The listener: the first event is handled, the state becomes the one it  *)
(* carries, and a loop that it wakes reads that state anew.                *)
LEMMA VoteMaps ==
    ASSUME TypeOK, NEW n \in Rounds
    PROVE  /\ SpawnVote(n) \in [Rounds -> VotePc]
           /\ CancelVotes \in [Rounds -> VotePc] /\ WakeVotes \in [Rounds -> VotePc]
<1>1. vote \in [Rounds -> VotePc]
  BY DEF TypeOK
<1>2. SpawnVote(n) \in [Rounds -> VotePc]
  BY <1>1 DEF SpawnVote, VotePc
<1>3. CancelVotes \in [Rounds -> VotePc] /\ WakeVotes \in [Rounds -> VotePc]
  BY <1>1 DEF CancelVotes, WakeVotes, VotePc
<1> QED BY <1>2, <1>3

(* process_staking_event: the state is the one in the event, and a loop    *)
(* that the event does not wake has an event behind it, or is current.     *)
LEMMA StakingEventStep == ASSUME StakingInv, process_staking_event PROVE StakingInv'
<1> USE DEF StakingInv
<1>1. /\ UNCHANGED <<chain, userEvents, lost, startup, known>>
      /\ events # <<>> /\ events' = Tail(events) /\ state' = Head(events).state
  BY DEF process_staking_event
<1>2. events \in Seq(Event)
  BY DEF TypeOK
<1>3. /\ Len(events) \in Nat \ {0} /\ DOMAIN events = 1..Len(events)
      /\ Head(events) = events[1] /\ Head(events) \in Event
      /\ Tail(events) \in Seq(Event) /\ DOMAIN Tail(events) = 1..(Len(events) - 1)
      /\ \A i \in 1..(Len(events) - 1) : Tail(events)[i] = events[i + 1]
  BY <1>1, <1>2, TailFacts
<1>4. /\ Head(events).kind \in Kinds /\ Head(events).num \in Rounds
      /\ Head(events).state \in RoundState
  BY <1>3 DEF Event
<1>5. /\ loop' \in [pc : LoopPc, state : RoundState] /\ loop'.state = loop.state
      /\ Registered' => Registered /\ ~Wakes(Head(events).kind, loop.state)
  <2>1. loop \in [pc : LoopPc, state : RoundState]
    BY DEF TypeOK
  <2>2. \/ Registered /\ Wakes(Head(events).kind, loop.state) /\ loop' = [loop EXCEPT !.pc = "lock"]
        \/ ~(Registered /\ Wakes(Head(events).kind, loop.state)) /\ loop' = loop
    BY DEF process_staking_event
  <2>3. CASE Registered /\ Wakes(Head(events).kind, loop.state) /\ loop' = [loop EXCEPT !.pc = "lock"]
    <3>1. loop' \in [pc : LoopPc, state : RoundState] /\ loop'.state = loop.state /\ loop'.pc = "lock"
      BY <2>1, <2>3 DEF LoopPc
    <3> QED BY <3>1 DEF Registered
  <2>4. CASE ~(Registered /\ Wakes(Head(events).kind, loop.state)) /\ loop' = loop
    BY <2>1, <2>4 DEF Registered
  <2> QED BY <2>2, <2>3, <2>4
<1>6. TypeOK'
  <2>1. elected' \in Tristate /\ participates' \in Tristate
    BY DEF process_staking_event, TypeOK, Tristate
  <2>2. vote' \in [Rounds -> VotePc]
    <3>1. vote' \in {SpawnVote(Head(events).num), CancelVotes, WakeVotes, vote}
      BY DEF process_staking_event
    <3> QED BY <1>4, <3>1, VoteMaps DEF TypeOK
  <2>3. rewards' \subseteq Rounds
    BY <1>4 DEF process_staking_event, TypeOK
  <2> QED BY <1>1, <1>3, <1>4, <1>5, <2>1, <2>2, <2>3 DEF TypeOK, chain
<1>7. ASSUME NEW s \in RoundState, NEW i \in Nat, Fresh(s, i + 1) PROVE Fresh(s, i)'
  <2>1. CASE Current(s) \/ \E j \in DOMAIN block : Wakes(block[j].kind, s)
    BY <1>1, <2>1 DEF Fresh, Current, Wakes, Notifies, ListensTo, chain
  <2>2. CASE \E j \in DOMAIN events : j > i + 1 /\ Wakes(events[j].kind, s)
    <3>1. PICK j \in 1..Len(events) : j > i + 1 /\ Wakes(events[j].kind, s)
      BY <1>3, <2>2
    <3>2. PICK k \in 1..(Len(events) - 1) : k + 1 = j /\ k > i
      <4>1. j - 1 \in 1..(Len(events) - 1) /\ (j - 1) + 1 = j /\ j - 1 > i
        BY <1>3, <3>1
      <4> QED BY <4>1
    <3>3. k \in DOMAIN events' /\ events'[k] = events[j]
      BY <1>1, <1>3, <3>2
    <3> QED BY <3>1, <3>2, <3>3 DEF Fresh, Wakes, Notifies, ListensTo
  <2> QED BY <1>7, <2>1, <2>2 DEF Fresh
<1>8. FreshInv'
  <2> SUFFICES ASSUME ~lost PROVE /\ Fresh(state, 0)'
                                  /\ (\A i \in DOMAIN events : Fresh(events[i].state, i))'
                                  /\ Registered' => Fresh(loop.state, 0)'
    BY <1>1 DEF FreshInv
  <2>1. ASSUME NEW i \in 1..Len(events)
        PROVE  Fresh(events[i].state, i) /\ events[i].state \in RoundState
    <3>1. events[i] \in Event
      BY <1>2, <1>3
    <3> QED BY <1>3, <3>1 DEF FreshInv, Event
  <2>2. Fresh(state, 0)'
    <3>1. PICK es \in RoundState : es = events[1].state /\ Fresh(es, 0 + 1)
      BY <1>3, <2>1
    <3>2. Fresh(es, 0)'
      BY <1>7, <3>1
    <3>3. state' = es
      BY <1>1, <1>3, <3>1
    <3> QED BY <3>2, <3>3 DEF Fresh, Current
  <2>3. ASSUME NEW i \in 1..(Len(events) - 1) PROVE Fresh(events[i].state, i)'
    <3>1. i \in Nat /\ i + 1 \in 1..Len(events)
      BY <1>3
    <3>2. PICK es \in RoundState : es = events[i + 1].state /\ Fresh(es, i + 1)
      BY <2>1, <3>1
    <3>3. Fresh(es, i)'
      BY <1>7, <3>1, <3>2
    <3>4. events'[i].state = es
      BY <1>1, <1>3, <3>2
    <3> QED BY <3>3, <3>4 DEF Fresh, Current
  <2>4. ASSUME Registered' PROVE Fresh(loop.state, 0)'
    <3>1. PICK ls \in RoundState : ls = loop.state
      BY DEF TypeOK
    <3>2. Fresh(ls, 0) /\ ~Wakes(events[1].kind, ls)
      BY <1>3, <1>5, <2>4, <3>1 DEF FreshInv
    <3>3. Fresh(ls, 0 + 1)
      <4>1. CASE \E j \in DOMAIN events : j > 0 /\ Wakes(events[j].kind, ls)
        <5>1. PICK j \in 1..Len(events) : Wakes(events[j].kind, ls)
          BY <1>3, <4>1
        <5>2. j > 0 + 1
          BY <3>2, <5>1
        <5> QED BY <1>3, <5>1, <5>2 DEF Fresh
      <4> QED BY <3>2, <4>1 DEF Fresh
    <3>4. Fresh(ls, 0)'
      BY <1>7, <3>3
    <3> QED BY <1>5, <3>1, <3>4 DEF Fresh, Current
  <2> QED BY <1>1, <1>3, <2>2, <2>3, <2>4
<1>9. RewardsCovered'
  <2>1. rewards \subseteq rewards'
        /\ (Head(events).kind = "RelayRoundInitialized" => Head(events).num \in rewards')
    BY DEF process_staking_event
  <2>2. ASSUME NEW m, InitOnItsWay(m) PROVE m \in rewards' \/ InitOnItsWay(m)'
    <3>1. CASE \E i \in DOMAIN events : events[i].kind = "RelayRoundInitialized" /\ events[i].num = m
      <4>1. PICK i \in 1..Len(events) : events[i].kind = "RelayRoundInitialized" /\ events[i].num = m
        BY <1>3, <3>1
      <4>2. CASE i = 1
        BY <1>3, <2>1, <4>1, <4>2
      <4>3. CASE i # 1
        <5>1. i - 1 \in DOMAIN events' /\ events'[i - 1] = events[i]
          BY <1>1, <1>3, <4>3
        <5> QED BY <4>1, <5>1 DEF InitOnItsWay
      <4> QED BY <4>2, <4>3
    <3>2. CASE \E i \in DOMAIN block : block[i].kind = "RelayRoundInitialized" /\ block[i].num = m
      BY <1>1, <3>2 DEF InitOnItsWay, chain
    <3> QED BY <2>2, <3>1, <3>2 DEF InitOnItsWay
  <2> QED BY <1>1, <2>1, <2>2 DEF RewardsCovered, RecentRounds, chain
<1> QED BY <1>6, <1>8, <1>9

-----------------------------------------------------------------------------
(* The loop reads the state of the listener.                               *)
LEMMA LoopReadStep == ASSUME StakingInv, LoopRead PROVE StakingInv'
<1> USE DEF StakingInv
<1>1. /\ UNCHANGED <<chain, channels, startup, state, known, flags, vote, rewards>>
      /\ loop' = [pc |-> IF state.elections = "Finished" THEN "wait" ELSE "sleep", state |-> state]
  BY DEF LoopRead
<1>2. loop' \in [pc : LoopPc, state : RoundState] /\ loop'.state = state
  BY <1>1 DEF TypeOK, LoopPc
<1>3. TypeOK'
  BY <1>1, <1>2 DEF TypeOK, chain, channels, flags
<1>4. FreshInv'
  <2>1. \A i \in DOMAIN events : (Fresh(events[i].state, i)' <=> Fresh(events[i].state, i))
    BY <1>1 DEF Fresh, Current, chain, channels
  <2>2. Fresh(state, 0)' <=> Fresh(state, 0)
    BY <1>1 DEF Fresh, Current, chain, channels
  <2>3. Fresh(loop.state, 0)' <=> Fresh(state, 0)
    BY <1>1, <1>2 DEF Fresh, Current, chain, channels
  <2> QED BY <1>1, <2>1, <2>2, <2>3 DEF FreshInv, channels
<1>5. RewardsCovered'
  BY <1>1 DEF RewardsCovered, RecentRounds, InitOnItsWay, chain, channels
<1> QED BY <1>3, <1>4, <1>5

(* The startup collects the rewards of the rounds there are.               *)
LEMMA StartupCollectStep == ASSUME StakingInv, StartupCollect PROVE StakingInv'
<1> USE DEF StakingInv
<1>1. /\ UNCHANGED <<chain, channels, state, known, flags, loop, vote>> /\ startup' = "done"
      /\ rewards' = rewards \cup (RecentRounds(contract.round) \cap contract.relayOf)
  BY DEF StartupCollect
<1>2. rewards' \subseteq Rounds
  BY <1>1 DEF RecentRounds, TypeOK
<1>3. TypeOK'
  BY <1>1, <1>2 DEF TypeOK, chain, channels, flags
<1>4. RewardsCovered'
  BY <1>1 DEF RewardsCovered, RecentRounds, chain
<1>5. FreshInv'
  <2>1. \A s \in RoundState, i \in Nat : Fresh(s, i) => Fresh(s, i)'
    BY <1>1 DEF Fresh, Current, chain, channels
  <2>2. UNCHANGED <<events, state, loop.state>> /\ (~lost' => ~lost) /\ (Registered' => Registered)
    BY <1>1 DEF Registered, channels
  <2> QED BY <2>1, <2>2, FreshKept
<1> QED BY <1>3, <1>4, <1>5

-----------------------------------------------------------------------------
(* The other steps leave the contract, the events and the states alone.    *)

(* Time passes, the staker deposits.                                       *)
LEMMA UserSteps ==
    ASSUME StakingInv, Tick \/ \E b \in Balances : Deposit(b)
    PROVE  StakingInv'
<1> USE DEF StakingInv
<1>1. CASE Tick
  <2>1. UNCHANGED <<contract, member, balance, changes, block, channels, startup, state,
                    known, flags, tasks>>
    BY <1>1 DEF Tick
  <2>2. clock' \in 1..MaxTime
    BY <1>1, StakingAssumption DEF Tick, TypeOK
  <2>3. TypeOK'
    BY <2>1, <2>2 DEF TypeOK, channels, flags, tasks
  <2>4. FreshInv' /\ RewardsCovered'
    BY <2>1, Unconcerned DEF Registered, channels, tasks
  <2> QED BY <2>3, <2>4
<1>2. CASE \E b \in Balances : Deposit(b)
  <2>1. PICK b \in Balances : Deposit(b)
    BY <1>2
  <2>2. /\ UNCHANGED <<clock, contract, member, block, events, startup, state, known, flags, tasks>>
        /\ changes < MaxChanges /\ changes' = changes + 1 /\ balance' = b
        /\ EmitUser("DepositProcessed", b)
    BY <2>1 DEF Deposit
  <2>3. userEvents' \in Seq(UserEvent) /\ lost' \in BOOLEAN
    BY <2>2, EmitUserTypes
  <2>4. changes' \in 0..MaxChanges
    BY <2>2, StakingAssumption DEF TypeOK
  <2>5. TypeOK'
    BY <2>2, <2>3, <2>4 DEF TypeOK, flags, tasks
  <2>6. ~lost' => ~lost
    BY <2>2 DEF EmitUser
  <2>7. FreshInv' /\ RewardsCovered'
    BY <2>2, <2>6, Unconcerned DEF Registered, tasks
  <2> QED BY <2>5, <2>7
<1> QED BY <1>1, <1>2

(* The listener of the user data contract and the participation.           *)
LEMMA UserListenerSteps ==
    ASSUME StakingInv, process_user_data_event \/ UpdateParticipates
    PROVE  StakingInv'
<1> USE DEF StakingInv
<1>1. CASE process_user_data_event
  <2>1. /\ UNCHANGED <<chain, events, lost, startup, state, participates, loop, rewards>>
        /\ userEvents # <<>> /\ userEvents' = Tail(userEvents)
        /\ \/ elected' = "True" /\ UNCHANGED <<known, vote>>
           \/ known' = Head(userEvents).balance /\ vote' = WakeVotes /\ UNCHANGED elected
    BY <1>1 DEF process_user_data_event
  <2>2. userEvents \in Seq(UserEvent)
    BY DEF TypeOK
  <2>3. Head(userEvents) \in UserEvent /\ userEvents' \in Seq(UserEvent)
    BY <2>1, <2>2, TailFacts
  <2>4. known' \in Balances /\ elected' \in Tristate
    BY <2>1, <2>3 DEF TypeOK, UserEvent, Tristate
  <2>5. vote' \in [Rounds -> VotePc]
    <3>1. WakeVotes \in [Rounds -> VotePc]
      BY DEF TypeOK, WakeVotes, VotePc
    <3> QED BY <2>1, <3>1 DEF TypeOK
  <2>6. TypeOK'
    BY <2>1, <2>3, <2>4, <2>5 DEF TypeOK, chain
  <2>7. FreshInv' /\ RewardsCovered'
    BY <2>1, Unconcerned DEF Registered, chain
  <2> QED BY <2>6, <2>7
<1>2. CASE UpdateParticipates
  <2>1. /\ UNCHANGED <<chain, channels, startup, state, known, elected, tasks>>
        /\ participates' \in Tristate
    BY <1>2 DEF UpdateParticipates, StakingAccountInRound, Tristate
  <2>2. TypeOK'
    BY <2>1 DEF TypeOK, chain, channels, tasks
  <2>3. FreshInv' /\ RewardsCovered'
    BY <2>1, Unconcerned DEF Registered, chain, channels, tasks
  <2> QED BY <2>2, <2>3
<1> QED BY <1>1, <1>2

(* The loop, between two states it reads.                                  *)
LEMMA LoopSteps == ASSUME StakingInv, LoopSleepEnds \/ LoopFails PROVE StakingInv'
<1> USE DEF StakingInv
<1>1. /\ UNCHANGED <<chain, channels, startup, state, known, flags, vote, rewards>>
      /\ LoopStep("sleep", "deliver") \/ LoopStep("deliver", "failed")
  BY DEF LoopSleepEnds, LoopFails
<1>2. /\ loop' \in [pc : LoopPc, state : RoundState] /\ UNCHANGED loop.state
      /\ Registered' => Registered
  BY <1>1, LoopType DEF LoopPc, Registered
<1>3. TypeOK'
  BY <1>1, <1>2 DEF TypeOK, chain, channels, flags
<1>4. FreshInv' /\ RewardsCovered'
  BY <1>1, <1>2, Unconcerned DEF chain, channels
<1> QED BY <1>3, <1>4

(* The tasks that vote.                                                    *)
LEMMA VoteSteps ==
    ASSUME StakingInv, NEW n \in Rounds, VoteTask(n) \/ VoteFails(n) \/ VoteDelivered(n)
    PROVE  StakingInv'
<1> USE DEF StakingInv
<1>1. vote' \in [Rounds -> VotePc]
  <2>1. \E from, to \in VotePc : VoteStep(n, from, to)
    BY DEF VoteTask, VoteStart, VoteCheck, VoteFails, VoteDelivered, VotePc
  <2> QED BY <2>1, VoteType
<1>2. CASE VoteTask(n) \/ VoteFails(n)
  <2>1. UNCHANGED <<chain, channels, startup, state, known, flags, loop, rewards>>
    BY <1>2 DEF VoteTask, VoteStart, VoteCheck, VoteFails
  <2>2. TypeOK'
    BY <1>1, <2>1 DEF TypeOK, chain, channels, flags
  <2>3. FreshInv' /\ RewardsCovered'
    BY <2>1, Unconcerned DEF Registered, chain, channels
  <2> QED BY <2>2, <2>3
<1>3. CASE VoteDelivered(n)
  <2>1. /\ UNCHANGED <<clock, contract, balance, changes, block, events, startup, state,
                       known, flags, loop, rewards>>
        /\ EmitUser("RelayMembershipRequested", balance)
    BY <1>3 DEF VoteDelivered
  <2>2. member' \in BOOLEAN
    BY <1>3, Zenon DEF VoteDelivered
  <2>3. userEvents' \in Seq(UserEvent) /\ lost' \in BOOLEAN
    BY <2>1, EmitUserTypes DEF TypeOK
  <2>4. TypeOK'
    BY <1>1, <2>1, <2>2, <2>3 DEF TypeOK, flags
  <2>5. ~lost' => ~lost
    BY <2>1 DEF EmitUser
  <2>6. FreshInv' /\ RewardsCovered'
    BY <2>1, <2>5, Unconcerned DEF Registered
  <2> QED BY <2>4, <2>6
<1> QED BY <1>2, <1>3

(* Staking::new, before it collects the rewards.                           *)
LEMMA StartupSteps ==
    ASSUME StakingInv, StartupSubscribe \/ StartupVoted PROVE StakingInv'
<1> USE DEF StakingInv
<1>1. /\ UNCHANGED <<chain, channels, state, known, flags, rewards>>
      /\ startup' \in {"vote", "collect"}
      /\ vote' = [vote EXCEPT ![FirstRound] = "check"] \/ UNCHANGED vote
      /\ LoopStep("off", "lock") \/ UNCHANGED loop
  BY DEF StartupSubscribe, StartupVoted
<1>2. vote' \in [Rounds -> VotePc]
  BY <1>1 DEF TypeOK, VotePc
<1>3. /\ loop' \in [pc : LoopPc, state : RoundState] /\ UNCHANGED loop.state
      /\ Registered' => Registered
  <2>1. CASE UNCHANGED loop
    BY <2>1 DEF TypeOK, Registered
  <2>2. CASE LoopStep("off", "lock")
    BY <2>2, LoopType DEF LoopPc, Registered
  <2> QED BY <1>1, <2>1, <2>2
<1>4. TypeOK'
  BY <1>1, <1>2, <1>3 DEF TypeOK, chain, channels, flags
<1>5. FreshInv' /\ RewardsCovered'
  BY <1>1, <1>3, Unconcerned DEF chain, channels
<1> QED BY <1>4, <1>5

(* Every step, one action at a time.                                       *)
LEMMA StakingNext == StakingInv /\ [Next]_vars => StakingInv'
<1> SUFFICES ASSUME StakingInv, [Next]_vars PROVE StakingInv'
  OBVIOUS
<1>1. CASE Environment
  BY <1>1, ContractSteps, EndBlockStep, UserSteps DEF Environment
<1>2. CASE Listen
  BY <1>2, StakingEventStep, UserListenerSteps DEF Listen
<1>3. CASE Startup
  BY <1>3, StartupSteps, StartupCollectStep DEF Startup
<1>4. CASE Loop \/ LoopFails \/ LoopDelivered
  BY <1>4, LoopReadStep, LoopSteps, ContractSteps DEF Loop
<1>5. CASE \E n \in Rounds : VoteTask(n) \/ VoteFails(n) \/ VoteDelivered(n)
  BY <1>5, VoteSteps
<1>6. CASE UNCHANGED vars
  <2>1. TypeOK'
    BY <1>6 DEF StakingInv, TypeOK, vars, chain, channels, flags, tasks
  <2>2. FreshInv' /\ RewardsCovered'
    BY <1>6, Unconcerned DEF Registered, vars, chain, channels, tasks
  <2> QED BY <2>1, <2>2 DEF StakingInv
<1> QED BY <1>1, <1>2, <1>3, <1>4, <1>5, <1>6 DEF Next

(* The invariant of the specification.                                     *)
LEMMA StakingInvariant == Spec => []StakingInv
  BY StakingInit, StakingNext, PTL DEF Spec

-----------------------------------------------------------------------------
(* Whatever the configs, the balances and the order of events: a loop of   *)
(* start_managing_elections that sleeps, sends or waits does so in the     *)
(* state the contract is in, or is going to be notified.                   *)
THEOREM LoopNeverStale == Spec => [](TypeOK /\ LoopNotStale)
<1>1. StakingInv => TypeOK /\ LoopNotStale
  BY DEF StakingInv, FreshInv, Fresh, LoopNotStale, OnItsWay
<1> QED BY <1>1, StakingInvariant, PTL

(* The task that collects the reward of a recent round of this relay       *)
(* exists once Staking::new has returned, or its event is in the channel.  *)
THEOREM RewardsAreCovered == Spec => []RewardsCovered
<1>1. StakingInv => RewardsCovered
  BY DEF StakingInv
<1> QED BY <1>1, StakingInvariant, PTL
=============================================================================
