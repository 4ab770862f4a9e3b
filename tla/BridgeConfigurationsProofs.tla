--------------------- MODULE BridgeConfigurationsProofs ---------------------
(***************************************************************************)
(* Proofs about BridgeConfigurations for any number of connectors and      *)
(* configurations, any code hashes, ends and times.                        *)
(*                                                                         *)
(* CountersExact and EndsFollow are inductive with the types, if the map   *)
(* is finite and each queue of ends only names configurations of its type. *)
(* NoneForgotten is not: that startup will come to a connector says        *)
(* nothing of the steps after it.  It follows from two facts that do not   *)
(* mention what startup has still to do: a connector with an observer is   *)
(* settled or ahead of us as soon as it is enabled (Watched), and one that *)
(* startup has passed without an observer will be announced (Announced).   *)
(***************************************************************************)
EXTENDS BridgeConfigurations, FiniteSetTheorems, SequenceTheorems, TLAPS

In(x, s) == \E i \in DOMAIN s : s[i] = x

TaskRecord == [pc : {"none", "connector", "configuration", "lock"}, connector : Tasks, end : Ends]

TaskInv ==
    \A t \in Tasks :
        /\ task[t].pc # "none" => task[t].connector \in Connectors
        /\ t \in Connectors => task[t].connector = t

CountInv == IsFiniteSet(DOMAIN configurations) /\ CountersExact

QueueTyped ==
    \A t \in Types : \A i \in DOMAIN endEvents[t] : Type(endEvents[t][i].account) = t

TimeInv ==
    /\ \A g \in Ton : is_expired(end[g], utime) => g \in past
    /\ gc.utime <= utime

(* An event or a task will bring the relay to c, whatever startup does.    *)
Ahead(c) ==
    \/ In(c, connectorEvents)
    \/ \E t \in Tasks : task[t].connector = c /\ task[t].pc # "none"

Watched ==
    \A c \in connectors : connector[c] = "enabled" => Settled(c) \/ Ahead(c)

StartupPassed(c) == startup.pc = "done" \/ (startup.pc = "apply" /\ startup.id > c)

Announced ==
    \A c \in Connectors \ connectors : connector[c] # "absent" =>
        /\ StartupPassed(c) => c \in missed \/ In(c, bridgeEvents)
        /\ startup.pc = "apply" /\ startup.connector[c] = "absent" => In(c, bridgeEvents)

ConfInv ==
    /\ TypeOK /\ TaskInv
    /\ CountInv /\ QueueTyped /\ EndsFollow /\ TimeInv
    /\ Watched /\ Announced

-----------------------------------------------------------------------------
(* What is in a sequence after Append and after Tail.                      *)
LEMMA AppendFacts ==
    ASSUME NEW S, NEW s \in Seq(S), NEW y \in S
    PROVE  /\ Len(s) \in Nat /\ DOMAIN s = 1..Len(s)
           /\ Append(s, y) \in Seq(S) /\ DOMAIN Append(s, y) = 1..(Len(s) + 1)
           /\ Append(s, y)[Len(s) + 1] = y
           /\ \A i \in 1..Len(s) : Append(s, y)[i] = s[i]
  OBVIOUS

(* What a channel holds after an event was appended.                       *)
LEMMA InAppend ==
    ASSUME NEW S, NEW s \in Seq(S), NEW x, NEW y \in S
    PROVE  In(x, Append(s, y)) <=> In(x, s) \/ x = y
<1>1. DOMAIN Append(s, y) = 1..(Len(s) + 1) /\ DOMAIN s = 1..Len(s) /\ Len(s) \in Nat
  OBVIOUS
<1>2. Append(s, y)[Len(s) + 1] = y /\ \A i \in 1..Len(s) : Append(s, y)[i] = s[i]
  OBVIOUS
<1> QED BY <1>1, <1>2 DEF In

(* Appending keeps what the channel holds.                                 *)
LEMMA InGrows ==
    ASSUME NEW S, NEW s \in Seq(S), NEW y \in S, NEW t, t = s \/ t = Append(s, y)
    PROVE  \A x : In(x, s) => In(x, t)
<1> SUFFICES ASSUME NEW x, In(x, s) PROVE In(x, t)
  OBVIOUS
<1>1. CASE t = s
  BY <1>1
<1>2. CASE t = Append(s, y)
  BY <1>2, InAppend
<1> QED BY <1>1, <1>2

(* What a channel holds is its first event or is left after it.            *)
LEMMA InTail ==
    ASSUME NEW S, NEW s \in Seq(S), NEW x, s # <<>>
    PROVE  In(x, s) <=> x = Head(s) \/ In(x, Tail(s))
<1>1. DOMAIN s = 1..Len(s) /\ DOMAIN Tail(s) = 1..(Len(s) - 1) /\ Len(s) \in Nat \ {0}
  OBVIOUS
<1>2. Head(s) = s[1] /\ \A i \in 1..(Len(s) - 1) : Tail(s)[i] = s[i + 1]
  OBVIOUS
<1>3. ASSUME In(x, s) PROVE x = Head(s) \/ In(x, Tail(s))
  <2>1. PICK i \in 1..Len(s) : s[i] = x
    BY <1>1, <1>3 DEF In
  <2>2. CASE i = 1
    BY <1>2, <2>1, <2>2
  <2>3. CASE i # 1
    <3>1. i - 1 \in 1..(Len(s) - 1) /\ Tail(s)[i - 1] = x
      BY <1>1, <1>2, <2>1, <2>3
    <3> QED BY <3>1, <1>1 DEF In
  <2> QED BY <2>2, <2>3
<1>4. ASSUME x = Head(s) PROVE In(x, s)
  BY <1>1, <1>2, <1>4 DEF In
<1>5. ASSUME In(x, Tail(s)) PROVE In(x, s)
  <2>1. PICK i \in 1..(Len(s) - 1) : Tail(s)[i] = x
    BY <1>1, <1>5 DEF In
  <2>2. i + 1 \in 1..Len(s) /\ s[i + 1] = x
    BY <1>1, <1>2, <2>1
  <2> QED BY <2>2, <1>1 DEF In
<1> QED BY <1>3, <1>4, <1>5

(* Types of the operators.                                                 *)
LEMMA ConstantTypes ==
    /\ \A g : Type(g) \in Types
    /\ \A c \in Connectors : Target[c] \in Configurations
    /\ \A g \in Configurations : Code[g] \in Codes
    /\ Listener \in Tasks /\ Connectors \subseteq Tasks
  BY DEF Type, Types, Configurations, Codes, Listener, Tasks

(* The listener that waits for an event is of its type.                    *)
LEMMA IdleType ==
    \A t \in Tasks : Idle(t) \in [pc : {"none", "connector", "configuration", "lock"},
                                  connector : Tasks, end : Ends]
  BY ConfigurationsAssumption DEF Idle

-----------------------------------------------------------------------------
(* The invariant holds when the bridge account has been subscribed.        *)
LEMMA ConfInit == Init => ConfInv
<1> SUFFICES ASSUME Init PROVE ConfInv
  OBVIOUS
<1> USE ConfigurationsAssumption, ConstantTypes
<1>1. TypeOK
  <2>1. /\ connector \in [Connectors -> Stages] /\ deployed \subseteq Configurations
        /\ end \in [Configurations -> Ends]
        /\ utime \in 1..MaxTime /\ sets \in 0..MaxSets
        /\ bridgeEvents \in Seq(Connectors) /\ connectorEvents \in Seq(Connectors)
        /\ endEvents \in [Types -> Seq([account : Configurations, end : Ends])]
    BY DEF Init
  <2>2. startup \in [pc : {"lock", "apply", "done"}, id : 1..(MaxConnectors + 1),
                    connector : [Connectors -> Stages], deployed : SUBSET Configurations,
                    end : [Configurations -> Ends]]
    BY DEF Init, NotLoaded, Stages
  <2>3. /\ connectors \subseteq Connectors
        /\ DOMAIN configurations \subseteq Configurations
        /\ configurations \in [DOMAIN configurations -> Ends]
        /\ DOMAIN hashes \subseteq Codes /\ hashes \in [DOMAIN hashes -> Types]
        /\ total \in [Types -> Nat]
    BY DEF Init, EmptyMap
  <2>4. task \in [Tasks -> [pc : {"none", "connector", "configuration", "lock"},
                           connector : Tasks, end : Ends]]
    BY IdleType DEF Init
  <2>5. /\ gc \in [pc : {"sleep", "wait", "remove"}, utime : 0..MaxTime]
        /\ missed \subseteq Connectors
        /\ stale \subseteq Configurations /\ past \subseteq Configurations
    BY DEF Init
  <2> QED BY <2>1, <2>2, <2>3, <2>4, <2>5 DEF TypeOK
<1>2. TaskInv
  BY DEF Init, TaskInv, Idle, Tasks
<1>3. CountInv
  <2>1. DOMAIN configurations = {} /\ \A t \in Types : OfType(t) = {}
    BY DEF Init, EmptyMap, OfType
  <2> QED BY <2>1, FS_EmptySet DEF CountInv, CountersExact, Init
<1>4. QueueTyped /\ EndsFollow /\ TimeInv
  BY DEF Init, QueueTyped, EndsFollow, TimeInv, EmptyMap
<1>5. Watched /\ Announced
  BY DEF Init, Watched, Announced, StartupPassed, NotLoaded
<1> QED BY <1>1, <1>2, <1>3, <1>4, <1>5 DEF ConfInv

-----------------------------------------------------------------------------
(* EndsFollow, for one configuration.                                      *)
Follows(g) ==
    IF Queued(g)
    THEN \E i \in DOMAIN endEvents[Type(g)] :
            LastQueued(g, i) /\ endEvents[Type(g)][i].end = end[g]
    ELSE configurations[g] = end[g]

(* A configuration follows its contract while neither they nor the channel *)
(* change.                                                                 *)
LEMMA FollowsKept ==
    ASSUME NEW g, UNCHANGED <<end, endEvents>>, configurations'[g] = configurations[g], Follows(g)
    PROVE  Follows(g)'
  BY DEF Follows, Queued, LastQueued

(* So all of them do.                                                      *)
LEMMA EndsFollowKept ==
    ASSUME EndsFollow, UNCHANGED <<end, endEvents>>,
           \A g \in DOMAIN configurations' \ stale' :
              g \in DOMAIN configurations \ stale /\ configurations'[g] = configurations[g]
    PROVE  EndsFollow'
<1>1. \A g \in DOMAIN configurations' \ stale' : Follows(g)
  BY DEF EndsFollow, Follows
<1>2. \A g \in DOMAIN configurations' \ stale' : Follows(g)'
  BY <1>1, FollowsKept
<1> QED BY <1>2 DEF EndsFollow, Follows

(* What a step may do to the configurations without unsettling anything.   *)
Grows ==
    /\ DOMAIN configurations \subseteq DOMAIN configurations' \cup past' \cup stale'
    /\ stale \subseteq stale' \cup DOMAIN configurations'
    /\ past \subseteq past' /\ missed \subseteq missed'
    /\ \A g \in Configurations : CodeClash(g) => CodeClash(g)'

(* A step that only adds configurations and clashes keeps what is settled. *)
LEMMA SettledKept ==
    ASSUME Grows, NEW c \in Connectors, Settled(c) PROVE Settled(c)'
  BY ConstantTypes DEF Grows, Settled

(* A step that leaves the configurations alone is one of them.             *)
LEMMA NothingAdded ==
    ASSUME UNCHANGED <<configurations, hashes, stale>>, past \subseteq past', missed \subseteq missed'
    PROVE  Grows
  BY DEF Grows, CodeClash

(* process_event_configuration keeps the counters and the ends; whatever   *)
(* it does, there is nothing more to do for the configuration.             *)
LEMMA ConfigurationProcessed ==
    ASSUME ConfInv, NEW g \in Configurations, NEW e \in Ends,
           process_event_configuration(g, e),
           UNCHANGED <<end, utime, endEvents, past>>, missed \subseteq missed'
    PROVE  /\ DOMAIN configurations' \subseteq Configurations
           /\ configurations' \in [DOMAIN configurations' -> Ends]
           /\ DOMAIN hashes' \subseteq Codes /\ hashes' \in [DOMAIN hashes' -> Types]
           /\ total' \in [Types -> Nat] /\ stale' \subseteq Configurations
           /\ CountInv' /\ EndsFollow' /\ Grows
           /\ \A c \in Connectors : Target[c] = g => Settled(c)'
<1> USE ConfigurationsAssumption, ConstantTypes DEF ConfInv, TypeOK
<1>1. CASE Rejects(g, e)
  <2>1. UNCHANGED <<configurations, hashes, total>> /\ stale \subseteq stale' /\ stale' \subseteq Configurations
    BY <1>1 DEF process_event_configuration
  <2>2. CountInv'
    BY <2>1 DEF CountInv, CountersExact, OfType
  <2>3. EndsFollow'
    BY <2>1, EndsFollowKept
  <2>4. Grows
    BY <2>1 DEF Grows, CodeClash
  <2>5. g \in Refused \/ CodeClash(g)' \/ g \in past' \/ g \in stale'
    <3>1. CASE g \in Ton /\ is_expired(e, utime) /\ e = end[g]
      BY <3>1 DEF TimeInv
    <3>2. CASE e # end[g]
      BY <1>1, <3>2 DEF process_event_configuration
    <3> QED BY <1>1, <2>1, <3>1, <3>2 DEF Rejects, CodeClash
  <2> QED BY <2>1, <2>2, <2>3, <2>4, <2>5 DEF Settled
<1>2. CASE ~Rejects(g, e) /\ g \in DOMAIN configurations
  <2>1. /\ UNCHANGED <<configurations, total, stale>> /\ hashes' = Put(hashes, Code[g], Type(g))
        /\ ~CodeClash(g)
    BY <1>2 DEF process_event_configuration, AddConfiguration, Rejects
  <2>2. DOMAIN hashes' \subseteq Codes /\ hashes' \in [DOMAIN hashes' -> Types]
    BY <2>1 DEF Put
  <2>3. CountInv' /\ EndsFollow'
    BY <2>1, EndsFollowKept DEF CountInv, CountersExact, OfType
  <2>4. \A h \in Configurations : CodeClash(h) => CodeClash(h)'
    BY <2>1 DEF Put, CodeClash
  <2> QED BY <1>2, <2>1, <2>2, <2>3, <2>4 DEF Settled, Grows
<1>3. CASE ~Rejects(g, e) /\ g \notin DOMAIN configurations
  <2>1. /\ configurations' = Put(configurations, g, e)
        /\ hashes' = Put(hashes, Code[g], Type(g)) /\ ~CodeClash(g)
        /\ total' = [total EXCEPT ![Type(g)] = @ + 1]
        /\ stale' = IF e = end[g] /\ ~Queued(g) THEN stale \ {g} ELSE stale \cup {g}
    BY <1>3 DEF process_event_configuration, AddConfiguration, Rejects
  <2>2. /\ DOMAIN configurations' = DOMAIN configurations \cup {g}
        /\ configurations'[g] = e
        /\ \A h \in DOMAIN configurations : configurations'[h] = configurations[h]
        /\ configurations' \in [DOMAIN configurations' -> Ends]
    BY <1>3, <2>1 DEF Put
  <2>3. DOMAIN hashes' \subseteq Codes /\ hashes' \in [DOMAIN hashes' -> Types]
    BY <2>1 DEF Put
  <2>4. CountInv'
    <3>1. IsFiniteSet(DOMAIN configurations')
      <4>1. IsFiniteSet(DOMAIN configurations)
        BY DEF CountInv
      <4>2. IsFiniteSet(DOMAIN configurations \cup {g})
        BY <4>1, FS_AddElement, Zenon
      <4> QED BY <2>2, <4>2, Zenon
    <3>2. ASSUME NEW t \in Types PROVE total'[t] = Cardinality(OfType(t)')
      <4>1. IsFiniteSet(OfType(t))
        BY FS_Subset DEF OfType, CountInv
      <4>2. CASE t = Type(g)
        <5>1. OfType(t)' = OfType(t) \cup {g} /\ g \notin OfType(t)
          BY <1>3, <2>2, <4>2 DEF OfType
        <5>2. Cardinality(OfType(t)') = Cardinality(OfType(t)) + 1
          BY <4>1, <5>1, FS_AddElement
        <5> QED BY <2>1, <4>2, <5>2 DEF CountInv, CountersExact
      <4>3. CASE t # Type(g)
        <5>1. OfType(t)' = OfType(t)
          BY <2>2, <4>3 DEF OfType
        <5> QED BY <2>1, <4>3, <5>1 DEF CountInv, CountersExact
      <4> QED BY <4>2, <4>3
    <3> QED BY <3>1, <3>2 DEF CountInv, CountersExact
  <2>5. EndsFollow'
    <3>1. ASSUME NEW h \in DOMAIN configurations' \ stale', h # g PROVE Follows(h)'
      <4>1. h \in DOMAIN configurations \ stale /\ configurations'[h] = configurations[h]
        BY <2>1, <2>2, <3>1
      <4>2. Follows(h)
        BY <4>1 DEF EndsFollow, Follows
      <4> QED BY <4>1, <4>2, FollowsKept
    <3>2. ASSUME g \notin stale' PROVE Follows(g)'
      <4>1. e = end[g] /\ ~Queued(g)
        BY <2>1, <3>2
      <4> QED BY <2>2, <4>1 DEF Follows, Queued
    <3> QED BY <3>1, <3>2 DEF EndsFollow, Follows
  <2>6. \A h \in Configurations : CodeClash(h) => CodeClash(h)'
    BY <2>1 DEF Put, CodeClash
  <2> QED BY <2>1, <2>2, <2>3, <2>4, <2>5, <2>6 DEF Settled, Grows
<1> QED BY <1>1, <1>2, <1>3

-----------------------------------------------------------------------------
(* The chain.                                                              *)

(* A step that leaves the ends, the map, the counters and the clocks alone *)
(* keeps the invariants about them.                                        *)
LEMMA EndsUntouched ==
    ASSUME ConfInv, UNCHANGED <<end, utime, endEvents, configurations, total, stale, past>>,
           gc'.utime <= utime
    PROVE  CountInv' /\ QueueTyped' /\ EndsFollow' /\ TimeInv'
<1>1. CountInv' /\ QueueTyped' /\ TimeInv'
  BY DEF ConfInv, CountInv, CountersExact, OfType, QueueTyped, TimeInv
<1>2. EndsFollow'
  BY EndsFollowKept DEF ConfInv
<1> QED BY <1>1, <1>2

(* A step that adds events and leaves the rest of Watched alone.           *)
LEMMA WatchedKept ==
    ASSUME ConfInv, Grows, UNCHANGED <<connector, connectors, connectorEvents, task>>
    PROVE  Watched'
<1>1. connectors \subseteq Connectors
  BY DEF ConfInv, TypeOK
<1>2. \A c \in Connectors : Ahead(c) => Ahead(c)'
  BY DEF Ahead, In
<1> QED BY <1>1, <1>2, SettledKept DEF ConfInv, Watched

(* Steps of the contracts of connectors and configurations.                *)
LEMMA ConnectorSteps ==
    ASSUME ConfInv, NEW c \in Connectors,
           DeployConnector(c) \/ ConnectorAppears(c) \/ Enable(c)
    PROVE  ConfInv'
<1>1. UNCHANGED <<deployed, end, utime, sets, endEvents, startup, connectors, configurations, hashes,
                  total, task, gc, missed, stale, past>>
  BY DEF DeployConnector, ConnectorAppears, Enable, state, channels
<1>2. Grows
  BY <1>1, NothingAdded
<1>3. CountInv' /\ QueueTyped' /\ EndsFollow' /\ TimeInv'
  BY <1>1, EndsUntouched DEF ConfInv, TimeInv
<1>4. connector' \in [Connectors -> Stages]
  BY DEF DeployConnector, ConnectorAppears, Enable, ConfInv, TypeOK, Stages
<1>5. bridgeEvents' \in Seq(Connectors) /\ connectorEvents' \in Seq(Connectors)
  <2>1. bridgeEvents \in Seq(Connectors) /\ connectorEvents \in Seq(Connectors)
    BY DEF ConfInv, TypeOK
  <2>2. Append(bridgeEvents, c) \in Seq(Connectors) /\ Append(connectorEvents, c) \in Seq(Connectors)
    BY <2>1
  <2> QED BY <2>1, <2>2 DEF DeployConnector, ConnectorAppears, Enable, channels
<1>6. TypeOK'
  BY <1>1, <1>4, <1>5 DEF ConfInv, TypeOK
<1>7. TaskInv'
  BY <1>1 DEF ConfInv, TaskInv
<1>8. \A x : (In(x, bridgeEvents) => In(x, bridgeEvents)')
              /\ (In(x, connectorEvents) => In(x, connectorEvents)')
  <2>1. bridgeEvents \in Seq(Connectors) /\ connectorEvents \in Seq(Connectors)
    BY DEF ConfInv, TypeOK
  <2>2. bridgeEvents' = bridgeEvents \/ bridgeEvents' = Append(bridgeEvents, c)
    BY DEF DeployConnector, ConnectorAppears, Enable, channels
  <2>3. connectorEvents' = connectorEvents \/ connectorEvents' = Append(connectorEvents, c)
    BY DEF DeployConnector, ConnectorAppears, Enable, channels
  <2>4. \A x : In(x, bridgeEvents) => In(x, bridgeEvents')
    BY <2>1, <2>2, InGrows
  <2>5. \A x : In(x, connectorEvents) => In(x, connectorEvents')
    BY <2>1, <2>3, InGrows
  <2>6. \A x : (In(x, bridgeEvents)' <=> In(x, bridgeEvents'))
                /\ (In(x, connectorEvents)' <=> In(x, connectorEvents'))
    BY DEF In
  <2> QED BY <2>4, <2>5, <2>6
<1>9. \A d \in Connectors : d # c => connector'[d] = connector[d]
  BY DEF DeployConnector, ConnectorAppears, Enable, ConfInv, TypeOK
<1>10. \A d \in Connectors : Ahead(d) => Ahead(d)'
  BY <1>1, <1>8 DEF Ahead
<1>11. Watched'
  <2>1. ASSUME NEW d \in connectors, connector'[d] = "enabled" PROVE Settled(d)' \/ Ahead(d)'
    <3>1. d \in Connectors
      BY DEF ConfInv, TypeOK
    <3>2. CASE connector[d] = "enabled"
      BY <1>2, <1>10, <3>1, <3>2, SettledKept DEF ConfInv, Watched
    <3>3. CASE connector[d] # "enabled"
      <4>1. d = c /\ Enable(c)
        BY <1>9, <2>1, <3>1, <3>3 DEF DeployConnector, ConnectorAppears, ConfInv, TypeOK
      <4>2. connectorEvents' = Append(connectorEvents, c)
        BY <2>1, <4>1 DEF Enable
      <4>3. In(d, connectorEvents')
        BY <4>1, <4>2, InAppend DEF ConfInv, TypeOK
      <4> QED BY <4>3 DEF Ahead, In
    <3> QED BY <3>2, <3>3
  <2> QED BY <1>1, <2>1 DEF Watched
<1>12. Announced'
  <2>1. ASSUME NEW d \in Connectors \ connectors, connector'[d] # "absent", connector[d] = "absent"
        PROVE  In(d, bridgeEvents)'
    <3>1. d = c /\ bridgeEvents' = Append(bridgeEvents, c)
      BY <1>9, <2>1 DEF DeployConnector, ConnectorAppears, Enable
    <3>2. In(d, bridgeEvents')
      BY <3>1, InAppend DEF ConfInv, TypeOK
    <3> QED BY <3>2 DEF In
  <2>2. \A d \in Connectors : StartupPassed(d)' <=> StartupPassed(d)
    BY <1>1 DEF StartupPassed
  <2> QED BY <1>1, <1>8, <2>1, <2>2 DEF ConfInv, Announced
<1> QED BY <1>3, <1>6, <1>7, <1>11, <1>12 DEF ConfInv

(* Neither a configuration that appears nor a second that passes.          *)
LEMMA QuietSteps ==
    ASSUME ConfInv, Tick \/ \E g \in Configurations : DeployConfiguration(g)
    PROVE  ConfInv'
<1>1. UNCHANGED <<connector, end, sets, channels, startup, state, task, gc, missed, stale>>
  BY DEF Tick, DeployConfiguration
<1>2. past \subseteq past' /\ past' \subseteq Configurations /\ utime' \in 1..MaxTime /\ utime' >= utime
  BY ConfigurationsAssumption DEF Tick, DeployConfiguration, PastOf, ConfInv, TypeOK
<1>3. deployed' \subseteq Configurations
  BY DEF Tick, DeployConfiguration, ConfInv, TypeOK
<1>4. TypeOK'
  BY <1>1, <1>2, <1>3 DEF ConfInv, TypeOK, channels, state
<1>5. TimeInv'
  <2>1. CASE Tick
    BY <1>1, <1>2, <2>1, ConfigurationsAssumption DEF Tick, PastOf, TimeInv, ConfInv, TypeOK
  <2>2. CASE ~Tick
    BY <1>1, <2>2 DEF DeployConfiguration, TimeInv, ConfInv
  <2> QED BY <2>1, <2>2
<1>6. TaskInv' /\ CountInv' /\ QueueTyped'
  BY <1>1 DEF ConfInv, TaskInv, CountInv, CountersExact, OfType, QueueTyped, channels, state
<1>7. EndsFollow'
  BY <1>1, EndsFollowKept DEF ConfInv, channels, state
<1>8. Grows
  BY <1>1, <1>2, NothingAdded DEF state
<1>9. Watched'
  BY <1>1, <1>8, WatchedKept DEF channels, state
<1>10. Announced'
  BY <1>1 DEF ConfInv, Announced, StartupPassed, In, channels, state
<1> QED BY <1>4, <1>5, <1>6, <1>7, <1>9, <1>10 DEF ConfInv

(* A change of an end is queued for a known configuration, behind all      *)
(* earlier changes.                                                        *)
LEMMA SetEndStep ==
    ASSUME ConfInv, NEW g \in Configurations, NEW e \in Ends, SetEnd(g, e)
    PROVE  ConfInv'
<1> DEFINE T == Type(g)
           R == [account : Configurations, end : Ends]
           ev == [account |-> g, end |-> e]
<1> USE ConfigurationsAssumption, ConstantTypes
<1>1. UNCHANGED <<connector, deployed, utime, bridgeEvents, connectorEvents, startup,
                  state, task, gc, missed>>
  BY DEF SetEnd
<1>2. end' \in [Configurations -> Ends] /\ end'[g] = e
      /\ \A h \in Configurations : h # g => end'[h] = end[h]
  BY DEF SetEnd, ConfInv, TypeOK
<1>3. past \subseteq past' /\ past' \subseteq Configurations
      /\ \A h \in Ton : is_expired(end'[h], utime) => h \in past'
  BY DEF SetEnd, PastOf, ConfInv, TypeOK
<1>4. ev \in R /\ endEvents \in [Types -> Seq(R)] /\ T \in Types /\ ev.account = g /\ ev.end = e
  BY DEF ConfInv, TypeOK
<1>0. sets' \in 0..MaxSets
  <2>1. sets \in 0..MaxSets
    BY DEF ConfInv, TypeOK
  <2>2. sets < MaxSets /\ sets' = sets + 1
    BY DEF SetEnd
  <2> QED BY <2>1, <2>2
<1>5. CASE g \notin DOMAIN configurations
  <2>1. UNCHANGED <<endEvents, stale>>
    BY <1>5 DEF SetEnd
  <2>2. TypeOK'
    BY <1>0, <1>1, <1>2, <1>3, <2>1 DEF ConfInv, TypeOK, state
  <2>3. TaskInv' /\ CountInv' /\ QueueTyped' /\ TimeInv'
    BY <1>1, <1>3, <2>1
       DEF ConfInv, TaskInv, CountInv, CountersExact, OfType, QueueTyped, TimeInv, state
  <2>4. EndsFollow'
    <3>1. ASSUME NEW h \in DOMAIN configurations \ stale PROVE Follows(h)'
      <4>1. Follows(h)
        BY DEF ConfInv, EndsFollow, Follows
      <4>2. end'[h] = end[h]
        BY <1>2, <1>5 DEF ConfInv, TypeOK
      <4> QED BY <1>1, <2>1, <4>1, <4>2 DEF Follows, Queued, LastQueued, state
    <3> QED BY <1>1, <2>1, <3>1 DEF EndsFollow, Follows, state
  <2>5. Grows
    BY <1>1, <1>3, <2>1, NothingAdded DEF state
  <2>6. Watched'
    BY <1>1, <2>5, WatchedKept DEF state
  <2>7. Announced'
    BY <1>1 DEF ConfInv, Announced, StartupPassed, In, state
  <2> QED BY <2>2, <2>3, <2>4, <2>6, <2>7 DEF ConfInv
<1>6. CASE g \in DOMAIN configurations
  <2> DEFINE q == endEvents[T]
  <2>1. /\ endEvents' = [endEvents EXCEPT ![T] = Append(q, ev)] /\ stale' = stale \ {g}
    BY <1>6 DEF SetEnd
  <2> HIDE DEF T, R, ev
  <2>2. q \in Seq(R) /\ Len(q) \in Nat /\ DOMAIN q = 1..Len(q)
    <3>1. q \in Seq(R)
      BY <1>4
    <3> QED BY <1>4, <3>1, AppendFacts
  <2>3. /\ Append(q, ev) \in Seq(R) /\ DOMAIN Append(q, ev) = 1..(Len(q) + 1)
        /\ Append(q, ev)[Len(q) + 1] = ev
        /\ \A i \in 1..Len(q) : Append(q, ev)[i] = q[i]
    BY <1>4, <2>2, AppendFacts
  <2>4. /\ endEvents' \in [Types -> Seq(R)] /\ endEvents'[T] = Append(q, ev)
        /\ \A t \in Types : t # T => endEvents'[t] = endEvents[t]
    BY <1>4, <2>1, <2>3
  <2> HIDE DEF q
  <2>5. TypeOK'
    <3>1. endEvents' \in [Types -> Seq([account : Configurations, end : Ends])]
      BY <2>4 DEF R
    <3> QED BY <1>0, <1>1, <1>2, <1>3, <2>1, <3>1 DEF ConfInv, TypeOK, state
  <2>6. TaskInv' /\ CountInv' /\ TimeInv'
    BY <1>1, <1>3 DEF ConfInv, TaskInv, CountInv, CountersExact, OfType, TimeInv, state
  <2>7. QueueTyped'
    <3>1. ASSUME NEW i \in 1..(Len(q) + 1) PROVE Type(Append(q, ev)[i].account) = T
      <4>1. CASE i = Len(q) + 1
        BY <1>4, <2>3, <4>1 DEF T
      <4>2. CASE i \in 1..Len(q)
        BY <1>4, <2>2, <2>3, <4>2 DEF ConfInv, QueueTyped, q
      <4> QED BY <2>2, <4>1, <4>2
    <3> QED BY <2>3, <2>4, <3>1 DEF ConfInv, QueueTyped
  <2>8. EndsFollow'
    <3>1. Follows(g)'
      <4>0. PICK n \in Nat : n = Len(q)
        BY <2>2
      <4>1. n + 1 \in DOMAIN endEvents'[T] /\ endEvents'[T][n + 1] = ev
        BY <2>2, <2>3, <2>4, <4>0
      <4>2. LastQueued(g, n + 1)'
        BY <1>4, <4>0, <2>2, <2>3, <2>4, <4>1 DEF LastQueued, T
      <4>3. Queued(g)'
        BY <1>4, <4>1 DEF Queued, T
      <4> QED BY <1>2, <1>4, <4>1, <4>2, <4>3 DEF Follows, T
    <3>2. ASSUME NEW h \in DOMAIN configurations \ stale, h # g PROVE Follows(h)'
      <4>1. Follows(h) /\ h \in Configurations
        BY DEF ConfInv, EndsFollow, Follows, TypeOK
      <4>2. end'[h] = end[h] /\ configurations' = configurations
        BY <1>1, <1>2, <3>2, <4>1 DEF state
      <4>3. CASE Type(h) # T
        BY <2>4, <4>1, <4>2, <4>3 DEF Follows, Queued, LastQueued
      <4>4. CASE Type(h) = T
        <5>0. /\ endEvents'[Type(h)] = Append(q, ev) /\ endEvents[Type(h)] = q
              /\ \A i \in 1..(Len(q) + 1) : Append(q, ev)[i].account = h =>
                    i \in 1..Len(q) /\ q[i].account = h
          <6>1. endEvents'[Type(h)] = Append(q, ev) /\ endEvents[Type(h)] = q
            BY <2>4, <4>4 DEF q
          <6>2. ASSUME NEW i \in 1..(Len(q) + 1), Append(q, ev)[i].account = h
                PROVE  i \in 1..Len(q) /\ q[i].account = h
            <7>1. i # Len(q) + 1
              BY <1>4, <2>3, <3>2, <6>2
            <7> QED BY <2>2, <2>3, <6>2, <7>1
          <6> QED BY <6>1, <6>2
        <5>1. Queued(h)' <=> Queued(h)
          <6>1. Queued(h) <=> \E i \in 1..Len(q) : q[i].account = h
            BY <2>2, <5>0 DEF Queued
          <6>2. Queued(h)' <=> \E i \in 1..(Len(q) + 1) : Append(q, ev)[i].account = h
            BY <2>3, <5>0 DEF Queued
          <6> QED BY <2>2, <2>3, <5>0, <6>1, <6>2
        <5>2. ASSUME NEW i \in 1..Len(q), LastQueued(h, i) PROVE LastQueued(h, i)'
          <6>1. q[i].account = h /\ \A k \in 1..Len(q) : k > i => q[k].account # h
            BY <2>2, <5>0, <5>2 DEF LastQueued
          <6>2. \A k \in 1..(Len(q) + 1) : k > i => Append(q, ev)[k].account # h
            BY <5>0, <6>1
          <6> QED BY <2>2, <2>3, <5>0, <6>1, <6>2 DEF LastQueued
        <5>3. CASE ~Queued(h)
          BY <4>1, <4>2, <5>1, <5>3 DEF Follows
        <5>4. CASE Queued(h)
          <6>1. PICK i \in 1..Len(q) : LastQueued(h, i) /\ q[i].end = end[h]
            BY <2>2, <4>1, <4>4, <5>4 DEF Follows, q
          <6>2. i \in DOMAIN endEvents'[T] /\ endEvents'[T][i] = q[i]
            BY <2>2, <2>3, <2>4
          <6> QED BY <4>2, <4>4, <5>1, <5>2, <5>4, <6>1, <6>2 DEF Follows
        <5> QED BY <5>3, <5>4
      <4> QED BY <4>3, <4>4
    <3> QED BY <1>1, <2>1, <3>1, <3>2 DEF EndsFollow, Follows, state
  <2>9. Grows
    BY <1>1, <1>3, <1>6, <2>1 DEF Grows, CodeClash, state
  <2>10. Watched'
    BY <1>1, <2>9, WatchedKept DEF state
  <2>11. Announced'
    BY <1>1 DEF ConfInv, Announced, StartupPassed, In, state
  <2> QED BY <2>5, <2>6, <2>7, <2>8, <2>10, <2>11 DEF ConfInv
<1> QED BY <1>5, <1>6

-----------------------------------------------------------------------------
(* The startup.                                                            *)
LEMMA StartupBoundaries ==
    ASSUME ConfInv, StartupLoad \/ StartupDone PROVE ConfInv'
<1>1. UNCHANGED <<chain, channels, state, task, gc, missed, stale, past>>
  BY DEF StartupLoad, StartupDone
<1>2. TypeOK'
  <2>1. startup' \in [pc : {"lock", "apply", "done"}, id : 1..(MaxConnectors + 1),
                      connector : [Connectors -> Stages], deployed : SUBSET Configurations,
                      end : [Configurations -> Ends]]
    <3>1. CASE StartupLoad
      BY <3>1, ConfigurationsAssumption DEF StartupLoad, ConfInv, TypeOK
    <3>2. CASE StartupDone
      BY <3>2, ConfigurationsAssumption DEF StartupDone, NotLoaded, Stages
    <3> QED BY <3>1, <3>2
  <2> QED BY <1>1, <2>1 DEF ConfInv, TypeOK, chain, channels, state
<1>3. TaskInv' /\ CountInv' /\ QueueTyped' /\ EndsFollow' /\ TimeInv'
  <2>1. CountInv' /\ QueueTyped' /\ EndsFollow' /\ TimeInv'
    BY <1>1, EndsUntouched DEF ConfInv, TimeInv, chain, channels, state
  <2> QED BY <1>1, <2>1 DEF ConfInv, TaskInv
<1>4. Watched'
  BY <1>1, NothingAdded, WatchedKept DEF chain, channels, state
<1>5. Announced'
  <2>1. CASE StartupLoad
    BY <1>1, <2>1, ConfigurationsAssumption
       DEF StartupLoad, Announced, StartupPassed, Connectors, chain
  <2>2. CASE StartupDone
    <3>1. \A c \in Connectors : StartupPassed(c)
      BY <2>2, ConfigurationsAssumption DEF StartupDone, StartupPassed, Connectors, ConfInv, TypeOK
    <3> QED BY <1>1, <2>2, <3>1
       DEF StartupDone, NotLoaded, ConfInv, Announced, In, chain, channels, state
  <2> QED BY <2>1, <2>2
<1> QED BY <1>2, <1>3, <1>4, <1>5 DEF ConfInv

(* One round of the loop: the connector is watched or will be announced,   *)
(* or it is left behind.                                                   *)
LEMMA StartupConnectorStep ==
    ASSUME ConfInv, NEW c \in Connectors, StartupConnector(c) PROVE ConfInv'
<1> DEFINE g == Target[c]
           reads == startup.connector[c] = "enabled" /\ g \in startup.deployed
<1>1. /\ UNCHANGED <<chain, channels, task, gc, past>>
      /\ startup.pc = "apply" /\ startup.id = c /\ startup' = [startup EXCEPT !.id = c + 1]
      /\ connectors' = IF Exists(startup.connector[c]) THEN connectors \cup {c} ELSE connectors
      /\ missed' = IF LeftBehind(c) THEN missed \cup {c} ELSE missed
  BY DEF StartupConnector
<1>2. missed \subseteq missed' /\ missed' \subseteq Connectors /\ connectors' \subseteq Connectors
  BY <1>1 DEF ConfInv, TypeOK
<1>3. /\ startup' \in [pc : {"lock", "apply", "done"}, id : 1..(MaxConnectors + 1),
                       connector : [Connectors -> Stages], deployed : SUBSET Configurations,
                       end : [Configurations -> Ends]]
      /\ startup'.pc = "apply" /\ startup'.id = c + 1 /\ startup'.connector = startup.connector
  <2>1. startup \in [pc : {"lock", "apply", "done"}, id : 1..(MaxConnectors + 1),
                     connector : [Connectors -> Stages], deployed : SUBSET Configurations,
                     end : [Configurations -> Ends]]
    BY DEF ConfInv, TypeOK
  <2>2. c + 1 \in 1..(MaxConnectors + 1)
    BY ConfigurationsAssumption DEF Connectors
  <2> QED BY <1>1, <2>1, <2>2
<1>4. /\ DOMAIN configurations' \subseteq Configurations
      /\ configurations' \in [DOMAIN configurations' -> Ends]
      /\ DOMAIN hashes' \subseteq Codes /\ hashes' \in [DOMAIN hashes' -> Types]
      /\ total' \in [Types -> Nat] /\ stale' \subseteq Configurations
      /\ CountInv' /\ EndsFollow' /\ Grows
      /\ reads => Settled(c)'
  <2>1. CASE reads
    <3>1. process_event_configuration(g, startup.end[g])
      BY <2>1 DEF StartupConnector
    <3>2. g \in Configurations /\ startup.end[g] \in Ends
      BY ConstantTypes DEF ConfInv, TypeOK
    <3>3. UNCHANGED <<end, utime, endEvents, past>>
      BY <1>1 DEF chain, channels
    <3> HIDE DEF g, reads
    <3>4. \A x \in Ends : process_event_configuration(g, x) =>
             /\ DOMAIN configurations' \subseteq Configurations
             /\ configurations' \in [DOMAIN configurations' -> Ends]
             /\ DOMAIN hashes' \subseteq Codes /\ hashes' \in [DOMAIN hashes' -> Types]
             /\ total' \in [Types -> Nat] /\ stale' \subseteq Configurations
             /\ CountInv' /\ EndsFollow' /\ Grows
             /\ \A d \in Connectors : Target[d] = g => Settled(d)'
      BY <1>2, <3>2, <3>3, ConfigurationProcessed
    <3> QED BY <3>1, <3>2, <3>4 DEF g
  <2>2. CASE ~reads
    <3>1. UNCHANGED <<configurations, hashes, total, stale>>
      BY <2>2 DEF StartupConnector, NotAdded
    <3>2. Grows
      BY <1>1, <1>2, <3>1, NothingAdded
    <3>3. CountInv' /\ EndsFollow'
      BY <1>1, <3>1, EndsUntouched DEF chain, channels, ConfInv, TimeInv
    <3> QED BY <2>2, <3>1, <3>2, <3>3 DEF ConfInv, TypeOK
  <2> QED BY <2>1, <2>2
<1>5. TypeOK'
  BY <1>1, <1>2, <1>3, <1>4 DEF ConfInv, TypeOK, chain, channels
<1>6. TaskInv' /\ QueueTyped' /\ TimeInv'
  BY <1>1 DEF ConfInv, TaskInv, QueueTyped, TimeInv, chain, channels
<1>7. Watched'
  <2>1. ASSUME NEW d \in connectors', connector'[d] = "enabled" PROVE Settled(d)' \/ Ahead(d)'
    <3>1. d \in Connectors /\ connector[d] = "enabled"
      BY <1>1, <1>2, <2>1 DEF chain
    <3>2. CASE d \in connectors
      <4>1. Settled(d) \/ Ahead(d)
        BY <3>1, <3>2 DEF ConfInv, Watched
      <4>2. Ahead(d) => Ahead(d)'
        BY <1>1 DEF Ahead, In, channels
      <4> QED BY <1>4, <3>1, <4>1, <4>2, SettledKept
    <3>3. CASE d \notin connectors
      <4>1. d = c /\ Exists(startup.connector[c])
        BY <1>1, <3>3
      <4>2. CASE reads
        BY <1>4, <4>1, <4>2
      <4>3. CASE ~reads
        <5>1. LeftBehind(c)
          BY <3>1, <3>3, <4>1, <4>3 DEF LeftBehind, Exists
        <5> QED BY <1>1, <4>1, <5>1 DEF Settled
      <4> QED BY <4>2, <4>3
    <3> QED BY <3>2, <3>3
  <2> QED BY <2>1 DEF Watched
<1>8. Announced'
  <2>1. ASSUME NEW d \in Connectors \ connectors', connector'[d] # "absent"
        PROVE  /\ StartupPassed(d)' => d \in missed' \/ In(d, bridgeEvents)'
               /\ startup'.pc = "apply" /\ startup'.connector[d] = "absent" => In(d, bridgeEvents)'
    <3>1. d \notin connectors /\ connector[d] # "absent"
      BY <1>1, <2>1 DEF chain
    <3>2. In(d, bridgeEvents)' <=> In(d, bridgeEvents)
      BY <1>1 DEF In, channels
    <3>3. startup.connector[d] = "absent" => In(d, bridgeEvents)
      BY <1>1, <3>1 DEF ConfInv, Announced
    <3>4. CASE d # c
      <4>1. StartupPassed(d)' => StartupPassed(d)
        BY <1>1, <1>3, <3>4 DEF StartupPassed, Connectors
      <4> QED BY <1>2, <1>3, <3>1, <3>2, <3>3, <4>1 DEF ConfInv, Announced
    <3>5. CASE d = c
      <4>1. startup.connector[c] \in {"absent", "announced"}
        BY <1>1, <2>1, <3>5 DEF Exists, ConfInv, TypeOK, Stages
      <4>2. startup.connector[c] = "announced" => LeftBehind(c) \/ In(c, bridgeEvents)
        BY <3>1, <3>5 DEF LeftBehind, In
      <4> QED BY <1>1, <1>3, <3>2, <3>3, <3>5, <4>1, <4>2
    <3> QED BY <3>4, <3>5
  <2> QED BY <2>1 DEF Announced
<1> QED BY <1>4, <1>5, <1>6, <1>7, <1>8 DEF ConfInv

(* A connector whose details cannot be read is left behind, or announced.  *)
LEMMA StartupSkipsStep ==
    ASSUME ConfInv, NEW c \in Connectors, StartupSkips(c) PROVE ConfInv'
<1>1. /\ UNCHANGED <<chain, channels, state, task, gc, stale, past>>
      /\ startup.pc = "apply" /\ startup.id = c /\ startup' = [startup EXCEPT !.id = c + 1]
  BY DEF StartupSkips
<1>2. /\ missed \subseteq missed' /\ missed' \subseteq Connectors
      /\ c \in connectors \/ c \in missed' \/ In(c, bridgeEvents)
  BY DEF StartupSkips, In, ConfInv, TypeOK
<1>3. /\ startup' \in [pc : {"lock", "apply", "done"}, id : 1..(MaxConnectors + 1),
                       connector : [Connectors -> Stages], deployed : SUBSET Configurations,
                       end : [Configurations -> Ends]]
      /\ startup'.pc = "apply" /\ startup'.id = c + 1 /\ startup'.connector = startup.connector
  <2>1. startup \in [pc : {"lock", "apply", "done"}, id : 1..(MaxConnectors + 1),
                     connector : [Connectors -> Stages], deployed : SUBSET Configurations,
                     end : [Configurations -> Ends]]
    BY DEF ConfInv, TypeOK
  <2>2. c + 1 \in 1..(MaxConnectors + 1)
    BY ConfigurationsAssumption DEF Connectors
  <2> QED BY <1>1, <2>1, <2>2
<1>4. TypeOK'
  BY <1>1, <1>2, <1>3 DEF ConfInv, TypeOK, chain, channels, state
<1>5. CountInv' /\ QueueTyped' /\ EndsFollow' /\ TimeInv'
  BY <1>1, EndsUntouched DEF ConfInv, TimeInv, chain, channels, state
<1>6. TaskInv'
  BY <1>1 DEF ConfInv, TaskInv
<1>7. Watched'
  BY <1>1, <1>2, NothingAdded, WatchedKept DEF chain, channels, state
<1>8. Announced'
  <2>1. ASSUME NEW d \in Connectors \ connectors, connector[d] # "absent"
        PROVE  /\ StartupPassed(d)' => d \in missed' \/ In(d, bridgeEvents)
               /\ startup.connector[d] = "absent" => In(d, bridgeEvents)
    <3>1. CASE d = c
      BY <1>1, <1>2, <2>1, <3>1 DEF ConfInv, Announced
    <3>2. CASE d # c
      <4>1. StartupPassed(d)' => StartupPassed(d)
        BY <1>1, <1>3, <3>2 DEF StartupPassed, Connectors
      <4> QED BY <1>1, <1>2, <2>1, <4>1 DEF ConfInv, Announced
    <3> QED BY <3>1, <3>2
  <2>2. \A d : In(d, bridgeEvents)' <=> In(d, bridgeEvents)
    BY <1>1 DEF In, channels
  <2> QED BY <1>1, <1>3, <2>1, <2>2 DEF Announced, chain, state
<1> QED BY <1>4, <1>5, <1>6, <1>7, <1>8 DEF ConfInv

-----------------------------------------------------------------------------
(* The listeners and the checks of connectors.                             *)

(* What a step on the tasks has to show, if it touches no configuration.   *)
LEMMA TaskStep ==
    ASSUME ConfInv, UNCHANGED <<connector, deployed, end, utime, sets, endEvents, startup,
                                configurations, hashes, total, gc, missed, stale, past>>,
           connectors' \subseteq Connectors,
           bridgeEvents' \in Seq(Connectors), connectorEvents' \in Seq(Connectors),
           task' \in [Tasks -> TaskRecord], TaskInv', Announced',
           \A c \in connectors : connector[c] = "enabled" /\ Ahead(c) => Ahead(c)',
           \A c \in connectors' \ connectors : Ahead(c)'
    PROVE  ConfInv'
<1>1. TypeOK'
  BY DEF ConfInv, TypeOK, TaskRecord
<1>2. CountInv' /\ QueueTyped' /\ EndsFollow' /\ TimeInv'
  BY EndsUntouched DEF ConfInv, TimeInv
<1>3. Watched'
  <2>1. Grows
    BY NothingAdded
  <2>2. ASSUME NEW c \in connectors', connector[c] = "enabled", c \in connectors
        PROVE  Settled(c)' \/ Ahead(c)'
    BY <2>1, <2>2, SettledKept DEF ConfInv, Watched
  <2> QED BY <2>2 DEF Watched
<1> QED BY <1>1, <1>2, <1>3 DEF ConfInv

(* process_bridge_event puts the connector into the map and checks it.     *)
LEMMA BridgeEventStep ==
    ASSUME ConfInv, NEW c \in Connectors, process_bridge_event(c) PROVE ConfInv'
<1>1. /\ UNCHANGED <<chain, connectorEvents, endEvents, startup, configurations, hashes,
                     total, gc, missed, stale, past>>
      /\ bridgeEvents # <<>> /\ Head(bridgeEvents) = c /\ bridgeEvents' = Tail(bridgeEvents)
      /\ startup.pc # "apply"
  BY DEF process_bridge_event, Unlocked
<1>2. bridgeEvents \in Seq(Connectors) /\ bridgeEvents' \in Seq(Connectors)
  BY <1>1 DEF ConfInv, TypeOK
<1>3. \/ c \in connectors /\ UNCHANGED <<connectors, task>>
      \/ /\ c \notin connectors /\ connectors' = connectors \cup {c}
         /\ task' = [task EXCEPT ![c].pc = "connector"]
  BY DEF process_bridge_event, InsertAndCheck
<1>4. /\ task' \in [Tasks -> TaskRecord]
      /\ \A t \in Tasks : /\ task'[t].connector = task[t].connector
                          /\ task'[t].pc = task[t].pc \/ (t = c /\ task'[t].pc = "connector")
      /\ c \notin connectors => task'[c].pc = "connector"
  <2>1. task \in [Tasks -> TaskRecord] /\ c \in Tasks
    BY ConstantTypes DEF ConfInv, TypeOK, TaskRecord
  <2>2. CASE c \in connectors /\ task' = task
    BY <2>1, <2>2
  <2>3. CASE task' = [task EXCEPT ![c].pc = "connector"]
    BY <2>1, <2>3 DEF TaskRecord
  <2> QED BY <1>3, <2>2, <2>3
<1>5. TaskInv'
  <2>1. ASSUME NEW t \in Tasks
        PROVE  /\ task'[t].pc # "none" => task'[t].connector \in Connectors
               /\ t \in Connectors => task'[t].connector = t
    <3>1. /\ task[t].pc # "none" => task[t].connector \in Connectors
          /\ t \in Connectors => task[t].connector = t
      BY DEF ConfInv, TaskInv
    <3>2. /\ task'[t].connector = task[t].connector
          /\ task'[t].pc = task[t].pc \/ (t = c /\ task'[t].pc = "connector")
      BY <1>4
    <3> QED BY <3>1, <3>2
  <2> QED BY <2>1 DEF TaskInv
<1>6. \A d \in Connectors : Ahead(d) => Ahead(d)'
  <2>1. ASSUME NEW t \in Tasks, task[t].pc # "none"
        PROVE  task'[t].pc # "none" /\ task'[t].connector = task[t].connector
    <3>1. /\ task'[t].connector = task[t].connector
          /\ task'[t].pc = task[t].pc \/ (t = c /\ task'[t].pc = "connector")
      BY <1>4
    <3> QED BY <2>1, <3>1
  <2>2. \A d : In(d, connectorEvents)' <=> In(d, connectorEvents)
    BY <1>1 DEF In
  <2> QED BY <2>1, <2>2 DEF Ahead
<1>7. ASSUME c \notin connectors PROVE Ahead(c)'
  <2>1. c \in Tasks /\ task'[c].pc = "connector"
    BY <1>4, <1>7, ConstantTypes
  <2>2. task'[c].connector = c
    BY <1>5, <2>1 DEF TaskInv
  <2> QED BY <2>1, <2>2 DEF Ahead
<1>8. Announced'
  <2>1. ASSUME NEW d \in Connectors \ connectors', connector[d] # "absent", StartupPassed(d)
        PROVE  d \in missed \/ In(d, bridgeEvents')
    <3>1. d # c /\ d \notin connectors
      BY <1>3, <2>1
    <3>2. d \in missed \/ In(d, bridgeEvents)
      BY <2>1, <3>1 DEF ConfInv, Announced
    <3> QED BY <1>1, <1>2, <3>1, <3>2, InTail
  <2>2. \A d : (In(d, bridgeEvents)' <=> In(d, bridgeEvents')) /\ (StartupPassed(d)' <=> StartupPassed(d))
    BY <1>1 DEF In, StartupPassed
  <2> QED BY <1>1, <2>1, <2>2 DEF Announced, chain
<1>9. connectors' \subseteq Connectors
  BY <1>3 DEF ConfInv, TypeOK
<1>10. connectors \subseteq Connectors /\ connectorEvents' \in Seq(Connectors)
  BY <1>1 DEF ConfInv, TypeOK
<1> QED
  BY <1>1, <1>2, <1>3, <1>4, <1>5, <1>6, <1>7, <1>8, <1>9, <1>10, TaskStep DEF chain

(* An announced connector stays announced while the channel loses nothing. *)
LEMMA AnnouncedKept ==
    ASSUME ConfInv, UNCHANGED <<connector, connectors, startup, bridgeEvents>>, missed \subseteq missed'
    PROVE  Announced'
  BY DEF ConfInv, Announced, StartupPassed, In

(* process_connector_event starts the check of an enabled connector.       *)
LEMMA ConnectorEventStep ==
    ASSUME ConfInv, process_connector_event PROVE ConfInv'
<1> DEFINE h == Head(connectorEvents)
           new == [pc |-> "connector", connector |-> h, end |-> 0]
<1>1. /\ UNCHANGED <<chain, bridgeEvents, endEvents, startup, state, gc, missed, stale, past>>
      /\ connectorEvents # <<>> /\ task[Listener].pc = "none"
      /\ connectorEvents' = Tail(connectorEvents)
      /\ task' = [task EXCEPT ![Listener] = new]
  BY DEF process_connector_event
<1>2. connectorEvents \in Seq(Connectors) /\ connectorEvents' \in Seq(Connectors) /\ h \in Connectors
  BY <1>1 DEF ConfInv, TypeOK
<1>3. new \in TaskRecord /\ new.pc = "connector" /\ new.connector = h
  BY <1>2, ConstantTypes, ConfigurationsAssumption DEF TaskRecord
<1> HIDE DEF new, h
<1>4. /\ task' \in [Tasks -> TaskRecord] /\ task'[Listener] = new
      /\ \A t \in Tasks : t # Listener => task'[t] = task[t]
  <2>1. task \in [Tasks -> TaskRecord] /\ Listener \in Tasks
    BY ConstantTypes DEF ConfInv, TypeOK, TaskRecord
  <2> QED BY <1>1, <1>3, <2>1
<1>5. TaskInv'
  <2>1. Listener \notin Connectors
    BY DEF Listener, Connectors
  <2> QED BY <1>2, <1>3, <1>4, <2>1 DEF ConfInv, TaskInv
<1>6. \A c \in Connectors : Ahead(c) => Ahead(c)'
  <2>1. ASSUME NEW c \in Connectors, In(c, connectorEvents) PROVE Ahead(c)'
    <3>1. c = h \/ In(c, connectorEvents')
      BY <1>1, <1>2, <2>1, InTail DEF h
    <3>2. In(c, connectorEvents)' <=> In(c, connectorEvents')
      BY DEF In
    <3> QED BY <1>3, <1>4, <3>1, <3>2, ConstantTypes DEF Ahead
  <2>2. ASSUME NEW c \in Connectors, NEW t \in Tasks, task[t].connector = c, task[t].pc # "none"
        PROVE  Ahead(c)'
    BY <1>1, <1>4, <2>2 DEF Ahead
  <2> QED BY <2>1, <2>2 DEF Ahead
<1>7. connectors' = connectors /\ connectors \subseteq Connectors /\ bridgeEvents' \in Seq(Connectors)
  BY <1>1 DEF ConfInv, TypeOK, state
<1>8. Announced'
  BY <1>1, AnnouncedKept DEF chain, state
<1> QED
  BY <1>1, <1>2, <1>4, <1>5, <1>6, <1>7, <1>8, TaskStep DEF chain, state

(* A task that changes only itself.                                        *)
LEMMA OneTask ==
    ASSUME ConfInv, NEW t \in Tasks, NEW r \in TaskRecord, task' = [task EXCEPT ![t] = r],
           r.pc # "none" => r.connector \in Connectors,
           t \in Connectors => r.connector = t
    PROVE  /\ task' \in [Tasks -> TaskRecord] /\ TaskInv'
           /\ task'[t] = r /\ \A u \in Tasks : u # t => task'[u] = task[u]
<1>1. task \in [Tasks -> TaskRecord]
  BY DEF ConfInv, TypeOK, TaskRecord
<1>2. /\ task' \in [Tasks -> TaskRecord]
      /\ task'[t] = r /\ \A u \in Tasks : u # t => task'[u] = task[u]
  BY <1>1
<1>3. TaskInv'
  BY <1>2 DEF ConfInv, TaskInv
<1> QED BY <1>2, <1>3

(* check_connector_contract, up to the point where it has the              *)
(* configuration.                                                          *)
LEMMA CheckReads ==
    ASSUME ConfInv, NEW t \in Tasks, CheckConnector(t) \/ CheckConfiguration(t) PROVE ConfInv'
<1> DEFINE c == task[t].connector
<1>1. UNCHANGED <<chain, channels, startup, state, gc, missed, stale, past>> /\ task[t].pc # "none"
  BY DEF CheckConnector, CheckConfiguration
<1>2. task[t] \in TaskRecord /\ c \in Connectors /\ (t \in Connectors => c = t)
  BY <1>1 DEF ConfInv, TypeOK, TaskInv, TaskRecord
<1>3. PICK r \in TaskRecord :
          /\ task' = [task EXCEPT ![t] = r]
          /\ r.pc # "none" => r.connector = c
          /\ t \in Connectors => r.connector = t
          /\ connector[c] = "enabled" => r.pc # "none"
  <2>1. CASE CheckConnector(t) /\ connector[c] = "enabled"
    <3>1. task' = [task EXCEPT ![t] = [task[t] EXCEPT !.pc = "configuration"]]
      BY <2>1 DEF CheckConnector
    <3>2. /\ [task[t] EXCEPT !.pc = "configuration"] \in TaskRecord
          /\ [task[t] EXCEPT !.pc = "configuration"].pc = "configuration"
          /\ [task[t] EXCEPT !.pc = "configuration"].connector = c
      BY <1>2 DEF TaskRecord
    <3> QED BY <1>2, <3>1, <3>2
  <2>2. CASE CheckConnector(t) /\ connector[c] # "enabled"
    <3>1. task' = [task EXCEPT ![t] = Idle(t)]
      BY <2>2 DEF CheckConnector
    <3>2. Idle(t) \in TaskRecord /\ Idle(t).pc = "none" /\ Idle(t).connector = t
      BY IdleType DEF Idle, TaskRecord
    <3> QED BY <2>2, <3>1, <3>2
  <2>3. CASE CheckConfiguration(t)
    <3> DEFINE r == [task[t] EXCEPT !.pc = "lock", !.end = end[Target[c]]]
    <3>1. task' = [task EXCEPT ![t] = r]
      BY <2>3 DEF CheckConfiguration, ConfInv, TypeOK
    <3>2. end[Target[c]] \in Ends
      BY <1>2, ConstantTypes DEF ConfInv, TypeOK
    <3>3. r \in TaskRecord /\ r.pc = "lock" /\ r.connector = c
      BY <1>2, <3>2 DEF TaskRecord
    <3> HIDE DEF r
    <3> QED BY <1>2, <3>1, <3>3
  <2> QED BY <2>1, <2>2, <2>3
<1>4. /\ task' \in [Tasks -> TaskRecord] /\ TaskInv'
      /\ task'[t] = r /\ \A u \in Tasks : u # t => task'[u] = task[u]
  BY <1>2, <1>3, OneTask
<1>5. \A d \in Connectors : connector[d] = "enabled" /\ Ahead(d) => Ahead(d)'
  <2>1. \A d : In(d, connectorEvents)' <=> In(d, connectorEvents)
    BY <1>1 DEF In, channels
  <2>2. ASSUME NEW d \in Connectors, connector[d] = "enabled", NEW u \in Tasks,
               task[u].connector = d, task[u].pc # "none"
        PROVE  task'[u].connector = d /\ task'[u].pc # "none"
    BY <1>3, <1>4, <2>2
  <2> QED BY <2>1, <2>2 DEF Ahead
<1>6. connectors' = connectors /\ connectors \subseteq Connectors
      /\ bridgeEvents' \in Seq(Connectors) /\ connectorEvents' \in Seq(Connectors)
  BY <1>1 DEF ConfInv, TypeOK, state, channels
<1>7. Announced'
  BY <1>1, AnnouncedKept DEF chain, channels, state
<1> QED
  BY <1>1, <1>4, <1>5, <1>6, <1>7, TaskStep DEF chain, channels, state

(* The last step of a check settles its connector.                         *)
LEMMA CheckAddsStep ==
    ASSUME ConfInv, NEW t \in Tasks, CheckAdds(t) PROVE ConfInv'
<1>1. /\ UNCHANGED <<chain, channels, startup, connectors, gc, missed, past>>
      /\ task[t].pc = "lock" /\ task' = [task EXCEPT ![t] = Idle(t)]
  BY DEF CheckAdds
<1>2. PICK c \in Connectors : c = task[t].connector /\ task[t].end \in Ends
  BY <1>1 DEF ConfInv, TypeOK, TaskInv
<1>3. /\ DOMAIN configurations' \subseteq Configurations
      /\ configurations' \in [DOMAIN configurations' -> Ends]
      /\ DOMAIN hashes' \subseteq Codes /\ hashes' \in [DOMAIN hashes' -> Types]
      /\ total' \in [Types -> Nat] /\ stale' \subseteq Configurations
      /\ CountInv' /\ EndsFollow' /\ Grows
      /\ c \in connectors => Settled(c)'
  <2>1. CASE c \in connectors
    <3>1. PICK e \in Ends : process_event_configuration(Target[c], e)
      BY <1>2, <2>1 DEF CheckAdds
    <3>2. UNCHANGED <<end, utime, endEvents, past>> /\ missed \subseteq missed'
      BY <1>1 DEF chain, channels
    <3>3. PICK g \in Configurations : g = Target[c]
      BY ConstantTypes
    <3> QED BY <3>1, <3>2, <3>3, ConfigurationProcessed
  <2>2. CASE c \notin connectors
    <3>1. UNCHANGED <<configurations, hashes, total, stale>>
      BY <1>2, <2>2 DEF CheckAdds, NotAdded
    <3>2. Grows
      BY <1>1, <3>1, NothingAdded
    <3>3. CountInv' /\ EndsFollow'
      BY <1>1, <3>1, EndsUntouched DEF chain, channels, ConfInv, TimeInv
    <3> QED BY <2>2, <3>1, <3>2, <3>3 DEF ConfInv, TypeOK
  <2> QED BY <2>1, <2>2
<1>4. /\ task' \in [Tasks -> TaskRecord] /\ TaskInv'
      /\ \A u \in Tasks : u # t => task'[u] = task[u]
  <2>1. Idle(t) \in TaskRecord /\ Idle(t).pc = "none" /\ Idle(t).connector = t
    BY IdleType DEF Idle, TaskRecord
  <2> QED BY <1>1, <2>1, OneTask
<1>5. TypeOK'
  BY <1>1, <1>3, <1>4 DEF ConfInv, TypeOK, TaskRecord, chain, channels
<1>6. QueueTyped' /\ TimeInv'
  BY <1>1 DEF ConfInv, QueueTyped, TimeInv, chain, channels
<1>7. Watched'
  <2>1. ASSUME NEW d \in connectors, connector[d] = "enabled" PROVE Settled(d)' \/ Ahead(d)'
    <3>1. d \in Connectors /\ (Settled(d) \/ Ahead(d))
      BY <2>1 DEF ConfInv, TypeOK, Watched
    <3>2. CASE Settled(d)
      BY <1>3, <3>1, <3>2, SettledKept
    <3>3. CASE In(d, connectorEvents)
      BY <1>1, <3>3 DEF Ahead, In, channels
    <3>4. ASSUME NEW u \in Tasks, task[u].connector = d, task[u].pc # "none"
          PROVE  Settled(d)' \/ Ahead(d)'
      <4>1. CASE u = t
        BY <1>2, <1>3, <2>1, <3>4, <4>1
      <4>2. CASE u # t
        BY <1>4, <3>4, <4>2 DEF Ahead
      <4> QED BY <4>1, <4>2
    <3> QED BY <3>1, <3>2, <3>3, <3>4 DEF Ahead
  <2> QED BY <1>1, <2>1 DEF Watched, chain
<1>8. Announced'
  BY <1>1, AnnouncedKept DEF chain, channels
<1> QED BY <1>3, <1>4, <1>5, <1>6, <1>7, <1>8 DEF ConfInv

(* A check that fails leaves its connector to a later Enable event.        *)
LEMMA CheckFailsStep ==
    ASSUME ConfInv, NEW t \in Tasks, CheckFails(t) PROVE ConfInv'
<1>1. /\ UNCHANGED <<chain, channels, startup, state, gc, stale, past>>
      /\ task[t].pc # "none" /\ task' = [task EXCEPT ![t] = Idle(t)]
  BY DEF CheckFails
<1>2. PICK c \in Connectors : c = task[t].connector
  BY <1>1 DEF ConfInv, TaskInv
<1>3. /\ missed \subseteq missed' /\ missed' \subseteq Connectors
      /\ connector[c] = "enabled" => c \in missed'
  BY <1>2 DEF CheckFails, ConfInv, TypeOK
<1>4. /\ task' \in [Tasks -> TaskRecord] /\ TaskInv'
      /\ \A u \in Tasks : u # t => task'[u] = task[u]
  <2>1. Idle(t) \in TaskRecord /\ Idle(t).pc = "none" /\ Idle(t).connector = t
    BY IdleType DEF Idle, TaskRecord
  <2> QED BY <1>1, <2>1, OneTask
<1>5. TypeOK'
  BY <1>1, <1>3, <1>4 DEF ConfInv, TypeOK, TaskRecord, chain, channels, state
<1>6. CountInv' /\ QueueTyped' /\ EndsFollow' /\ TimeInv'
  BY <1>1, EndsUntouched DEF ConfInv, TimeInv, chain, channels, state
<1>7. Watched'
  <2>1. Grows
    BY <1>1, <1>3, NothingAdded DEF state
  <2>2. ASSUME NEW d \in connectors, connector[d] = "enabled" PROVE Settled(d)' \/ Ahead(d)'
    <3>1. d \in Connectors /\ (Settled(d) \/ Ahead(d))
      BY <2>2 DEF ConfInv, TypeOK, Watched
    <3>2. CASE Settled(d)
      BY <2>1, <3>1, <3>2, SettledKept
    <3>3. CASE In(d, connectorEvents)
      BY <1>1, <3>3 DEF Ahead, In, channels
    <3>4. ASSUME NEW u \in Tasks, task[u].connector = d, task[u].pc # "none"
          PROVE  Settled(d)' \/ Ahead(d)'
      <4>1. CASE u = t
        BY <1>2, <1>3, <2>2, <3>4, <4>1 DEF Settled
      <4>2. CASE u # t
        BY <1>4, <3>4, <4>2 DEF Ahead
      <4> QED BY <4>1, <4>2
    <3> QED BY <3>1, <3>2, <3>3, <3>4 DEF Ahead
  <2> QED BY <1>1, <2>2 DEF Watched, chain, state
<1>8. Announced'
  BY <1>1, <1>3, AnnouncedKept DEF chain, channels, state
<1> QED BY <1>4, <1>5, <1>6, <1>7, <1>8 DEF ConfInv

-----------------------------------------------------------------------------
(* The listener of the ends: the last queued change is the end on chain.   *)
LEMMA TailFacts ==
    ASSUME NEW S, NEW s \in Seq(S), s # <<>>
    PROVE  /\ Len(s) \in Nat \ {0} /\ DOMAIN s = 1..Len(s) /\ Head(s) = s[1] /\ Head(s) \in S
           /\ Tail(s) \in Seq(S) /\ DOMAIN Tail(s) = 1..(Len(s) - 1)
           /\ \A i \in 1..(Len(s) - 1) : Tail(s)[i] = s[i + 1]
  OBVIOUS

(* process_event_configuration_event writes the new end into the map.      *)
LEMMA EndEventStep ==
    ASSUME ConfInv, NEW t \in Types, process_event_configuration_event(t) PROVE ConfInv'
<1> DEFINE R == [account : Configurations, end : Ends]
           q == endEvents[t]
           ev == Head(q)
<1>1. /\ UNCHANGED <<chain, bridgeEvents, connectorEvents, startup, connectors, hashes, total,
                     task, gc, missed, stale, past>>
      /\ q # <<>> /\ endEvents' = [endEvents EXCEPT ![t] = Tail(q)]
      /\ configurations' = IF ev.account \in DOMAIN configurations
                           THEN [configurations EXCEPT ![ev.account] = ev.end] ELSE configurations
  BY DEF process_event_configuration_event, UpdateEnd
<1>2. endEvents \in [Types -> Seq(R)] /\ q \in Seq(R)
  BY DEF ConfInv, TypeOK
<1> HIDE DEF R
<1>3. /\ Len(q) \in Nat \ {0} /\ DOMAIN q = 1..Len(q) /\ ev = q[1] /\ ev \in R
      /\ Tail(q) \in Seq(R) /\ DOMAIN Tail(q) = 1..(Len(q) - 1)
      /\ \A i \in 1..(Len(q) - 1) : Tail(q)[i] = q[i + 1]
  BY <1>1, <1>2, TailFacts
<1>4. /\ endEvents' \in [Types -> Seq(R)] /\ endEvents'[t] = Tail(q)
      /\ \A u \in Types : u # t => endEvents'[u] = endEvents[u]
  BY <1>1, <1>2, <1>3
<1> HIDE DEF q
<1>5. /\ DOMAIN configurations' = DOMAIN configurations
      /\ configurations' \in [DOMAIN configurations' -> Ends]
      /\ \A g \in DOMAIN configurations :
            configurations'[g] = IF g = ev.account THEN ev.end ELSE configurations[g]
  BY <1>1, <1>3 DEF ConfInv, TypeOK, R
<1>6. Type(ev.account) = t
  BY <1>3 DEF ConfInv, QueueTyped, q
<1>7. TypeOK'
  <2>1. endEvents' \in [Types -> Seq([account : Configurations, end : Ends])]
    BY <1>4 DEF R
  <2> QED BY <1>1, <1>5, <2>1 DEF ConfInv, TypeOK, chain
<1>8. TaskInv' /\ TimeInv' /\ CountInv'
  BY <1>1, <1>5 DEF ConfInv, TaskInv, TimeInv, CountInv, CountersExact, OfType, chain
<1>9. QueueTyped'
  <2>1. ASSUME NEW i \in 1..(Len(q) - 1) PROVE Type(Tail(q)[i].account) = t
    <3>1. i + 1 \in 1..Len(q) /\ Tail(q)[i] = q[i + 1]
      BY <1>3
    <3> QED BY <1>3, <3>1 DEF ConfInv, QueueTyped, q
  <2> QED BY <1>3, <1>4, <2>1 DEF ConfInv, QueueTyped
<1>10. EndsFollow'
  <2>1. ASSUME NEW g \in DOMAIN configurations \ stale PROVE Follows(g)'
    <3>1. Follows(g)
      BY DEF ConfInv, EndsFollow, Follows
    <3>2. end' = end
      BY <1>1 DEF chain
    <3>3. CASE Type(g) # t
      <4>1. configurations'[g] = configurations[g] /\ endEvents'[Type(g)] = endEvents[Type(g)]
        BY <1>4, <1>5, <1>6, <3>3, ConstantTypes
      <4> QED BY <3>1, <3>2, <4>1 DEF Follows, Queued, LastQueued
    <3>4. CASE Type(g) = t
      <4>1. endEvents[Type(g)] = q /\ endEvents'[Type(g)] = Tail(q)
        BY <1>4, <3>4 DEF q
      <4>2. Queued(g)' <=> \E i \in 1..(Len(q) - 1) : Tail(q)[i].account = g
        BY <1>3, <4>1 DEF Queued
      <4>3. Queued(g) <=> \E i \in 1..Len(q) : q[i].account = g
        BY <1>3, <4>1 DEF Queued
      <4>4. CASE ~Queued(g)
        <5>1. ev.account # g
          BY <1>3, <4>3, <4>4
        <5>2. ~Queued(g)'
          <6>1. ASSUME NEW i \in 1..(Len(q) - 1) PROVE Tail(q)[i].account # g
            <7>1. i + 1 \in 1..Len(q) /\ Tail(q)[i] = q[i + 1]
              BY <1>3
            <7> QED BY <4>3, <4>4, <7>1
          <6> QED BY <4>2, <6>1
        <5> QED BY <1>5, <3>1, <3>2, <4>4, <5>1, <5>2 DEF Follows
      <4>5. CASE Queued(g)
        <5>1. PICK i \in 1..Len(q) : LastQueued(g, i) /\ q[i].end = end[g]
          BY <1>3, <3>1, <4>1, <4>5 DEF Follows
        <5>2. q[i].account = g /\ \A j \in 1..Len(q) : j > i => q[j].account # g
          BY <1>3, <4>1, <5>1 DEF LastQueued
        <5>3. CASE i = 1
          <6>1. ASSUME NEW j \in 1..(Len(q) - 1) PROVE Tail(q)[j].account # g
            <7>1. j + 1 \in 1..Len(q) /\ j + 1 > i /\ Tail(q)[j] = q[j + 1]
              BY <1>3, <5>3
            <7> QED BY <5>2, <7>1
          <6>2. ~Queued(g)'
            BY <4>2, <6>1
          <6>3. configurations'[g] = end[g]
            BY <1>3, <1>5, <5>1, <5>2, <5>3
          <6> QED BY <3>2, <6>2, <6>3 DEF Follows
        <5>4. CASE i # 1
          <6>1. PICK k \in 1..(Len(q) - 1) : k + 1 = i
            <7>1. i - 1 \in 1..(Len(q) - 1) /\ (i - 1) + 1 = i
              BY <1>3, <5>4
            <7> QED BY <7>1
          <6>2. Tail(q)[k] = q[i]
            BY <1>3, <6>1
          <6>3. ASSUME NEW j \in 1..(Len(q) - 1), j > k PROVE Tail(q)[j].account # g
            <7>1. j + 1 \in 1..Len(q) /\ j + 1 > i /\ Tail(q)[j] = q[j + 1]
              BY <1>3, <6>1, <6>3
            <7> QED BY <5>2, <7>1
          <6>4. LastQueued(g, k)'
            BY <1>3, <4>1, <5>2, <6>2, <6>3 DEF LastQueued
          <6>5. Queued(g)'
            BY <4>2, <5>2, <6>2
          <6>6. k \in DOMAIN endEvents'[Type(g)] /\ endEvents'[Type(g)][k].end = end[g]
            BY <1>3, <4>1, <5>1, <6>2
          <6> QED BY <3>2, <6>4, <6>5, <6>6 DEF Follows
        <5> QED BY <5>3, <5>4
      <4> QED BY <4>4, <4>5
    <3> QED BY <3>3, <3>4
  <2> QED BY <1>1, <1>5, <2>1 DEF EndsFollow, Follows
<1>11. Grows
  BY <1>1, <1>5 DEF Grows, CodeClash
<1>12. Watched'
  BY <1>1, <1>11, WatchedKept DEF chain
<1>13. Announced'
  BY <1>1, AnnouncedKept DEF chain
<1> QED BY <1>7, <1>8, <1>9, <1>10, <1>12, <1>13 DEF ConfInv

-----------------------------------------------------------------------------
(* The collector.                                                          *)

(* What it removes has been expired on chain, or the relay did not have    *)
(* the end.                                                                *)
LEMMA RemovedAreExpired ==
    ASSUME ConfInv, NEW g \in Expired(gc.utime) PROVE g \in past \/ g \in stale \/ Queued(g)
<1> SUFFICES ASSUME g \notin stale, ~Queued(g) PROVE g \in past
  OBVIOUS
<1>1. g \in DOMAIN configurations /\ g \in Ton /\ is_expired(configurations[g], gc.utime)
  BY DEF Expired
<1>2. configurations[g] = end[g]
  BY <1>1 DEF ConfInv, EndsFollow
<1>3. end[g] \in Nat /\ gc.utime \in Nat /\ utime \in Nat /\ gc.utime <= utime
  BY <1>1, ConfigurationsAssumption DEF ConfInv, TypeOK, TimeInv
<1>4. is_expired(end[g], utime)
  BY <1>1, <1>2, <1>3 DEF is_expired
<1> QED BY <1>1, <1>4 DEF ConfInv, TimeInv

(* The collector, before it removes.                                       *)
LEMMA GcWaits ==
    ASSUME ConfInv, GcWake \/ GcWait \/ GcWaitFails PROVE ConfInv'
<1>1. UNCHANGED <<chain, channels, startup, state, task, missed, stale, past>>
  BY DEF GcWake, GcWait, GcWaitFails
<1>2. gc' \in [pc : {"sleep", "wait", "remove"}, utime : 0..MaxTime] /\ gc'.utime <= utime
  <2>1. /\ gc \in [pc : {"sleep", "wait", "remove"}, utime : 0..MaxTime]
        /\ gc.utime <= utime /\ utime \in 1..MaxTime
    BY DEF ConfInv, TypeOK, TimeInv
  <2> QED BY <2>1, ConfigurationsAssumption DEF GcWake, GcWait, GcWaitFails
<1>3. TypeOK'
  BY <1>1, <1>2 DEF ConfInv, TypeOK, chain, channels, state
<1>4. CountInv' /\ QueueTyped' /\ EndsFollow' /\ TimeInv'
  BY <1>1, <1>2, EndsUntouched DEF chain, channels, state
<1>5. TaskInv'
  BY <1>1 DEF ConfInv, TaskInv
<1>6. Watched'
  BY <1>1, NothingAdded, WatchedKept DEF chain, channels, state
<1>7. Announced'
  BY <1>1, AnnouncedKept DEF chain, channels, state
<1> QED BY <1>3, <1>4, <1>5, <1>6, <1>7 DEF ConfInv

(* The collector removes what has expired and subtracts it.                *)
LEMMA GcRemoveStep ==
    ASSUME ConfInv, GcRemove PROVE ConfInv'
<1> DEFINE removed == Expired(gc.utime)
<1>1. /\ UNCHANGED <<chain, channels, startup, connectors, hashes, task, missed, past>>
      /\ gc' = [pc |-> "sleep", utime |-> 0]
      /\ configurations' = [g \in DOMAIN configurations \ removed |-> configurations[g]]
      /\ total' = [total EXCEPT !["Ton"] = @ - Cardinality(removed)]
      /\ stale' = stale \cup (removed \ past)
  BY DEF GcRemove, SubtractRemoved
<1>2. removed \subseteq OfType("Ton") /\ removed \subseteq Configurations
      /\ \A g \in removed : Type(g) = "Ton"
  BY DEF Expired, OfType, Type, ConfInv, TypeOK
<1> HIDE DEF removed
<1>3. /\ DOMAIN configurations' = DOMAIN configurations \ removed
      /\ DOMAIN configurations' \subseteq Configurations
      /\ configurations' \in [DOMAIN configurations' -> Ends]
      /\ \A g \in DOMAIN configurations' : configurations'[g] = configurations[g]
  BY <1>1 DEF ConfInv, TypeOK
<1>4. total' \in [Types -> Nat] /\ CountInv'
  <2>1. IsFiniteSet(DOMAIN configurations) /\ CountersExact /\ total \in [Types -> Nat]
    BY DEF ConfInv, CountInv, TypeOK
  <2>2. IsFiniteSet(DOMAIN configurations')
    BY <1>3, <2>1, FS_Difference
  <2>3. IsFiniteSet(OfType("Ton"))
    BY <2>1, FS_Subset DEF OfType
  <2>4. OfType("Ton")' = OfType("Ton") \ removed /\ OfType("Eth")' = OfType("Eth")
    BY <1>2, <1>3 DEF OfType
  <2>5. OfType("Ton") \cap removed = removed
    BY <1>2
  <2>6. /\ Cardinality(OfType("Ton") \ removed) = Cardinality(OfType("Ton")) - Cardinality(removed)
        /\ Cardinality(OfType("Ton") \ removed) \in Nat
    BY <2>3, <2>5, FS_Difference, FS_CardinalityType
  <2>7. /\ total'["Eth"] = total["Eth"] /\ total'["Ton"] = total["Ton"] - Cardinality(removed)
        /\ total["Ton"] = Cardinality(OfType("Ton")) /\ total["Eth"] = Cardinality(OfType("Eth"))
    BY <1>1, <2>1 DEF CountersExact, Types
  <2>8. total'["Ton"] = Cardinality(OfType("Ton")') /\ total'["Eth"] = Cardinality(OfType("Eth")')
    BY <2>4, <2>6, <2>7
  <2>9. total' \in [Types -> Nat]
    BY <1>1, <2>1, <2>6, <2>7 DEF Types
  <2> QED BY <2>2, <2>8, <2>9 DEF CountInv, CountersExact, Types
<1>5. TypeOK'
  <2>1. stale' \subseteq Configurations
    BY <1>1, <1>2 DEF ConfInv, TypeOK
  <2>2. gc' \in [pc : {"sleep", "wait", "remove"}, utime : 0..MaxTime]
    BY <1>1, ConfigurationsAssumption
  <2> QED BY <1>1, <1>3, <1>4, <2>1, <2>2 DEF ConfInv, TypeOK, chain, channels
<1>6. TaskInv' /\ QueueTyped'
  BY <1>1 DEF ConfInv, TaskInv, QueueTyped, channels
<1>7. TimeInv'
  BY <1>1 DEF ConfInv, TypeOK, TimeInv, chain
<1>8. EndsFollow'
  BY <1>1, <1>3, EndsFollowKept DEF ConfInv, chain, channels
<1>9. Grows
  BY <1>1, <1>3 DEF Grows, CodeClash
<1>10. Watched'
  BY <1>1, <1>9, WatchedKept DEF chain, channels
<1>11. Announced'
  BY <1>1, AnnouncedKept DEF chain, channels
<1> QED BY <1>4, <1>5, <1>6, <1>7, <1>8, <1>10, <1>11 DEF ConfInv

-----------------------------------------------------------------------------
(* Every step keeps the invariant.                                         *)
LEMMA ConfNext == ConfInv /\ [Next]_vars => ConfInv'
<1> SUFFICES ASSUME ConfInv, [Next]_vars PROVE ConfInv'
  OBVIOUS
<1>1. CASE Chain
  BY <1>1, ConnectorSteps, QuietSteps, SetEndStep DEF Chain
<1>2. CASE Startup
  BY <1>2, StartupBoundaries, StartupConnectorStep, StartupSkipsStep DEF Startup
<1>3. CASE Bridge
  BY <1>3, BridgeEventStep DEF Bridge
<1>4. CASE process_connector_event
  BY <1>4, ConnectorEventStep
<1>5. CASE \E t \in Tasks : Check(t) \/ CheckFails(t)
  BY <1>5, CheckReads, CheckAddsStep, CheckFailsStep DEF Check
<1>6. CASE \E t \in Types : process_event_configuration_event(t)
  BY <1>6, EndEventStep
<1>7. CASE Collector
  BY <1>7, GcWaits, GcRemoveStep DEF Collector
<1>8. CASE UNCHANGED vars
  <2>1. UNCHANGED <<chain, channels, startup, state, task, gc, missed, stale, past>>
    BY <1>8 DEF vars
  <2>2. TypeOK' /\ TaskInv'
    BY <2>1 DEF ConfInv, TypeOK, TaskInv, chain, channels, state
  <2>3. CountInv' /\ QueueTyped' /\ EndsFollow' /\ TimeInv'
    BY <2>1, EndsUntouched DEF ConfInv, TimeInv, chain, channels, state
  <2>4. Watched' /\ Announced'
    BY <2>1, NothingAdded, WatchedKept, AnnouncedKept DEF chain, channels, state
  <2> QED BY <2>2, <2>3, <2>4 DEF ConfInv
<1> QED BY <1>1, <1>2, <1>3, <1>4, <1>5, <1>6, <1>7, <1>8 DEF Next

(* The invariant of the specification.                                     *)
LEMMA ConfInvariant == Spec => []ConfInv
<1>1. Init => ConfInv
  BY ConfInit
<1>2. ConfInv /\ [Next]_vars => ConfInv'
  BY ConfNext
<1> QED
  BY <1>1, <1>2, PTL DEF Spec

(* For any connectors and configurations: the counters are the sizes of    *)
(* the maps and the ends the relay uses are those on chain, or queued.     *)
THEOREM ConfigurationsExact == Spec => [](TypeOK /\ CountersExact /\ EndsFollow)
<1>1. ConfInv => TypeOK /\ CountersExact /\ EndsFollow
  BY DEF ConfInv, CountInv
<1> QED
  BY <1>1, ConfInvariant, PTL

(* No enabled connector is forgotten, in whatever order the chain, the     *)
(* startup, the listeners and the checks go on, but for those that startup *)
(* leaves behind and those whose check failed while they were enabled.     *)
THEOREM ConnectorsRemembered == Spec => []NoneForgotten
<1>1. ConfInv => NoneForgotten
  <2> SUFFICES ASSUME ConfInv, NEW c \in Connectors, connector[c] = "enabled"
               PROVE  Settled(c) \/ OnItsWay(c)
    BY DEF NoneForgotten
  <2>1. CASE c \in connectors
    BY <2>1 DEF ConfInv, Watched, Ahead, In, OnItsWay
  <2>2. CASE c \notin connectors /\ StartupPassed(c)
    BY <2>2 DEF ConfInv, Announced, In, OnItsWay, Settled
  <2>3. CASE ~StartupPassed(c)
    BY <2>3 DEF StartupPassed, OnItsWay, ConfInv, TypeOK, Connectors
  <2> QED BY <2>1, <2>2, <2>3
<1> QED
  BY <1>1, ConfInvariant, PTL

(* The collector, which decides a second time under the lock with the time *)
(* of the shards, drops only what has been expired on chain, or what the   *)
(* relay does not have the end of.                                         *)
THEOREM CollectorRemovesExpired == Spec => RemovedOnlyExpired
<1> DEFINE A == \A g \in DOMAIN configurations \ DOMAIN configurations' :
                   g \in past \/ g \in stale \/ Queued(g)
<1>1. ConfInv /\ [Next]_vars => [A]_vars
  <2> SUFFICES ASSUME ConfInv, [Next]_vars, NEW g \in DOMAIN configurations \ DOMAIN configurations'
               PROVE  g \in past \/ g \in stale \/ Queued(g)
    OBVIOUS
  <2>1. CASE GcRemove
    <3>1. g \in Expired(gc.utime)
      BY <2>1 DEF GcRemove
    <3> QED BY <3>1, RemovedAreExpired
  <2>2. CASE ~GcRemove
    <3>1. ASSUME NEW h, NEW e, process_event_configuration(h, e)
          PROVE  DOMAIN configurations \subseteq DOMAIN configurations'
      BY <3>1 DEF process_event_configuration, AddConfiguration, Put
    <3>2. CASE UNCHANGED configurations
      BY <3>2
    <3>3. \/ UNCHANGED configurations
          \/ \E c \in Connectors : StartupConnector(c)
          \/ \E t \in Tasks : CheckAdds(t)
          \/ \E t \in Types : process_event_configuration_event(t)
      BY <2>2, Zenon DEF Next, Chain, DeployConnector, ConnectorAppears, Enable, DeployConfiguration,
         SetEnd, Tick, Startup, StartupLoad, StartupDone, Bridge, process_bridge_event,
         process_connector_event, Check, CheckConnector, CheckConfiguration, CheckFails, StartupSkips,
         Collector, GcWake, GcWait, GcWaitFails, state, vars
    <3>4. CASE \E c \in Connectors : StartupConnector(c)
      BY <3>1, <3>4 DEF StartupConnector, NotAdded
    <3>5. CASE \E t \in Tasks : CheckAdds(t)
      BY <3>1, <3>5 DEF CheckAdds, NotAdded
    <3>6. CASE \E t \in Types : process_event_configuration_event(t)
      BY <3>6 DEF process_event_configuration_event, UpdateEnd
    <3> QED BY <3>2, <3>3, <3>4, <3>5, <3>6
  <2> QED BY <2>1, <2>2
<1> QED
  BY <1>1, ConfInvariant, PTL DEF Spec, RemovedOnlyExpired
=============================================================================
