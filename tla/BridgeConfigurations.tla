------------------------ MODULE BridgeConfigurations ------------------------
(***************************************************************************)
(* src/engine/bridge/mod.rs: the connectors of the bridge and the event    *)
(* configurations that the relay works for.  They are read at the start,   *)
(* with the lock of the state held while the contracts are loaded, then    *)
(* kept up to date by events; a collector removes the TON configurations   *)
(* that have expired.                                                      *)
(*                                                                         *)
(* Each channel of events has one listener, which handles one event after  *)
(* the other and waits for each.  An observer reports what happens after   *)
(* its subscription.  The model starts when the bridge account has been    *)
(* subscribed; the events of the configurations are in BridgeEvents.       *)
(***************************************************************************)
EXTENDS Integers, Sequences, FiniteSets, Maps

CONSTANTS
    MaxConnectors, \* bound: connectors are numbered by the bridge, here from 1
    Target,        \* Target[c]: the event configuration of connector c
    Ton,           \* configurations of TON events, the others are of EVM events
    Code,          \* Code[g]: hash of the event code of configuration g
    Refused,       \* configurations with a bad ABI or an unknown chain id
    Ends,          \* values of end_timestamp and end_block_number, 0 is never
    FirstEnd,      \* FirstEnd[g]: that of configuration g at the start
    MaxTime,       \* bound: the last time of the masterchain
    MaxSets        \* bound: changes of an end timestamp

Connectors == 1..MaxConnectors
Configurations == {Target[c] : c \in Connectors}
Codes == {Code[g] : g \in Configurations}
Types == {"Eth", "Ton"}
Type(g) == IF g \in Ton THEN "Ton" ELSE "Eth"

(* check_connector_contract runs in the listener of connector events and   *)
(* in a task of its own for each connector that is deployed.               *)
Listener == 0
Tasks == Connectors \cup {Listener}
Idle(t) == [pc |-> "none", connector |-> t, end |-> 0]

ASSUME ConfigurationsAssumption ==
    /\ MaxConnectors \in Nat /\ MaxTime \in Nat \ {0} /\ MaxSets \in Nat
    /\ 0 \in Ends /\ Ends \subseteq Nat /\ FirstEnd \in [Configurations -> Ends]
    /\ DOMAIN Target = Connectors /\ DOMAIN Code = Configurations
    /\ Ton \subseteq Configurations /\ Refused \subseteq Configurations

VARIABLES
    connector,       \* chain: how far each connector is
    deployed,        \* chain: configurations that exist
    end,             \* chain: end_timestamp (or end_block_number), by configuration
    utime,           \* chain: time of the masterchain
    sets,            \* chain: changes of an end so far
    bridgeEvents,    \* bridge_events_rx: connectors deployed
    connectorEvents, \* connectors_rx: connectors enabled
    endEvents,       \* *_event_configurations_rx of each type: [account, end]
    startup,         \* get_all_configurations: [pc, id, connector, deployed, end]
    connectors,      \* state.connectors: those with an observer
    configurations,  \* state.*_event_configurations: account -> end
    hashes,          \* state.event_code_hashes: code -> type
    total,           \* total_active_*_event_configurations
    task,            \* check_connector_contract: [pc, connector, end]
    gc,              \* the collector: [pc, utime]
    missed,          \* connectors the start has left behind or whose check failed
    stale,           \* configurations judged by an end that had been changed
    past             \* TON configurations that have been expired on chain

chain == <<connector, deployed, end, utime, sets>>
channels == <<bridgeEvents, connectorEvents, endEvents>>
state == <<connectors, configurations, hashes, total>>
vars == <<chain, channels, startup, state, task, gc, missed, stale, past>>

(* details.is_expired.                                                     *)
is_expired(e, time) == 1 <= e /\ e < time

(* "announced": the bridge has deployed it, the contract is not there yet. *)
Stages == {"absent", "announced", "disabled", "enabled"}
Exists(stage) == stage \in {"disabled", "enabled"}

TypeOK ==
    /\ connector \in [Connectors -> Stages]
    /\ deployed \subseteq Configurations
    /\ end \in [Configurations -> Ends]
    /\ utime \in 1..MaxTime /\ sets \in 0..MaxSets
    /\ bridgeEvents \in Seq(Connectors) /\ connectorEvents \in Seq(Connectors)
    /\ endEvents \in [Types -> Seq([account : Configurations, end : Ends])]
    /\ startup \in [pc : {"lock", "apply", "done"}, id : 1..(MaxConnectors + 1),
                    connector : [Connectors -> Stages], deployed : SUBSET Configurations,
                    end : [Configurations -> Ends]]
    /\ connectors \subseteq Connectors
    /\ DOMAIN configurations \subseteq Configurations
    /\ configurations \in [DOMAIN configurations -> Ends]
    /\ DOMAIN hashes \subseteq Codes /\ hashes \in [DOMAIN hashes -> Types]
    /\ total \in [Types -> Nat]
    /\ task \in [Tasks -> [pc : {"none", "connector", "configuration", "lock"},
                           connector : Tasks, end : Ends]]
    /\ gc \in [pc : {"sleep", "wait", "remove"}, utime : 0..MaxTime]
    /\ missed \subseteq Connectors
    /\ stale \subseteq Configurations /\ past \subseteq Configurations

NotLoaded(pc) ==
    [pc |-> pc, id |-> 1, connector |-> [c \in Connectors |-> "absent"], deployed |-> {},
     end |-> [g \in Configurations |-> 0]]

Init ==
    /\ connector \in [Connectors -> Stages]
    /\ \A c, d \in Connectors : c < d /\ connector[c] = "absent" => connector[d] = "absent"
    /\ deployed \in SUBSET Configurations
    /\ end = FirstEnd /\ utime = 1 /\ sets = 0
    /\ bridgeEvents = <<>> /\ connectorEvents = <<>> /\ endEvents = [t \in Types |-> <<>>]
    /\ startup = NotLoaded("lock")
    /\ connectors = {} /\ configurations = EmptyMap /\ hashes = EmptyMap
    /\ total = [t \in Types |-> 0]
    /\ task = [t \in Tasks |-> Idle(t)]
    /\ gc = [pc |-> "sleep", utime |-> 0]
    /\ missed = {} /\ stale = {} /\ past = {g \in Ton : is_expired(end[g], utime)}

(* Only the start holds the lock of the state over an await.               *)
Unlocked == startup.pc # "apply"

-----------------------------------------------------------------------------
(* Plausible mistakes, used to see that the properties notice them.        *)

CountFirst(g, e) ==
    /\ hashes' = Put(hashes, Code[g], Type(g))
    /\ total' = [total EXCEPT ![Type(g)] = @ + 1]
    /\ configurations' = IF g \in DOMAIN configurations THEN configurations
                                                        ELSE Put(configurations, g, e)
    /\ stale' = stale \cup {g}

EndIfSet(t, event) ==
    /\ Unlocked
    /\ endEvents' = [endEvents EXCEPT ![t] = Tail(@)]
    /\ configurations' =
         IF event.account \in DOMAIN configurations /\ event.end # 0
         THEN [configurations EXCEPT ![event.account] = event.end] ELSE configurations

InsertOnly(c) == connectors' = connectors \cup {c} /\ UNCHANGED task

EndReached(time) ==
    {g \in DOMAIN configurations \cap Ton : configurations[g] \in 1..time}

DrainFirst ==
    /\ startup.pc = "apply" /\ startup.id > MaxConnectors
    /\ bridgeEvents = <<>>
    /\ startup' = NotLoaded("done")
    /\ UNCHANGED <<chain, channels, state, task, gc, missed, stale, past>>

SubtractFromEth(n) == [total EXCEPT !["Eth"] = @ - n]

-----------------------------------------------------------------------------
(* The chain, as the node of the relay reports it.                         *)

DeployConnector(c) ==
    /\ connector[c] = "absent"
    /\ \A d \in Connectors : d < c => connector[d] # "absent"
    /\ connector' = [connector EXCEPT ![c] = "announced"]
    /\ bridgeEvents' = Append(bridgeEvents, c)
    /\ UNCHANGED <<deployed, end, utime, sets, connectorEvents, endEvents, startup, state,
                   task, gc, missed, stale, past>>

ConnectorAppears(c) ==
    /\ connector[c] = "announced"
    /\ connector' = [connector EXCEPT ![c] = "disabled"]
    /\ UNCHANGED <<deployed, end, utime, sets, channels, startup, state, task, gc,
                   missed, stale, past>>

Enable(c) ==
    /\ connector[c] = "disabled"
    /\ connector' = [connector EXCEPT ![c] = "enabled"]
    /\ connectorEvents' =
         IF c \in connectors THEN Append(connectorEvents, c) ELSE connectorEvents
    /\ UNCHANGED <<deployed, end, utime, sets, bridgeEvents, endEvents, startup, state,
                   task, gc, missed, stale, past>>

DeployConfiguration(g) ==
    /\ g \notin deployed
    /\ deployed' = deployed \cup {g}
    /\ UNCHANGED <<connector, end, utime, sets, channels, startup, state, task, gc,
                   missed, stale, past>>

PastOf(ends, time) == past \cup {g \in Ton : is_expired(ends[g], time)}

SetEnd(g, e) ==
    /\ g \in deployed /\ sets < MaxSets /\ e # end[g]
    /\ sets' = sets + 1
    /\ end' = [end EXCEPT ![g] = e]
    /\ endEvents' =
         IF g \in DOMAIN configurations
         THEN [endEvents EXCEPT ![Type(g)] = Append(@, [account |-> g, end |-> e])]
         ELSE endEvents
    /\ stale' = IF g \in DOMAIN configurations THEN stale \ {g} ELSE stale
    /\ past' = PastOf(end', utime)
    /\ UNCHANGED <<connector, deployed, utime, bridgeEvents, connectorEvents, startup,
                   state, task, gc, missed>>

Tick ==
    /\ utime < MaxTime
    /\ utime' = utime + 1
    /\ past' = PastOf(end, utime')
    /\ UNCHANGED <<connector, deployed, end, sets, channels, startup, state, task, gc,
                   missed, stale>>

-----------------------------------------------------------------------------
(* process_event_configuration, with add_[eth|ton]_event_configuration and *)
(* add_event_code_hash.  A subscription starts in the same step.           *)

CodeClash(g) == Code[g] \in DOMAIN hashes /\ hashes[Code[g]] # Type(g)

Rejects(g, e) == g \in Refused \/ (g \in Ton /\ is_expired(e, utime)) \/ CodeClash(g)

Queued(g) == \E i \in DOMAIN endEvents[Type(g)] : endEvents[Type(g)][i].account = g

AddConfiguration(g, e) ==
    /\ hashes' = Put(hashes, Code[g], Type(g))
    /\ IF g \in DOMAIN configurations
       THEN UNCHANGED <<configurations, total, stale>>
       ELSE /\ configurations' = Put(configurations, g, e)
            /\ total' = [total EXCEPT ![Type(g)] = @ + 1]
            /\ stale' = IF e = end[g] /\ ~Queued(g) THEN stale \ {g} ELSE stale \cup {g}

NotAdded == UNCHANGED <<configurations, hashes, total, stale>>

process_event_configuration(g, e) ==
    IF Rejects(g, e) THEN /\ UNCHANGED <<configurations, hashes, total>>
                          /\ stale' = IF e = end[g] THEN stale ELSE stale \cup {g}
                     ELSE AddConfiguration(g, e)

-----------------------------------------------------------------------------
(* Bridge::new: get_all_configurations, later the collector is started.    *)

(* The lock is taken, then the contracts are loaded: between the two the   *)
(* listeners wait and the chain goes on, as it may before the lock.        *)
StartupLoad ==
    /\ startup.pc = "lock"
    /\ startup' = [pc |-> "apply", id |-> 1,
                   connector |-> connector, deployed |-> deployed, end |-> end]
    /\ UNCHANGED <<chain, channels, state, task, gc, missed, stale, past>>

(* No event will make the relay look at the connector: it was deployed     *)
(* before the subscription of the bridge and did not exist when the        *)
(* contracts were loaded, it was enabled after that but before its own     *)
(* subscription, or it was enabled and its configuration did not exist.    *)
LeftBehind(c) ==
    /\ c \notin connectors
    /\ \/ /\ startup.connector[c] = "announced"
          /\ \A i \in DOMAIN bridgeEvents : bridgeEvents[i] # c
       \/ startup.connector[c] = "disabled" /\ connector[c] = "enabled"
       \/ startup.connector[c] = "enabled" /\ Target[c] \notin startup.deployed

(* One round of the loop over the connectors.                              *)
StartupConnector(c) ==
    /\ startup.pc = "apply" /\ startup.id = c
    /\ startup' = [startup EXCEPT !.id = c + 1]
    /\ connectors' = IF Exists(startup.connector[c]) THEN connectors \cup {c} ELSE connectors
    /\ IF startup.connector[c] = "enabled" /\ Target[c] \in startup.deployed
       THEN process_event_configuration(Target[c], startup.end[Target[c]])
       ELSE NotAdded
    /\ missed' = IF LeftBehind(c) THEN missed \cup {c} ELSE missed
    /\ UNCHANGED <<chain, channels, task, gc, past>>

(* The details cannot be read, which is logged: no observer is created,    *)
(* and only an event of its deployment will bring the connector back.      *)
StartupSkips(c) ==
    /\ startup.pc = "apply" /\ startup.id = c /\ Exists(startup.connector[c])
    /\ startup' = [startup EXCEPT !.id = c + 1]
    /\ missed' = IF c \in connectors \/ \E i \in DOMAIN bridgeEvents : bridgeEvents[i] = c
                 THEN missed ELSE missed \cup {c}
    /\ UNCHANGED <<chain, channels, state, task, gc, stale, past>>

StartupDone ==
    /\ startup.pc = "apply" /\ startup.id > MaxConnectors
    /\ startup' = NotLoaded("done")
    /\ UNCHANGED <<chain, channels, state, task, gc, missed, stale, past>>

-----------------------------------------------------------------------------
(* The listeners and check_connector_contract.                             *)

InsertAndCheck(c) ==
    /\ connectors' = connectors \cup {c}
    /\ task' = [task EXCEPT ![c].pc = "connector"]

process_bridge_event(c) ==
    /\ bridgeEvents # <<>> /\ Head(bridgeEvents) = c /\ Unlocked
    /\ bridgeEvents' = Tail(bridgeEvents)
    /\ IF c \in connectors THEN UNCHANGED <<connectors, task>> ELSE InsertAndCheck(c)
    /\ UNCHANGED <<chain, connectorEvents, endEvents, startup, configurations, hashes,
                   total, gc, missed, stale, past>>

(* The listener takes the next event only when this one has been handled.  *)
process_connector_event ==
    /\ connectorEvents # <<>> /\ task[Listener].pc = "none"
    /\ connectorEvents' = Tail(connectorEvents)
    /\ task' = [task EXCEPT ![Listener] =
                  [pc |-> "connector", connector |-> Head(connectorEvents), end |-> 0]]
    /\ UNCHANGED <<chain, bridgeEvents, endEvents, startup, state, gc, missed, stale, past>>

(* The contract of the connector is there: it may be disabled.             *)
CheckConnector(t) ==
    /\ task[t].pc = "connector" /\ Exists(connector[task[t].connector])
    /\ task' = [task EXCEPT ![t] =
                  IF connector[@.connector] = "enabled" THEN [@ EXCEPT !.pc = "configuration"]
                                                        ELSE Idle(t)]
    /\ UNCHANGED <<chain, channels, startup, state, gc, missed, stale, past>>

CheckConfiguration(t) ==
    /\ task[t].pc = "configuration" /\ Target[task[t].connector] \in deployed
    /\ task' = [task EXCEPT ![t].pc = "lock", ![t].end = end[Target[task[t].connector]]]
    /\ UNCHANGED <<chain, channels, startup, state, gc, missed, stale, past>>

CheckAdds(t) ==
    /\ task[t].pc = "lock" /\ Unlocked
    /\ task' = [task EXCEPT ![t] = Idle(t)]
    /\ IF task[t].connector \in connectors
       THEN process_event_configuration(Target[task[t].connector], task[t].end)
       ELSE NotAdded
    /\ UNCHANGED <<chain, channels, startup, connectors, gc, missed, past>>

(* A contract is frozen or its details cannot be read: the check ends with *)
(* an error, which is logged.  Only if the connector is enabled after that *)
(* will the relay look at it again.                                        *)
CheckFails(t) ==
    LET c == task[t].connector
    IN  /\ \/ task[t].pc = "connector" /\ Exists(connector[c])
           \/ task[t].pc = "configuration" /\ Target[c] \in deployed
        /\ task' = [task EXCEPT ![t] = Idle(t)]
        /\ missed' = IF connector[c] = "enabled" THEN missed \cup {c} ELSE missed
        /\ UNCHANGED <<chain, channels, startup, state, gc, stale, past>>

(* An unknown configuration is an error, which is logged.                  *)
UpdateEnd(t, event) ==
    /\ Unlocked
    /\ endEvents' = [endEvents EXCEPT ![t] = Tail(@)]
    /\ configurations' =
         IF event.account \in DOMAIN configurations
         THEN [configurations EXCEPT ![event.account] = event.end] ELSE configurations

process_event_configuration_event(t) ==
    /\ endEvents[t] # <<>>
    /\ UpdateEnd(t, Head(endEvents[t]))
    /\ UNCHANGED <<chain, bridgeEvents, connectorEvents, startup, connectors, hashes, total,
                   task, gc, missed, stale, past>>

-----------------------------------------------------------------------------
(* start_ton_event_configurations_gc, called at the end of Bridge::new.    *)

Expired(time) ==
    {g \in DOMAIN configurations \cap Ton : is_expired(configurations[g], time)}

(* has_expired_ton_event_configurations, with the lock for reading.        *)
GcWake ==
    /\ startup.pc = "done" /\ gc.pc = "sleep" /\ Expired(utime) # {}
    /\ gc' = [gc EXCEPT !.pc = "wait"]
    /\ UNCHANGED <<chain, channels, startup, state, task, missed, stale, past>>

(* wait_shards: its time is that of the shards it returns.                 *)
GcWait ==
    /\ gc.pc = "wait"
    /\ gc' = [pc |-> "remove", utime |-> utime]
    /\ UNCHANGED <<chain, channels, startup, state, task, missed, stale, past>>

GcWaitFails ==
    /\ gc.pc = "wait"
    /\ gc' = [gc EXCEPT !.pc = "sleep"]
    /\ UNCHANGED <<chain, channels, startup, state, task, missed, stale, past>>

SubtractRemoved(n) == [total EXCEPT !["Ton"] = @ - n]

GcRemove ==
    LET removed == Expired(gc.utime)
    IN  /\ gc.pc = "remove"
        /\ gc' = [pc |-> "sleep", utime |-> 0]
        /\ configurations' = [g \in DOMAIN configurations \ removed |-> configurations[g]]
        /\ total' = SubtractRemoved(Cardinality(removed))
        /\ stale' = stale \cup (removed \ past)
        /\ UNCHANGED <<chain, channels, startup, connectors, hashes, task, missed, past>>

-----------------------------------------------------------------------------
Chain ==
    \/ \E c \in Connectors : DeployConnector(c) \/ ConnectorAppears(c) \/ Enable(c)
    \/ \E g \in Configurations : DeployConfiguration(g) \/ \E e \in Ends : SetEnd(g, e)
    \/ Tick

Startup ==
    \/ StartupLoad \/ StartupDone
    \/ \E c \in Connectors : StartupConnector(c) \/ StartupSkips(c)
Bridge == \E c \in Connectors : process_bridge_event(c)
Check(t) == CheckConnector(t) \/ CheckConfiguration(t) \/ CheckAdds(t)
Collector == GcWake \/ GcWait \/ GcWaitFails \/ GcRemove

Next ==
    \/ Chain \/ Startup \/ Bridge \/ process_connector_event
    \/ \E t \in Tasks : Check(t) \/ CheckFails(t)
    \/ \E t \in Types : process_event_configuration_event(t)
    \/ Collector

Spec == Init /\ [][Next]_vars

(* Tasks that can run do.  Nothing is assumed of the chain, but that a     *)
(* contract the bridge has announced does appear.                          *)
Fairness ==
    /\ \A c \in Connectors : WF_vars(ConnectorAppears(c))
    /\ WF_vars(Startup) /\ WF_vars(Bridge) /\ WF_vars(process_connector_event)
    /\ \A t \in Tasks : WF_vars(Check(t))

FairSpec == Spec /\ Fairness

-----------------------------------------------------------------------------
(* The counters that the metrics report are the sizes of the maps, with    *)
(* any two checks of one configuration, and the collector, in a race       *)
(* (827-850, 894-919, 1141-1156).                                          *)
OfType(t) == {g \in DOMAIN configurations : Type(g) = t}
CountersExact == \A t \in Types : total[t] = Cardinality(OfType(t))

(* The end of a configuration that the relay uses is the one on chain, or  *)
(* the change is queued (208-216, 240-248), unless it was changed between  *)
(* the reading of the contract and the subscription (657-670, 921-924).    *)
LastQueued(g, i) ==
    LET queue == endEvents[Type(g)]
    IN  /\ queue[i].account = g
        /\ \A j \in DOMAIN queue : j > i => queue[j].account # g

EndsFollow ==
    \A g \in DOMAIN configurations \ stale :
        IF Queued(g)
        THEN \E i \in DOMAIN endEvents[Type(g)] :
                LastQueued(g, i) /\ endEvents[Type(g)][i].end = end[g]
        ELSE configurations[g] = end[g]

(* The collector drops a configuration only if it has been expired on      *)
(* chain, or if the relay does not have its end yet: to decide again with  *)
(* the lock and with the time of the shards (1124-1152) is safe.           *)
RemovedOnlyExpired ==
    [][\A g \in DOMAIN configurations \ DOMAIN configurations' :
          g \in past \/ g \in stale \/ Queued(g)]_vars

(* An enabled connector is never forgotten: its configuration is known, or *)
(* must not be, or an event or a task will bring the relay to it.  The     *)
(* exceptions are what the start leaves behind (680-749) and the errors of *)
(* a check (642-660).                                                      *)
Settled(c) ==
    LET g == Target[c]
    IN  \/ g \in DOMAIN configurations
        \/ g \in Refused \/ CodeClash(g) \/ g \in past \/ g \in stale
        \/ c \in missed

OnItsWay(c) ==
    \/ startup.pc = "lock"
    \/ startup.pc = "apply" /\ startup.id <= c
    \/ \E i \in DOMAIN bridgeEvents : bridgeEvents[i] = c
    \/ \E i \in DOMAIN connectorEvents : connectorEvents[i] = c
    \/ \E t \in Tasks : task[t].connector = c /\ task[t].pc # "none"

NoneForgotten ==
    \A c \in Connectors : connector[c] = "enabled" => Settled(c) \/ OnItsWay(c)

(* If every enabled connector gets its configuration - one that does not   *)
(* blocks the listener for all others (185-192, 658) - all of them are     *)
(* settled in the end.                                                     *)
AllDeployed == \A c \in Connectors : connector[c] = "enabled" => Target[c] \in deployed

ConfigurationsKnown ==
    <>[]AllDeployed => <>[](\A c \in Connectors : connector[c] = "enabled" => Settled(c))
=============================================================================
