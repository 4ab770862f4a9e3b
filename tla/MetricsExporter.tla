--------------------------- MODULE MetricsExporter ---------------------------
(***************************************************************************)
(* src/engine/metrics_exporter/mod.rs with the loop that feeds it          *)
(* (Engine::start_metrics_exporter) and the reload on SIGHUP: the metrics  *)
(* are collected into one of two buffers while the other one is served.    *)
(* The text of the metrics is left out: a collection is a number.          *)
(***************************************************************************)
EXTENDS Integers

CONSTANTS
    Readers,     \* http connections
    Intervals,   \* values of collection_interval_sec in the config
    MaxGen,      \* bound: collections told apart; the last one stands for all later
    MaxReloads   \* bound: reloads

ASSUME MetricsAssumption ==
    /\ Intervals \subseteq Nat
    /\ MaxGen \in Nat \ {0} /\ MaxReloads \in Nat

VARIABLES
    data,       \* data[b]: the collection in buffer b, or Partial
    current,    \* current_buffer
    gen,        \* number of collections
    collector,  \* the task of start_metrics_exporter: [pc, buf]
    notified,   \* its Notified future has completed
    interval,   \* interval_sec, 0 without a config or if the config says so
    reader,     \* requests: [pc, buf, floor]
    seen,       \* the newest collection that was returned
    server,     \* the http server
    reload,     \* the reload that holds running_endpoint: [pc, config]
    reloads

collection == <<data, current, gen, collector>>
control == <<notified, interval, server, reload, reloads>>
vars == <<collection, control, reader, seen>>

Buffers == {0, 1}
Partial == -1
NoConfig == -1  \* a reload without a config

CollectorPc == {"acquire", "write", "publish", "release", "register", "load", "zero", "idle",
                "sleep"}
ReloadPc == {"none", "stop", "bind", "store", "notify"}

TypeOK ==
    /\ data \in [Buffers -> {Partial} \cup 0..MaxGen]
    /\ current \in Buffers /\ gen \in 0..MaxGen
    /\ collector \in [pc : CollectorPc, buf : Buffers]
    /\ notified \in BOOLEAN /\ interval \in Intervals \cup {0}
    /\ reader \in [Readers -> [pc : {"idle", "read"}, buf : Buffers, floor : 0..MaxGen]]
    /\ seen \in {Partial} \cup 0..MaxGen
    /\ server \in {"none", "serving", "stopping"}
    /\ reload \in [pc : ReloadPc, config : Intervals \cup {NoConfig}]
    /\ reloads \in 0..MaxReloads

Init ==
    /\ data = [b \in Buffers |-> 0] /\ current = 0 /\ gen = 0
    /\ collector = [pc |-> "acquire", buf |-> 0]
    /\ notified = FALSE
    /\ \/ interval = 0 /\ server = "none"
       \/ interval \in Intervals /\ server = "serving"
    /\ reader = [r \in Readers |-> [pc |-> "idle", buf |-> 0, floor |-> 0]]
    /\ seen = 0
    /\ reload = [pc |-> "none", config |-> NoConfig] /\ reloads = 0

CollectorStep(from, to) ==
    /\ collector.pc = from
    /\ collector' = [collector EXCEPT !.pc = to]

-----------------------------------------------------------------------------
(* Plausible mistakes, used to see that the properties notice them.        *)

UnlockFirst(b) == collector.pc = "write" /\ collector.buf = b

PolledFutures == {"idle", "sleep"}

NeverStops ==
    /\ server = "stopping" /\ \A r \in Readers : reader[r].pc = "read"
    /\ server' = "none"
    /\ UNCHANGED <<collection, notified, interval, reload, reloads, reader, seen>>

-----------------------------------------------------------------------------
(* start_metrics_exporter, Buffers and MetricsBuffer.                      *)

(* The write guard of a buffer is held.                                    *)
Locked(b) == collector.pc \in {"write", "publish", "release"} /\ collector.buf = b

NextBuffer(b) == (b + 1) % 2

(* acquire_buffer clears the buffer once it has the write guard; readers   *)
(* hold theirs only while they copy.                                       *)
acquire_buffer ==
    /\ collector.pc = "acquire"
    /\ collector' = [pc |-> "write", buf |-> NextBuffer(current)]
    /\ data' = [data EXCEPT ![NextBuffer(current)] = Partial]
    /\ UNCHANGED <<current, gen, control, reader, seen>>

WriteMetrics ==
    LET g == IF gen < MaxGen THEN gen + 1 ELSE gen
    IN  /\ CollectorStep("write", "publish")
        /\ gen' = g
        /\ data' = [data EXCEPT ![collector.buf] = g]
        /\ UNCHANGED <<current, control, reader, seen>>

(* Drop::drop runs before the guard, a field of the buffer, is dropped.    *)
Publish ==
    /\ CollectorStep("publish", "release")
    /\ current' = collector.buf
    /\ UNCHANGED <<data, gen, control, reader, seen>>

Release ==
    /\ CollectorStep("release", "register")
    /\ UNCHANGED <<data, current, gen, control, reader, seen>>

-----------------------------------------------------------------------------
(* MetricsExporterHandle::wait.                                            *)

Register ==
    /\ CollectorStep("register", "load")
    /\ notified' = FALSE
    /\ UNCHANGED <<data, current, gen, interval, server, reload, reloads, reader, seen>>

LoadInterval ==
    /\ CollectorStep("load", IF interval = 0 THEN "zero" ELSE "sleep")
    /\ UNCHANGED <<data, current, gen, control, reader, seen>>

(* Without a config: new_config.await, which polls the future.             *)
AwaitConfig ==
    /\ CollectorStep("zero", "idle")
    /\ UNCHANGED <<data, current, gen, control, reader, seen>>

SleepEnds ==
    /\ CollectorStep("sleep", "acquire")
    /\ UNCHANGED <<data, current, gen, control, reader, seen>>

(* A new config: collect at once, unless there is none now.                *)
Notified ==
    /\ notified
    /\ \/ CollectorStep("idle", "register")
       \/ CollectorStep("sleep", IF interval > 0 THEN "acquire" ELSE "register")
    /\ UNCHANGED <<data, current, gen, control, reader, seen>>

-----------------------------------------------------------------------------
(* get_metrics: loads the index, then waits for the read guard.            *)

Request(r) ==
    /\ server = "serving" /\ reader[r].pc = "idle"
    /\ reader' = [reader EXCEPT ![r] = [pc |-> "read", buf |-> current, floor |-> seen]]
    /\ UNCHANGED <<collection, control, seen>>

Respond(r) ==
    LET got == data[reader[r].buf]
    IN  /\ reader[r].pc = "read" /\ ~Locked(reader[r].buf)
        /\ reader' = [reader EXCEPT ![r] = [pc |-> "idle", buf |-> 0, floor |-> 0]]
        /\ seen' = IF got > seen THEN got ELSE seen
        /\ UNCHANGED <<collection, control>>

-----------------------------------------------------------------------------
(* reload, called for one SIGHUP after the other.  A server that was asked *)
(* to stop answers the requests it has.                                    *)

ReloadStart(c) ==
    /\ reload.pc = "none" /\ reloads < MaxReloads
    /\ reloads' = reloads + 1
    /\ reload' = [pc |-> "stop", config |-> c]
    /\ server' = IF server = "serving" THEN "stopping" ELSE server
    /\ UNCHANGED <<collection, notified, interval, reader, seen>>

ServerStops ==
    /\ server = "stopping" /\ \A r \in Readers : reader[r].pc = "idle"
    /\ server' = "none"
    /\ UNCHANGED <<collection, notified, interval, reload, reloads, reader, seen>>

(* The server ends with an error, which is only logged.                    *)
ServerFails ==
    /\ server = "serving"
    /\ server' = "none"
    /\ UNCHANGED <<collection, notified, interval, reload, reloads, reader, seen>>

(* stopped_signal.await.                                                   *)
ReloadStopped ==
    /\ reload.pc = "stop" /\ server = "none"
    /\ reload' = [reload EXCEPT !.pc = IF reload.config = NoConfig THEN "store" ELSE "bind"]
    /\ UNCHANGED <<collection, notified, interval, server, reloads, reader, seen>>

(* try_bind fails if the port is in use; then there is no server.          *)
ReloadBind ==
    /\ reload.pc = "bind"
    /\ \/ /\ server = "none"
          /\ server' = "serving" /\ reload' = [reload EXCEPT !.pc = "store"]
       \/ reload' = [reload EXCEPT !.pc = "none"] /\ UNCHANGED server
    /\ UNCHANGED <<collection, notified, interval, reloads, reader, seen>>

ReloadStore ==
    /\ reload.pc = "store"
    /\ interval' = IF reload.config = NoConfig THEN 0 ELSE reload.config
    /\ reload' = [reload EXCEPT !.pc = "notify"]
    /\ UNCHANGED <<collection, notified, server, reloads, reader, seen>>

(* notify_waiters completes the future of `wait` from its creation on,     *)
(* whether or not it has been polled.                                      *)
FutureExists == {"load", "zero", "idle", "sleep"}

ReloadNotify ==
    /\ reload.pc = "notify"
    /\ notified' = (notified \/ collector.pc \in FutureExists)
    /\ reload' = [reload EXCEPT !.pc = "none"]
    /\ UNCHANGED <<collection, interval, server, reloads, reader, seen>>

-----------------------------------------------------------------------------
Collect == acquire_buffer \/ WriteMetrics \/ Publish \/ Release

Wait == Register \/ LoadInterval \/ AwaitConfig \/ SleepEnds \/ Notified

Reload == ReloadStopped \/ ReloadBind \/ ReloadStore \/ ReloadNotify

Next ==
    \/ Collect \/ Wait
    \/ \E r \in Readers : Request(r) \/ Respond(r)
    \/ \E c \in Intervals \cup {NoConfig} : ReloadStart(c)
    \/ Reload \/ ServerStops \/ ServerFails

Spec == Init /\ [][Next]_vars

(* Tasks are scheduled; requests and signals come or not.                  *)
Fairness ==
    /\ WF_vars(Collect) /\ WF_vars(Wait) /\ WF_vars(Reload) /\ WF_vars(ServerStops)
    /\ \A r \in Readers : SF_vars(Respond(r))

FairSpec == Spec /\ Fairness

-----------------------------------------------------------------------------
(* A response is a whole collection, and not older than one that had been  *)
(* returned before the request came: the index may change twice between    *)
(* loading it and reading the buffer, and it is stored before the guard of *)
(* the new buffer is dropped (222-261).                                    *)
ScrapesMonotone ==
    \A r \in Readers :
        reader[r].pc = "read" /\ ~Locked(reader[r].buf)
            => data[reader[r].buf] >= reader[r].floor

(* No wake-up is lost: once there is an interval for good, metrics are     *)
(* collected again and again, whenever the reload came (168-197).          *)
CollectionsContinue == <>[](interval > 0) => []<>(collector.pc = "acquire")

(* A reload ends, although it waits for the server, the server for its     *)
(* requests, and these for the collector.                                  *)
ReloadEnds == reload.pc # "none" ~> reload.pc = "none"
=============================================================================
