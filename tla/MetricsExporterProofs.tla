------------------------ MODULE MetricsExporterProofs ------------------------
(***************************************************************************)
(* Proofs about the double buffer of the metrics and its reload.           *)
(***************************************************************************)
EXTENDS MetricsExporter, TLAPS

(* The buffer that is being filled is not the current one before Publish   *)
(* and is the current one from then on.                                    *)
BufferInv ==
    /\ collector.pc \in {"write", "publish"} => collector.buf # current
    /\ collector.pc = "release" => collector.buf = current

(* The newest collection is in the current buffer, or about to be          *)
(* published; every buffer that is not being filled is whole.              *)
DataInv ==
    /\ \A b \in Buffers :
          ~(collector.pc = "write" /\ collector.buf = b) => data[b] \in 0..gen
    /\ collector.pc = "publish" => data[collector.buf] = gen
    /\ collector.pc # "publish" => data[current] = gen

(* What was returned is not newer than the current buffer, and what a      *)
(* request has loaded the index of is not older than what was returned     *)
(* before, unless it is being filled again with something newer.           *)
ReaderInv ==
    /\ 0 <= seen /\ seen <= data[current]
    /\ \A r \in Readers : reader[r].pc = "read" =>
          /\ reader[r].floor <= seen
          /\ \/ collector.pc = "write" /\ collector.buf = reader[r].buf
             \/ data[reader[r].buf] >= reader[r].floor

ExporterInv == TypeOK /\ BufferInv /\ DataInv /\ ReaderInv

(* The invariant holds at the start.                                       *)
LEMMA ExporterInit == Init => ExporterInv
<1> SUFFICES ASSUME Init PROVE ExporterInv
  OBVIOUS
<1> USE MetricsAssumption
<1>1. TypeOK
  <2>1. notified \in BOOLEAN
    BY Zenon DEF Init
  <2>2. /\ interval \in Intervals \cup {0} /\ server \in {"none", "serving", "stopping"}
        /\ reload \in [pc : ReloadPc, config : Intervals \cup {NoConfig}]
    BY DEF Init, ReloadPc
  <2>3. /\ collector \in [pc : CollectorPc, buf : Buffers]
        /\ reader \in [Readers -> [pc : {"idle", "read"}, buf : Buffers, floor : 0..MaxGen]]
    BY DEF Init, CollectorPc, Buffers
  <2> QED BY <2>1, <2>2, <2>3 DEF Init, TypeOK, Buffers
<1>2. BufferInv /\ DataInv
  BY DEF Init, BufferInv, DataInv, Buffers
<1>3. ReaderInv
  BY DEF Init, ReaderInv, Buffers
<1> QED BY <1>1, <1>2, <1>3 DEF ExporterInv

(* The collector.                                                          *)
LEMMA CollectPreserves == ASSUME ExporterInv, Collect PROVE ExporterInv'
<1> USE MetricsAssumption DEF ExporterInv, TypeOK, Buffers, CollectorPc, Partial, CollectorStep
<1>1. ASSUME acquire_buffer PROVE ExporterInv'
  <2> DEFINE n == NextBuffer(current)
  <2>1. n \in Buffers /\ n # current
    BY DEF NextBuffer
  <2>2. TypeOK'
    BY <1>1, <2>1 DEF acquire_buffer, control
  <2>3. BufferInv' /\ DataInv'
    BY <1>1, <2>1 DEF acquire_buffer, BufferInv, DataInv
  <2>4. ReaderInv'
    BY <1>1, <2>1 DEF acquire_buffer, ReaderInv, control
  <2> QED BY <2>2, <2>3, <2>4
<1>2. ASSUME WriteMetrics PROVE ExporterInv'
  <2>1. TypeOK'
    BY <1>2 DEF WriteMetrics, control
  <2>2. BufferInv' /\ DataInv'
    BY <1>2 DEF WriteMetrics, BufferInv, DataInv
  <2>3. ReaderInv'
    BY <1>2 DEF WriteMetrics, BufferInv, DataInv, ReaderInv, control
  <2> QED BY <2>1, <2>2, <2>3
<1>3. ASSUME Publish PROVE ExporterInv'
  <2>1. TypeOK'
    BY <1>3 DEF Publish, control
  <2>2. BufferInv' /\ DataInv'
    BY <1>3 DEF Publish, BufferInv, DataInv
  <2>3. ReaderInv'
    BY <1>3 DEF Publish, BufferInv, DataInv, ReaderInv, control
  <2> QED BY <2>1, <2>2, <2>3
<1>4. ASSUME Release PROVE ExporterInv'
  <2>1. TypeOK'
    BY <1>4 DEF Release, control
  <2>2. BufferInv' /\ DataInv' /\ ReaderInv'
    BY <1>4 DEF Release, BufferInv, DataInv, ReaderInv, control
  <2> QED BY <2>1, <2>2
<1> QED BY <1>1, <1>2, <1>3, <1>4 DEF Collect

(* wait touches no buffer.                                                 *)
LEMMA WaitPreserves == ASSUME ExporterInv, Wait PROVE ExporterInv'
<1> USE MetricsAssumption DEF ExporterInv, TypeOK, CollectorPc, CollectorStep
<1>1. /\ collector.pc \notin {"write", "publish", "release"}
      /\ collector'.pc \notin {"write", "publish", "release"}
      /\ UNCHANGED <<data, current, gen, reader, seen, server, reload>>
  BY DEF Wait, Register, LoadInterval, AwaitConfig, SleepEnds, Notified, control
<1>2. TypeOK'
  BY DEF Wait, Register, LoadInterval, AwaitConfig, SleepEnds, Notified, control
<1>3. BufferInv' /\ DataInv' /\ ReaderInv'
  BY <1>1 DEF BufferInv, DataInv, ReaderInv
<1> QED BY <1>2, <1>3

(* A request and its response.                                             *)
LEMMA ReadersPreserve ==
    ASSUME ExporterInv, NEW r \in Readers, Request(r) \/ Respond(r) PROVE ExporterInv'
<1> USE MetricsAssumption DEF ExporterInv, TypeOK, Buffers
<1>1. ASSUME Request(r) PROVE ExporterInv'
  <2>1. TypeOK'
    BY <1>1 DEF Request, collection, control, DataInv, ReaderInv, Partial
  <2>2. ReaderInv'
    BY <1>1 DEF Request, collection, ReaderInv, Partial
  <2>3. BufferInv' /\ DataInv'
    BY <1>1 DEF Request, collection, control, BufferInv, DataInv
  <2> QED BY <2>1, <2>2, <2>3
<1>2. ASSUME Respond(r) PROVE ExporterInv'
  <2>1. data[reader[r].buf] \in 0..gen /\ data[reader[r].buf] <= data[current]
    BY <1>2 DEF Respond, Locked, BufferInv, DataInv
  <2>2. TypeOK'
    BY <1>2, <2>1 DEF Respond, collection, control
  <2>3. seen' >= seen /\ seen' <= data[current]
    BY <1>2, <2>1 DEF Respond, ReaderInv, Partial
  <2>4. ReaderInv'
    BY <1>2, <2>3 DEF Respond, collection, ReaderInv, Partial
  <2>5. BufferInv' /\ DataInv'
    BY <1>2 DEF Respond, collection, control, BufferInv, DataInv
  <2> QED BY <2>2, <2>4, <2>5
<1> QED BY <1>1, <1>2

(* The reload and the server.                                              *)
LEMMA ControlPreserves ==
    ASSUME ExporterInv,
           \/ \E c \in Intervals \cup {NoConfig} : ReloadStart(c)
           \/ Reload \/ ServerStops \/ ServerFails
    PROVE  ExporterInv'
<1> USE MetricsAssumption
        DEF Reload, ReloadStart, ReloadStopped, ReloadBind, ReloadStore, ReloadNotify, ServerStops,
            ServerFails
<1>1. UNCHANGED <<collection, reader, seen>>
  OBVIOUS
<1>2. TypeOK'
  <2>1. notified' \in BOOLEAN
    BY Zenon DEF ExporterInv, TypeOK
  <2>2. /\ interval' \in Intervals \cup {0}
        /\ server' \in {"none", "serving", "stopping"}
        /\ reload' \in [pc : ReloadPc, config : Intervals \cup {NoConfig}]
        /\ reloads' \in 0..MaxReloads
    BY DEF ExporterInv, TypeOK, ReloadPc
  <2> QED BY <1>1, <2>1, <2>2 DEF ExporterInv, TypeOK, collection
<1>3. BufferInv' /\ DataInv' /\ ReaderInv'
  BY <1>1 DEF ExporterInv, BufferInv, DataInv, ReaderInv, collection
<1> QED BY <1>2, <1>3 DEF ExporterInv

(* Every reachable state satisfies the invariant.                          *)
LEMMA ExporterInvariant == Spec => []ExporterInv
<1>1. Init => ExporterInv
  BY ExporterInit
<1>2. ExporterInv /\ [Next]_vars => ExporterInv'
  <2> SUFFICES ASSUME ExporterInv, [Next]_vars PROVE ExporterInv'
    OBVIOUS
  <2>1. CASE UNCHANGED vars
    BY <2>1 DEF vars, collection, control, ExporterInv, TypeOK, BufferInv, DataInv, ReaderInv
  <2> QED
    BY <2>1, CollectPreserves, WaitPreserves, ReadersPreserve, ControlPreserves DEF Next
<1> QED
  BY <1>1, <1>2, PTL DEF Spec

(* For any number of connections, collections and reloads: a response is a *)
(* whole collection, not older than one returned before its request.       *)
THEOREM ScrapesAreMonotone == Spec => [](TypeOK /\ ScrapesMonotone)
<1>1. ExporterInv => TypeOK /\ ScrapesMonotone
  BY DEF ExporterInv, ReaderInv, ScrapesMonotone, Locked
<1> QED
  BY <1>1, ExporterInvariant, PTL
=============================================================================
