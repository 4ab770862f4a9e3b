--------------------- MODULE PendingMessagesQueueProofs ---------------------
(***************************************************************************)
(* Proofs about PendingMessagesQueue for every set of messages and shards. *)
(***************************************************************************)
EXTENDS PendingMessagesQueue, FiniteSetTheorems, WellFoundedInduction, TLAPS

(* A nonempty set of naturals has a least element, and Min returns it.     *)
LEMMA MinIsLeast ==
    ASSUME NEW S, S \subseteq Nat, S # {}
    PROVE  Min(S) \in S /\ \A y \in S : Min(S) <= y
<1> DEFINE R == OpToRel(<, Nat)
<1>1. R = {ss \in Nat \X Nat : ss[1] < ss[2]}
  BY DEF OpToRel
<1>2. IsWellFoundedOn(R, Nat)
  BY NatLessThanWellFounded
<1> HIDE DEF R
<1>3. PICK x \in S : \A y \in S : ~(<<y, x>> \in R)
  BY <1>2, WFMin
<1>4. \A y \in S : x <= y
  <2> SUFFICES ASSUME NEW y \in S, y < x PROVE FALSE
    OBVIOUS
  <2>1. <<y, x>> \in R
    BY <1>1
  <2> QED BY <1>3, <2>1
<1> QED
  BY <1>4 DEF Min

(* The loops over the map return a u32 that is u32::MAX or a deadline of   *)
(* the map, and no deadline of the map is below it.                        *)
LEMMA MinOfProperties ==
    ASSUME NEW f, f \in [DOMAIN f -> Utime]
    PROVE  /\ MinOf(f) \in Utime
           /\ MinOf(f) = U32Max \/ \E m \in DOMAIN f : MinOf(f) = f[m]
           /\ \A m \in DOMAIN f : MinOf(f) <= f[m]
<1> DEFINE S == {U32Max} \cup {f[m] : m \in DOMAIN f}
<1>1. S \subseteq Utime /\ S # {} /\ Utime \subseteq Nat
  BY ConstAssumption DEF Utime
<1>2. Min(S) \in S /\ \A y \in S : Min(S) <= y
  <2> HIDE DEF S
  <2> QED BY <1>1, MinIsLeast
<1> QED
  BY <1>1, <1>2 DEF MinOf

(* The least deadline of a map is determined by what MinOfProperties says. *)
LEMMA MinOfUnique ==
    ASSUME NEW f, f \in [DOMAIN f -> Utime], NEW v \in Utime,
           v = U32Max \/ \E m \in DOMAIN f : v = f[m],
           \A m \in DOMAIN f : v <= f[m]
    PROVE  MinOf(f) = v
<1>1. /\ MinOf(f) \in Utime
      /\ MinOf(f) = U32Max \/ \E m \in DOMAIN f : MinOf(f) = f[m]
      /\ \A m \in DOMAIN f : MinOf(f) <= f[m]
  BY MinOfProperties
<1>2. v \in Nat /\ MinOf(f) \in Nat /\ v <= U32Max /\ MinOf(f) <= U32Max
  BY <1>1, ConstAssumption DEF Utime
<1>3. v <= MinOf(f)
  BY <1>1, <1>2
<1>4. MinOf(f) <= v
  BY <1>1, <1>2
<1> QED
  BY <1>2, <1>3, <1>4

(* fetch_min of the new deadline gives the least deadline of the new map.  *)
LEMMA MinOfInsert ==
    ASSUME NEW f, f \in [DOMAIN f -> Utime], NEW m, NEW e \in Utime
    PROVE  m \notin DOMAIN f => MinOf(Put(f, m, e)) = Min({MinOf(f), e})
<1> SUFFICES ASSUME m \notin DOMAIN f
             PROVE  MinOf(Put(f, m, e)) = Min({MinOf(f), e})
  OBVIOUS
<1> DEFINE g == Put(f, m, e)
           v == Min({MinOf(f), e})
<1>1. /\ DOMAIN g = DOMAIN f \cup {m}
      /\ g[m] = e
      /\ \A k \in DOMAIN f : g[k] = f[k]
      /\ g \in [DOMAIN g -> Utime]
  BY DEF Put
<1>2. /\ MinOf(f) \in Utime
      /\ MinOf(f) = U32Max \/ \E k \in DOMAIN f : MinOf(f) = f[k]
      /\ \A k \in DOMAIN f : MinOf(f) <= f[k]
  BY MinOfProperties
<1>3. MinOf(f) \in Nat /\ e \in Nat /\ e <= U32Max /\ MinOf(f) <= U32Max
      /\ \A k \in DOMAIN f : f[k] \in Nat
  BY <1>2, ConstAssumption DEF Utime
<1>4. v \in {MinOf(f), e} /\ v <= MinOf(f) /\ v <= e
  <2>1. {MinOf(f), e} \subseteq Nat /\ {MinOf(f), e} # {}
    BY <1>3
  <2> QED BY <2>1, MinIsLeast
<1>5. v \in Utime
  BY <1>2, <1>4
<1>6. v = U32Max \/ \E k \in DOMAIN g : v = g[k]
  BY <1>1, <1>2, <1>4
<1>7. \A k \in DOMAIN g : v <= g[k]
  BY <1>1, <1>2, <1>3, <1>4
<1> HIDE DEF g, v
<1>8. MinOf(g) = v
  BY <1>1, <1>5, <1>6, <1>7, MinOfUnique
<1> QED
  BY <1>8 DEF g, v

(* Removing an entry whose deadline is not the least leaves the least one. *)
LEMMA MinOfRemoveOther ==
    ASSUME NEW f, f \in [DOMAIN f -> Utime], NEW m \in DOMAIN f,
           MinOf(f) # f[m]
    PROVE  MinOf(Drop(f, {m})) = MinOf(f)
<1> DEFINE g == Drop(f, {m})
<1>1. /\ DOMAIN g = DOMAIN f \ {m}
      /\ \A k \in DOMAIN g : g[k] = f[k]
      /\ g \in [DOMAIN g -> Utime]
  BY DEF Drop
<1>2. /\ MinOf(f) \in Utime
      /\ MinOf(f) = U32Max \/ \E k \in DOMAIN f : MinOf(f) = f[k]
      /\ \A k \in DOMAIN f : MinOf(f) <= f[k]
  BY MinOfProperties
<1>3. MinOf(f) = U32Max \/ \E k \in DOMAIN g : MinOf(f) = g[k]
  BY <1>1, <1>2
<1>4. \A k \in DOMAIN g : MinOf(f) <= g[k]
  BY <1>1, <1>2
<1> HIDE DEF g
<1>5. MinOf(g) = MinOf(f)
  BY <1>1, <1>2, <1>3, <1>4, MinOfUnique
<1> QED
  BY <1>5 DEF g

-----------------------------------------------------------------------------
(* Everything the queue maintains, as one inductive invariant: the         *)
(* deadline cache is exact only together with the types of the map, and    *)
(* the counter only while the map is finite.                               *)
QueueInv == TypeOK /\ MinExpireAtExact /\ CountExact /\ WaiterHasEntry

(* The empty queue that PendingMessagesQueue::new builds satisfies QueueInv. *)
LEMMA QueueInit == Init => QueueInv
<1> SUFFICES ASSUME Init PROVE QueueInv
  OBVIOUS
<1> USE DEF Init, EmptyMap
<1>1. TypeOK
  BY ConstAssumption DEF TypeOK, Utime, RxValue
<1>2. MinExpireAtExact
  <2>1. entries \in [DOMAIN entries -> Utime] /\ DOMAIN entries = {}
    OBVIOUS
  <2>2. U32Max \in Utime
    BY ConstAssumption DEF Utime
  <2>3. MinOf(entries) = U32Max
    BY <2>1, MinOfProperties
  <2> QED BY <2>3 DEF MinExpireAtExact
<1>3. CountExact
  BY FS_EmptySet DEF CountExact
<1>4. WaiterHasEntry
  BY DEF WaiterHasEntry
<1> QED
  BY <1>1, <1>2, <1>3, <1>4 DEF QueueInv

(* add_message preserves QueueInv.                                         *)
LEMMA AddPreserves ==
    ASSUME QueueInv, NEW m \in Msgs, NEW e \in Utime, add_message(m, e)
    PROVE  QueueInv'
<1> USE DEF QueueInv, add_message
<1>1. /\ DOMAIN entries' = DOMAIN entries \cup {m}
      /\ entries'[m] = e
      /\ entries' \in [DOMAIN entries' -> Utime]
  BY DEF TypeOK, Put
<1>2. min_expire_at' = MinOf(entries')
  BY MinOfInsert DEF TypeOK, MinExpireAtExact
<1>3. TypeOK'
  <2>1. min_expire_at' \in Utime
    BY <1>1, <1>2, MinOfProperties
  <2> QED BY <1>1, <2>1 DEF TypeOK, RxValue
<1>4. CountExact'
  <2>1. IsFiniteSet(DOMAIN entries) /\ m \notin DOMAIN entries
    BY DEF CountExact
  <2>2. /\ IsFiniteSet(DOMAIN entries \cup {m})
        /\ Cardinality(DOMAIN entries \cup {m}) = Cardinality(DOMAIN entries) + 1
    BY <2>1, FS_AddElement
  <2> QED BY <1>1, <2>2 DEF CountExact
<1>5. WaiterHasEntry'
  BY <1>1 DEF WaiterHasEntry, TypeOK
<1> QED
  BY <1>2, <1>3, <1>4, <1>5 DEF MinExpireAtExact

(* deliver_message preserves QueueInv.                                     *)
LEMMA DeliverPreserves ==
    ASSUME QueueInv, NEW m \in Msgs, deliver_message(m)
    PROVE  QueueInv'
<1> USE DEF QueueInv, deliver_message
<1>1. /\ DOMAIN entries' = DOMAIN entries \ {m}
      /\ entries' \in [DOMAIN entries' -> Utime]
  BY DEF TypeOK, Drop
<1>2. min_expire_at' = MinOf(entries')
  BY MinOfRemoveOther DEF TypeOK, MinExpireAtExact
<1>3. CountExact' /\ entry_count' \in Nat
  <2>1. IsFiniteSet(DOMAIN entries) /\ m \in DOMAIN entries
    BY DEF CountExact
  <2>2. /\ IsFiniteSet(DOMAIN entries \ {m})
        /\ Cardinality(DOMAIN entries \ {m}) = Cardinality(DOMAIN entries) - 1
    BY <2>1, FS_RemoveElement
  <2>3. Cardinality(DOMAIN entries \ {m}) \in Nat
    BY <2>2, FS_CardinalityType
  <2> QED BY <1>1, <2>2, <2>3 DEF CountExact
<1>4. TypeOK'
  <2>1. min_expire_at' \in Utime
    BY <1>1, <1>2, MinOfProperties
  <2> QED BY <1>1, <1>3, <2>1 DEF TypeOK, RxValue
<1>5. WaiterHasEntry'
  BY <1>1 DEF WaiterHasEntry, TypeOK
<1> QED
  BY <1>2, <1>3, <1>4, <1>5 DEF MinExpireAtExact

(* The locked half of update preserves QueueInv.                           *)
LEMMA BodyPreserves ==
    ASSUME QueueInv, NEW s \in Shards, UpdateBody(s)
    PROVE  QueueInv'
<1> USE DEF QueueInv, UpdateBody, Retain
<1> DEFINE gone == Expired(entries, s, utime[s])
<1>1. gone \subseteq DOMAIN entries
  BY DEF Expired
<1>2. /\ DOMAIN entries' = DOMAIN entries \ gone
      /\ entries' \in [DOMAIN entries' -> Utime]
  BY DEF TypeOK, Drop
<1>3. CountExact' /\ entry_count' \in Nat
  <2>1. IsFiniteSet(DOMAIN entries')
    BY <1>2, FS_Subset DEF CountExact
  <2>2. Cardinality(DOMAIN entries') \in Nat
    BY <2>1, FS_CardinalityType
  <2> QED BY <2>1, <2>2 DEF CountExact
<1>4. TypeOK'
  <2>1. min_expire_at' \in Utime
    BY <1>2, MinOfProperties
  <2> QED BY <1>2, <1>3, <2>1 DEF TypeOK, RxValue
<1>5. WaiterHasEntry'
  <2> HIDE DEF gone
  <2>1. rx' = [m \in Msgs |-> IF m \in gone THEN "Expired" ELSE rx[m]]
    BY DEF gone
  <2> QED BY <1>1, <1>2, <2>1 DEF WaiterHasEntry, TypeOK
<1> QED
  BY <1>3, <1>4, <1>5 DEF MinExpireAtExact

(* Every step of every thread preserves QueueInv.                          *)
LEMMA QueueNext == QueueInv /\ [Next]_vars => QueueInv'
<1> SUFFICES ASSUME QueueInv, [Next]_vars PROVE QueueInv'
  OBVIOUS
<1>1. ASSUME NEW m \in Msgs, NEW e \in Utime, add_message(m, e) PROVE QueueInv'
  BY <1>1, AddPreserves
<1>2. ASSUME NEW m \in Msgs, Deliver(m) PROVE QueueInv'
  BY <1>2, DeliverPreserves DEF Deliver
<1>3. ASSUME NEW s \in Shards, NEW t \in Utime, UpdateCheck(s, t) PROVE QueueInv'
  BY <1>3 DEF QueueInv, UpdateCheck, TypeOK, MinExpireAtExact, CountExact,
              WaiterHasEntry
<1>4. ASSUME NEW s \in Shards, UpdateBody(s) PROVE QueueInv'
  BY <1>4, BodyPreserves
<1>5. CASE UNCHANGED vars
  BY <1>5 DEF vars, QueueInv, TypeOK, MinExpireAtExact, CountExact, WaiterHasEntry
<1> QED
  BY <1>1, <1>2, <1>3, <1>4, <1>5 DEF Next

(* In every reachable state of the queue the deadline cache is the least   *)
(* deadline, the counter is the size of the map, and a receiver is         *)
(* unanswered exactly while its sender is in the map.                      *)
THEOREM QueueCorrect ==
    Spec => [](TypeOK /\ MinExpireAtExact /\ CountExact /\ WaiterHasEntry)
<1>1. Init => QueueInv
  BY QueueInit
<1>2. QueueInv /\ [Next]_vars => QueueInv'
  BY QueueNext
<1> QED
  BY <1>1, <1>2, PTL DEF Spec, QueueInv

-----------------------------------------------------------------------------
(* The time a shard has been swept up to is never ahead of the call in     *)
(* progress: the extra fact that the refinement needs.                     *)
SweptBehind == \A s \in Shards : swept[s] <= utime[s]

(* SweptBehind holds initially and is preserved.                           *)
LEMMA SweptBehindInvariant ==
    /\ Init => SweptBehind
    /\ TypeOK /\ SweptBehind /\ [Next]_vars => SweptBehind'
<1>1. Init => SweptBehind
  BY DEF Init, SweptBehind
<1>2. ASSUME TypeOK, SweptBehind, [Next]_vars PROVE SweptBehind'
  <2> USE <1>2 DEF SweptBehind
  <2>1. ASSUME NEW s \in Shards, NEW t \in Utime, UpdateCheck(s, t)
        PROVE  SweptBehind'
    BY <2>1, ConstAssumption DEF UpdateCheck, TypeOK, Utime
  <2>2. ASSUME NEW s \in Shards, UpdateBody(s) PROVE SweptBehind'
    BY <2>2, ConstAssumption DEF UpdateBody, TypeOK, Utime
  <2>3. ASSUME UNCHANGED <<utime, swept>> PROVE SweptBehind'
    BY <2>3
  <2> QED
    BY <2>1, <2>2, <2>3 DEF Next, vars, add_message, Deliver, deliver_message
<1> QED
  BY <1>1, <1>2

(* Removing nothing from a map gives the map back.                         *)
LEMMA RemoveNothing ==
    ASSUME NEW f, f \in [DOMAIN f -> Utime] PROVE [k \in DOMAIN f \ {} |-> f[k]] = f
  OBVIOUS

(* An update that returns early is an atomic sweep that finds nothing due. *)
LEMMA EarlyReturnIsSweep ==
    ASSUME QueueInv, SweptBehind, NEW s \in Shards, NEW t \in Utime,
           UpdateCheck(s, t), NothingDue(t)
    PROVE  Abstract!Sweep(s, t)
<1>1. \A m \in DOMAIN entries : t <= entries[m]
  <2>1. \A m \in DOMAIN entries : MinOf(entries) <= entries[m]
    BY MinOfProperties DEF QueueInv, TypeOK
  <2>2. \A m \in DOMAIN entries : entries[m] \in Nat
    BY DEF QueueInv, TypeOK, Utime
  <2>3. min_expire_at \in Nat /\ t \in Nat /\ min_expire_at = MinOf(entries)
    BY DEF QueueInv, TypeOK, Utime, MinExpireAtExact
  <2> QED BY <2>1, <2>2, <2>3 DEF NothingDue
<1>2. Abstract!Overdue(s, t) = {}
  BY <1>1 DEF Abstract!Overdue, QueueInv, TypeOK, Utime
<1>3. Abstract!Drop(entries, Abstract!Overdue(s, t)) = entries
  BY <1>2, RemoveNothing DEF Abstract!Drop, QueueInv, TypeOK
<1>4. rx = [m \in Msgs |-> IF m \in Abstract!Overdue(s, t)
                            THEN "Expired" ELSE rx[m]]
  BY <1>2 DEF QueueInv, TypeOK
<1>5. t >= swept[s]
  BY DEF UpdateCheck, SweptBehind, QueueInv, TypeOK, Utime
<1> QED
  BY <1>3, <1>4, <1>5 DEF Abstract!Sweep, UpdateCheck

(* The locked half of update is an atomic sweep.                           *)
LEMMA BodyIsSweep ==
    ASSUME QueueInv, SweptBehind, NEW s \in Shards, UpdateBody(s)
    PROVE  Abstract!Sweep(s, utime[s])
<1>1. Abstract!Overdue(s, utime[s]) = Expired(entries, s, utime[s])
  BY DEF Abstract!Overdue, Expired, contains_account, QueueInv, TypeOK, Utime
<1>2. utime[s] >= swept[s]
  BY DEF SweptBehind, QueueInv, TypeOK, Utime
<1> QED
  BY <1>1, <1>2 DEF Abstract!Sweep, Abstract!Drop, UpdateBody, Retain, Drop

(* Every step of the queue is a step of MessageExpiry or leaves its state  *)
(* alone.                                                                  *)
LEMMA StepRefines ==
    QueueInv /\ SweptBehind /\ [Next]_vars => [Abstract!Next]_(Abstract!vars)
<1> SUFFICES ASSUME QueueInv, SweptBehind, [Next]_vars
             PROVE  [Abstract!Next]_(Abstract!vars)
  OBVIOUS
<1>1. ASSUME NEW m \in Msgs, NEW e \in Utime, add_message(m, e)
      PROVE  Abstract!Next
  <2>1. Abstract!Add(m, e)
    BY <1>1 DEF add_message, Abstract!Add, Put, Abstract!Put
  <2> QED BY <2>1 DEF Abstract!Next, Utime
<1>2. ASSUME NEW m \in Msgs, Deliver(m) PROVE Abstract!Next
  <2>1. Abstract!Deliver(m)
    BY <1>2 DEF Deliver, deliver_message, Abstract!Deliver, Abstract!Drop,
                Drop
  <2> QED BY <2>1 DEF Abstract!Next
<1>3. ASSUME NEW s \in Shards, NEW t \in Utime, UpdateCheck(s, t)
      PROVE  Abstract!Next \/ UNCHANGED Abstract!vars
  <2>1. CASE NothingDue(t)
    <3>1. Abstract!Sweep(s, t)
      BY <1>3, <2>1, EarlyReturnIsSweep
    <3> QED BY <3>1 DEF Abstract!Next, Utime
  <2>2. CASE ~NothingDue(t)
    BY <1>3, <2>2 DEF UpdateCheck, Abstract!vars
  <2> QED BY <2>1, <2>2
<1>4. ASSUME NEW s \in Shards, UpdateBody(s) PROVE Abstract!Next
  <2>1. Abstract!Sweep(s, utime[s])
    BY <1>4, BodyIsSweep
  <2>2. utime[s] \in 0..U32Max
    BY DEF QueueInv, TypeOK, Utime
  <2> QED BY <2>1, <2>2 DEF Abstract!Next
<1>5. CASE UNCHANGED vars
  BY <1>5 DEF vars, Abstract!vars
<1> QED
  BY <1>1, <1>2, <1>3, <1>4, <1>5 DEF Next

(* The queue implements MessageExpiry: although `update` decides on a      *)
(* value it read before it took the lock, no caller can tell it from one   *)
(* atomic sweep of the overdue messages of its shard.                      *)
THEOREM QueueRefinesExpiry == Spec => Refinement
<1>1. Init => QueueInv /\ SweptBehind /\ Abstract!Init
  BY QueueInit, SweptBehindInvariant DEF Init, EmptyMap, Abstract!Init, Abstract!EmptyMap
<1>2. QueueInv /\ SweptBehind /\ [Next]_vars => (QueueInv /\ SweptBehind)'
  BY QueueNext, SweptBehindInvariant DEF QueueInv
<1>3. QueueInv /\ SweptBehind /\ [Next]_vars => [Abstract!Next]_(Abstract!vars)
  BY StepRefines
<1> QED
  BY <1>1, <1>2, <1>3, PTL DEF Spec, Refinement, Abstract!Spec
=============================================================================
