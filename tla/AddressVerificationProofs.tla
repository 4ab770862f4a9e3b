---------------------- MODULE AddressVerificationProofs ----------------------
(***************************************************************************)
(* Proofs about the verification of the relay's EVM address.               *)
(***************************************************************************)
EXTENDS AddressVerification, TLAPS

(* The parts the process knows to be confirmed are confirmed; it is on its *)
(* way to a transaction only if it has not read the confirmation.          *)
KnowledgeInv ==
    /\ details \subseteq confirmed /\ arrived \subseteq confirmed /\ events \subseteq confirmed
    /\ pc \in {"load", "poll", "balance", "save", "write", "send", "cleared"}
          => "eth" \notin details

(* While the file has not been cleared too early there is one transaction, *)
(* the one with nonce 0: it is pending only after its hash has been saved, *)
(* it is made only while it is neither pending nor in a block, and once it *)
(* is in a block the file names it, unless the process waits for its       *)
(* confirmation or has it.                                                 *)
OneTransaction ==
    /\ nonce \in {0, 1}
    /\ file \in {NoFile, Torn, Foreign, 0}
    /\ pending => nonce = 0 /\ file = 0
    /\ pc \in {"balance", "save", "write", "send"} => nonce = 0 /\ ~pending
    /\ pc \in {"save", "write", "send"} => signed = 0
    /\ pc \in {"poll", "send"} => file = 0
    /\ nonce = 1 =>
          \/ file = 0
          \/ pc = "cleared"
          \/ "eth" \in confirmed /\ (pc \in {"down", "done"} \/ "eth" \in details)

(* Only a transaction that may still get into a block is pending.          *)
NonceBound == pending => nonce <= MaxNonce

VerificationInv ==
    /\ TypeOK
    /\ NonceBound
    /\ KnowledgeInv
    /\ ~forgotten => OneTransaction

(* The invariant holds when the relay is started for the first time.       *)
LEMMA VerificationInit == Init => VerificationInv
<1> SUFFICES ASSUME Init PROVE VerificationInv
  OBVIOUS
<1>1. TypeOK
  <2>1. pending \in BOOLEAN /\ enough \in BOOLEAN /\ lost \in BOOLEAN /\ forgotten \in BOOLEAN
    BY Zenon DEF Init
  <2> QED BY <2>1, VerificationAssumption DEF Init, TypeOK, Files, Parts, Pcs, NoFile, Foreign
<1>2. KnowledgeInv
  BY DEF Init, KnowledgeInv
<1>3. OneTransaction /\ NonceBound
  BY VerificationAssumption DEF Init, OneTransaction, NonceBound, NoFile, Foreign
<1> QED BY <1>1, <1>2, <1>3 DEF VerificationInv

(* The steps of the process keep the types.                                *)
LEMMA ProcessTypes == TypeOK /\ Process => TypeOK'
<1> SUFFICES ASSUME TypeOK, Process PROVE TypeOK'
  OBVIOUS
<1> USE VerificationAssumption DEF TypeOK, Files, Parts, Pcs, NoFile, Torn, Foreign, Goto
<1>1. ASSUME Start \/ Subscribe \/ CheckTon \/ CheckEth \/ Verified PROVE TypeOK'
  BY <1>1 DEF Start, Subscribe, CheckTon, CheckEth, Verified, evm
<1>2. ASSUME DeliverTon PROVE TypeOK'
  <2>1. lost' \in BOOLEAN
    BY <1>2, Zenon DEF DeliverTon, Confirm
  <2> QED BY <1>2, <2>1 DEF DeliverTon, Confirm, evm
<1>3. ASSUME Load \/ LoadFails \/ FoundIncluded \/ NotFound PROVE TypeOK'
  BY <1>3 DEF Load, LoadFails, FoundIncluded, NotFound, evm
<1>4. ASSUME Sign PROVE TypeOK'
  BY <1>4 DEF Sign, evm
<1>5. ASSUME Open \/ Write PROVE TypeOK'
  BY <1>5 DEF Open, Write, evm
<1>6. ASSUME Send PROVE TypeOK'
  BY <1>6 DEF Send
<1> QED
  BY <1>1, <1>2, <1>3, <1>4, <1>5, <1>6 DEF Process

(* So do the others; the account has one nonce more than transactions.     *)
LEMMA TypesPreserved ==
    TypeOK /\ NonceBound /\ [Next]_vars => TypeOK' /\ NonceBound'
<1> SUFFICES ASSUME TypeOK, NonceBound, [Next]_vars PROVE TypeOK' /\ NonceBound'
  OBVIOUS
<1> USE VerificationAssumption DEF TypeOK, Files, Parts, Pcs, NoFile, Torn, Foreign, Goto, NonceBound
<1>1. ASSUME Process PROVE TypeOK' /\ NonceBound'
  <2>1. ASSUME Send PROVE NonceBound'
    BY <2>1 DEF Send
  <2>2. ASSUME UNCHANGED evm PROVE NonceBound'
    BY <2>2 DEF evm
  <2>3. Send \/ UNCHANGED evm
    BY <1>1, Zenon DEF Process, Start, Subscribe, CheckTon, CheckEth, Verified, DeliverTon, Load,
       LoadFails, FoundIncluded, NotFound, Sign, Open, Write
  <2> QED BY <1>1, <2>1, <2>2, <2>3, ProcessTypes
<1>2. ASSUME NEW part \in Parts, Receive(part) PROVE TypeOK' /\ NonceBound'
  BY <1>2 DEF Receive, evm
<1>3. ASSUME Include PROVE TypeOK' /\ NonceBound'
  <2>1. pending' \in BOOLEAN /\ ~pending'
    BY <1>3, Zenon DEF Include
  <2>2. nonce' \in 0..(MaxNonce + 1)
    BY <1>3 DEF Include
  <2>3. UNCHANGED <<process, file, confirmed, enough, drops, crashes, forgotten>>
    BY <1>3 DEF Include
  <2> QED BY <2>1, <2>2, <2>3 DEF process
<1>4. ASSUME DropTransaction PROVE TypeOK' /\ NonceBound'
  <2>1. pending' \in BOOLEAN /\ ~pending'
    BY <1>4, Zenon DEF DropTransaction
  <2>2. drops' \in 0..MaxDrops
    BY <1>4 DEF DropTransaction
  <2>3. UNCHANGED <<process, file, confirmed, nonce, enough, crashes, forgotten>>
    BY <1>4 DEF DropTransaction
  <2> QED BY <2>1, <2>2, <2>3 DEF process
<1>5. ASSUME TopUp PROVE TypeOK' /\ NonceBound'
  BY <1>5 DEF TopUp, process
<1>6. ASSUME ConfirmEth PROVE TypeOK' /\ NonceBound'
  <2>1. lost' \in BOOLEAN
    BY <1>6, Zenon DEF ConfirmEth, Confirm
  <2> QED BY <1>6, <2>1 DEF ConfirmEth, Confirm, evm
<1>7. ASSUME Crash PROVE TypeOK' /\ NonceBound'
  <2>1. forgotten' \in BOOLEAN
    BY <1>7, Zenon DEF Crash
  <2>2. file' \in Files /\ crashes' \in 0..MaxCrashes
    BY <1>7 DEF Crash
  <2>3. pending' = pending /\ enough' = enough /\ nonce' = nonce /\ drops' = drops /\ lost' = FALSE
    BY <1>7 DEF Crash, evm
  <2> QED BY <1>7, <2>1, <2>2, <2>3 DEF Crash
<1>8. CASE UNCHANGED vars
  BY <1>8 DEF vars, process, evm
<1> QED
  BY <1>1, <1>2, <1>3, <1>4, <1>5, <1>6, <1>7, <1>8 DEF Next

(* What the process knows of the user data.                                *)
LEMMA KnowledgePreserved == TypeOK /\ KnowledgeInv /\ [Next]_vars => KnowledgeInv'
<1> SUFFICES ASSUME TypeOK, KnowledgeInv, [Next]_vars PROVE KnowledgeInv'
  OBVIOUS
<1> USE DEF TypeOK, Parts, Goto, KnowledgeInv
<1>1. ASSUME Start \/ Subscribe \/ CheckTon \/ CheckEth \/ Verified \/ DeliverTon
      PROVE  KnowledgeInv'
  BY <1>1 DEF Start, Subscribe, CheckTon, CheckEth, Verified, DeliverTon, Confirm
<1>2. ASSUME Load \/ LoadFails \/ FoundIncluded \/ NotFound PROVE KnowledgeInv'
  BY <1>2 DEF Load, LoadFails, FoundIncluded, NotFound
<1>3. ASSUME Sign \/ Open \/ Write \/ Send PROVE KnowledgeInv'
  BY <1>3 DEF Sign, Open, Write, Send
<1>4. ASSUME NEW part \in Parts, Receive(part) PROVE KnowledgeInv'
  BY <1>4 DEF Receive
<1>5. ASSUME Include \/ DropTransaction \/ TopUp \/ ConfirmEth PROVE KnowledgeInv'
  BY <1>5 DEF Include, DropTransaction, TopUp, ConfirmEth, Confirm, process
<1>6. ASSUME Crash PROVE KnowledgeInv'
  BY <1>6 DEF Crash
<1>7. CASE UNCHANGED vars
  BY <1>7 DEF vars, process
<1> QED
  BY <1>1, <1>2, <1>3, <1>4, <1>5, <1>6, <1>7 DEF Next, Process

(* The heart of the argument: one transaction, whatever the point at which *)
(* the process is stopped.                                                 *)
LEMMA OneTransactionPreserved ==
    ASSUME TypeOK, KnowledgeInv, ~forgotten => OneTransaction, [Next]_vars, ~forgotten'
    PROVE  OneTransaction'
<1>1. ~forgotten
  BY Zenon DEF Next, Process, Start, Subscribe, CheckTon, CheckEth, Verified, DeliverTon, Load,
     LoadFails, FoundIncluded, NotFound, Sign, Open, Write, Send, Receive, Include,
     DropTransaction, TopUp, ConfirmEth, Crash, vars
<1>2. OneTransaction
  BY <1>1
<1> USE <1>2, VerificationAssumption
        DEF TypeOK, KnowledgeInv, OneTransaction, Parts, Pcs, NoFile, Torn, Foreign, Goto
<1>3. ASSUME Start \/ Subscribe \/ CheckTon \/ CheckEth \/ DeliverTon PROVE OneTransaction'
  BY <1>3 DEF Start, Subscribe, CheckTon, CheckEth, DeliverTon, Confirm, evm
<1>4. ASSUME Verified PROVE OneTransaction'
  BY <1>4 DEF Verified, Waiting, evm
<1>5. ASSUME Load PROVE OneTransaction'
  BY <1>5 DEF Load, evm
<1>6. ASSUME LoadFails \/ FoundIncluded \/ NotFound PROVE OneTransaction'
  BY <1>6 DEF LoadFails, FoundIncluded, NotFound, evm
<1>7. ASSUME Sign \/ Open \/ Write PROVE OneTransaction'
  BY <1>7 DEF Sign, Open, Write, evm
<1>8. ASSUME Send PROVE OneTransaction'
  BY <1>8 DEF Send
<1>9. ASSUME NEW part \in Parts, Receive(part) PROVE OneTransaction'
  BY <1>9 DEF Receive, evm
<1>10. ASSUME Include \/ DropTransaction \/ TopUp \/ ConfirmEth PROVE OneTransaction'
  BY <1>10 DEF Include, DropTransaction, TopUp, ConfirmEth, Confirm, process, evm
<1>11. ASSUME Crash PROVE OneTransaction'
  <2>1. pc # "cleared" \/ "eth" \in confirmed
    BY <1>11, Zenon DEF Crash
  <2> QED BY <1>11, <2>1 DEF Crash, evm
<1>12. CASE UNCHANGED vars
  BY <1>12 DEF vars, process, evm
<1> QED
  BY <1>3, <1>4, <1>5, <1>6, <1>7, <1>8, <1>9, <1>10, <1>11, <1>12 DEF Next, Process

(* Every reachable state satisfies the invariant.                          *)
LEMMA VerificationInvariant == Spec => []VerificationInv
<1>1. Init => VerificationInv
  BY VerificationInit
<1>2. VerificationInv /\ [Next]_vars => VerificationInv'
  BY TypesPreserved, KnowledgePreserved, OneTransactionPreserved DEF VerificationInv
<1> QED
  BY <1>1, <1>2, PTL DEF Spec

(* However often the process is stopped and at whatever points, however    *)
(* often the node forgets the transaction: a second transaction is in a    *)
(* block only if the process was stopped between clearing the file and the *)
(* confirmation of the address.                                            *)
THEOREM VerificationPaidOnce == Spec => [](TypeOK /\ PaidOnce)
<1>1. VerificationInv => TypeOK /\ PaidOnce
  BY DEF VerificationInv, OneTransaction, PaidOnce, TypeOK
<1> QED
  BY <1>1, VerificationInvariant, PTL
=============================================================================
