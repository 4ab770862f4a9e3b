------------------------- MODULE AddressVerification -------------------------
(***************************************************************************)
(* Before it does anything else, the relay has its TON key and its EVM     *)
(* address confirmed in the user data contract of its staker:              *)
(* ensure_verified of src/engine/staking/mod.rs and                        *)
(* verify_relay_staker_address of src/engine/eth_subscriber/mod.rs.  The   *)
(* EVM address is confirmed by a transaction that costs money, so its hash *)
(* is kept in a file over restarts.                                        *)
(*                                                                         *)
(* The process may end at any point, killed or with one of the many        *)
(* errors that `?` passes up to main, and is started again.  The contents  *)
(* of the transaction never change, so it is identified by its nonce: the  *)
(* number of transactions of the account that are in blocks.               *)
(***************************************************************************)
EXTENDS Integers

CONSTANTS
    MaxNonce,    \* bound: transactions of the account
    MaxCrashes,  \* bound: ends of the process
    MaxDrops     \* bound: transactions that the EVM node forgets

ASSUME VerificationAssumption ==
    MaxNonce \in Nat /\ MaxCrashes \in Nat /\ MaxDrops \in Nat

VARIABLES
    pc,        \* where ensure_verified is
    details,   \* what was read of the user data: the confirmed parts
    arrived,   \* parts whose Notified future has completed
    events,    \* confirmations in user_data_events_rx
    file,      \* the saved state: a nonce, or one of the values below
    signed,    \* nonce of the transaction in hand
    confirmed, \* user data contract: the confirmed parts
    nonce,     \* EVM: transactions of the account in blocks
    pending,   \* EVM: whether the transaction `nonce` is pending
    enough,    \* EVM: the balance reaches settings.min_balance_gwei
    crashes, drops,
    lost,      \* a confirmation came after `details` was read, before the subscription
    forgotten  \* the process ended after it had cleared the file, unconfirmed

process == <<pc, details, arrived, events, signed, lost>>
evm == <<nonce, pending, enough, drops>>
vars == <<process, file, confirmed, evm, crashes, forgotten>>

NoFile == -1   \* there is no file
Torn == -2     \* a part of one, which cannot be parsed
Foreign == -3  \* the state of another address
Files == {NoFile, Torn, Foreign} \cup 0..MaxNonce
Parts == {"ton", "eth"}
Pcs == {"down", "subscribe", "ton", "deliver", "eth", "load", "poll", "balance",
        "save", "write", "send", "wait", "cleared", "done"}

TypeOK ==
    /\ pc \in Pcs
    /\ details \subseteq Parts /\ arrived \subseteq Parts /\ events \subseteq Parts
    /\ confirmed \subseteq Parts
    /\ file \in Files
    /\ signed \in 0..MaxNonce /\ nonce \in 0..(MaxNonce + 1)
    /\ pending \in BOOLEAN /\ enough \in BOOLEAN
    /\ crashes \in 0..MaxCrashes /\ drops \in 0..MaxDrops
    /\ lost \in BOOLEAN /\ forgotten \in BOOLEAN

Init ==
    /\ pc = "down" /\ details = {} /\ arrived = {} /\ events = {} /\ signed = 0
    /\ file \in {NoFile, Foreign} /\ confirmed \in SUBSET {"ton"}
    /\ nonce = 0 /\ pending = FALSE /\ enough \in BOOLEAN
    /\ crashes = 0 /\ drops = 0
    /\ lost = FALSE /\ forgotten = FALSE

Running == pc # "down"
Waiting == pc \in {"wait", "cleared"}
Subscribed == pc \notin {"down", "subscribe"}

Goto(from, to) == pc = from /\ pc' = to

-----------------------------------------------------------------------------
(* Plausible mistakes, used to see that the properties notice them.        *)

SendFirst ==
    /\ pc = "save"
    /\ pc' = "write"
    /\ pending' = (pending \/ signed = nonce)
    /\ UNCHANGED <<details, arrived, events, signed, lost, file, confirmed, nonce,
                   enough, drops, crashes, forgotten>>

WaitIfIncluded ==
    /\ pc = "poll" /\ file < nonce
    /\ UNCHANGED vars

SaveOtherHash ==
    /\ Goto("write", "send")
    /\ file' = signed + 1
    /\ UNCHANGED <<details, arrived, events, signed, lost, confirmed, evm, crashes, forgotten>>

-----------------------------------------------------------------------------
(* ensure_verified.                                                        *)

Start ==
    /\ Goto("down", "subscribe")
    /\ details' = confirmed
    /\ UNCHANGED <<arrived, events, signed, lost, file, confirmed, evm, crashes, forgotten>>

Subscribe ==
    /\ Goto("subscribe", "ton")
    /\ UNCHANGED <<details, arrived, events, signed, lost, file, confirmed, evm, crashes, forgotten>>

(* A part that is confirmed already completes its future at once.          *)
CheckTon ==
    /\ \/ "ton" \in details /\ Goto("ton", "eth") /\ arrived' = arrived \cup {"ton"}
       \/ "ton" \notin details /\ Goto("ton", "deliver") /\ UNCHANGED arrived
    /\ UNCHANGED <<details, events, signed, lost, file, confirmed, evm, crashes, forgotten>>

(* A confirmation by the user data contract, which its observer reports.   *)
Confirm(part) ==
    /\ confirmed' = confirmed \cup {part}
    /\ events' = IF Subscribed THEN events \cup {part} ELSE events
    /\ lost' = (lost \/ pc = "subscribe")

(* deliver_message(confirm_ton_account): sent until it is in a block.      *)
DeliverTon ==
    /\ Goto("deliver", "eth")
    /\ Confirm("ton")
    /\ UNCHANGED <<details, arrived, signed, file, evm, crashes, forgotten>>

CheckEth ==
    /\ \/ "eth" \in details /\ Goto("eth", "wait") /\ arrived' = arrived \cup {"eth"}
       \/ "eth" \notin details /\ Goto("eth", "load") /\ UNCHANGED arrived
    /\ UNCHANGED <<details, events, signed, lost, file, confirmed, evm, crashes, forgotten>>

(* The listener.                                                           *)
Receive(part) ==
    /\ part \in events
    /\ events' = events \ {part}
    /\ arrived' = arrived \cup {part}
    /\ UNCHANGED <<pc, details, signed, lost, file, confirmed, evm, crashes, forgotten>>

(* join(ton_notified, eth_notified).                                       *)
Verified ==
    /\ Waiting /\ arrived = Parts
    /\ pc' = "done"
    /\ UNCHANGED <<details, arrived, events, signed, lost, file, confirmed, evm, crashes, forgotten>>

-----------------------------------------------------------------------------
(* verify_relay_staker_address.                                            *)

(* try_load; the state of another address is cleared.  That the file       *)
(* cannot be removed is only logged, here and below.                       *)
Load ==
    /\ \/ file = NoFile /\ Goto("load", "balance") /\ UNCHANGED file
       \/ file = Foreign /\ Goto("load", "balance") /\ file' \in {NoFile, file}
       \/ file >= 0 /\ Goto("load", "poll") /\ UNCHANGED file
    /\ UNCHANGED <<details, arrived, events, signed, lost, confirmed, evm, crashes, forgotten>>

(* A file that cannot be parsed is an error, which ends the process.       *)
LoadFails ==
    /\ file = Torn /\ Goto("load", "down")
    /\ arrived' = {} /\ events' = {} /\ lost' = FALSE
    /\ UNCHANGED <<details, signed, file, confirmed, evm, crashes, forgotten>>

(* The saved transaction is in a block: nothing is left to do but wait.    *)
FoundIncluded ==
    /\ file < nonce /\ Goto("poll", "cleared")
    /\ file' \in {NoFile, file}
    /\ UNCHANGED <<details, arrived, events, signed, lost, confirmed, evm, crashes, forgotten>>

(* The node does not know it: it is made again.                            *)
NotFound ==
    /\ file >= nonce /\ ~pending /\ Goto("poll", "balance")
    /\ file' \in {NoFile, file}
    /\ UNCHANGED <<details, arrived, events, signed, lost, confirmed, evm, crashes, forgotten>>

(* sign_transaction asks for the nonce.                                    *)
Sign ==
    /\ enough /\ nonce <= MaxNonce /\ Goto("balance", "save")
    /\ signed' = nonce
    /\ UNCHANGED <<details, arrived, events, lost, file, confirmed, evm, crashes, forgotten>>

Open ==
    /\ Goto("save", "write")
    /\ UNCHANGED <<details, arrived, events, signed, lost, file, confirmed, evm, crashes, forgotten>>

Write ==
    /\ Goto("write", "send")
    /\ file' = signed
    /\ UNCHANGED <<details, arrived, events, signed, lost, confirmed, evm, crashes, forgotten>>

(* send_raw_transaction: a transaction that is known, or whose nonce is    *)
(* used, is refused, an error that ends the process (Crash).               *)
Send ==
    /\ signed = nonce /\ ~pending /\ Goto("send", "wait")
    /\ pending' = TRUE
    /\ UNCHANGED <<details, arrived, events, signed, lost, file, confirmed, nonce, enough,
                   drops, crashes, forgotten>>

-----------------------------------------------------------------------------
(* The EVM network, the bridge that reports the transaction to the user    *)
(* data contract, and the end of the process.                              *)

Include ==
    /\ pending
    /\ pending' = FALSE /\ nonce' = nonce + 1
    /\ UNCHANGED <<process, file, confirmed, enough, drops, crashes, forgotten>>

DropTransaction ==
    /\ pending /\ drops < MaxDrops
    /\ pending' = FALSE /\ drops' = drops + 1
    /\ UNCHANGED <<process, file, confirmed, nonce, enough, crashes, forgotten>>

TopUp ==
    /\ ~enough
    /\ enough' = TRUE
    /\ UNCHANGED <<process, file, confirmed, nonce, pending, drops, crashes, forgotten>>

ConfirmEth ==
    /\ nonce > 0 /\ "eth" \notin confirmed
    /\ Confirm("eth")
    /\ UNCHANGED <<pc, details, arrived, signed, file, evm, crashes, forgotten>>

(* The process ends, possibly with a part of the file written: a new file  *)
(* is then torn.  An old one is not truncated, and what is written has its *)
(* length: the old address, which comes last, is still another one, and    *)
(* the state of our own transaction is overwritten with itself.            *)
Crash ==
    /\ Running /\ crashes < MaxCrashes
    /\ crashes' = crashes + 1
    /\ pc' = "down"
    /\ arrived' = {} /\ events' = {} /\ lost' = FALSE
    /\ \/ UNCHANGED file
       \/ pc = "write" /\ file = NoFile /\ file' = Torn
       \/ pc = "write" /\ file' = signed
    /\ forgotten' = (forgotten \/ (pc = "cleared" /\ "eth" \notin confirmed))
    /\ UNCHANGED <<details, signed, confirmed, evm>>

Process ==
    \/ Start \/ Subscribe \/ CheckTon \/ DeliverTon \/ CheckEth \/ Verified
    \/ Load \/ LoadFails \/ FoundIncluded \/ NotFound \/ Sign \/ Open \/ Write \/ Send

Next ==
    \/ Process \/ \E part \in Parts : Receive(part)
    \/ Include \/ DropTransaction \/ TopUp \/ ConfirmEth \/ Crash

Spec == Init /\ [][Next]_vars

(* The process is started again and runs; the transaction gets into a      *)
(* block; the bridge reports it; the account gets its funds.               *)
Fairness ==
    /\ WF_vars(Process) /\ \A part \in Parts : WF_vars(Receive(part))
    /\ WF_vars(Include) /\ WF_vars(TopUp) /\ WF_vars(ConfirmEth)

FairSpec == Spec /\ Fairness

-----------------------------------------------------------------------------
(* The relay pays a second time only if it was stopped after it had found  *)
(* its transaction in a block and cleared the file, but before the address *)
(* was confirmed (202).  A stop at any other point, between saving and     *)
(* sending (276-288) included, costs nothing.                              *)
PaidOnce == nonce > 1 => forgotten

(* The verification ends well after any stops, but for three ways to hang: *)
(* the file was being written at a stop, a confirmation came between the   *)
(* reading of the user data and the subscription, or the node has lost the *)
(* transaction that ensure_verified waits for.                             *)
Stuck ==
    \/ file = Torn
    \/ lost /\ pc # "done"
    \/ Waiting /\ ~pending /\ nonce = 0 /\ "eth" \notin confirmed

VerificationEnds == <>[](pc = "done") \/ <>[]Stuck
=============================================================================
