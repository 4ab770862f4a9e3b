--------------------------- MODULE ContractStates ---------------------------
(***************************************************************************)
(* What TonSubscriber promises to the callers of get_contract_state and    *)
(* wait_contract_state, with no channels, no subscriptions and no receiver *)
(* that may have missed a value: a call reads the account as the last      *)
(* block left it, in one step.  It fails for a frozen account, and for no  *)
(* other reason.                                                           *)
(***************************************************************************)
CONSTANTS
    Accounts, Shards, Home, Actives, Waiters, Target, Getters  \* as in TonSubscriber

VARIABLES
    account,  \* the state of an account after the last block
    call      \* calls: "None", "Waiting", "Failed" or the returned state

vars == <<account, call>>

AccountState == Actives \cup {"Missing", "Uninit", "Frozen"}

Init ==
    /\ account \in [Accounts -> AccountState]
    /\ call = [w \in Waiters |-> "None"]

Block(s) ==
    /\ account' \in [Accounts -> AccountState]
    /\ \A a \in Accounts : Home[a] # s => account'[a] = account[a]
    /\ UNCHANGED call

Become(w, from, to) ==
    /\ call[w] = from
    /\ call' = [call EXCEPT ![w] = to]
    /\ UNCHANGED account

Ask(w) == Become(w, "None", "Waiting")

(* A getter takes whatever is there; the others wait for the contract.     *)
Read(w) ==
    LET state == account[Target[w]]
    IN  \/ (w \in Getters \/ state \in Actives) /\ Become(w, "Waiting", state)
        \/ w \notin Getters /\ state = "Frozen" /\ Become(w, "Waiting", "Failed")

Return(w) == \E r \in AccountState \cup {"Failed"} : Become(w, r, "None")

Next ==
    \/ \E s \in Shards : Block(s)
    \/ \E w \in Waiters : Ask(w) \/ Read(w) \/ Return(w)

Spec == Init /\ [][Next]_vars
=============================================================================
