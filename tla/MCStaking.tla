------------------------------ MODULE MCStaking ------------------------------
EXTENDS Staking

(* The second config moves the deadlines and lowers the deposit.           *)
MCConfigs == {[before |-> 0, election |-> 1, deposit |-> 2],
              [before |-> 1, election |-> 0, deposit |-> 1]}
=============================================================================
