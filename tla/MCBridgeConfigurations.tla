----------------------- MODULE MCBridgeConfigurations -----------------------
EXTENDS BridgeConfigurations

(* A TON configuration that ends and an EVM configuration that does not,   *)
(* with the same event code: only one of them can be added.                *)
MCTarget == <<"transfer", "deposit">>
MCFirstEnd == [transfer |-> 1, deposit |-> 0]
MCCode == [g \in {"transfer", "deposit"} |-> "code"]
=============================================================================
