------------------------------- MODULE MCWatcher -------------------------------
(***************************************************************************)
(* The instances of Watcher that TLC checks.  Transaction 1 pays two       *)
(* accounts, 2 pays one in another asset, 3 tops the vault up for nobody   *)
(* and pays an account nothing.                                            *)
(***************************************************************************)
EXTENDS Watcher, TLC

CONSTANTS v, w, alice, bob, nobody, nft

Pays(tx, vout, account, amount, asset) ==
  [txid |-> tx, vout |-> vout, account |-> account, amount |-> amount, asset |-> asset]

MCOutputs ==
  [tx \in Txs |->
     CASE tx = 1 -> <<Pays(1, 0, alice, 1, BridgeAsset), Pays(1, 1, bob, 2, BridgeAsset)>>
       [] tx = 2 -> <<Pays(2, 0, bob, 1, nft)>>
       [] tx = 3 -> <<Pays(3, 0, nobody, 1, BridgeAsset), Pays(3, 1, alice, 0, BridgeAsset)>>]

WatcherSymmetry == Permutations(Watchers)
=============================================================================
