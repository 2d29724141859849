--------------------------- MODULE MCOwnerSession ---------------------------
(* OwnerSession for TLC: a client that does everything, and one that shares the listener. *)
EXTENDS OwnerSession
MCMethodsOf ==
    [c1 |-> {"init_secure_api", "open_wallet", "close_wallet", "init_send_tx", "retrieve_txs",
             "set_tor_config"},
     c2 |-> {"init_secure_api", "open_wallet", "accounts", "get_mnemonic",
             "get_public_address", "set_epicbox_config"}]
=============================================================================
