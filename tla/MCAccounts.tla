----------------------------- MODULE MCAccounts -----------------------------
(* An instance of Accounts for TLC: two accounts were used before the wallet
   was recreated; a transaction of the first, whose output is spent, was exported *)
EXTENDS Accounts, TLC

MCLabels == {<<"savings", 0>>}
MCOld    == <<<<1, 1>>, <<2, 0>>>>
MCFile   == <<1, 0>> :> [type |-> "TxReceived", slate |-> "s0", confirmed |-> TRUE,
                         coin |-> NoCoin]
=============================================================================
