--------------------------- MODULE MCWalletLedger ---------------------------
(* Instances of WalletLedger for TLC: which part the wallet takes in each slate *)
EXTENDS WalletLedger, TLC

CONSTANTS s1, s2, u1, u2

OneSend     == s1 :> "send"
OnePay      == s1 :> "pay"
RecvInvoice == s1 :> "receive" @@ s2 :> "invoice"
=============================================================================
