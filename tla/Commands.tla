------------------------------ MODULE Commands ------------------------------
(***************************************************************************)
(* Two wallets driven from the command line (src/src/cmd, src/controller/src *)
(* /command.rs): one payment, made with send, receive and finalize or with   *)
(* invoice, pay and finalize, over every method, while commands are repeated, *)
(* cancelled, killed, and the chain moves.  Slate has the coin selection, the *)
(* signing rounds and the slate versions.                                    *)
(***************************************************************************)
EXTENDS Slate

CONSTANTS
    Requests,     \* what the users ask for
    MaxOutputs,   \* max_outputs of send and pay (500 in the code)
    MaxHeight,    \* bound on the chain
    MaxFaults     \* bound on killed processes and node outages

Wallets == {"payer", "payee"}
Methods == {"file", "emoji", "self", "epicbox", "http", "keybase"}

ASSUME CommandsAssumption ==
    /\ \A r \in Requests :
         /\ r.kind \in {"send", "invoice", "estimate"} /\ r.method \in Methods
         /\ r.kind = "invoice" => r.method \in {"file", "http", "self"}
         /\ r.dest \in {"none", "name", "url", "onion"}
         /\ r.proof \in {"no", "yes", "address"}      \* -y, and -z with it
         /\ r.peer \in {2, 3} /\ r.target \in {2, 3} /\ r.useAll \in BOOLEAN
         /\ r.ttl \in Nat /\ r.amount \in Nat /\ r.change \in Nat
         /\ r.coins \in Seq(Nat)
         /\ \A i, j \in DOMAIN r.coins : i <= j => r.coins[i] <= r.coins[j]
    /\ MaxOutputs \in Nat \ {0} /\ MaxHeight \in Nat /\ MaxFaults \in Nat

VARIABLES
    req,      \* the request of this behaviour; kind tells which commands make it
    seeds,    \* the wallets that have been initialized
    up,       \* the node answers and is synced
    pc,       \* where each wallet's command stands
    told,     \* how each wallet's last command ended
    hand,     \* the slate the payer's command holds
    sel,      \* the coins it has selected so far, and the fee for them
    wire,     \* the slate on its way out and the one on its way back
    ctx,      \* the private contexts
    log,      \* the transaction log entries
    stored,   \* the stored transactions
    height, seen,   \* the chain, and the last height each wallet knows
    pool,     \* transactions the node accepted
    chain,    \* transactions in blocks
    final,    \* history: who finalized the slate, at which last known height
    cutoff,   \* history: the ttl cutoff the payer set
    faults

wallet == <<ctx, log, stored, seen>>
world == <<req, up, height, pool, chain, faults>>
vars == <<req, seeds, up, pc, told, hand, sel, wire, ctx, log, stored, height, seen, pool,
          chain, final, cutoff, faults>>

NoSel == [coins |-> <<>>, fee |-> 0]

Init ==
    /\ req \in Requests
    /\ seeds = {} /\ up = TRUE
    /\ pc = [w \in Wallets |-> "idle"]
    /\ told = [w \in Wallets |-> "nothing"]
    /\ hand = Blank(0, None) /\ sel = NoSel
    /\ wire = [out |-> None, back |-> None]
    /\ ctx = [w \in Wallets |-> None]
    /\ log = [w \in Wallets |-> None]
    /\ stored = [w \in Wallets |-> None]
    /\ height = 1 /\ seen = [w \in Wallets |-> 1]
    /\ pool = {} /\ chain = {}
    /\ final = None /\ cutoff = None
    /\ faults = 0

\* The command of w ends with an outcome.
Ends(w, outcome) ==
    /\ pc' = [pc EXCEPT ![w] = "idle"]
    /\ told' = [told EXCEPT ![w] = outcome]
Goes(w, where) == pc' = [pc EXCEPT ![w] = where] /\ UNCHANGED told

\* real_main: no command but init runs without a seed file, and init does not run with one.
Ready(w) == pc[w] = "idle" /\ w \in seeds
\* wallet_command: a command goes no further without a synced node.  receive and finalize
\* do not need the node themselves and run with --offline_mode, so Ready is enough.
Online(w) == Ready(w) /\ up

InitWallet(w) ==
    /\ pc[w] = "idle" /\ w \notin seeds
    /\ seeds' = seeds \cup {w}
    /\ UNCHANGED <<pc, told, hand, sel, wire, wallet, world, final, cutoff>>

-----------------------------------------------------------------------------
(* send and pay: selecting the coins                                           *)

\* parse_send_args
SendArgs(r) ==
    /\ r.dest = "none" => r.method \in {"self", "emoji"} \/ r.kind = "estimate"
    /\ r.method = "http" /\ r.kind # "estimate" => r.dest \in {"url", "onion"}
    /\ r.proof = "yes" => r.dest = "onion"
\* parse_process_invoice_args
PayArgs(r) ==
    /\ r.dest = "none" => r.method = "self"
    /\ r.method = "http" => r.dest = "url"

\* create_sender: an onion address goes over http whatever the method.
Sender(r) == IF r.dest = "onion" THEN "http" ELSE r.method

Ttl == IF req.ttl = 0 THEN None ELSE Some(height + req.ttl)
ExpiredLate(s, w) == IsSome(s.ttl) /\ seen[w] > Get(s.ttl)
\* check_ttl: against the height of the last update, not the chain's.
Expired(s, w) == IsSome(s.ttl) /\ seen[w] >= Get(s.ttl)
TypeOf(w) == IF IsSome(log[w]) THEN Get(log[w]).type ELSE "none"

\* The send command up to new_tx_slate, used once here.  send -e makes the same selection
\* with each strategy and unwraps the result.
Send ==
    /\ Online("payer") /\ told["payer"] = "nothing"
    /\ req.kind \in {"send", "estimate"}
    /\ IF SendArgs(req)
         THEN hand' = Blank(req.amount, Ttl) /\ Goes("payer", "select")
         ELSE Ends("payer", "arguments") /\ UNCHANGED hand
    /\ UNCHANGED <<seeds, sel, wire, wallet, world, final, cutoff>>

\* process_invoice up to the selection, which reads the invoice from a file.  Paying what
\* was paid and locked before is left to WalletLedger.
Pay ==
    /\ Online("payer") /\ req.kind = "invoice" /\ IsSome(wire.out)
    /\ ~IsSome(wire.back) /\ ~IsSome(log["payer"])
    /\ LET s == DeserializeUpgrade(Get(wire.out))
       IN  IF ~PayArgs(req) THEN Ends("payer", "arguments") /\ UNCHANGED hand
           ELSE IF Expired(Get(s), "payer") THEN Ends("payer", "expired") /\ UNCHANGED hand
           ELSE /\ hand' = [Get(s) EXCEPT !.ttl = IF req.ttl = 0 THEN @ ELSE Ttl]
                /\ Goes("payer", "select")
    /\ UNCHANGED <<seeds, sel, wire, wallet, world, final, cutoff>>

NumChange == IF req.kind = "invoice" THEN 1 ELSE req.change
Total == SumOf(req.coins, ToSet(sel.coins))

\* The first selection, after a refresh of the outputs.
SelectFirst ==
    /\ pc["payer"] = "select"
    /\ LET c == SelectCoins(req.coins, hand.amount, MaxOutputs, req.useAll)
           total == SumOf(req.coins, ToSet(c))
           needed == hand.amount + TxFee(Len(c), 1, 1)
       IN  IF ~up THEN Ends("payer", "node") /\ UNCHANGED sel
           ELSE IF total = 0 \/ (total < needed /\ Len(c) = Len(req.coins))
             THEN Ends("payer", "funds") /\ UNCHANGED sel
           ELSE IF total = needed
             THEN sel' = [coins |-> c, fee |-> TxFee(Len(c), 1, 1)] /\ Goes("payer", "build")
           ELSE /\ sel' = [coins |-> c, fee |-> TxFee(Len(c), NumChange + 1, 1)]
                /\ Goes("payer", "reselect")
    /\ seen' = IF up THEN [seen EXCEPT !["payer"] = height] ELSE seen
    /\ UNCHANGED <<seeds, hand, wire, ctx, log, stored, world, final, cutoff>>

ReselectSameAmount ==
    LET c == SelectCoins(req.coins, hand.amount, Len(req.coins), req.useAll)
    IN  [coins |-> c, fee |-> TxFee(Len(c), NumChange + 1, 1)]
\* The body of the loop: all coins may be taken now, for the amount and the fee.
SelectMore ==
    LET c == SelectCoins(req.coins, hand.amount + sel.fee, Len(req.coins), req.useAll)
    IN  [coins |-> c, fee |-> TxFee(Len(c), NumChange + 1, 1)]

ReselectHardLimit ==
    /\ pc["payer"] = "reselect"
    /\ IF Total >= hand.amount + sel.fee THEN Goes("payer", "build") /\ UNCHANGED sel
       ELSE IF Len(sel.coins) >= MaxOutputs THEN Ends("payer", "funds") /\ UNCHANGED sel
       ELSE sel' = SelectMore /\ UNCHANGED <<pc, told>>
    /\ UNCHANGED <<seeds, hand, wire, wallet, world, final, cutoff>>
Reselect ==
    /\ pc["payer"] = "reselect"
    /\ IF Total >= hand.amount + sel.fee THEN Goes("payer", "build") /\ UNCHANGED sel
       ELSE IF Len(sel.coins) = Len(req.coins) THEN Ends("payer", "funds") /\ UNCHANGED sel
       ELSE sel' = SelectMore /\ UNCHANGED <<pc, told>>
    /\ UNCHANGED <<seeds, hand, wire, wallet, world, final, cutoff>>

\* estimate_only: the slate only carries the total and the fee.
Estimated ==
    /\ pc["payer"] = "build" /\ req.kind = "estimate"
    /\ hand' = [hand EXCEPT !.amount = Total, !.fee = sel.fee]
    /\ Ends("payer", "estimate")
    /\ UNCHANGED <<seeds, sel, wire, wallet, world, final, cutoff>>

-----------------------------------------------------------------------------
(* send and pay: building the payer's part                                     *)

Change == Total - hand.amount - sel.fee

\* add_inputs_to_slate: inputs, change and the payer's public data.
WithInputs(key) ==
    FillRound1(AddInputs([hand EXCEPT !.fee = sel.fee], key.ins, key.change), 0, key)

\* What init_send_tx adds: the addresses of a payment proof and the target version.
WithRequest(s) ==
    [s EXCEPT !.proof = IF req.proof = "no" THEN None ELSE Some([sig |-> None]),
              !.orig = req.target]

BuildSendTx ==
    /\ pc["payer"] = "build" /\ req.kind # "estimate"
    /\ LET amounts == ChangeAmounts(Change, NumChange)
           key == [NoKey EXCEPT !.ins = ToSet(sel.coins), !.change = Get(amounts)]
           mine == GenerateOffset(hand, key)
           s == WithInputs(key)
       IN  IF ~IsSome(amounts) THEN Ends("payer", "panic") /\ UNCHANGED <<hand, ctx, cutoff>>
           ELSE IF req.kind = "invoice" /\ ~CanFillRound2(s)
             THEN Ends("payer", "invalid") /\ UNCHANGED <<hand, ctx, cutoff>>
           ELSE /\ hand' = IF req.kind = "send" THEN WithRequest(s) ELSE FillRound2(s, 0, mine)
                /\ ctx' = [ctx EXCEPT !["payer"] =
                             Some([key |-> mine, proof |-> req.kind = "send" /\ req.proof # "no"])]
                /\ cutoff' = hand.ttl
                /\ Goes("payer", "deliver")
    /\ UNCHANGED <<seeds, sel, wire, log, stored, seen, world, final>>

-----------------------------------------------------------------------------
(* send and pay: delivering the slate                                          *)

DeliverFile ==
    /\ pc["payer"] = "deliver"
    /\ req.method \in {"file", "emoji"}
    /\ wire' = IF req.kind = "send" THEN [wire EXCEPT !.out = Some(PutTx(hand))]
               ELSE [wire EXCEPT !.back = Some(PutTx(hand))]
    /\ Goes("payer", "lock")
    /\ UNCHANGED <<seeds, hand, sel, wallet, world, final, cutoff>>

DeliverSelf ==
    /\ pc["payer"] = "deliver" /\ req.method = "self"
    /\ Goes("payer", "lock")
    /\ UNCHANGED <<seeds, hand, sel, wire, wallet, world, final, cutoff>>

\* EpicboxChannel.send: version 2 always, and what it returns went through version 2 too.
DeliverEpicbox ==
    /\ pc["payer"] = "deliver" /\ req.method = "epicbox"
    /\ wire' = [wire EXCEPT !.out = Some(IntoVersion(hand, 2))]
    /\ hand' = FromVersioned(IntoVersion(hand, 2))
    /\ Goes("payer", "lock")
    /\ UNCHANGED <<seeds, sel, wallet, world, final, cutoff>>

\* What the sender puts on the wire.  An invoice that is paid this way reaches receive_tx,
\* which refuses it: the payee has an entry for the slate.
Offers(w) == IF req.kind = "send" THEN wire' = [out |-> Some(w), back |-> None]
             ELSE UNCHANGED wire

HttpVersion == IF req.peer = 3 THEN IntoVersion(hand, 3)
               ELSE IntoVersion([hand EXCEPT !.version = 2, !.orig = 2], 2)

VersionWarned == FALSE
\* A listener that only knows version 2 gets no payment with a proof.
VersionRefused == req.peer = 2 /\ IsSome(hand.proof)

BySender == req.method \in {"http", "keybase"}

\* SlateSender.send_tx.  is_node_synced is still FALSE if the thread that polls the node
\* has not been answered yet.
DeliverBySender ==
    /\ pc["payer"] = "deliver" /\ BySender
    /\ IF Sender(req) = "http"
         THEN \/ Ends("payer", "unsynced") /\ UNCHANGED wire
              \/ VersionRefused /\ Ends("payer", "version") /\ UNCHANGED wire
              \/ ~VersionRefused /\ Goes("payer", "await") /\ Offers(HttpVersion)
         ELSE Goes("payer", "await") /\ Offers(Serialize(hand))
    /\ UNCHANGED <<seeds, hand, sel, wallet, world, final, cutoff>>

ReadAnswer ==
    /\ pc["payer"] = "await" /\ IsSome(wire.back)
    /\ LET s == DeserializeUpgrade(Get(wire.back))
       IN  IF IsSome(s) THEN hand' = Get(s) /\ Goes("payer", "lock")
           ELSE Ends("payer", "format") /\ UNCHANGED hand
    /\ UNCHANGED <<seeds, sel, wire, wallet, world, final, cutoff>>

\* No answer: the peer refused (an http listener answers receive_tx only), the connection
\* was lost, or keybase's poll timed out.
NoAnswer ==
    /\ pc["payer"] = "await"
    /\ Ends("payer", "peer")
    /\ UNCHANGED <<seeds, hand, sel, wire, wallet, world, final, cutoff>>

\* tx_lock_outputs: the log entry takes ttl and proof from the slate it is given, which is
\* the peer's answer for http and keybase.
TxLockOutputs ==
    /\ pc["payer"] = "lock"
    /\ log' = [log EXCEPT !["payer"] = Some(
                 [type |-> "TxSentCreated", ttl |-> hand.ttl, fee |-> hand.fee,
                  debited |-> SumOf(req.coins, Get(ctx["payer"]).key.ins),
                  credited |-> SumSeq(Get(ctx["payer"]).key.change),
                  proof |-> hand.proof, sent |-> FALSE, confirmed |-> FALSE])]
    /\ stored' = [stored EXCEPT !["payer"] = Some([tx |-> CalcExcess(hand), complete |-> FALSE])]
    /\ IF req.method = "self" THEN Goes("payer", "receive")
       ELSE IF req.kind = "send" /\ BySender THEN Goes("payer", "finalize")
       ELSE Ends("payer", "ok")
    /\ UNCHANGED <<seeds, hand, sel, wire, ctx, seen, world, final, cutoff>>

-----------------------------------------------------------------------------
(* receive_tx                                                                  *)

PayeeKey(s) == [NoKey EXCEPT !.pay = Some(s.amount)]
WithOutput(s) == FillRound1(AddOutput(s), 1, PayeeKey(s))

\* The payee signs amount, kernel excess and the sender's address.
ProofMessage(s) == [amount |-> s.amount, excess |-> CalcExcess(s)]
SignProof(s) ==
    [s EXCEPT !.proof = IF IsSome(@) THEN Some([sig |-> Some(ProofMessage(s))]) ELSE None]

Received(s) == SignProof(FillRound2(WithOutput(s), 1, GenerateOffset(s, PayeeKey(s))))

\* build_recipient_output saves output and entry before the signature is made.
SavesReceived(s) ==
    log' = [log EXCEPT !["payee"] = Some(
              [type |-> "TxReceived", ttl |-> s.ttl, fee |-> 0, debited |-> 0,
               credited |-> s.amount, proof |-> None, sent |-> FALSE, confirmed |-> FALSE])]

\* How the receiving side reads a slate: the JSON-RPC server and epicbox take either
\* layout, the others go by the version field.
ReadOffer(w) ==
    IF req.method = "epicbox" \/ (req.kind = "send" /\ Sender(req) = "http" /\ BySender)
      THEN Some(FromVersioned(w)) ELSE DeserializeUpgrade(w)
WriteAnswer(s, w) ==
    CASE req.method \in {"file", "emoji"} -> PutTx(s)
      [] Sender(req) = "keybase"          -> Serialize(s)
      [] OTHER                            -> IntoVersion(s, w.fmt)

\* The receive command, or a listener that got the slate.
ReceiveTx ==
    /\ Ready("payee") /\ req.kind = "send" /\ IsSome(wire.out) /\ IsSome(ReadOffer(Get(wire.out)))
    /\ TypeOf("payee") # "TxReceived"
    /\ LET s == Get(ReadOffer(Get(wire.out)))
       IN  IF Expired(s, "payee") THEN Ends("payee", "expired") /\ UNCHANGED <<log, wire>>
           ELSE /\ SavesReceived(s)
                /\ IF CanFillRound2(WithOutput(s))
                     THEN /\ wire' = [wire EXCEPT !.back = Some(WriteAnswer(Received(s), Get(wire.out)))]
                          /\ Ends("payee", "ok")
                     ELSE Ends("payee", "invalid") /\ UNCHANGED wire
    /\ UNCHANGED <<seeds, hand, sel, ctx, stored, seen, world, final, cutoff>>

\* send --method self: the same wallet receives into another account.
ReceiveSelf ==
    /\ pc["payer"] = "receive" /\ req.kind = "send"
    /\ IF Expired(hand, "payer") THEN Ends("payer", "expired") /\ UNCHANGED <<hand, log>>
       ELSE /\ SavesReceived(hand)
            /\ IF CanFillRound2(WithOutput(hand))
                 THEN hand' = Received(hand) /\ Goes("payer", "finalize")
                 ELSE Ends("payer", "invalid") /\ UNCHANGED hand
    /\ UNCHANGED <<seeds, sel, wire, ctx, stored, seen, world, final, cutoff>>

\* issue_invoice_tx: the payee begins, with its output.
IssueInvoice ==
    /\ Online("payee") /\ req.kind = "invoice" /\ told["payee"] = "nothing"
    /\ LET s == WithOutput(Blank(req.amount, None))
       IN  /\ wire' = [wire EXCEPT !.out = Some(PutTx([s EXCEPT !.orig = req.target]))]
           /\ ctx' = [ctx EXCEPT !["payee"] =
                        Some([key |-> GenerateOffset(Blank(req.amount, None), PayeeKey(s)),
                              proof |-> FALSE])]
           /\ SavesReceived(s)
    /\ Ends("payee", "ok")
    /\ UNCHANGED <<seeds, hand, sel, stored, seen, world, final, cutoff>>

-----------------------------------------------------------------------------
(* finalize                                                                    *)

\* verify_slate_payment_proof
ProofError(s) ==
    LET asked == IF IsSome(log["payer"]) THEN Get(log["payer"]).proof ELSE None
    IN  \/ ~IsSome(log["payer"])
        \/ IsSome(asked) # IsSome(s.proof)
        \/ IsSome(s.proof) /\ ~Get(ctx["payer"]).proof
        \/ IsSome(s.proof) /\ Get(s.proof).sig # Some(ProofMessage(s))

\* Why wallet w cannot complete slate s, in the order of finalize_tx and
\* finalize_invoice_tx.  The entry must still be live: update_stored_tx finds no other.
FinalizeError(w, s, done) ==
    IF Expired(s, w) THEN "expired"
    ELSE IF ~IsSome(ctx[w]) THEN "missing"
    ELSE IF ~CanFillRound2(s) \/ ~CanFinalize(done, req.coins) THEN "invalid"
    ELSE IF w = "payer" /\ ProofError(done) THEN "proof"
    ELSE IF TypeOf(w) \in (IF w = "payer" THEN {"TxSentCreated", "TxSent"} ELSE {"TxReceived"})
      THEN "none"
    ELSE "missing"

\* complete_tx, update_stored_tx (with the sender's proof signature) and the deletion of the
\* context; with finish the command goes on to post the transaction.
Finalize(w, id, s, finish) ==
    LET done == IF IsSome(ctx[w]) THEN FillRound2(s, id, Get(ctx[w]).key) ELSE s
        e == FinalizeError(w, s, done)
    IN  IF e # "none"
          THEN Ends(IF finish = "self" THEN "payer" ELSE w, e) /\ UNCHANGED <<ctx, log, stored, final>>
          ELSE /\ ctx' = [ctx EXCEPT ![w] = None]
               /\ stored' = [stored EXCEPT ![w] = Some([tx |-> CalcExcess(done), complete |-> TRUE])]
               /\ log' = [log EXCEPT ![w] = Some([Get(log[w]) EXCEPT !.proof = done.proof,
                                                                     !.sent = IsSome(done.proof)])]
               /\ final' = Some([by |-> w, at |-> seen[w]])
               /\ CASE finish = "post"   -> Goes(w, "post")
                    [] finish = "nopost" -> Ends(w, "ok")
                    [] finish = "self"   -> Ends("payer", "ok")

\* http, keybase and self: the send command itself.
FinalizeInHand ==
    /\ pc["payer"] = "finalize"
    /\ Finalize("payer", 0, hand, "post")
    /\ UNCHANGED <<seeds, hand, sel, wire, seen, world, cutoff>>

\* pay --method self finalizes the invoice and posts nothing.
FinalizeInvoiceSelf ==
    /\ pc["payer"] = "receive" /\ req.kind = "invoice"
    /\ Finalize("payee", 1, hand, "self")
    /\ UNCHANGED <<seeds, hand, sel, wire, seen, world, cutoff>>

\* The finalize command (and the epicbox listener): it takes a slate whose participant 1
\* has not signed for an invoice.
FinalizeBack(nopost) ==
    /\ IsSome(wire.back) /\ ~BySender
    /\ LET r == ReadOffer(Get(wire.back))
           w == IF IsComplete(Participant(Get(r), 1)) THEN "payer" ELSE "payee"
       IN  /\ IsSome(r) /\ Ready(w)
           /\ Finalize(w, IF w = "payer" THEN 0 ELSE 1, Get(r), nopost)
    /\ UNCHANGED <<seeds, hand, sel, wire, seen, world, cutoff>>

-----------------------------------------------------------------------------
(* Posting, and the other commands                                             *)

IsMined(w) == IsSome(stored[w]) /\ Get(stored[w]).tx \in chain

\* The node takes a complete transaction that is not in a block yet.
Accepted(w) == up /\ Get(stored[w]).complete /\ ~IsMined(w)

\* wait_for_tx_in_mempool and update_mempool_status, for the entries of the slate in the
\* wallet (two for a payment to itself): none if the poll does not see the transaction.
Mempool(e) == [e EXCEPT !.type = CASE @ \in {"TxSent", "TxSentCreated"} -> "TxSentMempool"
                                   [] @ = "TxReceived"               -> "TxReceivedMempool"
                                   [] OTHER                          -> @]
MarksMempool(w) ==
    \E found \in SUBSET (IF req.method = "self" THEN Wallets ELSE {w}) :
        log' = [v \in Wallets |-> IF v \in found /\ IsSome(log[v]) THEN Some(Mempool(Get(log[v])))
                                                                ELSE log[v]]

PostTx(w) ==
    /\ pc[w] = "post"
    /\ IF Accepted(w) THEN pool' = pool \cup {Get(stored[w]).tx} /\ Ends(w, "ok") /\ MarksMempool(w)
       ELSE Ends(w, "node") /\ UNCHANGED <<pool, log>>
    /\ UNCHANGED <<req, seeds, up, height, chain, faults, hand, sel, wire, ctx, stored, seen,
                   final, cutoff>>

Live(e) == e.type \notin {"TxSentCancelled", "TxReceivedCancelled"}
Cancellable(e) == e.type \in {"TxSentCreated", "TxReceived"} /\ ~e.confirmed
Cancelled(e) == [e EXCEPT !.type = IF @ = "TxReceived" THEN "TxReceivedCancelled"
                                   ELSE "TxSentCancelled"]

\* What an update makes of a log entry: confirmed when the wallet's output is in a block,
\* cancelled past its ttl.
Updated(w) ==
    LET e == Get(log[w])
    IN  IF Live(e) /\ w = "payer" /\ IsMined(w) THEN [e EXCEPT !.confirmed = TRUE, !.type = "TxSent"]
        ELSE IF Live(e) /\ w = "payee" /\ chain # {} THEN [e EXCEPT !.confirmed = TRUE]
        ELSE IF Cancellable(e) /\ IsSome(e.ttl) /\ height >= Get(e.ttl) THEN Cancelled(e)
        ELSE e
Updates(w) ==
    /\ Online(w)
    /\ seen' = [seen EXCEPT ![w] = height]

\* info, outputs, txs, export_tx and export_proof update the wallet before they report.
Refresh(w) ==
    /\ Updates(w)
    /\ log' = IF IsSome(log[w]) THEN [log EXCEPT ![w] = Some(Updated(w))] ELSE log
    /\ UNCHANGED <<seeds, pc, told, hand, sel, wire, ctx, stored, world, final, cutoff>>

\* post: the slate that finalize wrote to a file.
Post(w) ==
    /\ Ready(w) /\ IsSome(stored[w]) /\ Accepted(w)
    /\ pool' = pool \cup {Get(stored[w]).tx}
    /\ UNCHANGED <<req, seeds, up, height, chain, faults, pc, told, hand, sel, wire, wallet,
                   final, cutoff>>

\* repost: the stored transaction of an entry that an update leaves unconfirmed.
Repost(w) ==
    /\ Updates(w) /\ IsSome(stored[w]) /\ IsSome(log[w])
    /\ ~Updated(w).confirmed /\ Accepted(w)
    /\ log' = [log EXCEPT ![w] = Some(Updated(w))]
    /\ pool' = pool \cup {Get(stored[w]).tx}
    /\ UNCHANGED <<req, seeds, up, height, chain, faults, pc, told, hand, sel, wire, ctx, stored,
                   final, cutoff>>

\* cancel updates first and then cancels what is still unconfirmed.
Cancel(w) ==
    /\ Updates(w) /\ IsSome(log[w]) /\ Cancellable(Updated(w))
    /\ log' = [log EXCEPT ![w] = Some(Cancelled(Updated(w)))]
    /\ UNCHANGED <<seeds, pc, told, hand, sel, wire, ctx, stored, world, final, cutoff>>

Mine ==
    /\ pool # {} /\ height < MaxHeight
    /\ chain' = chain \cup pool /\ pool' = {} /\ height' = height + 1
    /\ UNCHANGED <<req, seeds, up, faults, pc, told, hand, sel, wire, wallet, final, cutoff>>

Tick ==
    /\ height < MaxHeight /\ height' = height + 1
    /\ UNCHANGED <<req, seeds, up, faults, pool, chain, pc, told, hand, sel, wire, wallet,
                   final, cutoff>>

Outage ==
    /\ up' = ~up /\ (up => faults < MaxFaults)
    /\ faults' = IF up THEN faults + 1 ELSE faults
    /\ UNCHANGED <<req, seeds, height, pool, chain, pc, told, hand, sel, wire, wallet,
                   final, cutoff>>

Killed(w) ==
    /\ pc[w] # "idle" /\ faults < MaxFaults /\ faults' = faults + 1
    /\ Ends(w, "killed")
    /\ UNCHANGED <<req, seeds, up, height, pool, chain, hand, sel, wire, wallet, final, cutoff>>

-----------------------------------------------------------------------------

\* The steps of a command that is running.
PayerStep ==
    \/ SelectFirst \/ Reselect \/ Estimated \/ BuildSendTx
    \/ DeliverFile \/ DeliverSelf \/ DeliverEpicbox \/ DeliverBySender
    \/ ReadAnswer \/ NoAnswer \/ TxLockOutputs \/ ReceiveSelf
    \/ FinalizeInHand \/ FinalizeInvoiceSelf \/ PostTx("payer")

Next ==
    \/ \E w \in Wallets : InitWallet(w) \/ Post(w) \/ Repost(w) \/ Refresh(w) \/ Cancel(w) \/ Killed(w)
    \/ Send \/ Pay \/ ReceiveTx \/ IssueInvoice
    \/ \E finish \in {"post", "nopost"} : FinalizeBack(finish)
    \/ PayerStep \/ PostTx("payee")
    \/ Mine \/ Tick \/ Outage

Spec == Init /\ [][Next]_vars

-----------------------------------------------------------------------------
(* Properties                                                                  *)

\* The loop in select_coins_and_fee ends: every round that does not leave it takes more
\* coins than the one before, although the coins are taken in another order once the soft
\* limit is given up, and the fee they have to pay falls as their number grows.
SelectionGrows ==
    pc["payer"] = "reselect" /\ Total < hand.amount + sel.fee /\ Len(sel.coins) < Len(req.coins)
        => Len(SelectMore.coins) > Len(sel.coins)

\* NotEnoughFunds is reported only if even all eligible coins together cannot pay for the
\* amount and the fee: max_outputs is a soft limit (selection.rs).  A payment of nothing,
\* which the command line accepts, selects no coin and is refused this way in any case.
RefusedMeansShort ==
    told["payer"] = "funds" /\ req.amount > 0 =>
        SumOf(req.coins, DOMAIN req.coins)
            < req.amount + TxFee(Len(req.coins), NumChange + 1, 1)

\* Two wallets that follow the protocol never dispute a fee, a signature or the final
\* transaction, whatever the method and its slate versions do to the slate on its way, as
\* long as the change amounts add up; and the split panics only if there are more outputs
\* than there is change, or none.
HonestCompletes ==
    /\ (\E w \in Wallets : told[w] = "invalid") => ~SplitsEvenly(Change, NumChange)
    /\ told["payer"] = "panic" => Change < NumChange \/ NumChange = 0

\* retrieve_payment_proof and verify_payment_proof for the payer's entry.
RetrievePaymentProof(e) ==
    IF IsSome(e.proof) /\ IsSome(Get(e.proof).sig) /\ e.sent
      THEN Some([amount |-> e.debited - e.credited - e.fee, sig |-> Get(Get(e.proof).sig),
                 excess |-> Get(stored["payer"]).tx])
      ELSE None
VerifyPaymentProof(p) ==
    p.excess \in chain /\ p.sig = [amount |-> p.amount, excess |-> p.excess]

Proven == IsSome(RetrievePaymentProof(Get(log["payer"])))
          /\ VerifyPaymentProof(Get(RetrievePaymentProof(Get(log["payer"]))))
Paid == req.kind = "send" /\ IsMined("payer") /\ Get(stored["payer"]).complete

\* A payment for which a proof was requested is not completed without one that verifies,
\* except over epicbox.
ProofVerifies == Paid /\ req.proof # "no" /\ req.method # "epicbox" => Proven

\* InitTxArgs: a payment proof address "requires" a proof for the recipient.
ProofRequired == Paid /\ req.proof # "no" => Proven

\* A wallet that knows a height past the cutoff does not finalize the payment, on the ways
\* that carry a cutoff (a send, not over version 2).
TtlRefused ==
    IsSome(final) /\ IsSome(cutoff) /\ req.kind = "send" /\ req.method # "epicbox"
        /\ ~(Sender(req) = "http" /\ req.peer = 2)
      => Get(final).at < Get(cutoff)
=============================================================================
