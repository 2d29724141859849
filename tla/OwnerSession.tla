---------------------------- MODULE OwnerSession ----------------------------
(***************************************************************************)
(* The owner API listener (controller/src/controller.rs): encrypted JSON-RPC *)
(* sessions of several clients, the wallet they open and close, the keychain *)
(* mask kept for the foreign API on the same port, and the locks that the    *)
(* calls of api/src/owner.rs take.  Requests are served concurrently; a step *)
(* is what a request does between two locks.  Reading the wallet instance is *)
(* one step: no call keeps its mutex while it waits for another.             *)
(***************************************************************************)
EXTENDS Naturals, FiniteSets

CONSTANTS
    Clients,      \* clients of the v3 owner API
    MethodsOf,    \* the methods each of them calls
    MaxKeys,      \* bound on the session keys that are negotiated
    MaxMasks      \* bound on the masks that open_wallet draws

\* OwnerRpcS by what a call needs: the open wallet and its mask, only the open wallet, only
\* the mutex of the wallet instance, the configurations.
MaskedMethods ==
    {"accounts", "create_account_path", "set_active_account", "retrieve_outputs",
     "issue_invoice_tx", "process_invoice_tx", "finalize_tx", "tx_lock_outputs",
     "cancel_tx", "get_stored_tx", "post_tx", "verify_slate_messages", "scan",
     "node_height", "get_public_proof_address", "verify_payment_proof"}
OpenMethods == {"retrieve_txs", "retrieve_summary_info", "retrieve_payment_proof"}
LifecycleMethods ==
    {"get_top_level_directory", "set_top_level_directory", "create_config", "create_wallet",
     "get_mnemonic", "change_password", "delete_wallet"}
ConfigMethods == {"set_tor_config", "set_epicbox_config"}
AllMethods == MaskedMethods \cup OpenMethods \cup LifecycleMethods \cup ConfigMethods \cup
    {"init_secure_api", "open_wallet", "close_wallet", "init_send_tx", "get_public_address"}

ASSUME SessionAssumption ==
    /\ IsFiniteSet(Clients) /\ Clients # {}
    /\ MethodsOf \in [Clients -> SUBSET AllMethods]
    /\ MaxKeys \in Nat /\ MaxMasks \in Nat

None == 0                 \* no key, no mask
Closed == MaxMasks + 1    \* the wallet instance has no backend
Nobody == "nobody"
Keys == 0 .. MaxKeys
Masks == 0 .. MaxMasks
Tracked == {"init_secure_api", "open_wallet"}
ForeignMethods == {"check_version", "build_coinbase", "receive_tx"}

VARIABLES
    wallet,    \* mask of the open wallet (None: opened without one), or Closed
    key,       \* the handler's shared_key
    apiKey,    \* the Owner's shared_key: the key init_secure_api drew last
    mask,      \* the handlers' keychain_mask, which the foreign API uses
    foreignOn, \* running_foreign
    lock,      \* who holds the mutexes of tor_config and epicbox_config
    masks,     \* how many masks were drawn
    req,       \* the request each client is waiting for
    ses,       \* what a client knows: its session key and its token
    sent,      \* history: how far the client's last init_send_tx got
    foreign,   \* a request to the foreign API, with the mask it copied
    overlap,   \* history: two calls of init_secure_api, or of open_wallet, overlapped
    unread     \* history: clients that could not read an answer, with the same key in place

sessionVars == <<key, apiKey, ses>>
walletVars == <<wallet, masks, mask>>
vars == <<sessionVars, walletVars, foreignOn, lock, req, sent, foreign, overlap, unread>>

Pcs == {"idle", "check", "decrypt", "handle", "mask", "tor", "epicbox", "net", "lock",
        "finalize", "post", "encrypt", "copy", "store"}
NoRequest == [pc |-> "idle", m |-> "none", enc |-> None, got |-> None, copy |-> None,
              rkey |-> None, ok |-> FALSE, rekeyed |-> FALSE]
NoForeign == [pc |-> "idle", mask |-> None, ok |-> FALSE]

TypeOK ==
    /\ wallet \in Masks \cup {Closed}
    /\ key \in Keys /\ apiKey \in Keys /\ mask \in Masks
    /\ foreignOn \in BOOLEAN
    /\ lock \in [{"tor", "epicbox"} -> Clients \cup {Nobody}]
    /\ masks \in Masks
    /\ req \in [Clients -> [pc : Pcs, m : AllMethods \cup {"none"}, enc : Keys,
                            got : Keys \cup Masks, copy : Keys, rkey : Keys, ok : BOOLEAN,
                            rekeyed : BOOLEAN]]
    /\ ses \in [Clients -> [key : Keys, token : Masks]]
    /\ sent \in [Clients -> {"no", "sent", "locked"}]
    /\ foreign \in [pc : {"idle", "posted"}, mask : Masks, ok : BOOLEAN]
    /\ overlap \in [Tracked -> BOOLEAN]
    /\ unread \subseteq Clients

\* wallet_command opens the wallet without a mask if it exists and runs owner_listener.
Init ==
    /\ wallet \in {None, Closed}
    /\ key = None /\ apiKey = None /\ mask = None
    /\ foreignOn \in BOOLEAN
    /\ lock = [l \in {"tor", "epicbox"} |-> Nobody]
    /\ masks = 0
    /\ req = [c \in Clients |-> NoRequest]
    /\ ses = [c \in Clients |-> [key |-> None, token |-> None]]
    /\ sent = [c \in Clients |-> "no"]
    /\ foreign = NoForeign
    /\ overlap = [m \in Tracked |-> FALSE]
    /\ unread = {}

-----------------------------------------------------------------------------
(* Serving a request: OwnerAPIHandlerV3::call_api. *)

At(c, p) == req[c].pc = p
Handling(c, m) == At(c, "handle") /\ req[c].m = m
Goto(c, p) == req' = [req EXCEPT ![c].pc = p]
\* handle_request returned Ok or Err.
Return(c, ok) == req' = [req EXCEPT ![c].pc = "encrypt", ![c].ok = ok]
InFlight(m) == {c \in Clients : req[c].m = m}
Alone(c, m) == InFlight(m) = {c}
Begin(m, b) == overlap' = [o \in Tracked |-> overlap[o] \/ (b /\ m = o /\ InFlight(o) # {})]

\* A client posts its next request: init_secure_api in the clear, or anything encrypted with
\* the key it has.  What an encrypted request asks for shows when it is decrypted.
Post(c, plain) ==
    /\ At(c, "idle")
    /\ req' = [req EXCEPT ![c] = IF plain
                 THEN [NoRequest EXCEPT !.pc = "handle", !.m = "init_secure_api"]
                 ELSE [NoRequest EXCEPT !.pc = "check", !.enc = ses[c].key]]
    /\ Begin("init_secure_api", plain)
    /\ UNCHANGED <<sessionVars, walletVars, foreignOn, lock, sent, foreign, unread>>

\* The client gets its answer, encrypted with k, and reads it if that is the key of its
\* request: an Ok of init_secure_api gives it the new key, an Ok of open_wallet the token.
Reply(c, k) ==
    LET r == req[c]
        read == k = r.enc
    IN  /\ ses' = [ses EXCEPT ![c] =
                      [key |-> IF read /\ r.ok /\ r.m = "init_secure_api" THEN r.got ELSE @.key,
                       token |-> IF read /\ r.ok /\ r.m = "open_wallet" THEN r.got ELSE @.token]]
        /\ unread' = IF read \/ r.rekeyed THEN unread ELSE unread \cup {c}
        /\ sent' = [sent EXCEPT ![c] = "no"]

\* check_encryption_started: without a shared key the request is refused, in the clear.
CheckEncryptionStarted(c) ==
    /\ At(c, "check")
    /\ req' = [req EXCEPT ![c] = IF key = None THEN NoRequest ELSE [@ EXCEPT !.pc = "decrypt"]]
    /\ UNCHANGED <<sessionVars, walletVars, foreignOn, lock, sent, foreign, overlap, unread>>

\* decrypt_request takes the shared key out of its Option again; a request that was
\* encrypted with another key is refused, in the clear.
DecryptRequest(c, m) ==
    /\ At(c, "decrypt")
    /\ IF req[c].enc = key
       THEN req' = [req EXCEPT ![c].pc = "handle", ![c].m = m] /\ Begin(m, TRUE)
       ELSE req' = [req EXCEPT ![c] = NoRequest] /\ UNCHANGED overlap
    /\ UNCHANGED <<sessionVars, walletVars, foreignOn, lock, sent, foreign, unread>>

\* Mutant: encrypt_response of an encrypted request with the key it negotiated.
EncryptResponseNewKey(c) ==
    /\ At(c, "encrypt")
    /\ LET k == IF req[c].enc = None THEN None ELSE apiKey
       IN  IF req[c].m = "init_secure_api" /\ req[c].ok
           THEN /\ req' = [req EXCEPT ![c].pc = "copy", ![c].rkey = k]
                /\ UNCHANGED <<ses, unread, sent>>
           ELSE req' = [req EXCEPT ![c] = NoRequest] /\ Reply(c, k)
    /\ UNCHANGED <<key, apiKey, walletVars, foreignOn, lock, foreign, overlap>>

\* encrypt_response of an encrypted request, with the key the handler has by now; then, and
\* only then, the key of an init_secure_api is stored.
EncryptResponse(c) ==
    /\ At(c, "encrypt")
    /\ LET k == IF req[c].enc = None THEN None ELSE key
       IN  IF req[c].m = "init_secure_api" /\ req[c].ok
           THEN /\ req' = [req EXCEPT ![c].pc = "copy", ![c].rkey = k]
                /\ UNCHANGED <<ses, unread, sent>>
           ELSE req' = [req EXCEPT ![c] = NoRequest] /\ Reply(c, k)
    /\ UNCHANGED <<key, apiKey, walletVars, foreignOn, lock, foreign, overlap>>

-----------------------------------------------------------------------------
(* init_secure_api. *)

\* A key is drawn and kept in the Owner, unless the client's public key is unusable.
InitSecureApi(c) ==
    /\ Handling(c, "init_secure_api")
    /\ \/ /\ apiKey < MaxKeys
          /\ apiKey' = apiKey + 1
          /\ req' = [req EXCEPT ![c].pc = "encrypt", ![c].ok = TRUE, ![c].got = apiKey + 1]
          /\ overlap' = [overlap EXCEPT !["init_secure_api"] =
                            @ /\ (req[c].rekeyed \/ ~Alone(c, "init_secure_api"))]
       \/ Return(c, FALSE) /\ UNCHANGED <<apiKey, overlap>>
    /\ UNCHANGED <<key, ses, walletVars, foreignOn, lock, sent, foreign, unread>>

\* The call of update_owner_api_shared_key reads the Owner's key ...
CopyKey(c) ==
    /\ At(c, "copy")
    /\ req' = [req EXCEPT ![c].copy = apiKey, ![c].pc = "store"]
    /\ UNCHANGED <<sessionVars, walletVars, foreignOn, lock, sent, foreign, overlap, unread>>

\* Who is between decrypting the request and encrypting the answer sees another key.
Rekeyed(c) == [d \in Clients |->
    CASE d = c -> NoRequest
      [] d # c /\ req[d].enc # None /\ req[d].pc \notin {"check", "decrypt", "copy", "store"}
              -> [req[d] EXCEPT !.rekeyed = TRUE]
      [] OTHER -> req[d]]

\* Mutant: the handler keeps the key of its first session.
UpdateSharedKeyOnce(c) ==
    /\ At(c, "store")
    /\ key' = IF key = None THEN req[c].copy ELSE key
    /\ req' = Rekeyed(c)
    /\ Reply(c, req[c].rkey)
    /\ UNCHANGED <<apiKey, walletVars, foreignOn, lock, foreign, overlap>>

\* ... and stores it in the handler.
UpdateOwnerApiSharedKey(c) ==
    /\ At(c, "store")
    /\ key' = req[c].copy
    /\ req' = Rekeyed(c)
    /\ Reply(c, req[c].rkey)
    /\ UNCHANGED <<apiKey, walletVars, foreignOn, lock, foreign, overlap>>

-----------------------------------------------------------------------------
(* The wallet instance and the mask of the foreign API. *)

\* WalletBackend::keychain: the master key is right only with the mask that hid it.
Keychain(m) == wallet # Closed /\ wallet = m

\* lc.open_wallet: a backend with a new mask replaces the open one; a wrong password or a
\* missing seed leaves it in place.
OpenWallet(c) ==
    /\ Handling(c, "open_wallet")
    /\ \/ /\ masks < MaxMasks
          /\ masks' = masks + 1 /\ wallet' = masks + 1
          /\ req' = [req EXCEPT ![c].pc = "mask", ![c].ok = TRUE, ![c].got = masks + 1]
          /\ overlap' = [overlap EXCEPT !["open_wallet"] = @ /\ ~Alone(c, "open_wallet")]
       \/ Return(c, FALSE) /\ UNCHANGED <<wallet, masks, overlap>>
    /\ UNCHANGED <<sessionVars, mask, foreignOn, lock, sent, foreign, unread>>

\* Mutant: the handler looks for open_wallet in the encrypted envelope.
UpdateMaskNever(c) ==
    /\ At(c, "mask")
    /\ Goto(c, "encrypt")
    /\ UNCHANGED <<sessionVars, walletVars, foreignOn, lock, sent, foreign, overlap, unread>>

\* update_mask, if the foreign API is served on the same port.
UpdateMask(c) ==
    /\ At(c, "mask")
    /\ mask' = IF foreignOn THEN req[c].got ELSE mask
    /\ Goto(c, "encrypt")
    /\ UNCHANGED <<sessionVars, wallet, masks, foreignOn, lock, sent, foreign, overlap, unread>>

\* close_wallet drops the backend; the mask of the foreign API stays.
CloseWallet(c) ==
    /\ Handling(c, "close_wallet")
    /\ wallet' = Closed
    /\ Return(c, TRUE)
    /\ UNCHANGED <<sessionVars, masks, mask, foreignOn, lock, sent, foreign, overlap, unread>>

\* The calls on the open wallet, which WalletLedger models.
MaskedCall(c) ==
    /\ At(c, "handle") /\ req[c].m \in MaskedMethods
    /\ Return(c, Keychain(ses[c].token))
    /\ UNCHANGED <<sessionVars, walletVars, foreignOn, lock, sent, foreign, overlap, unread>>

OpenCall(c) ==
    /\ At(c, "handle") /\ req[c].m \in OpenMethods
    /\ Return(c, wallet # Closed)
    /\ UNCHANGED <<sessionVars, walletVars, foreignOn, lock, sent, foreign, overlap, unread>>

\* The calls on the files of the wallet, which SeedFile models.
LifecycleCall(c) ==
    /\ At(c, "handle") /\ req[c].m \in LifecycleMethods
    /\ Return(c, TRUE)
    /\ UNCHANGED <<sessionVars, walletVars, foreignOn, lock, sent, foreign, overlap, unread>>

-----------------------------------------------------------------------------
(* The calls that need the configurations. *)

Free(l) == lock[l] = Nobody
Take(c, l) == Free(l) /\ lock' = [lock EXCEPT ![l] = c]
\* The guards go out of scope.
Drop(c) == lock' = [l \in DOMAIN lock |-> IF lock[l] = c THEN Nobody ELSE lock[l]]

\* set_tor_config and set_epicbox_config hold one mutex for an assignment.
SetConfig(c) ==
    /\ \/ Handling(c, "set_tor_config") /\ Free("tor")
       \/ Handling(c, "set_epicbox_config") /\ Free("epicbox")
    /\ Return(c, TRUE)
    /\ UNCHANGED <<sessionVars, walletVars, foreignOn, lock, sent, foreign, overlap, unread>>

\* get_public_address reads the wallet while it holds the epicbox configuration.
GetPublicAddress(c) ==
    /\ Handling(c, "get_public_address") /\ Take(c, "epicbox")
    /\ Goto(c, "lock")
    /\ UNCHANGED <<sessionVars, walletVars, foreignOn, sent, foreign, overlap, unread>>

PublicAddress(c) ==
    /\ At(c, "lock") /\ req[c].m = "get_public_address"
    /\ Return(c, Keychain(ses[c].token))
    /\ Drop(c)
    /\ UNCHANGED <<sessionVars, walletVars, foreignOn, sent, foreign, overlap, unread>>

\* init_send_tx builds the slate; without send_args, or when that fails, it returns.
InitSendTx(c) ==
    /\ Handling(c, "init_send_tx")
    /\ \/ Return(c, Keychain(ses[c].token))
       \/ Keychain(ses[c].token) /\ Goto(c, "tor")
    /\ UNCHANGED <<sessionVars, walletVars, foreignOn, lock, sent, foreign, overlap, unread>>

\* Then it takes both configurations and keeps them to the end.
TakeTorConfig(c) ==
    /\ At(c, "tor") /\ Take(c, "tor")
    /\ Goto(c, "epicbox")
    /\ UNCHANGED <<sessionVars, walletVars, foreignOn, sent, foreign, overlap, unread>>

TakeEpicboxConfig(c) ==
    /\ At(c, "epicbox") /\ Take(c, "epicbox")
    /\ Goto(c, "net")
    /\ UNCHANGED <<sessionVars, walletVars, foreignOn, sent, foreign, overlap, unread>>

\* Mutant: a failed send is tried again until it succeeds.
SendSlateAgain(c) ==
    /\ At(c, "net")
    /\ \/ Goto(c, "lock") /\ sent' = [sent EXCEPT ![c] = "sent"] /\ UNCHANGED lock
       \/ Goto(c, "tor") /\ Drop(c) /\ UNCHANGED sent
    /\ UNCHANGED <<sessionVars, walletVars, foreignOn, foreign, overlap, unread>>

\* The adapter sends the slate and waits for what comes back.
SendSlate(c) ==
    /\ At(c, "net")
    /\ \/ Goto(c, "lock") /\ sent' = [sent EXCEPT ![c] = "sent"] /\ UNCHANGED lock
       \/ Return(c, FALSE) /\ Drop(c) /\ UNCHANGED sent
    /\ UNCHANGED <<sessionVars, walletVars, foreignOn, foreign, overlap, unread>>

\* Mutant: the answer of tx_lock_outputs is dropped.
TxLockOutputsUnchecked(c) ==
    /\ At(c, "lock") /\ req[c].m = "init_send_tx"
    /\ Goto(c, "finalize")
    /\ sent' = [sent EXCEPT ![c] = IF Keychain(ses[c].token) THEN "locked" ELSE @]
    /\ UNCHANGED <<sessionVars, walletVars, foreignOn, lock, foreign, overlap, unread>>

\* tx_lock_outputs, with the wallet and the mask of that moment.
TxLockOutputs(c) ==
    /\ At(c, "lock") /\ req[c].m = "init_send_tx"
    /\ \/ /\ Keychain(ses[c].token)
          /\ sent' = [sent EXCEPT ![c] = "locked"]
          /\ Goto(c, "finalize") /\ UNCHANGED lock
       \/ ~Keychain(ses[c].token) /\ Return(c, FALSE) /\ Drop(c) /\ UNCHANGED sent
    /\ UNCHANGED <<sessionVars, walletVars, foreignOn, foreign, overlap, unread>>

\* An epicbox send is done; the others finalize and post as the send_args say.
FinalizeTx(c) ==
    /\ At(c, "finalize")
    /\ \/ Return(c, TRUE) /\ Drop(c)
       \/ Keychain(ses[c].token) /\ Goto(c, "post") /\ UNCHANGED lock
       \/ Return(c, FALSE) /\ Drop(c)
    /\ UNCHANGED <<sessionVars, walletVars, foreignOn, sent, foreign, overlap, unread>>

PostTx(c) ==
    /\ At(c, "post")
    /\ \E ok \in BOOLEAN : (ok => Keychain(ses[c].token)) /\ Return(c, ok)
    /\ Drop(c)
    /\ UNCHANGED <<sessionVars, walletVars, foreignOn, sent, foreign, overlap, unread>>

-----------------------------------------------------------------------------
(* The foreign API on the same port: ForeignAPIHandlerV2. *)

\* post copies the mask before the request is read.
ForeignPost ==
    /\ foreignOn /\ foreign.pc = "idle"
    /\ foreign' = [NoForeign EXCEPT !.pc = "posted", !.mask = mask]
    /\ UNCHANGED <<sessionVars, walletVars, foreignOn, lock, req, sent, overlap, unread>>

\* check_middleware: an incompatible slate is refused; coinbases are always built.
CheckMiddleware(m, old) == m = "build_coinbase" \/ ~old

\* An error while the node is not synced, the wallet closed, the slate refused or, except for
\* check_version, the mask not the wallet's.
ForeignCall(m, synced, old) ==
    /\ foreign.pc = "posted"
    /\ foreign' = [NoForeign EXCEPT !.ok =
         /\ synced /\ wallet # Closed /\ CheckMiddleware(m, old)
         /\ m = "check_version" \/ Keychain(foreign.mask)]
    /\ UNCHANGED <<sessionVars, walletVars, foreignOn, lock, req, sent, overlap, unread>>

-----------------------------------------------------------------------------
Serve(c) ==
    \/ CheckEncryptionStarted(c) \/ (\E m \in MethodsOf[c] : DecryptRequest(c, m)) \/ EncryptResponse(c)
    \/ InitSecureApi(c) \/ CopyKey(c) \/ UpdateOwnerApiSharedKey(c)
    \/ OpenWallet(c) \/ UpdateMask(c) \/ CloseWallet(c)
    \/ MaskedCall(c) \/ OpenCall(c) \/ LifecycleCall(c)
    \/ SetConfig(c) \/ GetPublicAddress(c) \/ PublicAddress(c)
    \/ InitSendTx(c) \/ TakeTorConfig(c) \/ TakeEpicboxConfig(c) \/ SendSlate(c)
    \/ TxLockOutputs(c) \/ FinalizeTx(c) \/ PostTx(c)

Next ==
    \/ \E c \in Clients : Serve(c)
    \/ \E c \in Clients, plain \in BOOLEAN : Post(c, plain)
    \/ ForeignPost
    \/ \E m \in ForeignMethods, synced, old \in BOOLEAN : ForeignCall(m, synced, old)

Spec == Init /\ [][Next]_vars

\* A request that was taken on runs on a thread of its own, the mutexes are eventually fair,
\* and the adapters' calls time out.
FairSpec == Spec /\ \A c \in Clients : SF_vars(Serve(c))

-----------------------------------------------------------------------------
(* Properties. *)

\* A client can read the answer to each of its requests (also to an encrypted
\* init_secure_api, whose answer still uses the old key), unless another client's
\* init_secure_api replaced the key while the request was served.
ReadableReply == unread = {}

\* Once init_secure_api calls have ended, and the last one met no other, handler and
\* Owner hold the same key and a client knows it: requests can be decrypted.
KeyAgreement ==
    (InFlight("init_secure_api") = {} /\ ~overlap["init_secure_api"] /\ apiKey # None) =>
        key = apiKey /\ \E c \in Clients : ses[c].key = key

\* With the foreign API on the same port, the mask it uses is the one of the open wallet as
\* soon as no open_wallet is being served, unless two of them overlapped.
ForeignMaskFollows ==
    (foreignOn /\ wallet # Closed /\ InFlight("open_wallet") = {} /\ ~overlap["open_wallet"])
        => mask = wallet

\* init_send_tx answers Ok for a slate that left the wallet only after the outputs were
\* locked, though another client may close or reopen the wallet during the send.
SentIsLocked ==
    \A c \in Clients : At(c, "encrypt") /\ req[c].ok /\ sent[c] # "no" => sent[c] = "locked"

\* Every request is answered: no two of them wait for each other's configuration lock.
Answered == \A c \in Clients : ~At(c, "idle") ~> At(c, "idle")
=============================================================================
