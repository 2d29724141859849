------------------------ MODULE OwnerSessionProofs ------------------------
(* Proofs about OwnerSession for any number of clients, keys and masks.       *)
EXTENDS OwnerSession, TLAPS

\* Where a request is between its decryption and the encryption of its answer.
Serving == {"handle", "mask", "tor", "epicbox", "net", "lock", "finalize", "post", "encrypt"}

\* The answer of a request whose key was not replaced will be encrypted, or was
\* encrypted, with the key of the request.
AnswerKey(c) ==
    /\ req[c].pc \in Serving /\ req[c].enc # None /\ ~req[c].rekeyed => req[c].enc = key
    /\ req[c].pc \in {"copy", "store"} => req[c].rkey = req[c].enc \/ req[c].rekeyed
    /\ req[c].enc = None => ~req[c].rekeyed

\* Where the calls that change key or wallet can be, and what a send has done there.
Shape(c) ==
    /\ req[c].m = "init_secure_api" => req[c].pc \in {"handle", "encrypt", "copy", "store"}
    /\ req[c].m = "open_wallet" => req[c].pc \in {"handle", "mask", "encrypt"}
    /\ req[c].m = "init_secure_api" /\ req[c].ok => req[c].got \in Keys
    /\ req[c].m = "open_wallet" /\ req[c].ok => req[c].got \in Masks
    /\ req[c].pc \in {"copy", "store"} => req[c].m = "init_secure_api" /\ req[c].ok
    /\ req[c].pc = "mask" => req[c].m = "open_wallet" /\ req[c].ok
    /\ req[c].pc \in {"idle", "check", "decrypt"} => req[c].m = "none"
    /\ req[c].pc \in {"idle", "check", "decrypt", "handle"} => ~req[c].ok
    /\ req[c].pc \in {"check", "decrypt"} => ~req[c].rekeyed
    /\ req[c].pc \in {"tor", "epicbox", "net", "finalize", "post"} => req[c].m = "init_send_tx"
    /\ req[c].pc = "lock" => req[c].m \in {"init_send_tx", "get_public_address"}
    /\ sent[c] # "no" => /\ req[c].m = "init_send_tx"
                         /\ req[c].pc \in {"lock", "finalize", "post", "encrypt"}
    /\ sent[c] = "sent" => req[c].pc = "lock" \/ (req[c].pc = "encrypt" /\ ~req[c].ok)

\* Has the call of c drawn its key (or its mask)?
Drawn(c) == req[c].ok

Agreed == apiKey # None => key = apiKey /\ \E c \in Clients : ses[c].key = key

\* If no two calls of init_secure_api met since a call drew its key alone, at most one is
\* in flight; before it draws, handler and Owner agree, and afterwards it is bound to
\* bring the Owner's key to the handler and to its client.
KeyInv ==
    ~overlap["init_secure_api"] =>
      /\ \A c, d \in InFlight("init_secure_api") : c = d
      /\ (\A c \in InFlight("init_secure_api") : ~Drawn(c)) => Agreed
      /\ \A c \in InFlight("init_secure_api") : ~req[c].rekeyed
      /\ \A c \in InFlight("init_secure_api") : Drawn(c) =>
            /\ req[c].got = apiKey
            /\ req[c].pc = "store" => req[c].copy = apiKey

\* The same for open_wallet, whose mask another client may have made useless meanwhile.
MaskInv ==
    ~overlap["open_wallet"] =>
      /\ \A c, d \in InFlight("open_wallet") : c = d
      /\ \A c \in InFlight("open_wallet") :
           req[c].pc = "mask" => wallet \in {req[c].got, Closed}
      /\ (\A c \in InFlight("open_wallet") : req[c].pc # "mask") =>
           (foreignOn => wallet \in {mask, Closed})

Inv ==
    /\ TypeOK
    /\ \A c \in Clients : AnswerKey(c) /\ Shape(c)
    /\ unread = {}
    /\ KeyInv
    /\ MaskInv

-----------------------------------------------------------------------------
LEMMA InitInv == Init => Inv
  <1> SUFFICES ASSUME Init PROVE Inv
    OBVIOUS
  <1>1. TypeOK
    BY SessionAssumption DEF Init, TypeOK, NoRequest, NoForeign, Masks, Keys, Closed, None, Pcs, Nobody, Tracked
  <1>2. \A c \in Clients : AnswerKey(c) /\ Shape(c)
    BY DEF Init, AnswerKey, Shape, NoRequest, Serving
  <1>3. KeyInv /\ MaskInv
    BY DEF Init, KeyInv, MaskInv, InFlight, NoRequest, Agreed
  <1> QED
    BY <1>1, <1>2, <1>3 DEF Inv, Init

Requests == [pc : Pcs, m : AllMethods \cup {"none"}, enc : Keys, got : Keys \cup Masks,
             copy : Keys, rkey : Keys, ok : BOOLEAN, rekeyed : BOOLEAN]
Locks == [{"tor", "epicbox"} -> Clients \cup {Nobody}]

\* The request of c moves to p, with ok; the requests of others stay.
Moved(c, p, ok) ==
    /\ req' \in [Clients -> Requests]
    /\ \A d \in Clients : d # c => req'[d] = req[d]
    /\ req'[c].pc = p /\ req'[c].ok = ok
    /\ req'[c].m = req[c].m /\ req'[c].enc = req[c].enc /\ req'[c].rekeyed = req[c].rekeyed
    /\ req'[c].got = req[c].got

LEMMA RequestTypes ==
  /\ NoRequest \in Requests
  /\ \A p \in {"idle", "check", "decrypt", "handle", "mask", "tor", "epicbox", "net", "lock",
               "finalize", "post", "encrypt", "copy", "store"} : p \in Pcs
  <1>1. "idle" \in Pcs
    BY DEF Pcs
  <1>2. 0 \in Keys
    BY SessionAssumption DEF Keys
  <1> QED
    BY <1>1, <1>2 DEF Requests, NoRequest, Pcs, None

LEMMA GotoMoves ==
  ASSUME TypeOK, NEW c \in Clients, NEW p \in Pcs, Goto(c, p)
  PROVE  Moved(c, p, req[c].ok)
  <1>1. req \in [Clients -> Requests]
    BY DEF TypeOK, Requests
  <1>2. req' \in [Clients -> Requests]
    BY <1>1 DEF Goto, Requests
  <1> QED
    BY <1>1, <1>2 DEF Goto, Moved, Requests

LEMMA ReturnMoves ==
  ASSUME TypeOK, NEW c \in Clients, NEW ok \in BOOLEAN, Return(c, ok)
  PROVE  Moved(c, "encrypt", ok)
  <1>1. req \in [Clients -> Requests]
    BY DEF TypeOK, Requests
  <1>2. req' \in [Clients -> Requests]
    BY ZenonT(30), <1>1, RequestTypes DEF Return, Requests
  <1> QED
    BY <1>1, <1>2 DEF Return, Moved, Requests

LEMMA LockTypes ==
  ASSUME TypeOK, NEW c \in Clients
  PROVE  /\ Drop(c) => lock' \in Locks
         /\ \A l \in {"tor", "epicbox"} : Take(c, l) => lock' \in Locks
  BY DEF TypeOK, Drop, Take, Locks

LEMMA SentTypes ==
  ASSUME TypeOK, NEW c \in Clients
  PROVE  \A x \in {"no", "sent", "locked"} :
            sent' = [sent EXCEPT ![c] = x] =>
              /\ sent' \in [Clients -> {"no", "sent", "locked"}]
              /\ sent'[c] = x
              /\ \A d \in Clients : d # c => sent'[d] = sent[d]
  BY DEF TypeOK

\* What a call does that touches neither the session key nor the open wallet: it moves its
\* request on, or ends it.
Quiet(c) ==
    /\ UNCHANGED <<key, apiKey, ses, wallet, masks, mask, foreignOn, foreign, overlap, unread>>
    /\ lock' \in Locks
    /\ sent' \in [Clients -> {"no", "sent", "locked"}]
    /\ \A d \in Clients : d # c => sent'[d] = sent[d]
    /\ req[c].m \notin Tracked
    /\ req' \in [Clients -> Requests]
    /\ \A d \in Clients : d # c => req'[d] = req[d]
    /\ \/ req'[c] = NoRequest
       \/ /\ req'[c].pc \in Serving => req[c].pc \in Serving
          /\ req'[c].pc \notin {"copy", "store"}
          /\ req'[c].m = req[c].m /\ req'[c].enc = req[c].enc /\ req'[c].rekeyed = req[c].rekeyed
    /\ Shape(c)'

LEMMA QuietCall ==
  ASSUME Inv, NEW c \in Clients,
         \/ CheckEncryptionStarted(c) \/ MaskedCall(c) \/ OpenCall(c) \/ LifecycleCall(c)
         \/ SetConfig(c) \/ GetPublicAddress(c) \/ PublicAddress(c)
         \/ InitSendTx(c) \/ TakeTorConfig(c) \/ TakeEpicboxConfig(c) \/ SendSlate(c)
         \/ TxLockOutputs(c) \/ FinalizeTx(c) \/ PostTx(c)
  PROVE  Quiet(c)
  <1> /\ TypeOK /\ Shape(c)
      /\ req \in [Clients -> Requests] /\ lock \in Locks
      /\ sent \in [Clients -> {"no", "sent", "locked"}]
    BY DEF Inv, TypeOK, Requests, Locks
  <1>1. CASE CheckEncryptionStarted(c)
    BY ZenonT(30), <1>1, RequestTypes DEF CheckEncryptionStarted, Quiet, Shape, At, NoRequest, Serving, Tracked, Requests, sessionVars, walletVars
  <1>2. CASE MaskedCall(c)
    BY <1>2, ReturnMoves, RequestTypes, LockTypes, SentTypes
       DEF MaskedCall, Moved, Quiet, Shape, At, Handling, Serving, Tracked, sessionVars, walletVars, MaskedMethods, Keychain
  <1>3. CASE OpenCall(c)
    BY <1>3, ReturnMoves, RequestTypes, LockTypes, SentTypes
       DEF OpenCall, Moved, Quiet, Shape, At, Handling, Serving, Tracked, sessionVars, walletVars, OpenMethods
  <1>4. CASE LifecycleCall(c)
    BY <1>4, ReturnMoves, RequestTypes, LockTypes, SentTypes
       DEF LifecycleCall, Moved, Quiet, Shape, At, Handling, Serving, Tracked, sessionVars, walletVars, LifecycleMethods
  <1>5. CASE SetConfig(c)
    BY <1>5, ReturnMoves, RequestTypes, LockTypes, SentTypes
       DEF SetConfig, Moved, Quiet, Shape, At, Handling, Serving, Tracked, sessionVars, walletVars
  <1>6. CASE GetPublicAddress(c)
    BY <1>6, GotoMoves, RequestTypes, LockTypes, SentTypes
       DEF GetPublicAddress, Moved, Quiet, Shape, At, Handling, Serving, Tracked, sessionVars, walletVars
  <1>7. CASE PublicAddress(c)
    BY <1>7, ReturnMoves, RequestTypes, LockTypes, SentTypes
       DEF PublicAddress, Moved, Quiet, Shape, At, Handling, Serving, Tracked, sessionVars, walletVars, Keychain
  <1>8. CASE InitSendTx(c)
    BY ZenonT(30), <1>8, ReturnMoves, GotoMoves, RequestTypes, LockTypes, SentTypes
       DEF InitSendTx, Moved, Quiet, Shape, At, Handling, Serving, Tracked, sessionVars, walletVars, Keychain
  <1>9. CASE TakeTorConfig(c)
    BY <1>9, GotoMoves, RequestTypes, LockTypes, SentTypes
       DEF TakeTorConfig, Moved, Quiet, Shape, At, Handling, Serving, Tracked, sessionVars, walletVars
  <1>10. CASE TakeEpicboxConfig(c)
    BY <1>10, GotoMoves, RequestTypes, LockTypes, SentTypes
       DEF TakeEpicboxConfig, Moved, Quiet, Shape, At, Handling, Serving, Tracked, sessionVars, walletVars
  <1>11. CASE SendSlate(c)
    <2>1. /\ UNCHANGED <<key, apiKey, ses, wallet, masks, mask, foreignOn, foreign, overlap, unread>>
          /\ req[c].pc = "net"
      BY <1>11 DEF SendSlate, At, sessionVars, walletVars
    <2>2. CASE Goto(c, "lock") /\ sent' = [sent EXCEPT ![c] = "sent"] /\ UNCHANGED lock
      <3>1. Moved(c, "lock", req[c].ok)
        BY <2>2, GotoMoves, RequestTypes
      <3>2. Shape(c)'
        BY <2>1, <2>2, <3>1, SentTypes DEF Moved, Shape
      <3> QED
        BY <2>1, <2>2, <3>1, <3>2, SentTypes DEF Moved, Quiet, Shape, Serving, Tracked
    <2>3. CASE Return(c, FALSE) /\ Drop(c) /\ UNCHANGED sent
      <3>1. Moved(c, "encrypt", FALSE)
        BY <2>3, ReturnMoves
      <3>2. Shape(c)'
        BY <2>1, <2>3, <3>1 DEF Moved, Shape
      <3> QED
        BY <2>1, <2>3, <3>1, <3>2, LockTypes DEF Moved, Quiet, Shape, Serving, Tracked
    <2> QED
      BY <1>11, <2>2, <2>3 DEF SendSlate
  <1>12. CASE TxLockOutputs(c)
    <2>1. /\ UNCHANGED <<key, apiKey, ses, wallet, masks, mask, foreignOn, foreign, overlap, unread>>
          /\ req[c].pc = "lock" /\ req[c].m = "init_send_tx"
      BY <1>12 DEF TxLockOutputs, At, sessionVars, walletVars
    <2>2. CASE Goto(c, "finalize") /\ sent' = [sent EXCEPT ![c] = "locked"] /\ UNCHANGED lock
      <3>1. Moved(c, "finalize", req[c].ok)
        BY <2>2, GotoMoves, RequestTypes
      <3>2. Shape(c)'
        BY <2>1, <2>2, <3>1, SentTypes DEF Moved, Shape
      <3> QED
        BY <2>1, <2>2, <3>1, <3>2, SentTypes DEF Moved, Quiet, Shape, Serving, Tracked
    <2>3. CASE Return(c, FALSE) /\ Drop(c) /\ UNCHANGED sent
      <3>1. Moved(c, "encrypt", FALSE)
        BY <2>3, ReturnMoves
      <3>2. Shape(c)'
        BY <2>1, <2>3, <3>1 DEF Moved, Shape
      <3> QED
        BY <2>1, <2>3, <3>1, <3>2, LockTypes DEF Moved, Quiet, Shape, Serving, Tracked
    <2> QED
      BY <1>12, <2>2, <2>3 DEF TxLockOutputs
  <1>13. CASE FinalizeTx(c)
    <2>1. /\ UNCHANGED <<key, apiKey, ses, wallet, masks, mask, foreignOn, foreign, overlap, unread>>
          /\ req[c].pc = "finalize" /\ UNCHANGED sent
      BY <1>13 DEF FinalizeTx, At, sessionVars, walletVars
    <2>2. CASE Goto(c, "post") /\ UNCHANGED lock
      <3>1. Moved(c, "post", req[c].ok)
        BY <2>2, GotoMoves, RequestTypes
      <3>2. Shape(c)'
        BY <2>1, <2>2, <3>1 DEF Moved, Shape
      <3> QED
        BY <2>1, <2>2, <3>1, <3>2 DEF Moved, Quiet, Shape, Serving, Tracked
    <2>3. ASSUME NEW ok \in BOOLEAN, Return(c, ok), Drop(c) PROVE Quiet(c)
      <3>1. Moved(c, "encrypt", ok)
        BY <2>3, ReturnMoves
      <3>2. Shape(c)'
        BY <2>1, <2>3, <3>1 DEF Moved, Shape
      <3> QED
        BY <2>1, <2>3, <3>1, <3>2, LockTypes DEF Moved, Quiet, Shape, Serving, Tracked
    <2> QED
      BY <1>13, <2>2, <2>3 DEF FinalizeTx
  <1>14. CASE PostTx(c)
    <2>1. /\ UNCHANGED <<key, apiKey, ses, wallet, masks, mask, foreignOn, foreign, overlap, unread>>
          /\ req[c].pc = "post" /\ UNCHANGED sent
      BY <1>14 DEF PostTx, At, sessionVars, walletVars
    <2>2. PICK ok \in BOOLEAN : Return(c, ok) /\ Drop(c)
      BY <1>14 DEF PostTx
    <2>3. Moved(c, "encrypt", ok)
      BY <2>2, ReturnMoves
    <2>4. Shape(c)'
      BY <2>1, <2>2, <2>3 DEF Moved, Shape
    <2> QED
      BY <2>1, <2>2, <2>3, <2>4, LockTypes DEF Moved, Quiet, Shape, Serving, Tracked
  <1> QED
    BY <1>1, <1>2, <1>3, <1>4, <1>5, <1>6, <1>7, <1>8, <1>9, <1>10, <1>11, <1>12, <1>13, <1>14

LEMMA QuietInv ==
  ASSUME Inv, NEW c \in Clients, Quiet(c)
  PROVE  Inv'
  <1> TypeOK
    BY DEF Inv
  <1>1. TypeOK'
    BY DEF TypeOK, Quiet, Requests, Locks
  <1>2. ASSUME NEW d \in Clients PROVE AnswerKey(d)' /\ Shape(d)'
    <2>1. CASE d = c
      <3>1. CASE req'[c] = NoRequest
        BY <2>1, <3>1 DEF Quiet, AnswerKey, NoRequest, Serving, None
      <3>2. CASE req'[c] # NoRequest
        BY <2>1, <3>2 DEF Inv, Quiet, AnswerKey
      <3> QED
        BY <3>1, <3>2
    <2>2. CASE d # c
      BY <2>2 DEF Inv, Quiet, AnswerKey, Shape
    <2> QED
      BY <2>1, <2>2
  <1>3. InFlight("init_secure_api")' = InFlight("init_secure_api")
        /\ InFlight("open_wallet")' = InFlight("open_wallet")
    <2>1. req'[c].m \notin Tracked
      BY DEF Quiet, Tracked, NoRequest
    <2> QED
      BY <2>1 DEF Quiet, InFlight, Tracked
  <1>4. \A d \in InFlight("init_secure_api") \cup InFlight("open_wallet") : req'[d] = req[d]
    BY DEF TypeOK, Quiet, InFlight, Tracked
  <1>5. KeyInv'
    BY <1>3, <1>4 DEF Inv, KeyInv, Drawn, Agreed, Quiet
  <1>6. MaskInv'
    BY <1>3, <1>4 DEF Inv, MaskInv, Quiet
  <1> QED
    BY <1>1, <1>2, <1>5, <1>6 DEF Inv, Quiet

-----------------------------------------------------------------------------
\* What a step keeps that is about other requests, or about no call of the kind.

LEMMA OthersKept ==
  ASSUME Inv, NEW c \in Clients, key' = key, AnswerKey(c)', Shape(c)',
         \A d \in Clients : d # c => req'[d] = req[d] /\ sent'[d] = sent[d]
  PROVE  \A d \in Clients : AnswerKey(d)' /\ Shape(d)'
  BY DEF Inv, AnswerKey, Shape

LEMMA KeyKept ==
  ASSUME Inv, NEW c \in Clients,
         \A d \in Clients : d # c => req'[d] = req[d],
         req[c].m # "init_secure_api", req'[c].m # "init_secure_api",
         overlap["init_secure_api"] => overlap'["init_secure_api"],
         key' = key, apiKey' = apiKey, \A d \in Clients : ses'[d].key = ses[d].key
  PROVE  KeyInv'
  <1>1. InFlight("init_secure_api")' = InFlight("init_secure_api")
    BY DEF InFlight
  <1>2. \A d \in InFlight("init_secure_api") : req'[d] = req[d]
    BY DEF InFlight
  <1> QED
    BY <1>1, <1>2 DEF Inv, KeyInv, Drawn, Agreed

LEMMA MaskKept ==
  ASSUME Inv, NEW c \in Clients,
         \A d \in Clients : d # c => req'[d].m = req[d].m /\ req'[d].pc = req[d].pc /\ req'[d].got = req[d].got,
         req[c].m # "open_wallet", req'[c].m # "open_wallet",
         overlap["open_wallet"] => overlap'["open_wallet"],
         wallet' = wallet, mask' = mask, foreignOn' = foreignOn
  PROVE  MaskInv'
  <1>1. InFlight("open_wallet")' = InFlight("open_wallet")
    BY DEF InFlight
  <1>2. \A d \in InFlight("open_wallet") : req'[d].pc = req[d].pc /\ req'[d].got = req[d].got
    BY DEF InFlight
  <1> QED
    BY <1>1, <1>2 DEF Inv, MaskInv

LEMMA Begins ==
  ASSUME Inv, NEW m, NEW b \in BOOLEAN, Begin(m, b)
  PROVE  /\ overlap' \in [Tracked -> BOOLEAN]
         /\ \A o \in Tracked : overlap'[o] <=> overlap[o] \/ (b /\ m = o /\ InFlight(o) # {})
  BY DEF Inv, TypeOK, Begin, Tracked

\* The fields of a record type, for steps that must not expand the set of program counters.
LEMMA Fields ==
  ASSUME TypeOK, NEW c \in Clients
  PROVE  /\ req \in [Clients -> Requests]
         /\ req[c].pc \in Pcs /\ req[c].m \in AllMethods \cup {"none"} /\ req[c].enc \in Keys
         /\ req[c].got \in Keys \cup Masks /\ req[c].copy \in Keys /\ req[c].rkey \in Keys
         /\ req[c].ok \in BOOLEAN /\ req[c].rekeyed \in BOOLEAN
  BY DEF TypeOK, Requests

LEMMA PostInv ==
  ASSUME Inv, NEW c \in Clients, NEW plain \in BOOLEAN, Post(c, plain)
  PROVE  Inv'
  <1> TypeOK /\ Shape(c) /\ AnswerKey(c)
    BY DEF Inv
  <1> DEFINE r == IF plain THEN [NoRequest EXCEPT !.pc = "handle", !.m = "init_secure_api"]
                           ELSE [NoRequest EXCEPT !.pc = "check", !.enc = ses[c].key]
  <1>1. req'[c] = r /\ \A d \in Clients : d # c => req'[d] = req[d]
    BY Fields DEF Post
  <1>2. ses[c].key \in Keys /\ "init_secure_api" \in AllMethods
    BY DEF TypeOK, AllMethods
  <1>3. r \in Requests
    BY <1>2, RequestTypes DEF Requests, NoRequest
  <1>4. req' \in [Clients -> Requests]
    BY <1>3, Fields DEF Post
  <1>5. /\ overlap' \in [Tracked -> BOOLEAN]
        /\ \A o \in Tracked : overlap'[o] <=> overlap[o] \/ (plain /\ "init_secure_api" = o /\ InFlight(o) # {})
    BY Begins DEF Post
  <1> HIDE DEF r
  <1>6. /\ plain => /\ r.pc = "handle" /\ r.m = "init_secure_api" /\ ~r.ok /\ ~r.rekeyed /\ r.enc = None
        /\ ~plain => /\ r.pc = "check" /\ r.m = "none" /\ ~r.ok /\ ~r.rekeyed
    BY DEF r, NoRequest
  <1>7. UNCHANGED <<key, apiKey, ses, wallet, masks, mask, foreignOn, lock, sent, foreign, unread>>
    BY DEF Post, sessionVars, walletVars
  <1>8. TypeOK'
    BY <1>4, <1>5, <1>7 DEF TypeOK, Requests
  <1>9. req[c].pc = "idle" /\ req[c].m = "none"
    BY DEF Post, At, Shape
  <1>10. AnswerKey(c)' /\ Shape(c)'
    BY <1>1, <1>6, <1>7, <1>9 DEF AnswerKey, Shape, Serving
  <1>11. \A d \in Clients : AnswerKey(d)' /\ Shape(d)'
    BY <1>1, <1>7, <1>10, OthersKept
  <1>12. MaskInv'
    BY <1>1, <1>5, <1>6, <1>7, <1>9, MaskKept DEF Tracked
  <1>13. KeyInv'
    <2>1. CASE plain
      <3> SUFFICES ASSUME ~overlap'["init_secure_api"] PROVE KeyInv'
        BY DEF KeyInv
      <3>1. InFlight("init_secure_api") = {} /\ ~overlap["init_secure_api"]
        BY <1>5, <2>1 DEF Tracked
      <3>2. InFlight("init_secure_api")' = {c}
        BY <1>1, <1>6, <2>1, <3>1 DEF InFlight
      <3>3. Agreed
        BY <3>1 DEF Inv, KeyInv
      <3> QED
        BY <1>1, <1>6, <1>7, <2>1, <3>2, <3>3 DEF KeyInv, Drawn, Agreed
    <2>2. CASE ~plain
      BY <1>1, <1>5, <1>6, <1>7, <1>9, <2>2, KeyKept DEF Tracked
    <2> QED
      BY <2>1, <2>2
  <1> QED
    BY <1>7, <1>8, <1>11, <1>12, <1>13 DEF Inv

LEMMA DecryptInv ==
  ASSUME Inv, NEW c \in Clients, NEW m \in MethodsOf[c], DecryptRequest(c, m)
  PROVE  Inv'
  <1> TypeOK /\ Shape(c) /\ AnswerKey(c)
    BY DEF Inv
  <1>1. UNCHANGED <<key, apiKey, ses, wallet, masks, mask, foreignOn, lock, sent, foreign, unread>>
    BY DEF DecryptRequest, sessionVars, walletVars
  <1>2. req[c].pc = "decrypt" /\ req[c].m = "none" /\ ~req[c].ok /\ ~req[c].rekeyed
        /\ sent[c] = "no"
    BY DEF DecryptRequest, At, Shape, TypeOK
  <1>3. \A d \in Clients : d # c => req'[d] = req[d]
    BY Fields DEF DecryptRequest
  <1>4. m \in AllMethods
    BY SessionAssumption
  <1>5. CASE req[c].enc = key
    <2>1. req' = [req EXCEPT ![c].pc = "handle", ![c].m = m] /\ Begin(m, TRUE)
      BY <1>5 DEF DecryptRequest
    <2>2. req' \in [Clients -> Requests]
      BY <1>4, <2>1, Fields, RequestTypes DEF Requests
    <2>3. /\ req'[c].pc = "handle" /\ req'[c].m = m /\ req'[c].ok = req[c].ok
          /\ req'[c].rekeyed = req[c].rekeyed /\ req'[c].enc = req[c].enc
      BY <2>1, Fields DEF Requests
    <2>4. /\ overlap' \in [Tracked -> BOOLEAN]
          /\ \A o \in Tracked : overlap'[o] <=> overlap[o] \/ (m = o /\ InFlight(o) # {})
      BY <2>1, Begins
    <2>5. TypeOK'
      BY <1>1, <2>2, <2>4 DEF TypeOK, Requests
    <2>6. AnswerKey(c)' /\ Shape(c)'
      BY <1>1, <1>2, <1>5, <2>3 DEF AnswerKey, Shape, Serving
    <2>7. \A d \in Clients : AnswerKey(d)' /\ Shape(d)'
      BY <1>1, <1>3, <2>6, OthersKept
    <2>8. MaskInv'
      <3>1. CASE m = "open_wallet"
        <4> SUFFICES ASSUME ~overlap'["open_wallet"] PROVE MaskInv'
          BY DEF MaskInv
        <4>1. InFlight("open_wallet") = {} /\ ~overlap["open_wallet"]
          BY <2>4, <3>1 DEF Tracked
        <4>2. InFlight("open_wallet")' = {c}
          BY <1>3, <2>3, <3>1, <4>1 DEF InFlight
        <4> QED
          BY <1>1, <2>3, <4>1, <4>2 DEF Inv, MaskInv
      <3>2. CASE m # "open_wallet"
        BY <1>1, <1>2, <1>3, <2>3, <2>4, <3>2, MaskKept DEF Tracked
      <3> QED
        BY <3>1, <3>2
    <2>9. KeyInv'
      <3>1. CASE m = "init_secure_api"
        <4> SUFFICES ASSUME ~overlap'["init_secure_api"] PROVE KeyInv'
          BY DEF KeyInv
        <4>1. InFlight("init_secure_api") = {} /\ ~overlap["init_secure_api"]
          BY <2>4, <3>1 DEF Tracked
        <4>2. InFlight("init_secure_api")' = {c}
          BY <1>3, <2>3, <3>1, <4>1 DEF InFlight
        <4>3. Agreed
          BY <4>1 DEF Inv, KeyInv
        <4> QED
          BY <1>1, <1>2, <2>3, <4>2, <4>3 DEF KeyInv, Drawn, Agreed
      <3>2. CASE m # "init_secure_api"
        BY <1>1, <1>2, <1>3, <2>3, <2>4, <3>2, KeyKept DEF Tracked
      <3> QED
        BY <3>1, <3>2
    <2> QED
      BY <1>1, <2>5, <2>7, <2>8, <2>9 DEF Inv
  <1>6. CASE req[c].enc # key
    <2>1. req' = [req EXCEPT ![c] = NoRequest] /\ UNCHANGED overlap
      BY <1>6 DEF DecryptRequest
    <2>2. req' \in [Clients -> Requests] /\ req'[c] = NoRequest
      BY <2>1, Fields, RequestTypes
    <2>3. Shape(c)'
      BY <1>1, <1>2, <2>2 DEF Shape, NoRequest
    <2>4. Quiet(c)
      BY <1>1, <1>2, <1>3, <2>1, <2>2, <2>3 DEF Quiet, Tracked, TypeOK, Locks
    <2> QED
      BY <2>4, QuietInv
  <1> QED
    BY <1>5, <1>6

\* What the answer changes of what its client knows.
LEMMA ReplyTypes ==
  ASSUME TypeOK, NEW c \in Clients, NEW k, Reply(c, k),
         req[c].ok /\ req[c].m = "init_secure_api" => req[c].got \in Keys,
         req[c].ok /\ req[c].m = "open_wallet" => req[c].got \in Masks
  PROVE  /\ ses' \in [Clients -> [key : Keys, token : Masks]]
         /\ \A d \in Clients : d # c => ses'[d] = ses[d]
         /\ ses'[c].key = IF k = req[c].enc /\ req[c].ok /\ req[c].m = "init_secure_api"
                          THEN req[c].got ELSE ses[c].key
  <1> DEFINE s == [key |-> IF k = req[c].enc /\ req[c].ok /\ req[c].m = "init_secure_api"
                           THEN req[c].got ELSE ses[c].key,
                   token |-> IF k = req[c].enc /\ req[c].ok /\ req[c].m = "open_wallet"
                             THEN req[c].got ELSE ses[c].token]
  <1>1. ses \in [Clients -> [key : Keys, token : Masks]]
    BY DEF TypeOK
  <1>2. ses[c].key \in Keys /\ ses[c].token \in Masks
    BY <1>1
  <1>3. s \in [key : Keys, token : Masks]
    BY <1>2
  <1>4. ses' = [ses EXCEPT ![c] = s]
    BY DEF Reply
  <1> QED
    BY <1>1, <1>3, <1>4

LEMMA EncryptInv ==
  ASSUME Inv, NEW c \in Clients, EncryptResponse(c)
  PROVE  Inv'
  <1> TypeOK /\ Shape(c) /\ AnswerKey(c)
    BY DEF Inv
  <1> DEFINE k == IF req[c].enc = None THEN None ELSE key
  <1>1. UNCHANGED <<key, apiKey, wallet, masks, mask, foreignOn, lock, foreign, overlap>>
        /\ req[c].pc = "encrypt"
    BY DEF EncryptResponse, At, walletVars
  <1>2. k = req[c].enc \/ req[c].rekeyed
    BY <1>1 DEF AnswerKey, Serving
  <1>3. k \in Keys
    BY SessionAssumption DEF TypeOK, None, Keys
  <1>4. CASE req[c].m = "init_secure_api" /\ req[c].ok
    <2>1. req' = [req EXCEPT ![c].pc = "copy", ![c].rkey = k] /\ UNCHANGED <<ses, unread, sent>>
      BY <1>4 DEF EncryptResponse
    <2> HIDE DEF k
    <2>2. req' \in [Clients -> Requests]
      BY <1>3, <2>1, Fields, RequestTypes DEF Requests
    <2>3. /\ req'[c].pc = "copy" /\ req'[c].rkey = k /\ req'[c].ok = req[c].ok
          /\ req'[c].m = req[c].m /\ req'[c].enc = req[c].enc /\ req'[c].rekeyed = req[c].rekeyed
          /\ req'[c].got = req[c].got
          /\ \A d \in Clients : d # c => req'[d] = req[d]
      BY <2>1, Fields DEF Requests
    <2>4. TypeOK'
      BY <1>1, <2>1, <2>2 DEF TypeOK, Requests
    <2>5. AnswerKey(c)' /\ Shape(c)'
      BY <1>1, <1>2, <1>4, <2>1, <2>3 DEF AnswerKey, Shape, Serving
    <2>6. \A d \in Clients : AnswerKey(d)' /\ Shape(d)'
      BY <1>1, <2>1, <2>3, <2>5, OthersKept
    <2>7. MaskInv'
      BY <1>1, <1>4, <2>3, MaskKept
    <2>8. KeyInv'
      <3>1. InFlight("init_secure_api")' = InFlight("init_secure_api")
        BY <2>3 DEF InFlight
      <3>2. \A d \in InFlight("init_secure_api") :
              /\ req'[d].ok = req[d].ok /\ req'[d].rekeyed = req[d].rekeyed /\ req'[d].got = req[d].got
              /\ req'[d].pc = "store" => req[d].pc = "store" /\ req'[d].copy = req[d].copy
        BY <2>3 DEF InFlight
      <3>3. Agreed' <=> Agreed
        BY <1>1, <2>1 DEF Agreed
      <3> SUFFICES ASSUME ~overlap["init_secure_api"] PROVE KeyInv'
        BY <1>1 DEF KeyInv
      <3> QED
        BY <1>1, <3>1, <3>2, <3>3 DEF Inv, KeyInv, Drawn
    <2> QED
      BY <2>1, <2>4, <2>6, <2>7, <2>8 DEF Inv
  <1>5. CASE ~(req[c].m = "init_secure_api" /\ req[c].ok)
    <2>1. req' = [req EXCEPT ![c] = NoRequest] /\ Reply(c, k)
      BY <1>5 DEF EncryptResponse
    <2> HIDE DEF k
    <2>2. req' \in [Clients -> Requests] /\ req'[c] = NoRequest
          /\ \A d \in Clients : d # c => req'[d] = req[d]
      BY <2>1, Fields, RequestTypes
    <2>3. unread' = unread
      BY <1>2, <2>1 DEF Reply
    <2>4. sent' \in [Clients -> {"no", "sent", "locked"}] /\ sent'[c] = "no"
          /\ \A d \in Clients : d # c => sent'[d] = sent[d]
      BY <2>1, SentTypes DEF Reply
    <2>5. ses' \in [Clients -> [key : Keys, token : Masks]] /\ \A d \in Clients : ses'[d].key = ses[d].key
      <3>1. req[c].ok /\ req[c].m = "open_wallet" => req[c].got \in Masks
        BY DEF Shape
      <3>2. req[c].ok /\ req[c].m = "init_secure_api" => req[c].got \in Keys
        BY <1>5
      <3>3. /\ ses' \in [Clients -> [key : Keys, token : Masks]]
            /\ \A d \in Clients : d # c => ses'[d] = ses[d]
            /\ ses'[c].key = IF k = req[c].enc /\ req[c].ok /\ req[c].m = "init_secure_api"
                             THEN req[c].got ELSE ses[c].key
        BY <2>1, <3>1, <3>2, ReplyTypes
      <3>4. ses'[c].key = ses[c].key
        BY <1>5, <3>3
      <3> QED
        BY <3>3, <3>4
    <2>6. TypeOK'
      BY <1>1, <2>2, <2>3, <2>4, <2>5 DEF TypeOK, Requests
    <2>7. AnswerKey(c)' /\ Shape(c)'
      BY <2>2, <2>4 DEF AnswerKey, Shape, Serving, NoRequest
    <2>8. \A d \in Clients : AnswerKey(d)' /\ Shape(d)'
      BY <1>1, <2>2, <2>4, <2>7, OthersKept
    <2>9. \A m \in Tracked : InFlight(m)' = InFlight(m) \ {c}
      BY <2>2 DEF InFlight, NoRequest, Tracked
    <2>10. \A m \in Tracked : \A d \in InFlight(m)' : req'[d] = req[d] /\ d \in InFlight(m)
      BY <2>2, <2>9 DEF InFlight, Tracked
    <2>11. c \in InFlight("init_secure_api") => ~Drawn(c)
      BY <1>5 DEF InFlight, Drawn
    <2>12. KeyInv'
      <3> SUFFICES ASSUME ~overlap["init_secure_api"] PROVE KeyInv'
        BY <1>1 DEF KeyInv
      <3>1. ASSUME \A d \in InFlight("init_secure_api")' : ~Drawn(d)' PROVE Agreed'
        <4>1. \A d \in InFlight("init_secure_api") : ~Drawn(d)
          BY <2>9, <2>10, <2>11, <3>1 DEF Tracked, Drawn
        <4>2. Agreed
          BY <4>1 DEF Inv, KeyInv
        <4> QED
          BY <1>1, <2>5, <4>2 DEF Agreed
      <3> QED
        BY <1>1, <2>10, <3>1 DEF Inv, KeyInv, Drawn, Tracked
    <2>13. MaskInv'
      <3>1. \A d \in InFlight("open_wallet") : d = c \/ d \in InFlight("open_wallet")'
        BY <2>9 DEF Tracked
      <3> QED
        BY <1>1, <2>10, <3>1 DEF Inv, MaskInv, Tracked
    <2> QED
      BY <2>3, <2>6, <2>8, <2>12, <2>13 DEF Inv
  <1> QED
    BY <1>4, <1>5

LEMMA InitSecureInv ==
  ASSUME Inv, NEW c \in Clients, InitSecureApi(c)
  PROVE  Inv'
  <1> TypeOK /\ Shape(c) /\ AnswerKey(c)
    BY DEF Inv
  <1>1. UNCHANGED <<key, ses, wallet, masks, mask, foreignOn, lock, sent, foreign, unread>>
        /\ req[c].pc = "handle" /\ req[c].m = "init_secure_api" /\ ~req[c].ok /\ sent[c] = "no"
    BY DEF InitSecureApi, Handling, At, walletVars, Shape, TypeOK
  <1>2. CASE /\ apiKey < MaxKeys /\ apiKey' = apiKey + 1
             /\ req' = [req EXCEPT ![c].pc = "encrypt", ![c].ok = TRUE, ![c].got = apiKey + 1]
             /\ overlap' = [overlap EXCEPT !["init_secure_api"] =
                               @ /\ (req[c].rekeyed \/ ~Alone(c, "init_secure_api"))]
    <2>1. apiKey' \in Keys
      BY <1>2, SessionAssumption DEF TypeOK, Keys
    <2>2. req' \in [Clients -> Requests]
      BY <1>2, <2>1, Fields, RequestTypes DEF Requests
    <2>3. /\ req'[c].pc = "encrypt" /\ req'[c].ok /\ req'[c].got = apiKey'
          /\ req'[c].m = req[c].m /\ req'[c].enc = req[c].enc /\ req'[c].rekeyed = req[c].rekeyed
          /\ \A d \in Clients : d # c => req'[d] = req[d]
      BY <1>2, Fields DEF Requests
    <2>4. /\ overlap' \in [Tracked -> BOOLEAN] /\ overlap'["open_wallet"] = overlap["open_wallet"]
          /\ ~overlap'["init_secure_api"] => \/ ~overlap["init_secure_api"]
                                             \/ ~req[c].rekeyed /\ Alone(c, "init_secure_api")
      BY <1>2 DEF TypeOK, Tracked
    <2>5. TypeOK'
      BY <1>1, <2>1, <2>2, <2>4 DEF TypeOK, Requests
    <2>6. AnswerKey(c)' /\ Shape(c)'
      BY <1>1, <2>1, <2>3 DEF AnswerKey, Shape, Serving
    <2>7. \A d \in Clients : AnswerKey(d)' /\ Shape(d)'
      BY <1>1, <2>3, <2>6, OthersKept
    <2>8. MaskInv'
      BY <1>1, <2>3, <2>4, MaskKept
    <2>9. KeyInv'
      <3> SUFFICES ASSUME ~overlap'["init_secure_api"] PROVE KeyInv'
        BY DEF KeyInv
      <3>1. c \in InFlight("init_secure_api")
        BY <1>1 DEF InFlight
      <3>2. InFlight("init_secure_api") = {c} /\ ~req[c].rekeyed
        BY <2>4, <3>1 DEF Inv, KeyInv, Alone
      <3>3. InFlight("init_secure_api")' = {c}
        BY <2>3, <3>2 DEF InFlight
      <3> QED
        BY <2>3, <3>2, <3>3 DEF KeyInv, Drawn
    <2> QED
      BY <1>1, <2>5, <2>7, <2>8, <2>9 DEF Inv
  <1>3. CASE Return(c, FALSE) /\ UNCHANGED <<apiKey, overlap>>
    <2>1. Moved(c, "encrypt", FALSE)
      BY <1>3, ReturnMoves
    <2>2. TypeOK'
      BY <1>1, <1>3, <2>1 DEF TypeOK, Moved, Requests
    <2>3. AnswerKey(c)' /\ Shape(c)'
      BY <1>1, <2>1 DEF AnswerKey, Shape, Serving, Moved
    <2>4. \A d \in Clients : AnswerKey(d)' /\ Shape(d)'
      BY <1>1, <2>1, <2>3, OthersKept DEF Moved
    <2>5. MaskInv'
      BY <1>1, <1>3, <2>1, MaskKept DEF Moved
    <2>6. InFlight("init_secure_api")' = InFlight("init_secure_api")
      BY <2>1 DEF InFlight, Moved
    <2>7. \A d \in InFlight("init_secure_api") :
            /\ req'[d].ok <=> req[d].ok
            /\ req'[d].rekeyed = req[d].rekeyed /\ req'[d].got = req[d].got
            /\ req'[d].pc = "store" => req'[d] = req[d]
      BY <1>1, <2>1 DEF InFlight, Moved
    <2>8. Agreed' <=> Agreed
      BY <1>1, <1>3 DEF Agreed
    <2>9. KeyInv'
      <3> SUFFICES ASSUME ~overlap["init_secure_api"] PROVE KeyInv'
        BY <1>3 DEF KeyInv
      <3> QED
        BY <1>3, <2>6, <2>7, <2>8 DEF Inv, KeyInv, Drawn
    <2> QED
      BY <1>1, <2>2, <2>4, <2>5, <2>9 DEF Inv
  <1> QED
    BY <1>2, <1>3 DEF InitSecureApi

LEMMA CopyInv ==
  ASSUME Inv, NEW c \in Clients, CopyKey(c)
  PROVE  Inv'
  <1> TypeOK /\ Shape(c) /\ AnswerKey(c)
    BY DEF Inv
  <1>1. /\ UNCHANGED <<key, apiKey, ses, wallet, masks, mask, foreignOn, lock, sent, foreign, overlap, unread>>
        /\ req[c].pc = "copy" /\ req[c].m = "init_secure_api" /\ req[c].ok
        /\ req' = [req EXCEPT ![c].copy = apiKey, ![c].pc = "store"]
    BY DEF CopyKey, At, sessionVars, walletVars, Shape
  <1>2. apiKey \in Keys
    BY DEF TypeOK
  <1>3. req' \in [Clients -> Requests]
    BY <1>1, <1>2, Fields, RequestTypes DEF Requests
  <1>4. /\ req'[c].pc = "store" /\ req'[c].copy = apiKey /\ req'[c].ok = req[c].ok
        /\ req'[c].m = req[c].m /\ req'[c].enc = req[c].enc /\ req'[c].rekeyed = req[c].rekeyed
        /\ req'[c].got = req[c].got /\ req'[c].rkey = req[c].rkey
        /\ \A d \in Clients : d # c => req'[d] = req[d]
    BY <1>1, Fields DEF Requests
  <1>5. TypeOK'
    BY <1>1, <1>3 DEF TypeOK, Requests
  <1>6. AnswerKey(c)' /\ Shape(c)'
    BY <1>1, <1>4 DEF AnswerKey, Shape, Serving
  <1>7. \A d \in Clients : AnswerKey(d)' /\ Shape(d)'
    BY <1>1, <1>4, <1>6, OthersKept
  <1>8. MaskInv'
    BY <1>1, <1>4, MaskKept
  <1>9. InFlight("init_secure_api")' = InFlight("init_secure_api")
    BY <1>4 DEF InFlight
  <1>10. \A d \in InFlight("init_secure_api") :
            /\ req'[d].ok = req[d].ok /\ req'[d].rekeyed = req[d].rekeyed /\ req'[d].got = req[d].got
            /\ req'[d].pc = "store" => req'[d].copy = apiKey \/ req'[d] = req[d]
    BY <1>4 DEF InFlight
  <1>11. Agreed' <=> Agreed
    BY <1>1 DEF Agreed
  <1>12. KeyInv'
    <2> SUFFICES ASSUME ~overlap["init_secure_api"] PROVE KeyInv'
      BY <1>1 DEF KeyInv
    <2>1. ASSUME \A d \in InFlight("init_secure_api") : ~Drawn(d)' PROVE Agreed'
      BY <1>10, <1>11, <2>1 DEF Inv, KeyInv, Drawn
    <2>2. ASSUME NEW d \in InFlight("init_secure_api")
          PROVE  /\ ~req'[d].rekeyed
                 /\ Drawn(d)' => req'[d].got = apiKey /\ (req'[d].pc = "store" => req'[d].copy = apiKey)
      BY <1>10, <2>2 DEF Inv, KeyInv, Drawn
    <2> QED
      BY <1>1, <1>9, <2>1, <2>2 DEF Inv, KeyInv
  <1> QED
    BY <1>1, <1>5, <1>7, <1>8, <1>12 DEF Inv

LEMMA UpdateKeyInv ==
  ASSUME Inv, NEW c \in Clients, UpdateOwnerApiSharedKey(c)
  PROVE  Inv'
  <1> TypeOK /\ Shape(c) /\ AnswerKey(c)
    BY DEF Inv
  <1>1. /\ UNCHANGED <<apiKey, wallet, masks, mask, foreignOn, lock, foreign, overlap>>
        /\ key' = req[c].copy /\ req' = Rekeyed(c) /\ Reply(c, req[c].rkey)
    BY DEF UpdateOwnerApiSharedKey, walletVars
  <1>2. /\ req[c].pc = "store" /\ req[c].m = "init_secure_api" /\ req[c].ok
        /\ req[c].rkey = req[c].enc \/ req[c].rekeyed
        /\ req[c].got \in Keys
    BY DEF UpdateOwnerApiSharedKey, At, Shape, AnswerKey
  <1>3. req'[c] = NoRequest
    BY <1>1 DEF Rekeyed
  <1>4. ASSUME NEW d \in Clients, d # c
        PROVE  /\ req'[d] \in Requests
               /\ req'[d].pc = req[d].pc /\ req'[d].m = req[d].m /\ req'[d].enc = req[d].enc
               /\ req'[d].got = req[d].got /\ req'[d].ok = req[d].ok
               /\ req'[d].copy = req[d].copy /\ req'[d].rkey = req[d].rkey
               /\ req'[d].rekeyed <=> \/ req[d].rekeyed
                                      \/ /\ req[d].enc # None
                                         /\ req[d].pc \notin {"check", "decrypt", "copy", "store"}
    <2>1. req[d] \in Requests
      BY Fields
    <2>2. CASE req[d].enc # None /\ req[d].pc \notin {"check", "decrypt", "copy", "store"}
      <3>1. req'[d] = [req[d] EXCEPT !.rekeyed = TRUE]
        BY <1>1, <1>4, <2>2 DEF Rekeyed
      <3> QED
        BY <2>1, <2>2, <3>1 DEF Requests
    <2>3. CASE ~(req[d].enc # None /\ req[d].pc \notin {"check", "decrypt", "copy", "store"})
      <3>1. req'[d] = req[d]
        BY <1>1, <1>4, <2>3 DEF Rekeyed
      <3> QED
        BY <2>1, <2>3, <3>1
    <2> QED
      BY <2>2, <2>3
  <1>5. req' \in [Clients -> Requests]
    <2>1. req' = [d \in Clients |-> req'[d]]
      BY <1>1 DEF Rekeyed
    <2>2. \A d \in Clients : req'[d] \in Requests
      BY <1>3, <1>4, RequestTypes
    <2> QED
      BY <2>1, <2>2
  <1>6. unread' = unread
    BY <1>1, <1>2 DEF Reply
  <1>7. sent' \in [Clients -> {"no", "sent", "locked"}] /\ sent'[c] = "no"
        /\ \A d \in Clients : d # c => sent'[d] = sent[d]
    BY <1>1, SentTypes DEF Reply
  <1>8. /\ ses' \in [Clients -> [key : Keys, token : Masks]]
        /\ ses'[c].key = IF req[c].rkey = req[c].enc /\ req[c].ok /\ req[c].m = "init_secure_api"
                         THEN req[c].got ELSE ses[c].key
    BY <1>1, <1>2, ReplyTypes
  <1>9. TypeOK'
    BY <1>1, <1>5, <1>6, <1>7, <1>8, Fields DEF TypeOK, Requests
  <1>10. ASSUME NEW d \in Clients PROVE AnswerKey(d)' /\ Shape(d)'
    <2>1. CASE d = c
      BY <1>3, <1>7, <2>1 DEF AnswerKey, Shape, Serving, NoRequest
    <2>2. CASE d # c
      <3>1. AnswerKey(d) /\ Shape(d)
        BY DEF Inv
      <3>2. AnswerKey(d)'
        BY <1>4, <2>2, <3>1 DEF AnswerKey, Serving
      <3>3. Shape(d)'
        BY <1>4, <1>7, <2>2, <3>1 DEF Shape
      <3> QED
        BY <3>2, <3>3
    <2> QED
      BY <2>1, <2>2
  <1>11. MaskInv'
    BY <1>1, <1>2, <1>3, <1>4, MaskKept DEF NoRequest
  <1>12. KeyInv'
    <2> SUFFICES ASSUME ~overlap["init_secure_api"] PROVE KeyInv'
      BY <1>1 DEF KeyInv
    <2>1. c \in InFlight("init_secure_api")
      BY <1>2 DEF InFlight
    <2>2. InFlight("init_secure_api") = {c}
      BY <2>1 DEF Inv, KeyInv
    <2>3. ~req[c].rekeyed /\ req[c].got = apiKey /\ req[c].copy = apiKey
      BY <1>2, <2>1 DEF Inv, KeyInv, Drawn
    <2>4. InFlight("init_secure_api")' = {}
      BY <1>3, <1>4, <2>2 DEF InFlight, NoRequest
    <2>5. key' = apiKey' /\ ses'[c].key = key'
      BY <1>1, <1>2, <1>8, <2>3
    <2>6. Agreed'
      BY <2>5 DEF Agreed
    <2> QED
      BY <2>4, <2>6 DEF KeyInv
  <1> QED
    BY <1>6, <1>9, <1>10, <1>11, <1>12 DEF Inv

LEMMA OpenInv ==
  ASSUME Inv, NEW c \in Clients, OpenWallet(c)
  PROVE  Inv'
  <1> TypeOK /\ Shape(c) /\ AnswerKey(c)
    BY DEF Inv
  <1>1. UNCHANGED <<key, apiKey, ses, mask, foreignOn, lock, sent, foreign, unread>>
        /\ req[c].pc = "handle" /\ req[c].m = "open_wallet" /\ ~req[c].ok /\ sent[c] = "no"
    BY DEF OpenWallet, Handling, At, sessionVars, Shape, TypeOK
  <1>2. CASE /\ masks < MaxMasks /\ masks' = masks + 1 /\ wallet' = masks + 1
             /\ req' = [req EXCEPT ![c].pc = "mask", ![c].ok = TRUE, ![c].got = masks + 1]
             /\ overlap' = [overlap EXCEPT !["open_wallet"] = @ /\ ~Alone(c, "open_wallet")]
    <2>1. masks' \in Masks
      BY <1>2, SessionAssumption DEF TypeOK, Masks
    <2>2. req' \in [Clients -> Requests]
      BY <1>2, <2>1, Fields, RequestTypes DEF Requests
    <2>3. /\ req'[c].pc = "mask" /\ req'[c].ok /\ req'[c].got = masks'
          /\ req'[c].m = req[c].m /\ req'[c].enc = req[c].enc /\ req'[c].rekeyed = req[c].rekeyed
          /\ \A d \in Clients : d # c => req'[d] = req[d]
      BY <1>2, Fields DEF Requests
    <2>4. /\ overlap' \in [Tracked -> BOOLEAN]
          /\ overlap'["init_secure_api"] = overlap["init_secure_api"]
          /\ ~overlap'["open_wallet"] => ~overlap["open_wallet"] \/ Alone(c, "open_wallet")
      BY <1>2 DEF TypeOK, Tracked
    <2>5. TypeOK'
      BY <1>1, <1>2, <2>1, <2>2, <2>4 DEF TypeOK, Requests
    <2>6. AnswerKey(c)' /\ Shape(c)'
      BY <1>1, <2>1, <2>3 DEF AnswerKey, Shape, Serving
    <2>7. \A d \in Clients : AnswerKey(d)' /\ Shape(d)'
      BY <1>1, <2>3, <2>6, OthersKept
    <2>8. KeyInv'
      BY <1>1, <2>3, <2>4, KeyKept
    <2>9. MaskInv'
      <3> SUFFICES ASSUME ~overlap'["open_wallet"] PROVE MaskInv'
        BY DEF MaskInv
      <3>1. c \in InFlight("open_wallet")
        BY <1>1 DEF InFlight
      <3>2. InFlight("open_wallet") = {c}
        BY <2>4, <3>1 DEF Inv, MaskInv, Alone
      <3>3. InFlight("open_wallet")' = {c}
        BY <2>3, <3>2 DEF InFlight
      <3> QED
        BY <1>2, <2>3, <3>3 DEF MaskInv
    <2> QED
      BY <1>1, <2>5, <2>7, <2>8, <2>9 DEF Inv
  <1>3. CASE Return(c, FALSE) /\ UNCHANGED <<wallet, masks, overlap>>
    <2>1. Moved(c, "encrypt", FALSE)
      BY <1>3, ReturnMoves
    <2>2. TypeOK'
      BY <1>1, <1>3, <2>1 DEF TypeOK, Moved, Requests
    <2>3. AnswerKey(c)' /\ Shape(c)'
      BY <1>1, <2>1 DEF AnswerKey, Shape, Serving, Moved
    <2>4. \A d \in Clients : AnswerKey(d)' /\ Shape(d)'
      BY <1>1, <2>1, <2>3, OthersKept DEF Moved
    <2>5. KeyInv'
      BY <1>1, <1>3, <2>1, KeyKept DEF Moved
    <2>6. InFlight("open_wallet")' = InFlight("open_wallet")
      BY <2>1 DEF InFlight, Moved
    <2>7. \A d \in InFlight("open_wallet") :
            /\ req'[d].pc = "mask" <=> req[d].pc = "mask"
            /\ req'[d].got = req[d].got
      BY <1>1, <2>1 DEF InFlight, Moved
    <2>8. MaskInv'
      BY <1>1, <1>3, <2>6, <2>7 DEF Inv, MaskInv
    <2> QED
      BY <1>1, <2>2, <2>4, <2>5, <2>8 DEF Inv
  <1> QED
    BY <1>2, <1>3 DEF OpenWallet

LEMMA UpdateMaskInv ==
  ASSUME Inv, NEW c \in Clients, UpdateMask(c)
  PROVE  Inv'
  <1> TypeOK /\ Shape(c) /\ AnswerKey(c)
    BY DEF Inv
  <1>1. UNCHANGED <<key, apiKey, ses, wallet, masks, foreignOn, lock, sent, foreign, overlap, unread>>
        /\ req[c].pc = "mask" /\ req[c].m = "open_wallet" /\ req[c].ok /\ req[c].got \in Masks
        /\ mask' = IF foreignOn THEN req[c].got ELSE mask
    BY DEF UpdateMask, At, sessionVars, Shape
  <1>2. Moved(c, "encrypt", req[c].ok)
    BY GotoMoves, RequestTypes DEF UpdateMask
  <1>3. TypeOK'
    BY <1>1, <1>2 DEF TypeOK, Moved, Requests
  <1>4. AnswerKey(c)' /\ Shape(c)'
    BY <1>1, <1>2 DEF AnswerKey, Shape, Serving, Moved
  <1>5. \A d \in Clients : AnswerKey(d)' /\ Shape(d)'
    BY <1>1, <1>2, <1>4, OthersKept DEF Moved
  <1>6. KeyInv'
    BY <1>1, <1>2, KeyKept DEF Moved
  <1>7. MaskInv'
    <2> SUFFICES ASSUME ~overlap["open_wallet"] PROVE MaskInv'
      BY <1>1 DEF MaskInv
    <2>1. c \in InFlight("open_wallet")
      BY <1>1 DEF InFlight
    <2>2. InFlight("open_wallet") = {c} /\ wallet \in {req[c].got, Closed}
      BY <1>1, <2>1 DEF Inv, MaskInv
    <2>3. InFlight("open_wallet")' = {c}
      BY <1>2, <2>2 DEF InFlight, Moved
    <2> QED
      BY <1>1, <1>2, <2>2, <2>3 DEF MaskInv, Moved, Closed
  <1> QED
    BY <1>1, <1>3, <1>5, <1>6, <1>7 DEF Inv

LEMMA CloseInv ==
  ASSUME Inv, NEW c \in Clients, CloseWallet(c)
  PROVE  Inv'
  <1> TypeOK /\ Shape(c) /\ AnswerKey(c)
    BY DEF Inv
  <1>1. UNCHANGED <<key, apiKey, ses, mask, masks, foreignOn, lock, sent, foreign, overlap, unread>>
        /\ req[c].pc = "handle" /\ req[c].m = "close_wallet" /\ wallet' = Closed
    BY DEF CloseWallet, Handling, At, sessionVars
  <1>2. Moved(c, "encrypt", TRUE)
    BY ReturnMoves DEF CloseWallet
  <1>3. TypeOK'
    BY <1>1, <1>2 DEF TypeOK, Moved, Requests, Closed
  <1>4. AnswerKey(c)' /\ Shape(c)'
    BY <1>1, <1>2 DEF AnswerKey, Shape, Serving, Moved
  <1>5. \A d \in Clients : AnswerKey(d)' /\ Shape(d)'
    BY <1>1, <1>2, <1>4, OthersKept DEF Moved
  <1>6. KeyInv'
    BY <1>1, <1>2, KeyKept DEF Moved
  <1>7. InFlight("open_wallet")' = InFlight("open_wallet")
    BY <1>1, <1>2 DEF InFlight, Moved
  <1>8. MaskInv'
    BY <1>1, <1>7 DEF Inv, MaskInv, Closed
  <1> QED
    BY <1>1, <1>3, <1>5, <1>6, <1>8 DEF Inv

LEMMA ForeignInv ==
  ASSUME Inv,
         \/ ForeignPost
         \/ \E m \in ForeignMethods, synced, old \in BOOLEAN : ForeignCall(m, synced, old)
         \/ UNCHANGED vars
  PROVE  Inv'
  <1>1. /\ UNCHANGED <<key, apiKey, ses, wallet, masks, mask, foreignOn, lock, req, sent, overlap, unread>>
        /\ foreign' \in [pc : {"idle", "posted"}, mask : Masks, ok : BOOLEAN]
    <2> TypeOK
      BY DEF Inv
    <2>1. CASE ForeignPost
      BY <2>1 DEF ForeignPost, NoForeign, TypeOK, sessionVars, walletVars
    <2>2. ASSUME NEW m \in ForeignMethods, NEW synced \in BOOLEAN, NEW old \in BOOLEAN,
                 ForeignCall(m, synced, old)
          PROVE  /\ UNCHANGED <<key, apiKey, ses, wallet, masks, mask, foreignOn, lock, req, sent, overlap, unread>>
                 /\ foreign' \in [pc : {"idle", "posted"}, mask : Masks, ok : BOOLEAN]
      <3> DEFINE b == /\ synced /\ wallet # Closed /\ CheckMiddleware(m, old)
                      /\ m = "check_version" \/ Keychain(foreign.mask)
      <3>1. b \in BOOLEAN
        OBVIOUS
      <3>2. foreign' = [NoForeign EXCEPT !.ok = b]
        BY <2>2 DEF ForeignCall
      <3> HIDE DEF b
      <3>3. foreign' \in [pc : {"idle", "posted"}, mask : Masks, ok : BOOLEAN]
        BY <3>1, <3>2, SessionAssumption DEF NoForeign, None, Masks
      <3> QED
        BY <2>2, <3>3 DEF ForeignCall, sessionVars, walletVars
    <2>3. CASE UNCHANGED vars
      BY <2>3 DEF vars, TypeOK, sessionVars, walletVars
    <2> QED
      BY <2>1, <2>2, <2>3
  <1>2. TypeOK'
    BY <1>1 DEF Inv, TypeOK
  <1>3. \A c \in Clients : AnswerKey(c)' /\ Shape(c)'
    BY <1>1 DEF Inv, AnswerKey, Shape
  <1>4. KeyInv'
    BY <1>1 DEF Inv, KeyInv, InFlight, Drawn, Agreed
  <1>5. MaskInv'
    BY <1>1 DEF Inv, MaskInv, InFlight
  <1> QED
    BY <1>1, <1>2, <1>3, <1>4, <1>5 DEF Inv

LEMMA NextInv ==
  ASSUME Inv, [Next]_vars
  PROVE  Inv'
  <1>1. ASSUME NEW c \in Clients, Serve(c) PROVE Inv'
    BY <1>1, QuietCall, QuietInv, DecryptInv, EncryptInv, InitSecureInv, CopyInv, UpdateKeyInv,
       OpenInv, UpdateMaskInv, CloseInv DEF Serve
  <1> QED
    BY <1>1, PostInv, ForeignInv DEF Next

LEMMA InvAlways == Spec => []Inv
  BY InitInv, NextInv, PTL DEF Spec

\* The state of the listener keeps its types, whatever its clients do at the same time.
THEOREM SessionTypes == Spec => []TypeOK
  BY InvAlways, PTL DEF Inv

\* Every client can read the answers it gets: encrypt_response uses the key of the request
\* unless another client's init_secure_api replaced it meanwhile.
THEOREM AnswersReadable == Spec => []ReadableReply
  <1>1. Inv => ReadableReply
    BY DEF Inv, ReadableReply
  <1> QED
    BY <1>1, InvAlways, PTL

\* Handler and Owner agree on the session key once the calls of init_secure_api have ended
\* and the last one met no other, for any number of clients and of negotiated keys.
THEOREM KeysAgree == Spec => []KeyAgreement
  <1>1. Inv => KeyAgreement
    BY DEF Inv, KeyInv, KeyAgreement, Agreed
  <1> QED
    BY <1>1, InvAlways, PTL

\* The mask of the foreign API on the owner port follows open_wallet.
THEOREM ForeignMaskCurrent == Spec => []ForeignMaskFollows
  <1>1. Inv => ForeignMaskFollows
    BY DEF Inv, MaskInv, ForeignMaskFollows
  <1> QED
    BY <1>1, InvAlways, PTL

\* No Ok of init_send_tx for a slate that was sent and whose outputs are not locked.
THEOREM SentSlatesLocked == Spec => []SentIsLocked
  <1>1. Inv => SentIsLocked
    BY DEF Inv, Shape, TypeOK, SentIsLocked, At
  <1> QED
    BY <1>1, InvAlways, PTL

=============================================================================
