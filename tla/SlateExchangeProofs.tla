------------------------ MODULE SlateExchangeProofs ------------------------
(* Proofs about SlateExchange for any set of slates, any methods and any number *)
(* of faults.                                                                  *)
EXTENDS SlateExchange, TLAPS

ClientRecs == [pc : ClientPcs, open : BOOLEAN, sub : BOOLEAN, todo : SUBSET Msgs,
               cur : SUBSET Msgs, rec : 0 .. ReconnectLimit]

\* Slates in transit are offers to the receiver or signed answers to the payer, and nobody
\* signs a slate before the receiver has made its output (o: the outputs).
MsgOK(m, o) == (m.signed <=> m.to = "payer") /\ (m.signed => o[m.s] = 1)

\* What a client (r) works on: slates of its own wallet; an answer under way has its output,
\* a transaction about to be posted is finalized (f: the finalized slates).  A listener that
\* still runs has not reached the limit of reconnections.
ClientOK(c, r, o, f) ==
    /\ \A m \in r.todo \cup r.cur : MsgOK(m, o) /\ m.to = WalletOf(c)
    /\ r.pc = "answer" => \A m \in r.cur : o[m.s] = 1
    /\ r.pc = "post" => \A m \in r.cur : m.s \in f
    /\ r.pc # "dead" => r.rec < ReconnectLimit

\* What the send command works on, beyond its first steps.
CmdOK ==
    /\ cmd.pc = "finalize" => outs[cmd.s] = 1
    /\ cmd.pc = "lock" /\ method \in {"http", "keybase"} => outs[cmd.s] = 1
    /\ cmd.pc = "post" => cmd.s \in final

\* Finalized means backed, and only what is finalized is posted.
FinalOK ==
    /\ \A s \in final : outs[s] = 1 /\ s \in entry
    /\ posted \subseteq final
    /\ \A s \in entry : s \in ctx \cup final

BackedInv ==
    /\ TypeOK
    /\ ReceivedOnce
    /\ \A m \in net : MsgOK(m, outs)
    /\ \A c \in Clients : ClientOK(c, cl[c], outs, final)
    /\ CmdOK
    /\ FinalOK

\* While nothing fails, an epicbox send goes straight on, each slate is offered once, and
\* the receiver that has made its output is the one that is about to acknowledge it.
Calm == faults = 0 /\ method = "epicbox"
CalmInv ==
    Calm =>
      /\ cmd.pc \in {"idle", "publish", "lock"}
      /\ cmd.pc = "publish" => /\ cmd.s \in ctx \cup entry
                               /\ outs[cmd.s] = 0 /\ Offer(cmd.s) \notin net
      /\ \A s \in ctx \ entry : cmd.s = s /\ cmd.pc # "idle"
      /\ \A s \in Slates : Offer(s) \in net \/ outs[s] > 0 => s \in ctx \cup entry
      /\ \A s \in Slates : Offer(s) \in net /\ outs[s] > 0 =>
            cl["receiver"].pc \in {"answer", "ack"} /\ cl["receiver"].cur = {Offer(s)}
      /\ cl["receiver"].pc = "got" => cl["receiver"].todo \subseteq net
      /\ cl["receiver"].pc \notin {"off", "dead"} => cl["receiver"].open

-----------------------------------------------------------------------------
(* Types and frames. *)

LEMMA ClientPcTypes ==
  \A p \in {"off", "loop", "read", "got", "answer", "post", "ack", "dead"} : p \in ClientPcs
  BY DEF ClientPcs

LEMMA CmdPcTypes ==
  \A p \in {"idle", "request", "publish", "poll", "http", "lock", "self", "finalize", "post"} : p \in CmdPcs
  BY DEF CmdPcs

LEMMA ZeroRec == 0 \in 0 .. ReconnectLimit /\ 0 < ReconnectLimit
  BY ExchangeAssumption

LEMMA ClientTypes ==
  /\ NoClient \in ClientRecs /\ StartEpicbox \in ClientRecs
  /\ NoClient.todo = {} /\ NoClient.cur = {} /\ NoClient.pc = "off" /\ NoClient.rec = 0
  /\ StartEpicbox.todo = {} /\ StartEpicbox.cur = {} /\ StartEpicbox.pc = "loop" /\ StartEpicbox.open
  /\ StartEpicbox.rec = 0
  <1>1. 0 \in 0 .. ReconnectLimit
    BY ExchangeAssumption
  <1> QED
    BY <1>1, ClientPcTypes DEF ClientRecs, NoClient, StartEpicbox

CmdRecs == [pc : CmdPcs, want : Slates, s : Slates]

LEMMA Types ==
  ASSUME TypeOK
  PROVE  /\ cl \in [Clients -> ClientRecs] /\ cmd \in CmdRecs
         /\ cmd.s \in Slates /\ cmd.want \in Slates /\ faults \in Nat /\ outs \in [Slates -> Nat]
         /\ \A c \in Clients : /\ cl[c] \in ClientRecs /\ cl[c].todo \subseteq Msgs /\ cl[c].cur \subseteq Msgs
                               /\ cl[c].rec \in 0 .. ReconnectLimit
         /\ net \subseteq Msgs
  BY DEF TypeOK, CmdRecs, ClientRecs

LEMMA MsgTypes ==
  /\ \A m \in Msgs : m.s \in Slates /\ m.to \in Wallets /\ m.signed \in BOOLEAN
  /\ \A s \in Slates : /\ Offer(s) \in Msgs /\ Answer(s) \in Msgs
                       /\ Offer(s).s = s /\ Offer(s).to = "receiver" /\ ~Offer(s).signed
                       /\ Answer(s).s = s /\ Answer(s).to = "payer" /\ Answer(s).signed
  BY DEF Msgs, Offer, Answer, Wallets

LEMMA OfferIs ==
  ASSUME NEW m \in Msgs, ~m.signed, m.to = "receiver"
  PROVE  m = Offer(m.s)
  BY DEF Msgs, Offer

LEMMA GotoTypes ==
  ASSUME TypeOK, NEW p \in CmdPcs, Goto(p)
  PROVE  cmd' \in CmdRecs /\ cmd'.pc = p /\ cmd'.s = cmd.s /\ cmd'.want = cmd.want
  BY Types DEF Goto, CmdRecs

LEMMA TellTypes ==
  ASSUME TypeOK, NEW s \in Slates, NEW what \in {"none", "ok", "failed", "unsent"}, Tell(s, what)
  PROVE  told' \in [Slates -> {"none", "ok", "failed", "unsent"}]
  BY DEF TypeOK, Tell

LEMMA SetTypes ==
  ASSUME TypeOK, NEW c \in Clients, NEW r \in ClientRecs, Set(c, r)
  PROVE  cl' \in [Clients -> ClientRecs] /\ cl'[c] = r /\ \A d \in Clients : d # c => cl'[d] = cl[d]
  BY Types DEF Set

\* receive_tx in the receiver: the one output of a slate.
LEMMA ReceiveTypes ==
  ASSUME TypeOK, ReceivedOnce, NEW s \in Slates, ReceiveTx(s)
  PROVE  /\ outs' \in [Slates -> Nat] /\ ReceivedOnce'
         /\ outs[s] = 0 /\ outs'[s] = 1 /\ \A u \in Slates : u # s => outs'[u] = outs[u]
         /\ \A u \in Slates : outs[u] = 1 => outs'[u] = 1
  BY Types DEF ReceiveTx, ReceivedOnce

\* What a step of the send command may do to the clients: end its subscriber thread, or start it.
SenderOnly ==
    /\ cl' \in [Clients -> ClientRecs]
    /\ \A c \in Wallets : cl'[c] = cl[c]
    /\ cl'["sender"].todo \subseteq cl["sender"].todo
    /\ cl'["sender"].cur \subseteq cl["sender"].cur
    /\ \/ cl'["sender"].pc \in {"off", "loop"} /\ cl'["sender"].rec = 0
       \/ cl'["sender"].pc = cl["sender"].pc /\ cl'["sender"].rec = cl["sender"].rec

LEMMA SenderFrames ==
  ASSUME TypeOK
  PROVE  /\ cl' = cl => SenderOnly
         /\ cl' = [cl EXCEPT !["sender"] = NoClient] => SenderOnly
         /\ cl' = [cl EXCEPT !["sender"] = StartEpicbox] => SenderOnly
         /\ CloseSender => SenderOnly
  <1>1. "sender" \in Clients /\ "sender" \notin Wallets /\ Wallets \subseteq Clients
    BY DEF Clients, Wallets
  <1>2. cl' = cl => SenderOnly
    BY <1>1, Types DEF SenderOnly
  <1>3. cl' = [cl EXCEPT !["sender"] = NoClient] => SenderOnly
    BY <1>1, Types, ClientTypes DEF SenderOnly
  <1>4. cl' = [cl EXCEPT !["sender"] = StartEpicbox] => SenderOnly
    BY <1>1, Types, ClientTypes DEF SenderOnly
  <1>5. CloseSender => SenderOnly
    <2> SUFFICES ASSUME CloseSender PROVE SenderOnly
      OBVIOUS
    <2> DEFINE r == [cl["sender"] EXCEPT !.open = FALSE, !.sub = FALSE]
    <2>1. r \in ClientRecs /\ r.todo = cl["sender"].todo /\ r.cur = cl["sender"].cur
          /\ r.pc = cl["sender"].pc /\ r.rec = cl["sender"].rec
      BY <1>1, Types DEF ClientRecs
    <2>2. CASE cl["sender"].pc = "loop"
      BY <1>3, <2>2 DEF CloseSender
    <2>3. CASE cl["sender"].pc # "loop"
      <3>1. cl' = [cl EXCEPT !["sender"] = r]
        BY <2>3 DEF CloseSender
      <3> QED
        BY <1>1, <2>1, <3>1, Types DEF SenderOnly
    <2> QED
      BY <2>2, <2>3
  <1> QED
    BY <1>2, <1>3, <1>4, <1>5

\* Outputs and finalized slates only grow: what was under way stays in order.
LEMMA ClientsKept ==
  ASSUME BackedInv, SenderOnly, final \subseteq final', outs' \in [Slates -> Nat],
         \A u \in Slates : outs[u] = 1 => outs'[u] = 1
  PROVE  \A c \in Clients : ClientOK(c, cl'[c], outs', final')
  <1> TypeOK
    BY DEF BackedInv
  <1> SUFFICES ASSUME NEW c \in Clients PROVE ClientOK(c, cl'[c], outs', final')
    OBVIOUS
  <1>1. \A m \in cl[c].todo \cup cl[c].cur : m.s \in Slates
    BY Types, MsgTypes
  <1>2. ClientOK(c, cl[c], outs, final)
    BY DEF BackedInv
  <1>3. ClientOK(c, cl[c], outs', final')
    BY <1>1, <1>2 DEF ClientOK, MsgOK
  <1>4. CASE c = "sender"
    BY <1>3, <1>4, ExchangeAssumption DEF ClientOK, SenderOnly
  <1>5. CASE c # "sender"
    BY <1>3, <1>5 DEF SenderOnly, Clients
  <1> QED
    BY <1>4, <1>5

LEMMA NetKept ==
  ASSUME BackedInv, outs' \in [Slates -> Nat], \A u \in Slates : outs[u] = 1 => outs'[u] = 1
  PROVE  \A m \in net : MsgOK(m, outs')
  <1>1. \A m \in net : m.s \in Slates
    BY Types, MsgTypes DEF BackedInv
  <1> QED
    BY <1>1 DEF BackedInv, MsgOK

\* Faults never go back, so a calm state was calm before; and a calm command is at one of
\* its first steps.
LEMMA NotCalm ==
  ASSUME TypeOK, CalmInv, method' = method, faults' \in {faults, faults + 1},
         \/ cmd.pc \notin {"idle", "publish", "lock"}
         \/ ~Calm
         \/ method # "epicbox"
         \/ faults' = faults + 1
  PROVE  CalmInv'
  BY Types DEF CalmInv, Calm

LEMMA FaultTypes ==
  ASSUME TypeOK, faults' = faults \/ Fault
  PROVE  faults' \in 0 .. MaxFaults /\ faults' \in {faults, faults + 1}
  BY ExchangeAssumption DEF TypeOK, Fault

\* The command ends.
LEMMA ExitTypes ==
  ASSUME TypeOK, NEW what \in {"none", "ok", "failed", "unsent"}, Exit(what)
  PROVE  /\ told' \in [Slates -> {"none", "ok", "failed", "unsent"}]
         /\ cmd' \in CmdRecs /\ cmd'.pc = "idle" /\ cmd'.s = cmd.s
         /\ SenderOnly
  BY Types, TellTypes, GotoTypes, CmdPcTypes, SenderFrames DEF Exit

-----------------------------------------------------------------------------
(* The send command. *)

LEMMA CmdFrame ==
  ASSUME BackedInv, SenderOnly, method' = method, synced' = synced, lost' = lost,
         cmd' \in CmdRecs, told' \in [Slates -> {"none", "ok", "failed", "unsent"}],
         net' \subseteq Msgs, faults' \in 0 .. MaxFaults,
         ctx' \subseteq Slates, entry' \subseteq Slates, final' \subseteq Slates, posted' \subseteq Slates,
         outs' \in [Slates -> Nat], ReceivedOnce', final \subseteq final',
         \A u \in Slates : outs[u] = 1 => outs'[u] = 1,
         \A m \in net' : MsgOK(m, outs'), CmdOK', FinalOK'
  PROVE  BackedInv'
  <1>1. TypeOK'
    BY DEF BackedInv, TypeOK, CmdRecs, SenderOnly, ClientRecs
  <1> QED
    BY <1>1, ClientsKept DEF BackedInv

LEMMA SendInitInv ==
  ASSUME BackedInv, CalmInv, NEW s \in Slates, SendInit(s)
  PROVE  BackedInv' /\ CalmInv'
  <1> TypeOK
    BY DEF BackedInv
  <1>1. /\ cmd.pc = "idle" /\ s \notin ctx \cup entry /\ ctx' = ctx \cup {s}
        /\ UNCHANGED <<method, synced, entry, final, outs, posted, told, net, lost, faults>>
    BY DEF SendInit
  <1>2. /\ cmd' \in CmdRecs /\ cmd'.s = s /\ cmd'.pc \in {"lock", "publish", "request"}
        /\ cmd'.pc = "lock" => method = "self"
        /\ method = "epicbox" => cmd'.pc = "publish"
    <2>1. CASE method = "self"
      BY <2>1, CmdPcTypes DEF SendInit, CmdRecs
    <2>2. CASE method \in {"epicbox", "file"}
      BY <2>2, CmdPcTypes DEF SendInit, CmdRecs
    <2>3. CASE method \notin {"epicbox", "file", "self"}
      BY <2>3, CmdPcTypes DEF SendInit, CmdRecs
    <2> QED
      BY <2>1, <2>2, <2>3
  <1>3. SenderOnly
    <2>1. CASE method = "epicbox"
      BY <2>1, SenderFrames DEF SendInit
    <2>2. CASE method # "epicbox"
      <3>1. cl' = cl
        BY <2>2, Types DEF SendInit
      <3> QED
        BY <3>1, SenderFrames
    <2> QED
      BY <2>1, <2>2
  <1>4. CmdOK' /\ FinalOK'
    BY <1>1, <1>2 DEF BackedInv, CmdOK, FinalOK
  <1>5. BackedInv'
    BY <1>1, <1>2, <1>3, <1>4, CmdFrame DEF BackedInv, TypeOK, ReceivedOnce
  <1>6. CalmInv'
    <2> SUFFICES ASSUME Calm PROVE CalmInv'
      BY <1>1 DEF CalmInv, Calm
    <2>1. cmd'.pc = "publish" /\ outs[s] = 0 /\ Offer(s) \notin net
      BY <1>1, <1>2, Types DEF CalmInv, Calm
    <2>2. cl'["receiver"] = cl["receiver"]
      BY <1>3 DEF SenderOnly, Wallets
    <2>3. \A u \in ctx' \ entry' : u = s
      BY <1>1 DEF CalmInv
    <2> QED
      BY <1>1, <1>2, <2>1, <2>2, <2>3 DEF CalmInv
  <1> QED
    BY <1>5, <1>6

LEMMA PublishInv ==
  ASSUME BackedInv, CalmInv, Publish
  PROVE  BackedInv' /\ CalmInv'
  <1> TypeOK
    BY DEF BackedInv
  <1>1. /\ cmd.pc = "publish" /\ method = "epicbox" /\ net' = net \cup {Offer(cmd.s)}
        /\ UNCHANGED <<method, synced, ctx, entry, final, told, outs, posted, lost, faults>>
    BY DEF Publish, PostSlate, payerVars
  <1>2. cmd' \in CmdRecs /\ cmd'.pc = "lock" /\ cmd'.s = cmd.s
    BY GotoTypes, CmdPcTypes DEF Publish
  <1>3. SenderOnly
    BY SenderFrames DEF Publish
  <1>4. CmdOK' /\ FinalOK'
    BY <1>1, <1>2 DEF BackedInv, CmdOK, FinalOK
  <1>5. net' \subseteq Msgs /\ \A m \in net' : MsgOK(m, outs')
    BY <1>1, Types, MsgTypes DEF BackedInv, MsgOK
  <1>6. BackedInv'
    BY <1>1, <1>2, <1>3, <1>4, <1>5, CmdFrame DEF BackedInv, TypeOK, ReceivedOnce
  <1>7. CalmInv'
    <2> SUFFICES ASSUME Calm PROVE CalmInv'
      BY <1>1 DEF CalmInv, Calm
    <2>1. outs[cmd.s] = 0 /\ cmd.s \in Slates
      BY <1>1, Types DEF CalmInv
    <2>2. cl'["receiver"] = cl["receiver"]
      BY <1>3 DEF SenderOnly, Wallets
    <2>3. \A u \in Slates : Offer(u) \in net' => Offer(u) \in net \/ u = cmd.s
      BY <1>1, <2>1, MsgTypes
    <2>4. cmd.s \in ctx \cup entry
      BY <1>1 DEF CalmInv
    <2> QED
      BY <1>1, <1>2, <2>1, <2>2, <2>3, <2>4 DEF CalmInv
  <1> QED
    BY <1>6, <1>7

LEMMA PublishFileInv ==
  ASSUME BackedInv, CalmInv, PublishFile
  PROVE  BackedInv' /\ CalmInv'
  <1> TypeOK
    BY DEF BackedInv
  <1>1. /\ cmd.pc = "publish" /\ method = "file" /\ net' = net \cup {Offer(cmd.s)}
        /\ UNCHANGED <<method, synced, ctx, entry, final, told, outs, posted, cl, lost, faults>>
    BY DEF PublishFile, PutTx, payerVars
  <1>2. cmd' \in CmdRecs /\ cmd'.pc = "lock" /\ cmd'.s = cmd.s
    BY GotoTypes, CmdPcTypes DEF PublishFile
  <1>3. SenderOnly
    BY <1>1, SenderFrames
  <1>4. CmdOK' /\ FinalOK'
    BY <1>1, <1>2 DEF BackedInv, CmdOK, FinalOK
  <1>5. net' \subseteq Msgs /\ \A m \in net' : MsgOK(m, outs')
    BY <1>1, Types, MsgTypes DEF BackedInv, MsgOK
  <1>6. BackedInv'
    BY <1>1, <1>2, <1>3, <1>4, <1>5, CmdFrame DEF BackedInv, TypeOK, ReceivedOnce
  <1> QED
    BY <1>1, <1>6, NotCalm

\* A command that ends, with or without a fault, and changes nothing else.
LEMMA ExitInv ==
  ASSUME BackedInv, CalmInv, NEW what \in {"none", "ok", "failed", "unsent"}, Exit(what),
         UNCHANGED <<method, synced, ctx, entry, final, outs, posted, net, lost>>,
         faults' = faults \/ Fault,
         cmd.pc \in {"request", "http", "poll", "post"} \/ Fault
  PROVE  BackedInv' /\ CalmInv'
  <1> TypeOK
    BY DEF BackedInv
  <1>1. /\ told' \in [Slates -> {"none", "ok", "failed", "unsent"}]
        /\ cmd' \in CmdRecs /\ cmd'.pc = "idle" /\ SenderOnly
    BY ExitTypes
  <1>2. faults' \in 0 .. MaxFaults /\ faults' \in {faults, faults + 1}
    BY FaultTypes
  <1>3. CmdOK' /\ FinalOK'
    BY <1>1 DEF BackedInv, CmdOK, FinalOK
  <1>4. BackedInv'
    BY <1>1, <1>2, <1>3, CmdFrame DEF BackedInv, TypeOK, ReceivedOnce
  <1>5. CalmInv'
    BY <1>2, NotCalm DEF Fault
  <1> QED
    BY <1>4, <1>5

LEMMA HttpRequestInv ==
  ASSUME BackedInv, CalmInv, HttpRequest
  PROVE  BackedInv' /\ CalmInv'
  <1> TypeOK
    BY DEF BackedInv
  <1>1. /\ cmd.pc = "request" /\ method = "http"
        /\ UNCHANGED <<method, synced, ctx, entry, final, outs, posted, net, lost, faults>>
    BY DEF HttpRequest
  <1>2. CASE Exit("failed")
    BY <1>1, <1>2, ExitInv
  <1>3. CASE Goto("http") /\ UNCHANGED <<told, cl>>
    <2>1. cmd' \in CmdRecs /\ cmd'.pc = "http"
      BY <1>3, GotoTypes, CmdPcTypes
    <2>2. SenderOnly
      BY <1>3, SenderFrames
    <2>3. CmdOK' /\ FinalOK'
      BY <1>1, <2>1 DEF BackedInv, CmdOK, FinalOK
    <2>4. BackedInv'
      BY <1>1, <1>3, <2>1, <2>2, <2>3, CmdFrame DEF BackedInv, TypeOK, ReceivedOnce
    <2> QED
      BY <1>1, <2>4, NotCalm
  <1> QED
    BY <1>2, <1>3 DEF HttpRequest

LEMMA HttpAnswerInv ==
  ASSUME BackedInv, CalmInv, HttpAnswer
  PROVE  BackedInv' /\ CalmInv'
  <1> TypeOK /\ ReceivedOnce
    BY DEF BackedInv
  <1>1. /\ cmd.pc = "http" /\ ReceiveTx(cmd.s)
        /\ UNCHANGED <<method, synced, ctx, entry, final, posted, net, lost>>
    BY DEF HttpAnswer
  <1>2. cmd.s \in Slates
    BY Types
  <1>3. /\ outs' \in [Slates -> Nat] /\ ReceivedOnce' /\ outs'[cmd.s] = 1
        /\ \A u \in Slates : outs[u] = 1 => outs'[u] = 1
    BY <1>1, <1>2, ReceiveTypes
  <1>4. /\ cmd' \in CmdRecs /\ cmd'.s = cmd.s /\ cmd'.pc \in {"lock", "idle"} /\ SenderOnly
        /\ told' \in [Slates -> {"none", "ok", "failed", "unsent"}]
        /\ faults' = faults \/ Fault
    <2>1. CASE Goto("lock") /\ UNCHANGED <<told, cl, faults>>
      BY <2>1, GotoTypes, CmdPcTypes, SenderFrames DEF TypeOK
    <2>2. CASE Fault /\ Exit("failed")
      BY <2>2, ExitTypes
    <2> QED
      BY <2>1, <2>2 DEF HttpAnswer
  <1>5. faults' \in 0 .. MaxFaults /\ faults' \in {faults, faults + 1}
    BY <1>4, FaultTypes
  <1>6. CmdOK' /\ FinalOK'
    BY <1>1, <1>3, <1>4 DEF BackedInv, CmdOK, FinalOK, TypeOK
  <1>7. \A m \in net : MsgOK(m, outs')
    BY <1>3, NetKept
  <1>8. BackedInv'
    BY <1>1, <1>3, <1>4, <1>5, <1>6, <1>7, CmdFrame DEF TypeOK
  <1> QED
    BY <1>1, <1>5, <1>8, NotCalm

LEMMA KeybaseRequestInv ==
  ASSUME BackedInv, CalmInv, KeybaseRequest
  PROVE  BackedInv' /\ CalmInv'
  <1> TypeOK
    BY DEF BackedInv
  <1>1. /\ cmd.pc = "request" /\ method = "keybase" /\ net' = net \cup {Offer(cmd.s)}
        /\ UNCHANGED <<method, synced, ctx, entry, final, told, outs, posted, cl, lost, faults>>
    BY DEF KeybaseRequest, KeybaseSend, payerVars
  <1>2. cmd' \in CmdRecs /\ cmd'.pc = "poll" /\ cmd'.s = cmd.s
    BY GotoTypes, CmdPcTypes DEF KeybaseRequest
  <1>3. SenderOnly
    BY <1>1, SenderFrames
  <1>4. CmdOK' /\ FinalOK'
    BY <1>1, <1>2 DEF BackedInv, CmdOK, FinalOK
  <1>5. net' \subseteq Msgs /\ \A m \in net' : MsgOK(m, outs')
    BY <1>1, Types, MsgTypes DEF BackedInv, MsgOK
  <1>6. BackedInv'
    BY <1>1, <1>2, <1>3, <1>4, <1>5, CmdFrame DEF BackedInv, TypeOK, ReceivedOnce
  <1> QED
    BY <1>1, <1>6, NotCalm

\* The answer that poll takes may belong to another slate, but it is signed.
LEMMA PollHitInv ==
  ASSUME BackedInv, CalmInv, PollHit
  PROVE  BackedInv' /\ CalmInv'
  <1> TypeOK
    BY DEF BackedInv
  <1>1. PICK m \in net : m.to = "payer" /\ cmd' = [cmd EXCEPT !.pc = "lock", !.s = m.s]
    BY DEF PollHit
  <1>2. /\ cmd.pc = "poll" /\ net' \subseteq net
        /\ UNCHANGED <<method, synced, ctx, entry, final, told, outs, posted, cl, lost, faults>>
    BY DEF PollHit, ReadFromChannel, payerVars
  <1>3. m.s \in Slates /\ outs[m.s] = 1
    BY <1>1, Types, MsgTypes DEF BackedInv, MsgOK
  <1>4. cmd' \in CmdRecs /\ cmd'.s = m.s /\ cmd'.pc = "lock"
    BY <1>1, <1>3, Types, CmdPcTypes DEF CmdRecs
  <1>5. SenderOnly
    BY <1>2, SenderFrames
  <1>6. CmdOK' /\ FinalOK'
    BY <1>2, <1>3, <1>4 DEF BackedInv, CmdOK, FinalOK
  <1>7. net' \subseteq Msgs /\ \A n \in net' : MsgOK(n, outs')
    BY <1>2, Types DEF BackedInv
  <1>8. BackedInv'
    BY <1>2, <1>4, <1>5, <1>6, <1>7, CmdFrame DEF BackedInv, TypeOK, ReceivedOnce
  <1> QED
    BY <1>2, <1>8, NotCalm

LEMMA ExplodeInv ==
  ASSUME BackedInv, CalmInv, NEW m \in net, Explode(m)
  PROVE  BackedInv' /\ CalmInv'
  <1> TypeOK
    BY DEF BackedInv
  <1>1. /\ method = "keybase" /\ net' \subseteq net
        /\ UNCHANGED <<method, synced, ctx, entry, final, told, outs, posted, cmd, cl, lost, faults>>
    BY DEF Explode, payerVars
  <1>2. SenderOnly
    BY <1>1, SenderFrames
  <1>3. CmdOK' /\ FinalOK'
    BY <1>1 DEF BackedInv, CmdOK, FinalOK
  <1>4. net' \subseteq Msgs /\ \A n \in net' : MsgOK(n, outs')
    BY <1>1, Types DEF BackedInv
  <1>5. BackedInv'
    BY <1>1, <1>2, <1>3, <1>4, CmdFrame, Types DEF BackedInv, TypeOK, ReceivedOnce
  <1> QED
    BY <1>1, <1>5, NotCalm

LEMMA LockInv ==
  ASSUME BackedInv, CalmInv, LockOutputs
  PROVE  BackedInv' /\ CalmInv'
  <1> TypeOK
    BY DEF BackedInv
  <1>1. /\ cmd.pc = "lock" /\ cmd.s \in ctx /\ entry' = entry \cup {cmd.s}
        /\ UNCHANGED <<method, synced, ctx, final, outs, posted, net, lost, faults>>
    BY DEF LockOutputs
  <1>2. /\ cmd' \in CmdRecs /\ cmd'.s = cmd.s /\ SenderOnly
        /\ told' \in [Slates -> {"none", "ok", "failed", "unsent"}]
        /\ \/ method \in {"epicbox", "file"} /\ cmd'.pc = "idle"
           \/ method = "self" /\ cmd'.pc = "self"
           \/ method \in {"http", "keybase"} /\ cmd'.pc = "finalize"
    <2>1. CASE method \in {"epicbox", "file"} /\ Exit("ok")
      BY <2>1, ExitTypes
    <2>2. CASE method = "self" /\ Goto("self") /\ UNCHANGED <<told, cl>>
      BY <2>2, GotoTypes, CmdPcTypes, SenderFrames DEF TypeOK
    <2>3. CASE method \in {"http", "keybase"} /\ Goto("finalize") /\ UNCHANGED <<told, cl>>
      BY <2>3, GotoTypes, CmdPcTypes, SenderFrames DEF TypeOK
    <2> QED
      BY <2>1, <2>2, <2>3 DEF LockOutputs
  <1>3. CmdOK'
    BY <1>1, <1>2 DEF BackedInv, CmdOK
  <1>4. FinalOK'
    BY <1>1 DEF BackedInv, FinalOK
  <1>5. BackedInv'
    BY <1>1, <1>2, <1>3, <1>4, CmdFrame, Types DEF BackedInv, TypeOK, ReceivedOnce
  <1>6. CalmInv'
    <2> SUFFICES ASSUME Calm PROVE CalmInv'
      BY <1>1 DEF CalmInv, Calm
    <2>1. cmd'.pc = "idle"
      BY <1>2 DEF Calm
    <2>2. cl'["receiver"] = cl["receiver"]
      BY <1>2 DEF SenderOnly, Wallets
    <2>3. ctx' \ entry' = {} /\ ctx' \cup entry' = ctx \cup entry
      BY <1>1 DEF CalmInv
    <2> QED
      BY <1>1, <2>1, <2>2, <2>3 DEF CalmInv
  <1> QED
    BY <1>5, <1>6

LEMMA SelfReceiveInv ==
  ASSUME BackedInv, CalmInv, SelfReceive
  PROVE  BackedInv' /\ CalmInv'
  <1> TypeOK /\ ReceivedOnce
    BY DEF BackedInv
  <1>1. /\ cmd.pc = "self" /\ ReceiveTx(cmd.s)
        /\ UNCHANGED <<method, synced, ctx, entry, final, told, posted, net, cl, lost, faults>>
    BY DEF SelfReceive, payerVars
  <1>2. cmd.s \in Slates
    BY Types
  <1>3. /\ outs' \in [Slates -> Nat] /\ ReceivedOnce' /\ outs'[cmd.s] = 1
        /\ \A u \in Slates : outs[u] = 1 => outs'[u] = 1
    BY <1>1, <1>2, ReceiveTypes
  <1>4. cmd' \in CmdRecs /\ cmd'.s = cmd.s /\ cmd'.pc = "finalize"
    BY GotoTypes, CmdPcTypes DEF SelfReceive
  <1>5. SenderOnly
    BY <1>1, SenderFrames
  <1>6. CmdOK' /\ FinalOK'
    BY <1>1, <1>3, <1>4 DEF BackedInv, CmdOK, FinalOK, TypeOK
  <1>7. \A m \in net : MsgOK(m, outs')
    BY <1>3, NetKept
  <1>8. BackedInv'
    BY <1>1, <1>3, <1>4, <1>5, <1>6, <1>7, CmdFrame DEF TypeOK
  <1> QED
    BY <1>1, <1>8, NotCalm

LEMMA CmdFinalizeInv ==
  ASSUME BackedInv, CalmInv, CmdFinalize
  PROVE  BackedInv' /\ CalmInv'
  <1> TypeOK
    BY DEF BackedInv
  <1>1. /\ cmd.pc = "finalize" /\ cmd.s \in entry /\ final' = final \cup {cmd.s} /\ ctx' = ctx \ {cmd.s}
        /\ UNCHANGED <<method, synced, entry, outs, posted, told, net, cl, lost, faults>>
    BY DEF CmdFinalize, FinalizeTx, Finalizable
  <1>2. cmd' \in CmdRecs /\ cmd'.s = cmd.s /\ cmd'.pc = "post"
    BY GotoTypes, CmdPcTypes DEF CmdFinalize
  <1>3. SenderOnly
    BY <1>1, SenderFrames
  <1>4. CmdOK' /\ FinalOK'
    BY <1>1, <1>2 DEF BackedInv, CmdOK, FinalOK
  <1>5. BackedInv'
    BY <1>1, <1>2, <1>3, <1>4, CmdFrame, Types DEF BackedInv, TypeOK, ReceivedOnce
  <1> QED
    BY <1>1, <1>5, NotCalm

LEMMA CmdPostInv ==
  ASSUME BackedInv, CalmInv, CmdPost
  PROVE  BackedInv' /\ CalmInv'
  <1> TypeOK
    BY DEF BackedInv
  <1>1. /\ cmd.pc = "post" /\ cmd.s \in final
        /\ UNCHANGED <<method, synced, ctx, entry, final, outs, net, lost>>
    BY DEF CmdPost, BackedInv, CmdOK
  <1>2. CASE posted' = posted \cup {cmd.s} /\ Exit("ok") /\ UNCHANGED faults
    <2>1. /\ told' \in [Slates -> {"none", "ok", "failed", "unsent"}]
          /\ cmd' \in CmdRecs /\ cmd'.pc = "idle" /\ SenderOnly
      BY <1>2, ExitTypes
    <2>2. CmdOK' /\ FinalOK'
      BY <1>1, <1>2, <2>1 DEF BackedInv, CmdOK, FinalOK
    <2>3. BackedInv'
      BY <1>1, <1>2, <2>1, <2>2, CmdFrame, Types DEF BackedInv, TypeOK, ReceivedOnce
    <2> QED
      BY <1>1, <1>2, <2>3, NotCalm
  <1>3. CASE Fault /\ Exit("unsent") /\ UNCHANGED posted
    BY <1>1, <1>3, ExitInv
  <1> QED
    BY <1>2, <1>3 DEF CmdPost

LEMMA CmdEndsInv ==
  ASSUME BackedInv, CalmInv, SendFails \/ CmdCrash \/ PollTimeout
  PROVE  BackedInv' /\ CalmInv'
  <1>1. CASE SendFails
    BY <1>1, ExitInv DEF SendFails
  <1>2. CASE CmdCrash
    <2>1. told[cmd.want] \in {"none", "ok", "failed", "unsent"}
      BY Types DEF BackedInv, TypeOK
    <2> QED
      BY <1>2, <2>1, ExitInv DEF CmdCrash
  <1>3. CASE PollTimeout
    BY <1>3, ExitInv DEF PollTimeout
  <1> QED
    BY <1>1, <1>2, <1>3

-----------------------------------------------------------------------------
(* The clients. *)

LEMMA ClientFrame ==
  ASSUME BackedInv, NEW c \in Clients, NEW r \in ClientRecs, Set(c, r),
         UNCHANGED <<method, synced, told, cmd, entry>>,
         net' \subseteq Msgs, lost' \subseteq Msgs, faults' \in 0 .. MaxFaults,
         ctx' \subseteq Slates, final' \subseteq Slates, posted' \subseteq Slates,
         outs' \in [Slates -> Nat], ReceivedOnce', final \subseteq final',
         \A u \in Slates : outs[u] = 1 => outs'[u] = 1,
         \A m \in net' : MsgOK(m, outs'), ClientOK(c, r, outs', final'), FinalOK'
  PROVE  BackedInv'
  <1> TypeOK
    BY DEF BackedInv
  <1>1. cl' \in [Clients -> ClientRecs] /\ cl'[c] = r /\ \A d \in Clients : d # c => cl'[d] = cl[d]
    BY SetTypes
  <1>2. TypeOK'
    BY <1>1 DEF TypeOK, ClientRecs
  <1>3. CmdOK'
    BY Types DEF BackedInv, CmdOK
  <1>4. ASSUME NEW d \in Clients, d # c PROVE ClientOK(d, cl'[d], outs', final')
    <2>1. \A m \in cl[d].todo \cup cl[d].cur : m.s \in Slates
      BY Types, MsgTypes
    <2>2. ClientOK(d, cl[d], outs, final)
      BY DEF BackedInv
    <2>3. ClientOK(d, cl[d], outs', final')
      BY <2>1, <2>2 DEF ClientOK, MsgOK
    <2> QED
      BY <1>1, <1>4, <2>3
  <1> QED
    BY <1>1, <1>2, <1>3, <1>4 DEF BackedInv

\* A calm step of the payer's clients does not matter to offers.
LEMMA CalmOther ==
  ASSUME BackedInv, CalmInv, NEW c \in Clients, c # "receiver", NEW r \in ClientRecs, Set(c, r),
         UNCHANGED <<method, cmd, entry, outs>>, faults' \in {faults, faults + 1},
         ctx' \cup entry = ctx \cup entry, ctx' \subseteq ctx,
         \A m \in Msgs : m.to = "receiver" => (m \in net' <=> m \in net)
  PROVE  CalmInv'
  <1> TypeOK
    BY DEF BackedInv
  <1>1. cl'["receiver"] = cl["receiver"]
    BY SetTypes DEF Clients, Wallets
  <1> SUFFICES ASSUME Calm, faults' = faults PROVE CalmInv'
    BY Types DEF CalmInv, Calm
  <1>2. cmd.s \in Slates
    BY Types
  <1>3. \A u \in Slates : Offer(u) \in net' <=> Offer(u) \in net
    BY MsgTypes
  <1>4. \A m \in cl["receiver"].todo : m \in net => m \in net'
    <2>1. "receiver" \in Clients /\ WalletOf("receiver") = "receiver"
      BY DEF Clients, Wallets, WalletOf
    <2>2. \A m \in cl["receiver"].todo : m \in Msgs /\ m.to = "receiver"
      BY <2>1, Types DEF BackedInv, ClientOK
    <2> QED
      BY <2>2
  <1> QED
    BY <1>1, <1>2, <1>3, <1>4 DEF CalmInv

\* A calm step of the receiver that is not about to answer or to acknowledge.
LEMMA CalmReceiver ==
  ASSUME BackedInv, CalmInv, NEW r \in ClientRecs, Set("receiver", r),
         UNCHANGED <<method, cmd, entry, outs, ctx, net>>, faults' \in {faults, faults + 1},
         cl["receiver"].pc \notin {"answer", "ack"} \/ faults' = faults + 1,
         r.pc = "got" => r.todo \subseteq net,
         r.pc \notin {"off", "dead"} => r.open
  PROVE  CalmInv'
  <1> TypeOK
    BY DEF BackedInv
  <1>1. cl'["receiver"] = r
    BY SetTypes DEF Clients, Wallets
  <1> SUFFICES ASSUME Calm, faults' = faults PROVE CalmInv'
    BY Types DEF CalmInv, Calm
  <1> QED
    BY <1>1, Types DEF CalmInv

\* The steps that only change a client: connecting, reading, crashing.
LEMMA ClientOnlyInv ==
  ASSUME BackedInv, CalmInv, NEW c \in Clients, NEW r \in ClientRecs, Set(c, r),
         UNCHANGED <<exchange, net>>, faults' = faults \/ Fault,
         r.todo \subseteq cl[c].todo \cup Inbox(c), r.pc = "got" => r.todo \subseteq net, r.cur \subseteq cl[c].cur, r.pc \notin {"answer", "post"},
         r.pc # "dead" => r.rec < ReconnectLimit,
         c = "receiver" /\ faults' = faults /\ Calm =>
            cl[c].pc \notin {"answer", "ack"} /\ (r.pc \notin {"off", "dead"} => r.open)
  PROVE  BackedInv' /\ CalmInv'
  <1> TypeOK
    BY DEF BackedInv
  <1>1. UNCHANGED <<method, synced, ctx, entry, final, told, outs, posted, cmd, lost>>
    BY DEF exchange, payerVars
  <1>2. faults' \in 0 .. MaxFaults /\ faults' \in {faults, faults + 1}
    BY FaultTypes
  <1>3. ClientOK(c, r, outs, final)
    <2>1. \A m \in r.todo : MsgOK(m, outs) /\ m.to = WalletOf(c)
      BY DEF BackedInv, Inbox, ClientOK
    <2> QED
      BY <2>1 DEF BackedInv, ClientOK
  <1>4. FinalOK'
    BY <1>1 DEF BackedInv, FinalOK
  <1>5. BackedInv'
    BY <1>1, <1>2, <1>3, <1>4, ClientFrame, Types DEF BackedInv, TypeOK, ReceivedOnce
  <1>6. CalmInv'
    <2>1. CASE c # "receiver"
      BY <1>1, <1>2, <2>1, CalmOther
    <2>2. CASE c = "receiver" /\ faults' = faults /\ Calm
      BY <1>1, <1>2, <2>2, CalmReceiver
    <2>3. CASE faults' # faults \/ ~Calm
      BY <1>1, <1>2, <2>3, NotCalm
    <2> QED
      BY <2>1, <2>2, <2>3
  <1> QED
    BY <1>5, <1>6

LEMMA DropInv ==
  ASSUME BackedInv, CalmInv, NEW c \in Clients, NEW failed \in BOOLEAN, Drop(c, failed),
         UNCHANGED <<exchange, net>>, Fault, cl[c].pc # "dead"
  PROVE  BackedInv' /\ CalmInv'
  <1> TypeOK
    BY DEF BackedInv
  <1> DEFINE n == IF failed THEN cl[c].rec + 1 ELSE cl[c].rec
             r == [NoClient EXCEPT !.rec = IF c = "sender" THEN 0 ELSE n,
                                   !.pc = IF c # "sender" /\ n >= ReconnectLimit THEN "dead" ELSE "off"]
  <1>1. Set(c, r)
    BY DEF Drop
  <1>2. cl[c].rec < ReconnectLimit /\ cl[c].rec \in Nat
    BY Types DEF BackedInv, ClientOK
  <1>3. n \in 0 .. ReconnectLimit
    BY <1>2, ExchangeAssumption
  <1> HIDE DEF n
  <1>4. r \in ClientRecs /\ r.todo = {} /\ r.cur = {} /\ r.pc \in {"off", "dead"}
    <2>1. (IF c = "sender" THEN 0 ELSE n) \in 0 .. ReconnectLimit
      BY <1>3, ZeroRec
    <2>2. (IF c # "sender" /\ n >= ReconnectLimit THEN "dead" ELSE "off") \in ClientPcs \cap {"off", "dead"}
      BY ClientPcTypes
    <2> QED
      BY <2>1, <2>2 DEF ClientRecs, NoClient
  <1>5. r.pc # "dead" => r.rec < ReconnectLimit
    <2>1. r.pc = (IF c # "sender" /\ n >= ReconnectLimit THEN "dead" ELSE "off")
          /\ r.rec = (IF c = "sender" THEN 0 ELSE n)
      BY DEF NoClient
    <2> QED
      BY <1>3, <2>1, ExchangeAssumption
  <1> HIDE DEF r
  <1>6. faults' # faults
    BY Types DEF Fault
  <1> QED
    BY <1>1, <1>4, <1>5, <1>6, ClientOnlyInv

LEMMA ConnectInv ==
  ASSUME BackedInv, CalmInv, NEW c \in Clients, Connect(c)
  PROVE  BackedInv' /\ CalmInv'
  <1> TypeOK
    BY DEF BackedInv
  <1> DEFINE r == [cl[c] EXCEPT !.pc = "loop", !.open = TRUE]
  <1>1. method = "epicbox" /\ cl[c].pc = "off" /\ UNCHANGED <<exchange, net>>
    BY DEF Connect
  <1>2. CASE Set(c, r) /\ UNCHANGED faults
    <2>1. cl[c].rec < ReconnectLimit
      BY <1>1 DEF BackedInv, ClientOK
    <2>2. r \in ClientRecs /\ r.pc = "loop" /\ r.open /\ r.cur = cl[c].cur /\ r.todo = cl[c].todo
          /\ r.rec = cl[c].rec
      BY Types, ClientPcTypes DEF ClientRecs
    <2> QED
      BY <1>1, <1>2, <2>1, <2>2, ClientOnlyInv
  <1>3. CASE Fault /\ Drop(c, TRUE)
    BY <1>1, <1>3, DropInv
  <1> QED
    BY <1>2, <1>3 DEF Connect

\* The connected clients: the loop, the challenge, a stored slate, a ping.
LEMMA ReadInv ==
  ASSUME BackedInv, CalmInv, NEW c \in Clients, StartRead(c) \/ OnChallenge(c) \/ OnSlate(c)
  PROVE  BackedInv' /\ CalmInv'
  <1> TypeOK
    BY DEF BackedInv
  <1>1. method = "epicbox" /\ cl[c].pc \in {"loop", "read"} /\ UNCHANGED <<exchange, net, faults>>
    BY DEF StartRead, OnChallenge, OnSlate
  <1>2. cl[c].rec < ReconnectLimit /\ 0 < ReconnectLimit
    BY <1>1, ExchangeAssumption DEF BackedInv, ClientOK
  <1>3. c = "receiver" /\ Calm => cl[c].open
    BY <1>1 DEF CalmInv
  <1>4. CASE StartRead(c)
    <2> DEFINE r == [cl[c] EXCEPT !.pc = "read"]
    <2>1. r \in ClientRecs /\ r.pc = "read" /\ r.open = cl[c].open /\ r.cur = cl[c].cur /\ r.todo = cl[c].todo
          /\ r.rec = cl[c].rec
      BY Types, ClientPcTypes DEF ClientRecs
    <2>2. Set(c, r)
      BY <1>4 DEF StartRead
    <2> HIDE DEF r
    <2> QED
      BY <1>1, <1>2, <1>3, <2>1, <2>2, ClientOnlyInv
  <1>5. CASE OnChallenge(c)
    <2> DEFINE r == [cl[c] EXCEPT !.pc = "loop", !.sub = TRUE, !.rec = 0]
    <2>1. r \in ClientRecs /\ r.pc = "loop" /\ r.open = cl[c].open /\ r.cur = cl[c].cur /\ r.todo = cl[c].todo
          /\ r.rec = 0
      BY Types, ClientPcTypes, ZeroRec DEF ClientRecs
    <2>2. Set(c, r)
      BY <1>5 DEF OnChallenge
    <2> HIDE DEF r
    <2> QED
      BY <1>1, <1>2, <1>3, <2>1, <2>2, ClientOnlyInv
  <1>6. CASE OnSlate(c)
    <2>0. PICK m \in Inbox(c) : Set(c, [cl[c] EXCEPT !.pc = "got", !.todo = {m}, !.rec = 0])
      BY <1>6 DEF OnSlate
    <2> DEFINE r == [cl[c] EXCEPT !.pc = "got", !.todo = {m}, !.rec = 0]
    <2>1. m \in net /\ m \in Msgs
      BY Types DEF Inbox
    <2>2. r \in ClientRecs /\ r.pc = "got" /\ r.open = cl[c].open /\ r.cur = cl[c].cur /\ r.todo = {m}
          /\ r.rec = 0
      BY <2>1, Types, ClientPcTypes, ZeroRec DEF ClientRecs
    <2>3. Set(c, r)
      BY <2>0
    <2> HIDE DEF r
    <2> QED
      BY <1>1, <1>2, <1>3, <2>1, <2>2, <2>3, ClientOnlyInv
  <1> QED
    BY <1>4, <1>5, <1>6

LEMMA PingInv ==
  ASSUME BackedInv, CalmInv, OnPing
  PROVE  BackedInv' /\ CalmInv'
  <1> TypeOK
    BY DEF BackedInv
  <1> DEFINE r == [cl["sender"] EXCEPT !.pc = "loop"]
  <1>1. "sender" \in Clients /\ cl["sender"].pc = "read" /\ UNCHANGED <<exchange, net, faults>>
    BY DEF OnPing, Clients
  <1>2. cl["sender"].rec < ReconnectLimit
    BY <1>1 DEF BackedInv, ClientOK
  <1>3. r \in ClientRecs /\ r.pc = "loop" /\ r.cur = cl["sender"].cur /\ r.todo = cl["sender"].todo
        /\ r.rec = cl["sender"].rec
    BY <1>1, Types, ClientPcTypes DEF ClientRecs
  <1>4. Set("sender", r)
    BY DEF OnPing
  <1> HIDE DEF r
  <1> QED
    BY <1>1, <1>2, <1>3, <1>4, ClientOnlyInv

LEMMA FileInv ==
  ASSUME BackedInv, CalmInv, ReceiveCommand \/ FinalizeCommand
  PROVE  BackedInv' /\ CalmInv'
  <1> TypeOK
    BY DEF BackedInv
  <1> SUFFICES ASSUME NEW c \in Clients, ReadFile(c) PROVE BackedInv' /\ CalmInv'
    BY DEF ReceiveCommand, FinalizeCommand, Clients, Wallets
  <1>1. method = "file" /\ UNCHANGED <<exchange, net, faults>>
    BY DEF ReadFile
  <1>2. PICK m \in Inbox(c) : Set(c, [NoClient EXCEPT !.pc = "got", !.todo = {m}])
    BY DEF ReadFile
  <1> DEFINE r == [NoClient EXCEPT !.pc = "got", !.todo = {m}]
  <1>3. m \in net /\ m \in Msgs
    BY Types DEF Inbox
  <1>4. r \in ClientRecs /\ r.pc = "got" /\ r.cur = {} /\ r.todo = {m} /\ r.rec = 0
    BY <1>3, ClientPcTypes, ZeroRec DEF ClientRecs, NoClient
  <1>5. Set(c, r)
    BY <1>2
  <1> HIDE DEF r
  <1>6. ~Calm /\ 0 < ReconnectLimit
    BY <1>1, ExchangeAssumption DEF Calm
  <1> QED
    BY <1>1, <1>3, <1>4, <1>5, <1>6, ClientOnlyInv

LEMMA CrashInv ==
  ASSUME BackedInv, CalmInv, NEW c \in Clients, ReadFails(c) \/ ClientCrash(c)
  PROVE  BackedInv' /\ CalmInv'
  <1> TypeOK
    BY DEF BackedInv
  <1>1. CASE ReadFails(c)
    BY <1>1, DropInv DEF ReadFails
  <1>2. CASE ClientCrash(c)
    <2>1. Set(c, NoClient) /\ Fault /\ faults' # faults /\ UNCHANGED <<exchange, net>> /\ 0 < ReconnectLimit
      BY <1>2, Types, ExchangeAssumption DEF ClientCrash, Fault
    <2> QED
      BY <2>1, ClientTypes, ClientOnlyInv
  <1> QED
    BY <1>1, <1>2

LEMMA KeybaseReadInv ==
  ASSUME BackedInv, CalmInv, KeybaseRead
  PROVE  BackedInv' /\ CalmInv'
  <1> TypeOK
    BY DEF BackedInv
  <1> DEFINE r == [NoClient EXCEPT !.pc = "got", !.todo = Inbox("receiver")]
  <1>1. /\ method = "keybase" /\ net' \subseteq net /\ Set("receiver", r)
        /\ UNCHANGED <<method, synced, ctx, entry, final, told, outs, posted, cmd, lost, faults>>
    BY DEF KeybaseRead, GetUnread, exchange, payerVars
  <1>2. Inbox("receiver") \subseteq net /\ "receiver" \in Clients
    BY DEF Inbox, Clients, Wallets
  <1>3. r \in ClientRecs /\ r.pc = "got" /\ r.cur = {} /\ r.todo = Inbox("receiver") /\ r.rec = 0
    BY <1>2, Types, ClientPcTypes, ZeroRec DEF ClientRecs, NoClient
  <1> HIDE DEF r
  <1>4. ClientOK("receiver", r, outs, final)
    BY <1>2, <1>3, ExchangeAssumption DEF ClientOK, BackedInv, Inbox
  <1>5. FinalOK' /\ \A m \in net' : MsgOK(m, outs')
    BY <1>1 DEF BackedInv, FinalOK
  <1>6. BackedInv'
    BY <1>1, <1>2, <1>3, <1>4, <1>5, ClientFrame, Types DEF BackedInv, TypeOK, ReceivedOnce
  <1> QED
    BY <1>1, <1>6, NotCalm

-----------------------------------------------------------------------------
(* The handlers. *)

\* A client that has handled a slate.
LEMMA HandledTypes ==
  ASSUME TypeOK, NEW c \in Clients, NEW m \in cl[c].todo \cup cl[c].cur, NEW r, r = Handled(c, m)
  PROVE  /\ r \in ClientRecs /\ r.todo \subseteq cl[c].todo /\ r.cur \subseteq {m}
         /\ r.pc \in {"ack", "off", "got"} /\ r.open = cl[c].open /\ r.rec = cl[c].rec
         /\ method = "epicbox" => r.pc = "ack" /\ r.cur = {m}
  <1>1. cl[c] \in ClientRecs /\ m \in Msgs /\ cl[c].todo \subseteq Msgs
    BY Types
  <1>2. CASE method = "epicbox"
    <2> DEFINE t == cl[c].todo \ {m}
               k == {m}
    <2>1. r = [cl[c] EXCEPT !.pc = "ack", !.todo = t, !.cur = k]
      BY <1>2 DEF Handled, Take
    <2>2. t \in SUBSET Msgs /\ t \subseteq cl[c].todo /\ k \in SUBSET Msgs /\ k = {m} /\ "ack" \in ClientPcs
      BY <1>1, ClientPcTypes
    <2> HIDE DEF t, k
    <2> QED
      BY <1>1, <1>2, <2>1, <2>2 DEF ClientRecs
  <1>3. CASE method # "epicbox"
    <2> DEFINE p == IF cl[c].todo \subseteq {m} THEN "off" ELSE "got"
    <2>1. p \in ClientPcs /\ p \in {"off", "got"}
      BY ClientPcTypes
    <2>2. r = [cl[c] EXCEPT !.pc = p, !.todo = @ \ {m}, !.cur = {}]
      BY <1>3 DEF Handled
    <2> HIDE DEF p
    <2> QED
      BY <1>1, <1>3, <2>1, <2>2 DEF ClientRecs
  <1> QED
    BY <1>2, <1>3

\* A client whose handler goes on.
LEMMA TakeTypes ==
  ASSUME TypeOK, NEW c \in Clients, NEW m \in cl[c].todo, NEW p \in {"answer", "post"},
         NEW r, r = Take(c, m, p)
  PROVE  /\ r \in ClientRecs /\ r.todo \subseteq cl[c].todo /\ r.cur = {m}
         /\ r.pc = p /\ r.open = cl[c].open /\ r.rec = cl[c].rec
  <1>1. cl[c] \in ClientRecs /\ m \in Msgs /\ cl[c].todo \subseteq Msgs
    BY Types
  <1>2. p \in ClientPcs
    BY ClientPcTypes
  <1> DEFINE t == cl[c].todo \ {m}
             k == {m}
  <1>3. r = [cl[c] EXCEPT !.pc = p, !.todo = t, !.cur = k]
    BY DEF Take
  <1>4. t \in SUBSET Msgs /\ t \subseteq cl[c].todo /\ k \in SUBSET Msgs /\ k = {m}
    BY <1>1
  <1> HIDE DEF t, k
  <1> QED
    BY <1>1, <1>2, <1>3, <1>4 DEF ClientRecs

LEMMA LoseTypes ==
  ASSUME TypeOK, NEW m \in Msgs, Lose(m)
  PROVE  lost' \subseteq Msgs /\ lost' \subseteq lost \cup {m} /\ (method # "epicbox" => lost' = lost)
  BY DEF TypeOK, Lose

\* What a client may be left with: slates it had, none of them answered or finalized anew.
LEMMA LeftOK ==
  ASSUME BackedInv, NEW c \in Clients, NEW r, NEW m \in cl[c].todo \cup cl[c].cur,
         r.todo \subseteq cl[c].todo, r.cur \subseteq {m}, r.rec = cl[c].rec, cl[c].pc # "dead",
         r.pc = "answer" => outs'[m.s] = 1, r.pc = "post" => m.s \in final',
         \A u \in Slates : outs[u] = 1 => outs'[u] = 1
  PROVE  ClientOK(c, r, outs', final')
  <1>1. \A k \in cl[c].todo \cup cl[c].cur : k.s \in Slates
    BY Types, MsgTypes DEF BackedInv
  <1>2. ClientOK(c, cl[c], outs, final)
    BY DEF BackedInv
  <1> QED
    BY <1>1, <1>2 DEF ClientOK, MsgOK

\* The wallet a slate under way belongs to.
LEMMA MineOnly ==
  ASSUME BackedInv, NEW c \in Clients, NEW m \in cl[c].todo \cup cl[c].cur
  PROVE  /\ m \in Msgs /\ m.s \in Slates /\ m.to = WalletOf(c)
         /\ m.signed => c # "receiver" /\ outs[m.s] = 1
         /\ ~m.signed => c = "receiver" /\ m = Offer(m.s)
  <1>1. m \in Msgs /\ m.s \in Slates /\ m.signed \in BOOLEAN
    BY Types, MsgTypes DEF BackedInv
  <1>2. MsgOK(m, outs) /\ m.to = WalletOf(c)
    BY DEF BackedInv, ClientOK
  <1>3. c \in {"payer", "receiver", "sender"}
    BY DEF Clients, Wallets
  <1>4. WalletOf("payer") = "payer" /\ WalletOf("receiver") = "receiver" /\ WalletOf("sender") = "payer"
    BY DEF WalletOf
  <1> QED
    BY <1>1, <1>2, <1>3, <1>4, OfferIs DEF MsgOK

LEMMA HandleNewInv ==
  ASSUME BackedInv, CalmInv, NEW c \in Clients, NEW m, HandleNew(c, m)
  PROVE  BackedInv' /\ CalmInv'
  <1> TypeOK /\ ReceivedOnce
    BY DEF BackedInv
  <1>1. /\ cl[c].pc = "got" /\ m \in cl[c].todo /\ ~m.signed
        /\ UNCHANGED <<method, synced, ctx, entry, final, told, posted, cmd, net>>
    BY DEF HandleNew, payerVars
  <1>2. c = "receiver" /\ m = Offer(m.s) /\ m \in Msgs /\ m.s \in Slates
    BY <1>1, MineOnly
  <1>3. CASE ReceiveTx(m.s) /\ Set(c, Take(c, m, "answer")) /\ UNCHANGED <<lost, faults>>
    <2> DEFINE r == Take(c, m, "answer")
    <2>1. /\ r \in ClientRecs /\ r.todo \subseteq cl[c].todo /\ r.cur = {m}
          /\ r.pc = "answer" /\ r.open = cl[c].open /\ r.rec = cl[c].rec
      BY <1>1, TakeTypes
    <2>2. Set(c, r)
      BY <1>3
    <2> HIDE DEF r
    <2>3. /\ outs' \in [Slates -> Nat] /\ ReceivedOnce'
          /\ outs[m.s] = 0 /\ outs'[m.s] = 1 /\ \A u \in Slates : u # m.s => outs'[u] = outs[u]
          /\ \A u \in Slates : outs[u] = 1 => outs'[u] = 1
      BY <1>2, <1>3, ReceiveTypes
    <2>4. ClientOK(c, r, outs', final')
      BY <1>1, <2>1, <2>3, LeftOK
    <2>5. FinalOK'
      BY <1>1, <2>3 DEF BackedInv, FinalOK, TypeOK
    <2>6. \A k \in net' : MsgOK(k, outs')
      BY <1>1, <2>3, NetKept
    <2>7. BackedInv'
      BY <1>1, <1>3, <2>1, <2>2, <2>3, <2>4, <2>5, <2>6, ClientFrame, Types DEF TypeOK
    <2>8. CASE Calm
      <3>1. cl'["receiver"] = r /\ cl["receiver"].open /\ m \in net
        BY <1>1, <1>2, <2>1, <2>2, <2>8, SetTypes DEF CalmInv
      <3>2. m.s \in ctx \cup entry
        BY <1>2, <2>8, <3>1 DEF CalmInv
      <3>3. ASSUME NEW u \in Slates, Offer(u) \in net, outs'[u] > 0 PROVE r.cur = {Offer(u)}
        <4>1. CASE u = m.s
          BY <1>2, <2>1, <4>1
        <4>2. CASE u # m.s
          BY <1>1, <1>2, <2>3, <2>8, <3>3, <4>2 DEF CalmInv
        <4> QED
          BY <4>1, <4>2
      <3>4. cmd.pc = "publish" => cmd.s # m.s
        BY <1>2, <2>8, <3>1 DEF CalmInv
      <3>5. \A u \in Slates : Offer(u) \in net \/ outs'[u] > 0 => u \in ctx \cup entry
        BY <2>3, <2>8, <3>2 DEF CalmInv
      <3>6. cmd.s \in Slates
        BY Types
      <3>7. faults' = faults /\ (Calm <=> Calm')
        BY <1>1, <1>3 DEF Calm
      <3>8. cmd.pc \in {"idle", "publish", "lock"} /\ (cmd.pc = "publish" =>
              cmd.s \in ctx \cup entry /\ outs'[cmd.s] = 0 /\ Offer(cmd.s) \notin net)
        BY <2>3, <2>8, <3>4, <3>6 DEF CalmInv
      <3>9. \A u \in ctx \ entry : cmd.s = u /\ cmd.pc # "idle"
        BY <2>8 DEF CalmInv
      <3>10. r.pc = "answer" /\ r.open
        BY <1>2, <2>1, <3>1
      <3>11. \A u \in Slates : Offer(u) \in net /\ outs'[u] > 0 => r.cur = {Offer(u)}
        BY <3>3
      <3>12. CalmInv'
        BY <1>1, <3>1, <3>5, <3>8, <3>9, <3>10, <3>11 DEF CalmInv
      <3> QED
        BY <2>7, <3>12
    <2>9. CASE ~Calm
      BY <1>1, <1>3, <2>7, <2>9, NotCalm
    <2> QED
      BY <2>7, <2>8, <2>9
  <1>4. CASE Set(c, Handled(c, m)) /\ Lose(m) /\ UNCHANGED outs /\ (Fault \/ (outs[m.s] > 0 /\ UNCHANGED faults))
    <2> DEFINE r == Handled(c, m)
    <2>1. /\ r \in ClientRecs /\ r.todo \subseteq cl[c].todo /\ r.cur \subseteq {m}
          /\ r.pc \in {"ack", "off", "got"} /\ r.open = cl[c].open /\ r.rec = cl[c].rec
      BY <1>1, HandledTypes
    <2>2. Set(c, r)
      BY <1>4
    <2> HIDE DEF r
    <2>3. faults' \in 0 .. MaxFaults /\ faults' \in {faults, faults + 1} /\ lost' \subseteq Msgs
      BY <1>2, <1>4, FaultTypes, LoseTypes
    <2>4. ClientOK(c, r, outs', final')
      BY <1>1, <1>4, <2>1, LeftOK
    <2>5. FinalOK' /\ ReceivedOnce' /\ \A k \in net' : MsgOK(k, outs')
      BY <1>1, <1>4 DEF BackedInv, FinalOK, ReceivedOnce
    <2>6. BackedInv'
      BY <1>1, <1>4, <2>1, <2>2, <2>3, <2>4, <2>5, ClientFrame, Types DEF TypeOK
    <2>7. Fault \/ ~Calm
      BY <1>1, <1>2, <1>4 DEF CalmInv
    <2>8. CalmInv'
      BY <1>1, <2>3, <2>7, NotCalm DEF Fault
    <2> QED
      BY <2>6, <2>8
  <1> QED
    BY <1>3, <1>4 DEF HandleNew

LEMMA SendAnswerInv ==
  ASSUME BackedInv, CalmInv, NEW c \in Clients, NEW m, SendAnswer(c, m)
  PROVE  BackedInv' /\ CalmInv'
  <1> TypeOK
    BY DEF BackedInv
  <1>1. /\ cl[c].pc = "answer" /\ m \in cl[c].cur /\ Set(c, Handled(c, m))
        /\ UNCHANGED <<method, synced, ctx, entry, final, told, outs, posted, cmd, lost>>
        /\ faults' = faults \/ (Fault /\ method # "epicbox")
        /\ net' = net \/ net' = net \cup {Answer(m.s)}
    BY DEF SendAnswer, exchange, payerVars, PostSlate, KeybaseSend, PutTx
  <1>2. m \in Msgs /\ m.s \in Slates /\ m.to = WalletOf(c) /\ outs[m.s] = 1
    <2>1. m \in Msgs /\ m.s \in Slates /\ m.to = WalletOf(c)
      BY <1>1, MineOnly
    <2> QED
      BY <1>1, <2>1 DEF BackedInv, ClientOK
  <1> DEFINE r == Handled(c, m)
  <1>3. /\ r \in ClientRecs /\ r.todo \subseteq cl[c].todo /\ r.cur \subseteq {m}
        /\ r.pc \in {"ack", "off", "got"} /\ r.open = cl[c].open /\ r.rec = cl[c].rec
        /\ method = "epicbox" => r.pc = "ack" /\ r.cur = {m}
    BY <1>1, HandledTypes
  <1>4. Set(c, r)
    BY <1>1
  <1> HIDE DEF r
  <1>5. faults' \in 0 .. MaxFaults /\ faults' \in {faults, faults + 1}
    BY <1>1, FaultTypes
  <1>6. Answer(m.s) \in Msgs /\ Answer(m.s).to = "payer" /\ Answer(m.s).signed /\ Answer(m.s).s = m.s
    BY <1>2, MsgTypes
  <1>7. net' \subseteq Msgs /\ \A k \in net' : MsgOK(k, outs')
    BY <1>1, <1>2, <1>6, Types DEF BackedInv, MsgOK
  <1>8. ClientOK(c, r, outs', final')
    BY <1>1, <1>3, LeftOK
  <1>9. FinalOK' /\ ReceivedOnce'
    BY <1>1 DEF BackedInv, FinalOK, ReceivedOnce
  <1>10. BackedInv'
    BY <1>1, <1>3, <1>4, <1>5, <1>7, <1>8, <1>9, ClientFrame, Types DEF TypeOK
  <1>11. \A k \in Msgs : k.to = "receiver" => (k \in net' <=> k \in net)
    BY <1>1, <1>6
  <1>12. CASE c # "receiver"
    BY <1>1, <1>3, <1>4, <1>5, <1>11, <1>12, CalmOther, <1>10
  <1>13. CASE ~Calm
    BY <1>1, <1>5, <1>10, <1>13, NotCalm
  <1>14. CASE c = "receiver" /\ Calm
    <2>1. method = "epicbox" /\ faults' = faults
      BY <1>1, <1>14 DEF Calm
    <2>2. cl'["receiver"] = r /\ r.pc = "ack" /\ r.open
      BY <1>1, <1>3, <1>4, <1>14, <2>1, SetTypes DEF CalmInv
    <2>3. \A u \in Slates : Offer(u) \in net' <=> Offer(u) \in net
      BY <1>11, MsgTypes
    <2>4. ASSUME NEW u \in Slates, Offer(u) \in net, outs[u] > 0 PROVE r.cur = {Offer(u)}
      <3>1. cl["receiver"].cur = {Offer(u)}
        BY <1>14, <2>4 DEF CalmInv
      <3> QED
        BY <1>1, <1>3, <1>14, <2>1, <3>1
    <2>5. cmd.s \in Slates
      BY Types
    <2>6. CalmInv'
      BY <1>1, <1>14, <2>1, <2>2, <2>3, <2>4, <2>5 DEF CalmInv
    <2> QED
      BY <1>10, <2>6
  <1> QED
    BY <1>12, <1>13, <1>14

LEMMA HandleSignedInv ==
  ASSUME BackedInv, CalmInv, NEW c \in Clients, NEW m, HandleSigned(c, m)
  PROVE  BackedInv' /\ CalmInv'
  <1> TypeOK
    BY DEF BackedInv
  <1>1. /\ cl[c].pc = "got" /\ m \in cl[c].todo /\ m.signed
        /\ UNCHANGED <<method, synced, entry, told, outs, posted, cmd, net>>
    BY DEF HandleSigned
  <1>2. c # "receiver" /\ m \in Msgs /\ m.s \in Slates /\ outs[m.s] = 1
    BY <1>1, MineOnly
  <1>3. ReceivedOnce' /\ outs' \in [Slates -> Nat] /\ \A k \in net' : MsgOK(k, outs')
    BY <1>1 DEF BackedInv, ReceivedOnce, TypeOK
  <1>4. CASE FinalizeTx(m.s) /\ Set(c, Take(c, m, "post")) /\ UNCHANGED <<lost, faults>>
    <2> DEFINE r == Take(c, m, "post")
    <2>1. /\ r \in ClientRecs /\ r.todo \subseteq cl[c].todo /\ r.cur = {m}
          /\ r.pc = "post" /\ r.open = cl[c].open /\ r.rec = cl[c].rec
      BY <1>1, TakeTypes
    <2>2. Set(c, r)
      BY <1>4
    <2> HIDE DEF r
    <2>3. m.s \in entry /\ final' = final \cup {m.s} /\ ctx' = ctx \ {m.s}
      BY <1>4 DEF FinalizeTx, Finalizable
    <2>4. ClientOK(c, r, outs', final')
      BY <1>1, <2>1, <2>3, LeftOK
    <2>5. FinalOK'
      BY <1>1, <1>2, <2>3 DEF BackedInv, FinalOK
    <2>6. BackedInv'
      BY <1>1, <1>2, <1>3, <1>4, <2>1, <2>2, <2>3, <2>4, <2>5, ClientFrame, Types DEF TypeOK
    <2>7. CalmInv'
      BY <1>1, <1>2, <1>4, <2>1, <2>2, <2>3, CalmOther
    <2> QED
      BY <2>6, <2>7
  <1>5. CASE Set(c, Handled(c, m)) /\ Lose(m) /\ UNCHANGED <<ctx, final>> /\ (Fault \/ UNCHANGED faults)
    <2> DEFINE r == Handled(c, m)
    <2>1. /\ r \in ClientRecs /\ r.todo \subseteq cl[c].todo /\ r.cur \subseteq {m}
          /\ r.pc \in {"ack", "off", "got"} /\ r.open = cl[c].open /\ r.rec = cl[c].rec
      BY <1>1, HandledTypes
    <2>2. Set(c, r)
      BY <1>5
    <2> HIDE DEF r
    <2>3. faults' \in 0 .. MaxFaults /\ faults' \in {faults, faults + 1} /\ lost' \subseteq Msgs
      BY <1>2, <1>5, FaultTypes, LoseTypes
    <2>4. ClientOK(c, r, outs', final')
      BY <1>1, <2>1, LeftOK
    <2>5. FinalOK'
      BY <1>1, <1>5 DEF BackedInv, FinalOK
    <2>6. BackedInv'
      BY <1>1, <1>3, <1>5, <2>1, <2>2, <2>3, <2>4, <2>5, ClientFrame, Types DEF TypeOK
    <2>7. CalmInv'
      BY <1>1, <1>2, <1>5, <2>1, <2>2, <2>3, CalmOther
    <2> QED
      BY <2>6, <2>7
  <1> QED
    BY <1>4, <1>5 DEF HandleSigned

LEMMA PostFinalInv ==
  ASSUME BackedInv, CalmInv, NEW c \in Clients, NEW m, PostFinal(c, m)
  PROVE  BackedInv' /\ CalmInv'
  <1> TypeOK
    BY DEF BackedInv
  <1>1. /\ cl[c].pc = "post" /\ m \in cl[c].cur /\ Set(c, Handled(c, m))
        /\ UNCHANGED <<method, synced, ctx, entry, final, told, outs, cmd, net>>
        /\ \/ posted' = posted \cup {m.s} /\ UNCHANGED <<lost, faults>>
           \/ Fault /\ Lose(m) /\ UNCHANGED posted
    BY DEF PostFinal, payerVars
  <1>2. m \in Msgs /\ m.s \in Slates
    BY <1>1, MineOnly
  <1>3. m.s \in final
    BY <1>1 DEF BackedInv, ClientOK
  <1> DEFINE r == Handled(c, m)
  <1>4. /\ r \in ClientRecs /\ r.todo \subseteq cl[c].todo /\ r.cur \subseteq {m}
        /\ r.pc \in {"ack", "off", "got"} /\ r.open = cl[c].open /\ r.rec = cl[c].rec
        /\ method = "epicbox" => r.pc = "ack"
    BY <1>1, HandledTypes
  <1>5. Set(c, r)
    BY <1>1
  <1> HIDE DEF r
  <1>6. faults' \in 0 .. MaxFaults /\ faults' \in {faults, faults + 1} /\ lost' \subseteq Msgs
    <2>1. faults' = faults \/ Fault
      BY <1>1
    <2>2. lost' = lost \/ Lose(m)
      BY <1>1
    <2>3. lost \subseteq Msgs
      BY DEF TypeOK
    <2> QED
      BY <1>2, <2>1, <2>2, <2>3, FaultTypes, LoseTypes
  <1>7. ClientOK(c, r, outs', final')
    BY <1>1, <1>4, LeftOK
  <1>8. FinalOK' /\ posted' \subseteq Slates
    BY <1>1, <1>2, <1>3 DEF BackedInv, FinalOK, TypeOK
  <1>9. ReceivedOnce' /\ \A k \in net' : MsgOK(k, outs')
    BY <1>1 DEF BackedInv, ReceivedOnce
  <1>10. BackedInv'
    BY <1>1, <1>4, <1>5, <1>6, <1>7, <1>8, <1>9, ClientFrame, Types DEF TypeOK
  <1>11. CalmInv'
    <2>1. CASE c # "receiver"
      BY <1>1, <1>4, <1>5, <1>6, <2>1, CalmOther
    <2>2. CASE ~Calm
      BY <1>1, <1>6, <2>2, NotCalm
    <2>3. CASE c = "receiver" /\ Calm
      <3>1. r.pc = "ack" /\ r.open
        BY <1>1, <1>4, <2>3 DEF CalmInv, Calm
      <3> QED
        BY <1>1, <1>4, <1>5, <1>6, <2>3, <3>1, CalmReceiver
    <2> QED
      BY <2>1, <2>2, <2>3
  <1> QED
    BY <1>10, <1>11

LEMMA AcknowledgeInv ==
  ASSUME BackedInv, CalmInv, NEW c \in Clients, NEW m, Acknowledge(c, m)
  PROVE  BackedInv' /\ CalmInv'
  <1> TypeOK
    BY DEF BackedInv
  <1>1. /\ cl[c].pc = "ack" /\ m \in cl[c].cur
        /\ UNCHANGED <<method, synced, ctx, entry, final, told, outs, posted, cmd, lost>>
    BY DEF Acknowledge, exchange, payerVars
  <1>2. m \in Msgs /\ m.to = WalletOf(c) /\ cl[c].rec < ReconnectLimit
    BY <1>1, MineOnly DEF BackedInv, ClientOK
  <1>3. net' \in {net, net \ {m}} /\ (faults' = faults \/ Fault)
    BY DEF Acknowledge, Made
  <1>4. faults' \in 0 .. MaxFaults /\ faults' \in {faults, faults + 1}
    BY <1>3, FaultTypes
  <1>5. net' \subseteq Msgs /\ \A k \in net' : MsgOK(k, outs')
    BY <1>1, <1>3, Types DEF BackedInv
  <1>6. FinalOK' /\ ReceivedOnce'
    BY <1>1 DEF BackedInv, FinalOK, ReceivedOnce
  <1>7. PICK r \in ClientRecs : /\ Set(c, r) /\ r.todo \subseteq cl[c].todo /\ r.cur = {}
                                /\ r.pc \in {"loop", "off"} /\ r.rec < ReconnectLimit
                                /\ r.pc = "loop" => r.open
                                /\ r.pc = "off" => ~cl[c].open
                                /\ r.pc = "loop" => faults' = faults + 1 \/ net' = net \ {m}
    <2>1. CASE cl[c].open
      <3> DEFINE r == [cl[c] EXCEPT !.pc = "loop", !.cur = {}]
      <3>1. Set(c, r) /\ (faults' = faults + 1 \/ net' = net \ {m})
        BY <2>1 DEF Acknowledge, Made, Fault
      <3>2. r \in ClientRecs /\ r.todo = cl[c].todo /\ r.cur = {} /\ r.pc = "loop" /\ r.rec = cl[c].rec
            /\ r.open = cl[c].open
        BY Types, ClientPcTypes DEF ClientRecs
      <3> HIDE DEF r
      <3> QED
        BY <1>2, <2>1, <3>1, <3>2
    <2>2. CASE ~cl[c].open
      <3>1. Set(c, NoClient)
        BY <2>2 DEF Acknowledge
      <3> QED
        BY <2>2, <3>1, ClientTypes, ZeroRec
    <2> QED
      BY <2>1, <2>2
  <1>8. ClientOK(c, r, outs', final')
    BY <1>1, <1>7 DEF BackedInv, ClientOK
  <1>9. BackedInv'
    BY <1>1, <1>4, <1>5, <1>6, <1>7, <1>8, ClientFrame, Types DEF TypeOK
  <1>10. CASE c # "receiver"
    <2>1. m.to # "receiver"
      BY <1>2, <1>10 DEF WalletOf
    <2> QED
      BY <1>1, <1>3, <1>4, <1>7, <1>9, <1>10, <2>1, CalmOther
  <1>11. CASE ~Calm \/ faults' = faults + 1
    BY <1>1, <1>4, <1>9, <1>11, NotCalm
  <1>12. CASE c = "receiver" /\ Calm /\ faults' # faults + 1
    <2>1. cl'["receiver"] = r /\ r.pc = "loop" /\ r.open /\ net' = net \ {m} /\ faults' = faults
      BY <1>1, <1>4, <1>7, <1>12, SetTypes DEF CalmInv
    <2>2. \A u \in Slates : ~(Offer(u) \in net' /\ outs[u] > 0)
      BY <1>1, <1>12, <2>1 DEF CalmInv
    <2>3. \A u \in Slates : Offer(u) \in net' => Offer(u) \in net
      BY <2>1
    <2>4. cmd.s \in Slates
      BY Types
    <2>5. CalmInv'
      BY <1>1, <1>12, <2>1, <2>2, <2>3, <2>4 DEF CalmInv
    <2> QED
      BY <1>9, <2>5
  <1> QED
    BY <1>10, <1>11, <1>12

-----------------------------------------------------------------------------
(* The specification. *)

LEMMA SyncInv ==
  ASSUME BackedInv, CalmInv,
         UNCHANGED <<method, ctx, entry, final, told, outs, posted, cmd, net, cl, lost>>,
         faults' = faults \/ Fault, synced' \in BOOLEAN
  PROVE  BackedInv' /\ CalmInv'
  <1> TypeOK
    BY DEF BackedInv
  <1>1. faults' \in 0 .. MaxFaults /\ faults' \in {faults, faults + 1}
    BY FaultTypes
  <1>2. TypeOK'
    BY <1>1 DEF TypeOK
  <1>3. CmdOK' /\ FinalOK' /\ ReceivedOnce'
    BY DEF BackedInv, CmdOK, FinalOK, ReceivedOnce
  <1>4. BackedInv'
    BY <1>2, <1>3 DEF BackedInv
  <1>5. CalmInv'
    <2>1. CASE faults' = faults
      BY <2>1 DEF CalmInv, Calm
    <2>2. CASE faults' = faults + 1
      BY <1>1, <2>2, NotCalm
    <2> QED
      BY <1>1, <2>1, <2>2
  <1> QED
    BY <1>4, <1>5

LEMMA InitInv == Init => BackedInv /\ CalmInv
  <1> SUFFICES ASSUME Init PROVE BackedInv /\ CalmInv
    OBVIOUS
  <1>1. cmd.pc = "idle" /\ cmd \in CmdRecs
    BY ExchangeAssumption, CmdPcTypes DEF Init, CmdRecs
  <1>2. \A c \in Clients : cl[c] = NoClient
    BY DEF Init
  <1>3. cl \in [Clients -> ClientRecs]
    BY ClientTypes DEF Init
  <1>4. 0 \in 0 .. MaxFaults
    BY ExchangeAssumption
  <1>5. TypeOK
    BY <1>1, <1>3, <1>4 DEF Init, TypeOK, CmdRecs, ClientRecs
  <1>6. "receiver" \in Clients
    BY DEF Clients, Wallets
  <1>7. BackedInv
    BY <1>1, <1>2, <1>5, ClientTypes, ZeroRec DEF Init, BackedInv, ReceivedOnce, ClientOK, CmdOK, FinalOK
  <1>8. CalmInv
    BY <1>1, <1>2, <1>6, ClientTypes DEF Init, CalmInv
  <1> QED
    BY <1>7, <1>8

LEMMA NextInv == BackedInv /\ CalmInv /\ [Next]_vars => BackedInv' /\ CalmInv'
  <1> SUFFICES ASSUME BackedInv, CalmInv, [Next]_vars PROVE BackedInv' /\ CalmInv'
    OBVIOUS
  <1> USE DEF payerVars
  <1>1. CASE \E s \in Slates : SendInit(s)
    BY <1>1, SendInitInv
  <1>2. CASE SendStep
    BY <1>2, PublishInv, PublishFileInv, HttpRequestInv, HttpAnswerInv, KeybaseRequestInv, PollHitInv,
       CmdEndsInv, LockInv, SelfReceiveInv, CmdFinalizeInv, CmdPostInv DEF SendStep
  <1>3. CASE SendFails \/ CmdCrash
    BY <1>3, CmdEndsInv
  <1>4. CASE \E m \in net : Explode(m)
    BY <1>4, ExplodeInv
  <1>5. ASSUME NEW c \in Clients, ClientStep(c) PROVE BackedInv' /\ CalmInv'
    BY <1>5, ConnectInv, ReadInv, HandleNewInv, SendAnswerInv, HandleSignedInv, PostFinalInv, AcknowledgeInv
       DEF ClientStep
  <1>6. ASSUME NEW c \in Clients, ReadFails(c) \/ ClientCrash(c) PROVE BackedInv' /\ CalmInv'
    BY <1>6, CrashInv
  <1>7. CASE ReceiveCommand \/ FinalizeCommand
    BY <1>7, FileInv
  <1>8. CASE KeybaseRead
    BY <1>8, KeybaseReadInv
  <1>9. CASE OnPing
    BY <1>9, PingInv
  <1>10. CASE SyncLost \/ SyncBack
    BY <1>10, SyncInv DEF SyncLost, SyncBack
  <1>11. CASE UNCHANGED vars
    BY <1>11, SyncInv DEF vars, BackedInv, TypeOK
  <1> QED
    BY <1>1, <1>2, <1>3, <1>4, <1>5, <1>6, <1>7, <1>8, <1>9, <1>10, <1>11 DEF Next

LEMMA ExchangeAlways == Spec => [](BackedInv /\ CalmInv)
  BY InitInv, NextInv, PTL DEF Spec

\* The slates that travel, the clients and the send command keep their types; in particular no
\* listener counts more than ReconnectLimit failed connections.
THEOREM ExchangeTypes == Spec => []TypeOK
  <1>1. BackedInv => TypeOK
    BY DEF BackedInv
  <1> QED
    BY <1>1, ExchangeAlways, PTL

\* finalize_tx and post_tx of the send command, of the finalize command and of the epicbox handler:
\* whatever overtakes what, a posted transaction is finalized, its inputs are locked and the receiver
\* has its one output, for any number of payments, any method and any number of faults.
THEOREM PostedBacked == Spec => []PostedIsBacked
  <1>1. BackedInv => PostedIsBacked
    BY DEF BackedInv, FinalOK, PostedIsBacked
  <1> QED
    BY <1>1, ExchangeAlways, PTL

\* receive_tx makes one output for a slate however often it is delivered.
THEOREM OutputOnce == Spec => []ReceivedOnce
  <1>1. BackedInv => ReceivedOnce
    BY DEF BackedInv
  <1> QED
    BY <1>1, ExchangeAlways, PTL

\* Only the handlers of slates lose one.
LEMMA WhoLoses ==
  ASSUME Next, lost' # lost
  PROVE  \E c \in Clients : \E m \in cl[c].todo \cup cl[c].cur :
            HandleNew(c, m) \/ HandleSigned(c, m) \/ PostFinal(c, m)
  <1> USE DEF payerVars, exchange
  <1>1. \A s \in Slates : ~SendInit(s)
    BY DEF SendInit
  <1>2. ~SendStep
    BY DEF SendStep, Publish, PublishFile, HttpRequest, HttpAnswer, KeybaseRequest, PollHit,
           PollTimeout, LockOutputs, SelfReceive, CmdFinalize, CmdPost
  <1>3. ~SendFails /\ ~CmdCrash /\ \A m \in net : ~Explode(m)
    BY DEF SendFails, CmdCrash, Explode
  <1>4. \A c \in Clients : ~ReadFails(c) /\ ~ClientCrash(c) /\ ~Connect(c) /\ ~StartRead(c)
                           /\ ~OnChallenge(c) /\ ~OnSlate(c)
    BY DEF ReadFails, ClientCrash, Connect, StartRead, OnChallenge, OnSlate
  <1>5. \A c, m : ~SendAnswer(c, m) /\ ~Acknowledge(c, m)
    BY DEF SendAnswer, Acknowledge
  <1>6. ~ReceiveCommand /\ ~FinalizeCommand /\ ~KeybaseRead /\ ~OnPing /\ ~SyncLost /\ ~SyncBack
    BY DEF ReceiveCommand, FinalizeCommand, ReadFile, KeybaseRead, OnPing, SyncLost, SyncBack
  <1>7. PICK c \in Clients : ClientStep(c)
    BY <1>1, <1>2, <1>3, <1>4, <1>6 DEF Next
  <1> QED
    BY <1>4, <1>5, <1>7 DEF ClientStep

\* An answer that is lost is one of a finalized slate, or of the slate that the send command is
\* about to lock.
LEMMA LostEarly ==
  ASSUME BackedInv, CalmInv, Next, NEW m \in lost' \ lost, faults' = 0
  PROVE  m.signed /\ (m.s \in final \/ (cmd.pc = "lock" /\ cmd.s = m.s))
  <1> TypeOK
    BY DEF BackedInv
  <1>0. PICK c \in Clients : \E k \in cl[c].todo \cup cl[c].cur :
            HandleNew(c, k) \/ HandleSigned(c, k) \/ PostFinal(c, k)
    BY WhoLoses
  <1>1. PICK k \in cl[c].todo \cup cl[c].cur : HandleNew(c, k) \/ HandleSigned(c, k) \/ PostFinal(c, k)
    BY <1>0
  <1>2. ~Fault
    BY Types DEF Fault
  <1>3. lost' # lost /\ k \in Msgs
    BY <1>1, MineOnly
  <1>4. ~PostFinal(c, k)
    BY <1>2, <1>3 DEF PostFinal
  <1>5. CASE HandleNew(c, k)
    <2>1. cl[c].pc = "got" /\ k \in cl[c].todo /\ ~k.signed /\ outs[k.s] > 0 /\ Lose(k) /\ faults' = faults
      BY <1>2, <1>3, <1>5 DEF HandleNew
    <2>2. Calm
      BY <1>3, <2>1, LoseTypes DEF Calm
    <2>3. c = "receiver" /\ k = Offer(k.s) /\ k.s \in Slates
      BY <2>1, MineOnly
    <2> QED
      BY <2>1, <2>2, <2>3 DEF CalmInv
  <1>6. CASE HandleSigned(c, k)
    <2>1. cl[c].pc = "got" /\ k \in cl[c].todo /\ k.signed /\ ~Finalizable(k.s) /\ Lose(k) /\ faults' = faults
      BY <1>2, <1>3, <1>6 DEF HandleSigned
    <2>2. Calm /\ m = k
      BY <1>3, <2>1, LoseTypes DEF Calm
    <2>3. outs[k.s] = 1 /\ k.s \in Slates
      BY <2>1, MineOnly
    <2>4. k.s \in ctx \cup entry
      BY <2>2, <2>3 DEF CalmInv
    <2>5. CASE k.s \in entry
      BY <2>1, <2>2, <2>5 DEF Finalizable, BackedInv, FinalOK
    <2>6. CASE k.s \in ctx \ entry
      BY <2>1, <2>2, <2>3, <2>6 DEF CalmInv
    <2> QED
      BY <2>4, <2>5, <2>6
  <1> QED
    BY <1>1, <1>4, <1>5, <1>6

\* While nothing fails, the epicbox handlers acknowledge a slate they could not handle only if it is an
\* answer that was faster than tx_lock_outputs of the payer's own send command.
THEOREM EarlyAnswers == Spec => OnlyEarlyAnswerLost
  <1>1. (BackedInv /\ CalmInv) /\ [Next]_vars =>
          [\A m \in lost' \ lost :
              faults' = 0 => /\ m.signed
                             /\ m.s \in final \/ (cmd.pc = "lock" /\ cmd.s = m.s)]_vars
    BY LostEarly DEF vars
  <1> QED
    BY <1>1, ExchangeAlways, PTL DEF Spec, OnlyEarlyAnswerLost

=============================================================================
