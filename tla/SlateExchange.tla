--------------------------- MODULE SlateExchange ---------------------------
(***************************************************************************)
(* How a payment travels between two wallets: the payer's send command      *)
(* (controller/src/command.rs), the adapters of impls/src/adapters (epicbox, *)
(* keybase, http, file and emoji, self) and the listeners that answer and   *)
(* finalize slates.  Of the two wallets only what decides the fate of a      *)
(* slate is kept: the payer's private context, its log entry with the locked *)
(* inputs, the finalized transaction, and the outputs the receiver made.     *)
(***************************************************************************)
EXTENDS Naturals, FiniteSets

CONSTANTS
    Slates,         \* the payments the payer's user makes
    Methods,        \* the methods of the send command that are explored
    MaxFaults,      \* bound on crashes, lost connections, failed calls
    ReconnectLimit  \* listen gives up after this many failures (5 in the code)

Wallets == {"payer", "receiver"}
\* The threads that read slates: the two wallets' listeners (or one-shot receive and
\* finalize commands), and the subscriber thread that an epicbox send starts.
Clients == Wallets \cup {"sender"}
AllMethods == {"epicbox", "keybase", "http", "file", "self"}

ASSUME ExchangeAssumption ==
    /\ IsFiniteSet(Slates) /\ Slates # {}
    /\ Methods \subseteq AllMethods /\ Methods # {}
    /\ MaxFaults \in Nat
    /\ ReconnectLimit \in Nat \ {0}

VARIABLES
    method,   \* --method of the send commands
    synced,   \* is_node_synced, shared by all threads
    ctx,      \* payer: slates with a private context
    entry,    \* payer: slates with a log entry and locked inputs
    final,    \* payer: slates that are finalized and stored
    outs,     \* receiver: how many outputs it made for a slate
    posted,   \* slates whose transaction was posted to the node
    told,     \* what the send command told its user
    cmd,      \* the running send command
    net,      \* slates in transit: at the epicbox server, unread in keybase, in files
    cl,       \* the clients
    lost,     \* history: slates acknowledged although their handler failed
    faults

payerVars == <<ctx, entry, final, told>>
vars == <<method, synced, ctx, entry, final, outs, posted, told, cmd, net, cl, lost, faults>>

Msgs == [to : Wallets, s : Slates, signed : BOOLEAN]
Offer(s) == [to |-> "receiver", s |-> s, signed |-> FALSE]
Answer(s) == [to |-> "payer", s |-> s, signed |-> TRUE]

NoClient == [pc |-> "off", open |-> FALSE, sub |-> FALSE, todo |-> {}, cur |-> {}, rec |-> 0]
ClientPcs == {"off", "loop", "read", "got", "answer", "post", "ack", "dead"}
CmdPcs == {"idle", "request", "publish", "poll", "http", "lock", "self", "finalize", "post"}

TypeOK ==
    /\ method \in Methods /\ synced \in BOOLEAN
    /\ ctx \subseteq Slates /\ entry \subseteq Slates /\ final \subseteq Slates
    /\ outs \in [Slates -> Nat]
    /\ posted \subseteq Slates
    /\ told \in [Slates -> {"none", "ok", "failed", "unsent"}]
    /\ cmd \in [pc : CmdPcs, want : Slates, s : Slates]
    /\ net \subseteq Msgs
    /\ cl \in [Clients -> [pc : ClientPcs, open : BOOLEAN, sub : BOOLEAN,
                           todo : SUBSET Msgs, cur : SUBSET Msgs,
                           rec : 0 .. ReconnectLimit]]
    /\ lost \subseteq Msgs
    /\ faults \in 0 .. MaxFaults

Init ==
    /\ method \in Methods
    /\ synced = FALSE
    /\ ctx = {} /\ entry = {} /\ final = {} /\ posted = {} /\ net = {} /\ lost = {}
    /\ outs = [s \in Slates |-> 0]
    /\ told = [s \in Slates |-> "none"]
    /\ LET s == CHOOSE s \in Slates : TRUE IN cmd = [pc |-> "idle", want |-> s, s |-> s]
    /\ cl = [c \in Clients |-> NoClient]
    /\ faults = 0

Fault == faults < MaxFaults /\ faults' = faults + 1
WalletOf(c) == IF c = "sender" THEN "payer" ELSE c

-----------------------------------------------------------------------------
(* The payer's send command. *)

Tell(s, what) == told' = [told EXCEPT ![s] = what]
Goto(p) == cmd' = [cmd EXCEPT !.pc = p]
\* The command ends; with its process end the threads it started.
Exit(what) ==
    /\ Tell(cmd.want, what)
    /\ Goto("idle")
    /\ cl' = [cl EXCEPT !["sender"] = NoClient]

\* start_epicbox connects and starts the subscriber thread before the slate is published.
StartEpicbox == [NoClient EXCEPT !.pc = "loop", !.open = TRUE]

\* init_send_tx, which saves the private context of a new slate, then the method.
SendInit(s) ==
    /\ cmd.pc = "idle" /\ told[s] = "none" /\ s \notin ctx \cup entry
    /\ ctx' = ctx \cup {s}
    /\ cmd' = [pc |-> CASE method = "self" -> "lock"
                        [] method \in {"epicbox", "file"} -> "publish"
                        [] OTHER -> "request",
               want |-> s, s |-> s]
    /\ cl' = [cl EXCEPT !["sender"] = IF method = "epicbox" THEN StartEpicbox ELSE @]
    /\ UNCHANGED <<method, synced, entry, final, outs, posted, told, net, lost, faults>>

\* A slate is on its way: EpicboxBroker::post_slate, keybase's send, PathToSlate::put_tx.
PostSlate(m) == net' = net \cup {m}
KeybaseSend(m) == net' = net \cup {m}
PutTx(m) == net' = net \cup {m}

\* EpicboxPublisher::post_slate closes the connection behind the published slate.
CloseSender ==
    cl' = [cl EXCEPT !["sender"] =
              IF @.pc = "loop" THEN NoClient ELSE [@ EXCEPT !.open = FALSE, !.sub = FALSE]]

\* EpicboxChannel::send.  The socket's mutex is held by the subscriber thread for as long
\* as it is blocked reading.
Publish ==
    /\ cmd.pc = "publish" /\ method = "epicbox" /\ cl["sender"].pc # "read"
    /\ PostSlate(Offer(cmd.s))
    /\ CloseSender
    /\ Goto("lock")
    /\ UNCHANGED <<method, synced, payerVars, outs, posted, lost, faults>>

\* "file" and "emoji" put the slate where the receiver can read it.
PublishFile ==
    /\ cmd.pc = "publish" /\ method = "file"
    /\ PutTx(Offer(cmd.s))
    /\ Goto("lock")
    /\ UNCHANGED <<method, synced, payerVars, outs, posted, cl, lost, faults>>

\* HttpSlateSender::send_tx refuses while the node is not synced; otherwise the version
\* check and the receive_tx request go out.
HttpRequest ==
    /\ cmd.pc = "request" /\ method = "http"
    /\ \/ ~synced /\ Exit("failed")
       \/ synced /\ Goto("http") /\ UNCHANGED <<told, cl>>
    /\ UNCHANGED <<method, synced, ctx, entry, final, outs, posted, net, lost, faults>>

\* KeybaseChannel::send_tx sends the slate and polls for an answer.
KeybaseRequest ==
    /\ cmd.pc = "request" /\ method = "keybase"
    /\ KeybaseSend(Offer(cmd.s))
    /\ Goto("poll")
    /\ UNCHANGED <<method, synced, payerVars, outs, posted, cl, lost, faults>>

\* Mutant: the same slate is received again.
ReceiveTxAgain(s) == outs' = [outs EXCEPT ![s] = @ + 1]

\* foreign::receive_tx in the receiver: TransactionAlreadyReceived, or one more output.
ReceiveTx(s) == outs[s] = 0 /\ outs' = [outs EXCEPT ![s] = @ + 1]

\* The receiver's listener answers the request, in time or not.
HttpAnswer ==
    /\ cmd.pc = "http"
    /\ ReceiveTx(cmd.s)
    /\ \/ Goto("lock") /\ UNCHANGED <<told, cl, faults>>
       \/ Fault /\ Exit("failed")
    /\ UNCHANGED <<method, synced, ctx, entry, final, posted, net, lost>>

\* Any of the sends may fail before the receiver has the slate: no connection, an
\* incompatible wallet, keybase not running, a file that cannot be written.
SendFails ==
    /\ cmd.pc \in {"request", "http", "publish"}
    /\ Fault /\ Exit("failed")
    /\ UNCHANGED <<method, synced, ctx, entry, final, outs, posted, net, lost>>

\* read_from_channel and get_unread return what is unread and mark it as read.
ReadFromChannel == net' = {m \in net : m.to # "payer"}
GetUnread == net' = {m \in net : m.to # "receiver"}

\* poll: the first valid slate in the channel is the answer, whichever slate it is.
PollHit ==
    /\ cmd.pc = "poll"
    /\ \E m \in net :
          /\ m.to = "payer"
          /\ cmd' = [cmd EXCEPT !.pc = "lock", !.s = m.s]
    /\ ReadFromChannel
    /\ UNCHANGED <<method, synced, payerVars, outs, posted, cl, lost, faults>>

PollTimeout ==
    /\ cmd.pc = "poll"
    /\ Exit("failed")
    /\ UNCHANGED <<method, synced, ctx, entry, final, outs, posted, net, lost, faults>>

\* Keybase messages destroy themselves after TTL seconds.
Explode(m) ==
    /\ method = "keybase" /\ m \in net
    /\ net' = net \ {m}
    /\ UNCHANGED <<method, synced, payerVars, outs, posted, cmd, cl, lost, faults>>

\* tx_lock_outputs, with the context of the slate it is given.
LockOutputs ==
    /\ cmd.pc = "lock" /\ cmd.s \in ctx
    /\ entry' = entry \cup {cmd.s}
    /\ \/ method \in {"epicbox", "file"} /\ Exit("ok")
       \/ method = "self" /\ Goto("self") /\ UNCHANGED <<told, cl>>
       \/ method \in {"http", "keybase"} /\ Goto("finalize") /\ UNCHANGED <<told, cl>>
    /\ UNCHANGED <<method, synced, ctx, final, outs, posted, net, lost, faults>>

SelfReceive ==
    /\ cmd.pc = "self"
    /\ ReceiveTx(cmd.s)
    /\ Goto("finalize")
    /\ UNCHANGED <<method, synced, payerVars, posted, net, cl, lost, faults>>

\* Mutants: an answer is finalized before the outputs are locked; the context is kept.
FinalizableUnlocked(s) == s \in ctx

\* owner::finalize_tx: the context, then the log entry (update_stored_tx) must exist.
Finalizable(s) == s \in ctx /\ s \in entry
FinalizeTx(s) ==
    /\ Finalizable(s)
    /\ final' = final \cup {s}
    /\ ctx' = ctx \ {s}

CmdFinalize ==
    /\ cmd.pc = "finalize"
    /\ FinalizeTx(cmd.s)
    /\ Goto("post")
    /\ UNCHANGED <<method, synced, entry, outs, posted, told, net, cl, lost, faults>>

\* post_tx, and the wait for the mempool that follows it, which changes nothing here.
CmdPost ==
    /\ cmd.pc = "post"
    /\ \/ posted' = posted \cup {cmd.s} /\ Exit("ok") /\ UNCHANGED faults
       \/ Fault /\ Exit("unsent") /\ UNCHANGED posted
    /\ UNCHANGED <<method, synced, ctx, entry, final, outs, net, lost>>

\* The user stops the command, or the process dies.
CmdCrash ==
    /\ cmd.pc # "idle" /\ Fault
    /\ Exit(told[cmd.want])
    /\ UNCHANGED <<method, synced, ctx, entry, final, outs, posted, net, lost>>

-----------------------------------------------------------------------------
(* The clients: epicbox listeners, the epicbox send's subscriber thread,     *)
(* keybase listeners, and the receive and finalize commands.                  *)

Set(c, r) == cl' = [cl EXCEPT ![c] = r]

\* The connection of c is gone: the listen loop counts it and connects again, until the
\* limit; the subscriber thread of a send ends (or panics).
Drop(c, failed) ==
    LET n == IF failed THEN cl[c].rec + 1 ELSE cl[c].rec
    IN Set(c, [NoClient EXCEPT !.rec = IF c = "sender" THEN 0 ELSE n,
                               !.pc = IF c # "sender" /\ n >= ReconnectLimit
                                      THEN "dead" ELSE "off"])

Inbox(c) == {m \in net : m.to = WalletOf(c)}
exchange == <<method, synced, payerVars, outs, posted, cmd, lost>>

\* EpicboxListenChannel::listen connects.
Connect(c) ==
    /\ method = "epicbox" /\ c # "sender" /\ cl[c].pc = "off"
    /\ \/ Set(c, [cl[c] EXCEPT !.pc = "loop", !.open = TRUE]) /\ UNCHANGED faults
       \/ Fault /\ Drop(c, TRUE)
    /\ UNCHANGED <<exchange, net>>

\* The top of the subscribe loop: nothing is read while the node is not synced.
StartRead(c) ==
    /\ method = "epicbox" /\ cl[c].pc = "loop" /\ synced
    /\ Set(c, [cl[c] EXCEPT !.pc = "read"])
    /\ UNCHANGED <<exchange, net, faults>>

\* The server greets with a challenge; the client answers with its details and a
\* subscription.
OnChallenge(c) ==
    /\ method = "epicbox" /\ cl[c].pc = "read" /\ cl[c].open /\ ~cl[c].sub
    /\ Set(c, [cl[c] EXCEPT !.pc = "loop", !.sub = TRUE, !.rec = 0])
    /\ UNCHANGED <<exchange, net, faults>>

\* Mutant: the slate is taken off the server when it is read.
OnSlateConsumes(c) ==
    /\ method = "epicbox" /\ cl[c].pc = "read" /\ cl[c].open /\ cl[c].sub
    /\ \E m \in Inbox(c) :
          /\ Set(c, [cl[c] EXCEPT !.pc = "got", !.todo = {m}, !.rec = 0])
          /\ net' = net \ {m}
    /\ UNCHANGED <<exchange, faults>>

\* The server sends a stored slate.  It keeps it until the client says Made.
OnSlate(c) ==
    /\ method = "epicbox" /\ cl[c].pc = "read" /\ cl[c].open /\ cl[c].sub
    /\ \E m \in Inbox(c) : Set(c, [cl[c] EXCEPT !.pc = "got", !.todo = {m}, !.rec = 0])
    /\ UNCHANGED <<exchange, net, faults>>

\* Mutant: the reader keeps the socket when it gets a ping.
OnPingKeepsSocket ==
    /\ cl["sender"].pc = "read"
    /\ UNCHANGED vars

\* A ping ends the read of the subscriber thread, which lets the publisher have the
\* socket.  (It makes no difference to a listener, where no other thread uses it.)
OnPing ==
    /\ cl["sender"].pc = "read"
    /\ Set("sender", [cl["sender"] EXCEPT !.pc = "loop"])
    /\ UNCHANGED <<exchange, net, faults>>

\* A read error counts as a failed connection, a close or an unparsable message does not.
ReadFails(c) ==
    /\ method = "epicbox" /\ cl[c].pc = "read" /\ Fault
    /\ \E failed \in BOOLEAN : Drop(c, failed)
    /\ UNCHANGED <<exchange, net>>

\* The keybase listener reads all unread slates at once, and they are then read.
KeybaseRead ==
    /\ method = "keybase" /\ synced /\ cl["receiver"].pc = "off" /\ Inbox("receiver") # {}
    /\ Set("receiver", [NoClient EXCEPT !.pc = "got", !.todo = Inbox("receiver")])
    /\ GetUnread
    /\ UNCHANGED <<exchange, faults>>

\* The receive and the finalize command are given a file.
ReadFile(c) ==
    /\ method = "file" /\ cl[c].pc = "off"
    /\ \E m \in Inbox(c) : Set(c, [NoClient EXCEPT !.pc = "got", !.todo = {m}])
    /\ UNCHANGED <<exchange, net, faults>>
ReceiveCommand == ReadFile("receiver")
FinalizeCommand == ReadFile("payer")

\* The slate being handled; after it: acknowledge it to the server, or go on with the
\* next, or end.
Take(c, m, p) == [cl[c] EXCEPT !.pc = p, !.todo = @ \ {m}, !.cur = {m}]
Handled(c, m) ==
    IF method = "epicbox" THEN Take(c, m, "ack")
    ELSE [cl[c] EXCEPT !.pc = IF cl[c].todo \subseteq {m} THEN "off" ELSE "got",
                       !.todo = @ \ {m}, !.cur = {}]
Lose(m) == lost' = IF method = "epicbox" THEN lost \cup {m} ELSE lost

\* process_incoming_slate, first case: the receiver adds its output.
HandleNew(c, m) ==
    /\ cl[c].pc = "got" /\ m \in cl[c].todo /\ ~m.signed
    /\ \/ ReceiveTx(m.s) /\ Set(c, Take(c, m, "answer")) /\ UNCHANGED <<lost, faults>>
       \/ outs[m.s] > 0 /\ Set(c, Handled(c, m)) /\ Lose(m) /\ UNCHANGED <<outs, faults>>
       \/ Fault /\ Set(c, Handled(c, m)) /\ Lose(m) /\ UNCHANGED outs
    /\ UNCHANGED <<method, synced, payerVars, posted, cmd, net>>

\* The answer is posted.  When the connection is broken post_slate panics, which is a
\* ClientCrash here; keybase only logs that it could not send, and a response file that
\* cannot be written ends the receive command.
SendAnswer(c, m) ==
    /\ cl[c].pc = "answer" /\ m \in cl[c].cur
    /\ \/ method = "epicbox" /\ PostSlate(Answer(m.s)) /\ UNCHANGED faults
       \/ method = "keybase" /\ KeybaseSend(Answer(m.s)) /\ UNCHANGED faults
       \/ method = "file" /\ PutTx(Answer(m.s)) /\ UNCHANGED faults
       \/ method # "epicbox" /\ Fault /\ UNCHANGED net
    /\ Set(c, Handled(c, m))
    /\ UNCHANGED exchange

\* Mutant: the handler gives up when the wallet is in use by a command.
HandleSignedBusy(c, m) ==
    /\ cl[c].pc = "got" /\ m \in cl[c].todo /\ m.signed
    /\ \/ /\ FinalizeTx(m.s) /\ cmd.pc = "idle"
          /\ Set(c, Take(c, m, "post"))
          /\ UNCHANGED lost
       \/ /\ ~Finalizable(m.s) \/ cmd.pc # "idle"
          /\ Set(c, Handled(c, m)) /\ Lose(m)
          /\ UNCHANGED <<ctx, final>>
    /\ UNCHANGED <<method, synced, entry, told, outs, posted, cmd, net, faults>>

\* process_incoming_slate, second case: the payer finalizes.
HandleSigned(c, m) ==
    /\ cl[c].pc = "got" /\ m \in cl[c].todo /\ m.signed
    /\ \/ /\ FinalizeTx(m.s)
          /\ Set(c, Take(c, m, "post"))
          /\ UNCHANGED <<lost, faults>>
       \/ /\ ~Finalizable(m.s)
          /\ Set(c, Handled(c, m)) /\ Lose(m)
          /\ UNCHANGED <<ctx, final, faults>>
       \/ /\ Fault
          /\ Set(c, Handled(c, m)) /\ Lose(m)
          /\ UNCHANGED <<ctx, final>>
    /\ UNCHANGED <<method, synced, entry, told, outs, posted, cmd, net>>

\* post_tx over Tor or else HTTP; the error of the latter ends the handler.
PostFinal(c, m) ==
    /\ cl[c].pc = "post" /\ m \in cl[c].cur
    /\ \/ posted' = posted \cup {m.s} /\ UNCHANGED <<lost, faults>>
       \/ Fault /\ Lose(m) /\ UNCHANGED posted
    /\ Set(c, Handled(c, m))
    /\ UNCHANGED <<method, synced, payerVars, outs, cmd, net>>

\* made_send: the server forgets the slate.
Made(m) == net' = net \ {m}

\* Subscribe and Made, whatever the handler did.  If the connection is gone, or the server
\* answers the new subscription before it sees Made, the slate comes again.
Acknowledge(c, m) ==
    /\ cl[c].pc = "ack" /\ m \in cl[c].cur
    /\ \/ /\ cl[c].open
          /\ Set(c, [cl[c] EXCEPT !.pc = "loop", !.cur = {}])
          /\ \/ Made(m) /\ UNCHANGED faults
             \/ Fault /\ UNCHANGED net
       \/ /\ ~cl[c].open
          /\ Set(c, NoClient)
          /\ UNCHANGED <<net, faults>>
    /\ UNCHANGED exchange

\* The process of a client dies and, if it is a listener, is started again.
ClientCrash(c) ==
    /\ cl[c].pc \notin {"off", "dead"} /\ Fault
    /\ Set(c, NoClient)
    /\ UNCHANGED <<exchange, net>>

\* The monitor thread of the node sets the flag both ways.
SyncLost ==
    /\ synced /\ Fault
    /\ synced' = FALSE
    /\ UNCHANGED <<method, payerVars, outs, posted, cmd, net, cl, lost>>
SyncBack ==
    /\ ~synced
    /\ synced' = TRUE
    /\ UNCHANGED <<method, payerVars, outs, posted, cmd, net, cl, lost, faults>>

-----------------------------------------------------------------------------
SendStep ==
    \/ Publish \/ PublishFile \/ HttpRequest \/ HttpAnswer
    \/ KeybaseRequest \/ PollHit \/ PollTimeout
    \/ LockOutputs \/ SelfReceive \/ CmdFinalize \/ CmdPost
ClientStep(c) ==
    \/ Connect(c) \/ StartRead(c) \/ OnChallenge(c) \/ OnSlate(c)
    \/ \E m \in cl[c].todo \cup cl[c].cur : 
          \/ HandleNew(c, m) \/ SendAnswer(c, m) \/ HandleSigned(c, m)
          \/ PostFinal(c, m) \/ Acknowledge(c, m)

Next ==
    \/ \E s \in Slates : SendInit(s)
    \/ SendStep \/ SendFails \/ CmdCrash
    \/ \E m \in net : Explode(m)
    \/ \E c \in Clients : ClientStep(c) \/ ReadFails(c) \/ ClientCrash(c)
    \/ ReceiveCommand \/ FinalizeCommand \/ KeybaseRead \/ OnPing \/ SyncLost \/ SyncBack

Spec == Init /\ [][Next]_vars

\* A command that was started goes on, listeners keep running and their server keeps
\* delivering, the node syncs again.  Publishing needs the socket's mutex infinitely often
\* (strong fairness: the mutex is parking_lot's, which is eventually fair), and the server
\* pings its clients.
FairSpec ==
    /\ Spec
    /\ WF_vars(SendStep) /\ SF_vars(Publish) /\ WF_vars(OnPing) /\ WF_vars(SyncBack)
    /\ \A c \in Wallets : WF_vars(ClientStep(c))

-----------------------------------------------------------------------------
(* Properties. *)

\* A transaction is posted only when the receiver has made its one output for it and the
\* payer has logged it and locked its inputs: finalize_tx (command.rs send, finalize, the
\* epicbox handler) must fail on an answer that comes before tx_lock_outputs.
PostedIsBacked == \A s \in posted : outs[s] = 1 /\ s \in entry /\ s \in final

\* However often a slate is delivered (redelivery after a crash or a lost Made, a file read
\* twice), receive_tx makes one output for it.
ReceivedOnce == \A s \in Slates : outs[s] <= 1

\* Without faults the only slate acknowledged to the epicbox server and handled by nobody
\* is an answer that overtakes tx_lock_outputs of its own send command.
OnlyEarlyAnswerLost ==
    [][\A m \in lost' \ lost :
          faults' = 0 => /\ m.signed
                         /\ m.s \in final \/ (cmd.pc = "lock" /\ cmd.s = m.s)]_vars

\* A send command ends: publishing gets the socket although the subscriber thread holds its
\* mutex while it reads (EpicboxBroker::subscribe and post_slate).
SendEnds == cmd.pc # "idle" ~> cmd.pc = "idle"

\* A slate sent over epicbox and locked is posted in the end, over reconnections and
\* restarts, unless a listener gave up or the server was told to forget the slate.
EpicboxSettles ==
    \A s \in Slates :
        (method = "epicbox" /\ s \in entry) ~>
            \/ s \in posted \/ \E m \in lost : m.s = s
            \/ \E w \in Wallets : cl[w].pc = "dead"

\* What the comment at the Made message says: it tells the server that the slate was
\* successfully handled.
MadeMeansHandled == \A m \in lost : m.signed => m.s \in final

=============================================================================
