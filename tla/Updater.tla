------------------------------ MODULE Updater ------------------------------
(***************************************************************************)
(* The background updater of the owner API (libwallet's owner_updater.rs and *)
(* the calls of api/src/owner.rs that start it, stop it, read its messages    *)
(* and trust it): threads that queue for the updater's mutex, the flag        *)
(* updater_running that every query reads, the wallet that may be closed or   *)
(* reopened under a running updater, and the queue of status messages.        *)
(***************************************************************************)
EXTENDS Naturals, Sequences

CONSTANTS
    Threads,      \* the threads that start_updater may spawn
    MaxMasks,     \* bound on the masks that open_wallet draws
    MaxMessages,  \* bound on the status messages that are told apart
    QueueLen      \* MESSAGE_QUEUE_MAX_LEN, 10000 in the code

ASSUME UpdaterAssumption ==
    /\ MaxMasks \in Nat /\ MaxMessages \in Nat /\ QueueLen \in Nat \ {0}

Closed == MaxMasks + 1   \* the wallet has no backend
Masks == 0 .. MaxMasks   \* 0 is the wallet opened without a mask

VARIABLES
    running,  \* updater_running
    th,       \* the threads: where they are, the mask they were started with
    wallet,   \* mask of the open wallet, or Closed
    masks,    \* how many masks were drawn
    fresh,    \* the ledger agrees with the node
    query,    \* a retrieve_* call: has it decided to refresh?
    chan,     \* status messages in the channel of the log thread
    queue,    \* updater_messages, newest first
    sent,     \* how many messages were sent
    history,  \* the messages as a client puts them together, oldest first
    dropped,  \* how many messages the full queue dropped
    failed    \* history: the last run ended with an error and nobody called stop_updater

threadVars == <<running, th, failed>>
messageVars == <<chan, queue, sent, history, dropped>>
vars == <<threadVars, wallet, masks, fresh, query, messageVars>>

Loop == {"update", "check", "sleep"}
Holding == Loop \cup {"begin"}
Off == [pc |-> "off", mask |-> 0]

TypeOK ==
    /\ running \in BOOLEAN /\ failed \in BOOLEAN
    /\ th \in [Threads -> [pc : Holding \cup {"off", "wait"}, mask : Masks]]
    /\ wallet \in Masks \cup {Closed} /\ masks \in Masks
    /\ fresh \in BOOLEAN
    /\ query \in {"none", "refresh", "cached"}
    /\ chan \in Seq(1 .. MaxMessages) /\ queue \in Seq(1 .. MaxMessages)
    /\ Len(queue) <= QueueLen
    /\ sent \in 0 .. MaxMessages /\ dropped \in 0 .. MaxMessages
    /\ history \in Seq(1 .. MaxMessages)

\* Owner::new
Init ==
    /\ running = FALSE /\ failed = FALSE
    /\ th = [t \in Threads |-> Off]
    /\ wallet \in {0, Closed} /\ masks = 0
    /\ fresh = FALSE /\ query = "none"
    /\ chan = <<>> /\ queue = <<>> /\ sent = 0 /\ history = <<>> /\ dropped = 0

-----------------------------------------------------------------------------
(* The updater's threads. *)

\* Mutant: the flag is raised by the call instead of the thread.
StartUpdaterRaises(t, m) ==
    /\ th[t].pc = "off" /\ m <= masks
    /\ th' = [th EXCEPT ![t] = [pc |-> "wait", mask |-> m]]
    /\ running' = TRUE
    /\ UNCHANGED <<failed, wallet, masks, fresh, query, messageVars>>

\* start_updater spawns a thread that waits for the updater's mutex; the token of the call
\* may be an old one.
StartUpdater(t, m) ==
    /\ th[t].pc = "off" /\ m <= masks
    /\ th' = [th EXCEPT ![t] = [pc |-> "wait", mask |-> m]]
    /\ UNCHANGED <<running, failed, wallet, masks, fresh, query, messageVars>>

LockUpdater(t) ==
    /\ th[t].pc = "wait"
    /\ \A u \in Threads : th[u].pc \notin Holding
    /\ th' = [th EXCEPT ![t].pc = "begin"]
    /\ UNCHANGED <<running, failed, wallet, masks, fresh, query, messageVars>>

\* run: the flag is raised, whatever stop_updater said before.
Run(t) ==
    /\ th[t].pc = "begin"
    /\ th' = [th EXCEPT ![t].pc = "update"]
    /\ running' = TRUE /\ failed' = FALSE
    /\ UNCHANGED <<wallet, masks, fresh, query, messageVars>>

Report == IF sent < MaxMessages
          THEN sent' = sent + 1 /\ chan' = Append(chan, sent + 1)
          ELSE UNCHANGED <<sent, chan>>

\* update_wallet_state: it needs the open wallet and its mask; a node that does not answer is
\* only reported, an error of the scan or the database ends the thread.  The flag stays up.
UpdatePass(t) ==
    /\ th[t].pc = "update"
    /\ \/ /\ wallet = th[t].mask
          /\ fresh' \in {fresh, TRUE}
          /\ th' = [th EXCEPT ![t].pc = "check"]
          /\ Report /\ UNCHANGED failed
       \/ /\ th' = [th EXCEPT ![t] = Off]
          /\ failed' = running
          /\ UNCHANGED <<fresh, sent, chan>>
    /\ UNCHANGED <<running, wallet, masks, query, queue, history, dropped>>

\* Mutant: every round of the loop raises the flag.
CheckRunningRaises(t) ==
    /\ th[t].pc = "check"
    /\ th' = [th EXCEPT ![t].pc = "sleep"]
    /\ running' = TRUE
    /\ UNCHANGED <<failed, wallet, masks, fresh, query, messageVars>>

CheckRunning(t) ==
    /\ th[t].pc = "check"
    /\ th' = [th EXCEPT ![t] = IF running THEN [@ EXCEPT !.pc = "sleep"] ELSE Off]
    /\ UNCHANGED <<running, failed, wallet, masks, fresh, query, messageVars>>

WakeUp(t) ==
    /\ th[t].pc = "sleep"
    /\ th' = [th EXCEPT ![t].pc = "update"]
    /\ UNCHANGED <<running, failed, wallet, masks, fresh, query, messageVars>>

StopUpdater ==
    /\ running' = FALSE /\ failed' = FALSE
    /\ UNCHANGED <<th, wallet, masks, fresh, query, messageVars>>

-----------------------------------------------------------------------------
(* What happens around it. *)

OpenWallet ==
    /\ masks < MaxMasks
    /\ masks' = masks + 1 /\ wallet' = masks + 1
    /\ UNCHANGED <<threadVars, fresh, query, messageVars>>

CloseWallet ==
    /\ wallet' = Closed
    /\ UNCHANGED <<threadVars, masks, fresh, query, messageVars>>

\* A block arrives.
NewBlock ==
    /\ fresh' = FALSE
    /\ UNCHANGED <<threadVars, wallet, masks, query, messageVars>>

\* retrieve_outputs, retrieve_txs, retrieve_summary_info and retrieve_payment_proof leave the
\* refresh that the caller asked for to a running updater.
QueryBegin ==
    /\ query = "none"
    /\ query' = IF running THEN "cached" ELSE "refresh"
    /\ UNCHANGED <<threadVars, wallet, masks, fresh, messageVars>>

\* Then they update the ledger themselves (a closed wallet, a wrong mask and a broken scan are
\* errors) or read it as it is.
QueryEnd ==
    /\ query # "none"
    /\ query' = "none"
    /\ \/ query = "refresh" /\ wallet # Closed /\ fresh' \in {fresh, TRUE} /\ Report
       \/ UNCHANGED <<fresh, sent, chan>>
    /\ UNCHANGED <<threadVars, wallet, masks, queue, history, dropped>>

\* The log thread: a message enters the queue in front, and a full queue loses its last.
LogMessage ==
    /\ chan # <<>>
    /\ LET q == <<Head(chan)>> \o queue
       IN  /\ queue' = SubSeq(q, 1, IF Len(q) > QueueLen THEN QueueLen ELSE Len(q))
           /\ dropped' = dropped + Len(q) - Len(queue')
    /\ chan' = Tail(chan)
    /\ UNCHANGED <<threadVars, wallet, masks, fresh, query, sent, history>>

Reversed(s) == [i \in 1 .. Len(s) |-> s[Len(s) + 1 - i]]

\* Mutant: the newest messages are handed out first.
GetUpdaterMessagesNewest(count) ==
    /\ queue # <<>>
    /\ LET n == IF count < Len(queue) THEN count ELSE Len(queue)
       IN  /\ history' = history \o Reversed(SubSeq(queue, 1, n))
           /\ queue' = SubSeq(queue, n + 1, Len(queue))
    /\ UNCHANGED <<threadVars, wallet, masks, fresh, query, chan, sent, dropped>>

\* get_updater_messages splits off the end of the queue; a client turns the answer round.
GetUpdaterMessages(count) ==
    /\ queue # <<>>
    /\ LET index == IF count < Len(queue) THEN Len(queue) - count ELSE 0
       IN  /\ history' = history \o Reversed(SubSeq(queue, index + 1, Len(queue)))
           /\ queue' = SubSeq(queue, 1, index)
    /\ UNCHANGED <<threadVars, wallet, masks, fresh, query, chan, sent, dropped>>

-----------------------------------------------------------------------------
Step(t) == LockUpdater(t) \/ Run(t) \/ UpdatePass(t) \/ CheckRunning(t) \/ WakeUp(t)

Next ==
    \/ \E t \in Threads, m \in Masks : StartUpdater(t, m)
    \/ \E t \in Threads : Step(t)
    \/ StopUpdater \/ OpenWallet \/ CloseWallet \/ NewBlock
    \/ QueryBegin \/ QueryEnd
    \/ LogMessage
    \/ \E count \in 1 .. QueueLen : GetUpdaterMessages(count)

Spec == Init /\ [][Next]_vars

\* The threads run; a pass ends, since the node client's calls time out.
FairSpec == Spec /\ \A t \in Threads : WF_vars(Step(t))

-----------------------------------------------------------------------------
(* Properties. *)

\* While updater_running is up, so that queries do not refresh, an updater thread is at work,
\* unless its last run ended with an error.
FlagMeansAlive == running => failed \/ \E t \in Threads : th[t].pc \in Loop

\* A stop_updater that meets a thread in its loop ends that thread: nobody raises the flag
\* again while the thread holds the updater's mutex.
StopEnds == \A t \in Threads : (th[t].pc \in Loop /\ ~running) ~> th[t].pc \notin Loop

\* A client that calls get_updater_messages often gets the complete history in order:
\* what it read, what is queued and what is on its way are all messages but the dropped
\* ones, oldest first, none twice.
CompleteHistory ==
    LET all == history \o Reversed(queue) \o chan
    IN  /\ Len(all) + dropped = sent
        /\ \A i, j \in 1 .. Len(all) : i < j => all[i] < all[j]

=============================================================================
