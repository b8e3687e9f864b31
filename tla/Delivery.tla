------------------------------ MODULE Delivery ------------------------------
(***************************************************************************)
(* How wonderd delivers a person's messages to a Codex runtime.            *)
(*                                                                         *)
(* A phone sends a message over HTTP; SQLite keeps it until the dispatch   *)
(* loop (dispatch.rs) claims it and submits turn/start, or turn/steer for  *)
(* a Guide.  The runtime's notifications come back through the durable     *)
(* inbox (ingestion.rs).  A lost reply leaves a message "uncertain": it is *)
(* never submitted again, only looked up in the runtime's own history.     *)
(*                                                                         *)
(* Four tasks of the daemon interleave here: the HTTP handlers, the        *)
(* dispatch loop, the inbox projector with its recovery task, and the      *)
(* runtime process.  Two mutexes order them: update admission, held by the *)
(* dispatch loop for a whole tick (dispatcher.pc # "idle") and by the HTTP *)
(* handlers that accept work, and dispatch_lock (variable lock).           *)
(*                                                                         *)
(* Modelled: direct Bot conversations on the shared Codex runtime, one     *)
(* thread per conversation.  A message is its creation order.  The HTTP    *)
(* gate reads readiness before it waits for admission and a recovery may   *)
(* begin in between, so Send, SendGuide and Retry do not ask for Ready.    *)
(* The dispatch loop's readiness check and its claim are one step: the     *)
(* recovery task touches no row that a claim can take.                     *)
(***************************************************************************)
EXTENDS Naturals, Sequences, FiniteSets

CONSTANTS
    Message,        \* messages a person may send, numbered by created_at
    Conversation,   \* conversations, each with one runtime thread
    ConversationOf, \* the conversation of each message
    Turn,           \* turn ids the runtime hands out
    Guidable,       \* the messages that may be sent or moved as Guides
    Streaming,      \* the turns that stream an assistant delta
    MaxEdits,       \* bound: edits of one message
    MaxFaults,      \* bound: crashes, lost replies and failed writes
    NoTurn, NoMessage

ASSUME MessageAssumption == Message \subseteq Nat
ASSUME ConversationAssumption == ConversationOf \in [Message -> Conversation]
ASSUME TurnAssumption == NoTurn \notin Turn /\ NoMessage \notin Message
ASSUME KindAssumption == Guidable \subseteq Message /\ Streaming \subseteq Turn
ASSUME BoundAssumption == MaxEdits \in Nat /\ MaxFaults \in Nat

VARIABLES
    messages,   \* the messages table with its work and dispatch_attempts rows
    inbox,      \* notification_inbox, oldest first
    parked,     \* pending_app_server_notifications: no message has the turn yet
    receipts,   \* app_server_notification_receipts: completions already applied
    lock,       \* dispatch_lock and what its holder is doing
    dispatcher, \* the dispatch loop; it holds update admission unless "idle"
    found,      \* receipt scans: the turn in which a message was seen
    ingestion,  \* the recovery task and the provider's readiness flags
    alive,      \* the runtime process answers
    wire,       \* requests the runtime has not acted on yet
    turns,      \* the runtime's turn history
    taken,      \* history variable: every body the runtime took, per message
    faults      \* faults still allowed

store == <<messages, inbox, parked, receipts>>
daemon == <<lock, dispatcher, found, ingestion>>
runtime == <<alive, wire, turns, taken>>
vars == <<messages, inbox, parked, receipts, lock, dispatcher, found,
          ingestion, alive, wire, turns, taken, faults>>

-----------------------------------------------------------------------------
(* Rows and records. *)

Active == {"accepted_by_codex", "streaming"}
Open == Active \cup {"uncertain"}
Final == {"completed", "interrupted"}
DeliveryState == {"unsent", "accepted_by_wonder", "dispatching_to_codex",
                  "safe_to_retry", "failed"} \cup Open \cup Final

Row == [state : DeliveryState,
        work : {"none", "dispatch", "guide"},  \* dispatch_work or guide_work
        target : Turn \cup {NoTurn},           \* guide_work.expected_turn_id
        turn : Turn \cup {NoTurn},             \* codex_turn_id
        phase : {"closed", "claimed", "submitting"}, \* latest attempt
        position : Nat,                        \* queue_position
        body : Nat]

Notice == [kind : {"delta", "completed"}, turn : Turn]
Request == [message : Message, turn : Turn \cup {NoTurn}, body : Nat]

Holder == [op : {"free", "dispatch", "guide", "stop", "project"},
           message : Message \cup {NoMessage},
           turn : Turn \cup {NoTurn}, body : Nat]
Loop == [pc : {"idle", "guides", "dispatch", "waiting"}, listed : SUBSET Message]
Task == [pc : {"off", "due", "starting", "reading"}, recovering : BOOLEAN,
         requested : BOOLEAN, todo : SUBSET Message]
History == [status : {"unused", "running", "completed", "stopped"},
            input : SUBSET Message, streamed : BOOLEAN]

Unlocked == [op |-> "free", message |-> NoMessage, turn |-> NoTurn, body |-> 0]

Sent(m) == messages[m].state # "unsent"
Peers(m) == {n \in Message : ConversationOf[n] = ConversationOf[m]}
MappedTo(t) == {m \in Message : messages[m].turn = t}
Running == {t \in Turn : turns[t].status = "running"}

(* message_for_codex_turn: the newest message owns the turn's events. *)
Owns(m, t) == m \in MappedTo(t) /\ \A n \in MappedTo(t) : n <= m

(* readiness_for: the runtime answers and no recovery is due or running. *)
Ready == alive /\ ~ingestion.recovering

(* update_message_delivery: writes the state whatever it was, keeps the    *)
(* turn unless a new one is given, and closes the latest attempt.          *)
Delivered(table, m, s, t) ==
    [table EXCEPT ![m] =
        [@ EXCEPT !.state = s,
                  !.turn = IF t = NoTurn THEN table[m].turn ELSE t,
                  !.phase = "closed"]]

(* complete_messages_for_codex_thread_and_turn *)
CompletedTurn(table, t) ==
    [m \in Message |->
        IF table[m].turn = t /\ table[m].state \in Open
        THEN [table[m] EXCEPT !.state = "completed"] ELSE table[m]]

\* Variant: the state is not looked at.
UncertainWhatever(table, t) ==
    [m \in Message |-> IF table[m].turn = t
                      THEN [table[m] EXCEPT !.state = "uncertain"] ELSE table[m]]

(* mark_runtime_turn_uncertain *)
UncertainTurn(table, t) ==
    [m \in Message |->
        IF table[m].turn = t /\ table[m].state \in Open
        THEN [table[m] EXCEPT !.state = "uncertain"] ELSE table[m]]

\* Variant: Guides count as queued.
WaitingOfAnyKind(m) == messages[m].state = "accepted_by_wonder"

(* What waits in a conversation's queue, and its head (First, below). *)
Waiting(m) == messages[m].state = "accepted_by_wonder"
              /\ messages[m].work = "dispatch"

\* Variant: the newest message goes first.
NewestFirst(m, n) == n < m

Before(m, n) == \/ messages[m].position < messages[n].position
                \/ messages[m].position = messages[n].position /\ m < n

\* Variant: a message whose answer is streaming does not hold the queue.
BusyBeforeAnswer(m) == \E n \in Peers(m) \ {m} :
    messages[n].state \in {"dispatching_to_codex", "accepted_by_codex"}

Busy(m) == \E n \in Peers(m) \ {m} :
               messages[n].state \in Active \cup {"dispatching_to_codex"}
Queue(m) == {n \in Peers(m) : Waiting(n)}
First(m) == Waiting(m) /\ \A n \in Peers(m) \ {m} : Waiting(n) => Before(m, n)

Claimable(m) == /\ messages[m].state = "accepted_by_wonder"
                /\ messages[m].work = "dispatch" => First(m) /\ ~Busy(m)

-----------------------------------------------------------------------------
Init ==
    /\ messages = [m \in Message |->
                      [state |-> "unsent", work |-> "none", target |-> NoTurn,
                       turn |-> NoTurn, phase |-> "closed",
                       position |-> 0, body |-> 0]]
    /\ inbox = <<>> /\ parked = {} /\ receipts = {}
    /\ lock = Unlocked
    /\ dispatcher = [pc |-> "idle", listed |-> {}]
    /\ found = [m \in Message |-> NoTurn]
    /\ ingestion = [pc |-> "due", recovering |-> TRUE, requested |-> FALSE,
                    todo |-> {}]
    /\ alive = TRUE /\ wire = {}
    /\ turns = [t \in Turn |->
                  [status |-> "unused", input |-> {}, streamed |-> FALSE]]
    /\ taken = [m \in Message |-> <<>>]
    /\ faults = MaxFaults

-----------------------------------------------------------------------------
(* What a person does.  Send, SendGuide and Retry pass update admission,   *)
(* which the dispatch loop holds during a tick; the queue's edits do not.  *)

Admitted == dispatcher.pc = "idle"
NextInOrder(m) == /\ ~Sent(m)
                  /\ \A n \in Peers(m) : n < m => Sent(n)

Send(m) ==
    /\ Admitted /\ NextInOrder(m)
    /\ \E p \in {0} \cup {messages[n].position + 1 : n \in Queue(m)} :
          /\ \A n \in Queue(m) : messages[n].position < p
          /\ messages' = [messages EXCEPT ![m].state = "accepted_by_wonder",
                                          ![m].work = "dispatch",
                                          ![m].position = p]
    /\ UNCHANGED <<inbox, parked, receipts, daemon, runtime, faults>>

(* The turn is still active and belongs to the same conversation. *)
TakesGuide(m, t) == \E n \in Peers(m) : /\ Owns(n, t)
                                       /\ messages[n].state \in Active

SendGuide(m, t) ==
    /\ Admitted /\ NextInOrder(m) /\ m \in Guidable
    /\ TakesGuide(m, t)
    /\ messages' = [messages EXCEPT ![m].state = "accepted_by_wonder",
                                    ![m].work = "guide", ![m].target = t]
    /\ UNCHANGED <<inbox, parked, receipts, daemon, runtime, faults>>

\* Variant: an edit is accepted while the message is being dispatched.
EditLate(m) ==
    /\ messages[m].state \in {"accepted_by_wonder", "dispatching_to_codex"}
    /\ messages[m].work = "dispatch" /\ messages[m].body < MaxEdits
    /\ messages' = [messages EXCEPT ![m].body = @ + 1]
    /\ UNCHANGED <<inbox, parked, receipts, daemon, runtime, faults>>

Edit(m) ==
    /\ Waiting(m) /\ messages[m].body < MaxEdits
    /\ messages' = [messages EXCEPT ![m].body = @ + 1]
    /\ UNCHANGED <<inbox, parked, receipts, daemon, runtime, faults>>

Cancel(m) ==
    /\ Waiting(m)
    /\ messages' = [messages EXCEPT ![m].state = "interrupted"]
    /\ UNCHANGED <<inbox, parked, receipts, daemon, runtime, faults>>

MoveToGuide(m, t) ==
    /\ Waiting(m) /\ m \in Guidable
    /\ \E n \in Peers(m) : messages[n].turn = t /\ messages[n].state \in Active
    /\ messages' = [messages EXCEPT ![m].work = "guide", ![m].target = t]
    /\ UNCHANGED <<inbox, parked, receipts, daemon, runtime, faults>>

Retry(m) ==
    /\ Admitted
    /\ messages[m].state \in {"safe_to_retry", "failed"}
    /\ messages[m].work = "dispatch"
    /\ messages' = [messages EXCEPT ![m].state = "accepted_by_wonder"]
    /\ UNCHANGED <<inbox, parked, receipts, daemon, runtime, faults>>

\* Variant: the handler loses the message it looked up.
StopNobody(m, t) ==
    /\ lock.op = "free" /\ alive /\ Owns(m, t) /\ turns[t].status = "running"
    /\ lock' = [Unlocked EXCEPT !.op = "stop", !.turn = t]
    /\ UNCHANGED <<store, dispatcher, found, ingestion, runtime, faults>>

(* interrupt_turn holds dispatch_lock across the turn/interrupt call; the  *)
(* recovery task does not take that lock and may act in between.           *)
StopRequest(m, t) ==
    /\ lock.op = "free" /\ alive
    /\ Owns(m, t) /\ messages[m].state \in Active
    /\ turns[t].status = "running"
    /\ turns' = [turns EXCEPT ![t].status = "stopped"]
    /\ inbox' = Append(inbox, [kind |-> "completed", turn |-> t])
    /\ lock' = [Unlocked EXCEPT !.op = "stop", !.message = m, !.turn = t]
    /\ UNCHANGED <<messages, parked, receipts, dispatcher, found, ingestion,
                   alive, wire, taken, faults>>

(* The stop is recorded if the message is still active.  If turn/interrupt *)
(* was answered with an error, or not at all, interrupt_turn returns       *)
(* without recording it.                                                   *)
StopRecord ==
    /\ lock.op = "stop"
    /\ \/ /\ messages[lock.message].state \in Active
          /\ messages' = [messages EXCEPT ![lock.message].state = "interrupted"]
       \/ UNCHANGED messages
    /\ lock' = Unlocked
    /\ UNCHANGED <<inbox, parked, receipts, dispatcher, found, ingestion,
                   runtime, faults>>

-----------------------------------------------------------------------------
(* The dispatch loop.                                                      *)

\* Variant: every abandoned claim goes back to the queue.
ReclaimedToQueue(table, atStartup) ==
    [m \in Message |->
        IF table[m].state = "dispatching_to_codex"
        THEN [table[m] EXCEPT !.state = "accepted_by_wonder", !.phase = "closed"]
        ELSE table[m]]

\* Variant: claims are settled when the daemon starts and never again.
ReclaimedAtStartup(table, atStartup) ==
    IF atStartup THEN ReclaimedToQueue(table, atStartup) ELSE table

(* recover_direct_dispatch_claims: a claim nobody works on any more.       *)
Reclaimed(table, atStartup) ==
    [m \in Message |->
        IF table[m].state = "dispatching_to_codex"
           /\ (atStartup \/ table[m].work = "dispatch")
        THEN [table[m] EXCEPT
                 !.state = IF table[m].phase = "claimed"
                              /\ table[m].work = "dispatch"
                           THEN "accepted_by_wonder" ELSE "uncertain",
                 !.phase = "closed"]
        ELSE table[m]]

TickStart ==
    /\ dispatcher.pc = "idle" /\ lock.op = "free" /\ Ready
    /\ messages' = Reclaimed(messages, FALSE)
    /\ dispatcher' = [pc |-> "guides",
                      listed |-> {m \in Message :
                                     messages'[m].state = "accepted_by_wonder"
                                     /\ messages'[m].work = "guide"}]
    /\ UNCHANGED <<inbox, parked, receipts, lock, found, ingestion, runtime,
                   faults>>

ListDispatch ==
    /\ dispatcher.pc = "guides" /\ dispatcher.listed = {} /\ lock.op = "free"
    /\ dispatcher' = [pc |-> "dispatch",
                      listed |-> {m \in Message : First(m) /\ ~Busy(m)}]
    /\ UNCHANGED <<store, lock, found, ingestion, runtime, faults>>

TickEnd ==
    /\ dispatcher.pc = "dispatch" /\ dispatcher.listed = {} /\ lock.op = "free"
    /\ dispatcher' = [dispatcher EXCEPT !.pc = "idle"]
    /\ UNCHANGED <<store, lock, found, ingestion, runtime, faults>>

(* message_ready fails for a listed message: the next tick lists it again. *)
SkipListed(m) ==
    /\ dispatcher.pc \in {"guides", "dispatch"} /\ m \in dispatcher.listed
    /\ lock.op = "free" /\ ~Ready
    /\ dispatcher' = [dispatcher EXCEPT !.listed = @ \ {m}]
    /\ UNCHANGED <<store, lock, found, ingestion, runtime, faults>>

(* An error before anything is claimed: the handler leaves its message as  *)
(* it is, or the listing fails and the tick is over.                       *)
ListedFails ==
    /\ dispatcher.pc \in {"guides", "dispatch"} /\ lock.op = "free" /\ faults > 0
    /\ faults' = faults - 1
    /\ \/ dispatcher' = [pc |-> "idle", listed |-> {}]
       \/ \E m \in dispatcher.listed :
             dispatcher' = [dispatcher EXCEPT !.listed = @ \ {m}]
    /\ UNCHANGED <<store, lock, found, ingestion, runtime>>

(* The readiness check, the claim and the reload of the claimed row.       *)
Dispatch(m) ==
    /\ dispatcher.pc = "dispatch" /\ m \in dispatcher.listed
    /\ lock.op = "free" /\ Ready
    /\ dispatcher' = [dispatcher EXCEPT !.listed = @ \ {m}]
    /\ IF Claimable(m)
       THEN /\ messages' = [messages EXCEPT ![m].state = "dispatching_to_codex",
                                            ![m].phase = "claimed"]
            /\ lock' = [op |-> "dispatch", message |-> m, turn |-> NoTurn,
                        body |-> messages[m].body]
       ELSE UNCHANGED <<messages, lock>>
    /\ UNCHANGED <<inbox, parked, receipts, found, ingestion, runtime, faults>>

Dispatching(phase) == /\ lock.op = "dispatch"
                      /\ messages[lock.message].phase = phase

(* Settings, permissions or the thread cannot be prepared before anything  *)
(* was submitted: the message goes back to its owner.                      *)
PrepareFails ==
    /\ Dispatching("claimed") /\ faults > 0
    /\ messages' = Delivered(messages, lock.message, "safe_to_retry", NoTurn)
    /\ lock' = Unlocked
    /\ faults' = faults - 1
    /\ UNCHANGED <<inbox, parked, receipts, dispatcher, found, ingestion,
                   runtime>>

(* "Commit before any turn/start bytes can reach the runtime." *)
BeginSubmission ==
    /\ Dispatching("claimed")
    /\ messages' = [messages EXCEPT ![lock.message].phase = "submitting"]
    /\ wire' = IF alive
               THEN wire \cup {[message |-> lock.message, turn |-> NoTurn,
                                body |-> lock.body]}
               ELSE wire
    /\ UNCHANGED <<inbox, parked, receipts, daemon, alive, turns, taken, faults>>

(* drain_pending_app_server_notifications: what was parked for the turn.   *)
Drained(table, m, t) ==
    IF [kind |-> "completed", turn |-> t] \in parked /\ t \notin receipts
    THEN CompletedTurn(table, t)
    ELSE IF [kind |-> "delta", turn |-> t] \in parked
    THEN Delivered(table, m, "streaming", t)
    ELSE table

StartAnswered ==
    /\ Dispatching("submitting") /\ lock.turn # NoTurn
    /\ messages' = Drained(Delivered(messages, lock.message,
                                     "accepted_by_codex", lock.turn),
                           lock.message, lock.turn)
    /\ parked' = {n \in parked : n.turn # lock.turn}
    /\ receipts' = receipts \cup {n.turn : n \in {p \in parked :
                                    p.kind = "completed" /\ p.turn = lock.turn}}
    /\ lock' = Unlocked
    /\ UNCHANGED <<inbox, dispatcher, found, ingestion, runtime, faults>>

\* Variant: an unanswered submission is reported as safe to retry.
StartPresumedLost ==
    /\ Dispatching("submitting") /\ faults > 0
    /\ faults' = faults - 1
    /\ messages' = Delivered(messages, lock.message, "safe_to_retry", NoTurn)
    /\ lock' = Unlocked
    /\ UNCHANGED <<inbox, parked, receipts, dispatcher, found, ingestion, runtime>>

\* Variant: a lost turn/start is reconciled from inside the tick, too.
StartReconciledInTick ==
    /\ Dispatching("submitting") /\ faults > 0
    /\ faults' = faults - 1
    /\ messages' = Delivered(messages, lock.message, "uncertain", NoTurn)
    /\ dispatcher' = [dispatcher EXCEPT !.pc = "waiting"]
    /\ lock' = Unlocked
    /\ UNCHANGED <<inbox, parked, receipts, found, ingestion, runtime>>

(* A rejection, a timeout or a broken pipe: the request may be gone or may *)
(* still be on its way.                                                    *)
StartUnanswered ==
    /\ Dispatching("submitting")
    /\ alive => faults > 0
    /\ faults' = IF alive THEN faults - 1 ELSE faults
    /\ messages' = Delivered(messages, lock.message, "uncertain", NoTurn)
    /\ \/ wire' = wire
       \/ wire' = {r \in wire : r.message # lock.message}
    /\ lock' = Unlocked
    /\ UNCHANGED <<inbox, parked, receipts, dispatcher, found, ingestion,
                   alive, turns, taken>>

(* The write that ends the attempt fails, or the task returns early.       *)
SaveFails ==
    /\ lock.op \in {"dispatch", "guide"} /\ faults > 0
    /\ faults' = faults - 1
    /\ lock' = Unlocked
    /\ UNCHANGED <<store, dispatcher, found, ingestion, runtime>>

-----------------------------------------------------------------------------
(* Guides.                                                                 *)

GuideFails(m) ==
    /\ dispatcher.pc = "guides" /\ m \in dispatcher.listed
    /\ lock.op = "free" /\ Ready /\ ~TakesGuide(m, messages[m].target)
    /\ messages' = Delivered(messages, m, "failed", NoTurn)
    /\ dispatcher' = [dispatcher EXCEPT !.listed = @ \ {m}]
    /\ UNCHANGED <<inbox, parked, receipts, lock, found, ingestion, runtime,
                   faults>>

(* claim_guide commits "uncertain" before turn/steer is sent.              *)
DispatchGuide(m) ==
    /\ dispatcher.pc = "guides" /\ m \in dispatcher.listed
    /\ lock.op = "free" /\ Ready /\ TakesGuide(m, messages[m].target)
    /\ messages[m].state = "accepted_by_wonder" /\ messages[m].work = "guide"
    /\ messages' = [messages EXCEPT ![m].state = "uncertain"]
    /\ dispatcher' = [dispatcher EXCEPT !.listed = @ \ {m}]
    /\ lock' = [Unlocked EXCEPT !.op = "guide", !.message = m]
    /\ wire' = wire \cup {[message |-> m, turn |-> messages[m].target,
                           body |-> messages[m].body]}
    /\ UNCHANGED <<inbox, parked, receipts, found, ingestion, alive, turns,
                   taken, faults>>

SteerAnswered ==
    /\ lock.op = "guide" /\ lock.turn # NoTurn
    /\ messages' = Delivered(messages, lock.message, "accepted_by_codex", lock.turn)
    /\ lock' = Unlocked
    /\ UNCHANGED <<inbox, parked, receipts, dispatcher, found, ingestion,
                   runtime, faults>>

(* The runtime answers with an error, because the turn has ended or for    *)
(* another reason.                                                         *)
SteerRefused ==
    /\ lock.op = "guide" /\ lock.turn = NoTurn /\ alive
    /\ messages' = Delivered(messages, lock.message, "uncertain", NoTurn)
    /\ wire' = {r \in wire : r.message # lock.message}
    /\ lock' = Unlocked
    /\ UNCHANGED <<inbox, parked, receipts, dispatcher, found, ingestion,
                   alive, turns, taken, faults>>

\* Variant: an unanswered steer counts as failed.
SteerPresumedLost ==
    /\ lock.op = "guide" /\ faults > 0
    /\ faults' = faults - 1
    /\ messages' = Delivered(messages, lock.message, "failed", NoTurn)
    /\ lock' = Unlocked
    /\ UNCHANGED <<inbox, parked, receipts, dispatcher, found, ingestion, runtime>>

(* No answer: dispatch_lock is dropped and restart_and_reconcile asks for  *)
(* update admission, which this very tick still holds.  Nothing but a      *)
(* restart of the daemon takes the loop out of "waiting".                  *)
SteerUnanswered ==
    /\ lock.op = "guide"
    /\ alive => faults > 0
    /\ faults' = IF alive THEN faults - 1 ELSE faults
    /\ messages' = Delivered(messages, lock.message, "uncertain", NoTurn)
    /\ dispatcher' = [dispatcher EXCEPT !.pc = "waiting"]
    /\ lock' = Unlocked
    /\ UNCHANGED <<inbox, parked, receipts, found, ingestion, runtime>>

-----------------------------------------------------------------------------
(* Receipt recovery: an uncertain message is looked up in the runtime's    *)
(* history, read without locks and applied under both of them.             *)

Ambiguous(m) == /\ messages[m].state = "uncertain"
                /\ messages[m].turn = NoTurn /\ messages[m].work # "none"

\* Variant: the latest turn of the conversation is taken for the message's.
ScanAnyTurn(m, t) ==
    /\ Ambiguous(m) /\ Ready /\ Admitted
    /\ turns[t].input \cap Peers(m) # {}
    /\ found' = [found EXCEPT ![m] = t]
    /\ UNCHANGED <<store, lock, dispatcher, ingestion, runtime, faults>>

\* Variant: only a turn that is still running is searched.
ScanRunning(m, t) ==
    /\ Ambiguous(m) /\ Ready /\ Admitted
    /\ m \in turns[t].input /\ turns[t].status = "running"
    /\ found' = [found EXCEPT ![m] = t]
    /\ UNCHANGED <<store, lock, dispatcher, ingestion, runtime, faults>>

ScanReceipt(m, t) ==
    /\ Ambiguous(m) /\ Ready /\ Admitted
    /\ m \in turns[t].input
    /\ found' = [found EXCEPT ![m] = t]
    /\ UNCHANGED <<store, lock, dispatcher, ingestion, runtime, faults>>

\* Variant: a found message does not ask for a reconciliation.
AcceptQuietly(m) ==
    /\ found[m] # NoTurn /\ Admitted /\ lock.op = "free" /\ Ambiguous(m)
    /\ found' = [found EXCEPT ![m] = NoTurn]
    /\ messages' = Delivered(messages, m, "accepted_by_codex", found[m])
    /\ UNCHANGED <<inbox, parked, receipts, lock, dispatcher, ingestion,
                   runtime, faults>>

AcceptReceipt(m) ==
    /\ found[m] # NoTurn /\ Admitted /\ lock.op = "free"
    /\ found' = [found EXCEPT ![m] = NoTurn]
    /\ IF Ambiguous(m)
       THEN /\ messages' = Delivered(messages, m, "accepted_by_codex", found[m])
            /\ ingestion' = [ingestion EXCEPT !.requested = TRUE,
                                              !.recovering = TRUE]
       ELSE UNCHANGED <<messages, ingestion>>
    /\ UNCHANGED <<inbox, parked, receipts, lock, dispatcher, runtime, faults>>

-----------------------------------------------------------------------------
(* The inbox projector: one notice at a time, under dispatch_lock.         *)

Pending(kind) == lock.op = "free" /\ inbox # <<>> /\ Head(inbox).kind = kind

ProjectUnmapped ==
    /\ lock.op = "free" /\ inbox # <<>> /\ MappedTo(Head(inbox).turn) = {}
    /\ parked' = parked \cup {Head(inbox)}
    /\ inbox' = Tail(inbox)
    /\ UNCHANGED <<messages, receipts, daemon, runtime, faults>>

(* claim_app_server_notification: a turn's completion is applied once,     *)
(* whether the runtime or the recovery task brought it first.              *)
ApplyCompletion(t) ==
    /\ messages' = IF t \in receipts THEN messages ELSE CompletedTurn(messages, t)
    /\ receipts' = receipts \cup {t}

ProjectCompletion ==
    /\ Pending("completed") /\ MappedTo(Head(inbox).turn) # {}
    /\ ApplyCompletion(Head(inbox).turn)
    /\ inbox' = Tail(inbox)
    /\ UNCHANGED <<parked, daemon, runtime, faults>>

\* Variant: a delta does not ask whether its message has ended.
LoadAnyDelta(m) ==
    /\ Pending("delta") /\ Owns(m, Head(inbox).turn)
    /\ lock' = [Unlocked EXCEPT !.op = "project", !.message = m,
                               !.turn = Head(inbox).turn]
    /\ UNCHANGED <<store, dispatcher, found, ingestion, runtime, faults>>

(* A delta loads its message and saves its text first, ...                 *)
LoadDelta(m) ==
    /\ Pending("delta") /\ Owns(m, Head(inbox).turn)
    /\ IF messages[m].state \in Final
       THEN inbox' = Tail(inbox) /\ UNCHANGED lock
       ELSE /\ lock' = [Unlocked EXCEPT !.op = "project", !.message = m,
                                        !.turn = Head(inbox).turn]
            /\ UNCHANGED inbox
    /\ UNCHANGED <<messages, parked, receipts, dispatcher, found, ingestion,
                   runtime, faults>>

(* ... then marks the message it loaded as streaming, whatever it is now.  *)
ApplyDelta ==
    /\ lock.op = "project"
    /\ messages' = Delivered(messages, lock.message, "streaming", lock.turn)
    /\ inbox' = Tail(inbox)
    /\ lock' = Unlocked
    /\ UNCHANGED <<parked, receipts, dispatcher, found, ingestion, runtime,
                   faults>>

-----------------------------------------------------------------------------
(* The recovery task: it takes no lock beyond the drain of the inbox.      *)

RecoverDue ==
    /\ ingestion.pc = "off" /\ (ingestion.requested \/ ~alive)
    /\ ingestion' = [ingestion EXCEPT !.pc = "due", !.recovering = TRUE,
                                      !.requested = FALSE]
    /\ UNCHANGED <<store, lock, dispatcher, found, runtime, faults>>

(* The inbox is found empty once ...                                       *)
RecoverDrained ==
    /\ ingestion.pc = "due" /\ inbox = <<>> /\ lock.op = "free"
    /\ ingestion' = [ingestion EXCEPT !.pc = "starting"]
    /\ UNCHANGED <<store, lock, dispatcher, found, runtime, faults>>

(* ... then a dead runtime is replaced, and the messages on a turn that    *)
(* has not ended for Wonder are listed, whatever has come in meanwhile.    *)
RecoverStart ==
    /\ ingestion.pc = "starting"
    /\ alive' = TRUE
    /\ ingestion' = [ingestion EXCEPT
                        !.pc = "reading",
                        !.todo = {m \in Message : messages[m].turn # NoTurn
                                                  /\ messages[m].state \in Open}]
    /\ UNCHANGED <<store, lock, dispatcher, found, wire, turns, taken, faults>>

(* One listed message: its turn still runs, has completed, or was cut off. *)
RecoverMessage(m) ==
    /\ ingestion.pc = "reading" /\ m \in ingestion.todo /\ alive
    /\ ingestion' = [ingestion EXCEPT !.todo = @ \ {m}]
    /\ LET t == messages[m].turn
       IN CASE turns[t].status = "running" -> UNCHANGED <<messages, receipts>>
            [] turns[t].status = "completed" -> ApplyCompletion(t)
            [] OTHER -> /\ messages' = UncertainTurn(messages, t)
                        /\ UNCHANGED receipts
    /\ UNCHANGED <<inbox, parked, lock, dispatcher, found, runtime, faults>>

RecoverDone ==
    /\ ingestion.pc = "reading" /\ ingestion.todo = {} /\ alive
    /\ ingestion' = [ingestion EXCEPT !.pc = "off", !.recovering = FALSE]
    /\ UNCHANGED <<store, lock, dispatcher, found, runtime, faults>>

(* The runtime has died, or a read of its history or a write has failed:   *)
(* recovery begins again.                                                  *)
RecoverAbort ==
    /\ ingestion.pc = "reading"
    /\ alive => faults > 0
    /\ faults' = IF alive THEN faults - 1 ELSE faults
    /\ ingestion' = [ingestion EXCEPT !.pc = "due", !.requested = FALSE,
                                      !.recovering = TRUE, !.todo = {}]
    /\ UNCHANGED <<store, lock, dispatcher, found, runtime>>

-----------------------------------------------------------------------------
(* The runtime process. *)

Answered(r, t) == IF lock.op \in {"dispatch", "guide"} /\ lock.message = r.message
                  THEN [lock EXCEPT !.turn = t] ELSE lock

TurnStart(r, t) ==
    /\ alive /\ r.turn = NoTurn /\ turns[t].status = "unused"
    /\ turns' = [turns EXCEPT ![t].status = "running", ![t].input = {r.message}]
    /\ taken' = [taken EXCEPT ![r.message] = Append(@, r.body)]
    /\ wire' = wire \ {r}
    /\ lock' = Answered(r, t)
    /\ UNCHANGED <<store, dispatcher, found, ingestion, alive, faults>>

TurnSteer(r) ==
    /\ alive /\ r.turn # NoTurn /\ turns[r.turn].status = "running"
    /\ turns' = [turns EXCEPT ![r.turn].input = @ \cup {r.message}]
    /\ taken' = [taken EXCEPT ![r.message] = Append(@, r.body)]
    /\ wire' = wire \ {r}
    /\ lock' = Answered(r, r.turn)
    /\ UNCHANGED <<store, dispatcher, found, ingestion, alive, faults>>

(* A delta may come late, after the turn has ended. *)
StreamDelta(t) ==
    /\ alive /\ t \in Streaming /\ turns[t].status # "unused"
    /\ ~turns[t].streamed
    /\ turns' = [turns EXCEPT ![t].streamed = TRUE]
    /\ inbox' = Append(inbox, [kind |-> "delta", turn |-> t])
    /\ UNCHANGED <<messages, parked, receipts, daemon, alive, wire, taken, faults>>

FinishTurn(t) ==
    /\ alive /\ turns[t].status = "running"
    /\ turns' = [turns EXCEPT ![t].status = "completed"]
    /\ inbox' = Append(inbox, [kind |-> "completed", turn |-> t])
    /\ UNCHANGED <<messages, parked, receipts, daemon, alive, wire, taken, faults>>

(* What a dead process leaves in history: it sends nothing more; a turn it *)
(* was running had reached its end without a notice, or stays cut off.     *)
Ended(done) == [t \in Turn |->
                  [turns[t] EXCEPT
                     !.status = IF @ # "running" THEN @
                                ELSE IF t \in done THEN "completed" ELSE "stopped",
                     !.streamed = @ \/ turns[t].status # "unused"]]

RuntimeDies ==
    /\ alive /\ faults > 0
    /\ faults' = faults - 1
    /\ alive' = FALSE /\ wire' = {}
    /\ \E done \in SUBSET Running : turns' = Ended(done)
    /\ lock' = IF lock.op \in {"dispatch", "guide"}
               THEN [lock EXCEPT !.turn = NoTurn] ELSE lock
    /\ UNCHANGED <<store, dispatcher, found, ingestion, taken>>

(* wonderd stops; its runtime goes with it; dispatch::spawn settles the    *)
(* claims of the previous process before anything is claimed again.        *)
Crash ==
    /\ faults > 0
    /\ faults' = faults - 1
    /\ messages' = Reclaimed(messages, TRUE)
    /\ alive' = FALSE /\ wire' = {}
    /\ \E done \in SUBSET Running : turns' = Ended(done)
    /\ lock' = Unlocked
    /\ dispatcher' = [pc |-> "idle", listed |-> {}]
    /\ found' = [m \in Message |-> NoTurn]
    /\ ingestion' = [pc |-> "due", recovering |-> TRUE, requested |-> FALSE,
                     todo |-> {}]
    /\ UNCHANGED <<inbox, parked, receipts, taken>>

-----------------------------------------------------------------------------
Person == \E m \in Message :
             \/ Send(m) \/ Edit(m) \/ Cancel(m) \/ Retry(m)
             \/ \E t \in Turn : SendGuide(m, t) \/ MoveToGuide(m, t)

Stop == StopRecord \/ \E m \in Message, t \in Turn : StopRequest(m, t)

Tick == \/ TickStart \/ ListDispatch \/ TickEnd
        \/ \E m \in Message : SkipListed(m) \/ Dispatch(m)
                              \/ GuideFails(m) \/ DispatchGuide(m)

Submission == BeginSubmission \/ StartAnswered \/ StartUnanswered
              \/ SteerAnswered \/ SteerRefused \/ SteerUnanswered

Receipts == \E m \in Message :
               AcceptReceipt(m) \/ \E t \in Turn : ScanReceipt(m, t)

Projector == ProjectUnmapped \/ ProjectCompletion \/ ApplyDelta
             \/ \E m \in Message : LoadDelta(m)

Recovery == RecoverDue \/ RecoverDrained \/ RecoverStart \/ RecoverDone \/ RecoverAbort
            \/ \E m \in Message : RecoverMessage(m)

Take == \E r \in wire : TurnSteer(r) \/ \E t \in Turn : TurnStart(r, t)

Runtime == Take \/ \E t \in Turn : StreamDelta(t) \/ FinishTurn(t)

Fault == ListedFails \/ PrepareFails \/ SaveFails \/ RuntimeDies \/ Crash

Next == Person \/ Stop \/ Tick \/ Submission \/ Receipts \/ Projector
        \/ Recovery \/ Runtime \/ Fault

Spec == Init /\ [][Next]_vars

(* Each task of the daemon keeps running, the runtime acts on requests and *)
(* ends its turns.  The receipt scan waits for update admission, which the *)
(* dispatch loop takes and gives back for ever: the mutex is first come,   *)
(* first served.  Nothing obliges a person to act or a fault to happen.    *)
Fairness ==
    /\ WF_vars(Tick) /\ WF_vars(Submission) /\ WF_vars(StopRecord)
    /\ WF_vars(Projector) /\ WF_vars(Recovery) /\ WF_vars(Take)
    /\ \A t \in Turn : WF_vars(FinishTurn(t))
    /\ \A m \in Message : /\ SF_vars(\E t \in Turn : ScanReceipt(m, t))
                          /\ SF_vars(AcceptReceipt(m))

FairSpec == Spec /\ Fairness

-----------------------------------------------------------------------------
TypeOK ==
    /\ messages \in [Message -> Row]
    /\ inbox \in Seq(Notice) /\ parked \subseteq Notice /\ receipts \subseteq Turn
    /\ lock \in Holder /\ (lock.op # "free" => lock.message \in Message)
    /\ dispatcher \in Loop
    /\ found \in [Message -> Turn \cup {NoTurn}]
    /\ ingestion \in Task
    /\ alive \in BOOLEAN /\ wire \subseteq Request
    /\ turns \in [Turn -> History]
    /\ taken \in [Message -> Seq(Nat)]
    /\ faults \in 0..MaxFaults

(* The runtime takes a message at most once, whatever is lost, retried or  *)
(* restarted: a lost reply never leads to a second submission.             *)
AtMostOnce == \A m \in Message : Len(taken[m]) <= 1

(* A message shown as waiting, safe to retry or failed has not reached the *)
(* runtime and nothing on its way there carries it: a retry cannot repeat  *)
(* work.                                                                   *)
RetriableNeverRan ==
    \A m \in Message :
        messages[m].state \in {"unsent", "accepted_by_wonder", "safe_to_retry",
                              "failed"}
        => taken[m] = <<>> /\ \A r \in wire : r.message # m

(* An edit that was accepted is what the runtime gets, and a message whose *)
(* cancellation was accepted is never run: a claim and an edit exclude     *)
(* each other, and the claimed row is read again after the claim.          *)
OwnerDecides ==
    \A m \in Message :
        /\ taken[m] # <<>> => taken[m][1] = messages[m].body
        /\ messages[m].state = "interrupted" /\ messages[m].turn = NoTurn
           => taken[m] = <<>>

(* As long as nothing fails, a conversation runs one turn at a time: a     *)
(* message is claimed only when no other is being sent or answered.  (An   *)
(* "uncertain" message does not hold its queue, so a lost reply can give a *)
(* conversation two turns.)                                                *)
OneTurnAtATime ==
    \A t, u \in Running : t # u =>
        \A m \in turns[t].input, n \in turns[u].input : m \notin Peers(n)

(* As long as nothing fails, a conversation's messages reach the runtime   *)
(* in the order they were sent.                                            *)
InOrder ==
    \A n \in Message : \A m \in Peers(n) :
        m < n /\ Waiting(m) /\ messages[n].work = "dispatch" => taken[n] = <<>>

(* As long as nothing fails, a Guide is only ever an input of the turn it  *)
(* was meant for.                                                          *)
GuideStaysInItsTurn ==
    \A m \in Message, t \in Turn :
        messages[m].work = "guide" /\ m \in turns[t].input
        => messages[m].target = t

(* When the daemon is ready and has nothing left to project or reconcile,  *)
(* no message still counts as active on a turn that has ended: nothing     *)
(* else would ever settle it, and an active message holds its queue.       *)
Settled == Ready /\ ~ingestion.requested /\ inbox = <<>> /\ lock.op = "free"
Reconciled ==
    Settled => \A m \in Message :
                   messages[m].state \in Active
                   => turns[messages[m].turn].status = "running"

(* What was stopped or cancelled stays so: no late delta, completion or    *)
(* recovery brings it back.                                                *)
StoppedIsFinal ==
    [][\A m \in Message : messages[m].state = "interrupted"
                          => messages'[m].state = "interrupted"]_messages

(* A completed message is never active again. *)
CompletedIsFinal ==
    [][\A m \in Message : messages[m].state = "completed"
                          => messages'[m].state = "completed"]_messages

(* What a person is told, in the terms of DeliveryPromise.  A message keeps *)
(* to the promise: it runs at most once, never while it can still be       *)
(* withdrawn or retried, and its turn is shown only if it really ran there. *)
ReceiptOf(m) ==
    CASE messages[m].state = "unsent" -> "unsent"
      [] messages[m].state \in {"accepted_by_wonder", "safe_to_retry", "failed"}
            -> "held"
      [] messages[m].state \in Final -> "closed"
      [] messages[m].state \in Open \cup {"dispatching_to_codex"}
            -> IF messages[m].turn = NoTurn THEN "submitted" ELSE "confirmed"

Promise == INSTANCE DeliveryPromise
               WITH receipt <- [m \in Message |-> ReceiptOf(m)],
                    runs <- [m \in Message |-> Len(taken[m])]
KeepsPromise == Promise!Spec

(* A waiting message leaves its queue: the dispatch loop reaches it unless *)
(* its owner cancels it.                                                   *)
QueueMoves == \A m \in Message : Waiting(m) ~> ~Waiting(m)

(* A message the runtime works on is settled in the end: completed,        *)
(* stopped, or uncertain if the runtime was cut off.                       *)
TurnsSettle ==
    \A m \in Message : messages[m].state \in Active
                      ~> messages[m].state \in Final \cup {"uncertain"}

(* A message the runtime took although its reply was lost is found again   *)
(* in the runtime's history, without a person's help.                      *)
LostReplyFound ==
    \A m \in Message : Ambiguous(m) /\ (\E t \in Turn : m \in turns[t].input)
                      ~> messages[m].turn # NoTurn

(* Every tick of the dispatch loop ends, so that update admission is given *)
(* back to the people who send messages.                                   *)
TickEnds == dispatcher.pc # "idle" ~> dispatcher.pc = "idle"
=============================================================================
