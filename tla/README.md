# Wonder: specifications, model checking and proofs

Wonder lets a person drive coding agents on their own computer from a phone.
The daemon `wonderd` keeps everything in one SQLite database, serves the phones
over HTTP and a WebSocket, and talks JSON-RPC to runtime processes (the Codex
app-server, a Claude bridge).  This directory holds TLA+ models of that daemon,
their TLC configurations and their TLAPS proofs.  Line numbers are those of the
repository this directory belongs to; in this file **S** is
`crates/wonder-store/src/lib.rs`, **L** `crates/wonderd/src/lib.rs`, **D**
`crates/wonderd/src/dispatch.rs`, **I** `crates/wonderd/src/ingestion.rs` and
**Q** `crates/wonder-store/src/queue.rs`.

| file | what it is |
|---|---|
| `Delivery.tla` | the core: how a message gets from a phone to the runtime and how its turn comes back |
| `DeliveryPromise.tla` | what the person is promised, without the machinery; `Delivery` implements it |
| `PendingQueue.tla` | the waiting messages of one conversation, and the phones that edit, cancel and reorder them from lists they fetched earlier |
| `QueueOrder.tla` | the list the owner thinks of; `PendingQueue` implements it |
| `CommittedSync.tla` | the journal of what the daemon commits, its replay to a phone, the phone's pages and read marks |
| `Approvals.tla` | what the runtime asks: approvals, questions with a deadline, calls of the computer tool |
| `ComputerControl.tla` | control of the Mac from a phone: the lease as row, gate and belief, and its input |
| `UpdateHandoff.tla` | a turn that an update of the host stops and the next daemon continues |
| `PushOutbox.tla` | alerts: intents, outbox, the push Worker and Apple, presence of the phones |
| `Automations.tla` | scheduled tasks: the schedule, the loop that claims occurrences, the runs |
| `ProviderSwitch.tla` | a Project thread that moves between Codex and Claude: its sessions and what they are told |
| `MCDelivery.tla`, `MCPendingQueue.tla`, `*.cfg` | small instances for TLC |
| `Protocols.tla` | `Approvals`, `ComputerControl`, `UpdateHandoff` and `Automations` side by side; `MCProtocols.tla` is its small instance |
| `Phones.tla` | `CommittedSync` and `PushOutbox` side by side |
| `Delivery_proofs.tla` | the inductive invariant of `Delivery`, what holds of it whatever fails, what holds until something fails, the ends of turns, and that `Delivery` implements `DeliveryPromise` |
| `PendingQueue_proofs.tla` | no phone changes a text, or an order, it has not seen; `PendingQueue` implements `QueueOrder` |
| `Protocols_proofs.tla` | `Approvals`: one answer, one action, and the record of both; `UpdateHandoff`: a stopped turn is continued once; and what is proved of each protocol holds of all of them side by side |
| `Phones_proofs.tla` | `CommittedSync`: no event is skipped silently, and a cleared mark was seen; and the same of both parts of `Phones` |
| `ComputerControl_proofs.tla` | each batch of input is carried out once and in order, and nobody is ahead of the Mac |
| `PushOutbox_proofs.tla` | one alert for an event, and none for what was seen |
| `Automations_proofs.tla` | types and bounds, and a run is what was accepted, once |
| `ProviderSwitch_proofs.tla` | no session is lost, work stays in the thread's session, and nobody works without knowing what happened |
| `PROJECT.json` | components, runs, mutants, source map, findings, hazards, theorems |

To check: `tlc -workers 2 -config DeliveryCalm.cfg MCDelivery` (and so on), and
`tlapm` on each of the eight `*_proofs.tla`.

## 1. The system

```
 phones, Mac app ──HTTP──► handlers ──rows──► SQLite ◄──claims── dispatch loop (D)
      ▲                        │ update admission ▲                  │ dispatch_lock
      │ WebSocket              └──────────────────┼──────────────────┤
      │ committed events                          │                  ▼ turn/start, turn/steer
 sync journal ◄── projections ── projector (I) ◄─ notification_inbox ◄── runtime process
                                  recovery task (I) ── thread/read ──────►
```

### Components, state, operations

| component | state | operations | hard behaviour | what makes it correct |
|---|---|---|---|---|
| **Delivery**: dispatch loop, send, Guide, stop, retry (D; L 9560-9990, 10400-11100; S 2150-2430, 3080-3350) | `messages`, `dispatch_work`, `guide_work`, `dispatch_attempts`; `dispatch_lock` | accept, claim, submit, save the answer, reclaim, steer, interrupt, retry, scan for receipts | lost replies, crash between two writes, edits against claims, two locks | a task runs at most once; what may be retried never ran; the queue moves |
| **Ingestion**: inbox projector and recovery (I) | `notification_inbox`, pending notices, receipts, readiness flags per provider | enqueue, project, park, drain, reconcile from history, replace a dead runtime | completion before its mapping, late deltas, recovery without `dispatch_lock`, backlog of 256 | nothing stays active on an ended turn; an ended message stays ended |
| **Message queue** (Q; `wonderd/src/queue.rs`) | `queue_position`, `queue_revision` | list, edit, cancel, reorder, move to Guide | stale views of several devices, hidden wake-up messages | a stale edit is refused; no message is lost or doubled |
| **Update admission** (`update_admission.rs`) | a tokio mutex, an update lease, paused flag | claim_guard, pause, resume, release | held for a whole tick | every tick gives it back; no work starts while paused |
| **App-server client** (`wonder-app-server`) | pending requests, child process | call, notify, answer, restart | a late answer after a timeout | a request is answered or reported lost |
| **Committed sync** (`sync.rs` in both crates) | `event_epoch`, the journal, read marks | commit, replay, prune, acknowledge | pruning under a reader, a new epoch, late acknowledgements | no gap is skipped silently; unread only cleared by what was shown |
| **Questions** (`questions.rs`) | question rows, deadlines | ask, answer, skip, expire | two devices and a deadline | one outcome, at most one message; the deadline answers what nobody does |
| **Approvals** (S 3356-3560; L 12279-; `computer_tools.rs`) | approval rows, saved responses, reserved tool calls; `approval_lock` | request, resolve, act, replay after a restart | a handler dropped or a crash while resolving, a call asked twice | the response the person gave, and no other, reaches the runtime; the Mac is used once for a call |
| **Computer control** (`computer_sessions.rs` in both crates, `ControlModels.swift`) | lease rows, the helper's gate, the phone's belief, the input sequence | acquire, heartbeat, prepare/advance input, release | two clocks, commands of dropped handlers, repeated batches | each batch carried out once and in order; the Mac is given back |
| **Push** (`push.rs` in both crates, `services/push`) | presence, registrations, intents, outbox, receipts at the Worker | distribute, send, finish, replace, revoke | lost answers, late reports, revocation during a send | one alert for an event; none for what was seen |
| **Automations** (`automations.rs`; L 4638-4899, 10095-10291) | the schedule and its revision, runs with a snapshot | edit, claim, materialise, run now, reconcile, recover | crash between claim and message, edits against claims, lost ends | a run is what was accepted, once; no run holds up the schedule for ever |
| **Update handoff** (`update_handoff.rs` in both crates) | `update_handoffs`, the lease, the suppressed notice | prepare, recover, continue, stop | crash or lost answer at each step, Stop at any time | a stopped turn is continued once; its owner is not left waiting |
| **Provider switch** (`provider_switch.rs` in both crates, `wonderd/src/projects.rs`) | the thread's session, the sessions it left, the owed handoff and its delivery | release, switch, resume, bind, deliver, clear | failure in the middle, lost answers, crash between two writes, going back and forth | no session is lost; work stays in the thread's session; a handoff is given once and nothing is missed |
| **Projects, assignments, Groups, threads, subagents, goals** | rows of their own on top of messages | a second dispatch path, plans of workers, wake-ups | wake-ups against the queue | the delivery properties again |
| **Pairing**, **relay**, **permissions**, **history**, **settings**, **media**, applications, scripts | see `PROJECT.json` | | | |

How they interact: HTTP handlers and the dispatch loop share the message rows
and exclude each other through *update admission*; the dispatch loop, the
projector and `interrupt_turn` exclude each other through *dispatch_lock*; the
recovery task takes neither for its writes; the runtime speaks only through
answers to requests and through the durable inbox.  Everything the person sees
goes through the sync journal.

`PROJECT.json` lists every component with its status and every hazard at its
line; the properties below were chosen from the hazards.

## 2. `Delivery`: what is modelled

Direct Bot conversations on the shared Codex runtime, one runtime thread per
conversation.  A message is a number, its creation order.

| variable | code |
|---|---|
| `messages` | a row of `messages` with its `dispatch_work`/`guide_work` row and the phase of its latest `dispatch_attempts` row |
| `inbox`, `parked`, `receipts` | `notification_inbox`; `pending_app_server_notifications`; `app_server_notification_receipts` |
| `lock` | `dispatch_lock` and where its holder is: `dispatch`, `guide`, `stop` (waiting for turn/interrupt to be saved) or `project` (a delta loaded, not yet applied) |
| `dispatcher` | the loop of D 29-100: idle, in its Guides, in its queue, or waiting for admission inside a tick. While not idle it holds update admission |
| `found` | what the receipt scan of D 190-330 has seen and not yet applied |
| `ingestion` | the recovery task of I and its readiness flags |
| `alive`, `wire`, `turns` | the runtime process, requests it has not acted on, its history (external code: what the daemon relies on) |
| `taken` | history variable: each text the runtime took, per message |
| `faults` | bound on crashes, lost replies and failed writes |

Actions are one per handler or per stretch between two points where another
task can act.  Those points are: a lock released, an `await` on the runtime, and
the places where a handler holds `dispatch_lock` while the recovery task, which
does not take it, can write.  Thus a claim is one step, the commit of
"submitting" with the request leaving is one step (`BeginSubmission`), the
answer is saved in a third (`StartAnswered`); a delta is loaded in one step and
applied in a second; a stop sends turn/interrupt in one and records in a second,
unless turn/interrupt is refused or not answered (`StopRecord`, L 9978-9987).  A
recovery finds the inbox empty in one step (`RecoverDrained`) and lists the active
messages in a second (`RecoverStart`), after the runtime has been replaced.  It may
also fail with a live runtime, at the cost of a fault (`RecoverAbort`), and a Guide
may be refused while its turn still runs (`SteerRefused`).
The groups of `Next` are the actors: `Person`, `Stop`, `Tick`, `Submission`,
`Receipts`, `Projector`, `Recovery`, `Runtime`, `Fault`.

Simplifications, each with its reason:

- A tick's readiness check and claim are one step: the recovery task writes no
  row that a claim can take.
- A recovery reads, awaits and applies the history of one message in one step
  (`RecoverMessage`, I 977-1174).  What it read cannot be out of date when it
  applies it: a turn that has completed or was cut off stays so, a turn that still
  runs leads to no write, and the rows it settles are those the table has when it
  applies.  The replacement of a dead runtime is one step with the listing: nothing
  is dispatched while a recovery is under way, so a new process has no turn that
  could begin or end in between.
- The HTTP gate reads readiness before it waits for admission and a recovery
  may begin in between, so `Send`, `SendGuide` and `Retry` do not ask for it.
- A crash includes the restart's `recover_direct_dispatch_claims`: nothing is
  claimed before it, so nobody can see the state in between.  A crash also ends
  the runtime, whose turns are then either completed without a notice or cut off.
- Positions are numbers; `Send` takes either 0 or a place after the queue.
  `Edit` counts versions of the text.
- `Reclaimed` of a live tick applies to `dispatch_work` rows; at start-up to all.

### `PendingQueue`

| variable | code |
|---|---|
| `rows` | the rows of one conversation: state (with the `dispatch_work` or `guide_work` row), `queue_position`, `queue_revision`; `text` counts versions of what the owner decided, the body and the execution settings |
| `replies` | answers to GET .../queue on their way to a phone, in any order |
| `seen` | `queues[chat]` of each phone |
| `kept` | history: the items a phone kept from a newer list when an older one arrived |
| `lists` | bound on the lists that are fetched |

A message is its creation order.  `Send` computes the position as
`insert_work_message` does (S 2223), `FollowUp` leaves it at the column's default
0 (`bot_management.rs:362`), `Reorder` writes negative ones (Q 115), `GivenBack`
and `Retry` keep the old one.  `Listed` is the daemon's list: without wake-ups
and follow-ups, and without the message that is next to be sent unless the Mac
holds the chat, which is an arbitrary Boolean here.  `Show` merges an answer as
`loadQueue` does (`ConnectionModel.swift:2331`): an item known in a newer
revision is kept (`Newer`), the order and the membership are the answer's.

A request is one step made from what the phone shows.  This loses nothing: a
request that is overtaken by a newer list names older revisions, which are
refused, or the same ones, and then it is the request the newer list would give.
What happens to a message after its claim is reduced to its outcome; `Delivery`
has the detail.  `GET` reads the execution settings after the rows
(`wonderd/src/queue.rs:87-99`); a change in between leaves the item with the
older revision, which is refused, so the list is taken in one step.

`QueueOrder` has no positions, revisions or phones: a set of waiting messages
and which is ahead of which.  The refinement maps `ahead` to the pairs in
`Before`.  In it work is taken only from the front and only when nothing is
sent or answered, a message joins at the end unless it is a follow-up, one that
was taken may come back, and two waiting messages change places only in
`Rearrange`.

### `CommittedSync`

A transaction that changes what a conversation shows appends a row to the
journal by trigger; the phone learns from a row only that its page is stale and
reads the page.

| variable | code |
|---|---|
| `epoch`, `start`, `floor`, `journal` | `sync_state` and `sync_journal` (`wonder-store/src/sync.rs:25-130`): `floor` counts the rows that retention has deleted, the rest are the rows |
| `unread` | `has_unread` of the conversation |
| `stream`, `wire` | one socket of `wonderd/src/sync.rs`: what it has sent, and the frames on it |
| `cursor`, `cached`, `dirty`, `marks` | `ProjectionState` of `ReadCache.swift`: `hostEpoch` and `lastSequence`, the pages, the stale scopes and `invalidatedThrough` |
| `reader` | the tasks of the phone that read: the resnapshot, the coalesced refresh, the read that opening makes; each has its request or its answer |
| `visible`, `acks`, `shown` | the conversation on screen, read acknowledgements under way, and (history) what was displayed |
| `base` | history: the cursor when everything cached was last marked |

An HTTP answer is taken in one step and applied in another, so that readers
overtake each other and the events; a row's number stands for the content it
announces.  Left out: reads that fail, deleted conversations, Groups (whose
content comes with the list), the phone's own unread display, the cache on
disk, and host notices that invalidate nothing (a row without a conversation
invalidates everything here).

### `Approvals`

| variable | code |
|---|---|
| `row` | `approvals`: the state, the idempotency key and the saved response |
| `call` | `computer_tool_calls`: the request that reserved a call |
| `holder` | who holds `approval_lock` in `resolve_approval` (L 12279-) and how far: checking, intending, reserving the call (`execute`), acting, saving, responding, apologising, finishing |
| `due`, `alive`, `turnOver` | the deadline has passed; the runtime answers; the turn that asked is over |
| `sent`, `acted`, `broken` | history: the replies the runtime was given, how often a call was carried out, whose handler was dropped half way |

The owner's handler is dropped at any point, or one of its writes or of those of
the deadline fails (`Abandon`); the runtime withdraws the request, ends the turn
or dies, and a restart finds rows `resolving`.  A call is reserved in one step
(`Execute`) and carried out in the next (`Act`), if the reservation could be
written.  The automatic path of a permitted call is the same sequence with a key
of the daemon's own; it is spawned, so nobody drops it, and when a read or write
of it fails it answers that it cannot confirm what was done (`Unconfirmed`,
`Unclaimed`; `computer_tools.rs:212-228`).  Left out: the signature and the file
version of an answer, beyond that a request may be refused; asynchronous questions
of an assistant message.

### `ComputerControl`

| variable | code |
|---|---|
| `lease` | `computer_control_leases`, by `client_request_id` |
| `handler` | the HTTP handlers of `wonderd/src/computer_sessions.rs` for acquire, heartbeat, input, release, and the point they have reached |
| `pipe`, `consent` | the commands to the helper, in order, and what the person at the Mac said |
| `gate`, `revoked` | `ControlLeaseGate` (`ControlModels.swift:100-`) and the events it sends back |
| `phone` | what `ComputerSessionView.swift` believes |
| `executed` | history: how often each batch was carried out |

The row and the gate expire by clocks of their own (`late`).  A call to the
helper may time out with its command still in the pipe, and a handler is dropped
when the phone hangs up.  There is one phone with one live session and at most
one handler of each kind (the phone waits for each); the payload of a batch is
fixed by its request and number.  A batch is carried out as a whole or refused as
a whole.  In the code a native delivery that fails (`WonderComputerUse.swift:336-345`) may have done the first events of the
batch, and the gate does not advance; the phone gives up on a refusal, but a
repetition that is already on its way would do them again.  `EachInputOnce` says
nothing of such a part of a batch.  Left out: the session and its media, teaching,
the preference that turns control off, a restart of the daemon (which ends every
session), several phones.

### `UpdateHandoff`

| variable | code |
|---|---|
| `history`, `carries`, `wire` | the runtime's thread: its turns, the `resume_client_id` of each, and requests under way (external) |
| `message` | the row of the message: its turn and its state |
| `handoff` | `update_handoffs`: `paused`, `submitting`, `resumed`, `cancelled` |
| `events`, `requested`, `scan` | completion notices, a requested reconciliation and what it has listed |
| `worker` | the holder of `dispatch_lock`: a preparation, the recovery task or Stop, and the point it has reached |
| `preparing` | the lease of `update_admission.rs` |
| `sends`, `stopped`, `told` | history |

The notice of a turn that was interrupted for an update is suppressed
(`wonderd/src/update_handoff.rs:396`), which is why somebody else has to settle
the message.  Left out: child threads, goals and background commands, which
refuse or join a preparation.

### `PushOutbox`

| variable | code |
|---|---|
| `device`, `reg`, `outbox`, `intent`, `suppressed`, `settled`, `old` | the tables of `0071_push.sql`, and the age and source that decide about an intent |
| `net`, `issued`, `accepted`, `foreground` | presence: reports under way, when the last that counted was issued, what the daemon takes the phone to be doing |
| `sender` | the loop of `wonderd/src/push.rs:229-317` |
| `enrolled`, `receipt`, `request` | the push Worker: its registrations, its deliveries and the requests it is at |
| `looked`, `alerted`, `forgot` | history: what the phone was in use for, what Apple accepted, what the Worker could not note |

A request may be answered too late, after the loop has gone on; the Worker may
die between Apple's answer and its receipt.  Merged: verification and
registration, preview and permission to send, the Worker's lookup and claim.
A retry waits until the earlier request is over; how long beyond that is left
open, since the loop may end a tick with alerts to send (`NoPush`).  Left out:
the preview and its encryption, routing to parents and groups, rate limits,
retention of a week, the enrolment challenge.

### `Automations`

| variable | code |
|---|---|
| `schedule`, `clock` | the row of `automations` (`next_run_at`, status, revision; `text` stands for the task) and the time |
| `run` | `automation_runs` with its snapshot, of which the text counts; `linked`: its message was made |
| `loop` | `spawn_automation_scheduler` (L 10095-10202) between its read and its claim |
| `handler` | `run_automation_now` (L 4827-4899); like the loop it holds update admission |
| `task` | the `run_automation` tasks (L 10204-10291), by who spawned them: two may exist for one run |
| `message`, `lock`, `wire`, `turn`, `notice` | the message of a run as `Delivery` has it, reduced to what ends a run |
| `agreed`, `taken` | history: the text when the run was accepted, and the texts the runtime took |

One automation of a Bot in its own conversation.  A PATCH is one step, because
its write checks the revision it read; reconciling, recovering and listing are
one step of a tick.  Unlike in `Delivery`, any waiting message may be claimed:
the order of several runs is the queue's affair.  Left out: the arithmetic of
rules, deletion, Groups and Project threads, model settings, edits of the
waiting message.

### `ProviderSwitch`

| variable | code |
|---|---|
| `message` | the rows of `messages` with the provider of `message_execution_settings` and the phase and session of the latest attempt |
| `thread` | `project_conversations` (`agent_family`, `native_session_id`) and its row of `runtime_bindings` |
| `past`, `entries` | `project_runtime_history` and its autoincremented id |
| `pending`, `delivery` | `project_pending_handoff`, `project_handoff_delivery` |
| `worker` | `dispatch` of `projects.rs` (3436-3516): who holds `dispatch_lock`, and how far |
| `started`, `wire`, `live`, `ran` | the providers: sessions, requests on their way, running turns, what was run where |
| `heard`, `given`, `unnoted`, `dropped` | history: what each session knows, which handoffs it was given, the deliveries that were given up with nothing noted of them, an owed handoff that was overwritten |

One thread, messages in the order they are sent, each naming its provider.  A
release is `Claim`, then `apply_transition` (`KeepSession`, `Busy`, `Resume` or
`Fresh`), the binding of a session, `Begin`, `Submit`, and the answer's writes one
by one, because the daemon may stop between any two.  `delivery_started`,
`delivery_refused` and `delivery_accepted` go on when their writes fail
(`wonderd/src/provider_switch.rs:1164-1196`): `Note` and `ClearPending` write or,
within the bound `MaxFailures`, do not.  A failed write of the receipt or of the
failure leaves the claim to the next tick (`Unsaved`).  `RuntimeDies` is a runtime
that stops alone, `Restart` the daemon with both.  A handoff is the set of
messages it covers: `Carried` takes whole sessions, as `earlier` does.
`Resumable` reads the delivery of the session; that the provider does not answer
is the other branch of `Fresh`.  An uncertain message found by the scan, or ended
in the provider's history, passes through `accepted_by_codex`.  Left out: the
text and the budget of the briefing, positions of the timeline, messages that
name no model, chats held by the Mac, Guides and stops.

## 3. Properties

| property | statement | hazard |
|---|---|---|
| `AtMostOnce` | the runtime takes a message at most once | lost replies, crashes, failed writes |
| `RetriableNeverRan` | waiting, safe-to-retry and failed messages never reached the runtime and nothing under way carries them | a retry repeats work |
| `OwnerDecides` | the runtime gets the last accepted text; a cancelled message never runs | edits and cancels against claims |
| `OneTurnAtATime`, `InOrder` | without faults a conversation runs one turn at a time, in order | two claims, overtaking |
| `GuideStaysInItsTurn` | a Guide is only an input of its own turn | a move between listing and claim |
| `Reconciled` | when the daemon is ready and idle, an active message is on a running turn | completion before mapping; dead runtime |
| `StoppedIsFinal`, `CompletedIsFinal` | an ended message stays ended (`CompletedIsFinal` only in the run that violates it; without faults `KeepsPromise` says so) | late deltas, recovery, stop races |
| `KeepsPromise` | refinement of `DeliveryPromise` | all of the above, as one protocol |
| `QueueMoves`, `TurnsSettle`, `LostReplyFound`, `TickEnds` | liveness (`TickEnds` can meet the wait of L 11047 only where there are Guides: in `SelfWait`, not in `DeliveryLive`) | stuck queues, stuck ticks |
| `NoBlindEdit` | a phone whose edit, cancellation or move would be accepted shows the current text | stale lists, overtaken lists |
| `NoBlindReorder` | a phone whose reorder would be accepted shows the order the queue has, but for items it kept from a newer list when an older one came late | stale lists of several devices, lists that overtake each other |
| `KeepsOrder` | refinement of `QueueOrder` | positions that tie, go negative or are kept by a retry |
| `MarkedWhenStale` | a page that a consumed event has made stale is marked | pruning under a reader, overlapping reads, restarts |
| `ReadsAreSeen` | an unread mark goes only when every version up to then was displayed | a late acknowledgement, across pruning or an epoch |
| `VisibleCatchesUp` | what is on screen catches up with what is committed | gaps, lost sockets, resnapshots that are overtaken |
| `OneAnswer`, `DecidedAsSent` | the runtime gets one answer to a request, and the row records that one | two phones and a deadline; dropped handlers |
| `ActedOnce`, `ReceiptFirst` | a tool call is carried out once, and never without a response on record | the same call in two requests; a crash after the action |
| `DeadlineAnswers` | a question whose deadline has passed is answered, unless the runtime is gone or somebody was cut off while answering | a deadline that is skipped for good |
| `EachInputOnce` | a batch is carried out once and none is left out; neither row nor phone is ahead of the Mac | repeated batches, commands of dropped handlers |
| `HandedBack` | a gate whose phone let go is closed | two clocks, lost releases |
| `ContinuedOnce` | a stopped turn is continued by one request, only if it was cut off and the owner had not stopped it | lost answers, crash while submitting, Stop |
| `CutOffIsSettled` | work that an update cut off does not stay active without anybody told | the suppressed notice |
| `QuietOnceSeen` | no attempt begins for what the phone has seen | late reports against claims and retries |
| `AlertOnce` | an event alerts a phone once, through one registration, unless the Worker has no receipt | lost answers, replaced registrations |
| `RunsAsAccepted` | the runtime takes one task for a run, once, with the text of the accepted schedule | edits against a claim, a crash before the message, two tasks for one run |
| `CatchesUp` | a run ends and what is due is accepted, unless the run is uncertain or waits for a restart | lost notices, dropped tasks |
| `HistoryKept` | every session in which something ran is the thread's or one it left, and not both or twice | a switch, a failed binding or a crash between them |
| `RunsInTheThread` | what runs or may still be taken is in the thread's session | a switch beside a late request |
| `RunAsChosen` | a message is run by its provider, in one session | lost answers, replaced sessions |
| `GivenOnce` | a session is given a handoff once, unless its delivery was given up (a stop, a lost answer, a failed write) while nothing noted told that it may have been made | lost answers, refused turns, retries, failed writes |
| `KnowsAll` | whoever works on the thread knows all that happened in it, unless an owed handoff gave way to a later switch | going back and forth |

`KeepsPromise` maps a row to what the person is told: accepted, safe-to-retry
and failed rows are *held*; a claimed or uncertain row without a turn is
*submitted*; a row with a turn is *confirmed*; ended rows are *closed*.  The
abstract machine lets a submitted message be given back only if it never ran,
run once, and be confirmed only after it ran.

## 4. Runs

| run | bounds | faults | shows |
|---|---|---|---|
| `DeliveryCalm` | 3 messages, 2 conversations, 3 turns, Guides, edits, one streaming turn | 0 | order, one turn at a time, Guides, the promise |
| `DeliveryFaults` | 3 messages, 2 conversations, 3 turns, edits | 1 | type, at-most-once, the owner's word, reconciliation, the promise |
| `DeliveryGuides` | 2 messages, 1 conversation, 2 turns, Guides, a streaming turn, edits | 2 | safe retries and final stops, with Guides and late deltas |
| `DeliveryLive` | 2 messages, 1 conversation, 2 turns | 1 | the four liveness properties |
| `QueueEdits` | 3 messages, the last a follow-up; 2 phones, 3 lists, of which two may be on their way to a phone, in any order; 2 revisions | stale lists, claims, give-backs, retries | the order; no blind edit or reorder |
| `LateArrivals` | pages: 1 conversation, 3 rows, batches of 2, 1 opening, 1 acknowledgement. Alerts: 1 phone, 2 registrations, 1 question, 2 attempts, 2 reports, 1 change | 1 pruning, restart, lost socket or trip to the background; 1 lost answer or crash | nothing missed, the screen catches up, marks cleared only when seen; one alert, and none for what was seen |
| `Protocols` | 1 question; 1 call in two requests, keys yes and no, 3 attempts; 2 control requests with 1 batch, 2 calls; 3 turns, 2 updates, 1 Stop; 2 runs, 2 times, 1 request, 1 edit | drops and a dead runtime; 1 lost call; 1 crash or lost answer; 1 restart, lost answer or failed write | the properties of the protocols |
| `SwitchFaults` | 4 messages, 2 providers, 3 sessions | 1 failed or refused release, 1 lost answer, 1 failed write that is passed over, 1 stop of the daemon or of a runtime | sessions, work and handoffs stay where they belong; nobody works without knowing what happened |
| `ReorderRefused` | 3 messages, the first a wake-up; 1 phone | | a finding below |
| `GuideStuck`, `LateDelta`, `SelfWait` | 2 messages, 2 turns | 1 | the findings below |

Why these bounds: the order and exclusion properties relate two messages of a
conversation and a third that must not be affected; a message needs at most one
turn; one fault reaches each of the points where an attempt can be cut and two
faults reach a crash during the recovery from the first.  One edit distinguishes
the old text from the new.  One streaming turn suffices because a turn's second
delta takes the same path.  Turn ids are symmetric except for the streaming one;
the runs with liveness use no symmetry.

For the queue, two phones are one that changes and one that is stale; a third
list lets a phone show a newer list before an older one.  Two messages can tie
and change places and the third is the follow-up that joins in the middle.  Two
revisions distinguish "seen" from "changed since".  Two lists may be
on their way to a phone and arrive in either order: `loadQueue` has no guard
against a second request, and expects an older one to finish later.  The late
list keeps the newer revisions the phone knows but brings its own order, so
`NoBlindReorder` excepts those items (`kept`); without the exception TLC finds it
violated.  The theorems `NobodyReordersBlindly` and `NobodyEditsBlindly` are for
any number of lists in any order.

For the phone, a conversation is enough to be stale and a row without a
conversation stands for the others; three rows are a batch, a rest and an
acknowledgement's own row, and one fault of each kind reaches each of the races.
Two control requests are the lease that is left over and the next one; two calls
for one lease are an attempt and its repetition.  Three turns are a stopped one,
its continuation and a continuation of that.  Two runs are an occurrence and the
one it holds up, or the owner's; of an edit, a request and a fault at most two
happen.  Two registrations are the old one and its replacement.
Four messages take a thread to the other provider, back, and there again.  Three
sessions are one of each provider and a replacement of one of them.  One failed
write and one stop, lost answer or refusal reach each of the ways in which what is
noted of a delivery and what is owed can disagree.  The parts of
`Protocols` and of `LateArrivals` share no state: which part moves is chosen at
the start, so the run is as large as their sum.

Deadlock is checked in `DeliveryCalm`, `DeliveryFaults` and `DeliveryLive`.
It is not in `DeliveryGuides`, `GuideStuck` and `SelfWait`: with Guides and faults the system
really can stop, in the states that the findings `GuideStuck` and `SelfWait` describe.

Which restriction belongs to which finding: `Reconciled` is checked without
Guides and deltas, and with them it holds until the first fault (`GuideStuck`,
`LateDelta`, the theorem `ReconciledCalm`); the promise with a late delta is checked only where no fault
occurs (`LateDelta`), `TickEnds` without Guides (`SelfWait`).  With those three repaired the properties could be checked
together.

The other runs do not check it: a conversation really ends when all messages
have been answered and the phones have asked for as many lists as they may, and
a protocol when its question is answered or its bounds are used up.

## 5. Fairness

`FairSpec` gives weak fairness to the daemon's own tasks: each tick, each
submission in progress, the record of a stop, the projector, the recovery task;
they are tokio tasks in loops that are woken by a notify or a timer (D 29-66,
I 440-520).  The runtime acts on a request it has and ends each turn it runs
(weak fairness per turn).  The receipt scan has strong fairness: it needs update
admission and `dispatch_lock`, which the dispatch loop takes and gives back for
ever; tokio's mutex queues waiters first come, first served, so a waiter that is
enabled again and again gets its turn.  Nothing obliges a person to act, and a
fault never has to happen.

The other liveness properties ask for less.  `CommittedSync`: the phone's replay
loop connects, the daemon's stream sends, frames are received, and each of the
phone's readers gets its answer.  `Approvals`: the loop that expires questions,
and whoever holds `approval_lock` goes on or is dropped.  `ComputerControl`: the
daemon's handlers, the helper that executes its pipe, the two clocks.
`UpdateHandoff`: whoever holds `dispatch_lock` goes on, the lease ends, the
recovery task, the projector and the scan take their turns.  `Automations`: the
scheduler's interval, and the spawned tasks, the projector and the runtime's
turns; the owner's handler holds admission only as often as he asks.  All of it
is weak fairness.  `PendingQueue`, `PushOutbox` and `ProviderSwitch` state none.
The dispatch loop also expires the questions and takes part in the recovery of a
handoff: where it waits for itself, as the finding `SelfWait` shows it can after a
lost turn/steer reply, it does neither.  `DeadlineAnswers` and `CutOffIsSettled`
assume that it does not.

## 6. Proofs

`Delivery_proofs` proves, for every set of messages, conversations and turns and
any number of faults and edits:

| theorem | statement |
|---|---|
| `InductiveInvariant` | `Spec => []IInv` |
| `TypeCorrect` | `Spec => []TypeOK` |
| `NeverTwice` | `Spec => []AtMostOnce` |
| `RetryIsSafe` | `Spec => []RetriableNeverRan` |
| `OwnersDecide` | `Spec => []OwnerDecides` |
| `StoppedStaysStopped` | `Spec => StoppedIsFinal` |

Its last part is about what holds until something fails, where `Calm` says that nothing
has failed so far (the budget of faults is whole):

| theorem | hypothesis | statement |
|---|---|---|
| `OneTurn` | | `Spec => [](Calm => OneTurnAtATime)` |
| `SentOrder` | | `Spec => [](Calm => InOrder)` |
| `GuideStays` | | `Spec => [](Calm => GuideStaysInItsTurn)` |
| `ReconciledCalm` | | `Spec => [](Calm => Reconciled)` |
| `ReconciledPlain` | `Guidable = {}`, `Streaming = {}` | `Spec => []Reconciled` |
| `PromiseButLate` | | every step of every message is one of `DeliveryPromise`, or `LateArrival` |
| `PromiseKept` | `Streaming = {}` or `MaxFaults = 0` | `Spec => KeepsPromise` |

`PendingQueue_proofs` proves, for every set of messages, phones, wake-ups and
follow-ups and any number of revisions and lists:

| theorem | statement |
|---|---|
| `ListsAreTrue` | `Spec => []IInv` |
| `QueueTypeCorrect` | `Spec => []TypeOK` |
| `NobodyEditsBlindly` | `Spec => []NoBlindEdit` |
| `TableIsAList` | `Spec => KeepsOrder` |
| `NobodyReordersBlindly` | `Spec => []NoBlindReorder` |

`NoBlindEdit` is not inductive, since a list on its way could hold anything; the
strengthening `ListsTrue` says of every list, shown or on its way and in
whatever order it arrives, that no revision in it is ahead of the table and that
the same revision means the same text.  It is preserved because each step that
changes a text bumps the revision (`RowsStep`).  `TableIsAList` needs the type
invariant only: (position, creation) is a strict total order of the waiting
messages whatever the positions are (`QueueOrdered`), and each step changes the
row of one message (`QueueStays`, `LeavesStep`, `EntersStep`) except `Reorder`,
which is a rearrangement.  In `SendStep` the new position is above all others,
hence the message is last.

`NoBlindReorder` needs `PlacesTrue` besides: two messages whose revisions in a
list are still those of the table are in the queue in the order that list shows
(`PlacesOf`), because every step that moves a message bumps its revision, and a
message that is sent later goes behind both.  What a phone shows is merged row
by row from what it showed and the list that arrives, late or not.  A row that the
list brings stands where the list says, and `PlacesTrue` is a fact about the table
and that list alone; a row that was kept from a newer list (`kept`) stands where an
older list had it, although its revision is the current one.  So `PlacesTrue`
leaves out what was kept, and so does `NoBlindReorder`: there
`ConnectionModel.swift` does let a phone put back an order nobody looks at.

The assumptions are the three ASSUMEs of
`PendingQueue`: messages are finitely many numbers, wake-ups and follow-ups are
among them, and the bounds are numbers.

For every number of conversations, phones, requests, rows and faults:

| module | theorem | statement |
|---|---|---|
| `Phones_proofs` | `TypeCorrect` | `Spec => []TypeOK` of `CommittedSync` |
| | `StaleIsMarked` | `Spec => []MarkedWhenStale` |
| | `ClearedIsSeen` | `Spec => ReadsAreSeen` |
| | `PartsImplemented` | `PhonesSpec` implements `CommittedSync` and `PushOutbox` |
| | `AlertedOnce`, `QuietWhenSeen`, `PagesStayTrue` | `PhonesSpec => []AlertOnce`, `QuietOnceSeen`, `[]MarkedWhenStale /\ ReadsAreSeen` |
| `Protocols_proofs` | `TypeCorrect` | `Spec => []TypeOK` of `Approvals` |
| | `AnsweredOnce`, `CarriedOutOnce`, `ReceiptComesFirst`, `DecidedIsSent` | `Spec => []OneAnswer`, `[]ActedOnce`, `[]ReceiptFirst`, `[]DecidedAsSent` |
| | `HandoffInvariant`, `Continued` | `Handoff!Spec => []HandoffInv`, `ContinuedOnce` |
| | `PartsImplemented` | `ProtocolsSpec` implements the four protocols (`Automations` without its fairness) |
| | `TypesCorrect` | `ProtocolsSpec => []TypesOK` |
| | `InputOnce`, `ContinuesOnce`, `RunsKeepTheirTask` | `ProtocolsSpec => []EachInputOnce`, `ContinuedOnce`, `[]RunsAsAccepted` |
| `ComputerControl_proofs` | `TypeCorrect` | `Spec => []TypeOK` |
| | `InputOnce` | `Spec => []EachInputOnce` |
| `PushOutbox_proofs` | `TypeCorrect` | `Spec => []TypeOK` |
| | `AlertedOnce` | `Spec => []AlertOnce` |
| | `QuietWhenSeen` | `Spec => QuietOnceSeen` |
| `Automations_proofs` | `RunsAreAsAccepted` | `Spec => []RunsAsAccepted` |
| | `TypeCorrect` | `Spec => []TypeOK` |
| `ProviderSwitch_proofs` | `InductiveInvariant` | `Spec => []IInv` |
| | `HistoryStays`, `WorkStaysInTheThread`, `RunByTheChosen` | `Spec => []HistoryKept`, `[]RunsInTheThread`, `[]RunAsChosen` |
| | `ContextOnce`, `WorkerKnowsAll` | `Spec => []GivenOnce`, `[]KnowsAll` |

The pages, in `Phones_proofs`.  That stale pages are marked is not inductive: a page
whose mark was cleared by a read might have been read before the event.  The
invariant `Covered` says that every row consumed since `base` has left a mark at
least as new, or that a page at least as new has been installed since; and
`ReaderOK`, that an answer on its way is no newer than the journal and belongs
to the epoch it was asked in.  `OwnerInv` says that what is displayed and what is
acknowledged was shown (`Displayed`); pruning and a new epoch are why
`ReadFence` asks for all rows after the acknowledgement.

Approvals, in `Protocols_proofs`.  The strengthening says what the holder of `approval_lock`
knows at each stage (`Stages`), that a saved response has the key it was saved
with (`KeyWithSaved`), that only the request that reserved a call acts, and only
while its reservation is new (`Reserved`, and `Hold` for the stage between the
reservation and the action), and that whatever was sent is what was saved (`SentIsSaved`,
`Hold`): this survives a dropped handler, because the row is written first.

The handoff, in `Protocols_proofs`.  `ContinuedOnce` speaks of the moment in which
a continuation is sent; the step that sends it looks only at the state of the
handoff, and everything else was looked at before the lock's holder awaited an
answer.  `HandoffInv` says what stays true meanwhile.  A handoff that is not yet
`submitting` was never sent, is on no wire and is carried by no turn (`Unsent`),
so that a claim, which takes a handoff only from `paused`, is of one that was
never sent.  The holder that is about to claim works on a turn that was cut off
(`Held`), because no ended turn runs again and rows, requests and the holder name
turns that have begun (`Begun`).  The owner's Stop cancels what waits, and a
stopped turn is not running any more unless its handoff was cancelled
(`StopRespected`), so none can be prepared for it later: this is why a
preparation in progress and a Stop that awaits its answer are part of `Held`.
`OnlyClaimSends` says that no other step sends anything.

`ComputerControl_proofs`.  The helper forgets how far it got when a gate closes,
so a gate that opens again for the same request would carry out its first batch
once more.  The invariant follows the commands that open gates.  A request may
still be made (`Contested`) until the phone has had an answer to it, and as long
as it may, nothing was sent or carried out under it (`Untouched`; `Fresh`).  That
it is over once the phone is in control rests on the order of the pipe: an
attempt whose handler was dropped is ahead of the one that goes on (`LastOne`),
so the answer to that one comes when no command to open a gate is left
(`NoneLeft`).  `Listening` says whose answers the phone still takes, after it has
hung up on the others.  `GateKnows` and `InOrder` give the first two parts of
`EachInputOnce`; `Behind`, that a handler reports only a batch which the helper
has acknowledged or the row had reached, gives the third.  `Owned` says who waits
for which command of the pipe, and one step is described once, by what it does to
the pipe (`PipeMove`), the helper (`HelperMove`), the phone (`PhoneMove`) and the
reports of the handlers (`ReportMove`).

`PushOutbox_proofs`.  `Watching` and `Quiet` say that what a phone in use has
seen is suppressed or not pending, which is a fact about the tables that the late
reports, claims and retries preserve; `OneActive` and `OneTarget` that a phone
has one live registration and an event one row that can still be sent; `Counted`
that Apple accepted an alert at most once more than the Worker forgot.  `Fresh`
and `Unasked` are what the loop knows between its check and its request.

`Automations_proofs`.  A claim compares revisions, not texts: `SeenTrue` says that
a copy with the schedule's revision has its text, so that what is claimed is the
current task.  `Untaken` and `TakenOnce` say that the state of a message tells
whether the runtime may have it, so that only a message that was never sent is
sent.  The proof needs no assumption on the constants.  `TypeCorrect` needs that
the bounds are numbers; `WithinInv` says why the counters stay within
them: each occurrence that is claimed takes a run that was free, so the revision
of the schedule is bounded by the edits and the runs below the first free one,
and what the loop and the handler have read is no newer than the schedule.

Side by side.  `Protocols` and `Phones` choose at the start which part moves, so
each of their steps is a step of one part and leaves the others unchanged
(`PartsImplemented`).  The theorems of a part that has a proof module of its own
are cited through an instance of that module (`ControlProved`,
`AutomationProved`, `AlertsProved`).  tlapm treats the operators of two instances
as different even when they have the same definition; for each operator that a
theorem needs a lemma says that the two are equivalent (`ControlNext`,
`AutomationNext`, `AlertsNext` and so on): each is one line per definition, and
none says anything of the system.

`ProviderSwitch_proofs`.  The three properties say nothing of the release in
progress, which is about to change them.  `Held` and `NewSession` say what its
holder knows at each stage: the message is still claimed, the session it works
with is the thread's, and a new one is nobody else's.  `Untaken` says that a
message which was not sent is on no wire and in no session, `InFlight` and
`Running` that what was sent is uncertain, claimed or active.  A switch finds no
other message in those states, so nothing is on its way or running when it
rebinds the thread.  `AllAgree` and `InOrder` say that a session is in one place
and of one provider, which a switch preserves because it takes what it resumes
out of the record.

The two properties of the briefing need a second invariant on top of that one,
`BriefInv`.  A switch waits until nothing is under way, and a release is the only
one, so what is owed does not change while a request carries it: `Carries` and
`Holds` say that the request on the wire and the holder of the release carry
exactly what is owed (`News`), and `NoDoubt` that no second one is prepared while
an answer is missing.  An entry is given once because it is newer than all that
was given before (`GivenBefore`), and while it is owed and was given, the session
is marked `pending`, which is what the next release looks at, or the holder of the
release is about to clear it (`Once`).  A failed write breaks this in two ways: the
mark was never made and the answer is lost, or the mark was changed to `injected`
and the debt stays.  Both end in a delivery that is given up while the session is
not marked `pending`: exactly these pairs of session and entry are in `unnoted`,
and every clause of the invariant about what was given excepts them and no others
(`Excepted`).  With no failed write, only a stop of the daemon between the two
writes of `delivery_accepted` adds one.

`Knows` says where the knowledge of each message is: known to the bound
session or owed to it, and, for a session that was left, known to it or run in
sessions that were left after it, which is what it will be owed when it is
resumed.  A switch that overwrites an unpaid debt breaks only this, hence
`dropped`.

The assumptions of the others are those of the modules: `SyncAssumption`,
`ApprovalsAssumption`, `ProtocolsAssumption`, `FamilyAssumption`, `SwitchAssumption` and `NoneAssumption`
(which values are distinct, which sets contain which, the bounds are numbers).
`PushOutbox`, like `Automations`, needs none.  The theorems about
`ComputerControl` have theirs as a hypothesis, `Bounds`: the number of requests,
batches and losses is a natural number.

Assumptions of `Delivery_proofs`: the five named ASSUMEs of `Delivery` (messages are numbers, each
has a conversation, the two "none" values are outside their sets, the bounds are
numbers), which TLC evaluates in every run.

The safety properties alone are not inductive.  From a state that satisfies
`AtMostOnce` and `RetriableNeverRan` alone, a claim held by the dispatch loop
might already have run, a Guide in the list might have been moved, a stop might
remember a message that was cancelled.  `IInv` adds what each task *remembers*
about the rows it has looked at:

- `UnspentUntouched`, `OneRequest`, `TakenAsShown`, `ActiveOnTurn`: a row before
  its submission has no request and no run; a message has one request or one run,
  never both, and it carries the row's text; an active row has a turn.
- `ClaimHeld`, `GuideHeld`, `DeltaHeld`: the message the holder of
  `dispatch_lock` works on is still in the state the holder left it in.
- `GuidesListed`, `TodoOnTurn`: listed Guides are still unsent Guides; the
  recovery task's messages have a turn.

The proof has one lemma per group of `Next`, one case per action, and a few
frame lemmas (`SettleStep`, `DeliverStep`, `ReclaimStep`, `TakeStep`) for the
four shapes of row update that many actions share.  `StoppedStaysStopped` uses
`IInv` in each case where a task writes a state without looking at it
(`update_message_delivery`, S 2407): the holder's knowledge says that the row it
writes is not a stopped one.

What holds until something fails rests on two more invariants.  `Places`, which
holds whatever fails, says that rows, answers and scans name turns that took the
message, that a turn has the messages of one conversation and a message one turn,
and that an end which is in the inbox, parked or recorded did come.  `Calmly`
says who works on what: the recovery that starts the daemon is over before the
first delivery and there is no other (`CalmTasks`), a request on the wire is the
one whose answer the dispatch loop awaits (`CalmWire`), a claim is being worked
on and only a refused Guide is uncertain (`CalmRows`), an input of a turn is on
it as soon as the answer is written down (`CalmInput`), the active messages of a
conversation are on one turn (`CalmBusy`) and a running turn has an active
message that keeps the next claim away (`CalmStarter`), and what waits is
overtaken by nothing that was sent later (`CalmQueue`).  The hypothesis `Calm` is
not a restriction of the constants: it is part of the statement, which speaks of
every state up to the first fault, for every budget of faults.  It cannot be
dropped: after a lost reply a conversation may have two turns, an uncertain
message may be overtaken, and a Guide may start a turn (section 7).

`Reconciled` follows from `EndsKnown`: for an active message of a turn that is
over, the end is in the inbox, or the runtime is dead, or a recovery is due that
has the message among those it will read.  A completion that is applied meets all
messages of its turn, because they are on it before anybody can look: `Orderly`,
which holds until the first fault and, where there are no Guides and no deltas,
always.  The first gives `ReconciledCalm`, the second `ReconciledPlain`; the run
`DeliveryFaults`, whose configuration has neither Guides nor deltas, checks the
second on a small instance.
With Guides and faults together it fails, which is the finding `GuideStuck`, and
with deltas and faults together because of the finding `LateDelta`: the message
that the late delta marks as streaming is on a turn that is over.

The refinement needs no fairness.  `ReceiptStep` says of each action what it can
do to the receipt of a message and to the number of its runs; all of it is a move
of `DeliveryPromise` but one: a delta that was loaded before its turn was
completed and is applied after it (`LateArrival`, the finding `LateDelta`).
`PromiseButLate` is that statement, for every instance; with no deltas, or no
faults, it never happens, and `PromiseKept` is the refinement itself.

Checked by TLC only:

- the liveness properties `QueueMoves`, `TurnsSettle`, `LostReplyFound`,
  `TickEnds`, `VisibleCatchesUp`, `DeadlineAnswers`, `HandedBack`,
  `CutOffIsSettled` and `CatchesUp`: fairness and `ENABLED` are out of the
  prover's reach;
- `CompletedIsFinal`, which a run violates.

Every other property of a passing run is stated by a theorem, for every instance
or under the hypotheses in the tables above.  The type invariants of `Delivery`,
`Approvals`, `ComputerControl`, `UpdateHandoff` and `Automations` are part of
runs and theorems; those of `PendingQueue`, `CommittedSync`, `PushOutbox` and
`ProviderSwitch` are theorems or part of a proved invariant.

## 7. Findings

1. **`GuideStuck`** (L 1802).  A turn's completion is applied once.  A Guide whose
   turn/steer reply was lost and whose turn completes meanwhile is found by the
   receipt scan afterwards; the reconciliation it asks for finds the receipt
   claimed and leaves the Guide `accepted_by_codex` for ever, which holds its
   conversation's queue.
2. **`LateDelta`** (L 2253).  The delta handler holds `dispatch_lock` between
   looking at its message and marking it `streaming`; the recovery task does not
   take that lock, so a message completed in between is active again.
3. **`SelfWait`** (L 11047).  After a lost turn/steer reply the tick asks for
   update admission, which the tick itself holds.
4. **`ReorderRefused`** (Q 97).  A reorder has to name every waiting message, but
   the list leaves out wake-ups and the message that is next to be sent.  A phone
   that shows exactly the current list is told that the queue changed and to
   refresh, which does not help as long as the wake-up waits.

Seen while modelling, without a run of their own:

- `claim_message_for_dispatch` (S 3192) accepts a row that is not in
  `dispatch_work`; a message that was listed for dispatch and moved to Guide
  (`queue_to_guide`, Q 141) before its turn came is claimed and starts a turn of
  its own.  The move needs an active sibling, and the claim that it is gone again.
  Nothing of the kind happens until the first fault (the theorem `GuideStays`);
  after a lost reply, a recovery that reads while a delta and a stop arrive lets
  it happen, and TLC finds `GuideStaysInItsTurn` violated after 28 steps.
- An `uncertain` message does not hold its queue (Q 16), so after a lost reply a
  conversation can have two turns; this is why `OneTurn` stops at the first
  fault.
- A retried or given-back message keeps its old `queue_position`: it can go ahead
  of messages sent after it, or behind ones sent into the queue it left empty,
  which start again at 0.
- `wonderd/src/queue.rs:24-28` calls the phone's first placement of a message
  final; a message whose receipt said that it was not queued can be listed later,
  after a retry or when a claim is given back behind other work.

- Push (`wonderd/src/push.rs`).  Replacing a registration cancels the alerts
  that were pending for the old one, and those distributed to it between the
  enrolment at the Worker and the registration here end in 410: they are lost.
  `revoke_push` is per device, so one that is delayed can revoke a newer
  registration.  A row whose last attempt is cut off by a crash stays pending
  until it is a day old.  The Worker's limit of five attempts is never reached,
  the daemon's comes first.
- `expire_optional` (`questions.rs:171`) looks at `pending` rows only.  If the
  owner's handler is dropped between beginning and saving, the question is
  `resolving` and its deadline does nothing until the owner answers again.
- Stop, pressed while a continuation is being submitted and its answer was lost
  although the runtime took it, cancels the handoff and interrupts the message;
  the continuation is not bound and runs on, whereas
  `wonderd/src/update_handoff.rs:774` says that an accepted one must be committed
  even if its response arrived after Stop.
- A preparation that failed before its interrupt leaves a paused handoff of a
  turn that runs; if the Bot's access has changed, `recover_one` marks the
  message interrupted while its turn goes on.
- A heartbeat whose row was read before an input advanced it is refused, and the
  phone gives up although its lease is active; a heartbeat at the gate with
  another identity clears the active lease.
- Automations.  A run whose submission was not answered is reported failed at
  once (L 10712), although `reconcile_automation_runs` keeps such runs going
  while they are checked; the next run may then start while the first turn runs,
  in spite of "Atomic admission prevents overlap" (`automations.rs:22`).
  `finish_automation_run` writes whatever the state was.  When the write of the
  message fails, or the owner's handler is dropped between its claim and the
  spawn (L 4884-4891), the run stays `running` without a task until the daemon
  starts again, and holds up the schedule.
- A restart or a failed write between `set_project_native_session` and
  `bind_project_runtime` leaves a thread with a native session and no binding;
  every later release for that provider starts a session and is refused ("The
  conversation already has another native session") until the thread moves to
  the other provider.  An uncertain message whose request never reached the
  provider blocks every switch of its thread.
- A switch overwrites the handoff that is still owed
  (`wonder-store/src/provider_switch.rs:168`).  A session that was resumed, could
  not be given what it missed because the release failed, and was left again, is
  recorded with a newer entry; when it is resumed, only what was left after that
  entry is carried, and the rest is never told.  `KnowsAll` excepts it (`dropped`)
  and does not hold without the exception.
- `projects.rs:3880` says of a handoff that reached the session that "it is never
  sent again".  It is sent again when its delivery is given up and neither the
  mark nor the debt tells of it, because the errors of these writes are passed over
  (`wonderd/src/provider_switch.rs:1164-1196`): when the debt could not be cleared
  after the mark was changed to `injected`, with no crash at all; when the `pending`
  mark could not be written and the answer is lost; and when the daemon stops
  between the two writes of `delivery_accepted`.  `GivenOnce` excepts these
  deliveries (`unnoted`) and does not hold without the exception.
- An older list of the queue that arrives after a newer one keeps the newer
  revisions the phone knows and brings its own order
  (`ConnectionModel.swift:2329-2333`); a reorder made from it is accepted although
  the phone did not show the queue's order.  `NoBlindReorder` excepts the rows that
  were kept (`kept`) and does not hold without the exception.
- What is carried to a resumed session are whole sessions
  (`wonderd/src/provider_switch.rs:767`): the part of the other session it was given
  the time before is given again, whereas the head of that file promises "only what
  happened since".
- A message that is told "Your message will be sent when it finishes"
  (`wonderd/src/provider_switch.rs:1079`) becomes `safe_to_retry` and waits for the
  owner.
- In Group Chats an older answer of the list overwrites a newer one
  (`ConnectionModel.swift:1286-1324`); `CommittedSync` has Bots only.

## 8. Not modelled, and the plan

Parts of `Delivery` left out: Project threads (`ProviderSwitch` has their release), Groups, thread wake-ups,
subagents, restricted and Claude runtimes (several providers), the update lease
and paused flag, the 256-row backlog gate, item, approval and reasoning notices.
Parts of `PendingQueue` left out: attachments of a message, the child-thread
variant of the move to Guide, initialization messages (they behave like
follow-ups), the editor's saved draft, and the path from a claim to its outcome,
which is `Delivery`'s.  The other components are listed with their
reasons in `PROJECT.json`.

What would come next:

| module | composes | abstract specification | properties, theorems |
|---|---|---|---|
| `Ingestion` | inbox, projector with crash replay, backlog gate | each notice applied once, in order | exactly-once projection (proof); readiness returns |
| `AsyncQuestions` | questions of an assistant message | one outcome | one answer, as a Guide or as queued work |
| `ProviderSwitch` again | Guides, stops and held chats of a Project thread | | |
| `Delivery` again | Groups as a dispatch path, the restricted and the Claude runtime | | |

The larger part of the repository has no state machine of its own that TLC or a
proof would say something about: path and permission computations, JSON and
HTTP types, media, views of the phone and Mac applications, transport, packaging
and tests.  Groups, thread tools and goals do, and the rest of Projects; they are second paths to
the same message rows, and `Delivery` is where they would be added.
