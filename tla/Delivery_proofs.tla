--------------------------- MODULE Delivery_proofs ---------------------------
(***************************************************************************)
(* What holds of Delivery for every set of messages, turns and             *)
(* conversations and every number of faults.                               *)
(*                                                                         *)
(* None of AtMostOnce, RetriableNeverRan and OwnerDecides is inductive: a  *)
(* request on the wire, a claim held by the dispatch loop and a row that   *)
(* says "claimed" all carry a message to the runtime.  IInv says what each *)
(* of these places knows of its message.                                   *)
(*                                                                         *)
(* The second part adds Places: the turn a row, an answer or a scan names  *)
(* did take the message, and an end that is in the inbox, parked or        *)
(* recorded did come.  From it follows what one step can do to the state   *)
(* of a message and to what its owner is told (PromiseStep), which the     *)
(* refinement of DeliveryPromise rests on.                                 *)
(***************************************************************************)
EXTENDS Delivery, TLAPS

(* A message in one of these states may still go to the runtime, or was    *)
(* withdrawn before it did ...                                             *)
Unspent(m) ==
    \/ messages[m].state \in {"unsent", "accepted_by_wonder", "safe_to_retry",
                              "failed"}
    \/ messages[m].state = "dispatching_to_codex" /\ messages[m].phase = "claimed"
    \/ messages[m].state = "interrupted" /\ messages[m].turn = NoTurn

(* ... and so nothing of it may be there, or on its way.                   *)
Untouched(m) == /\ taken[m] = <<>>
                /\ messages[m].turn = NoTurn
                /\ \A r \in wire : r.message # m

UnspentUntouched == \A m \in Message : Unspent(m) => Untouched(m)

(* A message has at most one request on the wire, which the runtime has    *)
(* not taken and which carries what its owner sees.                        *)
OneRequest == \A r \in wire : /\ taken[r.message] = <<>>
                              /\ r.body = messages[r.message].body
                              /\ \A s \in wire : s.message = r.message => s = r

TakenAsShown == \A m \in Message :
                   taken[m] = <<>> \/ taken[m] = <<messages[m].body>>

ActiveOnTurn == \A m \in Message :
                   messages[m].state \in Active => messages[m].turn \in Turn

(* What the holder of dispatch_lock knows of the message it works on.      *)
ClaimHeld ==
    lock.op = "dispatch" =>
        /\ messages[lock.message].state = "dispatching_to_codex"
        /\ messages[lock.message].turn = NoTurn
        /\ messages[lock.message].body = lock.body
GuideHeld ==
    lock.op = "guide" => /\ messages[lock.message].state = "uncertain"
                         /\ messages[lock.message].turn = NoTurn
DeltaHeld ==
    lock.op = "project" => /\ inbox # <<>>
                           /\ lock.turn \in Turn
                           /\ messages[lock.message].turn = lock.turn
                           /\ messages[lock.message].state # "interrupted"

(* What the lists of the dispatch loop and of the recovery task know.      *)
GuidesListed ==
    dispatcher.pc = "guides" =>
        \A m \in dispatcher.listed : /\ messages[m].state = "accepted_by_wonder"
                                     /\ messages[m].work = "guide"
TodoOnTurn == \A m \in ingestion.todo : messages[m].turn \in Turn

(* IInv, in four parts: types, rows, holders of the lock, lists.            *)
RowsSafe == UnspentUntouched /\ OneRequest /\ TakenAsShown /\ ActiveOnTurn
HoldersKnow == ClaimHeld /\ GuideHeld /\ DeltaHeld
ListsKnow == GuidesListed /\ TodoOnTurn

IInv == TypeOK /\ RowsSafe /\ HoldersKnow /\ ListsKnow

-----------------------------------------------------------------------------
(* The helpers on the messages table keep it a table, and say which rows   *)
(* they change.                                                            *)

LEMMA RowType ==
    /\ \A r \in Row, s \in DeliveryState : [r EXCEPT !.state = s] \in Row
    /\ \A r \in Row, s \in DeliveryState, f \in {"closed", "claimed"} :
        [r EXCEPT !.state = s, !.phase = f] \in Row
    /\ \A r \in Row, s \in DeliveryState, t \in Turn \cup {NoTurn} :
        [r EXCEPT !.state = s, !.turn = t, !.phase = "closed"] \in Row
    /\ \A r \in Row, s \in DeliveryState, p \in Nat :
        [r EXCEPT !.state = s, !.work = "dispatch", !.position = p] \in Row
    /\ \A r \in Row, s \in DeliveryState, t \in Turn :
        [r EXCEPT !.state = s, !.work = "guide", !.target = t] \in Row
    /\ \A r \in Row, t \in Turn : [r EXCEPT !.work = "guide", !.target = t] \in Row
    /\ \A r \in Row : [r EXCEPT !.phase = "submitting"] \in Row
    /\ \A r \in Row, n \in Nat : [r EXCEPT !.body = n] \in Row
<1>1. \A r \in Row, s \in DeliveryState : [r EXCEPT !.state = s] \in Row
  BY DEF Row
<1>2. \A r \in Row, s \in DeliveryState, f \in {"closed", "claimed"} :
        [r EXCEPT !.state = s, !.phase = f] \in Row
  BY DEF Row
<1>3. \A r \in Row, s \in DeliveryState, t \in Turn \cup {NoTurn} :
        [r EXCEPT !.state = s, !.turn = t, !.phase = "closed"] \in Row
  BY DEF Row
<1>4. \A r \in Row, s \in DeliveryState, p \in Nat :
        [r EXCEPT !.state = s, !.work = "dispatch", !.position = p] \in Row
  BY DEF Row
<1>5. \A r \in Row, s \in DeliveryState, t \in Turn :
        [r EXCEPT !.state = s, !.work = "guide", !.target = t] \in Row
  BY DEF Row
<1>6. \A r \in Row, t \in Turn : [r EXCEPT !.work = "guide", !.target = t] \in Row
  BY DEF Row
<1>7. \A r \in Row : [r EXCEPT !.phase = "submitting"] \in Row
  BY DEF Row
<1>8. \A r \in Row, n \in Nat : [r EXCEPT !.body = n] \in Row
  BY DEF Row
<1> QED BY <1>1, <1>2, <1>3, <1>4, <1>5, <1>6, <1>7, <1>8

LEMMA DeliveredType ==
    ASSUME NEW table \in [Message -> Row], NEW m \in Message,
           NEW s \in DeliveryState, NEW t \in Turn \cup {NoTurn}
    PROVE  Delivered(table, m, s, t) \in [Message -> Row]
<1> DEFINE u == IF t = NoTurn THEN table[m].turn ELSE t
<1>1. u \in Turn \cup {NoTurn}
  BY DEF Row
<1>2. [table[m] EXCEPT !.state = s, !.turn = u, !.phase = "closed"] \in Row
  <2> HIDE DEF u
  <2> QED BY <1>1, RowType
<1> QED BY <1>2 DEF Delivered

Delivers(new, old, m, s, t) ==
    /\ new \in [Message -> Row]
    /\ \A n \in Message : n # m => new[n] = old[n]
    /\ new[m].state = s /\ new[m].body = old[m].body
    /\ new[m].turn = IF t = NoTurn THEN old[m].turn ELSE t

LEMMA DeliveredRow ==
    ASSUME NEW table \in [Message -> Row], NEW m \in Message,
           NEW s \in DeliveryState, NEW t \in Turn \cup {NoTurn}
    PROVE  Delivers(Delivered(table, m, s, t), table, m, s, t)
<1>1. Delivered(table, m, s, t) \in [Message -> Row]
  BY DeliveredType
<1> QED BY <1>1 DEF Delivers, Delivered, Row

(* The end of a turn touches open rows of that turn, and only their state. *)
SettlesTurn(new, old, t) ==
    /\ new \in [Message -> Row]
    /\ \A m \in Message :
          /\ new[m] # old[m] => /\ old[m].turn = t /\ old[m].state \in Open
                                /\ new[m].state \in {"completed", "uncertain"}
          /\ new[m].turn = old[m].turn /\ new[m].body = old[m].body
          /\ new[m].work = old[m].work /\ new[m].phase = old[m].phase

LEMMA TurnSettled ==
    ASSUME NEW table \in [Message -> Row], NEW t
    PROVE  /\ SettlesTurn(table, table, t)
           /\ SettlesTurn(CompletedTurn(table, t), table, t)
           /\ SettlesTurn(UncertainTurn(table, t), table, t)
<1>1. {"completed", "uncertain"} \subseteq DeliveryState
  BY DEF DeliveryState, Open, Final
<1>2. \A m \in Message : /\ [table[m] EXCEPT !.state = "completed"] \in Row
                         /\ [table[m] EXCEPT !.state = "uncertain"] \in Row
  BY <1>1, RowType
<1>3. /\ CompletedTurn(table, t) \in [Message -> Row]
      /\ UncertainTurn(table, t) \in [Message -> Row]
  BY <1>2 DEF CompletedTurn, UncertainTurn
<1>4. SettlesTurn(table, table, t)
  BY DEF SettlesTurn
<1>5. SettlesTurn(CompletedTurn(table, t), table, t)
  BY <1>3 DEF SettlesTurn, CompletedTurn, Row
<1>6. SettlesTurn(UncertainTurn(table, t), table, t)
  BY <1>3 DEF SettlesTurn, UncertainTurn, Row
<1> QED BY <1>4, <1>5, <1>6

(* The settling of abandoned claims gives back what was only claimed.      *)
GivesBack(new, old) ==
    /\ new \in [Message -> Row]
    /\ \A m \in Message :
          /\ new[m].turn = old[m].turn /\ new[m].body = old[m].body
          /\ new[m] # old[m] =>
                /\ old[m].state = "dispatching_to_codex"
                /\ \/ new[m].state = "uncertain"
                   \/ /\ old[m].phase = "claimed"
                      /\ new[m].state = "accepted_by_wonder"

LEMMA ReclaimedRows ==
    ASSUME NEW table \in [Message -> Row], NEW b \in BOOLEAN
    PROVE  GivesBack(Reclaimed(table, b), table)
<1>1. {"accepted_by_wonder", "uncertain"} \subseteq DeliveryState
  BY DEF DeliveryState, Open
<1>2. Reclaimed(table, b) \in [Message -> Row]
  <2>1. ASSUME NEW m \in Message PROVE Reclaimed(table, b)[m] \in Row
    BY <1>1, RowType DEF Reclaimed
  <2> QED BY <2>1 DEF Reclaimed
<1> QED BY ZenonT(30), <1>2 DEF GivesBack, Reclaimed, Row

LEMMA DrainedRows ==
    ASSUME NEW table \in [Message -> Row], NEW m \in Message, NEW t \in Turn
    PROVE  Drained(table, m, t) \in [Message -> Row]
BY DeliveredType, TurnSettled DEF Drained, SettlesTurn, DeliveryState, Open, Active

LEMMA NoticeTail ==
    ASSUME inbox \in Seq(Notice), inbox # <<>>
    PROVE  Head(inbox) \in Notice /\ Tail(inbox) \in Seq(Notice)
OBVIOUS

LEMMA EndedType ==
    ASSUME TypeOK, NEW done
    PROVE  Ended(done) \in [Turn -> History]
<1>1. ASSUME NEW h \in History, NEW b \in BOOLEAN,
             NEW s \in {"unused", "running", "completed", "stopped"}
      PROVE  [h EXCEPT !.status = s, !.streamed = b] \in History
  BY DEF History
<1>2. ASSUME NEW t \in Turn PROVE Ended(done)[t] \in History
  <2> DEFINE s == IF turns[t].status # "running" THEN turns[t].status
                  ELSE IF t \in done THEN "completed" ELSE "stopped"
             b == turns[t].streamed \/ turns[t].status # "unused"
  <2>1. turns[t] \in History
    BY DEF TypeOK
  <2>2. s \in {"unused", "running", "completed", "stopped"}
    BY <2>1 DEF History
  <2>3. b \in BOOLEAN
    OBVIOUS
  <2>4. Ended(done)[t] = [turns[t] EXCEPT !.status = s, !.streamed = b]
    BY DEF Ended
  <2> HIDE DEF s, b
  <2>5. [turns[t] EXCEPT !.status = s, !.streamed = b] \in History
    BY <1>1, <2>1, <2>2, <2>3, Zenon
  <2> QED BY <2>4, <2>5, Zenon
<1> QED BY <1>2 DEF Ended

-----------------------------------------------------------------------------
(* Three kinds of step that several actions share. *)

(* Open rows of one turn are settled: none of them was waiting or held.    *)
LEMMA SettleStep ==
    ASSUME IInv, NEW t \in Turn, SettlesTurn(messages', messages, t),
           UNCHANGED <<lock, dispatcher, wire, taken>>,
           ingestion'.todo \subseteq ingestion.todo,
           lock.op = "project" => inbox' # <<>>
    PROVE  RowsSafe' /\ HoldersKnow' /\ ListsKnow'
<1> USE TurnAssumption DEF IInv, SettlesTurn, Open, Active
<1>1. \A m \in Message : messages[m].turn = t => messages[m].turn # NoTurn
  OBVIOUS
<1>2. UnspentUntouched'
  BY <1>1 DEF RowsSafe, UnspentUntouched, Unspent, Untouched
<1>3. OneRequest'
  BY DEF TypeOK, Request, RowsSafe, OneRequest
<1>4. TakenAsShown' /\ ActiveOnTurn'
  BY DEF RowsSafe, TakenAsShown, ActiveOnTurn
<1>5. HoldersKnow'
  BY <1>1 DEF TypeOK, HoldersKnow, ClaimHeld, GuideHeld, DeltaHeld
<1>6. GuidesListed'
  BY DEF TypeOK, Loop, ListsKnow, GuidesListed
<1>7. TodoOnTurn'
  BY DEF TypeOK, Task, ListsKnow, TodoOnTurn
<1> QED BY <1>2, <1>3, <1>4, <1>5, <1>6, <1>7 DEF RowsSafe, ListsKnow

(* A delivery is recorded: the message is open from then on, or nothing of *)
(* it had been sent.                                                       *)
LEMMA DeliverStep ==
    ASSUME IInv, NEW m \in Message, NEW s \in DeliveryState,
           NEW t \in Turn \cup {NoTurn},
           messages' = Delivered(messages, m, s, t), taken' = taken,
           wire' \subseteq wire,
           s \in Active => t \in Turn,
           s \in Open \/ (s \in {"safe_to_retry", "failed"} /\ t = NoTurn
                          /\ Untouched(m))
    PROVE  RowsSafe'
<1> USE DEF IInv, RowsSafe
<1>1. Delivers(messages', messages, m, s, t)
  <2>1. messages \in [Message -> Row]
    BY DEF TypeOK
  <2> QED BY <2>1, DeliveredRow
<1>2. UnspentUntouched'
  BY <1>1 DEF Delivers, UnspentUntouched, Unspent, Untouched, Open, Active
<1>3. OneRequest'
  BY <1>1 DEF Delivers, TypeOK, Request, OneRequest
<1>4. TakenAsShown'
  BY <1>1 DEF Delivers, TakenAsShown
<1>5. ActiveOnTurn'
  BY <1>1, TurnAssumption DEF Delivers, ActiveOnTurn, Active
<1> QED BY <1>2, <1>3, <1>4, <1>5

(* Abandoned claims are settled: what goes back to the queue was never     *)
(* submitted.                                                              *)
LEMMA ReclaimStep ==
    ASSUME IInv, GivesBack(messages', messages), taken' = taken,
           wire' \subseteq wire
    PROVE  RowsSafe'
<1> USE DEF IInv, RowsSafe, GivesBack
<1>1. UnspentUntouched'
  BY DEF UnspentUntouched, Unspent, Untouched
<1>2. OneRequest'
  BY DEF TypeOK, Request, OneRequest
<1>3. TakenAsShown' /\ ActiveOnTurn'
  BY DEF TakenAsShown, ActiveOnTurn, Active
<1> QED BY <1>1, <1>2, <1>3

(* The runtime takes a request: it is the only one of its message, which   *)
(* had not been taken before.                                              *)
LEMMA TakeStep ==
    ASSUME IInv, NEW r \in wire, wire' = wire \ {r}, messages' = messages,
           taken' = [taken EXCEPT ![r.message] = Append(@, r.body)]
    PROVE  RowsSafe'
<1> USE DEF IInv, RowsSafe
<1>1. r.message \in Message /\ r.body \in Nat /\ taken[r.message] = <<>>
  BY DEF TypeOK, Request, OneRequest
<1>2. taken' = [taken EXCEPT ![r.message] = <<r.body>>]
  BY <1>1
<1>3. UnspentUntouched'
  BY <1>1, <1>2 DEF TypeOK, UnspentUntouched, Unspent, Untouched
<1>4. OneRequest'
  BY <1>1, <1>2 DEF TypeOK, Request, OneRequest
<1>5. TakenAsShown'
  BY <1>1, <1>2 DEF TypeOK, OneRequest, TakenAsShown
<1>6. ActiveOnTurn'
  BY DEF ActiveOnTurn
<1> QED BY <1>3, <1>4, <1>5, <1>6

-----------------------------------------------------------------------------
(* Every action preserves IInv. *)

(* What a person does touches rows that were not sent, wait, or may be     *)
(* retried: nothing of them is on its way.                                 *)
LEMMA PersonStep ==
    ASSUME IInv, Person
    PROVE  IInv'
<1> USE TurnAssumption DEF IInv, store, daemon, runtime
<1>1. ASSUME NEW m \in Message, Send(m) PROVE IInv'
  <2>1. {0} \cup {messages[n].position + 1 : n \in Queue(m)} \subseteq Nat
    BY DEF TypeOK, Row, Queue, Peers
  <2>2. PICK p \in Nat : messages' = [messages EXCEPT ![m].state = "accepted_by_wonder",
                                                   ![m].work = "dispatch",
                                                   ![m].position = p]
    BY <1>1, <2>1 DEF Send
  <2>3. [messages[m] EXCEPT !.state = "accepted_by_wonder", !.work = "dispatch",
                          !.position = p] \in Row
    BY RowType DEF TypeOK, DeliveryState
  <2>4. messages' \in [Message -> Row]
    BY <2>2, <2>3 DEF TypeOK
  <2>5. TypeOK'
    BY <1>1, <2>4 DEF Send, TypeOK
  <2>6. RowsSafe'
    BY <1>1, <2>2 DEF Send, NextInOrder, Sent, TypeOK, Row, Request, Active,
           RowsSafe, UnspentUntouched, Unspent, Untouched, OneRequest,
           TakenAsShown, ActiveOnTurn
  <2>7. HoldersKnow'
    BY <1>1 DEF Send, NextInOrder, Sent, TypeOK, Row, RowsSafe,
           UnspentUntouched, Unspent, Untouched, HoldersKnow, ClaimHeld,
           GuideHeld, DeltaHeld
  <2>8. ListsKnow'
    BY <1>1 DEF Send, NextInOrder, Sent, TypeOK, Row, Loop, Task, ListsKnow,
           GuidesListed, TodoOnTurn
  <2> QED BY <2>5, <2>6, <2>7, <2>8
<1>2. ASSUME NEW m \in Message, NEW t \in Turn, SendGuide(m, t) PROVE IInv'
  <2>1. [messages[m] EXCEPT !.state = "accepted_by_wonder", !.work = "guide",
                               !.target = t] \in Row
    BY RowType DEF TypeOK, DeliveryState
  <2>2. messages' \in [Message -> Row]
    BY <1>2, <2>1 DEF SendGuide, TypeOK
  <2>3. TypeOK'
    BY <1>2, <2>2 DEF SendGuide, TypeOK
  <2>4. RowsSafe'
    BY <1>2 DEF SendGuide, NextInOrder, Sent, TypeOK, Row, Request, Active,
           RowsSafe, UnspentUntouched, Unspent, Untouched, OneRequest,
           TakenAsShown, ActiveOnTurn
  <2>5. HoldersKnow'
    BY <1>2 DEF SendGuide, NextInOrder, Sent, TypeOK, Row, RowsSafe,
           UnspentUntouched, Unspent, Untouched, HoldersKnow, ClaimHeld,
           GuideHeld, DeltaHeld
  <2>6. ListsKnow'
    BY <1>2 DEF SendGuide, NextInOrder, Sent, TypeOK, Row, Loop, Task,
           ListsKnow, GuidesListed, TodoOnTurn
  <2> QED BY <2>3, <2>4, <2>5, <2>6
<1>3. ASSUME NEW m \in Message, Edit(m) PROVE IInv'
  <2>1. messages[m].body + 1 \in Nat
    BY DEF TypeOK, Row
  <2>2. [messages[m] EXCEPT !.body = messages[m].body + 1] \in Row
    BY <2>1, RowType DEF TypeOK
  <2>3. messages' \in [Message -> Row]
    BY <1>3, <2>2 DEF Edit, TypeOK
  <2>4. TypeOK'
    BY <1>3, <2>3 DEF Edit, TypeOK
  <2>5. RowsSafe'
    BY <1>3 DEF Edit, Waiting, TypeOK, Row, Request, Active, RowsSafe,
           UnspentUntouched, Unspent, Untouched, OneRequest, TakenAsShown,
           ActiveOnTurn
  <2>6. HoldersKnow'
    BY <1>3 DEF Edit, Waiting, TypeOK, Row, RowsSafe, UnspentUntouched,
           Unspent, Untouched, HoldersKnow, ClaimHeld, GuideHeld, DeltaHeld
  <2>7. ListsKnow'
    BY <1>3 DEF Edit, Waiting, TypeOK, Row, Loop, Task, ListsKnow,
           GuidesListed, TodoOnTurn
  <2> QED BY <2>4, <2>5, <2>6, <2>7
<1>4. ASSUME NEW m \in Message, Cancel(m) PROVE IInv'
  <2>1. [messages[m] EXCEPT !.state = "interrupted"] \in Row
    BY RowType DEF TypeOK, DeliveryState, Final
  <2>2. messages' \in [Message -> Row]
    BY <1>4, <2>1 DEF Cancel, TypeOK
  <2>3. TypeOK'
    BY <1>4, <2>2 DEF Cancel, TypeOK
  <2>4. RowsSafe'
    BY <1>4 DEF Cancel, Waiting, TypeOK, Row, Request, Active, RowsSafe,
           UnspentUntouched, Unspent, Untouched, OneRequest, TakenAsShown,
           ActiveOnTurn
  <2>5. HoldersKnow'
    BY <1>4 DEF Cancel, Waiting, TypeOK, Row, RowsSafe, UnspentUntouched,
           Unspent, Untouched, HoldersKnow, ClaimHeld, GuideHeld, DeltaHeld
  <2>6. ListsKnow'
    BY <1>4 DEF Cancel, Waiting, TypeOK, Row, Loop, Task, ListsKnow,
           GuidesListed, TodoOnTurn
  <2> QED BY <2>3, <2>4, <2>5, <2>6
<1>5. ASSUME NEW m \in Message, NEW t \in Turn, MoveToGuide(m, t) PROVE IInv'
  <2>1. [messages[m] EXCEPT !.work = "guide", !.target = t] \in Row
    BY RowType DEF TypeOK
  <2>2. messages' \in [Message -> Row]
    BY <1>5, <2>1 DEF MoveToGuide, TypeOK
  <2>3. TypeOK'
    BY <1>5, <2>2 DEF MoveToGuide, TypeOK
  <2>4. RowsSafe'
    BY SMTT(30), <1>5 DEF MoveToGuide, Waiting, TypeOK, Row, Request, Active, RowsSafe,
           UnspentUntouched, Unspent, Untouched, OneRequest, TakenAsShown,
           ActiveOnTurn
  <2>5. HoldersKnow'
    BY <1>5 DEF MoveToGuide, Waiting, TypeOK, Row, RowsSafe, UnspentUntouched,
           Unspent, Untouched, HoldersKnow, ClaimHeld, GuideHeld, DeltaHeld
  <2>6. ListsKnow'
    BY <1>5 DEF MoveToGuide, Waiting, TypeOK, Row, Loop, Task, ListsKnow,
           GuidesListed, TodoOnTurn
  <2> QED BY <2>3, <2>4, <2>5, <2>6
<1>6. ASSUME NEW m \in Message, Retry(m) PROVE IInv'
  <2>1. [messages[m] EXCEPT !.state = "accepted_by_wonder"] \in Row
    BY RowType DEF TypeOK, DeliveryState
  <2>2. messages' \in [Message -> Row]
    BY <1>6, <2>1 DEF Retry, TypeOK
  <2>3. TypeOK'
    BY <1>6, <2>2 DEF Retry, TypeOK
  <2>4. RowsSafe'
    BY <1>6 DEF Retry, TypeOK, Row, Request, Active, RowsSafe,
           UnspentUntouched, Unspent, Untouched, OneRequest, TakenAsShown,
           ActiveOnTurn
  <2>5. HoldersKnow'
    BY <1>6 DEF Retry, TypeOK, Row, RowsSafe, UnspentUntouched, Unspent,
           Untouched, HoldersKnow, ClaimHeld, GuideHeld, DeltaHeld
  <2>6. ListsKnow'
    BY <1>6 DEF Retry, TypeOK, Row, Loop, Task, ListsKnow, GuidesListed,
           TodoOnTurn
  <2> QED BY <2>3, <2>4, <2>5, <2>6
<1> QED BY <1>1, <1>2, <1>3, <1>4, <1>5, <1>6 DEF Person

(* A stop touches the message of a turn, which was sent.                   *)
LEMMA StopStep ==
    ASSUME IInv, Stop
    PROVE  IInv'
<1> USE TurnAssumption DEF IInv, store, daemon, runtime
<1>1. ASSUME NEW m \in Message, NEW t \in Turn, StopRequest(m, t) PROVE IInv'
  <2>1. inbox' \in Seq(Notice)
    BY <1>1 DEF StopRequest, TypeOK, Notice
  <2>2. lock' \in Holder /\ (lock'.op # "free" => lock'.message \in Message)
    BY <1>1 DEF StopRequest, Unlocked, Holder
  <2>3. turns' \in [Turn -> History]
    BY <1>1 DEF StopRequest, TypeOK, History
  <2>4. TypeOK'
    BY <1>1, <2>1, <2>2, <2>3 DEF StopRequest, TypeOK
  <2>5. RowsSafe'
    BY <1>1 DEF StopRequest, Unlocked, Owns, MappedTo, RowsSafe,
           UnspentUntouched, Unspent, Untouched, OneRequest, TakenAsShown,
           ActiveOnTurn
  <2>6. HoldersKnow'
    BY <1>1 DEF StopRequest, Unlocked, Owns, MappedTo, HoldersKnow, ClaimHeld,
           GuideHeld, DeltaHeld
  <2>7. ListsKnow'
    BY <1>1 DEF StopRequest, Unlocked, Owns, MappedTo, ListsKnow, GuidesListed,
           TodoOnTurn
  <2> QED BY <2>4, <2>5, <2>6, <2>7
<1>2. CASE StopRecord
  <2>1. lock.message \in Message
    BY <1>2 DEF StopRecord, TypeOK
  <2>2. [messages[lock.message] EXCEPT !.state = "interrupted"] \in Row
    BY <2>1, RowType DEF TypeOK, DeliveryState, Final
  <2>3. messages' \in [Message -> Row]
    BY <1>2, <2>2 DEF StopRecord, TypeOK
  <2>4. lock' \in Holder /\ (lock'.op # "free" => lock'.message \in Message)
    BY <1>2, TurnAssumption DEF StopRecord, Unlocked, Holder
  <2>5. TypeOK'
    BY <1>2, <2>3, <2>4 DEF StopRecord, TypeOK
  <2>6. RowsSafe'
    <3>1. CASE UNCHANGED messages
      BY <1>2, <3>1 DEF StopRecord, RowsSafe, UnspentUntouched, Unspent, Untouched,
             OneRequest, TakenAsShown, ActiveOnTurn
    <3>2. CASE /\ messages[lock.message].state \in Active
               /\ messages' = [messages EXCEPT ![lock.message].state = "interrupted"]
      BY SMTT(30), <1>2, <2>1, <3>2 DEF StopRecord, Unlocked, TypeOK, Row, Request,
             Active, RowsSafe, UnspentUntouched, Unspent, Untouched, OneRequest,
             TakenAsShown, ActiveOnTurn
    <3> QED BY <1>2, <3>1, <3>2 DEF StopRecord
  <2>7. HoldersKnow'
    BY <1>2 DEF StopRecord, Unlocked, TypeOK, Row, RowsSafe, UnspentUntouched,
           Unspent, Untouched, HoldersKnow, ClaimHeld, GuideHeld, DeltaHeld
  <2>8. ListsKnow'
    <3>1. CASE UNCHANGED messages
      BY <1>2, <3>1 DEF StopRecord, ListsKnow, GuidesListed, TodoOnTurn
    <3>2. CASE /\ messages[lock.message].state \in Active
               /\ messages' = [messages EXCEPT ![lock.message].state = "interrupted"]
      BY <1>2, <2>1, <3>2 DEF StopRecord, TypeOK, Row, Active, Loop, Task, ListsKnow,
             GuidesListed, TodoOnTurn
    <3> QED BY <1>2, <3>1, <3>2 DEF StopRecord
  <2> QED BY <2>5, <2>6, <2>7, <2>8
<1> QED BY <1>1, <1>2 DEF Stop

(* A claim takes a message of which nothing is on its way.                 *)
LEMMA TickStep ==
    ASSUME IInv, Tick
    PROVE  IInv'
<1> USE TurnAssumption DEF IInv, store, daemon, runtime
<1>1. CASE TickStart
  <2>1. GivesBack(messages', messages)
    BY <1>1, ReclaimedRows DEF TickStart, TypeOK
  <2>2. messages' \in [Message -> Row] /\ dispatcher' \in Loop
    BY <1>1, <2>1 DEF TickStart, GivesBack, Loop
  <2>3. TypeOK'
    BY <1>1, <2>2 DEF TickStart, TypeOK
  <2>4. RowsSafe'
    BY <1>1, <2>1, ReclaimStep DEF TickStart
  <2>5. HoldersKnow'
    BY <1>1 DEF TickStart, HoldersKnow, ClaimHeld, GuideHeld, DeltaHeld
  <2>6. GuidesListed'
    BY <1>1 DEF TickStart, GuidesListed
  <2>7. TodoOnTurn'
    BY <1>1, <2>1 DEF TickStart, GivesBack, TypeOK, Task, ListsKnow, TodoOnTurn
  <2> QED BY <2>3, <2>4, <2>5, <2>6, <2>7 DEF ListsKnow
<1>2. CASE ListDispatch
  <2>1. dispatcher' \in Loop
    BY <1>2 DEF ListDispatch, Loop
  <2>2. TypeOK'
    BY <1>2, <2>1 DEF ListDispatch, TypeOK
  <2>3. RowsSafe'
    BY <1>2 DEF ListDispatch, RowsSafe, UnspentUntouched, Unspent, Untouched,
           OneRequest, TakenAsShown, ActiveOnTurn
  <2>4. HoldersKnow'
    BY <1>2 DEF ListDispatch, HoldersKnow, ClaimHeld, GuideHeld, DeltaHeld
  <2>5. ListsKnow'
    BY <1>2 DEF ListDispatch, TypeOK, Loop, ListsKnow, GuidesListed,
           TodoOnTurn
  <2> QED BY <2>2, <2>3, <2>4, <2>5
<1>3. CASE TickEnd
  <2>1. dispatcher' \in Loop
    BY <1>3 DEF TickEnd, TypeOK, Loop
  <2>2. TypeOK'
    BY <1>3, <2>1 DEF TickEnd, TypeOK
  <2>3. RowsSafe'
    BY <1>3 DEF TickEnd, RowsSafe, UnspentUntouched, Unspent, Untouched,
           OneRequest, TakenAsShown, ActiveOnTurn
  <2>4. HoldersKnow'
    BY <1>3 DEF TickEnd, HoldersKnow, ClaimHeld, GuideHeld, DeltaHeld
  <2>5. ListsKnow'
    BY <1>3 DEF TickEnd, TypeOK, Loop, ListsKnow, GuidesListed, TodoOnTurn
  <2> QED BY <2>2, <2>3, <2>4, <2>5
<1>4. ASSUME NEW m \in Message, SkipListed(m) PROVE IInv'
  <2>1. dispatcher' \in Loop
    BY <1>4 DEF SkipListed, TypeOK, Loop
  <2>2. TypeOK'
    BY <1>4, <2>1 DEF SkipListed, TypeOK
  <2>3. RowsSafe'
    BY <1>4 DEF SkipListed, RowsSafe, UnspentUntouched, Unspent, Untouched,
           OneRequest, TakenAsShown, ActiveOnTurn
  <2>4. HoldersKnow'
    BY <1>4 DEF SkipListed, HoldersKnow, ClaimHeld, GuideHeld, DeltaHeld
  <2>5. ListsKnow'
    BY <1>4 DEF SkipListed, TypeOK, Loop, ListsKnow, GuidesListed, TodoOnTurn
  <2> QED BY <2>2, <2>3, <2>4, <2>5
<1>5. ASSUME NEW m \in Message, Dispatch(m) PROVE IInv'
  <2>1. [messages[m] EXCEPT !.state = "dispatching_to_codex", !.phase = "claimed"] \in Row
    BY RowType DEF TypeOK, DeliveryState
  <2>2. \/ UNCHANGED <<messages, lock>>
       \/ /\ messages[m].state = "accepted_by_wonder"
          /\ messages' = [messages EXCEPT ![m].state = "dispatching_to_codex",
                                          ![m].phase = "claimed"]
          /\ lock' = [op |-> "dispatch", message |-> m, turn |-> NoTurn,
                      body |-> messages[m].body]
    BY <1>5 DEF Dispatch, Claimable
  <2>3. messages' \in [Message -> Row]
    BY <2>1, <2>2 DEF TypeOK
  <2>4. lock' \in Holder /\ (lock'.op # "free" => lock'.message \in Message)
    BY <2>2 DEF TypeOK, Holder, Row
  <2>5. dispatcher' \in Loop
    BY <1>5 DEF Dispatch, TypeOK, Loop
  <2>6. /\ dispatcher.pc = "dispatch" /\ dispatcher'.pc = "dispatch" /\ lock.op = "free"
       /\ UNCHANGED <<wire, taken, ingestion>>
    BY <1>5 DEF Dispatch, TypeOK, Loop
  <2>7. TypeOK'
    BY <1>5, <2>3, <2>4, <2>5 DEF Dispatch, TypeOK
  <2>8. RowsSafe'
    <3>1. CASE UNCHANGED <<messages, lock>>
      BY <2>6, <3>1 DEF RowsSafe, UnspentUntouched, Unspent, Untouched,
             OneRequest, TakenAsShown, ActiveOnTurn
    <3>2. CASE messages[m].state = "accepted_by_wonder"
               /\ messages' = [messages EXCEPT ![m].state = "dispatching_to_codex",
                                               ![m].phase = "claimed"]
      BY <2>6, <3>2 DEF TypeOK, Row, Request, Active, RowsSafe,
             UnspentUntouched, Unspent, Untouched, OneRequest, TakenAsShown,
             ActiveOnTurn
    <3> QED BY <2>2, <3>1, <3>2
  <2>9. HoldersKnow'
    BY <2>2, <2>6 DEF TypeOK, Row, RowsSafe, UnspentUntouched, Unspent,
           Untouched, HoldersKnow, ClaimHeld, GuideHeld, DeltaHeld
  <2>10. GuidesListed'
    BY <2>6 DEF GuidesListed
  <2>11. TodoOnTurn'
    <3>1. \A n \in Message : messages'[n].turn = messages[n].turn
      <4>1. CASE messages' = messages
        BY <4>1
      <4>2. CASE messages' = [messages EXCEPT ![m].state = "dispatching_to_codex",
                                              ![m].phase = "claimed"]
        BY <4>2 DEF TypeOK, Row
      <4> QED BY <2>2, <4>1, <4>2
    <3> QED BY <2>6, <3>1 DEF TypeOK, Task, ListsKnow, TodoOnTurn
  <2> QED BY <2>7, <2>8, <2>9, <2>10, <2>11 DEF ListsKnow
<1>6. ASSUME NEW m \in Message, GuideFails(m) PROVE IInv'
  <2>1. messages' \in [Message -> Row]
    BY <1>6, DeliveredType DEF GuideFails, TypeOK, DeliveryState
  <2>2. dispatcher' \in Loop
    BY <1>6 DEF GuideFails, TypeOK, Loop
  <2>3. TypeOK'
    BY <1>6, <2>1, <2>2 DEF GuideFails, TypeOK
  <2>4. RowsSafe'
    <3>1. Untouched(m)
      BY <1>6 DEF GuideFails, ListsKnow, GuidesListed, RowsSafe,
             UnspentUntouched, Unspent
    <3> QED BY <1>6, <3>1, DeliverStep DEF GuideFails, DeliveryState, Active
  <2>5. HoldersKnow'
    BY <1>6 DEF GuideFails, Delivered, TypeOK, Row, RowsSafe, UnspentUntouched,
           Unspent, Untouched, HoldersKnow, ClaimHeld, GuideHeld, DeltaHeld
  <2>6. ListsKnow'
    BY <1>6 DEF GuideFails, Delivered, TypeOK, Row, Loop, Task, ListsKnow,
           GuidesListed, TodoOnTurn
  <2> QED BY <2>3, <2>4, <2>5, <2>6
<1>7. ASSUME NEW m \in Message, DispatchGuide(m) PROVE IInv'
  <2>1. [messages[m] EXCEPT !.state = "uncertain"] \in Row
    BY RowType DEF TypeOK, DeliveryState, Open
  <2>2. messages' \in [Message -> Row]
    BY <1>7, <2>1 DEF DispatchGuide, TypeOK
  <2>3. dispatcher' \in Loop
    BY <1>7 DEF DispatchGuide, TypeOK, Loop
  <2>4. lock' \in Holder /\ (lock'.op # "free" => lock'.message \in Message)
    BY <1>7 DEF DispatchGuide, Unlocked, Holder
  <2>5. wire' \subseteq Request
    BY <1>7 DEF DispatchGuide, TypeOK, Request, Row
  <2>6. TypeOK'
    BY <1>7, <2>2, <2>3, <2>4, <2>5 DEF DispatchGuide, TypeOK
  <2>7. RowsSafe'
    BY <1>7 DEF DispatchGuide, Unlocked, TypeOK, Row, Request, Active,
           RowsSafe, UnspentUntouched, Unspent, Untouched, OneRequest,
           TakenAsShown, ActiveOnTurn
  <2>8. HoldersKnow'
    BY <1>7 DEF DispatchGuide, Unlocked, TypeOK, Row, RowsSafe,
           UnspentUntouched, Unspent, Untouched, HoldersKnow, ClaimHeld,
           GuideHeld, DeltaHeld
  <2>9. ListsKnow'
    BY <1>7 DEF DispatchGuide, Unlocked, TypeOK, Row, Loop, Task, ListsKnow,
           GuidesListed, TodoOnTurn
  <2> QED BY <2>6, <2>7, <2>8, <2>9
<1> QED BY <1>1, <1>2, <1>3, <1>4, <1>5, <1>6, <1>7 DEF Tick

(* The holder of a claim sends its message once, and then lets go of it.   *)
LEMMA SubmissionStep ==
    ASSUME IInv, Submission
    PROVE  IInv'
<1> USE TurnAssumption DEF IInv, store, daemon, runtime
<1>1. CASE BeginSubmission
  <2>1. lock.message \in Message /\ lock.body \in Nat
    BY <1>1 DEF BeginSubmission, TypeOK, Holder, Dispatching
  <2>2. [messages[lock.message] EXCEPT !.phase = "submitting"] \in Row
    BY <2>1, RowType DEF TypeOK
  <2>3. messages' \in [Message -> Row]
    BY <1>1, <2>2 DEF BeginSubmission, TypeOK
  <2>4. wire' \subseteq Request
    BY <1>1, <2>1 DEF BeginSubmission, TypeOK, Request
  <2>5. TypeOK'
    BY <1>1, <2>3, <2>4 DEF BeginSubmission, TypeOK
  <2>6. RowsSafe'
    BY <1>1 DEF BeginSubmission, Dispatching, TypeOK, Row, Request, Active,
           HoldersKnow, ClaimHeld, GuideHeld, DeltaHeld, RowsSafe,
           UnspentUntouched, Unspent, Untouched, OneRequest, TakenAsShown,
           ActiveOnTurn
  <2>7. HoldersKnow'
    BY <1>1 DEF BeginSubmission, Dispatching, TypeOK, Row, RowsSafe,
           UnspentUntouched, Unspent, Untouched, HoldersKnow, ClaimHeld,
           GuideHeld, DeltaHeld
  <2>8. ListsKnow'
    BY <1>1 DEF BeginSubmission, Dispatching, TypeOK, Row, Loop, Task,
           HoldersKnow, ClaimHeld, GuideHeld, DeltaHeld, RowsSafe,
           UnspentUntouched, Unspent, Untouched, ListsKnow, GuidesListed,
           TodoOnTurn
  <2> QED BY <2>5, <2>6, <2>7, <2>8
<1>2. CASE StartAnswered
  <2>1. lock.message \in Message /\ lock.turn \in Turn
    BY <1>2 DEF StartAnswered, TypeOK, Holder, Dispatching
  <2>2. Delivered(messages, lock.message, "accepted_by_codex", lock.turn) \in [Message -> Row]
    BY <2>1, DeliveredType DEF TypeOK, DeliveryState, Open, Active
  <2>3. messages' \in [Message -> Row]
    BY <1>2, <2>1, <2>2, DrainedRows DEF StartAnswered
  <2>4. lock' \in Holder /\ (lock'.op # "free" => lock'.message \in Message)
    BY <1>2 DEF StartAnswered, Unlocked, Holder
  <2>5. parked' \subseteq Notice /\ receipts' \subseteq Turn
    BY <1>2, <2>1 DEF StartAnswered, TypeOK, Notice
  <2>6. TypeOK'
    BY <1>2, <2>3, <2>4, <2>5 DEF StartAnswered, TypeOK
  <2>7. RowsSafe'
    <3> DEFINE sent == Delivered(messages, lock.message, "accepted_by_codex",
                                 lock.turn)
    <3>1. Delivers(sent, messages, lock.message, "accepted_by_codex", lock.turn)
      BY <2>1, DeliveredRow DEF TypeOK, DeliveryState, Open, Active
    <3>2. \/ messages' = sent
          \/ SettlesTurn(messages', sent, lock.turn)
          \/ Delivers(messages', sent, lock.message, "streaming", lock.turn)
      <4>1. "streaming" \in DeliveryState
        BY DEF DeliveryState, Open, Active
      <4>2. messages' = Drained(sent, lock.message, lock.turn)
        BY <1>2 DEF StartAnswered
      <4>3. sent \in [Message -> Row]
        BY <2>2
      <4> HIDE DEF sent
      <4>4. \/ messages' = sent \/ messages' = CompletedTurn(sent, lock.turn)
            \/ messages' = Delivered(sent, lock.message, "streaming", lock.turn)
        BY <4>2 DEF Drained
      <4>5. SettlesTurn(CompletedTurn(sent, lock.turn), sent, lock.turn)
        BY <4>3, TurnSettled
      <4>6. Delivers(Delivered(sent, lock.message, "streaming", lock.turn),
                     sent, lock.message, "streaming", lock.turn)
        BY <2>1, <4>1, <4>3, DeliveredRow
      <4> QED BY <4>4, <4>5, <4>6
    <3>3. /\ messages'[lock.message].turn = lock.turn
          /\ messages'[lock.message].body = messages[lock.message].body
          /\ messages'[lock.message].state \in Open \cup {"completed"}
      <4> HIDE DEF sent
      <4> QED BY <2>1, <3>1, <3>2, TurnAssumption
              DEF Delivers, SettlesTurn, Open, Active
    <3>4. ASSUME NEW n \in Message, n # lock.message
          PROVE  /\ messages'[n].turn = messages[n].turn
                 /\ messages'[n].body = messages[n].body
                 /\ \/ messages'[n] = messages[n]
                    \/ messages'[n].state \in {"completed", "uncertain"}
      <4> HIDE DEF sent
      <4> QED BY <2>1, <3>1, <3>2, <3>4 DEF Delivers, SettlesTurn
    <3>5. taken' = taken /\ wire' = wire
      BY <1>2 DEF StartAnswered
    <3> HIDE DEF sent
    <3>6. UnspentUntouched'
      BY <2>1, <3>3, <3>4, <3>5
         DEF RowsSafe, UnspentUntouched, Unspent, Untouched, Open, Active
    <3>7. OneRequest'
      BY <2>1, <3>3, <3>4, <3>5 DEF TypeOK, Request, RowsSafe, OneRequest
    <3>8. TakenAsShown' /\ ActiveOnTurn'
      BY <2>1, <3>3, <3>4, <3>5
         DEF RowsSafe, TakenAsShown, ActiveOnTurn, Active
    <3> QED BY <3>6, <3>7, <3>8 DEF RowsSafe
  <2>8. HoldersKnow'
    BY SMTT(30), <1>2 DEF StartAnswered, Dispatching, Delivered, CompletedTurn, Drained,
           Unlocked, TypeOK, Row, RowsSafe, UnspentUntouched, Unspent,
           Untouched, HoldersKnow, ClaimHeld, GuideHeld, DeltaHeld
  <2>9. ListsKnow'
    BY <1>2 DEF StartAnswered, Dispatching, Delivered, CompletedTurn, Drained,
           Unlocked, TypeOK, Row, Loop, Task, HoldersKnow, ClaimHeld,
           GuideHeld, DeltaHeld, RowsSafe, UnspentUntouched, Unspent,
           Untouched, ListsKnow, GuidesListed, TodoOnTurn
  <2> QED BY <2>6, <2>7, <2>8, <2>9
<1>3. CASE StartUnanswered
  <2>1. lock.message \in Message
    BY <1>3 DEF StartUnanswered, TypeOK, Dispatching
  <2>2. messages' \in [Message -> Row]
    BY <1>3, <2>1, DeliveredType DEF StartUnanswered, TypeOK, DeliveryState,
           Open
  <2>3. lock' \in Holder /\ (lock'.op # "free" => lock'.message \in Message)
    BY <1>3 DEF StartUnanswered, Unlocked, Holder
  <2>4. wire' \subseteq Request
    BY <1>3 DEF StartUnanswered, TypeOK
  <2>5. faults' \in 0..MaxFaults
    BY <1>3, BoundAssumption DEF StartUnanswered, TypeOK
  <2>6. TypeOK'
    BY <1>3, <2>2, <2>3, <2>4, <2>5 DEF StartUnanswered, TypeOK
  <2>7. RowsSafe'
    BY <1>3 DEF StartUnanswered, Dispatching, Delivered, Unlocked, TypeOK, Row,
           Request, Active, HoldersKnow, ClaimHeld, GuideHeld, DeltaHeld,
           RowsSafe, UnspentUntouched, Unspent, Untouched, OneRequest,
           TakenAsShown, ActiveOnTurn
  <2>8. HoldersKnow'
    BY <1>3 DEF StartUnanswered, Dispatching, Delivered, Unlocked, TypeOK, Row,
           RowsSafe, UnspentUntouched, Unspent, Untouched, HoldersKnow,
           ClaimHeld, GuideHeld, DeltaHeld
  <2>9. ListsKnow'
    BY <1>3 DEF StartUnanswered, Dispatching, Delivered, Unlocked, TypeOK, Row,
           Loop, Task, HoldersKnow, ClaimHeld, GuideHeld, DeltaHeld, RowsSafe,
           UnspentUntouched, Unspent, Untouched, ListsKnow, GuidesListed,
           TodoOnTurn
  <2> QED BY <2>6, <2>7, <2>8, <2>9
<1>4. CASE SteerAnswered
  <2>1. lock.message \in Message
    BY <1>4 DEF SteerAnswered, TypeOK
  <2>2. messages' \in [Message -> Row]
    BY <1>4, <2>1, DeliveredType DEF SteerAnswered, TypeOK, DeliveryState,
           Open, Active, Holder
  <2>3. lock' \in Holder /\ (lock'.op # "free" => lock'.message \in Message)
    BY <1>4 DEF SteerAnswered, Unlocked, Holder
  <2>4. TypeOK'
    BY <1>4, <2>2, <2>3 DEF SteerAnswered, TypeOK
  <2>5. RowsSafe'
    <3>1. lock.turn \in Turn
      BY <1>4 DEF SteerAnswered, TypeOK, Holder
    <3> QED BY <1>4, <2>1, <3>1, DeliverStep
            DEF SteerAnswered, DeliveryState, Open, Active
  <2>6. HoldersKnow'
    BY <1>4 DEF SteerAnswered, Delivered, Unlocked, TypeOK, Row, RowsSafe,
           UnspentUntouched, Unspent, Untouched, HoldersKnow, ClaimHeld,
           GuideHeld, DeltaHeld
  <2>7. ListsKnow'
    BY <1>4 DEF SteerAnswered, Delivered, Unlocked, TypeOK, Row, Loop, Task,
           HoldersKnow, ClaimHeld, GuideHeld, DeltaHeld, RowsSafe,
           UnspentUntouched, Unspent, Untouched, ListsKnow, GuidesListed,
           TodoOnTurn
  <2> QED BY <2>4, <2>5, <2>6, <2>7
<1>5. CASE SteerRefused
  <2>1. lock.message \in Message
    BY <1>5 DEF SteerRefused, TypeOK
  <2>2. messages' \in [Message -> Row]
    BY <1>5, <2>1, DeliveredType DEF SteerRefused, TypeOK, DeliveryState, Open
  <2>3. lock' \in Holder /\ (lock'.op # "free" => lock'.message \in Message)
    BY <1>5 DEF SteerRefused, Unlocked, Holder
  <2>4. TypeOK'
    BY <1>5, <2>2, <2>3 DEF SteerRefused, TypeOK
  <2>5. RowsSafe'
    BY <1>5 DEF SteerRefused, Delivered, Unlocked, TypeOK, Row, Request,
           Active, HoldersKnow, ClaimHeld, GuideHeld, DeltaHeld, RowsSafe,
           UnspentUntouched, Unspent, Untouched, OneRequest, TakenAsShown,
           ActiveOnTurn
  <2>6. HoldersKnow'
    BY <1>5 DEF SteerRefused, Delivered, Unlocked, TypeOK, Row, RowsSafe,
           UnspentUntouched, Unspent, Untouched, HoldersKnow, ClaimHeld,
           GuideHeld, DeltaHeld
  <2>7. ListsKnow'
    BY <1>5 DEF SteerRefused, Delivered, Unlocked, TypeOK, Row, Loop, Task,
           HoldersKnow, ClaimHeld, GuideHeld, DeltaHeld, RowsSafe,
           UnspentUntouched, Unspent, Untouched, ListsKnow, GuidesListed,
           TodoOnTurn
  <2> QED BY <2>4, <2>5, <2>6, <2>7
<1>6. CASE SteerUnanswered
  <2>1. lock.message \in Message
    BY <1>6 DEF SteerUnanswered, TypeOK
  <2>2. messages' \in [Message -> Row]
    BY <1>6, <2>1, DeliveredType DEF SteerUnanswered, TypeOK, DeliveryState,
           Open
  <2>3. lock' \in Holder /\ (lock'.op # "free" => lock'.message \in Message)
    BY <1>6 DEF SteerUnanswered, Unlocked, Holder
  <2>4. dispatcher' \in Loop
    BY <1>6 DEF SteerUnanswered, TypeOK, Loop
  <2>5. faults' \in 0..MaxFaults
    BY <1>6, BoundAssumption DEF SteerUnanswered, TypeOK
  <2>6. TypeOK'
    BY <1>6, <2>2, <2>3, <2>4, <2>5 DEF SteerUnanswered, TypeOK
  <2>7. RowsSafe'
    BY <1>6 DEF SteerUnanswered, Delivered, Unlocked, TypeOK, Row, Request,
           Active, HoldersKnow, ClaimHeld, GuideHeld, DeltaHeld, RowsSafe,
           UnspentUntouched, Unspent, Untouched, OneRequest, TakenAsShown,
           ActiveOnTurn
  <2>8. HoldersKnow'
    BY <1>6 DEF SteerUnanswered, Delivered, Unlocked, TypeOK, Row, RowsSafe,
           UnspentUntouched, Unspent, Untouched, HoldersKnow, ClaimHeld,
           GuideHeld, DeltaHeld
  <2>9. ListsKnow'
    BY <1>6 DEF SteerUnanswered, Delivered, Unlocked, TypeOK, Row, Loop, Task,
           HoldersKnow, ClaimHeld, GuideHeld, DeltaHeld, RowsSafe,
           UnspentUntouched, Unspent, Untouched, ListsKnow, GuidesListed,
           TodoOnTurn
  <2> QED BY <2>6, <2>7, <2>8, <2>9
<1> QED BY <1>1, <1>2, <1>3, <1>4, <1>5, <1>6 DEF Submission

(* A message found in the runtime's history was sent.                      *)
LEMMA ReceiptsStep ==
    ASSUME IInv, Receipts
    PROVE  IInv'
<1> USE TurnAssumption DEF IInv, store, daemon, runtime
<1>1. ASSUME NEW m \in Message, NEW t \in Turn, ScanReceipt(m, t) PROVE IInv'
  <2>1. found' \in [Message -> Turn \cup {NoTurn}]
    BY <1>1 DEF ScanReceipt, TypeOK
  <2>2. TypeOK'
    BY <1>1, <2>1 DEF ScanReceipt, TypeOK
  <2>3. RowsSafe'
    BY <1>1 DEF ScanReceipt, RowsSafe, UnspentUntouched, Unspent, Untouched,
           OneRequest, TakenAsShown, ActiveOnTurn
  <2>4. HoldersKnow'
    BY <1>1 DEF ScanReceipt, HoldersKnow, ClaimHeld, GuideHeld, DeltaHeld
  <2>5. ListsKnow'
    BY <1>1 DEF ScanReceipt, ListsKnow, GuidesListed, TodoOnTurn
  <2> QED BY <2>2, <2>3, <2>4, <2>5
<1>2. ASSUME NEW m \in Message, AcceptReceipt(m) PROVE IInv'
  <2>1. \/ messages' = messages /\ ingestion' = ingestion
       \/ /\ found[m] \in Turn /\ messages[m].state = "uncertain"
          /\ messages' = Delivered(messages, m, "accepted_by_codex", found[m])
          /\ ingestion' = [ingestion EXCEPT !.requested = TRUE, !.recovering = TRUE]
    BY <1>2 DEF AcceptReceipt, TypeOK, Ambiguous
  <2>2. \/ messages' = messages
       \/ /\ found[m] \in Turn /\ messages[m].state = "uncertain"
          /\ Delivers(messages', messages, m, "accepted_by_codex", found[m])
    <3>1. "accepted_by_codex" \in DeliveryState /\ messages \in [Message -> Row]
      BY DEF TypeOK, DeliveryState, Open, Active
    <3> QED BY <2>1, <3>1, DeliveredRow
  <2>3. messages' \in [Message -> Row]
    BY <2>2 DEF TypeOK, Delivers
  <2>4. ingestion' \in Task
    BY <2>1 DEF TypeOK, Task
  <2>5. found' \in [Message -> Turn \cup {NoTurn}]
    BY <1>2 DEF AcceptReceipt, TypeOK
  <2>6. lock.op = "free" /\ UNCHANGED <<lock, dispatcher, wire, taken>>
    BY <1>2 DEF AcceptReceipt
  <2>7. ingestion'.todo = ingestion.todo
    BY <2>1 DEF TypeOK, Task
  <2>8. TypeOK'
    BY <1>2, <2>3, <2>4, <2>5 DEF AcceptReceipt, TypeOK
  <2>9. RowsSafe'
    <3>1. CASE messages' = messages
      BY <2>6, <3>1 DEF RowsSafe, UnspentUntouched, Unspent, Untouched,
             OneRequest, TakenAsShown, ActiveOnTurn
    <3>2. CASE /\ found[m] \in Turn
               /\ messages' = Delivered(messages, m, "accepted_by_codex", found[m])
      BY <2>6, <3>2, DeliverStep DEF DeliveryState, Open, Active
    <3> QED BY <2>1, <3>1, <3>2
  <2>10. HoldersKnow'
    BY <2>6 DEF HoldersKnow, ClaimHeld, GuideHeld, DeltaHeld
  <2>11. ListsKnow'
    <3>1. /\ \A n \in Message : n # m => messages'[n] = messages[n]
          /\ messages'[m] = messages[m] \/ messages'[m].turn \in Turn
          /\ messages[m].state = "accepted_by_wonder" => messages' = messages
      BY <2>2, TurnAssumption DEF Delivers
    <3> QED BY ZenonT(30), <2>6, <2>7, <3>1 DEF TypeOK, Loop, Task, ListsKnow,
               GuidesListed, TodoOnTurn
  <2> QED BY <2>8, <2>9, <2>10, <2>11
<1> QED BY <1>1, <1>2 DEF Receipts

(* A notice changes messages of its turn only.                             *)
LEMMA ProjectorStep ==
    ASSUME IInv, Projector
    PROVE  IInv'
<1> USE TurnAssumption DEF IInv, store, daemon, runtime
<1>1. CASE ProjectUnmapped
  <2>1. inbox' \in Seq(Notice) /\ parked' \subseteq Notice
    BY <1>1, NoticeTail DEF ProjectUnmapped, TypeOK
  <2>2. TypeOK'
    BY <1>1, <2>1 DEF ProjectUnmapped, TypeOK
  <2>3. RowsSafe'
    BY <1>1 DEF ProjectUnmapped, RowsSafe, UnspentUntouched, Unspent,
           Untouched, OneRequest, TakenAsShown, ActiveOnTurn
  <2>4. HoldersKnow'
    BY <1>1 DEF ProjectUnmapped, HoldersKnow, ClaimHeld, GuideHeld, DeltaHeld
  <2>5. ListsKnow'
    BY <1>1 DEF ProjectUnmapped, ListsKnow, GuidesListed, TodoOnTurn
  <2> QED BY <2>2, <2>3, <2>4, <2>5
<1>2. CASE ProjectCompletion
  <2>1. inbox' \in Seq(Notice) /\ Head(inbox).turn \in Turn
    BY <1>2, NoticeTail DEF ProjectCompletion, TypeOK, Pending, Notice
  <2>2. SettlesTurn(messages', messages, Head(inbox).turn)
    BY <1>2, <2>1, TurnSettled DEF ProjectCompletion, TypeOK, ApplyCompletion
  <2>3. messages' \in [Message -> Row]
    BY <2>2 DEF SettlesTurn
  <2>4. receipts' \subseteq Turn
    BY <1>2, <2>1 DEF ProjectCompletion, TypeOK, ApplyCompletion
  <2>5. TypeOK'
    BY <1>2, <2>1, <2>3, <2>4 DEF ProjectCompletion, TypeOK
  <2>6. RowsSafe' /\ HoldersKnow' /\ ListsKnow'
    BY <1>2, <2>1, <2>2, SettleStep DEF ProjectCompletion, Pending
  <2> QED BY <2>5, <2>6
<1>3. ASSUME NEW m \in Message, LoadDelta(m) PROVE IInv'
  <2>1. Head(inbox).turn \in Turn /\ Tail(inbox) \in Seq(Notice)
    BY <1>3, NoticeTail DEF LoadDelta, TypeOK, Pending, Notice
  <2>2. \/ lock' = lock /\ inbox' = Tail(inbox)
       \/ /\ lock' = [op |-> "project", message |-> m, turn |-> Head(inbox).turn,
                       body |-> 0]
          /\ messages[m].state # "interrupted" /\ inbox' = inbox
    BY <1>3 DEF LoadDelta, Unlocked, Final
  <2>3. inbox' \in Seq(Notice)
    BY <2>1, <2>2 DEF TypeOK
  <2>4. lock' \in Holder /\ (lock'.op # "free" => lock'.message \in Message)
    BY <2>1, <2>2 DEF TypeOK, Holder
  <2>5. TypeOK'
    BY <1>3, <2>3, <2>4 DEF LoadDelta, TypeOK
  <2>6. RowsSafe'
    BY <1>3 DEF LoadDelta, Pending, Unlocked, Owns, MappedTo, RowsSafe,
           UnspentUntouched, Unspent, Untouched, OneRequest, TakenAsShown,
           ActiveOnTurn
  <2>7. HoldersKnow'
    BY <1>3, <2>1, <2>2 DEF LoadDelta, Pending, Owns, MappedTo, HoldersKnow,
           ClaimHeld, GuideHeld, DeltaHeld
  <2>8. ListsKnow'
    BY <1>3 DEF LoadDelta, Pending, Unlocked, Owns, MappedTo, ListsKnow,
           GuidesListed, TodoOnTurn
  <2> QED BY <2>5, <2>6, <2>7, <2>8
<1>4. CASE ApplyDelta
  <2>1. lock.message \in Message /\ lock.turn \in Turn
    BY <1>4 DEF ApplyDelta, TypeOK, HoldersKnow, DeltaHeld
  <2>2. messages' \in [Message -> Row]
    BY <1>4, <2>1, DeliveredType DEF ApplyDelta, TypeOK, DeliveryState, Open,
           Active
  <2>3. lock' \in Holder /\ (lock'.op # "free" => lock'.message \in Message)
    BY <1>4 DEF ApplyDelta, Unlocked, Holder
  <2>4. inbox' \in Seq(Notice)
    BY <1>4, NoticeTail DEF ApplyDelta, TypeOK, HoldersKnow, DeltaHeld
  <2>5. TypeOK'
    BY <1>4, <2>2, <2>3, <2>4 DEF ApplyDelta, TypeOK
  <2>6. RowsSafe'
    BY SMTT(30), <1>4 DEF ApplyDelta, Delivered, Unlocked, TypeOK, Row, Request, Active,
           HoldersKnow, ClaimHeld, GuideHeld, DeltaHeld, RowsSafe,
           UnspentUntouched, Unspent, Untouched, OneRequest, TakenAsShown,
           ActiveOnTurn
  <2>7. HoldersKnow'
    BY <1>4 DEF ApplyDelta, Delivered, Unlocked, TypeOK, Row, RowsSafe,
           UnspentUntouched, Unspent, Untouched, HoldersKnow, ClaimHeld,
           GuideHeld, DeltaHeld
  <2>8. ListsKnow'
    BY <1>4 DEF ApplyDelta, Delivered, Unlocked, TypeOK, Row, Loop, Task,
           HoldersKnow, ClaimHeld, GuideHeld, DeltaHeld, RowsSafe,
           UnspentUntouched, Unspent, Untouched, ListsKnow, GuidesListed,
           TodoOnTurn
  <2> QED BY <2>5, <2>6, <2>7, <2>8
<1> QED BY <1>1, <1>2, <1>3, <1>4 DEF Projector

(* Recovery changes messages of a turn only.                               *)
LEMMA RecoveryStep ==
    ASSUME IInv, Recovery
    PROVE  IInv'
<1> USE TurnAssumption DEF IInv, store, daemon, runtime
<1>1. CASE RecoverDue
  <2>1. ingestion' \in Task
    BY <1>1 DEF RecoverDue, TypeOK, Task
  <2>2. TypeOK'
    BY <1>1, <2>1 DEF RecoverDue, TypeOK
  <2>3. RowsSafe'
    BY <1>1 DEF RecoverDue, RowsSafe, UnspentUntouched, Unspent, Untouched,
           OneRequest, TakenAsShown, ActiveOnTurn
  <2>4. HoldersKnow'
    BY <1>1 DEF RecoverDue, HoldersKnow, ClaimHeld, GuideHeld, DeltaHeld
  <2>5. ListsKnow'
    BY <1>1 DEF RecoverDue, TypeOK, Task, ListsKnow, GuidesListed, TodoOnTurn
  <2> QED BY <2>2, <2>3, <2>4, <2>5
<1>6. CASE RecoverDrained
  <2>1. ingestion' \in Task
    BY <1>6 DEF RecoverDrained, TypeOK, Task
  <2>2. TypeOK'
    BY <1>6, <2>1 DEF RecoverDrained, TypeOK
  <2>3. RowsSafe'
    BY <1>6 DEF RecoverDrained, RowsSafe, UnspentUntouched, Unspent, Untouched,
           OneRequest, TakenAsShown, ActiveOnTurn
  <2>4. HoldersKnow'
    BY <1>6 DEF RecoverDrained, HoldersKnow, ClaimHeld, GuideHeld, DeltaHeld
  <2>5. ListsKnow'
    BY <1>6 DEF RecoverDrained, TypeOK, Task, ListsKnow, GuidesListed, TodoOnTurn
  <2> QED BY <2>2, <2>3, <2>4, <2>5
<1>2. CASE RecoverStart
  <2>1. ingestion' \in Task
    BY <1>2 DEF RecoverStart, TypeOK, Task
  <2>2. TypeOK'
    BY <1>2, <2>1 DEF RecoverStart, TypeOK
  <2>3. RowsSafe'
    BY <1>2 DEF RecoverStart, RowsSafe, UnspentUntouched, Unspent, Untouched,
           OneRequest, TakenAsShown, ActiveOnTurn
  <2>4. HoldersKnow'
    BY <1>2 DEF RecoverStart, HoldersKnow, ClaimHeld, GuideHeld, DeltaHeld
  <2>5. ListsKnow'
    BY <1>2 DEF RecoverStart, TypeOK, Row, Task, ListsKnow, GuidesListed,
           TodoOnTurn
  <2> QED BY <2>2, <2>3, <2>4, <2>5
<1>3. ASSUME NEW m \in Message, RecoverMessage(m) PROVE IInv'
  <2>1. messages[m].turn \in Turn
    BY <1>3 DEF RecoverMessage, ListsKnow, TodoOnTurn
  <2>2. \/ messages' = messages
       \/ messages' = CompletedTurn(messages, messages[m].turn)
       \/ messages' = UncertainTurn(messages, messages[m].turn)
    BY <1>3 DEF RecoverMessage, ApplyCompletion
  <2>3. SettlesTurn(messages', messages, messages[m].turn)
    BY SMTT(30), <2>2, TurnSettled DEF TypeOK
  <2>4. messages' \in [Message -> Row]
    BY <2>3 DEF SettlesTurn
  <2>5. receipts' \subseteq Turn
    BY <1>3, <2>1 DEF RecoverMessage, TypeOK, ApplyCompletion
  <2>6. ingestion' \in Task
    BY <1>3 DEF RecoverMessage, TypeOK, Task
  <2>7. TypeOK'
    BY <1>3, <2>4, <2>5, <2>6 DEF RecoverMessage, TypeOK
  <2>8. RowsSafe' /\ HoldersKnow' /\ ListsKnow'
    BY <1>3, <2>1, <2>3, SettleStep DEF RecoverMessage, TypeOK, Task,
           HoldersKnow, DeltaHeld
  <2> QED BY <2>7, <2>8
<1>4. CASE RecoverDone
  <2>1. ingestion' \in Task
    BY <1>4 DEF RecoverDone, TypeOK, Task
  <2>2. TypeOK'
    BY <1>4, <2>1 DEF RecoverDone, TypeOK
  <2>3. RowsSafe'
    BY <1>4 DEF RecoverDone, RowsSafe, UnspentUntouched, Unspent, Untouched,
           OneRequest, TakenAsShown, ActiveOnTurn
  <2>4. HoldersKnow'
    BY <1>4 DEF RecoverDone, HoldersKnow, ClaimHeld, GuideHeld, DeltaHeld
  <2>5. ListsKnow'
    BY <1>4 DEF RecoverDone, TypeOK, Task, ListsKnow, GuidesListed, TodoOnTurn
  <2> QED BY <2>2, <2>3, <2>4, <2>5
<1>5. CASE RecoverAbort
  <2>1. ingestion' \in Task
    BY <1>5 DEF RecoverAbort, TypeOK, Task
  <2>2. TypeOK'
    BY <1>5, <2>1, BoundAssumption DEF RecoverAbort, TypeOK
  <2>3. RowsSafe'
    BY <1>5 DEF RecoverAbort, RowsSafe, UnspentUntouched, Unspent, Untouched,
           OneRequest, TakenAsShown, ActiveOnTurn
  <2>4. HoldersKnow'
    BY <1>5 DEF RecoverAbort, HoldersKnow, ClaimHeld, GuideHeld, DeltaHeld
  <2>5. ListsKnow'
    BY <1>5 DEF RecoverAbort, TypeOK, Task, ListsKnow, GuidesListed,
           TodoOnTurn
  <2> QED BY <2>2, <2>3, <2>4, <2>5
<1> QED BY <1>1, <1>2, <1>3, <1>4, <1>5, <1>6 DEF Recovery

(* The runtime takes a request off the wire; no other carries its message. *)
LEMMA RuntimeStep ==
    ASSUME IInv, Runtime
    PROVE  IInv'
<1> USE TurnAssumption DEF IInv, store, daemon, runtime
<1>1. ASSUME NEW r \in wire, NEW t \in Turn, TurnStart(r, t) PROVE IInv'
  <2>1. r \in Request
    BY DEF TypeOK
  <2>2. lock' \in Holder /\ (lock'.op # "free" => lock'.message \in Message)
    BY <1>1, <2>1 DEF TurnStart, TypeOK, Answered, Holder
  <2>3. [turns[t] EXCEPT !.status = "running", !.input = {r.message}] \in History
    BY ZenonT(30), <2>1 DEF TypeOK, History, Request
  <2>4. turns' \in [Turn -> History]
    BY <1>1, <2>3 DEF TurnStart, TypeOK
  <2>5. taken' \in [Message -> Seq(Nat)]
    BY <1>1, <2>1 DEF TurnStart, TypeOK, Request
  <2>6. wire' \subseteq Request
    BY <1>1 DEF TurnStart, TypeOK
  <2>7. TypeOK'
    BY <1>1, <2>2, <2>4, <2>5, <2>6 DEF TurnStart, TypeOK
  <2>8. RowsSafe'
    BY <1>1, TakeStep DEF TurnStart
  <2>9. HoldersKnow'
    BY <1>1 DEF TurnStart, Answered, HoldersKnow, ClaimHeld, GuideHeld,
           DeltaHeld
  <2>10. ListsKnow'
    BY <1>1 DEF TurnStart, Answered, ListsKnow, GuidesListed, TodoOnTurn
  <2> QED BY <2>7, <2>8, <2>9, <2>10
<1>2. ASSUME NEW r \in wire, TurnSteer(r) PROVE IInv'
  <2>1. r \in Request
    BY DEF TypeOK
  <2>2. r.turn \in Turn
    BY <1>2, <2>1 DEF TurnSteer, Request
  <2>3. lock' \in Holder /\ (lock'.op # "free" => lock'.message \in Message)
    BY <1>2, <2>2 DEF TurnSteer, TypeOK, Answered, Holder
  <2>4. [turns[r.turn] EXCEPT !.input = turns[r.turn].input \cup {r.message}] \in History
    BY ZenonT(30), <2>1, <2>2 DEF TypeOK, History, Request
  <2>5. turns' \in [Turn -> History]
    BY <1>2, <2>2, <2>4 DEF TurnSteer, TypeOK
  <2>6. taken' \in [Message -> Seq(Nat)]
    BY <1>2, <2>1 DEF TurnSteer, TypeOK, Request
  <2>7. wire' \subseteq Request
    BY <1>2 DEF TurnSteer, TypeOK
  <2>8. TypeOK'
    BY <1>2, <2>3, <2>5, <2>6, <2>7 DEF TurnSteer, TypeOK
  <2>9. RowsSafe'
    BY <1>2, TakeStep DEF TurnSteer
  <2>10. HoldersKnow'
    BY <1>2 DEF TurnSteer, Answered, HoldersKnow, ClaimHeld, GuideHeld,
           DeltaHeld
  <2>11. ListsKnow'
    BY <1>2 DEF TurnSteer, Answered, ListsKnow, GuidesListed, TodoOnTurn
  <2> QED BY <2>8, <2>9, <2>10, <2>11
<1>3. ASSUME NEW t \in Turn, StreamDelta(t) PROVE IInv'
  <2>1. inbox' \in Seq(Notice)
    BY <1>3 DEF StreamDelta, TypeOK, Notice
  <2>2. turns' \in [Turn -> History]
    BY <1>3 DEF StreamDelta, TypeOK, History
  <2>3. TypeOK'
    BY <1>3, <2>1, <2>2 DEF StreamDelta, TypeOK
  <2>4. RowsSafe'
    BY <1>3 DEF StreamDelta, RowsSafe, UnspentUntouched, Unspent, Untouched,
           OneRequest, TakenAsShown, ActiveOnTurn
  <2>5. HoldersKnow'
    BY <1>3 DEF StreamDelta, HoldersKnow, ClaimHeld, GuideHeld, DeltaHeld
  <2>6. ListsKnow'
    BY <1>3 DEF StreamDelta, ListsKnow, GuidesListed, TodoOnTurn
  <2> QED BY <2>3, <2>4, <2>5, <2>6
<1>4. ASSUME NEW t \in Turn, FinishTurn(t) PROVE IInv'
  <2>1. inbox' \in Seq(Notice)
    BY <1>4 DEF FinishTurn, TypeOK, Notice
  <2>2. turns' \in [Turn -> History]
    BY <1>4 DEF FinishTurn, TypeOK, History
  <2>3. TypeOK'
    BY <1>4, <2>1, <2>2 DEF FinishTurn, TypeOK
  <2>4. RowsSafe'
    BY <1>4 DEF FinishTurn, RowsSafe, UnspentUntouched, Unspent, Untouched,
           OneRequest, TakenAsShown, ActiveOnTurn
  <2>5. HoldersKnow'
    BY <1>4 DEF FinishTurn, HoldersKnow, ClaimHeld, GuideHeld, DeltaHeld
  <2>6. ListsKnow'
    BY <1>4 DEF FinishTurn, ListsKnow, GuidesListed, TodoOnTurn
  <2> QED BY <2>3, <2>4, <2>5, <2>6
<1> QED BY <1>1, <1>2, <1>3, <1>4 DEF Runtime, Take

(* What is lost leaves a message in a state that admits it may have run.   *)
LEMMA FaultStep ==
    ASSUME IInv, Fault
    PROVE  IInv'
<1> USE TurnAssumption DEF IInv, store, daemon, runtime
<1>1. CASE PrepareFails
  <2>1. lock.message \in Message
    BY <1>1 DEF PrepareFails, TypeOK, Dispatching
  <2>2. messages' \in [Message -> Row]
    BY <1>1, <2>1, DeliveredType DEF PrepareFails, TypeOK, DeliveryState
  <2>3. lock' \in Holder /\ (lock'.op # "free" => lock'.message \in Message)
    BY <1>1 DEF PrepareFails, Unlocked, Holder
  <2>4. faults' \in 0..MaxFaults
    BY <1>1, BoundAssumption DEF PrepareFails, TypeOK
  <2>5. TypeOK'
    BY <1>1, <2>2, <2>3, <2>4 DEF PrepareFails, TypeOK
  <2>6. RowsSafe'
    BY <1>1 DEF PrepareFails, Dispatching, Delivered, Unlocked, TypeOK, Row,
           Request, Active, HoldersKnow, ClaimHeld, GuideHeld, DeltaHeld,
           RowsSafe, UnspentUntouched, Unspent, Untouched, OneRequest,
           TakenAsShown, ActiveOnTurn
  <2>7. HoldersKnow'
    BY <1>1 DEF PrepareFails, Dispatching, Delivered, Unlocked, TypeOK, Row,
           RowsSafe, UnspentUntouched, Unspent, Untouched, HoldersKnow,
           ClaimHeld, GuideHeld, DeltaHeld
  <2>8. ListsKnow'
    BY <1>1 DEF PrepareFails, Dispatching, Delivered, Unlocked, TypeOK, Row,
           Loop, Task, HoldersKnow, ClaimHeld, GuideHeld, DeltaHeld, RowsSafe,
           UnspentUntouched, Unspent, Untouched, ListsKnow, GuidesListed,
           TodoOnTurn
  <2> QED BY <2>5, <2>6, <2>7, <2>8
<1>2. CASE SaveFails
  <2>1. lock' \in Holder /\ (lock'.op # "free" => lock'.message \in Message)
    BY <1>2 DEF SaveFails, Unlocked, Holder
  <2>2. faults' \in 0..MaxFaults
    BY <1>2, BoundAssumption DEF SaveFails, TypeOK
  <2>3. TypeOK'
    BY <1>2, <2>1, <2>2 DEF SaveFails, TypeOK
  <2>4. RowsSafe'
    BY <1>2 DEF SaveFails, Unlocked, HoldersKnow, ClaimHeld, GuideHeld,
           DeltaHeld, RowsSafe, UnspentUntouched, Unspent, Untouched,
           OneRequest, TakenAsShown, ActiveOnTurn
  <2>5. HoldersKnow'
    BY <1>2 DEF SaveFails, Unlocked, HoldersKnow, ClaimHeld, GuideHeld,
           DeltaHeld
  <2>6. ListsKnow'
    BY <1>2 DEF SaveFails, Unlocked, HoldersKnow, ClaimHeld, GuideHeld,
           DeltaHeld, RowsSafe, UnspentUntouched, Unspent, Untouched,
           ListsKnow, GuidesListed, TodoOnTurn
  <2> QED BY <2>3, <2>4, <2>5, <2>6
<1>3. CASE RuntimeDies
  <2>1. turns' \in [Turn -> History]
    BY <1>3, EndedType DEF RuntimeDies
  <2>2. lock' \in Holder /\ (lock'.op # "free" => lock'.message \in Message)
    BY <1>3 DEF RuntimeDies, TypeOK, Holder
  <2>3. faults' \in 0..MaxFaults
    BY <1>3, BoundAssumption DEF RuntimeDies, TypeOK
  <2>4. TypeOK'
    BY <1>3, <2>1, <2>2, <2>3 DEF RuntimeDies, TypeOK
  <2>5. RowsSafe'
    BY <1>3 DEF RuntimeDies, RowsSafe, UnspentUntouched, Unspent, Untouched,
           OneRequest, TakenAsShown, ActiveOnTurn
  <2>6. HoldersKnow'
    BY <1>3 DEF RuntimeDies, HoldersKnow, ClaimHeld, GuideHeld, DeltaHeld
  <2>7. ListsKnow'
    BY <1>3 DEF RuntimeDies, ListsKnow, GuidesListed, TodoOnTurn
  <2> QED BY <2>4, <2>5, <2>6, <2>7
<1>4. CASE Crash
  <2>1. GivesBack(messages', messages) /\ messages' \in [Message -> Row]
    <3>1. messages' = Reclaimed(messages, TRUE) /\ messages \in [Message -> Row]
      BY <1>4 DEF Crash, TypeOK
    <3>2. GivesBack(messages', messages)
      BY <3>1, ReclaimedRows
    <3> QED BY <3>2 DEF GivesBack
  <2>2. turns' \in [Turn -> History]
    BY <1>4, EndedType DEF Crash
  <2>3. lock' \in Holder /\ (lock'.op # "free" => lock'.message \in Message)
    BY <1>4 DEF Crash, Unlocked, Holder
  <2>4. dispatcher' \in Loop /\ ingestion' \in Task
    BY <1>4 DEF Crash, Loop, Task
  <2>5. faults' \in 0..MaxFaults
    BY <1>4, BoundAssumption DEF Crash, TypeOK
  <2>6. found' \in [Message -> Turn \cup {NoTurn}]
    BY <1>4 DEF Crash
  <2>7. TypeOK'
    BY <1>4, <2>1, <2>2, <2>3, <2>4, <2>5, <2>6 DEF Crash, TypeOK
  <2>8. RowsSafe'
    BY <1>4, <2>1, ReclaimStep DEF Crash
  <2>9. HoldersKnow'
    BY <1>4 DEF Crash, Unlocked, HoldersKnow, ClaimHeld, GuideHeld, DeltaHeld
  <2>10. ListsKnow'
    BY <1>4 DEF Crash, ListsKnow, GuidesListed, TodoOnTurn
  <2> QED BY <2>7, <2>8, <2>9, <2>10
<1>5. CASE ListedFails
  <2>1. dispatcher' \in Loop
    BY <1>5 DEF ListedFails, TypeOK, Loop
  <2>2. faults' \in 0..MaxFaults
    BY <1>5, BoundAssumption DEF ListedFails, TypeOK
  <2>3. TypeOK'
    BY <1>5, <2>1, <2>2 DEF ListedFails, TypeOK
  <2>4. RowsSafe'
    BY <1>5 DEF ListedFails, RowsSafe, UnspentUntouched, Unspent, Untouched,
           OneRequest, TakenAsShown, ActiveOnTurn
  <2>5. HoldersKnow'
    BY <1>5 DEF ListedFails, HoldersKnow, ClaimHeld, GuideHeld, DeltaHeld
  <2>6. ListsKnow'
    BY <1>5 DEF ListedFails, TypeOK, Loop, ListsKnow, GuidesListed, TodoOnTurn
  <2> QED BY <2>3, <2>4, <2>5, <2>6
<1> QED BY <1>1, <1>2, <1>3, <1>4, <1>5 DEF Fault

-----------------------------------------------------------------------------
(* The daemon starts with every message unsent. *)
LEMMA InitIInv == Init => IInv
<1> SUFFICES ASSUME Init PROVE IInv
  OBVIOUS
<1> USE DEF Init
<1>1. messages \in [Message -> Row]
  BY DEF Row, DeliveryState
<1>2. TypeOK
  BY <1>1, BoundAssumption
     DEF TypeOK, Notice, Unlocked, Holder, Loop, Task, Request, History
<1>3. RowsSafe
  BY DEF RowsSafe, UnspentUntouched, Unspent, Untouched, OneRequest,
         TakenAsShown, ActiveOnTurn, Active
<1>4. HoldersKnow
  BY DEF HoldersKnow, ClaimHeld, GuideHeld, DeltaHeld, Unlocked
<1>5. ListsKnow
  BY DEF ListsKnow, GuidesListed, TodoOnTurn
<1> QED BY <1>2, <1>3, <1>4, <1>5 DEF IInv

LEMMA StutterStep == ASSUME IInv, UNCHANGED vars PROVE IInv'
<1> USE DEF IInv, vars
<1>1. TypeOK'
  BY DEF TypeOK
<1>2. RowsSafe'
  BY DEF RowsSafe, UnspentUntouched, Unspent, Untouched, OneRequest,
         TakenAsShown, ActiveOnTurn
<1>3. HoldersKnow'
  BY DEF HoldersKnow, ClaimHeld, GuideHeld, DeltaHeld
<1>4. ListsKnow'
  BY DEF ListsKnow, GuidesListed, TodoOnTurn
<1> QED BY <1>1, <1>2, <1>3, <1>4

(* IInv is inductive. *)
THEOREM InductiveInvariant == Spec => []IInv
<1>1. IInv /\ [Next]_vars => IInv'
  BY PersonStep, StopStep, TickStep, SubmissionStep, ReceiptsStep,
     ProjectorStep, RecoveryStep, RuntimeStep, FaultStep, StutterStep DEF Next
<1> QED BY InitIInv, <1>1, PTL DEF Spec

-----------------------------------------------------------------------------
(* The tables, queues and locks hold what their readers expect of them.    *)
THEOREM TypeCorrect == Spec => []TypeOK
<1>1. IInv => TypeOK
  BY DEF IInv
<1> QED BY InductiveInvariant, <1>1, PTL

(* However many replies are lost and however often the daemon and the      *)
(* runtime die, no message is given to the runtime twice.                  *)
THEOREM NeverTwice == Spec => []AtMostOnce
<1>1. IInv => AtMostOnce
  <2> SUFFICES ASSUME IInv, NEW m \in Message PROVE Len(taken[m]) <= 1
    BY DEF AtMostOnce
  <2>1. taken[m] = <<>> \/ taken[m] = <<messages[m].body>>
    BY DEF IInv, RowsSafe, TakenAsShown
  <2>2. CASE taken[m] = <<>>
    BY <2>2
  <2>3. CASE taken[m] = <<messages[m].body>>
    <3>1. \A x : Len(<<x>>) = 1
      OBVIOUS
    <3> QED BY <2>3, <3>1
  <2> QED BY <2>1, <2>2, <2>3
<1> QED BY InductiveInvariant, <1>1, PTL

(* A message that is shown as waiting, safe to retry or failed has not     *)
(* reached the runtime, and no request that carries it is on its way.      *)
THEOREM RetryIsSafe == Spec => []RetriableNeverRan
<1>1. IInv => RetriableNeverRan
  BY DEF IInv, RowsSafe, UnspentUntouched, Unspent, Untouched,
         RetriableNeverRan
<1> QED BY InductiveInvariant, <1>1, PTL

(* The runtime gets the text of the last edit that was accepted, and never *)
(* a message whose cancellation was accepted.                              *)
THEOREM OwnersDecide == Spec => []OwnerDecides
<1>1. IInv => OwnerDecides
  <2> SUFFICES ASSUME IInv, NEW m \in Message
               PROVE  /\ taken[m] # <<>> => taken[m][1] = messages[m].body
                      /\ messages[m].state = "interrupted"
                         /\ messages[m].turn = NoTurn => taken[m] = <<>>
    BY DEF OwnerDecides
  <2>1. taken[m] # <<>> => taken[m][1] = messages[m].body
    BY DEF IInv, RowsSafe, TakenAsShown
  <2>2. messages[m].state = "interrupted" /\ messages[m].turn = NoTurn
        => taken[m] = <<>>
    BY DEF IInv, RowsSafe, UnspentUntouched, Unspent, Untouched
  <2> QED BY <2>1, <2>2
<1> QED BY InductiveInvariant, <1>1, PTL

-----------------------------------------------------------------------------
(* What was stopped or cancelled stays so, action by action: only a write  *)
(* of update_message_delivery could bring a message back, and the message  *)
(* it writes for is held in a state that excludes "interrupted".           *)
LEMMA StoppedStep ==
    ASSUME IInv, Next, NEW m \in Message, messages[m].state = "interrupted"
    PROVE  messages'[m].state = "interrupted"
<1> USE DEF store, daemon, runtime
<1>1. messages \in [Message -> Row] /\ (lock.op # "free" => lock.message \in Message)
  BY DEF IInv, TypeOK
<1>2. ~Waiting(m) /\ Sent(m) /\ ~Ambiguous(m)
  BY DEF Waiting, Sent, Ambiguous
<1>3. /\ lock.op \in {"dispatch", "guide", "project"} => lock.message # m
      /\ dispatcher.pc = "guides" => m \notin dispatcher.listed
  BY DEF IInv, HoldersKnow, ClaimHeld, GuideHeld, DeltaHeld, ListsKnow,
         GuidesListed
<1>4. CASE Person
  BY <1>1, <1>2, <1>4 DEF Person, Send, SendGuide, NextInOrder, Edit, Cancel,
     MoveToGuide, Retry, Row
<1>5. CASE Stop
  BY <1>1, <1>5 DEF Stop, StopRequest, StopRecord, Row
<1>6. CASE Tick
  BY <1>1, <1>3, <1>6 DEF Tick, TickStart, ListDispatch, TickEnd, SkipListed,
     Dispatch, Claimable, GuideFails, DispatchGuide, Reclaimed, Delivered, Row
<1>7. CASE Submission
  BY <1>1, <1>3, <1>7 DEF Submission, BeginSubmission, Dispatching,
     StartAnswered, StartUnanswered, SteerAnswered, SteerRefused,
     SteerUnanswered, Drained, Delivered, CompletedTurn, Open, Active, Row
<1>8. CASE Receipts
  BY <1>1, <1>2, <1>8 DEF Receipts, ScanReceipt, AcceptReceipt, Delivered, Row
<1>9. CASE Projector
  BY <1>1, <1>3, <1>9 DEF Projector, ProjectUnmapped, ProjectCompletion,
     ApplyCompletion, LoadDelta, ApplyDelta, CompletedTurn, Delivered, Open,
     Active, Row
<1>10. CASE Recovery
  <2>1. ASSUME NEW n \in Message, RecoverMessage(n)
        PROVE  messages'[m].state = "interrupted"
    <3>1. \/ messages' = messages
          \/ messages' = CompletedTurn(messages, messages[n].turn)
          \/ messages' = UncertainTurn(messages, messages[n].turn)
      BY <2>1 DEF RecoverMessage, ApplyCompletion
    <3> QED BY <1>1, <3>1 DEF CompletedTurn, UncertainTurn, Open, Active, Row
  <2> QED BY <1>10, <2>1 DEF Recovery, RecoverDue, RecoverDrained, RecoverStart, RecoverDone,
             RecoverAbort
<1>11. CASE Runtime
  BY <1>11 DEF Runtime, Take, TurnStart, TurnSteer, StreamDelta, FinishTurn
<1>12. CASE Fault
  BY <1>1, <1>3, <1>12 DEF Fault, ListedFails, PrepareFails, SaveFails,
     RuntimeDies, Crash,
     Dispatching, Reclaimed, Delivered, Row
<1> QED BY <1>4, <1>5, <1>6, <1>7, <1>8, <1>9, <1>10, <1>11, <1>12 DEF Next

(* A stopped or cancelled message is final. *)
THEOREM StoppedStaysStopped == Spec => StoppedIsFinal
<1>1. IInv /\ [Next]_vars =>
        [\A m \in Message : messages[m].state = "interrupted"
                           => messages'[m].state = "interrupted"]_messages
  BY StoppedStep DEF vars
<1> QED BY InductiveInvariant, <1>1, PTL DEF Spec, StoppedIsFinal

-----------------------------------------------------------------------------
(* Where a message is: the turn that took it, and who knows of that turn.  *)

Over(t) == turns[t].status \in {"completed", "stopped"}
Submits == lock.op \in {"dispatch", "guide"}

(* A turn has the messages of one conversation, a message one turn.        *)
InputsTaken == \A t \in Turn : \A m \in turns[t].input : taken[m] # <<>>
UnusedEmpty == \A t \in Turn : turns[t].status = "unused" => turns[t].input = {}
OneTurnEach == \A t, u \in Turn : \A m \in turns[t].input :
                  m \in turns[u].input => t = u
OneConversation == \A t \in Turn : \A m, n \in turns[t].input : n \in Peers(m)
TurnsTrue == InputsTaken /\ UnusedEmpty /\ OneTurnEach /\ OneConversation

(* The turn a row, an answer or a scan names did take the message.         *)
TurnsShown == \A m \in Message :
    messages[m].turn # NoTurn => m \in turns[messages[m].turn].input
FoundTrue == \A m \in Message : found[m] # NoTurn => m \in turns[found[m]].input
AnswersHeld ==
    Submits /\ lock.turn # NoTurn =>
        /\ lock.message \in turns[lock.turn].input
        /\ lock.op = "dispatch" => turns[lock.turn].input = {lock.message}
SteersOwned ==
    \A r \in wire : r.turn # NoTurn =>
        /\ messages[r.message].state # "dispatching_to_codex"
        /\ \E n \in Peers(r.message) : messages[n].turn = r.turn
RowsOnTurn ==
    \A m \in Message :
        /\ messages[m].state = "completed" => messages[m].turn # NoTurn
        /\ messages[m].state = "dispatching_to_codex" => messages[m].turn = NoTurn
NamesTrue == TurnsShown /\ FoundTrue /\ AnswersHeld /\ SteersOwned /\ RowsOnTurn

(* The end of a turn is noticed, applied or recorded after it came.        *)
InboxTrue == \A i \in 1..Len(inbox) :
                inbox[i].kind = "completed" => Over(inbox[i].turn)
ParkedTrue == \A p \in parked : p.kind = "completed" => Over(p.turn)
ReceiptsTrue == \A t \in receipts : Over(t)
NoticesTrue == InboxTrue /\ ParkedTrue /\ ReceiptsTrue
StopHeld ==
    lock.op = "stop" => /\ lock.turn \in Turn /\ Over(lock.turn)
                        /\ messages[lock.message].turn = lock.turn
EndsTrue == NoticesTrue /\ StopHeld

Places == TurnsTrue /\ NamesTrue /\ EndsTrue

-----------------------------------------------------------------------------
(* What one step does to the places, whatever action it is.                *)

(* The turns keep their inputs, and one that is over stays over ...        *)
TurnsKept ==
    /\ taken' = taken
    /\ \A t \in Turn : /\ turns'[t].input = turns[t].input
                       /\ turns'[t].status = "unused" <=> turns[t].status = "unused"
                       /\ Over(t) => Over(t)'

(* ... unless the runtime takes a request.                                 *)
Takes(r, t) ==
    /\ r \in wire /\ wire' = wire \ {r}
    /\ turns[t].status \in {"unused", "running"}
    /\ turns'[t].status = "running"
    /\ \A u \in Turn : /\ u # t => turns'[u] = turns[u]
                       /\ u = t => turns'[u].input = turns[u].input \cup {r.message}
    /\ taken' = [taken EXCEPT ![r.message] = Append(@, r.body)]
    /\ lock' = Answered(r, t)
    /\ UNCHANGED <<store, dispatcher, found, ingestion, alive, faults>>

LEMMA TakeFrame ==
    ASSUME IInv, Places, NEW r \in wire, NEW t \in Turn,
           TurnStart(r, t) \/ (TurnSteer(r) /\ t = r.turn)
    PROVE  Takes(r, t) /\ (r.turn = NoTurn => turns[t].status = "unused")
                       /\ (r.turn # NoTurn => r.turn = t /\ turns[t].status = "running")
<1>1. turns \in [Turn -> History] /\ r \in Request
  BY DEF IInv, TypeOK
<1>2. CASE TurnStart(r, t)
  <2>1. turns[t].input = {}
    BY <1>2 DEF TurnStart, Places, TurnsTrue, UnusedEmpty
  <2> QED BY <1>1, <1>2, <2>1 DEF TurnStart, Takes, History
<1>3. CASE TurnSteer(r) /\ t = r.turn
  BY <1>1, <1>3 DEF TurnSteer, Takes, History
<1> QED BY <1>2, <1>3

LEMMA EndedKeeps ==
    ASSUME TypeOK, NEW done, turns' = Ended(done), taken' = taken
    PROVE  TurnsKept
<1>1. ASSUME NEW t \in Turn
      PROVE  /\ turns'[t].input = turns[t].input
             /\ turns'[t].status = "unused" <=> turns[t].status = "unused"
             /\ Over(t) => Over(t)'
  BY DEF TypeOK, History, Ended, Over
<1> QED BY <1>1 DEF TurnsKept

LEMMA StatusKept ==
    ASSUME TypeOK, NEW t \in Turn, NEW s \in {"completed", "stopped"},
           turns[t].status = "running",
           turns' = [turns EXCEPT ![t].status = s], taken' = taken
    PROVE  TurnsKept /\ Over(t)'
<1>1. ASSUME NEW u \in Turn
      PROVE  /\ turns'[u].input = turns[u].input
             /\ turns'[u].status = IF u = t THEN s ELSE turns[u].status
  BY DEF TypeOK, History
<1> QED BY <1>1 DEF TurnsKept, Over

LEMMA Taking ==
    ASSUME IInv, Places, Take
    PROVE  \E r \in wire, t \in Turn : /\ Takes(r, t)
                                       /\ r.turn = NoTurn => turns[t].status = "unused"
                                       /\ r.turn # NoTurn => r.turn = t /\ turns[t].status = "running"
<1>1. CASE \E r \in wire, t \in Turn : TurnStart(r, t)
  BY <1>1, TakeFrame
<1>2. CASE \E r \in wire : TurnSteer(r)
  <2>1. PICK r \in wire : TurnSteer(r)
    BY <1>2
  <2>2. r.turn \in Turn
    BY <2>1 DEF IInv, TypeOK, Request, TurnSteer
  <2> QED BY <2>1, <2>2, TakeFrame
<1> QED BY <1>1, <1>2 DEF Take

LEMMA TurnsFrame ==
    ASSUME IInv, Next, ~Take
    PROVE  TurnsKept
<1> USE DEF store, daemon, runtime
<1>1. CASE Person \/ Tick \/ Receipts \/ Projector \/ Recovery \/ Submission
  <2>1. turns' = turns /\ taken' = taken
    BY <1>1 DEF Person, Send, SendGuide, Edit, Cancel, MoveToGuide, Retry,
       Tick, TickStart, ListDispatch, TickEnd, SkipListed, Dispatch, GuideFails,
       DispatchGuide, Receipts, ScanReceipt, AcceptReceipt,
       Projector, ProjectUnmapped, ProjectCompletion, LoadDelta, ApplyDelta,
       Recovery, RecoverDue, RecoverDrained, RecoverStart, RecoverDone, RecoverAbort,
       RecoverMessage, Submission, BeginSubmission, StartAnswered,
       StartUnanswered, SteerAnswered, SteerRefused, SteerUnanswered
  <2> QED BY <2>1 DEF TurnsKept, Over
<1>2. CASE Stop
  <2>1. CASE StopRecord
    BY <2>1 DEF StopRecord, TurnsKept, Over
  <2>2. ASSUME NEW m \in Message, NEW t \in Turn, StopRequest(m, t)
        PROVE  TurnsKept
    BY <2>2, StatusKept DEF StopRequest, IInv
  <2> QED BY <1>2, <2>1, <2>2 DEF Stop
<1>4. ASSUME NEW t \in Turn, StreamDelta(t) \/ FinishTurn(t) PROVE TurnsKept
  <2>1. CASE StreamDelta(t)
    BY <2>1 DEF StreamDelta, IInv, TypeOK, History, TurnsKept, Over
  <2>2. CASE FinishTurn(t)
    BY <2>2, StatusKept DEF FinishTurn, IInv
  <2> QED BY <1>4, <2>1, <2>2
<1>5. CASE ListedFails \/ PrepareFails \/ SaveFails
  BY <1>5 DEF ListedFails, PrepareFails, SaveFails, TurnsKept, Over
<1>6. CASE RuntimeDies \/ Crash
  BY <1>6, EndedKeeps DEF RuntimeDies, Crash, IInv
<1> QED BY <1>1, <1>2, <1>4, <1>5, <1>6 DEF Next, Runtime, Fault

(* A row is given a turn once: the one its answer, or its scan, names.     *)
LEMMA DrainedTurn ==
    ASSUME NEW table \in [Message -> Row], NEW m \in Message, NEW t \in Turn,
           table[m].turn = t
    PROVE  /\ Drained(table, m, t) \in [Message -> Row]
           /\ \A n \in Message :
                 /\ Drained(table, m, t)[n].turn = table[n].turn
                 /\ Drained(table, m, t)[n].state
                       \in {table[n].state, "completed", "streaming"}
<1>1. CASE Drained(table, m, t) = CompletedTurn(table, t)
  <2>1. \A n \in Message :
           /\ CompletedTurn(table, t)[n].turn = table[n].turn
           /\ CompletedTurn(table, t)[n].state \in {table[n].state, "completed"}
    BY DEF CompletedTurn, Row
  <2> QED BY <1>1, <2>1, DrainedRows
<1>2. CASE Drained(table, m, t) = Delivered(table, m, "streaming", t)
  <2>1. Delivers(Delivered(table, m, "streaming", t), table, m, "streaming", t)
    BY DeliveredRow DEF DeliveryState, Open, Active
  <2> QED BY <1>2, <2>1, DrainedRows DEF Delivers
<1>3. CASE Drained(table, m, t) = table
  BY <1>3
<1> QED BY <1>1, <1>2, <1>3 DEF Drained

TurnGiven(m) ==
    \/ messages'[m].turn = messages[m].turn
    \/ /\ messages[m].turn = NoTurn
       /\ Submits /\ lock.message = m /\ lock.turn # NoTurn
       /\ messages'[m].turn = lock.turn
       /\ messages'[m].state # "dispatching_to_codex"
    \/ /\ messages[m].turn = NoTurn /\ found[m] # NoTurn
       /\ messages'[m].turn = found[m]
       /\ messages'[m].state # "dispatching_to_codex"

LEMMA TurnGivenSubmission ==
    ASSUME IInv, Submission, NEW m \in Message
    PROVE  TurnGiven(m)
<1> USE DEF store, daemon, runtime, TurnGiven, Submits
<1>0. messages \in [Message -> Row] /\ lock \in Holder
  BY DEF IInv, TypeOK
<1>1. CASE BeginSubmission
  BY <1>0, <1>1 DEF BeginSubmission, Row
<1>2. CASE StartAnswered
  <2>1. /\ lock.op = "dispatch" /\ lock.message \in Message
        /\ lock.turn \in Turn /\ messages[lock.message].turn = NoTurn
    BY <1>2 DEF StartAnswered, Dispatching, IInv, TypeOK, Holder, HoldersKnow,
       ClaimHeld
  <2> DEFINE D == Delivered(messages, lock.message, "accepted_by_codex", lock.turn)
  <2>2. Delivers(D, messages, lock.message, "accepted_by_codex", lock.turn)
    BY <1>0, <2>1, DeliveredRow DEF DeliveryState, Open, Active
  <2>3. \A n \in Message :
           /\ messages'[n].turn = D[n].turn
           /\ messages'[n].state \in {D[n].state, "completed", "streaming"}
    BY <1>2, <2>1, <2>2, DrainedTurn, TurnAssumption DEF StartAnswered, Delivers
  <2> QED BY <2>1, <2>2, <2>3, TurnAssumption DEF Delivers
<1>3. CASE StartUnanswered
  BY <1>0, <1>3 DEF StartUnanswered, Delivered, Row
<1>4. CASE SteerAnswered
  <2>1. messages[lock.message].turn = NoTurn
    BY <1>4 DEF SteerAnswered, IInv, HoldersKnow, GuideHeld
  <2> QED BY <1>0, <1>4, <2>1 DEF SteerAnswered, Delivered, Row
<1>5. CASE SteerRefused
  BY <1>0, <1>5 DEF SteerRefused, Delivered, Row
<1>6. CASE SteerUnanswered
  BY <1>0, <1>6 DEF SteerUnanswered, Delivered, Row
<1> QED BY <1>1, <1>2, <1>3, <1>4, <1>5, <1>6 DEF Submission

LEMMA TurnGivenRecovery ==
    ASSUME IInv, Recovery, NEW m \in Message
    PROVE  TurnGiven(m)
<1>1. messages \in [Message -> Row]
  BY DEF IInv, TypeOK
<1>2. ASSUME NEW n \in Message, RecoverMessage(n)
      PROVE  TurnGiven(m)
  <2>1. \/ messages' = messages
        \/ messages' = CompletedTurn(messages, messages[n].turn)
        \/ messages' = UncertainTurn(messages, messages[n].turn)
    BY <1>2 DEF RecoverMessage, ApplyCompletion
  <2> QED BY <1>1, <2>1 DEF TurnGiven, CompletedTurn, UncertainTurn, Row
<1>3. CASE RecoverDue \/ RecoverDrained \/ RecoverStart \/ RecoverDone \/ RecoverAbort
  BY <1>3 DEF RecoverDue, RecoverDrained, RecoverStart, RecoverDone, RecoverAbort, store, TurnGiven
<1> QED BY <1>2, <1>3 DEF Recovery

LEMMA TurnFrame ==
    ASSUME IInv, Next, NEW m \in Message
    PROVE  TurnGiven(m)
<1> USE DEF store, daemon, runtime
<1>0. messages \in [Message -> Row]
  BY DEF IInv, TypeOK
<1>1. CASE Person
  <2>1. messages'[m].turn = messages[m].turn
    <3>1. ASSUME NEW n \in Message, Send(n) PROVE messages'[m].turn = messages[m].turn
      BY <1>0, <3>1 DEF Send, Row
    <3>2. ASSUME NEW n \in Message, NEW t \in Turn,
                 SendGuide(n, t) \/ MoveToGuide(n, t)
          PROVE  messages'[m].turn = messages[m].turn
      BY <1>0, <3>2 DEF SendGuide, MoveToGuide, Row
    <3>3. ASSUME NEW n \in Message, Edit(n) \/ Cancel(n) \/ Retry(n)
          PROVE  messages'[m].turn = messages[m].turn
      BY <1>0, <3>3 DEF Edit, Cancel, Retry, Row
    <3> QED BY <1>1, <3>1, <3>2, <3>3 DEF Person
  <2> QED BY <2>1 DEF TurnGiven
<1>2. CASE Stop
  <2>1. messages'[m].turn = messages[m].turn
    <3>1. CASE StopRecord
      BY <1>0, <3>1 DEF StopRecord, Row
    <3> QED BY <1>2, <3>1 DEF Stop, StopRequest
  <2> QED BY <2>1 DEF TurnGiven
<1>3. CASE Tick
  <2>1. messages'[m].turn = messages[m].turn
    <3>1. CASE TickStart
      BY <1>0, <3>1, ReclaimedRows DEF TickStart, GivesBack
    <3>2. ASSUME NEW n \in Message, Dispatch(n) PROVE messages'[m].turn = messages[m].turn
      BY <1>0, <3>2 DEF Dispatch, Row
    <3>3. ASSUME NEW n \in Message, GuideFails(n) PROVE messages'[m].turn = messages[m].turn
      BY <1>0, <3>3 DEF GuideFails, Delivered, Row
    <3>4. ASSUME NEW n \in Message, DispatchGuide(n) PROVE messages'[m].turn = messages[m].turn
      BY <1>0, <3>4 DEF DispatchGuide, Row
    <3> QED BY <1>3, <3>1, <3>2, <3>3, <3>4 DEF Tick, ListDispatch, TickEnd,
               SkipListed
  <2> QED BY <2>1 DEF TurnGiven
<1>4. CASE Receipts
  <2>1. ASSUME NEW n \in Message, AcceptReceipt(n) PROVE TurnGiven(m)
    <3>1. CASE Ambiguous(n)
      <4>1. messages' = Delivered(messages, n, "accepted_by_codex", found[n])
            /\ messages[n].turn = NoTurn /\ found[n] # NoTurn
        BY <2>1, <3>1 DEF AcceptReceipt, Ambiguous
      <4> QED BY <1>0, <4>1 DEF Delivered, TurnGiven, Row
    <3> QED BY <2>1, <3>1 DEF AcceptReceipt, TurnGiven
  <2>2. ASSUME NEW n \in Message, NEW t \in Turn, ScanReceipt(n, t)
        PROVE  TurnGiven(m)
    BY <2>2 DEF ScanReceipt, TurnGiven
  <2> QED BY <1>4, <2>1, <2>2 DEF Receipts
<1>5. CASE Projector
  <2>1. CASE ApplyDelta
    BY <1>0, <2>1 DEF ApplyDelta, IInv, HoldersKnow, DeltaHeld, Delivered,
       TurnGiven, Row
  <2>2. CASE ProjectCompletion
    BY <1>0, <2>2 DEF ProjectCompletion, ApplyCompletion, CompletedTurn,
       TurnGiven, Row
  <2> QED BY <1>5, <2>1, <2>2 DEF Projector, ProjectUnmapped, LoadDelta, TurnGiven
<1>6. CASE Runtime
  BY <1>6 DEF Runtime, Take, TurnStart, TurnSteer, StreamDelta, FinishTurn,
     TurnGiven
<1>7. CASE Fault
  <2>1. messages'[m].turn = messages[m].turn
    <3>1. CASE PrepareFails
      BY <1>0, <3>1 DEF PrepareFails, Delivered, Row
    <3>2. CASE Crash
      BY <1>0, <3>2, ReclaimedRows DEF Crash, GivesBack
    <3> QED BY <1>7, <3>1, <3>2 DEF Fault, ListedFails, SaveFails, RuntimeDies
  <2> QED BY <2>1 DEF TurnGiven
<1> QED BY <1>1, <1>2, <1>3, <1>4, <1>5, <1>6, <1>7, TurnGivenSubmission,
           TurnGivenRecovery DEF Next

(* The lock is kept, given back, taken for one of four purposes, loses its *)
(* answer when the runtime dies, or gets one (Takes).                      *)
LockTaken ==
    /\ lock.op = "free"
    /\ \/ lock'.op \in {"dispatch", "guide"} /\ lock'.turn = NoTurn
       \/ lock'.op = "project"
       \/ /\ lock'.op = "stop" /\ lock'.turn \in Turn /\ Over(lock.turn)'
          /\ messages'[lock'.message].turn = lock'.turn

LockKept ==
    \/ lock' = lock
    \/ lock'.op = "free"
    \/ LockTaken
    \/ lock'.turn = NoTurn /\ lock'.op = lock.op /\ Submits

LEMMA LockFrame ==
    ASSUME IInv, Next, ~Take
    PROVE  LockKept
<1> USE DEF store, daemon, runtime
<1>0. lock \in Holder /\ TypeOK
  BY DEF IInv, TypeOK
<1>1. CASE Stop
  <2>1. CASE StopRecord
    BY <2>1 DEF StopRecord, LockKept, Unlocked
  <2>2. ASSUME NEW m \in Message, NEW t \in Turn, StopRequest(m, t)
        PROVE  LockKept
    <3>1. Over(t)'
      BY <1>0, <2>2, StatusKept DEF StopRequest
    <3>2. messages' = messages /\ messages[m].turn = t
      BY <2>2 DEF StopRequest, Owns, MappedTo
    <3>3. /\ lock.op = "free" /\ lock'.op = "stop" /\ lock'.message = m
          /\ lock'.turn = t
      BY <2>2 DEF StopRequest, Unlocked
    <3>4. Over(lock.turn)'
      BY <3>1, <3>3 DEF Over
    <3>5. LockTaken
      BY <3>2, <3>3, <3>4 DEF LockTaken
    <3> QED BY <3>5 DEF LockKept
  <2> QED BY <1>1, <2>1, <2>2 DEF Stop
<1>2. CASE Tick
  <2>1. ASSUME NEW m \in Message, Dispatch(m) PROVE LockKept
    BY <2>1 DEF Dispatch, LockKept, LockTaken
  <2>2. ASSUME NEW m \in Message, DispatchGuide(m) PROVE LockKept
    BY <2>2 DEF DispatchGuide, LockKept, LockTaken, Unlocked
  <2> QED BY <1>2, <2>1, <2>2 DEF Tick, TickStart, ListDispatch, TickEnd,
             SkipListed, GuideFails, LockKept
<1>3. CASE Submission
  BY <1>3 DEF Submission, BeginSubmission, StartAnswered, StartUnanswered,
     SteerAnswered, SteerRefused, SteerUnanswered, Unlocked, LockKept
<1>4. CASE Projector
  <2>1. ASSUME NEW m \in Message, LoadDelta(m) PROVE LockKept
    BY <2>1 DEF LoadDelta, Pending, LockKept, LockTaken, Unlocked
  <2>2. CASE ApplyDelta
    BY <2>2 DEF ApplyDelta, LockKept, Unlocked
  <2> QED BY <1>4, <2>1, <2>2 DEF Projector, ProjectUnmapped, ProjectCompletion,
             LockKept
<1>5. CASE Person \/ Receipts \/ Recovery
  BY <1>5 DEF Person, Send, SendGuide, Edit, Cancel, MoveToGuide, Retry,
     Receipts, ScanReceipt, AcceptReceipt, Recovery, RecoverDue, RecoverDrained, RecoverStart,
     RecoverDone, RecoverAbort, RecoverMessage, LockKept
<1>6. CASE \E t \in Turn : StreamDelta(t) \/ FinishTurn(t)
  BY <1>6 DEF StreamDelta, FinishTurn, LockKept
<1>7. CASE Fault
  <2>1. CASE RuntimeDies
    BY <1>0, <2>1 DEF RuntimeDies, LockKept, Submits, Holder
  <2>2. CASE PrepareFails \/ SaveFails \/ Crash
    <3>1. lock' = Unlocked
      BY <2>2 DEF PrepareFails, SaveFails, Crash
    <3> QED BY <3>1 DEF Unlocked, LockKept
  <2> QED BY <1>7, <2>1, <2>2 DEF Fault, ListedFails, LockKept
<1> QED BY <1>1, <1>2, <1>3, <1>4, <1>5, <1>6, <1>7 DEF Next, Runtime

(* What a scan has found is in the history; a steer goes to a turn that a  *)
(* message of its conversation shows.                                      *)
LEMMA FoundFrame ==
    ASSUME IInv, Next, NEW m \in Message
    PROVE  \/ found'[m] = found[m] \/ found'[m] = NoTurn
           \/ found'[m] \in Turn /\ m \in turns[found'[m]].input
<1> USE DEF store, daemon, runtime
<1>0. found \in [Message -> Turn \cup {NoTurn}]
  BY DEF IInv, TypeOK
<1>1. CASE Receipts
  BY <1>0, <1>1 DEF Receipts, ScanReceipt, AcceptReceipt
<1>2. CASE Crash
  BY <1>2 DEF Crash
<1>3. CASE ~Receipts /\ ~Crash
  <2>1. found' = found
    BY <1>3 DEF Next, Person, Send, SendGuide, Edit, Cancel, MoveToGuide, Retry,
       Stop, StopRecord, StopRequest, Tick, TickStart, ListDispatch, TickEnd,
       SkipListed, Dispatch, GuideFails, DispatchGuide, Submission,
       BeginSubmission, StartAnswered, StartUnanswered, SteerAnswered,
       SteerRefused, SteerUnanswered, Projector, ProjectUnmapped,
       ProjectCompletion, LoadDelta, ApplyDelta, Recovery, RecoverDue, RecoverDrained,
       RecoverStart, RecoverDone, RecoverAbort, RecoverMessage, Runtime, Take,
       TurnStart, TurnSteer, StreamDelta, FinishTurn, Fault, ListedFails,
       PrepareFails, SaveFails, RuntimeDies
  <2> QED BY <2>1
<1> QED BY <1>1, <1>2, <1>3

LEMMA WireFrame ==
    ASSUME IInv, Next, NEW r \in wire'
    PROVE  \/ r \in wire
           \/ r.turn = NoTurn
           \/ /\ messages'[r.message].state # "dispatching_to_codex"
              /\ \E n \in Peers(r.message) : messages[n].turn = r.turn
<1> USE DEF store, daemon, runtime
<1>1. CASE Submission
  BY <1>1 DEF Submission, BeginSubmission, StartAnswered, StartUnanswered,
     SteerAnswered, SteerRefused, SteerUnanswered
<1>2. CASE Tick
  <2>1. ASSUME NEW n \in Message, DispatchGuide(n)
        PROVE  \/ r \in wire
               \/ /\ messages'[r.message].state # "dispatching_to_codex"
                  /\ \E p \in Peers(r.message) : messages[p].turn = r.turn
    BY <2>1 DEF DispatchGuide, TakesGuide, Owns, MappedTo, IInv, TypeOK, Row
  <2> QED BY <1>2, <2>1 DEF Tick, TickStart, ListDispatch, TickEnd, SkipListed,
             Dispatch, GuideFails
<1>3. CASE Runtime
  BY <1>3 DEF Runtime, Take, TurnStart, TurnSteer, StreamDelta, FinishTurn
<1>4. CASE Fault
  BY <1>4 DEF Fault, ListedFails, PrepareFails, SaveFails, RuntimeDies, Crash
<1>5. CASE Person \/ Stop \/ Receipts \/ Projector \/ Recovery
  <2>1. wire' = wire
    BY <1>5 DEF Person, Send, SendGuide, Edit, Cancel, MoveToGuide, Retry,
       Stop, StopRecord, StopRequest, Receipts, ScanReceipt, AcceptReceipt,
       Projector, ProjectUnmapped, ProjectCompletion, LoadDelta, ApplyDelta,
       Recovery, RecoverDue, RecoverDrained, RecoverStart, RecoverDone, RecoverAbort,
       RecoverMessage
  <2> QED BY <2>1
<1> QED BY <1>1, <1>2, <1>3, <1>4, <1>5 DEF Next

(* What one step may do to the state and the turn of a message.            *)
Same(m) == messages'[m].turn = messages[m].turn
Becomes(m, before, after) ==
    messages[m].state \in before /\ messages'[m].state \in after

StateMoves(m) ==
    \/ Same(m) /\ messages'[m].state = messages[m].state
    \/ Same(m) /\ Becomes(m, {"unsent"}, {"accepted_by_wonder"})
    \/ Same(m) /\ Becomes(m, {"accepted_by_wonder", "safe_to_retry", "failed"},
                          {"accepted_by_wonder", "failed", "interrupted",
                           "dispatching_to_codex", "uncertain"})
    \/ /\ Same(m) /\ messages[m].phase = "claimed"
       /\ Becomes(m, {"dispatching_to_codex"}, {"accepted_by_wonder", "safe_to_retry"})
    \/ Same(m) /\ Becomes(m, {"dispatching_to_codex", "uncertain"}, {"uncertain"})
    \/ /\ messages[m].turn = NoTurn /\ messages'[m].turn # NoTurn
       /\ Becomes(m, {"dispatching_to_codex", "uncertain"}, Active \cup {"completed"})
    \/ Same(m) /\ Becomes(m, Active, {"interrupted"})
    \/ /\ Same(m) /\ messages[m].turn # NoTurn
       /\ Becomes(m, Open, {"completed", "uncertain", "streaming"})

LEMMA SettledMoves ==
    ASSUME NEW t \in Turn, SettlesTurn(messages', messages, t), NEW m \in Message
    PROVE  StateMoves(m)
BY TurnAssumption DEF SettlesTurn, StateMoves, Same, Becomes

LEMMA TickMoves ==
    ASSUME IInv, Tick, NEW m \in Message
    PROVE  StateMoves(m)
<1> USE DEF Becomes, Same
<1>0. messages \in [Message -> Row]
  BY DEF IInv, TypeOK
<1>1. CASE TickStart
  <2>1. GivesBack(messages', messages)
    BY <1>0, <1>1, ReclaimedRows DEF TickStart
  <2> QED BY <2>1 DEF GivesBack, StateMoves
<1>2. ASSUME NEW n \in Message, Dispatch(n) PROVE StateMoves(m)
  <2>1. \/ messages'[m] = messages[m]
        \/ /\ messages[m].state = "accepted_by_wonder"
           /\ messages'[m].state = "dispatching_to_codex" /\ Same(m)
    BY <1>0, <1>2 DEF Dispatch, Claimable, Row
  <2> QED BY <2>1 DEF StateMoves
<1>3. ASSUME NEW n \in Message, GuideFails(n) PROVE StateMoves(m)
  <2>1. messages[n].state = "accepted_by_wonder"
    BY <1>3 DEF GuideFails, IInv, ListsKnow, GuidesListed
  <2>2. \/ messages'[m] = messages[m]
        \/ m = n /\ messages'[m].state = "failed" /\ Same(m)
    BY <1>0, <1>3 DEF GuideFails, Delivered, Row
  <2> QED BY <2>1, <2>2 DEF StateMoves
<1>4. ASSUME NEW n \in Message, DispatchGuide(n) PROVE StateMoves(m)
  <2>1. \/ messages'[m] = messages[m]
        \/ /\ messages[m].state = "accepted_by_wonder"
           /\ messages'[m].state = "uncertain" /\ Same(m)
    BY <1>0, <1>4 DEF DispatchGuide, Row
  <2> QED BY <2>1 DEF StateMoves
<1>5. CASE ListDispatch \/ TickEnd \/ \E n \in Message : SkipListed(n)
  BY <1>5 DEF ListDispatch, TickEnd, SkipListed, store, StateMoves
<1> QED BY <1>1, <1>2, <1>3, <1>4, <1>5 DEF Tick

LEMMA SubmissionMoves ==
    ASSUME IInv, Submission, NEW m \in Message
    PROVE  StateMoves(m)
<1> USE DEF Becomes, Same
<1>0. messages \in [Message -> Row] /\ lock \in Holder
  BY DEF IInv, TypeOK
<1>1. CASE StartAnswered
  <2>1. /\ lock.op = "dispatch" /\ lock.message \in Message /\ lock.turn \in Turn
        /\ messages[lock.message].state = "dispatching_to_codex"
        /\ messages[lock.message].turn = NoTurn
    BY <1>1 DEF StartAnswered, Dispatching, IInv, TypeOK, Holder, HoldersKnow,
       ClaimHeld
  <2> DEFINE D == Delivered(messages, lock.message, "accepted_by_codex", lock.turn)
  <2>2. Delivers(D, messages, lock.message, "accepted_by_codex", lock.turn)
    BY <1>0, <2>1, DeliveredRow DEF DeliveryState, Open, Active
  <2>3. SettlesTurn(CompletedTurn(D, lock.turn), D, lock.turn)
    BY <2>2, TurnSettled DEF Delivers
  <2>4. Delivers(Delivered(D, lock.message, "streaming", lock.turn), D,
                 lock.message, "streaming", lock.turn)
    BY <2>1, <2>2, DeliveredRow DEF Delivers, DeliveryState, Open, Active
  <2>5. messages' \in {D, CompletedTurn(D, lock.turn),
                       Delivered(D, lock.message, "streaming", lock.turn)}
    BY <1>1 DEF StartAnswered, Drained
  <2>6. CASE messages' = CompletedTurn(D, lock.turn)
    <3>1. CASE D[m].turn = lock.turn /\ D[m].state \in Open
      <4>1. messages'[m].state = "completed" /\ messages'[m].turn = lock.turn
        BY <2>2, <2>6, <3>1 DEF CompletedTurn, Delivers, Row
      <4>2. CASE m = lock.message
        BY <2>1, <4>1, <4>2, TurnAssumption DEF StateMoves
      <4>3. CASE m # lock.message
        BY <2>1, <2>2, <3>1, <4>1, <4>3, TurnAssumption DEF StateMoves, Delivers
      <4> QED BY <4>2, <4>3
    <3>2. CASE ~(D[m].turn = lock.turn /\ D[m].state \in Open)
      <4>1. messages'[m] = D[m]
        BY <2>6, <3>2 DEF CompletedTurn
      <4> QED BY <2>1, <2>2, <3>2, <4>1, TurnAssumption
              DEF StateMoves, Delivers, Open, Active
    <3> QED BY <3>1, <3>2
  <2>7. CASE messages' \in {D, Delivered(D, lock.message, "streaming", lock.turn)}
    <3>1. m = lock.message => /\ messages'[m].turn = lock.turn
                              /\ messages'[m].state \in Active
      BY <2>1, <2>2, <2>4, <2>7, TurnAssumption DEF Delivers, Active
    <3>2. m # lock.message => messages'[m] = messages[m]
      BY <2>2, <2>4, <2>7 DEF Delivers
    <3> QED BY <2>1, <3>1, <3>2, TurnAssumption DEF StateMoves
  <2> QED BY <2>5, <2>6, <2>7
<1>2. CASE BeginSubmission
  BY <1>0, <1>2 DEF BeginSubmission, Row, StateMoves
<1>3. ASSUME NEW s \in {"uncertain", "accepted_by_codex"},
             NEW t \in Turn \cup {NoTurn}, s = "uncertain" <=> t = NoTurn,
             messages' = Delivered(messages, lock.message, s, t),
             lock.op \in {"dispatch", "guide"}
      PROVE  StateMoves(m)
  <2>1. /\ lock.message \in Message
        /\ messages[lock.message].state \in {"dispatching_to_codex", "uncertain"}
        /\ messages[lock.message].turn = NoTurn
    BY <1>3 DEF IInv, TypeOK, HoldersKnow, ClaimHeld, GuideHeld
  <2>2. Delivers(messages', messages, lock.message, s, t)
    BY <1>0, <1>3, <2>1, DeliveredRow DEF DeliveryState, Open, Active
  <2>3. m # lock.message => messages'[m] = messages[m]
    BY <2>2 DEF Delivers
  <2>4. m = lock.message => messages'[m].state = s /\ messages'[m].turn = t
    BY <2>1, <2>2 DEF Delivers
  <2> QED BY <1>3, <2>1, <2>3, <2>4 DEF StateMoves, Active
<1>4. CASE SteerAnswered
  <2>1. lock.turn \in Turn
    BY <1>0, <1>4 DEF SteerAnswered, Holder
  <2> QED BY <1>3, <1>4, <2>1, TurnAssumption DEF SteerAnswered
<1>5. CASE StartUnanswered \/ SteerRefused \/ SteerUnanswered
  <2>1. /\ messages' = Delivered(messages, lock.message, "uncertain", NoTurn)
        /\ lock.op \in {"dispatch", "guide"}
    BY <1>5 DEF StartUnanswered, SteerRefused, SteerUnanswered, Dispatching
  <2> QED BY <1>3, <2>1
<1> QED BY <1>1, <1>2, <1>4, <1>5 DEF Submission

(* Only a delta that was loaded before its turn was completed may bring a  *)
(* completed message back.                                                 *)
LateArrival(m) == /\ ApplyDelta /\ lock.message = m /\ Same(m)
                  /\ Becomes(m, {"completed"}, {"streaming"})

LEMMA StatesMove ==
    ASSUME IInv, RowsOnTurn, Next, NEW m \in Message
    PROVE  StateMoves(m) \/ LateArrival(m)
<1> USE DEF store, daemon, runtime, Becomes, Same
<1>0. messages \in [Message -> Row] /\ TypeOK
  BY DEF IInv, TypeOK
<1>1. CASE Person
  <2>1. ASSUME NEW n \in Message, Send(n) PROVE StateMoves(m)
    <3>1. \/ messages'[m] = messages[m]
          \/ /\ messages[m].state = "unsent" /\ Same(m)
             /\ messages'[m].state = "accepted_by_wonder"
      BY <1>0, <2>1 DEF Send, NextInOrder, Sent, Row
    <3> QED BY <3>1 DEF StateMoves
  <2>2. ASSUME NEW n \in Message, NEW t \in Turn, SendGuide(n, t)
        PROVE  StateMoves(m)
    <3>1. \/ messages'[m] = messages[m]
          \/ /\ messages[m].state = "unsent" /\ Same(m)
             /\ messages'[m].state = "accepted_by_wonder"
      BY <1>0, <2>2 DEF SendGuide, NextInOrder, Sent, Row
    <3> QED BY <3>1 DEF StateMoves
  <2>3. ASSUME NEW n \in Message,
               Edit(n) \/ Cancel(n) \/ Retry(n) \/ \E t \in Turn : MoveToGuide(n, t)
        PROVE  StateMoves(m)
    <3>1. \/ Same(m) /\ messages'[m].state = messages[m].state
          \/ /\ messages[m].state \in {"accepted_by_wonder", "safe_to_retry", "failed"}
             /\ messages'[m].state \in {"interrupted", "accepted_by_wonder"} /\ Same(m)
      BY <1>0, <2>3 DEF Edit, Cancel, Retry, MoveToGuide, Waiting, Row
    <3> QED BY <3>1 DEF StateMoves
  <2> QED BY <1>1, <2>1, <2>2, <2>3 DEF Person
<1>2. CASE Stop
  <2>1. \/ messages'[m] = messages[m]
        \/ Same(m) /\ Becomes(m, Active, {"interrupted"})
    <3>1. CASE StopRecord
      BY <1>0, <3>1 DEF StopRecord, Row
    <3> QED BY <1>2, <3>1 DEF Stop, StopRequest
  <2> QED BY <2>1 DEF StateMoves
<1>3. CASE Receipts
  <2>1. ASSUME NEW n \in Message, AcceptReceipt(n) PROVE StateMoves(m)
    <3>1. CASE Ambiguous(n)
      <4>1. /\ messages' = Delivered(messages, n, "accepted_by_codex", found[n])
            /\ messages[n].turn = NoTurn /\ found[n] \in Turn
            /\ messages[n].state = "uncertain"
        BY <1>0, <2>1, <3>1 DEF AcceptReceipt, Ambiguous, TypeOK
      <4>2. Delivers(messages', messages, n, "accepted_by_codex", found[n])
        BY <1>0, <4>1, DeliveredRow DEF DeliveryState, Open, Active
      <4> QED BY <4>1, <4>2, TurnAssumption DEF Delivers, StateMoves, Active
    <3> QED BY <2>1, <3>1 DEF AcceptReceipt, StateMoves
  <2> QED BY <1>3, <2>1 DEF Receipts, ScanReceipt, StateMoves
<1>4. CASE Projector
  <2>1. CASE ProjectCompletion
    <3>1. Head(inbox).turn \in Turn
      BY <1>0, <2>1, NoticeTail DEF ProjectCompletion, Pending, Notice, TypeOK
    <3>2. SettlesTurn(messages', messages, Head(inbox).turn)
      BY <1>0, <2>1, TurnSettled DEF ProjectCompletion, ApplyCompletion
    <3> QED BY <3>1, <3>2, SettledMoves
  <2>2. CASE ApplyDelta
    <3>1. /\ lock.message \in Message /\ lock.turn \in Turn
          /\ messages[lock.message].turn = lock.turn
          /\ messages[lock.message].state # "interrupted"
          /\ messages' = Delivered(messages, lock.message, "streaming", lock.turn)
      BY <2>2 DEF ApplyDelta, IInv, TypeOK, HoldersKnow, DeltaHeld
    <3>2. messages[lock.message].state \in Open \cup {"completed"}
      BY <1>0, <3>1, TurnAssumption DEF IInv, RowsSafe, UnspentUntouched, Unspent,
         Untouched, RowsOnTurn, Row, DeliveryState, Final
    <3>3. Delivers(messages', messages, lock.message, "streaming", lock.turn)
      BY <1>0, <3>1, DeliveredRow DEF DeliveryState, Open, Active
    <3>4. m # lock.message => StateMoves(m)
      BY <3>3 DEF Delivers, StateMoves
    <3>5. m = lock.message => Same(m) /\ messages'[m].state = "streaming"
      BY <3>1, <3>3, TurnAssumption DEF Delivers
    <3>6. CASE m = lock.message /\ messages[m].state \in Open
      BY <3>1, <3>5, <3>6, TurnAssumption DEF StateMoves
    <3>7. CASE m = lock.message /\ messages[m].state = "completed"
      BY <2>2, <3>5, <3>7 DEF LateArrival
    <3> QED BY <3>2, <3>4, <3>6, <3>7
  <2> QED BY <1>4, <2>1, <2>2 DEF Projector, ProjectUnmapped, LoadDelta, StateMoves
<1>5. CASE Recovery
  <2>1. ASSUME NEW n \in Message, RecoverMessage(n) PROVE StateMoves(m)
    <3>1. messages[n].turn \in Turn
      BY <2>1 DEF RecoverMessage, IInv, ListsKnow, TodoOnTurn
    <3>2. SettlesTurn(messages', messages, messages[n].turn)
      BY <1>0, <2>1, TurnSettled DEF RecoverMessage, ApplyCompletion
    <3> QED BY <3>1, <3>2, SettledMoves
  <2> QED BY <1>5, <2>1 DEF Recovery, RecoverDue, RecoverDrained, RecoverStart, RecoverDone,
             RecoverAbort, StateMoves
<1>6. CASE Runtime
  BY <1>6 DEF Runtime, Take, TurnStart, TurnSteer, StreamDelta, FinishTurn, StateMoves
<1>7. CASE Fault
  <2>1. CASE PrepareFails
    <3>1. /\ lock.message \in Message
          /\ messages[lock.message].state = "dispatching_to_codex"
          /\ messages[lock.message].phase = "claimed"
          /\ messages' = Delivered(messages, lock.message, "safe_to_retry", NoTurn)
      BY <2>1 DEF PrepareFails, Dispatching, IInv, TypeOK, HoldersKnow, ClaimHeld
    <3>2. Delivers(messages', messages, lock.message, "safe_to_retry", NoTurn)
      BY <1>0, <3>1, DeliveredRow DEF DeliveryState
    <3> QED BY <3>1, <3>2 DEF Delivers, StateMoves
  <2>2. CASE Crash
    BY ZenonT(30), <1>0, <2>2, ReclaimedRows DEF Crash, GivesBack, StateMoves
  <2> QED BY <1>7, <2>1, <2>2 DEF Fault, ListedFails, SaveFails, RuntimeDies,
             StateMoves
<1> QED BY <1>1, <1>2, <1>3, <1>4, <1>5, <1>6, <1>7, TickMoves, SubmissionMoves
        DEF Next

(* A row is completed on a turn, and claimed while it waits.               *)
LEMMA StateFrame ==
    ASSUME IInv, RowsOnTurn, Next, NEW m \in Message
    PROVE  /\ messages'[m].state = "completed" =>
                 messages[m].state = "completed" \/ messages'[m].turn # NoTurn
           /\ messages'[m].state = "dispatching_to_codex" =>
                 messages[m].state \in {"dispatching_to_codex", "accepted_by_wonder",
                                        "safe_to_retry", "failed"}
<1>1. CASE StateMoves(m)
  BY <1>1 DEF StateMoves, Same, Becomes, Open, Active
<1>2. CASE LateArrival(m)
  BY <1>2 DEF LateArrival, Becomes
<1> QED BY <1>1, <1>2, StatesMove

(* What the inbox, the parked notices and the receipts say of a turn that  *)
(* is over is true when they are written.                                  *)
OverStays == \A t \in Turn : Over(t) => Over(t)'

LEMMA NoticesStay ==
    ASSUME TypeOK, NoticesTrue, OverStays
    PROVE  /\ inbox' = inbox => InboxTrue'
           /\ parked' \subseteq parked => ParkedTrue'
           /\ receipts' \subseteq receipts => ReceiptsTrue'
<1>1. \A i \in 1..Len(inbox) : inbox[i] \in Notice
  BY DEF TypeOK
<1>2. inbox' = inbox => InboxTrue'
  BY <1>1 DEF NoticesTrue, InboxTrue, OverStays, Over, Notice
<1>3. parked' \subseteq parked => ParkedTrue'
  BY DEF TypeOK, NoticesTrue, ParkedTrue, OverStays, Over, Notice
<1>4. receipts' \subseteq receipts => ReceiptsTrue'
  BY DEF TypeOK, NoticesTrue, ReceiptsTrue, OverStays, Over
<1> QED BY <1>2, <1>3, <1>4

LEMMA NoticeAppended ==
    ASSUME TypeOK, NoticesTrue, OverStays, NEW t \in Turn,
           NEW k \in {"delta", "completed"},
           inbox' = Append(inbox, [kind |-> k, turn |-> t]),
           k = "completed" => Over(t)'
    PROVE  InboxTrue'
<1>1. \A i \in 1..Len(inbox) : inbox[i] \in Notice
  BY DEF TypeOK
<1>2. \A i \in 1..Len(inbox') : IF i = Len(inbox) + 1
                                THEN inbox'[i] = [kind |-> k, turn |-> t]
                                ELSE i \in 1..Len(inbox) /\ inbox'[i] = inbox[i]
  BY DEF TypeOK
<1>3. ASSUME NEW i \in 1..Len(inbox'), inbox'[i].kind = "completed"
      PROVE  inbox'[i].turn \in Turn /\ Over(inbox[i].turn)'
  <2>1. CASE i = Len(inbox) + 1
    BY <1>2, <1>3, <2>1 DEF Over
  <2>2. CASE i # Len(inbox) + 1
    BY <1>1, <1>2, <1>3, <2>2 DEF Over, OverStays, NoticesTrue, InboxTrue, Notice
  <2> QED BY <2>1, <2>2
<1> QED BY <1>3 DEF InboxTrue

LEMMA NoticeHandled ==
    ASSUME TypeOK, NoticesTrue, OverStays, inbox # <<>>, inbox' = Tail(inbox),
           parked' \in {parked, parked \cup {Head(inbox)}},
           \/ receipts' = receipts
           \/ Head(inbox).kind = "completed"
              /\ receipts' = receipts \cup {Head(inbox).turn}
    PROVE  NoticesTrue'
<1>1. \A i \in 1..Len(inbox) : inbox[i] \in Notice
  BY DEF TypeOK
<1>2. Head(inbox) = inbox[1] /\ 1 \in 1..Len(inbox)
  BY DEF TypeOK
<1>3. Head(inbox).kind = "completed" =>
         Head(inbox).turn \in Turn /\ Over(Head(inbox).turn)
  BY <1>1, <1>2 DEF NoticesTrue, InboxTrue, Notice
<1>4. \A i \in 1..Len(inbox') : i + 1 \in 1..Len(inbox) /\ inbox'[i] = inbox[i + 1]
  BY DEF TypeOK
<1>5. InboxTrue'
  BY <1>1, <1>4 DEF NoticesTrue, InboxTrue, OverStays, Over, Notice
<1>6. ParkedTrue'
  BY <1>3 DEF TypeOK, NoticesTrue, ParkedTrue, OverStays, Over, Notice
<1>7. ReceiptsTrue'
  BY <1>3 DEF TypeOK, NoticesTrue, ReceiptsTrue, OverStays, Over
<1> QED BY <1>5, <1>6, <1>7 DEF NoticesTrue

LEMMA NoticesFrame ==
    ASSUME IInv, NoticesTrue, Next, OverStays
    PROVE  NoticesTrue'
<1> USE DEF store, daemon, runtime
<1>0. TypeOK
  BY DEF IInv
<1>1. UNCHANGED <<inbox, parked, receipts>> => NoticesTrue'
  BY <1>0, NoticesStay DEF NoticesTrue
<1>2. ASSUME NEW t \in Turn, NEW k \in {"delta", "completed"},
             inbox' = Append(inbox, [kind |-> k, turn |-> t]),
             k = "completed" => Over(t)',
             UNCHANGED <<parked, receipts>>
      PROVE  NoticesTrue'
  BY <1>0, <1>2, NoticesStay, NoticeAppended DEF NoticesTrue
<1>3. CASE StartAnswered
  <2>1. /\ inbox' = inbox /\ parked' \subseteq parked
        /\ receipts' = receipts \cup {n.turn : n \in {p \in parked :
                           p.kind = "completed" /\ p.turn = lock.turn}}
    BY <1>3 DEF StartAnswered
  <2>2. \A t \in receipts' : t \in Turn /\ Over(t)
    BY <1>0, <2>1 DEF TypeOK, Notice, NoticesTrue, ParkedTrue, ReceiptsTrue
  <2>3. ReceiptsTrue'
    BY <2>2 DEF OverStays, Over, ReceiptsTrue
  <2> QED BY <1>0, <2>1, <2>3, NoticesStay DEF NoticesTrue
<1>4. CASE Recovery
  <2>1. ASSUME NEW m \in Message, RecoverMessage(m) PROVE NoticesTrue'
    <3>1. /\ UNCHANGED <<inbox, parked>>
          /\ \/ receipts' = receipts
             \/ /\ turns[messages[m].turn].status = "completed"
                /\ receipts' = receipts \cup {messages[m].turn}
      BY <2>1 DEF RecoverMessage, ApplyCompletion
    <3>2. messages[m].turn \in Turn
      BY <2>1 DEF RecoverMessage, IInv, ListsKnow, TodoOnTurn
    <3>3. \A t \in receipts' : t \in Turn /\ Over(t)
      BY <1>0, <3>1, <3>2 DEF TypeOK, NoticesTrue, ReceiptsTrue, Over
    <3>4. ReceiptsTrue'
      BY <3>3 DEF OverStays, Over, ReceiptsTrue
    <3> QED BY <1>0, <3>1, <3>4, NoticesStay DEF NoticesTrue
  <2> QED BY <1>1, <1>4, <2>1 DEF Recovery, RecoverDue, RecoverDrained, RecoverStart, RecoverDone,
             RecoverAbort
<1>5. CASE Projector
  <2>1. CASE ApplyDelta
    BY <1>0, <2>1, NoticeHandled DEF ApplyDelta, IInv, HoldersKnow, DeltaHeld
  <2>2. CASE ProjectCompletion
    BY <1>0, <2>2, NoticeHandled DEF ProjectCompletion, Pending, ApplyCompletion
  <2>3. CASE ProjectUnmapped
    BY <1>0, <2>3, NoticeHandled DEF ProjectUnmapped
  <2>4. ASSUME NEW m \in Message, LoadDelta(m) PROVE NoticesTrue'
    BY <1>0, <1>1, <2>4, NoticeHandled DEF LoadDelta, Pending
  <2> QED BY <1>5, <2>1, <2>2, <2>3, <2>4 DEF Projector
<1>6. CASE Runtime
  <2>1. ASSUME NEW t \in Turn, StreamDelta(t) PROVE NoticesTrue'
    BY <1>2, <2>1 DEF StreamDelta
  <2>2. ASSUME NEW t \in Turn, FinishTurn(t) PROVE NoticesTrue'
    <3>1. Over(t)'
      BY <1>0, <2>2, StatusKept DEF FinishTurn
    <3> QED BY <1>2, <2>2, <3>1 DEF FinishTurn
  <2> QED BY <1>1, <1>6, <2>1, <2>2 DEF Runtime, Take, TurnStart, TurnSteer
<1>7. CASE Stop
  <2>1. ASSUME NEW m \in Message, NEW t \in Turn, StopRequest(m, t)
        PROVE  NoticesTrue'
    <3>1. Over(t)'
      BY <1>0, <2>1, StatusKept DEF StopRequest
    <3> QED BY <1>2, <2>1, <3>1 DEF StopRequest
  <2> QED BY <1>1, <1>7, <2>1 DEF Stop, StopRecord
<1>8. CASE Person \/ Tick \/ Receipts \/ Fault
  <2>1. UNCHANGED <<inbox, parked, receipts>>
    BY <1>8 DEF Person, Send, SendGuide, Edit, Cancel, MoveToGuide, Retry, Tick,
       TickStart, ListDispatch, TickEnd, SkipListed, Dispatch, GuideFails,
       DispatchGuide, Receipts, ScanReceipt, AcceptReceipt, Fault, ListedFails,
       PrepareFails, SaveFails, RuntimeDies, Crash
  <2> QED BY <1>1, <2>1
<1>9. CASE Submission
  BY <1>1, <1>3, <1>9 DEF Submission, BeginSubmission, StartUnanswered,
     SteerAnswered, SteerRefused, SteerUnanswered
<1> QED BY <1>4, <1>5, <1>6, <1>7, <1>8, <1>9 DEF Next

LEMMA PlacesKept ==
    ASSUME IInv, Places, Next, ~Take, IInv'
    PROVE  Places'
<1> USE DEF Places
<1>0. /\ messages \in [Message -> Row] /\ messages' \in [Message -> Row]
      /\ lock \in Holder /\ lock' \in Holder /\ wire' \subseteq Request
      /\ lock'.op # "free" => lock'.message \in Message
      /\ lock.op # "free" => lock.message \in Message
  BY DEF IInv, TypeOK
<1>1. TurnsKept
  BY TurnsFrame
<1>2. TurnsTrue'
  BY <1>1 DEF TurnsKept, TurnsTrue, InputsTaken, UnusedEmpty, OneTurnEach,
     OneConversation, Peers
<1>3. TurnsShown'
  <2> SUFFICES ASSUME NEW m \in Message, messages'[m].turn # NoTurn
               PROVE  m \in turns'[messages'[m].turn].input
    BY DEF TurnsShown
  <2>1. messages'[m].turn \in Turn
    BY <1>0 DEF Row
  <2>2. m \in turns[messages'[m].turn].input
    BY TurnFrame DEF TurnGiven, NamesTrue, TurnsShown, AnswersHeld, FoundTrue
  <2> QED BY <1>1, <2>1, <2>2 DEF TurnsKept
<1>4. FoundTrue'
  <2> SUFFICES ASSUME NEW m \in Message, found'[m] # NoTurn
               PROVE  m \in turns'[found'[m]].input
    BY DEF FoundTrue
  <2>1. found'[m] \in Turn
    BY DEF IInv, TypeOK
  <2>2. m \in turns[found'[m]].input
    BY FoundFrame DEF NamesTrue, FoundTrue
  <2> QED BY <1>1, <2>1, <2>2 DEF TurnsKept
<1>5. AnswersHeld'
  <2> SUFFICES ASSUME lock'.op \in {"dispatch", "guide"}, lock'.turn # NoTurn
               PROVE  /\ lock'.message \in turns'[lock'.turn].input
                      /\ lock'.op = "dispatch" =>
                            turns'[lock'.turn].input = {lock'.message}
    BY DEF AnswersHeld, Submits
  <2>1. lock' = lock
    BY LockFrame DEF LockKept, LockTaken
  <2>2. lock.turn \in Turn
    BY <1>0, <2>1 DEF Holder
  <2> QED BY <1>1, <2>1, <2>2 DEF TurnsKept, NamesTrue, AnswersHeld, Submits
<1>6. SteersOwned'
  <2> SUFFICES ASSUME NEW r \in wire', r.turn # NoTurn
               PROVE  /\ messages'[r.message].state # "dispatching_to_codex"
                      /\ \E n \in Peers(r.message) : messages'[n].turn = r.turn
    BY DEF SteersOwned, Peers
  <2>0. r.message \in Message
    BY <1>0 DEF Request
  <2>1. \E n \in Peers(r.message) : messages[n].turn = r.turn
    BY WireFrame DEF NamesTrue, SteersOwned
  <2>2. \E n \in Peers(r.message) : messages'[n].turn = r.turn
    BY <2>1, TurnFrame DEF TurnGiven, Peers
  <2>3. messages'[r.message].state # "dispatching_to_codex"
    <3>1. CASE r \in wire
      <4>1. messages[r.message].state # "dispatching_to_codex"
        BY <3>1 DEF NamesTrue, SteersOwned
      <4>2. messages[r.message].state \notin {"accepted_by_wonder",
                                               "safe_to_retry", "failed"}
        BY <2>0, <3>1 DEF IInv, RowsSafe, UnspentUntouched, Unspent, Untouched
      <4> QED BY <2>0, <4>1, <4>2, StateFrame DEF NamesTrue
    <3>2. CASE r \notin wire
      BY <3>2, WireFrame
    <3> QED BY <3>1, <3>2
  <2> QED BY <2>2, <2>3
<1>7. RowsOnTurn'
  <2> SUFFICES ASSUME NEW m \in Message
               PROVE  /\ messages'[m].state = "completed" => messages'[m].turn # NoTurn
                      /\ messages'[m].state = "dispatching_to_codex"
                         => messages'[m].turn = NoTurn
    BY DEF RowsOnTurn
  <2>1. messages'[m].state = "completed" => messages'[m].turn # NoTurn
    BY StateFrame, TurnFrame DEF TurnGiven, NamesTrue, RowsOnTurn
  <2>2. messages'[m].state = "dispatching_to_codex" => messages[m].turn = NoTurn
    BY StateFrame DEF NamesTrue, RowsOnTurn, IInv, RowsSafe, UnspentUntouched,
       Unspent, Untouched
  <2> QED BY <2>1, <2>2, TurnFrame DEF TurnGiven
<1>8. NoticesTrue'
  BY <1>1, NoticesFrame DEF EndsTrue, TurnsKept, OverStays
<1>9. StopHeld'
  <2> SUFFICES ASSUME lock'.op = "stop"
               PROVE  /\ lock'.turn \in Turn /\ Over(lock.turn)'
                      /\ messages'[lock'.message].turn = lock'.turn
    BY DEF StopHeld
  <2>1. CASE LockTaken
    BY <2>1 DEF LockTaken
  <2>2. CASE lock' = lock
    <3>1. /\ lock.turn \in Turn /\ Over(lock.turn)
          /\ messages[lock.message].turn = lock.turn
      BY <2>2 DEF EndsTrue, StopHeld
    <3>2. Over(lock.turn)'
      BY <1>1, <2>2, <3>1 DEF TurnsKept, Over
    <3>3. messages'[lock.message].turn = lock.turn
      BY <1>0, <2>2, <3>1, TurnFrame, TurnAssumption DEF TurnGiven
    <3> QED BY <2>2, <3>1, <3>2, <3>3
  <2> QED BY <2>1, <2>2, LockFrame DEF LockKept, Submits
<1> QED BY <1>2, <1>3, <1>4, <1>5, <1>6, <1>7, <1>8, <1>9 DEF NamesTrue, EndsTrue

LEMMA PlacesTake ==
    ASSUME IInv, Places, Take
    PROVE  Places'
<1> USE DEF Places, store
<1>1. PICK r \in wire, t \in Turn :
          /\ Takes(r, t)
          /\ r.turn = NoTurn => turns[t].status = "unused"
          /\ r.turn # NoTurn => r.turn = t /\ turns[t].status = "running"
  BY Taking
<1>2. /\ r.message \in Message /\ r.body \in Nat /\ taken[r.message] = <<>>
      /\ taken \in [Message -> Seq(Nat)]
      /\ \A u \in Turn : turns[u].input \subseteq Message
  BY DEF IInv, TypeOK, Request, History, RowsSafe, OneRequest
<1>3. /\ taken'[r.message] # <<>>
      /\ \A m \in Message : m # r.message => taken'[m] = taken[m]
      /\ \A u \in Turn : /\ turns[u].input \subseteq turns'[u].input
                         /\ turns'[u].input \subseteq turns[u].input \cup {r.message}
                         /\ u # t => turns'[u] = turns[u]
                         /\ Over(u) => Over(u)' /\ turns'[u] = turns[u]
      /\ turns'[t].input = turns[t].input \cup {r.message}
      /\ turns'[t].status = "running"
  BY <1>1, <1>2 DEF Takes, Over
<1>4. \A u \in Turn : r.message \notin turns[u].input
  BY <1>2 DEF TurnsTrue, InputsTaken
<1>5. \A n \in turns[t].input : n \in Peers(r.message)
  <2>1. CASE r.turn = NoTurn
    BY <1>1, <2>1 DEF TurnsTrue, UnusedEmpty
  <2>2. CASE r.turn # NoTurn
    <3>1. PICK n \in Peers(r.message) : messages[n].turn = t
      BY <1>1, <2>2 DEF NamesTrue, SteersOwned
    <3>2. n \in turns[t].input
      BY <3>1, TurnAssumption DEF NamesTrue, TurnsShown, Peers
    <3> QED BY <1>2, <3>1, <3>2 DEF TurnsTrue, OneConversation, Peers
  <2> QED BY <2>1, <2>2
<1>6. TurnsTrue'
  <2>1. InputsTaken'
    BY <1>2, <1>3 DEF TurnsTrue, InputsTaken
  <2>2. UnusedEmpty'
    BY <1>3 DEF TurnsTrue, UnusedEmpty
  <2>3. OneTurnEach'
    BY <1>3, <1>4 DEF TurnsTrue, OneTurnEach
  <2>4. OneConversation'
    BY <1>2, <1>3, <1>5 DEF TurnsTrue, OneConversation, Peers
  <2> QED BY <2>1, <2>2, <2>3, <2>4 DEF TurnsTrue
<1>7. UNCHANGED <<messages, inbox, parked, receipts, found>> /\ wire' \subseteq wire
  BY <1>1 DEF Takes
<1>8. TurnsShown' /\ FoundTrue' /\ SteersOwned' /\ RowsOnTurn'
  <2>1. \A m \in Message : messages[m].turn \in Turn \cup {NoTurn}
                           /\ found[m] \in Turn \cup {NoTurn}
    BY DEF IInv, TypeOK, Row
  <2> QED BY <1>3, <1>7, <2>1 DEF NamesTrue, TurnsShown, FoundTrue, SteersOwned,
             RowsOnTurn, Peers
<1>9. AnswersHeld'
  <2>0. lock \in Holder
    BY DEF IInv, TypeOK
  <2>1. CASE lock.op \in {"dispatch", "guide"} /\ lock.message = r.message
    <3>1. lock'.turn = t /\ lock'.message = r.message /\ lock'.op = lock.op
      BY <1>1, <2>0, <2>1 DEF Takes, Answered, Holder
    <3>2. lock.op = "dispatch" => r.turn = NoTurn
      BY <2>1 DEF IInv, HoldersKnow, ClaimHeld, NamesTrue, SteersOwned
    <3>3. lock.op = "dispatch" => turns[t].input = {}
      BY <1>1, <3>2 DEF TurnsTrue, UnusedEmpty
    <3> QED BY <1>3, <3>1, <3>3 DEF AnswersHeld
  <2>2. CASE ~(lock.op \in {"dispatch", "guide"} /\ lock.message = r.message)
    <3>1. lock' = lock
      BY <1>1, <2>2 DEF Takes, Answered
    <3>2. ASSUME Submits, lock.turn # NoTurn, lock.op = "dispatch"
          PROVE  lock.turn # t
      <4>1. r.turn = NoTurn => FALSE \/ lock.turn # t
        BY <1>1, <3>2 DEF NamesTrue, AnswersHeld, TurnsTrue, UnusedEmpty
      <4>2. r.turn # NoTurn => lock.turn # t
        <5> SUFFICES ASSUME r.turn # NoTurn, lock.turn = t PROVE FALSE
          OBVIOUS
        <5>1. PICK n \in Peers(r.message) : messages[n].turn = t
          BY <1>1 DEF NamesTrue, SteersOwned
        <5>2. n \in turns[t].input
          BY <5>1, TurnAssumption DEF NamesTrue, TurnsShown, Peers
        <5>3. n = lock.message
          BY <3>2, <5>2 DEF NamesTrue, AnswersHeld
        <5>4. messages[lock.message].turn = NoTurn
          BY <3>2 DEF IInv, HoldersKnow, ClaimHeld
        <5> QED BY <5>1, <5>3, <5>4, TurnAssumption
      <4> QED BY <4>1, <4>2
    <3>3. lock.turn # NoTurn => lock.turn \in Turn
      BY <2>0 DEF Holder
    <3> QED BY <1>3, <3>1, <3>2, <3>3 DEF NamesTrue, AnswersHeld, Submits
  <2> QED BY <2>1, <2>2
<1>10. NoticesTrue'
  <2>1. OverStays
    BY <1>3 DEF OverStays
  <2> QED BY <1>7, <2>1, NoticesStay DEF EndsTrue, NoticesTrue, IInv
<1>11. StopHeld'
  <2>1. lock'.op = lock.op
    BY <1>1 DEF Takes, Answered, IInv, TypeOK, Holder
  <2>2. lock.op = "stop" => lock' = lock
    BY <1>1 DEF Takes, Answered
  <2> QED BY <1>3, <1>7, <2>1, <2>2 DEF EndsTrue, StopHeld, Over
<1> QED BY <1>6, <1>8, <1>9, <1>10, <1>11 DEF NamesTrue, EndsTrue

LEMMA InitPlaces == Init => Places
<1> SUFFICES ASSUME Init PROVE Places
  OBVIOUS
<1> USE DEF Init
<1>1. TurnsTrue
  BY DEF TurnsTrue, InputsTaken, UnusedEmpty, OneTurnEach, OneConversation
<1>2. NamesTrue
  BY DEF NamesTrue, TurnsShown, FoundTrue, AnswersHeld, SteersOwned, RowsOnTurn,
     Submits, Unlocked
<1>3. EndsTrue
  BY DEF EndsTrue, NoticesTrue, InboxTrue, ParkedTrue, ReceiptsTrue, StopHeld,
     Unlocked
<1> QED BY <1>1, <1>2, <1>3 DEF Places

LEMMA PlacesStutter == ASSUME Places, UNCHANGED vars PROVE Places'
<1> USE DEF Places, vars
<1>1. TurnsTrue'
  BY DEF TurnsTrue, InputsTaken, UnusedEmpty, OneTurnEach, OneConversation, Peers
<1>2. NamesTrue'
  BY DEF NamesTrue, TurnsShown, FoundTrue, AnswersHeld, SteersOwned, RowsOnTurn,
     Submits, Peers
<1>3. EndsTrue'
  BY DEF EndsTrue, NoticesTrue, InboxTrue, ParkedTrue, ReceiptsTrue, StopHeld, Over
<1> QED BY <1>1, <1>2, <1>3

(* Places is inductive with IInv. *)
LEMMA PlacesAlways == Spec => [](IInv /\ Places)
<1>1. IInv /\ IInv' /\ Places /\ [Next]_vars => Places'
  BY PlacesKept, PlacesTake, PlacesStutter
<1> QED BY InitPlaces, InductiveInvariant, <1>1, PTL DEF Spec

-----------------------------------------------------------------------------
(* Delivery implements DeliveryPromise, message by message.                *)

LEMMA RunsCounted ==
    ASSUME IInv, Places, NEW m \in Message
    PROVE  /\ Len(taken[m]) \in {0, 1}
           /\ messages[m].turn # NoTurn => Len(taken[m]) = 1
           /\ Unspent(m) => Len(taken[m]) = 0 /\ messages[m].turn = NoTurn
<1>1. taken[m] = <<>> \/ taken[m] = <<messages[m].body>>
  BY DEF IInv, RowsSafe, TakenAsShown
<1>2. Len(<<>>) = 0 /\ \A x : Len(<<x>>) = 1
  OBVIOUS
<1>3. messages[m].turn # NoTurn => taken[m] # <<>>
  BY DEF Places, NamesTrue, TurnsShown, TurnsTrue, InputsTaken, IInv, TypeOK, Row
<1>4. Unspent(m) => taken[m] = <<>> /\ messages[m].turn = NoTurn
  BY DEF IInv, RowsSafe, UnspentUntouched, Untouched
<1> QED BY <1>1, <1>2, <1>3, <1>4

(* What a person is told of a message changes as DeliveryPromise allows.   *)
Told(m, before, after) == ReceiptOf(m) = before /\ ReceiptOf(m)' = after
ReceiptMoves(m) ==
    \/ taken'[m] = taken[m] /\ \/ Told(m, "unsent", "held")
                               \/ Told(m, "held", "closed")
                               \/ Told(m, "held", "submitted")
                               \/ Told(m, "submitted", "held") /\ Len(taken[m]) = 0
                               \/ Told(m, "submitted", "confirmed") /\ Len(taken[m]) = 1
                               \/ Told(m, "submitted", "closed") /\ Len(taken[m]) = 1
                               \/ Told(m, "confirmed", "closed")
                               \/ ReceiptOf(m)' = ReceiptOf(m)
    \/ Told(m, "submitted", "submitted") /\ Len(taken[m]) = 0 /\ Len(taken'[m]) = 1

Tells(m) ==
    /\ messages[m].state = "unsent" => ReceiptOf(m) = "unsent"
    /\ messages[m].state \in {"accepted_by_wonder", "safe_to_retry", "failed"}
          => ReceiptOf(m) = "held"
    /\ messages[m].state \in Final => ReceiptOf(m) = "closed"
    /\ messages[m].state \in Open \cup {"dispatching_to_codex"}
          => ReceiptOf(m) = IF messages[m].turn = NoTurn THEN "submitted"
                            ELSE "confirmed"
    /\ ReceiptOf(m) \in Promise!Status

LEMMA TellsBefore == ASSUME TypeOK, NEW m \in Message PROVE Tells(m)
BY DEF Tells, ReceiptOf, TypeOK, Row, DeliveryState, Open, Active, Final,
   Promise!Status

LEMMA TellsAfter == ASSUME TypeOK', NEW m \in Message PROVE Tells(m)'
BY DEF Tells, ReceiptOf, TypeOK, Row, DeliveryState, Open, Active, Final,
   Promise!Status

LEMMA ReceiptKept ==
    ASSUME IInv, IInv', Places, Places', NEW m \in Message, taken'[m] = taken[m],
           StateMoves(m)
    PROVE  ReceiptMoves(m)
<1> USE DEF StateMoves, Becomes, Same, ReceiptMoves, Told
<1> Tells(m) /\ Tells(m)'
  BY TellsBefore, TellsAfter DEF IInv
<1> USE DEF Tells
<1>0. /\ messages[m].turn # NoTurn => Len(taken[m]) = 1
      /\ Unspent(m) => Len(taken[m]) = 0 /\ messages[m].turn = NoTurn
      /\ messages'[m].turn # NoTurn => Len(taken[m]) = 1
      /\ messages[m].state = "dispatching_to_codex" => messages[m].turn = NoTurn
  <2>1. taken[m] = <<>> \/ Len(taken[m]) = 1
    <3>1. \A x : Len(<<x>>) = 1
      OBVIOUS
    <3> QED BY <3>1 DEF IInv, RowsSafe, TakenAsShown
  <2>2. messages'[m].turn # NoTurn => taken'[m] # <<>>
    <3>1. messages'[m].turn \in Turn \cup {NoTurn}
      BY DEF IInv, TypeOK, Row
    <3> QED BY <3>1 DEF Places, NamesTrue, TurnsShown, TurnsTrue, InputsTaken
  <2> QED BY <2>1, <2>2, RunsCounted DEF Places, NamesTrue, RowsOnTurn
<1>1. CASE Same(m) /\ messages'[m].state = messages[m].state
  <2>1. ReceiptOf(m)' = ReceiptOf(m)
    BY <1>1 DEF ReceiptOf
  <2> QED BY <2>1
<1>2. CASE Same(m) /\ Becomes(m, {"unsent"}, {"accepted_by_wonder"})
  BY <1>2
<1>3. CASE /\ Same(m)
           /\ Becomes(m, {"accepted_by_wonder", "safe_to_retry", "failed"},
                      {"accepted_by_wonder", "failed", "interrupted",
                       "dispatching_to_codex", "uncertain"})
  BY <1>0, <1>3 DEF Unspent, Open, Final
<1>4. CASE /\ Same(m) /\ messages[m].phase = "claimed"
           /\ Becomes(m, {"dispatching_to_codex"},
                      {"accepted_by_wonder", "safe_to_retry"})
  BY <1>0, <1>4 DEF Unspent, Final
<1>5. CASE Same(m) /\ Becomes(m, {"dispatching_to_codex", "uncertain"}, {"uncertain"})
  BY <1>0, <1>5 DEF Open
<1>6. CASE /\ messages[m].turn = NoTurn /\ messages'[m].turn # NoTurn
           /\ Becomes(m, {"dispatching_to_codex", "uncertain"}, Active \cup {"completed"})
  BY <1>0, <1>6 DEF Open, Final, Active
<1>7. CASE Same(m) /\ Becomes(m, Active, {"interrupted"})
  BY <1>7, TurnAssumption DEF Open, Final, Active, IInv, RowsSafe, ActiveOnTurn
<1>8. CASE /\ Same(m) /\ messages[m].turn # NoTurn
           /\ Becomes(m, Open, {"completed", "uncertain", "streaming"})
  BY <1>8 DEF Final, Open, Active
<1> QED BY <1>1, <1>2, <1>3, <1>4, <1>5, <1>6, <1>7, <1>8

LEMMA ReceiptStep ==
    ASSUME IInv, IInv', Places, Places', Next, NEW m \in Message, ~LateArrival(m)
    PROVE  ReceiptMoves(m)
<1>1. CASE Take
  <2>1. PICK r \in wire, t \in Turn : Takes(r, t)
    BY <1>1, Taking
  <2>2. /\ messages' = messages /\ r \in Request
        /\ taken' = [taken EXCEPT ![r.message] = Append(@, r.body)]
    BY <2>1 DEF Takes, store, IInv, TypeOK
  <2>3. ReceiptOf(m)' = ReceiptOf(m)
    BY <2>2 DEF ReceiptOf
  <2>4. CASE m # r.message
    BY <2>2, <2>3, <2>4 DEF IInv, TypeOK, ReceiptMoves
  <2>5. CASE m = r.message
    <3>1. taken[m] = <<>> /\ Len(taken[m]) = 0 /\ Len(taken'[m]) = 1
      <4>1. taken \in [Message -> Seq(Nat)] /\ r.body \in Nat
        BY <2>2 DEF IInv, TypeOK, Request
      <4>2. taken[m] = <<>>
        BY <2>5 DEF IInv, RowsSafe, OneRequest
      <4> QED BY <2>2, <2>5, <4>1, <4>2
    <3>2. ~Unspent(m)
      BY <2>5 DEF IInv, RowsSafe, UnspentUntouched, Untouched
    <3>3. messages[m].turn = NoTurn
      BY <3>1, RunsCounted
    <3>4. messages[m].state \notin Final
      BY <3>2, <3>3 DEF Unspent, Final, Places, NamesTrue, RowsOnTurn
    <3>5. ReceiptOf(m) = "submitted"
      <4>1. messages[m].state \in Open \cup {"dispatching_to_codex"}
        BY <3>2, <3>4 DEF Unspent, IInv, TypeOK, Row, DeliveryState
      <4> QED BY <3>3, <4>1, TellsBefore DEF Tells, IInv
    <3> QED BY <2>3, <3>1, <3>5 DEF ReceiptMoves, Told
  <2> QED BY <2>4, <2>5
<1>2. CASE ~Take
  <2>1. taken'[m] = taken[m]
    BY <1>2, TurnsFrame DEF TurnsKept
  <2>2. StateMoves(m)
    BY StatesMove DEF Places, NamesTrue
  <2> QED BY <2>1, <2>2, ReceiptKept
<1> QED BY <1>1, <1>2

LEMMA PromiseStep ==
    ASSUME IInv, IInv', Places, Places', [Next]_vars,
           \A m \in Message : ~LateArrival(m)
    PROVE  [Promise!Next]_<<[m \in Message |-> ReceiptOf(m)],
                            [m \in Message |-> Len(taken[m])]>>
<1>1. CASE UNCHANGED vars
  BY <1>1 DEF vars, ReceiptOf
<1>2. CASE Next
  <2>1. \A m \in Message : ReceiptMoves(m)
    BY <1>2, ReceiptStep
  <2>2. ASSUME NEW m \in Message PROVE Promise!Move(m)
    BY <2>1 DEF ReceiptMoves, Told, Promise!Move, Promise!Accept, Promise!Withdraw,
       Promise!Submit, Promise!GiveBack, Promise!Run, Promise!Confirm,
       Promise!Settle, Promise!Close, Promise!Rest, Promise!Told, Promise!NoRun
  <2>3. /\ [m \in Message |-> ReceiptOf(m)]' \in [Message -> Promise!Status]
        /\ [m \in Message |-> Len(taken[m])]' \in [Message -> {0, 1}]
    <3>1. \A m \in Message : ReceiptOf(m)' \in Promise!Status
      BY TellsAfter DEF Tells, IInv
    <3>2. \A m \in Message : Len(taken'[m]) \in {0, 1}
      <4>1. Len(<<>>) = 0 /\ \A x : Len(<<x>>) = 1
        OBVIOUS
      <4> QED BY <4>1 DEF IInv, RowsSafe, TakenAsShown
    <3> QED BY <3>1, <3>2
  <2> QED BY <2>2, <2>3 DEF Promise!Next
<1> QED BY <1>1, <1>2

-----------------------------------------------------------------------------
(***************************************************************************)
(* The third part: what the daemon promises until something fails, and     *)
(* which of it holds whatever fails.                                       *)
(*                                                                         *)
(* Until the first fault (Calm: the budget of faults is whole) the         *)
(* recovery is over before the first delivery, a request on the wire is    *)
(* the one whose answer the dispatch loop awaits, and of the messages of a *)
(* conversation one is claimed or active (Calmly).  One turn at a time,    *)
(* the order of the queue and the place of a Guide follow from that.       *)
(*                                                                         *)
(* Last come the ends of turns.  An end that came is in the inbox, was     *)
(* applied, or is due to be read by the recovery (EndsKnown); this holds   *)
(* until the first fault and, without Guides and deltas, through every     *)
(* fault.                                                                  *)
(***************************************************************************)
(* As long as nothing has failed: who works on what.                       *)

Calm == faults = MaxFaults

(* The recovery that starts the daemon comes before any delivery, and no   *)
(* other ever runs; what the dispatch loop holds it holds in its tick.     *)
BeforeStart ==
    /\ \A m \in Message :
          /\ messages[m].state \in {"unsent", "accepted_by_wonder", "interrupted"}
          /\ taken[m] = <<>>
    /\ wire = {} /\ lock.op = "free" /\ dispatcher.pc = "idle"
CalmTasks ==
    /\ alive /\ ~ingestion.requested /\ ingestion.todo = {}
    /\ ingestion.recovering <=> ingestion.pc # "off"
    /\ ingestion.pc # "off" => BeforeStart
    /\ dispatcher.pc # "waiting"
    /\ lock.op = "dispatch" => dispatcher.pc = "dispatch"
    /\ lock.op = "guide" => dispatcher.pc = "guides"

(* A request on the wire is the one whose answer the dispatch loop awaits. *)
CalmWire == \A r \in wire :
    /\ Submits /\ lock.message = r.message /\ lock.turn = NoTurn
    /\ lock.op = "dispatch" <=> r.turn = NoTurn
    /\ lock.op = "guide" => r.turn = messages[r.message].target

CalmHolder ==
    /\ Submits /\ lock.turn = NoTurn => taken[lock.message] = <<>>
    /\ lock.op = "dispatch" => messages[lock.message].work = "dispatch"
    /\ lock.op = "guide" => /\ messages[lock.message].work = "guide"
                            /\ lock.turn \in {NoTurn, messages[lock.message].target}
    /\ lock.op = "project" => messages[lock.message].state \in Active

(* A claim is being worked on; only a refused Guide is uncertain.          *)
CalmRow(m) ==
    /\ messages[m].state = "unsent" => messages[m].work = "none"
    /\ messages[m].state = "dispatching_to_codex" =>
          lock.op = "dispatch" /\ lock.message = m
    /\ messages[m].state = "uncertain" =>
          /\ messages[m].turn = NoTurn /\ messages[m].work = "guide"
          /\ taken[m] = <<>> \/ (lock.op = "guide" /\ lock.message = m)
    /\ messages[m].state # "safe_to_retry"
    /\ messages[m].state = "failed" => messages[m].work = "guide"
    /\ found[m] = NoTurn
CalmRows == \A m \in Message : CalmRow(m)

(* An input of a turn is on that turn, or its answer has just come.        *)
CalmInput == \A t \in Turn : \A m \in turns[t].input :
    /\ messages[m].turn = t \/ (Submits /\ lock.message = m /\ lock.turn = t)
    /\ messages[m].work = "guide" => messages[m].target = t

(* What was listed for dispatch may still be dispatched when its turn comes. *)
Occupied(n) == messages[n].state \in Active \cup {"dispatching_to_codex"}
CalmLists ==
    dispatcher.pc = "dispatch" => \A m \in dispatcher.listed :
        /\ messages[m].work = "dispatch"
        /\ \A n \in Peers(m) \ {m} : ~Occupied(n) /\ n \notin dispatcher.listed

(* The active messages of a conversation are on one turn ...               *)
CalmBusy ==
    /\ \A m \in Message : \A n \in Peers(m) :
          messages[m].state \in Active /\ messages[n].state \in Active
          => messages[m].turn = messages[n].turn
    /\ lock.op = "dispatch" =>
          \A n \in Peers(lock.message) : messages[n].state \notin Active
    /\ lock.op = "guide" =>
          \A n \in Peers(lock.message) : messages[n].state \in Active
              => messages[n].turn = messages[lock.message].target

(* ... and a running turn has an active message, or is about to have one.  *)
Starts(s, t) == \/ messages[s].turn = t /\ messages[s].state \in Active
                \/ lock.op = "dispatch" /\ lock.message = s /\ lock.turn = t
CalmStarter == \A t \in Running : \E s \in turns[t].input : Starts(s, t)

(* A message that waits is overtaken by none that was sent after it.       *)
SentInOrder == \A n \in Message : Sent(n) => \A m \in Peers(n) : m < n => Sent(m)
Behind(n, m) == \/ Waiting(n) /\ messages[m].position < messages[n].position
                \/ messages[n].state = "interrupted" /\ messages[n].turn = NoTurn
CalmOrder == \A n \in Message : \A m \in Peers(n) :
    m < n /\ Waiting(m) /\ messages[n].work = "dispatch" => Behind(n, m)

CalmPlaces == CalmTasks /\ CalmWire /\ CalmHolder /\ CalmRows
CalmTurns == CalmInput /\ CalmLists /\ CalmBusy /\ CalmStarter
CalmQueue == SentInOrder /\ CalmOrder
Calmly == CalmPlaces /\ CalmTurns /\ CalmQueue

(* All that is known of a state, and what a step may rely on.              *)
Known == IInv /\ Places /\ Calmly

LEMMA FaultsCounted ==
    ASSUME IInv, [Next]_vars
    PROVE  faults' \in {faults, faults - 1} /\ (Calm' => Calm)
<1> USE DEF store, daemon, runtime
<1>1. faults \in 0..MaxFaults /\ faults' \in {faults, faults - 1}
  <2>1. faults \in 0..MaxFaults
    BY DEF IInv, TypeOK
  <2>2. CASE Fault \/ Submission
    <3>1. CASE Fault
      BY <2>1, <3>1 DEF Fault, ListedFails, PrepareFails, SaveFails, RuntimeDies, Crash
    <3>2. CASE StartUnanswered \/ SteerUnanswered
      BY <2>1, <3>2 DEF StartUnanswered, SteerUnanswered
    <3> QED BY <2>1, <2>2, <3>1, <3>2 DEF Submission, BeginSubmission, StartAnswered,
               SteerAnswered, SteerRefused
  <2>3. CASE RecoverAbort
    BY <2>1, <2>3 DEF RecoverAbort
  <2>4. CASE ~(Fault \/ Submission \/ RecoverAbort)
    <3>1. faults' = faults
      BY <2>4 DEF vars, Next, Person, Send, SendGuide, Edit, Cancel, MoveToGuide, Retry,
         Stop, StopRecord, StopRequest, Tick, TickStart, ListDispatch, TickEnd,
         SkipListed, Dispatch, GuideFails, DispatchGuide, Receipts, ScanReceipt,
         AcceptReceipt, Projector, ProjectUnmapped, ProjectCompletion, LoadDelta,
         ApplyDelta, Recovery, RecoverDue, RecoverDrained, RecoverStart, RecoverDone,
         RecoverMessage, Runtime, Take, TurnStart, TurnSteer, StreamDelta, FinishTurn
    <3> QED BY <2>1, <3>1
  <2> QED BY <2>1, <2>2, <2>3, <2>4
<1> QED BY <1>1, BoundAssumption DEF Calm

(* What follows at once.                                                   *)
LEMMA CalmFacts ==
    ASSUME Known
    PROVE  /\ \A m \in Message : Unspent(m) =>
                 /\ taken[m] = <<>> /\ messages[m].turn = NoTurn
                 /\ \A r \in wire : r.message # m
                 /\ \A t \in Turn : m \notin turns[t].input
           /\ ~Submits => wire = {} /\ \A m \in Message :
                                          messages[m].state # "dispatching_to_codex"
           /\ lock.turn # NoTurn => wire = {}
           /\ \A r, s \in wire : r = s
           /\ ingestion.pc # "off" => Running = {}
<1> USE DEF Known, IInv, Calmly, CalmPlaces
<1>1. ASSUME NEW m \in Message, Unspent(m)
      PROVE  /\ taken[m] = <<>> /\ messages[m].turn = NoTurn
             /\ \A r \in wire : r.message # m
             /\ \A t \in Turn : m \notin turns[t].input
  BY <1>1 DEF RowsSafe, UnspentUntouched, Untouched, Places, TurnsTrue, InputsTaken
<1>2. ~Submits => wire = {} /\ \A m \in Message :
                                  messages[m].state # "dispatching_to_codex"
  BY DEF CalmWire, CalmRows, CalmRow, Submits
<1>3. lock.turn # NoTurn => wire = {}
  BY DEF CalmWire
<1>4. \A r, s \in wire : r = s
  BY DEF CalmWire, RowsSafe, OneRequest
<1>5. ingestion.pc # "off" => Running = {}
  <2> SUFFICES ASSUME ingestion.pc # "off", NEW t \in Running PROVE FALSE
    OBVIOUS
  <2>1. t \in Turn /\ turns[t].input \subseteq Message
    BY DEF Running, TypeOK, History
  <2>2. PICK s \in turns[t].input : Starts(s, t)
    BY DEF CalmTurns, CalmStarter
  <2> QED BY <2>1, <2>2 DEF CalmTasks, BeforeStart, Starts, Active
<1> QED BY <1>1, <1>2, <1>3, <1>4, <1>5

(* A row that has not been sent, or waits, is written: nobody works on it. *)
LEMMA WaitingRow ==
    ASSUME Known, NEW x \in Message, NEW row \in Row,
           messages[x].state \in {"unsent", "accepted_by_wonder"},
           messages' = [messages EXCEPT ![x] = row], row.turn = NoTurn,
           row.state \in {"accepted_by_wonder", "interrupted"},
           dispatcher.pc = "dispatch" /\ x \in dispatcher.listed
               => row.work = "dispatch",
           UNCHANGED <<daemon, runtime>>
    PROVE  CalmPlaces' /\ CalmTurns'
<1> USE DEF Known, Calmly, CalmPlaces, CalmTurns, daemon, runtime
<1>0. /\ messages \in [Message -> Row] /\ wire \subseteq Request
      /\ lock.op # "free" => lock.message \in Message
      /\ \A t \in Turn : turns[t].input \subseteq Message
  BY DEF IInv, TypeOK, History
<1>1. messages'[x] = row /\ \A m \in Message : m # x => messages'[m] = messages[m]
  BY <1>0
<1>2. /\ taken[x] = <<>> /\ \A r \in wire : r.message # x
      /\ \A t \in Turn : x \notin turns[t].input
      /\ messages[x].turn = NoTurn
  BY CalmFacts DEF Unspent
<1>3. /\ lock.op \in {"dispatch", "guide", "project"} => lock.message # x
      /\ \A n \in Message : messages[n].state \in Active => messages[n].turn \in Turn
  <2>1. lock.op \in {"dispatch", "guide"} => lock.message # x
    BY DEF IInv, HoldersKnow, ClaimHeld, GuideHeld
  <2>2. lock.op = "project" => lock.message # x
    BY DEF CalmHolder, Active
  <2> QED BY <2>1, <2>2 DEF IInv, RowsSafe, ActiveOnTurn
<1>4. CalmTasks'
  BY <1>1 DEF CalmTasks, BeforeStart
<1>5. CalmWire'
  BY <1>0, <1>1, <1>2 DEF CalmWire, Submits, Request
<1>6. CalmHolder'
  BY <1>0, <1>1, <1>3 DEF CalmHolder, Submits
<1>7. CalmRows'
  BY <1>1 DEF CalmRows, CalmRow
<1>8. CalmInput'
  BY <1>0, <1>1, <1>2 DEF CalmInput, Submits
<1>9. CalmLists'
  BY <1>0, <1>1 DEF CalmLists, Occupied, Peers, Active, IInv, TypeOK, Loop
<1>10. CalmBusy'
  BY <1>0, <1>1, <1>3 DEF CalmBusy, Peers, Active
<1>11. CalmStarter'
  <2> SUFFICES ASSUME NEW t \in Running
               PROVE  \E s \in turns[t].input : Starts(s, t)'
    BY DEF CalmStarter, Running
  <2>1. PICK s \in turns[t].input : Starts(s, t)
    BY DEF CalmStarter
  <2>2. s # x /\ s \in Message
    BY <1>0, <1>2 DEF Running
  <2> QED BY <1>1, <2>1, <2>2 DEF Starts
<1> QED BY <1>4, <1>5, <1>6, <1>7, <1>8, <1>9, <1>10, <1>11

(* The order of the queue when no message is sent or starts to be.         *)
OrderStays(m) ==
    /\ Sent(m) <=> Sent(m)'
    /\ Waiting(m)' => Waiting(m) /\ messages'[m].position = messages[m].position
    /\ messages'[m].work = "dispatch" => messages[m].work = "dispatch"
    /\ Waiting(m) => \/ Waiting(m)' \/ messages'[m].work # "dispatch"
                     \/ messages'[m].state = "interrupted" /\ messages'[m].turn = NoTurn
    /\ messages[m].state = "interrupted" /\ messages[m].turn = NoTurn
          => messages'[m].state = "interrupted" /\ messages'[m].turn = NoTurn

LEMMA QueueStays ==
    ASSUME Known, \A m \in Message : OrderStays(m)
    PROVE  CalmQueue'
<1> USE DEF Known, Calmly, CalmQueue
<1>1. SentInOrder'
  BY DEF SentInOrder, OrderStays, Peers
<1>2. CalmOrder'
  <2> SUFFICES ASSUME NEW n \in Message, NEW m \in Peers(n), m < n, Waiting(m)',
                      messages'[n].work = "dispatch"
               PROVE  Behind(n, m)'
    BY DEF CalmOrder, Peers
  <2>1. m \in Message /\ Behind(n, m)
    BY DEF CalmOrder, OrderStays, Peers
  <2> QED BY <2>1 DEF Behind, OrderStays, Waiting
<1> QED BY <1>1, <1>2

(* What a person does: a claim needs the front of the queue, so a message  *)
(* that is sent now finds nobody behind it.                                *)
LEMMA CalmSend ==
    ASSUME Known, NEW x \in Message,
           Send(x) \/ \E t \in Turn : SendGuide(x, t)
    PROVE  Calmly'
<1> USE DEF Known, Calmly, daemon, runtime
<1>0. /\ messages \in [Message -> Row] /\ messages[x].state = "unsent"
      /\ \A n \in Peers(x) : n < x => Sent(n)
      /\ dispatcher.pc = "idle" /\ messages[x].turn = NoTurn
  <2>1. messages \in [Message -> Row]
    BY DEF IInv, TypeOK
  <2>2. messages[x].state = "unsent" /\ \A n \in Peers(x) : n < x => Sent(n)
    BY DEF Send, SendGuide, NextInOrder, Sent
  <2> QED BY <2>1, <2>2, CalmFacts DEF Send, SendGuide, Admitted, Unspent
<1>1. ASSUME NEW row \in Row, messages' = [messages EXCEPT ![x] = row],
             row.state = "accepted_by_wonder", row.turn = NoTurn,
             UNCHANGED <<daemon, runtime>>,
             row.work = "dispatch" => \A n \in Queue(x) :
                                         messages[n].position < row.position
      PROVE  Calmly'
  <2>1. CalmPlaces' /\ CalmTurns'
    BY <1>0, <1>1, WaitingRow
  <2>2. messages'[x] = row /\ \A n \in Message : n # x => messages'[n] = messages[n]
    BY <1>0, <1>1
  <2>3. SentInOrder'
    BY <1>0, <1>1, <2>2 DEF CalmQueue, SentInOrder, Sent, Peers
  <2>4. CalmOrder'
    <3> SUFFICES ASSUME NEW n \in Message, NEW m \in Peers(n), m < n, Waiting(m)',
                        messages'[n].work = "dispatch"
                 PROVE  Behind(n, m)'
      BY DEF CalmOrder, Peers
    <3>0. m \in Message /\ m # n
      BY MessageAssumption DEF Peers
    <3>1. CASE n = x
      BY <1>1, <2>2, <3>0, <3>1 DEF Behind, Waiting, Queue, Peers
    <3>2. CASE m = x
      <4>1. ~Sent(n)
        BY <1>0, <3>2 DEF CalmQueue, SentInOrder, Sent, Peers
      <4> QED BY <2>2, <3>0, <3>2, <4>1 DEF CalmPlaces, CalmRows, CalmRow, Sent
    <3>3. CASE n # x /\ m # x
      <4>1. Behind(n, m)
        BY <2>2, <3>0, <3>3 DEF CalmQueue, CalmOrder, Waiting
      <4> QED BY <2>2, <3>0, <3>3, <4>1 DEF Behind, Waiting
    <3> QED BY <3>1, <3>2, <3>3
  <2> QED BY <2>1, <2>3, <2>4 DEF CalmQueue
<1>2. CASE Send(x)
  <2>1. {0} \cup {messages[n].position + 1 : n \in Queue(x)} \subseteq Nat
    BY <1>0 DEF Row, Queue, Peers
  <2>2. PICK p \in Nat :
           /\ \A n \in Queue(x) : messages[n].position < p
           /\ messages' = [messages EXCEPT ![x].state = "accepted_by_wonder",
                                           ![x].work = "dispatch",
                                           ![x].position = p]
    BY <1>2, <2>1 DEF Send
  <2> DEFINE row == [messages[x] EXCEPT !.state = "accepted_by_wonder",
                                        !.work = "dispatch", !.position = p]
  <2>3. row \in Row
    BY <1>0, RowType DEF DeliveryState
  <2>5. row.state = "accepted_by_wonder" /\ row.position = p /\ row.turn = NoTurn
    BY <1>0 DEF Row
  <2>4. messages' = [messages EXCEPT ![x] = row]
    BY <1>0, <2>2
  <2> HIDE DEF row
  <2> QED BY <1>1, <1>2, <2>2, <2>3, <2>4, <2>5 DEF Send
<1>3. ASSUME NEW t \in Turn, SendGuide(x, t) PROVE Calmly'
  <2> DEFINE row == [messages[x] EXCEPT !.state = "accepted_by_wonder",
                                        !.work = "guide", !.target = t]
  <2>1. row \in Row
    BY <1>0, RowType DEF DeliveryState
  <2>3. row.state = "accepted_by_wonder" /\ row.turn = NoTurn /\ row.work = "guide"
    BY <1>0 DEF Row
  <2>2. messages' = [messages EXCEPT ![x] = row]
    BY <1>0, <1>3 DEF SendGuide
  <2> HIDE DEF row
  <2> QED BY <1>1, <1>3, <2>1, <2>2, <2>3 DEF SendGuide
<1> QED BY <1>2, <1>3

LEMMA CalmEdit ==
    ASSUME Known, NEW x \in Message,
           Edit(x) \/ Cancel(x) \/ \E t \in Turn : MoveToGuide(x, t)
    PROVE  Calmly'
<1> USE DEF Known, Calmly, daemon, runtime
<1>0. /\ messages \in [Message -> Row] /\ messages[x].turn = NoTurn
      /\ Waiting(x) /\ messages[x].state = "accepted_by_wonder"
      /\ messages[x].work = "dispatch"
  <2>1. Waiting(x)
    BY DEF Edit, Cancel, MoveToGuide
  <2> QED BY <2>1, CalmFacts DEF IInv, TypeOK, Waiting, Unspent
<1>1. ASSUME NEW row \in Row, messages' = [messages EXCEPT ![x] = row],
             row.state \in {"accepted_by_wonder", "interrupted"}, row.turn = NoTurn,
             UNCHANGED <<daemon, runtime>>, row.position = messages[x].position,
             \/ row.work = "dispatch"
             \/ dispatcher.pc = "dispatch" => x \notin dispatcher.listed
      PROVE  Calmly'
  <2>1. CalmPlaces' /\ CalmTurns'
    BY <1>0, <1>1, WaitingRow
  <2>2. messages'[x] = row /\ \A n \in Message : n # x => messages'[n] = messages[n]
    BY <1>0, <1>1
  <2>3. \A m \in Message : OrderStays(m)
    BY <1>0, <1>1, <2>2 DEF OrderStays, Sent, Waiting
  <2> QED BY <2>1, <2>3, QueueStays
<1>2. CASE Edit(x)
  <2> DEFINE row == [messages[x] EXCEPT !.body = messages[x].body + 1]
  <2>1. row \in Row /\ row.state = "accepted_by_wonder" /\ row.turn = NoTurn
        /\ row.position = messages[x].position /\ row.work = "dispatch"
    BY <1>0 DEF Row
  <2>2. messages' = [messages EXCEPT ![x] = row]
    BY <1>0, <1>2 DEF Edit
  <2> HIDE DEF row
  <2> QED BY <1>1, <1>2, <2>1, <2>2 DEF Edit
<1>3. CASE Cancel(x)
  <2> DEFINE row == [messages[x] EXCEPT !.state = "interrupted"]
  <2>1. row \in Row /\ row.state = "interrupted" /\ row.turn = NoTurn
        /\ row.position = messages[x].position /\ row.work = "dispatch"
    BY <1>0 DEF Row, DeliveryState, Final
  <2>2. messages' = [messages EXCEPT ![x] = row]
    BY <1>0, <1>3 DEF Cancel
  <2> HIDE DEF row
  <2> QED BY <1>1, <1>3, <2>1, <2>2 DEF Cancel
<1>4. ASSUME NEW t \in Turn, MoveToGuide(x, t) PROVE Calmly'
  <2> DEFINE row == [messages[x] EXCEPT !.work = "guide", !.target = t]
  <2>1. row \in Row /\ row.state = "accepted_by_wonder" /\ row.turn = NoTurn
        /\ row.position = messages[x].position
    BY <1>0 DEF Row
  <2>2. messages' = [messages EXCEPT ![x] = row]
    BY <1>0, <1>4 DEF MoveToGuide
  <2>3. dispatcher.pc = "dispatch" => x \notin dispatcher.listed
    <3>1. PICK n \in Peers(x) : messages[n].state \in Active
      BY <1>4 DEF MoveToGuide
    <3>2. n # x
      BY <1>0, <3>1 DEF Active
    <3> QED BY <3>1, <3>2 DEF CalmTurns, CalmLists, Occupied
  <2> HIDE DEF row
  <2> QED BY <1>1, <1>4, <2>1, <2>2, <2>3 DEF MoveToGuide
<1> QED BY <1>2, <1>3, <1>4

LEMMA CalmPerson ==
    ASSUME Known, Person
    PROVE  Calmly'
<1>1. \A m \in Message : ~Retry(m)
  BY DEF Known, Calmly, CalmPlaces, CalmRows, CalmRow, Retry
<1> QED BY <1>1, CalmSend, CalmEdit DEF Person

(* Nothing is written: a turn ends or streams, a notice is parked or taken *)
(* up, a stop is asked for.                                                *)
LEMMA QuietStep ==
    ASSUME Known,
           UNCHANGED <<messages, dispatcher, found, ingestion, alive, wire, taken>>,
           \A t \in Turn : turns'[t].input = turns[t].input,
           Running' \subseteq Running,
           \/ lock' = lock
           \/ /\ lock.op = "free" /\ lock'.op \in {"stop", "project"}
              /\ lock'.message \in Message
              /\ messages[lock'.message].state \in Active
    PROVE  Calmly'
<1> USE DEF Known, Calmly, CalmPlaces, CalmTurns
<1>1. CalmTasks'
  BY DEF CalmTasks, BeforeStart, Active
<1>2. CalmWire'
  BY DEF CalmWire, Submits
<1>3. CalmHolder'
  BY DEF CalmHolder, Submits
<1>4. CalmRows'
  BY DEF CalmRows, CalmRow
<1>5. CalmInput' /\ CalmLists'
  BY DEF CalmInput, Submits, CalmLists, Occupied, Peers
<1>6. CalmBusy'
  BY DEF CalmBusy, Peers
<1>7. CalmStarter'
  <2> SUFFICES ASSUME NEW t \in Running'
               PROVE  \E s \in turns'[t].input : Starts(s, t)'
    BY DEF CalmStarter
  <2>1. t \in Turn /\ t \in Running
    BY DEF Running
  <2>2. PICK s \in turns[t].input : Starts(s, t)
    BY <2>1 DEF CalmStarter
  <2> QED BY <2>1, <2>2 DEF Starts
<1>8. CalmQueue'
  <2>1. \A m \in Message : OrderStays(m)
    BY DEF OrderStays, Sent, Waiting
  <2> QED BY <2>1, QueueStays
<1> QED BY <1>1, <1>2, <1>3, <1>4, <1>5, <1>6, <1>7, <1>8

(* Active messages of one turn are streaming, or end with their turn.      *)
RowEnds(m, t) ==
    /\ messages[m].state \in Active /\ messages[m].turn = t
    /\ messages'[m].turn = t
    /\ messages'[m].work = messages[m].work
    /\ messages'[m].target = messages[m].target
    /\ messages'[m].state \in Final \cup {"streaming"}
    /\ turns[t].status = "running" => messages'[m].state = "streaming"

LEMMA RowsEnd ==
    ASSUME Known, messages' \in [Message -> Row], NEW t \in Turn,
           \A m \in Message : messages'[m] = messages[m] \/ RowEnds(m, t),
           UNCHANGED <<dispatcher, found, ingestion, runtime>>,
           ~Submits, lock'.op = "free"
    PROVE  Calmly'
<1> USE DEF Known, Calmly, CalmPlaces, CalmTurns, runtime, RowEnds
<1>0. /\ \A m \in Message : messages'[m] # messages[m] => ingestion.pc = "off"
      /\ \A u \in Turn : turns[u].input \subseteq Message
      /\ wire = {}
  BY CalmFacts DEF CalmTasks, BeforeStart, Active, IInv, TypeOK, History
<1>1. CalmTasks'
  <2>1. \A m \in Message : ingestion.pc # "off" => messages'[m] = messages[m]
    BY <1>0
  <2> QED BY <2>1 DEF CalmTasks, BeforeStart
<1>2. CalmWire' /\ CalmHolder'
  BY <1>0 DEF CalmWire, CalmHolder, Submits
<1>3. CalmRows'
  BY DEF CalmRows, CalmRow, Active, Final, Submits
<1>4. CalmInput'
  BY <1>0 DEF CalmInput, Submits
<1>5. CalmLists'
  <2>1. \A n \in Message : /\ Occupied(n)' => Occupied(n)
                           /\ messages'[n].work = messages[n].work
    BY DEF Occupied, Active, Final
  <2>2. dispatcher.listed \subseteq Message
    BY DEF IInv, TypeOK, Loop
  <2> QED BY <2>1, <2>2 DEF CalmLists, Peers
<1>6. CalmBusy'
  BY DEF CalmBusy, Peers, Active, Final
<1>7. CalmStarter'
  <2> SUFFICES ASSUME NEW u \in Running
               PROVE  \E s \in turns[u].input : Starts(s, u)'
    BY DEF CalmStarter, Running
  <2>1. u \in Turn /\ turns[u].status = "running"
    BY DEF Running
  <2>2. PICK s \in turns[u].input : messages[s].turn = u /\ messages[s].state \in Active
    BY DEF CalmStarter, Starts, Submits
  <2>3. s \in Message
    BY <1>0, <2>1
  <2>4. messages'[s].turn = u /\ messages'[s].state \in Active
    BY <2>1, <2>2, <2>3 DEF Active
  <2> QED BY <2>4 DEF Starts
<1>8. CalmQueue'
  <2>1. \A m \in Message : OrderStays(m)
    BY TurnAssumption DEF OrderStays, Sent, Waiting, Active, Final
  <2> QED BY <2>1, QueueStays
<1> QED BY <1>1, <1>2, <1>3, <1>4, <1>5, <1>6, <1>7, <1>8

LEMMA CalmStop ==
    ASSUME Known, Stop
    PROVE  Calmly'
<1> USE DEF daemon, runtime
<1>0. /\ messages \in [Message -> Row] /\ turns \in [Turn -> History]
      /\ lock.op # "free" => lock.message \in Message
  BY DEF Known, IInv, TypeOK
<1>1. ASSUME NEW m \in Message, NEW t \in Turn, StopRequest(m, t)
      PROVE  Calmly'
  <2>1. /\ \A u \in Turn : turns'[u].input = turns[u].input
        /\ Running' \subseteq Running
    BY <1>0, <1>1 DEF StopRequest, History, Running
  <2>2. /\ lock.op = "free" /\ lock'.op = "stop" /\ lock'.message = m
        /\ messages[m].state \in Active
    BY <1>1 DEF StopRequest, Unlocked
  <2> QED BY <1>1, <2>1, <2>2, QuietStep DEF StopRequest
<1>2. CASE StopRecord
  <2>1. lock.turn \in Turn /\ messages[lock.message].turn = lock.turn /\ Over(lock.turn)
        /\ lock.message \in Message /\ lock'.op = "free" /\ ~Submits
    BY <1>0, <1>2 DEF StopRecord, Known, Places, EndsTrue, StopHeld, Submits, Unlocked
  <2>2. \A m \in Message :
           \/ messages'[m] = messages[m]
           \/ /\ m = lock.message /\ messages[m].state \in Active
              /\ messages'[m] = [messages[m] EXCEPT !.state = "interrupted"]
    BY <1>0, <1>2, <2>1 DEF StopRecord
  <2>3. "interrupted" \in DeliveryState
    BY DEF DeliveryState, Final
  <2>4. messages' \in [Message -> Row]
    <3>1. [messages[lock.message] EXCEPT !.state = "interrupted"] \in Row
      BY <1>0, <2>1, <2>3, RowType
    <3> QED BY <1>0, <1>2, <2>1, <3>1 DEF StopRecord
  <2>5. \A m \in Message : messages'[m] = messages[m] \/ RowEnds(m, lock.turn)
    <3> SUFFICES ASSUME NEW m \in Message, messages'[m] # messages[m]
                 PROVE  RowEnds(m, lock.turn)
      OBVIOUS
    <3>1. /\ m = lock.message /\ messages[m].state \in Active
          /\ messages'[m] = [messages[m] EXCEPT !.state = "interrupted"]
      BY <2>2
    <3>2. /\ messages'[m].turn = messages[m].turn
          /\ messages'[m].work = messages[m].work
          /\ messages'[m].target = messages[m].target
          /\ messages'[m].state = "interrupted"
      BY <1>0, <3>1 DEF Row
    <3> QED BY <2>1, <3>1, <3>2 DEF RowEnds, Final, Over
  <2> QED BY <1>2, <2>1, <2>4, <2>5, RowsEnd DEF StopRecord
<1> QED BY <1>1, <1>2 DEF Stop

LEMMA CalmProjector ==
    ASSUME Known, Projector
    PROVE  Calmly'
<1> USE DEF daemon, runtime
<1>0. /\ messages \in [Message -> Row]
      /\ lock.op # "free" => lock.message \in Message
      /\ IInv /\ Places /\ Calmly
  BY DEF Known, IInv, TypeOK
<1>1. CASE ProjectUnmapped
  BY <1>1, QuietStep DEF ProjectUnmapped, Running
<1>2. ASSUME NEW m \in Message, LoadDelta(m) PROVE Calmly'
  <2>1. CASE messages[m].state \in Final
    BY <1>2, <2>1, QuietStep DEF LoadDelta, Running
  <2>2. CASE messages[m].state \notin Final
    <3>1. lock.op = "free" /\ lock'.op = "project" /\ lock'.message = m
      BY <1>2, <2>2 DEF LoadDelta, Pending, Unlocked
    <3>2. messages[m].turn \in Turn
      <4>1. Head(inbox).turn \in Turn
        BY <1>2, NoticeTail DEF LoadDelta, Pending, Notice, Known, IInv, TypeOK
      <4> QED BY <1>2, <4>1 DEF LoadDelta, Owns, MappedTo
    <3>3. messages[m].state \in Active
      <4>1. ~Unspent(m)
        BY <3>2, CalmFacts, TurnAssumption
      <4>2. messages[m].state \in Open \cup {"dispatching_to_codex"}
        BY <1>0, <2>2, <4>1 DEF Unspent, Row, DeliveryState
      <4>3. messages[m].state # "dispatching_to_codex"
        BY <1>0, <3>1 DEF Calmly, CalmPlaces, CalmRows, CalmRow
      <4>4. messages[m].state # "uncertain"
        BY <1>0, <3>2, TurnAssumption DEF Calmly, CalmPlaces, CalmRows, CalmRow
      <4> QED BY <4>2, <4>3, <4>4 DEF Open
    <3> QED BY <1>2, <3>1, <3>3, QuietStep DEF LoadDelta, Running
  <2> QED BY <2>1, <2>2
<1>3. CASE ProjectCompletion
  <2> DEFINE t == Head(inbox).turn
  <2>1. t \in Turn /\ Over(t)
    <3>1. Head(inbox) \in Notice /\ Head(inbox) = inbox[1] /\ 1 \in 1..Len(inbox)
      BY <1>3 DEF ProjectCompletion, Pending, Known, IInv, TypeOK
    <3> QED BY <1>0, <1>3, <3>1 DEF ProjectCompletion, Pending, Notice, Places,
               EndsTrue, NoticesTrue, InboxTrue
  <2>2. messages' \in {messages, CompletedTurn(messages, t)} /\ lock.op = "free"
        /\ lock' = lock
    BY <1>3 DEF ProjectCompletion, ApplyCompletion, Pending
  <2>3. messages' \in [Message -> Row]
    BY <1>0, <2>2, TurnSettled DEF SettlesTurn
  <2>4. \A m \in Message :
           \/ messages'[m] = messages[m]
           \/ /\ messages[m].turn = t /\ messages[m].state \in Open
              /\ messages'[m] = [messages[m] EXCEPT !.state = "completed"]
    BY <1>0, <2>2 DEF CompletedTurn
  <2>5. \A m \in Message : messages[m].turn = t => messages[m].state # "uncertain"
    BY <1>0, <2>1, TurnAssumption DEF Calmly, CalmPlaces, CalmRows, CalmRow
  <2>6. \A m \in Message : messages'[m] = messages[m] \/ RowEnds(m, t)
    <3> SUFFICES ASSUME NEW m \in Message, messages'[m] # messages[m]
                 PROVE  RowEnds(m, t)
      OBVIOUS
    <3>1. /\ messages[m].turn = t /\ messages[m].state \in Active
          /\ messages'[m] = [messages[m] EXCEPT !.state = "completed"]
      BY <2>4, <2>5 DEF Open
    <3>2. /\ messages'[m].turn = messages[m].turn
          /\ messages'[m].work = messages[m].work
          /\ messages'[m].target = messages[m].target
          /\ messages'[m].state = "completed"
      BY <1>0, <3>1 DEF Row
    <3> QED BY <2>1, <3>1, <3>2 DEF RowEnds, Final, Over
  <2> HIDE DEF t
  <2> QED BY <1>3, <2>1, <2>2, <2>3, <2>6, RowsEnd DEF ProjectCompletion, Submits
<1>4. CASE ApplyDelta
  <2>1. /\ lock.op = "project" /\ lock.message \in Message /\ lock.turn \in Turn
        /\ messages[lock.message].turn = lock.turn
        /\ messages[lock.message].state \in Active
        /\ messages' = Delivered(messages, lock.message, "streaming", lock.turn)
        /\ lock'.op = "free"
    BY <1>0, <1>4 DEF ApplyDelta, IInv, HoldersKnow, DeltaHeld, Calmly, CalmPlaces,
       CalmHolder, Unlocked
  <2>2. Delivers(messages', messages, lock.message, "streaming", lock.turn)
    BY <1>0, <2>1, DeliveredRow DEF DeliveryState, Open, Active
  <2>3. \A m \in Message : messages'[m] = messages[m] \/ RowEnds(m, lock.turn)
    BY <1>0, <2>1, TurnAssumption DEF RowEnds, Delivered, Row
  <2> QED BY <1>4, <2>1, <2>2, <2>3, RowsEnd DEF ApplyDelta, Submits, Delivers
<1> QED BY <1>1, <1>2, <1>3, <1>4 DEF Projector

(* The only recovery is the one that starts the daemon.                    *)
LEMMA CalmRecovery ==
    ASSUME Known, Recovery, faults' = faults
    PROVE  Calmly'
<1> USE DEF Known, Calmly, CalmPlaces, store, runtime
<1>0. alive /\ faults \in 0..MaxFaults /\ MaxFaults \in Nat
  BY BoundAssumption DEF CalmTasks, IInv, TypeOK
<1>1. /\ ~RecoverDue /\ ~RecoverAbort /\ \A m \in Message : ~RecoverMessage(m)
      /\ ingestion \in Task
  <2>1. ~RecoverAbort
    <3>1. RecoverAbort => faults' = faults - 1
      BY <1>0 DEF RecoverAbort
    <3> QED BY <1>0, <3>1
  <2> QED BY <2>1 DEF CalmTasks, RecoverDue, RecoverMessage, IInv, TypeOK
<1>2. RecoverDrained \/ RecoverStart \/ RecoverDone
  BY <1>1 DEF Recovery
<1>3. UNCHANGED <<messages, lock, dispatcher, found, wire, turns, taken>>
  BY <1>2 DEF RecoverDrained, RecoverStart, RecoverDone
<1>4. CalmTasks'
  <2>1. CASE RecoverStart
    <3>1. BeforeStart
      BY <2>1 DEF RecoverStart, CalmTasks
    <3>2. \A m \in Message : messages[m].state \notin Open
      BY <3>1 DEF BeforeStart, Open, Active
    <3>3. ingestion' = [ingestion EXCEPT !.pc = "reading", !.todo = {}]
      BY <2>1, <3>2 DEF RecoverStart
    <3> QED BY <1>1, <1>3, <2>1, <3>1, <3>3 DEF CalmTasks, BeforeStart, RecoverStart, Task
  <2>2. CASE RecoverDone
    BY <1>1, <1>3, <2>2 DEF RecoverDone, CalmTasks, Task
  <2>3. CASE RecoverDrained
    <3>1. BeforeStart
      BY <2>3 DEF RecoverDrained, CalmTasks
    <3> QED BY <1>1, <1>3, <2>3, <3>1 DEF CalmTasks, BeforeStart, RecoverDrained, Task
  <2> QED BY <1>2, <2>1, <2>2, <2>3
<1>5. CalmWire' /\ CalmHolder' /\ CalmRows'
  BY <1>3 DEF CalmWire, CalmHolder, CalmRows, CalmRow, Submits
<1>6. CalmTurns'
  BY <1>3 DEF CalmTurns, CalmInput, Submits, CalmLists, Occupied, Peers, CalmBusy,
     CalmStarter, Starts, Running
<1>7. CalmQueue'
  <2>1. \A m \in Message : OrderStays(m)
    BY <1>3 DEF OrderStays, Sent, Waiting
  <2> QED BY <2>1, QueueStays
<1> QED BY <1>4, <1>5, <1>6, <1>7

(* Nothing is ever looked up in the history: no answer is lost.            *)
LEMMA CalmReceipts ==
    ASSUME Known, Receipts
    PROVE  FALSE
<1> USE DEF Known, Calmly, CalmPlaces
<1>1. ASSUME NEW m \in Message, AcceptReceipt(m) PROVE FALSE
  BY <1>1 DEF AcceptReceipt, CalmRows, CalmRow
<1>2. ASSUME NEW m \in Message, NEW t \in Turn, ScanReceipt(m, t) PROVE FALSE
  <2>1. /\ messages[m].state = "uncertain" /\ taken[m] # <<>>
        /\ dispatcher.pc = "idle"
    BY <1>2 DEF ScanReceipt, Ambiguous, Admitted, Places, TurnsTrue, InputsTaken
  <2>2. lock.op = "guide"
    BY <2>1 DEF CalmRows, CalmRow
  <2> QED BY <2>1, <2>2 DEF CalmTasks
<1> QED BY <1>1, <1>2 DEF Receipts

(* The request that is taken is the one the dispatch loop waits for.       *)
LEMMA CalmTake ==
    ASSUME Known, Take
    PROVE  Calmly'
<1> USE DEF Known, Calmly, CalmPlaces, CalmTurns, store
<1>1. PICK r \in wire, t \in Turn :
          /\ Takes(r, t)
          /\ r.turn = NoTurn => turns[t].status = "unused"
          /\ r.turn # NoTurn => r.turn = t /\ turns[t].status = "running"
  BY Taking
<1>2. /\ r.message \in Message /\ lock \in Holder /\ taken[r.message] = <<>>
      /\ taken \in [Message -> Seq(Nat)] /\ r.body \in Nat
      /\ \A u \in Turn : turns[u].input \subseteq Message
  BY DEF IInv, TypeOK, Request, History, RowsSafe, OneRequest
<1>3. /\ Submits /\ lock.message = r.message /\ lock.turn = NoTurn
      /\ lock.op = "dispatch" <=> r.turn = NoTurn
      /\ lock.op = "guide" => r.turn = messages[r.message].target
  BY DEF CalmWire
<1>4. /\ UNCHANGED <<messages, dispatcher, found, ingestion, alive>>
      /\ wire' = {}
      /\ lock'.op = lock.op /\ lock'.message = lock.message /\ lock'.turn = t
      /\ lock.op = "guide" => t = messages[r.message].target
  <2>1. wire' = {}
    BY <1>1, CalmFacts DEF Takes
  <2>2. lock' = [lock EXCEPT !.turn = t]
    BY <1>1, <1>3 DEF Takes, Answered, Submits
  <2> QED BY <1>1, <1>2, <1>3, <2>1, <2>2 DEF Takes, Holder
<1>5. /\ turns'[t].input = turns[t].input \cup {r.message}
      /\ \A u \in Turn : u # t => turns'[u] = turns[u]
      /\ \A m \in Message : m # r.message => taken'[m] = taken[m]
  BY <1>1, <1>2 DEF Takes
<1>6. ingestion.pc = "off"
  BY DEF CalmTasks, BeforeStart
<1>7. CalmTasks'
  BY <1>4, <1>6 DEF CalmTasks
<1>8. CalmWire' /\ CalmHolder'
  BY <1>3, <1>4, TurnAssumption DEF CalmWire, CalmHolder, Submits
<1>9. CalmRows'
  <2>1. messages[r.message].state = "uncertain" => lock.op = "guide"
    BY <1>3 DEF Submits, IInv, HoldersKnow, ClaimHeld
  <2> QED BY <1>3, <1>4, <1>5, <2>1 DEF CalmRows, CalmRow
<1>10. CalmInput'
  <2> SUFFICES ASSUME NEW u \in Turn, NEW m \in turns'[u].input
               PROVE  /\ messages[m].turn = u
                         \/ (Submits' /\ lock'.message = m /\ lock'.turn = u)
                      /\ messages[m].work = "guide" => messages[m].target = u
    BY <1>4 DEF CalmInput
  <2>1. CASE m \in turns[u].input
    BY <1>3, <2>1, TurnAssumption DEF CalmInput
  <2>2. CASE m \notin turns[u].input
    <3>1. u = t /\ m = r.message
      BY <1>5, <2>2
    <3>2. messages[m].work = "guide" => lock.op = "guide"
      BY <1>3, <3>1 DEF CalmHolder, Submits
    <3> QED BY <1>3, <1>4, <3>1, <3>2 DEF Submits
  <2> QED BY <2>1, <2>2
<1>11. CalmLists' /\ CalmBusy'
  BY <1>4 DEF CalmLists, Occupied, Peers, CalmBusy
<1>12. CalmStarter'
  <2> SUFFICES ASSUME NEW u \in Turn, turns'[u].status = "running"
               PROVE  \E s \in turns'[u].input : Starts(s, u)'
    BY DEF CalmStarter, Running
  <2>1. CASE u = t /\ lock.op = "dispatch"
    BY <1>3, <1>4, <1>5, <2>1 DEF Starts
  <2>2. CASE ~(u = t /\ lock.op = "dispatch")
    <3>1. turns[u].status = "running"
      BY <1>1, <1>3, <1>5, <2>2 DEF Submits
    <3>2. PICK s \in turns[u].input : Starts(s, u)
      BY <3>1 DEF CalmStarter, Running
    <3>3. messages[s].turn = u /\ messages[s].state \in Active
      BY <1>3, <3>2, TurnAssumption DEF Starts
    <3>4. s \in turns'[u].input
      BY <1>5, <3>2
    <3> QED BY <1>4, <3>3, <3>4 DEF Starts
  <2> QED BY <2>1, <2>2
<1>13. CalmQueue'
  <2>1. \A m \in Message : OrderStays(m)
    BY <1>4 DEF OrderStays, Sent, Waiting
  <2> QED BY <2>1, QueueStays
<1> QED BY <1>7, <1>8, <1>9, <1>10, <1>11, <1>12, <1>13

(* The dispatch loop goes on: nothing changes but what it listed.          *)
LEMMA LoopStep ==
    ASSUME Known, CalmLists', lock.op = "free",
           UNCHANGED <<messages, lock, found, ingestion, runtime>>,
           ingestion.pc = "off" \/ dispatcher'.pc = "idle", dispatcher'.pc # "waiting"
    PROVE  Calmly'
<1> USE DEF Known, Calmly, CalmPlaces, runtime
<1>1. CalmTasks'
  BY DEF CalmTasks, BeforeStart
<1>2. CalmWire' /\ CalmHolder' /\ CalmRows'
  BY DEF CalmWire, CalmHolder, CalmRows, CalmRow, Submits
<1>3. CalmInput' /\ CalmBusy' /\ CalmStarter'
  BY DEF CalmTurns, CalmInput, Submits, CalmBusy, Peers, CalmStarter, Starts, Running
<1>4. CalmQueue'
  <2>1. \A m \in Message : OrderStays(m)
    BY DEF OrderStays, Sent, Waiting
  <2> QED BY <2>1, QueueStays
<1> QED BY <1>1, <1>2, <1>3, <1>4 DEF CalmTurns

LEMMA CalmLoop ==
    ASSUME Known, TickStart \/ ListDispatch \/ TickEnd
    PROVE  Calmly'
<1> USE DEF Known, Calmly, CalmPlaces, CalmTurns, store, daemon, runtime
<1>1. CASE TickStart
  <2>1. \A m \in Message : messages[m].state # "dispatching_to_codex"
    BY <1>1, CalmFacts DEF TickStart, Submits
  <2>2. messages' = messages
    BY <1>1, <2>1 DEF TickStart, Reclaimed, IInv, TypeOK
  <2>3. ingestion.pc = "off" /\ dispatcher'.pc = "guides"
    BY <1>1 DEF TickStart, Ready, CalmTasks
  <2>4. CalmLists'
    BY <2>3 DEF CalmLists
  <2> QED BY <1>1, <2>2, <2>3, <2>4, LoopStep DEF TickStart
<1>2. CASE ListDispatch
  <2>1. /\ messages \in [Message -> Row] /\ messages' = messages
        /\ dispatcher'.listed = {m \in Message : First(m) /\ ~Busy(m)}
        /\ dispatcher.pc = "guides" /\ dispatcher'.pc = "dispatch"
    BY <1>2 DEF ListDispatch, IInv, TypeOK
  <2>2. CalmLists'
    <3> SUFFICES ASSUME NEW m \in Message, First(m), ~Busy(m),
                        NEW n \in Peers(m) \ {m}
                 PROVE  /\ messages[m].work = "dispatch" /\ ~Occupied(n) /\ ~First(n)
      BY <2>1 DEF CalmLists, Occupied, Peers, First, Waiting
    <3>1. messages[m].work = "dispatch" /\ ~Occupied(n)
      BY DEF First, Waiting, Busy, Occupied
    <3>2. ~First(n)
      <4> SUFFICES ASSUME First(n) PROVE FALSE
        OBVIOUS
      <4>1. m \in Peers(n) \ {n} /\ n \in Message
        BY DEF Peers
      <4>2. Before(m, n) /\ Before(n, m)
        BY <4>1 DEF First
      <4> QED BY <2>1, <4>1, <4>2, MessageAssumption DEF Before, Row
    <3> QED BY <3>1, <3>2
  <2>3. ingestion.pc = "off"
    BY <2>1 DEF CalmTasks, BeforeStart
  <2> QED BY <1>2, <2>1, <2>2, <2>3, LoopStep DEF ListDispatch
<1>3. CASE TickEnd
  <2>1. dispatcher'.pc = "idle" /\ CalmLists'
    BY <1>3 DEF TickEnd, CalmLists, IInv, TypeOK, Loop
  <2> QED BY <1>3, <2>1, LoopStep DEF TickEnd
<1> QED BY <1>1, <1>2, <1>3

(* A message that is claimed or refused was on no turn.                    *)
LEMMA ClaimedRow ==
    ASSUME Known, NEW x \in Message, messages[x].state = "accepted_by_wonder",
           ~Submits, turns' = turns,
           \A n \in Message : n # x => messages'[n] = messages[n],
           messages'[x].state \notin Active
    PROVE  /\ CalmInput'
           /\ CalmStarter'
           /\ \A m \in Message : \A n \in Peers(m) :
                 messages'[m].state \in Active /\ messages'[n].state \in Active
                 => messages'[m].turn = messages'[n].turn
<1> USE DEF Known, Calmly, CalmPlaces, CalmTurns
<1>0. /\ \A t \in Turn : turns[t].input \subseteq Message /\ x \notin turns[t].input
      /\ messages[x].state \notin Active
  BY CalmFacts DEF IInv, TypeOK, History, Unspent, Active
<1>1. CalmInput'
  BY <1>0 DEF CalmInput
<1>2. CalmStarter'
  <2> SUFFICES ASSUME NEW t \in Running
               PROVE  \E s \in turns[t].input : Starts(s, t)'
    BY DEF CalmStarter, Running
  <2>1. PICK s \in turns[t].input : messages[s].turn = t /\ messages[s].state \in Active
    BY DEF CalmStarter, Starts, Submits
  <2>2. s # x /\ s \in Message
    BY <1>0, <2>1 DEF Running
  <2> QED BY <2>1, <2>2 DEF Starts
<1>3. \A m \in Message : \A n \in Peers(m) :
         messages'[m].state \in Active /\ messages'[n].state \in Active
         => messages'[m].turn = messages'[n].turn
  BY <1>0 DEF CalmBusy, Peers
<1> QED BY <1>1, <1>2, <1>3

(* A claim is made for the front of the queue of a conversation in which   *)
(* nothing runs.                                                           *)
LEMMA CalmDispatch ==
    ASSUME Known, NEW x \in Message, Dispatch(x)
    PROVE  Calmly'
<1> USE DEF Known, Calmly, CalmPlaces, CalmTurns, store, daemon, runtime
<1>0. /\ messages \in [Message -> Row] /\ dispatcher \in Loop /\ lock.op = "free"
      /\ dispatcher.pc = "dispatch" /\ x \in dispatcher.listed
      /\ dispatcher'.pc = "dispatch"
      /\ dispatcher'.listed = dispatcher.listed \ {x}
      /\ UNCHANGED <<found, ingestion, alive, wire, turns, taken>>
      /\ ~Submits
  BY DEF Dispatch, IInv, TypeOK, Loop, Submits
<1>1. ingestion.pc = "off"
  BY <1>0 DEF CalmTasks, BeforeStart
<1>2. CASE ~Claimable(x)
  <2>1. messages' = messages /\ lock' = lock
    BY <1>2 DEF Dispatch
  <2>2. CalmLists'
    BY <1>0, <2>1 DEF CalmLists, Occupied, Peers
  <2> QED BY <1>0, <1>1, <2>1, <2>2, LoopStep
<1>3. CASE Claimable(x)
  <2>1. /\ messages[x].state = "accepted_by_wonder" /\ messages[x].work = "dispatch"
        /\ First(x) /\ ~Busy(x)
    BY <1>0, <1>3 DEF Claimable, CalmLists
  <2>2. /\ lock'.op = "dispatch" /\ lock'.message = x /\ lock'.turn = NoTurn
        /\ messages' = [messages EXCEPT ![x].state = "dispatching_to_codex",
                                        ![x].phase = "claimed"]
    BY <1>3 DEF Dispatch
  <2>3. /\ \A n \in Message : n # x => messages'[n] = messages[n]
        /\ messages'[x].state = "dispatching_to_codex"
        /\ messages'[x].work = "dispatch"
        /\ messages'[x].position = messages[x].position
    BY <1>0, <2>1, <2>2 DEF Row
  <2>4. wire = {} /\ taken[x] = <<>>
        /\ \A n \in Message : messages[n].state # "dispatching_to_codex"
    BY <1>0, <2>1, CalmFacts DEF Unspent
  <2>5. CalmTasks'
    BY <1>0, <1>1, <2>2 DEF CalmTasks
  <2>6. CalmWire' /\ CalmHolder'
    BY <1>0, <2>2, <2>3, <2>4 DEF CalmWire, CalmHolder, Submits
  <2>7. CalmRows'
    BY <1>0, <2>2, <2>3, <2>4 DEF CalmRows, CalmRow
  <2>8. CalmLists'
    <3>1. ASSUME NEW m \in dispatcher.listed, m # x, NEW n \in Peers(m) \ {m}
          PROVE  /\ messages'[m].work = "dispatch"
                 /\ ~Occupied(n)' /\ n \notin dispatcher.listed
      <4>1. m \in Message /\ n \in Message
        BY <1>0 DEF Peers, Loop
      <4>2. messages[m].work = "dispatch" /\ ~Occupied(n) /\ n \notin dispatcher.listed
        BY <1>0, <3>1 DEF CalmLists
      <4>3. n # x
        BY <1>0, <4>2
      <4> QED BY <2>3, <3>1, <4>1, <4>2, <4>3 DEF Occupied
    <3>2. \A m \in dispatcher.listed : m # x => messages'[m].work = "dispatch"
      BY <1>0, <2>3 DEF CalmLists, Loop
    <3>3. \A m \in dispatcher'.listed :
             /\ messages'[m].work = "dispatch"
             /\ \A n \in Peers(m) \ {m} : ~Occupied(n)' /\ n \notin dispatcher'.listed
      BY <1>0, <3>1, <3>2
    <3> HIDE DEF Known
    <3> QED BY <3>3 DEF CalmLists, Peers
  <2>9. CalmInput' /\ CalmStarter'
        /\ \A m \in Message : \A n \in Peers(m) :
              messages'[m].state \in Active /\ messages'[n].state \in Active
              => messages'[m].turn = messages'[n].turn
    BY <1>0, <2>1, <2>3, ClaimedRow DEF Active
  <2>10. CalmBusy'
    <3>1. \A n \in Peers(x) : messages'[n].state \notin Active
      BY <2>1, <2>3 DEF Busy, Active, Peers
    <3> QED BY <2>2, <2>9, <3>1 DEF CalmBusy, Peers
  <2>11. SentInOrder'
    BY <2>1, <2>3 DEF CalmQueue, SentInOrder, Sent, Peers
  <2>12. CalmOrder'
    <3> SUFFICES ASSUME NEW n \in Message, NEW m \in Peers(n), m < n, Waiting(m)',
                        messages'[n].work = "dispatch"
                 PROVE  Behind(n, m)'
      BY DEF CalmOrder, Peers
    <3>0. m \in Message /\ m # n /\ m # x
      BY <2>3, MessageAssumption DEF Peers, Waiting
    <3>1. Behind(n, m) /\ Waiting(m)
      BY <2>1, <2>3, <3>0 DEF CalmQueue, CalmOrder, Waiting
    <3>2. n # x
      <4> SUFFICES ASSUME n = x PROVE FALSE
        OBVIOUS
      <4>1. messages[m].position < messages[x].position
        BY <2>1, <3>1 DEF Behind
      <4>2. Before(x, m)
        BY <2>1, <3>0, <3>1 DEF First
      <4> QED BY <1>0, <3>0, <4>1, <4>2, MessageAssumption DEF Before, Row
    <3> QED BY <2>3, <3>0, <3>1, <3>2 DEF Behind, Waiting
  <2> QED BY <2>5, <2>6, <2>7, <2>8, <2>9, <2>10, <2>11, <2>12 DEF CalmQueue
<1> QED BY <1>2, <1>3

(* A Guide is refused, or sent while its turn is the one of all active     *)
(* messages of the conversation.                                           *)
LEMMA CalmGuide ==
    ASSUME Known, NEW x \in Message, GuideFails(x) \/ DispatchGuide(x)
    PROVE  Calmly'
<1> USE DEF Known, Calmly, CalmPlaces, CalmTurns, store, daemon, runtime
<1>0. /\ messages \in [Message -> Row] /\ dispatcher \in Loop /\ lock.op = "free"
      /\ dispatcher.pc = "guides" /\ x \in dispatcher.listed
      /\ dispatcher'.pc = "guides"
      /\ UNCHANGED <<found, ingestion, alive, turns, taken>> /\ ~Submits
  BY DEF GuideFails, DispatchGuide, IInv, TypeOK, Loop, Submits
<1>1. ingestion.pc = "off"
  BY <1>0 DEF CalmTasks, BeforeStart
<1>2. messages[x].state = "accepted_by_wonder" /\ messages[x].work = "guide"
  BY <1>0 DEF IInv, ListsKnow, GuidesListed
<1>3. /\ wire = {} /\ taken[x] = <<>> /\ messages[x].turn = NoTurn
      /\ \A n \in Message : messages[n].state # "dispatching_to_codex"
  BY <1>0, <1>2, CalmFacts DEF Unspent
<1>4. /\ \A n \in Message : n # x => messages'[n] = messages[n]
      /\ messages'[x].work = "guide" /\ messages'[x].target = messages[x].target
      /\ messages'[x].turn = NoTurn
      /\ messages'[x].state \in {"failed", "uncertain"}
  <2>1. CASE GuideFails(x)
    BY <1>0, <1>2, <1>3, <2>1 DEF GuideFails, Delivered, Row
  <2>2. CASE DispatchGuide(x)
    BY <1>0, <1>2, <1>3, <2>2 DEF DispatchGuide, Row
  <2> QED BY <2>1, <2>2
<1>5. /\ CalmInput' /\ CalmStarter'
      /\ \A m \in Message : \A n \in Peers(m) :
            messages'[m].state \in Active /\ messages'[n].state \in Active
            => messages'[m].turn = messages'[n].turn
  BY <1>0, <1>2, <1>4, ClaimedRow DEF Active
<1>6. CalmLists'
  BY <1>0 DEF CalmLists
<1>7. CalmQueue'
  <2>1. \A m \in Message : OrderStays(m)
    BY <1>2, <1>3, <1>4 DEF OrderStays, Sent, Waiting
  <2> QED BY <2>1, QueueStays
<1>8. CASE GuideFails(x)
  <2>1. messages'[x].state = "failed" /\ lock' = lock /\ wire' = wire
    BY <1>0, <1>8 DEF GuideFails, Delivered, Row
  <2>2. CalmTasks'
    BY <1>0, <1>1, <2>1 DEF CalmTasks
  <2>3. CalmWire' /\ CalmHolder'
    BY <1>0, <1>3, <2>1 DEF CalmWire, CalmHolder, Submits
  <2>4. CalmRows'
    BY <1>0, <1>2, <1>4, <2>1 DEF CalmRows, CalmRow
  <2>5. CalmBusy'
    BY <1>0, <1>5, <2>1 DEF CalmBusy
  <2> QED BY <1>5, <1>6, <1>7, <2>2, <2>3, <2>4, <2>5
<1>9. CASE DispatchGuide(x)
  <2>1. /\ lock'.op = "guide" /\ lock'.message = x /\ lock'.turn = NoTurn
        /\ messages'[x].state = "uncertain"
        /\ wire' = {[message |-> x, turn |-> messages[x].target,
                     body |-> messages[x].body]}
    BY <1>0, <1>3, <1>9 DEF DispatchGuide, Unlocked, Row
  <2>2. PICK n \in Peers(x) : /\ messages[n].turn = messages[x].target
                              /\ messages[n].state \in Active
    BY <1>9 DEF DispatchGuide, TakesGuide, Owns, MappedTo
  <2>3. messages[x].target # NoTurn
    BY <2>2, TurnAssumption DEF IInv, RowsSafe, ActiveOnTurn, Peers
  <2>4. CalmTasks'
    BY <1>0, <1>1, <2>1 DEF CalmTasks
  <2>5. CalmWire'
    BY <1>4, <2>1, <2>3 DEF CalmWire, Submits
  <2>6. CalmHolder'
    BY <1>0, <1>3, <1>4, <2>1 DEF CalmHolder, Submits
  <2>7. CalmRows'
    BY <1>0, <1>3, <1>4, <2>1 DEF CalmRows, CalmRow
  <2>8. CalmBusy'
    <3>1. \A k \in Peers(x) : messages'[k].state \in Active
                              => messages'[k].turn = messages[x].target
      <4> SUFFICES ASSUME NEW k \in Peers(x), messages'[k].state \in Active
                   PROVE  messages'[k].turn = messages[x].target
        OBVIOUS
      <4>1. k # x /\ k \in Message /\ k \in Peers(n) /\ n \in Message
        BY <2>1, <2>2 DEF Active, Peers
      <4>2. messages[k].turn = messages[n].turn
        BY <1>4, <2>2, <4>1 DEF CalmBusy
      <4> QED BY <1>4, <2>2, <4>1, <4>2
    <3> QED BY <1>4, <1>5, <2>1, <3>1 DEF CalmBusy, Peers
  <2> QED BY <1>5, <1>6, <1>7, <2>4, <2>5, <2>6, <2>7, <2>8
<1> QED BY <1>8, <1>9

LEMMA CalmTick ==
    ASSUME Known, Tick
    PROVE  Calmly'
<1>1. \A m \in Message : ~SkipListed(m)
  <2> SUFFICES ASSUME NEW m \in Message, SkipListed(m) PROVE FALSE
    OBVIOUS
  <2> QED BY DEF SkipListed, Ready, Known, Calmly, CalmPlaces, CalmTasks, BeforeStart
<1> QED BY <1>1, CalmLoop, CalmDispatch, CalmGuide DEF Tick

(* The message whose answer has come is on its turn from then on.          *)
LEMMA AnsweredRow ==
    ASSUME Known, Submits, NEW x \in Message, x = lock.message,
           NEW t \in Turn, t = lock.turn,
           \A n \in Message : n # x => messages'[n] = messages[n],
           messages'[x].turn = t, messages'[x].work = messages[x].work,
           messages'[x].target = messages[x].target,
           \/ messages'[x].state \in Active
           \/ messages'[x].state = "completed" /\ turns[t].status # "running",
           lock'.op = "free",
           UNCHANGED <<dispatcher, found, ingestion, runtime>>
    PROVE  Calmly'
<1> USE DEF Known, Calmly, CalmPlaces, CalmTurns, runtime
<1>0. /\ messages[x].turn = NoTurn
      /\ messages[x].state \in {"dispatching_to_codex", "uncertain"}
      /\ lock.op = "dispatch" => messages[x].state = "dispatching_to_codex"
      /\ t # NoTurn /\ \A u \in Turn : turns[u].input \subseteq Message
  BY TurnAssumption DEF Submits, IInv, HoldersKnow, ClaimHeld, GuideHeld, TypeOK, History
<1>1. ingestion.pc = "off" /\ wire = {}
  BY <1>0, CalmFacts DEF CalmTasks, BeforeStart, Submits
<1>2. CalmTasks'
  BY <1>1 DEF CalmTasks
<1>3. CalmWire' /\ CalmHolder'
  BY <1>1 DEF CalmWire, CalmHolder, Submits
<1>4. CalmRows'
  BY DEF CalmRows, CalmRow, Submits, Active
<1>5. CalmInput'
  <2> SUFFICES ASSUME NEW u \in Turn, NEW m \in turns[u].input
               PROVE  /\ messages'[m].turn = u
                      /\ messages'[m].work = "guide" => messages'[m].target = u
    BY DEF CalmInput
  <2>1. m \in Message
    BY <1>0
  <2>2. CASE m = x
    BY <1>0, <2>2, TurnAssumption DEF CalmInput
  <2>3. CASE m # x
    BY <2>1, <2>3 DEF CalmInput
  <2> QED BY <2>2, <2>3
<1>6. CalmLists'
  <2>1. ASSUME dispatcher.pc = "dispatch", NEW m \in dispatcher.listed,
               NEW n \in Peers(m) \ {m}
        PROVE  /\ messages'[m].work = "dispatch"
               /\ ~Occupied(n)' /\ n \notin dispatcher.listed
    <3>1. n \in Message /\ m \in Message
      BY DEF Peers, IInv, TypeOK, Loop
    <3>2. messages[x].state = "dispatching_to_codex"
      BY <1>0, <2>1 DEF Submits, CalmTasks
    <3> QED BY <2>1, <3>1, <3>2 DEF CalmLists, Occupied
  <2>2. dispatcher.pc = "dispatch" =>
           \A m \in dispatcher.listed : messages'[m].work = "dispatch"
    BY DEF CalmLists, IInv, TypeOK, Loop
  <2>3. dispatcher'.pc = "dispatch" => \A m \in dispatcher'.listed :
           /\ messages'[m].work = "dispatch"
           /\ \A n \in Peers(m) \ {m} : ~Occupied(n)' /\ n \notin dispatcher'.listed
    BY <2>1, <2>2
  <2> HIDE DEF Known
  <2> QED BY <2>3 DEF CalmLists, Peers
<1>7. CalmBusy'
  <2>1. \A n \in Peers(x) : messages[n].state \in Active => messages[n].turn = t
    BY <1>0 DEF CalmBusy, CalmHolder, Submits
  <2> QED BY <2>1 DEF CalmBusy, Peers, Active
<1>8. CalmStarter'
  <2> SUFFICES ASSUME NEW u \in Turn, turns[u].status = "running"
               PROVE  \E s \in turns[u].input : Starts(s, u)'
    BY DEF CalmStarter, Running
  <2>1. PICK s \in turns[u].input : Starts(s, u)
    BY DEF CalmStarter, Running
  <2>2. s \in Message
    BY <1>0
  <2>3. CASE s = x
    <3>1. u = t
      BY <1>0, <2>1, <2>3, TurnAssumption DEF Starts
    <3> QED BY <2>3, <3>1 DEF Starts
  <2>4. CASE s # x
    BY <2>1, <2>2, <2>4 DEF Starts
  <2> QED BY <2>3, <2>4
<1>9. CalmQueue'
  <2>1. \A m \in Message : OrderStays(m)
    BY <1>0 DEF OrderStays, Sent, Waiting, Active
  <2> QED BY <2>1, QueueStays
<1> QED BY <1>2, <1>3, <1>4, <1>5, <1>6, <1>7, <1>8, <1>9

(* A request leaves, or a steer is refused: the holder's row says so.      *)
LEMMA CalmBegin ==
    ASSUME Known, BeginSubmission
    PROVE  Calmly'
<1> USE DEF Known, Calmly, CalmPlaces, CalmTurns, store, daemon, runtime
<1>0. /\ messages \in [Message -> Row] /\ lock.message \in Message
      /\ lock.op = "dispatch" /\ Submits
      /\ messages[lock.message].state = "dispatching_to_codex"
      /\ messages[lock.message].phase = "claimed"
  BY DEF BeginSubmission, Dispatching, Submits, IInv, TypeOK, HoldersKnow, ClaimHeld
<1>1. /\ \A n \in Message : n # lock.message => messages'[n] = messages[n]
      /\ messages'[lock.message].state = messages[lock.message].state
      /\ messages'[lock.message].work = messages[lock.message].work
      /\ messages'[lock.message].turn = messages[lock.message].turn
      /\ messages'[lock.message].target = messages[lock.message].target
      /\ messages'[lock.message].position = messages[lock.message].position
      /\ UNCHANGED <<lock, dispatcher, found, ingestion, alive, turns, taken>>
  BY <1>0 DEF BeginSubmission, Row
<1>2. Unspent(lock.message) /\ taken[lock.message] = <<>>
  BY <1>0, CalmFacts DEF Unspent
<1>3. lock.turn = NoTurn
  BY <1>0, <1>2, CalmFacts DEF Places, NamesTrue, AnswersHeld, IInv, TypeOK, Holder
<1>4. wire = {} /\ alive
  <2>1. \A r \in wire : r.message # lock.message
    BY <1>0, <1>2, CalmFacts
  <2> QED BY <2>1 DEF CalmWire, CalmTasks
<1>5. CalmTasks'
  BY <1>0, <1>1 DEF CalmTasks, BeforeStart
<1>6. CalmWire'
  <2>1. wire' = {[message |-> lock.message, turn |-> NoTurn, body |-> lock.body]}
    BY <1>4 DEF BeginSubmission
  <2> QED BY <1>0, <1>1, <1>3, <2>1 DEF CalmWire, Submits
<1>7. CalmHolder' /\ CalmRows'
  BY <1>0, <1>1 DEF CalmHolder, CalmRows, CalmRow, Submits
<1>8. CalmInput'
  BY <1>0, <1>1 DEF CalmInput, Submits, IInv, TypeOK, History
<1>9. CalmLists'
  <2>1. \A n \in Message : (Occupied(n)' <=> Occupied(n))
                           /\ messages'[n].work = messages[n].work
    BY <1>1 DEF Occupied
  <2>2. dispatcher.listed \subseteq Message
    BY DEF IInv, TypeOK, Loop
  <2> QED BY <1>1, <2>1, <2>2 DEF CalmLists, Peers
<1>10. CalmBusy'
  BY <1>0, <1>1 DEF CalmBusy, Peers, Active
<1>11. CalmStarter'
  <2> SUFFICES ASSUME NEW t \in Running PROVE \E s \in turns[t].input : Starts(s, t)'
    BY <1>1 DEF CalmStarter, Running
  <2>1. PICK s \in turns[t].input : Starts(s, t)
    BY DEF CalmStarter
  <2>2. s \in Message
    BY DEF Running, IInv, TypeOK, History
  <2> QED BY <1>1, <2>1, <2>2 DEF Starts
<1>12. CalmQueue'
  <2>1. \A m \in Message : OrderStays(m)
    BY <1>1 DEF OrderStays, Sent, Waiting
  <2> QED BY <2>1, QueueStays
<1> QED BY <1>5, <1>6, <1>7, <1>8, <1>9, <1>10, <1>11, <1>12

LEMMA CalmRefusal ==
    ASSUME Known, SteerRefused
    PROVE  Calmly'
<1> USE DEF Known, Calmly, CalmPlaces, CalmTurns, store, daemon, runtime
<1>0. /\ messages \in [Message -> Row] /\ lock.message \in Message
      /\ lock.op = "guide" /\ Submits /\ lock.turn = NoTurn
      /\ messages[lock.message].state = "uncertain"
      /\ messages[lock.message].turn = NoTurn
      /\ taken[lock.message] = <<>> /\ messages[lock.message].work = "guide"
  BY DEF SteerRefused, Submits, IInv, TypeOK, HoldersKnow, GuideHeld, CalmHolder
<1>1. /\ \A n \in Message : n # lock.message => messages'[n] = messages[n]
      /\ messages'[lock.message].state = messages[lock.message].state
      /\ messages'[lock.message].work = messages[lock.message].work
      /\ messages'[lock.message].turn = messages[lock.message].turn
      /\ messages'[lock.message].target = messages[lock.message].target
      /\ messages'[lock.message].position = messages[lock.message].position
      /\ UNCHANGED <<dispatcher, found, ingestion, alive, turns, taken>>
      /\ lock'.op = "free"
  BY <1>0 DEF SteerRefused, Delivered, Row, Unlocked
<1>2. wire' = {}
  BY DEF SteerRefused, CalmWire
<1>3. ingestion.pc = "off"
  BY <1>0 DEF CalmTasks, BeforeStart
<1>4. CalmTasks'
  BY <1>1, <1>3 DEF CalmTasks
<1>5. CalmWire' /\ CalmHolder'
  BY <1>1, <1>2 DEF CalmWire, CalmHolder, Submits
<1>6. CalmRows'
  BY <1>0, <1>1 DEF CalmRows, CalmRow
<1>7. CalmInput'
  <2>1. \A t \in Turn : turns[t].input \subseteq Message
    BY DEF IInv, TypeOK, History
  <2> QED BY <1>0, <1>1, <2>1, TurnAssumption DEF CalmInput
<1>8. CalmLists'
  <2>1. dispatcher.pc = "guides"
    BY <1>0 DEF CalmTasks
  <2> QED BY <1>1, <2>1 DEF CalmLists
<1>9. CalmBusy'
  BY <1>0, <1>1 DEF CalmBusy, Peers, Active
<1>10. CalmStarter'
  <2> SUFFICES ASSUME NEW t \in Running PROVE \E s \in turns[t].input : Starts(s, t)'
    BY <1>1 DEF CalmStarter, Running
  <2>1. PICK s \in turns[t].input : Starts(s, t)
    BY DEF CalmStarter
  <2>2. s \in Message
    BY DEF Running, IInv, TypeOK, History
  <2> QED BY <1>0, <1>1, <2>1, <2>2 DEF Starts
<1>11. CalmQueue'
  <2>1. \A m \in Message : OrderStays(m)
    BY <1>1 DEF OrderStays, Sent, Waiting
  <2> QED BY <2>1, QueueStays
<1> QED BY <1>4, <1>5, <1>6, <1>7, <1>8, <1>9, <1>10, <1>11

LEMMA CalmAnswer ==
    ASSUME Known, StartAnswered \/ SteerAnswered
    PROVE  Calmly'
<1> USE DEF store, daemon, runtime
<1>0. /\ messages \in [Message -> Row] /\ lock.message \in Message
      /\ Submits /\ lock.turn \in Turn
      /\ messages[lock.message].turn = NoTurn
      /\ lock'.op = "free" /\ UNCHANGED <<dispatcher, found, ingestion, runtime>>
  BY DEF StartAnswered, SteerAnswered, Dispatching, Submits, Known, IInv, TypeOK,
     Holder, HoldersKnow, ClaimHeld, GuideHeld, Unlocked
<1> DEFINE t == lock.turn
           D == Delivered(messages, lock.message, "accepted_by_codex", t)
<1>1. /\ D \in [Message -> Row]
      /\ \A n \in Message : n # lock.message => D[n] = messages[n]
      /\ D[lock.message].turn = t /\ D[lock.message].state = "accepted_by_codex"
      /\ D[lock.message].work = messages[lock.message].work
      /\ D[lock.message].target = messages[lock.message].target
  <2>1. Delivers(D, messages, lock.message, "accepted_by_codex", t)
    BY <1>0, DeliveredRow DEF DeliveryState, Open, Active
  <2>2. D[lock.message].work = messages[lock.message].work
        /\ D[lock.message].target = messages[lock.message].target
    BY <1>0 DEF Delivered, Row
  <2> HIDE DEF D
  <2> QED BY <1>0, <2>1, <2>2, TurnAssumption DEF Delivers
<1>2. CASE SteerAnswered
  <2>1. messages' = D
    BY <1>2 DEF SteerAnswered
  <2> HIDE DEF D
  <2> QED BY <1>0, <1>1, <2>1, AnsweredRow DEF Active
<1>3. CASE StartAnswered
  <2>1. \/ messages' = D
        \/ messages' = CompletedTurn(D, t) /\ [kind |-> "completed", turn |-> t] \in parked
        \/ messages' = Delivered(D, lock.message, "streaming", t)
    BY <1>3 DEF StartAnswered, Drained
  <2> HIDE DEF D
  <2>2. CASE messages' = D
    BY <1>0, <1>1, <2>2, AnsweredRow DEF Active
  <2>3. CASE messages' = Delivered(D, lock.message, "streaming", t)
    <3>1. /\ \A n \in Message : n # lock.message => messages'[n] = D[n]
          /\ messages'[lock.message].turn = t
          /\ messages'[lock.message].state = "streaming"
          /\ messages'[lock.message].work = D[lock.message].work
          /\ messages'[lock.message].target = D[lock.message].target
      BY <1>0, <1>1, <2>3, TurnAssumption DEF Delivered, Row
    <3> QED BY <1>0, <1>1, <3>1, AnsweredRow DEF Active
  <2>4. CASE /\ messages' = CompletedTurn(D, t)
             /\ [kind |-> "completed", turn |-> t] \in parked
    <3>1. turns[t].status # "running"
      BY <2>4 DEF Known, Places, EndsTrue, NoticesTrue, ParkedTrue, Over
    <3>2. \A n \in Message : n # lock.message => D[n].turn # t
      <4>1. turns[t].input = {lock.message}
        BY <1>0, <1>3, TurnAssumption DEF StartAnswered, Dispatching, Known, Places,
           NamesTrue, AnswersHeld
      <4> QED BY <1>0, <1>1, <4>1, TurnAssumption DEF Known, Places, NamesTrue, TurnsShown
    <3>3. /\ \A n \in Message : n # lock.message => messages'[n] = D[n]
          /\ messages'[lock.message].turn = t
          /\ messages'[lock.message].state = "completed"
          /\ messages'[lock.message].work = D[lock.message].work
          /\ messages'[lock.message].target = D[lock.message].target
      BY <1>0, <1>1, <2>4, <3>2 DEF CompletedTurn, Open, Active, Row
    <3> QED BY <1>0, <1>1, <3>1, <3>3, AnsweredRow
  <2> QED BY <2>1, <2>2, <2>3, <2>4
<1> QED BY <1>2, <1>3

(* No answer is lost while nothing fails.                                  *)
LEMMA CalmSubmission ==
    ASSUME Known, Submission, faults' = faults
    PROVE  Calmly'
<1>1. alive /\ faults \in 0..MaxFaults /\ MaxFaults \in Nat
  BY BoundAssumption DEF Known, Calmly, CalmPlaces, CalmTasks, IInv, TypeOK
<1>2. ~StartUnanswered
  <2>1. StartUnanswered => faults' = faults - 1
    BY <1>1 DEF StartUnanswered
  <2> QED BY <1>1, <2>1
<1>3. ~SteerUnanswered
  BY <1>1 DEF SteerUnanswered
<1> QED BY <1>2, <1>3, CalmBegin, CalmAnswer, CalmRefusal DEF Submission

LEMMA CalmFault ==
    ASSUME Known, Fault
    PROVE  faults' # faults
<1>1. faults \in 0..MaxFaults /\ MaxFaults \in Nat
  BY BoundAssumption DEF Known, IInv, TypeOK
<1>2. faults' = faults - 1
  BY DEF Fault, ListedFails, PrepareFails, SaveFails, RuntimeDies, Crash
<1> QED BY <1>1, <1>2

LEMMA CalmStep ==
    ASSUME Known, [Next]_vars, faults' = faults
    PROVE  Calmly'
<1>1. CASE UNCHANGED vars
  BY <1>1 DEF Known, Calmly, CalmPlaces, CalmTasks, BeforeStart, CalmWire, CalmHolder,
     CalmRows, CalmRow, CalmTurns, CalmInput, CalmLists, Occupied, CalmBusy, CalmStarter,
     Starts, Running, CalmQueue, SentInOrder, CalmOrder, Behind, Waiting, Sent, Submits,
     Peers, vars
<1>2. CASE Receipts
  BY <1>2, CalmReceipts
<1>3. CASE Runtime
  <2>1. ASSUME NEW t \in Turn, StreamDelta(t) \/ FinishTurn(t)
        PROVE  Calmly'
    <3>0. turns \in [Turn -> History]
      BY DEF Known, IInv, TypeOK
    <3>1. /\ \A u \in Turn : turns'[u].input = turns[u].input
          /\ Running' \subseteq Running
      <4>1. CASE StreamDelta(t)
        BY <3>0, <4>1 DEF StreamDelta, History, Running
      <4>2. CASE FinishTurn(t)
        BY <3>0, <4>2 DEF FinishTurn, History, Running
      <4> QED BY <2>1, <4>1, <4>2
    <3> QED BY <2>1, <3>1, QuietStep DEF StreamDelta, FinishTurn, daemon
  <2> QED BY <1>3, <2>1, CalmTake DEF Runtime
<1> QED BY <1>1, <1>2, <1>3, CalmPerson, CalmStop, CalmTick, CalmSubmission,
           CalmProjector, CalmRecovery, CalmFault DEF Next

LEMMA InitCalm == Init => Calmly
<1> SUFFICES ASSUME Init PROVE Calmly
  OBVIOUS
<1> USE DEF Init
<1>1. CalmPlaces
  BY DEF CalmPlaces, CalmTasks, BeforeStart, CalmWire, CalmHolder, CalmRows, CalmRow,
     Submits, Unlocked
<1>2. CalmTurns
  BY DEF CalmTurns, CalmInput, CalmLists, CalmBusy, CalmStarter, Running, Active, Unlocked
<1>3. CalmQueue
  BY DEF CalmQueue, SentInOrder, CalmOrder, Waiting, Sent
<1> QED BY <1>1, <1>2, <1>3 DEF Calmly

LEMMA CalmAlways == Spec => [](Calm => Known)
<1>1. Init => (Calm => Calmly)
  BY InitCalm
<1>2. /\ IInv /\ IInv' /\ Places /\ (Calm => Calmly) /\ [Next]_vars
      => (Calm => Calmly)'
  <2> SUFFICES ASSUME IInv, Places, Calm => Calmly, [Next]_vars, Calm'
               PROVE  Calmly'
    OBVIOUS
  <2>1. Calm
    BY FaultsCounted
  <2>2. faults' = faults
    BY <2>1 DEF Calm
  <2> QED BY <2>1, <2>2, CalmStep DEF Known
<1>3. IInv /\ Places /\ (Calm => Calmly) => (Calm => Known)
  BY DEF Known
<1> QED BY <1>1, <1>2, <1>3, PlacesAlways, PTL DEF Spec

(* As long as nothing has failed, a conversation runs one turn at a time:  *)
(* the claims of the dispatch loop (claim_message_for_dispatch) and the    *)
(* Guides (dispatch_guide) never start a second.                         *)
THEOREM OneTurn == Spec => [](Calm => OneTurnAtATime)
<1>1. ASSUME Known PROVE OneTurnAtATime
  <2> SUFFICES ASSUME NEW t \in Running, NEW u \in Running, t # u,
                      NEW m \in turns[t].input, NEW n \in turns[u].input, m \in Peers(n)
               PROVE  FALSE
    BY DEF OneTurnAtATime
  <2> USE <1>1 DEF Known, Calmly, CalmTurns
  <2>1. t \in Turn /\ u \in Turn /\ \A x \in Turn : turns[x].input \subseteq Message
    BY DEF Running, IInv, TypeOK, History
  <2>2. PICK s \in turns[t].input : Starts(s, t)
    BY DEF CalmStarter
  <2>3. PICK v \in turns[u].input : Starts(v, u)
    BY DEF CalmStarter
  <2>4. s \in Message /\ v \in Message /\ s \in Peers(v) /\ v \in Peers(s)
    BY <2>1 DEF Places, TurnsTrue, OneConversation, Peers
  <2> HIDE DEF Known
  <2>5. CASE messages[s].turn = t /\ messages[s].state \in Active
    BY <2>2, <2>3, <2>4, <2>5 DEF Starts, CalmBusy, Known
  <2>6. CASE lock.op = "dispatch" /\ lock.message = s /\ lock.turn = t
    BY <2>2, <2>3, <2>4, <2>6 DEF Starts, CalmBusy, Known
  <2> QED BY <2>2, <2>5, <2>6 DEF Starts
<1>2. (Calm => Known) => (Calm => OneTurnAtATime)
  BY <1>1
<1> QED BY <1>2, CalmAlways, PTL

(* As long as nothing has failed, a message that waits in its queue is     *)
(* never overtaken by one that was sent after it                           *)
(* (claim_message_for_dispatch takes the first, and only if none is busy). *)
THEOREM SentOrder == Spec => [](Calm => InOrder)
<1>1. ASSUME Known PROVE InOrder
  <2> SUFFICES ASSUME NEW n \in Message, NEW m \in Peers(n), m < n, Waiting(m),
                      messages[n].work = "dispatch"
               PROVE  taken[n] = <<>>
    BY DEF InOrder
  <2>1. Behind(n, m)
    BY <1>1 DEF Known, Calmly, CalmQueue, CalmOrder
  <2>2. Unspent(n)
    BY <2>1 DEF Behind, Unspent, Waiting
  <2> QED BY <1>1, <2>2, CalmFacts
<1>2. (Calm => Known) => (Calm => InOrder)
  BY <1>1
<1> QED BY <1>2, CalmAlways, PTL

(* As long as nothing has failed, a Guide is an input of the turn it was   *)
(* meant for, or of none (turn/steer names the turn, and a message leaves  *)
(* the queue when it is moved to Guide).                                   *)
THEOREM GuideStays == Spec => [](Calm => GuideStaysInItsTurn)
<1>1. ASSUME Known PROVE GuideStaysInItsTurn
  BY <1>1 DEF Known, Calmly, CalmTurns, CalmInput, GuideStaysInItsTurn
<1>2. (Calm => Known) => (Calm => GuideStaysInItsTurn)
  BY <1>1
<1> QED BY <1>2, CalmAlways, PTL

-----------------------------------------------------------------------------
(* Without Guides and without deltas.                                      *)

NoDeltas == /\ lock.op # "project"
            /\ \A i \in 1..Len(inbox) : inbox[i].kind # "delta"
NoGuides == /\ lock.op # "guide"
            /\ \A m \in Message : messages[m].work # "guide"
            /\ \A r \in wire : r.turn = NoTurn
            /\ \A t \in Turn : \A m, n \in turns[t].input : m = n

(* What the inbox does in a step.                                          *)
Appended(t, k) == inbox' = Append(inbox, [kind |-> k, turn |-> t])
InboxStep ==
    \/ inbox' = inbox
    \/ \E t \in Turn : /\ Appended(t, "completed")
                       /\ lock.op = "free" \/ lock' = lock
    \/ \E t \in Streaming : Appended(t, "delta") /\ lock' = lock
    \/ inbox # <<>> /\ inbox' = Tail(inbox) /\ ~Submits /\ lock'.op = "free"

LEMMA InboxSteps == ASSUME IInv, Next PROVE InboxStep
<1> USE DEF store, daemon, runtime
<1>1. CASE Projector
  <2>1. ASSUME NEW m \in Message, LoadDelta(m) PROVE InboxStep
    BY <2>1 DEF LoadDelta, Pending, InboxStep, Submits
  <2>2. CASE ApplyDelta
    <3>1. inbox # <<>> /\ lock'.op = "free"
      BY <2>2 DEF ApplyDelta, Unlocked, IInv, HoldersKnow, DeltaHeld
    <3> QED BY <2>2, <3>1 DEF ApplyDelta, InboxStep, Submits
  <2>3. CASE ProjectUnmapped \/ ProjectCompletion
    BY <2>3 DEF ProjectUnmapped, ProjectCompletion, Pending, InboxStep, Submits
  <2> QED BY <1>1, <2>1, <2>2, <2>3 DEF Projector
<1>2. CASE Runtime
  <2>1. ASSUME NEW t \in Turn, StreamDelta(t) PROVE InboxStep
    BY <2>1 DEF StreamDelta, InboxStep, Appended
  <2>2. ASSUME NEW t \in Turn, FinishTurn(t) PROVE InboxStep
    BY <2>2 DEF FinishTurn, InboxStep, Appended
  <2> QED BY <1>2, <2>1, <2>2 DEF Runtime, Take, TurnStart, TurnSteer, InboxStep
<1>3. CASE Stop
  <2>1. ASSUME NEW m \in Message, NEW t \in Turn, StopRequest(m, t) PROVE InboxStep
    BY <2>1 DEF StopRequest, InboxStep, Appended
  <2> QED BY <1>3, <2>1 DEF Stop, StopRecord, InboxStep
<1>4. CASE ~(Projector \/ Runtime \/ Stop)
  BY <1>4 DEF Next, Person, Send, SendGuide, Edit, Cancel, MoveToGuide, Retry,
     Tick, TickStart, ListDispatch, TickEnd, SkipListed, Dispatch, GuideFails,
     DispatchGuide, Submission, BeginSubmission, StartAnswered, StartUnanswered,
     SteerAnswered, SteerRefused, SteerUnanswered, Receipts, ScanReceipt,
     AcceptReceipt, Recovery, RecoverDue, RecoverDrained, RecoverStart, RecoverDone, RecoverAbort,
     RecoverMessage, Fault, ListedFails, PrepareFails, SaveFails, RuntimeDies, Crash,
     InboxStep
<1> QED BY <1>1, <1>2, <1>3, <1>4

(* The kinds of the notices after a step.                                  *)
LEMMA InboxKinds ==
    ASSUME TypeOK, InboxStep, NEW i \in 1..Len(inbox')
    PROVE  \/ \E j \in 1..Len(inbox) : inbox'[i] = inbox[j]
           \/ \E t \in Turn : inbox'[i] = [kind |-> "completed", turn |-> t]
           \/ \E t \in Streaming : inbox'[i] = [kind |-> "delta", turn |-> t]
<1>0. inbox \in Seq(Notice)
  BY DEF TypeOK
<1>1. CASE inbox' = inbox
  BY <1>1
<1>2. ASSUME NEW t \in Turn, NEW k \in {"completed", "delta"}, Appended(t, k)
      PROVE  (\E j \in 1..Len(inbox) : inbox'[i] = inbox[j])
             \/ inbox'[i] = [kind |-> k, turn |-> t]
  BY <1>0, <1>2 DEF Appended
<1>3. CASE inbox # <<>> /\ inbox' = Tail(inbox)
  <2>1. i + 1 \in 1..Len(inbox) /\ inbox'[i] = inbox[i + 1]
    BY <1>0, <1>3
  <2> QED BY <2>1
<1> QED BY <1>1, <1>2, <1>3, KindAssumption DEF InboxStep

LEMMA NoDeltasStep ==
    ASSUME IInv, [Next]_vars, Streaming = {}, NoDeltas
    PROVE  NoDeltas'
<1> USE DEF store, daemon, runtime
<1>1. CASE UNCHANGED vars
  BY <1>1 DEF vars, NoDeltas
<1>2. CASE Next
  <2>1. InboxStep
    BY <1>2, InboxSteps
  <2>2. \A i \in 1..Len(inbox') : inbox'[i].kind # "delta"
    <3> SUFFICES ASSUME NEW i \in 1..Len(inbox') PROVE inbox'[i].kind # "delta"
      OBVIOUS
    <3>1. \/ \E j \in 1..Len(inbox) : inbox'[i] = inbox[j]
          \/ \E t \in Turn : inbox'[i] = [kind |-> "completed", turn |-> t]
      BY <2>1, InboxKinds DEF IInv
    <3>2. ASSUME NEW j \in 1..Len(inbox), inbox'[i] = inbox[j]
          PROVE  inbox'[i].kind # "delta"
      BY <3>2 DEF NoDeltas
    <3>3. ASSUME NEW t \in Turn, inbox'[i] = [kind |-> "completed", turn |-> t]
          PROVE  inbox'[i].kind # "delta"
      BY <3>3
    <3> QED BY <3>1, <3>2, <3>3
  <2>3. \A m \in Message : ~LoadDelta(m)
    <3> SUFFICES ASSUME NEW m \in Message, LoadDelta(m) PROVE FALSE
      OBVIOUS
    <3>1. inbox \in Seq(Notice) /\ inbox # <<>> /\ Head(inbox).kind = "delta"
      BY DEF IInv, TypeOK, LoadDelta, Pending
    <3> QED BY <3>1 DEF NoDeltas
  <2>4. lock'.op # "project"
    <3>1. CASE Projector
      BY <2>3, <3>1 DEF Projector, ProjectUnmapped, ProjectCompletion, ApplyDelta,
         Unlocked, NoDeltas
    <3>2. CASE Tick
      <4>1. ASSUME NEW m \in Message, Dispatch(m) PROVE lock'.op # "project"
        BY <4>1 DEF Dispatch, NoDeltas
      <4>2. ASSUME NEW m \in Message, DispatchGuide(m) PROVE lock'.op # "project"
        BY <4>2 DEF DispatchGuide, Unlocked
      <4> QED BY <3>2, <4>1, <4>2 DEF Tick, TickStart, ListDispatch, TickEnd,
                 SkipListed, GuideFails, NoDeltas
    <3>3. CASE Take
      <4>1. PICK r \in wire : \E t : lock' = Answered(r, t)
        BY <3>3 DEF Take, TurnStart, TurnSteer
      <4> QED BY <4>1 DEF Answered, NoDeltas, IInv, TypeOK, Holder
    <3>4. CASE Stop
      <4>1. ASSUME NEW m \in Message, NEW t \in Turn, StopRequest(m, t)
            PROVE  lock'.op # "project"
        BY <4>1 DEF StopRequest, Unlocked
      <4> QED BY <3>4, <4>1 DEF Stop, StopRecord, Unlocked
    <3>5. CASE Fault
      <4>1. CASE RuntimeDies
        BY <4>1 DEF RuntimeDies, NoDeltas, IInv, TypeOK, Holder
      <4>2. CASE PrepareFails \/ SaveFails \/ Crash
        <5>1. lock' = Unlocked
          BY <4>2 DEF PrepareFails, SaveFails, Crash
        <5> QED BY <5>1 DEF Unlocked
      <4> QED BY <3>5, <4>1, <4>2 DEF Fault, ListedFails, NoDeltas
    <3>6. CASE Submission
      BY <3>6 DEF Submission, BeginSubmission, StartAnswered, StartUnanswered,
         SteerAnswered, SteerRefused, SteerUnanswered, Unlocked, NoDeltas
    <3> QED BY <1>2, <3>1, <3>2, <3>3, <3>4, <3>5, <3>6 DEF Next, NoDeltas, Person,
             Send, SendGuide, Edit, Cancel, MoveToGuide, Retry, Receipts, ScanReceipt,
             AcceptReceipt, Recovery, RecoverDue, RecoverDrained, RecoverStart, RecoverDone,
             RecoverAbort, RecoverMessage, Runtime, StreamDelta, FinishTurn
  <2> QED BY <2>2, <2>4 DEF NoDeltas
<1> QED BY <1>1, <1>2

LEMMA NoGuidesStep ==
    ASSUME IInv, Places, [Next]_vars, Guidable = {}, NoGuides
    PROVE  NoGuides'
<1> USE DEF store, daemon, runtime
<1>0. /\ messages \in [Message -> Row] /\ turns \in [Turn -> History]
      /\ \A m \in Message : ~DispatchGuide(m)
      /\ lock \in Holder
  BY DEF IInv, TypeOK, NoGuides, DispatchGuide
<1>1. CASE UNCHANGED vars
  BY <1>1 DEF vars, NoGuides
<1>2. CASE Next
  <2>1. ASSUME NEW m \in Message PROVE messages'[m].work # "guide"
    <3> USE <1>0 DEF NoGuides
    <3>1. CASE Person
      <4>1. ASSUME NEW n \in Message, Send(n) PROVE messages'[m].work # "guide"
        BY <4>1 DEF Send, Row
      <4>2. ASSUME NEW n \in Message, Edit(n) \/ Cancel(n) \/ Retry(n)
            PROVE  messages'[m].work # "guide"
        BY <4>2 DEF Edit, Cancel, Retry, Row
      <4> QED BY <3>1, <4>1, <4>2 DEF Person, SendGuide, MoveToGuide
    <3>2. CASE Stop
      <4>1. CASE StopRecord
        BY <4>1 DEF StopRecord, Row
      <4> QED BY <3>2, <4>1 DEF Stop, StopRequest
    <3>3. CASE Tick
      <4>1. CASE TickStart
        BY <4>1 DEF TickStart, Reclaimed, Row
      <4>2. ASSUME NEW n \in Message, Dispatch(n) PROVE messages'[m].work # "guide"
        BY <4>2 DEF Dispatch, Row
      <4>3. ASSUME NEW n \in Message, GuideFails(n) PROVE messages'[m].work # "guide"
        BY <4>3 DEF GuideFails, Delivered, Row
      <4> QED BY <3>3, <4>1, <4>2, <4>3 DEF Tick, ListDispatch, TickEnd, SkipListed
    <3>4. CASE Submission
      <4>1. CASE BeginSubmission
        BY <4>1 DEF BeginSubmission, Row
      <4>2. CASE StartAnswered
        <5> DEFINE D == Delivered(messages, lock.message, "accepted_by_codex", lock.turn)
        <5>1. \A n \in Message : D[n].work = messages[n].work
          BY DEF Delivered, Row
        <5>2. \/ messages' = D \/ messages' = CompletedTurn(D, lock.turn)
              \/ messages' = Delivered(D, lock.message, "streaming", lock.turn)
          BY <4>2 DEF StartAnswered, Drained
        <5>3. D \in [Message -> Row]
          <6>1. lock.message \in Message /\ lock.turn \in Turn \cup {NoTurn}
            BY <4>2 DEF StartAnswered, Dispatching, IInv, TypeOK, Holder
          <6> QED BY <6>1, DeliveredType DEF DeliveryState, Open, Active
        <5> HIDE DEF D
        <5>4. messages'[m].work = D[m].work
          <6>1. CASE messages' = CompletedTurn(D, lock.turn)
            BY <5>3, <6>1 DEF CompletedTurn, Row
          <6>2. CASE messages' = Delivered(D, lock.message, "streaming", lock.turn)
            BY <5>3, <6>2 DEF Delivered, Row
          <6> QED BY <5>2, <6>1, <6>2
        <5> QED BY <5>1, <5>4
      <4>3. CASE StartUnanswered
        BY <4>3 DEF StartUnanswered, Delivered, Row
      <4>4. CASE SteerAnswered \/ SteerRefused \/ SteerUnanswered
        BY <4>4 DEF SteerAnswered, SteerRefused, SteerUnanswered
      <4> QED BY <3>4, <4>1, <4>2, <4>3, <4>4 DEF Submission
    <3>5. CASE Receipts
      <4>1. ASSUME NEW n \in Message, AcceptReceipt(n) PROVE messages'[m].work # "guide"
        <5>1. \/ messages' = messages
              \/ messages' = Delivered(messages, n, "accepted_by_codex", found[n])
          BY <4>1 DEF AcceptReceipt
        <5>2. messages'[m].work = messages[m].work
          <6>1. CASE messages' = Delivered(messages, n, "accepted_by_codex", found[n])
            BY <6>1 DEF Delivered, Row
          <6> QED BY <5>1, <6>1
        <5> QED BY <5>2
      <4> QED BY <3>5, <4>1 DEF Receipts, ScanReceipt
    <3>6. CASE Projector
      <4>1. CASE ApplyDelta
        BY <4>1 DEF ApplyDelta, Delivered, Row
      <4>2. CASE ProjectCompletion
        BY <4>2 DEF ProjectCompletion, ApplyCompletion, CompletedTurn, Row
      <4> QED BY <3>6, <4>1, <4>2 DEF Projector, ProjectUnmapped, LoadDelta
    <3>7. CASE Recovery
      <4>1. ASSUME NEW n \in Message, RecoverMessage(n) PROVE messages'[m].work # "guide"
        <5>1. \/ messages' = messages
              \/ messages' = CompletedTurn(messages, messages[n].turn)
              \/ messages' = UncertainTurn(messages, messages[n].turn)
          BY <4>1 DEF RecoverMessage, ApplyCompletion
        <5> QED BY <5>1 DEF CompletedTurn, UncertainTurn, Row
      <4> QED BY <3>7, <4>1 DEF Recovery, RecoverDue, RecoverDrained, RecoverStart, RecoverDone,
                 RecoverAbort
    <3>8. CASE Fault
      <4>1. CASE PrepareFails
        BY <4>1 DEF PrepareFails, Delivered, Row
      <4>2. CASE Crash
        BY <4>2 DEF Crash, Reclaimed, Row
      <4> QED BY <3>8, <4>1, <4>2 DEF Fault, ListedFails, SaveFails, RuntimeDies
    <3> QED BY <1>2, <3>1, <3>2, <3>3, <3>4, <3>5, <3>6, <3>7, <3>8 DEF Next, Runtime,
               Take, TurnStart, TurnSteer, StreamDelta, FinishTurn
  <2>2. lock'.op # "guide"
    <3>1. CASE Take
      <4>1. PICK r \in wire : \E t : lock' = Answered(r, t)
        BY <3>1 DEF Take, TurnStart, TurnSteer
      <4> QED BY <1>0, <4>1 DEF Answered, NoGuides, Holder
    <3>2. CASE ~Take
      <4>1. \/ lock' = lock \/ lock'.op = "free" \/ LockTaken
            \/ lock'.op = lock.op
        BY <1>2, <3>2, LockFrame DEF LockKept
      <4>2. CASE Tick
        <5>1. ASSUME NEW m \in Message, Dispatch(m) PROVE lock'.op # "guide"
          BY <5>1 DEF Dispatch, NoGuides
        <5> QED BY <1>0, <4>2, <5>1 DEF Tick, TickStart, ListDispatch, TickEnd,
                   SkipListed, GuideFails, NoGuides
      <4>3. CASE Stop
        <5>1. ASSUME NEW m \in Message, NEW t \in Turn, StopRequest(m, t)
              PROVE  lock'.op # "guide"
          BY <5>1 DEF StopRequest, Unlocked
        <5> QED BY <4>3, <5>1 DEF Stop, StopRecord, Unlocked
      <4>4. CASE Projector
        <5>1. ASSUME NEW m \in Message, LoadDelta(m) PROVE lock'.op # "guide"
          BY <5>1 DEF LoadDelta, Unlocked, NoGuides
        <5> QED BY <4>4, <5>1 DEF Projector, ProjectUnmapped, ProjectCompletion,
                   ApplyDelta, Unlocked, NoGuides
      <4>5. CASE ~(Tick \/ Stop \/ Projector)
        <5>1. lock' = lock \/ lock'.op = "free" \/ lock'.op = lock.op
          <6>1. CASE Submission
            BY <6>1 DEF Submission, BeginSubmission, StartAnswered, StartUnanswered,
               SteerAnswered, SteerRefused, SteerUnanswered, Unlocked
          <6>2. CASE Fault
            <7>1. CASE RuntimeDies
              BY <1>0, <7>1 DEF RuntimeDies, Holder
            <7>2. CASE PrepareFails \/ SaveFails \/ Crash
              <8>1. lock' = Unlocked
                BY <7>2 DEF PrepareFails, SaveFails, Crash
              <8> QED BY <8>1 DEF Unlocked
            <7> QED BY <6>2, <7>1, <7>2 DEF Fault, ListedFails
          <6> QED BY <1>2, <3>2, <4>5, <6>1, <6>2 DEF Next, Person, Send, SendGuide,
                     Edit, Cancel, MoveToGuide, Retry, Receipts, ScanReceipt,
                     AcceptReceipt, Recovery, RecoverDue, RecoverDrained, RecoverStart, RecoverDone,
                     RecoverAbort, RecoverMessage, Runtime, StreamDelta, FinishTurn
        <5> QED BY <5>1 DEF NoGuides
      <4> QED BY <4>2, <4>3, <4>4, <4>5
    <3> QED BY <3>1, <3>2
  <2>3. ASSUME NEW r \in wire' PROVE r.turn = NoTurn
    <3>1. CASE Submission
      BY <3>1 DEF Submission, BeginSubmission, StartAnswered, StartUnanswered,
         SteerAnswered, SteerRefused, SteerUnanswered, NoGuides
    <3>2. CASE ~Submission
      <4>1. wire' \subseteq wire
        BY <1>0, <1>2, <3>2 DEF Next, Person, Send, SendGuide, Edit, Cancel, MoveToGuide,
           Retry, Stop, StopRecord, StopRequest, Tick, TickStart, ListDispatch, TickEnd,
           SkipListed, Dispatch, GuideFails, Receipts, ScanReceipt, AcceptReceipt,
           Projector, ProjectUnmapped, ProjectCompletion, LoadDelta, ApplyDelta, Recovery,
           RecoverDue, RecoverDrained, RecoverStart, RecoverDone, RecoverAbort, RecoverMessage, Runtime,
           Take, TurnStart, TurnSteer, StreamDelta, FinishTurn, Fault, ListedFails,
           PrepareFails, SaveFails, RuntimeDies, Crash
      <4> QED BY <4>1 DEF NoGuides
    <3> QED BY <3>1, <3>2
  <2>4. ASSUME NEW t \in Turn PROVE \A m, n \in turns'[t].input : m = n
    <3>1. CASE Take
      <4>1. PICK r \in wire, u \in Turn : TurnStart(r, u)
        BY <3>1 DEF Take, TurnSteer, NoGuides
      <4> QED BY <1>0, <4>1 DEF TurnStart, NoGuides, History
    <3>2. CASE ~Take
      BY <1>2, <3>2, TurnsFrame DEF TurnsKept, NoGuides
    <3> QED BY <3>1, <3>2
  <2> QED BY <2>1, <2>2, <2>3, <2>4 DEF NoGuides
<1> QED BY <1>1, <1>2

(* Without Guides and deltas none ever comes up.                           *)
PlainRun == /\ Streaming = {} => NoDeltas
            /\ Guidable = {} => NoGuides
LEMMA PlainAlways == Spec => [](IInv /\ Places /\ PlainRun)
<1>1. Init => PlainRun
  BY DEF Init, PlainRun, NoDeltas, NoGuides, Unlocked
<1>2. IInv /\ Places /\ PlainRun /\ [Next]_vars => PlainRun'
  BY NoDeltasStep, NoGuidesStep DEF PlainRun
<1> QED BY <1>1, <1>2, PlacesAlways, PTL DEF Spec

-----------------------------------------------------------------------------
(* An active message learns of the end of its turn.                        *)

Noticed(t) == \E i \in 1..Len(inbox) :
                 inbox[i].kind = "completed" /\ inbox[i].turn = t
Awaits(m) == \/ Noticed(messages[m].turn) \/ ~alive \/ ingestion.requested
             \/ ingestion.pc \in {"due", "starting"}
             \/ ingestion.pc = "reading" /\ m \in ingestion.todo
EndsAwaited == \A m \in Message :
    messages[m].state \in Active /\ Over(messages[m].turn) => Awaits(m)
AnswerAwaited ==
    Submits /\ lock.turn # NoTurn /\ Over(lock.turn) => Noticed(lock.turn)
AppliedOnce == \A t \in receipts : \A m \in turns[t].input : messages[m].state \in Final
DeltaNext == lock.op = "project" => Head(inbox).kind = "delta"
RecoveringShown == ingestion.pc # "off" => ingestion.recovering
EndsKnown == EndsAwaited /\ AnswerAwaited /\ AppliedOnce /\ DeltaNext /\ RecoveringShown

(* What keeps a completion from passing by one of its turn's messages, and *)
(* a late delta from waking one that has ended.                            *)
OnTurn(t) == \A m \in turns[t].input : messages[m].turn = t
Orderly ==
    /\ ApplyDelta => messages[lock.message].state \in Active
    /\ \A t \in Turn : /\ MappedTo(t) # {}
                       /\ lock.op = "free" \/ Recovery
                       => OnTurn(t)

LEMMA OrderlyCalm ==
    ASSUME Known, Next, faults' = faults
    PROVE  Orderly
<1>1. ApplyDelta => messages[lock.message].state \in Active
  BY DEF ApplyDelta, Known, Calmly, CalmPlaces, CalmHolder
<1>2. ASSUME NEW t \in Turn, MappedTo(t) # {}, lock.op = "free" \/ Recovery
      PROVE  OnTurn(t)
  <2>1. CASE lock.op = "free"
    BY <2>1 DEF OnTurn, Known, Calmly, CalmTurns, CalmInput, Submits
  <2>2. CASE Recovery /\ ingestion.pc # "off"
    <3>1. turns[t].input = {}
      BY <2>2 DEF Known, Calmly, CalmPlaces, CalmTasks, BeforeStart, IInv, TypeOK,
         History, Places, TurnsTrue, InputsTaken
    <3> QED BY <3>1 DEF OnTurn
  <2>3. ~(Recovery /\ ingestion.pc = "off")
    BY DEF Recovery, RecoverDue, RecoverDrained, RecoverStart, RecoverDone, RecoverAbort,
       RecoverMessage, Known, Calmly, CalmPlaces, CalmTasks
  <2> QED BY <1>2, <2>1, <2>2, <2>3
<1> QED BY <1>1, <1>2 DEF Orderly

LEMMA OrderlyPlain ==
    ASSUME IInv, Places, NoDeltas, NoGuides
    PROVE  Orderly
<1>1. ~ApplyDelta
  BY DEF ApplyDelta, NoDeltas
<1>2. ASSUME NEW t \in Turn, MappedTo(t) # {} PROVE OnTurn(t)
  <2>1. PICK n \in Message : messages[n].turn = t
    BY <1>2 DEF MappedTo
  <2>2. n \in turns[t].input
    BY <2>1, TurnAssumption DEF Places, NamesTrue, TurnsShown
  <2> QED BY <2>1, <2>2 DEF OnTurn, NoGuides
<1> QED BY <1>1, <1>2 DEF Orderly

(* What the inbox holds after a step.                                      *)
LEMMA NoticedStays ==
    ASSUME TypeOK, NEW t, Noticed(t),
           \/ inbox' = inbox
           \/ \E u, k : inbox' = Append(inbox, [kind |-> k, turn |-> u])
           \/ inbox # <<>> /\ inbox' = Tail(inbox)
              /\ ~(Head(inbox).kind = "completed" /\ Head(inbox).turn = t)
    PROVE  Noticed(t)'
<1>0. inbox \in Seq(Notice)
  BY DEF TypeOK
<1>1. PICK i \in 1..Len(inbox) : inbox[i].kind = "completed" /\ inbox[i].turn = t
  BY DEF Noticed
<1>2. CASE inbox' = inbox
  BY <1>2 DEF Noticed
<1>3. ASSUME NEW u, NEW k, inbox' = Append(inbox, [kind |-> k, turn |-> u])
      PROVE  Noticed(t)'
  <2>1. i \in 1..Len(inbox') /\ inbox'[i] = inbox[i]
    BY <1>0, <1>3
  <2> QED BY <1>1, <2>1 DEF Noticed
<1>4. CASE inbox # <<>> /\ inbox' = Tail(inbox)
           /\ ~(Head(inbox).kind = "completed" /\ Head(inbox).turn = t)
  <2>1. Head(inbox) = inbox[1]
    BY <1>0, <1>4
  <2>2. i # 1
    BY <1>1, <1>4, <2>1
  <2>3. i - 1 \in 1..Len(inbox') /\ inbox'[i - 1] = inbox[i]
    BY <1>0, <1>4, <2>2
  <2> QED BY <1>1, <2>3 DEF Noticed
<1> QED BY <1>2, <1>3, <1>4

LEMMA NoticedNow ==
    ASSUME TypeOK, NEW t \in Turn, Appended(t, "completed")
    PROVE  Noticed(t)'
<1>1. Len(inbox) + 1 \in 1..Len(inbox')
      /\ inbox'[Len(inbox) + 1] = [kind |-> "completed", turn |-> t]
  BY DEF TypeOK, Appended
<1> QED BY <1>1 DEF Noticed

LEMMA HeadStays ==
    ASSUME TypeOK, inbox # <<>>,
           inbox' = inbox \/ \E u, k : inbox' = Append(inbox, [kind |-> k, turn |-> u])
    PROVE  inbox' # <<>> /\ Head(inbox') = Head(inbox)
<1>0. inbox \in Seq(Notice) /\ Head(inbox) = inbox[1] /\ 1 \in 1..Len(inbox)
  BY DEF TypeOK
<1>1. ASSUME NEW u, NEW k, inbox' = Append(inbox, [kind |-> k, turn |-> u])
      PROVE  inbox' # <<>> /\ Head(inbox') = Head(inbox)
  <2> DEFINE e == [kind |-> k, turn |-> u]
  <2>1. inbox' = Append(inbox, e)
    BY <1>1
  <2> HIDE DEF e
  <2>2. inbox'[1] = inbox[1] /\ Len(inbox') = Len(inbox) + 1
    BY <1>0, <2>1
  <2>3. Head(inbox') = inbox'[1]
    BY <1>0, <2>1
  <2> QED BY <1>0, <2>2, <2>3
<1> QED BY <1>1

(* What has ended stays so.                                                *)
LEMMA FinalStays ==
    ASSUME IInv, Places, Next, Orderly, NEW m \in Message, messages[m].state \in Final
    PROVE  messages'[m].state \in Final
<1>1. ~LateArrival(m)
  BY DEF LateArrival, Orderly, Active, Final
<1>2. StateMoves(m)
  BY <1>1, StatesMove DEF Places, NamesTrue
<1> QED BY <1>2 DEF StateMoves, Becomes, Final, Open, Active

(* A message becomes active only when an answer or a receipt names its turn. *)
LEMMA ActiveStays ==
    ASSUME IInv, Next, Orderly, ~Submission, ~Receipts,
           NEW m \in Message, messages'[m].state \in Active
    PROVE  messages[m].state \in Active /\ messages'[m].turn = messages[m].turn
<1> USE DEF store, daemon, runtime
<1>0. messages \in [Message -> Row]
  BY DEF IInv, TypeOK
<1> DEFINE Stays == messages[m].state \in Active /\ messages'[m].turn = messages[m].turn
<1>1. CASE Person
  <2>1. ASSUME NEW n \in Message, Send(n) PROVE Stays
    BY <1>0, <2>1 DEF Send, Row, Active
  <2>2. ASSUME NEW n \in Message, NEW t \in Turn, SendGuide(n, t) PROVE Stays
    BY <1>0, <2>2 DEF SendGuide, Row, Active
  <2>3. ASSUME NEW n \in Message, NEW t \in Turn, MoveToGuide(n, t) PROVE Stays
    BY <1>0, <2>3 DEF MoveToGuide, Row, Active
  <2>4. ASSUME NEW n \in Message, Edit(n) PROVE Stays
    BY <1>0, <2>4 DEF Edit, Row, Active
  <2>5. ASSUME NEW n \in Message, Cancel(n) \/ Retry(n) PROVE Stays
    BY <1>0, <2>5 DEF Cancel, Retry, Row, Active
  <2> QED BY <1>1, <2>1, <2>2, <2>3, <2>4, <2>5 DEF Person
<1>2. CASE Stop
  <2>1. CASE StopRecord
    BY <1>0, <2>1 DEF StopRecord, Row, Active
  <2> QED BY <1>2, <2>1 DEF Stop, StopRequest
<1>3. CASE Tick
  <2>1. CASE TickStart
    BY <1>0, <2>1 DEF TickStart, Reclaimed, Row, Active
  <2>2. ASSUME NEW n \in Message, Dispatch(n) PROVE Stays
    BY <1>0, <2>2 DEF Dispatch, Row, Active
  <2>3. ASSUME NEW n \in Message, GuideFails(n) PROVE Stays
    BY <1>0, <2>3 DEF GuideFails, Delivered, Row, Active
  <2>4. ASSUME NEW n \in Message, DispatchGuide(n) PROVE Stays
    BY <1>0, <2>4 DEF DispatchGuide, Row, Active
  <2> QED BY <1>3, <2>1, <2>2, <2>3, <2>4 DEF Tick, ListDispatch, TickEnd, SkipListed
<1>4. CASE Projector
  <2>1. CASE ApplyDelta
    <3>1. messages[lock.message].turn = lock.turn /\ messages[lock.message].state \in Active
      BY <2>1 DEF ApplyDelta, Orderly, IInv, HoldersKnow, DeltaHeld
    <3> QED BY <1>0, <2>1, <3>1 DEF ApplyDelta, Delivered, Row
  <2>2. CASE ProjectCompletion
    BY <1>0, <2>2 DEF ProjectCompletion, ApplyCompletion, CompletedTurn, Row, Active
  <2> QED BY <1>4, <2>1, <2>2 DEF Projector, ProjectUnmapped, LoadDelta
<1>5. CASE Recovery
  <2>1. ASSUME NEW n \in Message, RecoverMessage(n) PROVE Stays
    <3>1. \/ messages' = messages
          \/ messages' = CompletedTurn(messages, messages[n].turn)
          \/ messages' = UncertainTurn(messages, messages[n].turn)
      BY <2>1 DEF RecoverMessage, ApplyCompletion
    <3> QED BY <1>0, <3>1 DEF CompletedTurn, UncertainTurn, Row, Active
  <2> QED BY <1>5, <2>1 DEF Recovery, RecoverDue, RecoverDrained, RecoverStart, RecoverDone, RecoverAbort
<1>6. CASE Fault
  <2>1. CASE PrepareFails
    BY <1>0, <2>1 DEF PrepareFails, Delivered, Row, Active
  <2>2. CASE Crash
    BY <1>0, <2>2 DEF Crash, Reclaimed, Row, Active
  <2> QED BY <1>6, <2>1, <2>2 DEF Fault, ListedFails, SaveFails, RuntimeDies
<1> QED BY <1>1, <1>2, <1>3, <1>4, <1>5, <1>6 DEF Next, Runtime, Take, TurnStart,
           TurnSteer, StreamDelta, FinishTurn

(* Who ends a turn says so in the inbox, or has died with it.              *)
LEMMA EndNoticed ==
    ASSUME IInv, Places, Next, NEW t \in Turn, Over(t)'
    PROVE  \/ Over(t)
           \/ Noticed(t)' /\ UNCHANGED <<messages, ingestion, alive>>
              /\ (lock' = lock \/ lock'.op = "stop")
           \/ ~alive' /\ ~(Submits /\ lock.turn # NoTurn)'
<1> USE DEF store, daemon, runtime
<1>0. turns \in [Turn -> History] /\ TypeOK
  BY DEF IInv, TypeOK
<1>1. ASSUME NEW u \in Turn, FinishTurn(u)
      PROVE  Over(t) \/ (Noticed(t)' /\ UNCHANGED <<messages, ingestion, alive, lock>>)
  <2>1. CASE t = u
    BY <1>0, <1>1, <2>1, NoticedNow DEF FinishTurn, Appended
  <2>2. CASE t # u
    BY <1>0, <1>1, <2>2 DEF FinishTurn, Over, History
  <2> QED BY <2>1, <2>2
<1>2. ASSUME NEW m \in Message, NEW u \in Turn, StopRequest(m, u)
      PROVE  Over(t) \/ (Noticed(t)' /\ UNCHANGED <<messages, ingestion, alive>>
                         /\ lock'.op = "stop")
  <2>1. CASE t = u
    BY <1>0, <1>2, <2>1, NoticedNow DEF StopRequest, Appended, Unlocked
  <2>2. CASE t # u
    BY <1>0, <1>2, <2>2 DEF StopRequest, Over, History
  <2> QED BY <2>1, <2>2
<1>3. CASE RuntimeDies \/ Crash
  <2>1. ~alive'
    BY <1>3 DEF RuntimeDies, Crash
  <2>2. CASE RuntimeDies
    BY <2>1, <2>2 DEF RuntimeDies, Submits, IInv, TypeOK, Holder
  <2>3. CASE Crash
    BY <2>1, <2>3 DEF Crash, Submits, Unlocked
  <2> QED BY <1>3, <2>2, <2>3
<1>4. CASE Take
  <2>1. PICK r \in wire, u \in Turn : Takes(r, u)
    BY <1>4, Taking
  <2>2. t # u /\ turns'[t] = turns[t]
    BY <2>1 DEF Takes, Over
  <2> QED BY <2>2 DEF Over
<1>5. ASSUME NEW u \in Turn, StreamDelta(u) PROVE Over(t)
  BY <1>0, <1>5 DEF StreamDelta, Over, History
<1>6. CASE Person \/ Tick \/ Submission \/ Receipts \/ Projector \/ Recovery
           \/ StopRecord \/ ListedFails \/ PrepareFails \/ SaveFails
  <2>1. turns' = turns
    BY <1>6 DEF Person, Send, SendGuide, Edit, Cancel, MoveToGuide, Retry,
       Tick, TickStart, ListDispatch, TickEnd, SkipListed, Dispatch, GuideFails,
       DispatchGuide, Receipts, ScanReceipt, AcceptReceipt, StopRecord,
       Projector, ProjectUnmapped, ProjectCompletion, LoadDelta, ApplyDelta,
       Recovery, RecoverDue, RecoverDrained, RecoverStart, RecoverDone, RecoverAbort,
       RecoverMessage, Submission, BeginSubmission, StartAnswered,
       StartUnanswered, SteerAnswered, SteerRefused, SteerUnanswered,
       ListedFails, PrepareFails, SaveFails
  <2> QED BY <2>1 DEF Over
<1> QED BY <1>1, <1>2, <1>3, <1>4, <1>5, <1>6 DEF Next, Stop, Runtime, Fault

(* An answer that the dispatch loop has still to write down.               *)
LEMMA AnswerStep ==
    ASSUME IInv, Places, Next, AnswerAwaited
    PROVE  AnswerAwaited'
<1>1. InboxStep /\ TypeOK
  BY InboxSteps DEF IInv
<1> SUFFICES ASSUME Submits', lock'.turn # NoTurn, Over(lock.turn)'
             PROVE  Noticed(lock.turn)'
  BY DEF AnswerAwaited
<1>2. CASE Take
  <2>1. PICK r \in wire, t \in Turn : Takes(r, t)
    BY <1>2, Taking
  <2>2. CASE lock' = lock
    <3>1. Over(lock.turn) /\ Submits
      <4>1. lock.turn \in Turn
        BY <2>2 DEF IInv, TypeOK, Holder
      <4>2. lock.turn # t
        BY <2>1, <2>2 DEF Takes, Over
      <4> QED BY <2>1, <2>2, <4>1, <4>2 DEF Takes, Over, Submits
    <3> QED BY <1>1, <2>1, <2>2, <3>1, NoticedStays DEF AnswerAwaited, Takes, store
  <2>3. CASE lock' # lock
    <3>1. lock'.turn = t
      BY <2>1, <2>3 DEF Takes, Answered, IInv, TypeOK, Holder
    <3> QED BY <2>1, <3>1 DEF Takes, Over
  <2> QED BY <2>2, <2>3
<1>3. CASE ~Take
  <2>1. lock' = lock
    BY <1>3, LockFrame DEF LockKept, LockTaken, Submits
  <2>2. lock.turn \in Turn /\ Submits
    BY <2>1 DEF IInv, TypeOK, Holder, Submits
  <2>3. Over(lock.turn) \/ Noticed(lock.turn)'
    BY <2>1, <2>2, EndNoticed
  <2>4. ASSUME Over(lock.turn) PROVE Noticed(lock.turn)'
    <3>1. Noticed(lock.turn)
      BY <2>2, <2>4, TurnAssumption DEF AnswerAwaited
    <3>2. inbox' = inbox \/ \E u, k : inbox' = Append(inbox, [kind |-> k, turn |-> u])
      BY <1>1, <2>2 DEF InboxStep, Appended
    <3> QED BY <1>1, <2>1, <3>1, <3>2, NoticedStays
  <2> QED BY <2>3, <2>4
<1> QED BY <1>2, <1>3

(* What the projector has loaded is the head of the inbox.                 *)
LEMMA DeltaNextStep ==
    ASSUME IInv, Next, DeltaNext
    PROVE  DeltaNext'
<1> USE DEF store, daemon, runtime
<1> SUFFICES ASSUME lock'.op = "project" PROVE Head(inbox').kind = "delta"
  BY DEF DeltaNext
<1>1. ASSUME NEW m \in Message, LoadDelta(m) PROVE Head(inbox').kind = "delta"
  BY <1>1 DEF LoadDelta, Pending
<1>2. CASE lock.op = "project"
  <2>1. InboxStep /\ inbox # <<>> /\ Head(inbox).kind = "delta"
    BY <1>2, InboxSteps DEF IInv, HoldersKnow, DeltaHeld, DeltaNext
  <2>2. inbox' = inbox \/ \E u, k : inbox' = Append(inbox, [kind |-> k, turn |-> u])
    BY <2>1 DEF InboxStep, Appended
  <2> QED BY <2>1, <2>2, HeadStays DEF IInv
<1>3. CASE lock.op # "project" /\ \A m \in Message : ~LoadDelta(m)
  <2>1. CASE Take
    <3>1. PICK r \in wire : \E t : lock' = Answered(r, t)
      BY <2>1 DEF Take, TurnStart, TurnSteer
    <3> QED BY <1>3, <3>1 DEF Answered, IInv, TypeOK, Holder
  <2>2. CASE Tick
    <3>1. ASSUME NEW m \in Message, Dispatch(m) PROVE lock'.op # "project"
      BY <1>3, <3>1 DEF Dispatch
    <3>2. ASSUME NEW m \in Message, DispatchGuide(m) PROVE lock'.op # "project"
      BY <3>2 DEF DispatchGuide, Unlocked
    <3> QED BY <1>3, <2>2, <3>1, <3>2 DEF Tick, TickStart, ListDispatch, TickEnd,
               SkipListed, GuideFails
  <2>3. CASE Stop
    <3>1. ASSUME NEW m \in Message, NEW t \in Turn, StopRequest(m, t)
          PROVE  lock'.op # "project"
      BY <3>1 DEF StopRequest, Unlocked
    <3> QED BY <1>3, <2>3, <3>1 DEF Stop, StopRecord, Unlocked
  <2>4. CASE Fault
    <3>1. CASE RuntimeDies
      BY <1>3, <3>1 DEF RuntimeDies, IInv, TypeOK, Holder
    <3>2. CASE PrepareFails \/ SaveFails \/ Crash
      <4>1. lock' = Unlocked
        BY <3>2 DEF PrepareFails, SaveFails, Crash
      <4> QED BY <4>1 DEF Unlocked
    <3> QED BY <1>3, <2>4, <3>1, <3>2 DEF Fault, ListedFails
  <2>5. CASE Submission
    BY <1>3, <2>5 DEF Submission, BeginSubmission, StartAnswered, StartUnanswered,
       SteerAnswered, SteerRefused, SteerUnanswered, Unlocked
  <2> QED BY <1>3, <2>1, <2>2, <2>3, <2>4, <2>5 DEF Next, Person, Send, SendGuide, Edit,
             Cancel, MoveToGuide, Retry, Receipts, ScanReceipt, AcceptReceipt, Projector,
             ProjectUnmapped, ProjectCompletion, ApplyDelta, Recovery, RecoverDue, RecoverDrained,
             RecoverStart, RecoverDone, RecoverAbort, RecoverMessage, Runtime,
             StreamDelta, FinishTurn
<1> QED BY <1>1, <1>2, <1>3

LEMMA RecoveringStep ==
    ASSUME IInv, Next, RecoveringShown
    PROVE  RecoveringShown'
<1>1. ingestion \in Task
  BY DEF IInv, TypeOK
<1>2. CASE Recovery
  BY <1>1, <1>2 DEF Recovery, RecoverDue, RecoverDrained, RecoverStart, RecoverDone, RecoverAbort,
     RecoverMessage, RecoveringShown, Task
<1>3. CASE Receipts
  <2>1. ingestion' = ingestion
        \/ ingestion' = [ingestion EXCEPT !.requested = TRUE, !.recovering = TRUE]
    BY <1>3 DEF Receipts, ScanReceipt, AcceptReceipt
  <2> QED BY <1>1, <2>1 DEF RecoveringShown, Task
<1>4. CASE Crash
  BY <1>4 DEF Crash, RecoveringShown
<1>5. CASE ~(Recovery \/ Receipts \/ Crash)
  <2>1. ingestion' = ingestion
    BY <1>5 DEF Next, Person, Send, SendGuide, Edit, Cancel, MoveToGuide, Retry,
       Stop, StopRecord, StopRequest, Tick, TickStart, ListDispatch, TickEnd,
       SkipListed, Dispatch, GuideFails, DispatchGuide, Submission, BeginSubmission,
       StartAnswered, StartUnanswered, SteerAnswered, SteerRefused, SteerUnanswered,
       Projector, ProjectUnmapped, ProjectCompletion, LoadDelta, ApplyDelta, Runtime,
       Take, TurnStart, TurnSteer, StreamDelta, FinishTurn, Fault, ListedFails,
       PrepareFails, SaveFails, RuntimeDies, daemon
  <2> QED BY <2>1 DEF RecoveringShown
<1> QED BY <1>2, <1>3, <1>4, <1>5

(* Nothing of a turn whose completion was applied is open.                 *)
LEMMA CompletionApplied ==
    ASSUME IInv, Places, AppliedOnce, NEW t \in Turn, OnTurn(t), ApplyCompletion(t)
    PROVE  \A m \in turns[t].input : messages'[m].state \in Final
<1> SUFFICES ASSUME NEW m \in turns[t].input PROVE messages'[m].state \in Final
  OBVIOUS
<1>1. m \in Message /\ messages \in [Message -> Row]
  BY DEF IInv, TypeOK, History
<1>2. messages[m].turn = t
  BY DEF OnTurn
<1>3. messages[m].state \in Open \cup Final
  <2>1. messages[m].state \in DeliveryState
    BY <1>1 DEF Row
  <2>2. ~Unspent(m)
    BY <1>1, <1>2, TurnAssumption DEF IInv, RowsSafe, UnspentUntouched, Untouched
  <2>3. messages[m].state # "dispatching_to_codex"
    BY <1>1, <1>2, TurnAssumption DEF Places, NamesTrue, RowsOnTurn
  <2> QED BY <2>1, <2>2, <2>3 DEF DeliveryState, Unspent
<1>4. CASE t \in receipts
  BY <1>4 DEF AppliedOnce, ApplyCompletion
<1>5. CASE t \notin receipts
  <2>1. messages' = CompletedTurn(messages, t)
    BY <1>5 DEF ApplyCompletion
  <2> QED BY <1>1, <1>2, <1>3, <2>1 DEF CompletedTurn, Row, Final, Open, Active
<1> QED BY <1>4, <1>5

LEMMA AppliedStep ==
    ASSUME IInv, Places, Next, Orderly, AppliedOnce
    PROVE  AppliedOnce'
<1> USE DEF store, daemon, runtime
<1> SUFFICES ASSUME NEW t \in receipts', NEW m \in turns'[t].input
             PROVE  messages'[m].state \in Final
  BY DEF AppliedOnce
<1>0. /\ TypeOK /\ messages \in [Message -> Row] /\ inbox \in Seq(Notice)
      /\ receipts \subseteq Turn /\ \A u \in Turn : turns[u].input \subseteq Message
  BY DEF IInv, TypeOK, History
<1>1. CASE t \in receipts
  <2>1. Over(t) /\ t \in Turn
    BY <1>0, <1>1 DEF Places, EndsTrue, NoticesTrue, ReceiptsTrue
  <2>2. m \in turns[t].input
    <3>1. CASE Take
      <4>1. PICK r \in wire, u \in Turn : Takes(r, u)
        BY <3>1, Taking
      <4> QED BY <2>1, <4>1 DEF Takes, Over
    <3> QED BY <2>1, <3>1, TurnsFrame DEF TurnsKept
  <2> QED BY <1>0, <1>1, <2>1, <2>2, FinalStays DEF AppliedOnce
<1>2. ASSUME NEW u \in Turn, t \notin receipts, ApplyCompletion(u), OnTurn(u), turns' = turns
      PROVE  messages'[m].state \in Final
  <2>1. t = u
    BY <1>2 DEF ApplyCompletion
  <2> QED BY <1>2, <2>1, CompletionApplied
<1>3. CASE ProjectCompletion /\ t \notin receipts
  <2>1. Head(inbox).turn \in Turn
    <3>1. inbox # <<>> /\ Head(inbox) = inbox[1] /\ inbox[1] \in Notice
      BY <1>0, <1>3 DEF ProjectCompletion, Pending
    <3> QED BY <3>1 DEF Notice
  <2> QED BY <1>2, <1>3, <2>1 DEF ProjectCompletion, Pending, Orderly
<1>4. ASSUME NEW n \in Message, RecoverMessage(n), t \notin receipts
      PROVE  messages'[m].state \in Final
  <2>1. messages[n].turn \in Turn /\ MappedTo(messages[n].turn) # {}
    BY <1>4 DEF RecoverMessage, IInv, ListsKnow, TodoOnTurn, MappedTo
  <2>2. Recovery
    BY <1>4 DEF Recovery
  <2>3. ApplyCompletion(messages[n].turn) \/ receipts' = receipts
    BY <1>4 DEF RecoverMessage
  <2> QED BY <1>2, <1>4, <2>1, <2>2, <2>3 DEF Orderly, RecoverMessage
<1>5. CASE StartAnswered /\ t \notin receipts
  <2>1. t = lock.turn /\ [kind |-> "completed", turn |-> t] \in parked
    <3>1. parked \subseteq Notice
      BY <1>0 DEF TypeOK
    <3>2. PICK p \in parked : p.kind = "completed" /\ p.turn = lock.turn /\ t = p.turn
      BY <1>5 DEF StartAnswered
    <3>3. p = [kind |-> "completed", turn |-> t]
      BY <3>1, <3>2 DEF Notice
    <3> QED BY <3>2, <3>3
  <2>2. t \in Turn /\ lock.message \in Message /\ m = lock.message
    <3>1. lock.turn \in Turn /\ lock.op = "dispatch" /\ lock.message \in Message
      BY <1>5 DEF StartAnswered, Dispatching, IInv, TypeOK, Holder
    <3>2. turns[lock.turn].input = {lock.message}
      BY <3>1, TurnAssumption DEF Places, NamesTrue, AnswersHeld, Submits
    <3> QED BY <1>5, <2>1, <3>1, <3>2 DEF StartAnswered
  <2> DEFINE D == Delivered(messages, lock.message, "accepted_by_codex", lock.turn)
  <2>3. messages' = CompletedTurn(D, t)
    BY <1>5, <2>1 DEF StartAnswered, Drained
  <2>4. Delivers(D, messages, lock.message, "accepted_by_codex", lock.turn)
    BY <1>0, <2>1, <2>2, DeliveredRow DEF DeliveryState, Open, Active
  <2> HIDE DEF D
  <2> QED BY <2>1, <2>2, <2>3, <2>4, TurnAssumption DEF CompletedTurn, Delivers, Row,
             Open, Active, Final
<1>6. CASE ~(ProjectCompletion \/ StartAnswered) /\ \A n \in Message : ~RecoverMessage(n)
  <2>1. receipts' = receipts
    BY <1>6 DEF Next, Person, Send, SendGuide, Edit, Cancel, MoveToGuide, Retry,
       Stop, StopRecord, StopRequest, Tick, TickStart, ListDispatch, TickEnd,
       SkipListed, Dispatch, GuideFails, DispatchGuide, Submission, BeginSubmission,
       StartUnanswered, SteerAnswered, SteerRefused, SteerUnanswered, Receipts,
       ScanReceipt, AcceptReceipt, Projector, ProjectUnmapped, LoadDelta, ApplyDelta,
       Recovery, RecoverDue, RecoverDrained, RecoverStart, RecoverDone, RecoverAbort, Runtime,
       Take, TurnStart, TurnSteer, StreamDelta, FinishTurn, Fault, ListedFails,
       PrepareFails, SaveFails, RuntimeDies, Crash
  <2> QED BY <1>1, <2>1
<1> QED BY <1>1, <1>3, <1>4, <1>5, <1>6

(* A message that becomes active on a turn that is over ...                *)
LEMMA EndsNew ==
    ASSUME IInv, IInv', Places, EndsKnown, Submission \/ Receipts,
           NEW m \in Message, messages'[m].state \in Active,
           Over(messages'[m].turn)
    PROVE  /\ Noticed(messages'[m].turn) \/ ~alive \/ ingestion'.requested
              \/ (messages[m].state \in Active /\ messages'[m].turn = messages[m].turn)
           /\ UNCHANGED <<inbox, alive, turns>>
<1> USE DEF store, daemon, runtime
<1>0. messages \in [Message -> Row] /\ ingestion \in Task
  BY DEF IInv, TypeOK
<1>1. UNCHANGED <<inbox, alive, turns>>
  BY DEF Submission, BeginSubmission, StartAnswered, StartUnanswered, SteerAnswered,
     SteerRefused, SteerUnanswered, Receipts, ScanReceipt, AcceptReceipt
<1> DEFINE Stays == messages[m].state \in Active /\ messages'[m].turn = messages[m].turn
<1>2. CASE Receipts
  <2>1. ASSUME NEW n \in Message, AcceptReceipt(n) PROVE ingestion'.requested \/ Stays
    <3>1. CASE Ambiguous(n)
      BY <1>0, <2>1, <3>1 DEF AcceptReceipt, Task
    <3> QED BY <2>1, <3>1 DEF AcceptReceipt
  <2> QED BY <1>1, <1>2, <2>1 DEF Receipts, ScanReceipt
<1>3. CASE StartAnswered \/ SteerAnswered
  <2>1. lock.message \in Message /\ lock.turn \in Turn /\ Submits
    BY <1>3 DEF StartAnswered, SteerAnswered, Dispatching, Submits, IInv, TypeOK, Holder
  <2> DEFINE D == Delivered(messages, lock.message, "accepted_by_codex", lock.turn)
  <2>2. Delivers(D, messages, lock.message, "accepted_by_codex", lock.turn)
    BY <1>0, <2>1, DeliveredRow DEF DeliveryState, Open, Active
  <2>3. \A n \in Message : /\ messages'[n].turn = D[n].turn
                           /\ n # lock.message /\ messages'[n].state \in Active
                              => D[n].state \in Active
    <3>1. \/ messages' = D \/ messages' = CompletedTurn(D, lock.turn)
          \/ messages' = Delivered(D, lock.message, "streaming", lock.turn)
      BY <1>3 DEF StartAnswered, SteerAnswered, Drained
    <3>2. D \in [Message -> Row] /\ D[lock.message].turn = lock.turn
      BY <2>1, <2>2, TurnAssumption DEF Delivers
    <3> HIDE DEF D
    <3>3. CASE messages' = CompletedTurn(D, lock.turn)
      BY <3>2, <3>3 DEF CompletedTurn, Row, Active
    <3>4. CASE messages' = Delivered(D, lock.message, "streaming", lock.turn)
      BY <2>1, <3>2, <3>4 DEF Delivered, Row
    <3> QED BY <3>1, <3>3, <3>4
  <2> HIDE DEF D
  <2>4. CASE m = lock.message
    <3>1. messages'[m].turn = lock.turn
      BY <2>1, <2>2, <2>3, <2>4, TurnAssumption DEF Delivers
    <3> QED BY <1>1, <2>1, <3>1, TurnAssumption DEF EndsKnown, AnswerAwaited
  <2>5. CASE m # lock.message
    BY <1>1, <2>2, <2>3, <2>5 DEF Delivers
  <2> QED BY <2>4, <2>5
<1>4. CASE Submission /\ ~(StartAnswered \/ SteerAnswered)
  <2>1. Stays
    <3>1. lock.message \in Message
      BY <1>4 DEF Submission, BeginSubmission, StartUnanswered, SteerRefused,
         SteerUnanswered, Dispatching, IInv, TypeOK
    <3>2. CASE BeginSubmission
      BY <1>0, <3>1, <3>2 DEF BeginSubmission, Row
    <3>3. messages' = Delivered(messages, lock.message, "uncertain", NoTurn)
          \/ BeginSubmission
      BY <1>4 DEF Submission, StartUnanswered, SteerRefused, SteerUnanswered
    <3>4. CASE messages' = Delivered(messages, lock.message, "uncertain", NoTurn)
      BY <1>0, <3>1, <3>4 DEF Delivered, Row, Active
    <3> QED BY <3>2, <3>3, <3>4
  <2> QED BY <1>1, <2>1
<1> QED BY <1>2, <1>3, <1>4

(* ... has its notice, its recovery, or is no longer active.               *)
LEMMA EndsStep ==
    ASSUME IInv, IInv', Places, Next, Orderly, EndsKnown
    PROVE  EndsAwaited'
<1> USE DEF store, daemon, runtime
<1> SUFFICES ASSUME NEW m \in Message, messages'[m].state \in Active,
                    NEW t, messages'[m].turn = t, Over(t)'
             PROVE  Awaits(m)'
  BY DEF EndsAwaited, Over
<1>0. /\ messages \in [Message -> Row] /\ TypeOK /\ ingestion \in Task /\ t \in Turn
  BY DEF IInv, TypeOK, RowsSafe, ActiveOnTurn
<1>1. CASE ~Over(t)
  <2>1. Noticed(t)' \/ ~alive'
    BY <1>0, <1>1, EndNoticed
  <2> QED BY <2>1 DEF Awaits
<1>2. ASSUME Over(t), Submission \/ Receipts
      PROVE  Awaits(m)'
  <2>1. /\ \/ Noticed(t) \/ ~alive \/ ingestion'.requested
           \/ (messages[m].state \in Active /\ t = messages[m].turn)
        /\ UNCHANGED <<inbox, alive, turns>>
    BY <1>2, EndsNew
  <2>2. /\ ingestion.requested => ingestion'.requested
        /\ ingestion'.pc = ingestion.pc /\ ingestion'.todo = ingestion.todo
    <3>1. \/ ingestion' = ingestion
          \/ ingestion' = [ingestion EXCEPT !.requested = TRUE, !.recovering = TRUE]
      BY <1>2 DEF Submission, BeginSubmission, StartAnswered, StartUnanswered,
         SteerAnswered, SteerRefused, SteerUnanswered, Receipts, ScanReceipt, AcceptReceipt
    <3> QED BY <1>0, <3>1 DEF Task
  <2>3. messages[m].state \in Active /\ t = messages[m].turn => Awaits(m)
    BY <1>2 DEF EndsKnown, EndsAwaited
  <2>4. Noticed(t) => Noticed(t)'
    BY <2>1 DEF Noticed
  <2> QED BY <2>1, <2>2, <2>3, <2>4 DEF Awaits
<1>3. ASSUME Over(t), ~Submission, ~Receipts
      PROVE  Awaits(m)'
  <2>1. messages[m].state \in Active /\ messages[m].turn = t
    BY <1>3, ActiveStays
  <2>2. Awaits(m)
    BY <1>3, <2>1 DEF EndsKnown, EndsAwaited
  <2>3. m \in turns[t].input
    BY <1>0, <2>1, TurnAssumption DEF Places, NamesTrue, TurnsShown
  <2>4. t \notin receipts
    BY <2>1, <2>3 DEF EndsKnown, AppliedOnce, Active, Final
  <2>5. CASE Projector
    <3>1. UNCHANGED <<ingestion, alive>>
      BY <2>5 DEF Projector, ProjectUnmapped, ProjectCompletion, LoadDelta, ApplyDelta
    <3>2. ~(inbox' # inbox /\ Head(inbox).kind = "completed" /\ Head(inbox).turn = t)
      <4>1. CASE ProjectUnmapped
        BY <2>1, <4>1 DEF ProjectUnmapped, MappedTo
      <4>2. CASE ProjectCompletion
        <5> SUFFICES ASSUME Head(inbox).turn = t PROVE FALSE
          BY <4>2
        <5>1. messages' = CompletedTurn(messages, t)
          BY <2>4, <4>2 DEF ProjectCompletion, ApplyCompletion
        <5> QED BY <1>0, <2>1, <5>1 DEF CompletedTurn, Open, Active, Row
      <4>3. ASSUME NEW n \in Message, LoadDelta(n) PROVE Head(inbox).kind = "delta"
        BY <4>3 DEF LoadDelta, Pending
      <4>4. CASE ApplyDelta
        BY <4>4 DEF ApplyDelta, EndsKnown, DeltaNext
      <4> QED BY <2>5, <4>1, <4>2, <4>3, <4>4 DEF Projector
    <3>3. Noticed(t) => Noticed(t)'
      <4>1. inbox' = inbox \/ (inbox # <<>> /\ inbox' = Tail(inbox))
        BY <2>5 DEF Projector, ProjectUnmapped, ProjectCompletion, LoadDelta, ApplyDelta,
           Pending, IInv, HoldersKnow, DeltaHeld
      <4> QED BY <1>0, <3>2, <4>1, NoticedStays
    <3> QED BY <2>1, <2>2, <3>1, <3>3 DEF Awaits
  <2>6. CASE ~Projector
    <3>1. inbox' = inbox \/ \E u, k : inbox' = Append(inbox, [kind |-> k, turn |-> u])
      <4>1. CASE Stop
        BY <4>1 DEF Stop, StopRecord, StopRequest
      <4>2. CASE Runtime
        BY <4>2 DEF Runtime, Take, TurnStart, TurnSteer, StreamDelta, FinishTurn
      <4> QED BY <1>3, <2>6, <4>1, <4>2 DEF Next, Person, Send, SendGuide, Edit, Cancel,
               MoveToGuide, Retry, Tick, TickStart, ListDispatch, TickEnd, SkipListed,
               Dispatch, GuideFails, DispatchGuide, Recovery, RecoverDue, RecoverDrained, RecoverStart,
               RecoverDone, RecoverAbort, RecoverMessage, Fault, ListedFails,
               PrepareFails, SaveFails, RuntimeDies, Crash
    <3>2. Noticed(t) => Noticed(t)'
      BY <1>0, <3>1, NoticedStays
    <3>3. CASE Recovery
      <4>1. CASE RecoverDue \/ RecoverDrained \/ RecoverAbort
        <5>1. ingestion'.pc \in {"due", "starting"}
          BY <1>0, <4>1 DEF RecoverDue, RecoverDrained, RecoverAbort, Task
        <5> QED BY <5>1 DEF Awaits
      <4>2. CASE RecoverStart
        <5>1. messages[m].turn # NoTurn /\ messages[m].state \in Open
          BY <1>0, <2>1, TurnAssumption DEF Open
        <5>2. m \in ingestion'.todo /\ ingestion'.pc = "reading"
          BY <1>0, <4>2, <5>1 DEF RecoverStart, Task
        <5> QED BY <5>2 DEF Awaits
      <4>3. CASE RecoverDone
        <5>1. Noticed(t) \/ ingestion.requested
          BY <2>1, <2>2, <4>3 DEF RecoverDone, Awaits
        <5>2. ingestion.requested => ingestion'.requested
          BY <1>0, <4>3 DEF RecoverDone, Task
        <5> QED BY <3>2, <5>1, <5>2 DEF Awaits
      <4>4. ASSUME NEW n \in Message, RecoverMessage(n) PROVE Awaits(m)'
        <5>1. m # n
          <6> SUFFICES ASSUME m = n PROVE FALSE
            OBVIOUS
          <6>1. CASE turns[t].status = "completed"
            <7>1. messages' = CompletedTurn(messages, t)
              BY <2>1, <2>4, <4>4, <6>1 DEF RecoverMessage, ApplyCompletion
            <7> QED BY <1>0, <2>1, <7>1 DEF CompletedTurn, Open, Active, Row
          <6>2. CASE turns[t].status # "completed"
            <7>1. messages' = UncertainTurn(messages, t)
              BY <1>3, <2>1, <4>4, <6>2 DEF RecoverMessage, Over
            <7> QED BY <1>0, <2>1, <7>1 DEF UncertainTurn, Open, Active, Row
          <6> QED BY <6>1, <6>2
        <5>2. /\ alive' = alive /\ ingestion'.pc = ingestion.pc
              /\ ingestion'.requested = ingestion.requested
              /\ ingestion'.todo = ingestion.todo \ {n}
          BY <1>0, <4>4 DEF RecoverMessage, Task
        <5> QED BY <2>1, <2>2, <3>2, <5>1, <5>2 DEF Awaits
      <4> QED BY <3>3, <4>1, <4>2, <4>3, <4>4 DEF Recovery
    <3>4. CASE ~Recovery
      <4>1. ~alive' \/ UNCHANGED <<alive, ingestion>>
        BY ZenonT(30), <1>3, <2>6, <3>4 DEF Next, Person, Send, SendGuide, Edit, Cancel, MoveToGuide,
           Retry, Stop, StopRecord, StopRequest, Tick, TickStart, ListDispatch, TickEnd,
           SkipListed, Dispatch, GuideFails, DispatchGuide, Runtime, Take, TurnStart,
           TurnSteer, StreamDelta, FinishTurn, Fault, ListedFails, PrepareFails,
           SaveFails, RuntimeDies, Crash
      <4> QED BY <2>1, <2>2, <3>2, <4>1 DEF Awaits
    <3> QED BY <3>3, <3>4
  <2> QED BY <2>5, <2>6
<1> QED BY <1>1, <1>2, <1>3

LEMMA EndsKnownStep ==
    ASSUME IInv, IInv', Places, Next, Orderly, EndsKnown
    PROVE  EndsKnown'
BY EndsStep, AnswerStep, AppliedStep, DeltaNextStep, RecoveringStep DEF EndsKnown

LEMMA EndsKnownFacts ==
    ASSUME IInv, Places, EndsKnown
    PROVE  Reconciled
<1> SUFFICES ASSUME Settled, NEW m \in Message, messages[m].state \in Active
             PROVE  turns[messages[m].turn].status = "running"
  BY DEF Reconciled
<1>1. messages[m].turn \in Turn /\ m \in turns[messages[m].turn].input
  BY TurnAssumption DEF IInv, RowsSafe, ActiveOnTurn, Places, NamesTrue, TurnsShown
<1>2. ~Awaits(m)
  <2>1. alive /\ ~ingestion.recovering /\ ~ingestion.requested /\ inbox = <<>>
    BY DEF Settled, Ready
  <2>2. ingestion.pc = "off"
    BY <2>1 DEF EndsKnown, RecoveringShown
  <2>3. ~Noticed(messages[m].turn)
    BY <2>1 DEF Noticed
  <2> QED BY <2>1, <2>2, <2>3 DEF Awaits
<1>3. ~Over(messages[m].turn)
  BY <1>2 DEF EndsKnown, EndsAwaited
<1>4. turns[messages[m].turn].status # "unused"
  BY <1>1 DEF Places, TurnsTrue, UnusedEmpty
<1> QED BY <1>1, <1>3, <1>4 DEF Over, IInv, TypeOK, History

LEMMA InitEnds == Init => EndsKnown
BY DEF Init, EndsKnown, EndsAwaited, AnswerAwaited, AppliedOnce, DeltaNext,
   RecoveringShown, Active, Unlocked, Submits

LEMMA EndsStutter ==
    ASSUME EndsKnown, UNCHANGED vars
    PROVE  EndsKnown'
<1> USE DEF vars
<1>1. EndsAwaited'
  BY DEF EndsKnown, EndsAwaited, Over, Awaits, Noticed
<1>2. AnswerAwaited' /\ AppliedOnce' /\ DeltaNext' /\ RecoveringShown'
  BY DEF EndsKnown, AnswerAwaited, AppliedOnce, DeltaNext, RecoveringShown, Over,
     Noticed, Submits
<1> QED BY <1>1, <1>2 DEF EndsKnown

(* As long as nothing has failed, no message counts as active on a turn    *)
(* that has ended once the daemon has nothing left to project: every end   *)
(* of a turn is in the inbox before its messages count on it.              *)
THEOREM ReconciledCalm == Spec => [](Calm => Reconciled)
<1>1. Init => (Calm => EndsKnown)
  BY InitEnds
<1>2. /\ IInv /\ IInv' /\ Places /\ (Calm => Known) /\ (Calm => EndsKnown) /\ [Next]_vars
      => (Calm => EndsKnown)'
  <2> SUFFICES ASSUME IInv, IInv', Places, Calm => Known, Calm => EndsKnown,
                      [Next]_vars, Calm'
               PROVE  EndsKnown'
    OBVIOUS
  <2>1. Calm /\ Known /\ EndsKnown
    BY FaultsCounted
  <2>2. faults' = faults
    BY <2>1 DEF Calm
  <2>3. Next => Orderly
    BY <2>1, <2>2, OrderlyCalm
  <2> QED BY <2>1, <2>3, EndsKnownStep, EndsStutter
<1>3. IInv /\ Places /\ (Calm => EndsKnown) => (Calm => Reconciled)
  BY EndsKnownFacts
<1> QED BY <1>1, <1>2, <1>3, CalmAlways, PlacesAlways, PTL DEF Spec

(* Without Guides and deltas it holds whatever is lost, fails or restarts: *)
(* the recovery reads the turn of every message that is still open.        *)
THEOREM ReconciledPlain ==
    ASSUME Guidable = {}, Streaming = {}
    PROVE  Spec => []Reconciled
<1>1. Init => EndsKnown
  BY InitEnds
<1>2. /\ IInv /\ IInv' /\ Places /\ PlainRun /\ EndsKnown /\ [Next]_vars => EndsKnown'
  <2> SUFFICES ASSUME IInv, IInv', Places, PlainRun, EndsKnown, [Next]_vars
               PROVE  EndsKnown'
    OBVIOUS
  <2>1. Orderly
    BY OrderlyPlain DEF PlainRun
  <2> QED BY <2>1, EndsKnownStep, EndsStutter
<1>3. IInv /\ Places /\ EndsKnown => Reconciled
  BY EndsKnownFacts
<1> QED BY <1>1, <1>2, <1>3, PlainAlways, PTL DEF Spec

LEMMA InitTold == Init => Promise!Init
<1> SUFFICES ASSUME Init PROVE Promise!Init
  OBVIOUS
<1>1. \A m \in Message : messages[m].state = "unsent" /\ taken[m] = <<>>
  BY DEF Init
<1>2. \A m \in Message : ReceiptOf(m) = "unsent" /\ Len(taken[m]) = 0
  BY <1>1 DEF ReceiptOf, Open, Active, Final
<1> QED BY <1>2 DEF Promise!Init

(* A person is told the truth in every step: a message runs at most once,  *)
(* never while it is held, and is closed for good - unless a delta that    *)
(* was loaded before its turn was completed is applied after it.           *)
THEOREM PromiseButLate ==
    Spec => Promise!Init
            /\ [][\A m \in Message : Promise!Move(m) \/ LateArrival(m)]_vars
<1>1. Init => Promise!Init
  BY InitTold
<1>2. IInv /\ IInv' /\ Places /\ Places' /\ [Next]_vars
      => [\A m \in Message : Promise!Move(m) \/ LateArrival(m)]_vars
  <2> SUFFICES ASSUME IInv, IInv', Places, Places', Next, NEW m \in Message,
                      ~LateArrival(m)
               PROVE  Promise!Move(m)
    OBVIOUS
  <2>1. ReceiptMoves(m)
    BY ReceiptStep
  <2> QED BY <2>1 DEF ReceiptMoves, Told, Promise!Move, Promise!Accept, Promise!Withdraw,
             Promise!Submit, Promise!GiveBack, Promise!Run, Promise!Confirm,
             Promise!Settle, Promise!Close, Promise!Rest, Promise!Told, Promise!NoRun
<1> QED BY <1>1, <1>2, PlacesAlways, PTL DEF Spec

(* Without deltas, or as long as nothing fails, Delivery implements        *)
(* DeliveryPromise.                                                        *)
THEOREM PromiseKept ==
    ASSUME Streaming = {} \/ MaxFaults = 0
    PROVE  Spec => KeepsPromise
<1>1. Init => Promise!Init
  BY InitTold
<1>2. /\ IInv /\ IInv' /\ Places /\ Places' /\ PlainRun /\ (Calm => Known)
      /\ [Next]_vars
      => [Promise!Next]_<<[m \in Message |-> ReceiptOf(m)],
                          [m \in Message |-> Len(taken[m])]>>
  <2> SUFFICES ASSUME IInv, IInv', Places, Places', PlainRun, Calm => Known, [Next]_vars
               PROVE  [Promise!Next]_<<[m \in Message |-> ReceiptOf(m)],
                                       [m \in Message |-> Len(taken[m])]>>
    OBVIOUS
  <2>1. ASSUME NEW m \in Message, LateArrival(m) PROVE FALSE
    <3>1. ApplyDelta /\ messages[lock.message].state = "completed"
      BY <2>1 DEF LateArrival, Becomes
    <3>2. CASE Streaming = {}
      BY <3>1, <3>2 DEF ApplyDelta, PlainRun, NoDeltas
    <3>3. CASE MaxFaults = 0
      <4>1. Calm
        BY <3>3 DEF Calm, IInv, TypeOK
      <4> QED BY <3>1, <4>1 DEF ApplyDelta, Known, Calmly, CalmPlaces, CalmHolder, Active
    <3> QED BY <3>2, <3>3
  <2> QED BY <2>1, PromiseStep
<1> QED BY <1>1, <1>2, PlacesAlways, PlainAlways, CalmAlways, PTL
        DEF Spec, KeepsPromise, Promise!Spec
=============================================================================
