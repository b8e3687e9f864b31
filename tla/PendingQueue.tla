---------------------------- MODULE PendingQueue ----------------------------
(***************************************************************************)
(* The messages that wait in one conversation, and the phones that edit,   *)
(* cancel and reorder them from lists they fetched earlier.                *)
(*                                                                         *)
(* A waiting message has a position; its place in the queue is the order   *)
(* of (position, created_at, id), and a message is its creation order      *)
(* here.  Every change of a waiting message bumps its revision, and a      *)
(* phone's request names the revisions it has seen.  What happens to a     *)
(* message that was claimed is module Delivery's; here it only has an      *)
(* outcome.                                                                *)
(***************************************************************************)
EXTENDS Integers, FiniteSets

CONSTANTS
    Message,   \* messages of one conversation, numbered by created_at
    Wake,      \* reports of finished child threads: sent but never listed
    Followup,  \* the daemon's own follow-ups after a folder approval
    Device,    \* the phones of the owner
    MaxText,     \* bound: edits of one message
    MaxRevision, \* bound: revisions of one message
    MaxLists,    \* bound: lists the phones fetch
    MaxReplies   \* bound: lists on their way to one phone

ASSUME MessageAssumption == Message \subseteq Nat /\ IsFiniteSet(Message)
ASSUME HiddenAssumption == Wake \subseteq Message /\ Followup \subseteq Message
ASSUME BoundAssumption == /\ MaxText \in Nat /\ MaxRevision \in Nat
                          /\ MaxLists \in Nat /\ MaxReplies \in Nat

VARIABLES
    rows,    \* the messages table, with dispatch_work and guide_work
    replies, \* lists answered by the daemon, not yet with the phone
    seen,    \* the list each phone shows
    kept,    \* history: the items a phone kept when its list arrived late
    lists    \* lists the phones may still fetch

phones == <<replies, seen, kept, lists>>
vars == <<rows, replies, seen, kept, lists>>

-----------------------------------------------------------------------------
(* "waiting" is accepted_by_wonder with dispatch work, "guide" a message   *)
(* with guide work that is not on its turn, "sending"                      *)
(* dispatching_to_codex, "running" accepted or streaming, "held"           *)
(* safe_to_retry or failed.                                                *)
MessageState == {"unsent", "waiting", "guide", "sending", "running", "held",
                 "uncertain", "ended"}

Row == [state : MessageState, position : Int, revision : Nat, text : Nat]
Item == [listed : BOOLEAN, revision : Nat, text : Nat, place : Nat]
List == [Message -> Item]

Blank == [listed |-> FALSE, revision |-> 0, text |-> 0, place |-> 0]

Waiting(m) == rows[m].state = "waiting"
Queue == {m \in Message : Waiting(m)}
Busy(m) == \E n \in Message \ {m} : rows[n].state \in {"sending", "running"}

Before(m, n) == \/ rows[m].position < rows[n].position
                \/ rows[m].position = rows[n].position /\ m < n

First(m) == \A n \in Queue \ {m} : Before(m, n)

(* behind_work: what is sent or answered, or an earlier waiting message. *)
Behind(m) == Busy(m) \/ \E n \in Queue \ {m} : Before(n, m)

(* pending_queue and the daemon's list: the message that is next to be     *)
(* sent counts as sent, unless the Mac holds the Project chat.             *)
Listed(onMac) == {m \in Queue \ (Wake \cup Followup) : Behind(m) \/ onMac}

Current(onMac) ==
    LET shown == Listed(onMac)
    IN  [m \in Message |->
            IF m \in shown
            THEN [listed |-> TRUE, revision |-> rows[m].revision,
                  text |-> rows[m].text,
                  place |-> Cardinality({n \in shown \ {m} : Before(n, m)})]
            ELSE Blank]

-----------------------------------------------------------------------------
Init ==
    /\ rows = [m \in Message |-> [state |-> "unsent", position |-> 0,
                                  revision |-> 1, text |-> 0]]
    /\ replies = [d \in Device |-> {}]
    /\ seen = [d \in Device |-> [m \in Message |-> Blank]]
    /\ kept = [d \in Device |-> {}]
    /\ lists = MaxLists

-----------------------------------------------------------------------------
(* New work.  Messages and wake-ups go to the end of the queue; a          *)
(* follow-up is inserted without a position.                               *)

NextInOrder(m) == /\ rows[m].state = "unsent"
                  /\ \A n \in Message : n < m => rows[n].state # "unsent"

(* insert_work_message: COALESCE(MAX(queue_position), -1) + 1 *)
Send(m) ==
    /\ NextInOrder(m) /\ m \notin Followup
    /\ \E p \in {0} \cup {rows[n].position + 1 : n \in Queue} :
          /\ IF Queue = {} THEN p = 0
             ELSE /\ \A n \in Queue : rows[n].position < p
                  /\ \E n \in Queue : rows[n].position + 1 = p
          /\ rows' = [rows EXCEPT ![m].state = "waiting", ![m].position = p]
    /\ UNCHANGED phones

(* approve_bot_folder *)
FollowUp(m) ==
    /\ NextInOrder(m) /\ m \in Followup
    /\ rows' = [rows EXCEPT ![m].state = "waiting"]
    /\ UNCHANGED phones

-----------------------------------------------------------------------------
(* A phone asks for the list; the answer arrives later.                    *)

Ask(d) ==
    /\ lists > 0 /\ Cardinality(replies[d]) < MaxReplies
    /\ lists' = lists - 1
    /\ \E onMac \in BOOLEAN :
          replies' = [replies EXCEPT ![d] = @ \cup {Current(onMac)}]
    /\ UNCHANGED <<rows, seen, kept>>

(* loadQueue: an item the phone knows in a newer revision is kept, at the  *)
(* place the list that arrives has for it.                                 *)
Newer(old, new) ==
    {m \in Message : /\ new[m].listed /\ old[m].listed
                     /\ old[m].revision > new[m].revision}

Merged(old, new) ==
    [m \in Message |-> IF m \in Newer(old, new)
                       THEN [old[m] EXCEPT !.place = new[m].place]
                       ELSE new[m]]

Show(d) ==
    \E reply \in replies[d] :
        /\ seen' = [seen EXCEPT ![d] = Merged(seen[d], reply)]
        /\ kept' = [kept EXCEPT ![d] = Newer(seen[d], reply)]
        /\ replies' = [replies EXCEPT ![d] = @ \ {reply}]
        /\ UNCHANGED <<rows, lists>>

-----------------------------------------------------------------------------
(* A phone's requests, made from what it shows.  A request that names an   *)
(* old revision, or a message that does not wait any more, is refused and  *)
(* changes nothing; one that is under way while the phone's list changes   *)
(* is refused or would be made from the newer list as well.                *)

ShownTo(d) == {m \in Message : seen[d][m].listed}

Matches(d, m) == /\ m \in ShownTo(d) /\ Waiting(m)
                 /\ rows[m].revision = seen[d][m].revision
                 /\ rows[m].revision < MaxRevision

\* Variant: an edit leaves the revision alone.
EditQuietly(d, m) ==
    /\ Matches(d, m) /\ m \notin Followup /\ rows[m].text < MaxText
    /\ rows' = [rows EXCEPT ![m].text = @ + 1]
    /\ UNCHANGED phones

Edit(d, m) ==
    /\ Matches(d, m) /\ m \notin Followup /\ rows[m].text < MaxText
    /\ rows' = [rows EXCEPT ![m].text = @ + 1, ![m].revision = @ + 1]
    /\ UNCHANGED phones

(* update_pending_execution_bot: the model, effort and access it runs with *)
(* are part of what the owner decided, hence of "text".                    *)
EditSettings(d, m) ==
    /\ Matches(d, m) /\ rows[m].text < MaxText
    /\ rows' = [rows EXCEPT ![m].text = @ + 1, ![m].revision = @ + 1]
    /\ UNCHANGED phones

Cancel(d, m) ==
    /\ Matches(d, m) /\ m \notin Followup
    /\ rows' = [rows EXCEPT ![m].state = "ended", ![m].revision = @ + 1]
    /\ UNCHANGED phones

MoveToGuide(d, m) ==
    /\ Matches(d, m) /\ m \notin Followup
    /\ \E n \in Message : rows[n].state = "running"
    /\ rows' = [rows EXCEPT ![m].state = "guide", ![m].revision = @ + 1]
    /\ UNCHANGED phones

(* reorder_pending counts the wake-ups that no phone is shown, and the     *)
(* message that is next to be sent.                                        *)
Reorderable == Queue \ Followup

Accepts(d) == /\ ShownTo(d) = Reorderable
              /\ \A m \in Reorderable : rows[m].revision = seen[d][m].revision

Orders(S) == {f \in [S -> 0..(Cardinality(S) - 1)] :
                 \A m, n \in S : m # n => f[m] # f[n]}

\* Variant: reordering leaves the revisions alone.
ReorderQuietly(d) ==
    /\ Cardinality(ShownTo(d)) > 1 /\ Accepts(d)
    /\ \E place \in Orders(ShownTo(d)) :
          rows' = [m \in Message |->
                      IF m \in ShownTo(d)
                      THEN [rows[m] EXCEPT !.position =
                                place[m] - Cardinality(ShownTo(d))]
                      ELSE rows[m]]
    /\ UNCHANGED phones

Reorder(d) ==
    /\ Cardinality(ShownTo(d)) > 1 /\ Accepts(d)
    /\ \A m \in ShownTo(d) : rows[m].revision < MaxRevision
    /\ \E place \in Orders(ShownTo(d)) :
          rows' = [m \in Message |->
                      IF m \in ShownTo(d)
                      THEN [rows[m] EXCEPT
                                !.position = place[m] - Cardinality(ShownTo(d)),
                                !.revision = @ + 1]
                      ELSE rows[m]]
    /\ UNCHANGED phones

-----------------------------------------------------------------------------
(* The dispatch loop, and what becomes of a claimed message.               *)

Becomes(m, s) == /\ rows' = [rows EXCEPT ![m].state = s]
                 /\ UNCHANGED phones

\* Variant: only the state of the message itself is looked at.
ClaimAny(m) == Waiting(m) /\ ~Busy(m) /\ Becomes(m, "sending")

(* The check that the Mac does not hold the chat comes earlier and may be  *)
(* out of date when the message is claimed.                                *)
Claim(m) == Waiting(m) /\ First(m) /\ ~Busy(m) /\ Becomes(m, "sending")

Answered(m)   == rows[m].state = "sending" /\ Becomes(m, "running")
Unprepared(m) == rows[m].state = "sending" /\ Becomes(m, "held")
GivenBack(m)  == rows[m].state = "sending" /\ Becomes(m, "waiting")
Lost(m)       == rows[m].state \in {"sending", "running"} /\ Becomes(m, "uncertain")
Found(m)      == rows[m].state = "uncertain" /\ Becomes(m, "running")
Ended(m)      == rows[m].state = "running" /\ Becomes(m, "ended")
Steered(m)    == /\ rows[m].state = "guide"
                 /\ \E s \in {"running", "uncertain"} : Becomes(m, s)
Retry(m)      == rows[m].state = "held" /\ Becomes(m, "waiting")

-----------------------------------------------------------------------------
Arrival(m) == Send(m) \/ FollowUp(m)
Phone(d) == \/ Ask(d) \/ Show(d) \/ Reorder(d)
            \/ \E m \in Message : \/ Edit(d, m) \/ EditSettings(d, m)
                                  \/ Cancel(d, m) \/ MoveToGuide(d, m)
Outcome(m) == \/ Claim(m) \/ Answered(m) \/ Unprepared(m) \/ GivenBack(m)
              \/ Lost(m) \/ Found(m) \/ Ended(m)
              \/ Steered(m) \/ Retry(m)

Next == \/ \E m \in Message : Arrival(m) \/ Outcome(m)
        \/ \E d \in Device : Phone(d)

Spec == Init /\ [][Next]_vars

-----------------------------------------------------------------------------
TypeOK == /\ rows \in [Message -> Row]
          /\ replies \in [Device -> SUBSET List]
          /\ seen \in [Device -> List] /\ kept \in [Device -> SUBSET Message]
          /\ lists \in 0..MaxLists

(* A phone that names the current revision of a message has seen its       *)
(* current text and settings: of two phones that change the same message,  *)
(* neither overwrites a change it has not seen.                            *)
NoBlindEdit ==
    \A d \in Device, m \in Message :
        Matches(d, m) => seen[d][m].text = rows[m].text

(* A reordering is accepted only from a phone that shows the order the     *)
(* queue has, in whatever order the lists arrive.  The exception is the    *)
(* code's own: an item that loadQueue kept from a newer list, because an   *)
(* older GET finished later, stands where the older list has it, and its   *)
(* current revision lets the phone reorder all the same.                   *)
NoBlindReorder ==
    \A d \in Device :
        Accepts(d) => \A m, n \in ShownTo(d) \ kept[d] :
                          seen[d][m].place < seen[d][n].place => Before(m, n)

(* "The queue changed. Refresh before reordering." is what a refused phone *)
(* is told: a phone that shows the list as it is now may reorder it.       *)
CurrentListReorders ==
    \A d \in Device, onMac \in BOOLEAN :
        seen[d] = Current(onMac) /\ Cardinality(ShownTo(d)) > 1 => Accepts(d)

(* What the owner thinks of as the list: see QueueOrder.                   *)
In(S)     == {m \in Message : rows[m].state \in S}
Ahead     == {p \in Queue \X Queue : Before(p[1], p[2])}
Arrived   == In(MessageState \ {"unsent"})
InWork    == In({"sending", "running"})
MayReturn == In({"sending", "held"})

(* Whatever the positions are, the table is a list: work is taken from its *)
(* front, new messages go to its end, and only a reordering exchanges two  *)
(* messages that keep waiting.                                             *)
Order == INSTANCE QueueOrder
            WITH Unordered <- Followup, queue <- Queue, ahead <- Ahead,
                 arrived <- Arrived, busy <- InWork, back <- MayReturn
KeepsOrder == Order!Spec
=============================================================================
