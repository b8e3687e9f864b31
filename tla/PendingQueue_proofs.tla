------------------------- MODULE PendingQueue_proofs -------------------------
(***************************************************************************)
(* What holds of PendingQueue for any number of messages, phones and       *)
(* changes.                                                                *)
(*                                                                         *)
(* NoBlindEdit alone is not inductive: a list on its way to a phone could  *)
(* hold anything.  The invariant ListsTrue adds that every list, shown or  *)
(* on its way, is one the queue really had: no revision is ahead of the    *)
(* table, and the same revision means the same text.  For NoBlindReorder,  *)
(* PlacesTrue adds the order a list shows; of the list a phone shows it    *)
(* speaks of the items that came with that list, not of those kept from a  *)
(* newer one.                                                              *)
(*                                                                         *)
(* That the table is the list of QueueOrder needs the types alone:         *)
(* positions may be negative, may leave gaps and may be shared (a          *)
(* follow-up has none of its own), but (position, creation) orders the     *)
(* waiting messages.                                                       *)
(***************************************************************************)
EXTENDS PendingQueue, FiniteSetTheorems, TLAPS

TrueOf(list) ==
    \A m \in Message :
        list[m].listed => /\ list[m].revision <= rows[m].revision
                          /\ list[m].revision = rows[m].revision
                             => list[m].text = rows[m].text

ListsTrue == \A d \in Device : /\ TrueOf(seen[d])
                               /\ \A list \in replies[d] : TrueOf(list)

IInv == TypeOK /\ ListsTrue

-----------------------------------------------------------------------------
(* What a phone is sent is typed and true of the table. *)
LEMMA CurrentList ==
    ASSUME TypeOK, NEW onMac \in BOOLEAN
    PROVE  Current(onMac) \in List /\ TrueOf(Current(onMac))
<1>1. ASSUME NEW m \in Message
      PROVE  Cardinality({n \in Listed(onMac) \ {m} : Before(n, m)}) \in Nat
  <2> DEFINE S == {n \in Listed(onMac) \ {m} : Before(n, m)}
  <2>1. S \subseteq Message
    BY DEF Listed, Queue
  <2>2. IsFiniteSet(S)
    BY <2>1, FS_Subset, MessageAssumption
  <2> QED
    BY <2>2, FS_CardinalityType
<1>2. \A m \in Message : Current(onMac)[m] \in Item
  BY <1>1, SMT DEF Current, Blank, Item, TypeOK, Row
<1>3. Current(onMac) \in List
  BY <1>2 DEF Current, List
<1>4. TrueOf(Current(onMac))
  BY SMT DEF TrueOf, Current, Blank, TypeOK, Row
<1> QED
  BY <1>3, <1>4

(* A step that changes no text without a new revision keeps lists true. *)
LEMMA RowsStep ==
    ASSUME IInv, rows' \in [Message -> Row], UNCHANGED <<replies, seen, kept, lists>>,
           \A m \in Message :
               \/ rows'[m].revision = rows[m].revision /\ rows'[m].text = rows[m].text
               \/ rows'[m].revision = rows[m].revision + 1
    PROVE  IInv'
<1>1. TypeOK'
  BY DEF IInv, TypeOK
<1>2. ASSUME NEW list \in List, TrueOf(list)
      PROVE  TrueOf(list)'
  <2> SUFFICES ASSUME NEW m \in Message, list[m].listed
               PROVE  /\ list[m].revision <= rows'[m].revision
                      /\ list[m].revision = rows'[m].revision
                         => list[m].text = rows'[m].text
    BY DEF TrueOf
  <2>1. list[m].revision <= rows[m].revision
        /\ (list[m].revision = rows[m].revision => list[m].text = rows[m].text)
    BY <1>2 DEF TrueOf
  <2>2. rows[m].revision \in Nat /\ list[m].revision \in Nat
    BY <1>2 DEF IInv, TypeOK, Row, List, Item
  <2> QED
    BY <2>1, <2>2
<1>3. ListsTrue'
  BY <1>2 DEF IInv, ListsTrue, TypeOK
<1> QED
  BY <1>1, <1>3 DEF IInv

(* A message takes a new state, and perhaps a position. *)
LEMMA StateStep ==
    ASSUME IInv, NEW m \in Message, NEW s \in MessageState, NEW p \in Int,
           rows' = [rows EXCEPT ![m].state = s, ![m].position = p],
           UNCHANGED <<replies, seen, kept, lists>>
    PROVE  IInv'
<1>1. rows' \in [Message -> Row]
  BY DEF IInv, TypeOK, Row
<1>2. \A n \in Message : rows'[n].revision = rows[n].revision
                         /\ rows'[n].text = rows[n].text
  BY DEF IInv, TypeOK, Row
<1> QED
  BY <1>1, <1>2, RowsStep

LEMMA BecomesStep ==
    ASSUME IInv, NEW m \in Message, NEW s \in MessageState, Becomes(m, s)
    PROVE  IInv'
<1>1. rows' \in [Message -> Row]
  BY DEF Becomes, IInv, TypeOK, Row
<1>2. \A n \in Message : rows'[n].revision = rows[n].revision
                         /\ rows'[n].text = rows[n].text
  BY DEF Becomes, IInv, TypeOK, Row
<1> QED
  BY <1>1, <1>2, RowsStep DEF Becomes, phones

LEMMA ArrivalStep == ASSUME IInv, NEW m \in Message, Arrival(m) PROVE IInv'
<1>1. CASE Send(m)
  <2>1. PICK p \in {0} \cup {rows[n].position + 1 : n \in Queue} :
             rows' = [rows EXCEPT ![m].state = "waiting", ![m].position = p]
    BY <1>1 DEF Send
  <2>2. p \in Int
    BY DEF Queue, IInv, TypeOK, Row
  <2>3. UNCHANGED <<replies, seen, kept, lists>>
    BY <1>1 DEF Send, phones
  <2> QED
    BY <2>1, <2>2, <2>3, StateStep DEF MessageState
<1>2. CASE FollowUp(m)
  BY <1>2, BecomesStep DEF FollowUp, Becomes, MessageState
<1> QED
  BY <1>1, <1>2 DEF Arrival

(* A request that bumps the revision of one message. *)
LEMMA RequestStep ==
    ASSUME IInv, NEW d \in Device, NEW m \in Message,
           Edit(d, m) \/ EditSettings(d, m) \/ Cancel(d, m) \/ MoveToGuide(d, m)
    PROVE  IInv'
<1>1. rows' \in [Message -> Row]
  BY DEF Edit, EditSettings, Cancel, MoveToGuide, IInv, TypeOK, Row, MessageState
<1>2. \A n \in Message :
          \/ rows'[n].revision = rows[n].revision /\ rows'[n].text = rows[n].text
          \/ rows'[n].revision = rows[n].revision + 1
  BY DEF Edit, EditSettings, Cancel, MoveToGuide, IInv, TypeOK, Row
<1>3. UNCHANGED <<replies, seen, kept, lists>>
  BY DEF Edit, EditSettings, Cancel, MoveToGuide, phones
<1> QED
  BY <1>1, <1>2, <1>3, RowsStep

LEMMA PlacedRow ==
    ASSUME NEW row \in Row, NEW p \in Int
    PROVE  [row EXCEPT !.position = p, !.revision = @ + 1] \in Row
<1>1. row.revision + 1 \in Nat
  BY DEF Row
<1> QED
  BY <1>1 DEF Row

LEMMA ReorderStep == ASSUME IInv, NEW d \in Device, Reorder(d) PROVE IInv'
<1> DEFINE S == ShownTo(d)
<1>1. Cardinality(S) \in Nat
  BY FS_Subset, FS_CardinalityType, MessageAssumption DEF ShownTo
<1>2. PICK place \in Orders(S) :
          rows' = [m \in Message |->
                      IF m \in S
                      THEN [rows[m] EXCEPT !.position = place[m] - Cardinality(S),
                                           !.revision = @ + 1]
                      ELSE rows[m]]
  BY DEF Reorder
<1> HIDE DEF S
<1>3. \A m \in S : place[m] - Cardinality(S) \in Int
  <2>1. place \in [S -> 0..(Cardinality(S) - 1)]
    BY <1>2 DEF Orders
  <2> QED
    BY <1>1, <2>1
<1>4. rows' \in [Message -> Row]
  <2>1. ASSUME NEW m \in Message PROVE rows'[m] \in Row
    <3>1. rows[m] \in Row
      BY DEF IInv, TypeOK
    <3>2. CASE m \in S
      <4>1. rows'[m] = [rows[m] EXCEPT !.position = place[m] - Cardinality(S),
                                       !.revision = @ + 1]
        BY <1>2, <3>2
      <4>2. place[m] - Cardinality(S) \in Int
        BY <1>3, <3>2
      <4> QED
        BY <3>1, <4>1, <4>2, PlacedRow
    <3>3. CASE m \notin S
      BY <1>2, <3>1, <3>3
    <3> QED
      BY <3>2, <3>3
  <2> QED
    BY <1>2, <2>1
<1>5. \A n \in Message :
          \/ rows'[n].revision = rows[n].revision /\ rows'[n].text = rows[n].text
          \/ rows'[n].revision = rows[n].revision + 1
  BY <1>2 DEF IInv, TypeOK, Row
<1>6. UNCHANGED <<replies, seen, kept, lists>>
  BY DEF Reorder, phones
<1> QED
  BY <1>4, <1>5, <1>6, RowsStep

LEMMA AskStep == ASSUME IInv, NEW d \in Device, Ask(d) PROVE IInv'
<1>1. PICK onMac \in BOOLEAN :
          replies' = [replies EXCEPT ![d] = @ \cup {Current(onMac)}]
  BY DEF Ask
<1>2. Current(onMac) \in List /\ TrueOf(Current(onMac))
  BY CurrentList DEF IInv
<1>3. UNCHANGED <<rows, seen, kept>> /\ lists' = lists - 1 /\ lists > 0
  BY DEF Ask
<1>4. TypeOK'
  BY <1>1, <1>2, <1>3, BoundAssumption DEF IInv, TypeOK
<1>5. \A list : TrueOf(list) => TrueOf(list)'
  BY <1>3 DEF TrueOf
<1>6. ListsTrue'
  BY <1>1, <1>2, <1>3, <1>5 DEF IInv, ListsTrue, TypeOK
<1> QED
  BY <1>4, <1>6 DEF IInv

LEMMA ShowStep == ASSUME IInv, NEW d \in Device, Show(d) PROVE IInv'
<1>1. PICK reply \in replies[d] :
          /\ seen' = [seen EXCEPT ![d] = Merged(seen[d], reply)]
          /\ kept' = [kept EXCEPT ![d] = Newer(seen[d], reply)]
          /\ replies' = [replies EXCEPT ![d] = @ \ {reply}]
          /\ UNCHANGED <<rows, lists>>
  BY DEF Show
<1>2. reply \in List /\ seen[d] \in List
  BY DEF IInv, TypeOK
<1>3. TrueOf(reply) /\ TrueOf(seen[d])
  BY DEF IInv, ListsTrue
<1>4. Merged(seen[d], reply) \in List
  BY <1>2 DEF Merged, List, Item
<1>5. TrueOf(Merged(seen[d], reply))
  BY <1>2, <1>3 DEF TrueOf, Merged, Newer, List, Item
<1>6. TypeOK'
  BY <1>1, <1>4 DEF IInv, TypeOK, Newer
<1>7. \A list : TrueOf(list) => TrueOf(list)'
  BY <1>1 DEF TrueOf
<1>8. ListsTrue'
  BY <1>1, <1>5, <1>7 DEF IInv, ListsTrue, TypeOK
<1> QED
  BY <1>6, <1>8 DEF IInv

LEMMA InitIInv == Init => IInv
<1> SUFFICES ASSUME Init PROVE IInv
  OBVIOUS
<1>1. TypeOK
  BY BoundAssumption DEF Init, TypeOK, Row, MessageState, List, Item, Blank
<1>2. ListsTrue
  BY DEF Init, ListsTrue, TrueOf, Blank
<1> QED
  BY <1>1, <1>2 DEF IInv

LEMMA NextIInv == IInv /\ [Next]_vars => IInv'
<1> SUFFICES ASSUME IInv, [Next]_vars PROVE IInv'
  OBVIOUS
<1>1. ASSUME NEW m \in Message, Arrival(m) PROVE IInv'
  BY <1>1, ArrivalStep
<1>2. ASSUME NEW m \in Message, Outcome(m) PROVE IInv'
  BY <1>2, BecomesStep
     DEF Outcome, Claim, Answered, Unprepared, GivenBack, Lost, Found, Ended,
         Steered, Retry, MessageState
<1>3. ASSUME NEW d \in Device, Phone(d) PROVE IInv'
  BY <1>3, AskStep, ShowStep, ReorderStep, RequestStep DEF Phone
<1>4. CASE UNCHANGED vars
  <2>1. TypeOK'
    BY <1>4 DEF vars, IInv, TypeOK
  <2>2. \A list : TrueOf(list) => TrueOf(list)'
    BY <1>4 DEF vars, TrueOf
  <2>3. ListsTrue'
    BY <1>4, <2>2 DEF vars, IInv, ListsTrue
  <2> QED
    BY <2>1, <2>3 DEF IInv
<1> QED
  BY <1>1, <1>2, <1>3, <1>4 DEF Next

(* Every list a phone has or will get is one the queue really had. *)
THEOREM ListsAreTrue == Spec => []IInv
  BY InitIInv, NextIInv, PTL DEF Spec

(* Every reachable state is well typed. *)
THEOREM QueueTypeCorrect == Spec => []TypeOK
<1>1. IInv => TypeOK
  BY DEF IInv
<1> QED
  BY <1>1, ListsAreTrue, PTL

(* However many phones edit, cancel or reorder from however old a list,    *)
(* none changes a text it has not seen.                                    *)
THEOREM NobodyEditsBlindly == Spec => []NoBlindEdit
<1>1. IInv => NoBlindEdit
  BY DEF IInv, ListsTrue, TrueOf, NoBlindEdit, Matches, ShownTo
<1> QED
  BY <1>1, ListsAreTrue, PTL

-----------------------------------------------------------------------------
(* Sets of pairs are compared pair by pair. *)
LEMMA SamePairs ==
    ASSUME NEW S, NEW A, NEW B, A \subseteq S \X S, B \subseteq S \X S,
           \A m, n \in S : <<m, n>> \in A <=> <<m, n>> \in B
    PROVE  A = B
<1>1. ASSUME NEW p \in S \X S PROVE p \in A <=> p \in B
  <2>1. PICK m \in S, n \in S : p = <<m, n>>
    OBVIOUS
  <2> QED
    BY <2>1
<1> QED
  BY <1>1

LEMMA AheadPairs ==
    /\ Ahead \subseteq Queue \X Queue
    /\ \A m, n : <<m, n>> \in Ahead <=> m \in Queue /\ n \in Queue /\ Before(m, n)
  BY DEF Ahead

LEMMA AheadPairsNext ==
    /\ Ahead' \subseteq Queue' \X Queue'
    /\ \A m, n : <<m, n>> \in Ahead' <=> m \in Queue' /\ n \in Queue' /\ Before(m, n)'
  BY DEF Ahead

(* (position, creation) is a strict total order of the waiting messages. *)
LEMMA QueueOrdered == TypeOK => Order!Ordered(Queue, Ahead)
<1> SUFFICES ASSUME TypeOK PROVE Order!Ordered(Queue, Ahead)
  OBVIOUS
<1>1. \A m \in Queue : m \in Nat /\ rows[m].position \in Int
  BY MessageAssumption DEF Queue, TypeOK, Row
<1>2. \A m, n \in Queue : m # n => (Before(m, n) <=> ~Before(n, m))
  BY <1>1 DEF Before
<1>3. \A m \in Queue : ~Before(m, m)
  BY <1>1 DEF Before
<1>4. \A l, m, n \in Queue : Before(l, m) /\ Before(m, n) => Before(l, n)
  BY <1>1 DEF Before
<1> QED
  BY <1>2, <1>3, <1>4, AheadPairs DEF Order!Ordered

LEMMA QueueOrderedNext == TypeOK' => Order!Ordered(Queue', Ahead')
<1> SUFFICES ASSUME TypeOK' PROVE Order!Ordered(Queue', Ahead')
  OBVIOUS
<1>1. \A m \in Queue' : m \in Nat /\ rows'[m].position \in Int
  BY MessageAssumption DEF Queue, TypeOK, Row
<1>2. \A m, n \in Queue' : m # n => (Before(m, n)' <=> ~Before(n, m)')
  BY <1>1 DEF Before
<1>3. \A m \in Queue' : ~Before(m, m)'
  BY <1>1 DEF Before
<1>4. \A l, m, n \in Queue' : Before(l, m)' /\ Before(m, n)' => Before(l, n)'
  BY <1>1 DEF Before
<1> QED
  BY <1>2, <1>3, <1>4, AheadPairsNext DEF Order!Ordered

-----------------------------------------------------------------------------
(* What a step does to the list when it changes the row of one message.    *)
Only(m) == \A n \in Message \ {m} : rows'[n] = rows[n]

LEMMA OthersStay ==
    ASSUME NEW m \in Message, Only(m)
    PROVE  /\ \A n \in Message \ {m} : n \in Queue' <=> n \in Queue
           /\ \A k, n \in Message \ {m} : Before(k, n)' <=> Before(k, n)
  BY DEF Only, Queue, Waiting, Before

LEMMA QueueStays ==
    ASSUME NEW m \in Message, Only(m), m \notin Queue, m \notin Queue'
    PROVE  Queue' = Queue /\ Ahead' = Ahead
<1>1. Queue' = Queue
  <2>1. Queue \subseteq Message /\ Queue' \subseteq Message
    BY DEF Queue
  <2> QED
    BY <2>1, OthersStay
<1>2. \A k, n \in Queue : Before(k, n)' <=> Before(k, n)
  BY OthersStay DEF Queue
<1>3. Ahead' = Ahead
  BY <1>1, <1>2 DEF Ahead
<1> QED
  BY <1>1, <1>3

LEMMA LeavesStep ==
    ASSUME NEW m \in Message, Only(m), m \in Queue, m \notin Queue'
    PROVE  Order!Leaves(m)
<1>1. Queue' = Queue \ {m}
  <2>1. Queue \subseteq Message /\ Queue' \subseteq Message
    BY DEF Queue
  <2> QED
    BY <2>1, OthersStay
<1>2. \A k, n \in Queue' : Before(k, n)' <=> Before(k, n)
  <2>1. Queue' \subseteq Message \ {m}
    BY DEF Queue
  <2> QED
    BY <2>1, OthersStay
<1>3. Ahead' = Order!Within(Ahead, Queue')
  <2>1. Order!Within(Ahead, Queue') \subseteq Queue' \X Queue'
    BY AheadPairs DEF Order!Within
  <2>2. \A k, n \in Queue' : <<k, n>> \in Ahead' <=> <<k, n>> \in Order!Within(Ahead, Queue')
    BY <1>1, <1>2, AheadPairs, AheadPairsNext DEF Order!Within
  <2> QED
    BY <2>1, <2>2, AheadPairsNext, SamePairs
<1> QED
  BY <1>1, <1>3 DEF Order!Leaves

LEMMA EntersStep ==
    ASSUME TypeOK', NEW m \in Message, Only(m), m \notin Queue, m \in Queue'
    PROVE  Order!Enters(m)
<1>1. Queue' = Queue \cup {m}
  <2>1. Queue \subseteq Message /\ Queue' \subseteq Message
    BY DEF Queue
  <2> QED
    BY <2>1, OthersStay
<1>2. \A k, n \in Queue : Before(k, n)' <=> Before(k, n)
  <2>1. Queue \subseteq Message \ {m}
    BY DEF Queue
  <2> QED
    BY <2>1, OthersStay
<1>3. Order!Within(Ahead', Queue) = Ahead
  <2>1. Order!Within(Ahead', Queue) \subseteq Queue \X Queue
    BY AheadPairsNext DEF Order!Within
  <2>2. \A k, n \in Queue : <<k, n>> \in Ahead <=> <<k, n>> \in Order!Within(Ahead', Queue)
    BY <1>1, <1>2, AheadPairs, AheadPairsNext DEF Order!Within
  <2> QED
    BY <2>1, <2>2, AheadPairs, SamePairs
<1>4. Order!Ordered(Queue', Ahead')
  BY QueueOrderedNext
<1> QED
  BY <1>1, <1>3, <1>4 DEF Order!Enters

-----------------------------------------------------------------------------
(* The sets of messages that are in work, may return or have arrived. *)
LEMMA StateSets ==
    ASSUME TypeOK, NEW m \in Message, NEW s \in MessageState,
           rows' \in [Message -> Row], Only(m), rows'[m].state = s
    PROVE  /\ Queue' = IF s = "waiting" THEN Queue \cup {m} ELSE Queue \ {m}
           /\ Arrived' = IF s # "unsent" THEN Arrived \cup {m} ELSE Arrived \ {m}
           /\ InWork' = IF s \in {"sending", "running"} THEN InWork \cup {m}
                        ELSE InWork \ {m}
           /\ MayReturn' = IF s \in {"sending", "held"} THEN MayReturn \cup {m}
                           ELSE MayReturn \ {m}
<1>1. \A n \in Message : rows'[n].state = IF n = m THEN s ELSE rows[n].state
  BY DEF Only
<1> QED
  BY <1>1 DEF Queue, Waiting, Arrived, InWork, MayReturn, In, MessageState

(* A claimed message is answered, fails, is lost, found again or ends. *)
LEMMA SettleStep ==
    ASSUME TypeOK, NEW m \in Message, NEW s \in MessageState, Becomes(m, s),
           rows[m].state \notin {"unsent", "waiting"}, s \notin {"unsent", "waiting"},
           s = "held" => rows[m].state = "sending", s # "sending"
    PROVE  Order!Settle
<1>1. rows' \in [Message -> Row] /\ Only(m) /\ rows'[m].state = s
  BY DEF Becomes, TypeOK, Row, Only
<1>2. m \notin Queue /\ m \notin Queue' /\ m \in Arrived
  BY <1>1 DEF Queue, Waiting, Arrived, In, TypeOK, Row
<1>3. Queue' = Queue /\ Ahead' = Ahead
  BY <1>1, <1>2, QueueStays
<1>4. s = "held" => m \in MayReturn
  BY DEF MayReturn, In
<1>5. InWork \subseteq Arrived
  BY DEF InWork, Arrived, In, MessageState
<1> QED
  BY <1>1, <1>2, <1>3, <1>4, <1>5, StateSets DEF Order!Settle

LEMMA ReturnStep ==
    ASSUME TypeOK, NEW m \in Message, Becomes(m, "waiting"),
           rows[m].state \in {"sending", "held"}
    PROVE  Order!Return(m)
<1>1. rows' \in [Message -> Row] /\ Only(m) /\ rows'[m].state = "waiting"
  BY DEF Becomes, TypeOK, Row, Only, MessageState
<1>2. TypeOK'
  BY <1>1 DEF TypeOK, Becomes, phones
<1>3. m \notin Queue /\ m \in Queue' /\ m \in MayReturn /\ m \in Arrived
  BY <1>1 DEF Queue, Waiting, MayReturn, Arrived, In, MessageState
<1>4. Order!Enters(m)
  BY <1>1, <1>2, <1>3, EntersStep
<1>5. Arrived' = Arrived /\ InWork' = InWork \ {m} /\ MayReturn' = MayReturn \ {m}
  BY <1>1, <1>3, StateSets DEF MessageState
<1> QED
  BY <1>3, <1>4, <1>5 DEF Order!Return

LEMMA TakeStep == ASSUME TypeOK, NEW m \in Message, Claim(m) PROVE Order!Take(m)
<1>1. rows' \in [Message -> Row] /\ Only(m) /\ rows'[m].state = "sending"
  BY DEF Claim, Becomes, TypeOK, Row, Only, MessageState
<1>2. m \in Queue /\ m \notin Queue'
  BY <1>1 DEF Claim, Queue, Waiting
<1>3. Order!Leaves(m)
  BY <1>1, <1>2, LeavesStep
<1>4. \A n \in Queue : <<n, m>> \notin Ahead
  BY <1>2, QueueOrdered, AheadPairs DEF Order!Ordered, Claim, First
<1>5. InWork = {} /\ m \in Arrived
  BY DEF Claim, Busy, Waiting, InWork, Arrived, In, MessageState
<1>6. Arrived' = Arrived /\ InWork' = {m} /\ MayReturn' = MayReturn \cup {m}
  BY <1>1, <1>5, StateSets DEF MessageState
<1> QED
  BY <1>3, <1>4, <1>5, <1>6 DEF Order!Take

-----------------------------------------------------------------------------
LEMMA ArrivalSets ==
    ASSUME TypeOK, NEW m \in Message, rows' \in [Message -> Row], Only(m),
           rows'[m].state = "waiting", m \notin InWork, m \notin MayReturn
    PROVE  Arrived' = Arrived \cup {m} /\ InWork' = InWork /\ MayReturn' = MayReturn
  BY StateSets DEF MessageState

LEMMA SendStep == ASSUME TypeOK, NEW m \in Message, Send(m) PROVE Order!Arrive(m)
<1>1. PICK p \in {0} \cup {rows[n].position + 1 : n \in Queue} :
          /\ Queue # {} => \A n \in Queue : rows[n].position < p
          /\ rows' = [rows EXCEPT ![m].state = "waiting", ![m].position = p]
  BY DEF Send
<1>2. p \in Int
  BY DEF Queue, TypeOK, Row
<1>3. /\ rows' \in [Message -> Row] /\ Only(m)
      /\ rows'[m].state = "waiting" /\ rows'[m].position = p
  BY <1>1, <1>2 DEF TypeOK, Row, Only, MessageState
<1>4. TypeOK'
  BY <1>3 DEF Send, phones, TypeOK
<1>5. m \notin Queue /\ m \in Queue' /\ m \notin Arrived
      /\ m \notin InWork /\ m \notin MayReturn
  BY <1>3 DEF Send, NextInOrder, Queue, Waiting, Arrived, InWork, MayReturn, In
<1>6. Order!Enters(m)
  BY <1>3, <1>4, <1>5, EntersStep
<1>7. Ahead' = Ahead \cup (Queue \X {m})
  <2>1. Queue' = Queue \cup {m} /\ Order!Within(Ahead', Queue) = Ahead
    BY <1>6 DEF Order!Enters
  <2>2. \A n \in Queue : Before(n, m)'
    <3>1. \A n \in Queue : n # m /\ n \in Message
      BY <1>5 DEF Queue
    <3>2. \A n \in Queue : rows'[n] = rows[n] /\ rows[n].position < p
      BY <1>1, <3>1, <1>3 DEF Only
    <3> QED
      BY <1>3, <3>2 DEF Before
  <2>3. \A n \in Queue' : <<m, n>> \notin Ahead'
    BY <1>4, <1>5, <2>1, <2>2, QueueOrderedNext, AheadPairsNext DEF Order!Ordered
  <2>4. \A n \in Queue : <<n, m>> \in Ahead'
    BY <1>5, <2>1, <2>2, AheadPairsNext
  <2>5. \A k, n \in Queue : <<k, n>> \in Ahead' <=> <<k, n>> \in Ahead
    BY <2>1, OthersStay, <1>3, <1>5, AheadPairs, AheadPairsNext DEF Queue
  <2>6. Ahead \cup (Queue \X {m}) \subseteq Queue' \X Queue'
    BY <2>1, AheadPairs
  <2>7. \A k, n \in Queue' :
            <<k, n>> \in Ahead' <=> <<k, n>> \in Ahead \cup (Queue \X {m})
    BY <1>5, <2>1, <2>3, <2>4, <2>5, AheadPairs
  <2> QED
    BY <2>6, <2>7, AheadPairsNext, SamePairs
<1>8. Arrived' = Arrived \cup {m} /\ InWork' = InWork /\ MayReturn' = MayReturn
  BY <1>3, <1>5, ArrivalSets
<1> QED
  BY <1>5, <1>6, <1>7, <1>8 DEF Order!Arrive

LEMMA FollowUpStep ==
    ASSUME TypeOK, NEW m \in Message, FollowUp(m) PROVE Order!Arrive(m)
<1>1. rows' \in [Message -> Row] /\ Only(m) /\ rows'[m].state = "waiting"
  BY DEF FollowUp, TypeOK, Row, Only, MessageState
<1>2. TypeOK'
  BY <1>1 DEF FollowUp, phones, TypeOK
<1>3. m \notin Queue /\ m \in Queue' /\ m \notin Arrived
      /\ m \notin InWork /\ m \notin MayReturn
  BY <1>1 DEF FollowUp, NextInOrder, Queue, Waiting, Arrived, InWork, MayReturn, In
<1>4. Order!Enters(m)
  BY <1>1, <1>2, <1>3, EntersStep
<1>5. Arrived' = Arrived \cup {m} /\ InWork' = InWork /\ MayReturn' = MayReturn
  BY <1>1, <1>3, ArrivalSets
<1> QED
  BY <1>3, <1>4, <1>5 DEF Order!Arrive, FollowUp

(* A new text or new settings leave the list alone. *)
LEMMA TextStep ==
    ASSUME TypeOK, NEW d \in Device, NEW m \in Message,
           Edit(d, m) \/ EditSettings(d, m)
    PROVE  UNCHANGED <<Queue, Ahead, Arrived, InWork, MayReturn>>
<1>1. \A n \in Message : /\ rows'[n].state = rows[n].state
                         /\ rows'[n].position = rows[n].position
  BY DEF Edit, EditSettings, TypeOK, Row
<1>2. UNCHANGED <<Queue, Arrived, InWork, MayReturn>>
  BY <1>1 DEF Queue, Waiting, Arrived, InWork, MayReturn, In
<1>3. \A k, n \in Message : Before(k, n)' <=> Before(k, n)
  BY <1>1 DEF Before
<1>4. Ahead' = Ahead
  <2>1. Queue \subseteq Message /\ Queue' = Queue
    BY <1>2 DEF Queue
  <2> QED
    BY <2>1, <1>3, AheadPairs, AheadPairsNext, SamePairs
<1> QED
  BY <1>2, <1>4

LEMMA WithdrawStep ==
    ASSUME TypeOK, NEW d \in Device, NEW m \in Message,
           Cancel(d, m) \/ MoveToGuide(d, m)
    PROVE  Order!Withdraw(m)
<1>1. PICK s \in {"ended", "guide"} :
          rows' = [rows EXCEPT ![m].state = s, ![m].revision = @ + 1]
  BY DEF Cancel, MoveToGuide
<1>2. Waiting(m)
  BY DEF Cancel, MoveToGuide, Matches
<1>3. rows' \in [Message -> Row] /\ Only(m) /\ rows'[m].state = s
  BY <1>1 DEF TypeOK, Row, Only, MessageState
<1>4. m \in Queue /\ m \notin Queue' /\ m \in Arrived
      /\ m \notin InWork /\ m \notin MayReturn
  BY <1>2, <1>3 DEF Queue, Waiting, Arrived, InWork, MayReturn, In, MessageState
<1>5. Order!Leaves(m)
  BY <1>3, <1>4, LeavesStep
<1>6. Arrived' = Arrived /\ InWork' = InWork /\ MayReturn' = MayReturn
  BY <1>3, <1>4, StateSets DEF MessageState
<1> QED
  BY <1>5, <1>6 DEF Order!Withdraw

LEMMA RearrangeStep ==
    ASSUME IInv, NEW d \in Device, Reorder(d) PROVE Order!Rearrange
<1>1. \A n \in Message : rows'[n].state = rows[n].state
  BY DEF Reorder, IInv, TypeOK, Row
<1>2. UNCHANGED <<Queue, Arrived, InWork, MayReturn>>
  BY <1>1 DEF Queue, Waiting, Arrived, InWork, MayReturn, In
<1>3. TypeOK'
  BY ReorderStep DEF IInv
<1>4. Order!Ordered(Queue', Ahead')
  BY <1>3, QueueOrderedNext
<1> QED
  BY <1>2, <1>4 DEF Order!Rearrange

-----------------------------------------------------------------------------
LEMMA OrderInit == Init => Order!Init
<1> SUFFICES ASSUME Init PROVE Order!Init
  OBVIOUS
<1>1. \A m \in Message : rows[m].state = "unsent"
  BY DEF Init
<1>2. Queue = {} /\ Arrived = {} /\ InWork = {} /\ MayReturn = {}
  BY <1>1 DEF Queue, Waiting, Arrived, InWork, MayReturn, In
<1> QED
  BY <1>2 DEF Order!Init, Ahead

OrderVars == <<Queue, Ahead, Arrived, InWork, MayReturn>>

LEMMA OutcomeOrder ==
    ASSUME TypeOK, NEW m \in Message, Outcome(m)
    PROVE  Order!Take(m) \/ Order!Return(m) \/ Order!Settle
<1>1. CASE Claim(m)
  BY <1>1, TakeStep
<1>2. CASE GivenBack(m) \/ Retry(m)
  BY <1>2, ReturnStep DEF GivenBack, Retry
<1>3. CASE Answered(m)
  BY <1>3, SettleStep DEF Answered, MessageState
<1>4. CASE Unprepared(m)
  BY <1>4, SettleStep DEF Unprepared, MessageState
<1>5. CASE Lost(m)
  BY <1>5, SettleStep DEF Lost, MessageState
<1>6. CASE Found(m)
  BY <1>6, SettleStep DEF Found, MessageState
<1>7. CASE Ended(m)
  BY <1>7, SettleStep DEF Ended, MessageState
<1>8. CASE Steered(m)
  BY <1>8, SettleStep DEF Steered, MessageState
<1> QED
  BY <1>1, <1>2, <1>3, <1>4, <1>5, <1>6, <1>7, <1>8 DEF Outcome

LEMMA PhoneOrder ==
    ASSUME IInv, NEW d \in Device, Phone(d)
    PROVE  \/ \E m \in Message : Order!Withdraw(m)
           \/ Order!Rearrange
           \/ UNCHANGED OrderVars
<1>1. CASE Ask(d) \/ Show(d)
  <2>1. UNCHANGED rows
    BY <1>1 DEF Ask, Show
  <2> QED
    BY <2>1 DEF OrderVars, Queue, Waiting, Ahead, Before, Arrived, InWork,
                MayReturn, In
<1>2. CASE Reorder(d)
  BY <1>2, RearrangeStep
<1>3. ASSUME NEW m \in Message, Edit(d, m) \/ EditSettings(d, m)
      PROVE  UNCHANGED OrderVars
  BY <1>3, TextStep DEF IInv, OrderVars
<1>4. ASSUME NEW m \in Message, Cancel(d, m) \/ MoveToGuide(d, m)
      PROVE  Order!Withdraw(m)
  BY <1>4, WithdrawStep DEF IInv
<1> QED
  BY <1>1, <1>2, <1>3, <1>4 DEF Phone

LEMMA OrderStep ==
    IInv /\ [Next]_vars => [Order!Next]_OrderVars
<1> SUFFICES ASSUME IInv, [Next]_vars PROVE Order!Next \/ UNCHANGED OrderVars
  OBVIOUS
<1>1. ASSUME NEW m \in Message, Arrival(m) PROVE Order!Next
  BY <1>1, SendStep, FollowUpStep DEF IInv, Arrival, Order!Next
<1>2. ASSUME NEW m \in Message, Outcome(m) PROVE Order!Next
  BY <1>2, OutcomeOrder DEF IInv, Order!Next
<1>3. ASSUME NEW d \in Device, Phone(d) PROVE Order!Next \/ UNCHANGED OrderVars
  BY <1>3, PhoneOrder DEF Order!Next
<1>4. CASE UNCHANGED vars
  BY <1>4 DEF vars, OrderVars, Queue, Waiting, Ahead, Before, Arrived, InWork,
              MayReturn, In
<1> QED
  BY <1>1, <1>2, <1>3, <1>4 DEF Next

(* The table is a list: of two messages that keep waiting, the earlier one *)
(* stays the earlier one until a reordering, whatever was sent, claimed,   *)
(* given back, retried, cancelled or edited in between, and work is only   *)
(* ever taken from the front.                                              *)
THEOREM TableIsAList == Spec => KeepsOrder
  BY OrderInit, OrderStep, ListsAreTrue, PTL DEF Spec, KeepsOrder, Order!Spec, OrderVars

-----------------------------------------------------------------------------
(* A list shows two messages of S in the order they have, as long as neither *)
(* was changed since.                                                        *)
PlacesOf(list, S) ==
    \A m, n \in S :
        /\ list[m].listed /\ list[m].revision = rows[m].revision
        /\ list[n].listed /\ list[n].revision = rows[n].revision
        /\ list[m].place < list[n].place
        => Before(m, n)

SentOf(list) == \A m \in Message : list[m].listed => rows[m].state # "unsent"
Good(list, S) == PlacesOf(list, S) /\ SentOf(list)

PlacesTrue == \A d \in Device : /\ Good(seen[d], Message \ kept[d])
                                /\ \A list \in replies[d] : Good(list, Message)

(* What a phone is sent shows the order the queue has. *)
LEMMA CurrentPlaces ==
    ASSUME TypeOK, NEW onMac \in BOOLEAN
    PROVE  Good(Current(onMac), Message)
<1> DEFINE Earlier(m) == {n \in Listed(onMac) \ {m} : Before(n, m)}
           C == Current(onMac)
<1>1. Listed(onMac) \subseteq Queue /\ Queue \subseteq Message
  BY DEF Listed, Queue
<1>2. \A m \in Message : /\ C[m].listed <=> m \in Listed(onMac)
                         /\ C[m].listed => C[m].place = Cardinality(Earlier(m))
  BY DEF Current, Blank
<1>3. SentOf(C)
  BY <1>1, <1>2 DEF SentOf, Queue, Waiting
<1>4. ASSUME NEW m \in Message, NEW n \in Message, C[m].listed, C[n].listed,
             C[m].place < C[n].place
      PROVE  Before(m, n)
  <2>1. m \in Queue /\ n \in Queue
    BY <1>1, <1>2, <1>4
  <2>2. \A k \in Queue : k \in Nat /\ rows[k].position \in Int
    BY <1>1, MessageAssumption DEF TypeOK, Row
  <2>3. IsFiniteSet(Earlier(m)) /\ IsFiniteSet(Earlier(n))
    BY <1>1, FS_Subset, MessageAssumption
  <2>4. Cardinality(Earlier(m)) \in Nat /\ Cardinality(Earlier(n)) \in Nat
    BY <2>3, FS_CardinalityType
  <2>5. ASSUME ~Before(m, n) PROVE Earlier(n) \subseteq Earlier(m)
    <3>1. m = n \/ Before(n, m)
      BY <2>1, <2>2, <2>5 DEF Before
    <3>2. \A k \in Queue : Before(k, n) => k # m
      BY <2>1, <2>5
    <3>3. \A k \in Queue : Before(k, n) => Before(k, m)
      BY <2>1, <2>2, <3>1 DEF Before
    <3> QED
      BY <1>1, <3>2, <3>3
  <2>6. Earlier(n) \subseteq Earlier(m) => Cardinality(Earlier(n)) <= Cardinality(Earlier(m))
    BY <2>3, FS_Subset
  <2>7. Cardinality(Earlier(m)) < Cardinality(Earlier(n))
    BY <1>2, <1>4
  <2> HIDE DEF Earlier
  <2> QED
    BY <2>4, <2>5, <2>6, <2>7
<1>5. PlacesOf(C, Message)
  BY <1>4 DEF PlacesOf
<1> QED
  BY <1>3, <1>5 DEF Good

(* A step that moves no message that was sent without a new revision keeps *)
(* what the phones show in order.                                          *)
Unmoved(m) == rows'[m].revision = rows[m].revision /\ rows'[m].position = rows[m].position

LEMMA RowsPlaces ==
    ASSUME IInv, PlacesTrue, UNCHANGED <<replies, seen, kept>>,
           \A m \in Message : rows[m].state # "unsent" =>
               /\ rows'[m].state # "unsent"
               /\ Unmoved(m) \/ rows'[m].revision = rows[m].revision + 1
    PROVE  PlacesTrue'
<1>1. ASSUME NEW list \in List, NEW S \in SUBSET Message, TrueOf(list), Good(list, S)
      PROVE  Good(list, S)'
  <2>1. SentOf(list)'
    BY <1>1 DEF Good, SentOf
  <2>2. ASSUME NEW m \in Message, list[m].listed, list[m].revision = rows'[m].revision
        PROVE  Unmoved(m)
    <3>1. /\ rows[m].state # "unsent" /\ list[m].revision <= rows[m].revision
          /\ rows[m].revision \in Nat
      BY <1>1, <2>2 DEF Good, SentOf, TrueOf, IInv, TypeOK, Row
    <3> QED
      BY <2>2, <3>1
  <2>3. PlacesOf(list, S)'
    <3> SUFFICES ASSUME NEW m \in S, NEW n \in S,
                        list[m].listed, list[m].revision = rows'[m].revision,
                        list[n].listed, list[n].revision = rows'[n].revision,
                        list[m].place < list[n].place
                 PROVE  Before(m, n)'
      BY DEF PlacesOf
    <3>1. Unmoved(m) /\ Unmoved(n)
      BY <2>2
    <3>2. Before(m, n)
      BY <1>1, <3>1 DEF Good, PlacesOf, Unmoved
    <3> QED
      BY <3>1, <3>2 DEF Before, Unmoved
  <2> QED
    BY <2>1, <2>3 DEF Good
<1>2. ASSUME NEW d \in Device
      PROVE  /\ Good(seen[d], Message \ kept[d])'
             /\ \A list \in replies[d] : Good(list, Message)'
  <2>1. /\ seen[d] \in List /\ TrueOf(seen[d]) /\ Good(seen[d], Message \ kept[d])
        /\ \A list \in replies[d] : list \in List /\ TrueOf(list) /\ Good(list, Message)
    BY DEF IInv, TypeOK, ListsTrue, PlacesTrue
  <2>2. seen'[d] = seen[d] /\ kept'[d] = kept[d]
    OBVIOUS
  <2>3. Good(seen[d], Message \ kept[d])'
    BY <1>1, <2>1, <2>2
  <2>4. \A list \in replies[d] : Good(list, Message)'
    BY <1>1, <2>1
  <2> QED
    BY <2>3, <2>4
<1> QED
  BY <1>2 DEF PlacesTrue

(* A message takes a new state. *)
LEMMA BecomesPlaces ==
    ASSUME IInv, PlacesTrue, NEW m \in Message, NEW s \in MessageState \ {"unsent"}, Becomes(m, s)
    PROVE  PlacesTrue'
<1>1. \A n \in Message : rows[n].state # "unsent" => rows'[n].state # "unsent" /\ Unmoved(n)
  BY DEF Becomes, IInv, TypeOK, Row, Unmoved
<1> QED
  BY <1>1, RowsPlaces DEF Becomes, phones

LEMMA ArrivalPlaces == ASSUME IInv, PlacesTrue, NEW m \in Message, Arrival(m) PROVE PlacesTrue'
<1>1. rows[m].state = "unsent" /\ \A n \in Message \ {m} : rows'[n] = rows[n]
  BY DEF Arrival, Send, FollowUp, NextInOrder, IInv, TypeOK
<1>2. UNCHANGED <<replies, seen, kept>>
  BY DEF Arrival, Send, FollowUp, phones
<1> QED
  BY <1>1, <1>2, RowsPlaces DEF Unmoved

LEMMA RequestPlaces ==
    ASSUME IInv, PlacesTrue, NEW d \in Device, NEW m \in Message,
           Edit(d, m) \/ EditSettings(d, m) \/ Cancel(d, m) \/ MoveToGuide(d, m)
    PROVE  PlacesTrue'
<1>1. \A n \in Message : rows[n].state # "unsent" =>
          /\ rows'[n].state # "unsent"
          /\ Unmoved(n) \/ rows'[n].revision = rows[n].revision + 1
  BY DEF Edit, EditSettings, Cancel, MoveToGuide, IInv, TypeOK, Row, Unmoved
<1>2. UNCHANGED <<replies, seen, kept>>
  BY DEF Edit, EditSettings, Cancel, MoveToGuide, phones
<1> QED
  BY <1>1, <1>2, RowsPlaces

LEMMA ReorderPlaces ==
    ASSUME IInv, PlacesTrue, NEW d \in Device, Reorder(d) PROVE PlacesTrue'
<1>1. \A n \in Message : rows[n].state # "unsent" =>
          /\ rows'[n].state # "unsent"
          /\ Unmoved(n) \/ rows'[n].revision = rows[n].revision + 1
  BY DEF Reorder, IInv, TypeOK, Row, Unmoved
<1>2. UNCHANGED <<replies, seen, kept>>
  BY DEF Reorder, phones
<1> QED
  BY <1>1, <1>2, RowsPlaces

(* The answer to a phone shows the order the queue has then. *)
LEMMA AskPlaces ==
    ASSUME IInv, PlacesTrue, NEW d \in Device, Ask(d)
    PROVE  PlacesTrue'
<1>1. PICK onMac \in BOOLEAN :
          replies' = [replies EXCEPT ![d] = @ \cup {Current(onMac)}]
  BY DEF Ask
<1>2. UNCHANGED <<rows, seen, kept>>
  BY DEF Ask
<1>3. Good(Current(onMac), Message)
  BY CurrentPlaces DEF IInv
<1>4. \A list, S : Good(list, S) => Good(list, S)'
  BY <1>2 DEF Good, PlacesOf, SentOf, Before
<1>5. ASSUME NEW e \in Device
      PROVE  /\ Good(seen[e], Message \ kept[e])'
             /\ \A list \in replies'[e] : Good(list, Message)'
  <2>1. replies'[e] \subseteq replies[e] \cup {Current(onMac)}
    BY <1>1 DEF IInv, TypeOK
  <2>2. \A list \in replies'[e] : Good(list, Message)
    BY <1>3, <2>1 DEF PlacesTrue
  <2>3. Good(seen[e], Message \ kept[e])
    BY DEF PlacesTrue
  <2>4. seen'[e] = seen[e] /\ kept'[e] = kept[e]
    BY <1>2
  <2> QED
    BY <1>4, <2>2, <2>3, <2>4
<1> QED
  BY <1>5 DEF PlacesTrue

(* A list that arrives, late or not: what was not kept stands as it says.  *)
LEMMA ShowPlaces ==
    ASSUME IInv, PlacesTrue, NEW d \in Device, Show(d) PROVE PlacesTrue'
<1>1. PICK reply \in replies[d] :
          /\ seen' = [seen EXCEPT ![d] = Merged(seen[d], reply)]
          /\ kept' = [kept EXCEPT ![d] = Newer(seen[d], reply)]
          /\ replies' = [replies EXCEPT ![d] = @ \ {reply}]
          /\ UNCHANGED <<rows, lists>>
  BY DEF Show
<1>2. Good(reply, Message)
  BY DEF PlacesTrue
<1>3. \A m \in Message \ Newer(seen[d], reply) : Merged(seen[d], reply)[m] = reply[m]
  BY DEF Merged
<1>4. PlacesOf(Merged(seen[d], reply), Message \ Newer(seen[d], reply))
  BY <1>2, <1>3 DEF Good, PlacesOf
<1>5. SentOf(Merged(seen[d], reply))
  <2> SUFFICES ASSUME NEW m \in Message, Merged(seen[d], reply)[m].listed
               PROVE  rows[m].state # "unsent"
    BY DEF SentOf
  <2>1. SentOf(reply)
    BY <1>2 DEF Good
  <2>2. reply[m].listed
    BY DEF Merged, Newer
  <2> QED
    BY <2>1, <2>2 DEF SentOf
<1>6. \A list, S : Good(list, S) => Good(list, S)'
  BY <1>1 DEF Good, PlacesOf, SentOf, Before
<1>7. ASSUME NEW e \in Device
      PROVE  /\ Good(seen[e], Message \ kept[e])'
             /\ \A list \in replies'[e] : Good(list, Message)'
  <2>1. replies'[e] \subseteq replies[e]
    BY <1>1 DEF IInv, TypeOK
  <2>2. Good(seen'[e], Message \ kept'[e])
    <3>1. CASE e = d
      <4>1. /\ seen'[e] = Merged(seen[d], reply)
            /\ kept'[e] = Newer(seen[d], reply)
        BY <1>1, <3>1 DEF IInv, TypeOK
      <4> QED
        BY <1>4, <1>5, <4>1 DEF Good
    <3>2. CASE e # d
      <4>1. seen'[e] = seen[e] /\ kept'[e] = kept[e]
        BY <1>1, <3>2 DEF IInv, TypeOK
      <4> QED
        BY <4>1 DEF PlacesTrue
    <3> QED
      BY <3>1, <3>2
  <2>3. \A list \in replies'[e] : Good(list, Message)
    BY <2>1 DEF PlacesTrue
  <2> QED
    BY <1>1, <1>6, <2>2, <2>3 DEF Good, PlacesOf, SentOf, Before
<1> QED
  BY <1>7 DEF PlacesTrue

LEMMA InitPlaces == Init => PlacesTrue
  BY DEF Init, PlacesTrue, Good, PlacesOf, SentOf, Blank

LEMMA NextPlaces ==
    ASSUME IInv, PlacesTrue, [Next]_vars PROVE PlacesTrue'
<1>1. ASSUME NEW m \in Message, Arrival(m) PROVE PlacesTrue'
  BY <1>1, ArrivalPlaces
<1>2. ASSUME NEW m \in Message, Outcome(m) PROVE PlacesTrue'
  BY <1>2, BecomesPlaces
     DEF Outcome, Claim, Answered, Unprepared, GivenBack, Lost, Found, Ended,
         Steered, Retry, MessageState
<1>3. ASSUME NEW d \in Device, Phone(d) PROVE PlacesTrue'
  BY <1>3, AskPlaces, ShowPlaces, ReorderPlaces, RequestPlaces DEF Phone
<1>4. CASE UNCHANGED vars
  BY <1>4, RowsPlaces DEF vars, Unmoved
<1> QED
  BY <1>1, <1>2, <1>3, <1>4 DEF Next

(* However many lists are on their way to a phone and in whatever order    *)
(* they arrive, no phone reorders messages whose order it does not show: a *)
(* message that was moved by someone else has a newer revision, and the    *)
(* request is refused (reorder_pending).  What it may misplace are the     *)
(* items that loadQueue kept when an older list came after a newer one.    *)
THEOREM NobodyReordersBlindly == Spec => []NoBlindReorder
<1>1. IInv /\ PlacesTrue /\ [Next]_vars => PlacesTrue'
  BY NextPlaces
<1>2. PlacesTrue => NoBlindReorder
  <2> SUFFICES ASSUME PlacesTrue, NEW d \in Device, Accepts(d),
                      NEW m \in ShownTo(d) \ kept[d], NEW n \in ShownTo(d) \ kept[d],
                      seen[d][m].place < seen[d][n].place
               PROVE  Before(m, n)
    BY DEF NoBlindReorder
  <2>1. PlacesOf(seen[d], Message \ kept[d])
    BY DEF PlacesTrue, Good
  <2>2. \A k \in ShownTo(d) : /\ k \in Message /\ seen[d][k].listed
                              /\ seen[d][k].revision = rows[k].revision
    BY DEF Accepts, ShownTo
  <2> QED
    BY <2>1, <2>2 DEF PlacesOf
<1> QED
  BY <1>1, <1>2, InitPlaces, ListsAreTrue, PTL DEF Spec
=============================================================================
