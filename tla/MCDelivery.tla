----------------------------- MODULE MCDelivery -----------------------------
(* Small instances of Delivery for TLC. *)
EXTENDS Delivery, TLC

CONSTANTS c1, c2

(* Every message in one conversation; the last one in the other. *)
OneConversation == [m \in Message |-> c1]
TwoConversations ==
    [m \in Message |-> IF \A n \in Message : n <= m THEN c2 ELSE c1]

(* A message is numbered by its creation, so guides are the later ones. *)
AllButFirst == {m \in Message : \E n \in Message : n < m}

(* Turn ids are interchangeable, apart from those that stream. *)
TurnSymmetry == Permutations(Turn \ Streaming)
=============================================================================
