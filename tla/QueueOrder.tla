----------------------------- MODULE QueueOrder -----------------------------
(***************************************************************************)
(* A conversation's queue as its owner thinks of it: a list, without       *)
(* positions, revisions or phones.  "ahead" holds the pairs of waiting     *)
(* messages, the earlier one first.  New messages go to the end, work is   *)
(* taken from the front when nothing is busy, a message that was taken may *)
(* come back, and only a rearrangement changes the order of two messages   *)
(* that keep waiting.                                                      *)
(***************************************************************************)
EXTENDS FiniteSets

CONSTANTS Message,
          Unordered  \* messages that may arrive anywhere in the list

VARIABLES queue,   \* the messages that wait
          ahead,   \* pairs <<m, n>>: m is ahead of n
          arrived, \* the messages that have ever been sent
          busy,    \* the messages being sent or answered
          back     \* the messages taken that may still come back

Ordered(S, R) ==
    /\ R \subseteq S \X S
    /\ \A m, n \in S : m # n => (<<m, n>> \in R <=> <<n, m>> \notin R)
    /\ \A m \in S : <<m, m>> \notin R
    /\ \A l, m, n \in S : <<l, m>> \in R /\ <<m, n>> \in R => <<l, n>> \in R

Within(R, S) == {p \in R : p[1] \in S /\ p[2] \in S}

Init == queue = {} /\ ahead = {} /\ arrived = {} /\ busy = {} /\ back = {}

Leaves(m) == m \in queue /\ queue' = queue \ {m} /\ ahead' = Within(ahead, queue')
Enters(m) == /\ m \notin queue /\ queue' = queue \cup {m}
             /\ Ordered(queue', ahead') /\ Within(ahead', queue) = ahead

Arrive(m) == /\ m \notin arrived /\ arrived' = arrived \cup {m}
             /\ Enters(m)
             /\ m \notin Unordered => ahead' = ahead \cup (queue \X {m})
             /\ UNCHANGED <<busy, back>>

Take(m) == /\ Leaves(m) /\ \A n \in queue : <<n, m>> \notin ahead
           /\ busy = {} /\ busy' = {m} /\ back' = back \cup {m}
           /\ UNCHANGED arrived

Withdraw(m) == Leaves(m) /\ UNCHANGED <<arrived, busy, back>>

Return(m) == /\ m \in back /\ back' = back \ {m} /\ busy' = busy \ {m}
             /\ Enters(m) /\ UNCHANGED arrived

Rearrange == /\ UNCHANGED <<queue, arrived, busy, back>> /\ Ordered(queue, ahead')

(* A taken message is answered, fails, is lost, is found again or ends. *)
Settle == /\ busy' \subseteq arrived /\ back' \subseteq back
          /\ UNCHANGED <<queue, ahead, arrived>>

Next == \/ Settle \/ Rearrange
        \/ \E m \in Message : Arrive(m) \/ Take(m) \/ Withdraw(m) \/ Return(m)

Spec == Init /\ [][Next]_<<queue, ahead, arrived, busy, back>>
=============================================================================
