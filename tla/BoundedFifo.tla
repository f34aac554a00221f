---------------------------- MODULE BoundedFifo ----------------------------
(***************************************************************************)
(* What one inter-core channel promises to the code on both cores: a       *)
(* first-in first-out queue of at most Capacity bytes.  "accepted" is the  *)
(* byte the producing core handed over last, "delivered" the byte the      *)
(* consuming core obtained last.  Nothing is lost, duplicated, reordered   *)
(* or altered between the two.                                             *)
(***************************************************************************)
EXTENDS Naturals, Sequences

CONSTANTS Byte,       \* the values a byte can have
          Zero,       \* the byte every cell holds before the first write
          Capacity    \* ICC_BUFFER_SIZE

VARIABLES queue, accepted, delivered

vars == <<queue, accepted, delivered>>

Init == /\ queue = << >>
        /\ accepted = Zero
        /\ delivered = Zero

Put(c) == /\ Len(queue) < Capacity
          /\ queue' = Append(queue, c)
          /\ accepted' = c
          /\ UNCHANGED delivered

Get == /\ queue # << >>
       /\ queue' = Tail(queue)
       /\ delivered' = Head(queue)
       /\ UNCHANGED accepted

Next == (\E c \in Byte : Put(c)) \/ Get

Spec == Init /\ [][Next]_vars

Fairness == WF_vars(Get)
=============================================================================
