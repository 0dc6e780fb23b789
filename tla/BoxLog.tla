------------------------------- MODULE BoxLog -------------------------------
(***************************************************************************)
(* What a broker promises of its boxes (Exercise2/mbroker/mbroker.c): a box *)
(* is a log that publishers add messages to, up to its capacity, and that  *)
(* nobody changes; a subscriber is sent the log from its beginning, as far *)
(* as it goes.                                                             *)
(***************************************************************************)
EXTENDS Naturals, Sequences, FiniteSets

CONSTANTS
  Boxes,       \* names of boxes
  Readers,     \* subscribers
  Source,      \* the box each reader has asked for
  Capacity     \* of a box, in messages

VARIABLES
  log,         \* the messages of each box
  feed         \* the messages each reader was sent

Init == /\ log = [b \in Boxes |-> <<>>]
        /\ feed = [r \in Readers |-> <<>>]

\* Of each publisher, the messages from its first on, in the order it sent them.
InOrder(messages) ==
  \A i \in DOMAIN messages :
    messages[i].nr =
      1 + Cardinality({j \in 1 .. i - 1 : messages[j].from = messages[i].from})

\* A publisher's messages are added at the end.
Publish(b) ==
  /\ Len(log'[b]) \in Len(log[b]) + 1 .. Capacity
  /\ SubSeq(log'[b], 1, Len(log[b])) = log[b]
  /\ InOrder(log'[b])
  /\ log' = [log EXCEPT ![b] = log'[b]]
  /\ UNCHANGED feed

\* A subscriber is sent more of the log.
Deliver(r) ==
  /\ \E n \in Len(feed[r]) + 1 .. Len(log[Source[r]]) :
       feed' = [feed EXCEPT ![r] = SubSeq(log[Source[r]], 1, n)]
  /\ UNCHANGED log

Next == (\E b \in Boxes : Publish(b)) \/ (\E r \in Readers : Deliver(r))

Spec == Init /\ [][Next]_<<log, feed>>
=============================================================================
