----------------------------- MODULE MCMBroker -----------------------------
(* Instances of MBroker for TLC: the clients of the runs. *)
EXTENDS MBroker, TLC

CONSTANTS w1, w2, w3, b, d, cb, cb2, cd, cd2, rb, rb2, ls, ls2, p1, p2, s1

Ask(code, box) == [code |-> code, box |-> box]

AllRequests == (cb :> Ask("create", b)) @@ (cb2 :> Ask("create", b))
  @@ (cd :> Ask("create", d)) @@ (cd2 :> Ask("create", d))
  @@ (rb :> Ask("remove", b)) @@ (rb2 :> Ask("remove", b))
  @@ (p1 :> Ask("publisher", b)) @@ (p2 :> Ask("publisher", b))
  @@ (s1 :> Ask("subscriber", b)) @@ (ls :> Ask("list", b)) @@ (ls2 :> Ask("list", b))
Requested == [c \in Clients |-> AllRequests[c]]

\* The publisher and the subscriber use different boxes.
BoxesRequested == [Requested EXCEPT ![p1] = Ask("publisher", d), ![s1] = Ask("subscriber", b)]

Alphabet == [n \in Names \cup {NoName} |-> CASE n = NoName -> 0 [] n = d -> 1 [] n = b -> 2]

WorkerSymmetry == Permutations(Workers)

\* One publisher sends an empty line first, the other what looks like a refusal.
Texts == [c \in Clients |-> [i \in 1 .. MaxMessages |->
            CASE i = 1 /\ c = p1 -> "empty" [] i = 1 /\ c = p2 -> "error" [] OTHER -> "line"]]

\* Each client of the sequence comes when the one before it is done.
AfterIn(sequence) ==
  [c \in Clients |-> {sequence[i] : i \in {j \in DOMAIN sequence :
                       j < Len(sequence) /\ sequence[j + 1] = c}}]

\* Managers one after the other, a publisher once a box has been removed, and a
\* subscriber once it has been created again.
OneManager == [AfterIn(<<cb, cd, cd2, ls, rb, ls2, cb2, rb2>>)
                 EXCEPT ![p1] = {ls2}, ![s1] = {cb2}]
\* Publishers once the box exists.
PublishersLast == [c \in Clients |-> IF c \in {p1, p2} THEN {cb} ELSE {}]
\* All the sessions begin after the box has been created.
BoxFirst == [c \in Clients |-> IF c = cb THEN {} ELSE {cb}]
NoOrder == [c \in Clients |-> {}]
=============================================================================
