--------------------------- MODULE SignalMailbox ---------------------------
(***************************************************************************)
(* What the signal channel of an agent promises to the operator: signals   *)
(* wait in the order they were sent, and each takes effect once, in that   *)
(* order.                                                                  *)
(***************************************************************************)
EXTENDS Naturals, Sequences

CONSTANT Signals   \* what can be sent

VARIABLES
  box,   \* the signals that wait, oldest first
  out    \* the signals that took effect, in that order

vars == <<box, out>>

TypeOK == box \in Seq(Signals) /\ out \in Seq(Signals)

Init == box = <<>> /\ out = <<>>

Send(s) == box' = Append(box, s) /\ UNCHANGED out

Deliver == /\ box # <<>>
           /\ out' = Append(out, Head(box))
           /\ box' = Tail(box)

Next == Deliver \/ \E s \in Signals : Send(s)

Spec == Init /\ [][Next]_vars
=============================================================================
