---------------------------- MODULE ResultStream ----------------------------
(***************************************************************************)
(* What the caller of a remote method is promised: it sees what the method *)
(* produced, in order and without gaps; it is told of a clean end only     *)
(* when the method has ended without an error and everything was seen; and *)
(* it may be told of a failure at any time.                                *)
(***************************************************************************)
EXTENDS Sequences, Naturals

CONSTANT Limit  \* how many results a method can produce

VARIABLES
  produced,  \* the results so far
  outcome,   \* of the method: "open", "ok" or "failed"
  seen,      \* what the caller has received
  status     \* of the caller: "open", "complete" or "failed"

vars == <<produced, outcome, seen, status>>

Init == produced = <<>> /\ outcome = "open" /\ seen = <<>> /\ status = "open"

\* One more result; results are numbered, so that order and loss show.
Produced == Len(produced) < Limit /\ produced' = Append(produced, Len(produced) + 1)

Produce ==
  /\ outcome = "open" /\ Produced
  /\ UNCHANGED <<outcome, seen, status>>

\* The last result may come with the end.
Finish ==
  /\ outcome = "open" /\ outcome' \in {"ok", "failed"}
  /\ Produced \/ UNCHANGED produced
  /\ UNCHANGED <<seen, status>>

Observe ==
  /\ status = "open"
  /\ \E n \in Len(seen) .. Len(produced) : seen' = SubSeq(produced, 1, n)
  /\ UNCHANGED <<produced, outcome, status>>

Complete ==
  /\ status = "open" /\ outcome = "ok"
  /\ seen' = produced
  /\ status' = "complete"
  /\ UNCHANGED <<produced, outcome>>

Fail ==
  /\ status = "open"
  /\ status' = "failed"
  /\ UNCHANGED <<produced, outcome, seen>>

Next == Produce \/ Finish \/ Observe \/ Complete \/ Fail

Spec == Init /\ [][Next]_vars
=============================================================================
