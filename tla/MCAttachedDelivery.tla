-------------------------- MODULE MCAttachedDelivery --------------------------
(* Small instances of AttachedDelivery for TLC. *)
EXTENDS AttachedDelivery, TLC

CONSTANTS start, progress, input, done, corrected, amended, failed, clean

Lifecycle(k, r) == [kind |-> k, outcome |-> None, rev |-> r, payload |-> None]
Terminal(o, r, d) == [kind |-> "terminal", outcome |-> o, rev |-> r, payload |-> d]

(* A session with a correction at the revision of its result, another at a  *)
(* later one with the payload of the first result, a contradicting fact     *)
(* that is older than both, and a cleanup.                                  *)
FactsOfARun ==
  [e \in Facts |->
    CASE e = start -> Lifecycle("started", 3)
      [] e = progress -> Lifecycle("progress", 2)
      [] e = input -> Lifecycle("input_required", 2)
      [] e = failed -> Terminal("failed", 1, "z")
      [] e = done -> Terminal("completed", 2, "a")
      [] e = corrected -> Terminal("completed", 2, "b")
      [] e = amended -> Terminal("completed", 3, "a")
      [] e = clean -> Lifecycle("cleanup", 3)]
===============================================================================
