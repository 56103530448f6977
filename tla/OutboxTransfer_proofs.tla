------------------------- MODULE OutboxTransfer_proofs -------------------------
(* What every implementation of the abstract transfer can rely on. *)
EXTENDS OutboxTransfer, TLAPS

(* Everything that was taken is what was announced. *)
Faithful ==
  /\ DOMAIN status = DOMAIN announced
  /\ \A e \in DOMAIN applied : e \in DOMAIN announced /\ applied[e] = announced[e]

IInv == Faithful /\ AcknowledgedMeansApplied

LEMMA InitFaithful == Init => IInv
  BY DEF Init, IInv, Faithful, AcknowledgedMeansApplied

LEMMA NextFaithful == IInv /\ [Next]_tvars => IInv'
  <1> SUFFICES ASSUME IInv, [Next]_tvars PROVE IInv'
    OBVIOUS
  <1>1. ASSUME NEW e \in Ids, NEW p \in Payloads, Announce(e, p) PROVE IInv'
    BY <1>1 DEF IInv, Faithful, AcknowledgedMeansApplied, Announce, Put
  <1>2. ASSUME NEW e \in Ids, Apply(e) PROVE IInv'
    BY <1>2 DEF IInv, Faithful, AcknowledgedMeansApplied, Apply, Put
  <1>3. ASSUME NEW e \in Ids, Acknowledge(e) PROVE IInv'
    BY <1>3 DEF IInv, Faithful, AcknowledgedMeansApplied, Acknowledge
  <1>4. ASSUME NEW e \in Ids, Close(e) PROVE IInv'
    BY <1>4 DEF IInv, Faithful, AcknowledgedMeansApplied, Close
  <1>5. CASE UNCHANGED tvars
    BY <1>5 DEF IInv, Faithful, AcknowledgedMeansApplied, tvars
  <1> QED  BY <1>1, <1>2, <1>3, <1>4, <1>5 DEF Next

(* An acknowledgement stands for a payload that was taken, exactly as its   *)
(* event announced it, for any events and payloads.  OutboxDelivery         *)
(* implements the transfer, so this holds of both stores with their         *)
(* crashing loops and their transport (apply_outbox_destination and         *)
(* apply_outbox_outcome together).                                         *)
THEOREM AcknowledgedStandsForApplied == Spec => []AcknowledgedMeansApplied
  <1>1. IInv => AcknowledgedMeansApplied
    BY DEF IInv
  <1> QED  BY <1>1, InitFaithful, NextFaithful, PTL DEF Spec
===============================================================================
