---------------------------- MODULE OutboxTransfer ----------------------------
(***************************************************************************)
(* What outbox reconciliation promises, with no leases, hosts, transport,  *)
(* partitions or conflicts in it: an event announces one payload for ever; *)
(* the destination takes an event at most once, and takes exactly the      *)
(* payload announced; the source calls an event acknowledged only after    *)
(* the destination took it; and an event that was closed any other way is  *)
(* never opened or acknowledged again.                                     *)
(***************************************************************************)
CONSTANTS Ids, Payloads

VARIABLES announced,  \* partial function on Ids: what each event announces
          applied,    \* partial function on Ids: what the destination took
          status      \* on the announced ids: open, acked or closed

tvars == <<announced, applied, status>>

Put(f, k, v) == [x \in DOMAIN f \cup {k} |-> IF x = k THEN v ELSE f[x]]

Announce(e, p) == /\ e \notin DOMAIN announced
                  /\ announced' = Put(announced, e, p)
                  /\ status' = Put(status, e, "open")
                  /\ UNCHANGED applied

Apply(e) == /\ e \in DOMAIN announced \ DOMAIN applied
            /\ applied' = Put(applied, e, announced[e])
            /\ UNCHANGED <<announced, status>>

Acknowledge(e) == /\ e \in DOMAIN applied /\ e \in DOMAIN status
                  /\ status[e] = "open"
                  /\ status' = [status EXCEPT ![e] = "acked"]
                  /\ UNCHANGED <<announced, applied>>

Close(e) == /\ e \in DOMAIN status
            /\ status[e] # "closed"
            /\ status' = [status EXCEPT ![e] = "closed"]
            /\ UNCHANGED <<announced, applied>>

Init == /\ announced = [e \in {} |-> 0]
        /\ applied = [e \in {} |-> 0]
        /\ status = [e \in {} |-> 0]

Next == \/ \E e \in Ids, p \in Payloads : Announce(e, p)
        \/ \E e \in Ids : Apply(e) \/ Acknowledge(e) \/ Close(e)

Spec == Init /\ [][Next]_tvars

-----------------------------------------------------------------------------
(* What the protocol is for: the source calls an event acknowledged only    *)
(* when the destination took exactly what the event announced; whatever     *)
(* implements this specification inherits it.                               *)
AcknowledgedMeansApplied ==
  \A e \in DOMAIN status :
    status[e] = "acked" => e \in DOMAIN applied /\ applied[e] = announced[e]
===============================================================================
