------------------------------- MODULE HandOver -------------------------------
(***************************************************************************)
(* What attached delivery promises a requester, with no facts, revisions,  *)
(* leases, mints or retries in it.  A session comes to one verdict, or to  *)
(* a dispute that freezes what is offered.  Of the results of the verdict  *)
(* one at a time is on offer; a correction withdraws it for good.  The     *)
(* hand-overs of the offer are numbered: everything shown under a number   *)
(* is what was on offer then, every number is settled at most once, and    *)
(* what has been settled or dismissed is handed over again only after a    *)
(* correction.  An option is a set of at most one element.                 *)
(***************************************************************************)
EXTENDS Naturals

CONSTANTS Results, Verdicts,
          VerdictOf,    \* the verdict each result is a result of
          Undecided,    \* no verdict
          Processes     \* of the requester

VARIABLES verdict, disputed,
          offer,        \* the result on offer, if any
          withdrawn,    \* results that were corrected
          number,       \* of the latest hand-over
          status,       \* of the offer: idle, out or done
          showing,      \* per process, what it was shown and has not given back
          settled       \* numbers

judgement == <<verdict, disputed>>
handing == <<number, status, showing, settled>>
hvars == <<judgement, offer, withdrawn, handing>>

Decide(v) == /\ verdict = Undecided
             /\ verdict' = v
             /\ UNCHANGED <<disputed, offer, withdrawn, handing>>

Dispute == /\ verdict # Undecided /\ ~disputed
           /\ disputed' = TRUE
           /\ UNCHANGED <<verdict, offer, withdrawn, handing>>

(* The first result, or one that corrects the result on offer.              *)
Offer(r) == /\ ~disputed /\ verdict = VerdictOf[r]
            /\ r \notin offer \cup withdrawn
            /\ offer' = {r}
            /\ withdrawn' = withdrawn \cup offer
            /\ status' = "idle"
            /\ UNCHANGED <<judgement, number, showing, settled>>

Shown == [number |-> number, results |-> offer]

(* The next hand-over, which may not reach the process; the one before it   *)
(* may have been given up without a word.                                   *)
HandOut(p) == /\ offer # {} /\ status # "done" /\ showing[p] = {}
              /\ status' = "out"
              /\ number' = number + 1
              /\ showing' \in {showing, [showing EXCEPT ![p] = {Shown'}]}
              /\ UNCHANGED <<judgement, offer, withdrawn, settled>>

ShowAgain(p) == /\ status = "out" /\ showing[p] = {}
                /\ showing' = [showing EXCEPT ![p] = {Shown}]
                /\ UNCHANGED <<judgement, offer, withdrawn, number, status, settled>>

(* A process settles under the number it was shown.                         *)
Settle(p) == /\ status = "out"
             /\ \E s \in showing[p] : /\ s.number \notin settled
                                      /\ settled' = settled \cup {s.number}
             /\ status' = "done"
             /\ UNCHANGED <<judgement, offer, withdrawn, number, showing>>

TakeBack == status = "out" /\ status' = "idle"

(* A process gives back what it was shown, perhaps to report a failure.     *)
GiveBack(p) == /\ showing' = [showing EXCEPT ![p] = {}]
               /\ UNCHANGED status \/ TakeBack
               /\ UNCHANGED <<judgement, offer, withdrawn, number, settled>>

Expire == TakeBack /\ UNCHANGED <<judgement, offer, withdrawn, number, showing, settled>>

Dismiss == /\ offer # {} /\ status # "done"
           /\ status' = "done"
           /\ UNCHANGED <<judgement, offer, withdrawn, number, showing, settled>>

Init == /\ verdict = Undecided /\ disputed = FALSE
        /\ offer = {} /\ withdrawn = {}
        /\ number = 0 /\ status = "idle" /\ settled = {}
        /\ showing = [p \in Processes |-> {}]

Next == \/ \E v \in Verdicts : Decide(v)
        \/ Dispute
        \/ \E r \in Results : Offer(r)
        \/ \E p \in Processes : HandOut(p) \/ ShowAgain(p) \/ Settle(p) \/ GiveBack(p)
        \/ Expire \/ Dismiss

Spec == Init /\ [][Next]_hvars
===============================================================================
