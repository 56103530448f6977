--------------------------- MODULE AttachedDelivery ---------------------------
(***************************************************************************)
(* How the result of an attached session reaches its requester: the event  *)
(* spine of HarnessSession, the mint of the run's one delivery intent that *)
(* follows the ingest of a terminal fact under a lock of its own           *)
(* (agent_eval/session_spine.rs, delivery_ops.rs), and the intent's state  *)
(* machine (db/delivery_intents.rs) under the requester's processes.       *)
(*                                                                         *)
(* The intent binds the agent and the host of the attachment; everybody    *)
(* else gets "not found" and writes nothing, so the processes here are     *)
(* those of that one host, which share its claims: the holder recorded on  *)
(* a claim is the host, and all a process has of its own is the receipt it *)
(* was shown.  A claim key stands for the one attempt it started, and an   *)
(* acknowledgement's key is derived from the receipt, (delivery_id,        *)
(* attempt_count), on which hosts are told to deduplicate their sends.     *)
(*                                                                         *)
(* A call runs under the store lock of the one daemon, hence one action;   *)
(* a refused call writes nothing.                                          *)
(***************************************************************************)
EXTENDS HarnessSession

CONSTANTS Procs,       \* processes of the requester's host
          MaxFaults    \* bound: mints and answers lost, processes that die, leases that
                       \* run out under a process at work, sends reported as failed

ASSUME BoundsAssumption == MaxFaults \in Nat

VARIABLES pending,   \* facts whose ingest has returned and whose mint is to come
          intent,    \* the delivery_intents row and its ledger of acknowledgement keys
          receipt,   \* the claim each process was shown
          faults,    \* what MaxFaults bounds
          replaced,  \* history: facts whose result a correction has replaced
          credits    \* history: acknowledgements accepted, the nth for a receipt, and whether
                     \* one that came with its revision went to the result it shows

delivery == <<intent, receipt, faults, replaced, credits>>
vars == <<journal, session, shown, pending, intent, receipt, faults, replaced, credits>>

TerminalFacts == {e \in Facts : Fact[e].kind = "terminal"}

IntentStates == {"ready", "requester_queued", "delivered", "blocked", "retrying", "dismissed"}

IntentRows == [from : Facts, result_revision : Nat, revision : Nat, state : IntentStates,
               attempts : Nat, acks : SUBSET Nat, lapsed : BOOLEAN, due : BOOLEAN]

Receipts == [attempt : Nat, revision : Nat, from : Facts]

ASSUME NoneAssumption == None \notin IntentRows \cup Receipts

Fault == faults < MaxFaults /\ faults' = faults + 1

-----------------------------------------------------------------------------
(* The gate of handle_ingest_session_event: a terminal fact that is not     *)
(* stale, or a replay of any terminal fact, under a consistent terminal.    *)
Gated(e, row) == Fact[e].kind = "terminal" /\ row.state \in Outcomes

ReportFact(e) ==
  /\ ingest_harness_session_event(e)
  /\ pending' = IF Gated(e, session') /\ ~Stale(session, Fact[e]) THEN pending \cup {e} ELSE pending
  /\ UNCHANGED delivery

(* A replay that only reports the projection.                               *)
ReadOnlyReplay(e) == e \in journal /\ UNCHANGED vars

(* A replay journals nothing and re-attempts the mint.                      *)
ReplayFact(e) ==
  /\ e \in journal
  /\ Gated(e, session)
  /\ pending' = pending \cup {e}
  /\ UNCHANGED <<spine, delivery>>

ReportGone ==
  /\ mark_harness_session_connection
  /\ UNCHANGED <<pending, delivery>>

-----------------------------------------------------------------------------
MintRevision(e) == Larger(Fact[e].rev, 1)

(* A correction keeps the claim that is out on the intent.                  *)
ClaimKeepingSupersede(i, e) ==
  [i EXCEPT !.from = e, !.result_revision = Larger(MintRevision(e), i.result_revision + 1),
            !.revision = i.revision + 1]

supersede_intent(i, e) ==
  [i EXCEPT !.from = e, !.result_revision = Larger(MintRevision(e), i.result_revision + 1),
            !.revision = i.revision + 1, !.state = "ready", !.lapsed = FALSE, !.due = FALSE]

(* The arms of reconcile_mint a correction-authoritative mint can take.     *)
reconcile_mint(i, e) ==
  IF Fact[i.from].payload = Fact[e].payload THEN i ELSE supersede_intent(i, e)

NewIntent(e) == [from |-> e, result_revision |-> MintRevision(e), revision |-> 1,
                 state |-> "ready", attempts |-> 0, acks |-> {}, lapsed |-> FALSE, due |-> FALSE]

(* A mint that relies on the check made when the fact was ingested.         *)
UncheckedMint(e) == session.revision <= Fact[e].rev

(* A mint that looks at the state of the projection only.                   *)
AgelessMint(e) == session.state \in Outcomes

(* What mint_delivery_for_attached_terminal checks again under the lock.    *)
StillCanonical(e) == session.state \in Outcomes /\ session.revision <= Fact[e].rev

(* A mint without the comparison with the revision of the intent.           *)
ForgetfulNotOutdone(e) == TRUE

NotOutdone(e) == intent = None \/ intent.result_revision <= MintRevision(e)

mint_delivery_for_attached_terminal(e) ==
  /\ e \in pending
  /\ pending' = pending \ {e}
  /\ intent' = IF StillCanonical(e) /\ NotOutdone(e)
               THEN IF intent = None THEN NewIntent(e) ELSE reconcile_mint(intent, e)
               ELSE intent
  /\ replaced' = IF intent # None /\ intent'.from # intent.from
                 THEN replaced \cup {intent.from} ELSE replaced
  /\ UNCHANGED <<spine, receipt, faults, credits>>

(* A mint that fails is logged and dropped, and so is one that a dying      *)
(* daemon did not come to.                                                  *)
LoseMint(e) ==
  /\ e \in pending
  /\ Fault
  /\ pending' = pending \ {e}
  /\ UNCHANGED <<spine, intent, receipt, replaced, credits>>

-----------------------------------------------------------------------------
release_expired(i) ==
  IF i.state = "requester_queued" /\ i.lapsed
  THEN [i EXCEPT !.state = "ready", !.revision = i.revision + 1, !.lapsed = FALSE]
  ELSE i

claimable_state(i) == i.state = "ready" \/ (i.state = "retrying" /\ i.due)

Receipt(i) == [attempt |-> i.attempts, revision |-> i.revision, from |-> i.from]

(* A claim that forgets to clear the schedule of the retry it is.           *)
ScheduledClaim(i) ==
  [i EXCEPT !.state = "requester_queued", !.attempts = i.attempts + 1, !.revision = i.revision + 1]

transition_to_claimed(i) ==
  [i EXCEPT !.state = "requester_queued", !.attempts = i.attempts + 1,
            !.revision = i.revision + 1, !.due = FALSE]

(* A claim under a fresh key; its answer may be lost, which is a fault.     *)
claim_ready_delivery(p) ==
  /\ intent # None /\ receipt[p] = None
  /\ claimable_state(release_expired(intent))
  /\ intent' = transition_to_claimed(release_expired(intent))
  /\ \/ receipt' = [receipt EXCEPT ![p] = Receipt(intent')] /\ UNCHANGED faults
     \/ Fault /\ UNCHANGED receipt
  /\ UNCHANGED <<spine, pending, replaced, credits>>

(* The key of the claim that is out, again, by whoever of the host has it.  *)
resolve_claim_key_replay(p) ==
  /\ intent # None /\ receipt[p] = None
  /\ intent.state = "requester_queued"
  /\ receipt' = [receipt EXCEPT ![p] = Receipt(intent)]
  /\ UNCHANGED <<spine, pending, intent, faults, replaced, credits>>

(* expected_revision is optional.                                           *)
Expected(p, pinned) == pinned => receipt[p].revision = intent.revision

(* An acknowledgement that does not look its key up.                        *)
UnkeyedAck(p, pinned) ==
  receipt[p] # None /\ intent.state = "requester_queued" /\ Expected(p, pinned)

AckAdmitted(p, pinned) ==
  /\ receipt[p] # None
  /\ intent.state = "requester_queued"
  /\ Expected(p, pinned)
  /\ receipt[p].attempt \notin intent.acks

(* The process keeps its receipt, for the answer may be lost, and then it   *)
(* acknowledges again.                                                      *)
ack_delivered(p, pinned) ==
  /\ AckAdmitted(p, pinned)
  /\ intent' = [intent EXCEPT !.state = "delivered", !.revision = intent.revision + 1,
                              !.acks = @ \cup {receipt[p].attempt}, !.lapsed = FALSE]
  /\ credits' = credits \cup {[attempt |-> receipt[p].attempt,
                               nth |-> 1 + Cardinality({c \in credits : c.attempt = receipt[p].attempt}),
                               earned |-> pinned => receipt[p].from = intent.from]}
  /\ UNCHANGED <<spine, pending, receipt, faults, replaced>>

(* transport_failure and requester_unavailable are retried, any other       *)
(* class parks the intent.                                                  *)
reject_or_block(p, pinned, retryable) ==
  /\ receipt[p] # None
  /\ intent.state = "requester_queued"
  /\ Expected(p, pinned)
  /\ Fault
  /\ intent' = [intent EXCEPT !.state = IF retryable THEN "retrying" ELSE "blocked",
                              !.revision = intent.revision + 1, !.lapsed = FALSE]
  /\ receipt' = [receipt EXCEPT ![p] = None]
  /\ UNCHANGED <<spine, pending, replaced, credits>>

(* The process has nothing left to do for its claim: an acknowledgement     *)
(* would be refused or suppressed as a duplicate.                           *)
MoveOn(p) ==
  /\ receipt[p] # None
  /\ \E pinned \in BOOLEAN : ~AckAdmitted(p, pinned)
  /\ receipt' = [receipt EXCEPT ![p] = None]
  /\ UNCHANGED <<spine, pending, intent, faults, replaced, credits>>

ProcessDies(p) ==
  /\ receipt[p] # None
  /\ Fault
  /\ receipt' = [receipt EXCEPT ![p] = None]
  /\ UNCHANGED <<spine, pending, intent, replaced, credits>>

(* A re-arm that does not ask whether the intent is parked.                 *)
EagerRearm(i) ==
  IF i.state # "ready" THEN [i EXCEPT !.state = "ready", !.revision = i.revision + 1] ELSE i

rearm_blocked(i) ==
  IF i.state = "blocked" THEN [i EXCEPT !.state = "ready", !.revision = i.revision + 1] ELSE i

resume_requester_operation(rearm) ==
  /\ intent # None
  /\ intent' = IF rearm THEN rearm_blocked(release_expired(intent)) ELSE release_expired(intent)
  /\ UNCHANGED <<spine, pending, receipt, faults, replaced, credits>>

(* An expected_revision only refuses more.                                  *)
dismiss_delivery ==
  /\ intent # None
  /\ intent.state \notin {"delivered", "dismissed"}
  /\ intent' = [intent EXCEPT !.state = "dismissed", !.revision = intent.revision + 1,
                              !.lapsed = FALSE, !.due = FALSE]
  /\ UNCHANGED <<spine, pending, receipt, faults, replaced, credits>>

Abandoned == \A p \in Procs : receipt[p] = None \/ receipt[p].attempt # intent.attempts

(* Time passes: claim_expires_at, next_retry_at.                            *)
LeaseRunsOut ==
  /\ intent # None
  /\ intent.state = "requester_queued" /\ ~intent.lapsed
  /\ IF Abandoned THEN UNCHANGED faults ELSE Fault
  /\ intent' = [intent EXCEPT !.lapsed = TRUE]
  /\ UNCHANGED <<spine, pending, receipt, replaced, credits>>

RetryComesDue ==
  /\ intent # None
  /\ intent.state = "retrying" /\ ~intent.due
  /\ intent' = [intent EXCEPT !.due = TRUE]
  /\ UNCHANGED <<spine, pending, receipt, faults, replaced, credits>>

-----------------------------------------------------------------------------
Init ==
  /\ SpineInit
  /\ pending = {} /\ intent = None
  /\ receipt = [p \in Procs |-> None]
  /\ faults = 0
  /\ replaced = {} /\ credits = {}

Host(p) ==
  \/ claim_ready_delivery(p)
  \/ resolve_claim_key_replay(p)
  \/ \E pinned \in BOOLEAN : ack_delivered(p, pinned)
  \/ \E pinned, retryable \in BOOLEAN : reject_or_block(p, pinned, retryable)
  \/ MoveOn(p)
  \/ ProcessDies(p)

Next ==
  \/ \E e \in Facts : ReportFact(e) \/ ReplayFact(e)
  \/ ReportGone
  \/ \E e \in Facts : mint_delivery_for_attached_terminal(e) \/ LoseMint(e)
  \/ \E p \in Procs : Host(p)
  \/ \E rearm \in BOOLEAN : resume_requester_operation(rearm)
  \/ dismiss_delivery
  \/ LeaseRunsOut
  \/ RetryComesDue

Spec == Init /\ [][Next]_vars

(* The host replays what it reported, the daemon goes on from an ingest to  *)
(* its mint, a process claims what is ready and acknowledges what it was    *)
(* shown, and time passes.                                                  *)
Fairness ==
  /\ \A e \in TerminalFacts : WF_vars(ReplayFact(e)) /\ WF_vars(mint_delivery_for_attached_terminal(e))
  /\ \A p \in Procs : /\ WF_vars(claim_ready_delivery(p))
                      /\ WF_vars(\E pinned \in BOOLEAN : ack_delivered(p, pinned))
                      /\ WF_vars(MoveOn(p))
  /\ WF_vars(LeaseRunsOut) /\ WF_vars(RetryComesDue)

FairSpec == Spec /\ Fairness

-----------------------------------------------------------------------------
TypeOK ==
  /\ SpineTypeOK
  /\ pending \subseteq {e \in journal : Fact[e].kind = "terminal"}
  /\ intent \in IntentRows \cup {None}
  /\ intent # None =>
       /\ intent.from \in journal
       /\ intent.lapsed => intent.state = "requester_queued"
       /\ intent.due => intent.state = "retrying"
  /\ receipt \in [Procs -> [attempt : Nat, revision : Nat, from : journal] \cup {None}]
  /\ \A p \in Procs : receipt[p] # None => intent # None /\ receipt[p].attempt <= intent.attempts
  /\ faults \in 0 .. MaxFaults
  /\ replaced \subseteq journal
  /\ credits \subseteq [attempt : Nat, nth : Nat, earned : BOOLEAN] /\ IsFiniteSet(credits)

(* The result offered to the requester is a fact with the very outcome the  *)
(* spine has recorded, even though any journaled terminal fact, the ones    *)
(* that were stale when they came included, passes the gate of the mint     *)
(* when it is replayed (the Older-information guard of                      *)
(* mint_delivery_for_attached_terminal).                                    *)
IntentTellsTheTerminal ==
  intent # None => /\ Fact[intent.from].kind = "terminal"
                   /\ Fact[intent.from].outcome = session.terminal

(* Once the terminal facts contradict each other nothing new is offered:    *)
(* an ingest that passed the gate before the contradiction does not mint    *)
(* after it ("#1623 adjudication owns those states; delivery waits").       *)
ConflictFreezesTheResult ==
  [][session.state = "inconsistent_reconciling" /\ intent' # intent =>
       intent # None /\ intent'.from = intent.from]_vars

(* A result that a correction has replaced does not come back, however      *)
(* often the fact it came from is replayed ("Stale cannot regress ... a     *)
(* stale delivery can never overwrite a newer ref").                        *)
ReplacedStaysReplaced == intent # None => intent.from \notin replaced

(* The receipt identity (delivery_id, attempt_count) names one result: no   *)
(* two processes of a host hold receipts of one attempt for different       *)
(* results, although the result may be corrected while a claim is out and   *)
(* the claim's key be replayed after that.  Hosts that deduplicate their    *)
(* sends on it lose no correction.                                          *)
ReceiptPinsContent ==
  \A p, q \in Procs :
    receipt[p] # None /\ receipt[q] # None /\ receipt[p].attempt = receipt[q].attempt =>
      receipt[p].from = receipt[q].from

(* An acknowledgement settles what it was given for: a receipt is credited  *)
(* at most once, however often its acknowledgement is repeated and whatever *)
(* claim is out by then, and one that came with the revision of the receipt *)
(* is credited to the result the receipt shows (ack_delivered).             *)
CreditIsEarned ==
  \A c \in credits : c.earned /\ c.nth = 1

(* The newest result: no other terminal fact is as new, and nothing later   *)
(* has raised the revision of the row over it.                              *)
Newest(e) ==
  /\ e \in journal /\ Gated(e, session)
  /\ Fact[e].rev >= session.revision
  /\ \A d \in journal :
       Fact[d].kind = "terminal" /\ Fact[d].payload # Fact[e].payload => Fact[d].rev < Fact[e].rev

Answered(e) ==
  /\ intent # None
  /\ Fact[intent.from].payload = Fact[e].payload
  /\ intent.state \in {"delivered", "dismissed", "blocked"}

(* The newest result of a session whose terminal facts agree is eventually  *)
(* acknowledged, dismissed or parked and stays so, whatever mint, answer or *)
(* process is lost on the way, as long as it is the newest ("Replayed       *)
(* admissions DO re-attempt the mint"; a lost acknowledgement is recovered  *)
(* by the expiry of the claim).                                             *)
NewestResultIsAnswered == <>[](\A e \in TerminalFacts : Newest(e) => Answered(e))

-----------------------------------------------------------------------------
(* The abstract promise, read off the row of the session and the intent.    *)
Status(i) == CASE i.state = "requester_queued" -> "out"
               [] i.state \in {"delivered", "dismissed"} -> "done"
               [] OTHER -> "idle"

HandOver ==
  INSTANCE HandOver
    WITH Results <- Facts, Verdicts <- Outcomes, Undecided <- None, Processes <- Procs,
         VerdictOf <- [e \in Facts |-> Fact[e].outcome],
         verdict <- session.terminal,
         disputed <- session.conflicting # None,
         offer <- IF intent = None THEN {} ELSE {intent.from},
         withdrawn <- replaced,
         number <- IF intent = None THEN 0 ELSE intent.attempts,
         status <- IF intent = None THEN "idle" ELSE Status(intent),
         showing <- [p \in Procs |->
                      IF receipt[p] = None THEN {}
                      ELSE {[number |-> receipt[p].attempt, results |-> {receipt[p].from}]}],
         settled <- IF intent = None THEN {} ELSE intent.acks

(* The spine, the mints that lag behind it, the claims and their leases     *)
(* together implement the abstract hand-over: one verdict and its results   *)
(* only, nothing new under a dispute, no corrected result again, one result *)
(* and one settlement per claim, and nothing that was delivered or          *)
(* dismissed is claimed again before it is corrected.                       *)
ImplementsHandOver == HandOver!Spec
===============================================================================
