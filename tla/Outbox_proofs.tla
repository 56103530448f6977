----------------------------- MODULE Outbox_proofs -----------------------------
(***************************************************************************)
(* Theorems about Outbox, for every set of events, objects, hosts and      *)
(* bounds: type correctness, the two invariants of its runs, and the       *)
(* action properties about recorded outcomes, leases and withdrawals.      *)
(***************************************************************************)
EXTENDS Outbox, FiniteSetTheorems, TLAPS

(* The tokens a caller can spell are classes, and NULL is none of them. *)
LEMMA ClassFacts ==
  /\ CallerClasses \subseteq Class
  /\ LocalWinsClass \in Class /\ LocalWinsClass # NoClass /\ IsReserved(LocalWinsClass)
  /\ \A r \in Reasons : /\ RemoteWinsClass(r) \in Class
                        /\ RemoteWinsClass(r) # NoClass
                        /\ IsReserved(RemoteWinsClass(r))
                        /\ RemoteWinsClass(r).tag = "remote_wins"
  /\ LocalWinsClass.tag = "local_wins"
  /\ ~IsReserved(NoClass) /\ NoClass.tag = "none"
  /\ NoClass \notin Class
BY DEF CallerClasses, Class, LocalWinsClass, RemoteWinsClass, NoClass, IsReserved, NoReason

(* A transition rewrites state, class and stamp, and nothing else. *)
LEMMA TransitionedFacts ==
  ASSUME NEW row \in EventRow, NEW to \in OutboxState, NEW c \in Class \cup {NoClass},
         now \in 0 .. MaxTime
  PROVE  /\ Transitioned(row, to, c) \in EventRow
         /\ Transitioned(row, to, c).state = to
         /\ Transitioned(row, to, c).class = c
         /\ Transitioned(row, to, c).changed = now
         /\ Transitioned(row, to, c).obj = row.obj
         /\ Transitioned(row, to, c).digest = row.digest
         /\ Transitioned(row, to, c).created = row.created
BY DEF Transitioned, EventRow

(* A new event is a pending row without a class. *)
LEMMA NewEventFacts ==
  ASSUME NEW o \in Objects, NEW d \in Row, now \in 0 .. MaxTime
  PROVE  /\ NewEvent(o, d) \in EventRow
         /\ NewEvent(o, d).state = "pending"
         /\ NewEvent(o, d).class = NoClass
         /\ NewEvent(o, d).obj = o
         /\ NewEvent(o, d).digest = d
BY DEF NewEvent, EventRow, OutboxState

(* What an upsert leaves is a row. *)
LEMMA UpsertedIsRow ==
  ASSUME TypeOK, NEW o \in Objects, NEW v \in Values, CanUpsert(o)
  PROVE  upserted(o, v) \in Row
<1>1. CASE o \in DOMAIN objects
  <2>1. objects[o].rev \in 1 .. MaxRevision /\ objects[o].rev < MaxRevision
    BY <1>1 DEF TypeOK, Row, CanUpsert
  <2>2. objects[o].rev + 1 \in 1 .. MaxRevision
    BY <2>1, BoundsAssumption
  <2> QED BY <1>1, <2>2 DEF upserted, Row
<1>2. CASE o \notin DOMAIN objects
  <2>1. 1 \in 1 .. MaxRevision
    BY BoundsAssumption
  <2> QED BY <1>2, <2>1 DEF upserted, Row
<1> QED BY <1>1, <1>2

(* An outcome is a state of the machine and a class that fits a row. *)
LEMMA OutcomeFacts ==
  ASSUME NEW outcome \in Outcomes
  PROVE  /\ outcome.state \in {"acknowledged", "rejected", "conflicted"}
         /\ outcome.class \in Class \cup {NoClass}
BY ClassFacts DEF Outcomes

-------------------------------------------------------------------------------
(* Type correctness: TypeOK is inductive on its own. *)
THEOREM TypeCorrect == Spec => []TypeOK
<1>1. Init => TypeOK
  <2> SUFFICES ASSUME Init PROVE TypeOK
    OBVIOUS
  <2>1. Idle \in Request
    BY DEF Idle, Request
  <2> QED BY <2>1, BoundsAssumption DEF Init, TypeOK
<1>2. TypeOK /\ [Next]_vars => TypeOK'
  <2> SUFFICES ASSUME TypeOK, [Next]_vars PROVE TypeOK'
    OBVIOUS
  <2> USE DEF TypeOK
  <2>0. now \in 0 .. MaxTime /\ now \in Nat
    BY BoundsAssumption
  <2>1. ASSUME NEW o \in Objects, NEW v \in Values, upsert(o, v) PROVE TypeOK'
    <3>1. upserted(o, v) \in Row
      BY <2>1, UpsertedIsRow DEF upsert
    <3>2. objects' = Put(objects, o, upserted(o, v)) /\ UNCHANGED <<now, log, request>>
      BY <2>1 DEF upsert
    <3> HIDE DEF TypeOK
    <3>3. DOMAIN objects' \subseteq Objects /\ \A x \in DOMAIN objects' : objects'[x] \in Row
      BY <3>1, <3>2 DEF Put, TypeOK
    <3> QED BY <3>2, <3>3 DEF TypeOK
  <2>2. ASSUME NEW o \in Objects, delete(o) PROVE TypeOK'
    BY <2>2 DEF delete
  <2>3. ASSUME NEW e \in EventId, NEW o \in Objects, NEW v \in Values,
               commit_with_outbox_event(e, o, v)
        PROVE  TypeOK'
    <3>1. upserted(o, v) \in Row /\ NewEvent(o, upserted(o, v)) \in EventRow
      BY <2>0, <2>3, UpsertedIsRow, NewEventFacts DEF commit_with_outbox_event
    <3> QED BY <2>3, <3>1 DEF Put, commit_with_outbox_event
  <2>4. ASSUME NEW h \in Hosts, NEW n \in Limits, NEW rc \in BOOLEAN, NEW b \in Nat,
               BeginClaim(h, n, rc, b)
        PROVE  TypeOK'
    <3>1. [active |-> TRUE, limit |-> n, reclaim |-> rc, bound |-> b, at |-> now] \in Request
      BY <2>0, DrainAssumption DEF Request
    <3> QED BY <2>4, <3>1 DEF BeginClaim
  <2>5. ASSUME NEW h \in Hosts, AbandonClaim(h) PROVE TypeOK'
    <3>1. Idle \in Request
      BY DEF Idle, Request
    <3> QED BY <2>5, <3>1 DEF AbandonClaim
  <2>6. ASSUME NEW h \in Hosts, ClaimTx(h) PROVE TypeOK'
    <3>1. Idle \in Request
      BY DEF Idle, Request
    <3>2. \A e \in DOMAIN log : Transitioned(log[e], "in_flight", NoClass) \in EventRow
      BY <2>0, TransitionedFacts DEF OutboxState
    <3> QED BY <2>6, <3>1, <3>2 DEF ClaimTx
  <2>7. ASSUME NEW e \in EventId, NEW to \in OutboxState, NEW c \in Class \cup {NoClass},
               e \in DOMAIN log, log' = [log EXCEPT ![e] = Transitioned(log[e], to, c)],
               UNCHANGED <<now, objects, request>>
        PROVE  TypeOK'
    <3>1. Transitioned(log[e], to, c) \in EventRow
      BY <2>0, <2>7, TransitionedFacts
    <3> QED BY <2>7, <3>1
  <2>8. ASSUME NEW e \in EventId, NEW outcome \in Outcomes, apply_outbox_outcome(e, outcome)
        PROVE  TypeOK'
    BY <2>7, <2>8, OutcomeFacts DEF apply_outbox_outcome, OutboxState
  <2>9. ASSUME NEW e \in EventId, resolve_local_wins(e) PROVE TypeOK'
    <3> DEFINE row == Transitioned(log[e], "quarantined", LocalWinsClass)
               new == NewEvent(log[e].obj, objects[log[e].obj])
    <3>1. log[e] \in EventRow /\ log[e].obj \in Objects /\ objects[log[e].obj] \in Row
      BY <2>9 DEF resolve_local_wins, EventRow
    <3>2. row \in EventRow /\ new \in EventRow
      BY <2>0, <3>1, TransitionedFacts, NewEventFacts, ClassFacts DEF OutboxState
    <3>3. Successor(e) \in EventId
      BY <2>9, BoundsAssumption DEF resolve_local_wins, Successor, EventId
    <3>4. log' = Put([log EXCEPT ![e] = row], Successor(e), new)
      BY <2>9 DEF resolve_local_wins
    <3> HIDE DEF row, new
    <3>5. DOMAIN log' \subseteq EventId /\ \A d \in DOMAIN log' : log'[d] \in EventRow
      BY <3>2, <3>3, <3>4 DEF Put
    <3> QED BY <2>9, <3>5 DEF resolve_local_wins
  <2>10. ASSUME NEW e \in EventId, NEW r \in Reasons, resolve_remote_wins(e, r) PROVE TypeOK'
    BY <2>7, <2>10, ClassFacts DEF resolve_remote_wins, OutboxState
  <2>11. ASSUME NEW e \in EventId, NEW to \in OutboxState, NEW c \in CallerClasses \cup {NoClass},
                transition_outbox_event(e, to, c)
         PROVE  TypeOK'
    BY <2>7, <2>11, ClassFacts DEF transition_outbox_event
  <2>12. ASSUME Tick PROVE TypeOK'
    BY <2>0, <2>12, BoundsAssumption DEF Tick
  <2>13. ASSUME UNCHANGED vars PROVE TypeOK'
    BY <2>13 DEF vars
  <2> QED
    BY <2>1, <2>2, <2>3, <2>4, <2>5, <2>6, <2>8, <2>9, <2>10, <2>11, <2>12, <2>13,
       DrainAssumption DEF Next
<1> QED BY <1>1, <1>2, PTL DEF Spec

-------------------------------------------------------------------------------
(* One row takes one edge of the frozen machine, with the class the machine *)
(* asks for; a reserved class only as the RemoteWins decision of a conflict.*)
OneTransition ==
  \E e \in DOMAIN log, to \in OutboxState, c \in Class \cup {NoClass} :
    /\ log' = [log EXCEPT ![e] = Transitioned(log[e], to, c)]
    /\ can_transition_to(log[e].state, to)
    /\ is_failure(to) <=> c # NoClass
    /\ IsReserved(c) => /\ log[e].state = "conflicted"
                        /\ to = "quarantined"
                        /\ c.tag = "remote_wins"

(* One caller-minted event joins the log. *)
OneCommit ==
  \E e \in CallerIds \ DOMAIN log, o \in Objects, d \in Row :
    log' = Put(log, e, NewEvent(o, d))

(* However a step is made, it does one of five things to the log. *)
LEMMA LogStep ==
  ASSUME TypeOK, [Next]_vars
  PROVE  \/ log' = log
         \/ OneCommit
         \/ \E h \in Hosts : ClaimTx(h)
         \/ OneTransition
         \/ \E e \in EventId : resolve_local_wins(e)
<1>1. ASSUME NEW e \in EventId, NEW o \in Objects, NEW v \in Values,
             commit_with_outbox_event(e, o, v)
      PROVE  OneCommit
  BY <1>1, UpsertedIsRow DEF commit_with_outbox_event, OneCommit
<1>2. ASSUME NEW e \in EventId, NEW outcome \in Outcomes, apply_outbox_outcome(e, outcome)
      PROVE  OneTransition
  <2>1. can_transition_to("in_flight", outcome.state) /\ outcome.state \in OutboxState
    BY OutcomeFacts DEF can_transition_to, OutboxState
  <2> QED BY <1>2, <2>1, OutcomeFacts
          DEF apply_outbox_outcome, OneTransition, class_admitted
<1>3. ASSUME NEW e \in EventId, NEW r \in Reasons, resolve_remote_wins(e, r)
      PROVE  OneTransition
  <2>1. /\ can_transition_to("conflicted", "quarantined")
        /\ is_failure("quarantined")
        /\ "quarantined" \in OutboxState
    BY DEF can_transition_to, is_failure, OutboxState
  <2> QED BY <1>3, <2>1, ClassFacts DEF resolve_remote_wins, OneTransition
<1>4. ASSUME NEW e \in EventId, NEW to \in OutboxState, NEW c \in CallerClasses \cup {NoClass},
             transition_outbox_event(e, to, c)
      PROVE  OneTransition
  BY <1>4, ClassFacts DEF transition_outbox_event, OneTransition, class_admitted
<1>5. (\E o \in Objects, v \in Values : upsert(o, v)) => log' = log
  BY DEF upsert
<1>6. (\E o \in Objects : delete(o)) => log' = log
  BY DEF delete
<1>7. ASSUME NEW h \in Hosts, NEW n, NEW rc, NEW b, BeginClaim(h, n, rc, b) \/ AbandonClaim(h)
      PROVE  log' = log
  BY <1>7 DEF BeginClaim, AbandonClaim
<1>8. Tick \/ UNCHANGED vars => log' = log
  BY DEF Tick, vars
<1> QED BY <1>1, <1>2, <1>3, <1>4, <1>5, <1>6, <1>7, <1>8 DEF Next

(* What a claim transaction does to a row it hands out: it was pending or   *)
(* in flight, and it is in flight, classless and freshly stamped after.     *)
LEMMA ClaimFacts ==
  ASSUME TypeOK, NEW h \in Hosts, ClaimTx(h)
  PROVE  /\ DOMAIN log' = DOMAIN log
         /\ \A e \in DOMAIN log :
              \/ log'[e] = log[e]
              \/ /\ log[e].state = "pending" \/ stale(request[h], e)
                 /\ log[e].state \in {"pending", "in_flight"}
                 /\ log'[e] = Transitioned(log[e], "in_flight", NoClass)
                 /\ log'[e].state = "in_flight"
                 /\ log'[e].class = NoClass
                 /\ log'[e].obj = log[e].obj
                 /\ log'[e].digest = log[e].digest
                 /\ log'[e].created = log[e].created
                 /\ log'[e].changed = now
<1>1. \A e \in ClaimBatch(request[h]) : log[e].state = "pending" \/ stale(request[h], e)
  BY DEF ClaimBatch, Drainable
<1>2. \A e \in DOMAIN log :
        Transitioned(log[e], "in_flight", NoClass).state = "in_flight"
  BY TransitionedFacts DEF TypeOK, OutboxState
<1>3. DOMAIN log' = DOMAIN log
  BY DEF ClaimTx
<1>4. ASSUME NEW e \in DOMAIN log, e \notin ClaimBatch(request[h])
      PROVE  log'[e] = log[e]
  BY <1>4 DEF ClaimTx
<1>5. ASSUME NEW e \in DOMAIN log, e \in ClaimBatch(request[h])
      PROVE  log'[e] = Transitioned(log[e], "in_flight", NoClass)
  BY <1>5 DEF ClaimTx
<1>6. \A e \in DOMAIN log : stale(request[h], e) => log[e].state = "in_flight"
  BY DEF stale
<1>7. \A e \in DOMAIN log : log[e] \in EventRow
  BY DEF TypeOK
<1>8. now \in 0 .. MaxTime /\ "in_flight" \in OutboxState /\ NoClass \in Class \cup {NoClass}
  BY DEF TypeOK, OutboxState
<1>9. \A e \in DOMAIN log :
        LET t == Transitioned(log[e], "in_flight", NoClass)
        IN  /\ t.state = "in_flight" /\ t.class = NoClass /\ t.changed = now
            /\ t.obj = log[e].obj /\ t.digest = log[e].digest /\ t.created = log[e].created
  BY <1>7, <1>8, TransitionedFacts
<1> QED BY <1>1, <1>3, <1>4, <1>5, <1>6, <1>9

(* The row a transition leaves, in the log after it. *)
LEMMA TransitionInLog ==
  ASSUME TypeOK,
         NEW e \in DOMAIN log, NEW to \in OutboxState, NEW c \in Class \cup {NoClass},
         log' = [log EXCEPT ![e] = Transitioned(log[e], to, c)]
  PROVE  /\ DOMAIN log' = DOMAIN log
         /\ \A d \in DOMAIN log : d # e => log'[d] = log[d]
         /\ log'[e].state = to /\ log'[e].class = c
         /\ log'[e].obj = log[e].obj /\ log'[e].digest = log[e].digest
         /\ log'[e].created = log[e].created
<1>1. log[e] \in EventRow /\ now \in 0 .. MaxTime
  BY DEF TypeOK
<1>2. log'[e] = Transitioned(log[e], to, c)
  OBVIOUS
<1> QED BY <1>1, <1>2, TransitionedFacts

(* The two rows a LocalWins decision leaves, in the log after it. *)
LEMMA LocalWinsInLog ==
  ASSUME TypeOK, NEW e \in EventId, resolve_local_wins(e)
  PROVE  /\ e \in DOMAIN log /\ log[e].state = "conflicted"
         /\ Successor(e) \notin DOMAIN log /\ Successor(e) # e
         /\ DOMAIN log' = DOMAIN log \cup {Successor(e)}
         /\ \A d \in DOMAIN log : d # e => log'[d] = log[d]
         /\ log'[e].state = "quarantined" /\ log'[e].class = LocalWinsClass
         /\ log'[e].obj = log[e].obj /\ log'[e].digest = log[e].digest
         /\ log'[e].created = log[e].created
         /\ log'[Successor(e)].state = "pending" /\ log'[Successor(e)].class = NoClass
         /\ log'[Successor(e)].obj = log[e].obj
         /\ objects' = objects /\ log[e].obj \in DOMAIN objects
         /\ log'[Successor(e)].digest = objects[log[e].obj]
<1> DEFINE row == Transitioned(log[e], "quarantined", LocalWinsClass)
           new == NewEvent(log[e].obj, objects[log[e].obj])
<1>1. /\ e \in DOMAIN log /\ log[e].state = "conflicted"
      /\ log[e].obj \in DOMAIN objects /\ Successor(e) \notin DOMAIN log
      /\ log' = Put([log EXCEPT ![e] = row], Successor(e), new)
      /\ objects' = objects
  BY DEF resolve_local_wins
<1>2. log[e] \in EventRow /\ log[e].obj \in Objects /\ objects[log[e].obj] \in Row
      /\ now \in 0 .. MaxTime
  BY <1>1 DEF TypeOK, EventRow
<1>3. /\ row.state = "quarantined" /\ row.class = LocalWinsClass
      /\ row.obj = log[e].obj /\ row.digest = log[e].digest /\ row.created = log[e].created
  <2>1. LocalWinsClass \in Class \cup {NoClass} /\ "quarantined" \in OutboxState
    BY ClassFacts DEF OutboxState
  <2> QED BY <1>2, <2>1, TransitionedFacts
<1>4. /\ new.state = "pending" /\ new.class = NoClass
      /\ new.obj = log[e].obj /\ new.digest = objects[log[e].obj]
  BY <1>2, NewEventFacts
<1> HIDE DEF row, new
<1>5. Successor(e) # e
  BY <1>1
<1>6. /\ DOMAIN log' = DOMAIN log \cup {Successor(e)}
      /\ \A d \in DOMAIN log : d # e => log'[d] = log[d]
      /\ log'[e] = row
      /\ log'[Successor(e)] = new
  BY <1>1, <1>5 DEF Put
<1> QED BY <1>1, <1>3, <1>4, <1>5, <1>6

(* The row a commit leaves, in the log after it. *)
LEMMA CommitInLog ==
  ASSUME TypeOK, NEW e \in CallerIds \ DOMAIN log, NEW o \in Objects, NEW d \in Row,
         log' = Put(log, e, NewEvent(o, d))
  PROVE  /\ DOMAIN log' = DOMAIN log \cup {e}
         /\ \A x \in DOMAIN log : log'[x] = log[x]
         /\ log'[e].state = "pending" /\ log'[e].class = NoClass
<1>1. log'[e] = NewEvent(o, d) /\ DOMAIN log' = DOMAIN log \cup {e}
      /\ \A x \in DOMAIN log : log'[x] = log[x]
  BY DEF Put
<1> QED BY <1>1, NewEventFacts DEF TypeOK

-------------------------------------------------------------------------------
(* What a step makes of the rows that were there: their identity columns    *)
(* stay, an outcome can only be withdrawn, a withdrawal stays.              *)
RowsMoveForward ==
  \A e \in DOMAIN log :
    /\ e \in DOMAIN log'
    /\ log'[e].obj = log[e].obj /\ log'[e].digest = log[e].digest
    /\ log'[e].created = log[e].created
    /\ log[e].state \in {"acknowledged", "rejected", "conflicted"} =>
         log'[e] = log[e] \/ log'[e].state = "quarantined"
    /\ log[e].state = "quarantined" => log'[e].state = "quarantined"

LEMMA ForwardStep ==
  ASSUME TypeOK, [Next]_vars
  PROVE  RowsMoveForward
<1>1. CASE log' = log
  BY <1>1 DEF RowsMoveForward
<1>2. CASE OneCommit
  BY <1>2, CommitInLog DEF OneCommit, RowsMoveForward
<1>3. CASE \E h \in Hosts : ClaimTx(h)
  BY <1>3, ClaimFacts DEF RowsMoveForward
<1>4. CASE OneTransition
  <2>1. PICK e \in DOMAIN log, to \in OutboxState, c \in Class \cup {NoClass} :
           /\ log' = [log EXCEPT ![e] = Transitioned(log[e], to, c)]
           /\ can_transition_to(log[e].state, to)
    BY <1>4 DEF OneTransition
  <2>2. log[e].state \in {"acknowledged", "rejected", "conflicted", "quarantined"}
          => to = "quarantined"
    BY <2>1 DEF can_transition_to
  <2> QED BY <2>1, <2>2, TransitionInLog DEF RowsMoveForward
<1>5. CASE \E e \in EventId : resolve_local_wins(e)
  <2>1. PICK e \in EventId : resolve_local_wins(e)
    BY <1>5
  <2> QED BY <2>1, LocalWinsInLog DEF RowsMoveForward
<1> QED BY <1>1, <1>2, <1>3, <1>4, <1>5, LogStep

(* No last-write-wins: a recorded outcome changes only by a withdrawal, a   *)
(* withdrawal is for good, and what an event announces never changes,       *)
(* whatever callers, operators and racing drains do.                        *)
THEOREM OutcomesStand == Spec => FirstOutcomeStands
<1>1. TypeOK /\ [Next]_vars =>
        [\A e \in DOMAIN log :
           /\ e \in DOMAIN log'
           /\ log'[e].obj = log[e].obj /\ log'[e].digest = log[e].digest
           /\ log'[e].created = log[e].created
           /\ log[e].state \in {"acknowledged", "rejected", "conflicted"} =>
                log'[e] = log[e] \/ log'[e].state = "quarantined"
           /\ log[e].state = "quarantined" => log'[e].state = "quarantined"]_vars
  BY ForwardStep DEF RowsMoveForward
<1> QED BY <1>1, TypeCorrect, PTL DEF Spec, FirstOutcomeStands

(* last_error_class is set exactly in the failure states, and a class of    *)
(* the kernel's namespace is only on a withdrawn row.                       *)
THEOREM ErrorClassesTruthful == Spec => []ErrorClassLaw
<1>1. Init => ErrorClassLaw
  BY DEF Init, ErrorClassLaw
<1>2. TypeOK /\ ErrorClassLaw /\ [Next]_vars => ErrorClassLaw'
  <2> SUFFICES ASSUME TypeOK, ErrorClassLaw, [Next]_vars PROVE ErrorClassLaw'
    OBVIOUS
  <2>0. ~IsReserved(NoClass) /\ LocalWinsClass # NoClass /\ ~is_failure("pending")
        /\ ~is_failure("in_flight") /\ is_failure("quarantined")
    BY ClassFacts DEF is_failure
  <2>1. CASE log' = log
    BY <2>1 DEF ErrorClassLaw
  <2>2. CASE OneCommit
    <3>1. PICK e \in CallerIds \ DOMAIN log, o \in Objects, d \in Row :
             log' = Put(log, e, NewEvent(o, d))
      BY <2>2 DEF OneCommit
    <3>2. /\ DOMAIN log' = DOMAIN log \cup {e}
          /\ \A x \in DOMAIN log : log'[x] = log[x]
          /\ log'[e].state = "pending" /\ log'[e].class = NoClass
      BY <3>1, CommitInLog
    <3> QED BY <2>0, <3>2 DEF ErrorClassLaw
  <2>3. CASE \E h \in Hosts : ClaimTx(h)
    BY <2>0, <2>3, ClaimFacts DEF ErrorClassLaw
  <2>4. CASE OneTransition
    <3>1. PICK e \in DOMAIN log, to \in OutboxState, c \in Class \cup {NoClass} :
             /\ log' = [log EXCEPT ![e] = Transitioned(log[e], to, c)]
             /\ is_failure(to) <=> c # NoClass
             /\ IsReserved(c) => to = "quarantined"
      BY <2>4 DEF OneTransition
    <3>2. /\ DOMAIN log' = DOMAIN log
          /\ \A d \in DOMAIN log : d # e => log'[d] = log[d]
          /\ log'[e].state = to /\ log'[e].class = c
      BY <3>1, TransitionInLog
    <3> QED BY <3>1, <3>2 DEF ErrorClassLaw
  <2>5. CASE \E e \in EventId : resolve_local_wins(e)
    <3>1. PICK e \in EventId : resolve_local_wins(e)
      BY <2>5
    <3>2. /\ DOMAIN log' = DOMAIN log \cup {Successor(e)}
          /\ \A d \in DOMAIN log : d # e => log'[d] = log[d]
          /\ log'[e].state = "quarantined" /\ log'[e].class = LocalWinsClass
          /\ log'[Successor(e)].state = "pending" /\ log'[Successor(e)].class = NoClass
      BY <3>1, LocalWinsInLog
    <3> QED BY <2>0, <3>2 DEF ErrorClassLaw
  <2> QED BY <2>1, <2>2, <2>3, <2>4, <2>5, LogStep
<1> QED BY <1>1, <1>2, TypeCorrect, PTL DEF Spec

(* A LocalWins decision and its successor are one: the successor of every   *)
(* event so decided is in the log, and every event with a suffixed id has   *)
(* its withdrawn parent there, about the same object.                       *)
THEOREM LineageKept == Spec => []SuccessorLineage
<1>1. Init => SuccessorLineage
  BY DEF Init, SuccessorLineage
<1>2. TypeOK /\ SuccessorLineage /\ [Next]_vars => SuccessorLineage'
  <2> SUFFICES ASSUME TypeOK, SuccessorLineage, [Next]_vars PROVE SuccessorLineage'
    OBVIOUS
  <2> DEFINE Parented(e) == \E d \in DOMAIN log : /\ Successor(d) = e
                                                 /\ log[d].state = "quarantined"
                                                 /\ log[d].obj = log[e].obj
  <2>f. RowsMoveForward
    BY ForwardStep
  <2>0. \A e \in DOMAIN log : e[2] > 0 => Parented(e)'
    BY <2>f DEF SuccessorLineage, RowsMoveForward
  <2>1. CASE log' = log
    BY <2>1 DEF SuccessorLineage
  <2>2. CASE OneCommit
    <3>1. PICK e \in CallerIds \ DOMAIN log, o \in Objects, d \in Row :
             log' = Put(log, e, NewEvent(o, d))
      BY <2>2 DEF OneCommit
    <3>2. /\ DOMAIN log' = DOMAIN log \cup {e}
          /\ \A x \in DOMAIN log : log'[x] = log[x]
          /\ log'[e].class = NoClass
      BY <3>1, CommitInLog
    <3>a. e[2] = 0
      BY DEF CallerIds
    <3> HIDE DEF Parented
    <3>3. \A x \in DOMAIN log' : x[2] > 0 => Parented(x)'
      BY <2>0, <3>2, <3>a
    <3> USE DEF Parented
    <3>4. \A x \in DOMAIN log' : log'[x].class.tag = "local_wins" => Successor(x) \in DOMAIN log'
      BY <3>2, ClassFacts DEF SuccessorLineage
    <3> QED BY <3>3, <3>4 DEF SuccessorLineage
  <2>3. CASE \E h \in Hosts : ClaimTx(h)
    BY <2>0, <2>3, ClaimFacts, ClassFacts DEF SuccessorLineage
  <2>4. CASE OneTransition
    <3>1. PICK e \in DOMAIN log, to \in OutboxState, c \in Class \cup {NoClass} :
             /\ log' = [log EXCEPT ![e] = Transitioned(log[e], to, c)]
             /\ IsReserved(c) => c.tag = "remote_wins"
      BY <2>4 DEF OneTransition
    <3>2. c.tag # "local_wins"
      BY <3>1 DEF IsReserved
    <3>3. /\ DOMAIN log' = DOMAIN log
          /\ \A d \in DOMAIN log : d # e => log'[d] = log[d]
          /\ log'[e].class = c
      BY <3>1, TransitionInLog
    <3> QED BY <2>0, <3>2, <3>3 DEF SuccessorLineage
  <2>5. CASE \E e \in EventId : resolve_local_wins(e)
    <3>1. PICK e \in EventId : resolve_local_wins(e)
      BY <2>5
    <3>a. /\ e \in DOMAIN log
          /\ DOMAIN log' = DOMAIN log \cup {Successor(e)}
          /\ \A d \in DOMAIN log : d # e => log'[d] = log[d]
          /\ log'[e].state = "quarantined" /\ log'[e].obj = log[e].obj
          /\ log'[Successor(e)].class = NoClass
          /\ log'[Successor(e)].obj = log[e].obj
      BY <3>1, LocalWinsInLog
    <3>2. Parented(Successor(e))'
      BY <3>a
    <3> HIDE DEF Parented
    <3>3. \A x \in DOMAIN log' : x[2] > 0 => Parented(x)'
      BY <2>0, <3>2, <3>a
    <3> USE DEF Parented
    <3>4. \A x \in DOMAIN log' : log'[x].class.tag = "local_wins" => Successor(x) \in DOMAIN log'
      BY <3>a, ClassFacts DEF SuccessorLineage
    <3> QED BY <3>3, <3>4 DEF SuccessorLineage
  <2> QED BY <2>1, <2>2, <2>3, <2>4, <2>5, LogStep
<1> QED BY <1>1, <1>2, TypeCorrect, PTL DEF Spec

-------------------------------------------------------------------------------
(* A claim's cutoff was taken in the past. *)
CutoffTaken == \A h \in Hosts : request[h].at <= now

(* Leases and lateness: the cutoff is read before the writer lock, and      *)
(* drains race, yet every lease taken over had lasted the bound asked for.  *)
THEOREM LeasesHoldTheirBound == Spec => TakeoverRespectsBound
<1>1. Init => CutoffTaken
  BY DEF Init, CutoffTaken, Idle
<1>2. TypeOK /\ CutoffTaken /\ [Next]_vars => CutoffTaken'
  <2> SUFFICES ASSUME TypeOK, CutoffTaken, [Next]_vars PROVE CutoffTaken'
    OBVIOUS
  <2>0. /\ now \in Nat /\ request \in [Hosts -> Request] /\ Idle.at = 0
        /\ \A h \in Hosts : request[h].at \in Nat
    BY BoundsAssumption DEF TypeOK, Request, Idle
  <2>1. ASSUME now' = now, NEW h \in Hosts, NEW q, q.at <= now,
               request' = [request EXCEPT ![h] = q]
        PROVE  CutoffTaken'
    BY <2>0, <2>1 DEF CutoffTaken
  <2>2. ASSUME NEW h \in Hosts, NEW n, NEW rc, NEW b, BeginClaim(h, n, rc, b)
        PROVE  CutoffTaken'
    <3> DEFINE q == [active |-> TRUE, limit |-> n, reclaim |-> rc, bound |-> b, at |-> now]
    <3>1. q.at <= now /\ request' = [request EXCEPT ![h] = q] /\ now' = now
      BY <2>0, <2>2 DEF BeginClaim
    <3> HIDE DEF q
    <3> QED BY <2>1, <3>1
  <2>3. ASSUME NEW h \in Hosts, AbandonClaim(h) \/ ClaimTx(h) PROVE CutoffTaken'
    BY <2>0, <2>1, <2>3 DEF AbandonClaim, ClaimTx
  <2>4. CASE Tick
    BY <2>0, <2>4 DEF Tick, CutoffTaken
  <2>5. CASE UNCHANGED <<now, request>>
    BY <2>5 DEF CutoffTaken
  <2> QED BY <2>2, <2>3, <2>4, <2>5
          DEF Next, vars, upsert, delete, commit_with_outbox_event, apply_outbox_outcome,
              resolve_local_wins, resolve_remote_wins, transition_outbox_event
<1>3. TypeOK /\ CutoffTaken /\ [Next]_vars =>
        [\A h \in Hosts : request[h].active /\ ~request'[h].active =>
           \A e \in DOMAIN log :
             log[e].state = "in_flight" /\ log'[e] # log[e] =>
               /\ request[h].reclaim
               /\ now - log[e].changed >= request[h].bound
               /\ log'[e].changed = now]_vars
  <2> SUFFICES ASSUME TypeOK, CutoffTaken, [Next]_vars, NEW h \in Hosts,
                      request[h].active, ~request'[h].active,
                      NEW e \in DOMAIN log, log[e].state = "in_flight", log'[e] # log[e]
               PROVE  /\ request[h].reclaim
                      /\ now - log[e].changed >= request[h].bound
                      /\ log'[e].changed = now
    OBVIOUS
  <2>0. request \in [Hosts -> Request]
    BY DEF TypeOK
  <2>1. \A g, n, rc, b : BeginClaim(g, n, rc, b) \/ AbandonClaim(g) => log' = log
    BY DEF BeginClaim, AbandonClaim
  <2>2. PICK g \in Hosts : ClaimTx(g)
    BY <2>1 DEF Next, vars, upsert, delete, commit_with_outbox_event, apply_outbox_outcome,
                resolve_local_wins, resolve_remote_wins, transition_outbox_event, Tick
  <2>3. g = h
    BY <2>0, <2>2 DEF ClaimTx
  <2>4. stale(request[h], e) /\ log'[e].changed = now
    BY <2>2, <2>3, ClaimFacts
  <2>5. /\ request[h].at \in Nat /\ request[h].bound \in Nat
        /\ log[e].changed \in Nat /\ now \in Nat
    BY <2>0, BoundsAssumption DEF TypeOK, EventRow, Request
  <2>6. request[h].at <= now
    BY DEF CutoffTaken
  <2>7. request[h].reclaim /\ log[e].changed <= request[h].at - request[h].bound
    BY <2>4 DEF stale
  <2>8. now - log[e].changed >= request[h].bound
    BY <2>5, <2>6, <2>7
  <2> QED BY <2>4, <2>7, <2>8
<1> QED BY <1>1, <1>2, <1>3, TypeCorrect, PTL DEF Spec, TakeoverRespectsBound
-------------------------------------------------------------------------------
(* read_outbox_health counts, and counting means something only because the *)
(* log is finite in every reachable state.                                  *)
FiniteLog == IsFiniteSet(DOMAIN log)

LEMMA FiniteStep ==
  ASSUME TypeOK, FiniteLog, [Next]_vars
  PROVE  FiniteLog'
<1>1. ASSUME NEW e, DOMAIN log' = DOMAIN log \cup {e}
      PROVE  FiniteLog'
  BY <1>1, FS_AddElement DEF FiniteLog
<1>2. CASE DOMAIN log' = DOMAIN log
  BY <1>2 DEF FiniteLog
<1>3. CASE OneCommit
  BY <1>1, <1>3, CommitInLog DEF OneCommit
<1>4. CASE \E h \in Hosts : ClaimTx(h)
  BY <1>2, <1>4, ClaimFacts
<1>5. CASE OneTransition
  BY <1>2, <1>5, TransitionInLog DEF OneTransition
<1>6. CASE \E e \in EventId : resolve_local_wins(e)
  BY <1>1, <1>6, LocalWinsInLog
<1> QED BY <1>2, <1>3, <1>4, <1>5, <1>6, LogStep

(* One withdrawn row under a class of its caller's is enough for the health *)
(* read to count more quarantined rows than resolved ones.                  *)
UnresolvedIsUnhealthy ==
  FiniteLog =>
    \A e \in InState("quarantined") : ~IsReserved(log[e].class) => ~LocalStoreHealthy

LEMMA HealthCounts == UnresolvedIsUnhealthy
<1> SUFFICES ASSUME FiniteLog, NEW e \in InState("quarantined"), ~IsReserved(log[e].class)
             PROVE  ~LocalStoreHealthy
  BY DEF UnresolvedIsUnhealthy
<1> DEFINE Q == InState("quarantined")
           R == {d \in Q : IsReserved(log[d].class)}
<1>1. Q \subseteq DOMAIN log /\ R \subseteq Q /\ e \in Q /\ e \notin R
  BY DEF InState
<1>2. IsFiniteSet(DOMAIN log)
  BY DEF FiniteLog
<1> HIDE DEF Q, R
<1>3. IsFiniteSet(Q)
  BY <1>1, <1>2, FS_Subset
<1>4. IsFiniteSet(R) /\ Cardinality(R) <= Cardinality(Q) /\ Cardinality(R) # Cardinality(Q)
  BY <1>1, <1>3, FS_Subset
<1>5. Cardinality(Q) \in Nat /\ Cardinality(R) \in Nat
  BY <1>3, <1>4, FS_CardinalityType
<1>6. Cardinality(Q) - Cardinality(R) # 0
  BY <1>4, <1>5
<1>7. Q = InState("quarantined") /\ resolved_count = Cardinality(R)
  BY DEF Q, R, resolved_count
<1> QED BY <1>6, <1>7 DEF LocalStoreHealthy

(* A row that a step withdraws, other than to decide its conflict, carries  *)
(* a class outside the kernel's namespace.                                  *)
LEMMA WithdrawnUnderCallerClass ==
  ASSUME TypeOK, [Next]_vars, NEW e \in DOMAIN log,
         log'[e] # log[e], log'[e].state = "quarantined", log[e].state # "conflicted"
  PROVE  e \in DOMAIN log' /\ ~IsReserved(log'[e].class)
<1>1. CASE OneCommit
  BY <1>1, CommitInLog DEF OneCommit
<1>2. CASE \E h \in Hosts : ClaimTx(h)
  BY <1>2, ClaimFacts
<1>3. CASE OneTransition
  <2>1. PICK d \in DOMAIN log, to \in OutboxState, c \in Class \cup {NoClass} :
           /\ log' = [log EXCEPT ![d] = Transitioned(log[d], to, c)]
           /\ IsReserved(c) => log[d].state = "conflicted"
    BY <1>3 DEF OneTransition
  <2>2. /\ DOMAIN log' = DOMAIN log
        /\ \A x \in DOMAIN log : x # d => log'[x] = log[x]
        /\ log'[d].class = c
    BY <2>1, TransitionInLog
  <2>3. d = e
    BY <2>2
  <2> QED BY <2>1, <2>2, <2>3
<1>4. CASE \E d \in EventId : resolve_local_wins(d)
  <2>1. PICK d \in EventId : resolve_local_wins(d)
    BY <1>4
  <2>2. d = e
    BY <2>1, LocalWinsInLog
  <2> QED BY <2>1, <2>2, LocalWinsInLog
<1> QED BY <1>1, <1>2, <1>3, <1>4, LogStep

(* Health hides no withdrawal: class_admitted keeps the kernel's resolved   *)
(* classes out of every caller's reach, so whoever withdraws an event other *)
(* than by deciding its conflict degrades the next read_outbox_health.      *)
THEOREM WithdrawalsShow == Spec => WithdrawalIsReported
<1>1. Init => FiniteLog
  BY FS_EmptySet DEF Init, FiniteLog
<1>2. TypeOK /\ FiniteLog /\ [Next]_vars => FiniteLog'
  BY FiniteStep
<1>3. TypeOK /\ FiniteLog' /\ UnresolvedIsUnhealthy' /\ [Next]_vars =>
        [\A e \in DOMAIN log :
           (log'[e] # log[e] /\ log'[e].state = "quarantined" /\ log[e].state # "conflicted")
             => ~LocalStoreHealthy']_vars
  <2> SUFFICES ASSUME TypeOK, FiniteLog', UnresolvedIsUnhealthy', [Next]_vars,
                      NEW e \in DOMAIN log,
                      log'[e] # log[e], log'[e].state = "quarantined",
                      log[e].state # "conflicted"
               PROVE  ~LocalStoreHealthy'
    OBVIOUS
  <2>1. e \in DOMAIN log' /\ ~IsReserved(log'[e].class)
    BY WithdrawnUnderCallerClass
  <2>2. e \in InState("quarantined")'
    BY <2>1 DEF InState
  <2> QED BY <2>1, <2>2 DEF UnresolvedIsUnhealthy
<1>4. UnresolvedIsUnhealthy'
  BY HealthCounts, PTL
<1> QED BY <1>1, <1>2, <1>3, <1>4, TypeCorrect, PTL
       DEF Spec, WithdrawalIsReported

===============================================================================
