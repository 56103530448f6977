------------------------- MODULE OutboxDelivery_proofs -------------------------
(***************************************************************************)
(* Theorems about OutboxDelivery, for any events, objects, hosts and       *)
(* bounds: every step of the two stores with their loops and transport is  *)
(* a step of each store's own specification, the whole keeps its type, and *)
(* it implements the abstract transfer.                                    *)
(***************************************************************************)
EXTENDS OutboxDelivery, TLAPS

-------------------------------------------------------------------------------
(* The source's rows, as its calls leave them. *)

LEMMA ClassFacts ==
  /\ Src!CallerClasses \subseteq Src!Class
  /\ Src!LocalWinsClass \in Src!Class
  /\ \A r \in Reasons : Src!RemoteWinsClass(r) \in Src!Class
BY DEF Src!CallerClasses, Src!Class, Src!LocalWinsClass, Src!RemoteWinsClass, Src!NoReason

LEMMA TransitionedFacts ==
  ASSUME NEW row \in Src!EventRow, NEW to \in Src!OutboxState,
         NEW c \in Src!Class \cup {Src!NoClass}, now \in 0 .. MaxTime
  PROVE  /\ Src!Transitioned(row, to, c) \in Src!EventRow
         /\ Src!Transitioned(row, to, c).state = to
         /\ Src!Transitioned(row, to, c).obj = row.obj
         /\ Src!Transitioned(row, to, c).digest = row.digest
BY DEF Src!Transitioned, Src!EventRow

LEMMA NewEventFacts ==
  ASSUME NEW o \in Objects, NEW d \in Src!Row, now \in 0 .. MaxTime
  PROVE  /\ Src!NewEvent(o, d) \in Src!EventRow
         /\ Src!NewEvent(o, d).state = "pending"
         /\ Src!NewEvent(o, d).obj = o
         /\ Src!NewEvent(o, d).digest = d
BY DEF Src!NewEvent, Src!EventRow, Src!OutboxState

LEMMA UpsertedIsRow ==
  ASSUME Src!TypeOK, NEW o \in Objects, NEW v \in Values, Src!CanUpsert(o)
  PROVE  Src!upserted(o, v) \in Src!Row
<1>1. CASE o \in DOMAIN objects
  <2>1. objects[o].rev \in 1 .. MaxRevision /\ objects[o].rev < MaxRevision
    BY <1>1 DEF Src!TypeOK, Src!Row, Src!CanUpsert
  <2>2. objects[o].rev + 1 \in 1 .. MaxRevision
    BY <2>1, SourceAssumption
  <2> QED BY <1>1, <2>2 DEF Src!upserted, Src!Row
<1>2. CASE o \notin DOMAIN objects
  <2>1. 1 \in 1 .. MaxRevision
    BY SourceAssumption
  <2> QED BY <1>2, <2>1 DEF Src!upserted, Src!Row
<1> QED BY <1>1, <1>2

LEMMA OutcomeFacts ==
  ASSUME NEW outcome \in Src!Outcomes
  PROVE  /\ outcome.state \in {"acknowledged", "rejected", "conflicted"}
         /\ outcome.state \in Src!OutboxState
         /\ outcome.class \in Src!Class \cup {Src!NoClass}
<1>1. /\ outcome.state \in {"acknowledged", "rejected", "conflicted"}
      /\ outcome.class \in Src!CallerClasses \cup {Src!NoClass}
  BY DEF Src!Outcomes
<1> QED BY <1>1, ClassFacts DEF Src!OutboxState

-------------------------------------------------------------------------------
(* What a call can do to the log.  A row that moves keeps what it           *)
(* announces; a row that joins is pending.                                  *)

(* e takes an edge to the state s. *)
Edge(e, s) == /\ e \in DOMAIN log
              /\ DOMAIN log' = DOMAIN log
              /\ \A d \in DOMAIN log : d # e => log'[d] = log[d]
              /\ log'[e].state = s
              /\ log'[e].obj = log[e].obj /\ log'[e].digest = log[e].digest

(* n joins, announcing row d of object o; e, if it is in the log, is        *)
(* conflicted before and withdrawn after.                                   *)
Joins(e, n, o, d) ==
  /\ n \in Src!EventId \ DOMAIN log /\ o \in Objects /\ d \in Src!Row
  /\ DOMAIN log' = DOMAIN log \cup {n}
  /\ \A x \in DOMAIN log : x # e => log'[x] = log[x]
  /\ e \in DOMAIN log => /\ log[e].state = "conflicted" /\ log'[e].state = "quarantined"
                         /\ log'[e].obj = log[e].obj /\ log'[e].digest = log[e].digest
  /\ log'[n].state = "pending" /\ log'[n].obj = o /\ log'[n].digest = d

(* Rows are handed out. *)
HandsOut == /\ DOMAIN log' = DOMAIN log
            /\ \A e \in DOMAIN log :
                 log'[e] # log[e] =>
                   /\ log[e].state \in {"pending", "in_flight"}
                   /\ log'[e].state = "in_flight"
                   /\ log'[e].obj = log[e].obj /\ log'[e].digest = log[e].digest

LEMMA EdgeTyped ==
  ASSUME Src!TypeOK, NEW e \in DOMAIN log, NEW to \in Src!OutboxState,
         NEW c \in Src!Class \cup {Src!NoClass},
         log' = [log EXCEPT ![e] = Src!Transitioned(log[e], to, c)],
         UNCHANGED <<now, objects, request>>
  PROVE  Src!TypeOK' /\ Edge(e, to)
<1>1. log[e] \in Src!EventRow /\ now \in 0 .. MaxTime
  BY DEF Src!TypeOK
<1>2. /\ DOMAIN log' = DOMAIN log
      /\ \A d \in DOMAIN log : d # e => log'[d] = log[d]
      /\ log'[e] = Src!Transitioned(log[e], to, c)
  OBVIOUS
<1>3. Edge(e, to) /\ log'[e] \in Src!EventRow
  BY <1>1, <1>2, TransitionedFacts DEF Edge
<1>4. DOMAIN log' \subseteq Src!EventId /\ \A d \in DOMAIN log' : log'[d] \in Src!EventRow
  BY <1>2, <1>3 DEF Src!TypeOK
<1> QED BY <1>3, <1>4 DEF Src!TypeOK

LEMMA CommitTyped ==
  ASSUME Src!TypeOK, NEW e \in Src!CallerIds, NEW o \in Objects, NEW v \in Values,
         Src!commit_with_outbox_event(e, o, v)
  PROVE  Src!TypeOK' /\ \E d \in Src!Row : Joins(e, e, o, d)
<1> DEFINE d == Src!upserted(o, v)
           new == Src!NewEvent(o, d)
<1>1. /\ e \notin DOMAIN log /\ Src!CanUpsert(o)
      /\ objects' = Src!Put(objects, o, d) /\ log' = Src!Put(log, e, new)
      /\ UNCHANGED <<now, request>>
  BY DEF Src!commit_with_outbox_event
<1>2. d \in Src!Row
  BY <1>1, UpsertedIsRow
<1>3. now \in 0 .. MaxTime /\ e \in Src!EventId
  BY SourceAssumption DEF Src!TypeOK, Src!CallerIds, Src!EventId
<1> HIDE DEF d
<1>4. new \in Src!EventRow /\ new.state = "pending" /\ new.obj = o /\ new.digest = d
  BY <1>2, <1>3, NewEventFacts
<1> HIDE DEF new
<1>5. /\ DOMAIN log' = DOMAIN log \cup {e} /\ log'[e] = new
      /\ \A x \in DOMAIN log : log'[x] = log[x]
  BY <1>1 DEF Src!Put
<1>6. DOMAIN log' \subseteq Src!EventId /\ \A x \in DOMAIN log' : log'[x] \in Src!EventRow
  BY <1>3, <1>4, <1>5 DEF Src!TypeOK
<1>7. DOMAIN objects' \subseteq Objects /\ \A x \in DOMAIN objects' : objects'[x] \in Src!Row
  BY <1>1, <1>2 DEF Src!TypeOK, Src!Put
<1>8. Src!TypeOK'
  BY <1>1, <1>6, <1>7 DEF Src!TypeOK
<1>9. Joins(e, e, o, d)
  BY <1>1, <1>2, <1>3, <1>4, <1>5 DEF Joins
<1> QED BY <1>2, <1>8, <1>9

LEMMA LocalWinsTyped ==
  ASSUME Src!TypeOK, NEW e \in Src!EventId, Src!resolve_local_wins(e)
  PROVE  Src!TypeOK' /\ \E o \in Objects, d \in Src!Row : Joins(e, Src!Successor(e), o, d)
<1> DEFINE o == log[e].obj
           d == objects[o]
           n == Src!Successor(e)
           row == Src!Transitioned(log[e], "quarantined", Src!LocalWinsClass)
           new == Src!NewEvent(o, d)
<1>1. /\ e \in DOMAIN log /\ log[e].state = "conflicted"
      /\ o \in DOMAIN objects /\ n \notin DOMAIN log /\ e[2] < MaxSuccessors
      /\ log' = Src!Put([log EXCEPT ![e] = row], n, new)
      /\ UNCHANGED <<now, objects, request>>
  BY DEF Src!resolve_local_wins
<1>2. n \in Src!EventId
  BY <1>1, SourceAssumption DEF Src!Successor, Src!EventId
<1>3. log[e] \in Src!EventRow /\ o \in Objects /\ d \in Src!Row /\ now \in 0 .. MaxTime
  BY <1>1 DEF Src!TypeOK
<1>4. "quarantined" \in Src!OutboxState /\ Src!LocalWinsClass \in Src!Class \cup {Src!NoClass}
  BY ClassFacts DEF Src!OutboxState
<1>5. /\ row \in Src!EventRow /\ row.state = "quarantined"
      /\ row.obj = log[e].obj /\ row.digest = log[e].digest
  BY <1>3, <1>4, TransitionedFacts
<1>6. new \in Src!EventRow /\ new.state = "pending" /\ new.obj = o /\ new.digest = d
  BY <1>3, NewEventFacts
<1> HIDE DEF row, new, n, d, o
<1>7. /\ DOMAIN log' = DOMAIN log \cup {n}
      /\ log'[e] = row /\ log'[n] = new
      /\ \A x \in DOMAIN log : x # e => log'[x] = log[x]
  BY <1>1 DEF Src!Put
<1>8. DOMAIN log' \subseteq Src!EventId /\ \A x \in DOMAIN log' : log'[x] \in Src!EventRow
  BY <1>2, <1>5, <1>6, <1>7 DEF Src!TypeOK
<1>9. Src!TypeOK'
  BY <1>1, <1>8 DEF Src!TypeOK
<1>10. Joins(e, n, o, d)
  BY <1>1, <1>2, <1>3, <1>5, <1>6, <1>7 DEF Joins
<1>11. n = Src!Successor(e)
  BY DEF n
<1> QED BY <1>3, <1>9, <1>10, <1>11

LEMMA ClaimTyped ==
  ASSUME Src!TypeOK, NEW h \in Hosts, Src!ClaimTx(h)
  PROVE  Src!TypeOK' /\ HandsOut
<1> DEFINE t(e) == Src!Transitioned(log[e], "in_flight", Src!NoClass)
<1>1. \A e \in DOMAIN log :
        /\ t(e) \in Src!EventRow /\ t(e).state = "in_flight"
        /\ t(e).obj = log[e].obj /\ t(e).digest = log[e].digest
  BY TransitionedFacts DEF Src!TypeOK, Src!OutboxState
<1>2. /\ DOMAIN log' = DOMAIN log
      /\ \A e \in DOMAIN log :
           log'[e] = IF e \in Src!ClaimBatch(request[h]) THEN t(e) ELSE log[e]
      /\ request' = [request EXCEPT ![h] = Src!Idle]
      /\ UNCHANGED <<now, objects>>
  BY DEF Src!ClaimTx
<1>3. \A e \in Src!ClaimBatch(request[h]) : log[e].state \in {"pending", "in_flight"}
  BY DEF Src!ClaimBatch, Src!Drainable, Src!stale
<1> HIDE DEF t
<1>4. Src!Idle \in Src!Request
  BY DEF Src!Idle, Src!Request
<1>5. \A e \in DOMAIN log' : log'[e] \in Src!EventRow
  BY <1>1, <1>2 DEF Src!TypeOK
<1>6. Src!TypeOK'
  BY <1>2, <1>4, <1>5 DEF Src!TypeOK
<1> QED BY <1>1, <1>2, <1>3, <1>6 DEF HandsOut

-------------------------------------------------------------------------------
(* The abstract transfer's variables, as OutboxDelivery maps them. *)
StatusOf(s) == CASE s \in {"pending", "in_flight"} -> "open"
                 [] s = "acknowledged" -> "acked"
                 [] OTHER -> "closed"

AnnouncedBar == [e \in DOMAIN log |-> [obj |-> log[e].obj, row |-> log[e].digest]]
AppliedBar == [e \in DOMAIN receipts |-> [obj |-> receipts[e].obj, row |-> receipts[e].row]]
StatusBar == [e \in DOMAIN log |-> StatusOf(log[e].state)]

LEMMA StatusTable ==
  /\ StatusOf("pending") = "open" /\ StatusOf("in_flight") = "open"
  /\ StatusOf("acknowledged") = "acked" /\ StatusOf("rejected") = "closed"
  /\ StatusOf("conflicted") = "closed" /\ StatusOf("quarantined") = "closed"
BY DEF StatusOf

LEMMA MappedInit ==
  /\ AnnouncedBar = [e \in {} |-> 0]
  /\ AppliedBar = [e \in {} |-> 0]
  /\ StatusBar = [e \in {} |-> 0]
  => Transfer!Init
BY DEF Transfer!Init, AnnouncedBar, AppliedBar, StatusBar, StatusOf

LEMMA MappedStutter ==
  AnnouncedBar' = AnnouncedBar /\ AppliedBar' = AppliedBar /\ StatusBar' = StatusBar
    => UNCHANGED Transfer!tvars
BY DEF Transfer!tvars, AnnouncedBar, AppliedBar, StatusBar, StatusOf

LEMMA MappedAnnounce ==
  ASSUME NEW e, NEW p,
         e \notin DOMAIN AnnouncedBar,
         AnnouncedBar' = Transfer!Put(AnnouncedBar, e, p),
         StatusBar' = Transfer!Put(StatusBar, e, "open"),
         AppliedBar' = AppliedBar
  PROVE  Transfer!Announce(e, p)
BY DEF Transfer!Announce, AnnouncedBar, AppliedBar, StatusBar, StatusOf

LEMMA MappedApply ==
  ASSUME NEW e,
         e \in DOMAIN AnnouncedBar \ DOMAIN AppliedBar,
         AppliedBar' = Transfer!Put(AppliedBar, e, AnnouncedBar[e]),
         AnnouncedBar' = AnnouncedBar, StatusBar' = StatusBar
  PROVE  Transfer!Apply(e)
BY DEF Transfer!Apply, AnnouncedBar, AppliedBar, StatusBar, StatusOf

LEMMA MappedAcknowledge ==
  ASSUME NEW e,
         e \in DOMAIN AppliedBar, e \in DOMAIN StatusBar, StatusBar[e] = "open",
         StatusBar' = [StatusBar EXCEPT ![e] = "acked"],
         AnnouncedBar' = AnnouncedBar, AppliedBar' = AppliedBar
  PROVE  Transfer!Acknowledge(e)
BY DEF Transfer!Acknowledge, AnnouncedBar, AppliedBar, StatusBar, StatusOf

LEMMA MappedClose ==
  ASSUME NEW e,
         e \in DOMAIN StatusBar, StatusBar[e] # "closed",
         StatusBar' = [StatusBar EXCEPT ![e] = "closed"],
         AnnouncedBar' = AnnouncedBar, AppliedBar' = AppliedBar
  PROVE  Transfer!Close(e)
BY DEF Transfer!Close, AnnouncedBar, AppliedBar, StatusBar, StatusOf

-------------------------------------------------------------------------------
(* Each effect on the log, under the map. *)

LEMMA HandsOutStutters ==
  ASSUME HandsOut, receipts' = receipts
  PROVE  UNCHANGED Transfer!tvars
<1>1. \A e \in DOMAIN log : /\ log'[e].obj = log[e].obj /\ log'[e].digest = log[e].digest
                            /\ StatusOf(log'[e].state) = StatusOf(log[e].state)
  BY StatusTable DEF HandsOut
<1>2. DOMAIN log' = DOMAIN log
  BY DEF HandsOut
<1>3. AnnouncedBar' = AnnouncedBar /\ StatusBar' = StatusBar
  BY <1>1, <1>2 DEF AnnouncedBar, StatusBar
<1>4. AppliedBar' = AppliedBar
  BY DEF AppliedBar
<1> QED BY <1>3, <1>4, MappedStutter

LEMMA JoinsAnnounces ==
  ASSUME NEW e, NEW n, NEW o, NEW d, Joins(e, n, o, d), receipts' = receipts
  PROVE  Transfer!Announce(n, [obj |-> o, row |-> d])
<1>1. /\ n \notin DOMAIN log /\ DOMAIN log' = DOMAIN log \cup {n}
      /\ log'[n].state = "pending" /\ log'[n].obj = o /\ log'[n].digest = d
  BY DEF Joins
<1>2. \A x \in DOMAIN log : /\ log'[x].obj = log[x].obj /\ log'[x].digest = log[x].digest
                            /\ StatusOf(log'[x].state) = StatusOf(log[x].state)
  BY StatusTable DEF Joins
<1>3. n \notin DOMAIN AnnouncedBar
  BY <1>1 DEF AnnouncedBar
<1>4. AnnouncedBar' = Transfer!Put(AnnouncedBar, n, [obj |-> o, row |-> d])
  BY <1>1, <1>2 DEF AnnouncedBar, Transfer!Put
<1>5. StatusBar' = Transfer!Put(StatusBar, n, "open")
  BY <1>1, <1>2, StatusTable DEF StatusBar, Transfer!Put
<1>6. AppliedBar' = AppliedBar
  BY DEF AppliedBar
<1> QED BY <1>3, <1>4, <1>5, <1>6, MappedAnnounce

(* An edge changes the status of one event, if its state maps elsewhere. *)
LEMMA EdgeMapped ==
  ASSUME NEW e, NEW s, Edge(e, s)
  PROVE  /\ e \in DOMAIN StatusBar /\ StatusBar[e] = StatusOf(log[e].state)
         /\ StatusBar' = [StatusBar EXCEPT ![e] = StatusOf(s)]
         /\ AnnouncedBar' = AnnouncedBar
<1>1. /\ e \in DOMAIN log /\ DOMAIN log' = DOMAIN log
      /\ \A d \in DOMAIN log : d # e => log'[d] = log[d]
      /\ log'[e].state = s
      /\ log'[e].obj = log[e].obj /\ log'[e].digest = log[e].digest
  BY DEF Edge
<1>2. AnnouncedBar' = AnnouncedBar
  BY <1>1 DEF AnnouncedBar
<1>3. StatusBar' = [StatusBar EXCEPT ![e] = StatusOf(s)]
  BY <1>1 DEF StatusBar
<1> QED BY <1>1, <1>2, <1>3 DEF StatusBar

(* A withdrawal closes its event, once. *)
LEMMA WithdrawalCloses ==
  ASSUME NEW e, Edge(e, "quarantined"), receipts' = receipts
  PROVE  Transfer!Close(e) \/ UNCHANGED Transfer!tvars
<1>1. /\ e \in DOMAIN StatusBar
      /\ StatusBar' = [StatusBar EXCEPT ![e] = "closed"]
      /\ AnnouncedBar' = AnnouncedBar
  BY EdgeMapped, StatusTable
<1>2. AppliedBar' = AppliedBar
  BY DEF AppliedBar
<1>3. CASE StatusBar[e] = "closed"
  <2>1. StatusBar' = StatusBar
    BY <1>1, <1>3 DEF StatusBar
  <2> QED BY <1>1, <1>2, <2>1, MappedStutter
<1>4. CASE StatusBar[e] # "closed"
  BY <1>1, <1>2, <1>4, MappedClose
<1> QED BY <1>3, <1>4

-------------------------------------------------------------------------------
(* The source's half of each step. *)

LEMMA RequestTyped ==
  ASSUME Src!TypeOK, NEW h \in Hosts, NEW q \in Src!Request,
         request' = [request EXCEPT ![h] = q], UNCHANGED <<now, objects, log>>
  PROVE  Src!TypeOK'
BY DEF Src!TypeOK

LEMMA BeginClaimTyped ==
  ASSUME Src!TypeOK, NEW h \in Hosts, NEW n \in Limits, NEW rc \in BOOLEAN, NEW b \in Nat,
         Src!BeginClaim(h, n, rc, b)
  PROVE  Src!TypeOK' /\ log' = log
<1> DEFINE q == [active |-> TRUE, limit |-> n, reclaim |-> rc, bound |-> b, at |-> now]
<1>1. now \in Nat
  BY SourceAssumption DEF Src!TypeOK
<1>2. q \in Src!Request
  BY <1>1, SourceAssumption DEF Src!Request
<1>3. request' = [request EXCEPT ![h] = q] /\ UNCHANGED <<now, objects, log>>
  BY DEF Src!BeginClaim
<1> HIDE DEF q
<1> QED BY <1>2, <1>3, RequestTyped

LEMMA ObjectsTyped ==
  ASSUME Src!TypeOK, NEW o \in Objects,
         (\E v \in Values : Src!upsert(o, v)) \/ Src!delete(o)
  PROVE  Src!TypeOK' /\ log' = log
<1>1. ASSUME NEW v \in Values, Src!upsert(o, v) PROVE Src!TypeOK' /\ log' = log
  <2>1. /\ objects' = Src!Put(objects, o, Src!upserted(o, v))
        /\ UNCHANGED <<now, log, request>>
        /\ Src!CanUpsert(o)
    BY <1>1 DEF Src!upsert
  <2>2. Src!upserted(o, v) \in Src!Row
    BY <2>1, UpsertedIsRow
  <2>3. DOMAIN objects' \subseteq Objects /\ \A x \in DOMAIN objects' : objects'[x] \in Src!Row
    BY <2>1, <2>2 DEF Src!Put, Src!TypeOK
  <2> QED BY <2>1, <2>3 DEF Src!TypeOK
<1>2. ASSUME Src!delete(o) PROVE Src!TypeOK' /\ log' = log
  BY <1>2 DEF Src!delete, Src!TypeOK
<1> QED BY <1>1, <1>2

(* A new event, or a withdrawal, or nothing in the log. *)
OperatorEffect ==
  \/ log' = log
  \/ \E e, n \in Src!EventId, o \in Objects, d \in Src!Row : Joins(e, n, o, d)
  \/ \E e \in Src!EventId : Edge(e, "quarantined")

LEMMA SourceStepFacts ==
  ASSUME Src!TypeOK, SourceStep
  PROVE  /\ Src!TypeOK' /\ OperatorEffect
         /\ UNCHANGED dstVars /\ UNCHANGED hostVars
<1>1. ASSUME NEW o \in Objects, (\E v \in Values : Src!upsert(o, v)) \/ Src!delete(o)
      PROVE  Src!TypeOK' /\ OperatorEffect
  BY <1>1, ObjectsTyped DEF OperatorEffect
<1>2. ASSUME NEW e \in Src!CallerIds, NEW o \in Objects, NEW v \in Values,
             Src!commit_with_outbox_event(e, o, v)
      PROVE  Src!TypeOK' /\ OperatorEffect
  <2>1. e \in Src!EventId
    BY SourceAssumption DEF Src!CallerIds, Src!EventId
  <2> QED BY <1>2, <2>1, CommitTyped DEF OperatorEffect
<1>3. ASSUME NEW e \in Src!EventId, Src!resolve_local_wins(e)
      PROVE  Src!TypeOK' /\ OperatorEffect
  <2>1. PICK o \in Objects, d \in Src!Row : Joins(e, Src!Successor(e), o, d)
    BY <1>3, LocalWinsTyped
  <2>2. Src!Successor(e) \in Src!EventId
    BY <2>1 DEF Joins
  <2> QED BY <1>3, <2>1, <2>2, LocalWinsTyped DEF OperatorEffect
<1>4. "quarantined" \in Src!OutboxState
  BY DEF Src!OutboxState
<1>5. ASSUME NEW e \in Src!EventId, NEW r \in Reasons, Src!resolve_remote_wins(e, r)
      PROVE  Src!TypeOK' /\ OperatorEffect
  <2>1. Src!TypeOK' /\ Edge(e, "quarantined")
    BY <1>4, <1>5, EdgeTyped, ClassFacts DEF Src!resolve_remote_wins
  <2> QED BY <2>1 DEF OperatorEffect
<1>6. ASSUME NEW e \in Src!EventId, NEW c \in Src!CallerClasses,
             Src!transition_outbox_event(e, "quarantined", c)
      PROVE  Src!TypeOK' /\ OperatorEffect
  <2>1. Src!TypeOK' /\ Edge(e, "quarantined")
    BY <1>4, <1>6, EdgeTyped, ClassFacts DEF Src!transition_outbox_event
  <2> QED BY <2>1 DEF OperatorEffect
<1>7. ASSUME NEW h \in Hosts, NEW n \in Limits, Src!BeginClaim(h, n, FALSE, 0)
      PROVE  Src!TypeOK' /\ OperatorEffect
  BY <1>7, BeginClaimTyped DEF OperatorEffect
<1>8. ASSUME NEW h \in Hosts, Src!AbandonClaim(h)
      PROVE  Src!TypeOK' /\ OperatorEffect
  <2>1. Src!Idle \in Src!Request
    BY DEF Src!Idle, Src!Request
  <2> QED BY <1>8, <2>1, RequestTyped DEF Src!AbandonClaim, OperatorEffect
<1>9. ASSUME Src!Tick PROVE Src!TypeOK' /\ OperatorEffect
  BY <1>9, SourceAssumption DEF Src!Tick, Src!TypeOK, OperatorEffect
<1> QED BY <1>1, <1>2, <1>3, <1>5, <1>6, <1>7, <1>8, <1>9 DEF SourceStep

(* Whatever happens to the log, events stay and keep what they announce. *)
LogGrows == \A e \in DOMAIN log :
              /\ e \in DOMAIN log'
              /\ log'[e].obj = log[e].obj /\ log'[e].digest = log[e].digest

LEMMA OperatorGrows == OperatorEffect => LogGrows
<1>1. log' = log => LogGrows
  BY DEF LogGrows
<1>2. ASSUME NEW e, NEW n, NEW o, NEW d, Joins(e, n, o, d) PROVE LogGrows
  BY <1>2 DEF LogGrows, Joins
<1>3. ASSUME NEW e, NEW s, Edge(e, s) PROVE LogGrows
  BY <1>3 DEF LogGrows, Edge
<1> QED BY <1>1, <1>2, <1>3 DEF OperatorEffect

(* What an operator's or a user's step of the source is to the transfer. *)
LEMMA OperatorMapped ==
  ASSUME OperatorEffect, receipts' = receipts
  PROVE  [Transfer!Next]_(Transfer!tvars)
<1>1. CASE log' = log
  <2>1. AnnouncedBar' = AnnouncedBar /\ AppliedBar' = AppliedBar /\ StatusBar' = StatusBar
    BY <1>1 DEF AnnouncedBar, AppliedBar, StatusBar
  <2> QED BY <2>1, MappedStutter
<1>2. ASSUME NEW e \in Src!EventId, NEW n \in Src!EventId, NEW o \in Objects,
             NEW d \in Src!Row, Joins(e, n, o, d)
      PROVE  Transfer!Next
  <2>1. Transfer!Announce(n, [obj |-> o, row |-> d])
    BY <1>2, JoinsAnnounces
  <2>2. [obj |-> o, row |-> d] \in [obj : Objects, row : Src!Row]
    OBVIOUS
  <2> QED BY <2>1, <2>2 DEF Transfer!Next
<1>3. ASSUME NEW e \in Src!EventId, Edge(e, "quarantined")
      PROVE  [Transfer!Next]_(Transfer!tvars)
  <2>1. Transfer!Close(e) \/ UNCHANGED Transfer!tvars
    BY <1>3, WithdrawalCloses
  <2> QED BY <2>1 DEF Transfer!Next
<1> QED BY <1>1, <1>2, <1>3 DEF OperatorEffect

-------------------------------------------------------------------------------
(* The destination's half of each step. *)

LEMMA VerdictFacts ==
  ASSUME NEW env
  PROVE  /\ Dst!Verdict(env) \in Dst!Verdicts
         /\ Dst!Verdict(env) = "applied" => /\ env.event \notin DOMAIN receipts
                                            /\ Dst!validate_envelope(env)
         /\ Dst!Verdict(env) = "duplicate" => env.event \in DOMAIN receipts
<1>1. Dst!Verdict(env) \in Dst!Verdicts
  BY Zenon DEF Dst!Verdict, Dst!Verdicts
<1>2. Dst!Verdict(env) = "applied" => /\ env.event \notin DOMAIN receipts
                                      /\ Dst!validate_envelope(env)
  BY Zenon DEF Dst!Verdict
<1>3. Dst!Verdict(env) = "duplicate" => env.event \in DOMAIN receipts
  BY Zenon DEF Dst!Verdict
<1> QED BY <1>1, <1>2, <1>3

(* The envelope a message stands for, once its event is in the log. *)
LEMMA EnvelopeTyped ==
  ASSUME Src!TypeOK, NEW m \in Message, m.event \in DOMAIN log
  PROVE  /\ EnvelopeOf(m) \in Dst!Envelope
         /\ EnvelopeOf(m).event = m.event
         /\ EnvelopeOf(m).obj = log[m.event].obj
         /\ EnvelopeOf(m).digest = log[m.event].digest
         /\ EnvelopeOf(m).payload = m.payload
<1>1. log[m.event] \in Src!EventRow /\ m.event \in Src!EventId /\ m.payload \in Src!Row
  BY DEF Src!TypeOK, Message
<1>2. log[m.event].obj \in Objects /\ log[m.event].digest \in Src!Row
  BY <1>1 DEF Src!EventRow
<1> QED BY <1>1, <1>2 DEF EnvelopeOf, Dst!Envelope

(* One event is taken, under the terms of its envelope. *)
Takes(e, o, d) ==
  /\ e \notin DOMAIN receipts
  /\ DOMAIN receipts' = DOMAIN receipts \cup {e}
  /\ \A x \in DOMAIN receipts : receipts'[x] = receipts[x]
  /\ receipts'[e].obj = o /\ receipts'[e].row = d

LEMMA ApplyFacts ==
  ASSUME Dst!TypeOK, NEW env \in Dst!Envelope, Dst!apply_outbox_destination(env)
  PROVE  Dst!TypeOK' /\ Takes(env.event, env.obj, env.digest)
<1>1. /\ Dst!Verdict(env) = "applied"
      /\ dobjects' = Dst!Put(dobjects, env.obj, env.payload)
      /\ receipts' = Dst!Put(receipts, env.event, Dst!ReceiptOf(env))
      /\ partition' = partition \cup {env.partition}
      /\ edited' = edited
  BY DEF Dst!apply_outbox_destination
<1>2. env.event \notin DOMAIN receipts /\ env.payload = env.digest
  BY <1>1, VerdictFacts DEF Dst!validate_envelope
<1>3. /\ env.obj \in Objects /\ env.payload \in Src!Row /\ env.event \in Src!EventId
      /\ env.partition \in {ThePartition}
  BY DEF Dst!Envelope
<1>4. Dst!ReceiptOf(env) \in Dst!Receipt
  BY DEF Dst!Envelope, Dst!Receipt, Dst!ReceiptOf
<1>5. Dst!ReceiptOf(env).obj = env.obj /\ Dst!ReceiptOf(env).row = env.digest
  BY <1>2 DEF Dst!ReceiptOf
<1>6. /\ DOMAIN receipts' = DOMAIN receipts \cup {env.event}
      /\ receipts'[env.event] = Dst!ReceiptOf(env)
      /\ \A x \in DOMAIN receipts : receipts'[x] = receipts[x]
  BY <1>1, <1>2 DEF Dst!Put
<1>7. /\ DOMAIN receipts' \subseteq Src!EventId
      /\ \A e \in DOMAIN receipts' : receipts'[e] \in Dst!Receipt
  BY <1>3, <1>4, <1>6 DEF Dst!TypeOK
<1>8. DOMAIN dobjects' \subseteq Objects /\ \A o \in DOMAIN dobjects' : dobjects'[o] \in Src!Row
  BY <1>1, <1>3 DEF Dst!TypeOK, Dst!Put
<1>9. partition' \subseteq {ThePartition} /\ edited' \subseteq Objects
  BY <1>1, <1>3 DEF Dst!TypeOK
<1>10. Dst!TypeOK'
  BY <1>7, <1>8, <1>9 DEF Dst!TypeOK
<1> QED BY <1>2, <1>5, <1>6, <1>10 DEF Takes

LEMMA DestinationStepFacts ==
  ASSUME Dst!TypeOK, DestinationStep
  PROVE  Dst!TypeOK' /\ receipts' = receipts /\ UNCHANGED srcVars /\ UNCHANGED hostVars
<1>1. ASSUME NEW o \in DestEdits, NEW row \in Src!Row, Dst!local_upsert(o, row)
      PROVE  Dst!TypeOK' /\ receipts' = receipts
  <2>1. o \in Objects
    BY DeliveryAssumption
  <2>2. /\ dobjects' = Dst!Put(dobjects, o, row) /\ edited' = edited \cup {o}
        /\ receipts' = receipts /\ partition' = partition
    BY <1>1 DEF Dst!local_upsert
  <2>3. DOMAIN dobjects' \subseteq Objects
        /\ \A x \in DOMAIN dobjects' : dobjects'[x] \in Src!Row
    BY <2>1, <2>2 DEF Dst!Put, Dst!TypeOK
  <2> QED BY <2>1, <2>2, <2>3 DEF Dst!TypeOK
<1>2. ASSUME NEW o \in DestEdits, Dst!local_delete(o)
      PROVE  Dst!TypeOK' /\ receipts' = receipts
  BY <1>2, DeliveryAssumption DEF Dst!local_delete, Dst!TypeOK
<1> QED BY <1>1, <1>2 DEF DestinationStep

(* Taking an event is the transfer's Apply. *)
LEMMA TakesApplies ==
  ASSUME NEW e \in DOMAIN log, Takes(e, log[e].obj, log[e].digest), log' = log
  PROVE  Transfer!Apply(e)
<1>1. e \in DOMAIN AnnouncedBar \ DOMAIN AppliedBar
  BY DEF AnnouncedBar, AppliedBar, Takes
<1>2. AppliedBar' = Transfer!Put(AppliedBar, e, AnnouncedBar[e])
  BY DEF AnnouncedBar, AppliedBar, Transfer!Put, Takes
<1>3. AnnouncedBar' = AnnouncedBar /\ StatusBar' = StatusBar
  BY DEF AnnouncedBar, StatusBar
<1> QED BY <1>1, <1>2, <1>3, MappedApply

-------------------------------------------------------------------------------
(* The inductive invariant: types, and what messages and records vouch for. *)

(* Whatever a loop holds and whatever travels is about an event of the log, *)
(* and an answer of success is about an event with a receipt.               *)
MessagesKnown ==
  /\ \A h \in Hosts : held[h] \subseteq DOMAIN log
  /\ \A m \in net : m.event \in DOMAIN log
  /\ \A r \in replies : r.verdict \in {"applied", "duplicate"} => r.event \in DOMAIN receipts

(* A receipt records what its event announces, and an acknowledged event    *)
(* has one.                                                                 *)
RecordsAgree ==
  /\ \A e \in DOMAIN receipts : /\ e \in DOMAIN log
                                /\ receipts[e].obj = log[e].obj
                                /\ receipts[e].row = log[e].digest
  /\ \A e \in DOMAIN log : log[e].state = "acknowledged" => e \in DOMAIN receipts

IInv == TypeOK /\ MessagesKnown /\ RecordsAgree

(* What every step is shown to do. *)
StepOK == IInv' /\ [Transfer!Next]_(Transfer!tvars)

LEMMA RecordsKept ==
  ASSUME RecordsAgree, LogGrows, receipts' = receipts,
         \A e \in DOMAIN log' : log'[e].state = "acknowledged" =>
           (e \in DOMAIN log /\ log[e].state = "acknowledged") \/ e \in DOMAIN receipts
  PROVE  RecordsAgree'
BY DEF RecordsAgree, LogGrows

LEMMA MessagesKept ==
  ASSUME MessagesKnown, LogGrows, DOMAIN receipts \subseteq DOMAIN receipts',
         \A h \in Hosts : held'[h] \subseteq held[h],
         net' \subseteq net, replies' \subseteq replies
  PROVE  MessagesKnown'
BY DEF MessagesKnown, LogGrows

LEMMA QuietLog ==
  ASSUME IInv, log' = log, receipts' = receipts
  PROVE  LogGrows /\ RecordsAgree' /\ UNCHANGED Transfer!tvars
<1>1. LogGrows
  BY DEF LogGrows
<1>2. RecordsAgree'
  BY DEF RecordsAgree, IInv
<1>3. AnnouncedBar' = AnnouncedBar /\ AppliedBar' = AppliedBar /\ StatusBar' = StatusBar
  BY DEF AnnouncedBar, AppliedBar, StatusBar
<1> QED BY <1>1, <1>2, <1>3, MappedStutter

LEMMA SourceStepOK == ASSUME IInv, SourceStep PROVE StepOK
<1>1. /\ Src!TypeOK' /\ OperatorEffect
      /\ UNCHANGED <<dobjects, receipts, partition, edited>>
      /\ UNCHANGED <<held, net, replies, crashes>>
  BY SourceStepFacts DEF IInv, TypeOK, dstVars, hostVars
<1>2. LogGrows
  BY <1>1, OperatorGrows
<1>3. TypeOK'
  BY <1>1 DEF IInv, TypeOK, Dst!TypeOK
<1>4. MessagesKnown'
  BY <1>1, <1>2, MessagesKept DEF IInv
<1>5. \A e \in DOMAIN log' : log'[e].state = "acknowledged" =>
        e \in DOMAIN log /\ log[e].state = "acknowledged"
  BY <1>1 DEF OperatorEffect, Joins, Edge
<1>6. RecordsAgree'
  BY <1>1, <1>2, <1>5, RecordsKept DEF IInv
<1>7. [Transfer!Next]_(Transfer!tvars)
  BY <1>1, OperatorMapped
<1> QED BY <1>3, <1>4, <1>6, <1>7 DEF StepOK, IInv

LEMMA DestinationStepOK == ASSUME IInv, DestinationStep PROVE StepOK
<1>1. /\ Dst!TypeOK' /\ receipts' = receipts
      /\ UNCHANGED <<now, objects, log, request>>
      /\ UNCHANGED <<held, net, replies, crashes>>
  BY DestinationStepFacts DEF IInv, TypeOK, srcVars, hostVars
<1>2. TypeOK'
  BY <1>1 DEF IInv, TypeOK, Src!TypeOK
<1>3. LogGrows /\ RecordsAgree' /\ UNCHANGED Transfer!tvars
  BY <1>1, QuietLog
<1>4. MessagesKnown'
  BY <1>1, <1>3, MessagesKept DEF IInv
<1> QED BY <1>2, <1>3, <1>4 DEF StepOK, IInv

LEMMA BeginReclaimOK == ASSUME IInv, NEW h \in Hosts, BeginReclaim(h) PROVE StepOK
<1>1. PICK n \in Limits, b \in StaleBounds : Src!BeginClaim(h, n, TRUE, b)
  BY DEF BeginReclaim
<1>2. b \in Nat
  BY SourceAssumption
<1>3. /\ Src!TypeOK' /\ log' = log
      /\ UNCHANGED <<dobjects, receipts, partition, edited>>
      /\ UNCHANGED <<held, net, replies, crashes>>
  BY <1>1, <1>2, BeginClaimTyped DEF BeginReclaim, IInv, TypeOK, dstVars, hostVars
<1>4. TypeOK'
  BY <1>3 DEF IInv, TypeOK, Dst!TypeOK
<1>5. LogGrows /\ RecordsAgree' /\ UNCHANGED Transfer!tvars
  BY <1>3, QuietLog
<1>6. MessagesKnown'
  BY <1>3, <1>5, MessagesKept DEF IInv
<1> QED BY <1>4, <1>5, <1>6 DEF StepOK, IInv

LEMMA HostClaimOK == ASSUME IInv, NEW h \in Hosts, HostClaim(h) PROVE StepOK
<1>1. /\ Src!TypeOK' /\ HandsOut
      /\ held' = [held EXCEPT ![h] = @ \cup Src!ClaimBatch(request[h])]
      /\ UNCHANGED <<dobjects, receipts, partition, edited, net, replies, crashes>>
  BY ClaimTyped DEF HostClaim, IInv, TypeOK, dstVars
<1>2. Src!ClaimBatch(request[h]) \subseteq DOMAIN log
  BY DEF Src!ClaimBatch, Src!Drainable
<1>3. held \in [Hosts -> SUBSET Src!EventId] /\ DOMAIN log \subseteq Src!EventId
  BY DEF IInv, TypeOK, Src!TypeOK
<1>4. held' \in [Hosts -> SUBSET Src!EventId]
  BY <1>1, <1>2, <1>3
<1>5. TypeOK'
  BY <1>1, <1>4 DEF IInv, TypeOK, Dst!TypeOK
<1>6. LogGrows
  BY <1>1 DEF HandsOut, LogGrows
<1>7. \A g \in Hosts : held'[g] \subseteq DOMAIN log
  BY <1>1, <1>2, <1>3 DEF IInv, MessagesKnown
<1>8. MessagesKnown'
  BY <1>1, <1>6, <1>7 DEF IInv, MessagesKnown, LogGrows
<1>9. RecordsAgree'
  <2>1. \A e \in DOMAIN log' : log'[e].state = "acknowledged" =>
          e \in DOMAIN log /\ log[e].state = "acknowledged"
    BY <1>1 DEF HandsOut
  <2> QED BY <1>1, <1>6, <2>1, RecordsKept DEF IInv
<1>10. UNCHANGED Transfer!tvars
  BY <1>1, HandsOutStutters
<1> QED BY <1>5, <1>8, <1>9, <1>10 DEF StepOK, IInv

LEMMA HostSendOK ==
  ASSUME IInv, NEW h \in Hosts, NEW e \in Src!EventId, HostSend(h, e)
  PROVE  StepOK
<1> DEFINE m == [from |-> h, event |-> e, payload |-> objects[log[e].obj]]
<1>1. /\ e \in held[h] /\ log[e].obj \in DOMAIN objects
      /\ net' = net \cup {m}
      /\ UNCHANGED <<now, objects, log, request>>
      /\ UNCHANGED <<dobjects, receipts, partition, edited, held, replies, crashes>>
  BY DEF HostSend, srcVars, dstVars
<1>2. objects[log[e].obj] \in Src!Row
  BY <1>1 DEF IInv, TypeOK, Src!TypeOK
<1>3. m \in Message /\ m.event = e
  BY <1>2 DEF Message
<1>4. e \in DOMAIN log
  BY <1>1 DEF IInv, MessagesKnown
<1> HIDE DEF m
<1>5. TypeOK'
  BY <1>1, <1>3 DEF IInv, TypeOK, Src!TypeOK, Dst!TypeOK
<1>6. MessagesKnown'
  BY <1>1, <1>3, <1>4 DEF IInv, MessagesKnown
<1>7. RecordsAgree' /\ UNCHANGED Transfer!tvars
  BY <1>1, QuietLog
<1> QED BY <1>5, <1>6, <1>7 DEF StepOK, IInv

LEMMA LoseOK == ASSUME IInv, NEW m \in net, Lose(m) PROVE StepOK
<1>1. /\ net' = net \ {m}
      /\ UNCHANGED <<now, objects, log, request>>
      /\ UNCHANGED <<dobjects, receipts, partition, edited, held, replies, crashes>>
  BY DEF Lose, srcVars, dstVars
<1>2. TypeOK'
  BY <1>1 DEF IInv, TypeOK, Src!TypeOK, Dst!TypeOK
<1>3. LogGrows /\ RecordsAgree' /\ UNCHANGED Transfer!tvars
  BY <1>1, QuietLog
<1>4. MessagesKnown'
  BY <1>1, <1>3, MessagesKept DEF IInv
<1> QED BY <1>2, <1>3, <1>4 DEF StepOK, IInv

LEMMA CrashOK == ASSUME IInv, NEW h \in Hosts, Crash(h) PROVE StepOK
<1>1. /\ crashes < MaxCrashes /\ crashes' = crashes + 1
      /\ held' = [held EXCEPT ![h] = {}]
      /\ replies' = {r \in replies : r.to # h}
      /\ request' = [request EXCEPT ![h] = Src!Idle]
      /\ UNCHANGED <<now, objects, log>>
      /\ UNCHANGED <<dobjects, receipts, partition, edited, net>>
  BY DEF Crash, dstVars
<1>2. Src!Idle \in Src!Request
  BY DEF Src!Idle, Src!Request
<1>3. Src!TypeOK'
  BY <1>1, <1>2, RequestTyped DEF IInv, TypeOK
<1>4. held \in [Hosts -> SUBSET Src!EventId] /\ crashes \in 0 .. MaxCrashes
  BY DEF IInv, TypeOK
<1>5. held' \in [Hosts -> SUBSET Src!EventId] /\ \A g \in Hosts : held'[g] \subseteq held[g]
  BY <1>1, <1>4
<1>6. crashes' \in 0 .. MaxCrashes
  BY <1>1, <1>4, DeliveryAssumption
<1>7. TypeOK'
  BY <1>1, <1>3, <1>5, <1>6 DEF IInv, TypeOK, Dst!TypeOK
<1>8. LogGrows /\ RecordsAgree' /\ UNCHANGED Transfer!tvars
  BY <1>1, QuietLog
<1>9. MessagesKnown'
  BY <1>1, <1>5, <1>8, MessagesKept DEF IInv
<1> QED BY <1>7, <1>8, <1>9 DEF StepOK, IInv

LEMMA DeliverOK == ASSUME IInv, NEW m \in net, Deliver(m) PROVE StepOK
<1> DEFINE env == EnvelopeOf(m)
           reply == [to |-> m.from, event |-> m.event, verdict |-> Dst!Verdict(env)]
<1>1. /\ Dst!apply_outbox_destination(env)
           \/ (Dst!Verdict(env) # "applied" /\ UNCHANGED <<dobjects, receipts, partition, edited>>)
      /\ replies' \subseteq replies \cup {reply}
      /\ UNCHANGED <<now, objects, log, request>>
      /\ UNCHANGED <<held, net, crashes>>
  BY DEF Deliver, srcVars, dstVars
<1>2. m \in Message /\ m.event \in DOMAIN log
  BY DEF IInv, TypeOK, MessagesKnown
<1>3. /\ env \in Dst!Envelope /\ env.event = m.event
      /\ env.obj = log[m.event].obj /\ env.digest = log[m.event].digest
  BY <1>2, EnvelopeTyped DEF IInv, TypeOK
<1>4. /\ Dst!Verdict(env) \in Dst!Verdicts
      /\ Dst!Verdict(env) = "duplicate" => env.event \in DOMAIN receipts
  BY VerdictFacts
<1>5. /\ reply \in Reply /\ reply.event = m.event
      /\ reply.verdict = Dst!Verdict(env)
  BY <1>2, <1>4 DEF Message, Reply
<1> HIDE DEF env, reply
<1>6. replies' \subseteq Reply
  BY <1>1, <1>5 DEF IInv, TypeOK
<1>7. CASE Dst!apply_outbox_destination(env)
  <2>1. Dst!TypeOK' /\ Takes(m.event, log[m.event].obj, log[m.event].digest)
    BY <1>3, <1>7, ApplyFacts DEF IInv, TypeOK
  <2>2. TypeOK'
    BY <1>1, <1>6, <2>1 DEF IInv, TypeOK, Src!TypeOK
  <2>3. MessagesKnown'
    BY <1>1, <1>5, <2>1 DEF IInv, MessagesKnown, Takes
  <2>4. RecordsAgree'
    BY <1>1, <1>2, <2>1 DEF IInv, RecordsAgree, Takes
  <2>5. Transfer!Apply(m.event)
    BY <1>1, <1>2, <2>1, TakesApplies
  <2>6. m.event \in Src!EventId
    BY <1>2 DEF Message
  <2> QED BY <2>2, <2>3, <2>4, <2>5, <2>6 DEF StepOK, IInv, Transfer!Next
<1>8. CASE /\ Dst!Verdict(env) # "applied"
           /\ UNCHANGED <<dobjects, receipts, partition, edited>>
  <2>1. TypeOK'
    BY <1>1, <1>6, <1>8 DEF IInv, TypeOK, Src!TypeOK, Dst!TypeOK
  <2>2. MessagesKnown'
    BY <1>1, <1>3, <1>4, <1>5, <1>8 DEF IInv, MessagesKnown
  <2>3. RecordsAgree' /\ UNCHANGED Transfer!tvars
    BY <1>1, <1>8, QuietLog
  <2> QED BY <2>1, <2>2, <2>3 DEF StepOK, IInv
<1> QED BY <1>1, <1>7, <1>8

(* A report writes nothing, or moves its event out of in_flight; and it     *)
(* acknowledges only on an answer of success.                               *)
LEMMA ReportFacts ==
  ASSUME Src!TypeOK, NEW r \in replies, HostReport(r)
  PROVE  /\ Src!TypeOK'
         /\ \/ log' = log
            \/ \E s \in {"acknowledged", "rejected", "conflicted"} :
                 /\ Edge(r.event, s) /\ log[r.event].state = "in_flight"
                 /\ s = "acknowledged" => r.verdict \in {"applied", "duplicate"}
<1>1. CASE UNCHANGED srcVars
  BY <1>1 DEF srcVars, Src!TypeOK
<1>2. ASSUME NEW outcome \in OutcomesOf(r.verdict),
             Src!apply_outbox_outcome(r.event, outcome)
      PROVE  /\ Src!TypeOK' /\ Edge(r.event, outcome.state)
             /\ log[r.event].state = "in_flight"
             /\ outcome.state \in {"acknowledged", "rejected", "conflicted"}
             /\ outcome.state = "acknowledged" => r.verdict \in {"applied", "duplicate"}
  <2>1. /\ r.event \in DOMAIN log /\ log[r.event].state = "in_flight"
        /\ log' = [log EXCEPT ![r.event] =
                     Src!Transitioned(log[r.event], outcome.state, outcome.class)]
        /\ UNCHANGED <<now, objects, request>>
    BY <1>2 DEF Src!apply_outbox_outcome
  <2>2. /\ outcome.state \in {"acknowledged", "rejected", "conflicted"}
        /\ outcome.class \in Src!Class \cup {Src!NoClass}
        /\ outcome.state = "acknowledged" => r.verdict \in {"applied", "duplicate"}
    <3>1. \A q \in Reasons : [tag |-> "caller", reason |-> q] \in Src!Class
      BY DEF Src!Class
    <3>2. CASE r.verdict \in {"applied", "duplicate"}
      BY <1>2, <3>2 DEF OutcomesOf
    <3>3. CASE r.verdict \in {"diverges", "replay_mismatch"}
      BY <1>2, <3>1, <3>3 DEF OutcomesOf
    <3>4. CASE r.verdict = "refused"
      BY <1>2, <3>1, <3>4 DEF OutcomesOf
    <3>5. CASE r.verdict \notin {"applied", "duplicate", "diverges",
                                 "replay_mismatch", "refused"}
      BY <1>2, <3>5 DEF OutcomesOf
    <3> QED BY <3>2, <3>3, <3>4, <3>5
  <2>3. outcome.state \in Src!OutboxState
    BY <2>2 DEF Src!OutboxState
  <2>4. Src!TypeOK' /\ Edge(r.event, outcome.state)
    BY <2>1, <2>2, <2>3, EdgeTyped
  <2> QED BY <2>1, <2>2, <2>4
<1>3. UNCHANGED srcVars => log' = log
  BY DEF srcVars
<1> QED BY <1>1, <1>2, <1>3 DEF HostReport

LEMMA HostReportOK == ASSUME IInv, NEW r \in replies, HostReport(r) PROVE StepOK
<1>1. /\ replies' = replies \ {r}
      /\ held' = IF r.verdict = "corrupt" THEN held
                                          ELSE [held EXCEPT ![r.to] = @ \ {r.event}]
      /\ UNCHANGED <<dobjects, receipts, partition, edited, net, crashes>>
  BY DEF HostReport, dstVars
<1>2. Src!TypeOK'
  BY ReportFacts DEF IInv, TypeOK
<1>3. held \in [Hosts -> SUBSET Src!EventId]
  BY DEF IInv, TypeOK
<1>4. held' \in [Hosts -> SUBSET Src!EventId] /\ \A g \in Hosts : held'[g] \subseteq held[g]
  BY <1>1, <1>3
<1>5. TypeOK'
  BY <1>1, <1>2, <1>4 DEF IInv, TypeOK, Dst!TypeOK
<1>6. CASE log' = log
  <2>1. LogGrows /\ RecordsAgree' /\ UNCHANGED Transfer!tvars
    BY <1>1, <1>6, QuietLog
  <2>2. MessagesKnown'
    BY <1>1, <1>4, <2>1, MessagesKept DEF IInv
  <2> QED BY <1>5, <2>1, <2>2 DEF StepOK, IInv
<1>7. ASSUME NEW s \in {"acknowledged", "rejected", "conflicted"},
             Edge(r.event, s), log[r.event].state = "in_flight",
             s = "acknowledged" => r.verdict \in {"applied", "duplicate"}
      PROVE  StepOK
  <2>1. LogGrows
    BY <1>7 DEF Edge, LogGrows
  <2>2. MessagesKnown'
    BY <1>1, <1>4, <2>1, MessagesKept DEF IInv
  <2>3. s = "acknowledged" => r.event \in DOMAIN receipts
    BY <1>7 DEF IInv, MessagesKnown
  <2>4. RecordsAgree'
    <3>1. \A e \in DOMAIN log' : log'[e].state = "acknowledged" =>
            (e \in DOMAIN log /\ log[e].state = "acknowledged") \/ e \in DOMAIN receipts
      BY <1>7, <2>3 DEF Edge
    <3> QED BY <1>1, <2>1, <3>1, RecordsKept DEF IInv
  <2>5. /\ r.event \in DOMAIN StatusBar /\ StatusBar[r.event] = "open"
        /\ StatusBar' = [StatusBar EXCEPT ![r.event] = StatusOf(s)]
        /\ AnnouncedBar' = AnnouncedBar
    BY <1>7, EdgeMapped, StatusTable
  <2>6. AppliedBar' = AppliedBar /\ DOMAIN AppliedBar = DOMAIN receipts
    BY <1>1 DEF AppliedBar
  <2>7. r.event \in Src!EventId
    BY <1>7 DEF Edge, IInv, TypeOK, Src!TypeOK
  <2>8. CASE s = "acknowledged"
    <3>1. Transfer!Acknowledge(r.event)
      BY <2>3, <2>5, <2>6, <2>8, StatusTable, MappedAcknowledge
    <3> QED BY <1>5, <2>2, <2>4, <2>7, <3>1 DEF StepOK, IInv, Transfer!Next
  <2>9. CASE s # "acknowledged"
    <3>1. StatusOf(s) = "closed"
      BY <1>7, <2>9, StatusTable
    <3>2. Transfer!Close(r.event)
      BY <2>5, <2>6, <3>1, MappedClose
    <3> QED BY <1>5, <2>2, <2>4, <2>7, <3>2 DEF StepOK, IInv, Transfer!Next
  <2> QED BY <2>8, <2>9
<1> QED BY <1>6, <1>7, ReportFacts DEF IInv, TypeOK

LEMMA UnchangedOK == ASSUME IInv, UNCHANGED vars PROVE StepOK
<1>1. /\ UNCHANGED <<now, objects, log, request>>
      /\ UNCHANGED <<dobjects, receipts, partition, edited>>
      /\ UNCHANGED <<held, net, replies, crashes>>
  BY DEF vars, srcVars, dstVars, hostVars
<1>2. TypeOK'
  BY <1>1 DEF IInv, TypeOK, Src!TypeOK, Dst!TypeOK
<1>3. LogGrows /\ RecordsAgree' /\ UNCHANGED Transfer!tvars
  BY <1>1, QuietLog
<1>4. MessagesKnown'
  BY <1>1, <1>3, MessagesKept DEF IInv
<1> QED BY <1>2, <1>3, <1>4 DEF StepOK, IInv

LEMMA NextOK == IInv /\ [Next]_vars => StepOK
BY SourceStepOK, DestinationStepOK, BeginReclaimOK, HostClaimOK, CrashOK, HostSendOK,
   DeliverOK, LoseOK, HostReportOK, UnchangedOK DEF Next

LEMMA InitOK == Init => IInv /\ Transfer!Init
<1> SUFFICES ASSUME Init PROVE IInv /\ Transfer!Init
  OBVIOUS
<1>1. /\ now = 0 /\ objects = [o \in {} |-> 0] /\ log = [e \in {} |-> 0]
      /\ request = [h \in Hosts |-> Src!Idle]
      /\ dobjects = [o \in {} |-> 0] /\ receipts = [e \in {} |-> 0]
      /\ partition = {} /\ edited = {}
      /\ held = [h \in Hosts |-> {}] /\ net = {} /\ replies = {} /\ crashes = 0
  BY DEF Init, Src!Init, Dst!Init
<1>2. Src!Idle \in Src!Request
  BY DEF Src!Idle, Src!Request
<1>3. Src!TypeOK
  BY <1>1, <1>2, SourceAssumption DEF Src!TypeOK
<1>4. Dst!TypeOK
  BY <1>1 DEF Dst!TypeOK
<1>5. TypeOK
  BY <1>1, <1>3, <1>4, DeliveryAssumption DEF TypeOK
<1>6. MessagesKnown /\ RecordsAgree
  BY <1>1 DEF MessagesKnown, RecordsAgree
<1>7. /\ AnnouncedBar = [e \in {} |-> 0]
      /\ AppliedBar = [e \in {} |-> 0]
      /\ StatusBar = [e \in {} |-> 0]
  BY <1>1 DEF AnnouncedBar, AppliedBar, StatusBar
<1> QED BY <1>5, <1>6, <1>7, MappedInit DEF IInv

LEMMA Invariance == Spec => []IInv
<1>1. IInv /\ [Next]_vars => IInv'
  BY NextOK DEF StepOK
<1> QED BY <1>1, InitOK, PTL DEF Spec

(* Both stores, the loops and the transport keep their shape: no claim,     *)
(* delivery, report or crash of a sync loop leaves a half-typed row, a      *)
(* receipt for an unknown id or more crashes than the bound.                *)
THEOREM TypeCorrect == Spec => []TypeOK
<1>1. IInv => TypeOK
  BY DEF IInv
<1> QED BY <1>1, Invariance, PTL

(* Two stores, any number of crashing loops and a transport that loses,     *)
(* delays, repeats and reorders implement the abstract transfer: each       *)
(* apply_outbox_destination that writes is an Apply of what the event       *)
(* announced, each apply_outbox_outcome is an Acknowledge of something      *)
(* applied or a Close, and nothing else touches the promise.                *)
THEOREM TransferImplemented == Spec => ImplementsTransfer
<1>1. IInv /\ [Next]_vars => [Transfer!Next]_(Transfer!tvars)
  BY NextOK DEF StepOK
<1>2. Init => Transfer!Init
  BY InitOK
<1> QED BY <1>1, <1>2, Invariance, PTL DEF Spec, ImplementsTransfer, Transfer!Spec

(* What the source's health read and the destination's ledger may be read   *)
(* for together: an event the source calls acknowledged has a receipt, and  *)
(* the receipt records exactly the object and row that were announced.      *)
THEOREM AcknowledgedHasReceipt == Spec => []Transfer!AcknowledgedMeansApplied
<1>1. IInv => Transfer!AcknowledgedMeansApplied
  <2> SUFFICES ASSUME IInv, NEW e \in DOMAIN log,
                      log[e].state = "acknowledged"
               PROVE  /\ e \in DOMAIN receipts
                      /\ receipts[e].obj = log[e].obj /\ receipts[e].row = log[e].digest
    BY DEF Transfer!AcknowledgedMeansApplied
  <2> QED BY DEF IInv, RecordsAgree
<1> QED BY <1>1, Invariance, PTL

-------------------------------------------------------------------------------
(* The two stores do not know of each other: seen from one of them, every   *)
(* step is a step of its own specification, so what is proved of Outbox and *)
(* of OutboxDestination holds of the stores in the composition.             *)

(* A crash resets the claim call of its host; that is AbandonClaim, or      *)
(* nothing, because a call that is not open is blank.                       *)
IdleRequests == \A h \in Hosts : ~request[h].active => request[h] = Src!Idle

LEMMA OutcomesReported ==
  ASSUME NEW v, NEW outcome \in OutcomesOf(v)
  PROVE  outcome \in Src!Outcomes
<1>1. \A q \in Reasons : [tag |-> "caller", reason |-> q] \in Src!CallerClasses
  BY DEF Src!CallerClasses
<1>2. CASE v \in {"applied", "duplicate"}
  BY <1>2 DEF OutcomesOf, Src!Outcomes
<1>3. CASE v \in {"diverges", "replay_mismatch"}
  BY <1>1, <1>3 DEF OutcomesOf, Src!Outcomes
<1>4. CASE v = "refused"
  BY <1>1, <1>4 DEF OutcomesOf, Src!Outcomes
<1>5. CASE v \notin {"applied", "duplicate", "diverges", "replay_mismatch", "refused"}
  BY <1>5 DEF OutcomesOf
<1> QED BY <1>2, <1>3, <1>4, <1>5

LEMMA SourceStepIsSource == SourceStep => Src!Next
<1>1. "quarantined" \in Src!OutboxState
  BY DEF Src!OutboxState
<1>2. Src!CallerIds \subseteq Src!EventId
  BY SourceAssumption DEF Src!CallerIds, Src!EventId
<1> QED BY <1>1, <1>2 DEF SourceStep, Src!Next

(* Which steps touch the source, and as what. *)
LEMMA StepOfSource ==
  ASSUME IInv, IdleRequests, [Next]_vars
  PROVE  [Src!Next]_srcVars
<1>1. CASE SourceStep
  BY <1>1, SourceStepIsSource
<1>2. ASSUME NEW h \in Hosts, BeginReclaim(h) PROVE Src!Next
  BY <1>2 DEF BeginReclaim, Src!Next
<1>3. ASSUME NEW h \in Hosts, HostClaim(h) PROVE Src!Next
  BY <1>3 DEF HostClaim, Src!Next
<1>4. ASSUME NEW h \in Hosts, Crash(h) PROVE [Src!Next]_srcVars
  <2>1. request' = [request EXCEPT ![h] = Src!Idle] /\ UNCHANGED <<now, objects, log>>
    BY <1>4 DEF Crash
  <2>2. CASE request[h].active
    <3>1. Src!AbandonClaim(h)
      BY <2>1, <2>2 DEF Src!AbandonClaim
    <3> QED BY <3>1 DEF Src!Next
  <2>3. CASE ~request[h].active
    <3>1. request[h] = Src!Idle
      BY <2>3 DEF IdleRequests
    <3>2. request \in [Hosts -> Src!Request]
      BY DEF IInv, TypeOK, Src!TypeOK
    <3>3. request' = request
      BY <2>1, <3>1, <3>2
    <3> QED BY <2>1, <3>3 DEF srcVars
  <2> QED BY <2>2, <2>3
<1>5. ASSUME NEW r \in replies, HostReport(r) PROVE [Src!Next]_srcVars
  <2>1. ASSUME NEW outcome \in OutcomesOf(r.verdict),
               Src!apply_outbox_outcome(r.event, outcome)
        PROVE  Src!Next
    <3>1. outcome \in Src!Outcomes /\ r.event \in Src!EventId
      BY OutcomesReported DEF IInv, TypeOK, Reply
    <3> QED BY <2>1, <3>1 DEF Src!Next
  <2> QED BY <1>5, <2>1 DEF HostReport
<1>6. ASSUME NEW h, NEW e, HostSend(h, e) PROVE UNCHANGED srcVars
  BY <1>6 DEF HostSend
<1>7. ASSUME NEW m, Deliver(m) \/ Lose(m) PROVE UNCHANGED srcVars
  BY <1>7 DEF Deliver, Lose
<1>8. DestinationStep \/ UNCHANGED vars => UNCHANGED srcVars
  BY DEF DestinationStep, vars
<1> QED BY <1>1, <1>2, <1>3, <1>4, <1>5, <1>6, <1>7, <1>8 DEF Next

(* Every step of the source leaves the calls that are not open blank.       *)
LEMMA IdleKept ==
  ASSUME Src!TypeOK, IdleRequests, [Src!Next]_srcVars
  PROVE  IdleRequests'
<1>0. request \in [Hosts -> Src!Request] /\ ~Src!Idle.active
  BY DEF Src!TypeOK, Src!Idle
<1>1. ASSUME NEW h \in Hosts, request' = [request EXCEPT ![h] = Src!Idle]
      PROVE  IdleRequests'
  BY <1>0, <1>1 DEF IdleRequests, Src!Idle
<1>2. ASSUME NEW h \in Hosts, NEW n, NEW rc, NEW b, Src!BeginClaim(h, n, rc, b)
      PROVE  IdleRequests'
  BY <1>0, <1>2 DEF IdleRequests, Src!BeginClaim, Src!Idle
<1>3. CASE request' = request
  BY <1>3 DEF IdleRequests, Src!Idle
<1>4. ASSUME NEW h \in Hosts, Src!AbandonClaim(h) \/ Src!ClaimTx(h)
      PROVE  IdleRequests'
  BY <1>1, <1>4 DEF Src!AbandonClaim, Src!ClaimTx
<1> QED BY <1>2, <1>3, <1>4
        DEF Src!Next, srcVars, Src!upsert, Src!delete, Src!commit_with_outbox_event,
            Src!apply_outbox_outcome, Src!resolve_local_wins, Src!resolve_remote_wins,
            Src!transition_outbox_event, Src!Tick

(* The source of the composition is an Outbox: a sync loop reaches it only  *)
(* through its public calls (a crash is a claim call that never commits),   *)
(* so recorded outcomes stand, lineages stay whole and leases keep their    *)
(* bound whatever the loops and the transport do.                           *)
THEOREM SourceIsOutbox == Spec => Src!Spec
<1>1. Init => Src!Init /\ IdleRequests
  BY DEF Init, Src!Init, IdleRequests, Src!Idle
<1>2. IInv /\ IdleRequests /\ [Next]_vars => [Src!Next]_(Src!vars)
  BY StepOfSource DEF srcVars, Src!vars
<1>3. IInv /\ IdleRequests /\ [Next]_vars => IdleRequests'
  BY StepOfSource, IdleKept DEF IInv, TypeOK
<1> QED BY <1>1, <1>2, <1>3, Invariance, PTL DEF Spec, Src!Spec

(* The destination of the composition is an OutboxDestination: every        *)
(* envelope the loops can make of a claimed event is one that               *)
(* apply_outbox_destination is specified for, so a receipt is minted at     *)
(* most once and its row is out of the transport's reach.                   *)
THEOREM DestinationIsOutboxDestination == Spec => Dst!Spec
<1>1. Init => Dst!Init
  BY DEF Init
<1>2. IInv /\ [Next]_vars => [Dst!Next]_(Dst!dvars)
  <2> SUFFICES ASSUME IInv, [Next]_vars PROVE [Dst!Next]_dstVars
    BY DEF dstVars, Dst!dvars
  <2>1. CASE DestinationStep
    BY <2>1, DeliveryAssumption DEF DestinationStep, Dst!Next
  <2>2. ASSUME NEW m \in net, Deliver(m) PROVE [Dst!Next]_dstVars
    <3>1. EnvelopeOf(m) \in Dst!Envelope
      BY EnvelopeTyped DEF IInv, TypeOK, MessagesKnown
    <3> QED BY <2>2, <3>1 DEF Deliver, Dst!Next
  <2>3. ASSUME NEW m, Lose(m) PROVE UNCHANGED dstVars
    BY <2>3 DEF Lose
  <2>4. ASSUME NEW h, NEW e, HostSend(h, e) PROVE UNCHANGED dstVars
    BY <2>4 DEF HostSend
  <2>5. ASSUME NEW h, BeginReclaim(h) \/ HostClaim(h) \/ Crash(h) PROVE UNCHANGED dstVars
    BY <2>5 DEF BeginReclaim, HostClaim, Crash
  <2>6. ASSUME NEW r, HostReport(r) PROVE UNCHANGED dstVars
    BY <2>6 DEF HostReport
  <2>7. SourceStep \/ UNCHANGED vars => UNCHANGED dstVars
    BY DEF SourceStep, vars
  <2> QED BY <2>1, <2>2, <2>3, <2>4, <2>5, <2>6, <2>7 DEF Next
<1> QED BY <1>1, <1>2, Invariance, PTL DEF Spec, Dst!Spec
===============================================================================
