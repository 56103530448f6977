-------------------------------- MODULE Outbox --------------------------------
(***************************************************************************)
(* The durable outbox of one source store (memcore): the memories rows it  *)
(* announces, the event log with its frozen six-state machine              *)
(* (db/outbox.rs), the commit that couples a write to its event            *)
(* (store/outbox.rs) and the reconciliation protocol a host's sync loop    *)
(* drives: claim, report an outcome, resolve a conflict                    *)
(* (store/outbox_protocol.rs).                                             *)
(*                                                                         *)
(* Every public call is one BEGIN IMMEDIATE transaction, so each is one    *)
(* action.  The one exception is claim_outbox_events: it reads the clock   *)
(* for its staleness cutoff BEFORE it waits for the writer lock, so the    *)
(* call is two actions, BeginClaim and ClaimTx, with anything in between.  *)
(* A call that is refused, and an outcome that is AlreadyApplied, writes   *)
(* nothing and is a stuttering step.                                       *)
(*                                                                         *)
(* Data: a memories row is its revision and a value for its digested       *)
(* columns; SHA-256 is taken as collision free, so the payload digest of a *)
(* row is that row.  An event id is a caller id and the number of          *)
(* "::local-wins" suffixes after it.                                       *)
(***************************************************************************)
EXTENDS Integers, FiniteSets

CONSTANTS Events,         \* caller-stable event ids; numbers, so that they are ordered
          Objects,        \* memory ids
          Values,         \* what the digested columns of a memory can hold
          Reasons,        \* caller-chosen classification tokens
          Hosts,          \* sync loops that drain the log
          Limits,         \* batch limits a drain asks for
          StaleBounds,    \* staleness bounds a drain asks for
          MaxTime,        \* bound: last instant of the clock
          MaxRevision,    \* bound: last revision of a memory
          MaxSuccessors   \* bound: LocalWins decisions along one lineage

ASSUME EventsAssumption == Events \subseteq Nat
ASSUME DrainAssumption == Limits \subseteq Nat /\ StaleBounds \subseteq Nat
ASSUME BoundsAssumption == /\ MaxTime \in Nat
                           /\ MaxRevision \in Nat \ {0}
                           /\ MaxSuccessors \in Nat

VARIABLES now,       \* the store's wall clock
          objects,   \* the memories table: a partial function on Objects
          log,       \* memory_outbox_events: a partial function on EventId
          request    \* per host, the claim call between its cutoff and its transaction

vars == <<now, objects, log, request>>

-------------------------------------------------------------------------------
(* The vocabulary of the log. *)

OutboxState == {"pending", "in_flight", "acknowledged", "rejected",
                "conflicted", "quarantined"}

EventId == Events \X (0 .. MaxSuccessors)

CallerIds == Events \X {0}

(* outbox_local_wins_successor_id: the id with one more suffix. *)
Successor(e) == <<e[1], e[2] + 1>>

(* A classification token.  The tags other than "caller" are the kernel's   *)
(* reserved conflict_resolved_ namespace.  NoClass is SQL NULL.             *)
NoReason == "none"
NoClass == [tag |-> "none", reason |-> NoReason]
Class == [tag : {"caller", "local_wins", "remote_wins"}, reason : Reasons \cup {NoReason}]
LocalWinsClass == [tag |-> "local_wins", reason |-> NoReason]
RemoteWinsClass(r) == [tag |-> "remote_wins", reason |-> r]
IsReserved(c) == c.tag \in {"local_wins", "remote_wins"}

(* The classes a caller can spell: its own tokens, and the reserved ones,   *)
(* which refuse_reserved_resolved_class turns away.                         *)
CallerClasses == {[tag |-> "caller", reason |-> r] : r \in Reasons}
                   \cup {LocalWinsClass} \cup {RemoteWinsClass(r) : r \in Reasons}

Row == [rev : 1 .. MaxRevision, val : Values]

EventRow == [obj     : Objects,
             digest  : Row,
             state   : OutboxState,
             class   : Class \cup {NoClass},
             created : 0 .. MaxTime,
             changed : 0 .. MaxTime]

Request == [active  : BOOLEAN,
            limit   : Nat,
            reclaim : BOOLEAN,   \* reclaim_stale_after is Some
            bound   : Nat,
            at      : Nat]       \* the clock when the cutoff was taken

Idle == [active |-> FALSE, limit |-> 0, reclaim |-> FALSE, bound |-> 0, at |-> 0]

TypeOK == /\ now \in 0 .. MaxTime
          /\ DOMAIN objects \subseteq Objects
          /\ \A o \in DOMAIN objects : objects[o] \in Row
          /\ DOMAIN log \subseteq EventId
          /\ \A e \in DOMAIN log : log[e] \in EventRow
          /\ request \in [Hosts -> Request]

-------------------------------------------------------------------------------
(* The frozen state machine. *)

is_failure(s) == s \in {"rejected", "conflicted", "quarantined"}

can_transition_to(from, to) ==
  \/ to = "quarantined"
  \/ from = "pending" /\ to = "in_flight"
  \/ from = "in_flight" /\ to \in {"acknowledged", "rejected", "conflicted"}

(* Lets a caller use the kernel's own tokens. *)
UnguardedClass(to, c) == is_failure(to) <=> c # NoClass

(* The class argument a transition must carry: a failure state needs one, a *)
(* non-failure state refuses one, and a caller may not use the kernel's     *)
(* namespace.                                                               *)
class_admitted(to, c) == /\ is_failure(to) <=> c # NoClass
                         /\ ~IsReserved(c)

Transitioned(row, to, c) == [row EXCEPT !.state = to, !.class = c, !.changed = now]

Put(f, k, v) == [x \in DOMAIN f \cup {k} |-> IF x = k THEN v ELSE f[x]]

NewEvent(o, digest) == [obj |-> o, digest |-> digest, state |-> "pending",
                        class |-> NoClass, created |-> now, changed |-> now]

-------------------------------------------------------------------------------
(* Writing memories, with and without an event. *)

(* Stores a fresh row under the revision it arrived with, which may be zero. *)
ZeroRevisionUpsert(o, v) == [rev |-> IF o \in DOMAIN objects THEN objects[o].rev + 1 ELSE 0,
                             val |-> v]

(* The row an upsert of value v leaves at o: a fresh row, or the next       *)
(* revision of the one that is there.                                       *)
upserted(o, v) == [rev |-> IF o \in DOMAIN objects THEN objects[o].rev + 1 ELSE 1,
                   val |-> v]

CanUpsert(o) == o \in DOMAIN objects => objects[o].rev < MaxRevision

upsert(o, v) == /\ CanUpsert(o)
                /\ objects' = Put(objects, o, upserted(o, v))
                /\ UNCHANGED <<now, log, request>>

delete(o) == /\ o \in DOMAIN objects
             /\ objects' = [x \in DOMAIN objects \ {o} |-> objects[x]]
             /\ UNCHANGED <<now, log, request>>

(* One transaction: the write, the event that announces the row as the      *)
(* transaction now holds it, and the receipt's readback.  An event_id that  *)
(* exists, or that carries the reserved suffix, rolls the write back too.   *)
commit_with_outbox_event(e, o, v) ==
  /\ e \in CallerIds \ DOMAIN log
  /\ CanUpsert(o)
  /\ objects' = Put(objects, o, upserted(o, v))
  /\ log' = Put(log, e, NewEvent(o, upserted(o, v)))
  /\ UNCHANGED <<now, request>>

-------------------------------------------------------------------------------
(* Draining. *)

(* claim_outbox_events up to the writer lock: the request and its cutoff.   *)
BeginClaim(h, limit, reclaim, bound) ==
  /\ ~request[h].active
  /\ request' = [request EXCEPT ![h] = [active |-> TRUE, limit |-> limit,
                                        reclaim |-> reclaim, bound |-> bound,
                                        at |-> now]]
  /\ UNCHANGED <<now, objects, log>>

(* The call fails before its transaction commits: the lock retries run out, *)
(* or the host dies.                                                        *)
AbandonClaim(h) ==
  /\ request[h].active
  /\ request' = [request EXCEPT ![h] = Idle]
  /\ UNCHANGED <<now, objects, log>>

IdLess(d, e) == d[1] < e[1] \/ (d[1] = e[1] /\ d[2] < e[2])

(* sort_outbox_rows_by_created_at: enqueue order, the id breaks ties.       *)
Before(d, e) == \/ log[d].created < log[e].created
                \/ log[d].created = log[e].created /\ IdLess(d, e)

(* Takes over every lease, whatever its age. *)
ImpatientStale(r, e) == log[e].state = "in_flight" /\ r.reclaim

(* Compares the stamp with the cutoff the wrong way round. *)
BackwardsStale(r, e) == /\ log[e].state = "in_flight"
                        /\ r.reclaim
                        /\ log[e].changed > r.at

(* A lease stamped at or before the cutoff r.at - r.bound. *)
stale(r, e) == /\ log[e].state = "in_flight"
               /\ r.reclaim
               /\ log[e].changed <= r.at - r.bound

Drainable(r) == {e \in DOMAIN log : log[e].state = "pending" \/ stale(r, e)}

ClaimBatch(r) ==
  {e \in Drainable(r) : Cardinality({d \in Drainable(r) : Before(d, e)}) < r.limit}

(* The transaction: pending rows take the edge to in_flight, stale rows     *)
(* have their lease renewed.                                                *)
ClaimTx(h) ==
  LET batch == ClaimBatch(request[h])
  IN  /\ request[h].active
      /\ log' = [e \in DOMAIN log |->
                   IF e \in batch THEN Transitioned(log[e], "in_flight", NoClass)
                                  ELSE log[e]]
      /\ request' = [request EXCEPT ![h] = Idle]
      /\ UNCHANGED <<now, objects>>

-------------------------------------------------------------------------------
(* Outcomes, resolutions and the bare state machine. *)

(* The outcomes a report can carry: a target state and its class. *)
Outcomes == {[state |-> "acknowledged", class |-> NoClass]}
              \cup [state : {"rejected", "conflicted"}, class : CallerClasses]

(* Overwrites whatever outcome is recorded: last write wins. *)
LastWriterOutcome(e, outcome) ==
  /\ e \in DOMAIN log
  /\ log[e].state \notin {"pending", "quarantined"}
  /\ class_admitted(outcome.state, outcome.class)
  /\ log' = [log EXCEPT ![e] = Transitioned(log[e], outcome.state, outcome.class)]
  /\ UNCHANGED <<now, objects, request>>

(* Only an in_flight event takes an outcome: pending is NeverClaimed,       *)
(* quarantined is Withdrawn, and a recorded outcome is either this one      *)
(* (AlreadyApplied) or stands against it (OutcomeAlreadyDiffers).           *)
apply_outbox_outcome(e, outcome) ==
  /\ e \in DOMAIN log
  /\ log[e].state = "in_flight"
  /\ class_admitted(outcome.state, outcome.class)
  /\ log' = [log EXCEPT ![e] = Transitioned(log[e], outcome.state, outcome.class)]
  /\ UNCHANGED <<now, objects, request>>

(* Consumes the conflict first and loses the successor when the object is   *)
(* gone: the two halves are not one transaction.                            *)
HalfLocalWins(e) ==
  /\ e \in DOMAIN log
  /\ log[e].state = "conflicted"
  /\ e[2] < MaxSuccessors
  /\ LET o == log[e].obj
         resolved == [log EXCEPT ![e] = Transitioned(log[e], "quarantined", LocalWinsClass)]
     IN  log' = IF o \in DOMAIN objects
                  THEN Put(resolved, Successor(e), NewEvent(o, objects[o]))
                  ELSE resolved
  /\ UNCHANGED <<now, objects, request>>

(* resolve_outbox_conflict(LocalWins): the successor, announcing the object *)
(* as it is now, and the withdrawal of the conflicted event together; no    *)
(* object or a taken successor id refuses both.                             *)
resolve_local_wins(e) ==
  /\ e \in DOMAIN log
  /\ log[e].state = "conflicted"
  /\ log[e].obj \in DOMAIN objects
  /\ Successor(e) \notin DOMAIN log
  /\ e[2] < MaxSuccessors
  /\ log' = Put([log EXCEPT ![e] = Transitioned(log[e], "quarantined", LocalWinsClass)],
                Successor(e), NewEvent(log[e].obj, objects[log[e].obj]))
  /\ UNCHANGED <<now, objects, request>>

(* resolve_outbox_conflict(RemoteWins): the caller's reason goes under the  *)
(* kernel's prefix.  Deferred writes nothing.                               *)
resolve_remote_wins(e, r) ==
  /\ e \in DOMAIN log
  /\ log[e].state = "conflicted"
  /\ log' = [log EXCEPT ![e] = Transitioned(log[e], "quarantined", RemoteWinsClass(r))]
  /\ UNCHANGED <<now, objects, request>>

(* The public single-event transition: any edge of the machine, an operator *)
(* hold (quarantine) included.                                              *)
transition_outbox_event(e, to, c) ==
  /\ e \in DOMAIN log
  /\ can_transition_to(log[e].state, to)
  /\ class_admitted(to, c)
  /\ log' = [log EXCEPT ![e] = Transitioned(log[e], to, c)]
  /\ UNCHANGED <<now, objects, request>>

Tick == /\ now < MaxTime
        /\ now' = now + 1
        /\ UNCHANGED <<objects, log, request>>

-------------------------------------------------------------------------------
(* read_outbox_health, from one snapshot. *)

InState(s) == {e \in DOMAIN log : log[e].state = s}

resolved_count == Cardinality({e \in InState("quarantined") : IsReserved(log[e].class)})

LocalStoreHealthy == Cardinality(InState("quarantined")) - resolved_count = 0

-------------------------------------------------------------------------------
Init == /\ now = 0
        /\ objects = [o \in {} |-> 0]
        /\ log = [e \in {} |-> 0]
        /\ request = [h \in Hosts |-> Idle]

Next ==
  \/ \E o \in Objects, v \in Values : upsert(o, v)
  \/ \E o \in Objects : delete(o)
  \/ \E e \in EventId, o \in Objects, v \in Values : commit_with_outbox_event(e, o, v)
  \/ \E h \in Hosts, n \in Limits : BeginClaim(h, n, FALSE, 0)
  \/ \E h \in Hosts, n \in Limits, b \in StaleBounds : BeginClaim(h, n, TRUE, b)
  \/ \E h \in Hosts : AbandonClaim(h)
  \/ \E h \in Hosts : ClaimTx(h)
  \/ \E e \in EventId, outcome \in Outcomes : apply_outbox_outcome(e, outcome)
  \/ \E e \in EventId : resolve_local_wins(e)
  \/ \E e \in EventId, r \in Reasons : resolve_remote_wins(e, r)
  \/ \E e \in EventId, to \in OutboxState, c \in CallerClasses \cup {NoClass} :
        transition_outbox_event(e, to, c)
  \/ Tick

Spec == Init /\ [][Next]_vars

-------------------------------------------------------------------------------
(* Properties. *)

(* A conflict that LocalWins consumed has its successor in the log, for the *)
(* same object, and no successor exists whose parent is still open: the two *)
(* halves of resolve_outbox_conflict land together, whatever is deleted,    *)
(* re-quarantined or resolved again around them.                            *)
SuccessorLineage ==
  \A e \in DOMAIN log :
    /\ log[e].class.tag = "local_wins" => Successor(e) \in DOMAIN log
    /\ e[2] > 0 => \E d \in DOMAIN log : /\ Successor(d) = e
                                         /\ log[d].state = "quarantined"
                                         /\ log[d].obj = log[e].obj

(* last_error_class is set exactly while the state is a failure, and the    *)
(* kernel's resolved-conflict classes are only on withdrawn rows, so the    *)
(* health read never reports a class the event has moved past.              *)
ErrorClassLaw ==
  \A e \in DOMAIN log :
    /\ is_failure(log[e].state) <=> log[e].class # NoClass
    /\ IsReserved(log[e].class) => log[e].state = "quarantined"

(* No last-write-wins: once an outcome is recorded, no step of any caller   *)
(* changes its state, class or stamp, except a withdrawal; a withdrawn      *)
(* event never returns; and the columns that say what was announced never   *)
(* change at all.                                                           *)
FirstOutcomeStands ==
  [][\A e \in DOMAIN log :
       /\ e \in DOMAIN log'
       /\ log'[e].obj = log[e].obj /\ log'[e].digest = log[e].digest
       /\ log'[e].created = log[e].created
       /\ log[e].state \in {"acknowledged", "rejected", "conflicted"} =>
            log'[e] = log[e] \/ log'[e].state = "quarantined"
       /\ log[e].state = "quarantined" => log'[e].state = "quarantined"]_vars

(* A lease that is taken over had been held for the whole bound its new     *)
(* holder asked for, measured when the transaction runs: reading the cutoff *)
(* before the lock, and drains that race each other, never hand out an      *)
(* event early; and the takeover restarts the lease at the present.         *)
TakeoverRespectsBound ==
  [][\A h \in Hosts : request[h].active /\ ~request'[h].active =>
       \A e \in DOMAIN log :
         log[e].state = "in_flight" /\ log'[e] # log[e] =>
           /\ request[h].reclaim
           /\ now - log[e].changed >= request[h].bound
           /\ log'[e].changed = now]_vars

(* Every withdrawal that is not a conflict decision shows as local          *)
(* degradation in the very next health read: no caller can park an event    *)
(* under a class that health counts as resolved.                            *)
WithdrawalIsReported ==
  [][\A e \in DOMAIN log :
       (log'[e] # log[e] /\ log'[e].state = "quarantined" /\ log[e].state # "conflicted")
         => ~LocalStoreHealthy']_vars
===============================================================================
