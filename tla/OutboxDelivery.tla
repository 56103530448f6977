---------------------------- MODULE OutboxDelivery ----------------------------
(***************************************************************************)
(* A source store and a destination store reconciled by sync loops.  The   *)
(* loops and the transport are outside the repository (the kernel has no   *)
(* remote): they are modelled from how the contract tests of               *)
(* portable-kernel use the public calls, and from nothing else.  A loop    *)
(* claims a batch, reads each object's current row from the source, sends  *)
(* the claimed event with that payload, and reports what the destination   *)
(* answered.  Loops crash and restart with no memory; envelopes are lost,  *)
(* delayed and duplicated; answers to a crashed loop are lost.             *)
(***************************************************************************)
EXTENDS Integers, FiniteSets

CONSTANTS Events, Objects, Values, Reasons, Hosts, Limits, StaleBounds,
          MaxTime, MaxRevision, MaxSuccessors,
          MaxCrashes,     \* bound: host crashes in a behaviour
          DestEdits       \* the objects the destination's own users may write

ASSUME DeliveryAssumption == MaxCrashes \in Nat /\ DestEdits \subseteq Objects

(* What Outbox assumes of the constants it shares. *)
ASSUME SourceAssumption == /\ Events \subseteq Nat
                           /\ Limits \subseteq Nat /\ StaleBounds \subseteq Nat
                           /\ MaxTime \in Nat
                           /\ MaxRevision \in Nat \ {0}
                           /\ MaxSuccessors \in Nat

VARIABLES now, objects, log, request,              \* the source (Outbox)
          dobjects, receipts, partition, edited,   \* the destination
          held,      \* per host, the events it was handed and has not reported
          net,       \* envelopes in the transport
          replies,   \* destination results on their way back
          crashes    \* how many hosts have crashed

Src == INSTANCE Outbox

TheSource == "source"
ThePartition == "partition"
TheStore == "destination"

Dst == INSTANCE OutboxDestination
         WITH EventIds <- Src!EventId,
              ReservedIds <- Src!EventId \ Src!CallerIds,
              Rows <- Src!Row,
              Sources <- {TheSource}, Partitions <- {ThePartition},
              Stores <- {TheStore}, Role <- TheStore

srcVars == <<now, objects, log, request>>
dstVars == <<dobjects, receipts, partition, edited>>
hostVars == <<held, net, replies, crashes>>
vars == <<srcVars, dstVars, hostVars>>

Message == [from : Hosts, event : Src!EventId, payload : Src!Row]
Reply == [to : Hosts, event : Src!EventId, verdict : Dst!Verdicts]

TypeOK == /\ Src!TypeOK
          /\ Dst!TypeOK
          /\ held \in [Hosts -> SUBSET Src!EventId]
          /\ net \subseteq Message
          /\ replies \subseteq Reply
          /\ crashes \in 0 .. MaxCrashes

-------------------------------------------------------------------------------
(* The source's users and operators. *)

SourceStep ==
  /\ \/ \E o \in Objects, v \in Values : Src!upsert(o, v)
     \/ \E o \in Objects : Src!delete(o)
     \/ \E e \in Src!CallerIds, o \in Objects, v \in Values :
           Src!commit_with_outbox_event(e, o, v)
     \/ \E e \in Src!EventId : Src!resolve_local_wins(e)
     \/ \E e \in Src!EventId, r \in Reasons : Src!resolve_remote_wins(e, r)
     \/ \E e \in Src!EventId, c \in Src!CallerClasses :
           Src!transition_outbox_event(e, "quarantined", c)
     \/ \E h \in Hosts, n \in Limits : Src!BeginClaim(h, n, FALSE, 0)
     \/ \E h \in Hosts : Src!AbandonClaim(h)
     \/ Src!Tick
  /\ UNCHANGED <<dstVars, hostVars>>

(* A drain that may take over leases. *)
BeginReclaim(h) ==
  /\ \E n \in Limits, b \in StaleBounds : Src!BeginClaim(h, n, TRUE, b)
  /\ UNCHANGED <<dstVars, hostVars>>

DestinationStep ==
  /\ \/ \E o \in DestEdits, row \in Src!Row : Dst!local_upsert(o, row)
     \/ \E o \in DestEdits : Dst!local_delete(o)
  /\ UNCHANGED <<srcVars, hostVars>>

-------------------------------------------------------------------------------
(* The sync loop of one host, and the transport. *)

HostClaim(h) ==
  /\ held' = [held EXCEPT ![h] = @ \cup Src!ClaimBatch(request[h])]
  /\ Src!ClaimTx(h)
  /\ UNCHANGED <<dstVars, net, replies, crashes>>

(* transport_envelope: the payload is whatever the source holds NOW. *)
HostSend(h, e) ==
  /\ e \in held[h]
  /\ log[e].obj \in DOMAIN objects
  /\ LET m == [from |-> h, event |-> e, payload |-> objects[log[e].obj]]
     IN  m \notin net /\ net' = net \cup {m}
  /\ UNCHANGED <<srcVars, dstVars, held, replies, crashes>>

(* The envelope a message stands for: the claimed row, in_flight as the     *)
(* claim returned it, and the payload under the object's id.                *)
EnvelopeOf(m) == [event |-> m.event, state |-> "in_flight",
                  obj |-> log[m.event].obj, src |-> TheSource,
                  digest |-> log[m.event].digest,
                  payloadId |-> log[m.event].obj, payload |-> m.payload,
                  store |-> TheStore, partition |-> ThePartition]

(* A message stays in the transport after it is delivered: it can arrive    *)
(* again, late and out of order.  Bound: a host has one answer per event on *)
(* its way; while one is outstanding, further answers are lost.             *)
Deliver(m) ==
  LET env == EnvelopeOf(m)
      reply == [to |-> m.from, event |-> m.event, verdict |-> Dst!Verdict(env)]
  IN  /\ m \in net
      /\ Dst!apply_outbox_destination(env)
           \/ (Dst!Verdict(env) # "applied" /\ UNCHANGED dstVars)
      /\ replies' = IF \E r \in replies : r.to = m.from /\ r.event = m.event
                      THEN replies ELSE replies \cup {reply}
      /\ UNCHANGED <<srcVars, held, net, crashes>>

Lose(m) == /\ m \in net
           /\ net' = net \ {m}
           /\ UNCHANGED <<srcVars, dstVars, held, replies, crashes>>

(* The outcome a host reports for a result; a corruption error is no        *)
(* outcome, the host keeps the event.                                       *)
OutcomesOf(verdict) ==
  CASE verdict \in {"applied", "duplicate"} ->
         {[state |-> "acknowledged", class |-> Src!NoClass]}
    [] verdict \in {"diverges", "replay_mismatch"} ->
         {[state |-> "conflicted", class |-> [tag |-> "caller", reason |-> r]] : r \in Reasons}
    [] verdict = "refused" ->
         {[state |-> "rejected", class |-> [tag |-> "caller", reason |-> r]] : r \in Reasons}
    [] OTHER -> {}

(* apply_outbox_outcome with what the destination said.  A report on an     *)
(* event that already has an outcome, or was withdrawn, is answered and     *)
(* writes nothing.  After a corruption error there is nothing to report.    *)
HostReport(r) ==
  /\ r \in replies
  /\ \/ \E outcome \in OutcomesOf(r.verdict) : Src!apply_outbox_outcome(r.event, outcome)
     \/ log[r.event].state # "in_flight" /\ UNCHANGED srcVars
     \/ r.verdict = "corrupt" /\ UNCHANGED srcVars
  /\ replies' = replies \ {r}
  /\ held' = IF r.verdict = "corrupt" THEN held
                                      ELSE [held EXCEPT ![r.to] = @ \ {r.event}]
  /\ UNCHANGED <<dstVars, net, crashes>>

(* A host dies and comes back empty.  The guard on the clock keeps the last *)
(* crash early enough for its leases to go stale within MaxTime.            *)
Crash(h) ==
  /\ crashes < MaxCrashes
  /\ \A b \in StaleBounds : now + b <= MaxTime
  /\ crashes' = crashes + 1
  /\ held' = [held EXCEPT ![h] = {}]
  /\ replies' = {r \in replies : r.to # h}
  /\ request' = [request EXCEPT ![h] = Src!Idle]
  /\ UNCHANGED <<now, objects, log, dstVars, net>>

-------------------------------------------------------------------------------
Init == /\ Src!Init
        /\ Dst!Init
        /\ held = [h \in Hosts |-> {}]
        /\ net = {}
        /\ replies = {}
        /\ crashes = 0

Next == \/ SourceStep
        \/ DestinationStep
        \/ \E h \in Hosts : BeginReclaim(h) \/ HostClaim(h) \/ Crash(h)
        \/ \E h \in Hosts, e \in Src!EventId : HostSend(h, e)
        \/ \E m \in net : Deliver(m) \/ Lose(m)
        \/ \E r \in replies : HostReport(r)

Spec == Init /\ [][Next]_vars

(* The loops keep running: a host goes on draining with takeover allowed,   *)
(* the writer lock is not lost for ever (SF on the claim transaction, which *)
(* retry exhaustion may abandon any finite number of times in a row), a     *)
(* host sends what it holds, the transport does not lose every copy (SF),   *)
(* an answer that arrived is reported, and time passes.                     *)
Fairness ==
  /\ WF_vars(Src!Tick /\ UNCHANGED <<dstVars, hostVars>>)
  /\ \A h \in Hosts : /\ SF_vars(BeginReclaim(h))
                       /\ SF_vars(HostClaim(h))
                       /\ SF_vars(request[h].reclaim /\ HostClaim(h))
  /\ \A h \in Hosts, e \in Src!EventId :
       /\ WF_vars(HostSend(h, e))
       /\ SF_vars(\E m \in net : m.from = h /\ m.event = e /\ Deliver(m))
       /\ WF_vars(\E r \in replies : r.to = h /\ r.event = e /\ HostReport(r))

FairSpec == Spec /\ Fairness

-------------------------------------------------------------------------------
(* Every committed event gets an outcome or is withdrawn, although the loop *)
(* that claimed it may die before or after the destination applied it:      *)
(* takeover and idempotent redelivery finish the work.  Two things may      *)
(* prevent it, and the property names them: the source deletes the object   *)
(* (nothing to send), or the destination's users write it (a redelivery     *)
(* then ends in a corruption error or has nothing to report).               *)
EventuallySettled ==
  \A e \in Src!EventId :
    e \in DOMAIN log ~>
      e \in DOMAIN log /\ (\/ log[e].state \notin {"pending", "in_flight"}
                           \/ log[e].obj \notin DOMAIN objects
                           \/ log[e].obj \in edited)

(* The promise of a LocalWins decision: the conflicted event was not        *)
(* consumed without a successor to carry the mutation.  A successor that is *)
(* in flight, whose object the source still holds as announced and the      *)
(* destination does not hold at all, is applied when it is delivered.       *)
SuccessorCarriesTheMutation ==
  \A e \in DOMAIN log :
    LET s == Src!Successor(e)
    IN  /\ log[e].class = Src!LocalWinsClass
        /\ log[s].state = "in_flight"
        /\ log[s].obj \in DOMAIN objects \ DOMAIN dobjects
        /\ objects[log[s].obj] = log[s].digest
        => \A h \in Hosts :
             Dst!Verdict(EnvelopeOf([from |-> h, event |-> s,
                                     payload |-> log[s].digest])) = "applied"

(* The abstract promise, as a refinement. *)
Transfer ==
  INSTANCE OutboxTransfer
    WITH Ids <- Src!EventId,
         Payloads <- [obj : Objects, row : Src!Row],
         announced <- [e \in DOMAIN log |-> [obj |-> log[e].obj, row |-> log[e].digest]],
         applied <- [e \in DOMAIN receipts |->
                       [obj |-> receipts[e].obj, row |-> receipts[e].row]],
         status <- [e \in DOMAIN log |->
                      CASE log[e].state \in {"pending", "in_flight"} -> "open"
                        [] log[e].state = "acknowledged" -> "acked"
                        [] OTHER -> "closed"]

(* Two stores, crashing loops and an unreliable transport implement the     *)
(* abstract transfer: at most once, the announced payload, acknowledged     *)
(* only after applied, closed for good.                                     *)
ImplementsTransfer == Transfer!Spec
===============================================================================
