-------------------------- MODULE OutboxDestination --------------------------
(***************************************************************************)
(* The destination side of outbox reconciliation: apply_outbox_destination *)
(* of one store (store/outbox_destination_apply.rs), with its receipt      *)
(* ledger and its write-once partition stamp (db/outbox.rs).               *)
(*                                                                         *)
(* Validation happens before the transaction, everything else inside one   *)
(* BEGIN IMMEDIATE, so a call is one atomic step: Verdict says how it ends *)
(* and only "applied" writes anything durable (a Duplicate commits, but    *)
(* finds its partition stamp already there).                               *)
(*                                                                         *)
(* As in Outbox, a row stands for its own digest.                          *)
(***************************************************************************)
EXTENDS Naturals

CONSTANTS EventIds,     \* event ids an envelope can carry
          ReservedIds,  \* those that end in the successor suffix
          Objects,      \* memory ids
          Rows,         \* memory rows, each standing for its digest too
          Sources,      \* source store and source partition of an event
          Partitions,   \* destination partitions an envelope can name
          Stores,       \* destination stores an envelope can name
          Role          \* the store role stamped on this database

ASSUME ReservedAssumption == ReservedIds \subseteq EventIds
ASSUME RoleAssumption == Role \in Stores

VARIABLES dobjects,   \* the destination's memories: a partial function on Objects
          receipts,   \* memory_outbox_destination_apply_receipts, on EventIds
          partition,  \* the partition stamps written: none or one
          edited      \* history: objects some local call has written or deleted

dvars == <<dobjects, receipts, partition, edited>>

Envelope == [event : EventIds, state : {"pending", "in_flight"}, obj : Objects,
             src : Sources, digest : Rows,
             payloadId : Objects, payload : Rows,
             store : Stores, partition : Partitions]

Receipt == [obj : Objects, src : Sources, digest : Rows, row : Rows,
            store : Stores, partition : Partitions]

TypeOK == /\ DOMAIN dobjects \subseteq Objects
          /\ \A o \in DOMAIN dobjects : dobjects[o] \in Rows
          /\ DOMAIN receipts \subseteq EventIds
          /\ \A e \in DOMAIN receipts : receipts[e] \in Receipt
          /\ partition \subseteq Partitions
          /\ edited \subseteq Objects

Put(f, k, v) == [x \in DOMAIN f \cup {k} |-> IF x = k THEN v ELSE f[x]]

-------------------------------------------------------------------------------
(* Never compares the payload with the digest the event announced. *)
UnboundPayload(env) == /\ env.state = "in_flight"
                       /\ env.event \notin ReservedIds
                       /\ env.payloadId = env.obj

(* The envelope checks made before the transaction opens. *)
validate_envelope(env) == /\ env.state = "in_flight"
                          /\ env.event \notin ReservedIds
                          /\ env.payloadId = env.obj
                          /\ env.payload = env.digest

(* Checks the role and forgets the partition. *)
AnyPartition(env) == env.store = Role

(* The stamp checks inside it. *)
stamps_admit(env) == /\ env.store = Role
                     /\ partition \subseteq {env.partition}

receipt_matches_envelope(r, env) == /\ r.obj = env.obj
                                    /\ r.src = env.src
                                    /\ r.digest = env.digest
                                    /\ r.store = env.store
                                    /\ r.partition = env.partition

(* require_object_readback: the object a receipt names still holds the row  *)
(* the receipt records.                                                     *)
object_readback(r) == r.obj \in DOMAIN dobjects /\ dobjects[r.obj] = r.row

(* Applies a known event again when its terms differ. *)
ReplayBlindVerdict(env) ==
  IF ~(validate_envelope(env) /\ stamps_admit(env)) THEN "refused"
  ELSE IF env.event \in DOMAIN receipts /\ receipt_matches_envelope(receipts[env.event], env)
    THEN "duplicate"
  ELSE IF env.obj \in DOMAIN dobjects /\ dobjects[env.obj] # env.digest THEN "diverges"
  ELSE "applied"

(* Writes over whatever the destination holds. *)
OverwritingVerdict(env) ==
  IF ~(validate_envelope(env) /\ stamps_admit(env)) THEN "refused"
  ELSE IF env.event \notin DOMAIN receipts THEN "applied"
  ELSE IF receipt_matches_envelope(receipts[env.event], env) THEN "duplicate"
  ELSE "replay_mismatch"

(* How the call ends.  "refused" is an InvalidArg, "corrupt" an Internal    *)
(* error; "replay_mismatch" and "diverges" are the two Conflict reasons.    *)
Verdict(env) ==
  LET known == env.event \in DOMAIN receipts
  IN  CASE ~(validate_envelope(env) /\ stamps_admit(env)) -> "refused"
        [] OTHER ->
             CASE known /\ ~object_readback(receipts[env.event]) -> "corrupt"
               [] known /\ object_readback(receipts[env.event]) ->
                    IF receipt_matches_envelope(receipts[env.event], env)
                      THEN "duplicate" ELSE "replay_mismatch"
               [] ~known ->
                    IF env.obj \in DOMAIN dobjects /\ dobjects[env.obj] # env.digest
                      THEN "diverges" ELSE "applied"

Verdicts == {"refused", "corrupt", "duplicate", "replay_mismatch", "diverges", "applied"}

ReceiptOf(env) == [obj |-> env.obj, src |-> env.src, digest |-> env.digest,
                   row |-> env.payload, store |-> env.store,
                   partition |-> env.partition]

(* insert_if_absent_within_tx, the stamp and the receipt, committed         *)
(* together.  An equal row that is already there gets its receipt without   *)
(* a write.                                                                 *)
apply_outbox_destination(env) ==
  /\ Verdict(env) = "applied"
  /\ dobjects' = Put(dobjects, env.obj, env.payload)
  /\ receipts' = Put(receipts, env.event, ReceiptOf(env))
  /\ partition' = partition \cup {env.partition}
  /\ UNCHANGED edited

(* The destination's own users keep writing and deleting memories.          *)
local_upsert(o, row) ==
  /\ dobjects' = Put(dobjects, o, row)
  /\ edited' = edited \cup {o}
  /\ UNCHANGED <<receipts, partition>>

local_delete(o) ==
  /\ o \in DOMAIN dobjects
  /\ dobjects' = [x \in DOMAIN dobjects \ {o} |-> dobjects[x]]
  /\ edited' = edited \cup {o}
  /\ UNCHANGED <<receipts, partition>>

-------------------------------------------------------------------------------
Init == /\ dobjects = [o \in {} |-> 0]
        /\ receipts = [e \in {} |-> 0]
        /\ partition = {}
        /\ edited = {}

Next == \/ \E env \in Envelope : apply_outbox_destination(env)
        \/ \E o \in Objects, row \in Rows : local_upsert(o, row)
        \/ \E o \in Objects : local_delete(o)

Spec == Init /\ [][Next]_dvars

-------------------------------------------------------------------------------
(* Every receipt is backed by the row it records, until a local call writes *)
(* that object: no envelope, of this or another source, for this or another *)
(* event, ever changes a row a receipt stands on.                           *)
ReceiptsAreBacked ==
  \A e \in DOMAIN receipts :
    receipts[e].obj \notin edited => object_readback(receipts[e])

(* One partition per database, and it is the one every receipt was minted   *)
(* under: a refused or conflicting envelope never establishes the stamp.    *)
OnePartition ==
  /\ \A p, q \in partition : p = q
  /\ \A e \in DOMAIN receipts : partition = {receipts[e].partition}
  /\ DOMAIN receipts = {} => partition = {}

(* At most once: a receipt never changes or disappears, a step mints at     *)
(* most one, the step that mints it overwrites no row that is already       *)
(* there, and an object no local call touched appears only together with a  *)
(* receipt that names it and its row.                                       *)
AppliedAtMostOnce ==
  [][/\ \A e \in DOMAIN receipts : e \in DOMAIN receipts' /\ receipts'[e] = receipts[e]
     /\ \A d, e \in DOMAIN receipts' \ DOMAIN receipts : d = e
     /\ receipts' # receipts =>
          \A o \in DOMAIN dobjects : o \in DOMAIN dobjects' /\ dobjects'[o] = dobjects[o]
     /\ \A o \in (DOMAIN dobjects' \ DOMAIN dobjects) \ edited' :
          \E e \in DOMAIN receipts' \ DOMAIN receipts :
            receipts'[e].obj = o /\ receipts'[e].row = dobjects'[o]]_dvars
===============================================================================
