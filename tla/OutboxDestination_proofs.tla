----------------------- MODULE OutboxDestination_proofs -----------------------
(* The receipt laws of a destination store, for any events, rows, sources,  *)
(* partitions and stores.                                                   *)
EXTENDS OutboxDestination, TLAPS

LEMMA PutDomain == ASSUME NEW f, NEW k, NEW v
                   PROVE  DOMAIN Put(f, k, v) = DOMAIN f \cup {k}
  BY DEF Put

LEMMA PutAt == ASSUME NEW f, NEW k, NEW v
               PROVE  Put(f, k, v)[k] = v
  BY DEF Put

LEMMA PutElsewhere == ASSUME NEW f, NEW k, NEW v, NEW x \in DOMAIN f, x # k
                      PROVE  Put(f, k, v)[x] = f[x]
  BY DEF Put

(* What the verdict "applied" says of the state it was given in. *)
LEMMA AppliedMeans ==
  ASSUME NEW env, Verdict(env) = "applied"
  PROVE  /\ validate_envelope(env)
         /\ stamps_admit(env)
         /\ env.event \notin DOMAIN receipts
         /\ env.obj \in DOMAIN dobjects => dobjects[env.obj] = env.digest
  BY Zenon DEF Verdict

LEMMA ReceiptTyped == ASSUME NEW env \in Envelope PROVE ReceiptOf(env) \in Receipt
  BY DEF Envelope, Receipt, ReceiptOf

--------------------------------------------------------------------------------
(* What applying and a local write leave behind, entry by entry. *)
LEMMA ApplyEffect ==
  ASSUME NEW env, apply_outbox_destination(env)
  PROVE  /\ DOMAIN receipts' = DOMAIN receipts \cup {env.event}
         /\ DOMAIN dobjects' = DOMAIN dobjects \cup {env.obj}
         /\ receipts'[env.event] = ReceiptOf(env)
         /\ dobjects'[env.obj] = env.payload
         /\ \A e \in DOMAIN receipts : e # env.event => receipts'[e] = receipts[e]
         /\ \A o \in DOMAIN dobjects : o # env.obj => dobjects'[o] = dobjects[o]
  <1>1. /\ DOMAIN receipts' = DOMAIN receipts \cup {env.event}
        /\ DOMAIN dobjects' = DOMAIN dobjects \cup {env.obj}
    BY PutDomain DEF apply_outbox_destination
  <1>2. receipts'[env.event] = ReceiptOf(env) /\ dobjects'[env.obj] = env.payload
    BY PutAt DEF apply_outbox_destination
  <1>3. \A e \in DOMAIN receipts : e # env.event => receipts'[e] = receipts[e]
    BY PutElsewhere DEF apply_outbox_destination
  <1>4. \A o \in DOMAIN dobjects : o # env.obj => dobjects'[o] = dobjects[o]
    BY PutElsewhere DEF apply_outbox_destination
  <1> QED  BY <1>1, <1>2, <1>3, <1>4

LEMMA UpsertEffect ==
  ASSUME NEW o, NEW row, local_upsert(o, row)
  PROVE  /\ DOMAIN dobjects' = DOMAIN dobjects \cup {o}
         /\ dobjects'[o] = row
         /\ \A x \in DOMAIN dobjects : x # o => dobjects'[x] = dobjects[x]
  <1>1. DOMAIN dobjects' = DOMAIN dobjects \cup {o}
    BY PutDomain DEF local_upsert
  <1>2. dobjects'[o] = row
    BY PutAt DEF local_upsert
  <1>3. \A x \in DOMAIN dobjects : x # o => dobjects'[x] = dobjects[x]
    BY PutElsewhere DEF local_upsert
  <1> QED  BY <1>1, <1>2, <1>3

LEMMA ApplyTyped ==
  ASSUME TypeOK, NEW env \in Envelope, apply_outbox_destination(env)
  PROVE  TypeOK'
  <1>1. /\ env.obj \in Objects /\ env.event \in EventIds
        /\ env.payload \in Rows /\ env.partition \in Partitions
    BY DEF Envelope
  <1>2. /\ DOMAIN receipts' = DOMAIN receipts \cup {env.event}
        /\ DOMAIN dobjects' = DOMAIN dobjects \cup {env.obj}
    BY ApplyEffect
  <1>3. ASSUME NEW o \in DOMAIN dobjects' PROVE dobjects'[o] \in Rows
    <2>1. CASE o = env.obj
      BY <1>1, <2>1, ApplyEffect
    <2>2. CASE o # env.obj
      <3>1. o \in DOMAIN dobjects /\ dobjects'[o] = dobjects[o]
        BY <1>2, <1>3, <2>2, ApplyEffect
      <3> QED  BY <3>1 DEF TypeOK
    <2> QED  BY <2>1, <2>2
  <1>4. ASSUME NEW e \in DOMAIN receipts' PROVE receipts'[e] \in Receipt
    <2>1. CASE e = env.event
      BY <2>1, ApplyEffect, ReceiptTyped
    <2>2. CASE e # env.event
      <3>1. e \in DOMAIN receipts /\ receipts'[e] = receipts[e]
        BY <1>2, <1>4, <2>2, ApplyEffect
      <3> QED  BY <3>1 DEF TypeOK
    <2> QED  BY <2>1, <2>2
  <1>5. partition' \subseteq Partitions /\ edited' \subseteq Objects
    BY <1>1 DEF TypeOK, apply_outbox_destination
  <1> QED  BY <1>1, <1>2, <1>3, <1>4, <1>5 DEF TypeOK

LEMMA UpsertTyped ==
  ASSUME TypeOK, NEW o \in Objects, NEW row \in Rows, local_upsert(o, row)
  PROVE  TypeOK'
  <1>1. DOMAIN dobjects' = DOMAIN dobjects \cup {o}
    BY UpsertEffect
  <1>2. ASSUME NEW x \in DOMAIN dobjects' PROVE dobjects'[x] \in Rows
    <2>1. CASE x = o
      BY <2>1, UpsertEffect
    <2>2. CASE x # o
      <3>1. x \in DOMAIN dobjects /\ dobjects'[x] = dobjects[x]
        BY <1>1, <1>2, <2>2, UpsertEffect
      <3> QED  BY <3>1 DEF TypeOK
    <2> QED  BY <2>1, <2>2
  <1> QED  BY <1>1, <1>2 DEF TypeOK, local_upsert

LEMMA DeleteTyped ==
  ASSUME TypeOK, NEW o \in Objects, local_delete(o)
  PROVE  TypeOK'
  BY DEF TypeOK, local_delete

LEMMA NextTyped == TypeOK /\ [Next]_dvars => TypeOK'
  BY ApplyTyped, UpsertTyped, DeleteTyped DEF Next, dvars, TypeOK

(* The store, its receipts and its stamp keep their shape, whatever         *)
(* envelopes arrive and whatever its own users write.                       *)
THEOREM TypeCorrect == Spec => []TypeOK
  <1>1. Init => TypeOK
    BY DEF Init, TypeOK
  <1> QED  BY <1>1, NextTyped, PTL DEF Spec

--------------------------------------------------------------------------------
(* One stamp, and every receipt minted under it.                            *)
LEMMA InitPartition == Init => OnePartition
  BY DEF Init, OnePartition

LEMMA NextPartition == OnePartition /\ [Next]_dvars => OnePartition'
  <1> SUFFICES ASSUME OnePartition, [Next]_dvars PROVE OnePartition'
    OBVIOUS
  <1>1. ASSUME NEW env \in Envelope, apply_outbox_destination(env) PROVE OnePartition'
    <2>1. partition' = {env.partition}
      BY <1>1, AppliedMeans DEF stamps_admit, apply_outbox_destination
    <2>2. DOMAIN receipts' = DOMAIN receipts \cup {env.event}
      BY <1>1, ApplyEffect
    <2>3. ASSUME NEW e \in DOMAIN receipts' PROVE receipts'[e].partition = env.partition
      <3>1. CASE e = env.event
        <4>1. receipts'[e] = ReceiptOf(env)
          BY <1>1, <3>1, ApplyEffect
        <4> QED  BY <4>1 DEF ReceiptOf
      <3>2. CASE e # env.event
        <4>1. e \in DOMAIN receipts /\ receipts'[e] = receipts[e]
          BY <1>1, <2>2, <2>3, <3>2, ApplyEffect
        <4>2. partition = {receipts[e].partition}
          BY <4>1 DEF OnePartition
        <4>3. partition \subseteq {env.partition}
          BY <1>1, AppliedMeans DEF stamps_admit, apply_outbox_destination
        <4> QED  BY <4>1, <4>2, <4>3
      <3> QED  BY <3>1, <3>2
    <2> QED  BY <2>1, <2>2, <2>3 DEF OnePartition
  <1>2. ASSUME NEW o \in Objects, NEW row \in Rows, local_upsert(o, row) PROVE OnePartition'
    BY <1>2 DEF OnePartition, local_upsert
  <1>3. ASSUME NEW o \in Objects, local_delete(o) PROVE OnePartition'
    BY <1>3 DEF OnePartition, local_delete
  <1>4. CASE UNCHANGED dvars
    BY <1>4 DEF OnePartition, dvars
  <1> QED  BY <1>1, <1>2, <1>3, <1>4 DEF Next

(* A database takes events for one partition only, the one its first        *)
(* committed receipt named: refused and conflicting envelopes leave no      *)
(* stamp (apply_outbox_destination).                                        *)
THEOREM PartitionIsWrittenOnce == Spec => []OnePartition
  BY InitPartition, NextPartition, PTL DEF Spec

--------------------------------------------------------------------------------
(* The row a receipt stands on is out of reach of every envelope: its own   *)
(* event answers a duplicate, and another event is either about the same    *)
(* row or diverges.                                                         *)
LEMMA NextBacked == TypeOK /\ ReceiptsAreBacked /\ [Next]_dvars => ReceiptsAreBacked'
  <1> SUFFICES ASSUME TypeOK, ReceiptsAreBacked, [Next]_dvars,
                      NEW e \in DOMAIN receipts', receipts'[e].obj \notin edited'
               PROVE  object_readback(receipts[e])'
    BY DEF ReceiptsAreBacked
  <1>1. ASSUME NEW env \in Envelope, apply_outbox_destination(env)
        PROVE  object_readback(receipts[e])'
    <2>1. /\ DOMAIN receipts' = DOMAIN receipts \cup {env.event}
          /\ DOMAIN dobjects' = DOMAIN dobjects \cup {env.obj}
      BY <1>1, ApplyEffect
    <2>2. dobjects'[env.obj] = env.payload
      BY <1>1, ApplyEffect
    <2>3. CASE e = env.event
      <3>1. receipts'[e] = ReceiptOf(env)
        BY <1>1, <2>3, ApplyEffect
      <3> QED  BY <2>1, <2>2, <3>1 DEF object_readback, ReceiptOf
    <2>4. CASE e # env.event
      <3>1. e \in DOMAIN receipts /\ receipts'[e] = receipts[e] /\ edited' = edited
        BY <1>1, <2>1, <2>4, ApplyEffect DEF apply_outbox_destination
      <3>2. object_readback(receipts[e])
        BY <3>1 DEF ReceiptsAreBacked
      <3>3. CASE receipts[e].obj = env.obj
        <4>1. env.payload = receipts[e].row
          BY <1>1, <3>2, <3>3, AppliedMeans
             DEF apply_outbox_destination, validate_envelope, object_readback
        <4> QED  BY <2>1, <2>2, <3>1, <3>3, <4>1 DEF object_readback
      <3>4. CASE receipts[e].obj # env.obj
        <4>1. dobjects'[receipts[e].obj] = dobjects[receipts[e].obj]
          BY <1>1, <3>2, <3>4, ApplyEffect DEF object_readback
        <4> QED  BY <2>1, <3>1, <3>2, <4>1 DEF object_readback
      <3> QED  BY <3>3, <3>4
    <2> QED  BY <2>3, <2>4
  <1>2. ASSUME NEW o \in Objects, NEW row \in Rows, local_upsert(o, row)
        PROVE  object_readback(receipts[e])'
    <2>1. /\ receipts' = receipts
          /\ receipts[e].obj # o
          /\ receipts[e].obj \notin edited
      BY <1>2 DEF local_upsert
    <2>2. object_readback(receipts[e])
      BY <2>1 DEF ReceiptsAreBacked
    <2>3. /\ receipts[e].obj \in DOMAIN dobjects'
          /\ dobjects'[receipts[e].obj] = dobjects[receipts[e].obj]
      BY <1>2, <2>1, <2>2, UpsertEffect DEF object_readback
    <2> QED  BY <2>1, <2>2, <2>3 DEF object_readback
  <1>3. ASSUME NEW o \in Objects, local_delete(o)
        PROVE  object_readback(receipts[e])'
    <2>1. /\ receipts' = receipts
          /\ receipts[e].obj # o
          /\ receipts[e].obj \notin edited
      BY <1>3 DEF local_delete
    <2>2. object_readback(receipts[e])
      BY <2>1 DEF ReceiptsAreBacked
    <2>3. /\ receipts[e].obj \in DOMAIN dobjects'
          /\ dobjects'[receipts[e].obj] = dobjects[receipts[e].obj]
      BY <1>3, <2>1, <2>2 DEF local_delete, object_readback
    <2> QED  BY <2>1, <2>2, <2>3 DEF object_readback
  <1>4. CASE UNCHANGED dvars
    BY <1>4 DEF ReceiptsAreBacked, object_readback, dvars
  <1> QED  BY <1>1, <1>2, <1>3, <1>4 DEF Next

(* A receipt is evidence: the row it records is there until the             *)
(* destination's own users touch that object (apply_outbox_destination,     *)
(* require_object_readback).                                                *)
THEOREM ReceiptsStayBacked == Spec => []ReceiptsAreBacked
  <1>1. Init => ReceiptsAreBacked
    BY DEF Init, ReceiptsAreBacked
  <1>2. Spec => [](TypeOK /\ ReceiptsAreBacked)
    BY <1>1, NextBacked, NextTyped, TypeCorrect, PTL DEF Spec
  <1> QED  BY <1>2, PTL

--------------------------------------------------------------------------------
(* Receipts are minted one at a time, never rewritten, never over a         *)
(* different row, and what appears without a local call has one             *)
(* (apply_outbox_destination commits object and receipt together).          *)
LEMMA OnceStep ==
  [Next]_dvars =>
    /\ \A e \in DOMAIN receipts : e \in DOMAIN receipts' /\ receipts'[e] = receipts[e]
    /\ \A d, e \in DOMAIN receipts' \ DOMAIN receipts : d = e
    /\ receipts' # receipts =>
         \A o \in DOMAIN dobjects : o \in DOMAIN dobjects' /\ dobjects'[o] = dobjects[o]
    /\ \A o \in (DOMAIN dobjects' \ DOMAIN dobjects) \ edited' :
         \E e \in DOMAIN receipts' \ DOMAIN receipts :
           receipts'[e].obj = o /\ receipts'[e].row = dobjects'[o]
  <1> DEFINE Once ==
        /\ \A e \in DOMAIN receipts : e \in DOMAIN receipts' /\ receipts'[e] = receipts[e]
        /\ \A d, e \in DOMAIN receipts' \ DOMAIN receipts : d = e
        /\ receipts' # receipts =>
             \A o \in DOMAIN dobjects : o \in DOMAIN dobjects' /\ dobjects'[o] = dobjects[o]
        /\ \A o \in (DOMAIN dobjects' \ DOMAIN dobjects) \ edited' :
             \E e \in DOMAIN receipts' \ DOMAIN receipts :
               receipts'[e].obj = o /\ receipts'[e].row = dobjects'[o]
  <1> SUFFICES ASSUME [Next]_dvars PROVE Once
    OBVIOUS
  <1>1. ASSUME NEW env \in Envelope, apply_outbox_destination(env) PROVE Once
    <2>1. /\ DOMAIN receipts' = DOMAIN receipts \cup {env.event}
          /\ DOMAIN dobjects' = DOMAIN dobjects \cup {env.obj}
          /\ dobjects'[env.obj] = env.payload
          /\ receipts'[env.event] = ReceiptOf(env)
      BY <1>1, ApplyEffect
    <2>2. /\ env.event \notin DOMAIN receipts
          /\ env.obj \in DOMAIN dobjects => dobjects[env.obj] = env.payload
      BY <1>1, AppliedMeans DEF apply_outbox_destination, validate_envelope
    <2>3. ASSUME NEW d \in DOMAIN receipts PROVE receipts'[d] = receipts[d]
      BY <1>1, <2>2, ApplyEffect
    <2>4. ASSUME NEW o \in DOMAIN dobjects PROVE dobjects'[o] = dobjects[o]
      <3>1. CASE o = env.obj
        BY <2>1, <2>2, <3>1
      <3>2. CASE o # env.obj
        BY <1>1, <3>2, ApplyEffect
      <3> QED  BY <3>1, <3>2
    <2>5. receipts'[env.event].obj = env.obj /\ receipts'[env.event].row = env.payload
      BY <2>1 DEF ReceiptOf
    <2> QED  BY <2>1, <2>2, <2>3, <2>4, <2>5
  <1>2. ASSUME NEW o \in Objects, NEW row \in Rows, local_upsert(o, row) PROVE Once
    <2>1. receipts' = receipts /\ o \in edited'
      BY <1>2 DEF local_upsert
    <2>2. DOMAIN dobjects' = DOMAIN dobjects \cup {o}
      BY <1>2, UpsertEffect
    <2> QED  BY <2>1, <2>2
  <1>3. ASSUME NEW o \in Objects, local_delete(o) PROVE Once
    BY <1>3 DEF local_delete
  <1>4. CASE UNCHANGED dvars
    BY <1>4 DEF dvars
  <1> QED  BY <1>1, <1>2, <1>3, <1>4 DEF Next

(* A delivery that is repeated, duplicated or late is applied at most once  *)
(* (apply_outbox_destination).                                              *)
THEOREM DeliveriesApplyOnce == Spec => AppliedAtMostOnce
  BY OnceStep, PTL DEF Spec, AppliedAtMostOnce
===============================================================================
