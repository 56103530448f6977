-------------------------- MODULE BuildBroker_proofs --------------------------
(***************************************************************************)
(* Proofs about BuildBroker, for any number of tickets, drains, operators  *)
(* and faults, any heads and any relation between them.                    *)
(***************************************************************************)
EXTENDS BuildBroker, TLAPS

-------------------------------------------------------------------------------
(* Moves of a drain. *)

(* The row of p changes, and no other. *)
Moved(p) == /\ drain' \in [Drains -> DrainRow]
            /\ \A q \in Drains : q # p => drain'[q] = drain[q]

(* Writing a row for one drain moves it and leaves the others alone. *)
LEMMA MovesFacts ==
  ASSUME TypeOK, NEW p \in Drains, NEW row \in DrainRow, Moves(p, row)
  PROVE  Moved(p) /\ drain'[p] = row
  BY DEF TypeOK, Moves, Moved

(* Every update the steps make of a row is a row. *)
LEMMA RowUpdates ==
  ASSUME NEW row \in DrainRow, NEW s \in Phases, NEW d \in Dirs \cup {None},
         NEW f \in Fates, NEW n \in Nat
  PROVE  /\ [row EXCEPT !.phase = s] \in DrainRow
         /\ [row EXCEPT !.phase = s, !.attempts = n] \in DrainRow
         /\ [row EXCEPT !.phase = s, !.dir = d] \in DrainRow
         /\ [row EXCEPT !.phase = s, !.fate = f] \in DrainRow
         /\ [row EXCEPT !.phase = s, !.dir = d, !.fate = f] \in DrainRow
  <1>1. /\ [row EXCEPT !.phase = s] \in DrainRow
        /\ [row EXCEPT !.phase = s, !.attempts = n] \in DrainRow
    BY DEF DrainRow
  <1>2. /\ [row EXCEPT !.phase = s, !.dir = d] \in DrainRow
        /\ [row EXCEPT !.phase = s, !.fate = f] \in DrainRow
        /\ [row EXCEPT !.phase = s, !.dir = d, !.fate = f] \in DrainRow
    BY DEF DrainRow
  <1> QED  BY <1>1, <1>2

(* A drain between two tickets has a row too. *)
LEMMA IdleRow == Idle \in DrainRow
  BY DEF DrainRow, Idle, Phases, Fates

(* A drain that goes on keeps its ticket and its directory. *)
LEMMA PhaseMove ==
  ASSUME TypeOK, NEW p \in Drains, NEW s \in Phases,
         Moves(p, [drain[p] EXCEPT !.phase = s])
  PROVE  /\ Moved(p)
         /\ drain'[p].phase = s /\ drain'[p].ticket = drain[p].ticket
         /\ drain'[p].dir = drain[p].dir
  <1>1. drain[p] \in DrainRow /\ Idle \in DrainRow
    BY IdleRow DEF TypeOK
  <1>0. 0 \in Nat /\ None \in Dirs \cup {None} /\ "none" \in Fates
    BY DEF Fates
  <1>2. [drain[p] EXCEPT !.phase = s] \in DrainRow
    BY <1>0, <1>1, RowUpdates
  <1> QED  BY <1>1, <1>2, MovesFacts DEF DrainRow, Idle

(* A drain that is given a directory keeps its ticket. *)
LEMMA PlanMove ==
  ASSUME TypeOK, NEW p \in Drains, NEW s \in Phases, NEW d \in Dirs,
         Moves(p, [drain[p] EXCEPT !.phase = s, !.dir = d])
  PROVE  /\ Moved(p)
         /\ drain'[p].phase = s /\ drain'[p].ticket = drain[p].ticket /\ drain'[p].dir = d
  <1>1. drain[p] \in DrainRow /\ Idle \in DrainRow
    BY IdleRow DEF TypeOK
  <1>0. 0 \in Nat /\ None \in Dirs \cup {None} /\ "none" \in Fates
    BY DEF Fates
  <1>2. [drain[p] EXCEPT !.phase = s, !.dir = d] \in DrainRow
    BY <1>0, <1>1, RowUpdates
  <1> QED  BY <1>1, <1>2, MovesFacts DEF DrainRow, Idle

(* A drain that learns a fate keeps its ticket and its directory. *)
LEMMA FateMove ==
  ASSUME TypeOK, NEW p \in Drains, NEW s \in Phases, NEW f \in Fates,
         Moves(p, [drain[p] EXCEPT !.phase = s, !.fate = f])
  PROVE  /\ Moved(p)
         /\ drain'[p].phase = s /\ drain'[p].ticket = drain[p].ticket
         /\ drain'[p].dir = drain[p].dir /\ drain'[p].fate = f
  <1>1. drain[p] \in DrainRow /\ Idle \in DrainRow
    BY IdleRow DEF TypeOK
  <1>0. 0 \in Nat /\ None \in Dirs \cup {None} /\ "none" \in Fates
    BY DEF Fates
  <1>2. [drain[p] EXCEPT !.phase = s, !.fate = f] \in DrainRow
    BY <1>0, <1>1, RowUpdates
  <1> QED  BY <1>1, <1>2, MovesFacts DEF DrainRow, Idle

(* A drain that is done with its directory keeps its ticket. *)
LEMMA ExitMove ==
  ASSUME TypeOK, NEW p \in Drains, NEW s \in Phases, NEW f \in Fates,
         Moves(p, [drain[p] EXCEPT !.phase = s, !.dir = None, !.fate = f])
  PROVE  /\ Moved(p)
         /\ drain'[p].phase = s /\ drain'[p].ticket = drain[p].ticket
  <1>1. drain[p] \in DrainRow /\ Idle \in DrainRow
    BY IdleRow DEF TypeOK
  <1>0. 0 \in Nat /\ None \in Dirs \cup {None} /\ "none" \in Fates
    BY DEF Fates
  <1>2. [drain[p] EXCEPT !.phase = s, !.dir = None, !.fate = f] \in DrainRow
    BY <1>0, <1>1, RowUpdates
  <1> QED  BY <1>1, <1>2, MovesFacts DEF DrainRow, Idle

(* A drain that counts attempts keeps its ticket. *)
LEMMA CountMove ==
  ASSUME TypeOK, NEW p \in Drains, NEW s \in Phases, NEW n \in Nat,
         Moves(p, [drain[p] EXCEPT !.phase = s, !.attempts = n])
  PROVE  /\ Moved(p)
         /\ drain'[p].phase = s /\ drain'[p].ticket = drain[p].ticket
  <1>1. drain[p] \in DrainRow /\ Idle \in DrainRow
    BY IdleRow DEF TypeOK
  <1>0. 0 \in Nat /\ None \in Dirs \cup {None} /\ "none" \in Fates
    BY DEF Fates
  <1>2. [drain[p] EXCEPT !.phase = s, !.attempts = n] \in DrainRow
    BY <1>0, <1>1, RowUpdates
  <1> QED  BY <1>1, <1>2, MovesFacts DEF DrainRow, Idle

(* A drain that picks a ticket has it. *)
LEMMA PickMove ==
  ASSUME TypeOK, NEW p \in Drains, NEW s \in Phases, NEW t \in Tickets,
         Moves(p, [Idle EXCEPT !.phase = s, !.ticket = t])
  PROVE  /\ Moved(p)
         /\ drain'[p].phase = s /\ drain'[p].ticket = t
  <1>1. drain[p] \in DrainRow /\ Idle \in DrainRow
    BY IdleRow DEF TypeOK
  <1>0. 0 \in Nat /\ None \in Dirs \cup {None} /\ "none" \in Fates
    BY DEF Fates
  <1>2. [Idle EXCEPT !.phase = s, !.ticket = t] \in DrainRow
    BY <1>0, <1>1 DEF DrainRow
  <1> QED  BY <1>1, <1>2, MovesFacts DEF DrainRow, Idle

(* A drain that returns is idle. *)
LEMMA IdleMove ==
  ASSUME TypeOK, NEW p \in Drains,
         Moves(p, Idle)
  PROVE  /\ Moved(p)
         /\ drain'[p].phase = "idle"
  <1>1. drain[p] \in DrainRow /\ Idle \in DrainRow
    BY IdleRow DEF TypeOK
  <1>0. 0 \in Nat /\ None \in Dirs \cup {None} /\ "none" \in Fates
    BY DEF Fates
  <1>2. Idle \in DrainRow
    BY <1>0, <1>1, RowUpdates
  <1> QED  BY <1>1, <1>2, MovesFacts DEF DrainRow, Idle

-------------------------------------------------------------------------------
(* The inductive invariant.  All of it is about what is true as long as no *)
(* forced release misfired.                                                *)

(* The slot row is the one its holder wrote. *)
OwnsSlot(p) ==
    Holding(p) =>
      /\ slot.ticket = drain[p].ticket
      /\ drain[p].phase = "acquired" => slot.target = None
      /\ drain[p].phase \in {"wiping", "ready", "running", "ended"} => slot.target = drain[p].dir

(* A drain starts in a directory that is sound and on its line, and until  *)
(* its cargo is killed it stays so.                                        *)
StartsClean(p) ==
    LET d == drain[p].dir
        h == Head[drain[p].ticket]
    IN  /\ drain[p].phase = "ready" =>
             \/ d \in unsettled
             \/ ~ disk[d].torn /\ (disk[d].last = None \/ OneLine(disk[d].last, h))
        /\ drain[p].phase = "running" \/ (drain[p].phase = "ended" /\ drain[p].fate = "exited")
             => d \in unsettled \/ ~ disk[d].torn
        /\ drain[p].phase \in {"running", "ended"} => disk[d].last = h

(* An abandon whose slot row was not replaced since it was read has no live *)
(* holder before it, and fences the target before it frees the slot.       *)
KnowsSlot(a) ==
    abandon[a].phase # "idle" /\ slot # NoCargo /\ a \notin renewed =>
      /\ \A p \in Drains : ~ Holding(p)
      /\ abandon[a].phase = "fencing" => slot.target = abandon[a].target
      /\ abandon[a].phase = "freeing" => slot.target = None \/ slot.target \in fenced

(* A directory a cargo died in, or was not stamped for, is quarantined, or *)
(* it is the one the slot names while its build is under way or dead.      *)
Suspect(d) == disk[d].torn \/ gen[d] # disk[d].last
Guarded(d) ==
    Suspect(d) =>
      \/ d \in fenced \cup unsettled
      \/ /\ slot.target = d
         /\ \A p \in Drains : Holding(p) => drain[p].phase \in {"running", "ended"}

OneHolder == \A p, q \in Drains : Holding(p) /\ Holding(q) => p = q

Seat == /\ OneHolder
        /\ \A p \in Drains : OwnsSlot(p) /\ StartsClean(p)
        /\ \A a \in Abandoners : KnowsSlot(a)
        /\ \A d \in Dirs : Guarded(d)

IInv == TypeOK /\ (~ misfired => Seat)

-------------------------------------------------------------------------------
(* Steps that leave most of the seat alone. *)

(* A drain that neither holds the slot before nor after a step disturbs     *)
(* nothing.                                                                 *)
LEMMA OffSlot ==
  ASSUME TypeOK, Seat, NEW p \in Drains, Moved(p), ~ Holding(p), ~ Holding(p)',
         UNCHANGED <<slot, targets, abandon, renewed>>
  PROVE  Seat'
  <1>1. \A q \in Drains : Holding(q)' => q # p /\ Holding(q) /\ drain'[q] = drain[q]
    BY DEF Moved, Holding
  <1>2. OneHolder'
    BY <1>1 DEF Seat, OneHolder
  <1>3. ASSUME NEW q \in Drains
        PROVE  OwnsSlot(q)' /\ StartsClean(q)'
    <2>1. CASE q = p
      BY <2>1 DEF OwnsSlot, StartsClean, Holding
    <2>2. CASE q # p
      BY <2>2 DEF Seat, OwnsSlot, StartsClean, Holding, Moved, targets
    <2> QED  BY <2>1, <2>2
  <1>4. \A a \in Abandoners : KnowsSlot(a)'
    BY <1>1 DEF Seat, KnowsSlot, targets
  <1>5. \A d \in Dirs : Guarded(d)'
    BY <1>1 DEF Seat, Guarded, Suspect, targets
  <1> QED  BY <1>2, <1>3, <1>4, <1>5 DEF Seat

(* The holder of the slot is alone in the seat: what a step of its own has  *)
(* to keep is what is said about it and about the targets.                  *)
LEMMA HolderAlone ==
  ASSUME TypeOK, Seat, NEW p \in Drains, Moved(p), Holding(p),
         UNCHANGED <<abandon, renewed>>, slot' = NoCargo \/ slot'.ticket = slot.ticket,
         OwnsSlot(p)', StartsClean(p)', \A d \in Dirs : Guarded(d)'
  PROVE  Seat'
  <1>1. \A q \in Drains : q # p => ~ Holding(q) /\ ~ Holding(q)'
    BY DEF Seat, OneHolder, Moved, Holding
  <1>2. OneHolder'
    BY <1>1 DEF OneHolder
  <1>3. ASSUME NEW q \in Drains, q # p
        PROVE  OwnsSlot(q)' /\ StartsClean(q)'
    BY <1>1, <1>3 DEF OwnsSlot, StartsClean, Holding
  <1>4. slot # NoCargo
    <2>1. slot.ticket \in Tickets
      BY DEF Seat, OwnsSlot, TypeOK, Holding
    <2> QED  BY <2>1, TicketsAssumption DEF NoCargo, Tickets
  <1>5. \A a \in Abandoners : KnowsSlot(a)'
    BY <1>4 DEF Seat, KnowsSlot
  <1> QED  BY <1>2, <1>3, <1>5 DEF Seat

(* A step that touches no drain, slot, target, abandon disturbs nothing.    *)
LEMMA OutOfSeat ==
  ASSUME Seat, UNCHANGED <<drain, slot, targets, abandon, renewed>>
  PROVE  Seat'
  BY DEF Seat, OneHolder, OwnsSlot, StartsClean, KnowsSlot, Guarded, Suspect, Holding, targets

(* What a drain at work knows. *)
LEMMA AtWork ==
  ASSUME TypeOK, NEW p \in Drains
  PROVE  /\ drain[p] \in DrainRow
         /\ drain[p].phase # "idle" => drain[p].ticket \in Tickets
         /\ drain[p].phase \in {"wiping", "ready", "running", "ended"} => drain[p].dir \in Dirs
  BY DEF TypeOK

(* Writing one field of a target's directory keeps the rest. *)
LEMMA DiskUpdates ==
  ASSUME TypeOK, NEW d \in Dirs
  PROVE  /\ \A b \in BOOLEAN : [disk EXCEPT ![d].torn = b] \in [Dirs -> DirRow]
         /\ [disk EXCEPT ![d].torn = TRUE] \in [Dirs -> DirRow]
  BY DEF TypeOK, DirRow

(* A new author is the last one and leaves the rest of the row. *)
LEMMA AuthorAdded ==
  ASSUME TypeOK, NEW d \in Dirs, NEW h \in Heads,
         disk' = [disk EXCEPT ![d] = [last |-> h, torn |-> disk[d].torn,
                                      authors |-> disk[d].authors \cup {h}]]
  PROVE  /\ disk' \in [Dirs -> DirRow]
         /\ disk'[d].torn = disk[d].torn /\ disk'[d].last = h
         /\ \A e \in Dirs : e # d => disk'[e] = disk[e]
  <1> DEFINE row == [last |-> h, torn |-> disk[d].torn, authors |-> disk[d].authors \cup {h}]
  <1>1. disk \in [Dirs -> DirRow] /\ disk[d] \in DirRow
    BY DEF TypeOK
  <1>2. row \in DirRow /\ row.torn = disk[d].torn /\ row.last = h
    BY <1>1 DEF DirRow
  <1>3. disk' = [disk EXCEPT ![d] = row]
    OBVIOUS
  <1> HIDE DEF row
  <1> QED  BY <1>1, <1>2, <1>3

-------------------------------------------------------------------------------
(* The steps of a drain. *)

(* run_next: taking a ticket disturbs nothing. *)
LEMMA run_nextStep ==
  ASSUME IInv, NEW p \in Drains, run_next(p)
  PROVE  IInv'
  <1>0. TypeOK /\ drain[p] = Idle
    BY DEF IInv, run_next
  <1>1. TypeOK /\ drain[p].phase = "idle"
    BY <1>0 DEF Idle
  <1>2. CASE drain' = drain
    <2>1. TypeOK'
      BY <1>1, <1>2 DEF TypeOK, run_next, queue, targets, history
    <2> QED  BY <2>1, <1>2, OutOfSeat DEF IInv, run_next, history
  <1>3. CASE drain' # drain
    <2>1. PICK t \in Tickets : /\ Moves(p, [Idle EXCEPT !.phase = "picked", !.ticket = t])
                               /\ skip' = skip
      BY <1>1, <1>3 DEF run_next, pending_tickets, TypeOK
    <2>2. "picked" \in Phases
      BY DEF Phases
    <2>3. Moved(p) /\ drain'[p].phase = "picked" /\ drain'[p].ticket \in Tickets
      BY <1>1, <2>1, <2>2, PickMove
    <2>4. TypeOK'
      BY <1>1, <2>1, <2>3 DEF TypeOK, Moved, run_next, queue, targets, history
    <2>5. ~ Holding(p) /\ ~ Holding(p)'
      BY <1>1, <2>3 DEF Holding
    <2> QED  BY <1>1, <2>3, <2>4, <2>5, OffSlot DEF IInv, run_next, history
  <1> QED  BY <1>2, <1>3

(* acquire_slot: the free slot is taken by one drain, and every abandon     *)
(* under way has missed it.                                                 *)
LEMMA acquire_slotStep ==
  ASSUME IInv, NEW p \in Drains, acquire_slot(p)
  PROVE  IInv'
  <1>1. TypeOK /\ drain[p].phase = "picked" /\ drain[p].ticket \in Tickets
    BY AtWork DEF IInv, acquire_slot
  <1>2. CASE Returns(p) /\ UNCHANGED <<slot, renewed>>
    <2>1. Moved(p) /\ drain'[p].phase = "idle"
      BY <1>1, <1>2, IdleMove DEF Returns
    <2>2. TypeOK'
      BY <1>1, <1>2, <2>1 DEF TypeOK, Moved, Returns, acquire_slot, queue, targets, history
    <2>3. ~ Holding(p) /\ ~ Holding(p)'
      BY <1>1, <2>1 DEF Holding
    <2> QED  BY <1>1, <1>2, <2>1, <2>2, <2>3, OffSlot DEF IInv, acquire_slot
  <1>3. CASE /\ slot = NoCargo /\ slot' = [ticket |-> drain[p].ticket, target |-> None]
             /\ renewed' = renewed \cup Busied /\ Phase(p, "acquired") /\ UNCHANGED skip
    <2>1. "acquired" \in Phases
      BY DEF Phases
    <2>2. Moved(p) /\ drain'[p].phase = "acquired" /\ drain'[p].ticket = drain[p].ticket
      BY <1>1, <1>3, <2>1, PhaseMove DEF Phase
    <2>3. slot'.ticket = drain[p].ticket /\ slot'.target = None /\ slot' \in SlotRow
      BY <1>1, <1>3 DEF SlotRow
    <2>4. TypeOK'
      <3>1. Busied \subseteq Abandoners
        BY DEF Busied
      <3> QED  BY <1>1, <1>3, <2>2, <2>3, <3>1 DEF TypeOK, Moved, acquire_slot, queue, targets
    <2>5. ASSUME Seat
          PROVE  Seat'
      <3>1. \A q \in Drains : ~ Holding(q)
        <4>1. ASSUME NEW q \in Drains, Holding(q)
              PROVE  slot.ticket \in Tickets
          BY <1>1, <2>5, <4>1, AtWork DEF Seat, OwnsSlot, Holding
        <4> QED  BY <1>3, <4>1, TicketsAssumption DEF NoCargo, Tickets
      <3>2. \A q \in Drains : q # p => ~ Holding(q)'
        BY <2>2, <3>1 DEF Moved, Holding
      <3>3. OneHolder'
        BY <3>2 DEF OneHolder
      <3>4. \A q \in Drains : OwnsSlot(q)' /\ StartsClean(q)'
        BY <2>2, <2>3, <3>2 DEF OwnsSlot, StartsClean, Holding
      <3>5. \A a \in Abandoners : KnowsSlot(a)'
        BY <1>1, <1>3 DEF KnowsSlot, Busied, TypeOK, AbandonRow, AtRest, acquire_slot
      <3>6. \A d \in Dirs : Guarded(d)'
        <4>1. \A d \in Dirs : slot.target # d
          BY <1>3, TicketsAssumption DEF NoCargo
        <4> QED  BY <2>5, <4>1 DEF Seat, Guarded, Suspect, acquire_slot, targets
      <3> QED  BY <3>3, <3>4, <3>5, <3>6 DEF Seat
    <2> QED  BY <2>4, <2>5 DEF IInv, acquire_slot
  <1> QED  BY <1>2, <1>3 DEF acquire_slot

(* The common error exit: the slot is kept until it is released.            *)
LEMMA FailsStep ==
  ASSUME IInv, NEW p \in Drains, drain[p].phase \in {"acquired", "wiping", "ready"},
         Fails(p), UNCHANGED <<queue, slot, targets, skip, abandon, cancel, history>>
  PROVE  IInv'
  <1>1. TypeOK /\ drain[p].ticket \in Tickets
    BY AtWork DEF IInv
  <1>2. "releasing" \in Phases /\ "error" \in Fates
    BY DEF Phases, Fates
  <1>3. Moved(p) /\ drain'[p].phase = "releasing" /\ drain'[p].ticket = drain[p].ticket
    BY <1>1, <1>2, ExitMove DEF Fails, Releases
  <1>4. TypeOK'
    BY <1>1, <1>3 DEF TypeOK, Moved, queue, targets, history
  <1>5. ASSUME Seat
        PROVE  Seat'
    <2>1. Holding(p)
      BY DEF Holding
    <2>2. OwnsSlot(p)' /\ StartsClean(p)'
      BY <1>3, <1>5, <2>1 DEF Seat, OwnsSlot, StartsClean
    <2>3. \A d \in Dirs : Suspect(d) => d \in fenced \cup unsettled
      BY <1>5, <2>1 DEF Seat, Guarded
    <2>4. \A d \in Dirs : Guarded(d)'
      BY <2>3 DEF Guarded, Suspect, targets
    <2> QED  BY <1>1, <1>3, <1>5, <2>1, <2>2, <2>4, HolderAlone DEF history
  <1> QED  BY <1>4, <1>5 DEF IInv, history

(* plan_target: the slot names the target before it is touched, and a       *)
(* target that is reused as it is is clean.                                 *)
LEMMA PlanTargetStep ==
  ASSUME IInv, NEW p \in Drains, PlanTarget(p)
  PROVE  IInv'
  <1> DEFINE t == drain[p].ticket
             plan == plan_target(t)
  <1>1. TypeOK /\ drain[p].phase = "acquired" /\ t \in Tickets
    BY AtWork DEF IInv, PlanTarget
  <1>2. CASE Fails(p) /\ UNCHANGED slot
    BY <1>1, <1>2, FailsStep DEF IInv, PlanTarget, history, queue
  <1>3. CASE /\ HoldsFor(t)
             /\ slot' = [slot EXCEPT !.target = plan.dir]
             /\ Moves(p, [drain[p] EXCEPT !.phase = IF plan.clear THEN "wiping" ELSE "ready",
                                          !.dir = plan.dir])
    <2>1. PICK d \in Dirs : d = plan.dir
      BY DEF plan_target, Dirs
    <2>2. PICK s \in Phases : s = IF plan.clear THEN "wiping" ELSE "ready"
      BY DEF Phases
    <2>3. /\ Moved(p) /\ drain'[p].ticket = t /\ drain'[p].dir = d
          /\ drain'[p].phase = IF plan.clear THEN "wiping" ELSE "ready"
      <3>1. Moves(p, [drain[p] EXCEPT !.phase = s, !.dir = d])
        BY <1>3, <2>1, <2>2
      <3>2. Moved(p) /\ drain'[p].phase = s /\ drain'[p].ticket = t /\ drain'[p].dir = d
        BY <1>1, <3>1, PlanMove
      <3> QED  BY <2>2, <3>2
    <2>4. slot' \in SlotRow /\ slot'.ticket = t /\ slot'.target = d
      BY <1>1, <1>3, <2>1 DEF TypeOK, SlotRow, HoldsFor
    <2>5. TypeOK'
      BY <1>1, <2>1, <2>3, <2>4 DEF TypeOK, Moved, PlanTarget, queue, targets, history
    <2>6. ASSUME Seat
          PROVE  Seat'
      <3>1. Holding(p)
        BY <1>1 DEF Holding
      <3>2. OwnsSlot(p)'
        BY <2>3, <2>4 DEF OwnsSlot
      <3>3. \A e \in Dirs : Guarded(e)'
        <4>1. \A e \in Dirs : Suspect(e) => e \in fenced \cup unsettled
          BY <1>1, <2>6, <3>1 DEF Seat, Guarded
        <4> QED  BY <4>1 DEF Guarded, Suspect, PlanTarget, targets
      <3>4. StartsClean(p)'
        <4>1. CASE plan.clear
          BY <2>3, <4>1 DEF StartsClean
        <4>2. CASE ~ plan.clear
          <5>1. d \notin fenced /\ generation_compatible(t, d)
            BY <2>1, <4>2 DEF plan_target
          <5>2. ~ Suspect(d) \/ d \in unsettled
            BY <1>1, <2>1, <2>6, <3>1, <5>1 DEF Seat, Guarded
          <5> QED  BY <2>3, <5>1, <5>2 DEF StartsClean, Suspect, generation_compatible,
                                           PlanTarget, targets
        <4> QED  BY <4>1, <4>2
      <3> QED  BY <1>1, <1>3, <2>3, <2>4, <2>6, <3>1, <3>2, <3>3, <3>4, HolderAlone
                  DEF PlanTarget, history, HoldsFor
    <2> QED  BY <2>5, <2>6 DEF IInv, PlanTarget, history
  <1> QED  BY <1>2, <1>3 DEF PlanTarget

(* clear_target_for_reuse: emptied, a target is nobody's.                   *)
LEMMA clear_target_for_reuseStep ==
  ASSUME IInv, NEW p \in Drains, clear_target_for_reuse(p)
  PROVE  IInv'
  <1> DEFINE d == drain[p].dir
  <1>1. TypeOK /\ drain[p].phase = "wiping" /\ drain[p].ticket \in Tickets /\ d \in Dirs
    BY AtWork DEF IInv, clear_target_for_reuse
  <1>2. CASE Fails(p) /\ UNCHANGED <<targets, faults>>
    BY <1>1, <1>2, FailsStep DEF IInv, clear_target_for_reuse, history, queue
  <1>3. CASE /\ disk' = [disk EXCEPT ![d] = Empty]
             /\ fenced' = fenced \ {d}
             /\ gen' = [gen EXCEPT ![d] = None]
             /\ unsettled' = unsettled \ {d}
             /\ Phase(p, "ready") /\ UNCHANGED faults
    <2>1. "ready" \in Phases
      BY DEF Phases
    <2>2. /\ Moved(p) /\ drain'[p].phase = "ready"
          /\ drain'[p].ticket = drain[p].ticket /\ drain'[p].dir = d
      BY <1>1, <1>3, <2>1, PhaseMove DEF Phase
    <2>3. disk' \in [Dirs -> DirRow]
      BY <1>1, <1>3 DEF TypeOK, Empty, DirRow
    <2>4. TypeOK'
      BY <1>1, <1>3, <2>2, <2>3 DEF TypeOK, Moved, clear_target_for_reuse, queue
    <2>5. disk'[d].torn = FALSE /\ disk'[d].last = None /\ gen'[d] = None
      BY <1>1, <1>3 DEF TypeOK, Empty
    <2>6. \A e \in Dirs : e # d => disk'[e] = disk[e] /\ gen'[e] = gen[e]
      BY <1>1, <1>3 DEF TypeOK, DirRow
    <2>7. ASSUME Seat
          PROVE  Seat'
      <3>1. Holding(p) /\ UNCHANGED slot
        BY <1>1 DEF Holding, clear_target_for_reuse
      <3>2. OwnsSlot(p)'
        BY <1>1, <2>2, <2>7, <3>1 DEF Seat, OwnsSlot
      <3>3. StartsClean(p)'
        BY <2>2, <2>5 DEF StartsClean
      <3>4. \A e \in Dirs : Guarded(e)'
        <4>1. \A e \in Dirs : Suspect(e) => e \in fenced \cup unsettled
          BY <1>1, <2>7, <3>1 DEF Seat, Guarded
        <4> QED  BY <1>3, <2>5, <2>6, <4>1 DEF Guarded, Suspect
      <3> QED  BY <1>1, <2>2, <2>7, <3>1, <3>2, <3>3, <3>4, HolderAlone
                  DEF clear_target_for_reuse
    <2> QED  BY <2>4, <2>7 DEF IInv, clear_target_for_reuse
  <1>4. CASE /\ Faulty
             /\ disk' = [disk EXCEPT ![d].torn = TRUE]
             /\ unsettled' = unsettled \cup ({d} \ fenced)
             /\ Fails(p) /\ UNCHANGED <<gen, fenced>>
    <2>1. "releasing" \in Phases /\ "error" \in Fates
      BY DEF Phases, Fates
    <2>2. Moved(p) /\ drain'[p].phase = "releasing" /\ drain'[p].ticket = drain[p].ticket
      BY <1>1, <1>4, <2>1, ExitMove DEF Fails, Releases
    <2>3. disk' \in [Dirs -> DirRow] /\ faults' \in Nat
      BY <1>1, <1>4, DiskUpdates DEF Faulty, TypeOK
    <2>4. TypeOK'
      BY <1>1, <1>4, <2>2, <2>3 DEF TypeOK, Moved, clear_target_for_reuse, queue
    <2>5. \A e \in Dirs : e # d => disk'[e] = disk[e]
      BY <1>1, <1>4 DEF TypeOK
    <2>6. ASSUME Seat
          PROVE  Seat'
      <3>1. Holding(p) /\ UNCHANGED slot
        BY <1>1 DEF Holding, clear_target_for_reuse
      <3>2. OwnsSlot(p)' /\ StartsClean(p)'
        BY <2>2, <2>6, <3>1 DEF Seat, OwnsSlot, StartsClean
      <3>3. \A e \in Dirs : Guarded(e)'
        <4>1. \A e \in Dirs : Suspect(e) => e \in fenced \cup unsettled
          BY <1>1, <2>6, <3>1 DEF Seat, Guarded
        <4>2. /\ d \in fenced' \cup unsettled'
              /\ fenced \cup unsettled \subseteq fenced' \cup unsettled'
          BY <1>4
        <4> QED  BY <1>4, <2>5, <4>1, <4>2 DEF Guarded, Suspect
      <3> QED  BY <1>1, <2>2, <2>6, <3>1, <3>2, <3>3, HolderAlone DEF clear_target_for_reuse
    <2> QED  BY <2>4, <2>6 DEF IInv, clear_target_for_reuse
  <1> QED  BY <1>2, <1>3, <1>4 DEF clear_target_for_reuse

(* The start of cargo: it writes in the directory it was given.             *)
LEMMA StartCargoStep ==
  ASSUME IInv, NEW p \in Drains, StartCargo(p)
  PROVE  IInv'
  <1> DEFINE d == drain[p].dir
             h == Head[drain[p].ticket]
  <1>1. /\ TypeOK /\ drain[p].phase = "ready" /\ drain[p].ticket \in Tickets
        /\ d \in Dirs /\ h \in Heads
    BY AtWork, TicketsAssumption DEF IInv, StartCargo
  <1>2. CASE Fails(p) /\ UNCHANGED disk
    BY <1>1, <1>2, FailsStep DEF IInv, StartCargo, history, queue, targets
  <1>3. CASE /\ disk' = [disk EXCEPT ![d] = [last |-> h, torn |-> disk[d].torn,
                                               authors |-> disk[d].authors \cup {h}]]
             /\ Phase(p, "running")
    <2>1. "running" \in Phases
      BY DEF Phases
    <2>2. /\ Moved(p) /\ drain'[p].phase = "running"
          /\ drain'[p].ticket = drain[p].ticket /\ drain'[p].dir = d
      BY <1>1, <1>3, <2>1, PhaseMove DEF Phase
    <2>3. disk' \in [Dirs -> DirRow]
      BY <1>1, <1>3, AuthorAdded
    <2>4. TypeOK'
      BY <1>1, <1>3, <2>2, <2>3 DEF TypeOK, Moved, StartCargo, queue, history
    <2>5. disk'[d].torn = disk[d].torn /\ disk'[d].last = h
      BY <1>1, <1>3, AuthorAdded
    <2>6. \A e \in Dirs : e # d => disk'[e] = disk[e]
      BY <1>1, <1>3, AuthorAdded
    <2>7. ASSUME Seat
          PROVE  Seat'
      <3>1. Holding(p) /\ UNCHANGED <<slot, gen, fenced, unsettled>>
        BY <1>1 DEF Holding, StartCargo
      <3>2. OwnsSlot(p)' /\ slot.target = d
        BY <1>1, <2>2, <2>7, <3>1 DEF Seat, OwnsSlot
      <3>3. StartsClean(p)'
        BY <1>1, <2>2, <2>5, <2>7, <3>1 DEF Seat, StartsClean
      <3>4. \A q \in Drains : Holding(q)' => drain'[q].phase = "running"
        BY <2>2, <2>7, <3>1 DEF Seat, OneHolder, Moved, Holding
      <3>5. \A e \in Dirs : Guarded(e)'
        BY <2>6, <2>7, <3>1, <3>2, <3>4, <1>1 DEF Seat, Guarded, Suspect
      <3> QED  BY <1>1, <2>2, <2>7, <3>1, <3>2, <3>3, <3>5, HolderAlone
                  DEF StartCargo, history
    <2> QED  BY <2>4, <2>7 DEF IInv, StartCargo, history
  <1> QED  BY <1>2, <1>3 DEF StartCargo

(* The end of cargo: one that is killed leaves its directory to the slot.   *)
LEMMA EndCargoStep ==
  ASSUME IInv, NEW p \in Drains, EndCargo(p)
  PROVE  IInv'
  <1> DEFINE d == drain[p].dir
  <1>1. TypeOK /\ drain[p].phase = "running" /\ drain[p].ticket \in Tickets /\ d \in Dirs
    BY AtWork DEF IInv, EndCargo
  <1>2. PICK outcome \in {"exited", "interrupted"} :
          /\ disk' = [disk EXCEPT ![d].torn = @ \/ outcome = "interrupted"]
          /\ Moves(p, [drain[p] EXCEPT !.phase = "ended", !.fate = outcome])
    BY DEF EndCargo
  <1>3. "ended" \in Phases /\ outcome \in Fates
    BY DEF Phases, Fates
  <1>4. /\ Moved(p) /\ drain'[p].phase = "ended" /\ drain'[p].fate = outcome
        /\ drain'[p].ticket = drain[p].ticket /\ drain'[p].dir = d
    BY <1>1, <1>2, <1>3, FateMove
  <1>5. PICK b \in BOOLEAN : b = (disk[d].torn \/ outcome = "interrupted")
    OBVIOUS
  <1>6. disk' = [disk EXCEPT ![d].torn = b]
    BY <1>1, <1>2, <1>5 DEF TypeOK, DirRow
  <1>7. disk' \in [Dirs -> DirRow]
    BY <1>1, <1>6, DiskUpdates
  <1>8. TypeOK'
    BY <1>1, <1>4, <1>7 DEF TypeOK, Moved, EndCargo, queue, history
  <1>9. disk'[d].torn = b /\ disk'[d].last = disk[d].last
    BY <1>1, <1>6 DEF TypeOK, DirRow
  <1>10. \A e \in Dirs : e # d => disk'[e] = disk[e]
    BY <1>1, <1>6 DEF TypeOK, DirRow
  <1>11. ASSUME Seat
         PROVE  Seat'
    <2>1. Holding(p) /\ UNCHANGED <<slot, gen, fenced, unsettled>>
      BY <1>1 DEF Holding, EndCargo
    <2>2. OwnsSlot(p)' /\ slot.target = d
      BY <1>1, <1>4, <1>11, <2>1 DEF Seat, OwnsSlot
    <2>3. StartsClean(p)'
      <3>1. StartsClean(p)
        BY <1>11 DEF Seat
      <3>2. outcome = "exited" => b = disk[d].torn
        BY <1>1, <1>5 DEF TypeOK, DirRow
      <3>3. outcome = "exited" => d \in unsettled' \/ ~ disk'[d].torn
        BY <1>1, <1>9, <2>1, <3>1, <3>2 DEF StartsClean
      <3>4. disk'[d].last = Head[drain[p].ticket]
        BY <1>1, <1>9, <3>1 DEF StartsClean
      <3> QED  BY <1>4, <3>3, <3>4 DEF StartsClean
    <2>4. \A q \in Drains : Holding(q)' => drain'[q].phase = "ended"
      BY <1>4, <1>11, <2>1 DEF Seat, OneHolder, Moved, Holding
    <2>5. \A e \in Dirs : Guarded(e)'
      BY <1>10, <1>11, <2>1, <2>2, <2>4, <1>1 DEF Seat, Guarded, Suspect
    <2> QED  BY <1>1, <1>4, <1>11, <2>1, <2>2, <2>3, <2>5, HolderAlone
                DEF EndCargo, history
  <1> QED  BY <1>8, <1>11 DEF IInv, EndCargo, history

(* settle_target: a directory is fenced, stamped or known to be unsettled.  *)
LEMMA SettleTargetStep ==
  ASSUME IInv, NEW p \in Drains, SettleTarget(p)
  PROVE  IInv'
  <1> DEFINE d == drain[p].dir
             h == Head[drain[p].ticket]
  <1>1. /\ TypeOK /\ drain[p].phase = "ended" /\ drain[p].ticket \in Tickets
        /\ d \in Dirs /\ h \in Heads
    BY AtWork, TicketsAssumption DEF IInv, SettleTarget
  <1>2. Settles(p) \/ Fails(p)
    BY DEF SettleTarget
  <1>3. {"settled", "releasing"} \subseteq Phases /\ {"none", "error"} \subseteq Fates
    BY DEF Phases, Fates
  <1>4. /\ Moved(p) /\ drain'[p].phase \in {"settled", "releasing"}
        /\ drain'[p].ticket = drain[p].ticket
    BY <1>1, <1>2, <1>3, ExitMove DEF Settles, Fails, Releases
  <1>5. \/ /\ drain[p].fate = "interrupted" /\ fenced' = fenced \cup {d}
           /\ UNCHANGED <<gen, unsettled, faults>>
        \/ /\ drain[p].fate = "exited" /\ gen' = [gen EXCEPT ![d] = h]
           /\ UNCHANGED <<fenced, unsettled, faults>>
        \/ /\ unsettled' = unsettled \cup {d} /\ faults' = faults + 1
           /\ UNCHANGED <<gen, fenced>>
    BY DEF SettleTarget, Faulty
  <1>6. TypeOK'
    <2>1. /\ gen' \in [Dirs -> Heads \cup {None}]
          /\ fenced' \subseteq Dirs /\ unsettled' \subseteq Dirs
      BY <1>1, <1>5 DEF TypeOK
    <2>2. faults' \in Nat
      BY <1>1, <1>5 DEF TypeOK
    <2> QED  BY <1>1, <1>4, <2>1, <2>2 DEF TypeOK, Moved, SettleTarget, queue
  <1>7. ASSUME Seat
        PROVE  Seat'
    <2>1. Holding(p) /\ UNCHANGED <<slot, disk>>
      BY <1>1 DEF Holding, SettleTarget
    <2>2. OwnsSlot(p)' /\ slot.target = d
      BY <1>1, <1>4, <1>7, <2>1 DEF Seat, OwnsSlot
    <2>3. StartsClean(p)'
      BY <1>4 DEF StartsClean
    <2>4. \A e \in Dirs : e # d /\ Suspect(e) => e \in fenced \cup unsettled
      BY <1>7, <2>2 DEF Seat, Guarded
    <2>5. ASSUME NEW e \in Dirs, e # d
          PROVE  Guarded(e)'
      <3>1. gen'[e] = gen[e] /\ fenced \cup unsettled \subseteq fenced' \cup unsettled'
        BY <1>1, <1>5, <2>5 DEF TypeOK
      <3> QED  BY <2>1, <2>4, <2>5, <3>1 DEF Guarded, Suspect
    <2>6. ASSUME NEW e \in Dirs, e = d
          PROVE  Guarded(e)'
      <3>1. disk[d].last = h /\ (drain[p].fate = "exited" => d \in unsettled \/ ~ disk[d].torn)
        BY <1>1, <1>7 DEF Seat, StartsClean
      <3>2. CASE d \in fenced' \cup unsettled'
        BY <2>6, <3>2 DEF Guarded
      <3>3. CASE drain[p].fate = "exited" /\ gen' = [gen EXCEPT ![d] = h] /\ unsettled' = unsettled
        <4>1. gen'[d] = h
          BY <1>1, <3>3 DEF TypeOK
        <4> QED  BY <2>1, <2>6, <3>1, <3>3, <4>1 DEF Guarded, Suspect
      <3> QED  BY <1>5, <3>2, <3>3
    <2> QED  BY <1>1, <1>4, <1>7, <2>1, <2>2, <2>3, <2>5, <2>6, HolderAlone
                DEF SettleTarget
  <1> QED  BY <1>6, <1>7 DEF IInv, SettleTarget

(* write_receipt: the seat is as it was.                                    *)
LEMMA write_receiptStep ==
  ASSUME IInv, NEW p \in Drains, write_receipt(p)
  PROVE  IInv'
  <1>1. TypeOK /\ drain[p].phase = "settled" /\ drain[p].ticket \in Tickets
    BY AtWork DEF IInv, write_receipt
  <1>2. "releasing" \in Phases /\ {"done", "error"} \subseteq Fates
    BY DEF Phases, Fates
  <1>3. Moved(p) /\ drain'[p].phase = "releasing" /\ drain'[p].ticket = drain[p].ticket
    BY <1>1, <1>2, ExitMove DEF write_receipt, Fails, Releases
  <1>4. TypeOK'
    <2>1. faults' \in Nat /\ receipt' \subseteq Tickets
      BY <1>1 DEF write_receipt, Faulty, TypeOK
    <2> QED  BY <1>1, <1>3, <2>1 DEF TypeOK, Moved, write_receipt, targets
  <1>5. ASSUME Seat
        PROVE  Seat'
    <2>1. Holding(p) /\ UNCHANGED <<slot, targets>>
      BY <1>1 DEF Holding, write_receipt
    <2>2. OwnsSlot(p)' /\ StartsClean(p)'
      BY <1>1, <1>3, <1>5, <2>1 DEF Seat, OwnsSlot, StartsClean
    <2>3. \A d \in Dirs : Suspect(d) => d \in fenced \cup unsettled
      BY <1>1, <1>5, <2>1 DEF Seat, Guarded
    <2>4. \A d \in Dirs : Guarded(d)'
      BY <2>1, <2>3 DEF Guarded, Suspect, targets
    <2> QED  BY <1>1, <1>3, <1>5, <2>1, <2>2, <2>4, HolderAlone DEF write_receipt
  <1> QED  BY <1>4, <1>5 DEF IInv, write_receipt

(* release_slot: the drain leaves the seat, and no target depends on the    *)
(* slot any more, whether the row goes or stays.                            *)
LEMMA release_slotStep ==
  ASSUME IInv, NEW p \in Drains, release_slot(p)
  PROVE  IInv'
  <1>1. TypeOK /\ drain[p].phase = "releasing" /\ drain[p].ticket \in Tickets
    BY AtWork DEF IInv, release_slot
  <1>2. "booking" \in Phases /\ "none" \in Fates
    BY DEF Phases, Fates
  <1>3. /\ Moved(p) /\ drain'[p].phase \in {"idle", "booking"}
        /\ drain'[p].phase = "booking" => drain'[p].ticket = drain[p].ticket
    BY <1>1, <1>2, IdleMove, FateMove DEF release_slot, Returns
  <1>4. NoCargo \in SlotRow /\ skip' \in [Drains -> SUBSET Tickets]
    BY <1>1 DEF NoCargo, SlotRow, release_slot, Returns, TypeOK
  <1>5. TypeOK'
    <2>1. faults' \in Nat /\ slot' \in SlotRow
      BY <1>1, <1>4 DEF release_slot, Faulty, TypeOK
    <2> QED  BY <1>1, <1>3, <1>4, <2>1 DEF TypeOK, Moved, release_slot, queue, targets
  <1>6. ASSUME Seat
        PROVE  Seat'
    <2>1. Holding(p) /\ UNCHANGED targets
      BY <1>1 DEF Holding, release_slot
    <2>2. slot' = NoCargo \/ slot' = slot
      BY <1>1, <1>6, <2>1 DEF Seat, OwnsSlot, HoldsFor, release_slot
    <2>3. OwnsSlot(p)' /\ StartsClean(p)'
      BY <1>3 DEF OwnsSlot, StartsClean, Holding
    <2>4. \A d \in Dirs : Suspect(d) => d \in fenced \cup unsettled
      BY <1>1, <1>6, <2>1 DEF Seat, Guarded
    <2>5. \A d \in Dirs : Guarded(d)'
      BY <2>1, <2>4 DEF Guarded, Suspect, targets
    <2> QED  BY <1>1, <1>3, <1>6, <2>1, <2>2, <2>3, <2>5, HolderAlone
                DEF release_slot
  <1> QED  BY <1>5, <1>6 DEF IInv, release_slot

(* record_failed_attempt, its read: the drain is out of the seat.           *)
LEMMA ReadAttemptsStep ==
  ASSUME IInv, NEW p \in Drains, ReadAttempts(p)
  PROVE  IInv'
  <1>1. TypeOK /\ drain[p].phase = "booking" /\ drain[p].ticket \in Tickets
    BY AtWork DEF IInv, ReadAttempts
  <1>2. status[drain[p].ticket].attempts \in Nat /\ "counted" \in Phases
    BY <1>1 DEF TypeOK, TicketStatus, Phases
  <1>3. /\ Moved(p) /\ drain'[p].phase \in {"idle", "counted"}
        /\ drain'[p].phase = "counted" => drain'[p].ticket = drain[p].ticket
    BY <1>1, <1>2, IdleMove, CountMove DEF ReadAttempts, StepsOver
  <1>4. skip' \in [Drains -> SUBSET Tickets]
    BY <1>1 DEF ReadAttempts, StepsOver, TypeOK
  <1>5. TypeOK'
    BY <1>1, <1>3, <1>4 DEF TypeOK, Moved, ReadAttempts, queue, targets, history
  <1>6. ~ Holding(p) /\ ~ Holding(p)'
    BY <1>1, <1>3 DEF Holding
  <1> QED  BY <1>1, <1>3, <1>5, <1>6, OffSlot DEF IInv, ReadAttempts, history

(* record_failed_attempt, its write.                                        *)
LEMMA record_failed_attemptStep ==
  ASSUME IInv, NEW p \in Drains, record_failed_attempt(p)
  PROVE  IInv'
  <1>1. TypeOK /\ drain[p].phase = "counted" /\ drain[p].ticket \in Tickets
    BY AtWork DEF IInv, record_failed_attempt
  <1>2. Moved(p) /\ drain'[p].phase = "idle" /\ skip' \in [Drains -> SUBSET Tickets]
    BY <1>1, IdleMove DEF record_failed_attempt, StepsOver, TypeOK
  <1>3. status' \in [Tickets -> TicketStatus]
    <2>1. drain[p].attempts + 1 \in Nat
      BY <1>1 DEF TypeOK, DrainRow
    <2> QED  BY <1>1, <2>1 DEF record_failed_attempt, TypeOK, TicketStatus
  <1>4. TypeOK'
    BY <1>1, <1>2, <1>3 DEF TypeOK, Moved, record_failed_attempt, targets, history
  <1>5. ~ Holding(p) /\ ~ Holding(p)'
    BY <1>1, <1>2 DEF Holding
  <1> QED  BY <1>1, <1>2, <1>4, <1>5, OffSlot DEF IInv, record_failed_attempt, history

(* A crash of a drain: a directory its cargo was in is torn, and the slot   *)
(* names it.                                                                *)
LEMMA DrainCrashStep ==
  ASSUME IInv, NEW p \in Drains, DrainCrash(p)
  PROVE  IInv'
  <1> DEFINE d == drain[p].dir
  <1>1. TypeOK /\ (drain[p].phase \in {"wiping", "running"} => d \in Dirs)
    BY AtWork DEF IInv
  <1>2. Moved(p) /\ drain'[p].phase = "idle"
    BY <1>1, IdleMove DEF DrainCrash, Returns
  <1>3. skip' \in [Drains -> SUBSET Tickets] /\ faults' \in Nat
    BY <1>1 DEF DrainCrash, Faulty, Returns, TypeOK
  <1>4. \/ drain[p].phase \in {"wiping", "running"} /\ disk' = [disk EXCEPT ![d].torn = TRUE]
        \/ disk' = disk
    BY DEF DrainCrash
  <1>5. disk' \in [Dirs -> DirRow]
    BY <1>1, <1>4, DiskUpdates DEF TypeOK
  <1>6. TypeOK'
    BY <1>1, <1>2, <1>3, <1>5 DEF TypeOK, Moved, DrainCrash, queue
  <1>7. ~ Holding(p)'
    BY <1>2 DEF Holding
  <1>8. ASSUME Seat
        PROVE  Seat'
    <2>1. CASE ~ Holding(p)
      <3>1. disk' = disk
        BY <1>4, <2>1 DEF Holding
      <3> QED  BY <1>1, <1>2, <1>7, <1>8, <2>1, <3>1, OffSlot DEF DrainCrash, targets
    <2>2. CASE Holding(p)
      <3>1. OwnsSlot(p)' /\ StartsClean(p)'
        BY <1>2, <1>7 DEF OwnsSlot, StartsClean
      <3>2. \A q \in Drains : ~ Holding(q)'
        BY <1>2, <1>7, <1>8, <2>2 DEF Seat, OneHolder, Moved, Holding
      <3>3. ASSUME NEW e \in Dirs
            PROVE  Guarded(e)'
        <4>1. CASE drain[p].phase \in {"wiping", "running"} /\ e = d
          <5>1. slot.target = d
            BY <1>8, <2>2, <4>1 DEF Seat, OwnsSlot
          <5> QED  BY <3>2, <4>1, <5>1 DEF Guarded, DrainCrash
        <4>2. CASE ~ (drain[p].phase \in {"wiping", "running"} /\ e = d)
          <5>1. disk'[e] = disk[e]
            BY <1>1, <1>4, <4>2 DEF TypeOK
          <5> QED  BY <1>8, <3>2, <5>1 DEF Seat, Guarded, Suspect, DrainCrash
        <4> QED  BY <4>1, <4>2
      <3> QED  BY <1>1, <1>2, <1>8, <2>2, <3>1, <3>3, HolderAlone DEF DrainCrash
    <2> QED  BY <2>1, <2>2
  <1> QED  BY <1>6, <1>8 DEF IInv, DrainCrash

-------------------------------------------------------------------------------
(* The steps of an operator that frees the slot of a dead build. *)

(* The read of the row: nobody is in the seat.                              *)
LEMMA ReadHolderStep ==
  ASSUME IInv, NEW a \in Abandoners, ReadHolder(a)
  PROVE  IInv'
  <1> DEFINE row == [phase |-> IF slot.target = None THEN "freeing" ELSE "fencing",
                     target |-> slot.target]
  <1>1. TypeOK
    BY DEF IInv
  <1>2. row \in AbandonRow /\ (row.phase = "fencing" => row.target \in Dirs)
    BY <1>1 DEF TypeOK, SlotRow, AbandonRow
  <1>3. abandon' = [abandon EXCEPT ![a] = row]
    BY DEF ReadHolder
  <1>4. /\ abandon' \in [Abandoners -> AbandonRow] /\ abandon'[a] = row
        /\ \A b \in Abandoners : b # a => abandon'[b] = abandon[b]
    BY <1>1, <1>2, <1>3 DEF TypeOK
  <1>5. TypeOK'
    BY <1>1, <1>2, <1>4 DEF TypeOK, ReadHolder, queue, targets
  <1>6. ASSUME Seat
        PROVE  Seat'
    <2>1. UNCHANGED <<drain, slot, targets>>
      BY DEF ReadHolder
    <2>2. OneHolder' /\ \A p \in Drains : OwnsSlot(p)' /\ StartsClean(p)'
      BY <1>6, <2>1 DEF Seat, OneHolder, OwnsSlot, StartsClean, Holding, targets
    <2>3. \A d \in Dirs : Guarded(d)'
      BY <1>6, <2>1 DEF Seat, Guarded, Suspect, Holding, targets
    <2>4. \A p \in Drains : ~ Holding(p)'
      BY <1>6, <2>1 DEF Seat, OwnsSlot, Holding, HolderAlive, HoldsFor, ReadHolder
    <2>5. KnowsSlot(a)'
      BY <1>4, <2>1, <2>4 DEF KnowsSlot
    <2>6. ASSUME NEW b \in Abandoners, b # a
          PROVE  KnowsSlot(b)'
      BY <1>4, <1>6, <2>1, <2>4, <2>6 DEF Seat, KnowsSlot, ReadHolder, targets
    <2> QED  BY <2>2, <2>3, <2>5, <2>6 DEF Seat
  <1> QED  BY <1>5, <1>6 DEF IInv, ReadHolder

(* The quarantine of the target the dead build had been given.              *)
LEMMA QuarantineAbandonedStep ==
  ASSUME IInv, NEW a \in Abandoners, QuarantineAbandoned(a)
  PROVE  IInv'
  <1>1. TypeOK /\ abandon[a].phase = "fencing" /\ abandon[a].target \in Dirs
    BY DEF IInv, TypeOK, QuarantineAbandoned
  <1>2. /\ abandon' \in [Abandoners -> AbandonRow]
        /\ abandon'[a].phase = "freeing" /\ abandon'[a].target = abandon[a].target
        /\ \A b \in Abandoners : b # a => abandon'[b] = abandon[b]
    BY <1>1 DEF TypeOK, AbandonRow, QuarantineAbandoned
  <1>3. fenced' = fenced \cup {abandon[a].target}
        /\ UNCHANGED <<gen, disk, unsettled, slot, drain, renewed>>
    BY DEF QuarantineAbandoned, history
  <1>4. TypeOK'
    BY <1>1, <1>2, <1>3 DEF TypeOK, QuarantineAbandoned, queue, history
  <1>5. ASSUME Seat
        PROVE  Seat'
    <2>1. OneHolder' /\ \A p \in Drains : OwnsSlot(p)' /\ StartsClean(p)'
      BY <1>3, <1>5 DEF Seat, OneHolder, OwnsSlot, StartsClean, Holding
    <2>2. \A d \in Dirs : Guarded(d)'
      BY <1>3, <1>5 DEF Seat, Guarded, Suspect, Holding
    <2>3. KnowsSlot(a)'
      BY <1>1, <1>2, <1>3, <1>5 DEF Seat, KnowsSlot, Holding
    <2>4. ASSUME NEW b \in Abandoners, b # a
          PROVE  KnowsSlot(b)'
      BY <1>2, <1>3, <1>5, <2>4 DEF Seat, KnowsSlot, Holding
    <2> QED  BY <2>1, <2>2, <2>3, <2>4 DEF Seat
  <1> QED  BY <1>4, <1>5 DEF IInv, QuarantineAbandoned, history

(* The forced release: if it does not misfire it frees the row it had read, *)
(* whose target is quarantined by now.                                      *)
LEMMA force_release_slotStep ==
  ASSUME IInv, NEW a \in Abandoners, force_release_slot(a)
  PROVE  IInv'
  <1>1. TypeOK /\ abandon[a].phase = "freeing"
    BY DEF IInv, force_release_slot
  <1>2. /\ abandon' = [abandon EXCEPT ![a] = AtRest] /\ slot' = NoCargo
        /\ AtRest \in AbandonRow /\ AtRest.phase = "idle" /\ NoCargo \in SlotRow
    BY DEF force_release_slot, AtRest, AbandonRow, NoCargo, SlotRow
  <1>3. /\ abandon' \in [Abandoners -> AbandonRow] /\ abandon'[a].phase = "idle"
        /\ \A b \in Abandoners : b # a => abandon'[b] = abandon[b]
    BY <1>1, <1>2 DEF TypeOK
  <1>4. misfired' = (misfired \/ (slot # NoCargo /\ a \in renewed))
    BY DEF force_release_slot
  <1>5. TypeOK'
    BY <1>1, <1>2, <1>3, <1>4 DEF TypeOK, force_release_slot, queue, targets
  <1>6. ASSUME Seat, slot # NoCargo => a \notin renewed
        PROVE  Seat'
    <2>1. UNCHANGED <<drain, targets>>
      BY DEF force_release_slot
    <2>2. \A p \in Drains : ~ Holding(p)
      <3>1. CASE slot = NoCargo
        <4>1. ASSUME NEW p \in Drains, Holding(p)
              PROVE  slot.ticket \in Tickets
          BY <1>1, <1>6, <4>1, AtWork DEF Seat, OwnsSlot, Holding
        <4> QED  BY <3>1, <4>1, TicketsAssumption DEF NoCargo, Tickets
      <3>2. CASE slot # NoCargo
        BY <1>1, <1>6, <3>2 DEF Seat, KnowsSlot
      <3> QED  BY <3>1, <3>2
    <2>3. \A p \in Drains : ~ Holding(p)'
      BY <2>1, <2>2 DEF Holding
    <2>4. OneHolder' /\ \A p \in Drains : OwnsSlot(p)'
      BY <2>3 DEF OneHolder, OwnsSlot
    <2>5. \A p \in Drains : StartsClean(p)'
      BY <1>6, <2>1 DEF Seat, StartsClean, targets
    <2>6. \A b \in Abandoners : KnowsSlot(b)'
      BY <1>2 DEF KnowsSlot
    <2>7. ASSUME NEW d \in Dirs
          PROVE  Guarded(d)'
      <3>1. slot.target = d => d \in fenced
        <4>1. CASE slot = NoCargo
          BY <4>1, TicketsAssumption DEF NoCargo
        <4>2. CASE slot # NoCargo
          BY <1>1, <1>6, <4>2, TicketsAssumption DEF Seat, KnowsSlot
        <4> QED  BY <4>1, <4>2
      <3> QED  BY <1>6, <2>1, <3>1 DEF Seat, Guarded, Suspect, targets
    <2> QED  BY <2>4, <2>5, <2>6, <2>7 DEF Seat
  <1> QED  BY <1>4, <1>5, <1>6 DEF IInv

-------------------------------------------------------------------------------
(* The steps outside of the seat. *)

(* submit_ticket and the two halves of cancel_queued_ticket write what only *)
(* the queue is about.                                                      *)
LEMMA QueueStep ==
  ASSUME IInv,
         \/ \E t \in Tickets : submit_ticket(t)
         \/ Cancelling
  PROVE  IInv'
  <1>1. TypeOK
    BY DEF IInv
  <1>2. CASE \E t \in Tickets : submit_ticket(t)
    BY <1>1, <1>2, OutOfSeat DEF IInv, TypeOK, submit_ticket, targets, history
  <1>3. CASE \E t \in Cancellable : CancelChecks(t)
    BY <1>1, <1>3, OutOfSeat, TicketsAssumption
       DEF IInv, TypeOK, CancelChecks, queue, targets, history
  <1>4. CASE cancel_ticket
    <2>1. cancel \in Tickets
      BY <1>1, <1>4 DEF TypeOK, cancel_ticket
    <2>2. status' \in [Tickets -> TicketStatus]
      BY <1>1, <1>4, <2>1 DEF TypeOK, cancel_ticket, TicketStatus
    <2> QED  BY <1>1, <1>4, <2>2, OutOfSeat DEF IInv, TypeOK, cancel_ticket, targets, history
  <1> QED  BY <1>2, <1>3, <1>4 DEF Cancelling

(* Nobody is in the seat of a new store.                                    *)
LEMMA InitIInv == Init => IInv
  <1> SUFFICES ASSUME Init PROVE IInv
    OBVIOUS
  <1>1. \A p \in Drains : drain[p] = Idle /\ drain[p].phase = "idle"
    BY DEF Init, Idle
  <1>2. \A a \in Abandoners : abandon[a].phase = "idle"
    BY DEF Init, AtRest
  <1>3. TypeOK
    <2>1. drain \in [Drains -> DrainRow]
      BY IdleRow DEF Init
    <2>2. abandon \in [Abandoners -> AbandonRow] /\ slot \in SlotRow /\ disk \in [Dirs -> DirRow]
      BY DEF Init, AtRest, AbandonRow, NoCargo, SlotRow, Empty, DirRow
    <2>3. status \in [Tickets -> TicketStatus]
      BY DEF Init, Fresh, TicketStatus
    <2> QED  BY <1>1, <1>2, <2>1, <2>2, <2>3 DEF TypeOK, Init
  <1>4. Seat
    <2>1. \A d \in Dirs : ~ Suspect(d)
      BY DEF Init, Suspect, Empty
    <2> QED  BY <1>1, <1>2, <2>1 DEF Seat, OneHolder, OwnsSlot, StartsClean, KnowsSlot,
                                     Guarded, Holding
  <1> QED  BY <1>3, <1>4 DEF IInv

(* Every step keeps the invariant.                                          *)
LEMMA NextIInv == IInv /\ [Next]_vars => IInv'
  <1> SUFFICES ASSUME IInv, [Next]_vars PROVE IInv'
    OBVIOUS
  <1>1. CASE UNCHANGED vars
    <2>1. TypeOK'
      BY <1>1 DEF IInv, TypeOK, vars
    <2> QED  BY <1>1, <2>1, OutOfSeat DEF IInv, vars, targets
  <1>2. CASE (\E t \in Tickets : submit_ticket(t)) \/ Cancelling
    BY <1>2, QueueStep
  <1>3. ASSUME NEW p \in Drains, Draining(p) \/ DrainCrash(p)
        PROVE  IInv'
    BY <1>3, run_nextStep, acquire_slotStep, PlanTargetStep, clear_target_for_reuseStep,
       StartCargoStep, EndCargoStep, SettleTargetStep, write_receiptStep, release_slotStep,
       ReadAttemptsStep, record_failed_attemptStep, DrainCrashStep DEF Draining
  <1>4. ASSUME NEW a \in Abandoners, Abandoning(a)
        PROVE  IInv'
    BY <1>4, ReadHolderStep, QuarantineAbandonedStep, force_release_slotStep DEF Abandoning
  <1> QED  BY <1>1, <1>2, <1>3, <1>4 DEF Next

-------------------------------------------------------------------------------
(* The results. *)

(* The inductive invariant holds of every reachable state.                  *)
LEMMA SpecIInv == Spec => []IInv
  BY InitIInv, NextIInv, PTL DEF Spec

(* Type correctness: the rows, the directories and what every drain and     *)
(* operator of the broker knows stay well formed.                           *)
THEOREM TypeCorrect == Spec => []TypeOK
  <1>1. IInv => TypeOK
    BY DEF IInv
  <1> QED  BY <1>1, SpecIInv, PTL

(* slot.rs, "This machine runs exactly one cargo at a time": unless a       *)
(* forced release misfires, whatever the number of drains and of operators. *)
THEOREM OneCargoAtATime == Spec => []OneCargo
  <1>1. IInv => OneCargo
    BY DEF IInv, OneCargo, Seat, OneHolder, Holding, Building
  <1> QED  BY <1>1, SpecIInv, PTL

(* Every directory a cargo died in is quarantined, named by the slot or     *)
(* left by a verdict the store refused.                                     *)
THEOREM TornTargetsAreFenced == Spec => []TornIsFenced
  <1>1. IInv => TornIsFenced
    BY DEF IInv, TornIsFenced, Seat, Guarded, Suspect
  <1> QED  BY <1>1, SpecIInv, PTL

(* Only the start of cargo brings a drain to building.                      *)
LEMMA OnlyStartBuilds ==
  ASSUME TypeOK, NEW p \in Drains, NEW q \in Drains, Draining(q) \/ DrainCrash(q),
         ~ Building(p), Building(p)'
  PROVE  drain[p].phase = "ready"
  <1>1. drain[q] \in DrainRow /\ Idle.phase = "idle"
    BY DEF TypeOK, Idle
  <1>2. ASSUME NEW row, Moves(q, row), row.phase # "running"
        PROVE  FALSE
    BY <1>2 DEF Moves, TypeOK, Building
  <1>3. drain' # drain
    BY DEF Building
  <1>4. CASE run_next(q)
    BY <1>1, <1>2, <1>3, <1>4 DEF run_next, Idle
  <1>5. CASE acquire_slot(q) \/ DrainCrash(q)
    BY <1>1, <1>2, <1>5 DEF acquire_slot, DrainCrash, Phase, Returns, DrainRow
  <1>6. CASE PlanTarget(q)
    BY <1>1, <1>2, <1>6 DEF PlanTarget, Fails, Releases, DrainRow
  <1>7. CASE clear_target_for_reuse(q)
    BY <1>1, <1>2, <1>7 DEF clear_target_for_reuse, Phase, Fails, Releases, DrainRow
  <1>8. CASE StartCargo(q)
    <2>1. drain[q].phase = "ready"
      BY <1>8 DEF StartCargo
    <2>2. PICK row : Moves(q, row)
      BY <1>8 DEF StartCargo, Phase, Fails, Releases
    <2>3. q = p
      BY <2>2 DEF Moves, TypeOK, Building
    <2> QED  BY <2>1, <2>3
  <1>9. CASE EndCargo(q)
    BY <1>1, <1>2, <1>9 DEF EndCargo, DrainRow
  <1>10. CASE SettleTarget(q) \/ write_receipt(q)
    BY <1>1, <1>2, <1>10 DEF SettleTarget, write_receipt, Settles, Fails, Releases, DrainRow
  <1>11. CASE release_slot(q) \/ ReadAttempts(q) \/ record_failed_attempt(q)
    BY <1>1, <1>2, <1>11 DEF release_slot, ReadAttempts, record_failed_attempt, Returns,
                             StepsOver, DrainRow
  <1> QED  BY <1>4, <1>5, <1>6, <1>7, <1>8, <1>9, <1>10, <1>11 DEF Draining

(* plan_target decides by the last driver, and it does so soundly: unless   *)
(* the store refused a verdict, a failed wipe gave the directory back or a  *)
(* forced release misfired, a cargo starts without a wipe only where        *)
(* nothing stopped half-way and where the commit that drove the directory   *)
(* last is on the ticket's line.  Who drove it before that is not asked.    *)
THEOREM ReuseAsksTheLastDriver == Spec => LastDriverDecidesReuse
  <1> DEFINE Clean(p) == \/ ~ disk[drain[p].dir].torn
                            /\ (disk[drain[p].dir].last = None
                                  \/ OneLine(disk[drain[p].dir].last, Head[drain[p].ticket]))
                         \/ drain[p].dir \in unsettled \/ misfired
  <1>1. ASSUME IInv, [Next]_vars, NEW p \in Drains, ~ Building(p), Building(p)'
        PROVE  Clean(p)
    <2>1. drain' # drain
      BY <1>1 DEF Building
    <2>2. PICK q \in Drains : Draining(q) \/ DrainCrash(q)
      BY <1>1, <2>1 DEF Next, vars, submit_ticket, Abandoning, ReadHolder, QuarantineAbandoned,
                        force_release_slot, Cancelling, CancelChecks, cancel_ticket
    <2>3. drain[p].phase = "ready"
      BY <1>1, <2>2, OnlyStartBuilds DEF IInv
    <2> QED  BY <1>1, <2>3 DEF IInv, Seat, StartsClean
  <1>2. IInv /\ [Next]_vars => [\A p \in Drains : ~ Building(p) /\ Building(p)' => Clean(p)]_vars
    BY <1>1
  <1>3. [][\A p \in Drains : ~ Building(p) /\ Building(p)' => Clean(p)]_vars => LastDriverDecidesReuse
    BY DEF LastDriverDecidesReuse
  <1> QED  BY <1>2, <1>3, SpecIInv, PTL DEF Spec

(* As long as one operator at a time abandons, the row it read is there when *)
(* it frees it.                                                             *)
RowStays == /\ ~ misfired
            /\ \A a \in Abandoners : abandon[a].phase # "idle" => slot # NoCargo /\ a \notin renewed

(* No step changes that, whatever the drains do.                            *)
LEMMA RowStaysStep ==
  ASSUME \A a, b \in Abandoners : a = b,
         IInv, RowStays, Next
  PROVE  RowStays'
  <1>1. TypeOK /\ Seat
    BY DEF IInv, RowStays
  <1>2. CASE UNCHANGED <<slot, abandon, renewed, misfired>>
    BY <1>2 DEF RowStays
  <1>3. ASSUME NEW p \in Drains, acquire_slot(p), slot = NoCargo
        PROVE  RowStays'
    BY <1>3 DEF RowStays, acquire_slot
  <1>4. ASSUME NEW p \in Drains, PlanTarget(p), slot' # slot
        PROVE  RowStays'
    <2>1. slot'.ticket = drain[p].ticket /\ drain[p].ticket \in Tickets
      BY <1>1, <1>4, AtWork DEF PlanTarget, TypeOK, SlotRow, HoldsFor
    <2>2. slot' # NoCargo
      BY <2>1, TicketsAssumption DEF NoCargo, Tickets
    <2> QED  BY <1>4, <2>2 DEF RowStays, PlanTarget, history
  <1>5. ASSUME NEW p \in Drains, release_slot(p)
        PROVE  RowStays'
    <2>1. Holding(p)
      BY <1>5 DEF release_slot, Holding
    <2>2. \A a \in Abandoners : abandon[a].phase = "idle"
      BY <1>1, <2>1 DEF RowStays, Seat, KnowsSlot
    <2> QED  BY <1>5, <2>2 DEF RowStays, release_slot, history
  <1>6. ASSUME NEW a \in Abandoners, ReadHolder(a)
        PROVE  RowStays'
    BY <1>6 DEF RowStays, ReadHolder
  <1>7. ASSUME NEW a \in Abandoners, QuarantineAbandoned(a)
        PROVE  RowStays'
    <2>1. abandon[a].phase # "idle" /\ \A b \in Abandoners : b = a
      BY <1>7 DEF QuarantineAbandoned
    <2> QED  BY <1>7, <2>1 DEF RowStays, QuarantineAbandoned, history
  <1>8. ASSUME NEW a \in Abandoners, force_release_slot(a)
        PROVE  RowStays'
    <2>1. \A b \in Abandoners : abandon'[b].phase = "idle"
      BY <1>1, <1>8 DEF TypeOK, force_release_slot, AtRest
    <2> QED  BY <1>8, <2>1 DEF RowStays, force_release_slot
  <1> QED
    <2>1. CASE (\E t \in Tickets : submit_ticket(t)) \/ Cancelling
      BY <1>2, <2>1 DEF submit_ticket, Cancelling, CancelChecks, cancel_ticket, history
    <2>2. ASSUME NEW p \in Drains, Draining(p) \/ DrainCrash(p)
          PROVE  RowStays'
      BY <1>2, <1>3, <1>4, <1>5, <2>2
         DEF Draining, DrainCrash, run_next, acquire_slot, PlanTarget, clear_target_for_reuse,
             StartCargo, EndCargo, SettleTarget, write_receipt, ReadAttempts,
             record_failed_attempt, history
    <2>3. ASSUME NEW a \in Abandoners, Abandoning(a)
          PROVE  RowStays'
      BY <1>6, <1>7, <1>8, <2>3 DEF Abandoning
    <2> QED  BY <2>1, <2>2, <2>3 DEF Next

(* abandon_stale_slot frees the slot it read: with one operator a forced    *)
(* release never hits a live build, and the exception of the three results  *)
(* above is void.                                                           *)
THEOREM SoleOperatorFreesTheDead ==
  ASSUME \A a, b \in Abandoners : a = b
  PROVE  Spec => [](\A p, q \in Drains : Building(p) /\ Building(q) => p = q)
  <1>1. Init => RowStays
    BY DEF Init, RowStays, AtRest
  <1>2. IInv /\ RowStays /\ [Next]_vars => RowStays'
    <2>1. ASSUME RowStays, UNCHANGED vars PROVE RowStays'
      BY <2>1 DEF RowStays, vars
    <2> QED  BY <2>1, RowStaysStep
  <1>3. IInv /\ RowStays => \A p, q \in Drains : Building(p) /\ Building(q) => p = q
    BY DEF IInv, RowStays, Seat, OneHolder, Holding, Building
  <1> QED  BY <1>1, <1>2, <1>3, SpecIInv, PTL DEF Spec

===============================================================================
