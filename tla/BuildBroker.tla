----------------------------- MODULE BuildBroker ------------------------------
(***************************************************************************)
(* The build broker (crates/tachi-build-broker): one cargo at a time on a  *)
(* machine, never bare in a target directory that a commit of another line *)
(* drove last.  Drains (tachi build run), operators that free the slot of  *)
(* a dead build (abandon) and operators that cancel a ticket are processes *)
(* of their own, and all they share are the rows of the global store.      *)
(*                                                                         *)
(* A statement on the store is one action, and so is a step outside of it; *)
(* reads that follow one another with no write between them are one read.  *)
(* A store call that fails takes the error exit of its step, which is kept *)
(* where something is left behind.  A drain dies together with its cargo.  *)
(*                                                                         *)
(* Data: tickets are numbers in the order of created_at; they all belong   *)
(* to one repository, for a seat drains only its own and another seat only *)
(* competes for the slot.  An unregistered target is like an active one to *)
(* every reader.  Rows under reclaim are left out: only the reaper writes  *)
(* them, and its destructive mode is switched off.  Success and failure of *)
(* a cargo that exits are one outcome.                                     *)
(***************************************************************************)
EXTENDS Integers, FiniteSets

CONSTANTS NumTickets,   \* bound: tickets ever submitted
          Heads,        \* source commits
          Head,         \* head_sha of every ticket
          Lineage,      \* pairs of commits, one an ancestor of the other
          Drains,       \* tachi build run processes
          Abandoners,   \* tachi build abandon processes
          Cancellable,  \* bound: tickets someone cancels
          MaxAttempts,  \* MAX_TICKET_ATTEMPTS
          MaxFaults,    \* bound: drains that die, wipes and store calls that fail
          None

Tickets == 1 .. NumTickets
Dirs == {"resident", "scratch"}

ASSUME BoundsAssumption == {NumTickets, MaxFaults} \subseteq Nat /\ MaxAttempts \in Nat \ {0}
ASSUME TicketsAssumption == /\ Head \in [Tickets -> Heads]
                            /\ Cancellable \subseteq Tickets
                            /\ None \notin Heads \cup Dirs \cup Nat
ASSUME LineageAssumption == Lineage \subseteq SUBSET Heads

VARIABLES submitted,  \* build_ticket rows
          status,     \* build_ticket_status: state and attempts
          receipt,    \* build_receipt: outcome
          slot,       \* the executor_slot row: ticket and target
          gen,        \* build_target_generation: the commit that last drove a target
          fenced,     \* targets whose resource row is quarantined
          disk,       \* per target, who wrote it last, whether a cargo or a wipe stopped
                      \* in it and, as history, everyone who wrote it since it was empty
          drain, skip,  \* what every drain is doing, and the tickets it stepped over
          abandon, cancel,  \* operators at work
          faults,     \* faults so far
          renewed,    \* history: abandons whose slot row was replaced since they read it
          misfired,   \* history: a forced release freed another row than it had read
          unsettled   \* history: targets left without a verdict, until they are wiped

vars == <<submitted, status, receipt, slot, gen, fenced, disk, drain, skip,
          abandon, cancel, faults, renewed, misfired, unsettled>>

queue == <<submitted, status, receipt>>
targets == <<gen, fenced, disk, unsettled>>
history == <<faults, renewed, misfired>>

-------------------------------------------------------------------------------
(* The rows and what is read from them. *)

Idle == [phase |-> "idle", ticket |-> None, dir |-> None, fate |-> "none", attempts |-> 0]
AtRest == [phase |-> "idle", target |-> None]
NoCargo == [ticket |-> None, target |-> None]
Empty == [last |-> None, torn |-> FALSE, authors |-> {}]
Fresh == [state |-> "queued", attempts |-> 0]

is_terminal(t) == status[t].state \in {"failed", "cancelled"}

(* Runnable, and not yet stepped over by this call of run_next. *)
pending_tickets(p) == {t \in submitted \ skip[p] : t \notin receipt /\ ~ is_terminal(t)}

(* Equal, or one an ancestor of the other. *)
OneLine(a, b) == a = b \/ {a, b} \in Lineage

(* Compares with the repository only, which is the same for every ticket. *)
AnyGeneration(t, d) == TRUE

(* A target no build has driven is compatible with everything. *)
generation_compatible(t, d) == gen[d] = None \/ OneLine(gen[d], Head[t])

(* The resident target on its lineage, the scratch target otherwise; never  *)
(* a quarantined or diverged one without emptying it first.                 *)
plan_target(t) ==
    IF generation_compatible(t, "resident")
    THEN [dir |-> "resident", clear |-> "resident" \in fenced]
    ELSE [dir |-> "scratch",
          clear |-> "scratch" \in fenced \/ ~ generation_compatible(t, "scratch")]

HoldsFor(t) == slot.ticket = t

(* From the acquisition to the release of the slot. *)
Holding(p) == drain[p].phase \in {"acquired", "wiping", "ready", "running",
                                  "ended", "settled", "releasing"}
Building(p) == drain[p].phase = "running"

-------------------------------------------------------------------------------
(* The queue. *)

submit_ticket(t) ==
    /\ t \notin submitted
    /\ submitted' = submitted \cup {t}
    /\ UNCHANGED <<status, receipt, slot, targets, drain, skip, abandon, cancel, history>>

Moves(p, row) == drain' = [drain EXCEPT ![p] = row]
Phase(p, s) == Moves(p, [drain[p] EXCEPT !.phase = s])

(* run_next takes the oldest runnable ticket, or returns without one. *)
run_next(p) ==
    /\ drain[p] = Idle
    /\ \/ \E t \in pending_tickets(p) :
            /\ \A u \in pending_tickets(p) : t <= u
            /\ Moves(p, [Idle EXCEPT !.phase = "picked", !.ticket = t])
            /\ UNCHANGED skip
       \/ /\ pending_tickets(p) = {} /\ skip[p] # {}
          /\ skip' = [skip EXCEPT ![p] = {}]
          /\ UNCHANGED drain
    /\ UNCHANGED <<queue, slot, targets, abandon, cancel, history>>

Returns(p) == Moves(p, Idle) /\ skip' = [skip EXCEPT ![p] = {}]

Busied == {a \in Abandoners : abandon[a] # AtRest}

(* Takes the slot without looking who has it. *)
UpsertSlot(p) ==
    /\ drain[p].phase = "picked"
    /\ slot' = [ticket |-> drain[p].ticket, target |-> None]
    /\ renewed' = renewed \cup Busied
    /\ Phase(p, "acquired")
    /\ UNCHANGED <<queue, targets, skip, abandon, cancel, faults, misfired>>

(* Insert-if-absent; a busy slot ends the call and books nothing.  The      *)
(* receipt was looked at before, so a ticket can be built a second time.    *)
acquire_slot(p) ==
    /\ drain[p].phase = "picked"
    /\ \/ /\ slot = NoCargo
          /\ slot' = [ticket |-> drain[p].ticket, target |-> None]
          /\ renewed' = renewed \cup Busied
          /\ Phase(p, "acquired") /\ UNCHANGED skip
       \/ slot # NoCargo /\ Returns(p) /\ UNCHANGED <<slot, renewed>>
    /\ UNCHANGED <<queue, targets, abandon, cancel, faults, misfired>>

-------------------------------------------------------------------------------
(* One ticket in the seat, execute_holding_slot. *)

Releases(p, fate) ==
    Moves(p, [drain[p] EXCEPT !.phase = "releasing", !.dir = None, !.fate = fate])
Fails(p) == Releases(p, "error")

Faulty == faults < MaxFaults /\ faults' = faults + 1

(* Goes on without telling the slot. *)
SilentPlan(p) ==
    LET t == drain[p].ticket
        plan == plan_target(t)
    IN  /\ drain[p].phase = "acquired"
        /\ Moves(p, [drain[p] EXCEPT !.phase = IF plan.clear THEN "wiping" ELSE "ready",
                                    !.dir = plan.dir])
        /\ UNCHANGED <<queue, slot, targets, skip, abandon, cancel, history>>

(* Both targets are read and the chosen one is recorded on the slot before  *)
(* it is touched.  Git may not be able to tell the lineage; every refusal   *)
(* up to here takes the same exit.                                          *)
PlanTarget(p) ==
    LET t == drain[p].ticket
        plan == plan_target(t)
    IN  /\ drain[p].phase = "acquired"
        /\ \/ /\ HoldsFor(t)
              /\ slot' = [slot EXCEPT !.target = plan.dir]
              /\ Moves(p, [drain[p] EXCEPT !.phase = IF plan.clear THEN "wiping" ELSE "ready",
                                          !.dir = plan.dir])
           \/ Fails(p) /\ UNCHANGED slot
        /\ UNCHANGED <<queue, targets, skip, abandon, cancel, history>>

(* The directory is emptied, the quarantine released and the generation     *)
(* forgotten, in this order.  A wipe that fails leaves all three, or half a *)
(* directory, which is quarantined only if it was before.                   *)
clear_target_for_reuse(p) ==
    LET d == drain[p].dir IN
    /\ drain[p].phase = "wiping"
    /\ \/ /\ disk' = [disk EXCEPT ![d] = Empty]
          /\ fenced' = fenced \ {d}
          /\ gen' = [gen EXCEPT ![d] = None]
          /\ unsettled' = unsettled \ {d}
          /\ Phase(p, "ready") /\ UNCHANGED faults
       \/ Fails(p) /\ UNCHANGED <<targets, faults>>
       \/ /\ Faulty
          /\ disk' = [disk EXCEPT ![d].torn = TRUE]
          /\ unsettled' = unsettled \cup ({d} \ fenced)
          /\ Fails(p) /\ UNCHANGED <<gen, fenced>>
    /\ UNCHANGED <<queue, slot, skip, abandon, cancel, renewed, misfired>>

(* prepare_checkout and the start of cargo, which writes from now on.  A    *)
(* dirty checkout, an unknown commit or a failed spawn is an error.         *)
StartCargo(p) ==
    LET d == drain[p].dir
        h == Head[drain[p].ticket]
    IN  /\ drain[p].phase = "ready"
        /\ \/ /\ disk' = [disk EXCEPT ![d] = [last |-> h, torn |-> disk[d].torn,
                                               authors |-> disk[d].authors \cup {h}]]
              /\ Phase(p, "running")
           \/ Fails(p) /\ UNCHANGED disk
        /\ UNCHANGED <<queue, slot, gen, fenced, unsettled, skip, abandon, cancel, history>>

(* Cargo exits, or is killed with its hands in the directory. *)
EndCargo(p) ==
    /\ drain[p].phase = "running"
    /\ \E outcome \in {"exited", "interrupted"} :
         /\ disk' = [disk EXCEPT ![drain[p].dir].torn = @ \/ outcome = "interrupted"]
         /\ Moves(p, [drain[p] EXCEPT !.phase = "ended", !.fate = outcome])
    /\ UNCHANGED <<queue, slot, gen, fenced, unsettled, skip, abandon, cancel, history>>

Settles(p) == Moves(p, [drain[p] EXCEPT !.phase = "settled", !.dir = None, !.fate = "none"])

(* The verdict on the directory: quarantine after an interruption, the      *)
(* generation after any exit.  If the store refuses it, nobody is told.     *)
SettleTarget(p) ==
    LET d == drain[p].dir IN
    /\ drain[p].phase = "ended"
    /\ \/ /\ drain[p].fate = "interrupted"
          /\ fenced' = fenced \cup {d}
          /\ Settles(p) /\ UNCHANGED <<gen, unsettled, faults>>
       \/ /\ drain[p].fate = "exited"
          /\ gen' = [gen EXCEPT ![d] = Head[drain[p].ticket]]
          /\ Settles(p) /\ UNCHANGED <<fenced, unsettled, faults>>
       \/ /\ Faulty
          /\ unsettled' = unsettled \cup {d}
          /\ Fails(p) /\ UNCHANGED <<gen, fenced>>
    /\ UNCHANGED <<queue, slot, disk, skip, abandon, cancel, renewed, misfired>>

(* Insert-if-absent: of two builds of one ticket the first is recorded.  A  *)
(* build whose receipt is refused counts as a failed attempt.               *)
write_receipt(p) ==
    /\ drain[p].phase = "settled"
    /\ \/ /\ receipt' = receipt \cup {drain[p].ticket}
          /\ Releases(p, "done") /\ UNCHANGED faults
       \/ Faulty /\ Fails(p) /\ UNCHANGED receipt
    /\ UNCHANGED <<submitted, status, slot, targets, skip, abandon, cancel, renewed, misfired>>

(* A slot that is not its own is left alone, and one that cannot be         *)
(* released stays behind.  Then an error is booked.                         *)
release_slot(p) ==
    /\ drain[p].phase = "releasing"
    /\ \/ /\ slot' = IF HoldsFor(drain[p].ticket) THEN NoCargo ELSE slot
          /\ UNCHANGED faults
       \/ Faulty /\ UNCHANGED slot
    /\ \/ drain[p].fate = "done" /\ Returns(p)
       \/ /\ drain[p].fate = "error"
          /\ Moves(p, [drain[p] EXCEPT !.phase = "booking", !.fate = "none"])
          /\ UNCHANGED skip
    /\ UNCHANGED <<queue, targets, abandon, cancel, renewed, misfired>>

StepsOver(p) == /\ Moves(p, Idle)
                /\ skip' = [skip EXCEPT ![p] = @ \cup {drain[p].ticket}]

(* record_failed_attempt reads the status; a terminal ticket is left alone. *)
ReadAttempts(p) ==
    LET t == drain[p].ticket IN
    /\ drain[p].phase = "booking"
    /\ \/ is_terminal(t) /\ StepsOver(p)
       \/ /\ ~ is_terminal(t)
          /\ Moves(p, [drain[p] EXCEPT !.phase = "counted", !.attempts = status[t].attempts])
          /\ UNCHANGED skip
    /\ UNCHANGED <<queue, slot, targets, abandon, cancel, history>>

(* Books the attempt without counting it. *)
UncountedAttempt(p) ==
    LET t == drain[p].ticket IN
    /\ drain[p].phase = "counted"
    /\ status' = [status EXCEPT ![t].state = "queued"]
    /\ StepsOver(p)
    /\ UNCHANGED <<submitted, receipt, slot, targets, abandon, cancel, history>>

(* Writes a state that is neither queued nor terminal. *)
MiswordedAttempt(p) ==
    LET t == drain[p].ticket IN
    /\ drain[p].phase = "counted"
    /\ status' = [status EXCEPT ![t] = [state |-> "retrying", attempts |-> @.attempts + 1]]
    /\ StepsOver(p)
    /\ UNCHANGED <<submitted, receipt, slot, targets, abandon, cancel, history>>

(* Writes what follows from the status it read, whatever it is by now. *)
record_failed_attempt(p) ==
    LET t == drain[p].ticket
        n == drain[p].attempts + 1
    IN  /\ drain[p].phase = "counted"
        /\ status' = [status EXCEPT ![t] =
                        [state |-> IF n >= MaxAttempts THEN "failed" ELSE "queued",
                         attempts |-> n]]
        /\ StepsOver(p)
        /\ UNCHANGED <<submitted, receipt, slot, targets, abandon, cancel, history>>

(* A drain dies, and its cargo with it; a wipe may stop half-way. *)
DrainCrash(p) ==
    /\ Faulty
    /\ drain[p] # Idle
    /\ \/ /\ drain[p].phase \in {"wiping", "running"}
          /\ disk' = [disk EXCEPT ![drain[p].dir].torn = TRUE]
       \/ drain[p].phase # "running" /\ UNCHANGED disk
    /\ Returns(p)
    /\ UNCHANGED <<queue, slot, gen, fenced, unsettled, abandon, cancel, renewed, misfired>>

-------------------------------------------------------------------------------
(* abandon_stale_slot: run once the holder is known to be dead. *)

HolderAlive == \E p \in Drains : Holding(p) /\ HoldsFor(drain[p].ticket)

ReadHolder(a) ==
    /\ abandon[a] = AtRest
    /\ slot # NoCargo
    /\ ~ HolderAlive
    /\ abandon' = [abandon EXCEPT ![a] =
                     [phase |-> IF slot.target = None THEN "freeing" ELSE "fencing",
                      target |-> slot.target]]
    /\ renewed' = renewed \ {a}
    /\ UNCHANGED <<queue, slot, targets, drain, skip, cancel, faults, misfired>>

QuarantineAbandoned(a) ==
    /\ abandon[a].phase = "fencing"
    /\ fenced' = fenced \cup {abandon[a].target}
    /\ abandon' = [abandon EXCEPT ![a].phase = "freeing"]
    /\ UNCHANGED <<queue, slot, gen, disk, unsettled, drain, skip, cancel, history>>

(* Deletes the row, whoever holds it by now. *)
force_release_slot(a) ==
    /\ abandon[a].phase = "freeing"
    /\ slot' = NoCargo
    /\ misfired' = (misfired \/ (slot # NoCargo /\ a \in renewed))
    /\ abandon' = [abandon EXCEPT ![a] = AtRest]
    /\ UNCHANGED <<queue, targets, drain, skip, cancel, faults, renewed>>

-------------------------------------------------------------------------------
(* cancel_queued_ticket: refused for a ticket with a receipt, in the seat or *)
(* terminal; what it read may be old when it writes.                        *)

CancelChecks(t) ==
    /\ cancel = None
    /\ t \in submitted
    /\ t \notin receipt /\ ~ HoldsFor(t) /\ ~ is_terminal(t)
    /\ cancel' = t
    /\ UNCHANGED <<queue, slot, targets, drain, skip, abandon, history>>

cancel_ticket ==
    /\ cancel # None
    /\ status' = [status EXCEPT ![cancel].state = "cancelled"]
    /\ cancel' = None
    /\ UNCHANGED <<submitted, receipt, slot, targets, drain, skip, abandon, history>>

-------------------------------------------------------------------------------
Init ==
    /\ submitted = {}
    /\ status = [t \in Tickets |-> Fresh]
    /\ receipt = {}
    /\ slot = NoCargo
    /\ gen = [d \in Dirs |-> None]
    /\ fenced = {}
    /\ disk = [d \in Dirs |-> Empty]
    /\ drain = [p \in Drains |-> Idle]
    /\ skip = [p \in Drains |-> {}]
    /\ abandon = [a \in Abandoners |-> AtRest]
    /\ cancel = None
    /\ faults = 0
    /\ renewed = {}
    /\ misfired = FALSE
    /\ unsettled = {}

Draining(p) ==
    \/ run_next(p) \/ acquire_slot(p)
    \/ PlanTarget(p) \/ clear_target_for_reuse(p)
    \/ StartCargo(p) \/ EndCargo(p) \/ SettleTarget(p) \/ write_receipt(p)
    \/ release_slot(p)
    \/ ReadAttempts(p) \/ record_failed_attempt(p)

Abandoning(a) == ReadHolder(a) \/ QuarantineAbandoned(a) \/ force_release_slot(a)

Cancelling ==
    \/ \E t \in Cancellable : CancelChecks(t)
    \/ cancel_ticket

Next ==
    \/ \E t \in Tickets : submit_ticket(t)
    \/ \E p \in Drains : Draining(p) \/ DrainCrash(p)
    \/ \E a \in Abandoners : Abandoning(a)
    \/ Cancelling

Spec == Init /\ [][Next]_vars

(* The commands are run again and again, and each runs to its end: somebody *)
(* keeps draining, and somebody abandons a dead holder.                     *)
Fairness ==
    /\ \A p \in Drains : WF_vars(Draining(p))
    /\ \A a \in Abandoners : WF_vars(Abandoning(a))

FairSpec == Spec /\ Fairness

-------------------------------------------------------------------------------
(* Properties. *)

TicketStatus == [state : {"queued", "failed", "cancelled"}, attempts : Nat]
SlotRow == [ticket : Tickets \cup {None}, target : Dirs \cup {None}]
DirRow == [last : Heads \cup {None}, torn : BOOLEAN, authors : SUBSET Heads]
AbandonRow == [phase : {"idle", "fencing", "freeing"}, target : Dirs \cup {None}]
Phases == {"idle", "picked", "acquired", "wiping", "ready", "running", "ended",
           "settled", "releasing", "booking", "counted"}
Fates == {"none", "exited", "interrupted", "done", "error"}
DrainRow == [phase : Phases, ticket : Tickets \cup {None}, dir : Dirs \cup {None},
             fate : Fates, attempts : Nat]

(* Every row, directory and process has a value of its kind, and a process  *)
(* at work knows what it works on.                                          *)
TypeOK ==
    /\ submitted \subseteq Tickets /\ receipt \subseteq Tickets
    /\ status \in [Tickets -> TicketStatus]
    /\ slot \in SlotRow
    /\ gen \in [Dirs -> Heads \cup {None}]
    /\ fenced \subseteq Dirs /\ unsettled \subseteq Dirs
    /\ disk \in [Dirs -> DirRow]
    /\ drain \in [Drains -> DrainRow]
    /\ \A p \in Drains : /\ drain[p].phase # "idle" => drain[p].ticket \in Tickets
                         /\ drain[p].phase \in {"wiping", "ready", "running", "ended"}
                              => drain[p].dir \in Dirs
    /\ skip \in [Drains -> SUBSET Tickets]
    /\ abandon \in [Abandoners -> AbandonRow]
    /\ \A a \in Abandoners : abandon[a].phase = "fencing" => abandon[a].target \in Dirs
    /\ cancel \in Tickets \cup {None}
    /\ faults \in Nat /\ renewed \subseteq Abandoners /\ misfired \in BOOLEAN

(* "This machine runs exactly one cargo at a time" (slot.rs): two cargos    *)
(* never run together, whatever drains overlap, die and are abandoned,      *)
(* unless a forced release hit a slot that a live build had taken since the *)
(* dead holder was read.                                                    *)
OneCargo ==
    misfired \/ \A p, q \in Drains : Building(p) /\ Building(q) => p = q

(* A cargo or a wipe that stopped half-way leaves a directory the next      *)
(* build can tell: it is quarantined, or its drain is about to quarantine   *)
(* it, or the slot still names it, so that whoever frees the slot           *)
(* quarantines it first.  Left out are the targets whose verdict the store  *)
(* refused and those a failed wipe gave back.                               *)
TornIsFenced ==
    \A d \in Dirs : disk[d].torn =>
      \/ d \in fenced
      \/ slot.target = d
      \/ d \in unsettled \/ misfired

(* plan_target looks at one commit per target, the last one that drove it   *)
(* (target.rs:192).  So much follows, and no more: a cargo starts in a      *)
(* directory that was not emptied for it only if nothing stopped half-way   *)
(* there and its last driver is on the ticket's line of history.  Left out  *)
(* are targets whose verdict the store refused or that a failed wipe gave   *)
(* back (unsettled), and what follows a forced release that hit a row it    *)
(* had not read (misfired).  Of earlier drivers it says nothing.            *)
LastDriverDecidesReuse ==
    [][\A p \in Drains :
         ~ Building(p) /\ Building(p)' =>
           LET d == drain[p].dir IN
           \/ ~ disk[d].torn /\ (disk[d].last = None \/ OneLine(disk[d].last, Head[drain[p].ticket]))
           \/ d \in unsettled \/ misfired]_vars

(* "a diverged tree can never write into the resident target's              *)
(* fingerprints" (build_cli.rs:20-22): of any two commits that wrote the    *)
(* resident target since it was empty, one is an ancestor of the other.     *)
ResidentStaysOnOneLine ==
    \A a, b \in disk["resident"].authors : OneLine(a, b)

(* The queue is not a trap: every submitted ticket is built, dead-lettered  *)
(* or cancelled for good, behind doomed tickets and dead builds too.        *)
EveryTicketEnds ==
    \A t \in Tickets : <>[](t \in submitted => t \in receipt \/ is_terminal(t))
===============================================================================
