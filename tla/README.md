# A TLA+ verification of Tachi's ledgers

Tachi is a memory and work-coordination server for coding agents. Almost all of
its durable state lives in SQLite databases kept by one crate, `memcore`, and
is shared by processes that do not know of each other: daemons, hooks, sync
loops, cleaners, agents' sessions. What makes the system correct is therefore
mostly a set of *ledger protocols*: rows with states, leases, versions and
receipts that several actors move forward, any of which may crash, retry, be
late or act on what it read a while ago. This directory models those protocols
in TLA+, checks them with TLC on small instances and proves the most important
invariants with TLAPS for every instance.

Source paths below are relative to `src/crates/memcore/src/` unless they start
with `src/`.

## 1. The system and its parts

| Part | State | Operations | Hard behaviour |
|---|---|---|---|
| Outbox (`db/outbox.rs`, `store/outbox.rs`, `store/outbox_protocol.rs`) | `memory_outbox_events`: one row per announced write, six states, an error class, two stamps | commit with event, claim (lease) with takeover, report an outcome, resolve a conflict, bare transition, health | crashed and late consumers, takeovers, cutoffs read before the lock, two-row resolutions |
| Destination apply (`store/outbox_destination_apply.rs`) | receipt ledger, write-once partition stamp, the memories | apply an envelope | duplicates, replays under other terms, divergence, local edits |
| Sync loop and transport (outside the repository) | events held, envelopes and answers on their way | claim, send, report | loss, delay, duplication, crash |
| WorkClaims (`db/session_claims.rs`) | `session_claims`: holder, terms, version, state; the holder columns of `exec_envs` | admit, heartbeat, hand off, release, bind, presence upsert, garbage collection, holder evidence | races of admissions, takeover of orphans, stale versions, GC under live holders |
| Execution environments (`db/exec_env.rs`, `db/exec_env_resources.rs`, `store/exec_env_provisioning.rs`, `src/crates/tachi-server/src/exec_env_ops.rs`, the cleaner in `src/tools/cleaner`, the stale sweep, the reaper) | leases in six states, a resource ledger with bindings | publish, dispatch admission, removal claim / complete / abort, reclaim, quarantine | filesystem work between transactions, crash inside a removal |
| Harness sessions (`db/harness_session_events.rs`, `db/harness_session_attachments.rs`, `src/crates/tachi-server/src/agent_eval/session_spine.rs`) | a journal of facts, one canonical projection per attachment | ingest, replay, connection facts | facts late, repeated and out of order, terminals that contradict each other, a session that is reported gone and comes back |
| Delivery intents (`db/delivery_intents.rs`, `src/crates/tachi-server/src/delivery_ops.rs`) | intents, their claims, acknowledgement keys | mint, correct, claim, ack, report a failure, resume, dismiss | a result corrected while a claim is out, a mint that comes after its ingest, replayed keys, expiring claims, lost answers |
| Foundry jobs (`db/foundry_jobs/`) | job rows with attempts | claim for a run, requeue, recover, prune | retries, restarts |
| Build broker (`src/crates/tachi-build-broker`) | tickets and their status, receipts, one executor slot, two target directories with a generation and a quarantine each | submit, drain, abandon a dead holder, cancel | a slot that outlives its holder, directories a dead cargo left behind, checks made before a write that comes much later |
| MCP tasks, managed runs, connection pool (`src/crates/tachi-server/src`) | task states, epochs, breakers | start, cancel, finish, reconnect | cancellation racing completion |
| Memory lifecycle, search, vault, LLM, hub, CLI | the memories, indexes, secrets, configuration | CRUD, ranking, I/O | mostly sequential or I/O |

How they interact: everything above shares SQLite files. `commit_with_outbox_event`
couples a memory write to its announcement in one transaction; a sync loop moves
the announced row to another store's `apply_outbox_destination` and reports back;
a WorkClaim is bound to an execution environment, whose cleaners read
`holder_evidence` before they destroy anything; garbage collection runs in the
daemon's background task (`src/crates/tachi-server/src/bootstrap/serve/background.rs`)
over claims, jobs and cards while all of them are in use; the build broker keeps
its queue in the same global store and quarantines build targets in the resource
ledger of the environments.

What makes each part correct:

* Outbox: an outcome once recorded stands; a conflict decision lands whole; a
  lease is not taken early; every withdrawal that is not a decision is visible as
  degradation.
* Destination: an event is applied at most once, with the payload it announced,
  over nothing that was there; a receipt is backed; one partition per database.
* The two together: acknowledged means applied; every event settles.
* WorkClaims: writers are disjoint, an issue has one head, a flow one project;
  ownership changes hands only in the open; a version is a faithful token; a
  cleaner's evidence is consistent and moves forward only.
* Environments: a lease claimed for removal is closed to dispatch; a row under
  reclaim has one owner; what reads reclaimed is gone from disk; no binding
  points at freed bytes; a tree with output that no gate certified is not
  dispatched again. One further promise of the documents does not hold (section 5).
* Build broker: one cargo at a time; a directory in which something stopped
  half-way is recognised as such; no build starts in a directory that a commit of
  another line drove last; every ticket ends. That no diverged tree at all ever
  wrote there is promised too and does not hold (section 5).
* Attached sessions: what was shown is never taken back; of two terminals that
  contradict each other none is picked; the requester is offered the outcome
  that was recorded and no result that a correction replaced; a receipt and its
  acknowledgement name one result; the newest result is answered.

## 2. Modules

| Module | Role |
|---|---|
| `Outbox` | one source store: memories, event log, claims, outcomes, resolutions |
| `OutboxDestination` | one destination store: receipts, stamp, memories |
| `OutboxTransfer` | what reconciliation promises, abstractly: announce, apply, acknowledge, close |
| `OutboxDelivery` | both stores, sync loops and an unreliable transport; refines `OutboxTransfer` |
| `WorkClaims` | the claim ledger with presence rows, environment binding and GC |
| `ExecEnv` | environment leases and their resource ledger, provisioning, dispatch, the worktree cleaner and the stale sweep |
| `BuildBroker` | the build queue, its one seat, the two targets, drains that die and operators that abandon and cancel |
| `HarnessSession` | the event spine of one attached session: journal, canonical projection, connection facts |
| `HandOver` | what attached delivery promises a requester, abstractly: judge, offer, correct, hand out, settle, dismiss |
| `AttachedDelivery` | `HarnessSession` with the mint of the session's delivery intent and the requester's processes that claim and acknowledge it; refines `HandOver` |
| `Outbox_proofs`, `OutboxDestination_proofs`, `OutboxDelivery_proofs`, `OutboxTransfer_proofs`, `WorkClaims_proofs`, `ExecEnv_proofs`, `BuildBroker_proofs`, `AttachedDelivery_proofs` | the theorems |
| `MCOutbox`, `MCOutboxDestination`, `MCOutboxDelivery`, `MCWorkClaims`, `MCExecEnv`, `MCBuildBroker`, `MCAttachedDelivery` | instances for TLC |

Conventions. One action per transaction, which is one action per public call
where a call is one `BEGIN IMMEDIATE` transaction; a refused call rolls back and
is a stuttering step there: its refusals are the negations of the action's
guards. Where a caller goes on after a refusal (`ExecEnv`, `BuildBroker`, and
`MoveOn` of `AttachedDelivery`) the refusal is a disjunct. A few definitions whose comment describes a mistake
(`LastWriterOutcome`, `AnyoneMayHandoff`, `UpsertSlot`, `UncheckedMint`, ...) are not used by any
specification: each is a plausible bug of the definition that follows it, kept
to show that the property it breaks can be broken. Bounds are named constants:
those that start with `Max` or `Num`, and the subsets `Holdable`, `Vanishing`,
`Dispatchable`, `Unledgered` (`ExecEnv`) and `Cancellable` (`BuildBroker`), which
say to whom something may happen at all.

### Outbox

`objects` is the memories table, reduced to a revision and a value for the
columns `outbox_payload_digest` covers; SHA-256 is taken as collision free, so
a row stands for its digest. `log` is `memory_outbox_events`. `request` is the
one piece of state that lives outside SQLite: `claim_outbox_events` computes its
staleness cutoff from the clock *before* `retry_memory_locked` gets the writer
lock, so the call is `BeginClaim` (request and cutoff), then `ClaimTx` (the
transaction) or `AbandonClaim` (retries exhausted, or the process died).
`ClaimTx` contains the whole transaction: select, sort by enqueue time and id,
filter by lease, cut at the limit, transition or renew. `can_transition_to`,
`is_failure` and `class_admitted` are the frozen matrix and the class rules.
`resolve_local_wins` and `resolve_remote_wins` are the two writing arms of
`resolve_outbox_conflict`; `Deferred` writes nothing. An event id is a caller id
and the number of `::local-wins` suffixes after it, which is all the code ever
asks of the string. `upsert` and `delete` are the store's other writers, without
which an object would never change under an event.

### OutboxDestination

`Verdict` is the control flow of `apply_outbox_destination`: validation, role
and partition stamps, then the receipt (known event: readback, match) or the
object (unknown event: absent, equal, different). Only the verdict `applied`
writes: object, receipt and stamp together. A conflict rolls back, the stamp
included. `edited` is a history variable, the objects that the destination's own
users wrote; no guard reads it.

### OutboxDelivery

The kernel has no remote: the loop and the transport are modelled from what the
contract tests of `portable-kernel` do with the public calls, and are marked
external in the map. A host claims a batch, reads each object's *current* row,
sends it with the claimed event, and reports what came back. Envelopes may be
lost, arrive late, twice and out of order (an envelope stays in `net` after it
was delivered); a crash empties a host and loses its answers. A corruption error
is not an outcome and leaves the event with its holder.

### OutboxTransfer and the refinement

The abstract state is three functions: what each event announces, what the
destination took, and whether the event is open, acknowledged or closed. The
mapping in `OutboxDelivery!Transfer` reads them off the log and the receipts.
The run `delivery_edits` checks the refinement and section 4 proves it for every
instance, crashes and several hosts included; it is
also proved there that each store inside the composition still is an `Outbox`
and an `OutboxDestination`, so what is proved of a store alone holds of it in
company.
`Apply` is allowed for a closed event, as in the code: the destination cannot
know that the source withdrew an event whose envelope is still on its way.

### WorkClaims

`claims` is `session_claims`, `envs` the two holder columns of `exec_envs`,
`minted` the ids ever inserted (a uuid is not reused after its row was pruned).
Paths are sequences of components after `paths_overlap`'s normalisation; the
empty sequence is every path that normalisation empties or that contains a `*`,
and it overlaps everything, as in the code. Time appears as `aged`: the stamp
the next sweep compares is before its cutoff; `Age` may happen to any row at
any moment, which is more than the seven and thirty days the daemon passes.
`gc_session_claims` is two statements in autocommit, hence two actions.
Recorded identities are the set `Agents`; the checks that an identity row
exists are therefore left out. Role, branch, dispatch and the lease expiry are
not read by any modelled guard.

### ExecEnv

`lease` is `exec_envs` with the identity row of its worktree, `res` is
`exec_env_resources` by path and kind, `live` the bindings that are not
released. A directory is the number of its incarnation, which is what the code
asks of a device and inode; `disk` says which one is at each worktree path. A
resource id is its place and a generation, because only the revival of a
reclaimed row gives it a new id. The actors are those that hold something across
transactions: a provisioning call (opened, published, about to fence), the
dispatch of each lease (resolved to fenced), a cleaner (probed to removed or
failed) and the sweep. Every filesystem step is an action between the
transactions around it, and a crash may come between any two.

`probe_holders` to `AbortRemoval` are `wt-remove`; the age sweep of the
cleaner runs the same calls without the second ownership check. Of planning only
the probe for processes that hold the tree open is modelled, as a step of its own
because the claim comes later and does not repeat it. It refuses while a
provisioning call keeps the descriptor of the directory it opened
(`wt_open.rs:805` to `exec_env_ops.rs:834`) and while a dispatch keeps the one it
resolved (`HeldOpen`); a directory that is gone from its path holds nothing.
The rest of planning is left out: the claim reads again whatever planning read of the ledger,
branches and the registry file bear on no property, and every worktree that `open_worktree` finished
is registered, so `verify_worktree_ownership` accepts any directory that is at
the path. A refused or failed call whose caller moves on is a disjunct of its
step. `quarantine_lease_resources` is two steps for a provisioner, whose lease
others can claim, and one for a dispatch, whose lease is its own. Holder
evidence is the flag `held`; how it comes about is in `WorkClaims`.
`dirty` is a history variable: the trees a worker wrote to since a gate certified
them, a quarantine release emptied them or they were opened. The state
`provisioning` begins and ends in one transaction and `reclaim_failed` belongs to
`reclaim_resource`, which is not modelled yet. `release_quarantine` is public
and called with a build target by the build broker; the model allows it on any
quarantined row.

### BuildBroker

`submitted`, `status` and `receipt` are the rows `build_ticket`,
`build_ticket_status` and `build_receipt`, `slot` the one `executor_slot` row,
`gen` and `fenced` the generation and the quarantine of the resident and the
scratch target, `disk` what is really in the two directories: the commit whose
cargo wrote last, whether a cargo or a wipe stopped half-way, and (`authors`, a
history that no guard reads) every commit that wrote there since it was empty. Tickets are
numbers in the order of submission, commits are related by `Lineage`.

`drain[p]` is where a call of `run_next` stands. The broker runs no transaction
around a ticket: it reads, writes one row, does something on disk, writes the
next row. Each of these is an action (`run_next`, `acquire_slot`, `PlanTarget`,
`clear_target_for_reuse`, `StartCargo`, `EndCargo`, `SettleTarget`,
`write_receipt`, `release_slot`, then `ReadAttempts` and
`record_failed_attempt` for a booked failure), every one with its error exit,
and `DrainCrash` may come between any two and in the middle of a cargo or a
wipe. `skip` is the list of tickets this call stepped over. An operator's
`abandon_stale_slot` is three store calls (`ReadHolder`, `QuarantineAbandoned`,
`force_release_slot`), started when the holder is dead, as its document asks;
`cancel_queued_ticket` is a check and a write. There may be any number of drains
and of operators that abandon, since all are processes of their own.

Three history variables exclude, by name, what the code cannot know. `misfired`
becomes true when a forced release deletes a slot row that was written after the
operator read the old one (`renewed` is how this is noticed): from then on two
cargos may run. `unsettled` holds the targets whose verdict the store refused to
take after cargo ran, and those a failed wipe returned without quarantining
them; a later wipe removes them. No guard reads any of the three.

### HarnessSession and AttachedDelivery

`journal` is `harness_session_events` and `session` the one
`harness_session_state` row of the attachment; `shown` is a history variable, the
highest canonical state the row has had. A fact is its event id, and `Fact` gives
its material (kind, outcome, source revision, payload digest), since a replay
under the same id with other material is refused. `Ingested` is the whole
projection rule of `ingest_harness_session_event`: `Stale` is the guard above
everything else, `TerminalOver` the rule for terminals, `Advanced` the movements,
and then the revision is raised, also by a fact that moved nothing.
`mark_harness_session_connection` writes the marker over the row and remembers in
`preRank` what it hid. The attachment's own connection column is left out because
the spine never reads it. A cancelled fact stands for one whose confirmation is
bound.

The daemon ingests a terminal fact under the store's lock, lets the lock go and
takes it again to mint: `pending` holds the facts in between, and
`mint_delivery_for_attached_terminal` looks at the projection a second time
(`StillCanonical`) and at the revision of the intent (`NotOutdone`) before
`reconcile_mint`. `intent` is the run's `delivery_intents` row with the keys of
its accepted acknowledgements; its `lapsed` and `due` say that `claim_expires_at`
and `next_retry_at` have passed. The calls of the seam read and write in
separate transactions, but under the lock of the one daemon, which the module's
doc names as its assumption: each is one action. The claim's holder is recorded
as the host, so processes of one host share it, and all that a process has of
its own is `receipt`, the claim it was shown. A claim key is the attempt it
started, an acknowledgement key the attempt of its receipt. `expected_revision`
is optional, hence `pinned`.

`HandOver` is what all of this amounts to for the requester. Its state is a
verdict and whether it is in dispute, the result on offer and those withdrawn, the
number and status of the latest hand-over, what each process was shown and which
numbers are settled. The mapping in `AttachedDelivery!HandOver` reads them off the
canonical row, the intent and the receipts: `requester_queued` is out, `delivered`
and `dismissed` are done, everything else is idle; the attempt is the number.
Facts, revisions, pending mints, leases, retry delays and the difference between
`blocked`, `retrying` and `ready` disappear. What it adds to the properties
about single rows is the order of things: only a correction brings back what was
delivered or dismissed, a dispute is for good, a hand-over that is replayed shows
what its number showed, and an acknowledgement settles only while a claim is out.

`replaced` (facts whose result a correction replaced) and `credits` (which
acknowledgements were accepted, and for what) are history variables no guard
reads. `MaxFaults` bounds lost mints, lost answers, dead processes, leases that run
out while their process is at work, and reported failures, together.

## 3. Runs

| Run | Instance | Shows |
|---|---|---|
| `outbox_log` | 1 event, 1 object, 2 revisions, 1 successor, 2 hosts, bounds 1 and 2, clock 0..3 | `SuccessorLineage`, `ErrorClassLaw`, `TakeoverRespectsBound`, `FirstOutcomeStands`, `WithdrawalIsReported` |
| `destination` | 2 ids and a successor id, 2 objects, 2 rows, 2 sources, 2 partitions, 2 stores | `ReceiptsAreBacked`, `OnePartition`, `AppliedAtMostOnce` |
| `delivery_crash` | 1 event, 2 hosts, 1 crash, bound 1, clock 0..1, with fairness | `EventuallySettled` |
| `delivery_edits` | 1 event, 1 host, 2 revisions, 1 successor, destination edits | the refinement and `TypeOK` (the parts' included), under rewriting on both sides |
| `claims_ledger` | 2 claims, 2 agents, 1 environment, 1 flow, 2 projects, a presence hook, two writers' terms with nested scopes and a reader's with another head, versions 0..3 | `WritersAreDisjoint`, `OneHeadPerIssue`, `EvidenceIsConsistent`, `OneProjectPerFlow`, `NoSilentTakeover`, `VersionPinsTerms`, `EvidenceMovesForward` |
| `env_removal` | 2 leases, 2 worktrees (one is dispatched to, may vanish and may lack a ledger), a target inside it, 1 provisioner, 1 cleaner, the sweep, 2 opens, 1 lease with a holder | `BindingsNameTheLiveRow`, `ClaimShutsOutDispatch`, `ReclaimedMeansFreed`, `ReclaimingHasOneOwner`, `UncertifiedTreeStaysFenced` |
| `broker_queue` | 2 tickets on two forks of one commit, 2 drains, 1 operator who abandons, the first ticket may be cancelled, 2 attempts, 1 fault, with fairness | `OneCargo`, `TornIsFenced`, `LastDriverDecidesReuse`, `EveryTicketEnds` |
| `attached_delivery` | 5 facts (start at revision 3, progress and two results at 2, a contradicting failure at 1), 2 processes, 1 fault, with fairness | `NeverWalksBackward`, `NeverGuessesAWinner`, `IntentTellsTheTerminal`, `ReplacedStaysReplaced`, `ReceiptPinsContent`, `CreditIsEarned`, `ConflictFreezesTheResult`, `NewestResultIsAnswered`, the refinement of `HandOver` |
| `env_sweep_retry` | 1 lease, 1 worktree, which may vanish | a violation, finding 3 |
| `broker_lines` | 3 tickets: a fork, the commit it left, another fork; 1 drain, no fault | a violation, finding 4 |
| `delivery_successor` | as `delivery_edits` | a violation, finding 1 |
| `claims_orphans` | 1 presence row | a violation, finding 2 |

Why these bounds are enough to be interesting. One event suffices for the
log's laws because events interact only through the batch limit, on which no
stated property depends (what a limit can starve is a hazard without a property
yet); one successor is the least with a lineage, and two revisions are the least
with a rewritten object under an open event. Two hosts are the least for a
takeover, and two different staleness bounds with a clock of four instants let a
cutoff be older than a lease that was renewed after it was taken. At the destination two
sources and one id give the replay under other terms, two events on one object
the divergence. Two claims suffice for a pairwise law, a released row
and a later claim of its flow included. Versions up to 3
allow bind, handoff and release in one life of a claim. What a claim may declare
is the constant `Terms`: three declarations, of which two collide through nested
scopes (overlap is not equality) and the third only through its head. Two leases and two opens of one
path give a removal, a revival of its rows and the second lease's life beside
what is left of the first; the second worktree is there for a target inside the
first that the other's lease holds, and it does without a dispatch, a
disappearance and a legacy lease, which do not bear on who is bound. At the
broker two tickets whose commits are on no common line are the least for a
diverged target and for a wipe, two drains the least for a race, two attempts
the least for a retry that dead-letters; one fault is a death, a refused store
call or a failed wipe, and the second one it would take to hit its recovery as
well is covered by the theorems, which know no bound. With one operator no
forced release can misfire (`SoleOperatorFreesTheDead`), so that exception is
never taken in this run. The five facts of the attached session come in every
order: two results of one revision are a correction, the failure that is older than both
is stale or a contradiction depending on when it comes, and the lifecycle fact
of the highest revision, coming last, outdates a mint that is on its way. Two processes are
the least for a claim that outlives its holder. The same properties hold in two
larger instances that take too long to keep: two faults (971,723 states),
and a cleanup fact in addition (685,382 states). Host, claim, agent,
environment and project names are interchangeable in the runs that use
symmetry, and those runs check no liveness.

In `env_sweep_retry` something other than Tachi deletes the worktree while its
provisioner is at work, which is what the stale sweep exists for: the cleaner
itself would be refused by its probe. In `broker_lines` everything goes well: one
process, no cancellation, no failure. The two tickets of `broker_queue` are too
few for that sequence, and a third there would not change what
`LastDriverDecidesReuse` looks at, which is one driver and one ticket.

Deadlock is checked for `destination` only. Elsewhere the bounds themselves (last
instant, last version, all ids used) end a behaviour, so the check would report
the bound.

### Fairness

`delivery_crash` assumes, of the environment the kernel is written for: time
passes; a host goes on draining with takeover allowed (the protocol's doc makes
this the consumer's duty, and takeover is the only recovery the kernel offers);
a claim is not beaten to the writer lock for ever (strong fairness, since
`retry_memory_locked` may give up any finite number of times); what a host holds
it sends; the transport does not lose every copy of an envelope it is given
again and again (strong fairness); an answer that arrived is reported. Nothing
is assumed of users, operators, crashes or loss. Two conditions are named as
exceptions in the property because the code cannot settle the event in them:
the source deleted the object, so that there is nothing to send, or the
destination's users wrote it, so that a redelivery ends in an error.

`broker_queue` assumes that the broker's two commands are run again and again and
that each of their runs takes its steps: a drain that returned is started again,
and somebody abandons the slot of a holder that is dead (`tachi build run` and
`tachi build abandon`; the broker has no timeout of its own and its doc leaves
recovery to an operator). Nothing is assumed of cancellations, submissions, git,
cargo or the store: a ticket that fails for ever is dead-lettered by its attempts.

`attached_delivery` assumes that the host replays the terminal facts it reported
(`session_spine.rs` calls this the recovery path), that the daemon goes on from
an ingest to its mint, that a process claims what is ready, acknowledges what it
was shown and moves on when it cannot, and that leases and retry delays run out.
Nothing is assumed of lifecycle facts, dismissals, resumes or faults. `Newest`
names the results the code does not promise to deliver: one that a later fact
has outdated or whose equal exists at the same revision with another payload
(section 5).

## 4. Proofs

TLAPS proves for every value of the constants (assumptions: event ids, limits,
bounds and the clock are natural numbers; a revision bound is positive; `None` is
no member of the sets it stands beside, rows and receipts included;
`OutboxDelivery` assumes of the constants it shares what `Outbox` assumes of
them):

| Theorem | Property | Argument |
|---|---|---|
| `Outbox_proofs!TypeCorrect` | `TypeOK` | inductive as it stands, one case per action |
| `Outbox_proofs!OutcomesStand` | `FirstOutcomeStands` | step property from `TypeOK`: every action that writes a row has a guard on its state |
| `Outbox_proofs!ErrorClassesTruthful` | `ErrorClassLaw` | inductive with `TypeOK`; `class_admitted` for callers, the literal classes for resolutions, `NoClass` for claims |
| `Outbox_proofs!LineageKept` | `SuccessorLineage` | inductive with `TypeOK` and `ErrorClassLaw`, which says that only a withdrawn row carries the class that promises a successor |
| `Outbox_proofs!LeasesHoldTheirBound` | `TakeoverRespectsBound` | step property from the invariant that a pending request's cutoff is not in the future; needed because the cutoff and the takeover read the clock at different times |
| `Outbox_proofs!WithdrawalsShow` | `WithdrawalIsReported` | step property; `class_admitted` leaves the withdrawn row under a class of its caller's, and the invariant that the log is finite makes it count: health subtracts cardinalities, which say nothing about an infinite log |
| `OutboxDestination_proofs!TypeCorrect` | `TypeOK` | inductive as it stands; the committing apply is the one step with something to show |
| `OutboxDestination_proofs!PartitionIsWrittenOnce` | `OnePartition` | inductive: `Verdict` refuses a foreign partition before it looks at anything that would write |
| `OutboxDestination_proofs!ReceiptsStayBacked` | `ReceiptsAreBacked` | inductive with `TypeOK`: only the local calls touch a row that is there, and they mark it edited |
| `OutboxDestination_proofs!DeliveriesApplyOnce` | `AppliedAtMostOnce` | step property from `TypeOK` |
| `OutboxTransfer_proofs!AcknowledgedStandsForApplied` | | what the refinement is worth: an acknowledged event of the abstract transfer was applied as announced |
| `OutboxDelivery_proofs!TypeCorrect` | `TypeOK` | inductive with the rest of `IInv`, one lemma per action, each of which shows at once that the action keeps `IInv` and what it is to the transfer |
| `OutboxDelivery_proofs!TransferImplemented` | `ImplementsTransfer` | initial states map to initial states and, from `MessagesKnown` and `RecordsAgree`, every step maps to a step of the transfer or to a stutter |
| `OutboxDelivery_proofs!AcknowledgedHasReceipt` | | `AcknowledgedMeansApplied` of the transfer, read in the composition, from `RecordsAgree` |
| `OutboxDelivery_proofs!SourceIsOutbox` | | `Src!Spec`: what the loops do is what callers of `Outbox` may do. Needs the invariant that a claim call which is not open is blank, so that a crash is the end of an open call or a stutter |
| `OutboxDelivery_proofs!DestinationIsOutboxDestination` | | `Dst!Spec`: a delivery is an apply of an envelope that `OutboxDestination` may be given |
| `WorkClaims_proofs!TypeCorrect` | `TypeOK` | inductive as it stands |
| `WorkClaims_proofs!WritersStayDisjoint` | `WritersAreDisjoint` | inductive; `paths_overlap` and `scopes_overlap` are symmetric, so the one-sided check of the incoming row covers both orders |
| `WorkClaims_proofs!HeadsStayAgreed` | `OneHeadPerIssue` | inductive, with the same check |
| `WorkClaims_proofs!EvidenceStaysConsistent` | `EvidenceIsConsistent` | from the inductive `Bindings`: a claim that names an environment is named back with its holder, and a bound environment has both columns |
| `WorkClaims_proofs!TakeoversAreExplicit` | `NoSilentTakeover` | step property from `TypeOK` |
| `WorkClaims_proofs!VersionsPinTerms` | `VersionPinsTerms` | step property from `TypeOK` |
| `WorkClaims_proofs!FlowsKeepTheirProject` | `OneProjectPerFlow` | inductive: a claim takes a project when it is made and only then, and is compared with every row of its flow |
| `WorkClaims_proofs!EvidenceOnlyAdvances` | `EvidenceMovesForward` | step property from `Bindings`, row by row: an environment reads its one claim, and only its holder's release changes what it reads from held |
| `ExecEnv_proofs!TypeCorrect` | `TypeOK` | inductive with `PlaceLaw`: a lease that a worker uses has a worktree |
| `ExecEnv_proofs!BindingsStayLive` | `BindingsNameTheLiveRow` | from the inductive `BindingLaw`: a binding names the current id of a row that is not freed, a lease that has bindings has one to its own worktree, and nobody shares a worktree |
| `ExecEnv_proofs!RemovalsOwnTheirRows` | `ReclaimingHasOneOwner` | inductive with `BindingLaw`: publication joins only rows that are active, and a removal ends by letting go of, or reopening, every row it holds |
| `ExecEnv_proofs!ClaimsShutOutDispatch` | `ClaimShutsOutDispatch` | from the inductive `ClaimLaw`: a cleaner's lease is removing or reclaimed, and no other cleaner has it; without the second part the abort of another cleaner would reopen it |
| `ExecEnv_proofs!FreedBeforeReleased` | `ReclaimedMeansFreed` | from the inductive `DiskLaw`: an incarnation is never made twice, a cleaner that reports a removal and a sweep that looked twice have seen the directory gone |
| `ExecEnv_proofs!UncertifiedOutputStaysFenced` | `UncertifiedTreeStaysFenced` | step property from the inductive `WorkLaw` (where a dispatch stands says what state its lease is in) and `DirtLaw` (some lease answers for every dirty tree and is fenced before it is open again) |
| `BuildBroker_proofs!TypeCorrect` | `TypeOK` | inductive together with the rest of `IInv` |
| `BuildBroker_proofs!OneCargoAtATime` | `OneCargo` | as long as nothing misfired, whoever is between acquiring and releasing is named by the slot, and no operator at work has read a row that a live holder wrote: the first part of `Seat` |
| `BuildBroker_proofs!TornTargetsAreFenced` | `TornIsFenced` | the second part of `Seat`: a torn directory is fenced, unsettled or the one its holder, dead or alive, recorded on the slot before touching it |
| `BuildBroker_proofs!ReuseAsksTheLastDriver` | `LastDriverDecidesReuse` | of the last driver only, `unsettled` and `misfired` excepted. Step property: at `ready` the recorded directory was empty or compatible when it was planned, and `Seat` says that nobody wrote to it since |
| `BuildBroker_proofs!SoleOperatorFreesTheDead` | | if at most one process abandons slots, no forced release ever hits a row that was renewed, so that two cargos never run together, without exception |
| `AttachedDelivery_proofs!TypeCorrect` | `TypeOK` | inductive as it stands |
| `AttachedDelivery_proofs!SessionNeverWalksBackward` | `NeverWalksBackward` | step property from `Sound` (the columns of the canonical row agree with its state) and `Course` (what was shown is in the row, or in `preRank` while the session is reported gone) |
| `AttachedDelivery_proofs!NoWinnerIsGuessed` | `NeverGuessesAWinner` | inductive with `Contenders`: while the row records no terminal, every one that was journaled was stale when it came |
| `AttachedDelivery_proofs!OfferTellsTheTerminal` | `IntentTellsTheTerminal` | inductive: an intent takes its outcome from the row in the step that mints it |
| `AttachedDelivery_proofs!CorrectionsStand` | `ReplacedStaysReplaced` | from the inductive `Replacement`: what was replaced has a lower revision than the intent |
| `AttachedDelivery_proofs!ReceiptsPinContent` | `ReceiptPinsContent` | inductive with `Grip`: a receipt of the intent's present revision, or of the attempt that is out, shows what the intent offers |
| `AttachedDelivery_proofs!CreditsAreEarned` | `CreditIsEarned` | inductive with `Ledger`: a credited receipt has its key in the intent's acknowledgements |
| `AttachedDelivery_proofs!ConflictsFreeze` | `ConflictFreezesTheResult` | step property from `TypeOK` and the spine's invariant |
| `AttachedDelivery_proofs!HandOverImplemented` | `ImplementsHandOver` | one lemma per action from `IInv`: the first terminal fact is the verdict, the first that contradicts it the dispute; a mint is an offer because `IntentTellsTheTerminal` and `Replacement` hold after it; an expiry or a re-arm takes back what is out or is a stutter |

`IInv` of `OutboxDelivery` is `TypeOK` with `MessagesKnown` (what a host holds
and what is in the transport is about an event of the log, and an answer of
success is about an event that has a receipt) and `RecordsAgree` (a receipt
records what its event announces, and an acknowledged event has one).
`RecordsAgree`, which maps the steps, is not inductive alone: the loop that
acknowledges an event knows of its receipt only through the answer that it was
given. `IInv` of the broker is `TypeOK /\ (~ misfired => Seat)`; `Seat` is needed
because none of its three properties is inductive: what makes them true is where
a drain stands relative to the slot. `IInv` of `AttachedDelivery` is `TypeOK`
with the spine's invariant (`Sound`, `Course`, `Contenders`,
`NeverGuessesAWinner`), the intent's (`IntentTellsTheTerminal`, `Replacement`)
and the receipts' (`Grip`, `ReceiptPinsContent`, `Ledger`, `CreditIsEarned`).
`IInv` of `ExecEnv` is the conjunction of the laws named above. Its proof goes
through `LedgerStep`: every step of every actor is one of nine transactions on
leases, rows and bindings or leaves all three alone, so that what holds of the
ledger is shown once per transaction and not once per actor. `SealedStep` leaves
out the release of a quarantine, the one that opens a fenced row; `QuietStep`
leaves out the moves of a dispatch's lease and the abort as well.

Only model-checked: liveness (`EventuallySettled`, `EveryTicketEnds`,
`NewestResultIsAnswered`). Temporal logic with fairness is outside the prover's
reach. Every invariant and every action property of a passing run is proved.

## 5. Where documents and code disagree

1. **A LocalWins successor cannot be applied** (`delivery_successor`).
   `resolve_outbox_conflict` enqueues a successor under the id with
   `::local-wins` appended and promises that the conflicted event is never
   "consumed without a successor to carry the mutation"
   (`store/outbox_protocol.rs:689`). `validate_destination_event_binding`
   (`db/outbox.rs:431`) refuses every id with that suffix, and a contract test
   (`src/crates/portable-kernel/tests/outbox_destination_apply_contract.rs:411`)
   asserts it. The run reaches a successor in flight, with exactly the announced
   payload, at a destination that does not hold the object at all, and refused.
2. **An orphaned presence row has no way out** (`claims_orphans`). `release_claim`
   answers "claim ... is orphaned; use versioned release_work_claim"
   (`db/session_claims.rs:1458`), and the sweep's doc says that "an explicit
   caller-versioned release or handoff is still required to leave the orphaned
   state" (`db/session_claims.rs:1503`). Both calls refuse a row without a
   proven holder (`db/session_claims.rs:904`, `1041`), which a presence row
   never has, and the sweep prunes released rows only: the row stays for ever.
3. **A removal can be fenced into a dead end** (`env_sweep_retry`).
   `quarantine_lease_resources` (`src/crates/tachi-server/src/exec_env_ops.rs:1082`)
   refuses a lease that is being removed, but reads the lease before its
   transaction. In the run something deletes the tree between the publication
   and the check of its identity, which therefore fails and calls the fence; the
   sweep finds the lease stale and claims it after the fence has read it. The
   fence then turns `reclaiming` rows into `quarantined` ones; completion refuses
   them and abort finds no claim, so the lease stays `removing`, where
   `src/crates/tachi-server/src/bootstrap/clean_cli.rs:386` promises that "a later
   sweep can safely retry".
4. **Two diverged trees can write into the resident target** (`broker_lines`).
   `src/crates/tachi-server/src/bootstrap/build_cli.rs:20` says that the seat
   "drops forks into scratch, so a diverged tree can never write into the
   resident target's fingerprints". `generation_compatible`
   (`src/crates/tachi-build-broker/src/target.rs:192`) lets any commit into a
   target nobody has driven and afterwards compares with the last driver only,
   on whose line both its ancestors and its descendants are. A fork, the commit
   it left and another fork, in this order, thus reuse one target. What the code
   does guarantee is `LastDriverDecidesReuse`.

Three more were met in the build broker, for which no run is kept:

* Two operators who abandon the same dead holder (`lib.rs:548` of the broker, a
  read and an unconditional delete): the slower one deletes the row of the build
  that has taken the slot since, and a third drain starts a second cargo. The
  properties name the case (`misfired`); with one operator it cannot happen,
  which is proved.
* `record_failed_attempt` (`ticket.rs:371`) reads the status and later writes the
  whole row, so that a cancellation in between is overwritten by `queued`.
* `clear_target_for_reuse` (`lib.rs:483`) of a target that is diverged but not
  quarantined may stop half-way; the target then keeps its old generation, and
  the next ticket of the old line builds on half a directory (`unsettled`).

And in the delivery of attached results, again without a run; `Newest` and the
comments of the properties name the cases:

* A lifecycle fact that comes after a result raises the revision of the row even
  though it moves nothing. A mint of that result that was delayed or lost is then
  refused as older information (`src/crates/tachi-server/src/delivery_ops.rs:535`)
  however often the fact is replayed, where
  `src/crates/tachi-server/src/agent_eval/session_spine.rs:124` says "Replayed
  admissions DO re-attempt the mint ... this is the recovery path".
* A correction pushes the intent's revision past that of its fact, so that a
  second correction at the same source revision is dropped without a word
  (`NotOutdone`), where `db/delivery_intents.rs:280` has "two corrections landing in
  the same clock tick can never be silently lost". Which of two results of one
  revision wins is the order of their mints, not of the journal.
* The acknowledgement key is one per receipt and the receipts of one claim
  agree (`ReceiptPinsContent`), but an acknowledgement without
  `expected_revision` settles whatever result the intent holds by then.
* An intent that was minted stays claimable after a contradiction
  (`ConflictFreezesTheResult` says that its result does not change), where
  `session_spine.rs:132` says that "delivery waits".
* An older terminal is ignored when it comes while the row is fresher and has no
  outcome yet, and is a contradiction when it comes after the outcome was
  recorded (`Stale` looks at a terminal only as long as none is recorded).
* A claim key that is replayed after its lease ran out is still answered with the
  receipt as long as nobody released the claim, where the doc of
  `resolve_claim_key_replay` (`db/delivery_intents.rs:573`) asks for an
  "unexpired claim".

## 6. What is left out

* Ill-formed arguments (blank, oversized or non-token strings) are refused
  before any state is read; they are not modelled.
* `open_worktree` is one step: a process that dies before the registration
  leaves a directory that no ledger knows and no cleaner takes.
* The wall clock is monotone. A clock that steps back would break the lease
  bound and nothing else that is stated here.
* SQLite is taken at its word: one writer, atomic commits.
* Connection admissions and `with_local_project_claim_write` (the write guard of
  the task lifecycle) are not part of `WorkClaims` yet.
* In the broker: the repository a seat drains, target rows under reclaim (only
  the reaper writes them, and its destructive mode is off), the expiry of rows
  and the machine-wide views. A store refusal inside `clear_target_for_reuse`
  is the refusal that leaves everything, or the wipe that stops half-way.
* In attached delivery: the intents of managed dispatches, which may be unbound
  and whose revisions come from the wall clock; several intents and their order
  in a claim; admission and rebinding of attachments; interventions.
* Search, ranking, vectors, LLM calls, vault cryptography, configuration,
  installation and the command lines: numeric, I/O or sequential code in which
  a model checker would find nothing a unit test does not.

## 7. Plan

Done: the outbox family, the claim ledger, the environment leases, the build
broker and the delivery of attached results, in that order because a lost or doubled mutation, two agents writing one
tree, and a build that is reported good on another build's leftovers are the
worst things that this system can do.

Next, in order:

1. `ResourceLedger`: `reclaim_resource` with its deletion outside of the
   transactions, `reclaim_failed` and retries, single bindings and releases, the
   reaper; composed with `ExecEnv`. Properties: bytes are counted once; a shared
   resource outlives its last binding. Also the liveness of the stale sweep over
   several leases, and dispatches without a required postflight.
2. The intents of managed dispatches over the same state machine, as a second
   implementation of `HandOver`.
3. `FoundryJobs`: claim, retry and recovery; liveness of a job across restarts.
4. `ManagedRuns`: epochs that fence a superseded run.
5. Proofs: an abstract life of a lease (open, in use, fenced, freed) and of a build
   ticket, which `ExecEnv` and `BuildBroker` refine; every step of a lease is one
   of the transactions of `LedgerStep`, which is where such a proof starts.
