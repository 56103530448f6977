------------------------------- MODULE ExecEnv --------------------------------
(***************************************************************************)
(* Execution environments: the lease of a managed git worktree             *)
(* (db/exec_env.rs), the ledger of the directories it owns and their       *)
(* bindings (db/exec_env_resources.rs), and the actors that use them:      *)
(* provisioning (exec_env_ops.rs, store/exec_env_provisioning.rs), the     *)
(* dispatch guard with its postflight fence, the worktree cleaner          *)
(* (tools/cleaner, a process of its own) and the stale-lease sweep.        *)
(*                                                                         *)
(* A transaction is one action; every step on the file system is an action *)
(* of its own, between the transactions the code runs before and after it. *)
(* A refused call writes nothing: where the caller moves on after it the   *)
(* refusal is a disjunct (a store that cannot be opened refuses any call), *)
(* elsewhere a stuttering step.                                            *)
(*                                                                         *)
(* Data: a directory is the number of its incarnation, which stands for    *)
(* the device and inode the code compares, 0 when nothing is at the path.  *)
(* A resource id is its (path, kind) and a generation, because only a      *)
(* revival changes the id of a row.  Environment ids are numbers in the    *)
(* order of created_at.  Holder evidence is a flag here: WorkClaims models *)
(* how it comes about.  The state "provisioning" begins and ends inside    *)
(* one transaction and is never seen.                                      *)
(***************************************************************************)
EXTENDS Integers, FiniteSets

CONSTANTS NumEnvs,       \* bound: leases ever created
          Trees,         \* worktree paths
          Targets,       \* build target paths
          Inside,        \* per target, the worktree that contains it, or None
          Provisioners,  \* concurrent provisioning calls
          Cleaners,      \* wt-remove and sweep processes
          MaxOpens,      \* bound: worktrees ever opened
          Vanishing,     \* bound: worktrees something else may delete
          Dispatchable,  \* bound: worktrees dispatched to
          Unledgered,    \* bound: worktrees with leases that have no resource ledger
          Holdable,      \* bound: leases a work claim may be bound to
          None

Envs == 1 .. NumEnvs
Locs == Trees \cup Targets

ASSUME BoundsAssumption == /\ {NumEnvs, MaxOpens} \subseteq Nat
                           /\ Holdable \subseteq Envs
                           /\ Vanishing \cup Dispatchable \cup Unledgered \subseteq Trees
ASSUME PathsAssumption == /\ Trees \cap Targets = {}
                          /\ None \notin Locs \cup Nat
                          /\ Inside \in [Targets -> Trees \cup {None}]

VARIABLES lease,     \* exec_envs and exec_env_worktree_identities
          res,       \* exec_env_resources, per (path, kind)
          live,      \* exec_env_resource_bindings that are not released
          held,      \* leases whose holder evidence is not clear
          disk,      \* the incarnation at each worktree path
          opens,     \* incarnations made so far
          scrapped,  \* paths in the cleaner's scrap ledger
          prov,      \* provisioning calls
          worker,    \* per lease, the dispatch that uses it
          cleaner,   \* removals under way
          sweeper,   \* the stale-lease sweep
          dirty      \* trees with output that no gate has certified

vars == <<lease, res, live, held, disk, opens, scrapped, prov, worker,
          cleaner, sweeper, dirty>>

ledger == <<lease, res, live>>
files == <<disk, opens, scrapped>>
actors == <<prov, worker, cleaner, sweeper>>

-------------------------------------------------------------------------------
(* The rows and what is read from them. *)

ExecEnvState == {"none", "active", "dispatching", "publishing", "removing", "reclaimed"}
ResourceState == {"none", "active", "reclaiming", "quarantined", "reclaimed"}

(* The lease a path resolves to: the newest one that is not reclaimed. *)
AtPath(t) == {e \in Envs : lease[e].state \notin {"none", "reclaimed"} /\ lease[e].tree = t}
Newest(t) == CHOOSE e \in AtPath(t) : \A f \in AtPath(t) : f <= e

(* A live binding joins the row that still carries the id it names. *)
Rid(l) == <<l, res[l].gen>>
BoundBy(e) == {b[2] : b \in {x \in live : x[1] = e}}
Holders(l) == {e \in Envs : <<e, Rid(l)>> \in live}
Resolves(rid) == res[rid[1]].gen = rid[2]

(* The directory the lease published is still the one at its path. *)
OnDisk(e) == disk[lease[e].tree] = lease[e].inc

BoundLocs(e) == {l \in Locs : Rid(l) \in BoundBy(e)}

(* Removed together with the worktree at t: the worktree itself and every  *)
(* build target below it.                                                  *)
RemovedWith(t) == {t} \cup {l \in Targets : Inside[l] = t}

(* exec_env_resource_removal_refusal answers None. *)
ResourcesProveRemoval(e, t) ==
    /\ BoundBy(e) # {}
    /\ \A rid \in BoundBy(e) : Resolves(rid) /\ res[rid[1]].state = "active"
    /\ t \in BoundLocs(e)

(* Counts the bindings of the worktree only, not of the targets below it. *)
TargetBlindAdmission(e, t) ==
    /\ lease[e].state = "active"
    /\ e \notin held
    /\ ResourcesProveRemoval(e, t)
    /\ Holders(t) = {e}

(* What claim_exec_env_removal_in_tx requires. *)
RemovalAdmitted(e, t) ==
    /\ lease[e].state = "active"
    /\ e \notin held
    /\ ResourcesProveRemoval(e, t)
    /\ \A l \in BoundLocs(e) \cap RemovedWith(t) : Holders(l) = {e}

(* What complete_exec_env_removal requires of the bindings it releases. *)
RemovalEvidence(e) ==
    LET t == lease[e].tree IN
    /\ \A rid \in BoundBy(e) : Resolves(rid)
    /\ BoundLocs(e) \cap Trees = {t}
    /\ \A l \in BoundLocs(e) :
         IF l \in RemovedWith(t) THEN res[l].state = "reclaiming" /\ Holders(l) = {e}
                                 ELSE res[l].state = "active"

SetStates(S, s) == [l \in Locs |-> IF l \in S THEN [res[l] EXCEPT !.state = s] ELSE res[l]]

-------------------------------------------------------------------------------
(* The transactions several actors share. *)

(* Writes the resource's word into the lease. *)
MiswordedClaim(e, t) ==
    /\ RemovalAdmitted(e, t)
    /\ lease' = [lease EXCEPT ![e].state = "reclaiming"]
    /\ res' = SetStates(BoundLocs(e) \cap RemovedWith(t), "reclaiming")
    /\ UNCHANGED live

(* active -> removing, with the worktree and the targets below it. *)
claim_exec_env_removal_in_tx(e, t) ==
    /\ RemovalAdmitted(e, t)
    /\ lease' = [lease EXCEPT ![e].state = "removing"]
    /\ res' = SetStates(BoundLocs(e) \cap RemovedWith(t), "reclaiming")
    /\ UNCHANGED live

(* Retires the rows and forgets to release the bindings. *)
CompleteKeepsBindings(e) ==
    /\ lease[e].state = "removing"
    /\ e \notin held
    /\ RemovalEvidence(e)
    /\ lease' = [lease EXCEPT ![e].state = "reclaimed"]
    /\ res' = SetStates(BoundLocs(e) \cap RemovedWith(lease[e].tree), "reclaimed")
    /\ UNCHANGED live

complete_exec_env_removal(e) ==
    /\ lease[e].state = "removing"
    /\ e \notin held
    /\ RemovalEvidence(e)
    /\ lease' = [lease EXCEPT ![e].state = "reclaimed"]
    /\ res' = SetStates(BoundLocs(e) \cap RemovedWith(lease[e].tree), "reclaimed")
    /\ live' = {b \in live : b[1] # e}

abort_exec_env_removal(e) ==
    LET R == {l \in BoundLocs(e) : res[l].state = "reclaiming"} IN
    /\ R # {}
    /\ lease[e].state = "removing"
    /\ lease' = [lease EXCEPT ![e].state = "active"]
    /\ res' = SetStates(R, "active")
    /\ UNCHANGED live

(* All or nothing: one id that is gone or reclaimed refuses the fence. *)
quarantine_resources_atomically(ids) ==
    /\ \A rid \in ids : Resolves(rid) /\ res[rid[1]].state # "reclaimed"
    /\ res' = SetStates({rid[1] : rid \in ids}, "quarantined")
    /\ UNCHANGED <<lease, live>>

-------------------------------------------------------------------------------
(* Provisioning. *)

Idle == [phase |-> "idle"]

(* open_worktree: the directory, its marker and its registry row. *)
open_worktree(p, t) ==
    /\ prov[p] = Idle
    /\ opens < MaxOpens
    /\ disk[t] = 0
    /\ t \notin scrapped
    /\ opens' = opens + 1
    /\ disk' = [disk EXCEPT ![t] = opens + 1]
    /\ dirty' = dirty \ {t}
    /\ prov' = [prov EXCEPT ![p] = [phase |-> "opened", tree |-> t, inc |-> opens + 1]]
    /\ UNCHANGED <<ledger, held, scrapped, worker, cleaner, sweeper>>

Fresh == {e \in Envs : lease[e].state = "none" /\ \A f \in 1 .. e - 1 : lease[f].state # "none"}

Published(l) ==
    CASE res[l].state = "active"    -> res[l]
      [] OTHER -> [gen |-> res[l].gen + 1, state |-> "active"]

Publishable(L) ==
    /\ \A l \in L : res[l].state \in {"none", "active", "reclaimed"}
    /\ \A t \in L \cap Trees : Holders(t) = {}

(* publish_exec_env_atomically_anchored: lease, rows and bindings at once.  *)
(* An edit-only lease owns its worktree, a build-private one a target too.  *)
(* The path was compared with the opened directory before the transaction   *)
(* began, which says nothing of the moment of the commit.                   *)
publish_exec_env_atomically(p, e, targets) ==
    LET t == prov[p].tree
        L == {t} \cup targets
    IN  /\ prov[p].phase = "opened"
        /\ e \in Fresh
        /\ Publishable(L)
        /\ lease' = [lease EXCEPT ![e] = [state |-> "active", tree |-> t, inc |-> prov[p].inc,
                                        booked |-> TRUE]]
        /\ res' = [l \in Locs |-> IF l \in L THEN Published(l) ELSE res[l]]
        /\ live' = live \cup {<<e, <<l, Published(l).gen>>>> : l \in L}
        /\ prov' = [prov EXCEPT ![p] = [phase |-> "published", env |-> e, tree |-> t,
                                        inc |-> prov[p].inc]]
        /\ UNCHANGED <<held, files, worker, cleaner, sweeper, dirty>>

(* A refused publication keeps the registered worktree for the cleaner. *)
RetainUnpublished(p) ==
    /\ prov[p].phase = "opened"
    /\ prov' = [prov EXCEPT ![p] = Idle]
    /\ UNCHANGED <<ledger, held, files, worker, cleaner, sweeper, dirty>>

(* After the commit the path is compared once more.  On a mismatch          *)
(* quarantine_lease_resources reads the lease and its bindings, outside of  *)
(* a transaction, and then fences what it read.                             *)
ConfirmIdentity(p) ==
    LET e == prov[p].env IN
    /\ prov[p].phase = "published"
    /\ prov' = [prov EXCEPT ![p] =
                  IF /\ disk[prov[p].tree] # prov[p].inc
                     /\ lease[e].state \in {"active", "dispatching", "publishing"}
                     /\ BoundBy(e) # {}
                  THEN [phase |-> "fencing", ids |-> BoundBy(e)]
                  ELSE Idle]
    /\ UNCHANGED <<ledger, held, files, worker, cleaner, sweeper, dirty>>

quarantine_lease_resources(p) ==
    /\ prov[p].phase = "fencing"
    /\ prov' = [prov EXCEPT ![p] = Idle]
    /\ \/ quarantine_resources_atomically(prov[p].ids)
       \/ UNCHANGED ledger
    /\ UNCHANGED <<held, files, worker, cleaner, sweeper, dirty>>

(* insert_exec_env: a lease without a resource ledger, as older daemons     *)
(* wrote them.                                                              *)
insert_exec_env(e, t) ==
    /\ e \in Fresh
    /\ t \in Unledgered
    /\ lease' = [lease EXCEPT ![e] = [state |-> "active", tree |-> t, inc |-> disk[t],
                                    booked |-> FALSE]]
    /\ UNCHANGED <<res, live, held, files, actors, dirty>>

-------------------------------------------------------------------------------
(* Dispatch. *)

(* resolve_dispatch_env_binding and open_dispatch_worktree_authority: the   *)
(* lease is active and unfenced and the directory is the published one.     *)
resolve_dispatch_env_binding(e) ==
    /\ worker[e] = "none"
    /\ lease[e].tree \in Dispatchable
    /\ lease[e].state = "active"
    /\ \A l \in BoundLocs(e) : res[l].state # "quarantined"
    /\ disk[lease[e].tree] # 0 /\ disk[lease[e].tree] = lease[e].inc
    /\ worker' = [worker EXCEPT ![e] = "resolved"]
    /\ UNCHANGED <<ledger, held, files, prov, cleaner, sweeper, dirty>>

(* Trusts the state that resolve_dispatch_env_binding read. *)
StaleAcquire(e) ==
    /\ worker[e] = "resolved"
    /\ BoundBy(e) # {}
    /\ lease' = [lease EXCEPT ![e].state = "dispatching"]
    /\ worker' = [worker EXCEPT ![e] = "admitted"]
    /\ UNCHANGED <<res, live, held, files, prov, cleaner, sweeper, dirty>>

(* ExecEnvDispatchLeaseGuard::acquire. *)
acquire(e) ==
    /\ worker[e] = "resolved"
    /\ \/ /\ lease[e].state = "active"
          /\ BoundBy(e) # {}
          /\ \A l \in BoundLocs(e) : res[l].state # "quarantined"
          /\ lease' = [lease EXCEPT ![e].state = "dispatching"]
          /\ worker' = [worker EXCEPT ![e] = "admitted"]
       \/ /\ worker' = [worker EXCEPT ![e] = "none"]
          /\ UNCHANGED lease
    /\ UNCHANGED <<res, live, held, files, prov, cleaner, sweeper, dirty>>

release_without_spawn(e) ==
    /\ worker[e] = "admitted"
    /\ lease[e].state = "dispatching"
    /\ lease' = [lease EXCEPT ![e].state = "active"]
    /\ worker' = [worker EXCEPT ![e] = "none"]
    /\ UNCHANGED <<res, live, held, files, prov, cleaner, sweeper, dirty>>

Spawn(e) ==
    /\ worker[e] = "admitted"
    /\ worker' = [worker EXCEPT ![e] = "running"]
    /\ dirty' = dirty \cup {lease[e].tree}
    /\ UNCHANGED <<ledger, held, files, prov, cleaner, sweeper>>

(* The postflight gate found the tree clean. *)
begin_publication(e) ==
    /\ worker[e] = "running"
    /\ lease[e].state = "dispatching"
    /\ lease' = [lease EXCEPT ![e].state = "publishing"]
    /\ worker' = [worker EXCEPT ![e] = "certified"]
    /\ UNCHANGED <<res, live, held, files, prov, cleaner, sweeper, dirty>>

complete_publication(e) ==
    /\ worker[e] = "certified"
    /\ lease[e].state = "publishing"
    /\ lease' = [lease EXCEPT ![e].state = "active"]
    /\ worker' = [worker EXCEPT ![e] = "none"]
    /\ dirty' = dirty \ {lease[e].tree}
    /\ UNCHANGED <<res, live, held, files, prov, cleaner, sweeper>>

(* Gives the lease back without the quarantine. *)
UnfencedAbandon(e) ==
    /\ worker[e] \in {"admitted", "running", "certified"}
    /\ lease[e].state \in {"dispatching", "publishing"}
    /\ worker' = [worker EXCEPT ![e] = "fenced"]
    /\ UNCHANGED <<ledger, held, files, prov, cleaner, sweeper, dirty>>

(* Every other end fences first: a verdict that is not clean, a failed      *)
(* publication, a guard that is dropped while armed.  The lease is this     *)
(* dispatch's alone, so what quarantine_lease_resources reads outside of    *)
(* its transaction cannot change before it.                                 *)
fence_abandoned(e) ==
    /\ worker[e] \in {"admitted", "running", "certified"}
    /\ lease[e].state \in {"dispatching", "publishing"}
    /\ BoundBy(e) # {}
    /\ quarantine_resources_atomically(BoundBy(e))
    /\ worker' = [worker EXCEPT ![e] = "fenced"]
    /\ UNCHANGED <<held, files, prov, cleaner, sweeper, dirty>>

release_after_fence(e) ==
    /\ worker[e] = "fenced"
    /\ lease[e].state \in {"dispatching", "publishing"}
    /\ lease' = [lease EXCEPT ![e].state = "active"]
    /\ worker' = [worker EXCEPT ![e] = "none"]
    /\ UNCHANGED <<res, live, held, files, prov, cleaner, sweeper, dirty>>

(* The daemon dies: no guard is dropped, no lease moves. *)
DaemonCrash ==
    /\ prov' = [p \in Provisioners |-> Idle]
    /\ worker' = [e \in Envs |-> "none"]
    /\ UNCHANGED <<ledger, held, files, cleaner, sweeper, dirty>>

(* release_quarantine: the caller's closure empties the directory, then a   *)
(* guarded update returns the row to active.  Between them nobody else can  *)
(* use a quarantined row, so they are one step.                             *)
release_quarantine(l) ==
    /\ res[l].state = "quarantined"
    /\ res' = SetStates({l}, "active")
    /\ dirty' = dirty \ {l}
    /\ UNCHANGED <<lease, live, held, files, actors>>

-------------------------------------------------------------------------------
(* The worktree cleaner: wt-remove and the age sweep. *)

(* A provisioning call keeps the directory it opened open until its lease   *)
(* is published, a dispatch the one it resolved until it ends.  The probe   *)
(* looks below the path: a directory that is gone from there does not show. *)
HeldOpen(t) ==
    \/ \E p \in Provisioners : /\ prov[p].phase \in {"opened", "published"}
                             /\ prov[p].tree = t /\ prov[p].inc = disk[t]
    \/ \E e \in Envs : worker[e] # "none" /\ lease[e].tree = t /\ OnDisk(e)

(* Planning refuses unless the probe of the operating system answers Clear. *)
(* What it reads of the ledger, the claim reads again.                      *)
probe_holders(c, t) ==
    /\ cleaner[c] = Idle
    /\ disk[t] # 0
    /\ ~ HeldOpen(t)
    /\ cleaner' = [cleaner EXCEPT ![c] = [phase |-> "probed", tree |-> t, env |-> None]]
    /\ UNCHANGED <<ledger, held, files, prov, worker, sweeper, dirty>>

(* claim_worktree_removal: claim_exec_env_removal on the canonical path, or *)
(* a refusal.  The path may be held, or another directory, by now.          *)
claim_worktree_removal(c) ==
    LET t == cleaner[c].tree
        env == IF AtPath(t) = {} THEN None ELSE Newest(t)
    IN  /\ cleaner[c].phase = "probed"
        /\ \/ /\ disk[t] # 0
              /\ IF env = None THEN UNCHANGED ledger ELSE claim_exec_env_removal_in_tx(env, t)
              /\ cleaner' = [cleaner EXCEPT ![c] = [phase |-> "claimed", tree |-> t, env |-> env]]
           \/ cleaner' = [cleaner EXCEPT ![c] = Idle] /\ UNCHANGED ledger
        /\ UNCHANGED <<held, files, prov, worker, sweeper, dirty>>

(* Ownership and size are read and the scrap is recorded. *)
RecordScrap(c) ==
    /\ cleaner[c].phase = "claimed"
    /\ disk[cleaner[c].tree] # 0
    /\ scrapped' = scrapped \cup {cleaner[c].tree}
    /\ cleaner' = [cleaner EXCEPT ![c].phase = "recorded"]
    /\ UNCHANGED <<ledger, held, disk, opens, prov, worker, sweeper, dirty>>

(* Takes git's failure for a removal. *)
UncheckedGitRemove(c) ==
    /\ cleaner[c].phase = "recorded"
    /\ disk[cleaner[c].tree] # 0
    /\ cleaner' = [cleaner EXCEPT ![c].phase = "removed"]
    /\ UNCHANGED <<ledger, held, files, prov, worker, sweeper, dirty>>

(* verify_worktree_ownership compares the directory with its own current    *)
(* registry row and marker, which every opened worktree satisfies; then     *)
(* git worktree remove --force runs on the path.                            *)
GitWorktreeRemove(c) ==
    LET t == cleaner[c].tree IN
    /\ cleaner[c].phase = "recorded"
    /\ disk[t] # 0
    /\ \/ /\ disk' = [disk EXCEPT ![t] = 0]
          /\ dirty' = dirty \ {t}
          /\ cleaner' = [cleaner EXCEPT ![c].phase = "removed"]
       \/ /\ cleaner' = [cleaner EXCEPT ![c].phase = "failed"]
          /\ UNCHANGED <<disk, dirty>>
    /\ UNCHANGED <<ledger, held, opens, scrapped, prov, worker, sweeper>>

CompleteRemoval(c) ==
    /\ cleaner[c].phase = "removed"
    /\ \/ cleaner[c].env # None /\ complete_exec_env_removal(cleaner[c].env)
       \/ UNCHANGED ledger
    /\ cleaner' = [cleaner EXCEPT ![c] = Idle]
    /\ UNCHANGED <<held, files, prov, worker, sweeper, dirty>>

AbortRemoval(c) ==
    /\ cleaner[c].phase \in {"claimed", "recorded", "failed"}
    /\ \/ cleaner[c].env # None /\ abort_exec_env_removal(cleaner[c].env)
       \/ UNCHANGED ledger
    /\ cleaner' = [cleaner EXCEPT ![c] = Idle]
    /\ UNCHANGED <<held, files, prov, worker, sweeper, dirty>>

-------------------------------------------------------------------------------
(* The stale-lease sweep, reclaim_stale_exec_env_leases. *)

(* The lease has a binding, live or released, or its worktree has a row. *)
HasLedger(e) == lease[e].booked \/ res[lease[e].tree].state # "none"

SweepSeesAbsent(e) ==
    /\ sweeper = Idle
    /\ lease[e].state \in {"active", "removing"}
    /\ disk[lease[e].tree] = 0
    /\ sweeper' = [phase |-> "absent", env |-> e]
    /\ UNCHANGED <<ledger, held, files, prov, worker, cleaner, dirty>>

prepare_stale_exec_env_reclaim ==
    LET e == sweeper.env IN
    /\ sweeper.phase = "absent"
    /\ \/ /\ e \notin held
          /\ lease[e].state = "removing"
          /\ sweeper' = [sweeper EXCEPT !.phase = "admitted"]
          /\ UNCHANGED ledger
       \/ /\ HasLedger(e)
          /\ claim_exec_env_removal_in_tx(e, lease[e].tree)
          /\ sweeper' = [sweeper EXCEPT !.phase = "admitted"]
       \/ /\ e \notin held
          /\ lease[e].state = "active"
          /\ ~ HasLedger(e)
          /\ lease' = [lease EXCEPT ![e].state = "reclaimed"]
          /\ sweeper' = Idle
          /\ UNCHANGED <<res, live>>
       \/ /\ sweeper' = Idle
          /\ UNCHANGED ledger
    /\ UNCHANGED <<held, files, prov, worker, cleaner, dirty>>

(* The path is looked at again; anything there keeps the removal claim. *)
SweepConfirmsAbsent ==
    /\ sweeper.phase = "admitted"
    /\ sweeper' = IF disk[lease[sweeper.env].tree] = 0
                  THEN [sweeper EXCEPT !.phase = "confirmed"] ELSE Idle
    /\ UNCHANGED <<ledger, held, files, prov, worker, cleaner, dirty>>

SweepCompletes ==
    /\ sweeper.phase = "confirmed"
    /\ \/ complete_exec_env_removal(sweeper.env)
       \/ UNCHANGED ledger
    /\ sweeper' = Idle
    /\ UNCHANGED <<held, files, prov, worker, cleaner, dirty>>

-------------------------------------------------------------------------------
(* The rest of the world. *)

(* The ordinary reclaim flips the lease and leaves its bindings. *)
reclaim_exec_env(e) ==
    /\ lease[e].state = "active"
    /\ e \notin held
    /\ lease' = [lease EXCEPT ![e].state = "reclaimed"]
    /\ UNCHANGED <<res, live, held, files, actors, dirty>>

(* A work claim is bound to the lease, whatever state it is in, and is      *)
(* released.                                                                *)
bind_work_claim_exec_env(e) ==
    /\ lease[e].state # "none" /\ e \in Holdable \ held
    /\ held' = held \cup {e}
    /\ UNCHANGED <<ledger, files, actors, dirty>>

release_work_claim(e) ==
    /\ e \in held
    /\ held' = held \ {e}
    /\ UNCHANGED <<ledger, files, actors, dirty>>

(* Something outside of Tachi deletes a worktree. *)
TreeVanishes(t) ==
    /\ t \in Vanishing
    /\ disk[t] # 0
    /\ disk' = [disk EXCEPT ![t] = 0]
    /\ dirty' = dirty \ {t}
    /\ UNCHANGED <<ledger, held, opens, scrapped, actors>>

(* A cleaner is killed.  A sweep that stops takes the last disjunct of its  *)
(* step.                                                                    *)
CleanerCrash(c) ==
    /\ cleaner[c] # Idle
    /\ cleaner' = [cleaner EXCEPT ![c] = Idle]
    /\ UNCHANGED <<ledger, held, files, prov, worker, sweeper, dirty>>

Init ==
    /\ lease = [e \in Envs |-> [state |-> "none", tree |-> None, inc |-> 0, booked |-> FALSE]]
    /\ res = [l \in Locs |-> [gen |-> 0, state |-> "none"]]
    /\ live = {} /\ held = {}
    /\ disk = [t \in Trees |-> 0]
    /\ opens = 0 /\ scrapped = {}
    /\ prov = [p \in Provisioners |-> Idle]
    /\ worker = [e \in Envs |-> "none"]
    /\ cleaner = [c \in Cleaners |-> Idle]
    /\ sweeper = Idle
    /\ dirty = {}

Provisioning(p) ==
    \/ \E t \in Trees : open_worktree(p, t)
    \/ \E e \in Envs : \/ publish_exec_env_atomically(p, e, {})
                       \/ \E x \in Targets : publish_exec_env_atomically(p, e, {x})
    \/ RetainUnpublished(p)
    \/ ConfirmIdentity(p)
    \/ quarantine_lease_resources(p)

Dispatch(e) ==
    \/ resolve_dispatch_env_binding(e) \/ acquire(e) \/ release_without_spawn(e) \/ Spawn(e)
    \/ begin_publication(e) \/ complete_publication(e)
    \/ fence_abandoned(e) \/ release_after_fence(e)

Cleaning(c) ==
    \/ \E t \in Trees : probe_holders(c, t)
    \/ claim_worktree_removal(c)
    \/ RecordScrap(c) \/ GitWorktreeRemove(c) \/ CompleteRemoval(c) \/ AbortRemoval(c)
    \/ CleanerCrash(c)

Sweeping ==
    \/ \E e \in Envs : SweepSeesAbsent(e)
    \/ prepare_stale_exec_env_reclaim \/ SweepConfirmsAbsent \/ SweepCompletes

Next ==
    \/ \E p \in Provisioners : Provisioning(p)
    \/ \E e \in Envs : Dispatch(e)
    \/ \E c \in Cleaners : Cleaning(c)
    \/ Sweeping
    \/ DaemonCrash
    \/ \E l \in Locs : release_quarantine(l)
    \/ \E e \in Envs : \/ \E t \in Trees : insert_exec_env(e, t)
                       \/ reclaim_exec_env(e)
                       \/ bind_work_claim_exec_env(e) \/ release_work_claim(e)
    \/ \E t \in Trees : TreeVanishes(t)

Spec == Init /\ [][Next]_vars

-------------------------------------------------------------------------------
(* Properties. *)

(* Every row, binding, directory and actor has a value of its kind. *)
TypeOK ==
    /\ lease \in [Envs -> [state : ExecEnvState, tree : Trees \cup {None}, inc : 0 .. MaxOpens,
                        booked : BOOLEAN]]
    /\ res \in [Locs -> [gen : Nat, state : ResourceState]]
    /\ live \subseteq Envs \X (Locs \X Nat)
    /\ held \subseteq Envs
    /\ disk \in [Trees -> 0 .. MaxOpens]
    /\ opens \in 0 .. MaxOpens
    /\ scrapped \subseteq Trees /\ dirty \subseteq Trees
    /\ prov \in [Provisioners -> {Idle}
                  \cup [phase : {"opened"}, tree : Trees, inc : 1 .. MaxOpens]
                  \cup [phase : {"published"}, env : Envs, tree : Trees, inc : 1 .. MaxOpens]
                  \cup [phase : {"fencing"}, ids : SUBSET (Locs \X Nat)]]
    /\ worker \in [Envs -> {"none", "resolved", "admitted", "running", "certified", "fenced"}]
    /\ cleaner \in [Cleaners -> {Idle}
                     \cup [phase : {"probed", "claimed", "recorded", "removed", "failed"},
                           tree : Trees, env : Envs \cup {None}]]
    /\ sweeper \in {Idle} \cup [phase : {"absent", "admitted", "confirmed"}, env : Envs]

(* A live binding never points at freed bytes: it names the current id of   *)
(* its row, and that row is not reclaimed, whatever removals, aborts and    *)
(* revivals of the path came between (invariant 2 of the resource ledger).  *)
BindingsNameTheLiveRow ==
    \A b \in live : Resolves(b[2]) /\ res[b[2][1]].state # "reclaimed"

(* A row that is being reclaimed belongs to one removal: a single lease is  *)
(* bound to it, and that lease is being removed.  A build target below a    *)
(* worktree may be bound by the lease of another worktree; removing the     *)
(* worktree would free bytes that lease still holds.                        *)
ReclaimingHasOneOwner ==
    \A l \in Locs : res[l].state = "reclaiming"
      => \E e \in Envs : Holders(l) = {e} /\ lease[e].state = "removing"

(* The removal claim shuts dispatch out: while a cleaner works on a lease   *)
(* it claimed, no dispatch owns that lease, even after the sweep finished   *)
(* the removal for it.                                                      *)
ClaimShutsOutDispatch ==
    \A c \in Cleaners :
      cleaner[c] # Idle /\ cleaner[c].env # None
        => lease[cleaner[c].env].state \in {"removing", "reclaimed"}

(* reclaimed means bytes freed (invariant 1 of the resource ledger): once a *)
(* removal has released what a lease had published, the directory it        *)
(* published is gone from disk.                                             *)
ReclaimedMeansFreed ==
    \A e \in Envs : lease[e].booked /\ BoundBy(e) = {} => ~ OnDisk(e)

(* Output no gate certified is never reused: a dispatch is admitted only on *)
(* a tree whose last worker was certified, or that was emptied or opened    *)
(* anew since.  It takes a crash, a failed fence or an early abort to break.*)
UncertifiedTreeStaysFenced ==
    [][\A e \in Envs : lease[e].state = "active" /\ lease'[e].state = "dispatching"
                         => lease[e].tree \notin dirty]_vars

(* "uncertain state stays Removing so a later sweep can safely retry"       *)
(* (clean_cli.rs): a claimed removal whose tree is gone, with no holder and *)
(* no trouble outside of the tree, has the evidence its completion asks for.*)
LaterSweepCanRetry ==
    \A e \in Envs \ held :
      (/\ lease[e].state = "removing"
       /\ disk[lease[e].tree] = 0
       /\ \A l \in BoundLocs(e) \ RemovedWith(lease[e].tree) : res[l].state = "active")
         => RemovalEvidence(e)
===============================================================================
