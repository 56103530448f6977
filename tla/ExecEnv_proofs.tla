---------------------------- MODULE ExecEnv_proofs ----------------------------
(***************************************************************************)
(* Proofs about ExecEnv: the ledger of leases, resources and bindings, the *)
(* dispatches, the cleaner and the sweep, for any number of leases, paths, *)
(* provisioning calls and cleaners, and whatever lies inside what.         *)
(***************************************************************************)
EXTENDS ExecEnv, TLAPS

LeaseRow == [state : ExecEnvState, tree : Trees \cup {None}, inc : 0 .. MaxOpens,
             booked : BOOLEAN]
ResRow == [gen : Nat, state : ResourceState]
ProvState == {Idle}
               \cup [phase : {"opened"}, tree : Trees, inc : 1 .. MaxOpens]
               \cup [phase : {"published"}, env : Envs, tree : Trees, inc : 1 .. MaxOpens]
               \cup [phase : {"fencing"}, ids : SUBSET (Locs \X Nat)]
WorkState == {"none", "resolved", "admitted", "running", "certified", "fenced"}
CleanState == {Idle} \cup [phase : {"probed", "claimed", "recorded", "removed", "failed"},
                           tree : Trees, env : Envs \cup {None}]
SweepState == {Idle} \cup [phase : {"absent", "admitted", "confirmed"}, env : Envs]

LedgerTyped == /\ lease \in [Envs -> LeaseRow]
               /\ res \in [Locs -> ResRow]
               /\ live \subseteq Envs \X (Locs \X Nat)
FilesTyped == /\ disk \in [Trees -> 0 .. MaxOpens]
              /\ opens \in 0 .. MaxOpens
              /\ scrapped \subseteq Trees /\ dirty \subseteq Trees
ActorsTyped == /\ prov \in [Provisioners -> ProvState]
               /\ worker \in [Envs -> WorkState]
               /\ cleaner \in [Cleaners -> CleanState]
               /\ sweeper \in SweepState

LEMMA TypeParts == TypeOK <=> LedgerTyped /\ held \subseteq Envs /\ FilesTyped /\ ActorsTyped
  BY DEF TypeOK, LedgerTyped, FilesTyped, ActorsTyped, LeaseRow, ResRow, ProvState,
         WorkState, CleanState, SweepState

-------------------------------------------------------------------------------
(* Bindings, entry by entry.                                                *)

(* Lease e is bound to the row at l. *)
Bd(e, l) == <<e, Rid(l)>> \in live

LEMMA BoundByEntries ==
  ASSUME LedgerTyped
  PROVE  /\ \A e, rid : rid \in BoundBy(e) <=> <<e, rid>> \in live
         /\ \A e, l : l \in BoundLocs(e) <=> l \in Locs /\ Bd(e, l)
         /\ \A e, l : e \in Holders(l) <=> e \in Envs /\ Bd(e, l)
         /\ \A e, rid : rid \in BoundBy(e) => e \in Envs /\ rid \in Locs \X Nat
  <1>1. ASSUME NEW e, NEW rid
        PROVE  rid \in BoundBy(e) <=> <<e, rid>> \in live
    <2>1. ASSUME rid \in BoundBy(e) PROVE <<e, rid>> \in live
      <3>1. PICK b \in live : b[1] = e /\ b[2] = rid
        BY <2>1 DEF BoundBy
      <3>2. b = <<b[1], b[2]>>
        BY DEF LedgerTyped
      <3> QED  BY <3>1, <3>2
    <2>2. ASSUME <<e, rid>> \in live PROVE rid \in BoundBy(e)
      <3>1. <<e, rid>>[1] = e /\ <<e, rid>>[2] = rid
        OBVIOUS
      <3> QED  BY <2>2, <3>1 DEF BoundBy
    <2> QED  BY <2>1, <2>2
  <1>2. \A e, l : l \in BoundLocs(e) <=> l \in Locs /\ Bd(e, l)
    BY <1>1 DEF BoundLocs, Bd
  <1>3. \A e, l : e \in Holders(l) <=> e \in Envs /\ Bd(e, l)
    BY DEF Holders, Bd
  <1>4. \A e, rid : <<e, rid>> \in live => e \in Envs /\ rid \in Locs \X Nat
    BY DEF LedgerTyped
  <1> QED  BY <1>1, <1>2, <1>3, <1>4

LEMMA StatesSet ==
  ASSUME LedgerTyped, NEW S, NEW s \in ResourceState
  PROVE  /\ SetStates(S, s) \in [Locs -> ResRow]
         /\ \A l \in Locs : /\ SetStates(S, s)[l].gen = res[l].gen
                            /\ l \in S => SetStates(S, s)[l].state = s
                            /\ l \notin S => SetStates(S, s)[l] = res[l]
  BY DEF LedgerTyped, SetStates, ResRow

LEMMA StateOf ==
  ASSUME LedgerTyped, NEW e \in Envs, NEW s \in ExecEnvState
  PROVE  /\ [lease EXCEPT ![e].state = s] \in [Envs -> LeaseRow]
         /\ [lease EXCEPT ![e].state = s][e].state = s
         /\ [lease EXCEPT ![e].state = s][e].tree = lease[e].tree
         /\ [lease EXCEPT ![e].state = s][e].inc = lease[e].inc
         /\ [lease EXCEPT ![e].state = s][e].booked = lease[e].booked
         /\ \A f \in Envs \ {e} : [lease EXCEPT ![e].state = s][f] = lease[f]
  BY DEF LedgerTyped, LeaseRow

-------------------------------------------------------------------------------
(* The transactions on the ledger. *)

(* A dispatch moves its lease. *)
Shift(e, s) ==
  /\ lease[e].state \in {"active", "dispatching", "publishing"}
  /\ s \in {"active", "dispatching", "publishing"}
  /\ s \in {"dispatching", "publishing"} /\ lease[e].state = "active" => BoundBy(e) # {}
  /\ lease' = [lease EXCEPT ![e].state = s]
  /\ UNCHANGED <<res, live>>

(* A lease is given up with its bindings, if it has any. *)
Retire(e) ==
  /\ lease[e].state = "active"
  /\ lease' = [lease EXCEPT ![e].state = "reclaimed"]
  /\ UNCHANGED <<res, live>>

Enter(e, t, i, L) ==
  /\ e \in Fresh
  /\ Publishable(L)
  /\ t \in L /\ L \cap Trees = {t}
  /\ lease' = [lease EXCEPT ![e] = [state |-> "active", tree |-> t, inc |-> i, booked |-> TRUE]]
  /\ res' = [l \in Locs |-> IF l \in L THEN Published(l) ELSE res[l]]
  /\ live' = live \cup {<<e, <<l, Published(l).gen>>>> : l \in L}

EnterBare(e, t, i) ==
  /\ e \in Fresh
  /\ lease' = [lease EXCEPT ![e] = [state |-> "active", tree |-> t, inc |-> i, booked |-> FALSE]]
  /\ UNCHANGED <<res, live>>

Unfence(l) == res' = SetStates({l}, "active") /\ res[l].state = "quarantined" /\ UNCHANGED <<lease, live>>

QuietStep ==
  \/ UNCHANGED ledger
  \/ \E e \in Envs : \/ \E t \in Trees : claim_exec_env_removal_in_tx(e, t)
                     \/ complete_exec_env_removal(e)
                     \/ Retire(e)
                     \/ \E t \in Trees, i \in 0 .. MaxOpens : EnterBare(e, t, i)
                     \/ \E t \in Trees, i \in 1 .. MaxOpens, L \in SUBSET Locs : Enter(e, t, i, L)
  \/ \E ids \in SUBSET (Locs \X Nat) : quarantine_resources_atomically(ids)

PlainStep == QuietStep \/ \E l \in Locs : Unfence(l)

(* The transactions that open no fenced row. *)
SealedStep ==
  \/ QuietStep
  \/ \E e \in Envs : abort_exec_env_removal(e)
  \/ \E e \in Envs, s \in ExecEnvState : Shift(e, s)

LedgerStep == PlainStep \/ SealedStep

LEMMA PublishedTyped ==
  ASSUME LedgerTyped, NEW l \in Locs
  PROVE  /\ Published(l) \in ResRow
         /\ Published(l).state = "active"
         /\ res[l].state = "active" => Published(l) = res[l]
         /\ res[l].state # "active" => Published(l).gen = res[l].gen + 1
  <1>1. res[l] \in ResRow
    BY DEF LedgerTyped
  <1>2. CASE res[l].state = "active"
    <2>1. Published(l) = res[l]
      BY <1>2 DEF Published
    <2> QED  BY <1>1, <1>2, <2>1
  <1>3. CASE res[l].state # "active"
    <2>1. Published(l) = [gen |-> res[l].gen + 1, state |-> "active"]
      BY <1>3 DEF Published
    <2> QED  BY <1>1, <1>3, <2>1 DEF ResRow, ResourceState
  <1> QED  BY <1>2, <1>3

LEMMA LedgerStaysTyped ==
  ASSUME LedgerTyped, LedgerStep
  PROVE  LedgerTyped'
  <1>1. CASE UNCHANGED ledger
    BY <1>1 DEF ledger, LedgerTyped
  <1>2. ASSUME NEW e \in Envs, NEW t \in Trees, claim_exec_env_removal_in_tx(e, t)
        PROVE  LedgerTyped'
    <2>1. "removing" \in ExecEnvState /\ "reclaiming" \in ResourceState
      BY DEF ExecEnvState, ResourceState
    <2> QED  BY <1>2, <2>1, StateOf, StatesSet DEF claim_exec_env_removal_in_tx, LedgerTyped
  <1>3. ASSUME NEW e \in Envs, complete_exec_env_removal(e) PROVE LedgerTyped'
    <2>1. "reclaimed" \in ExecEnvState /\ "reclaimed" \in ResourceState
      BY DEF ExecEnvState, ResourceState
    <2> QED  BY <1>3, <2>1, StateOf, StatesSet DEF complete_exec_env_removal, LedgerTyped
  <1>4. ASSUME NEW e \in Envs, abort_exec_env_removal(e) PROVE LedgerTyped'
    <2>1. "active" \in ExecEnvState /\ "active" \in ResourceState
      BY DEF ExecEnvState, ResourceState
    <2> QED  BY <1>4, <2>1, StateOf, StatesSet DEF abort_exec_env_removal, LedgerTyped
  <1>5. ASSUME NEW e \in Envs, NEW s \in ExecEnvState, Shift(e, s) PROVE LedgerTyped'
    BY <1>5, StateOf DEF Shift, LedgerTyped
  <1>10. ASSUME NEW e \in Envs, Retire(e) PROVE LedgerTyped'
    <2>1. "reclaimed" \in ExecEnvState
      BY DEF ExecEnvState
    <2> QED  BY <1>10, <2>1, StateOf DEF Retire, LedgerTyped
  <1>6. ASSUME NEW e \in Envs, NEW t \in Trees, NEW i \in 0 .. MaxOpens, EnterBare(e, t, i)
        PROVE  LedgerTyped'
    <2>1. [state |-> "active", tree |-> t, inc |-> i, booked |-> FALSE] \in LeaseRow
      BY DEF LeaseRow, ExecEnvState
    <2> QED  BY <1>6, <2>1 DEF EnterBare, LedgerTyped
  <1>7. ASSUME NEW e \in Envs, NEW t \in Trees, NEW i \in 1 .. MaxOpens, NEW L \in SUBSET Locs,
               Enter(e, t, i, L)
        PROVE  LedgerTyped'
    <2>1. [state |-> "active", tree |-> t, inc |-> i, booked |-> TRUE] \in LeaseRow
      BY BoundsAssumption DEF LeaseRow, ExecEnvState
    <2>2. lease' \in [Envs -> LeaseRow]
      BY <1>7, <2>1 DEF Enter, LedgerTyped
    <2>3. \A l \in Locs : Published(l) \in ResRow /\ res[l] \in ResRow
      BY PublishedTyped DEF LedgerTyped
    <2>4. res' \in [Locs -> ResRow]
      BY <1>7, <2>3 DEF Enter
    <2>5. \A l \in L : Published(l).gen \in Nat
      BY <2>3 DEF ResRow
    <2>6. live' \subseteq Envs \X (Locs \X Nat)
      BY <1>7, <2>5 DEF Enter, LedgerTyped
    <2> QED  BY <2>2, <2>4, <2>6 DEF LedgerTyped
  <1>8. ASSUME NEW ids \in SUBSET (Locs \X Nat), quarantine_resources_atomically(ids)
        PROVE  LedgerTyped'
    <2>1. "quarantined" \in ResourceState
      BY DEF ResourceState
    <2> QED  BY <1>8, <2>1, StatesSet DEF quarantine_resources_atomically, LedgerTyped
  <1>9. ASSUME NEW l \in Locs, Unfence(l) PROVE LedgerTyped'
    <2>1. "active" \in ResourceState
      BY DEF ResourceState
    <2> QED  BY <1>9, <2>1, StatesSet DEF Unfence, LedgerTyped
  <1> QED  BY <1>1, <1>2, <1>3, <1>4, <1>5, <1>6, <1>7, <1>8, <1>9, <1>10
           DEF LedgerStep, SealedStep, PlainStep, QuietStep

-------------------------------------------------------------------------------
(* Every step is a transaction on the ledger or leaves it alone.            *)

LEMMA ProvKinds ==
  ASSUME ActorsTyped, NEW p \in Provisioners
  PROVE  /\ prov[p].phase = "opened" => prov[p].tree \in Trees /\ prov[p].inc \in 1 .. MaxOpens
         /\ prov[p].phase = "published" => /\ prov[p].tree \in Trees /\ prov[p].env \in Envs
                                           /\ prov[p].inc \in 1 .. MaxOpens
         /\ prov[p].phase = "fencing" => prov[p].ids \in SUBSET (Locs \X Nat)
  BY DEF ActorsTyped, ProvState, Idle

LEMMA CleanKinds ==
  ASSUME ActorsTyped, NEW c \in Cleaners
  PROVE  /\ cleaner[c].phase \in {"idle", "probed", "claimed", "recorded", "removed", "failed"}
         /\ cleaner[c].phase = "idle" <=> cleaner[c] = Idle
         /\ cleaner[c].phase # "idle" =>
              cleaner[c].tree \in Trees /\ cleaner[c].env \in Envs \cup {None}
  BY DEF ActorsTyped, CleanState, Idle

LEMMA SweepKinds ==
  ASSUME ActorsTyped
  PROVE  /\ sweeper.phase \in {"idle", "absent", "admitted", "confirmed"}
         /\ sweeper.phase = "idle" <=> sweeper = Idle
         /\ sweeper.phase # "idle" => sweeper.env \in Envs
  BY DEF ActorsTyped, SweepState, Idle

LEMMA NoneIsNoPlace == None \notin Locs /\ None \notin Envs /\ Trees \subseteq Locs
  BY PathsAssumption, BoundsAssumption DEF Locs, Envs

(* A removal is admitted only for a lease with bindings, on a real path. *)
LEMMA AdmittedPlace ==
  ASSUME LedgerTyped, NEW e, NEW t, RemovalAdmitted(e, t)
  PROVE  e \in Envs /\ t \in Locs /\ Bd(e, t)
  BY BoundByEntries DEF RemovalAdmitted, ResourcesProveRemoval

LEMMA PublishEnters ==
  ASSUME LedgerTyped, ActorsTyped, NEW p \in Provisioners, NEW e \in Envs,
         NEW T \in SUBSET Targets, publish_exec_env_atomically(p, e, T)
  PROVE  Enter(e, prov[p].tree, prov[p].inc, {prov[p].tree} \cup T)
  BY ProvKinds, PathsAssumption DEF publish_exec_env_atomically, Enter

LEMMA ProvisioningLedger ==
  ASSUME LedgerTyped, ActorsTyped, NEW p \in Provisioners, Provisioning(p)
  PROVE  QuietStep
  <1>1. CASE \/ \E t \in Trees : open_worktree(p, t)
             \/ RetainUnpublished(p)
             \/ ConfirmIdentity(p)
    BY <1>1 DEF open_worktree, RetainUnpublished, ConfirmIdentity, QuietStep
  <1>2. ASSUME NEW e \in Envs, NEW T \in SUBSET Targets, publish_exec_env_atomically(p, e, T)
        PROVE  QuietStep
    <2>1. /\ Enter(e, prov[p].tree, prov[p].inc, {prov[p].tree} \cup T)
          /\ prov[p].phase = "opened"
      BY <1>2, PublishEnters DEF publish_exec_env_atomically
    <2>2. prov[p].tree \in Trees /\ prov[p].inc \in 1 .. MaxOpens
      BY <2>1, ProvKinds
    <2>3. {prov[p].tree} \cup T \in SUBSET Locs
      BY <2>2 DEF Locs
    <2> QED  BY <2>1, <2>2, <2>3 DEF QuietStep
  <1>3. CASE quarantine_lease_resources(p)
    <2>1. prov[p].ids \in SUBSET (Locs \X Nat)
      BY <1>3, ProvKinds DEF quarantine_lease_resources
    <2> QED  BY <1>3, <2>1 DEF quarantine_lease_resources, QuietStep
  <1>4. CASE \E e \in Envs : publish_exec_env_atomically(p, e, {})
    BY <1>2, <1>4
  <1>5. CASE \E e \in Envs : \E x \in Targets : publish_exec_env_atomically(p, e, {x})
    BY <1>2, <1>5
  <1> QED  BY <1>1, <1>3, <1>4, <1>5 DEF Provisioning

LEMMA DispatchLedger ==
  ASSUME LedgerTyped, ActorsTyped, NEW e \in Envs, Dispatch(e)
  PROVE  QuietStep \/ \E f \in Envs, s \in ExecEnvState : Shift(f, s)
  <1>1. CASE resolve_dispatch_env_binding(e) \/ Spawn(e)
    BY <1>1 DEF resolve_dispatch_env_binding, Spawn, QuietStep
  <1>2. CASE acquire(e)
    <2>1. UNCHANGED ledger \/ Shift(e, "dispatching")
      BY <1>2 DEF acquire, Shift, ledger
    <2> QED  BY <2>1 DEF QuietStep, ExecEnvState
  <1>3. CASE release_without_spawn(e) \/ complete_publication(e) \/ release_after_fence(e)
    <2>1. Shift(e, "active")
      BY <1>3 DEF release_without_spawn, complete_publication, release_after_fence, Shift
    <2> QED  BY <2>1 DEF QuietStep, ExecEnvState
  <1>4. CASE fence_abandoned(e)
    <2>1. BoundBy(e) \in SUBSET (Locs \X Nat)
      BY BoundByEntries
    <2> QED  BY <1>4, <2>1 DEF fence_abandoned, QuietStep
  <1>5. CASE begin_publication(e)
    <2>1. Shift(e, "publishing")
      BY <1>5 DEF begin_publication, Shift
    <2> QED  BY <2>1 DEF QuietStep, ExecEnvState
  <1> QED  BY <1>1, <1>2, <1>3, <1>4, <1>5 DEF Dispatch

LEMMA CleaningLedger ==
  ASSUME LedgerTyped, ActorsTyped, NEW c \in Cleaners, Cleaning(c)
  PROVE  QuietStep \/ \E e \in Envs : abort_exec_env_removal(e)
  <1>1. CASE \/ \E t \in Trees : probe_holders(c, t)
             \/ RecordScrap(c) \/ GitWorktreeRemove(c) \/ CleanerCrash(c)
    BY <1>1 DEF probe_holders, RecordScrap, GitWorktreeRemove, CleanerCrash, QuietStep
  <1>2. CASE claim_worktree_removal(c)
    <2> DEFINE t == cleaner[c].tree
    <2>1. CASE UNCHANGED ledger
      BY <2>1 DEF QuietStep
    <2>2. CASE ~ UNCHANGED ledger
      <3>1. claim_exec_env_removal_in_tx(Newest(t), t)
        BY <1>2, <2>2 DEF claim_worktree_removal
      <3>2. Newest(t) \in Envs
        BY <3>1, AdmittedPlace DEF claim_exec_env_removal_in_tx
      <3>3. t \in Trees
        BY <1>2, CleanKinds DEF claim_worktree_removal
      <3> QED  BY <3>1, <3>2, <3>3 DEF QuietStep
    <2> QED  BY <2>1, <2>2
  <1>3. CASE CompleteRemoval(c)
    <2>1. CASE UNCHANGED ledger
      BY <2>1 DEF QuietStep
    <2>2. CASE cleaner[c].env # None /\ complete_exec_env_removal(cleaner[c].env)
      <3>1. cleaner[c].env \in Envs
        BY <1>3, <2>2, CleanKinds DEF CompleteRemoval
      <3> QED  BY <2>2, <3>1 DEF QuietStep
    <2> QED  BY <1>3, <2>1, <2>2 DEF CompleteRemoval
  <1>4. CASE AbortRemoval(c)
    <2>1. CASE UNCHANGED ledger
      BY <2>1 DEF QuietStep
    <2>2. CASE cleaner[c].env # None /\ abort_exec_env_removal(cleaner[c].env)
      <3>1. cleaner[c].env \in Envs
        BY <1>4, <2>2, CleanKinds DEF AbortRemoval
      <3> QED  BY <2>2, <3>1
    <2> QED  BY <1>4, <2>1, <2>2 DEF AbortRemoval
  <1> QED  BY <1>1, <1>2, <1>3, <1>4 DEF Cleaning

LEMMA SweepingLedger ==
  ASSUME LedgerTyped, ActorsTyped, Sweeping
  PROVE  QuietStep
  <1>1. CASE (\E e \in Envs : SweepSeesAbsent(e)) \/ SweepConfirmsAbsent
    BY <1>1 DEF SweepSeesAbsent, SweepConfirmsAbsent, QuietStep
  <1>2. CASE prepare_stale_exec_env_reclaim
    <2> DEFINE e == sweeper.env
    <2>1. e \in Envs
      BY <1>2, SweepKinds DEF prepare_stale_exec_env_reclaim
    <2>2. CASE UNCHANGED ledger
      BY <2>2 DEF QuietStep
    <2>3. CASE claim_exec_env_removal_in_tx(e, lease[e].tree)
      <3>1. lease[e].tree \in Locs
        BY <2>3, AdmittedPlace DEF claim_exec_env_removal_in_tx
      <3>2. lease[e].tree \in Trees
        BY <2>1, <3>1, NoneIsNoPlace DEF LedgerTyped, LeaseRow
      <3> QED  BY <2>1, <2>3, <3>2 DEF QuietStep
    <2>4. CASE /\ lease[e].state = "active"
               /\ lease' = [lease EXCEPT ![e].state = "reclaimed"]
               /\ UNCHANGED <<res, live>>
      <3>1. Retire(e)
        BY <2>4 DEF Retire
      <3> QED  BY <2>1, <3>1 DEF QuietStep
    <2> QED  BY <1>2, <2>2, <2>3, <2>4 DEF prepare_stale_exec_env_reclaim
  <1>3. CASE SweepCompletes
    <2>1. sweeper.env \in Envs
      BY <1>3, SweepKinds DEF SweepCompletes
    <2> QED  BY <1>3, <2>1 DEF SweepCompletes, QuietStep
  <1> QED  BY <1>1, <1>2, <1>3 DEF Sweeping

(* Everything that is neither a dispatch nor a cleaner. *)
Elsewhere ==
  \/ \E p \in Provisioners : Provisioning(p)
  \/ Sweeping
  \/ DaemonCrash
  \/ \E l \in Locs : release_quarantine(l)
  \/ \E e \in Envs : \/ \E t \in Trees : insert_exec_env(e, t)
                     \/ reclaim_exec_env(e)
                     \/ bind_work_claim_exec_env(e) \/ release_work_claim(e)
  \/ \E t \in Trees : TreeVanishes(t)
  \/ UNCHANGED vars

LEMMA NextCases ==
  ASSUME [Next]_vars
  PROVE  \/ Elsewhere
         \/ \E e \in Envs : Dispatch(e)
         \/ \E c \in Cleaners : Cleaning(c)
  BY DEF Next, Elsewhere

LEMMA ElsewhereLedger ==
  ASSUME LedgerTyped, ActorsTyped, FilesTyped, Elsewhere
  PROVE  QuietStep \/ \E l \in Locs : release_quarantine(l)
  <1>1. CASE \E p \in Provisioners : Provisioning(p)
    BY <1>1, ProvisioningLedger
  <1>4. CASE Sweeping
    BY <1>4, SweepingLedger
  <1>5. CASE DaemonCrash \/ (\E t \in Trees : TreeVanishes(t)) \/ UNCHANGED vars
    BY <1>5 DEF DaemonCrash, TreeVanishes, vars, ledger, QuietStep
  <1>6. CASE \E l \in Locs : release_quarantine(l)
    BY <1>6
  <1>7. ASSUME NEW e \in Envs, \/ \E t \in Trees : insert_exec_env(e, t)
                              \/ reclaim_exec_env(e)
                              \/ bind_work_claim_exec_env(e) \/ release_work_claim(e)
        PROVE  QuietStep
    <2>1. CASE bind_work_claim_exec_env(e) \/ release_work_claim(e)
      BY <2>1 DEF bind_work_claim_exec_env, release_work_claim, QuietStep
    <2>2. CASE reclaim_exec_env(e)
      <3>1. Retire(e)
        BY <2>2 DEF reclaim_exec_env, Retire
      <3> QED  BY <3>1 DEF QuietStep
    <2>3. ASSUME NEW t \in Trees, insert_exec_env(e, t) PROVE QuietStep
      <3>1. EnterBare(e, t, disk[t]) /\ disk[t] \in 0 .. MaxOpens
        BY <2>3 DEF insert_exec_env, EnterBare, FilesTyped
      <3> QED  BY <3>1 DEF QuietStep
    <2> QED  BY <1>7, <2>1, <2>2, <2>3
  <1> QED  BY <1>1, <1>4, <1>5, <1>6, <1>7 DEF Elsewhere

LEMMA ReleaseUnfences ==
  ASSUME NEW l, release_quarantine(l)
  PROVE  Unfence(l)
  BY DEF release_quarantine, Unfence

LEMMA NextLedger ==
  ASSUME LedgerTyped, ActorsTyped, FilesTyped, [Next]_vars
  PROVE  LedgerStep
  BY NextCases, ElsewhereLedger, DispatchLedger, CleaningLedger, ReleaseUnfences
     DEF LedgerStep, SealedStep, PlainStep

-------------------------------------------------------------------------------
(* Type correctness. *)

Rest == held \subseteq Envs /\ FilesTyped /\ ActorsTyped

LEMMA ProvisioningTyped ==
  ASSUME LedgerTyped, Rest, NEW p \in Provisioners, Provisioning(p)
  PROVE  Rest'
  <1>1. ASSUME NEW t \in Trees, open_worktree(p, t) PROVE Rest'
    <2>1. opens + 1 \in 1 .. MaxOpens
      BY <1>1, BoundsAssumption DEF open_worktree, Rest, FilesTyped
    <2>2. FilesTyped'
      BY <1>1, <2>1, BoundsAssumption DEF open_worktree, Rest, FilesTyped
    <2>3. [phase |-> "opened", tree |-> t, inc |-> opens + 1] \in ProvState
      BY <2>1 DEF ProvState
    <2>4. ActorsTyped'
      BY <1>1, <2>3 DEF open_worktree, Rest, ActorsTyped
    <2> QED  BY <1>1, <2>2, <2>4 DEF open_worktree, Rest
  <1>2. ASSUME NEW e \in Envs, NEW T, publish_exec_env_atomically(p, e, T) PROVE Rest'
    <2>1. [phase |-> "published", env |-> e, tree |-> prov[p].tree, inc |-> prov[p].inc]
            \in ProvState
      BY <1>2, ProvKinds DEF publish_exec_env_atomically, Rest, ProvState
    <2>2. ActorsTyped'
      BY <1>2, <2>1 DEF publish_exec_env_atomically, Rest, ActorsTyped
    <2> QED  BY <1>2, <2>2 DEF publish_exec_env_atomically, files, Rest, FilesTyped
  <1>3. CASE RetainUnpublished(p) \/ quarantine_lease_resources(p)
    <2>1. Idle \in ProvState
      BY DEF ProvState
    <2>2. ActorsTyped'
      BY <1>3, <2>1 DEF RetainUnpublished, quarantine_lease_resources, Rest, ActorsTyped
    <2> QED  BY <1>3, <2>2
             DEF RetainUnpublished, quarantine_lease_resources, files, Rest, FilesTyped
  <1>4. CASE ConfirmIdentity(p)
    <2>1. Idle \in ProvState
      BY DEF ProvState
    <2>2. [phase |-> "fencing", ids |-> BoundBy(prov[p].env)] \in ProvState
      <3>1. BoundBy(prov[p].env) \in SUBSET (Locs \X Nat)
        BY BoundByEntries
      <3> QED  BY <3>1 DEF ProvState
    <2>3. prov' = [prov EXCEPT ![p] = Idle]
          \/ prov' = [prov EXCEPT ![p] = [phase |-> "fencing", ids |-> BoundBy(prov[p].env)]]
      BY <1>4 DEF ConfirmIdentity
    <2>4. ActorsTyped'
      BY <1>4, <2>1, <2>2, <2>3 DEF ConfirmIdentity, Rest, ActorsTyped
    <2> QED  BY <1>4, <2>4 DEF ConfirmIdentity, files, Rest, FilesTyped
  <1> QED  BY <1>1, <1>2, <1>3, <1>4 DEF Provisioning

(* A lease that was published keeps its tree and its incarnation for good. *)
LeaseMoves ==
  \A e \in Envs :
    /\ lease[e].state # "none" => /\ lease'[e].state # "none"
                                 /\ lease'[e].tree = lease[e].tree
                                 /\ lease'[e].inc = lease[e].inc
                                 /\ lease'[e].booked = lease[e].booked
    /\ lease[e].state = "none" => lease'[e] = lease[e] \/ lease'[e].tree \in Trees

LEMMA LedgerMovesLeases ==
  ASSUME LedgerTyped, LedgerStep
  PROVE  LeaseMoves
  <1>1. ASSUME lease' = lease PROVE LeaseMoves
    BY <1>1 DEF LeaseMoves
  <1>2. ASSUME NEW e \in Envs, NEW s \in ExecEnvState \ {"none"}, lease[e].state # "none",
               lease' = [lease EXCEPT ![e].state = s]
        PROVE  LeaseMoves
    BY <1>2, StateOf DEF LeaseMoves
  <1>3. ASSUME NEW e \in Envs, NEW row, lease[e].state = "none", row.tree \in Trees,
               lease' = [lease EXCEPT ![e] = row]
        PROVE  LeaseMoves
    BY <1>3 DEF LeaseMoves, LedgerTyped
  <1>4. /\ ledger' = ledger => lease' = lease
        /\ \A ids : quarantine_resources_atomically(ids) => lease' = lease
        /\ \A l : Unfence(l) => lease' = lease
    BY DEF ledger, quarantine_resources_atomically, Unfence
  <1>5. ASSUME NEW e \in Envs,
               \/ \E t \in Trees : claim_exec_env_removal_in_tx(e, t)
               \/ complete_exec_env_removal(e) \/ abort_exec_env_removal(e)
               \/ Retire(e) \/ \E s \in ExecEnvState : Shift(e, s)
        PROVE  LeaseMoves
    <2>1. \E s \in ExecEnvState \ {"none"} : /\ lease[e].state # "none"
                                            /\ lease' = [lease EXCEPT ![e].state = s]
      BY <1>5 DEF claim_exec_env_removal_in_tx, RemovalAdmitted, complete_exec_env_removal,
                  abort_exec_env_removal, Retire, Shift, ExecEnvState
    <2> QED  BY <1>2, <2>1
  <1>6. ASSUME NEW e \in Envs,
               \/ \E t \in Trees, i \in 0 .. MaxOpens : EnterBare(e, t, i)
               \/ \E t \in Trees, i \in 1 .. MaxOpens, L \in SUBSET Locs : Enter(e, t, i, L)
        PROVE  LeaseMoves
    BY <1>3, <1>6 DEF EnterBare, Enter, Fresh
  <1> QED  BY <1>1, <1>4, <1>5, <1>6 DEF PlainStep, QuietStep, LedgerStep, SealedStep

PlaceLaw == \A e \in Envs : worker[e] # "none" => lease[e].tree \in Trees

LEMMA DispatchTyped ==
  ASSUME LedgerTyped, Rest, PlaceLaw, NEW e \in Envs, Dispatch(e)
  PROVE  Rest'
  <1>1. \E w \in WorkState : worker' = [worker EXCEPT ![e] = w]
    BY DEF Dispatch, resolve_dispatch_env_binding, acquire, release_without_spawn, Spawn,
           begin_publication, complete_publication, fence_abandoned, release_after_fence,
           WorkState
  <1>2. prov' = prov /\ cleaner' = cleaner /\ sweeper' = sweeper /\ held' = held
        /\ disk' = disk /\ opens' = opens /\ scrapped' = scrapped
    BY DEF Dispatch, resolve_dispatch_env_binding, acquire, release_without_spawn, Spawn,
           begin_publication, complete_publication, fence_abandoned, release_after_fence,
           files
  <1>3. dirty' \subseteq Trees
    <2>1. CASE Spawn(e)
      BY <2>1 DEF Spawn, Rest, FilesTyped, PlaceLaw
    <2>2. CASE ~ Spawn(e)
      BY <2>2 DEF Dispatch, resolve_dispatch_env_binding, acquire, release_without_spawn,
             begin_publication, complete_publication, fence_abandoned, release_after_fence,
             Rest, FilesTyped
    <2> QED  BY <2>1, <2>2
  <1>4. ActorsTyped'
    BY <1>1, <1>2 DEF Rest, ActorsTyped
  <1> QED  BY <1>2, <1>3, <1>4 DEF Rest, FilesTyped

LEMMA CleaningTyped ==
  ASSUME LedgerTyped, Rest, NEW c \in Cleaners, Cleaning(c)
  PROVE  Rest'
  <1>1. prov' = prov /\ worker' = worker /\ sweeper' = sweeper /\ held' = held /\ opens' = opens
    BY DEF Cleaning, probe_holders, claim_worktree_removal, RecordScrap, GitWorktreeRemove, CompleteRemoval,
           AbortRemoval, CleanerCrash, files
  <1>2. FilesTyped'
    <2>1. CASE RecordScrap(c)
      <3>1. cleaner[c].tree \in Trees
        BY <2>1, CleanKinds DEF RecordScrap, Rest
      <3> QED  BY <2>1, <3>1 DEF RecordScrap, Rest, FilesTyped
    <2>2. CASE GitWorktreeRemove(c)
      BY <2>2, BoundsAssumption DEF GitWorktreeRemove, Rest, FilesTyped
    <2>3. CASE \/ \E t \in Trees : probe_holders(c, t)
               \/ claim_worktree_removal(c)
               \/ CompleteRemoval(c) \/ AbortRemoval(c) \/ CleanerCrash(c)
      BY <2>3 DEF probe_holders, claim_worktree_removal, CompleteRemoval, AbortRemoval, CleanerCrash, files,
                  Rest, FilesTyped
    <2> QED  BY <2>1, <2>2, <2>3 DEF Cleaning
  <1>3. cleaner' \in [Cleaners -> CleanState]
    <2>0. cleaner \in [Cleaners -> CleanState] /\ Idle \in CleanState
      BY DEF Rest, ActorsTyped, CleanState
    <2>1. CASE claim_worktree_removal(c)
      <3> DEFINE t == cleaner[c].tree
      <3>0. t \in Trees
        BY <2>1, CleanKinds DEF claim_worktree_removal, Rest
      <3>1. CASE AtPath(t) = {}
        <4>1. [phase |-> "claimed", tree |-> t, env |-> None] \in CleanState
          BY <3>0 DEF CleanState
        <4> QED  BY <2>0, <2>1, <3>1, <4>1 DEF claim_worktree_removal
      <3>2. CASE AtPath(t) # {}
        <4>1. CASE cleaner' = [cleaner EXCEPT ![c] = Idle]
          BY <2>0, <4>1
        <4>2. CASE cleaner' # [cleaner EXCEPT ![c] = Idle]
          <5>1. Newest(t) # None => Newest(t) \in Envs
            BY <2>1, <3>2, <4>2, AdmittedPlace
               DEF claim_worktree_removal, claim_exec_env_removal_in_tx
          <5>2. [phase |-> "claimed", tree |-> t, env |-> Newest(t)] \in CleanState
            BY <3>0, <5>1 DEF CleanState
          <5> QED  BY <2>0, <2>1, <3>2, <4>2, <5>2 DEF claim_worktree_removal
        <4> QED  BY <4>1, <4>2
      <3> QED  BY <3>1, <3>2
    <2>6. ASSUME NEW t \in Trees, probe_holders(c, t)
          PROVE  cleaner' \in [Cleaners -> CleanState]
      <3>1. [phase |-> "probed", tree |-> t, env |-> None] \in CleanState
        BY DEF CleanState
      <3> QED  BY <2>0, <2>6, <3>1 DEF probe_holders
    <2>2. ASSUME NEW ph \in {"claimed", "recorded", "removed", "failed"},
                 cleaner[c].phase \in {"claimed", "recorded", "removed", "failed"},
                 cleaner' = [cleaner EXCEPT ![c].phase = ph]
          PROVE  cleaner' \in [Cleaners -> CleanState]
      <3>1. cleaner[c] \in [phase : {"probed", "claimed", "recorded", "removed", "failed"},
                            tree : Trees, env : Envs \cup {None}]
        BY <2>0, <2>2 DEF CleanState, Idle
      <3>2. [cleaner[c] EXCEPT !.phase = ph] \in CleanState
        BY <3>1 DEF CleanState
      <3> QED  BY <2>0, <2>2, <3>2
    <2>3. CASE RecordScrap(c)
      BY <2>2, <2>3 DEF RecordScrap
    <2>4. CASE GitWorktreeRemove(c)
      BY <2>2, <2>4 DEF GitWorktreeRemove
    <2>5. CASE CompleteRemoval(c) \/ AbortRemoval(c) \/ CleanerCrash(c)
      BY <2>0, <2>5 DEF CompleteRemoval, AbortRemoval, CleanerCrash
    <2> QED  BY <2>1, <2>3, <2>4, <2>5, <2>6 DEF Cleaning
  <1> QED  BY <1>1, <1>2, <1>3 DEF Rest, ActorsTyped

LEMMA SweepingTyped ==
  ASSUME LedgerTyped, Rest, Sweeping
  PROVE  Rest'
  <1>1. /\ prov' = prov /\ worker' = worker /\ cleaner' = cleaner /\ held' = held
        /\ UNCHANGED files /\ dirty' = dirty
    BY DEF Sweeping, SweepSeesAbsent, prepare_stale_exec_env_reclaim, SweepConfirmsAbsent,
           SweepCompletes
  <1>2. sweeper' \in SweepState
    <2>1. ASSUME NEW e \in Envs, SweepSeesAbsent(e) PROVE sweeper' \in SweepState
      BY <2>1 DEF SweepSeesAbsent, SweepState
    <2>2. CASE prepare_stale_exec_env_reclaim \/ SweepConfirmsAbsent \/ SweepCompletes
      <3>1. sweeper \in [phase : {"absent", "admitted", "confirmed"}, env : Envs]
        BY <2>2 DEF prepare_stale_exec_env_reclaim, SweepConfirmsAbsent, SweepCompletes,
                    Rest, ActorsTyped, SweepState, Idle
      <3>2. /\ [sweeper EXCEPT !.phase = "admitted"] \in SweepState
            /\ [sweeper EXCEPT !.phase = "confirmed"] \in SweepState
            /\ Idle \in SweepState
        BY <3>1 DEF SweepState
      <3>3. sweeper' \in {[sweeper EXCEPT !.phase = "admitted"],
                          [sweeper EXCEPT !.phase = "confirmed"], Idle}
        BY <2>2 DEF prepare_stale_exec_env_reclaim, SweepConfirmsAbsent, SweepCompletes
      <3> QED  BY <3>2, <3>3
    <2> QED  BY <2>1, <2>2 DEF Sweeping
  <1> QED  BY <1>1, <1>2 DEF Rest, FilesTyped, ActorsTyped, files

(* Only a dispatch or the death of the daemon moves a worker. *)
LEMMA OtherStepsKeepWorkers ==
  ASSUME [Next]_vars, ~ (\E f \in Envs : Dispatch(f)), ~ DaemonCrash
  PROVE  worker' = worker
  <1>1. CASE \E p \in Provisioners : Provisioning(p)
    BY <1>1 DEF Provisioning, open_worktree, publish_exec_env_atomically, RetainUnpublished,
                ConfirmIdentity, quarantine_lease_resources
  <1>2. CASE \E c \in Cleaners : Cleaning(c)
    BY <1>2 DEF Cleaning, probe_holders, claim_worktree_removal, RecordScrap, GitWorktreeRemove,
                CompleteRemoval, AbortRemoval, CleanerCrash
  <1>3. CASE Sweeping
    BY <1>3 DEF Sweeping, SweepSeesAbsent, prepare_stale_exec_env_reclaim,
                SweepConfirmsAbsent, SweepCompletes
  <1>4. CASE \/ \E l \in Locs : release_quarantine(l)
             \/ \E t \in Trees : TreeVanishes(t)
             \/ UNCHANGED vars
    BY <1>4 DEF release_quarantine, TreeVanishes, actors, vars
  <1>5. CASE \E e \in Envs : \/ \E t \in Trees : insert_exec_env(e, t)
                             \/ reclaim_exec_env(e)
                             \/ bind_work_claim_exec_env(e) \/ release_work_claim(e)
    BY <1>5 DEF insert_exec_env, reclaim_exec_env, bind_work_claim_exec_env,
                release_work_claim, actors
  <1> QED  BY <1>1, <1>2, <1>3, <1>4, <1>5 DEF Next

LEMMA NextPlaces ==
  ASSUME TypeOK, PlaceLaw, [Next]_vars
  PROVE  PlaceLaw'
  <1>1. LeaseMoves
    BY TypeParts, NextLedger, LedgerMovesLeases
  <1>2. \A e \in Envs : lease[e].tree \in Trees => lease'[e].tree \in Trees
    BY <1>1 DEF LeaseMoves
  <1>3. ASSUME NEW e \in Envs, worker[e] = "none", worker'[e] # "none"
        PROVE  lease[e].tree \in Trees
    <2>1. CASE \E f \in Envs : Dispatch(f)
      <3>1. PICK f \in Envs : Dispatch(f)
        BY <2>1
      <3>2. worker \in [Envs -> WorkState]
        BY TypeParts DEF ActorsTyped
      <3>3. f = e
        BY <1>3, <3>1, <3>2
           DEF Dispatch, resolve_dispatch_env_binding, acquire, release_without_spawn, Spawn,
           begin_publication, complete_publication, fence_abandoned, release_after_fence
      <3>4. resolve_dispatch_env_binding(e)
        BY <1>3, <3>1, <3>3
           DEF Dispatch, acquire, release_without_spawn, Spawn,
           begin_publication, complete_publication, fence_abandoned, release_after_fence
      <3> QED  BY <3>4, BoundsAssumption DEF resolve_dispatch_env_binding
    <2>2. CASE DaemonCrash
      BY <1>3, <2>2 DEF DaemonCrash
    <2>3. CASE ~ (\E f \in Envs : Dispatch(f)) /\ ~ DaemonCrash
      <3>1. worker' = worker
        BY <2>3, OtherStepsKeepWorkers
      <3> QED  BY <1>3, <3>1
    <2> QED  BY <2>1, <2>2, <2>3
  <1> QED  BY <1>2, <1>3 DEF PlaceLaw

LEMMA NextTyped ==
  ASSUME TypeOK, PlaceLaw, [Next]_vars
  PROVE  TypeOK'
  <1>1. LedgerTyped /\ Rest
    BY TypeParts DEF Rest
  <1>2. LedgerTyped'
    BY <1>1, NextLedger, LedgerStaysTyped DEF Rest
  <1>3. Rest'
    <2>1. CASE \E p \in Provisioners : Provisioning(p)
      BY <1>1, <2>1, ProvisioningTyped
    <2>2. CASE \E e \in Envs : Dispatch(e)
      BY <1>1, <2>2, DispatchTyped
    <2>3. CASE \E c \in Cleaners : Cleaning(c)
      BY <1>1, <2>3, CleaningTyped
    <2>4. CASE Sweeping
      BY <1>1, <2>4, SweepingTyped
    <2>5. CASE DaemonCrash
      <3>1. Idle \in ProvState /\ "none" \in WorkState
        BY DEF ProvState, WorkState
      <3> QED  BY <1>1, <2>5, <3>1 DEF DaemonCrash, files, Rest, FilesTyped, ActorsTyped
    <2>6. CASE \E l \in Locs : release_quarantine(l)
      BY <1>1, <2>6 DEF release_quarantine, files, actors, Rest, FilesTyped, ActorsTyped
    <2>7. CASE \E e \in Envs : \/ \E t \in Trees : insert_exec_env(e, t)
                               \/ reclaim_exec_env(e)
                               \/ bind_work_claim_exec_env(e) \/ release_work_claim(e)
      BY <1>1, <2>7 DEF insert_exec_env, reclaim_exec_env, bind_work_claim_exec_env,
                        release_work_claim, files, actors, Rest, FilesTyped, ActorsTyped
    <2>8. CASE \E t \in Trees : TreeVanishes(t)
      BY <1>1, <2>8, BoundsAssumption DEF TreeVanishes, actors, Rest, FilesTyped, ActorsTyped
    <2>9. CASE UNCHANGED vars
      BY <1>1, <2>9 DEF vars, Rest, FilesTyped, ActorsTyped
    <2> QED  BY <2>1, <2>2, <2>3, <2>4, <2>5, <2>6, <2>7, <2>8, <2>9 DEF Next
  <1>4. (LedgerTyped /\ Rest => TypeOK)'
    <2>1. LedgerTyped /\ Rest => TypeOK
      BY TypeParts DEF Rest
    <2> QED  BY TypeParts, PTL DEF Rest
  <1> QED  BY <1>2, <1>3, <1>4

-------------------------------------------------------------------------------
(* The laws of the ledger. *)

(* A binding names the current id of a row that is neither unborn nor freed *)
(* and belongs to a published lease; a lease is bound to its own worktree   *)
(* and to no other, and nobody shares a worktree.                           *)
BindingLaw ==
  \A e \in Envs, l \in Locs, g \in Nat :
    <<e, <<l, g>>>> \in live =>
      /\ g = res[l].gen
      /\ res[l].state \notin {"none", "reclaimed"}
      /\ lease[e].state # "none"
      /\ lease[e].booked
      /\ lease[e].tree \in Trees
      /\ Bd(e, lease[e].tree)
      /\ l \in Trees => l = lease[e].tree
      /\ l \in Trees => \A f \in Envs : Bd(f, l) => f = e

LEMMA BoundHere ==
  ASSUME LedgerTyped, BindingLaw, NEW e \in Envs, NEW l \in Locs, Bd(e, l)
  PROVE  /\ res[l].state \notin {"none", "reclaimed"}
         /\ lease[e].state # "none" /\ lease[e].booked
         /\ lease[e].tree \in Trees /\ Bd(e, lease[e].tree)
         /\ l \in Trees => l = lease[e].tree /\ \A f \in Envs : Bd(f, l) => f = e
  <1>1. res[l].gen \in Nat
    BY DEF LedgerTyped, ResRow
  <1>2. <<e, <<l, res[l].gen>>>> \in live
    BY DEF Bd, Rid
  <1> QED  BY <1>1, <1>2 DEF BindingLaw

(* Every binding is a Bd. *)
LEMMA BoundSomewhere ==
  ASSUME LedgerTyped, BindingLaw, NEW e, NEW rid \in BoundBy(e)
  PROVE  e \in Envs /\ rid[1] \in Locs /\ rid = Rid(rid[1]) /\ Bd(e, rid[1])
  <1>1. e \in Envs /\ rid \in Locs \X Nat /\ <<e, rid>> \in live
    BY BoundByEntries
  <1>2. rid = <<rid[1], rid[2]>> /\ rid[1] \in Locs /\ rid[2] \in Nat
    BY <1>1
  <1>3. <<e, <<rid[1], rid[2]>>>> \in live
    BY <1>1, <1>2
  <1>4. rid[2] = res[rid[1]].gen
    BY <1>1, <1>2, <1>3 DEF BindingLaw
  <1> QED  BY <1>1, <1>2, <1>3, <1>4 DEF Bd, Rid

(* Steps that bind nothing, free no row that stays bound and let go of a    *)
(* lease's bindings all at once.                                            *)
LEMMA BindFrame ==
  ASSUME LedgerTyped, BindingLaw, LeaseMoves, live' \subseteq live,
         \A l \in Locs : res'[l].gen = res[l].gen,
         \A e \in Envs, l \in Locs : Bd(e, l)' => res'[l].state \notin {"none", "reclaimed"},
         \A e \in Envs, l, m \in Locs : Bd(e, l)' /\ Bd(e, m) => Bd(e, m)'
  PROVE  BindingLaw'
  <1> SUFFICES ASSUME NEW e \in Envs, NEW l \in Locs, NEW g \in Nat,
                      <<e, <<l, g>>>> \in live'
               PROVE  /\ g = res'[l].gen
                      /\ res'[l].state \notin {"none", "reclaimed"}
                      /\ lease'[e].state # "none"
                      /\ lease'[e].booked
                      /\ lease'[e].tree \in Trees
                      /\ Bd(e, lease[e].tree)'
                      /\ lease'[e].tree = lease[e].tree
                      /\ l \in Trees => l = lease'[e].tree
                      /\ l \in Trees => \A f \in Envs : Bd(f, l)' => f = e
    BY DEF BindingLaw, Bd
  <1>1. /\ g = res[l].gen /\ lease[e].state # "none" /\ lease[e].booked
        /\ lease[e].tree \in Trees /\ Bd(e, lease[e].tree)
        /\ l \in Trees => l = lease[e].tree
        /\ l \in Trees => \A f \in Envs : Bd(f, l) => f = e
    BY DEF BindingLaw
  <1>2. Bd(e, l)'
    BY <1>1 DEF Bd, Rid
  <1>3. lease[e].tree \in Locs
    BY <1>1, NoneIsNoPlace
  <1>4. \A f \in Envs : Bd(f, l)' => Bd(f, l)
    BY DEF Bd, Rid
  <1> QED  BY <1>1, <1>2, <1>3, <1>4 DEF LeaseMoves

OwnedBy(l, e) == Bd(e, l) /\ \A f \in Envs : Bd(f, l) => f = e

OwnerLaw == \A l \in Locs : res[l].state = "reclaiming" =>
              \E e \in Envs : OwnedBy(l, e) /\ lease[e].state = "removing"

LEMMA OwnersAreHolders ==
  /\ \A l, e : e \in Envs => (Holders(l) = {e} <=> OwnedBy(l, e))
  /\ OwnerLaw <=> ReclaimingHasOneOwner
  <1>1. \A l, e : e \in Envs => (Holders(l) = {e} <=> OwnedBy(l, e))
    BY DEF Holders, OwnedBy, Bd
  <1> QED  BY <1>1 DEF OwnerLaw, ReclaimingHasOneOwner

(* The steps that move no binding. *)
LEMMA StillBound ==
  ASSUME LedgerTyped, live' = live, \A l \in Locs : res'[l].gen = res[l].gen
  PROVE  \A e, l : l \in Locs => (Bd(e, l)' <=> Bd(e, l))
  BY DEF Bd, Rid

LEMMA ClaimLedger ==
  ASSUME LedgerTyped, BindingLaw, OwnerLaw, LeaseMoves,
         NEW e \in Envs, NEW t \in Trees, claim_exec_env_removal_in_tx(e, t)
  PROVE  BindingLaw' /\ OwnerLaw'
  <1> DEFINE S == BoundLocs(e) \cap RemovedWith(t)
  <1>0. "reclaiming" \in ResourceState /\ "removing" \in ExecEnvState
    BY DEF ResourceState, ExecEnvState
  <1>1. /\ RemovalAdmitted(e, t) /\ live' = live
        /\ lease' = [lease EXCEPT ![e].state = "removing"]
        /\ res' = SetStates(S, "reclaiming")
    BY DEF claim_exec_env_removal_in_tx
  <1>2. \A l \in Locs : /\ res'[l].gen = res[l].gen
                        /\ l \in S => res'[l].state = "reclaiming"
                        /\ l \notin S => res'[l] = res[l]
    BY <1>0, <1>1, StatesSet
  <1>3. \A f, l : l \in Locs => (Bd(f, l)' <=> Bd(f, l))
    BY <1>1, <1>2, StillBound
  <1>4. BindingLaw'
    <2>1. \A f \in Envs, l \in Locs : Bd(f, l)' => res'[l].state \notin {"none", "reclaimed"}
      BY <1>2, <1>3, BoundHere
    <2> QED  BY <1>1, <1>2, <1>3, <2>1, BindFrame
  <1>5. /\ lease'[e].state = "removing" /\ lease[e].state = "active"
        /\ \A f \in Envs \ {e} : lease'[f] = lease[f]
    BY <1>0, <1>1, StateOf DEF RemovalAdmitted
  <1>6. ASSUME NEW l \in Locs, res'[l].state = "reclaiming"
        PROVE  \E f \in Envs : OwnedBy(l, f)' /\ lease'[f].state = "removing"
    <2>1. CASE l \in S
      <3>1. OwnedBy(l, e)
        BY <1>1, <2>1, OwnersAreHolders DEF RemovalAdmitted
      <3> QED  BY <1>3, <1>5, <3>1 DEF OwnedBy
    <2>2. CASE l \notin S
      <3>1. PICK f \in Envs : OwnedBy(l, f) /\ lease[f].state = "removing"
        BY <1>2, <1>6, <2>2 DEF OwnerLaw
      <3>2. f # e
        BY <1>5, <3>1
      <3> QED  BY <1>3, <1>5, <3>1, <3>2 DEF OwnedBy
    <2> QED  BY <2>1, <2>2
  <1> QED  BY <1>4, <1>6 DEF OwnerLaw

LEMMA CompleteLedger ==
  ASSUME LedgerTyped, BindingLaw, OwnerLaw, LeaseMoves,
         NEW e \in Envs, complete_exec_env_removal(e)
  PROVE  BindingLaw' /\ OwnerLaw'
  <1> DEFINE S == BoundLocs(e) \cap RemovedWith(lease[e].tree)
  <1>0. "reclaimed" \in ResourceState /\ "reclaimed" \in ExecEnvState
    BY DEF ResourceState, ExecEnvState
  <1>1. /\ RemovalEvidence(e) /\ live' = {b \in live : b[1] # e}
        /\ lease' = [lease EXCEPT ![e].state = "reclaimed"]
        /\ res' = SetStates(S, "reclaimed")
    BY DEF complete_exec_env_removal
  <1>2. \A l \in Locs : /\ res'[l].gen = res[l].gen
                        /\ l \in S => res'[l].state = "reclaimed"
                        /\ l \notin S => res'[l] = res[l]
    BY <1>0, <1>1, StatesSet
  <1>3. \A f, l : l \in Locs => (Bd(f, l)' <=> Bd(f, l) /\ f # e)
    <2>1. \A f, rid : <<f, rid>> \in live' <=> <<f, rid>> \in live /\ f # e
      BY <1>1
    <2> QED  BY <1>2, <2>1 DEF Bd, Rid
  <1>4. \A l \in S : OwnedBy(l, e)
    BY <1>1, OwnersAreHolders DEF RemovalEvidence
  <1>5. BindingLaw'
    <2>1. ASSUME NEW f \in Envs, NEW l \in Locs, Bd(f, l)'
          PROVE  res'[l].state \notin {"none", "reclaimed"}
      <3>1. Bd(f, l) /\ f # e
        BY <1>3, <2>1
      <3>2. l \notin S
        BY <1>4, <3>1 DEF OwnedBy
      <3> QED  BY <1>2, <3>1, <3>2, BoundHere
    <2>2. live' \subseteq live
      BY <1>1
    <2>3. \A f \in Envs, l, m \in Locs : Bd(f, l)' /\ Bd(f, m) => Bd(f, m)'
      BY <1>3
    <2> QED  BY <1>2, <2>1, <2>2, <2>3, BindFrame
  <1>6. \A f \in Envs \ {e} : lease'[f] = lease[f]
    BY <1>0, <1>1, StateOf
  <1>7. ASSUME NEW l \in Locs, res'[l].state = "reclaiming"
        PROVE  \E f \in Envs : OwnedBy(l, f)' /\ lease'[f].state = "removing"
    <2>1. l \notin S /\ res[l].state = "reclaiming"
      BY <1>2, <1>7
    <2>2. PICK f \in Envs : OwnedBy(l, f) /\ lease[f].state = "removing"
      BY <2>1 DEF OwnerLaw
    <2>3. f # e
      <3>1. l \in BoundLocs(e) => l \in RemovedWith(lease[e].tree)
        BY <1>1, <2>1 DEF RemovalEvidence
      <3>2. l \notin BoundLocs(e)
        BY <2>1, <3>1
      <3> QED  BY <2>2, <3>2, BoundByEntries DEF OwnedBy
    <2> QED  BY <1>3, <1>6, <2>2, <2>3 DEF OwnedBy
  <1> QED  BY <1>5, <1>7 DEF OwnerLaw

LEMMA AbortLedger ==
  ASSUME LedgerTyped, BindingLaw, OwnerLaw, LeaseMoves,
         NEW e \in Envs, abort_exec_env_removal(e)
  PROVE  BindingLaw' /\ OwnerLaw'
  <1> DEFINE R == {l \in BoundLocs(e) : res[l].state = "reclaiming"}
  <1>0. "active" \in ResourceState /\ "active" \in ExecEnvState
    BY DEF ResourceState, ExecEnvState
  <1>1. /\ live' = live
        /\ lease' = [lease EXCEPT ![e].state = "active"]
        /\ res' = SetStates(R, "active")
    BY DEF abort_exec_env_removal
  <1>2. \A l \in Locs : /\ res'[l].gen = res[l].gen
                        /\ l \in R => res'[l].state = "active"
                        /\ l \notin R => res'[l] = res[l]
    BY <1>0, <1>1, StatesSet
  <1>3. \A f, l : l \in Locs => (Bd(f, l)' <=> Bd(f, l))
    BY <1>1, <1>2, StillBound
  <1>4. BindingLaw'
    <2>1. \A f \in Envs, l \in Locs : Bd(f, l)' => res'[l].state \notin {"none", "reclaimed"}
      BY <1>2, <1>3, BoundHere
    <2> QED  BY <1>1, <1>2, <1>3, <2>1, BindFrame
  <1>5. \A f \in Envs \ {e} : lease'[f] = lease[f]
    BY <1>0, <1>1, StateOf
  <1>6. ASSUME NEW l \in Locs, res'[l].state = "reclaiming"
        PROVE  \E f \in Envs : OwnedBy(l, f)' /\ lease'[f].state = "removing"
    <2>1. l \notin R /\ res[l].state = "reclaiming"
      BY <1>2, <1>6
    <2>2. PICK f \in Envs : OwnedBy(l, f) /\ lease[f].state = "removing"
      BY <2>1 DEF OwnerLaw
    <2>3. l \notin BoundLocs(e)
      BY <2>1
    <2>4. f # e
      BY <2>2, <2>3, BoundByEntries DEF OwnedBy
    <2> QED  BY <1>3, <1>5, <2>2, <2>4 DEF OwnedBy
  <1> QED  BY <1>4, <1>6 DEF OwnerLaw

(* Lease moves that no removal is concerned with. *)
LEMMA ShiftLedger ==
  ASSUME LedgerTyped, BindingLaw, OwnerLaw, LeaseMoves, NEW e \in Envs, NEW row,
         lease[e].state # "removing", lease' = [lease EXCEPT ![e] = row],
         res' = res, live' = live
  PROVE  BindingLaw' /\ OwnerLaw'
  <1>1. \A f, l : l \in Locs => (Bd(f, l)' <=> Bd(f, l))
    BY StillBound
  <1>2. BindingLaw'
    <2>1. \A f \in Envs, l \in Locs : Bd(f, l)' => res'[l].state \notin {"none", "reclaimed"}
      BY <1>1, BoundHere
    <2> QED  BY <1>1, <2>1, BindFrame
  <1>3. \A f \in Envs \ {e} : lease'[f] = lease[f]
    BY DEF LedgerTyped
  <1>4. ASSUME NEW l \in Locs, res'[l].state = "reclaiming"
        PROVE  \E f \in Envs : OwnedBy(l, f)' /\ lease'[f].state = "removing"
    <2>1. PICK f \in Envs : OwnedBy(l, f) /\ lease[f].state = "removing"
      BY <1>4 DEF OwnerLaw
    <2> QED  BY <1>1, <1>3, <2>1 DEF OwnedBy
  <1> QED  BY <1>2, <1>4 DEF OwnerLaw

(* Row moves that start no removal. *)
LEMMA RowLedger ==
  ASSUME LedgerTyped, BindingLaw, OwnerLaw, LeaseMoves, NEW S, NEW s \in {"active", "quarantined"},
         lease' = lease, live' = live, res' = SetStates(S, s)
  PROVE  BindingLaw' /\ OwnerLaw'
  <1>0. s \in ResourceState
    BY DEF ResourceState
  <1>1. \A l \in Locs : /\ res'[l].gen = res[l].gen
                        /\ l \in S => res'[l].state = s
                        /\ l \notin S => res'[l] = res[l]
    BY <1>0, StatesSet
  <1>2. \A f, l : l \in Locs => (Bd(f, l)' <=> Bd(f, l))
    BY <1>1, StillBound
  <1>3. BindingLaw'
    <2>1. \A f \in Envs, l \in Locs : Bd(f, l)' => res'[l].state \notin {"none", "reclaimed"}
      BY <1>1, <1>2, BoundHere
    <2> QED  BY <1>1, <1>2, <2>1, BindFrame
  <1>4. ASSUME NEW l \in Locs, res'[l].state = "reclaiming"
        PROVE  \E f \in Envs : OwnedBy(l, f)' /\ lease'[f].state = "removing"
    <2>1. res[l].state = "reclaiming"
      BY <1>1, <1>4
    <2>2. PICK f \in Envs : OwnedBy(l, f) /\ lease[f].state = "removing"
      BY <2>1 DEF OwnerLaw
    <2> QED  BY <1>2, <2>2 DEF OwnedBy
  <1> QED  BY <1>3, <1>4 DEF OwnerLaw

(* A publication binds a lease that was never used to rows nobody removes   *)
(* and, for the worktree, nobody holds.                                     *)
EnterFacts(e, t, i, L) ==
  /\ lease[e].state = "none"
  /\ lease'[e] = [state |-> "active", tree |-> t, inc |-> i, booked |-> TRUE]
  /\ \A f \in Envs \ {e} : lease'[f] = lease[f]
  /\ \A l \in L : /\ res[l].state \in {"none", "active", "reclaimed"}
                  /\ res'[l].state = "active"
                  /\ res[l].state = "active" => res'[l].gen = res[l].gen
                  /\ <<e, <<l, res'[l].gen>>>> \in live'
  /\ \A l \in Locs \ L : res'[l] = res[l]
  /\ \A f, l, g : <<f, <<l, g>>>> \in live' =>
       <<f, <<l, g>>>> \in live \/ (f = e /\ l \in L /\ g = res'[l].gen)
  /\ live \subseteq live'
  /\ \A f \in Envs : ~ Bd(f, t)

LEMMA EnterEffect ==
  ASSUME LedgerTyped, NEW e \in Envs, NEW t \in Trees, NEW i, NEW L \in SUBSET Locs,
         Enter(e, t, i, L)
  PROVE  EnterFacts(e, t, i, L)
  <1>1. lease[e].state = "none"
    BY DEF Enter, Fresh
  <1>2. /\ lease'[e] = [state |-> "active", tree |-> t, inc |-> i, booked |-> TRUE]
        /\ \A f \in Envs \ {e} : lease'[f] = lease[f]
    BY DEF Enter, LedgerTyped
  <1>3. /\ \A l \in L : res'[l] = Published(l) /\ res[l].state \in {"none", "active", "reclaimed"}
        /\ \A l \in Locs \ L : res'[l] = res[l]
    BY DEF Enter, Publishable
  <1>4. \A l \in L : /\ res'[l].state = "active"
                     /\ res[l].state = "active" => res'[l].gen = res[l].gen
    BY <1>3, PublishedTyped
  <1>5. live' = live \cup {<<e, <<l, Published(l).gen>>>> : l \in L}
    BY DEF Enter
  <1>6. \A l \in L : <<e, <<l, res'[l].gen>>>> \in live'
    BY <1>3, <1>5
  <1>7. ASSUME NEW f, NEW l, NEW g, <<f, <<l, g>>>> \in live', <<f, <<l, g>>>> \notin live
        PROVE  f = e /\ l \in L /\ g = res'[l].gen
    <2>1. PICK m \in L : <<f, <<l, g>>>> = <<e, <<m, Published(m).gen>>>>
      BY <1>5, <1>7
    <2> QED  BY <1>3, <2>1
  <1>8. \A f \in Envs : ~ Bd(f, t)
    BY DEF Enter, Publishable, Holders, Bd
  <1>9. live \subseteq live'
    BY <1>5
  <1> QED  BY <1>1, <1>2, <1>3, <1>4, <1>6, <1>7, <1>8, <1>9 DEF EnterFacts

LEMMA EnterLedger ==
  ASSUME LedgerTyped, BindingLaw, OwnerLaw, LeaseMoves,
         NEW e \in Envs, NEW t \in Trees, NEW i, NEW L \in SUBSET Locs, Enter(e, t, i, L)
  PROVE  BindingLaw' /\ OwnerLaw'
  <1>0. EnterFacts(e, t, i, L)
    BY EnterEffect
  <1>1. t \in L /\ L \cap Trees = {t} /\ t \in Locs
    BY DEF Enter
  <1>2. /\ lease[e].state = "none"
        /\ lease'[e].state = "active" /\ lease'[e].tree = t /\ lease'[e].booked
    BY <1>0 DEF EnterFacts
  <1>3. \A f \in Envs \ {e} : lease'[f] = lease[f]
    BY <1>0 DEF EnterFacts
  <1>4. \A l \in L : /\ res[l].state \in {"none", "active", "reclaimed"}
                     /\ res'[l].state = "active"
                     /\ res[l].state = "active" => res'[l].gen = res[l].gen
    BY <1>0 DEF EnterFacts
  <1>5. \A l \in Locs \ L : res'[l] = res[l]
    BY <1>0 DEF EnterFacts
  <1>6. \A f, l, g : <<f, <<l, g>>>> \in live' =>
                       <<f, <<l, g>>>> \in live \/ (f = e /\ l \in L /\ g = res'[l].gen)
    BY <1>0 DEF EnterFacts
  <1>7. \A f \in Envs : ~ Bd(f, t)
    BY <1>0 DEF EnterFacts
  <1>8. \A l \in Locs : res[l].gen \in Nat
    BY DEF LedgerTyped, ResRow
  <1>9. \A f \in Envs, l \in Locs : Bd(f, l) => res'[l].gen = res[l].gen /\ Bd(f, l)'
    <2>1. ASSUME NEW f \in Envs, NEW l \in Locs, Bd(f, l)
          PROVE  res'[l].gen = res[l].gen
      <3>1. res[l].state \notin {"none", "reclaimed"}
        BY <2>1, BoundHere
      <3> QED  BY <3>1, <1>4, <1>5
    <2>2. live \subseteq live'
      BY <1>0 DEF EnterFacts
    <2> QED  BY <2>1, <2>2 DEF Bd, Rid
  <1>10. \A f \in Envs, l \in Locs, g \in Nat :
           <<f, <<l, g>>>> \in live => Bd(f, l) /\ g = res[l].gen
    <2>1. \A f \in Envs, l \in Locs, g \in Nat : <<f, <<l, g>>>> \in live => g = res[l].gen
      BY DEF BindingLaw
    <2> QED  BY <2>1 DEF Bd, Rid
  <1>11. \A f \in Envs, l \in Locs : Bd(f, l)' => Bd(f, l) \/ (f = e /\ l \in L)
    <2>1. ASSUME NEW f \in Envs, NEW l \in Locs, Bd(f, l)', ~ (f = e /\ l \in L)
          PROVE  Bd(f, l)
      <3>1. <<f, <<l, res'[l].gen>>>> \in live'
        BY <2>1 DEF Bd, Rid
      <3>2. <<f, <<l, res'[l].gen>>>> \in live
        BY <1>6, <2>1, <3>1
      <3>3. res'[l].gen \in Nat
        BY <3>2 DEF LedgerTyped
      <3> QED  BY <1>10, <3>2, <3>3
    <2> QED  BY <2>1
  <1>12. \A l \in Locs : ~ Bd(e, l)
    BY <1>2, BoundHere
  <1>13. ASSUME NEW f \in Envs, NEW l \in Locs, NEW g \in Nat, <<f, <<l, g>>>> \in live'
         PROVE  /\ g = res'[l].gen
                /\ res'[l].state \notin {"none", "reclaimed"}
                /\ lease'[f].state # "none"
                /\ lease'[f].booked
                /\ lease'[f].tree \in Trees
                /\ Bd(f, lease[f].tree)'
                /\ l \in Trees => l = lease'[f].tree
                /\ l \in Trees => \A h \in Envs : Bd(h, l)' => h = f
    <2>1. CASE <<f, <<l, g>>>> \in live
      <3>1. Bd(f, l) /\ g = res[l].gen
        BY <1>10, <2>1
      <3>2. /\ res[l].state \notin {"none", "reclaimed"} /\ lease[f].state # "none"
            /\ lease[f].booked /\ lease[f].tree \in Trees /\ Bd(f, lease[f].tree)
            /\ l \in Trees => l = lease[f].tree /\ \A h \in Envs : Bd(h, l) => h = f
        BY <3>1, BoundHere
      <3>3. f # e
        BY <1>12, <3>1
      <3>4. lease'[f] = lease[f]
        BY <1>3, <3>3
      <3>5. lease[f].tree \in Locs
        BY <3>2, NoneIsNoPlace
      <3>6. \A m \in Locs : Bd(f, m) => <<f, <<m, res'[m].gen>>>> \in live'
        BY <1>9 DEF Bd, Rid
      <3>7. g = res'[l].gen /\ Bd(f, lease[f].tree)'
        BY <1>9, <3>1, <3>2, <3>4, <3>5, <3>6 DEF Bd, Rid
      <3>8. res'[l].state \notin {"none", "reclaimed"}
        BY <1>4, <1>5, <3>2
      <3>9. l \in Trees => l \notin L
        BY <1>1, <1>7, <3>1
      <3>10. l \in Trees => \A h \in Envs : Bd(h, l)' => h = f
        BY <1>11, <3>2, <3>9
      <3> QED  BY <3>2, <3>4, <3>7, <3>8, <3>10
    <2>2. CASE <<f, <<l, g>>>> \notin live
      <3>1. f = e /\ l \in L /\ g = res'[l].gen
        BY <1>6, <1>13, <2>2
      <3>2. <<e, <<t, res'[t].gen>>>> \in live'
        BY <1>0, <1>1 DEF EnterFacts
      <3>3. Bd(f, lease[f].tree)'
        BY <1>2, <3>1, <3>2 DEF Bd, Rid
      <3>4. res'[l].state = "active"
        BY <1>4, <3>1
      <3>5. l \in Trees => l = t
        BY <1>1, <3>1
      <3>6. \A h \in Envs : Bd(h, t)' => h = e
        BY <1>1, <1>7, <1>11
      <3> QED  BY <1>2, <3>1, <3>3, <3>4, <3>5, <3>6
    <2> QED  BY <2>1, <2>2
  <1>14. BindingLaw'
    BY <1>13 DEF BindingLaw
  <1>15. ASSUME NEW l \in Locs, res'[l].state = "reclaiming"
         PROVE  \E f \in Envs : OwnedBy(l, f)' /\ lease'[f].state = "removing"
    <2>1. l \notin L /\ res[l].state = "reclaiming"
      BY <1>4, <1>5, <1>15
    <2>2. PICK f \in Envs : OwnedBy(l, f) /\ lease[f].state = "removing"
      BY <2>1 DEF OwnerLaw
    <2>3. f # e /\ lease'[f].state = "removing"
      BY <1>2, <1>3, <2>2
    <2>4. OwnedBy(l, f)'
      BY <1>9, <1>11, <2>1, <2>2 DEF OwnedBy
    <2> QED  BY <2>3, <2>4
  <1> QED  BY <1>14, <1>15 DEF OwnerLaw

LEMMA LedgerLaws ==
  ASSUME LedgerTyped, BindingLaw, OwnerLaw, LedgerStep
  PROVE  BindingLaw' /\ OwnerLaw'
  <1>1. LeaseMoves
    BY LedgerMovesLeases
  <1>2. CASE UNCHANGED ledger
    <2>1. /\ lease' = lease /\ res' = res /\ live' = live
      BY <1>2 DEF ledger
    <2>2. \A f, l : l \in Locs => (Bd(f, l)' <=> Bd(f, l))
      BY <2>1, StillBound
    <2>3. BindingLaw'
      BY <2>1 DEF BindingLaw, Bd, Rid
    <2> QED  BY <2>1, <2>3 DEF OwnerLaw, OwnedBy, Bd, Rid
  <1>3. ASSUME NEW e \in Envs, NEW t \in Trees, claim_exec_env_removal_in_tx(e, t)
        PROVE  BindingLaw' /\ OwnerLaw'
    BY <1>1, <1>3, ClaimLedger
  <1>4. ASSUME NEW e \in Envs, complete_exec_env_removal(e) PROVE BindingLaw' /\ OwnerLaw'
    BY <1>1, <1>4, CompleteLedger
  <1>5. ASSUME NEW e \in Envs, abort_exec_env_removal(e) PROVE BindingLaw' /\ OwnerLaw'
    BY <1>1, <1>5, AbortLedger
  <1>6. ASSUME NEW e \in Envs, NEW s \in ExecEnvState, Shift(e, s) PROVE BindingLaw' /\ OwnerLaw'
    <2>1. lease' = [lease EXCEPT ![e] = [lease[e] EXCEPT !.state = s]]
      BY <1>6 DEF Shift
    <2> QED  BY <1>1, <1>6, <2>1, ShiftLedger DEF Shift
  <1>11. ASSUME NEW e \in Envs, Retire(e) PROVE BindingLaw' /\ OwnerLaw'
    <2>1. lease' = [lease EXCEPT ![e] = [lease[e] EXCEPT !.state = "reclaimed"]]
      BY <1>11 DEF Retire
    <2> QED  BY <1>1, <1>11, <2>1, ShiftLedger DEF Retire
  <1>7. ASSUME NEW e \in Envs, NEW t \in Trees, NEW i \in 0 .. MaxOpens, EnterBare(e, t, i)
        PROVE  BindingLaw' /\ OwnerLaw'
    BY <1>1, <1>7, ShiftLedger DEF EnterBare, Fresh
  <1>8. ASSUME NEW e \in Envs, NEW t \in Trees, NEW i \in 1 .. MaxOpens, NEW L \in SUBSET Locs,
               Enter(e, t, i, L)
        PROVE  BindingLaw' /\ OwnerLaw'
    BY <1>1, <1>8, EnterLedger
  <1>9. ASSUME NEW ids \in SUBSET (Locs \X Nat), quarantine_resources_atomically(ids)
        PROVE  BindingLaw' /\ OwnerLaw'
    BY <1>1, <1>9, RowLedger DEF quarantine_resources_atomically
  <1>10. ASSUME NEW l \in Locs, Unfence(l) PROVE BindingLaw' /\ OwnerLaw'
    BY <1>1, <1>10, RowLedger DEF Unfence
  <1> QED  BY <1>2, <1>3, <1>4, <1>5, <1>6, <1>7, <1>8, <1>9, <1>10, <1>11
           DEF PlainStep, QuietStep, LedgerStep, SealedStep

-------------------------------------------------------------------------------
(* What a removal and a dispatch keep of each other's leases. *)

Settled == {"removing", "reclaimed"}

(* Only the abort of its own removal opens a settled lease again.           *)
LEMMA SettledStay ==
  ASSUME LedgerTyped, NEW e \in Envs, lease[e].state \in Settled
  PROVE  /\ PlainStep => lease'[e].state \in Settled
         /\ \A f \in Envs, s \in ExecEnvState : Shift(f, s) => lease'[e].state \in Settled
         /\ \A f \in Envs \ {e} : abort_exec_env_removal(f) => lease'[e].state \in Settled
  <1>0. lease[e].state \notin {"none", "active", "dispatching", "publishing"}
    BY DEF Settled
  <1>1. ASSUME lease' = lease PROVE lease'[e].state \in Settled
    BY <1>1
  <1>2. ASSUME NEW f \in Envs, NEW row, f # e, lease' = [lease EXCEPT ![f] = row]
        PROVE  lease'[e].state \in Settled
    BY <1>2 DEF LedgerTyped
  <1>3. ASSUME NEW f \in Envs, NEW s \in Settled, lease' = [lease EXCEPT ![f].state = s]
        PROVE  lease'[e].state \in Settled
    <2>1. s \in ExecEnvState
      BY DEF Settled, ExecEnvState
    <2> QED  BY <1>3, <2>1, StateOf
  <1>4. ASSUME NEW f \in Envs, NEW t \in Trees, claim_exec_env_removal_in_tx(f, t)
        PROVE  lease'[e].state \in Settled
    BY <1>3, <1>4 DEF claim_exec_env_removal_in_tx, Settled
  <1>5. ASSUME NEW f \in Envs, complete_exec_env_removal(f) \/ Retire(f)
        PROVE  lease'[e].state \in Settled
    BY <1>3, <1>5 DEF complete_exec_env_removal, Retire, Settled
  <1>6. ASSUME NEW f \in Envs, NEW t, NEW i, EnterBare(f, t, i) PROVE lease'[e].state \in Settled
    <2>1. f # e
      BY <1>0, <1>6 DEF EnterBare, Fresh
    <2> QED  BY <1>2, <1>6, <2>1 DEF EnterBare
  <1>7. ASSUME NEW f \in Envs, NEW t, NEW i, NEW L, Enter(f, t, i, L)
        PROVE  lease'[e].state \in Settled
    <2>1. f # e
      BY <1>0, <1>7 DEF Enter, Fresh
    <2> QED  BY <1>2, <1>7, <2>1 DEF Enter
  <1>8. PlainStep => lease'[e].state \in Settled
    BY <1>1, <1>4, <1>5, <1>6, <1>7
       DEF PlainStep, QuietStep, ledger, quarantine_resources_atomically, Unfence
  <1>9. ASSUME NEW f \in Envs, NEW s \in ExecEnvState, Shift(f, s)
        PROVE  lease'[e].state \in Settled
    <2>1. f # e
      BY <1>0, <1>9 DEF Shift
    <2> QED  BY <1>9, <2>1, StateOf DEF Shift
  <1>10. ASSUME NEW f \in Envs \ {e}, abort_exec_env_removal(f)
         PROVE  lease'[e].state \in Settled
    <2>1. "active" \in ExecEnvState
      BY DEF ExecEnvState
    <2> QED  BY <1>10, <2>1, StateOf DEF abort_exec_env_removal
  <1> QED  BY <1>8, <1>9, <1>10

(* A cleaner that holds a claim holds it alone, until it is done. *)
ClaimLaw ==
  \A c \in Cleaners :
    cleaner[c].phase # "idle" /\ cleaner[c].env # None =>
      /\ lease[cleaner[c].env].state \in Settled
      /\ lease[cleaner[c].env].tree = cleaner[c].tree
      /\ \A d \in Cleaners :
           cleaner[d].phase # "idle" /\ cleaner[d].env = cleaner[c].env => c = d

(* Steps in which the cleaners that go on keep what they claimed.           *)
LEMMA ClaimFrame ==
  ASSUME TypeOK, ClaimLaw, LeaseMoves,
         \A c \in Cleaners : \/ cleaner'[c] = Idle
                             \/ /\ cleaner[c].phase # "idle"
                                /\ cleaner'[c].env = cleaner[c].env
                                /\ cleaner'[c].tree = cleaner[c].tree
                                /\ cleaner[c].env # None =>
                                     lease'[cleaner[c].env].state \in Settled
  PROVE  ClaimLaw'
  <1> SUFFICES ASSUME NEW c \in Cleaners, cleaner'[c].phase # "idle", cleaner'[c].env # None
               PROVE  /\ lease'[cleaner'[c].env].state \in Settled
                      /\ lease'[cleaner'[c].env].tree = cleaner'[c].tree
                      /\ \A d \in Cleaners : cleaner'[d].phase # "idle"
                           /\ cleaner'[d].env = cleaner'[c].env => c = d
    BY DEF ClaimLaw
  <1>0. Idle.phase = "idle"
    BY DEF Idle
  <1>1. cleaner[c].phase # "idle" /\ cleaner'[c].env = cleaner[c].env
        /\ cleaner'[c].tree = cleaner[c].tree /\ cleaner[c].env # None
        /\ lease'[cleaner[c].env].state \in Settled
    BY <1>0
  <1>2. cleaner[c].env \in Envs
    BY <1>1, CleanKinds, TypeParts
  <1>3. /\ lease[cleaner[c].env].state \in Settled
        /\ lease[cleaner[c].env].tree = cleaner[c].tree
        /\ \A d \in Cleaners : cleaner[d].phase # "idle" /\ cleaner[d].env = cleaner[c].env => c = d
    BY <1>1 DEF ClaimLaw
  <1>4. lease'[cleaner[c].env].tree = lease[cleaner[c].env].tree
    <2>1. lease[cleaner[c].env].state # "none"
      BY <1>3 DEF Settled
    <2> QED  BY <1>2, <2>1 DEF LeaseMoves
  <1>5. \A d \in Cleaners : cleaner'[d].phase # "idle" =>
           cleaner[d].phase # "idle" /\ cleaner'[d].env = cleaner[d].env
    BY <1>0
  <1> QED  BY <1>1, <1>3, <1>4, <1>5

LEMMA OtherStepsKeepCleaners ==
  ASSUME Elsewhere \/ \E e \in Envs : Dispatch(e)
  PROVE  cleaner' = cleaner
  <1>1. CASE \E p \in Provisioners : Provisioning(p)
    BY <1>1 DEF Provisioning, open_worktree, publish_exec_env_atomically, RetainUnpublished,
                ConfirmIdentity, quarantine_lease_resources
  <1>2. CASE \E e \in Envs : Dispatch(e)
    BY <1>2 DEF Dispatch, resolve_dispatch_env_binding, acquire, release_without_spawn, Spawn,
           begin_publication, complete_publication, fence_abandoned, release_after_fence
  <1>3. CASE Sweeping
    BY <1>3 DEF Sweeping, SweepSeesAbsent, prepare_stale_exec_env_reclaim,
                SweepConfirmsAbsent, SweepCompletes
  <1>4. CASE \/ \E l \in Locs : release_quarantine(l)
             \/ \E t \in Trees : TreeVanishes(t)
             \/ UNCHANGED vars \/ DaemonCrash
    BY <1>4 DEF release_quarantine, TreeVanishes, actors, vars, DaemonCrash
  <1>5. CASE \E e \in Envs : \/ \E t \in Trees : insert_exec_env(e, t)
                             \/ reclaim_exec_env(e)
                             \/ bind_work_claim_exec_env(e) \/ release_work_claim(e)
    BY <1>5 DEF insert_exec_env, reclaim_exec_env, bind_work_claim_exec_env,
                release_work_claim, actors
  <1> QED  BY <1>1, <1>2, <1>3, <1>4, <1>5 DEF Elsewhere

LEMMA NextClaims ==
  ASSUME TypeOK, BindingLaw, ClaimLaw, [Next]_vars
  PROVE  ClaimLaw'
  <1>0. /\ LedgerTyped /\ ActorsTyped /\ FilesTyped /\ LeaseMoves
        /\ cleaner \in [Cleaners -> CleanState]
    BY TypeParts, NextLedger, LedgerMovesLeases DEF ActorsTyped
  <1>1. \A c \in Cleaners : cleaner[c].phase # "idle" /\ cleaner[c].env # None =>
          cleaner[c].env \in Envs /\ lease[cleaner[c].env].state \in Settled
    BY <1>0, CleanKinds DEF ClaimLaw
  <1>2. CASE Elsewhere \/ \E e \in Envs : Dispatch(e)
    <2>1. cleaner' = cleaner
      BY <1>2, OtherStepsKeepCleaners
    <2>2. \/ PlainStep
          \/ \E f \in Envs, s \in ExecEnvState : Shift(f, s)
      BY <1>0, <1>2, ElsewhereLedger, DispatchLedger, ReleaseUnfences DEF PlainStep
    <2>3. \A e \in Envs : lease[e].state \in Settled => lease'[e].state \in Settled
      BY <1>0, <2>2, SettledStay
    <2>4. \A c \in Cleaners : cleaner[c] = Idle \/ cleaner[c].phase # "idle"
      BY <1>0, CleanKinds
    <2> QED  BY <1>0, <1>1, <2>1, <2>3, <2>4, ClaimFrame
  <1>3. ASSUME NEW c \in Cleaners, Cleaning(c) PROVE ClaimLaw'
    <2>0. \A d \in Cleaners : cleaner[d] = Idle \/ cleaner[d].phase # "idle"
      BY <1>0, CleanKinds
    <2>1. CASE RecordScrap(c) \/ GitWorktreeRemove(c)
      <3>1. lease' = lease /\ cleaner[c].phase # "idle"
        BY <2>1 DEF RecordScrap, GitWorktreeRemove, ledger
      <3>2. \A d \in Cleaners \ {c} : cleaner'[d] = cleaner[d]
        BY <1>0, <2>1 DEF RecordScrap, GitWorktreeRemove
      <3>3. cleaner'[c].env = cleaner[c].env /\ cleaner'[c].tree = cleaner[c].tree
        <4>1. \E ph : cleaner' = [cleaner EXCEPT ![c].phase = ph]
          BY <2>1 DEF RecordScrap, GitWorktreeRemove
        <4>2. \A ph : [cleaner EXCEPT ![c].phase = ph][c] = [cleaner[c] EXCEPT !.phase = ph]
          BY <1>0
        <4>3. cleaner[c] \in [phase : {"probed", "claimed", "recorded", "removed", "failed"},
                              tree : Trees, env : Envs \cup {None}]
          BY <1>0, <3>1 DEF CleanState, Idle
        <4> QED  BY <4>1, <4>2, <4>3
      <3> QED  BY <1>0, <1>1, <2>0, <3>1, <3>2, <3>3, ClaimFrame
    <2>2. CASE CleanerCrash(c) \/ CompleteRemoval(c) \/ AbortRemoval(c)
      <3>1. cleaner' = [cleaner EXCEPT ![c] = Idle]
        BY <2>2 DEF CleanerCrash, CompleteRemoval, AbortRemoval
      <3>2. \/ PlainStep
            \/ /\ cleaner[c].phase # "idle" /\ cleaner[c].env # None
               /\ abort_exec_env_removal(cleaner[c].env)
        BY <1>1, <2>2 DEF CleanerCrash, CompleteRemoval, AbortRemoval, PlainStep, QuietStep
      <3>3. ASSUME NEW d \in Cleaners \ {c}, cleaner[d].phase # "idle", cleaner[d].env # None
            PROVE  lease'[cleaner[d].env].state \in Settled
        <4>1. cleaner[d].env \in Envs /\ lease[cleaner[d].env].state \in Settled
          BY <1>1, <3>3
        <4>2. CASE PlainStep
          BY <1>0, <4>1, <4>2, SettledStay
        <4>3. CASE /\ cleaner[c].phase # "idle" /\ cleaner[c].env # None
                   /\ abort_exec_env_removal(cleaner[c].env)
          <5>1. cleaner[c].env # cleaner[d].env /\ cleaner[c].env \in Envs
            BY <1>1, <3>3, <4>3 DEF ClaimLaw
          <5> QED  BY <1>0, <4>1, <4>3, <5>1, SettledStay
        <4> QED  BY <3>2, <4>2, <4>3
      <3>4. cleaner'[c] = Idle /\ \A d \in Cleaners \ {c} : cleaner'[d] = cleaner[d]
        BY <1>0, <3>1
      <3> QED  BY <1>0, <2>0, <3>3, <3>4, ClaimFrame
    <2>4. ASSUME NEW t \in Trees, probe_holders(c, t) PROVE ClaimLaw'
      <3>1. lease' = lease
            /\ cleaner' = [cleaner EXCEPT ![c] = [phase |-> "probed", tree |-> t, env |-> None]]
        BY <2>4 DEF probe_holders, ledger
      <3> QED  BY <1>0, <3>1 DEF ClaimLaw
    <2>3. CASE claim_worktree_removal(c)
      <3> DEFINE t == cleaner[c].tree
                 Refused == cleaner' = [cleaner EXCEPT ![c] = Idle] /\ UNCHANGED ledger
      <3>1. CASE Refused
        <4>1. lease' = lease
          BY <3>1 DEF ledger
        <4> QED  BY <1>0, <3>1, <4>1 DEF ClaimLaw, Idle
      <3>2. CASE (AtPath(t) = {} \/ Newest(t) = None) /\ ~ Refused
        <4>1. lease' = lease
              /\ cleaner' = [cleaner EXCEPT ![c] = [phase |-> "claimed", tree |-> t, env |-> None]]
          BY <2>3, <3>2 DEF claim_worktree_removal, ledger
        <4> QED  BY <1>0, <4>1 DEF ClaimLaw
      <3>3. CASE AtPath(t) # {} /\ Newest(t) # None /\ ~ Refused
        <4> DEFINE e == Newest(t)
        <4>0. t \in Trees
          BY <1>0, <2>3, CleanKinds DEF claim_worktree_removal
        <4>1. /\ claim_exec_env_removal_in_tx(e, t)
              /\ cleaner' = [cleaner EXCEPT ![c] = [phase |-> "claimed", tree |-> t, env |-> e]]
          BY <2>3, <3>3 DEF claim_worktree_removal
        <4>2. e \in Envs /\ t \in Locs /\ Bd(e, t) /\ lease[e].state = "active"
          BY <1>0, <4>1, AdmittedPlace DEF claim_exec_env_removal_in_tx, RemovalAdmitted
        <4>3. lease[e].tree = t
          BY <1>0, <4>0, <4>2, BoundHere
        <4>4. lease'[e].state = "removing" /\ lease'[e].tree = t
          <5>1. "removing" \in ExecEnvState
            BY DEF ExecEnvState
          <5> QED  BY <1>0, <4>1, <4>2, <4>3, <5>1, StateOf DEF claim_exec_env_removal_in_tx
        <4>5. \A d \in Cleaners : cleaner[d].phase # "idle" => cleaner[d].env # e
          BY <1>1, <3>3, <4>2 DEF Settled
        <4>6. PlainStep
          BY <4>0, <4>1, <4>2 DEF PlainStep, QuietStep
        <4>7. \A f \in Envs : lease[f].state \in Settled => lease'[f].state \in Settled
          BY <1>0, <4>6, SettledStay
        <4>8. /\ cleaner'[c].env = e /\ cleaner'[c].tree = t
              /\ \A d \in Cleaners \ {c} : cleaner'[d] = cleaner[d]
          BY <1>0, <4>1
        <4>9. \A d \in Cleaners \ {c} : cleaner[d].phase # "idle" /\ cleaner[d].env # None =>
                  lease'[cleaner[d].env].tree = lease[cleaner[d].env].tree
          BY <1>0, <1>1 DEF LeaseMoves, Settled
        <4> HIDE DEF e
        <4> QED  BY <1>1, <4>4, <4>5, <4>7, <4>8, <4>9 DEF ClaimLaw, Settled
      <3> QED  BY <3>1, <3>2, <3>3
    <2> QED  BY <1>3, <2>1, <2>2, <2>3, <2>4 DEF Cleaning
  <1> QED  BY <1>2, <1>3, NextCases

-------------------------------------------------------------------------------
(* Where a dispatch stands. *)

Busy == {"dispatching", "publishing"}

(* How a transaction other than a dispatch moves lease e.                   *)
Course(e) ==
  \/ lease'[e].state = lease[e].state
  \/ /\ lease[e].state = "active" /\ lease'[e].state = "removing"
     /\ \A rid \in BoundBy(e) : res[rid[1]].state = "active"
  \/ lease[e].state \in {"active", "removing"} /\ lease'[e].state = "reclaimed"
  \/ lease[e].state \in {"none", "removing"} /\ lease'[e].state = "active"

LEMMA LeaseCourse ==
  ASSUME LedgerTyped, NEW e \in Envs,
         PlainStep \/ \E f \in Envs : abort_exec_env_removal(f)
  PROVE  Course(e)
  <1>1. ASSUME lease' = lease PROVE Course(e)
    BY <1>1 DEF Course
  <1>2. ASSUME NEW f \in Envs, NEW row, f # e, lease' = [lease EXCEPT ![f] = row]
        PROVE  Course(e)
    BY <1>2 DEF LedgerTyped, Course
  <1>3. ASSUME NEW f \in Envs, NEW s \in ExecEnvState, f # e,
               lease' = [lease EXCEPT ![f].state = s]
        PROVE  Course(e)
    BY <1>3, StateOf DEF Course
  <1>4. ASSUME NEW s \in ExecEnvState, lease' = [lease EXCEPT ![e].state = s]
        PROVE  lease'[e].state = s
    BY <1>4, StateOf
  <1>5. {"removing", "reclaimed", "active"} \subseteq ExecEnvState
    BY DEF ExecEnvState
  <1>6. ASSUME NEW f \in Envs, NEW t \in Trees, claim_exec_env_removal_in_tx(f, t)
        PROVE  Course(e)
    <2>1. CASE f = e
      BY <1>4, <1>5, <1>6, <2>1
         DEF claim_exec_env_removal_in_tx, RemovalAdmitted, ResourcesProveRemoval, Course
    <2> QED  BY <1>3, <1>5, <1>6, <2>1 DEF claim_exec_env_removal_in_tx
  <1>7. ASSUME NEW f \in Envs, complete_exec_env_removal(f) \/ Retire(f) PROVE Course(e)
    <2>1. CASE f = e
      BY <1>4, <1>5, <1>7, <2>1 DEF complete_exec_env_removal, Retire, Course
    <2> QED  BY <1>3, <1>5, <1>7, <2>1 DEF complete_exec_env_removal, Retire
  <1>8. ASSUME NEW f \in Envs, abort_exec_env_removal(f) PROVE Course(e)
    <2>1. CASE f = e
      BY <1>4, <1>5, <1>8, <2>1 DEF abort_exec_env_removal, Course
    <2> QED  BY <1>3, <1>5, <1>8, <2>1 DEF abort_exec_env_removal
  <1>9. ASSUME NEW f \in Envs, NEW t, NEW i, EnterBare(f, t, i) PROVE Course(e)
    <2>1. CASE f = e
      BY <1>9, <2>1 DEF EnterBare, Fresh, Course, LedgerTyped
    <2> QED  BY <1>2, <1>9, <2>1 DEF EnterBare
  <1>10. ASSUME NEW f \in Envs, NEW t, NEW i, NEW L, Enter(f, t, i, L) PROVE Course(e)
    <2>1. CASE f = e
      BY <1>10, <2>1 DEF Enter, Fresh, Course, LedgerTyped
    <2> QED  BY <1>2, <1>10, <2>1 DEF Enter
  <1> QED  BY <1>1, <1>6, <1>7, <1>8, <1>9, <1>10
           DEF PlainStep, QuietStep, ledger, quarantine_resources_atomically, Unfence

(* Only a completed removal lets a lease go of its rows, and only a release *)
(* of the quarantine opens a fenced row.                                    *)
LEMMA RowsKept ==
  ASSUME LedgerTyped, BindingLaw, LedgerStep
  PROVE  /\ \A e \in Envs, l \in Locs : Bd(e, l) /\ lease[e].state # "removing" => Bd(e, l)'
         /\ SealedStep => \A l \in Locs : res[l].state = "quarantined" =>
                                            res'[l].state = "quarantined"
  <1> DEFINE Kept == \A e \in Envs, l \in Locs : Bd(e, l) /\ lease[e].state # "removing" => Bd(e, l)'
             Fenced == \A l \in Locs : res[l].state = "quarantined" =>
                                        res'[l].state = "quarantined"
  <1> SUFFICES Kept /\ (SealedStep => Fenced)
    OBVIOUS
  <1>1. ASSUME live' = live, res' = res PROVE Kept /\ Fenced
    BY <1>1 DEF Bd, Rid
  <1>2. ASSUME NEW S, NEW s \in ResourceState, res' = SetStates(S, s), live' = live
        PROVE  /\ Kept
               /\ (\A l \in Locs : l \in S => res[l].state # "quarantined") => Fenced
    <2>1. \A l \in Locs : /\ res'[l].gen = res[l].gen
                          /\ l \notin S => res'[l] = res[l]
      BY <1>2, StatesSet
    <2>2. Kept
      BY <1>2, <2>1, StillBound
    <2> QED  BY <2>1, <2>2
  <1>3. ASSUME NEW f \in Envs, NEW t \in Trees, claim_exec_env_removal_in_tx(f, t)
        PROVE  Kept /\ Fenced
    <2>1. \A l \in BoundLocs(f) \cap RemovedWith(t) : res[l].state = "active"
      <3>1. \A l \in BoundLocs(f) : Rid(l) \in BoundBy(f) /\ Rid(l)[1] = l
        BY DEF BoundLocs, Rid
      <3> QED  BY <1>3, <3>1
               DEF claim_exec_env_removal_in_tx, RemovalAdmitted, ResourcesProveRemoval
    <2>2. "reclaiming" \in ResourceState
      BY DEF ResourceState
    <2> QED  BY <1>2, <1>3, <2>1, <2>2 DEF claim_exec_env_removal_in_tx
  <1>4. ASSUME NEW f \in Envs, complete_exec_env_removal(f) PROVE Kept /\ Fenced
    <2> DEFINE S == BoundLocs(f) \cap RemovedWith(lease[f].tree)
    <2>0. "reclaimed" \in ResourceState
      BY DEF ResourceState
    <2>1. /\ res' = SetStates(S, "reclaimed") /\ live' = {b \in live : b[1] # f}
          /\ lease[f].state = "removing" /\ \A l \in S : res[l].state = "reclaiming"
      BY <1>4 DEF complete_exec_env_removal, RemovalEvidence
    <2>2. \A l \in Locs : /\ res'[l].gen = res[l].gen
                          /\ l \notin S => res'[l] = res[l]
      BY <2>0, <2>1, StatesSet
    <2>3. Fenced
      BY <2>1, <2>2
    <2>4. \A e, rid : <<e, rid>> \in live /\ e # f => <<e, rid>> \in live'
      BY <2>1
    <2>5. Kept
      BY <2>1, <2>2, <2>4 DEF Bd, Rid
    <2> QED  BY <2>3, <2>5
  <1>5. ASSUME NEW f \in Envs, abort_exec_env_removal(f) PROVE Kept /\ Fenced
    <2>1. "active" \in ResourceState
      BY DEF ResourceState
    <2>2. \A l \in {l \in BoundLocs(f) : res[l].state = "reclaiming"} :
             res[l].state # "quarantined"
      OBVIOUS
    <2> QED  BY <1>2, <1>5, <2>1, <2>2 DEF abort_exec_env_removal
  <1>6. ASSUME NEW f \in Envs, NEW t \in Trees, NEW i, NEW L \in SUBSET Locs, Enter(f, t, i, L)
        PROVE  Kept /\ Fenced
    <2>0. EnterFacts(f, t, i, L)
      BY <1>6, EnterEffect
    <2>1. /\ \A l \in L : /\ res[l].state \in {"none", "active", "reclaimed"}
                          /\ res[l].state = "active" => res'[l].gen = res[l].gen
          /\ \A l \in Locs \ L : res'[l] = res[l]
          /\ live \subseteq live'
      BY <2>0 DEF EnterFacts
    <2>2. ASSUME NEW e \in Envs, NEW l \in Locs, Bd(e, l) PROVE res'[l].gen = res[l].gen
      <3>1. res[l].state \notin {"none", "reclaimed"}
        BY <2>2, BoundHere
      <3> QED  BY <2>1, <3>1
    <2>3. Kept
      BY <2>1, <2>2 DEF Bd, Rid
    <2> QED  BY <2>1, <2>3
  <1>7. ASSUME NEW ids, quarantine_resources_atomically(ids) PROVE Kept /\ Fenced
    <2>1. "quarantined" \in ResourceState
      BY DEF ResourceState
    <2>2. Kept
      BY <1>2, <1>7, <2>1 DEF quarantine_resources_atomically
    <2>3. Fenced
      BY <1>7, <2>1, StatesSet DEF quarantine_resources_atomically
    <2> QED  BY <2>2, <2>3
  <1>8. ASSUME NEW m \in Locs, Unfence(m) PROVE Kept
    <2>1. "active" \in ResourceState
      BY DEF ResourceState
    <2> QED  BY <1>2, <1>8, <2>1 DEF Unfence
  <1> HIDE DEF Kept, Fenced
  <1>9. SealedStep => Kept /\ Fenced
    BY <1>1, <1>3, <1>4, <1>5, <1>6, <1>7
       DEF SealedStep, QuietStep, ledger, Retire, EnterBare, Shift
  <1> QED  BY <1>8, <1>9 DEF LedgerStep, PlainStep, SealedStep

(* Where a dispatch stands says what state its lease is in, and a lease     *)
(* that is being dispatched is bound to its worktree.                       *)
WorkLaw ==
  \A e \in Envs :
    /\ worker[e] \in {"admitted", "running"} => lease[e].state = "dispatching"
    /\ worker[e] = "certified" => lease[e].state = "publishing"
    /\ worker[e] = "fenced" => lease[e].state \in Busy
    /\ lease[e].state \in Busy => Bd(e, lease[e].tree)

(* A dispatch moves its own lease and its own worker only.                  *)
LEMMA DispatchIsLocal ==
  ASSUME TypeOK, NEW e \in Envs, Dispatch(e)
  PROVE  /\ \A f \in Envs \ {e} : lease'[f] = lease[f] /\ worker'[f] = worker[f]
         /\ live' = live
         /\ lease'[e].tree = lease[e].tree
  <1>0. lease \in [Envs -> LeaseRow] /\ worker \in [Envs -> WorkState]
    BY TypeParts DEF LedgerTyped, ActorsTyped
  <1>1. live' = live
    BY DEF Dispatch, resolve_dispatch_env_binding, acquire, release_without_spawn, Spawn,
           begin_publication, complete_publication, fence_abandoned, release_after_fence,
           quarantine_resources_atomically, ledger
  <1>2. \E w : worker' = [worker EXCEPT ![e] = w]
    BY DEF Dispatch, resolve_dispatch_env_binding, acquire, release_without_spawn, Spawn,
           begin_publication, complete_publication, fence_abandoned, release_after_fence
  <1>3. lease' = lease \/ \E s : lease' = [lease EXCEPT ![e].state = s]
    BY DEF Dispatch, resolve_dispatch_env_binding, acquire, release_without_spawn, Spawn,
           begin_publication, complete_publication, fence_abandoned, release_after_fence,
           quarantine_resources_atomically, ledger
  <1>4. \A s : /\ \A f \in Envs \ {e} : [lease EXCEPT ![e].state = s][f] = lease[f]
               /\ [lease EXCEPT ![e].state = s][e].tree = lease[e].tree
    BY <1>0 DEF LeaseRow
  <1> QED  BY <1>0, <1>1, <1>2, <1>3, <1>4

(* What one dispatch does, by the phase it is in.                           *)
DispatchCourse(e) ==
  LET s == lease[e].state
      w == worker[e]
  IN  \/ /\ lease'[e].state = s /\ w = "none" /\ worker'[e] = "resolved"
         /\ res' = res /\ dirty' = dirty
      \/ /\ s = "active" /\ w = "resolved" /\ BoundBy(e) # {}
         /\ \A l \in BoundLocs(e) : res[l].state # "quarantined"
         /\ lease'[e].state = "dispatching" /\ worker'[e] = "admitted"
         /\ res' = res /\ dirty' = dirty
      \/ /\ lease'[e].state = s /\ w = "resolved" /\ worker'[e] = "none"
         /\ res' = res /\ dirty' = dirty
      \/ /\ s = "dispatching" /\ w = "admitted"
         /\ lease'[e].state = "active" /\ worker'[e] = "none"
         /\ res' = res /\ dirty' = dirty
      \/ /\ w = "admitted" /\ lease'[e].state = s /\ worker'[e] = "running"
         /\ res' = res /\ dirty' = dirty \cup {lease[e].tree}
      \/ /\ s = "dispatching" /\ w = "running"
         /\ lease'[e].state = "publishing" /\ worker'[e] = "certified"
         /\ res' = res /\ dirty' = dirty
      \/ /\ s = "publishing" /\ w = "certified"
         /\ lease'[e].state = "active" /\ worker'[e] = "none"
         /\ res' = res /\ dirty' = dirty \ {lease[e].tree}
      \/ /\ s \in Busy /\ w \in {"admitted", "running", "certified"}
         /\ quarantine_resources_atomically(BoundBy(e))
         /\ lease'[e].state = s /\ worker'[e] = "fenced" /\ dirty' = dirty
      \/ /\ s \in Busy /\ w = "fenced"
         /\ lease'[e].state = "active" /\ worker'[e] = "none"
         /\ res' = res /\ dirty' = dirty

LEMMA DispatchCourses ==
  ASSUME TypeOK, NEW e \in Envs, Dispatch(e)
  PROVE  DispatchCourse(e)
  <1>0. LedgerTyped /\ worker \in [Envs -> WorkState]
    BY TypeParts DEF ActorsTyped
  <1>1. \A w : [worker EXCEPT ![e] = w][e] = w
    BY <1>0
  <1>2. /\ [lease EXCEPT ![e].state = "active"][e].state = "active"
        /\ [lease EXCEPT ![e].state = "dispatching"][e].state = "dispatching"
        /\ [lease EXCEPT ![e].state = "publishing"][e].state = "publishing"
    <2>1. {"active", "dispatching", "publishing"} \subseteq ExecEnvState
      BY DEF ExecEnvState
    <2> QED  BY <1>0, <2>1, StateOf
  <1>3. CASE resolve_dispatch_env_binding(e)
    BY <1>1, <1>2, <1>3 DEF resolve_dispatch_env_binding, DispatchCourse, Busy, ledger
  <1>4. CASE acquire(e)
    <2>1. res' = res /\ dirty' = dirty /\ worker[e] = "resolved"
      BY <1>4 DEF acquire
    <2>2. CASE /\ lease[e].state = "active" /\ BoundBy(e) # {}
               /\ \A l \in BoundLocs(e) : res[l].state # "quarantined"
               /\ lease' = [lease EXCEPT ![e].state = "dispatching"]
               /\ worker' = [worker EXCEPT ![e] = "admitted"]
      BY <1>1, <1>2, <2>1, <2>2 DEF DispatchCourse
    <2>3. CASE worker' = [worker EXCEPT ![e] = "none"] /\ lease' = lease
      BY <1>1, <2>1, <2>3 DEF DispatchCourse
    <2> QED  BY <1>4, <2>2, <2>3 DEF acquire
  <1>5. CASE release_without_spawn(e)
    BY <1>1, <1>2, <1>5 DEF release_without_spawn, DispatchCourse, Busy
  <1>6. CASE Spawn(e)
    BY <1>1, <1>2, <1>6 DEF Spawn, DispatchCourse, Busy, ledger
  <1>7. CASE begin_publication(e)
    BY <1>1, <1>2, <1>7 DEF begin_publication, DispatchCourse, Busy
  <1>8. CASE complete_publication(e)
    BY <1>1, <1>2, <1>8 DEF complete_publication, DispatchCourse, Busy
  <1>9. CASE fence_abandoned(e)
    BY <1>1, <1>2, <1>9 DEF fence_abandoned, DispatchCourse, Busy, quarantine_resources_atomically
  <1>10. CASE release_after_fence(e)
    BY <1>1, <1>2, <1>10 DEF release_after_fence, DispatchCourse, Busy
  <1> QED  BY <1>3, <1>4, <1>5, <1>6, <1>7, <1>8, <1>9, <1>10 DEF Dispatch

LEMMA AcquireFindsItsTree ==
  ASSUME LedgerTyped, BindingLaw, NEW e \in Envs, BoundBy(e) # {}
  PROVE  lease[e].tree \in Trees /\ Bd(e, lease[e].tree) /\ lease[e].tree \in BoundLocs(e)
  <1>1. PICK rid \in BoundBy(e) : TRUE
    OBVIOUS
  <1>2. Bd(e, rid[1]) /\ rid[1] \in Locs
    BY <1>1, BoundSomewhere
  <1>3. lease[e].tree \in Trees /\ Bd(e, lease[e].tree)
    BY <1>2, BoundHere
  <1> QED  BY <1>3, BoundByEntries, NoneIsNoPlace

(* Every step is a dispatch or leaves the workers where they are, unless    *)
(* the daemon dies.                                                         *)
LEMMA WorkersStand ==
  ASSUME TypeOK, [Next]_vars, ~ (\E f \in Envs : Dispatch(f))
  PROVE  /\ \A e \in Envs : worker'[e] \in {worker[e], "none"}
         /\ \/ QuietStep
            \/ \E f \in Envs : abort_exec_env_removal(f)
            \/ \E l \in Locs : release_quarantine(l)
  <1>1. \A e \in Envs : worker'[e] \in {worker[e], "none"}
    BY OtherStepsKeepWorkers DEF DaemonCrash
  <1>2. \/ QuietStep
        \/ \E f \in Envs : abort_exec_env_removal(f)
        \/ \E l \in Locs : release_quarantine(l)
    BY TypeParts, NextCases, ElsewhereLedger, CleaningLedger
  <1> QED  BY <1>1, <1>2

LEMMA NextWork ==
  ASSUME TypeOK, BindingLaw, WorkLaw, [Next]_vars
  PROVE  WorkLaw'
  <1>0. /\ LedgerTyped /\ LeaseMoves /\ LedgerStep
    BY TypeParts, NextLedger, LedgerMovesLeases
  <1>1. \A e \in Envs : Bd(e, lease[e].tree) /\ lease[e].tree \in Trees
                          /\ lease[e].state # "removing" => Bd(e, lease[e].tree)'
    <2>1. ASSUME NEW e \in Envs, Bd(e, lease[e].tree), lease[e].tree \in Trees,
                 lease[e].state # "removing"
          PROVE  Bd(e, lease[e].tree)'
      <3>1. lease[e].tree \in Locs
        BY <2>1, NoneIsNoPlace
      <3>2. <<e, <<lease[e].tree, res'[lease[e].tree].gen>>>> \in live'
        BY <1>0, <2>1, <3>1, RowsKept DEF Bd, Rid
      <3>3. lease[e].state # "none"
        BY <1>0, <2>1, <3>1, BoundHere
      <3>4. lease'[e].tree = lease[e].tree
        BY <1>0, <3>3 DEF LeaseMoves
      <3> QED  BY <3>2, <3>4 DEF Bd, Rid
    <2> QED  BY <2>1
  <1>2. \A e \in Envs : lease[e].state \in Busy => lease[e].tree \in Trees
    <2>1. ASSUME NEW e \in Envs, lease[e].state \in Busy PROVE lease[e].tree \in Trees
      <3>1. Bd(e, lease[e].tree)
        BY <2>1 DEF WorkLaw
      <3>2. BoundBy(e) # {}
        BY <1>0, <3>1, BoundByEntries DEF Bd
      <3> QED  BY <1>0, <3>2, AcquireFindsItsTree
    <2> QED  BY <2>1
  <1>3. \A e \in Envs : lease[e].state \in Busy => Bd(e, lease[e].tree)'
    BY <1>1, <1>2 DEF WorkLaw, Busy
  <1>4. ASSUME NEW e \in Envs, Dispatch(e) PROVE WorkLaw'
    <2>0. /\ \A f \in Envs \ {e} : lease'[f] = lease[f] /\ worker'[f] = worker[f]
          /\ DispatchCourse(e)
      BY <1>4, DispatchIsLocal, DispatchCourses
    <2>1. lease[e].state = "active" /\ BoundBy(e) # {} => Bd(e, lease[e].tree)'
      BY <1>0, <1>1, AcquireFindsItsTree
    <2>2. ASSUME NEW f \in Envs
          PROVE  /\ worker'[f] \in {"admitted", "running"} => lease'[f].state = "dispatching"
                 /\ worker'[f] = "certified" => lease'[f].state = "publishing"
                 /\ worker'[f] = "fenced" => lease'[f].state \in Busy
                 /\ lease'[f].state \in Busy => lease[f].state \in Busy
                                                 \/ (f = e /\ lease[e].state = "active"
                                                           /\ BoundBy(e) # {})
      <3>1. CASE f # e
        BY <2>0, <3>1 DEF WorkLaw
      <3>2. CASE f = e
        BY <2>0, <3>2 DEF WorkLaw, DispatchCourse, Busy
      <3> QED  BY <3>1, <3>2
    <2>3. \A f \in Envs : lease'[f].state \in Busy => Bd(f, lease[f].tree)'
      BY <1>3, <2>1, <2>2
    <2> QED  BY <2>2, <2>3 DEF WorkLaw
  <1>5. CASE ~ (\E e \in Envs : Dispatch(e))
    <2>1. \A e \in Envs : worker'[e] \in {worker[e], "none"}
      BY <1>5, WorkersStand
    <2>2. \A e \in Envs : Course(e)
      <3>1. PlainStep \/ \E f \in Envs : abort_exec_env_removal(f)
        BY <1>5, WorkersStand, ReleaseUnfences DEF PlainStep
      <3> QED  BY <1>0, <3>1, LeaseCourse
    <2>3. \A e \in Envs : lease[e].state \in Busy \/ lease'[e].state \in Busy
                            => lease'[e].state = lease[e].state
      BY <2>2 DEF Course, Busy
    <2>4. \A f \in Envs : lease'[f].state \in Busy => Bd(f, lease[f].tree)'
      BY <1>3, <2>3
    <2>5. \A f \in Envs :
                 /\ worker'[f] \in {"admitted", "running"} => lease'[f].state = "dispatching"
                 /\ worker'[f] = "certified" => lease'[f].state = "publishing"
                 /\ worker'[f] = "fenced" => lease'[f].state \in Busy
      BY <2>1, <2>3 DEF WorkLaw, Busy
    <2> QED  BY <2>4, <2>5 DEF WorkLaw
  <1> QED  BY <1>4, <1>5

-------------------------------------------------------------------------------
(* Uncertified output. *)

(* Who answers for it: the lease bound to the tree, which is not open to a  *)
(* dispatch unless the row is fenced.                                       *)
Answers(e, t) ==
  /\ Bd(e, t)
  /\ lease[e].state # "removing"
  /\ worker[e] # "admitted"
  /\ lease[e].state = "active" \/ worker[e] = "fenced" => res[t].state = "quarantined"

DirtLaw == \A t \in dirty : \E e \in Envs : Answers(e, t)

(* Only a dispatch makes output. *)
LEMMA OtherStepsMakeNoOutput ==
  ASSUME [Next]_vars, ~ (\E f \in Envs : Dispatch(f))
  PROVE  dirty' \subseteq dirty
  <1>1. CASE \E p \in Provisioners : Provisioning(p)
    BY <1>1 DEF Provisioning, open_worktree, publish_exec_env_atomically, RetainUnpublished,
                ConfirmIdentity, quarantine_lease_resources
  <1>2. CASE \E c \in Cleaners : Cleaning(c)
    BY <1>2 DEF Cleaning, probe_holders, claim_worktree_removal, RecordScrap, GitWorktreeRemove,
                CompleteRemoval, AbortRemoval, CleanerCrash
  <1>3. CASE Sweeping
    BY <1>3 DEF Sweeping, SweepSeesAbsent, prepare_stale_exec_env_reclaim,
                SweepConfirmsAbsent, SweepCompletes
  <1>4. CASE \/ \E l \in Locs : release_quarantine(l)
             \/ \E t \in Trees : TreeVanishes(t)
             \/ UNCHANGED vars \/ DaemonCrash
    BY <1>4 DEF release_quarantine, TreeVanishes, vars, DaemonCrash
  <1>5. CASE \E e \in Envs : \/ \E t \in Trees : insert_exec_env(e, t)
                             \/ reclaim_exec_env(e)
                             \/ bind_work_claim_exec_env(e) \/ release_work_claim(e)
    BY <1>5 DEF insert_exec_env, reclaim_exec_env, bind_work_claim_exec_env,
                release_work_claim
  <1> QED  BY <1>1, <1>2, <1>3, <1>4, <1>5 DEF Next

(* A step that keeps a dirty tree dirty keeps someone who answers for it.   *)
LEMMA AnswersKept ==
  ASSUME TypeOK, BindingLaw, [Next]_vars, NEW e \in Envs, NEW t \in Trees, t \in dirty',
         Answers(e, t)
  PROVE  Answers(e, t)'
  <1>0. LedgerTyped /\ LedgerStep /\ t \in Locs
    BY TypeParts, NextLedger, NoneIsNoPlace
  <1>1. /\ Bd(e, t) /\ lease[e].state # "removing" /\ worker[e] # "admitted"
        /\ lease[e].state = "active" \/ worker[e] = "fenced" => res[t].state = "quarantined"
    BY DEF Answers
  <1>2. Bd(e, t)'
    <2>1. <<e, <<t, res'[t].gen>>>> \in live'
      BY <1>0, <1>1, RowsKept DEF Bd, Rid
    <2> QED  BY <2>1 DEF Bd, Rid
  <1>3. lease[e].tree = t /\ lease[e].state # "none"
    BY <1>0, <1>1, BoundHere
  <1>4. Rid(t) \in BoundBy(e) /\ t \in BoundLocs(e) /\ Rid(t)[1] = t
    BY <1>0, <1>1, BoundByEntries DEF Bd, Rid
  <1>5. CASE ~ (\E f \in Envs : Dispatch(f))
    <2>1. /\ worker'[e] \in {worker[e], "none"}
          /\ \/ QuietStep
             \/ \E f \in Envs : abort_exec_env_removal(f)
             \/ \E l \in Locs : release_quarantine(l)
      BY <1>5, WorkersStand
    <2>2. Course(e)
      <3>1. PlainStep \/ \E f \in Envs : abort_exec_env_removal(f)
        BY <2>1, ReleaseUnfences DEF PlainStep
      <3> QED  BY <1>0, <3>1, LeaseCourse
    <2>3. lease'[e].state \in {lease[e].state, "reclaimed"}
      <3>1. ASSUME lease[e].state = "active", lease'[e].state = "removing",
                   \A rid \in BoundBy(e) : res[rid[1]].state = "active"
            PROVE  FALSE
        BY <1>1, <1>4, <3>1
      <3> QED  BY <1>1, <1>3, <2>2, <3>1 DEF Course
    <2>4. res[t].state = "quarantined" => res'[t].state = "quarantined"
      <3>1. CASE SealedStep
        BY <1>0, <3>1, RowsKept
      <3>2. ASSUME NEW l \in Locs, release_quarantine(l)
            PROVE  res[t].state = "quarantined" => res'[t].state = "quarantined"
        <4>1. l # t
          BY <3>2 DEF release_quarantine
        <4>2. "active" \in ResourceState
          BY DEF ResourceState
        <4> QED  BY <1>0, <3>2, <4>1, <4>2, StatesSet DEF release_quarantine
      <3> QED  BY <2>1, <3>1, <3>2 DEF SealedStep
    <2>5. worker'[e] # "admitted" /\ (worker'[e] = "fenced" => worker[e] = "fenced")
      BY <1>1, <2>1
    <2> QED  BY <1>1, <1>2, <2>3, <2>4, <2>5 DEF Answers
  <1>6. ASSUME NEW f \in Envs, Dispatch(f) PROVE Answers(e, t)'
    <2>0. SealedStep
      BY <1>0, <1>6, TypeParts, DispatchLedger, ReleaseUnfences DEF SealedStep
    <2>1. res[t].state = "quarantined" => res'[t].state = "quarantined"
      BY <1>0, <2>0, RowsKept
    <2>2. CASE f # e
      <3>1. lease'[e] = lease[e] /\ worker'[e] = worker[e]
        BY <1>6, <2>2, DispatchIsLocal
      <3> QED  BY <1>1, <1>2, <2>1, <3>1 DEF Answers
    <2>3. CASE f = e
      <3>1. DispatchCourse(e)
        BY <1>6, <2>3, DispatchCourses
      <3>2. quarantine_resources_atomically(BoundBy(e)) => res'[t].state = "quarantined"
        <4>1. "quarantined" \in ResourceState
          BY DEF ResourceState
        <4>2. t \in {rid[1] : rid \in BoundBy(e)}
          BY <1>4
        <4> QED  BY <1>0, <4>1, <4>2, StatesSet DEF quarantine_resources_atomically
      <3>3. /\ lease'[e].state # "removing" /\ worker'[e] # "admitted"
            /\ lease'[e].state = "active" \/ worker'[e] = "fenced" => res'[t].state = "quarantined"
        BY <1>1, <1>3, <1>4, <2>1, <3>1, <3>2 DEF DispatchCourse, Busy
      <3> QED  BY <1>2, <3>3 DEF Answers
    <2> QED  BY <2>2, <2>3
  <1> QED  BY <1>5, <1>6

LEMMA NextDirt ==
  ASSUME TypeOK, BindingLaw, WorkLaw, DirtLaw, [Next]_vars
  PROVE  DirtLaw'
  <1>0. dirty \subseteq Trees
    BY TypeParts DEF FilesTyped
  <1>1. ASSUME NEW t \in dirty, t \in dirty' PROVE \E e \in Envs : Answers(e, t)'
    <2>1. PICK e \in Envs : Answers(e, t)
      BY DEF DirtLaw
    <2>2. Answers(e, t)'
      BY <1>0, <1>1, <2>1, AnswersKept
    <2> QED  BY <2>2
  <1>2. ASSUME NEW t \in dirty', t \notin dirty PROVE \E e \in Envs : Answers(e, t)'
    <2>1. PICK e \in Envs : Dispatch(e)
      BY <1>2, OtherStepsMakeNoOutput
    <2>2. /\ worker[e] = "admitted" /\ worker'[e] = "running" /\ t = lease[e].tree
          /\ lease'[e].state = lease[e].state /\ res' = res /\ live' = live
      BY <1>2, <2>1, DispatchCourses, DispatchIsLocal DEF DispatchCourse
    <2>3. lease[e].state = "dispatching" /\ Bd(e, t)
      BY <2>2 DEF WorkLaw, Busy
    <2>4. Bd(e, t)'
      BY <2>2, <2>3 DEF Bd, Rid
    <2> QED  BY <2>2, <2>3, <2>4 DEF Answers
  <1> QED  BY <1>1, <1>2 DEF DirtLaw

(* A dispatch is admitted to no dirty tree. *)
LEMMA AdmittedTreeIsClean ==
  ASSUME TypeOK, BindingLaw, DirtLaw, [Next]_vars, NEW e \in Envs,
         lease[e].state = "active", lease'[e].state = "dispatching"
  PROVE  lease[e].tree \notin dirty
  <1>0. LedgerTyped
    BY TypeParts
  <1>1. PICK f \in Envs : Dispatch(f)
    <2>1. ASSUME ~ (\E f \in Envs : Dispatch(f)) PROVE FALSE
      <3>1. PlainStep \/ \E f \in Envs : abort_exec_env_removal(f)
        BY <2>1, WorkersStand, ReleaseUnfences DEF PlainStep
      <3>2. Course(e)
        BY <1>0, <3>1, LeaseCourse
      <3> QED  BY <3>2 DEF Course
    <2> QED  BY <2>1
  <1>2. f = e
    BY <1>1, DispatchIsLocal
  <1>3. /\ BoundBy(e) # {}
        /\ \A l \in BoundLocs(e) : res[l].state # "quarantined"
    BY <1>1, <1>2, DispatchCourses DEF DispatchCourse, Busy
  <1>4. /\ lease[e].tree \in Trees /\ Bd(e, lease[e].tree)
        /\ res[lease[e].tree].state # "quarantined"
    BY <1>0, <1>3, AcquireFindsItsTree
  <1>5. ASSUME lease[e].tree \in dirty PROVE FALSE
    <2>1. PICK g \in Envs : Answers(g, lease[e].tree)
      BY <1>5 DEF DirtLaw
    <2>2. g = e
      BY <1>0, <1>4, <2>1, BoundHere, NoneIsNoPlace DEF Answers
    <2> QED  BY <1>4, <2>1, <2>2 DEF Answers
  <1> QED  BY <1>5

-------------------------------------------------------------------------------
(* The directories that removals free. *)

(* What e published is not on disk. *)
Gone(e) == lease[e].booked => ~ OnDisk(e)

(* An incarnation is made once, and what a removal completes was deleted.   *)
DiskLaw ==
  /\ \A t \in Trees : disk[t] <= opens
  /\ \A e \in Envs : /\ lease[e].inc <= opens
                     /\ lease[e].booked => /\ lease[e].inc >= 1
                                           /\ lease[e].tree \in Trees
                                           /\ lease[e].state # "none"
  /\ \A p \in Provisioners : prov[p].phase = "opened" => prov[p].inc <= opens
  /\ \A c \in Cleaners : cleaner[c].phase = "removed" /\ cleaner[c].env # None
                           => Gone(cleaner[c].env)
  /\ sweeper.phase # "idle" => lease[sweeper.env].state # "none"
  /\ sweeper.phase = "confirmed" => Gone(sweeper.env)

(* How a step moves the directories. *)
LEMMA DiskMoves ==
  ASSUME TypeOK, [Next]_vars
  PROVE  /\ opens' \in {opens, opens + 1}
         /\ \A t \in Trees : \/ disk'[t] \in {disk[t], 0}
                             \/ disk'[t] = opens + 1 /\ opens' = opens + 1
  <1>0. disk \in [Trees -> 0 .. MaxOpens]
    BY TypeParts DEF FilesTyped
  <1> DEFINE Moved == /\ opens' \in {opens, opens + 1}
                      /\ \A t \in Trees : \/ disk'[t] \in {disk[t], 0}
                                          \/ disk'[t] = opens + 1 /\ opens' = opens + 1
  <1> SUFFICES Moved
    OBVIOUS
  <1>1. ASSUME disk' = disk, opens' = opens PROVE Moved
    BY <1>1
  <1>2. ASSUME NEW t, disk' = [disk EXCEPT ![t] = 0], opens' = opens PROVE Moved
    BY <1>0, <1>2
  <1>3. ASSUME NEW t, disk' = [disk EXCEPT ![t] = opens + 1], opens' = opens + 1 PROVE Moved
    BY <1>0, <1>3
  <1> HIDE DEF Moved
  <1>4. CASE \E p \in Provisioners : Provisioning(p)
    <2>1. \/ disk' = disk /\ opens' = opens
          \/ \E t : disk' = [disk EXCEPT ![t] = opens + 1] /\ opens' = opens + 1
      BY <1>4 DEF Provisioning, open_worktree, publish_exec_env_atomically, RetainUnpublished,
                  ConfirmIdentity, quarantine_lease_resources, files
    <2> QED  BY <1>1, <1>3, <2>1
  <1>5. CASE \E c \in Cleaners : Cleaning(c)
    <2>1. /\ opens' = opens
          /\ disk' = disk \/ \E t : disk' = [disk EXCEPT ![t] = 0]
      BY <1>5 DEF Cleaning, probe_holders, claim_worktree_removal, RecordScrap, GitWorktreeRemove,
                  CompleteRemoval, AbortRemoval, CleanerCrash, files
    <2> QED  BY <1>1, <1>2, <2>1
  <1>6. CASE Sweeping
    <2>1. disk' = disk /\ opens' = opens
      BY <1>6 DEF Sweeping, SweepSeesAbsent, prepare_stale_exec_env_reclaim,
                  SweepConfirmsAbsent, SweepCompletes, files
    <2> QED  BY <1>1, <2>1
  <1>7. CASE \E e \in Envs : Dispatch(e)
    <2>1. disk' = disk /\ opens' = opens
      BY <1>7 DEF Dispatch, resolve_dispatch_env_binding, acquire, release_without_spawn, Spawn,
           begin_publication, complete_publication, fence_abandoned, release_after_fence, files
    <2> QED  BY <1>1, <2>1
  <1>8. CASE \E t \in Trees : TreeVanishes(t)
    BY <1>2, <1>8 DEF TreeVanishes
  <1>9. CASE \/ \E l \in Locs : release_quarantine(l)
             \/ \E e \in Envs : \/ \E t \in Trees : insert_exec_env(e, t)
                                \/ reclaim_exec_env(e)
                                \/ bind_work_claim_exec_env(e) \/ release_work_claim(e)
             \/ UNCHANGED vars \/ DaemonCrash
    <2>1. disk' = disk /\ opens' = opens
      BY <1>9 DEF release_quarantine, vars, files, DaemonCrash, insert_exec_env,
           reclaim_exec_env, bind_work_claim_exec_env, release_work_claim
    <2> QED  BY <1>1, <2>1
  <1> QED  BY <1>4, <1>5, <1>6, <1>7, <1>8, <1>9 DEF Next

(* What is gone stays gone: a new directory has a new incarnation.          *)
LEMMA GoneStays ==
  ASSUME TypeOK, DiskLaw, LeaseMoves, [Next]_vars, NEW e \in Envs,
         lease[e].state # "none", Gone(e)
  PROVE  Gone(e)'
  <1>0. /\ disk \in [Trees -> 0 .. MaxOpens] /\ opens \in 0 .. MaxOpens
        /\ lease[e].inc \in 0 .. MaxOpens
    BY TypeParts DEF FilesTyped, LedgerTyped, LeaseRow
  <1>1. /\ lease'[e].tree = lease[e].tree /\ lease'[e].inc = lease[e].inc
        /\ lease'[e].booked = lease[e].booked
    BY DEF LeaseMoves
  <1>2. ASSUME lease[e].booked, disk'[lease[e].tree] = lease[e].inc PROVE FALSE
    <2>1. /\ lease[e].inc >= 1 /\ lease[e].inc <= opens /\ lease[e].tree \in Trees
      BY <1>2 DEF DiskLaw
    <2>2. disk[lease[e].tree] # lease[e].inc
      BY <1>2 DEF Gone, OnDisk
    <2>3. disk'[lease[e].tree] \in {disk[lease[e].tree], 0, opens + 1}
      BY <2>1, DiskMoves
    <2> QED  BY <1>0, <1>2, <2>1, <2>2, <2>3, BoundsAssumption
  <1> QED  BY <1>1, <1>2 DEF Gone, OnDisk

(* A lease gets its incarnation when it is published or inserted.           *)
LEMMA LeaseIncarnations ==
  ASSUME TypeOK, DiskLaw, [Next]_vars, NEW e \in Envs
  PROVE  \/ /\ lease[e].state # "none" \/ lease'[e] = lease[e]
            /\ lease'[e].inc = lease[e].inc /\ lease'[e].booked = lease[e].booked
         \/ /\ lease'[e].inc <= opens /\ lease'[e].state = "active"
            /\ lease'[e].booked => /\ lease'[e].inc >= 1 /\ lease'[e].tree \in Trees
                                   /\ \E rid : <<e, rid>> \in live'
  <1> DEFINE Same == /\ lease[e].state # "none" \/ lease'[e] = lease[e]
                     /\ lease'[e].inc = lease[e].inc /\ lease'[e].booked = lease[e].booked
             New == /\ lease'[e].inc <= opens /\ lease'[e].state = "active"
                    /\ lease'[e].booked => /\ lease'[e].inc >= 1 /\ lease'[e].tree \in Trees
                                           /\ \E rid : <<e, rid>> \in live'
  <1> SUFFICES Same \/ New
    OBVIOUS
  <1>0. LedgerTyped /\ ActorsTyped /\ FilesTyped /\ LeaseMoves
    BY TypeParts, NextLedger, LedgerMovesLeases
  <1>1. CASE lease[e].state # "none"
    BY <1>0, <1>1 DEF LeaseMoves
  <1>2. ASSUME lease'[e] = lease[e] PROVE Same
    BY <1>2
  <1>3. ASSUME NEW p \in Provisioners, NEW f \in Envs, NEW T \in SUBSET Targets,
               publish_exec_env_atomically(p, f, T)
        PROVE  Same \/ New
    <2>1. /\ prov[p].tree \in Trees /\ prov[p].inc \in 1 .. MaxOpens /\ prov[p].inc <= opens
      BY <1>0, <1>3, ProvKinds DEF publish_exec_env_atomically, DiskLaw
    <2>2. {prov[p].tree} \cup T \in SUBSET Locs
      BY <2>1 DEF Locs
    <2>3. EnterFacts(f, prov[p].tree, prov[p].inc, {prov[p].tree} \cup T)
      BY <1>0, <1>3, <2>1, <2>2, PublishEnters, EnterEffect
    <2>4. CASE f # e
      BY <2>3, <2>4, <1>2 DEF EnterFacts
    <2>5. CASE f = e
      <3>1. lease'[e] = [state |-> "active", tree |-> prov[p].tree, inc |-> prov[p].inc,
                         booked |-> TRUE]
        BY <2>3, <2>5 DEF EnterFacts
      <3>2. <<e, <<prov[p].tree, res'[prov[p].tree].gen>>>> \in live'
        BY <2>3, <2>5 DEF EnterFacts
      <3>3. prov[p].inc >= 1
        BY <2>1, BoundsAssumption
      <3>4. \E rid : <<e, rid>> \in live'
        BY <3>2
      <3>5. /\ lease'[e].state = "active" /\ lease'[e].tree = prov[p].tree
            /\ lease'[e].inc = prov[p].inc
        BY <3>1
      <3> QED  BY <2>1, <3>3, <3>4, <3>5
    <2> QED  BY <2>4, <2>5
  <1>4. ASSUME NEW f \in Envs, NEW t \in Trees, insert_exec_env(f, t) PROVE Same \/ New
    <2>1. CASE f # e
      BY <1>0, <1>4, <2>1 DEF insert_exec_env, LedgerTyped
    <2>2. CASE f = e
      <3>1. lease'[e] = [state |-> "active", tree |-> t, inc |-> disk[t], booked |-> FALSE]
        BY <1>0, <1>4, <2>2 DEF insert_exec_env, LedgerTyped
      <3>2. lease'[e].state = "active" /\ lease'[e].inc = disk[t] /\ ~ lease'[e].booked
        BY <3>1
      <3>3. disk[t] <= opens
        BY DEF DiskLaw
      <3> QED  BY <3>2, <3>3
    <2> QED  BY <2>1, <2>2
  <1>5. ASSUME lease[e].state = "none", NEW f, NEW s, lease[f].state # "none",
               lease' = [lease EXCEPT ![f].state = s]
        PROVE  Same
    <2>1. f # e
      BY <1>5
    <2> QED  BY <1>0, <1>2, <1>5, <2>1 DEF LedgerTyped
  <1> HIDE DEF Same, New
  <1>6. CASE \E p \in Provisioners : Provisioning(p)
    <2>1. ASSUME lease' = lease PROVE Same
      BY <1>2, <2>1
    <2>2. PICK p \in Provisioners : Provisioning(p)
      BY <1>6
    <2>3. \/ lease' = lease
          \/ \E f \in Envs, T \in SUBSET Targets : publish_exec_env_atomically(p, f, T)
      <3>1. {} \in SUBSET Targets /\ \A x \in Targets : {x} \in SUBSET Targets
        OBVIOUS
      <3> QED  BY <2>2, <3>1
               DEF Provisioning, open_worktree, RetainUnpublished, ConfirmIdentity,
                   quarantine_lease_resources, quarantine_resources_atomically, ledger
    <2> QED  BY <1>3, <2>1, <2>3
  <1>7. CASE \E f \in Envs, t \in Trees : insert_exec_env(f, t)
    BY <1>4, <1>7
  <1>8. ASSUME lease[e].state = "none",
               lease' = lease \/ \E f, s : /\ lease[f].state # "none"
                                          /\ lease' = [lease EXCEPT ![f].state = s]
        PROVE  Same
    BY <1>2, <1>5, <1>8
  <1>9. CASE \E f \in Envs : Dispatch(f)
    <2>1. lease' = lease \/ \E f, s : /\ lease[f].state # "none"
                                      /\ lease' = [lease EXCEPT ![f].state = s]
      BY <1>9 DEF Dispatch, resolve_dispatch_env_binding, acquire, release_without_spawn, Spawn,
           begin_publication, complete_publication, fence_abandoned, release_after_fence,
           quarantine_resources_atomically, ledger
    <2> QED  BY <1>1, <1>8, <2>1
  <1>10. CASE \E c \in Cleaners : Cleaning(c)
    <2>1. lease' = lease \/ \E f, s : /\ lease[f].state # "none"
                                      /\ lease' = [lease EXCEPT ![f].state = s]
      BY <1>10 DEF Cleaning, probe_holders, claim_worktree_removal, RecordScrap, GitWorktreeRemove,
           CompleteRemoval, AbortRemoval, CleanerCrash, claim_exec_env_removal_in_tx,
           RemovalAdmitted, complete_exec_env_removal, abort_exec_env_removal, ledger
    <2> QED  BY <1>1, <1>8, <2>1
  <1>11. CASE Sweeping
    <2>1. lease' = lease \/ \E f, s : /\ lease[f].state # "none"
                                      /\ lease' = [lease EXCEPT ![f].state = s]
      BY <1>11 DEF Sweeping, SweepSeesAbsent, prepare_stale_exec_env_reclaim,
           SweepConfirmsAbsent, SweepCompletes, claim_exec_env_removal_in_tx,
           RemovalAdmitted, complete_exec_env_removal, ledger
    <2> QED  BY <1>1, <1>8, <2>1
  <1>12. CASE \E f \in Envs : \/ reclaim_exec_env(f)
                               \/ bind_work_claim_exec_env(f) \/ release_work_claim(f)
    <2>1. lease' = lease \/ \E f, s : /\ lease[f].state # "none"
                                      /\ lease' = [lease EXCEPT ![f].state = s]
      BY <1>12 DEF reclaim_exec_env, bind_work_claim_exec_env, release_work_claim, ledger
    <2> QED  BY <1>1, <1>8, <2>1
  <1>13. CASE \/ DaemonCrash
              \/ \E l \in Locs : release_quarantine(l)
              \/ \E t \in Trees : TreeVanishes(t)
              \/ UNCHANGED vars
    BY <1>2, <1>13 DEF DaemonCrash, release_quarantine, TreeVanishes, vars, ledger
  <1> QED  BY <1>6, <1>7, <1>9, <1>10, <1>11, <1>12, <1>13 DEF Next

(* Bindings go only with a completed removal, of a cleaner that deleted the *)
(* tree or of the sweep that found it absent.                               *)
LEMMA BindingsGo ==
  ASSUME [Next]_vars
  PROVE  \/ live \subseteq live'
         \/ /\ \/ \E c \in Cleaners : /\ cleaner[c].phase = "removed" /\ cleaner[c].env # None
                                        /\ live' = {b \in live : b[1] # cleaner[c].env}
            \/ /\ sweeper.phase = "confirmed" /\ live' = {b \in live : b[1] # sweeper.env}
  <1>1. CASE \E p \in Provisioners : Provisioning(p)
    BY <1>1 DEF Provisioning, open_worktree, publish_exec_env_atomically, RetainUnpublished,
                ConfirmIdentity, quarantine_lease_resources, quarantine_resources_atomically,
                ledger
  <1>2. CASE \E e \in Envs : Dispatch(e)
    BY <1>2 DEF Dispatch, resolve_dispatch_env_binding, acquire, release_without_spawn, Spawn,
           begin_publication, complete_publication, fence_abandoned, release_after_fence,
           quarantine_resources_atomically, ledger
  <1>3. CASE \E c \in Cleaners : Cleaning(c)
    BY <1>3 DEF Cleaning, probe_holders, claim_worktree_removal, RecordScrap, GitWorktreeRemove,
           CompleteRemoval, AbortRemoval, CleanerCrash, claim_exec_env_removal_in_tx,
           complete_exec_env_removal, abort_exec_env_removal, ledger
  <1>4. CASE Sweeping
    BY <1>4 DEF Sweeping, SweepSeesAbsent, prepare_stale_exec_env_reclaim,
           SweepConfirmsAbsent, SweepCompletes, claim_exec_env_removal_in_tx,
           complete_exec_env_removal, ledger
  <1>5. CASE \/ \E l \in Locs : release_quarantine(l)
             \/ \E e \in Envs : \/ \E t \in Trees : insert_exec_env(e, t)
                                \/ reclaim_exec_env(e)
                                \/ bind_work_claim_exec_env(e) \/ release_work_claim(e)
             \/ \E t \in Trees : TreeVanishes(t)
             \/ UNCHANGED vars \/ DaemonCrash
    BY <1>5 DEF release_quarantine, vars, ledger, DaemonCrash, insert_exec_env, reclaim_exec_env,
           bind_work_claim_exec_env, release_work_claim, TreeVanishes
  <1> QED  BY <1>1, <1>2, <1>3, <1>4, <1>5 DEF Next

(* Who moves a provisioning call, a cleaner and the sweep.                  *)
LEMMA ProvisioningMoves ==
  ASSUME ActorsTyped, NEW q \in Provisioners, Provisioning(q), NEW p \in Provisioners,
         prov'[p].phase = "opened"
  PROVE  prov'[p] = prov[p] \/ (prov'[p].inc = opens + 1 /\ opens' = opens + 1)
  <1>0. prov \in [Provisioners -> ProvState] /\ Idle.phase # "opened"
    BY DEF ActorsTyped, Idle
  <1>1. ASSUME NEW v, prov' = [prov EXCEPT ![q] = v], v.phase # "opened"
        PROVE  prov'[p] = prov[p]
    BY <1>0, <1>1
  <1>2. ASSUME NEW t \in Trees, open_worktree(q, t)
        PROVE  prov'[p] = prov[p] \/ (prov'[p].inc = opens + 1 /\ opens' = opens + 1)
    BY <1>0, <1>2 DEF open_worktree
  <1>3. ASSUME NEW e, NEW T, publish_exec_env_atomically(q, e, T) PROVE prov'[p] = prov[p]
    BY <1>1, <1>3 DEF publish_exec_env_atomically
  <1>4. CASE RetainUnpublished(q) \/ quarantine_lease_resources(q)
    BY <1>0, <1>1, <1>4 DEF RetainUnpublished, quarantine_lease_resources
  <1>5. CASE ConfirmIdentity(q)
    <2>1. \/ prov' = [prov EXCEPT ![q] = Idle]
          \/ prov' = [prov EXCEPT ![q] = [phase |-> "fencing", ids |-> BoundBy(prov[q].env)]]
      BY <1>5 DEF ConfirmIdentity
    <2> QED  BY <1>0, <1>1, <2>1
  <1> QED  BY <1>2, <1>3, <1>4, <1>5 DEF Provisioning

LEMMA OtherStepsKeepProvisioning ==
  ASSUME [Next]_vars, NEW p \in Provisioners, prov'[p].phase = "opened"
  PROVE  prov' = prov \/ \E q \in Provisioners : Provisioning(q)
  <1>1. CASE \/ \E e \in Envs : Dispatch(e)
    BY <1>1 DEF Dispatch, resolve_dispatch_env_binding, acquire, release_without_spawn, Spawn,
           begin_publication, complete_publication, fence_abandoned, release_after_fence
  <1>2. CASE \E c \in Cleaners : Cleaning(c)
    BY <1>2 DEF Cleaning, probe_holders, claim_worktree_removal, RecordScrap, GitWorktreeRemove,
                CompleteRemoval, AbortRemoval, CleanerCrash
  <1>3. CASE Sweeping
    BY <1>3 DEF Sweeping, SweepSeesAbsent, prepare_stale_exec_env_reclaim,
                SweepConfirmsAbsent, SweepCompletes
  <1>4. CASE DaemonCrash
    BY <1>4 DEF DaemonCrash, Idle
  <1>5. CASE \/ \E l \in Locs : release_quarantine(l)
             \/ \E t \in Trees : TreeVanishes(t)
             \/ UNCHANGED vars
    BY <1>5 DEF release_quarantine, TreeVanishes, actors, vars
  <1>6. CASE \E e \in Envs : \/ \E t \in Trees : insert_exec_env(e, t)
                             \/ reclaim_exec_env(e)
                             \/ bind_work_claim_exec_env(e) \/ release_work_claim(e)
    BY <1>6 DEF insert_exec_env, reclaim_exec_env, bind_work_claim_exec_env,
                release_work_claim, actors
  <1> QED  BY <1>1, <1>2, <1>3, <1>4, <1>5, <1>6 DEF Next

LEMMA OtherStepsKeepTheSweep ==
  ASSUME [Next]_vars
  PROVE  sweeper' = sweeper \/ Sweeping
  <1>1. CASE \E p \in Provisioners : Provisioning(p)
    BY <1>1 DEF Provisioning, open_worktree, publish_exec_env_atomically, RetainUnpublished,
                ConfirmIdentity, quarantine_lease_resources
  <1>2. CASE \E e \in Envs : Dispatch(e)
    BY <1>2 DEF Dispatch, resolve_dispatch_env_binding, acquire, release_without_spawn, Spawn,
           begin_publication, complete_publication, fence_abandoned, release_after_fence
  <1>3. CASE \E c \in Cleaners : Cleaning(c)
    BY <1>3 DEF Cleaning, probe_holders, claim_worktree_removal, RecordScrap, GitWorktreeRemove,
                CompleteRemoval, AbortRemoval, CleanerCrash
  <1>4. CASE \/ \E l \in Locs : release_quarantine(l)
             \/ \E t \in Trees : TreeVanishes(t)
             \/ UNCHANGED vars \/ DaemonCrash
    BY <1>4 DEF release_quarantine, TreeVanishes, actors, vars, DaemonCrash
  <1>5. CASE \E e \in Envs : \/ \E t \in Trees : insert_exec_env(e, t)
                             \/ reclaim_exec_env(e)
                             \/ bind_work_claim_exec_env(e) \/ release_work_claim(e)
    BY <1>5 DEF insert_exec_env, reclaim_exec_env, bind_work_claim_exec_env,
                release_work_claim, actors
  <1> QED  BY <1>1, <1>2, <1>3, <1>4, <1>5 DEF Next

(* A removal is seen through by git's success and by nothing else.          *)
LEMMA CleaningMoves ==
  ASSUME ActorsTyped, [Next]_vars, NEW c \in Cleaners, cleaner'[c].phase = "removed"
  PROVE  \/ cleaner'[c] = cleaner[c]
         \/ /\ GitWorktreeRemove(c) /\ disk' = [disk EXCEPT ![cleaner[c].tree] = 0]
            /\ cleaner'[c].env = cleaner[c].env /\ lease' = lease
  <1>0. cleaner \in [Cleaners -> CleanState] /\ Idle.phase # "removed"
    BY DEF ActorsTyped, Idle
  <1>1. CASE Elsewhere \/ \E e \in Envs : Dispatch(e)
    BY <1>1, OtherStepsKeepCleaners
  <1>2. ASSUME NEW d \in Cleaners, Cleaning(d), d # c PROVE cleaner'[c] = cleaner[c]
    BY <1>0, <1>2 DEF Cleaning, probe_holders, claim_worktree_removal, RecordScrap, GitWorktreeRemove,
                      CompleteRemoval, AbortRemoval, CleanerCrash
  <1>3. ASSUME Cleaning(c)
        PROVE  /\ GitWorktreeRemove(c) /\ disk' = [disk EXCEPT ![cleaner[c].tree] = 0]
               /\ cleaner'[c].env = cleaner[c].env /\ lease' = lease
    <2>1. \A v : [cleaner EXCEPT ![c] = v][c] = v
      BY <1>0
    <2>2. ~ (claim_worktree_removal(c) \/ \E t \in Trees : probe_holders(c, t))
      BY <1>0, <2>1 DEF claim_worktree_removal, probe_holders
    <2>3. ~ (CompleteRemoval(c) \/ AbortRemoval(c) \/ CleanerCrash(c))
      BY <1>0, <2>1 DEF CompleteRemoval, AbortRemoval, CleanerCrash
    <2>4. \A ph : cleaner[c].phase \in {"claimed", "recorded"} =>
             /\ [cleaner EXCEPT ![c].phase = ph][c].phase = ph
             /\ [cleaner EXCEPT ![c].phase = ph][c].env = cleaner[c].env
      <3>1. cleaner[c].phase \in {"claimed", "recorded"} =>
              cleaner[c] \in [phase : {"probed", "claimed", "recorded", "removed", "failed"},
                              tree : Trees, env : Envs \cup {None}]
        BY <1>0 DEF CleanState, Idle
      <3> QED  BY <1>0, <3>1
    <2>5. ~ RecordScrap(c)
      BY <2>4 DEF RecordScrap
    <2>6. GitWorktreeRemove(c)
      BY <1>3, <2>2, <2>3, <2>5 DEF Cleaning
    <2>7. disk' = [disk EXCEPT ![cleaner[c].tree] = 0] /\ cleaner'[c].env = cleaner[c].env
      <3>1. cleaner' # [cleaner EXCEPT ![c].phase = "failed"]
        BY <2>4, <2>6 DEF GitWorktreeRemove
      <3>2. /\ cleaner' = [cleaner EXCEPT ![c].phase = "removed"]
            /\ cleaner[c].phase = "recorded"
            /\ disk' = [disk EXCEPT ![cleaner[c].tree] = 0]
        BY <2>6, <3>1 DEF GitWorktreeRemove
      <3> QED  BY <2>4, <3>2
    <2> QED  BY <2>6, <2>7 DEF GitWorktreeRemove, ledger
  <1> QED  BY <1>1, <1>2, <1>3, NextCases

LEMMA NextDisk ==
  ASSUME TypeOK, ClaimLaw, DiskLaw, [Next]_vars
  PROVE  DiskLaw'
  <1>0. /\ LedgerTyped /\ ActorsTyped /\ FilesTyped /\ LeaseMoves
        /\ opens \in 0 .. MaxOpens /\ opens' \in {opens, opens + 1}
        /\ disk \in [Trees -> 0 .. MaxOpens]
    BY TypeParts, NextLedger, LedgerMovesLeases, DiskMoves DEF FilesTyped
  <1>1. opens \in Nat /\ opens <= opens' /\ opens' \in Nat
    BY <1>0, BoundsAssumption
  <1>2. \A t \in Trees : disk'[t] <= opens'
    <2>1. ASSUME NEW t \in Trees PROVE disk'[t] <= opens'
      <3>1. disk[t] \in Nat /\ disk[t] <= opens
        BY <1>0, BoundsAssumption DEF DiskLaw
      <3>2. \/ disk'[t] \in {disk[t], 0}
            \/ disk'[t] = opens + 1 /\ opens' = opens + 1
        BY DiskMoves
      <3> QED  BY <1>1, <3>1, <3>2
    <2> QED  BY <2>1
  <1>3. ASSUME NEW e \in Envs
        PROVE  /\ lease'[e].inc <= opens'
               /\ lease'[e].booked => /\ lease'[e].inc >= 1
                                      /\ lease'[e].tree \in Trees
                                      /\ lease'[e].state # "none"
    <2>0. lease[e].inc \in Nat
      BY <1>0, BoundsAssumption DEF LedgerTyped, LeaseRow
    <2>1. /\ lease[e].inc <= opens
          /\ lease[e].booked => /\ lease[e].inc >= 1 /\ lease[e].tree \in Trees
                                /\ lease[e].state # "none"
      BY DEF DiskLaw
    <2>2. CASE /\ lease[e].state # "none" \/ lease'[e] = lease[e]
               /\ lease'[e].inc = lease[e].inc /\ lease'[e].booked = lease[e].booked
      BY <1>0, <1>1, <2>0, <2>1, <2>2 DEF LeaseMoves
    <2>3. CASE /\ lease'[e].inc <= opens /\ lease'[e].state = "active"
               /\ lease'[e].booked => lease'[e].inc >= 1 /\ lease'[e].tree \in Trees
      <3>1. lease'[e].inc \in Nat
        <4>1. LedgerTyped'
          BY <1>0, NextLedger, LedgerStaysTyped
        <4> QED  BY <4>1, BoundsAssumption DEF LedgerTyped, LeaseRow
      <3> QED  BY <1>1, <2>3, <3>1
    <2> QED  BY <2>2, <2>3, LeaseIncarnations
  <1>4. ASSUME NEW p \in Provisioners, prov'[p].phase = "opened" PROVE prov'[p].inc <= opens'
    <2>1. CASE prov'[p] = prov[p]
      <3>1. prov[p].inc \in Nat /\ prov[p].inc <= opens
        BY <1>0, <1>4, <2>1, ProvKinds, BoundsAssumption DEF DiskLaw
      <3> QED  BY <1>1, <2>1, <3>1
    <2>2. CASE prov'[p].inc = opens + 1 /\ opens' = opens + 1
      BY <1>1, <2>2
    <2>3. prov'[p] = prov[p] \/ (prov'[p].inc = opens + 1 /\ opens' = opens + 1)
      BY <1>0, <1>4, OtherStepsKeepProvisioning, ProvisioningMoves
    <2> QED  BY <2>1, <2>2, <2>3
  <1>5. ASSUME NEW c \in Cleaners, cleaner'[c].phase = "removed", cleaner'[c].env # None
        PROVE  Gone(cleaner[c].env)'
    <2>0. \/ cleaner'[c] = cleaner[c]
          \/ /\ GitWorktreeRemove(c) /\ disk' = [disk EXCEPT ![cleaner[c].tree] = 0]
             /\ cleaner'[c].env = cleaner[c].env /\ lease' = lease
      BY <1>0, <1>5, CleaningMoves
    <2>1. cleaner'[c].env = cleaner[c].env
      BY <2>0
    <2>2. cleaner[c].phase # "idle" /\ cleaner[c].env # None
      BY <1>5, <2>0 DEF GitWorktreeRemove
    <2>3. /\ cleaner[c].env \in Envs /\ lease[cleaner[c].env].state # "none"
          /\ lease[cleaner[c].env].tree = cleaner[c].tree /\ cleaner[c].tree \in Trees
      BY <1>0, <2>2, CleanKinds DEF ClaimLaw, Settled
    <2>4. CASE cleaner'[c] = cleaner[c]
      <3>1. Gone(cleaner[c].env)
        BY <1>5, <2>4 DEF DiskLaw
      <3>2. ASSUME NEW e \in Envs, e = cleaner[c].env PROVE Gone(e)'
        BY <1>0, <2>3, <3>1, <3>2, GoneStays
      <3> QED  BY <2>1, <2>3, <3>2 DEF Gone, OnDisk
    <2>5. CASE /\ disk' = [disk EXCEPT ![cleaner[c].tree] = 0]
               /\ cleaner'[c].env = cleaner[c].env /\ lease' = lease
      <3>1. disk'[cleaner[c].tree] = 0
        BY <1>0, <2>3, <2>5
      <3>2. lease[cleaner[c].env].booked => lease[cleaner[c].env].inc >= 1
        BY <2>3 DEF DiskLaw
      <3>3. lease[cleaner[c].env].booked => lease[cleaner[c].env].inc # 0
        BY <3>2
      <3> QED  BY <2>3, <2>5, <3>1, <3>3 DEF Gone, OnDisk
    <2> QED  BY <2>0, <2>4, <2>5
  <1>6. /\ sweeper'.phase # "idle" => lease'[sweeper'.env].state # "none"
        /\ sweeper'.phase = "confirmed" => Gone(sweeper.env)'
    <2>1. \A e \in Envs : lease[e].state # "none" => lease'[e].state # "none"
      BY <1>0 DEF LeaseMoves
    <2>2. CASE sweeper' = sweeper
      <3>1. sweeper.phase # "idle" => sweeper.env \in Envs /\ lease[sweeper.env].state # "none"
        BY <1>0, SweepKinds DEF DiskLaw
      <3>2. ASSUME NEW e \in Envs, e = sweeper.env, sweeper.phase = "confirmed" PROVE Gone(e)'
        BY <1>0, <3>1, <3>2, GoneStays DEF DiskLaw
      <3>3. sweeper'.phase = "confirmed" => Gone(sweeper.env)'
        BY <2>2, <3>1, <3>2 DEF Gone, OnDisk
      <3> QED  BY <2>1, <2>2, <3>1, <3>3
    <2>3. CASE Sweeping
      <3>1. ASSUME NEW e \in Envs, SweepSeesAbsent(e)
            PROVE  sweeper'.phase = "absent" /\ sweeper'.env \in Envs
                   /\ lease[sweeper'.env].state # "none"
        BY <3>1 DEF SweepSeesAbsent
      <3>2. CASE prepare_stale_exec_env_reclaim
        <4>1. /\ sweeper \in [phase : {"absent", "admitted", "confirmed"}, env : Envs]
              /\ sweeper' \in {[sweeper EXCEPT !.phase = "admitted"], Idle}
          BY <1>0, <3>2 DEF prepare_stale_exec_env_reclaim, ActorsTyped, SweepState, Idle
        <4>2. sweeper'.phase = "idle" \/ (sweeper'.phase = "admitted" /\ sweeper'.env = sweeper.env)
          BY <4>1 DEF Idle
        <4> QED  BY <2>1, <4>1, <4>2 DEF DiskLaw
      <3>3. CASE SweepConfirmsAbsent
        <4>1. /\ sweeper \in [phase : {"absent", "admitted", "confirmed"}, env : Envs]
              /\ sweeper' = IF disk[lease[sweeper.env].tree] = 0
                            THEN [sweeper EXCEPT !.phase = "confirmed"] ELSE Idle
              /\ lease' = lease /\ disk' = disk
          BY <1>0, <3>3 DEF SweepConfirmsAbsent, ActorsTyped, SweepState, Idle, ledger, files
        <4>2. \/ sweeper'.phase = "idle"
              \/ /\ sweeper'.phase = "confirmed" /\ sweeper'.env = sweeper.env
                 /\ disk[lease[sweeper.env].tree] = 0
          BY <4>1 DEF Idle
        <4>3. lease[sweeper.env].booked => lease[sweeper.env].inc >= 1
          BY <4>1 DEF DiskLaw
        <4>4. lease[sweeper.env].booked => lease[sweeper.env].inc # 0
          BY <4>3
        <4>5. sweeper'.phase = "confirmed" => Gone(sweeper.env)'
          BY <4>1, <4>2, <4>4 DEF Gone, OnDisk
        <4> QED  BY <2>1, <4>1, <4>2, <4>5 DEF DiskLaw
      <3>4. CASE SweepCompletes
        BY <3>4 DEF SweepCompletes, Idle
      <3> QED  BY <2>1, <2>3, <3>1, <3>2, <3>3, <3>4 DEF Sweeping
    <2> QED  BY <2>2, <2>3, OtherStepsKeepTheSweep
  <1> QED  BY <1>2, <1>3, <1>4, <1>5, <1>6 DEF DiskLaw

(* A lease that lost its bindings lost its directory first.                 *)
LEMMA NextFreed ==
  ASSUME TypeOK, ClaimLaw, DiskLaw, ReclaimedMeansFreed, [Next]_vars
  PROVE  ReclaimedMeansFreed'
  <1> SUFFICES ASSUME NEW e \in Envs, lease'[e].booked, \A rid : <<e, rid>> \notin live'
               PROVE  Gone(e)'
    <2>1. ASSUME NEW e, \E rid : <<e, rid>> \in live' PROVE BoundBy(e)' # {}
      <3>1. PICK rid : <<e, rid>> \in live'
        BY <2>1
      <3>2. <<e, rid>>[1] = e
        OBVIOUS
      <3> QED  BY <3>1, <3>2 DEF BoundBy
    <2> QED  BY <2>1 DEF ReclaimedMeansFreed, Gone
  <1>0. LedgerTyped /\ ActorsTyped /\ LeaseMoves
    BY TypeParts, NextLedger, LedgerMovesLeases
  <1>1. lease[e].booked
    BY LeaseIncarnations
  <1>2. lease[e].state # "none"
    BY <1>1 DEF DiskLaw
  <1>3. Gone(e)
    <2>1. CASE \A rid : <<e, rid>> \notin live
      <3>1. BoundBy(e) = {}
        BY <1>0, <2>1, BoundByEntries
      <3> QED  BY <1>1, <3>1 DEF ReclaimedMeansFreed, Gone
    <2>2. ASSUME NEW rid, <<e, rid>> \in live PROVE Gone(e)
      <3>1. \A x : live' = {b \in live : b[1] # x} => e = x
        <4>1. <<e, rid>>[1] = e
          OBVIOUS
        <4> QED  BY <2>2, <4>1
      <3>2. ~ (live \subseteq live')
        BY <2>2
      <3>3. \/ \E c \in Cleaners : /\ cleaner[c].phase = "removed" /\ cleaner[c].env # None
                                   /\ e = cleaner[c].env
            \/ sweeper.phase = "confirmed" /\ e = sweeper.env
        BY <3>1, <3>2, BindingsGo
      <3> QED  BY <3>3 DEF DiskLaw
    <2> QED  BY <2>1, <2>2
  <1> QED  BY <1>0, <1>2, <1>3, GoneStays

-------------------------------------------------------------------------------
(* The theorems. *)

(* The laws that hold together.                                             *)
IInv == /\ TypeOK
        /\ PlaceLaw
        /\ BindingLaw
        /\ OwnerLaw
        /\ ClaimLaw
        /\ WorkLaw
        /\ DirtLaw
        /\ DiskLaw
        /\ ReclaimedMeansFreed

LEMMA Initially == Init => IInv
  <1> SUFFICES ASSUME Init PROVE IInv
    OBVIOUS
  <1>0. 0 \in 0 .. MaxOpens /\ opens = 0
    BY BoundsAssumption DEF Init
  <1>1. TypeOK
    <2>1. LedgerTyped
      BY <1>0 DEF Init, LedgerTyped, LeaseRow, ResRow, ExecEnvState, ResourceState
    <2>2. FilesTyped /\ held \subseteq Envs
      BY <1>0 DEF Init, FilesTyped
    <2>3. ActorsTyped
      BY DEF Init, ActorsTyped, ProvState, WorkState, CleanState, SweepState
    <2> QED  BY <2>1, <2>2, <2>3, TypeParts
  <1>2. /\ live = {} /\ dirty = {} /\ \A e \in Envs : /\ worker[e] = "none"
                                                      /\ lease[e].state = "none"
                                                      /\ ~ lease[e].booked
                                                      /\ lease[e].inc = 0
        /\ \A l \in Locs : res[l].state = "none"
        /\ \A t \in Trees : disk[t] = 0
        /\ \A p \in Provisioners : prov[p].phase = "idle"
        /\ \A c \in Cleaners : cleaner[c].phase = "idle"
        /\ sweeper.phase = "idle"
    BY DEF Init, Idle
  <1>3. PlaceLaw /\ BindingLaw /\ OwnerLaw /\ ClaimLaw /\ DirtLaw
    BY <1>2 DEF PlaceLaw, BindingLaw, OwnerLaw, ClaimLaw, DirtLaw
  <1>4. WorkLaw /\ DiskLaw /\ ReclaimedMeansFreed
    BY <1>0, <1>2 DEF WorkLaw, Busy, DiskLaw, ReclaimedMeansFreed
  <1> QED  BY <1>1, <1>3, <1>4 DEF IInv

LEMMA Step == IInv /\ [Next]_vars => IInv'
  <1> SUFFICES ASSUME IInv, [Next]_vars PROVE IInv'
    OBVIOUS
  <1>1. /\ TypeOK /\ PlaceLaw /\ BindingLaw /\ OwnerLaw /\ ClaimLaw /\ WorkLaw /\ DirtLaw
        /\ DiskLaw /\ ReclaimedMeansFreed
    BY DEF IInv
  <1>2. TypeOK' /\ PlaceLaw'
    BY <1>1, NextTyped, NextPlaces
  <1>3. BindingLaw' /\ OwnerLaw'
    BY <1>1, TypeParts, NextLedger, LedgerLaws
  <1>4. ClaimLaw' /\ WorkLaw' /\ DirtLaw'
    BY <1>1, NextClaims, NextWork, NextDirt
  <1>5. DiskLaw' /\ ReclaimedMeansFreed'
    BY <1>1, NextDisk, NextFreed
  <1> QED  BY <1>2, <1>3, <1>4, <1>5 DEF IInv

LEMMA Inductive == Spec => []IInv
  BY Initially, Step, PTL DEF Spec

(* Type correctness: leases, rows, bindings, directories, and every call,   *)
(* dispatch, removal and sweep under way have the values of their kinds.    *)
THEOREM TypeCorrect == Spec => []TypeOK
  <1>1. IInv => TypeOK
    BY DEF IInv
  <1> QED  BY <1>1, Inductive, PTL

(* Invariant 2 of the resource ledger: whatever publications, removals,     *)
(* aborts, quarantines and revivals came between, a binding names the       *)
(* current id of its row and the row is not reclaimed.                      *)
THEOREM BindingsStayLive == Spec => []BindingsNameTheLiveRow
  <1>1. ASSUME IInv PROVE BindingsNameTheLiveRow
    <2>0. LedgerTyped /\ BindingLaw
      BY <1>1, TypeParts DEF IInv
    <2>1. ASSUME NEW b \in live PROVE Resolves(b[2]) /\ res[b[2][1]].state # "reclaimed"
      <3>1. b[2] \in BoundBy(b[1])
        BY <2>1 DEF BoundBy
      <3>2. b[2] = Rid(b[2][1]) /\ b[1] \in Envs /\ b[2][1] \in Locs /\ Bd(b[1], b[2][1])
        BY <2>0, <3>1, BoundSomewhere
      <3>3. b[2][2] = res[b[2][1]].gen
        BY <3>2 DEF Rid
      <3>4. res[b[2][1]].state # "reclaimed"
        BY <2>0, <3>2, BoundHere
      <3> QED  BY <3>3, <3>4 DEF Resolves
    <2> QED  BY <2>1 DEF BindingsNameTheLiveRow
  <1> QED  BY <1>1, Inductive, PTL

(* claim_exec_env_removal counts the holders of everything it is about to   *)
(* free: a row that is being reclaimed has one, and it is being removed.    *)
THEOREM RemovalsOwnTheirRows == Spec => []ReclaimingHasOneOwner
  <1>1. IInv => ReclaimingHasOneOwner
    BY OwnersAreHolders DEF IInv
  <1> QED  BY <1>1, Inductive, PTL

(* From its claim to its end a cleaner never meets a dispatch on the lease  *)
(* it claimed, whatever the sweep, a crash or another cleaner does.         *)
THEOREM ClaimsShutOutDispatch == Spec => []ClaimShutsOutDispatch
  <1>1. ASSUME IInv PROVE ClaimShutsOutDispatch
    <2>1. ActorsTyped /\ ClaimLaw
      BY <1>1, TypeParts DEF IInv
    <2> QED  BY <2>1, CleanKinds DEF ClaimLaw, ClaimShutsOutDispatch, Settled
  <1> QED  BY <1>1, Inductive, PTL

(* Invariant 1 of the resource ledger: bindings are released only after the *)
(* published directory is gone, by git's removal or by the sweep's second   *)
(* look, and a directory opened later at the path is another incarnation.   *)
THEOREM FreedBeforeReleased == Spec => []ReclaimedMeansFreed
  <1>1. IInv => ReclaimedMeansFreed
    BY DEF IInv
  <1> QED  BY <1>1, Inductive, PTL

(* ExecEnvDispatchLeaseGuard admits a dispatch to no tree with output that  *)
(* no postflight gate certified: the fence comes before the lease is given  *)
(* back, and a lease that a crash left dispatching is never active again.   *)
THEOREM UncertifiedOutputStaysFenced == Spec => UncertifiedTreeStaysFenced
  <1>1. IInv /\ [Next]_vars =>
          \A e \in Envs : lease[e].state = "active" /\ lease'[e].state = "dispatching"
                            => lease[e].tree \notin dirty
    BY AdmittedTreeIsClean DEF IInv
  <1>2. IInv /\ [Next]_vars =>
          [\A e \in Envs : lease[e].state = "active" /\ lease'[e].state = "dispatching"
                            => lease[e].tree \notin dirty]_vars
    BY <1>1
  <1>3. Spec => [][Next]_vars
    BY DEF Spec
  <1> QED  BY <1>2, <1>3, Inductive, PTL DEF UncertifiedTreeStaysFenced
===============================================================================
