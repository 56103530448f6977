--------------------------- MODULE WorkClaims_proofs ---------------------------
(***************************************************************************)
(* Proofs about WorkClaims, for every set of claims, agents, paths, heads, *)
(* flows and environments and every bound on versions.                     *)
(***************************************************************************)
EXTENDS WorkClaims, TLAPS

-------------------------------------------------------------------------------
(* Rows. *)

(* A fresh v21 row, with or without a project, is a row. *)
LEMMA NewRowFacts ==
  ASSUME NEW a \in OrNone(Agents), NEW i \in OrNone(Issues), NEW f \in OrNone(Flows),
         NEW p \in OrNone(Projects), NEW t \in Terms \cup {NoTerms},
         NEW k \in OrNone(Clients)
  PROVE  /\ NewRow(a, i, f, p, t) \in ClaimRow
         /\ [NewRow(a, i, f, p, t) EXCEPT !.client = k] \in ClaimRow
  <1>1. NewRow(a, i, f, p, t) \in ClaimRow
    BY VersionAssumption DEF NewRow, ClaimRow, OrNone
  <1>2. \A row \in ClaimRow : [row EXCEPT !.client = k] \in ClaimRow
    BY DEF ClaimRow
  <1> QED  BY <1>1, <1>2

(* Every transition of a row is a row, while the version is below its bound. *)
LEMMA RowUpdates ==
  ASSUME NEW row \in ClaimRow, row.version < MaxVersion
  PROVE  /\ Bumped([row EXCEPT !.aged = FALSE]) \in ClaimRow
         /\ Bumped([row EXCEPT !.state = "released", !.aged = FALSE]) \in ClaimRow
         /\ \A a \in Agents, t \in Terms : Bumped(HandedOff(row, a, t)) \in ClaimRow
         /\ \A e \in Envs : Bumped([row EXCEPT !.env = e]) \in ClaimRow
  <1>1. row.version \in 0 .. MaxVersion /\ row.version + 1 \in 0 .. MaxVersion
    BY VersionAssumption DEF ClaimRow
  <1>2. Bumped([row EXCEPT !.aged = FALSE]) \in ClaimRow
    BY <1>1 DEF ClaimRow, Bumped
  <1>3. Bumped([row EXCEPT !.state = "released", !.aged = FALSE]) \in ClaimRow
    BY <1>1 DEF ClaimRow, Bumped
  <1>4. ASSUME NEW a \in Agents, NEW t \in Terms
        PROVE  Bumped(HandedOff(row, a, t)) \in ClaimRow
    BY <1>1 DEF ClaimRow, Bumped, HandedOff, OrNone
  <1>5. ASSUME NEW e \in Envs
        PROVE  Bumped([row EXCEPT !.env = e]) \in ClaimRow
    BY <1>1 DEF ClaimRow, Bumped, OrNone
  <1> QED  BY <1>2, <1>3, <1>4, <1>5

(* The unversioned updates keep a row a row. *)
LEMMA PlainUpdates ==
  ASSUME NEW row \in ClaimRow, NEW b \in BOOLEAN
  PROVE  /\ [row EXCEPT !.aged = b] \in ClaimRow
         /\ [row EXCEPT !.state = "orphaned"] \in ClaimRow
         /\ [row EXCEPT !.state = "released", !.aged = b] \in ClaimRow
  BY DEF ClaimRow

(* Inserting a row of the right type keeps the type invariant. *)
LEMMA InsertTyped ==
  ASSUME TypeOK, NEW c, NEW row \in ClaimRow, Insert(c, row)
  PROVE  TypeOK'
  BY DEF TypeOK, Insert, Put

-------------------------------------------------------------------------------
(* Type correctness: every call leaves session_claims, the minted ids and   *)
(* the holder columns well formed.                                          *)
LEMMA InsertStepTyped ==
  ASSUME TypeOK, InsertStep
  PROVE  TypeOK'
  <1>1. PICK c \in Claims, i \in OrNone(Issues), f \in OrNone(Flows) :
          \/ \E a \in Agents, t \in Terms : insert_work_claim(c, a, i, f, t)
          \/ \E a \in Agents, t \in Terms, p \in Projects :
                insert_local_project_work_claim(c, a, i, f, p, t)
          \/ \E k \in Clients : upsert_or_heartbeat_claim(c, k, i, f)
    BY DEF InsertStep
  <1>2. CASE \E a \in Agents, t \in Terms : insert_work_claim(c, a, i, f, t)
    <2>1. PICK a \in Agents, t \in Terms : insert_work_claim(c, a, i, f, t)
      BY <1>2
    <2>2. NewRow(a, i, f, None, t) \in ClaimRow
      BY NewRowFacts DEF OrNone
    <2> QED  BY <2>1, <2>2, InsertTyped DEF insert_work_claim
  <1>3. CASE \E a \in Agents, t \in Terms, p \in Projects :
               insert_local_project_work_claim(c, a, i, f, p, t)
    <2>1. PICK a \in Agents, t \in Terms, p \in Projects :
            insert_local_project_work_claim(c, a, i, f, p, t)
      BY <1>3
    <2>2. NewRow(a, i, f, p, t) \in ClaimRow
      BY NewRowFacts DEF OrNone
    <2> QED  BY <2>1, <2>2, InsertTyped DEF insert_local_project_work_claim
  <1>4. CASE \E k \in Clients : upsert_or_heartbeat_claim(c, k, i, f)
    <2>1. PICK k \in Clients : upsert_or_heartbeat_claim(c, k, i, f)
      BY <1>4
    <2>2. [NewRow(None, i, f, None, NoTerms) EXCEPT !.client = k] \in ClaimRow
      BY NewRowFacts DEF OrNone
    <2>3. \A d \in DOMAIN claims : [claims[d] EXCEPT !.aged = FALSE] \in ClaimRow
      BY PlainUpdates DEF TypeOK
    <2>4. CASE Insert(c, [NewRow(None, i, f, None, NoTerms) EXCEPT !.client = k])
      BY <2>2, <2>4, InsertTyped
    <2>5. CASE ~Insert(c, [NewRow(None, i, f, None, NoTerms) EXCEPT !.client = k])
      BY <2>1, <2>3, <2>5 DEF upsert_or_heartbeat_claim, TypeOK
    <2> QED  BY <2>4, <2>5
  <1> QED  BY <1>1, <1>2, <1>3, <1>4

LEMMA VersionedStepTyped ==
  ASSUME TypeOK, VersionedStep
  PROVE  TypeOK'
  <1>1. PICK c \in Claims, a \in Agents, v \in 0 .. MaxVersion :
          \/ heartbeat_work_claim(c, a, v)
          \/ release_work_claim(c, a, v)
          \/ \E t \in Terms : handoff_work_claim(c, a, v, t)
          \/ \E e \in Envs : bind_work_claim_exec_env(c, e, v)
    BY DEF VersionedStep
  <1>2. c \in DOMAIN claims /\ claims[c] \in ClaimRow /\ claims[c].version < MaxVersion
    BY <1>1 DEF TypeOK, heartbeat_work_claim, release_work_claim, may_release,
                handoff_work_claim, may_handoff, bind_work_claim_exec_env, AtVersion
  <1>3. CASE heartbeat_work_claim(c, a, v)
    BY <1>2, <1>3, RowUpdates DEF heartbeat_work_claim, TypeOK
  <1>4. CASE release_work_claim(c, a, v)
    BY <1>2, <1>4, RowUpdates DEF release_work_claim, TypeOK
  <1>5. CASE \E t \in Terms : handoff_work_claim(c, a, v, t)
    <2>1. PICK t \in Terms : handoff_work_claim(c, a, v, t)
      BY <1>5
    <2>2. Bumped(HandedOff(claims[c], a, t)) \in ClaimRow
      BY <1>2, RowUpdates
    <2>3. claims[c].env \in OrNone(Envs)
      BY <1>2 DEF ClaimRow
    <2>4. envs' \in [Envs -> EnvRow]
      BY <2>1, <2>3 DEF handoff_work_claim, TypeOK, EnvRow, OrNone
    <2> QED  BY <1>2, <2>1, <2>2, <2>4 DEF handoff_work_claim, TypeOK
  <1>6. CASE \E e \in Envs : bind_work_claim_exec_env(c, e, v)
    <2>1. PICK e \in Envs : bind_work_claim_exec_env(c, e, v)
      BY <1>6
    <2>2. Bumped([claims[c] EXCEPT !.env = e]) \in ClaimRow
      BY <1>2, RowUpdates
    <2>3. [holder |-> claims[c].holder, claim |-> c] \in EnvRow
      BY <1>2 DEF EnvRow, ClaimRow, OrNone
    <2> QED  BY <1>2, <2>1, <2>2, <2>3 DEF bind_work_claim_exec_env, TypeOK
  <1> QED  BY <1>1, <1>3, <1>4, <1>5, <1>6

LEMMA TypeStep == TypeOK /\ [Next]_vars => TypeOK'
  <1> SUFFICES ASSUME TypeOK, [Next]_vars PROVE TypeOK'
    OBVIOUS
  <1>1. CASE InsertStep
    BY <1>1, InsertStepTyped
  <1>2. CASE VersionedStep
    BY <1>2, VersionedStepTyped
  <1>3. ASSUME NEW c \in Claims, heartbeat_claim(c) \/ release_claim(c) \/ Age(c)
        PROVE  TypeOK'
    <2>1. c \in DOMAIN claims /\ claims[c] \in ClaimRow
      BY <1>3 DEF TypeOK, heartbeat_claim, release_claim, Age
    <2>2. CASE heartbeat_claim(c)
      BY <2>1, <2>2, PlainUpdates DEF TypeOK, heartbeat_claim
    <2>3. CASE release_claim(c)
      <3>1. [claims[c] EXCEPT !.state = "released", !.aged = FALSE] \in ClaimRow
        BY <2>1, PlainUpdates
      <3> QED  BY <2>1, <2>3, <3>1 DEF TypeOK, release_claim
    <2>4. CASE Age(c)
      BY <2>1, <2>4, PlainUpdates DEF TypeOK, Age
    <2> QED  BY <1>3, <2>2, <2>3, <2>4
  <1>4. CASE gc_orphan_stale
    BY <1>4, PlainUpdates DEF gc_orphan_stale, TypeOK
  <1>5. CASE gc_prune_released
    BY <1>5 DEF gc_prune_released, TypeOK
  <1>6. CASE UNCHANGED vars
    BY <1>6 DEF vars, TypeOK
  <1> QED  BY <1>1, <1>2, <1>3, <1>4, <1>5, <1>6 DEF Next

(* Every reachable state has the declared types. *)
THEOREM TypeCorrect == Spec => []TypeOK
  <1>1. Init => TypeOK
    BY DEF Init, TypeOK, EnvRow, Unbound, OrNone
  <1> QED  BY <1>1, TypeStep, PTL DEF Spec

-------------------------------------------------------------------------------
(* The two kinds of step, as far as admission goes.  Either no claim gains  *)
(* protection, an issue or terms, or one claim is (re)admitted: presence    *)
(* only, or after the collision check against all the others.               *)
Settles ==
  /\ DOMAIN claims' \subseteq DOMAIN claims
  /\ \A c \in DOMAIN claims' :
       /\ claims'[c].issue = claims[c].issue
       /\ claims'[c].terms = claims[c].terms
       /\ claims'[c].state # "released" => claims[c].state # "released"

Admits(c) ==
  /\ c \in DOMAIN claims'
  /\ \A d \in DOMAIN claims' \ {c} : d \in DOMAIN claims /\ claims'[d] = claims[d]
  /\ \/ claims'[c].terms = NoTerms
     \/ /\ claims'[c].terms \in Terms
        /\ ~reject_work_claim_collision(c, claims'[c].issue, claims'[c].terms)

LEMMA InsertKinds ==
  ASSUME TypeOK, InsertStep
  PROVE  Settles \/ \E c \in Claims : Admits(c)
  <1>1. PICK c \in Claims, i \in OrNone(Issues), f \in OrNone(Flows) :
          \/ \E a \in Agents, t \in Terms : insert_work_claim(c, a, i, f, t)
          \/ \E a \in Agents, t \in Terms, p \in Projects :
                insert_local_project_work_claim(c, a, i, f, p, t)
          \/ \E k \in Clients : upsert_or_heartbeat_claim(c, k, i, f)
    BY DEF InsertStep
  <1>2. CASE \E a \in Agents, t \in Terms : insert_work_claim(c, a, i, f, t)
    <2>1. PICK a \in Agents, t \in Terms : insert_work_claim(c, a, i, f, t)
      BY <1>2
    <2>2. Admits(c)
      BY <2>1 DEF insert_work_claim, Admits, Insert, Put, NewRow
    <2> QED  BY <2>2
  <1>3. CASE \E a \in Agents, t \in Terms, p \in Projects :
               insert_local_project_work_claim(c, a, i, f, p, t)
    <2>1. PICK a \in Agents, t \in Terms, p \in Projects :
            insert_local_project_work_claim(c, a, i, f, p, t)
      BY <1>3
    <2>2. Admits(c)
      BY <2>1 DEF insert_local_project_work_claim, Admits, Insert, Put, NewRow
    <2> QED  BY <2>2
  <1>4. CASE \E k \in Clients : upsert_or_heartbeat_claim(c, k, i, f)
    <2>1. PICK k \in Clients : upsert_or_heartbeat_claim(c, k, i, f)
      BY <1>4
    <2>2. CASE Insert(c, [NewRow(None, i, f, None, NoTerms) EXCEPT !.client = k])
      <3>1. Admits(c)
        BY <2>2 DEF Admits, Insert, Put, NewRow
      <3> QED  BY <3>1
    <2>3. CASE ~Insert(c, [NewRow(None, i, f, None, NoTerms) EXCEPT !.client = k])
      <3>1. \A d \in DOMAIN claims :
              LET fresh == [claims[d] EXCEPT !.aged = FALSE]
              IN  /\ fresh.issue = claims[d].issue /\ fresh.terms = claims[d].terms
                  /\ fresh.state = claims[d].state
        BY DEF TypeOK, ClaimRow
      <3>2. Settles
        BY <2>1, <2>3, <3>1 DEF upsert_or_heartbeat_claim, Settles
      <3> QED  BY <3>2
    <2> QED  BY <2>2, <2>3
  <1> QED  BY <1>1, <1>2, <1>3, <1>4

LEMMA VersionedKinds ==
  ASSUME TypeOK, VersionedStep
  PROVE  Settles \/ \E c \in Claims : Admits(c)
  <1>1. PICK c \in Claims, a \in Agents, v \in 0 .. MaxVersion :
          \/ heartbeat_work_claim(c, a, v)
          \/ release_work_claim(c, a, v)
          \/ \E t \in Terms : handoff_work_claim(c, a, v, t)
          \/ \E e \in Envs : bind_work_claim_exec_env(c, e, v)
    BY DEF VersionedStep
  <1>2. c \in DOMAIN claims /\ claims[c] \in ClaimRow
    BY <1>1 DEF TypeOK, heartbeat_work_claim, release_work_claim, may_release,
                handoff_work_claim, may_handoff, bind_work_claim_exec_env, AtVersion
  <1>3. CASE heartbeat_work_claim(c, a, v)
    <2>1. Settles
      BY <1>2, <1>3 DEF heartbeat_work_claim, Settles, Bumped, ClaimRow
    <2> QED  BY <2>1
  <1>4. CASE release_work_claim(c, a, v)
    <2>1. Settles
      BY <1>2, <1>4 DEF release_work_claim, may_release, Settles, Bumped, ClaimRow
    <2> QED  BY <2>1
  <1>5. CASE \E t \in Terms : handoff_work_claim(c, a, v, t)
    <2>1. PICK t \in Terms : handoff_work_claim(c, a, v, t)
      BY <1>5
    <2>2. /\ Bumped(HandedOff(claims[c], a, t)).terms = t
          /\ Bumped(HandedOff(claims[c], a, t)).issue = claims[c].issue
      BY <1>2 DEF Bumped, HandedOff, ClaimRow
    <2>3. /\ claims' = [claims EXCEPT ![c] = Bumped(HandedOff(claims[c], a, t))]
          /\ ~reject_work_claim_collision(c, claims[c].issue, t)
      BY <2>1 DEF handoff_work_claim
    <2>4. Admits(c)
      BY <1>2, <2>2, <2>3 DEF Admits
    <2> QED  BY <2>4
  <1>6. CASE \E e \in Envs : bind_work_claim_exec_env(c, e, v)
    <2>1. Settles
      BY <1>2, <1>6 DEF bind_work_claim_exec_env, Settles, Bumped, ClaimRow
    <2> QED  BY <2>1
  <1> QED  BY <1>1, <1>3, <1>4, <1>5, <1>6

LEMMA StepKinds ==
  ASSUME TypeOK, [Next]_vars
  PROVE  Settles \/ \E c \in Claims : Admits(c)
  <1>1. CASE InsertStep
    BY <1>1, InsertKinds
  <1>2. CASE VersionedStep
    BY <1>2, VersionedKinds
  <1>3. ASSUME NEW c \in Claims, heartbeat_claim(c) \/ release_claim(c) \/ Age(c)
        PROVE  Settles
    <2>1. c \in DOMAIN claims /\ claims[c] \in ClaimRow
      BY <1>3 DEF TypeOK, heartbeat_claim, release_claim, Age
    <2> QED  BY <1>3, <2>1 DEF heartbeat_claim, release_claim, Age, Settles, ClaimRow
  <1>4. CASE gc_orphan_stale
    <2>1. \A d \in DOMAIN claims :
            LET orphan == [claims[d] EXCEPT !.state = "orphaned"]
            IN  orphan.issue = claims[d].issue /\ orphan.terms = claims[d].terms
      BY DEF TypeOK, ClaimRow
    <2>2. Settles
      BY <1>4, <2>1 DEF gc_orphan_stale, Settles
    <2> QED  BY <2>2
  <1>5. CASE gc_prune_released
    <2>1. Settles
      BY <1>5 DEF gc_prune_released, Settles
    <2> QED  BY <2>1
  <1>6. CASE UNCHANGED vars
    <2>1. Settles
      BY <1>6 DEF vars, Settles
    <2> QED  BY <2>1
  <1> QED  BY <1>1, <1>2, <1>3, <1>4, <1>5, <1>6 DEF Next

-------------------------------------------------------------------------------
(* Overlap is symmetric, so checking the newcomer against the others is     *)
(* enough.                                                                  *)
LEMMA OverlapSymmetric ==
  /\ \A p, q : paths_overlap(p, q) => paths_overlap(q, p)
  /\ \A S, T : scopes_overlap(S, T) => scopes_overlap(T, S)
  BY DEF paths_overlap, scopes_overlap

(* What the collision check leaves of a protected claim d.                  *)
LEMMA Checked ==
  ASSUME TypeOK, NEW c, NEW i, NEW t \in Terms, ~reject_work_claim_collision(c, i, t),
         NEW d \in DOMAIN claims \ {c}, claims[d].state # "released"
  PROVE  /\ same_issue(i, claims[d].issue) => claims[d].terms.head \in {None, t.head}
         /\ t.mode = "writable" /\ claims[d].terms.mode = "writable" =>
              /\ ~paths_overlap(t.worktree, claims[d].terms.worktree)
              /\ same_issue(i, claims[d].issue) =>
                   ~scopes_overlap(t.scope, claims[d].terms.scope)
  <1>1. claims[d].state \in {"active", "orphaned"}
    BY DEF TypeOK, ClaimRow
  <1> QED  BY <1>1 DEF reject_work_claim_collision, collides

LEMMA DisjointStep ==
  ASSUME TypeOK, WritersAreDisjoint, [Next]_vars
  PROVE  WritersAreDisjoint'
  <1>1. CASE Settles
    BY <1>1 DEF Settles, WritersAreDisjoint
  <1>2. ASSUME NEW c \in Claims, Admits(c)
        PROVE  WritersAreDisjoint'
    <2>1. ASSUME NEW d \in DOMAIN claims' \ {c},
                 claims'[c].terms.mode = "writable",
                 claims'[d].state # "released", claims'[d].terms.mode = "writable"
          PROVE  /\ ~paths_overlap(claims'[c].terms.worktree, claims'[d].terms.worktree)
                 /\ same_issue(claims'[c].issue, claims'[d].issue) =>
                      ~scopes_overlap(claims'[c].terms.scope, claims'[d].terms.scope)
      <3>1. d \in DOMAIN claims \ {c} /\ claims'[d] = claims[d]
        BY <1>2 DEF Admits
      <3>2. claims'[c].terms # NoTerms
        BY <2>1 DEF NoTerms
      <3>3. /\ claims'[c].terms \in Terms
            /\ ~reject_work_claim_collision(c, claims'[c].issue, claims'[c].terms)
        BY <1>2, <3>2 DEF Admits
      <3> QED  BY <2>1, <3>1, <3>3, Checked
    <2>2. \A d, e \in DOMAIN claims' \ {c} :
            d # e /\ claims'[d].state # "released" /\ claims'[d].terms.mode = "writable"
                  /\ claims'[e].state # "released" /\ claims'[e].terms.mode = "writable"
            => /\ ~paths_overlap(claims'[d].terms.worktree, claims'[e].terms.worktree)
               /\ same_issue(claims'[d].issue, claims'[e].issue) =>
                    ~scopes_overlap(claims'[d].terms.scope, claims'[e].terms.scope)
      BY <1>2 DEF Admits, WritersAreDisjoint
    <2>3. \A i, j : same_issue(i, j) => same_issue(j, i)
      BY DEF same_issue
    <2> QED  BY <2>1, <2>2, <2>3, OverlapSymmetric DEF WritersAreDisjoint
  <1> QED  BY <1>1, <1>2, StepKinds

(* No two protected writers ever overlap.  Inductive together with the type *)
(* invariant: a (re)admitted claim passed the check against every protected *)
(* claim, and nothing else gains protection or terms.                       *)
THEOREM WritersStayDisjoint == Spec => []WritersAreDisjoint
  <1>1. Init => WritersAreDisjoint
    BY DEF Init, WritersAreDisjoint
  <1>2. TypeOK /\ WritersAreDisjoint /\ [Next]_vars => WritersAreDisjoint'
    BY DisjointStep
  <1> QED  BY <1>1, <1>2, TypeCorrect, PTL DEF Spec

LEMMA HeadStep ==
  ASSUME TypeOK, OneHeadPerIssue, [Next]_vars
  PROVE  OneHeadPerIssue'
  <1>1. CASE Settles
    BY <1>1 DEF Settles, OneHeadPerIssue
  <1>2. ASSUME NEW c \in Claims, Admits(c)
        PROVE  OneHeadPerIssue'
    <2>1. ASSUME NEW d \in DOMAIN claims' \ {c},
                 claims'[c].terms # NoTerms,
                 claims'[d].state # "released", claims'[d].terms # NoTerms,
                 same_issue(claims'[c].issue, claims'[d].issue)
          PROVE  claims'[c].terms.head = claims'[d].terms.head
      <3>1. d \in DOMAIN claims \ {c} /\ claims'[d] = claims[d]
        BY <1>2 DEF Admits
      <3>2. /\ claims'[c].terms \in Terms
            /\ ~reject_work_claim_collision(c, claims'[c].issue, claims'[c].terms)
        BY <1>2, <2>1 DEF Admits
      <3>3. claims[d].terms.head \in {None, claims'[c].terms.head}
        BY <2>1, <3>1, <3>2, Checked
      <3>4. claims[d].terms \in Terms
        BY <2>1, <3>1 DEF TypeOK, ClaimRow
      <3>5. claims[d].terms.head # None
        BY <3>4, NoneAssumption, TermsAssumption
      <3> QED  BY <3>1, <3>3, <3>5
    <2>2. \A d, e \in DOMAIN claims' \ {c} :
            /\ claims'[d].state # "released" /\ claims'[d].terms # NoTerms
            /\ claims'[e].state # "released" /\ claims'[e].terms # NoTerms
            /\ same_issue(claims'[d].issue, claims'[e].issue)
            => claims'[d].terms.head = claims'[e].terms.head
      BY <1>2 DEF Admits, OneHeadPerIssue
    <2>3. \A i, j : same_issue(i, j) => same_issue(j, i)
      BY DEF same_issue
    <2> QED  BY <2>1, <2>2, <2>3 DEF OneHeadPerIssue
  <1> QED  BY <1>1, <1>2, StepKinds

(* All protected claims on an issue work from one expected head.            *)
THEOREM HeadsStayAgreed == Spec => []OneHeadPerIssue
  <1>1. Init => OneHeadPerIssue
    BY DEF Init, OneHeadPerIssue
  <1>2. TypeOK /\ OneHeadPerIssue /\ [Next]_vars => OneHeadPerIssue'
    BY HeadStep
  <1> QED  BY <1>1, <1>2, TypeCorrect, PTL DEF Spec

-------------------------------------------------------------------------------
(* Claims and environments.  The invariant that makes the evidence          *)
(* consistent needs two facts the evidence does not show: only proven       *)
(* holders are bound, and an environment never names a claim id that was    *)
(* not yet minted, so a new claim starts unnamed.                           *)
Bindings ==
  /\ \A c \in DOMAIN claims :
       claims[c].env # None =>
         /\ claims[c].holder # None
         /\ envs[claims[c].env] = [holder |-> claims[c].holder, claim |-> c]
  /\ \A e \in Envs : /\ envs[e] = Unbound \/ envs[e].claim \in minted
                     /\ envs[e].claim \in DOMAIN claims => claims[envs[e].claim].env = e

(* The claim an environment is bound by is the one bound to it. *)
LEMMA BoundClaim ==
  ASSUME Bindings, NEW c \in DOMAIN claims, claims[c].env # None
  PROVE  envs[claims[c].env].claim = c /\ envs[claims[c].env].holder = claims[c].holder
  <1>1. envs[claims[c].env] = [holder |-> claims[c].holder, claim |-> c]
    BY DEF Bindings
  <1>2. /\ [holder |-> claims[c].holder, claim |-> c].claim = c
        /\ [holder |-> claims[c].holder, claim |-> c].holder = claims[c].holder
    OBVIOUS
  <1> QED  BY <1>1, <1>2

(* Steps that move no binding column, release no id and mint no bound row.  *)
BindingsRest ==
  /\ envs' = envs
  /\ minted \subseteq minted'
  /\ \A c \in DOMAIN claims' :
       \/ /\ c \in DOMAIN claims
          /\ claims'[c].env = claims[c].env /\ claims'[c].holder = claims[c].holder
       \/ c \notin minted /\ claims'[c].env = None

LEMMA RestStep ==
  ASSUME TypeOK, TypeOK', Bindings, BindingsRest
  PROVE  Bindings'
  <1>1. \A c \in DOMAIN claims' :
          claims'[c].env # None =>
            /\ claims'[c].holder # None
            /\ envs'[claims'[c].env] = [holder |-> claims'[c].holder, claim |-> c]
    BY DEF BindingsRest, Bindings
  <1>2. ASSUME NEW e \in Envs
        PROVE  /\ envs'[e] = Unbound \/ envs'[e].claim \in minted'
               /\ envs'[e].claim \in DOMAIN claims' => claims'[envs'[e].claim].env = e
    <2>1. envs[e] = Unbound \/ envs[e].claim \in minted
      BY DEF Bindings
    <2>2. None \notin minted /\ None \notin DOMAIN claims'
      BY NoneAssumption DEF TypeOK
    <2> QED  BY <2>1, <2>2 DEF Bindings, BindingsRest, Unbound
  <1> QED  BY <1>1, <1>2 DEF Bindings

LEMMA InsertRests ==
  ASSUME TypeOK, NEW c, NEW row, row.env = None, Insert(c, row)
  PROVE  BindingsRest
  <1>1. \A d \in DOMAIN claims : d \in minted
    BY DEF TypeOK
  <1> QED  BY <1>1 DEF Insert, Put, BindingsRest

LEMMA InsertStepRests ==
  ASSUME TypeOK, InsertStep
  PROVE  BindingsRest
  <1>1. PICK c \in Claims, i \in OrNone(Issues), f \in OrNone(Flows) :
          \/ \E a \in Agents, t \in Terms : insert_work_claim(c, a, i, f, t)
          \/ \E a \in Agents, t \in Terms, p \in Projects :
                insert_local_project_work_claim(c, a, i, f, p, t)
          \/ \E k \in Clients : upsert_or_heartbeat_claim(c, k, i, f)
    BY DEF InsertStep
  <1>2. \A a, p, t : NewRow(a, i, f, p, t).env = None
    BY DEF NewRow
  <1>3. \A k : [NewRow(None, i, f, None, NoTerms) EXCEPT !.client = k].env = None
    BY DEF NewRow
  <1>4. CASE \E k \in Clients : upsert_or_heartbeat_claim(c, k, i, f)
    <2>1. PICK k \in Clients : upsert_or_heartbeat_claim(c, k, i, f)
      BY <1>4
    <2>2. CASE Insert(c, [NewRow(None, i, f, None, NoTerms) EXCEPT !.client = k])
      BY <1>3, <2>2, InsertRests
    <2>3. CASE ~Insert(c, [NewRow(None, i, f, None, NoTerms) EXCEPT !.client = k])
      <3>1. \A d \in DOMAIN claims :
              LET fresh == [claims[d] EXCEPT !.aged = FALSE]
              IN  fresh.env = claims[d].env /\ fresh.holder = claims[d].holder
        BY DEF TypeOK, ClaimRow
      <3> QED  BY <2>1, <2>3, <3>1 DEF upsert_or_heartbeat_claim, BindingsRest
    <2> QED  BY <2>2, <2>3
  <1>5. CASE \E a \in Agents, t \in Terms : insert_work_claim(c, a, i, f, t)
    BY <1>2, <1>5, InsertRests DEF insert_work_claim
  <1>6. CASE \E a \in Agents, t \in Terms, p \in Projects :
               insert_local_project_work_claim(c, a, i, f, p, t)
    BY <1>2, <1>6, InsertRests DEF insert_local_project_work_claim
  <1> QED  BY <1>1, <1>4, <1>5, <1>6

(* A handoff moves the holder on both sides at once. *)
LEMMA HandoffBinds ==
  ASSUME TypeOK, TypeOK', Bindings,
         NEW c \in Claims, NEW a \in Agents, NEW v, NEW t \in Terms,
         handoff_work_claim(c, a, v, t)
  PROVE  Bindings'
  <1>1. c \in DOMAIN claims /\ claims[c] \in ClaimRow
    BY DEF handoff_work_claim, may_handoff, AtVersion, TypeOK
  <1>2. /\ claims' = [claims EXCEPT ![c] = Bumped(HandedOff(claims[c], a, t))]
        /\ minted' = minted
    BY DEF handoff_work_claim
  <1>3. /\ claims'[c].env = claims[c].env /\ claims'[c].holder = a
        /\ DOMAIN claims' = DOMAIN claims
        /\ \A d \in DOMAIN claims \ {c} : claims'[d] = claims[d]
    BY <1>1, <1>2 DEF Bumped, HandedOff, ClaimRow
  <1>4. a # None
    BY NoneAssumption
  <1>5. CASE claims[c].env = None
    <2>1. envs' = envs
      BY <1>5 DEF handoff_work_claim
    <2> QED  BY <1>1, <1>2, <1>3, <1>5, <2>1 DEF Bindings
  <1>6. CASE claims[c].env # None
    <2>1. claims[c].env \in Envs
      BY <1>1, <1>6 DEF ClaimRow, OrNone
    <2>2. /\ envs' = [envs EXCEPT ![claims[c].env].holder = a]
          /\ envs[claims[c].env] = [holder |-> claims[c].holder, claim |-> c]
      BY <1>6 DEF handoff_work_claim
    <2>3. /\ envs'[claims[c].env] = [holder |-> a, claim |-> c]
          /\ \A e \in Envs \ {claims[c].env} : envs'[e] = envs[e]
      BY <2>1, <2>2 DEF TypeOK
    <2>4. \A d \in DOMAIN claims \ {c} : claims[d].env # claims[c].env
      BY <1>1, <1>6, BoundClaim
    <2>5. \A d \in DOMAIN claims : claims[d].env # None => claims[d].env \in Envs
      BY DEF TypeOK, ClaimRow, OrNone
    <2>6. \A d \in DOMAIN claims' :
            claims'[d].env # None =>
              /\ claims'[d].holder # None
              /\ envs'[claims'[d].env] = [holder |-> claims'[d].holder, claim |-> d]
      BY <1>1, <1>3, <1>4, <2>3, <2>4, <2>5 DEF Bindings
    <2>7. c \in minted
      BY <1>1 DEF TypeOK
    <2>8. \A e \in Envs :
            /\ envs'[e] = Unbound \/ envs'[e].claim \in minted'
            /\ envs'[e].claim \in DOMAIN claims' => claims'[envs'[e].claim].env = e
      BY <1>1, <1>2, <1>3, <2>1, <2>2, <2>3, <2>7 DEF Bindings
    <2> QED  BY <2>6, <2>8 DEF Bindings
  <1> QED  BY <1>5, <1>6

LEMMA BindBinds ==
  ASSUME TypeOK, TypeOK', Bindings,
         NEW c \in Claims, NEW e \in Envs, NEW v, bind_work_claim_exec_env(c, e, v)
  PROVE  Bindings'
  <1>1. c \in DOMAIN claims /\ claims[c] \in ClaimRow /\ c \in minted
    BY DEF bind_work_claim_exec_env, AtVersion, TypeOK
  <1>2. /\ claims' = [claims EXCEPT ![c] = Bumped([claims[c] EXCEPT !.env = e])]
        /\ envs' = [envs EXCEPT ![e] = [holder |-> claims[c].holder, claim |-> c]]
        /\ minted' = minted
        /\ claims[c].holder # None /\ claims[c].env = None /\ envs[e] = Unbound
    BY DEF bind_work_claim_exec_env
  <1>3. /\ claims'[c].env = e /\ claims'[c].holder = claims[c].holder
        /\ DOMAIN claims' = DOMAIN claims
        /\ \A d \in DOMAIN claims \ {c} : claims'[d] = claims[d]
    BY <1>1, <1>2 DEF Bumped, ClaimRow
  <1>4. /\ envs'[e] = [holder |-> claims[c].holder, claim |-> c]
        /\ \A g \in Envs \ {e} : envs'[g] = envs[g]
    BY <1>2 DEF TypeOK
  <1>5. \A d \in DOMAIN claims \ {c} :
          claims[d].env # None => claims[d].env \in Envs /\ claims[d].env # e
    <2>1. \A d \in DOMAIN claims : d # None
      BY NoneAssumption DEF TypeOK
    <2>2. ASSUME NEW d \in DOMAIN claims \ {c}, claims[d].env # None
          PROVE  claims[d].env \in Envs /\ claims[d].env # e
      <3>1. claims[d].env \in Envs
        BY <2>2 DEF TypeOK, ClaimRow, OrNone
      <3>2. envs[claims[d].env].claim = d
        BY <2>2, BoundClaim
      <3> QED  BY <1>2, <2>1, <3>1, <3>2 DEF Unbound
    <2> QED  BY <2>2
  <1>6. \A d \in DOMAIN claims' :
          claims'[d].env # None =>
            /\ claims'[d].holder # None
            /\ envs'[claims'[d].env] = [holder |-> claims'[d].holder, claim |-> d]
    BY <1>1, <1>2, <1>3, <1>4, <1>5 DEF Bindings
  <1>7. \A g \in Envs \ {e} : envs[g].claim # c
    BY <1>1, <1>2, NoneAssumption DEF Bindings
  <1>8. \A g \in Envs :
          /\ envs'[g] = Unbound \/ envs'[g].claim \in minted'
          /\ envs'[g].claim \in DOMAIN claims' => claims'[envs'[g].claim].env = g
    BY <1>1, <1>2, <1>3, <1>4, <1>7 DEF Bindings
  <1> QED  BY <1>6, <1>8 DEF Bindings

LEMMA BindingsStep ==
  ASSUME TypeOK, Bindings, [Next]_vars
  PROVE  Bindings'
  <1>0. TypeOK'
    BY TypeStep
  <1>1. CASE InsertStep
    BY <1>0, <1>1, InsertStepRests, RestStep
  <1>2. CASE VersionedStep
    <2>1. PICK c \in Claims, a \in Agents, v \in 0 .. MaxVersion :
            \/ heartbeat_work_claim(c, a, v)
            \/ release_work_claim(c, a, v)
            \/ \E t \in Terms : handoff_work_claim(c, a, v, t)
            \/ \E e \in Envs : bind_work_claim_exec_env(c, e, v)
      BY <1>2 DEF VersionedStep
    <2>2. CASE heartbeat_work_claim(c, a, v) \/ release_work_claim(c, a, v)
      <3>1. c \in DOMAIN claims /\ claims[c] \in ClaimRow
        BY <2>2 DEF heartbeat_work_claim, release_work_claim, may_release, AtVersion, TypeOK
      <3>2. /\ Bumped([claims[c] EXCEPT !.aged = FALSE]).env = claims[c].env
            /\ Bumped([claims[c] EXCEPT !.aged = FALSE]).holder = claims[c].holder
        BY <3>1 DEF Bumped, ClaimRow
      <3>3. LET gone == Bumped([claims[c] EXCEPT !.state = "released", !.aged = FALSE])
            IN  gone.env = claims[c].env /\ gone.holder = claims[c].holder
        BY <3>1 DEF Bumped, ClaimRow
      <3>4. CASE heartbeat_work_claim(c, a, v)
        <4>1. BindingsRest
          BY <3>1, <3>2, <3>4 DEF heartbeat_work_claim, BindingsRest
        <4> QED  BY <1>0, <4>1, RestStep
      <3>5. CASE release_work_claim(c, a, v)
        <4>1. BindingsRest
          BY <3>1, <3>3, <3>5 DEF release_work_claim, BindingsRest
        <4> QED  BY <1>0, <4>1, RestStep
      <3> QED  BY <2>2, <3>4, <3>5
    <2>3. CASE \E t \in Terms : handoff_work_claim(c, a, v, t)
      BY <1>0, <2>3, HandoffBinds
    <2>4. CASE \E e \in Envs : bind_work_claim_exec_env(c, e, v)
      BY <1>0, <2>4, BindBinds
    <2> QED  BY <2>1, <2>2, <2>3, <2>4
  <1>3. ASSUME NEW c \in Claims, heartbeat_claim(c) \/ release_claim(c) \/ Age(c)
        PROVE  Bindings'
    <2>1. c \in DOMAIN claims /\ claims[c] \in ClaimRow
      BY <1>3 DEF TypeOK, heartbeat_claim, release_claim, Age
    <2>2. BindingsRest
      BY <1>3, <2>1 DEF heartbeat_claim, release_claim, Age, BindingsRest, ClaimRow
    <2> QED  BY <1>0, <2>2, RestStep
  <1>4. CASE gc_orphan_stale
    <2>1. \A d \in DOMAIN claims :
            LET orphan == [claims[d] EXCEPT !.state = "orphaned"]
            IN  orphan.env = claims[d].env /\ orphan.holder = claims[d].holder
      BY DEF TypeOK, ClaimRow
    <2>2. BindingsRest
      BY <1>4, <2>1 DEF gc_orphan_stale, BindingsRest
    <2> QED  BY <1>0, <2>2, RestStep
  <1>5. CASE gc_prune_released
    <2>1. BindingsRest
      BY <1>5 DEF gc_prune_released, BindingsRest
    <2> QED  BY <1>0, <2>1, RestStep
  <1>6. CASE UNCHANGED vars
    <2>1. BindingsRest
      BY <1>6 DEF vars, BindingsRest
    <2> QED  BY <1>0, <2>1, RestStep
  <1> QED  BY <1>1, <1>2, <1>3, <1>4, <1>5, <1>6 DEF Next

(* With Bindings the evidence is a function of the one claim that the       *)
(* environment names.                                                       *)
ReadsItsClaim(e) ==
  /\ envs[e] = Unbound => holder_evidence(e) = "not_applicable"
  /\ envs[e] # Unbound =>
       /\ envs[e].claim \in minted /\ envs[e].claim # None
       /\ envs[e].claim \notin DOMAIN claims => holder_evidence(e) = "unverifiable"
       /\ envs[e].claim \in DOMAIN claims =>
            /\ Joined(e) = {envs[e].claim}
            /\ claims[envs[e].claim].holder # None
            /\ holder_evidence(e) =
                 IF claims[envs[e].claim].state = "released" THEN "clear" ELSE "held"

EvidenceReads == \A e \in Envs : ReadsItsClaim(e)

LEMMA EvidenceReadsItsClaim == TypeOK /\ Bindings => EvidenceReads
  <1> SUFFICES ASSUME TypeOK, Bindings, NEW e \in Envs PROVE ReadsItsClaim(e)
    BY DEF EvidenceReads
  <1>1. None \notin DOMAIN claims
    BY NoneAssumption DEF TypeOK
  <1>2. CASE envs[e] = Unbound
    <2>1. \A c \in DOMAIN claims : claims[c].env # e
      <3>1. e # None
        BY NoneAssumption
      <3>2. envs[e].claim = None
        BY <1>2 DEF Unbound
      <3> QED  BY <1>1, <3>1, <3>2, BoundClaim
    <2>2. Joined(e) = {}
      BY <1>1, <1>2, <2>1 DEF Joined, Unbound
    <2>3. envs[e].claim = None
      BY <1>2 DEF Unbound
    <2>4. holder_evidence(e) = "not_applicable"
      BY <1>2, <2>2, <2>3 DEF holder_evidence
    <2> QED  BY <1>2, <2>4 DEF ReadsItsClaim
  <1>3. CASE envs[e] # Unbound
    <2>1. envs[e].claim \in minted /\ envs[e].claim # None
      BY <1>3, NoneAssumption DEF Bindings, TypeOK
    <2>2. \A c \in DOMAIN claims : claims[c].env = e => c = envs[e].claim
      BY NoneAssumption, BoundClaim
    <2>3. CASE envs[e].claim \notin DOMAIN claims
      <3>1. Joined(e) = {}
        BY <2>2, <2>3 DEF Joined
      <3>2. holder_evidence(e) = "unverifiable"
        BY <1>3, <2>1, <3>1 DEF holder_evidence
      <3> QED  BY <1>3, <2>1, <2>3, <3>2 DEF ReadsItsClaim
    <2>4. CASE envs[e].claim \in DOMAIN claims
      <3> DEFINE c == envs[e].claim
      <3>1. Joined(e) = {c}
        BY <2>2, <2>4 DEF Joined
      <3>2. claims[c].env = e
        BY <2>4 DEF Bindings
      <3>3. Agrees(c, e) /\ claims[c].holder # None
        BY <2>4, <3>2, NoneAssumption DEF Bindings, Agrees
      <3>4. Joined(e) # {} /\ \A d \in DOMAIN claims : Joined(e) = {d} => d = c
        BY <3>1
      <3>5. CASE claims[c].state = "released"
        <4>1. holder_evidence(e) = "clear"
          BY <2>4, <3>1, <3>3, <3>4, <3>5 DEF holder_evidence
        <4> QED  BY <1>3, <2>1, <2>4, <3>1, <3>3, <3>5, <4>1 DEF ReadsItsClaim
      <3>6. CASE claims[c].state # "released"
        <4>1. holder_evidence(e) = "held"
          BY <2>4, <3>1, <3>3, <3>4, <3>6 DEF holder_evidence
        <4> QED  BY <1>3, <2>1, <2>4, <3>1, <3>3, <3>6, <4>1 DEF ReadsItsClaim
      <3> QED  BY <3>5, <3>6
    <2> QED  BY <2>3, <2>4
  <1> QED  BY <1>2, <1>3

(* A cleaner never reads contradictory evidence. *)
THEOREM EvidenceStaysConsistent == Spec => []EvidenceIsConsistent
  <1>1. Init => Bindings
    BY NoneAssumption DEF Init, Bindings, Unbound
  <1>2. TypeOK /\ Bindings /\ [Next]_vars => Bindings'
    BY BindingsStep
  <1>3. TypeOK /\ Bindings => EvidenceIsConsistent
    <2>1. \A e \in Envs : ReadsItsClaim(e) => holder_evidence(e) # "contradictory"
      BY DEF ReadsItsClaim
    <2> QED  BY <2>1, EvidenceReadsItsClaim DEF EvidenceReads, EvidenceIsConsistent
  <1> QED  BY <1>1, <1>2, <1>3, TypeCorrect, PTL DEF Spec

-------------------------------------------------------------------------------
(* What a step may do to one row.                                           *)
RowStep(old, new) ==
  /\ new.issue = old.issue /\ new.flow = old.flow /\ new.project = old.project
  /\ old.state = "released" => new.state = "released"
  /\ new.holder # old.holder => old.state = "orphaned"
  /\ \/ new.version = old.version + 1
     \/ /\ new.version = old.version
        /\ new.holder = old.holder /\ new.terms = old.terms /\ new.env = old.env
        /\ \/ new.state = old.state
           \/ old.state = "active" /\ new.state = "orphaned"
           \/ old.terms = NoTerms /\ old.holder = None

(* The row operations, each a RowStep where its guard allows it. *)
LEMMA RowOperations ==
  ASSUME NEW row \in ClaimRow
  PROVE  /\ RowStep(row, row)
         /\ \A b \in BOOLEAN : RowStep(row, [row EXCEPT !.aged = b])
         /\ row.state = "active" => RowStep(row, [row EXCEPT !.state = "orphaned"])
         /\ row.state = "active" /\ row.terms = NoTerms /\ row.holder = None =>
              RowStep(row, [row EXCEPT !.state = "released", !.aged = FALSE])
         /\ RowStep(row, Bumped([row EXCEPT !.aged = FALSE]))
         /\ RowStep(row, Bumped([row EXCEPT !.state = "released", !.aged = FALSE]))
         /\ \A e : RowStep(row, Bumped([row EXCEPT !.env = e]))
         /\ \A a, t : row.state = "orphaned" \/ (row.state = "active" /\ row.holder = a) =>
              RowStep(row, Bumped(HandedOff(row, a, t)))
  <1>1. /\ RowStep(row, row)
        /\ \A b \in BOOLEAN : RowStep(row, [row EXCEPT !.aged = b])
    BY DEF RowStep, ClaimRow
  <1>2. row.state = "active" => RowStep(row, [row EXCEPT !.state = "orphaned"])
    BY DEF RowStep, ClaimRow
  <1>3. row.state = "active" /\ row.terms = NoTerms /\ row.holder = None =>
          RowStep(row, [row EXCEPT !.state = "released", !.aged = FALSE])
    BY DEF RowStep, ClaimRow
  <1>4. RowStep(row, Bumped([row EXCEPT !.aged = FALSE]))
    BY DEF RowStep, ClaimRow, Bumped
  <1>5. RowStep(row, Bumped([row EXCEPT !.state = "released", !.aged = FALSE]))
    BY DEF RowStep, ClaimRow, Bumped
  <1>6. \A e : RowStep(row, Bumped([row EXCEPT !.env = e]))
    BY DEF RowStep, ClaimRow, Bumped
  <1>7. \A a, t : row.state = "orphaned" \/ (row.state = "active" /\ row.holder = a) =>
          RowStep(row, Bumped(HandedOff(row, a, t)))
    BY DEF RowStep, ClaimRow, Bumped, HandedOff
  <1> QED  BY <1>1, <1>2, <1>3, <1>4, <1>5, <1>6, <1>7

(* One row is replaced by a RowStep of it, the others stay. *)
LEMMA OneRow ==
  ASSUME TypeOK, NEW c \in DOMAIN claims, NEW new, RowStep(claims[c], new),
         claims' = [claims EXCEPT ![c] = new]
  PROVE  \A d \in DOMAIN claims : d \in DOMAIN claims' /\ RowStep(claims[d], claims'[d])
  <1>1. \A d \in DOMAIN claims : RowStep(claims[d], claims[d])
    BY RowOperations DEF TypeOK
  <1> QED  BY <1>1

LEMMA RowSteps ==
  ASSUME TypeOK, [Next]_vars
  PROVE  \A d \in DOMAIN claims :
           IF d \in DOMAIN claims' THEN RowStep(claims[d], claims'[d])
                                   ELSE claims[d].state = "released"
  <1>1. \A d \in DOMAIN claims :
          claims[d] \in ClaimRow /\ RowStep(claims[d], claims[d]) /\ d \in minted
    BY RowOperations DEF TypeOK
  <1>2. ASSUME NEW c \in Claims, NEW row, Insert(c, row)
        PROVE  \A d \in DOMAIN claims : d \in DOMAIN claims' /\ RowStep(claims[d], claims'[d])
    BY <1>1, <1>2 DEF Insert, Put
  <1>3. CASE InsertStep
    <2>1. PICK c \in Claims, i \in OrNone(Issues), f \in OrNone(Flows) :
            \/ \E a \in Agents, t \in Terms : insert_work_claim(c, a, i, f, t)
            \/ \E a \in Agents, t \in Terms, p \in Projects :
                  insert_local_project_work_claim(c, a, i, f, p, t)
            \/ \E k \in Clients : upsert_or_heartbeat_claim(c, k, i, f)
      BY <1>3 DEF InsertStep
    <2>2. CASE \E row : Insert(c, row)
      BY <1>2, <2>2
    <2>3. CASE ~\E row : Insert(c, row)
      <3>1. PICK k \in Clients : upsert_or_heartbeat_claim(c, k, i, f)
        BY <2>1, <2>3 DEF insert_work_claim, insert_local_project_work_claim
      <3>2. \A d \in DOMAIN claims : RowStep(claims[d], [claims[d] EXCEPT !.aged = FALSE])
        BY <1>1, RowOperations
      <3> QED  BY <1>1, <2>3, <3>1, <3>2 DEF upsert_or_heartbeat_claim
    <2> QED  BY <2>2, <2>3
  <1>4. CASE VersionedStep
    <2>1. PICK c \in Claims, a \in Agents, v \in 0 .. MaxVersion :
            \/ heartbeat_work_claim(c, a, v)
            \/ release_work_claim(c, a, v)
            \/ \E t \in Terms : handoff_work_claim(c, a, v, t)
            \/ \E e \in Envs : bind_work_claim_exec_env(c, e, v)
      BY <1>4 DEF VersionedStep
    <2>2. c \in DOMAIN claims /\ claims[c] \in ClaimRow
      BY <2>1 DEF TypeOK, heartbeat_work_claim, release_work_claim, may_release,
                  handoff_work_claim, may_handoff, bind_work_claim_exec_env, AtVersion
    <2>3. PICK new : RowStep(claims[c], new) /\ claims' = [claims EXCEPT ![c] = new]
      <3>1. CASE heartbeat_work_claim(c, a, v)
        BY <2>2, <3>1, RowOperations DEF heartbeat_work_claim
      <3>2. CASE release_work_claim(c, a, v)
        BY <2>2, <3>2, RowOperations DEF release_work_claim
      <3>3. CASE \E t \in Terms : handoff_work_claim(c, a, v, t)
        <4>1. PICK t \in Terms : handoff_work_claim(c, a, v, t)
          BY <3>3
        <4>2. claims[c].state = "orphaned" \/ (claims[c].state = "active" /\ claims[c].holder = a)
          BY <4>1 DEF handoff_work_claim, may_handoff
        <4>3. RowStep(claims[c], Bumped(HandedOff(claims[c], a, t)))
          BY <2>2, <4>2, RowOperations
        <4> QED  BY <4>1, <4>3 DEF handoff_work_claim
      <3>4. CASE \E e \in Envs : bind_work_claim_exec_env(c, e, v)
        BY <2>2, <3>4, RowOperations DEF bind_work_claim_exec_env
      <3> QED  BY <2>1, <3>1, <3>2, <3>3, <3>4
    <2> QED  BY <2>2, <2>3, OneRow
  <1>5. ASSUME NEW c \in Claims, heartbeat_claim(c) \/ release_claim(c) \/ Age(c)
        PROVE  \A d \in DOMAIN claims : d \in DOMAIN claims' /\ RowStep(claims[d], claims'[d])
    <2>1. c \in DOMAIN claims /\ claims[c] \in ClaimRow
      BY <1>5 DEF TypeOK, heartbeat_claim, release_claim, Age
    <2>2. PICK new : RowStep(claims[c], new) /\ claims' = [claims EXCEPT ![c] = new]
      <3>1. CASE heartbeat_claim(c)
        BY <2>1, <3>1, RowOperations DEF heartbeat_claim
      <3>2. CASE release_claim(c)
        BY <2>1, <3>2, RowOperations DEF release_claim
      <3>3. CASE Age(c)
        BY <2>1, <3>3, RowOperations DEF Age
      <3> QED  BY <1>5, <3>1, <3>2, <3>3
    <2> QED  BY <2>1, <2>2, OneRow
  <1>6. CASE gc_orphan_stale
    <2>1. \A d \in DOMAIN claims :
            claims[d].state = "active" => RowStep(claims[d], [claims[d] EXCEPT !.state = "orphaned"])
      BY <1>1, RowOperations
    <2> QED  BY <1>1, <1>6, <2>1 DEF gc_orphan_stale
  <1>7. CASE gc_prune_released
    BY <1>1, <1>7 DEF gc_prune_released
  <1>8. CASE UNCHANGED vars
    BY <1>1, <1>8 DEF vars
  <1> QED  BY <1>3, <1>4, <1>5, <1>6, <1>7, <1>8 DEF Next

(* Only orphans change hands, unreleased rows never disappear and released  *)
(* ones never come back, whatever the interleaving of callers and sweeps.   *)
THEOREM TakeoversAreExplicit == Spec => NoSilentTakeover
  <1>1. TypeOK /\ [Next]_vars =>
          [\A c \in DOMAIN claims :
             /\ claims[c].state # "released" => c \in DOMAIN claims'
             /\ c \in DOMAIN claims' =>
                  /\ claims'[c].holder # claims[c].holder => claims[c].state = "orphaned"
                  /\ claims[c].state = "released" => claims'[c].state = "released"]_vars
    BY RowSteps DEF RowStep
  <1> QED  BY <1>1, TypeCorrect, PTL DEF Spec, NoSilentTakeover

(* The transition version is a faithful token: it pins the terms, the       *)
(* holder and the binding that its reader saw.                              *)
THEOREM VersionsPinTerms == Spec => VersionPinsTerms
  <1>1. ASSUME TypeOK, [Next]_vars
        PROVE  [\A c \in DOMAIN claims \cap DOMAIN claims' :
                  LET old == claims[c]
                      new == claims'[c]
                  IN  /\ <<new.issue, new.flow, new.project>>
                           = <<old.issue, old.flow, old.project>>
                      /\ \/ new.version = old.version + 1
                         \/ /\ new.version = old.version
                            /\ <<new.holder, new.terms, new.env>>
                                 = <<old.holder, old.terms, old.env>>
                            /\ \/ new.state = old.state
                               \/ old.state = "active" /\ new.state = "orphaned"
                               \/ old.terms = NoTerms]_vars
    BY <1>1, RowSteps DEF RowStep
  <1> QED  BY <1>1, TypeCorrect, PTL DEF Spec, VersionPinsTerms

-------------------------------------------------------------------------------
(* What a step may add: at most one row, under an id that was never used,   *)
(* whose project no row of its flow contradicts.                            *)
Adds(c) ==
  /\ DOMAIN claims' \subseteq DOMAIN claims \cup {c}
  /\ c \in DOMAIN claims' \ DOMAIN claims =>
       /\ c \notin minted
       /\ \/ claims'[c].project = None
          \/ ~contradictory_project(claims'[c].flow, claims'[c].project)

LEMMA InsertAdds ==
  ASSUME TypeOK, NEW c, NEW row, Insert(c, row),
         row.project = None \/ ~contradictory_project(row.flow, row.project)
  PROVE  Adds(c)
  BY DEF Insert, Put, Adds

LEMMA StepAdds ==
  ASSUME TypeOK, [Next]_vars
  PROVE  \E c : Adds(c)
  <1>1. ASSUME DOMAIN claims' \subseteq DOMAIN claims PROVE \E c : Adds(c)
    <2>1. Adds(None)
      BY <1>1 DEF Adds
    <2> QED  BY <2>1
  <1>2. CASE InsertStep
    <2>1. PICK c \in Claims, i \in OrNone(Issues), f \in OrNone(Flows) :
            \/ \E a \in Agents, t \in Terms : insert_work_claim(c, a, i, f, t)
            \/ \E a \in Agents, t \in Terms, p \in Projects :
                  insert_local_project_work_claim(c, a, i, f, p, t)
            \/ \E k \in Clients : upsert_or_heartbeat_claim(c, k, i, f)
      BY <1>2 DEF InsertStep
    <2>2. \A a, p, t : NewRow(a, i, f, p, t).project = p /\ NewRow(a, i, f, p, t).flow = f
      BY DEF NewRow
    <2>3. \A k : [NewRow(None, i, f, None, NoTerms) EXCEPT !.client = k].project = None
      BY DEF NewRow
    <2>4. CASE \E a \in Agents, t \in Terms : insert_work_claim(c, a, i, f, t)
      BY <2>2, <2>4, InsertAdds DEF insert_work_claim
    <2>5. CASE \E a \in Agents, t \in Terms, p \in Projects :
                 insert_local_project_work_claim(c, a, i, f, p, t)
      BY <2>2, <2>5, InsertAdds DEF insert_local_project_work_claim
    <2>6. CASE \E k \in Clients : upsert_or_heartbeat_claim(c, k, i, f)
      <3>1. PICK k \in Clients : upsert_or_heartbeat_claim(c, k, i, f)
        BY <2>6
      <3>2. CASE Insert(c, [NewRow(None, i, f, None, NoTerms) EXCEPT !.client = k])
        BY <2>3, <3>2, InsertAdds
      <3>3. CASE ~Insert(c, [NewRow(None, i, f, None, NoTerms) EXCEPT !.client = k])
        BY <1>1, <3>1, <3>3 DEF upsert_or_heartbeat_claim
      <3> QED  BY <3>2, <3>3
    <2> QED  BY <2>1, <2>4, <2>5, <2>6
  <1>3. CASE VersionedStep
    BY <1>1, <1>3 DEF VersionedStep, heartbeat_work_claim, release_work_claim,
                      handoff_work_claim, bind_work_claim_exec_env
  <1>4. CASE \E c \in Claims : heartbeat_claim(c) \/ release_claim(c) \/ Age(c)
    BY <1>1, <1>4 DEF heartbeat_claim, release_claim, Age
  <1>5. CASE gc_orphan_stale \/ gc_prune_released \/ UNCHANGED vars
    BY <1>1, <1>5 DEF gc_orphan_stale, gc_prune_released, vars
  <1> QED  BY <1>2, <1>3, <1>4, <1>5 DEF Next

LEMMA ProjectStep ==
  ASSUME TypeOK, OneProjectPerFlow, [Next]_vars
  PROVE  OneProjectPerFlow'
  <1>1. PICK n : Adds(n)
    BY StepAdds
  <1>2. ASSUME NEW c \in DOMAIN claims', c \in DOMAIN claims
        PROVE  claims'[c].flow = claims[c].flow /\ claims'[c].project = claims[c].project
    BY <1>2, RowSteps DEF RowStep
  <1>3. ASSUME NEW c \in DOMAIN claims, c \in DOMAIN claims',
               n \in DOMAIN claims' \ DOMAIN claims,
               claims'[n].flow # None, claims'[c].flow = claims'[n].flow,
               claims'[c].project # None, claims'[n].project # None
        PROVE  claims'[c].project = claims'[n].project
    BY <1>1, <1>2, <1>3 DEF Adds, contradictory_project
  <1> SUFFICES ASSUME NEW c \in DOMAIN claims', NEW d \in DOMAIN claims',
                      claims'[c].flow # None, claims'[c].flow = claims'[d].flow,
                      claims'[c].project # None, claims'[d].project # None
               PROVE  claims'[c].project = claims'[d].project
    BY DEF OneProjectPerFlow
  <1>4. CASE c \in DOMAIN claims /\ d \in DOMAIN claims
    BY <1>2, <1>4 DEF OneProjectPerFlow
  <1>5. CASE c \notin DOMAIN claims /\ d \notin DOMAIN claims
    BY <1>1, <1>5 DEF Adds
  <1>6. CASE c \in DOMAIN claims /\ d \notin DOMAIN claims
    <2>1. d = n
      BY <1>1, <1>6 DEF Adds
    <2> QED  BY <1>3, <1>6, <2>1
  <1>7. CASE c \notin DOMAIN claims /\ d \in DOMAIN claims
    <2>1. c = n
      BY <1>1, <1>7 DEF Adds
    <2> QED  BY <1>3, <1>7, <2>1
  <1> QED  BY <1>4, <1>5, <1>6, <1>7

(* A flow stays with its first project for as long as any row of it is      *)
(* kept, released ones included (insert_local_project_work_claim).          *)
THEOREM FlowsKeepTheirProject == Spec => []OneProjectPerFlow
  <1>1. Init => OneProjectPerFlow
    BY DEF Init, OneProjectPerFlow
  <1>2. TypeOK /\ OneProjectPerFlow /\ [Next]_vars => OneProjectPerFlow'
    BY ProjectStep
  <1> QED  BY <1>1, <1>2, TypeCorrect, PTL DEF Spec

-------------------------------------------------------------------------------
(* An environment keeps the claim it is bound by. *)
LEMMA BindingStays ==
  ASSUME TypeOK, [Next]_vars, NEW e \in Envs, envs[e].claim # None
  PROVE  envs'[e].claim = envs[e].claim
  <1>1. CASE InsertStep
    BY <1>1, InsertStepRests DEF BindingsRest
  <1>2. CASE VersionedStep
    <2>1. PICK c \in Claims, a \in Agents, v \in 0 .. MaxVersion :
            \/ heartbeat_work_claim(c, a, v)
            \/ release_work_claim(c, a, v)
            \/ \E t \in Terms : handoff_work_claim(c, a, v, t)
            \/ \E g \in Envs : bind_work_claim_exec_env(c, g, v)
      BY <1>2 DEF VersionedStep
    <2>2. CASE heartbeat_work_claim(c, a, v) \/ release_work_claim(c, a, v)
      BY <2>2 DEF heartbeat_work_claim, release_work_claim
    <2>3. CASE \E t \in Terms : handoff_work_claim(c, a, v, t)
      <3>1. envs' = envs \/ envs' = [envs EXCEPT ![claims[c].env].holder = a]
        BY <2>3 DEF handoff_work_claim
      <3> QED  BY <3>1 DEF TypeOK, EnvRow
    <2>4. CASE \E g \in Envs : bind_work_claim_exec_env(c, g, v)
      <3>1. PICK g \in Envs : /\ envs[g] = Unbound
                              /\ envs' = [envs EXCEPT ![g] = [holder |-> claims[c].holder,
                                                              claim |-> c]]
        BY <2>4 DEF bind_work_claim_exec_env
      <3>2. g # e
        BY <3>1 DEF Unbound
      <3> QED  BY <3>1, <3>2 DEF TypeOK
    <2> QED  BY <2>1, <2>2, <2>3, <2>4
  <1>3. CASE \E c \in Claims : heartbeat_claim(c) \/ release_claim(c) \/ Age(c)
    BY <1>3 DEF heartbeat_claim, release_claim, Age
  <1>4. CASE gc_orphan_stale \/ gc_prune_released \/ UNCHANGED vars
    BY <1>4 DEF gc_orphan_stale, gc_prune_released, vars
  <1> QED  BY <1>1, <1>2, <1>3, <1>4 DEF Next

LEMMA EvidenceReadsNext == TypeOK' /\ Bindings' => EvidenceReads'
  BY EvidenceReadsItsClaim, PTL

LEMMA EvidenceStep ==
  ASSUME TypeOK, Bindings, [Next]_vars, NEW e \in Envs
  PROVE  LET was == holder_evidence(e)
             is == holder_evidence(e)'
         IN  /\ was = "held" => \/ is = "held"
                                \/ /\ is = "clear"
                                   /\ \E c \in Joined(e) :
                                        claims'[c].version = claims[c].version + 1
             /\ was = "clear" => is \in {"clear", "unverifiable"}
             /\ was = "unverifiable" => is = "unverifiable"
  <1> DEFINE c == envs[e].claim
  <1>0. ReadsItsClaim(e)
    BY EvidenceReadsItsClaim DEF EvidenceReads
  <1>1. ReadsItsClaim(e)'
    <2>1. TypeOK' /\ Bindings'
      BY TypeStep, BindingsStep
    <2> QED  BY <2>1, EvidenceReadsNext DEF EvidenceReads
  <1>2. CASE envs[e] = Unbound
    <2>1. holder_evidence(e) = "not_applicable"
      BY <1>0, <1>2 DEF ReadsItsClaim
    <2> QED  BY <2>1
  <1>3. CASE envs[e] # Unbound
    <2>1. c \in minted /\ c # None
      BY <1>0, <1>3 DEF ReadsItsClaim
    <2>2. envs'[e].claim = c /\ envs'[e] # Unbound
      BY <2>1, BindingStays DEF Unbound
    <2>3. /\ c \notin DOMAIN claims' => holder_evidence(e)' = "unverifiable"
          /\ c \in DOMAIN claims' =>
               holder_evidence(e)' = IF claims'[c].state = "released" THEN "clear" ELSE "held"
      <3>1. /\ envs'[e].claim \notin DOMAIN claims' => holder_evidence(e)' = "unverifiable"
            /\ envs'[e].claim \in DOMAIN claims' =>
                 holder_evidence(e)' =
                   IF claims'[envs'[e].claim].state = "released" THEN "clear" ELSE "held"
        BY Zenon, <1>1, <2>2 DEF ReadsItsClaim, Unbound
      <3> QED  BY <2>2, <3>1
    <2>4. CASE c \notin DOMAIN claims
      <3>1. holder_evidence(e) = "unverifiable"
        BY <1>0, <1>3, <2>4 DEF ReadsItsClaim
      <3>2. c \notin DOMAIN claims'
        BY <2>1, <2>4, StepAdds DEF Adds
      <3> QED  BY <2>3, <3>1, <3>2
    <2>5. CASE c \in DOMAIN claims
      <3>1. /\ Joined(e) = {c} /\ claims[c].holder # None
            /\ holder_evidence(e) = IF claims[c].state = "released" THEN "clear" ELSE "held"
        BY <1>0, <1>3, <2>5 DEF ReadsItsClaim
      <3>2. IF c \in DOMAIN claims' THEN RowStep(claims[c], claims'[c])
                                    ELSE claims[c].state = "released"
        BY <2>5, RowSteps
      <3>3. CASE claims[c].state = "released"
        <4>1. c \in DOMAIN claims' => claims'[c].state = "released"
          BY <3>2, <3>3 DEF RowStep
        <4> QED  BY <2>3, <3>1, <3>3, <4>1
      <3>4. CASE claims[c].state # "released"
        <4>1. c \in DOMAIN claims' /\ RowStep(claims[c], claims'[c])
          BY <3>2, <3>4
        <4>2. claims'[c].state = "released" => claims'[c].version = claims[c].version + 1
          BY <3>1, <3>4, <4>1 DEF RowStep
        <4>3. CASE claims'[c].state = "released"
          <5>1. holder_evidence(e)' = "clear"
            BY <2>3, <4>1, <4>3
          <5> QED  BY <3>1, <3>4, <4>2, <4>3, <5>1
        <4>4. CASE claims'[c].state # "released"
          <5>1. holder_evidence(e)' = "held"
            BY <2>3, <4>1, <4>4
          <5> QED  BY <3>1, <3>4, <5>1
        <4> QED  BY <4>3, <4>4
      <3> QED  BY <3>3, <3>4
    <2> QED  BY <2>4, <2>5
  <1> QED  BY <1>2, <1>3

(* What a cleaner concludes of an environment only moves forward: garbage   *)
(* collection never turns a held one into a clear one (holder_evidence,     *)
(* gc_session_claims, release_work_claim).                                  *)
THEOREM EvidenceOnlyAdvances == Spec => EvidenceMovesForward
  <1>1. ASSUME TypeOK, Bindings, [Next]_vars
        PROVE  [\A e \in Envs :
                  LET was == holder_evidence(e)
                      is == holder_evidence(e)'
                  IN  /\ was = "held" => \/ is = "held"
                                         \/ /\ is = "clear"
                                            /\ \E c \in Joined(e) :
                                                 claims'[c].version = claims[c].version + 1
                      /\ was = "clear" => is \in {"clear", "unverifiable"}
                      /\ was = "unverifiable" => is = "unverifiable"]_vars
    BY <1>1, EvidenceStep
  <1>2. Spec => []Bindings
    <2>1. Init => Bindings
      BY NoneAssumption DEF Init, Bindings, Unbound
    <2>2. TypeOK /\ Bindings /\ [Next]_vars => Bindings'
      BY BindingsStep
    <2> QED  BY <2>1, <2>2, TypeCorrect, PTL DEF Spec
  <1> QED  BY <1>1, <1>2, TypeCorrect, PTL DEF Spec, EvidenceMovesForward
===============================================================================
