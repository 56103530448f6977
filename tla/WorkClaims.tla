------------------------------ MODULE WorkClaims ------------------------------
(***************************************************************************)
(* WorkClaims (memcore db/session_claims.rs): who owns which piece of      *)
(* work.  A v21 claim has a proven holder, terms (mode, worktree, file     *)
(* scope, expected head) and a transition version that every ownership     *)
(* change compares and swaps.  A legacy presence row, written by hooks, is *)
(* advisory: it has no holder and no terms.  Garbage collection turns      *)
(* quiet active rows into orphans and prunes old released rows.  A claim   *)
(* can be bound to one execution environment, whose cleaner reads the      *)
(* claim as evidence before it destroys anything.                          *)
(*                                                                         *)
(* Every call is one write transaction, so it is one action; a refused     *)
(* call writes nothing and is a stuttering step.  gc_session_claims is two *)
(* statements in autocommit, so it is two actions.                         *)
(*                                                                         *)
(* Data: a path is the sequence of its components after normalisation, and *)
(* <<>> is every path that normalisation empties or that holds a '*'.  A   *)
(* time stamp is only ever compared with the cutoff of the next sweep:     *)
(* "aged" says that it is before it.  Role, branch, dispatch and lease     *)
(* columns are left out: no guard below reads them.                        *)
(***************************************************************************)
EXTENDS Integers, FiniteSets

CONSTANTS Claims,      \* claim ids; a uuid is never minted twice
          Agents,      \* recorded agent identities
          Clients,     \* session clients of presence hooks
          Issues, Flows, Projects, Heads, Envs,
          Worktrees,   \* normalised worktree paths
          Scopes,      \* declared file scopes: sets of normalised paths
          Terms,       \* mode, worktree, scope and expected head, as sessions declare them
          None,        \* SQL NULL
          MaxVersion   \* bound: last transition version of a claim

ASSUME NoneAssumption ==
  None \notin Claims \cup Agents \cup Clients \cup Issues \cup Flows
                \cup Projects \cup Heads \cup Envs
ASSUME TermsAssumption ==
  Terms \subseteq [mode : {"read_only", "writable"}, worktree : Worktrees,
                   scope : Scopes, head : Heads]
ASSUME VersionAssumption == MaxVersion \in Nat

VARIABLES claims,   \* session_claims: a partial function on Claims
          minted,   \* the claim ids ever inserted
          envs      \* the holder columns of exec_envs

vars == <<claims, minted, envs>>

NoTerms == [mode |-> "none", worktree |-> <<>>, scope |-> {}, head |-> None]

OrNone(S) == S \cup {None}

ClaimRow == [state   : {"active", "orphaned", "released"},
             client  : OrNone(Clients),
             holder  : OrNone(Agents),
             issue   : OrNone(Issues),
             flow    : OrNone(Flows),
             project : OrNone(Projects),   \* canonical_project
             terms   : Terms \cup {NoTerms},
             version : 0 .. MaxVersion,
             env     : OrNone(Envs),
             aged    : BOOLEAN]

EnvRow == [holder : OrNone(Agents), claim : OrNone(Claims)]
Unbound == [holder |-> None, claim |-> None]

TypeOK == /\ DOMAIN claims \subseteq minted
          /\ minted \subseteq Claims
          /\ \A c \in DOMAIN claims : claims[c] \in ClaimRow
          /\ envs \in [Envs -> EnvRow]

Put(f, k, v) == [x \in DOMAIN f \cup {k} |-> IF x = k THEN v ELSE f[x]]

-------------------------------------------------------------------------------
(* Admission: what may not coexist. *)

(* Equal, or one is a directory above the other; <<>> overlaps everything.  *)
paths_overlap(left, right) == \A i \in DOMAIN left \cap DOMAIN right : left[i] = right[i]

scopes_overlap(left, right) == \E l \in left, r \in right : paths_overlap(l, r)

same_issue(i, j) == i # None /\ i = j

(* A claim that refuses terms t for issue i: an incompatible head on the    *)
(* same issue, an overlapping writable worktree, or an overlapping writable *)
(* scope on the same issue.                                                 *)
collides(row, i, t) ==
  \/ same_issue(i, row.issue) /\ row.terms.head \notin {None, t.head}
  \/ /\ t.mode = "writable"
     /\ row.terms.mode = "writable"
     /\ \/ paths_overlap(t.worktree, row.terms.worktree)
        \/ same_issue(i, row.issue) /\ scopes_overlap(t.scope, row.terms.scope)

(* Forgets that an orphan still protects its work. *)
ActiveOnlyCollision(c, i, t) ==
  \E d \in DOMAIN claims \ {c} : claims[d].state = "active" /\ collides(claims[d], i, t)

(* Forgets heads between a reader and a writer. *)
WritersOnlyCollision(c, i, t) ==
  \E d \in DOMAIN claims \ {c} : /\ claims[d].state \in {"active", "orphaned"}
                                 /\ t.mode = "writable"
                                 /\ collides(claims[d], i, t)

reject_work_claim_collision(c, i, t) ==
  \E d \in DOMAIN claims \ {c} : /\ claims[d].state \in {"active", "orphaned"}
                                 /\ collides(claims[d], i, t)

NewRow(a, i, f, p, t) == [state |-> "active", client |-> None, holder |-> a, issue |-> i,
                          flow |-> f, project |-> p, terms |-> t, version |-> 0,
                          env |-> None, aged |-> FALSE]

Insert(c, row) == /\ c \in Claims \ minted
                  /\ claims' = Put(claims, c, row)
                  /\ minted' = minted \cup {c}
                  /\ UNCHANGED envs

insert_work_claim(c, a, i, f, t) ==
  /\ ~reject_work_claim_collision(c, i, t)
  /\ Insert(c, NewRow(a, i, f, None, t))

(* The project check looks only at rows that are still protected. *)
ProtectedProjectOnly(f, p) ==
  f # None /\ \E d \in DOMAIN claims : /\ claims[d].state # "released"
                                       /\ claims[d].flow = f
                                       /\ claims[d].project \notin {None, p}

(* A row of any state that binds flow f to another project. *)
contradictory_project(f, p) ==
  f # None /\ \E d \in DOMAIN claims : /\ claims[d].flow = f
                                       /\ claims[d].project \notin {None, p}

insert_local_project_work_claim(c, a, i, f, p, t) ==
  /\ ~contradictory_project(f, p)
  /\ ~reject_work_claim_collision(c, i, t)
  /\ Insert(c, NewRow(a, i, f, p, t))

(* The hook's insert-or-heartbeat: one active presence row per identity     *)
(* triple.  A hook that knows neither issue nor flow does nothing.          *)
upsert_or_heartbeat_claim(c, k, i, f) ==
  LET same == {d \in DOMAIN claims : /\ claims[d].state = "active"
                                     /\ claims[d].terms = NoTerms
                                     /\ claims[d].client = k
                                     /\ claims[d].issue = i
                                     /\ claims[d].flow = f}
  IN  /\ i # None \/ f # None
      /\ \/ /\ same # {}
            /\ claims' = [d \in DOMAIN claims |->
                            IF d \in same THEN [claims[d] EXCEPT !.aged = FALSE]
                                          ELSE claims[d]]
            /\ UNCHANGED <<minted, envs>>
         \/ /\ same = {}
            /\ Insert(c, [NewRow(None, i, f, None, NoTerms) EXCEPT !.client = k])

-------------------------------------------------------------------------------
(* Versioned transitions.  The caller presents the version it read.         *)

Bumped(row) == [row EXCEPT !.version = @ + 1]

AtVersion(c, v) == /\ c \in DOMAIN claims
                   /\ claims[c].version = v
                   /\ v < MaxVersion

heartbeat_work_claim(c, caller, v) ==
  /\ AtVersion(c, v)
  /\ claims[c].state = "active"
  /\ claims[c].holder = caller
  /\ claims' = [claims EXCEPT ![c] = Bumped([claims[c] EXCEPT !.aged = FALSE])]
  /\ UNCHANGED <<minted, envs>>

(* Forgets to compare the caller with the holder. *)
AnyoneMayHandoff(c, caller, v) == /\ AtVersion(c, v)
                                  /\ claims[c].state \in {"active", "orphaned"}
                                  /\ claims[c].holder # None

(* Who may hand a claim on: its holder, or, once it is orphaned, anyone.    *)
(* The successor is always the caller.                                      *)
may_handoff(c, caller, v) ==
  /\ AtVersion(c, v)
  /\ claims[c].state \in {"active", "orphaned"}
  /\ claims[c].holder # None
  /\ claims[c].state = "active" => claims[c].holder = caller

HandedOff(row, caller, t) == [row EXCEPT !.state = "active", !.holder = caller,
                                         !.terms = t, !.aged = FALSE]

(* Hands the claim over and leaves the old holder on the environment. *)
HandoffWithoutEnv(c, caller, v, t) ==
  /\ may_handoff(c, caller, v)
  /\ ~reject_work_claim_collision(c, claims[c].issue, t)
  /\ claims' = [claims EXCEPT ![c] = Bumped(HandedOff(claims[c], caller, t))]
  /\ UNCHANGED <<minted, envs>>

(* Keeps the version of the claim it hands over. *)
UnversionedHandoff(c, caller, v, t) ==
  /\ may_handoff(c, caller, v)
  /\ ~reject_work_claim_collision(c, claims[c].issue, t)
  /\ claims' = [claims EXCEPT ![c] = HandedOff(claims[c], caller, t)]
  /\ UNCHANGED <<minted, envs>>

(* New terms pass the same collision check as a new claim; the environment  *)
(* the claim is bound to follows its holder, or the call is refused.        *)
handoff_work_claim(c, caller, v, t) ==
  LET e == claims[c].env
  IN  /\ may_handoff(c, caller, v)
      /\ ~reject_work_claim_collision(c, claims[c].issue, t)
      /\ \/ e = None /\ UNCHANGED envs
         \/ /\ e # None
            /\ envs[e] = [holder |-> claims[c].holder, claim |-> c]
            /\ envs' = [envs EXCEPT ![e].holder = caller]
      /\ claims' = [claims EXCEPT ![c] = Bumped(HandedOff(claims[c], caller, t))]
      /\ UNCHANGED minted

may_release(c, caller, v) ==
  /\ AtVersion(c, v)
  /\ claims[c].state \in {"active", "orphaned"}
  /\ claims[c].holder # None
  /\ claims[c].holder = caller

release_work_claim(c, caller, v) ==
  /\ may_release(c, caller, v)
  /\ claims' = [claims EXCEPT ![c] = Bumped([claims[c] EXCEPT !.state = "released",
                                                              !.aged = FALSE])]
  /\ UNCHANGED <<minted, envs>>

(* Both sides must be unbound: the checks for an incompatible binding are   *)
(* followed by guarded updates that also refuse a repeated one.             *)
bind_work_claim_exec_env(c, e, v) ==
  /\ AtVersion(c, v)
  /\ claims[c].holder # None
  /\ claims[c].state = "active"
  /\ claims[c].env = None
  /\ envs[e] = Unbound
  /\ claims' = [claims EXCEPT ![c] = Bumped([claims[c] EXCEPT !.env = e])]
  /\ envs' = [envs EXCEPT ![e] = [holder |-> claims[c].holder, claim |-> c]]
  /\ UNCHANGED minted

-------------------------------------------------------------------------------
(* The legacy paths and garbage collection. *)

(* heartbeat_claim, unversioned, on any active row.  (By dispatch id it is  *)
(* the same write on each row selected.)                                    *)
heartbeat_claim(c) ==
  /\ c \in DOMAIN claims
  /\ claims[c].state = "active"
  /\ claims' = [claims EXCEPT ![c].aged = FALSE]
  /\ UNCHANGED <<minted, envs>>

(* Presence rows only: a v21 claim and an orphan are refused. *)
release_claim(c) ==
  /\ c \in DOMAIN claims
  /\ claims[c].terms = NoTerms
  /\ claims[c].holder = None
  /\ claims[c].state = "active"
  /\ claims' = [claims EXCEPT ![c].state = "released", ![c].aged = FALSE]
  /\ UNCHANGED <<minted, envs>>

(* Releases what it should only orphan. *)
gc_release_stale == /\ claims' = [c \in DOMAIN claims |->
                                    IF claims[c].state = "active" /\ claims[c].aged
                                      THEN [claims[c] EXCEPT !.state = "released",
                                                             !.aged = FALSE]
                                      ELSE claims[c]]
                    /\ UNCHANGED <<minted, envs>>

(* Writes a state no reader can parse. *)
gc_mark_stale == /\ claims' = [c \in DOMAIN claims |->
                                 IF claims[c].state = "active" /\ claims[c].aged
                                   THEN [claims[c] EXCEPT !.state = "stale"]
                                   ELSE claims[c]]
                 /\ UNCHANGED <<minted, envs>>

(* Active rows whose heartbeat is too old become orphans; the version stays. *)
gc_orphan_stale == /\ claims' = [c \in DOMAIN claims |->
                                   IF claims[c].state = "active" /\ claims[c].aged
                                     THEN [claims[c] EXCEPT !.state = "orphaned"]
                                     ELSE claims[c]]
                   /\ UNCHANGED <<minted, envs>>

(* Old released rows are deleted; an orphan never is. *)
gc_prune_released ==
  LET pruned == {c \in DOMAIN claims : claims[c].state = "released" /\ claims[c].aged}
  IN  /\ claims' = [c \in DOMAIN claims \ pruned |-> claims[c]]
      /\ UNCHANGED <<minted, envs>>

(* Time passes: the stamp the next sweep compares falls before its cutoff.  *)
Age(c) == /\ c \in DOMAIN claims
          /\ claims[c].state \in {"active", "released"}
          /\ claims' = [claims EXCEPT ![c].aged = TRUE]
          /\ UNCHANGED <<minted, envs>>

-------------------------------------------------------------------------------
(* holder_evidence: what a cleaner may conclude about an environment. *)

Joined(e) == {c \in DOMAIN claims : c = envs[e].claim \/ claims[c].env = e}

Agrees(c, e) == /\ envs[e] = [holder |-> claims[c].holder, claim |-> c]
                /\ claims[c].holder # None
                /\ claims[c].env = e

holder_evidence(e) ==
  CASE Joined(e) = {} /\ envs[e] = Unbound -> "not_applicable"
    [] Joined(e) = {} /\ envs[e].claim # None -> "unverifiable"
    [] \E c \in DOMAIN claims : /\ Joined(e) = {c} /\ Agrees(c, e)
                                /\ claims[c].state = "released" -> "clear"
    [] \E c \in DOMAIN claims : /\ Joined(e) = {c} /\ Agrees(c, e)
                                /\ claims[c].state # "released" -> "held"
    [] OTHER -> "contradictory"

-------------------------------------------------------------------------------
Init == /\ claims = [c \in {} |-> None]
        /\ minted = {}
        /\ envs = [e \in Envs |-> Unbound]

InsertStep ==
  \E c \in Claims, i \in OrNone(Issues), f \in OrNone(Flows) :
    \/ \E a \in Agents, t \in Terms : insert_work_claim(c, a, i, f, t)
    \/ \E a \in Agents, t \in Terms, p \in Projects :
          insert_local_project_work_claim(c, a, i, f, p, t)
    \/ \E k \in Clients : upsert_or_heartbeat_claim(c, k, i, f)

VersionedStep ==
  \E c \in Claims, a \in Agents, v \in 0 .. MaxVersion :
    \/ heartbeat_work_claim(c, a, v)
    \/ release_work_claim(c, a, v)
    \/ \E t \in Terms : handoff_work_claim(c, a, v, t)
    \/ \E e \in Envs : bind_work_claim_exec_env(c, e, v)

Next == \/ InsertStep
        \/ VersionedStep
        \/ \E c \in Claims : heartbeat_claim(c) \/ release_claim(c) \/ Age(c)
        \/ gc_orphan_stale
        \/ gc_prune_released

Spec == Init /\ [][Next]_vars

-------------------------------------------------------------------------------
(* Properties. *)

(* Two protected writable claims never share a worktree, nor, on one issue, *)
(* a file: over any sequence of claims, heartbeats, orphanings, takeovers   *)
(* and renegotiated terms, whoever checked first.                           *)
WritersAreDisjoint ==
  \A c, d \in DOMAIN claims :
    /\ c # d
    /\ claims[c].state # "released" /\ claims[c].terms.mode = "writable"
    /\ claims[d].state # "released" /\ claims[d].terms.mode = "writable"
    => /\ ~paths_overlap(claims[c].terms.worktree, claims[d].terms.worktree)
       /\ same_issue(claims[c].issue, claims[d].issue) =>
            ~scopes_overlap(claims[c].terms.scope, claims[d].terms.scope)

(* All protected claims on one issue, readers included, work from the same  *)
(* expected head.                                                           *)
OneHeadPerIssue ==
  \A c, d \in DOMAIN claims :
    /\ claims[c].state # "released" /\ claims[c].terms # NoTerms
    /\ claims[d].state # "released" /\ claims[d].terms # NoTerms
    /\ same_issue(claims[c].issue, claims[d].issue)
    => claims[c].terms.head = claims[d].terms.head

(* A flow is bound to one project, by active, orphaned and released claims  *)
(* alike.                                                                   *)
OneProjectPerFlow ==
  \A c, d \in DOMAIN claims :
    /\ claims[c].flow # None /\ claims[c].flow = claims[d].flow
    /\ claims[c].project # None /\ claims[d].project # None
    => claims[c].project = claims[d].project

(* The claim and the environment name each other, through handoffs,         *)
(* orphaning and pruning: a cleaner never reads contradictory evidence.     *)
EvidenceIsConsistent == \A e \in Envs : holder_evidence(e) # "contradictory"

(* No silent takeover: a claim changes hands only while it is an orphan, an *)
(* unreleased row never disappears, and a released one never comes back.    *)
NoSilentTakeover ==
  [][\A c \in DOMAIN claims :
       /\ claims[c].state # "released" => c \in DOMAIN claims'
       /\ c \in DOMAIN claims' =>
            /\ claims'[c].holder # claims[c].holder => claims[c].state = "orphaned"
            /\ claims[c].state = "released" => claims'[c].state = "released"]_vars

(* The version is a faithful token of what its reader saw: while it stands  *)
(* still, holder, terms and binding do too, and the only state change is    *)
(* GC's orphaning (or a presence row's release).  So a caller whose version *)
(* is still current acts on the row it read.                                *)
VersionPinsTerms ==
  [][\A c \in DOMAIN claims \cap DOMAIN claims' :
       LET old == claims[c]
           new == claims'[c]
       IN  /\ <<new.issue, new.flow, new.project>> = <<old.issue, old.flow, old.project>>
           /\ \/ new.version = old.version + 1
              \/ /\ new.version = old.version
                 /\ <<new.holder, new.terms, new.env>> = <<old.holder, old.terms, old.env>>
                 /\ \/ new.state = old.state
                    \/ old.state = "active" /\ new.state = "orphaned"
                    \/ old.terms = NoTerms]_vars

(* Evidence only moves forward: a held environment becomes clear only by    *)
(* its holder's versioned release, never by GC; one that is clear is never  *)
(* held again; once its claim is pruned it stays unverifiable.              *)
EvidenceMovesForward ==
  [][\A e \in Envs :
       LET was == holder_evidence(e)
           is == holder_evidence(e)'
       IN  /\ was = "held" => \/ is = "held"
                              \/ /\ is = "clear"
                                 /\ \E c \in Joined(e) :
                                      claims'[c].version = claims[c].version + 1
           /\ was = "clear" => is \in {"clear", "unverifiable"}
           /\ was = "unverifiable" => is = "unverifiable"]_vars

(* What release_claim's refusal and the GC's comment promise of an orphan:  *)
(* a versioned release or handoff that some recorded identity can make.     *)
OrphansHaveAWayOut ==
  \A c \in DOMAIN claims :
    claims[c].state = "orphaned" /\ claims[c].version < MaxVersion =>
      \E a \in Agents : \/ may_release(c, a, claims[c].version)
                        \/ may_handoff(c, a, claims[c].version)
===============================================================================
