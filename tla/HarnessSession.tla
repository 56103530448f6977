---------------------------- MODULE HarnessSession ----------------------------
(***************************************************************************)
(* The event spine of one attached harness session                         *)
(* (db/harness_session_events.rs): an append-only journal of the facts its *)
(* host reports, and the canonical projection materialised from it.  Facts *)
(* arrive late, twice and out of order, the host may report the session    *)
(* gone in between, and terminal facts may contradict each other.          *)
(*                                                                         *)
(* Every call is one IMMEDIATE transaction, hence one action.  A fact is   *)
(* identified by its event id; `Fact' gives its material, which a replay   *)
(* under the same id must repeat.  A cancelled fact stands for one whose   *)
(* confirmation is bound.  The attachment's connection column is left out: *)
(* any of its states may follow any other, and the spine never reads it.   *)
(***************************************************************************)
EXTENDS Integers, FiniteSets

CONSTANTS Facts,    \* event ids
          Fact,     \* kind, outcome, source_revision and payload_digest of each
          None

Kinds == {"accepted", "started", "progress", "input_required", "terminal", "cleanup"}
Outcomes == {"completed", "failed", "cancelled"}

(* HarnessSessionCanonicalState; "none" is an attachment with no row yet.   *)
States == Outcomes \cup {"none", "accepted", "started", "progressing", "input_required",
                         "inconsistent_reconciling", "unknown_orphaned"}

ASSUME FactsAssumption ==
  /\ None \notin Outcomes
  /\ \A e \in Facts : /\ Fact[e].kind \in Kinds
                      /\ Fact[e].rev \in Nat
                      /\ IF Fact[e].kind = "terminal" THEN Fact[e].outcome \in Outcomes
                                                      ELSE Fact[e].outcome = None

VARIABLES journal,  \* harness_session_events
          session,  \* the harness_session_state row
          shown     \* history: the highest canonical state this row has shown

spine == <<journal, session, shown>>

Larger(a, b) == IF a >= b THEN a ELSE b

kind_rank(k) == CASE k = "accepted" -> 0
                  [] k = "started" -> 1
                  [] k \in {"progress", "input_required"} -> 2
                  [] k = "terminal" -> 3
                  [] k = "cleanup" -> 4

rank(s) == CASE s \in {"none", "unknown_orphaned"} -> -1
             [] s = "accepted" -> 0
             [] s = "started" -> 1
             [] s \in {"progressing", "input_required"} -> 2
             [] s \in Outcomes -> 3
             [] s = "inconsistent_reconciling" -> 4

is_terminal(s) == s \in Outcomes \cup {"inconsistent_reconciling"}

(* What a lifecycle fact shows when it advances the session.                *)
ShownBy(k) == IF k = "progress" THEN "progressing" ELSE k

(* The guard above everything else: a session that was reported gone is     *)
(* lifted only by a fact as fresh and as advanced as what it had reached,   *)
(* and the first terminal must not be older than the row.                   *)
Stale(s, f) ==
  IF rank(s.state) < 0
  THEN f.rev < s.revision \/ kind_rank(f.kind) < s.preRank
  ELSE f.kind = "terminal" /\ s.terminal = None /\ f.rev < s.revision

(* progress <-> input_required, the one movement at equal rank.             *)
EqualRankFlip(s, f) ==
  /\ {f.kind, s.state} \subseteq {"progress", "progressing", "input_required"}
  /\ f.rev >= s.revision
  /\ s.state # ShownBy(f.kind)

(* A second terminal fact that is taken as redundant without comparing      *)
(* outcomes.                                                                *)
FirstTerminalOver(s, f) ==
  IF s.terminal = None THEN [s EXCEPT !.state = f.outcome, !.terminal = f.outcome] ELSE s

(* A recorded terminal stands; a contradicting one makes the row            *)
(* inconsistent, for good.                                                  *)
TerminalOver(s, f) ==
  CASE s.terminal = None -> [s EXCEPT !.state = f.outcome, !.terminal = f.outcome]
    [] s.terminal = f.outcome -> s
    [] OTHER -> [s EXCEPT !.state = "inconsistent_reconciling", !.conflicting = f.outcome]

Advanced(s, f) ==
  CASE f.kind = "terminal" -> TerminalOver(s, f)
    [] f.kind = "cleanup" -> IF s.state \in Outcomes THEN [s EXCEPT !.cleanup = TRUE] ELSE s
    [] OTHER -> IF kind_rank(f.kind) > rank(s.state) \/ EqualRankFlip(s, f)
                THEN [s EXCEPT !.state = ShownBy(f.kind)] ELSE s

(* The row after a fact.  A fact that moves nothing still raises the        *)
(* revision, unless it is stale or there is no row to raise.                *)
Ingested(s, f) ==
  LET a == Advanced(s, f)
  IN IF Stale(s, f) \/ a.state = "none" THEN s
     ELSE [a EXCEPT !.revision = Larger(s.revision, f.rev)]

Showing(s) == shown' = IF rank(s.state) > rank(shown) THEN s.state ELSE shown

ingest_harness_session_event(e) ==
  /\ e \notin journal
  /\ journal' = journal \cup {e}
  /\ session' = Ingested(session, Fact[e])
  /\ Showing(session')

(* A disconnect that records the rank of the marker it writes over.         *)
ForgetfulDisconnect ==
  /\ ~is_terminal(session.state)
  /\ session' = [session EXCEPT !.state = "unknown_orphaned", !.preRank = rank(session.state)]
  /\ Showing(session')
  /\ UNCHANGED journal

(* The host reports the session gone (disconnected or reconnect_failed).    *)
mark_harness_session_connection ==
  /\ ~is_terminal(session.state)
  /\ session' = [session EXCEPT !.state = "unknown_orphaned",
                                !.preRank = Larger(rank(session.state), session.preRank)]
  /\ Showing(session')
  /\ UNCHANGED journal

NoRow == [state |-> "none", revision |-> 0, terminal |-> None, conflicting |-> None,
          cleanup |-> FALSE, preRank |-> -1]

SpineInit == journal = {} /\ session = NoRow /\ shown = "none"

SpineTypeOK ==
  /\ journal \subseteq Facts
  /\ session \in [state : States, revision : Nat, terminal : Outcomes \cup {None},
                  conflicting : Outcomes \cup {None}, cleanup : BOOLEAN, preRank : -1 .. 2]
  /\ shown \in States
  /\ is_terminal(session.state) <=> session.terminal # None
  /\ session.state = "inconsistent_reconciling" <=> session.conflicting # None

-----------------------------------------------------------------------------
(* The canonical projection never walks backward: neither a late fact, nor  *)
(* a disconnect and whatever comes after it, shows a rank below one that    *)
(* was shown, an outcome that was shown is followed by no other outcome,    *)
(* and a disconnect hides no terminal (ingest_harness_session_event, "never *)
(* regressive"; mark_harness_session_connection, "a recorded terminal is    *)
(* authoritative and stays").                                               *)
NeverWalksBackward ==
  /\ session.state # "unknown_orphaned" \/ is_terminal(shown) => rank(session.state) >= rank(shown)
  /\ shown \in Outcomes => session.state = shown

(* "Tachi never guesses a winner": while the session shows an outcome,      *)
(* every journaled terminal fact with another outcome is strictly older     *)
(* than the row, whatever order the two came in.                            *)
NeverGuessesAWinner ==
  session.state \in Outcomes =>
    \A e \in journal :
      Fact[e].kind = "terminal" /\ Fact[e].outcome # session.state => Fact[e].rev < session.revision
===============================================================================
