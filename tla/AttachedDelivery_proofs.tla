------------------------ MODULE AttachedDelivery_proofs ------------------------
(***************************************************************************)
(* Proofs about AttachedDelivery, for any facts, revisions and payloads,   *)
(* any number of processes and of faults: its type, its invariants and     *)
(* action properties, and that it implements the abstract hand-over.       *)
(***************************************************************************)
EXTENDS AttachedDelivery, FiniteSetTheorems, TLAPS

-------------------------------------------------------------------------------
(* The spine. *)

Rows == [state : States, revision : Nat, terminal : Outcomes \cup {None},
         conflicting : Outcomes \cup {None}, cleanup : BOOLEAN, preRank : -1 .. 2]

(* A row whose columns agree with its state. *)
Sound(s) ==
  /\ s \in Rows
  /\ is_terminal(s.state) <=> s.terminal # None
  /\ s.state = "inconsistent_reconciling" <=> s.conflicting # None
  /\ s.state \in Outcomes => s.terminal = s.state

(* Where each state and each kind of fact stands. *)
LEMMA RankOf ==
  ASSUME NEW x \in States
  PROVE  /\ rank(x) \in -1 .. 4
         /\ rank(x) = -1 <=> x \in {"none", "unknown_orphaned"}
         /\ rank(x) = 3 <=> x \in Outcomes
         /\ rank(x) = 4 <=> x = "inconsistent_reconciling"
         /\ is_terminal(x) <=> rank(x) >= 3
  BY DEF rank, States, Outcomes, is_terminal

LEMMA RankOfKind ==
  ASSUME NEW k \in Kinds
  PROVE  /\ kind_rank(k) \in 0 .. 4
         /\ kind_rank(k) = 3 <=> k = "terminal"
         /\ kind_rank(k) = 4 <=> k = "cleanup"
         /\ k \notin {"terminal", "cleanup"} =>
              ShownBy(k) \in States /\ rank(ShownBy(k)) = kind_rank(k)
  BY DEF kind_rank, Kinds, ShownBy, rank, States, Outcomes

(* What a fact does to a row: nothing but to its cleanup mark and revision, *)
(* or it shows a lifecycle state of no lower rank, or it is the first       *)
(* terminal, or it contradicts the first.                                   *)
Kept(s, t) == t.state = s.state /\ t.terminal = s.terminal /\ t.conflicting = s.conflicting

Lifted(s, t, f) ==
  /\ f.kind \notin {"terminal", "cleanup"}
  /\ ~is_terminal(s.state)
  /\ t.state = ShownBy(f.kind) /\ rank(t.state) >= rank(s.state)
  /\ t.terminal = s.terminal /\ t.conflicting = s.conflicting

FirstTerminal(s, t, f) ==
  /\ f.kind = "terminal"
  /\ s.terminal = None
  /\ t.state = f.outcome /\ t.terminal = f.outcome /\ t.conflicting = s.conflicting

Contradicted(s, t, f) ==
  /\ f.kind = "terminal"
  /\ s.terminal # None /\ s.terminal # f.outcome
  /\ t.state = "inconsistent_reconciling" /\ t.terminal = s.terminal /\ t.conflicting = f.outcome

LEMMA FactFacts ==
  ASSUME NEW e \in Facts
  PROVE  /\ Fact[e].kind \in Kinds /\ Fact[e].rev \in Nat
         /\ Fact[e].kind = "terminal" => Fact[e].outcome \in Outcomes
         /\ None \notin Outcomes
  BY FactsAssumption

(* Moving the row along, before its revision. *)
LEMMA Advances ==
  ASSUME NEW s, Sound(s), NEW e \in Facts
  PROVE  LET t == Advanced(s, Fact[e])
         IN  /\ t \in Rows
             /\ t.revision = s.revision /\ t.preRank = s.preRank
             /\ \/ Kept(s, t) \/ Lifted(s, t, Fact[e])
                \/ FirstTerminal(s, t, Fact[e]) \/ Contradicted(s, t, Fact[e])
             /\ Fact[e].kind = "terminal" => \/ FirstTerminal(s, t, Fact[e]) \/ Contradicted(s, t, Fact[e])
                                             \/ Kept(s, t) /\ s.terminal = Fact[e].outcome
  <1> DEFINE f == Fact[e]
             t == Advanced(s, f)
  <1>0. /\ f.kind \in Kinds /\ f.rev \in Nat /\ None \notin Outcomes
        /\ f.kind = "terminal" => f.outcome \in Outcomes
    BY FactFacts
  <1>s. /\ s \in Rows /\ s.state \in States
        /\ is_terminal(s.state) <=> s.terminal # None
    BY DEF Sound, Rows
  <1>1. CASE f.kind = "terminal"
    <2>1. t = TerminalOver(s, f)
      BY <1>1 DEF Advanced
    <2>2. f.outcome \in Outcomes /\ f.outcome \in States /\ "inconsistent_reconciling" \in States
      BY <1>0, <1>1 DEF States
    <2>3. CASE s.terminal = None
      <3>1. t = [s EXCEPT !.state = f.outcome, !.terminal = f.outcome]
        BY <2>1, <2>2, <2>3, <1>0 DEF TerminalOver
      <3> QED  BY <3>1, <2>2, <2>3, <1>s, <1>1 DEF Rows, FirstTerminal
    <2>4. CASE s.terminal # None /\ s.terminal = f.outcome
      <3>1. t = s
        BY <2>1, <2>4 DEF TerminalOver
      <3> QED  BY <3>1, <2>4, <1>s DEF Kept, Rows
    <2>5. CASE s.terminal # None /\ s.terminal # f.outcome
      <3>1. t = [s EXCEPT !.state = "inconsistent_reconciling", !.conflicting = f.outcome]
        BY <2>1, <2>5 DEF TerminalOver
      <3> QED  BY <3>1, <2>2, <2>5, <1>s, <1>1 DEF Rows, Contradicted
    <2> QED  BY <2>3, <2>4, <2>5
  <1>2. CASE f.kind = "cleanup"
    <2>1. t = IF s.state \in Outcomes THEN [s EXCEPT !.cleanup = TRUE] ELSE s
      BY <1>2 DEF Advanced
    <2> QED  BY <2>1, <1>2, <1>s DEF Rows, Kept
  <1>3. CASE f.kind \notin {"terminal", "cleanup"}
    <2>0. /\ kind_rank(f.kind) \in 0 .. 2
          /\ ShownBy(f.kind) \in States /\ rank(ShownBy(f.kind)) = kind_rank(f.kind)
      BY <1>0, <1>3, RankOfKind
    <2>r. rank(s.state) \in -1 .. 4 /\ (is_terminal(s.state) <=> rank(s.state) >= 3)
      BY <1>s, RankOf
    <2>1. CASE kind_rank(f.kind) > rank(s.state) \/ EqualRankFlip(s, f)
      <3>1. t = [s EXCEPT !.state = ShownBy(f.kind)]
        BY <1>3, <2>1 DEF Advanced
      <3>2. EqualRankFlip(s, f) => kind_rank(f.kind) = rank(s.state)
        BY <1>0, <1>s DEF EqualRankFlip, kind_rank, rank, Outcomes, Kinds, States
      <3>3. ~is_terminal(s.state) /\ kind_rank(f.kind) >= rank(s.state)
        BY <2>0, <2>1, <2>r, <3>2
      <3>4. /\ t \in Rows /\ t.revision = s.revision /\ t.preRank = s.preRank
            /\ t.state = ShownBy(f.kind) /\ t.terminal = s.terminal /\ t.conflicting = s.conflicting
        BY <3>1, <2>0, <1>s DEF Rows
      <3> QED  BY <3>3, <3>4, <2>0, <1>3 DEF Lifted
    <2>2. CASE ~(kind_rank(f.kind) > rank(s.state) \/ EqualRankFlip(s, f))
      <3>1. t = s
        BY <1>3, <2>2 DEF Advanced
      <3> QED  BY <3>1, <1>s, <1>3 DEF Kept, Rows
    <2> QED  BY <2>1, <2>2
  <1> QED  BY <1>1, <1>2, <1>3

(* What the ingest of a fact does to a row, revision included.              *)
Landed(s, t, f) ==
  /\ Sound(t)
  /\ t.preRank = s.preRank /\ t.revision >= s.revision
  /\ \/ Kept(s, t)
     \/ ~Stale(s, f) /\ Lifted(s, t, f)
     \/ ~Stale(s, f) /\ FirstTerminal(s, t, f)
     \/ ~Stale(s, f) /\ Contradicted(s, t, f)
  /\ f.kind = "terminal" /\ ~Stale(s, f) =>
       /\ t.revision >= f.rev
       /\ \/ FirstTerminal(s, t, f) \/ Contradicted(s, t, f)
          \/ Kept(s, t) /\ s.terminal = f.outcome

LEMMA Ingests ==
  ASSUME NEW s, Sound(s), NEW e \in Facts
  PROVE  Landed(s, Ingested(s, Fact[e]), Fact[e])
  <1> DEFINE f == Fact[e]
             a == Advanced(s, f)
             t == Ingested(s, f)
  <1>0. /\ f.kind \in Kinds /\ f.rev \in Nat /\ None \notin Outcomes
        /\ f.kind = "terminal" => f.outcome \in Outcomes
    BY FactFacts
  <1>s. s \in Rows /\ s.revision \in Nat /\ s.state \in States
    BY DEF Sound, Rows
  <1>a. /\ a \in Rows
        /\ a.revision = s.revision /\ a.preRank = s.preRank
        /\ Kept(s, a) \/ Lifted(s, a, f) \/ FirstTerminal(s, a, f) \/ Contradicted(s, a, f)
        /\ f.kind = "terminal" => \/ FirstTerminal(s, a, f) \/ Contradicted(s, a, f)
                                  \/ Kept(s, a) /\ s.terminal = f.outcome
    BY Advances
  <1> HIDE DEF a
  <1>1. CASE Stale(s, f) \/ a.state = "none"
    <2>1. t = s
      BY <1>1 DEF Ingested, a
    <2>2. f.kind = "terminal" => Stale(s, f)
      <3>1. SUFFICES ASSUME f.kind = "terminal", a.state = "none" PROVE FALSE
        BY <1>1
      <3>2. a.state \in Outcomes \/ a.state = "inconsistent_reconciling" \/ s.terminal # None
        BY <3>1, <1>0, <1>a DEF FirstTerminal, Contradicted
      <3>3. s.terminal # None /\ Kept(s, a)
        BY <3>1, <3>2, <1>a, <1>0 DEF FirstTerminal, Contradicted, Outcomes
      <3>4. is_terminal(s.state) /\ s.state = "none"
        BY <3>1, <3>3 DEF Kept, Sound
      <3> QED  BY <3>4 DEF is_terminal, Outcomes
    <2> QED  BY <2>1, <2>2, <1>s DEF Landed, Kept
  <1>2. CASE ~(Stale(s, f) \/ a.state = "none")
    <2>1. t = [a EXCEPT !.revision = Larger(s.revision, f.rev)]
      BY <1>2 DEF Ingested, a
    <2>2. /\ Larger(s.revision, f.rev) \in Nat
          /\ Larger(s.revision, f.rev) >= s.revision /\ Larger(s.revision, f.rev) >= f.rev
      BY <1>0, <1>s DEF Larger
    <2>3. /\ t \in Rows /\ t.revision = Larger(s.revision, f.rev) /\ t.preRank = s.preRank
          /\ t.state = a.state /\ t.terminal = a.terminal /\ t.conflicting = a.conflicting
      BY <2>1, <2>2, <1>a DEF Rows
    <2>4. /\ Kept(s, t) \/ Lifted(s, t, f) \/ FirstTerminal(s, t, f) \/ Contradicted(s, t, f)
          /\ f.kind = "terminal" => \/ FirstTerminal(s, t, f) \/ Contradicted(s, t, f)
                                    \/ Kept(s, t) /\ s.terminal = f.outcome
      BY <2>3, <1>a DEF Kept, Lifted, FirstTerminal, Contradicted
    <2>5. Sound(t)
      <3>1. CASE Kept(s, t)
        BY <3>1, <2>3 DEF Kept, Sound
      <3>2. CASE Lifted(s, t, f)
        <4>1. ~is_terminal(t.state)
          BY <3>2, <1>0, RankOfKind, RankOf DEF Lifted
        <4> QED  BY <3>2, <4>1, <2>3 DEF Lifted, Sound, is_terminal
      <3>3. CASE FirstTerminal(s, t, f)
        <4>1. t.state \in Outcomes /\ t.terminal = t.state /\ t.state # None
          BY <3>3, <1>0 DEF FirstTerminal
        <4>2. s.conflicting = None
          BY <3>3 DEF FirstTerminal, Sound, is_terminal
        <4> QED  BY <3>3, <4>1, <4>2, <2>3 DEF FirstTerminal, Sound, is_terminal, Outcomes
      <3>4. CASE Contradicted(s, t, f)
        BY <3>4, <1>0, <2>3 DEF Contradicted, Sound, is_terminal, Outcomes
      <3> QED  BY <2>4, <3>1, <3>2, <3>3, <3>4
    <2> QED  BY <2>2, <2>3, <2>4, <2>5, <1>2 DEF Landed
  <1> QED  BY <1>1, <1>2

(* What the row hides while the session is reported gone, and how far it    *)
(* has come otherwise.                                                      *)
Course ==
  /\ rank(session.state) < 0 => session.preRank >= rank(shown) /\ rank(shown) < 3
  /\ rank(session.state) >= 0 => rank(session.state) >= rank(shown)
  /\ rank(shown) >= rank(session.state)
  /\ session.state = "none" => shown = "none"
  /\ shown \in Outcomes => session.state = shown

(* As long as no terminal is recorded, the ones that were journaled were    *)
(* stale when they came.                                                    *)
Contenders ==
  session.terminal = None =>
    \A e \in journal : Fact[e].kind = "terminal" => Fact[e].rev < session.revision

SpineInv ==
  /\ journal \subseteq Facts /\ shown \in States
  /\ Sound(session)
  /\ Course
  /\ Contenders
  /\ NeverGuessesAWinner

(* The history takes the larger of two ranks.                               *)
LEMMA ShowingFacts ==
  ASSUME shown \in States, session'.state \in States, Showing(session')
  PROVE  /\ shown' \in States
         /\ rank(shown') >= rank(shown) /\ rank(shown') >= rank(session'.state)
         /\ \/ shown' = shown
            \/ shown' = session'.state /\ rank(session'.state) > rank(shown)
  BY RankOf DEF Showing

LEMMA IngestKeepsCourse ==
  ASSUME SpineInv, NEW e \in Facts, ingest_harness_session_event(e)
  PROVE  Sound(session') /\ shown' \in States /\ Course'
  <1> DEFINE s == session
             t == session'
             f == Fact[e]
  <1>1. Sound(s) /\ Landed(s, t, f)
    BY Ingests DEF SpineInv, ingest_harness_session_event
  <1>2. /\ Sound(t) /\ t.preRank = s.preRank
        /\ s.state \in States /\ t.state \in States /\ s.preRank \in -1 .. 2
    BY <1>1 DEF Landed, Sound, Rows
  <1>3. /\ shown \in States /\ Course /\ Showing(t)
    BY DEF SpineInv, ingest_harness_session_event
  <1>4. /\ shown' \in States
        /\ rank(shown') >= rank(shown) /\ rank(shown') >= rank(t.state)
        /\ \/ shown' = shown
           \/ shown' = t.state /\ rank(t.state) > rank(shown)
    BY <1>2, <1>3, ShowingFacts
  <1>r. /\ rank(s.state) \in -1 .. 4 /\ rank(t.state) \in -1 .. 4
        /\ rank(shown) \in -1 .. 4 /\ rank(shown') \in -1 .. 4
    BY <1>2, <1>3, <1>4, RankOf
  <1>k. /\ f.kind \in Kinds /\ None \notin Outcomes
        /\ f.kind = "terminal" => f.outcome \in Outcomes
    BY FactFacts
  <1>5. CASE Kept(s, t)
    <2>1. t.state = s.state
      BY <1>5 DEF Kept
    <2>2. shown' = shown
      BY <2>1, <1>3, <1>4, <1>r DEF Course
    <2> QED  BY <2>1, <2>2, <1>2, <1>3 DEF Course
  <1>6. CASE ~Stale(s, f) /\ Lifted(s, t, f)
    <2>1. /\ t.state = ShownBy(f.kind) /\ rank(t.state) = kind_rank(f.kind)
          /\ rank(t.state) >= rank(s.state) /\ rank(t.state) \in 0 .. 2
      BY <1>6, <1>k, RankOfKind, <1>r DEF Lifted
    <2>2. rank(s.state) < 0 => rank(t.state) >= s.preRank
      BY <1>6, <2>1, <1>2, <1>r, <1>k, RankOfKind DEF Stale
    <2>3. rank(t.state) >= rank(shown)
      BY <2>1, <2>2, <1>2, <1>3, <1>r DEF Course
    <2>4. shown' \notin Outcomes /\ t.state # "none"
      BY <2>1, <2>3, <1>2, <1>3, <1>4, <1>r, RankOf
    <2> QED  BY <2>1, <2>3, <2>4, <1>2, <1>4, <1>r DEF Course
  <1>7. CASE ~Stale(s, f) /\ FirstTerminal(s, t, f)
    <2>1. t.state \in Outcomes /\ rank(t.state) = 3 /\ t.state # "none"
      BY <1>7, <1>k, <1>2, RankOf DEF FirstTerminal, Outcomes
    <2>2. rank(s.state) < 3
      BY <1>7, <1>1, <1>2, <1>r, RankOf DEF FirstTerminal, Sound
    <2>3. rank(shown) < 3
      BY <2>2, <1>3, <1>r DEF Course
    <2>4. shown' = t.state
      BY <2>1, <2>3, <1>4, <1>r
    <2> QED  BY <2>1, <2>4, <1>2, <1>4 DEF Course
  <1>8. CASE ~Stale(s, f) /\ Contradicted(s, t, f)
    <2>1. t.state = "inconsistent_reconciling" /\ rank(t.state) = 4
      BY <1>8, <1>2, RankOf DEF Contradicted
    <2>2. rank(shown') = 4
      BY <2>1, <1>4, <1>r
    <2>3. shown' \notin Outcomes
      BY <2>2, <1>4, RankOf
    <2> QED  BY <2>1, <2>2, <2>3, <1>2, <1>4 DEF Course
  <1> QED  BY <1>1, <1>2, <1>4, <1>5, <1>6, <1>7, <1>8 DEF Landed

LEMMA IngestKeepsContenders ==
  ASSUME SpineInv, NEW e \in Facts, ingest_harness_session_event(e)
  PROVE  Contenders' /\ NeverGuessesAWinner'
  <1> DEFINE s == session
             t == session'
             f == Fact[e]
  <1>1. Sound(s) /\ Landed(s, t, f) /\ journal' = journal \cup {e}
    BY Ingests DEF SpineInv, ingest_harness_session_event
  <1>2. /\ Sound(t) /\ t.revision >= s.revision
        /\ s.revision \in Nat /\ t.revision \in Nat /\ s.state \in States /\ s.preRank \in -1 .. 2
    BY <1>1 DEF Landed, Sound, Rows
  <1>k. /\ f.kind \in Kinds /\ f.rev \in Nat /\ None \notin Outcomes
        /\ f.kind = "terminal" => f.outcome \in Outcomes
        /\ \A d \in journal : Fact[d].rev \in Nat
    BY FactFacts DEF SpineInv
  <1>3. f.kind = "terminal" /\ Stale(s, f) => f.rev < s.revision
    BY <1>2, <1>k, RankOfKind DEF Stale
  <1>4. Contenders'
    <2> SUFFICES ASSUME t.terminal = None, NEW d \in journal', Fact[d].kind = "terminal"
                 PROVE  Fact[d].rev < t.revision
      BY DEF Contenders
    <2>1. s.terminal = None /\ (Kept(s, t) \/ Lifted(s, t, f))
      BY <1>1, <1>k DEF Landed, Kept, Lifted, FirstTerminal, Contradicted
    <2>2. CASE d \in journal
      BY <2>1, <2>2, <1>2, <1>k DEF SpineInv, Contenders
    <2>3. CASE d = e
      <3>1. Stale(s, f)
        BY <2>1, <2>3, <1>1, <1>k DEF Landed, FirstTerminal, Contradicted
      <3> QED  BY <3>1, <2>3, <1>2, <1>3, <1>k
    <2> QED  BY <1>1, <2>2, <2>3
  <1>5. NeverGuessesAWinner'
    <2> SUFFICES ASSUME t.state \in Outcomes, NEW d \in journal',
                        Fact[d].kind = "terminal", Fact[d].outcome # t.state
                 PROVE  Fact[d].rev < t.revision
      BY DEF NeverGuessesAWinner
    <2>1. t.terminal = t.state /\ t.state # "inconsistent_reconciling" /\ t.terminal # None
      BY <1>2, <1>k DEF Sound, Outcomes
    <2>2. CASE d = e
      <3>1. CASE Stale(s, f)
        BY <2>2, <3>1, <1>2, <1>3, <1>k
      <3>2. CASE ~Stale(s, f)
        <4>1. t.terminal = f.outcome
          BY <2>1, <2>2, <3>2, <1>1 DEF Landed, FirstTerminal, Contradicted, Kept
        <4> QED  BY <4>1, <2>1, <2>2
      <3> QED  BY <3>1, <3>2
    <2>3. CASE d \in journal
      <3>1. CASE s.terminal = None
        BY <3>1, <2>3, <1>2, <1>k DEF SpineInv, Contenders
      <3>2. CASE s.terminal # None
        <4>1. Kept(s, t)
          BY <3>2, <2>1, <1>1, <1>2, <1>k DEF Landed, Lifted, Sound, FirstTerminal, Contradicted
        <4> QED  BY <4>1, <2>3, <1>2, <1>k DEF Kept, SpineInv, NeverGuessesAWinner
      <3> QED  BY <3>1, <3>2
    <2> QED  BY <1>1, <2>2, <2>3
  <1> QED  BY <1>4, <1>5

LEMMA DisconnectKeeps ==
  ASSUME SpineInv, mark_harness_session_connection
  PROVE  SpineInv'
  <1> DEFINE s == session
             t == session'
             p == Larger(rank(s.state), s.preRank)
  <1>1. Sound(s) /\ s \in Rows /\ s.state \in States /\ s.preRank \in -1 .. 2 /\ ~is_terminal(s.state)
    BY DEF SpineInv, Sound, Rows, mark_harness_session_connection
  <1>2. rank(s.state) \in -1 .. 2 /\ shown \in States /\ rank(shown) \in -1 .. 4
    BY <1>1, RankOf DEF SpineInv
  <1>3. p \in -1 .. 2 /\ p >= s.preRank /\ p >= rank(s.state)
    BY <1>1, <1>2 DEF Larger
  <1>4. t = [s EXCEPT !.state = "unknown_orphaned", !.preRank = p]
    BY DEF mark_harness_session_connection
  <1>5. "unknown_orphaned" \in States /\ rank("unknown_orphaned") = -1
    BY RankOf DEF States
  <1>6. /\ t \in Rows /\ t.state = "unknown_orphaned" /\ t.preRank = p
        /\ t.terminal = s.terminal /\ t.conflicting = s.conflicting /\ t.revision = s.revision
    BY <1>1, <1>3, <1>4, <1>5 DEF Rows
  <1>7. Sound(t)
    BY <1>1, <1>6 DEF Sound, is_terminal, Outcomes
  <1>8. shown' = shown
    BY <1>2, <1>5, <1>6, ShowingFacts DEF mark_harness_session_connection
  <1>9. Course'
    <2>1. rank(shown) < 3 /\ p >= rank(shown)
      BY <1>1, <1>2, <1>3 DEF SpineInv, Course
    <2>2. shown \notin Outcomes
      BY <2>1, <1>2, RankOf
    <2> QED  BY <2>1, <2>2, <1>2, <1>5, <1>6, <1>8 DEF Course
  <1> QED  BY <1>6, <1>7, <1>8, <1>9 DEF SpineInv, Contenders, NeverGuessesAWinner, Outcomes,
              mark_harness_session_connection

(* What a step of the whole does to the spine.                              *)
SpineMoves == \/ \E e \in Facts : ingest_harness_session_event(e)
              \/ mark_harness_session_connection
              \/ UNCHANGED spine

LEMMA SpineKeeps == SpineInv /\ SpineMoves => SpineInv'
  <1> SUFFICES ASSUME SpineInv, SpineMoves PROVE SpineInv'
    OBVIOUS
  <1>1. ASSUME NEW e \in Facts, ingest_harness_session_event(e) PROVE SpineInv'
    <2>1. journal' \subseteq Facts
      BY <1>1 DEF SpineInv, ingest_harness_session_event
    <2> QED  BY <1>1, <2>1, IngestKeepsCourse, IngestKeepsContenders DEF SpineInv
  <1>2. CASE UNCHANGED spine
    BY <1>2 DEF spine, SpineInv, Course, Contenders, NeverGuessesAWinner
  <1> QED  BY <1>1, <1>2, DisconnectKeeps DEF SpineMoves

(* The journal grows, a recorded terminal stays, a contradiction stays.     *)
LEMMA SpineGrows ==
  ASSUME SpineInv, SpineMoves
  PROVE  /\ journal \subseteq journal'
         /\ session.terminal # None => session'.terminal = session.terminal
         /\ session.state = "inconsistent_reconciling" => session'.state = "inconsistent_reconciling"
  <1>1. ASSUME NEW e \in Facts, ingest_harness_session_event(e)
        PROVE  /\ journal \subseteq journal'
               /\ session.terminal # None => session'.terminal = session.terminal
               /\ session.state = "inconsistent_reconciling" => session'.state = "inconsistent_reconciling"
    <2>1. Sound(session) /\ Landed(session, session', Fact[e]) /\ journal' = journal \cup {e}
      BY <1>1, Ingests DEF SpineInv, ingest_harness_session_event
    <2>2. session.state = "inconsistent_reconciling" => session.terminal # None
      BY <2>1 DEF Sound, is_terminal
    <2> QED  BY <2>1, <2>2 DEF Landed, Kept, Lifted, FirstTerminal, Contradicted, Sound
  <1>2. CASE mark_harness_session_connection
    <2>1. session \in Rows /\ session.terminal = None
      BY <1>2 DEF mark_harness_session_connection, SpineInv, Sound
    <2> QED  BY <1>2, <2>1 DEF mark_harness_session_connection, is_terminal
  <1>3. CASE UNCHANGED spine
    BY <1>3 DEF spine
  <1> QED  BY <1>1, <1>2, <1>3 DEF SpineMoves

LEMMA SpineStarts == SpineInit => SpineInv
  <1> SUFFICES ASSUME SpineInit PROVE SpineInv
    OBVIOUS
  <1>1. /\ journal = {} /\ shown = "none" /\ session = NoRow
        /\ None \notin Outcomes
    BY FactsAssumption DEF SpineInit
  <1>2. "none" \in States /\ rank("none") = -1
    BY RankOf DEF States
  <1>3. Sound(session)
    BY <1>1, <1>2 DEF NoRow, Sound, Rows, is_terminal, Outcomes
  <1> QED  BY <1>1, <1>2, <1>3 DEF NoRow, SpineInv, Course, Contenders, NeverGuessesAWinner, Outcomes

LEMMA SpineTyped == SpineInv => SpineTypeOK /\ NeverWalksBackward
  <1> SUFFICES ASSUME SpineInv PROVE SpineTypeOK /\ NeverWalksBackward
    OBVIOUS
  <1>1. Sound(session) /\ session.state \in States /\ shown \in States
    BY DEF SpineInv, Sound, Rows
  <1>2. SpineTypeOK
    BY <1>1 DEF SpineInv, Sound, Rows, SpineTypeOK
  <1>3. NeverWalksBackward
    <2>1. rank(session.state) < 0 => ~is_terminal(shown)
      BY <1>1, RankOf DEF SpineInv, Course
    <2> QED  BY <2>1, <1>1, RankOf DEF SpineInv, Course, NeverWalksBackward
  <1> QED  BY <1>2, <1>3

-------------------------------------------------------------------------------
(* The row of the intent. *)

Coherent(i) ==
  /\ i \in IntentRows
  /\ i.lapsed => i.state = "requester_queued"
  /\ i.due => i.state = "retrying"

(* A move of the row that keeps the result it offers.                       *)
SameResult(i, j) ==
  /\ Coherent(j)
  /\ j.from = i.from /\ j.result_revision = i.result_revision
  /\ j.revision >= i.revision
  /\ i.acks \subseteq j.acks

(* Every update the calls make of a row is a row.                           *)
LEMMA StateUpdates ==
  ASSUME NEW i \in IntentRows, NEW st \in IntentStates, NEW r \in Nat
  PROVE  /\ [i EXCEPT !.state = st, !.revision = r] \in IntentRows
         /\ [i EXCEPT !.state = st, !.revision = r, !.lapsed = FALSE] \in IntentRows
         /\ [i EXCEPT !.state = st, !.revision = r, !.lapsed = FALSE, !.due = FALSE] \in IntentRows
         /\ [i EXCEPT !.lapsed = TRUE] \in IntentRows
         /\ [i EXCEPT !.due = TRUE] \in IntentRows
  <1>1. /\ [i EXCEPT !.state = st, !.revision = r] \in IntentRows
        /\ [i EXCEPT !.state = st, !.revision = r, !.lapsed = FALSE] \in IntentRows
        /\ [i EXCEPT !.state = st, !.revision = r, !.lapsed = FALSE, !.due = FALSE] \in IntentRows
    BY DEF IntentRows
  <1>2. [i EXCEPT !.lapsed = TRUE] \in IntentRows /\ [i EXCEPT !.due = TRUE] \in IntentRows
    BY DEF IntentRows
  <1> QED  BY <1>1, <1>2

LEMMA ClaimUpdate ==
  ASSUME NEW i \in IntentRows, NEW st \in IntentStates, NEW r \in Nat, NEW n \in Nat
  PROVE  [i EXCEPT !.state = st, !.attempts = n, !.revision = r, !.due = FALSE] \in IntentRows
  BY DEF IntentRows

LEMMA AckUpdate ==
  ASSUME NEW i \in IntentRows, NEW st \in IntentStates, NEW r \in Nat, NEW a \in SUBSET Nat
  PROVE  [i EXCEPT !.state = st, !.revision = r, !.acks = a, !.lapsed = FALSE] \in IntentRows
  BY DEF IntentRows

LEMMA SupersedeUpdate ==
  ASSUME NEW i \in IntentRows, NEW st \in IntentStates, NEW r \in Nat, NEW q \in Nat, NEW e \in Facts
  PROVE  [i EXCEPT !.from = e, !.result_revision = q, !.revision = r, !.state = st,
                   !.lapsed = FALSE, !.due = FALSE] \in IntentRows
  BY DEF IntentRows

LEMMA ReleaseRow ==
  ASSUME NEW i, Coherent(i)
  PROVE  LET j == release_expired(i)
         IN  /\ SameResult(i, j)
             /\ j.attempts = i.attempts /\ j.acks = i.acks
             /\ j = i \/ j.state = "ready"
  <1> DEFINE r == i.revision + 1
             j == [i EXCEPT !.state = "ready", !.revision = r, !.lapsed = FALSE]
  <1>1. /\ i \in IntentRows /\ r \in Nat /\ i.revision \in Nat /\ r > i.revision
        /\ "ready" \in IntentStates
    BY DEF Coherent, IntentRows, IntentStates
  <1>2. release_expired(i) = IF i.state = "requester_queued" /\ i.lapsed THEN j ELSE i
    BY DEF release_expired
  <1> HIDE DEF r
  <1>3. CASE i.state = "requester_queued" /\ i.lapsed
    <2>1. j \in IntentRows
      BY <1>1, StateUpdates
    <2>2. /\ j.from = i.from /\ j.result_revision = i.result_revision /\ j.revision = r
          /\ j.state = "ready" /\ j.attempts = i.attempts /\ j.acks = i.acks
          /\ j.lapsed = FALSE /\ j.due = i.due
      BY <1>1 DEF IntentRows
    <2>3. release_expired(i) = j
      BY <1>2, <1>3
    <2> HIDE DEF j
    <2>4. Coherent(j)
      BY <2>1, <2>2, <1>3 DEF Coherent
    <2> QED  BY <2>2, <2>3, <2>4, <1>1 DEF SameResult
  <1>4. CASE ~(i.state = "requester_queued" /\ i.lapsed)
    <2>1. release_expired(i) = i
      BY <1>2, <1>4
    <2> QED  BY <2>1, <1>1 DEF SameResult
  <1> QED  BY <1>3, <1>4

LEMMA ClaimRow ==
  ASSUME NEW i, Coherent(i)
  PROVE  LET j == transition_to_claimed(i)
         IN  /\ SameResult(i, j)
             /\ j.attempts = i.attempts + 1 /\ j.acks = i.acks
             /\ j.state = "requester_queued" /\ j.revision = i.revision + 1
             /\ Receipt(j) = [attempt |-> j.attempts, revision |-> j.revision, from |-> i.from]
  <1> DEFINE r == i.revision + 1
             n == i.attempts + 1
             j == [i EXCEPT !.state = "requester_queued", !.attempts = n, !.revision = r, !.due = FALSE]
  <1>1. /\ i \in IntentRows /\ r \in Nat /\ n \in Nat /\ i.revision \in Nat /\ r > i.revision
        /\ "requester_queued" \in IntentStates
    BY DEF Coherent, IntentRows, IntentStates
  <1>2. transition_to_claimed(i) = j
    BY DEF transition_to_claimed
  <1> HIDE DEF r, n
  <1>3. j \in IntentRows
    BY <1>1, ClaimUpdate
  <1>4. /\ j.from = i.from /\ j.result_revision = i.result_revision /\ j.revision = r
        /\ j.state = "requester_queued" /\ j.attempts = n /\ j.acks = i.acks
        /\ j.lapsed = i.lapsed /\ j.due = FALSE
    BY <1>1 DEF IntentRows
  <1> HIDE DEF j
  <1>5. Coherent(j)
    BY <1>3, <1>4 DEF Coherent
  <1>6. SameResult(i, j) /\ Receipt(j) = [attempt |-> j.attempts, revision |-> j.revision, from |-> i.from]
    BY <1>1, <1>4, <1>5 DEF SameResult, Receipt
  <1> QED  BY <1>2, <1>4, <1>6 DEF r, n

LEMMA RearmRow ==
  ASSUME NEW i, Coherent(i)
  PROVE  LET j == rearm_blocked(i)
         IN  SameResult(i, j) /\ j.attempts = i.attempts /\ j.acks = i.acks /\ (j = i \/ j.state = "ready")
  <1> DEFINE r == i.revision + 1
             j == [i EXCEPT !.state = "ready", !.revision = r]
  <1>1. /\ i \in IntentRows /\ r \in Nat /\ i.revision \in Nat /\ r > i.revision
        /\ "ready" \in IntentStates
    BY DEF Coherent, IntentRows, IntentStates
  <1>2. rearm_blocked(i) = IF i.state = "blocked" THEN j ELSE i
    BY DEF rearm_blocked
  <1> HIDE DEF r
  <1>3. CASE i.state = "blocked"
    <2>1. j \in IntentRows
      BY <1>1, StateUpdates
    <2>2. /\ j.from = i.from /\ j.result_revision = i.result_revision /\ j.revision = r
          /\ j.state = "ready" /\ j.attempts = i.attempts /\ j.acks = i.acks
          /\ j.lapsed = i.lapsed /\ j.due = i.due
      BY <1>1 DEF IntentRows
    <2>3. rearm_blocked(i) = j
      BY <1>2, <1>3
    <2> HIDE DEF j
    <2>4. Coherent(j)
      BY <2>1, <2>2, <1>3 DEF Coherent
    <2> QED  BY <2>2, <2>3, <2>4, <1>1 DEF SameResult
  <1>4. CASE i.state # "blocked"
    <2>1. rearm_blocked(i) = i
      BY <1>2, <1>4
    <2> QED  BY <2>1, <1>1 DEF SameResult
  <1> QED  BY <1>3, <1>4

LEMMA NewRow ==
  ASSUME NEW e \in Facts
  PROVE  /\ MintRevision(e) \in Nat /\ MintRevision(e) >= 1
         /\ Coherent(NewIntent(e))
         /\ NewIntent(e).from = e /\ NewIntent(e).result_revision = MintRevision(e)
         /\ NewIntent(e).acks = {} /\ NewIntent(e).attempts = 0
  <1>1. Fact[e].rev \in Nat
    BY FactFacts
  <1>2. MintRevision(e) \in Nat /\ MintRevision(e) >= 1
    BY <1>1 DEF MintRevision, Larger
  <1> QED  BY <1>2 DEF NewIntent, Coherent, IntentRows, IntentStates

LEMMA SupersededRow ==
  ASSUME NEW i, Coherent(i), NEW e \in Facts
  PROVE  LET j == supersede_intent(i, e)
         IN  /\ Coherent(j) /\ j.from = e
             /\ j.result_revision > i.result_revision /\ j.result_revision >= MintRevision(e)
             /\ j.revision = i.revision + 1 /\ j.state = "ready"
             /\ j.attempts = i.attempts /\ j.acks = i.acks
  <1> DEFINE r == i.revision + 1
             q == Larger(MintRevision(e), i.result_revision + 1)
             j == [i EXCEPT !.from = e, !.result_revision = q, !.revision = r, !.state = "ready",
                            !.lapsed = FALSE, !.due = FALSE]
  <1>1. /\ i \in IntentRows /\ r \in Nat /\ "ready" \in IntentStates
        /\ i.result_revision \in Nat /\ MintRevision(e) \in Nat
    BY NewRow DEF Coherent, IntentRows, IntentStates
  <1>2. q \in Nat /\ q > i.result_revision /\ q >= MintRevision(e)
    BY <1>1 DEF Larger
  <1>3. supersede_intent(i, e) = j
    BY DEF supersede_intent
  <1> HIDE DEF r, q
  <1>4. j \in IntentRows
    BY <1>1, <1>2, SupersedeUpdate
  <1>5. /\ j.from = e /\ j.result_revision = q /\ j.revision = r
        /\ j.state = "ready" /\ j.attempts = i.attempts /\ j.acks = i.acks
        /\ j.lapsed = FALSE /\ j.due = FALSE
    BY <1>1 DEF IntentRows
  <1> HIDE DEF j
  <1>6. Coherent(j)
    BY <1>4, <1>5 DEF Coherent
  <1> QED  BY <1>2, <1>3, <1>5, <1>6 DEF r

-------------------------------------------------------------------------------
(* The kinds of step. *)

Held == [attempt : Nat, revision : Nat, from : journal] \cup {None}

Quiet == UNCHANGED <<intent, receipt, replaced, credits>>

(* The result stays, and receipts are at most given back.                   *)
Moved ==
  /\ intent # None /\ SameResult(intent, intent')
  /\ intent'.attempts = intent.attempts /\ intent'.acks = intent.acks
  /\ intent'.state = "requester_queued" => intent.state = "requester_queued"
  /\ receipt' \in [Procs -> Held]
  /\ \A q \in Procs : receipt'[q] = receipt[q] \/ receipt'[q] = None
  /\ UNCHANGED <<replaced, credits>>

(* p starts the next attempt; the answer may be lost.                       *)
Claimed(p) ==
  /\ intent # None /\ SameResult(intent, intent')
  /\ intent'.attempts = intent.attempts + 1 /\ intent'.acks = intent.acks
  /\ \/ UNCHANGED receipt
     \/ receipt' = [receipt EXCEPT ![p] = [attempt |-> intent'.attempts,
                                           revision |-> intent'.revision, from |-> intent.from]]
  /\ UNCHANGED <<replaced, credits>>

LEMMA StepMovesSpine == [Next]_vars => SpineMoves
  <1> SUFFICES ASSUME [Next]_vars PROVE SpineMoves
    OBVIOUS
  <1>1. ASSUME NEW e \in Facts, ReportFact(e) \/ ReplayFact(e) PROVE SpineMoves
    BY <1>1 DEF ReportFact, ReplayFact, SpineMoves
  <1>2. ASSUME NEW e \in Facts, mint_delivery_for_attached_terminal(e) \/ LoseMint(e) PROVE SpineMoves
    BY <1>2 DEF mint_delivery_for_attached_terminal, LoseMint, SpineMoves
  <1>3. ASSUME NEW p \in Procs, Host(p) PROVE SpineMoves
    BY <1>3 DEF Host, claim_ready_delivery, resolve_claim_key_replay, ack_delivered,
                reject_or_block, MoveOn, ProcessDies, SpineMoves
  <1>4. CASE ReportGone \/ dismiss_delivery \/ LeaseRunsOut \/ RetryComesDue
             \/ \E rearm \in BOOLEAN : resume_requester_operation(rearm)
    BY <1>4 DEF ReportGone, dismiss_delivery, LeaseRunsOut, RetryComesDue,
                resume_requester_operation, SpineMoves
  <1>5. CASE UNCHANGED vars
    BY <1>5 DEF vars, spine, SpineMoves
  <1> QED  BY <1>1, <1>2, <1>3, <1>4, <1>5 DEF Next

(* The calls that leave the result and start no attempt.                    *)
LEMMA TypedIntent ==
  ASSUME TypeOK, intent # None
  PROVE  Coherent(intent) /\ SameResult(intent, intent) /\ intent.from \in journal
  BY DEF TypeOK, Coherent, SameResult, IntentRows

LEMMA ResumeMoves ==
  ASSUME TypeOK, NEW rearm \in BOOLEAN, resume_requester_operation(rearm)
  PROVE  Moved
  <1> DEFINE i == release_expired(intent)
             j == rearm_blocked(i)
  <1>1. intent # None /\ Coherent(intent)
    BY TypedIntent DEF resume_requester_operation
  <1>2. /\ SameResult(intent, i) /\ i.attempts = intent.attempts /\ i.acks = intent.acks
        /\ i = intent \/ i.state = "ready"
    BY <1>1, ReleaseRow
  <1>3. /\ SameResult(i, j) /\ j.attempts = i.attempts /\ j.acks = i.acks
        /\ j = i \/ j.state = "ready"
    BY <1>2, RearmRow DEF SameResult
  <1>4. intent' = i \/ intent' = j
    BY DEF resume_requester_operation
  <1>5. receipt' = receipt /\ receipt \in [Procs -> Held] /\ UNCHANGED <<replaced, credits>>
    BY DEF resume_requester_operation, TypeOK, Held
  <1>6. intent.revision \in Nat /\ i.revision \in Nat /\ j.revision \in Nat
    BY <1>1, <1>2, <1>3 DEF SameResult, Coherent, IntentRows
  <1> HIDE DEF i, j
  <1> QED  BY <1>1, <1>2, <1>3, <1>4, <1>5, <1>6 DEF Moved, SameResult

LEMMA TimeMoves ==
  ASSUME TypeOK, LeaseRunsOut \/ RetryComesDue
  PROVE  Moved
  <1>1. intent # None /\ Coherent(intent) /\ intent \in IntentRows /\ intent.revision \in Nat
    BY TypedIntent DEF LeaseRunsOut, RetryComesDue, Coherent, IntentRows
  <1>2. receipt' = receipt /\ receipt \in [Procs -> Held] /\ UNCHANGED <<replaced, credits>>
    BY DEF LeaseRunsOut, RetryComesDue, TypeOK, Held
  <1>3. CASE LeaseRunsOut
    <2>1. intent' = [intent EXCEPT !.lapsed = TRUE] /\ intent.state = "requester_queued"
      BY <1>3 DEF LeaseRunsOut
    <2>2. intent' \in IntentRows
      BY <2>1, <1>1, StateUpdates DEF IntentRows
    <2>3. /\ intent'.from = intent.from /\ intent'.result_revision = intent.result_revision
          /\ intent'.revision = intent.revision /\ intent'.attempts = intent.attempts
          /\ intent'.acks = intent.acks /\ intent'.state = intent.state /\ intent'.due = intent.due
      BY <2>1, <1>1 DEF IntentRows
    <2> QED  BY <2>1, <2>2, <2>3, <1>1, <1>2 DEF Moved, SameResult, Coherent
  <1>4. CASE RetryComesDue
    <2>1. intent' = [intent EXCEPT !.due = TRUE] /\ intent.state = "retrying"
      BY <1>4 DEF RetryComesDue
    <2>2. intent' \in IntentRows
      BY <2>1, <1>1, StateUpdates DEF IntentRows
    <2>3. /\ intent'.from = intent.from /\ intent'.result_revision = intent.result_revision
          /\ intent'.revision = intent.revision /\ intent'.attempts = intent.attempts
          /\ intent'.acks = intent.acks /\ intent'.state = intent.state /\ intent'.lapsed = intent.lapsed
      BY <2>1, <1>1 DEF IntentRows
    <2> QED  BY <2>1, <2>2, <2>3, <1>1, <1>2 DEF Moved, SameResult, Coherent
  <1> QED  BY <1>3, <1>4

LEMMA DismissMoves ==
  ASSUME TypeOK, dismiss_delivery
  PROVE  Moved
  <1> DEFINE r == intent.revision + 1
  <1>1. /\ intent # None /\ Coherent(intent) /\ intent \in IntentRows
        /\ intent.revision \in Nat /\ r \in Nat /\ r > intent.revision
        /\ "dismissed" \in IntentStates
    BY TypedIntent DEF dismiss_delivery, Coherent, IntentRows, IntentStates
  <1>2. receipt' = receipt /\ receipt \in [Procs -> Held] /\ UNCHANGED <<replaced, credits>>
    BY DEF dismiss_delivery, TypeOK, Held
  <1>3. intent' = [intent EXCEPT !.state = "dismissed", !.revision = r, !.lapsed = FALSE, !.due = FALSE]
    BY DEF dismiss_delivery
  <1> HIDE DEF r
  <1>4. intent' \in IntentRows
    BY <1>1, <1>3, StateUpdates
  <1>5. /\ intent'.from = intent.from /\ intent'.result_revision = intent.result_revision
        /\ intent'.revision = r /\ intent'.attempts = intent.attempts
        /\ intent'.acks = intent.acks /\ intent'.state = "dismissed"
        /\ intent'.lapsed = FALSE /\ intent'.due = FALSE
    BY <1>1, <1>3 DEF IntentRows
  <1> QED  BY <1>1, <1>2, <1>4, <1>5 DEF Moved, SameResult, Coherent

LEMMA RejectMoves ==
  ASSUME TypeOK, NEW p \in Procs, NEW pinned \in BOOLEAN, NEW retryable \in BOOLEAN,
         reject_or_block(p, pinned, retryable)
  PROVE  Moved
  <1> DEFINE r == intent.revision + 1
             st == IF retryable THEN "retrying" ELSE "blocked"
  <1>0. intent # None
    BY DEF reject_or_block, TypeOK
  <1>1. /\ Coherent(intent) /\ intent \in IntentRows
        /\ intent.revision \in Nat /\ r \in Nat /\ r > intent.revision
        /\ st \in IntentStates /\ st # "requester_queued"
        /\ intent.state = "requester_queued" /\ intent.due = FALSE
    BY <1>0, TypedIntent DEF reject_or_block, Coherent, IntentRows, IntentStates
  <1>2. /\ receipt \in [Procs -> Held] /\ None \in Held
        /\ receipt' = [receipt EXCEPT ![p] = None] /\ UNCHANGED <<replaced, credits>>
    BY DEF reject_or_block, TypeOK, Held
  <1>3. intent' = [intent EXCEPT !.state = st, !.revision = r, !.lapsed = FALSE]
    BY DEF reject_or_block
  <1> HIDE DEF r, st
  <1>4. intent' \in IntentRows
    BY <1>1, <1>3, StateUpdates
  <1>5. /\ intent'.from = intent.from /\ intent'.result_revision = intent.result_revision
        /\ intent'.revision = r /\ intent'.attempts = intent.attempts
        /\ intent'.acks = intent.acks /\ intent'.state = st
        /\ intent'.lapsed = FALSE /\ intent'.due = intent.due
    BY <1>1, <1>3 DEF IntentRows
  <1>6. /\ receipt' \in [Procs -> Held]
        /\ \A q \in Procs : receipt'[q] = receipt[q] \/ receipt'[q] = None
    BY <1>2
  <1> QED  BY <1>0, <1>1, <1>2, <1>4, <1>5, <1>6 DEF Moved, SameResult, Coherent

LEMMA DropMoves ==
  ASSUME TypeOK, NEW p \in Procs, MoveOn(p) \/ ProcessDies(p)
  PROVE  Moved
  <1>1. intent # None /\ intent' = intent
    BY DEF MoveOn, ProcessDies, TypeOK
  <1>2. /\ receipt \in [Procs -> Held] /\ None \in Held
        /\ receipt' = [receipt EXCEPT ![p] = None] /\ UNCHANGED <<replaced, credits>>
    BY DEF MoveOn, ProcessDies, TypeOK, Held
  <1>3. /\ receipt' \in [Procs -> Held]
        /\ \A q \in Procs : receipt'[q] = receipt[q] \/ receipt'[q] = None
    BY <1>2
  <1> QED  BY <1>1, <1>2, <1>3, TypedIntent DEF Moved

LEMMA ClaimMoves ==
  ASSUME TypeOK, NEW p \in Procs, claim_ready_delivery(p)
  PROVE  Claimed(p)
  <1> DEFINE i == release_expired(intent)
             j == transition_to_claimed(i)
  <1>1. intent # None /\ Coherent(intent)
    BY TypedIntent DEF claim_ready_delivery
  <1>2. SameResult(intent, i) /\ i.attempts = intent.attempts /\ i.acks = intent.acks
    BY <1>1, ReleaseRow
  <1>3. /\ SameResult(i, j) /\ j.attempts = i.attempts + 1 /\ j.acks = i.acks
        /\ Receipt(j) = [attempt |-> j.attempts, revision |-> j.revision, from |-> i.from]
    BY <1>2, ClaimRow DEF SameResult
  <1>4. /\ intent' = j /\ UNCHANGED <<replaced, credits>>
        /\ receipt' = receipt \/ receipt' = [receipt EXCEPT ![p] = Receipt(intent')]
    BY DEF claim_ready_delivery
  <1>5. intent.revision \in Nat /\ i.revision \in Nat /\ j.revision \in Nat
    BY <1>1, <1>2, <1>3 DEF SameResult, Coherent, IntentRows
  <1>6. SameResult(intent, j) /\ i.from = intent.from
    BY <1>2, <1>3, <1>5 DEF SameResult
  <1> HIDE DEF i, j
  <1> QED  BY <1>1, <1>2, <1>3, <1>4, <1>6 DEF Claimed

LEMMA StepKinds ==
  ASSUME TypeOK, [Next]_vars
  PROVE  \/ Quiet
         \/ Moved
         \/ \E p \in Procs : \/ Claimed(p)
                             \/ resolve_claim_key_replay(p)
                             \/ \E pinned \in BOOLEAN : ack_delivered(p, pinned)
         \/ \E e \in Facts : mint_delivery_for_attached_terminal(e)
  <1>1. ASSUME NEW e \in Facts, ReportFact(e) \/ ReplayFact(e) \/ LoseMint(e) PROVE Quiet
    BY <1>1 DEF ReportFact, ReplayFact, LoseMint, delivery, Quiet
  <1>2. CASE ReportGone \/ UNCHANGED vars
    BY <1>2 DEF ReportGone, delivery, vars, Quiet
  <1>3. CASE \/ dismiss_delivery \/ LeaseRunsOut \/ RetryComesDue
             \/ \E rearm \in BOOLEAN : resume_requester_operation(rearm)
    BY <1>3, DismissMoves, TimeMoves, ResumeMoves
  <1>4. ASSUME NEW p \in Procs, Host(p)
        PROVE  Moved \/ Claimed(p) \/ resolve_claim_key_replay(p)
                     \/ \E pinned \in BOOLEAN : ack_delivered(p, pinned)
    <2>1. ASSUME NEW pinned \in BOOLEAN, NEW retryable \in BOOLEAN, reject_or_block(p, pinned, retryable)
          PROVE  Moved
      BY <2>1, RejectMoves
    <2>2. MoveOn(p) \/ ProcessDies(p) => Moved
      BY DropMoves
    <2>3. claim_ready_delivery(p) => Claimed(p)
      BY ClaimMoves
    <2> QED  BY <1>4, <2>1, <2>2, <2>3 DEF Host
  <1> QED  BY <1>1, <1>2, <1>3, <1>4 DEF Next

(* An acknowledgement settles the claim that is out and no other.           *)
LEMMA AckRow ==
  ASSUME TypeOK, NEW p \in Procs, NEW pinned \in BOOLEAN, ack_delivered(p, pinned)
  PROVE  /\ receipt[p] # None /\ intent # None /\ SameResult(intent, intent')
         /\ receipt[p].attempt \in Nat /\ receipt[p].attempt \notin intent.acks
         /\ intent'.acks = intent.acks \cup {receipt[p].attempt}
         /\ intent'.attempts = intent.attempts /\ intent'.state = "delivered"
         /\ UNCHANGED <<receipt, replaced>>
  <1> DEFINE r == intent.revision + 1
             a == intent.acks \cup {receipt[p].attempt}
  <1>0. receipt[p] # None /\ intent # None /\ receipt[p].attempt \in Nat
    BY DEF ack_delivered, AckAdmitted, TypeOK
  <1>1. /\ Coherent(intent) /\ intent \in IntentRows
        /\ intent.revision \in Nat /\ r \in Nat /\ r > intent.revision
        /\ intent.acks \in SUBSET Nat /\ a \in SUBSET Nat
        /\ "delivered" \in IntentStates
        /\ intent.state = "requester_queued" /\ intent.due = FALSE
    BY <1>0, TypedIntent DEF ack_delivered, AckAdmitted, Coherent, IntentRows, IntentStates
  <1>2. /\ receipt[p].attempt \notin intent.acks /\ UNCHANGED <<receipt, replaced>>
        /\ intent' = [intent EXCEPT !.state = "delivered", !.revision = r, !.acks = a, !.lapsed = FALSE]
    BY <1>1 DEF ack_delivered, AckAdmitted, IntentRows
  <1> HIDE DEF r
  <1>a. a = intent.acks \cup {receipt[p].attempt}
    OBVIOUS
  <1> HIDE DEF a
  <1>4. intent' \in IntentRows
    BY <1>1, <1>2, AckUpdate
  <1>5. /\ intent'.from = intent.from /\ intent'.result_revision = intent.result_revision
        /\ intent'.revision = r /\ intent'.attempts = intent.attempts
        /\ intent'.acks = a /\ intent'.state = "delivered"
        /\ intent'.lapsed = FALSE /\ intent'.due = intent.due
    BY <1>1, <1>2 DEF IntentRows
  <1>6. SameResult(intent, intent')
    BY <1>1, <1>4, <1>5, <1>a DEF SameResult, Coherent
  <1> QED  BY <1>0, <1>2, <1>5, <1>6, <1>a

(* The mint of e makes the intent, corrects it or leaves it.                *)
LEMMA MintRow ==
  ASSUME TypeOK, NEW e \in Facts, mint_delivery_for_attached_terminal(e)
  PROVE  /\ e \in journal /\ Fact[e].kind = "terminal" /\ UNCHANGED <<session, receipt, credits>>
         /\ \/ intent' = intent /\ replaced' = replaced
            \/ /\ StillCanonical(e) /\ intent = None
               /\ intent' = NewIntent(e) /\ replaced' = replaced
            \/ /\ StillCanonical(e) /\ intent # None /\ intent.result_revision <= MintRevision(e)
               /\ Fact[intent.from].payload # Fact[e].payload
               /\ intent' = supersede_intent(intent, e)
               /\ replaced' = replaced \cup {intent.from}
  <1>1. /\ e \in journal /\ Fact[e].kind = "terminal" /\ UNCHANGED <<session, receipt, credits>>
    BY DEF mint_delivery_for_attached_terminal, TypeOK, spine
  <1>2. CASE ~(StillCanonical(e) /\ NotOutdone(e))
    BY <1>1, <1>2 DEF mint_delivery_for_attached_terminal
  <1>3. CASE StillCanonical(e) /\ NotOutdone(e) /\ intent = None
    BY <1>1, <1>3 DEF mint_delivery_for_attached_terminal
  <1>4. CASE StillCanonical(e) /\ NotOutdone(e) /\ intent # None
    <2>1. intent' = reconcile_mint(intent, e) /\ intent.result_revision <= MintRevision(e)
      BY <1>4 DEF mint_delivery_for_attached_terminal, NotOutdone
    <2>2. replaced' = IF intent'.from # intent.from THEN replaced \cup {intent.from} ELSE replaced
      BY <1>4 DEF mint_delivery_for_attached_terminal
    <2>3. CASE Fact[intent.from].payload = Fact[e].payload
      BY <2>1, <2>2, <2>3, <1>1 DEF reconcile_mint
    <2>4. CASE Fact[intent.from].payload # Fact[e].payload
      <3>1. intent' = supersede_intent(intent, e)
        BY <2>1, <2>4 DEF reconcile_mint
      <3>2. intent'.from = e
        BY <3>1, <1>4, TypedIntent, SupersededRow
      <3> QED  BY <2>1, <2>2, <2>4, <3>1, <3>2, <1>1, <1>4
    <2> QED  BY <2>3, <2>4
  <1> QED  BY <1>2, <1>3, <1>4

-------------------------------------------------------------------------------
(* Types. *)

LEMMA FaultsAndPending ==
  ASSUME TypeOK, SpineInv, [Next]_vars
  PROVE  /\ faults' \in 0 .. MaxFaults
         /\ pending' \subseteq {e \in journal' : Fact[e].kind = "terminal"}
  <1>1. faults \in 0 .. MaxFaults /\ MaxFaults \in Nat
    BY BoundsAssumption DEF TypeOK
  <1>2. Fault => faults' \in 0 .. MaxFaults
    BY <1>1 DEF Fault
  <1>3. pending \subseteq {e \in journal' : Fact[e].kind = "terminal"}
    BY StepMovesSpine, SpineGrows DEF TypeOK
  <1>4. ASSUME NEW e \in Facts, ReportFact(e) PROVE UNCHANGED faults /\ pending' \subseteq pending \cup {e}
                                                   /\ (pending' # pending => Fact[e].kind = "terminal" /\ e \in journal')
    BY <1>4 DEF ReportFact, delivery, Gated, ingest_harness_session_event
  <1>5. ASSUME NEW e \in Facts, ReplayFact(e) PROVE UNCHANGED faults /\ pending' \subseteq pending \cup {e}
                                                   /\ Fact[e].kind = "terminal" /\ e \in journal'
    BY <1>5 DEF ReplayFact, delivery, Gated, spine
  <1>6. ASSUME NEW e \in Facts, mint_delivery_for_attached_terminal(e) \/ LoseMint(e)
        PROVE  (UNCHANGED faults \/ Fault) /\ pending' \subseteq pending
    BY <1>6 DEF mint_delivery_for_attached_terminal, LoseMint
  <1>7. ASSUME NEW p \in Procs, Host(p) PROVE (UNCHANGED faults \/ Fault) /\ pending' = pending
    BY <1>7 DEF Host, claim_ready_delivery, resolve_claim_key_replay, ack_delivered,
                reject_or_block, MoveOn, ProcessDies
  <1>8. CASE ReportGone \/ dismiss_delivery \/ LeaseRunsOut \/ RetryComesDue
             \/ \E rearm \in BOOLEAN : resume_requester_operation(rearm)
    <2>1. (UNCHANGED faults \/ Fault) /\ pending' = pending
      BY <1>8 DEF ReportGone, delivery, dismiss_delivery, LeaseRunsOut, RetryComesDue,
                  resume_requester_operation
    <2> QED  BY <2>1, <1>1, <1>2, <1>3
  <1>9. CASE UNCHANGED vars
    BY <1>9, <1>1, <1>3 DEF vars
  <1> QED  BY <1>1, <1>2, <1>3, <1>4, <1>5, <1>6, <1>7, <1>8, <1>9 DEF Next

(* A row is never mistaken for its absence.                                 *)
LEMMA RowIsThere ==
  ASSUME NEW i, Coherent(i)
  PROVE  i # None
  BY NoneAssumption DEF Coherent

(* The intent, the receipts and the histories.                              *)
DeliveryTyped ==
  /\ intent \in IntentRows \cup {None}
  /\ intent # None => Coherent(intent) /\ intent.from \in journal
  /\ receipt \in [Procs -> Held]
  /\ \A p \in Procs : receipt[p] # None => intent # None /\ receipt[p].attempt <= intent.attempts
  /\ replaced \subseteq journal
  /\ credits \subseteq [attempt : Nat, nth : Nat, earned : BOOLEAN] /\ IsFiniteSet(credits)

LEMMA DeliveryStaysTyped ==
  ASSUME TypeOK, SpineInv, [Next]_vars
  PROVE  DeliveryTyped'
  <1>1. /\ journal \subseteq journal' /\ Held \subseteq Held'
    BY StepMovesSpine, SpineGrows DEF Held
  <1>2. DeliveryTyped
    BY DEF TypeOK, DeliveryTyped, Held, Coherent, IntentRows
  <1>3. CASE Quiet
    BY <1>1, <1>2, <1>3 DEF Quiet, DeliveryTyped
  <1>4. CASE Moved
    <2>1. /\ Coherent(intent') /\ intent' # None /\ intent' \in IntentRows
          /\ intent'.from = intent.from /\ intent'.attempts = intent.attempts
      BY <1>4, RowIsThere DEF Moved, SameResult, Coherent
    <2> QED  BY <1>1, <1>2, <1>4, <2>1 DEF Moved, DeliveryTyped
  <1>5. ASSUME NEW p \in Procs, Claimed(p) PROVE DeliveryTyped'
    <2>1. /\ Coherent(intent') /\ intent' # None /\ intent' \in IntentRows
          /\ intent'.from = intent.from /\ intent'.attempts = intent.attempts + 1
          /\ intent.attempts \in Nat /\ intent'.attempts \in Nat /\ intent'.revision \in Nat
      BY <1>5, <1>2, RowIsThere DEF Claimed, SameResult, Coherent, DeliveryTyped, IntentRows
    <2> DEFINE c == [attempt |-> intent'.attempts, revision |-> intent'.revision, from |-> intent.from]
    <2>2. c \in Held' /\ c.attempt = intent'.attempts
      BY <2>1, <1>1, <1>2, <1>5 DEF Held, DeliveryTyped, Claimed
    <2>3. receipt' = receipt \/ receipt' = [receipt EXCEPT ![p] = c]
      BY <1>5 DEF Claimed
    <2> HIDE DEF c
    <2>4. /\ receipt' \in [Procs -> Held']
          /\ \A q \in Procs : receipt'[q] = receipt[q] \/ receipt'[q] = c
      BY <2>2, <2>3, <1>1, <1>2 DEF DeliveryTyped
    <2>5. \A q \in Procs : receipt[q] # None => receipt[q].attempt \in Nat
      BY <1>2 DEF DeliveryTyped, Held
    <2>6. \A q \in Procs : receipt'[q] # None => receipt'[q].attempt <= intent'.attempts
      BY <2>1, <2>2, <2>4, <2>5, <1>2 DEF DeliveryTyped
    <2> QED  BY <2>1, <2>4, <2>6, <1>1, <1>2, <1>5 DEF Claimed, DeliveryTyped
  <1>6. ASSUME NEW p \in Procs, resolve_claim_key_replay(p) PROVE DeliveryTyped'
    <2>1. /\ intent # None /\ Coherent(intent) /\ intent.from \in journal
          /\ intent.attempts \in Nat /\ intent.revision \in Nat
          /\ receipt' = [receipt EXCEPT ![p] = Receipt(intent)]
          /\ UNCHANGED <<intent, replaced, credits>>
      BY <1>6, <1>2 DEF resolve_claim_key_replay, DeliveryTyped, Coherent, IntentRows
    <2>2. Receipt(intent) \in Held' /\ Receipt(intent).attempt = intent.attempts
      BY <2>1, <1>1 DEF Held, Receipt
    <2>3. /\ receipt' \in [Procs -> Held']
          /\ \A q \in Procs : receipt'[q] = receipt[q] \/ receipt'[q] = Receipt(intent)
      BY <2>1, <2>2, <1>1, <1>2 DEF DeliveryTyped
    <2> QED  BY <2>1, <2>2, <2>3, <1>1, <1>2 DEF DeliveryTyped
  <1>7. ASSUME NEW p \in Procs, NEW pinned \in BOOLEAN, ack_delivered(p, pinned) PROVE DeliveryTyped'
    <2>1. /\ Coherent(intent') /\ intent' # None /\ intent' \in IntentRows
          /\ intent'.from = intent.from /\ intent'.attempts = intent.attempts
          /\ receipt[p].attempt \in Nat /\ UNCHANGED <<receipt, replaced>> /\ intent # None
      BY <1>7, AckRow, RowIsThere DEF SameResult, Coherent
    <2> DEFINE same == {c \in credits : c.attempt = receipt[p].attempt}
               n == 1 + Cardinality(same)
               w == pinned => receipt[p].from = intent.from
    <2>2. IsFiniteSet(credits) /\ same \subseteq credits
      BY <1>2 DEF DeliveryTyped
    <2>3. n \in Nat
      <3>1. IsFiniteSet(same)
        BY <2>2, FS_Subset
      <3>2. Cardinality(same) \in Nat
        BY <3>1, FS_CardinalityType
      <3> QED  BY <3>2
    <2>4. w \in BOOLEAN
      OBVIOUS
    <2>5. credits' = credits \cup {[attempt |-> receipt[p].attempt, nth |-> n, earned |-> w]}
      BY <1>7 DEF ack_delivered
    <2> HIDE DEF n, w
    <2>6. credits' \subseteq [attempt : Nat, nth : Nat, earned : BOOLEAN]
      BY <2>1, <2>3, <2>4, <2>5, <1>2 DEF DeliveryTyped
    <2>7. IsFiniteSet(credits')
      BY <2>2, <2>5, FS_AddElement
    <2> QED  BY <2>1, <2>6, <2>7, <1>1, <1>2 DEF DeliveryTyped
  <1>8. ASSUME NEW e \in Facts, mint_delivery_for_attached_terminal(e) PROVE DeliveryTyped'
    <2>1. /\ e \in journal' /\ UNCHANGED <<receipt, credits>>
          /\ intent # None => Coherent(intent) /\ intent.from \in journal
      BY <1>1, <1>2, <1>8, MintRow DEF DeliveryTyped
    <2>2. CASE intent' = intent /\ replaced' = replaced
      BY <2>1, <2>2, <1>1, <1>2 DEF DeliveryTyped
    <2>3. CASE intent = None /\ intent' = NewIntent(e) /\ replaced' = replaced
      <3>1. Coherent(intent') /\ intent'.from = e /\ intent' # None /\ intent' \in IntentRows
        BY <2>3, NewRow, RowIsThere DEF Coherent
      <3> QED  BY <3>1, <2>1, <2>3, <1>1, <1>2 DEF DeliveryTyped
    <2>4. CASE intent # None /\ intent' = supersede_intent(intent, e) /\ replaced' = replaced \cup {intent.from}
      <3>1. /\ Coherent(intent') /\ intent'.from = e /\ intent' # None /\ intent' \in IntentRows
            /\ intent'.attempts = intent.attempts
        <4>1. Coherent(intent)
          BY <2>1, <2>4
        <4>2. Coherent(intent') /\ intent'.from = e /\ intent'.attempts = intent.attempts
          BY <4>1, <2>4, SupersededRow
        <4> QED  BY <4>2, RowIsThere DEF Coherent
      <3> QED  BY <3>1, <2>1, <2>4, <1>1, <1>2 DEF DeliveryTyped
    <2> QED  BY <2>2, <2>3, <2>4, <1>8, MintRow
  <1> QED  BY <1>3, <1>4, <1>5, <1>6, <1>7, <1>8, StepKinds

LEMMA TypeStep ==
  ASSUME TypeOK, SpineInv, [Next]_vars
  PROVE  TypeOK'
  <1>1. SpineTypeOK'
    <2>1. SpineInv'
      BY StepMovesSpine, SpineKeeps
    <2> QED  BY <2>1 DEF SpineInv, Sound, Rows, SpineTypeOK
  <1> QED  BY <1>1, FaultsAndPending, DeliveryStaysTyped
           DEF TypeOK, DeliveryTyped, Held, Coherent

-------------------------------------------------------------------------------
(* What the invariants of the results rest on. *)

(* Every result that was replaced is of a revision below the intent's, and  *)
(* a fact is minted only at or above it: so it is none of those.            *)
Replacement ==
  /\ intent = None => replaced = {}
  /\ intent # None => /\ MintRevision(intent.from) <= intent.result_revision
                      /\ \A d \in replaced : MintRevision(d) < intent.result_revision
                      /\ intent.from \notin replaced

(* What a receipt shows is what the intent offers as long as the revision   *)
(* or the attempt that is out is the receipt's own.                         *)
Grip ==
  \A p \in Procs : receipt[p] # None =>
    /\ receipt[p].revision <= intent.revision
    /\ receipt[p].revision = intent.revision => receipt[p].from = intent.from
    /\ intent.state = "requester_queued" /\ receipt[p].attempt = intent.attempts =>
         receipt[p].from = intent.from

(* A receipt that was credited has its acknowledgement key in the ledger.   *)
Ledger ==
  /\ intent = None => credits = {}
  /\ \A c \in credits : c.attempt \in intent.acks

IInv ==
  /\ TypeOK /\ SpineInv
  /\ IntentTellsTheTerminal
  /\ Replacement
  /\ Grip /\ ReceiptPinsContent
  /\ Ledger /\ CreditIsEarned

LEMMA InitIInv == Init => IInv
  <1> SUFFICES ASSUME Init PROVE IInv
    OBVIOUS
  <1>1. SpineInv
    BY SpineStarts DEF Init
  <1>2. /\ pending = {} /\ intent = None /\ receipt = [p \in Procs |-> None]
        /\ faults = 0 /\ replaced = {} /\ credits = {} /\ IsFiniteSet(credits)
    BY FS_EmptySet DEF Init
  <1>3. TypeOK
    <2>1. SpineTypeOK
      BY <1>1, SpineTyped
    <2> QED  BY <2>1, <1>2, BoundsAssumption DEF TypeOK
  <1> QED  BY <1>1, <1>2, <1>3 DEF IInv, IntentTellsTheTerminal, Replacement, Grip,
              ReceiptPinsContent, Ledger, CreditIsEarned

(* Any step but a mint leaves the offered result alone.                     *)
LEMMA ResultStays ==
  ASSUME TypeOK, [Next]_vars
  PROVE  \/ \E e \in Facts : mint_delivery_for_attached_terminal(e)
         \/ intent' = intent /\ replaced' = replaced
         \/ /\ intent # None /\ Coherent(intent') /\ intent' # None
            /\ intent'.from = intent.from /\ intent'.result_revision = intent.result_revision
            /\ replaced' = replaced
  <1>1. ASSUME intent # None, SameResult(intent, intent')
        PROVE  /\ Coherent(intent') /\ intent' # None
               /\ intent'.from = intent.from /\ intent'.result_revision = intent.result_revision
    BY <1>1, RowIsThere DEF SameResult
  <1>2. CASE Moved
    BY <1>1, <1>2 DEF Moved
  <1>3. ASSUME NEW p \in Procs, Claimed(p)
        PROVE  /\ intent # None /\ Coherent(intent') /\ intent' # None
               /\ intent'.from = intent.from /\ intent'.result_revision = intent.result_revision
               /\ replaced' = replaced
    BY <1>1, <1>3 DEF Claimed
  <1>4. ASSUME NEW p \in Procs, NEW pinned \in BOOLEAN, ack_delivered(p, pinned)
        PROVE  /\ intent # None /\ Coherent(intent') /\ intent' # None
               /\ intent'.from = intent.from /\ intent'.result_revision = intent.result_revision
               /\ replaced' = replaced
    BY <1>1, <1>4, AckRow
  <1>5. ASSUME NEW p \in Procs, resolve_claim_key_replay(p)
        PROVE  intent' = intent /\ replaced' = replaced
    BY <1>5 DEF resolve_claim_key_replay
  <1> QED  BY <1>2, <1>3, <1>4, <1>5, StepKinds DEF Quiet

LEMMA TellsStep ==
  ASSUME IInv, [Next]_vars
  PROVE  IntentTellsTheTerminal'
  <1>1. TypeOK /\ SpineInv /\ IntentTellsTheTerminal /\ None \notin Outcomes
    BY FactsAssumption DEF IInv
  <1>2. session.terminal # None => session'.terminal = session.terminal
    BY <1>1, StepMovesSpine, SpineGrows
  <1>3. intent # None => intent.from \in Facts
    BY <1>1, TypedIntent DEF SpineInv
  <1>4. ASSUME intent # None, intent'.from = intent.from PROVE IntentTellsTheTerminal'
    <2>1. Fact[intent.from].outcome \in Outcomes
      BY <1>1, <1>3, <1>4, FactFacts DEF IntentTellsTheTerminal
    <2> QED  BY <2>1, <1>1, <1>2, <1>4 DEF IntentTellsTheTerminal
  <1>5. ASSUME NEW e \in Facts, mint_delivery_for_attached_terminal(e) PROVE IntentTellsTheTerminal'
    <2>1. /\ e \in journal /\ Fact[e].kind = "terminal" /\ session' = session
      BY <1>1, <1>5, MintRow
    <2>2. StillCanonical(e) => Fact[e].outcome = session.terminal
      <3>1. SUFFICES ASSUME StillCanonical(e) PROVE Fact[e].outcome = session.terminal
        OBVIOUS
      <3>2. session.state \in Outcomes /\ session.revision <= Fact[e].rev
        BY <3>1 DEF StillCanonical
      <3>3. session.revision \in Nat /\ Fact[e].rev \in Nat /\ session.terminal = session.state
        BY <3>2, <1>1, FactFacts DEF SpineInv, Sound, Rows
      <3> QED  BY <2>1, <3>2, <3>3, <1>1 DEF SpineInv, NeverGuessesAWinner
    <2>3. CASE intent' = intent
      BY <2>1, <2>3, <1>1 DEF IntentTellsTheTerminal
    <2>4. CASE StillCanonical(e) /\ intent'.from = e
      BY <2>1, <2>2, <2>4 DEF IntentTellsTheTerminal
    <2>5. intent = None /\ intent' = NewIntent(e) => intent'.from = e
      BY NewRow
    <2>6. intent # None /\ intent' = supersede_intent(intent, e) => intent'.from = e
      BY <1>1, TypedIntent, SupersededRow
    <2> QED  BY <2>3, <2>4, <2>5, <2>6, <1>1, <1>5, MintRow
  <1>6. CASE intent = None /\ intent' = intent
    BY <1>6 DEF IntentTellsTheTerminal
  <1> QED  BY <1>1, <1>4, <1>5, <1>6, ResultStays

LEMMA ReplacementStep ==
  ASSUME IInv, [Next]_vars
  PROVE  Replacement'
  <1>1. TypeOK /\ SpineInv /\ Replacement
    BY DEF IInv
  <1>2. ASSUME intent' = intent, replaced' = replaced PROVE Replacement'
    BY <1>1, <1>2 DEF Replacement
  <1>3. ASSUME intent # None, intent' # None, intent'.from = intent.from,
               intent'.result_revision = intent.result_revision, replaced' = replaced
        PROVE  Replacement'
    BY <1>1, <1>3 DEF Replacement
  <1>4. ASSUME NEW e \in Facts, mint_delivery_for_attached_terminal(e) PROVE Replacement'
    <2>1. CASE intent = None /\ intent' = NewIntent(e) /\ replaced' = replaced
      <3>1. /\ intent'.from = e /\ intent'.result_revision = MintRevision(e)
            /\ MintRevision(e) \in Nat /\ intent' # None
        BY <2>1, NewRow, RowIsThere
      <3> QED  BY <2>1, <3>1, <1>1 DEF Replacement
    <2>2. CASE intent # None /\ intent' = supersede_intent(intent, e) /\ replaced' = replaced \cup {intent.from}
              /\ intent.result_revision <= MintRevision(e) /\ Fact[intent.from].payload # Fact[e].payload
      <3>1. Coherent(intent) /\ intent.from \in Facts /\ replaced \subseteq Facts
        BY <2>2, <1>1, TypedIntent DEF TypeOK, SpineInv
      <3>2. /\ intent'.from = e /\ intent'.result_revision > intent.result_revision
            /\ intent'.result_revision >= MintRevision(e) /\ intent' # None
            /\ intent'.result_revision \in Nat /\ intent.result_revision \in Nat
        <4>1. /\ Coherent(intent') /\ intent'.from = e
              /\ intent'.result_revision > intent.result_revision
              /\ intent'.result_revision >= MintRevision(e)
          BY <2>2, <3>1, SupersededRow
        <4> QED  BY <4>1, <3>1, RowIsThere DEF Coherent, IntentRows
      <3>3. \A d \in Facts : MintRevision(d) \in Nat
        BY NewRow
      <3>4. e \notin replaced /\ e # intent.from
        BY <2>2, <3>1, <3>2, <3>3, <1>1 DEF Replacement
      <3> QED  BY <2>2, <3>1, <3>2, <3>3, <3>4, <1>1 DEF Replacement
    <2> QED  BY <2>1, <2>2, <1>1, <1>2, <1>4, MintRow
  <1> QED  BY <1>1, <1>2, <1>3, <1>4, ResultStays

LEMMA GripStep ==
  ASSUME IInv, [Next]_vars
  PROVE  Grip' /\ ReceiptPinsContent'
  <1>1. TypeOK /\ SpineInv /\ Grip /\ ReceiptPinsContent
    BY DEF IInv
  <1>2. /\ receipt \in [Procs -> Held]
        /\ \A q \in Procs : receipt[q] # None =>
             /\ intent # None /\ receipt[q].attempt <= intent.attempts
             /\ receipt[q].attempt \in Nat /\ receipt[q].revision \in Nat
    BY <1>1 DEF TypeOK, Held
  <1>3. intent # None => Coherent(intent) /\ intent.revision \in Nat /\ intent.attempts \in Nat
    BY <1>1, TypedIntent DEF Coherent, IntentRows
  <1>4. CASE Quiet
    BY <1>1, <1>4 DEF Quiet, Grip, ReceiptPinsContent
  <1>5. CASE Moved
    <2>1. /\ intent # None /\ intent'.revision >= intent.revision /\ intent'.revision \in Nat
          /\ intent'.from = intent.from /\ intent'.attempts = intent.attempts
          /\ intent'.state = "requester_queued" => intent.state = "requester_queued"
          /\ \A q \in Procs : receipt'[q] = receipt[q] \/ receipt'[q] = None
      BY <1>5 DEF Moved, SameResult, Coherent, IntentRows
    <2>2. Grip'
      BY <2>1, <1>1, <1>2, <1>3 DEF Grip
    <2>3. ReceiptPinsContent'
      BY <2>1, <1>1 DEF ReceiptPinsContent
    <2> QED  BY <2>2, <2>3
  <1>6. ASSUME NEW p \in Procs, Claimed(p) PROVE Grip' /\ ReceiptPinsContent'
    <2>1. /\ intent # None /\ intent'.revision >= intent.revision /\ intent'.revision \in Nat
          /\ intent'.from = intent.from /\ intent'.attempts = intent.attempts + 1
      BY <1>6 DEF Claimed, SameResult, Coherent, IntentRows
    <2> DEFINE c == [attempt |-> intent'.attempts, revision |-> intent'.revision, from |-> intent.from]
    <2>2. receipt' = receipt \/ receipt' = [receipt EXCEPT ![p] = c]
      BY <1>6 DEF Claimed
    <2>3. c.attempt = intent'.attempts /\ c.revision = intent'.revision /\ c.from = intent.from
      OBVIOUS
    <2> HIDE DEF c
    <2>4. \A q \in Procs : receipt'[q] = receipt[q] \/ receipt'[q] = c
      BY <2>2, <1>2
    <2>5. \A q \in Procs : receipt[q] # None => receipt[q].attempt < intent'.attempts
      BY <2>1, <1>2, <1>3
    <2>6. Grip'
      <3> SUFFICES ASSUME NEW q \in Procs, receipt'[q] # None
                   PROVE  /\ receipt'[q].revision <= intent'.revision
                          /\ receipt'[q].revision = intent'.revision => receipt'[q].from = intent'.from
                          /\ receipt'[q].attempt = intent'.attempts => receipt'[q].from = intent'.from
        BY DEF Grip
      <3>1. CASE receipt'[q] = c
        BY <3>1, <2>1, <2>3
      <3>2. CASE receipt'[q] = receipt[q]
        <4>1. receipt[q].attempt # intent'.attempts
          BY <3>2, <2>1, <2>5, <1>2, <1>3
        <4> QED  BY <3>2, <4>1, <2>1, <1>1, <1>2, <1>3 DEF Grip
      <3> QED  BY <3>1, <3>2, <2>4
    <2>7. ReceiptPinsContent'
      <3> SUFFICES ASSUME NEW q \in Procs, NEW k \in Procs, receipt'[q] # None, receipt'[k] # None,
                          receipt'[q].attempt = receipt'[k].attempt
                   PROVE  receipt'[q].from = receipt'[k].from
        BY DEF ReceiptPinsContent
      <3>1. CASE receipt'[q] = c /\ receipt'[k] = c
        BY <3>1
      <3>2. CASE receipt'[q] = receipt[q] /\ receipt'[k] = receipt[k]
        BY <3>2, <1>1 DEF ReceiptPinsContent
      <3>3. \A x \in Procs : receipt[x] # None => receipt[x].attempt # c.attempt
        BY <2>1, <2>3, <2>5, <1>2, <1>3
      <3> QED  BY <3>1, <3>2, <3>3, <2>4
    <2> QED  BY <2>6, <2>7
  <1>7. ASSUME NEW p \in Procs, resolve_claim_key_replay(p) PROVE Grip' /\ ReceiptPinsContent'
    <2>1. /\ intent # None /\ intent' = intent /\ intent.state = "requester_queued"
          /\ receipt' = [receipt EXCEPT ![p] = Receipt(intent)]
      BY <1>7 DEF resolve_claim_key_replay
    <2>2. /\ Receipt(intent).attempt = intent.attempts /\ Receipt(intent).revision = intent.revision
          /\ Receipt(intent).from = intent.from
      BY DEF Receipt
    <2>3. \A q \in Procs : receipt'[q] = receipt[q] \/ receipt'[q] = Receipt(intent)
      BY <2>1, <1>2
    <2>4. Grip'
      BY <2>1, <2>2, <2>3, <1>1, <1>2, <1>3 DEF Grip
    <2>5. ReceiptPinsContent'
      BY <2>1, <2>2, <2>3, <1>1 DEF Grip, ReceiptPinsContent
    <2> QED  BY <2>4, <2>5
  <1>8. ASSUME NEW p \in Procs, NEW pinned \in BOOLEAN, ack_delivered(p, pinned)
        PROVE  Grip' /\ ReceiptPinsContent'
    <2>1. /\ intent # None /\ intent'.revision >= intent.revision /\ intent'.revision \in Nat
          /\ intent'.from = intent.from /\ intent'.state = "delivered" /\ receipt' = receipt
      BY <1>1, <1>8, AckRow DEF SameResult, Coherent, IntentRows
    <2>2. Grip'
      BY <2>1, <1>1, <1>2, <1>3 DEF Grip
    <2> QED  BY <2>1, <2>2, <1>1 DEF ReceiptPinsContent
  <1>9. ASSUME NEW e \in Facts, mint_delivery_for_attached_terminal(e) PROVE Grip' /\ ReceiptPinsContent'
    <2>1. receipt' = receipt
      BY <1>1, <1>9, MintRow
    <2>2. ReceiptPinsContent'
      BY <2>1, <1>1 DEF ReceiptPinsContent
    <2>3. CASE intent' = intent
      BY <2>1, <2>3, <1>1 DEF Grip, ReceiptPinsContent
    <2>4. CASE intent = None
      BY <2>1, <2>4, <1>2 DEF Grip, ReceiptPinsContent
    <2>5. CASE intent # None /\ intent' = supersede_intent(intent, e)
      <3>1. intent'.revision = intent.revision + 1 /\ intent'.state = "ready"
        BY <2>5, <1>3, SupersededRow
      <3>2. Grip'
        BY <2>1, <2>5, <3>1, <1>1, <1>2, <1>3 DEF Grip
      <3> QED  BY <2>2, <3>2
    <2> QED  BY <2>3, <2>4, <2>5, <1>1, <1>9, MintRow
  <1> QED  BY <1>1, <1>4, <1>5, <1>6, <1>7, <1>8, <1>9, StepKinds

LEMMA LedgerStep ==
  ASSUME IInv, [Next]_vars
  PROVE  Ledger' /\ CreditIsEarned'
  <1>1. TypeOK /\ SpineInv /\ Grip /\ Ledger /\ CreditIsEarned
    BY DEF IInv
  <1>2. ASSUME intent # None, SameResult(intent, intent'), credits' = credits
        PROVE  Ledger' /\ CreditIsEarned'
    BY <1>1, <1>2, RowIsThere DEF SameResult, Ledger, CreditIsEarned
  <1>3. CASE Quiet
    BY <1>1, <1>3 DEF Quiet, Ledger, CreditIsEarned
  <1>4. CASE Moved
    BY <1>2, <1>4 DEF Moved
  <1>5. ASSUME NEW p \in Procs, Claimed(p) PROVE Ledger' /\ CreditIsEarned'
    BY <1>2, <1>5 DEF Claimed
  <1>6. ASSUME NEW p \in Procs, resolve_claim_key_replay(p) PROVE Ledger' /\ CreditIsEarned'
    BY <1>1, <1>6 DEF resolve_claim_key_replay, Ledger, CreditIsEarned
  <1>7. ASSUME NEW p \in Procs, NEW pinned \in BOOLEAN, ack_delivered(p, pinned)
        PROVE  Ledger' /\ CreditIsEarned'
    <2>1. /\ receipt[p] # None /\ intent # None /\ SameResult(intent, intent')
          /\ receipt[p].attempt \notin intent.acks
          /\ intent'.acks = intent.acks \cup {receipt[p].attempt}
      BY <1>1, <1>7, AckRow
    <2>2. intent' # None
      BY <2>1, RowIsThere DEF SameResult
    <2> DEFINE same == {c \in credits : c.attempt = receipt[p].attempt}
               w == pinned => receipt[p].from = intent.from
    <2>3. 1 + Cardinality(same) = 1
      <3>1. same = {}
        BY <2>1, <1>1 DEF Ledger
      <3>2. Cardinality({}) = 0
        BY FS_EmptySet
      <3> QED  BY <3>1, <3>2
    <2>4. w = TRUE
      <3>1. pinned => receipt[p].revision = intent.revision
        BY <1>7 DEF ack_delivered, AckAdmitted, Expected
      <3> QED  BY <3>1, <2>1, <1>1 DEF Grip
    <2>5. credits' = credits \cup {[attempt |-> receipt[p].attempt, nth |-> 1 + Cardinality(same), earned |-> w]}
      BY <1>7 DEF ack_delivered
    <2> HIDE DEF same, w
    <2>6. credits' = credits \cup {[attempt |-> receipt[p].attempt, nth |-> 1, earned |-> TRUE]}
      BY <2>3, <2>4, <2>5
    <2>7. Ledger'
      BY <2>1, <2>2, <2>6, <1>1 DEF Ledger
    <2>8. CreditIsEarned'
      BY <2>6, <1>1 DEF CreditIsEarned
    <2> QED  BY <2>7, <2>8
  <1>8. ASSUME NEW e \in Facts, mint_delivery_for_attached_terminal(e) PROVE Ledger' /\ CreditIsEarned'
    <2>1. credits' = credits
      BY <1>1, <1>8, MintRow
    <2>2. CreditIsEarned'
      BY <2>1, <1>1 DEF CreditIsEarned
    <2>3. CASE intent' = intent
      BY <2>1, <2>2, <2>3, <1>1 DEF Ledger
    <2>4. CASE intent = None /\ intent' = NewIntent(e)
      <3>1. credits' = {}
        BY <2>1, <2>4, <1>1 DEF Ledger
      <3> QED  BY <3>1, <2>2 DEF Ledger
    <2>5. CASE intent # None /\ intent' = supersede_intent(intent, e)
      <3>1. intent'.acks = intent.acks /\ intent' # None
        <4>1. Coherent(intent') /\ intent'.acks = intent.acks
          BY <2>5, <1>1, TypedIntent, SupersededRow
        <4> QED  BY <4>1, RowIsThere
      <3> QED  BY <2>1, <2>2, <3>1, <1>1 DEF Ledger
    <2> QED  BY <2>3, <2>4, <2>5, <1>1, <1>8, MintRow
  <1> QED  BY <1>1, <1>3, <1>4, <1>5, <1>6, <1>7, <1>8, StepKinds

LEMMA NextIInv == IInv /\ [Next]_vars => IInv'
  <1> SUFFICES ASSUME IInv, [Next]_vars PROVE IInv'
    OBVIOUS
  <1>1. TypeOK /\ SpineInv
    BY DEF IInv
  <1>2. TypeOK'
    BY <1>1, TypeStep
  <1>3. SpineInv'
    BY <1>1, StepMovesSpine, SpineKeeps
  <1> QED  BY <1>2, <1>3, TellsStep, ReplacementStep, GripStep, LedgerStep DEF IInv

-------------------------------------------------------------------------------
LEMMA Invariance == Spec => []IInv
  BY InitIInv, NextIInv, PTL DEF Spec

(* Every reachable state of the spine and of the delivery is well typed,    *)
(* for any facts, processes and faults.                                     *)
THEOREM TypeCorrect == Spec => []TypeOK
  <1>1. IInv => TypeOK
    BY DEF IInv
  <1> QED  BY <1>1, Invariance, PTL

(* What the projection of an attached session has shown it never takes      *)
(* back, whatever facts arrive in whatever order with disconnects between   *)
(* them (ingest_harness_session_event, mark_harness_session_connection).    *)
THEOREM SessionNeverWalksBackward == Spec => []NeverWalksBackward
  <1>1. IInv => NeverWalksBackward
    BY SpineTyped DEF IInv
  <1> QED  BY <1>1, Invariance, PTL

(* Of two terminal facts that contradict each other the projection picks    *)
(* none, unless one is older than the row (ingest_harness_session_event).   *)
THEOREM NoWinnerIsGuessed == Spec => []NeverGuessesAWinner
  <1>1. IInv => NeverGuessesAWinner
    BY DEF IInv, SpineInv
  <1> QED  BY <1>1, Invariance, PTL

(* The requester is offered the outcome the spine has recorded, whichever   *)
(* facts are replayed and whenever their mints come                         *)
(* (mint_delivery_for_attached_terminal).                                   *)
THEOREM OfferTellsTheTerminal == Spec => []IntentTellsTheTerminal
  <1>1. IInv => IntentTellsTheTerminal
    BY DEF IInv
  <1> QED  BY <1>1, Invariance, PTL

(* A result that was corrected is never offered again (the guard on         *)
(* result_revision in mint_delivery_for_attached_terminal, and the floor    *)
(* that supersede_intent sets).                                             *)
THEOREM CorrectionsStand == Spec => []ReplacedStaysReplaced
  <1>1. IInv => ReplacedStaysReplaced
    BY DEF IInv, Replacement, ReplacedStaysReplaced
  <1> QED  BY <1>1, Invariance, PTL

(* Receipts of one attempt show one result (resolve_claim_key_replay,       *)
(* transition_to_claimed).                                                  *)
THEOREM ReceiptsPinContent == Spec => []ReceiptPinsContent
  <1>1. IInv => ReceiptPinsContent
    BY DEF IInv
  <1> QED  BY <1>1, Invariance, PTL

(* A receipt is credited at most once, and with its revision only for the   *)
(* result it shows (ack_delivered).                                         *)
THEOREM CreditsAreEarned == Spec => []CreditIsEarned
  <1>1. IInv => CreditIsEarned
    BY DEF IInv
  <1> QED  BY <1>1, Invariance, PTL

(* While terminal facts contradict each other the offered result is frozen, *)
(* although a mint that passed the gate earlier may still be on its way     *)
(* (mint_delivery_for_attached_terminal).                                   *)
THEOREM ConflictsFreeze == Spec => ConflictFreezesTheResult
  <1>1. IInv /\ [Next]_vars =>
          [session.state = "inconsistent_reconciling" /\ intent' # intent =>
             intent # None /\ intent'.from = intent.from]_vars
    <2> SUFFICES ASSUME IInv, [Next]_vars, session.state = "inconsistent_reconciling", intent' # intent
                 PROVE  intent # None /\ intent'.from = intent.from
      OBVIOUS
    <2>1. TypeOK
      BY DEF IInv
    <2>2. \A e \in Facts : ~StillCanonical(e)
      BY DEF StillCanonical, Outcomes
    <2> QED  BY <2>1, <2>2, ResultStays, MintRow
  <1> QED  BY <1>1, Invariance, PTL DEF Spec, ConflictFreezesTheResult

-------------------------------------------------------------------------------
(* The abstract hand-over: what the map makes of the rows, and each of its  *)
(* steps in these terms.                                                    *)

OfferBar == IF intent = None THEN {} ELSE {intent.from}
NumberBar == IF intent = None THEN 0 ELSE intent.attempts
StatusBar == IF intent = None THEN "idle" ELSE Status(intent)
SettledBar == IF intent = None THEN {} ELSE intent.acks

ShownBar(r) == IF r = None THEN {} ELSE {[number |-> r.attempt, results |-> {r.from}]}
ShowingBar == [p \in Procs |-> ShownBar(receipt[p])]

Handing == <<OfferBar, replaced, NumberBar, StatusBar, ShowingBar, SettledBar>>

LEMMA MappedInit ==
  ASSUME session.terminal = None, session.conflicting = None,
         OfferBar = {}, replaced = {}, NumberBar = 0, StatusBar = "idle", SettledBar = {},
         ShowingBar = [p \in Procs |-> {}]
  PROVE  HandOver!Init
  BY DEF HandOver!Init, OfferBar, NumberBar, StatusBar, ShowingBar, ShownBar, SettledBar

LEMMA MappedStutter ==
  ASSUME session'.terminal = session.terminal,
         session'.conflicting # None <=> session.conflicting # None,
         UNCHANGED Handing
  PROVE  UNCHANGED HandOver!hvars
  BY DEF HandOver!hvars, HandOver!judgement, HandOver!handing, Handing,
         OfferBar, NumberBar, StatusBar, ShowingBar, ShownBar, SettledBar

LEMMA MappedDecide ==
  ASSUME NEW v,
         session.terminal = None, session'.terminal = v,
         session'.conflicting = session.conflicting,
         UNCHANGED Handing
  PROVE  HandOver!Decide(v)
  BY DEF HandOver!Decide, HandOver!handing, Handing,
         OfferBar, NumberBar, StatusBar, ShowingBar, ShownBar, SettledBar

LEMMA MappedDispute ==
  ASSUME session.terminal # None, session.conflicting = None,
         session'.terminal = session.terminal, session'.conflicting # None,
         UNCHANGED Handing
  PROVE  HandOver!Dispute
  BY DEF HandOver!Dispute, HandOver!handing, Handing,
         OfferBar, NumberBar, StatusBar, ShowingBar, ShownBar, SettledBar

LEMMA MappedOffer ==
  ASSUME NEW r \in Facts, UNCHANGED session,
         session.conflicting = None, session.terminal = Fact[r].outcome,
         r \notin OfferBar \cup replaced,
         OfferBar' = {r}, replaced' = replaced \cup OfferBar, StatusBar' = "idle",
         UNCHANGED <<NumberBar, ShowingBar, SettledBar>>
  PROVE  HandOver!Offer(r)
  BY DEF HandOver!Offer, HandOver!judgement,
         OfferBar, NumberBar, StatusBar, ShowingBar, ShownBar, SettledBar

LEMMA MappedHandOut ==
  ASSUME NEW p \in Procs, UNCHANGED session,
         OfferBar # {}, StatusBar # "done", ShowingBar[p] = {},
         StatusBar' = "out", NumberBar' = NumberBar + 1,
         \/ ShowingBar' = ShowingBar
         \/ ShowingBar' = [ShowingBar EXCEPT ![p] = {[number |-> NumberBar', results |-> OfferBar']}],
         UNCHANGED <<OfferBar, replaced, SettledBar>>
  PROVE  HandOver!HandOut(p)
  BY DEF HandOver!HandOut, HandOver!Shown, HandOver!judgement,
         OfferBar, NumberBar, StatusBar, ShowingBar, ShownBar, SettledBar

LEMMA MappedShowAgain ==
  ASSUME NEW p \in Procs, UNCHANGED session,
         StatusBar = "out", ShowingBar[p] = {},
         ShowingBar' = [ShowingBar EXCEPT ![p] = {[number |-> NumberBar, results |-> OfferBar]}],
         UNCHANGED <<OfferBar, replaced, NumberBar, StatusBar, SettledBar>>
  PROVE  HandOver!ShowAgain(p)
  BY DEF HandOver!ShowAgain, HandOver!Shown, HandOver!judgement,
         OfferBar, NumberBar, StatusBar, ShowingBar, ShownBar, SettledBar

LEMMA MappedSettle ==
  ASSUME NEW p \in Procs, UNCHANGED session,
         StatusBar = "out", StatusBar' = "done",
         NEW s \in ShowingBar[p], s.number \notin SettledBar,
         SettledBar' = SettledBar \cup {s.number},
         UNCHANGED <<OfferBar, replaced, NumberBar, ShowingBar>>
  PROVE  HandOver!Settle(p)
  BY DEF HandOver!Settle, HandOver!judgement,
         OfferBar, NumberBar, StatusBar, ShowingBar, ShownBar, SettledBar

LEMMA MappedGiveBack ==
  ASSUME NEW p \in Procs, UNCHANGED session,
         ShowingBar' = [ShowingBar EXCEPT ![p] = {}],
         StatusBar' = StatusBar \/ (StatusBar = "out" /\ StatusBar' = "idle"),
         UNCHANGED <<OfferBar, replaced, NumberBar, SettledBar>>
  PROVE  HandOver!GiveBack(p)
  BY DEF HandOver!GiveBack, HandOver!TakeBack, HandOver!judgement,
         OfferBar, NumberBar, StatusBar, ShowingBar, ShownBar, SettledBar

LEMMA MappedExpire ==
  ASSUME UNCHANGED session, StatusBar = "out", StatusBar' = "idle",
         UNCHANGED <<OfferBar, replaced, NumberBar, ShowingBar, SettledBar>>
  PROVE  HandOver!Expire
  BY DEF HandOver!Expire, HandOver!TakeBack, HandOver!judgement,
         OfferBar, NumberBar, StatusBar, ShowingBar, ShownBar, SettledBar

LEMMA MappedDismiss ==
  ASSUME UNCHANGED session, OfferBar # {}, StatusBar # "done", StatusBar' = "done",
         UNCHANGED <<OfferBar, replaced, NumberBar, ShowingBar, SettledBar>>
  PROVE  HandOver!Dismiss
  BY DEF HandOver!Dismiss, HandOver!judgement,
         OfferBar, NumberBar, StatusBar, ShowingBar, ShownBar, SettledBar

-------------------------------------------------------------------------------
(* Each step, under the map. *)

LEMMA RowBars ==
  /\ intent # None => /\ OfferBar = {intent.from} /\ NumberBar = intent.attempts
                      /\ StatusBar = Status(intent) /\ SettledBar = intent.acks
  /\ intent = None => OfferBar = {} /\ NumberBar = 0 /\ StatusBar = "idle" /\ SettledBar = {}
  /\ \A p \in Procs : ShowingBar[p] = ShownBar(receipt[p])
  BY DEF OfferBar, NumberBar, StatusBar, SettledBar, ShowingBar

NextRowBars == intent # None => /\ OfferBar = {intent.from} /\ NumberBar = intent.attempts
                                /\ StatusBar = Status(intent) /\ SettledBar = intent.acks

LEMMA RowBarsNext == NextRowBars'
  <1>1. NextRowBars
    BY RowBars DEF NextRowBars
  <1> QED  BY <1>1, PTL

LEMMA StatusFacts ==
  ASSUME NEW i \in IntentRows
  PROVE  /\ Status(i) = "out" <=> i.state = "requester_queued"
         /\ Status(i) = "done" <=> i.state \in {"delivered", "dismissed"}
         /\ Status(i) = "idle" <=> i.state \in {"ready", "blocked", "retrying"}
         /\ Status(i) \in {"out", "done", "idle"}
  BY DEF Status, IntentRows, IntentStates

(* A step of the row that keeps the result and the count of attempts. *)
LEMMA SameResultBars ==
  ASSUME intent # None, Coherent(intent), SameResult(intent, intent'),
         intent'.attempts = intent.attempts, intent'.acks = intent.acks
  PROVE  /\ OfferBar' = OfferBar /\ OfferBar # {} /\ NumberBar' = NumberBar /\ SettledBar' = SettledBar
         /\ StatusBar = Status(intent) /\ StatusBar' = Status(intent')
  <1>1. intent' # None
    BY NoneAssumption DEF SameResult, Coherent
  <1> QED  BY <1>1, RowBars, RowBarsNext DEF SameResult, NextRowBars

(* One entry of the receipts changes, and so does one of what is shown. *)
LEMMA ReceiptBars ==
  /\ receipt' = receipt => ShowingBar' = ShowingBar
  /\ \A p \in Procs : \A r :
       receipt \in [Procs -> Held] /\ receipt' = [receipt EXCEPT ![p] = r] =>
         ShowingBar' = [ShowingBar EXCEPT ![p] = ShownBar(r)]
  BY DEF ShowingBar

LEMMA ReleasedState ==
  ASSUME NEW i \in IntentRows
  PROVE  \/ release_expired(i) = i
         \/ i.state = "requester_queued" /\ release_expired(i).state = "ready"
  BY DEF release_expired, IntentRows

LEMMA RearmedState ==
  ASSUME NEW i \in IntentRows
  PROVE  \/ rearm_blocked(i) = i
         \/ i.state = "blocked" /\ rearm_blocked(i).state = "ready"
  BY DEF rearm_blocked, IntentRows

LEMMA MintOffers ==
  ASSUME IInv, NEW e \in Facts, mint_delivery_for_attached_terminal(e)
  PROVE  HandOver!Offer(e) \/ UNCHANGED HandOver!hvars
  <1>1. TypeOK /\ SpineInv /\ UNCHANGED <<session, receipt>> /\ ShowingBar' = ShowingBar
    BY MintRow, ReceiptBars DEF IInv
  <1>2. IInv'
    BY NextIInv DEF Next
  <1>3. CASE intent' = intent /\ replaced' = replaced
    <2>1. UNCHANGED Handing
      BY <1>1, <1>3 DEF Handing, OfferBar, NumberBar, StatusBar, SettledBar
    <2> QED  BY <1>1, <2>1, MappedStutter
  <1>4. ASSUME StillCanonical(e), intent' # None, intent'.from = e, e \notin OfferBar,
               replaced' = replaced \cup OfferBar, StatusBar' = "idle",
               NumberBar' = NumberBar, SettledBar' = SettledBar
        PROVE  HandOver!Offer(e)
    <2>1. session.conflicting = None
      BY <1>1, <1>4 DEF StillCanonical, SpineInv, Sound, Outcomes
    <2>2. Fact[e].outcome = session.terminal /\ e \notin replaced
      BY <1>1, <1>2, <1>4 DEF IInv, IntentTellsTheTerminal, Replacement
    <2>3. OfferBar' = {e}
      BY <1>4, RowBarsNext DEF NextRowBars
    <2> QED  BY <1>1, <1>4, <2>1, <2>2, <2>3, MappedOffer
  <1>5. CASE StillCanonical(e) /\ intent = None /\ intent' = NewIntent(e) /\ replaced' = replaced
    <2>1. /\ intent' # None /\ intent'.from = e /\ intent'.attempts = 0 /\ intent'.acks = {}
          /\ intent'.state = "ready" /\ intent' \in IntentRows
      BY <1>5, NewRow, RowIsThere DEF NewIntent, Coherent
    <2>2. StatusBar' = "idle" /\ NumberBar' = 0 /\ SettledBar' = {}
      BY <2>1, RowBarsNext, StatusFacts DEF NextRowBars
    <2> QED  BY <1>4, <1>5, <2>1, <2>2, RowBars
  <1>6. CASE /\ StillCanonical(e) /\ intent # None
             /\ Fact[intent.from].payload # Fact[e].payload
             /\ intent' = supersede_intent(intent, e)
             /\ replaced' = replaced \cup {intent.from}
    <2>1. Coherent(intent)
      BY <1>1, <1>6, TypedIntent
    <2>2. /\ intent' # None /\ intent'.from = e /\ intent'.attempts = intent.attempts
          /\ intent'.acks = intent.acks /\ intent'.state = "ready" /\ intent' \in IntentRows
      BY <1>6, <2>1, SupersededRow, RowIsThere DEF Coherent
    <2>3. StatusBar' = "idle" /\ NumberBar' = NumberBar /\ SettledBar' = SettledBar
      BY <1>6, <2>2, RowBars, RowBarsNext, StatusFacts DEF NextRowBars
    <2>4. OfferBar = {intent.from} /\ e # intent.from
      BY <1>6, RowBars
    <2> QED  BY <1>4, <1>6, <2>2, <2>3, <2>4
  <1> QED  BY <1>1, <1>3, <1>5, <1>6, MintRow

(* A receipt is never mistaken for its absence. *)
LEMMA ReceiptIsThere ==
  ASSUME NEW i, Coherent(i)
  PROVE  Receipt(i) # None
  BY NoneAssumption DEF Receipt, Receipts, Coherent, IntentRows

LEMMA ClaimHandsOut ==
  ASSUME TypeOK, NEW p \in Procs, claim_ready_delivery(p)
  PROVE  HandOver!HandOut(p)
  <1> DEFINE i == release_expired(intent)
             j == transition_to_claimed(i)
  <1>1. intent # None /\ Coherent(intent) /\ intent \in IntentRows /\ receipt[p] = None
    BY TypedIntent DEF claim_ready_delivery, Coherent
  <1>2. SameResult(intent, i) /\ i.attempts = intent.attempts /\ i.acks = intent.acks
    BY <1>1, ReleaseRow
  <1>3. /\ SameResult(i, j) /\ j.attempts = i.attempts + 1 /\ j.acks = i.acks
        /\ j.state = "requester_queued" /\ j \in IntentRows /\ j # None
        /\ Receipt(j) = [attempt |-> j.attempts, revision |-> j.revision, from |-> i.from]
    BY <1>2, ClaimRow, NoneAssumption DEF SameResult, Coherent
  <1>4. /\ intent' = j /\ UNCHANGED <<session, replaced>> /\ claimable_state(i)
        /\ receipt' = receipt \/ receipt' = [receipt EXCEPT ![p] = Receipt(intent')]
    BY DEF claim_ready_delivery, spine
  <1>5. i = intent \/ intent.state = "requester_queued"
    BY <1>1, ReleasedState
  <1> HIDE DEF i, j
  <1>6. intent.state \notin {"delivered", "dismissed"}
    BY <1>4, <1>5 DEF claimable_state
  <1>7. /\ OfferBar = {intent.from} /\ NumberBar = intent.attempts
        /\ StatusBar = Status(intent) /\ SettledBar = intent.acks /\ ShowingBar[p] = {}
    BY <1>1, RowBars DEF ShownBar
  <1>8. /\ OfferBar' = {j.from} /\ NumberBar' = j.attempts
        /\ StatusBar' = Status(j) /\ SettledBar' = j.acks
    BY <1>3, <1>4, RowBarsNext DEF NextRowBars
  <1>9. StatusBar # "done" /\ StatusBar' = "out"
    BY <1>1, <1>3, <1>6, <1>7, <1>8, StatusFacts
  <1>10. j.from = intent.from /\ j.acks = intent.acks /\ j.attempts = intent.attempts + 1
    BY <1>2, <1>3 DEF SameResult
  <1>11. /\ ShowingBar' = ShowingBar
         \/ ShowingBar' = [ShowingBar EXCEPT ![p] = {[number |-> NumberBar', results |-> OfferBar']}]
    <2>1. CASE receipt' = receipt
      BY <2>1, ReceiptBars
    <2>2. CASE receipt' = [receipt EXCEPT ![p] = Receipt(intent')]
      <3>1. ShowingBar' = [ShowingBar EXCEPT ![p] = ShownBar(Receipt(j))]
        BY <1>4, <2>2, ReceiptBars DEF TypeOK, Held
      <3>2. Receipt(j) # None
        BY <1>2, <1>3, ReceiptIsThere DEF SameResult
      <3>3. ShownBar(Receipt(j)) = {[number |-> j.attempts, results |-> {j.from}]}
        BY <1>2, <1>3, <3>2 DEF ShownBar, SameResult
      <3> QED  BY <3>1, <3>3, <1>8
    <2> QED  BY <1>4, <2>1, <2>2
  <1> QED  BY <1>4, <1>7, <1>8, <1>9, <1>10, <1>11, MappedHandOut

LEMMA ReplayShowsAgain ==
  ASSUME TypeOK, NEW p \in Procs, resolve_claim_key_replay(p)
  PROVE  HandOver!ShowAgain(p)
  <1>1. /\ intent # None /\ receipt[p] = None /\ intent.state = "requester_queued"
        /\ receipt' = [receipt EXCEPT ![p] = Receipt(intent)]
        /\ UNCHANGED <<session, intent, replaced>>
    BY DEF resolve_claim_key_replay, spine
  <1>2. /\ OfferBar = {intent.from} /\ NumberBar = intent.attempts
        /\ StatusBar = "out" /\ ShowingBar[p] = {}
    BY <1>1, RowBars, TypedIntent, StatusFacts DEF ShownBar, Coherent
  <1>3. UNCHANGED <<OfferBar, replaced, NumberBar, StatusBar, SettledBar>>
    BY <1>1 DEF OfferBar, NumberBar, StatusBar, SettledBar
  <1>4. ShowingBar' = [ShowingBar EXCEPT ![p] = ShownBar(Receipt(intent))]
    BY <1>1, ReceiptBars DEF TypeOK, Held
  <1>5. ShownBar(Receipt(intent)) = {[number |-> NumberBar, results |-> OfferBar]}
    BY <1>1, <1>2, ReceiptIsThere, TypedIntent DEF ShownBar, Receipt
  <1> QED  BY <1>1, <1>2, <1>3, <1>4, <1>5, MappedShowAgain

LEMMA AckSettles ==
  ASSUME TypeOK, NEW p \in Procs, NEW pinned \in BOOLEAN, ack_delivered(p, pinned)
  PROVE  HandOver!Settle(p)
  <1> DEFINE s == [number |-> receipt[p].attempt, results |-> {receipt[p].from}]
  <1>1. /\ receipt[p] # None /\ intent # None /\ SameResult(intent, intent')
        /\ receipt[p].attempt \notin intent.acks
        /\ intent'.acks = intent.acks \cup {receipt[p].attempt}
        /\ intent'.attempts = intent.attempts /\ intent'.state = "delivered"
        /\ UNCHANGED <<receipt, replaced>>
    BY AckRow
  <1>2. intent.state = "requester_queued" /\ UNCHANGED session
    BY DEF ack_delivered, AckAdmitted, spine
  <1>3. intent \in IntentRows /\ intent' \in IntentRows /\ intent' # None
    BY <1>1, TypedIntent, NoneAssumption DEF SameResult, Coherent
  <1>4. /\ StatusBar = "out" /\ SettledBar = intent.acks
        /\ s \in ShowingBar[p] /\ s.number = receipt[p].attempt
    BY <1>1, <1>2, <1>3, RowBars, StatusFacts DEF ShownBar
  <1>5. /\ StatusBar' = "done" /\ SettledBar' = SettledBar \cup {s.number}
        /\ UNCHANGED <<OfferBar, NumberBar>>
    BY <1>1, <1>3, <1>4, RowBars, RowBarsNext, StatusFacts DEF NextRowBars, SameResult
  <1>6. ShowingBar' = ShowingBar
    BY <1>1, ReceiptBars
  <1> HIDE DEF s
  <1> QED  BY <1>1, <1>2, <1>4, <1>5, <1>6, MappedSettle

LEMMA DropGivesBack ==
  ASSUME TypeOK, NEW p \in Procs, MoveOn(p) \/ ProcessDies(p)
  PROVE  HandOver!GiveBack(p)
  <1>1. /\ receipt' = [receipt EXCEPT ![p] = None] /\ UNCHANGED <<session, intent, replaced>>
    BY DEF MoveOn, ProcessDies, spine
  <1>2. ShowingBar' = [ShowingBar EXCEPT ![p] = {}]
    BY <1>1, ReceiptBars DEF TypeOK, Held, ShownBar
  <1>3. UNCHANGED <<OfferBar, replaced, NumberBar, StatusBar, SettledBar>>
    BY <1>1 DEF OfferBar, NumberBar, StatusBar, SettledBar
  <1> QED  BY <1>1, <1>2, <1>3, MappedGiveBack

LEMMA RejectGivesBack ==
  ASSUME TypeOK, NEW p \in Procs, NEW pinned \in BOOLEAN, NEW retryable \in BOOLEAN,
         reject_or_block(p, pinned, retryable)
  PROVE  HandOver!GiveBack(p)
  <1>1. /\ intent # None /\ SameResult(intent, intent')
        /\ intent'.attempts = intent.attempts /\ intent'.acks = intent.acks
        /\ replaced' = replaced
    BY RejectMoves DEF Moved
  <1>2. /\ intent.state = "requester_queued" /\ receipt' = [receipt EXCEPT ![p] = None]
        /\ UNCHANGED session
        /\ intent' = [intent EXCEPT !.state = IF retryable THEN "retrying" ELSE "blocked",
                                    !.revision = intent.revision + 1, !.lapsed = FALSE]
    BY DEF reject_or_block, spine
  <1>3. Coherent(intent) /\ intent \in IntentRows /\ intent' \in IntentRows
    BY <1>1, TypedIntent DEF SameResult, Coherent
  <1>4. intent'.state \in {"retrying", "blocked"}
    BY <1>2, <1>3 DEF IntentRows
  <1>5. StatusBar = "out" /\ StatusBar' = "idle" /\ UNCHANGED <<OfferBar, NumberBar, SettledBar>>
    BY <1>1, <1>2, <1>3, <1>4, SameResultBars, StatusFacts
  <1>6. ShowingBar' = [ShowingBar EXCEPT ![p] = {}]
    BY <1>2, ReceiptBars DEF TypeOK, Held, ShownBar
  <1> QED  BY <1>1, <1>2, <1>5, <1>6, MappedGiveBack

LEMMA ResumeExpires ==
  ASSUME TypeOK, NEW rearm \in BOOLEAN, resume_requester_operation(rearm)
  PROVE  HandOver!Expire \/ UNCHANGED HandOver!hvars
  <1> DEFINE i == release_expired(intent)
             j == rearm_blocked(i)
  <1>1. /\ intent # None /\ SameResult(intent, intent')
        /\ intent'.attempts = intent.attempts /\ intent'.acks = intent.acks
    BY ResumeMoves DEF Moved
  <1>2. /\ intent' = i \/ intent' = j
        /\ UNCHANGED <<session, receipt, replaced>>
    BY DEF resume_requester_operation, spine
  <1>3. Coherent(intent) /\ intent \in IntentRows /\ intent' \in IntentRows
    BY <1>1, TypedIntent DEF SameResult, Coherent
  <1>4. SameResult(intent, i) /\ i \in IntentRows
    BY <1>3, ReleaseRow DEF SameResult, Coherent
  <1>5. i = intent \/ (intent.state = "requester_queued" /\ i.state = "ready")
    BY <1>3, ReleasedState
  <1>6. j = i \/ (i.state = "blocked" /\ j.state = "ready")
    BY <1>4, RearmedState
  <1> HIDE DEF i, j
  <1>7. \/ Status(intent') = Status(intent)
        \/ Status(intent) = "out" /\ Status(intent') = "idle"
    BY <1>2, <1>3, <1>4, <1>5, <1>6, StatusFacts
  <1>8. /\ UNCHANGED <<OfferBar, NumberBar, SettledBar>>
        /\ StatusBar = Status(intent) /\ StatusBar' = Status(intent')
    BY <1>1, <1>3, SameResultBars
  <1>9. ShowingBar' = ShowingBar
    BY <1>2, ReceiptBars
  <1>10. CASE Status(intent') = Status(intent)
    BY <1>2, <1>8, <1>9, <1>10, MappedStutter DEF Handing
  <1>11. CASE Status(intent) = "out" /\ Status(intent') = "idle"
    BY <1>2, <1>8, <1>9, <1>11, MappedExpire
  <1> QED  BY <1>7, <1>10, <1>11

LEMMA DismissDismisses ==
  ASSUME TypeOK, dismiss_delivery
  PROVE  HandOver!Dismiss
  <1>1. /\ intent # None /\ SameResult(intent, intent')
        /\ intent'.attempts = intent.attempts /\ intent'.acks = intent.acks
    BY DismissMoves DEF Moved
  <1>2. /\ intent.state \notin {"delivered", "dismissed"}
        /\ UNCHANGED <<session, receipt, replaced>>
        /\ intent' = [intent EXCEPT !.state = "dismissed", !.revision = intent.revision + 1,
                                    !.lapsed = FALSE, !.due = FALSE]
    BY DEF dismiss_delivery, spine
  <1>3. Coherent(intent) /\ intent \in IntentRows /\ intent' \in IntentRows
    BY <1>1, TypedIntent DEF SameResult, Coherent
  <1>4. intent'.state = "dismissed"
    BY <1>2, <1>3 DEF IntentRows
  <1>5. /\ StatusBar # "done" /\ StatusBar' = "done" /\ OfferBar # {}
        /\ UNCHANGED <<OfferBar, NumberBar, SettledBar>>
    BY <1>1, <1>2, <1>3, <1>4, SameResultBars, StatusFacts
  <1>6. ShowingBar' = ShowingBar
    BY <1>2, ReceiptBars
  <1> QED  BY <1>2, <1>5, <1>6, MappedDismiss

LEMMA TimeStutters ==
  ASSUME TypeOK, LeaseRunsOut \/ RetryComesDue
  PROVE  UNCHANGED HandOver!hvars
  <1>1. /\ intent # None /\ SameResult(intent, intent')
        /\ intent'.attempts = intent.attempts /\ intent'.acks = intent.acks
    BY TimeMoves DEF Moved
  <1>2. /\ intent' = [intent EXCEPT !.lapsed = TRUE] \/ intent' = [intent EXCEPT !.due = TRUE]
        /\ UNCHANGED <<session, receipt, replaced>>
    BY DEF LeaseRunsOut, RetryComesDue, spine
  <1>3. Coherent(intent) /\ intent \in IntentRows
    BY <1>1, TypedIntent DEF Coherent
  <1>4. intent'.state = intent.state
    BY <1>2, <1>3 DEF IntentRows
  <1>5. UNCHANGED <<OfferBar, NumberBar, SettledBar, StatusBar>>
    BY <1>1, <1>3, <1>4, SameResultBars DEF Status
  <1>6. ShowingBar' = ShowingBar
    BY <1>2, ReceiptBars
  <1> QED  BY <1>2, <1>5, <1>6, MappedStutter DEF Handing

(* The first terminal fact is the verdict, and the first that contradicts   *)
(* it the dispute. *)
LEMMA FactJudges ==
  ASSUME SpineInv, NEW e \in Facts, ingest_harness_session_event(e), UNCHANGED delivery
  PROVE  \/ \E v \in Outcomes : HandOver!Decide(v)
         \/ HandOver!Dispute
         \/ UNCHANGED HandOver!hvars
  <1> DEFINE s == session
             t == session'
             f == Fact[e]
  <1>1. Sound(s) /\ Landed(s, t, f)
    BY Ingests DEF SpineInv, ingest_harness_session_event
  <1>2. UNCHANGED Handing
    BY DEF delivery, Handing, OfferBar, NumberBar, StatusBar, ShowingBar, SettledBar
  <1>3. Kept(s, t) \/ Lifted(s, t, f) \/ FirstTerminal(s, t, f) \/ Contradicted(s, t, f)
    BY <1>1 DEF Landed
  <1>4. CASE Kept(s, t) \/ Lifted(s, t, f)
    BY <1>2, <1>4, MappedStutter DEF Kept, Lifted
  <1>5. CASE FirstTerminal(s, t, f)
    <2>1. f.outcome \in Outcomes
      BY <1>5, FactFacts DEF FirstTerminal
    <2> QED  BY <1>2, <1>5, <2>1, MappedDecide DEF FirstTerminal
  <1>6. CASE Contradicted(s, t, f)
    <2>1. t.conflicting # None
      BY <1>6, FactFacts DEF Contradicted
    <2>2. CASE s.conflicting = None
      BY <1>2, <1>6, <2>1, <2>2, MappedDispute DEF Contradicted
    <2>3. CASE s.conflicting # None
      BY <1>2, <1>6, <2>1, <2>3, MappedStutter DEF Contradicted
    <2> QED  BY <2>2, <2>3
  <1> QED  BY <1>3, <1>4, <1>5, <1>6

LEMMA StepImplements == IInv /\ [Next]_vars => [HandOver!Next]_(HandOver!hvars)
  <1> SUFFICES ASSUME IInv, [Next]_vars PROVE [HandOver!Next]_(HandOver!hvars)
    OBVIOUS
  <1>1. TypeOK /\ SpineInv
    BY DEF IInv
  <1>2. ASSUME UNCHANGED <<session, intent, receipt, replaced>> PROVE UNCHANGED HandOver!hvars
    <2>1. UNCHANGED Handing
      BY <1>2 DEF Handing, OfferBar, NumberBar, StatusBar, ShowingBar, SettledBar
    <2> QED  BY <1>2, <2>1, MappedStutter
  <1>3. ASSUME NEW e \in Facts, ReportFact(e) PROVE [HandOver!Next]_(HandOver!hvars)
    BY <1>1, <1>3, FactJudges DEF ReportFact, HandOver!Next
  <1>4. CASE ReportGone
    <2>1. /\ session'.terminal = session.terminal /\ session'.conflicting = session.conflicting
          /\ UNCHANGED delivery
      BY <1>1, <1>4 DEF ReportGone, mark_harness_session_connection, SpineInv, Sound, Rows
    <2>2. UNCHANGED Handing
      BY <2>1 DEF delivery, Handing, OfferBar, NumberBar, StatusBar, ShowingBar, SettledBar
    <2> QED  BY <2>1, <2>2, MappedStutter
  <1>5. ASSUME NEW e \in Facts, ReplayFact(e) \/ LoseMint(e) PROVE UNCHANGED HandOver!hvars
    BY <1>2, <1>5 DEF ReplayFact, LoseMint, spine, delivery
  <1>6. ASSUME NEW e \in Facts, mint_delivery_for_attached_terminal(e)
        PROVE  [HandOver!Next]_(HandOver!hvars)
    BY <1>6, MintOffers DEF HandOver!Next
  <1>7. ASSUME NEW p \in Procs, Host(p) PROVE HandOver!Next
    BY <1>1, <1>7, ClaimHandsOut, ReplayShowsAgain, AckSettles, RejectGivesBack, DropGivesBack
       DEF Host, HandOver!Next
  <1>8. ASSUME NEW rearm \in BOOLEAN, resume_requester_operation(rearm)
        PROVE  [HandOver!Next]_(HandOver!hvars)
    BY <1>1, <1>8, ResumeExpires DEF HandOver!Next
  <1>9. CASE dismiss_delivery
    BY <1>1, <1>9, DismissDismisses DEF HandOver!Next
  <1>10. CASE LeaseRunsOut \/ RetryComesDue
    BY <1>1, <1>10, TimeStutters
  <1>11. CASE UNCHANGED vars
    BY <1>2, <1>11 DEF vars, delivery
  <1> QED  BY <1>3, <1>4, <1>5, <1>6, <1>7, <1>8, <1>9, <1>10, <1>11 DEF Next

LEMMA InitImplements == Init => HandOver!Init
  <1> SUFFICES ASSUME Init PROVE HandOver!Init
    OBVIOUS
  <1>1. /\ session.terminal = None /\ session.conflicting = None
        /\ intent = None /\ replaced = {} /\ receipt = [p \in Procs |-> None]
    BY DEF Init, SpineInit, NoRow
  <1>2. OfferBar = {} /\ NumberBar = 0 /\ StatusBar = "idle" /\ SettledBar = {}
    BY <1>1, RowBars
  <1>3. ShowingBar = [p \in Procs |-> {}]
    BY <1>1 DEF ShowingBar, ShownBar
  <1> QED  BY <1>1, <1>2, <1>3, MappedInit

(* The spine, its mints and the calls of the seam are one hand-over: every  *)
(* step of theirs is one of its steps or shows nothing of itself            *)
(* (ingest_harness_session_event, mint_delivery_for_attached_terminal,      *)
(* claim_ready_delivery, ack_delivered and what lies between them).         *)
THEOREM HandOverImplemented == Spec => ImplementsHandOver
  <1> QED  BY InitImplements, StepImplements, Invariance, PTL
           DEF Spec, ImplementsHandOver, HandOver!Spec
===============================================================================
