------------------------- MODULE CampaignApi_proofs -------------------------
(***************************************************************************)
(* However many stale requests race over a campaign, the database keeps    *)
(* its row a projection of its history, and no phase is skipped.           *)
(***************************************************************************)
EXTENDS CampaignApi, TLAPS

USE DEF None

LEMMA PhaseTypes == /\ \A p, q : <<p, q>> \in Edges => p \in Phases /\ q \in Phases
                    /\ "paused" \in Phases /\ "cancelled" \in Phases /\ "discover" \in Phases
BY DEF Edges, Phases

(* What a request may commit, one case per operation. *)
LEMMA MoveCases ==
  ASSUME NEW p, NEW t, NEW m \in Moves(p, t)
  PROVE  \/ m = [to |-> "paused", target |-> p] /\ CanPause(p)
         \/ m = [to |-> "cancelled", target |-> None] /\ CanCancel(p)
         \/ m = [to |-> t, target |-> None] /\ p = "paused" /\ t # None
         \/ \E q \in Phases : m = [to |-> q, target |-> t] /\ <<p, q>> \in Edges
<1>1. CASE m \in (IF CanPause(p) THEN {[to |-> "paused", target |-> p]} ELSE {})
  BY <1>1
<1>2. CASE m \in (IF CanCancel(p) THEN {[to |-> "cancelled", target |-> None]} ELSE {})
  BY <1>2
<1>3. CASE p = "paused" /\ m \in ResumeAtTarget(p, t)
  BY <1>3 DEF ResumeAtTarget
<1>4. CASE m \in {[to |-> q, target |-> t] : q \in {q \in Phases : <<p, q>> \in Edges}}
  BY <1>4
<1> QED
  BY <1>1, <1>2, <1>3, <1>4 DEF Moves

LEMMA MoveTypes ==
  ASSUME NEW p \in Phases, NEW t \in Phases \cup {None}, NEW m \in Moves(p, t)
  PROVE  m.to \in Phases /\ m.target \in Phases \cup {None}
<1>1. CASE m = [to |-> "paused", target |-> p]
  BY <1>1, PhaseTypes
<1>2. CASE m = [to |-> "cancelled", target |-> None]
  BY <1>2, PhaseTypes
<1>3. CASE m = [to |-> t, target |-> None] /\ t # None
  BY <1>3
<1>4. CASE \E q \in Phases : m = [to |-> q, target |-> t] /\ <<p, q>> \in Edges
  BY <1>4
<1>5. \/ m = [to |-> "paused", target |-> p] /\ CanPause(p)
      \/ m = [to |-> "cancelled", target |-> None] /\ CanCancel(p)
      \/ m = [to |-> t, target |-> None] /\ p = "paused" /\ t # None
      \/ \E q \in Phases : m = [to |-> q, target |-> t] /\ <<p, q>> \in Edges
  BY MoveCases
<1> QED
  BY <1>1, <1>2, <1>3, <1>4, <1>5

(* A move leaves the phase, and nothing resumes to "paused". *)
LEMMA MoveMoves ==
  ASSUME NEW p, NEW t, t # "paused", NEW m \in Moves(p, t)
  PROVE  m.to # p /\ m.target # "paused"
<1>1. CASE m = [to |-> "paused", target |-> p] /\ CanPause(p)
  BY <1>1 DEF CanPause
<1>2. CASE m = [to |-> "cancelled", target |-> None] /\ CanCancel(p)
  BY <1>2 DEF CanCancel, Terminal
<1>3. CASE m = [to |-> t, target |-> None] /\ p = "paused" /\ t # None
  BY <1>3
<1>4. CASE \E q \in Phases : m = [to |-> q, target |-> t] /\ <<p, q>> \in Edges
  <2>1. PICK q \in Phases : m = [to |-> q, target |-> t] /\ <<p, q>> \in Edges
    BY <1>4
  <2>2. \A a, b : <<a, b>> \in Edges => a # b
    BY DEF Edges
  <2> QED
    BY <2>1, <2>2
<1>5. \/ m = [to |-> "paused", target |-> p] /\ CanPause(p)
      \/ m = [to |-> "cancelled", target |-> None] /\ CanCancel(p)
      \/ m = [to |-> t, target |-> None] /\ p = "paused" /\ t # None
      \/ \E q \in Phases : m = [to |-> q, target |-> t] /\ <<p, q>> \in Edges
  BY MoveCases
<1> QED
  BY <1>1, <1>2, <1>3, <1>4, <1>5

(* Where a move and its resume target come from. *)
LEMMA MoveTargets ==
  ASSUME NEW p, NEW t, NEW m \in Moves(p, t)
  PROVE  m.target \in {None, p, t}
<1>1. CASE m = [to |-> "paused", target |-> p] /\ CanPause(p)
  BY <1>1
<1>2. CASE m = [to |-> "cancelled", target |-> None] /\ CanCancel(p)
  BY <1>2
<1>3. CASE m = [to |-> t, target |-> None] /\ p = "paused" /\ t # None
  BY <1>3
<1>4. CASE \E q \in Phases : m = [to |-> q, target |-> t] /\ <<p, q>> \in Edges
  BY <1>4
<1>5. \/ m = [to |-> "paused", target |-> p] /\ CanPause(p)
      \/ m = [to |-> "cancelled", target |-> None] /\ CanCancel(p)
      \/ m = [to |-> t, target |-> None] /\ p = "paused" /\ t # None
      \/ \E q \in Phases : m = [to |-> q, target |-> t] /\ <<p, q>> \in Edges
  BY MoveCases
<1> QED
  BY <1>1, <1>2, <1>3, <1>4, <1>5

LEMMA MoveSources ==
  ASSUME NEW p, NEW t, NEW m \in Moves(p, t), m.to \notin {"paused", "cancelled"}
  PROVE  <<p, m.to>> \in Edges \/ (m.to = t /\ t # None)
<1>1. CASE m = [to |-> "paused", target |-> p] /\ CanPause(p)
  BY <1>1
<1>2. CASE m = [to |-> "cancelled", target |-> None] /\ CanCancel(p)
  BY <1>2
<1>3. CASE m = [to |-> t, target |-> None] /\ p = "paused" /\ t # None
  BY <1>3
<1>4. CASE \E q \in Phases : m = [to |-> q, target |-> t] /\ <<p, q>> \in Edges
  BY <1>4
<1>5. \/ m = [to |-> "paused", target |-> p] /\ CanPause(p)
      \/ m = [to |-> "cancelled", target |-> None] /\ CanCancel(p)
      \/ m = [to |-> t, target |-> None] /\ p = "paused" /\ t # None
      \/ \E q \in Phases : m = [to |-> q, target |-> t] /\ <<p, q>> \in Edges
  BY MoveCases
<1> QED
  BY <1>1, <1>2, <1>3, <1>4, <1>5

LEMMA ViewTypes ==
  /\ NothingSeen \in Views
  /\ \A v \in Views : v.phase \in Phases /\ v.target \in Phases \cup {None} /\ v.count \in Nat
  /\ \A v \in Views, n \in Nat : [v EXCEPT !.count = n] \in Views
BY PhaseTypes DEF NothingSeen, Views

LEMMA Appended ==
  ASSUME NEW S, NEW s \in Seq(S), NEW e \in S
  PROVE  /\ Append(s, e) \in Seq(S)
         /\ Len(Append(s, e)) = Len(s) + 1
         /\ Len(s) \in Nat
         /\ \A i \in 1..Len(s) : Append(s, e)[i] = s[i]
         /\ Append(s, e)[Len(s) + 1] = e
OBVIOUS

LEMMA TypeInit == Init => TypeOK
<1> SUFFICES ASSUME Init PROVE TypeOK
  OBVIOUS
<1>1. log \in Seq(Hops)
  BY DEF Init
<1>2. step \in [Requests -> {"idle", "read", "counted"}] /\ seen \in [Requests -> Views]
  BY ViewTypes DEF Init
<1>3. phase \in Phases /\ resumeTarget \in Phases \cup {None}
  BY PhaseTypes DEF Init
<1> QED
  BY <1>1, <1>2, <1>3 DEF TypeOK

LEMMA TypeNext == TypeOK /\ [Next]_vars => TypeOK'
<1> SUFFICES ASSUME TypeOK, [Next]_vars PROVE TypeOK'
  OBVIOUS
<1> USE DEF TypeOK
<1>1. ASSUME NEW r \in Requests, ReadRow(r) PROVE TypeOK'
  <2>1. [phase |-> phase, target |-> resumeTarget, count |-> 0] \in Views
    BY DEF Views
  <2> QED
    BY <1>1, <2>1 DEF ReadRow
<1>2. ASSUME NEW r \in Requests, ReadHistory(r) PROVE TypeOK'
  <2>1. Len(log) \in Nat
    OBVIOUS
  <2>2. [seen[r] EXCEPT !.count = Len(log)] \in Views
    BY <2>1, ViewTypes
  <2> QED
    BY <1>2, <2>2 DEF ReadHistory
<1>3. ASSUME NEW r \in Requests, Commit(r) PROVE TypeOK'
  <2>1. PICK m \in Moves(seen[r].phase, seen[r].target) :
          /\ log' = Append(log, [seq |-> Sequence(r), from |-> seen[r].phase, to |-> m.to])
          /\ phase' = Column(seen[r].phase, m.to, phase)
          /\ resumeTarget' = Column(seen[r].target, m.target, resumeTarget)
    BY <1>3 DEF Commit
  <2>2. seen[r].phase \in Phases /\ seen[r].target \in Phases \cup {None} /\ seen[r].count \in Nat
    BY ViewTypes
  <2>3. m.to \in Phases /\ m.target \in Phases \cup {None}
    BY <2>2, MoveTypes
  <2>4. phase' \in Phases /\ resumeTarget' \in Phases \cup {None}
    BY <2>1, <2>3 DEF Column
  <2>5. log' \in Seq(Hops)
    BY <2>1, <2>2, <2>3 DEF Hops, Sequence
  <2>6. step' \in [Requests -> {"idle", "read", "counted"}]
    BY <1>3 DEF Commit
  <2>7. seen' \in [Requests -> Views]
    BY <1>3, ViewTypes DEF Commit
  <2> QED
    BY <2>4, <2>5, <2>6, <2>7
<1>4. ASSUME NEW r \in Requests, Abandon(r) PROVE TypeOK'
  BY <1>4, ViewTypes DEF Abandon
<1>5. ASSUME UNCHANGED vars PROVE TypeOK'
  BY <1>5 DEF vars
<1> QED
  BY <1>1, <1>2, <1>3, <1>4, <1>5 DEF Next

(* Every variable of the API has its type, whatever the number of requests. *)
THEOREM TypeCorrect == Spec => []TypeOK
BY TypeInit, TypeNext, PTL DEF Spec

-----------------------------------------------------------------------------
(* The row is a projection of the history.  A request can only commit the  *)
(* number the history is waiting for: the numbers below are taken, and     *)
(* those above it never read.                                              *)

(* no request resumes to "paused": pause() is refused there *)
TargetsRun == resumeTarget # "paused" /\ \A r \in Requests : seen[r].target # "paused"

CountsBounded == \A r \in Requests : seen[r].count <= Len(log)

ProjectionInv == TypeOK /\ TargetsRun /\ CountsBounded /\ RowIsProjection

(* A commit takes the number the history is waiting for. *)
LEMMA CommitIsNext ==
  ASSUME ProjectionInv, NEW r \in Requests, Commit(r)
  PROVE  /\ seen[r].count = Len(log)
         /\ \E m \in Moves(seen[r].phase, seen[r].target) :
              /\ m.to # seen[r].phase
              /\ log' = Append(log, [seq |-> Len(log), from |-> seen[r].phase, to |-> m.to])
              /\ phase' = m.to
              /\ resumeTarget' = Column(seen[r].target, m.target, resumeTarget)
<1>1. seen[r].count \in Nat /\ Len(log) \in Nat /\ seen[r].count <= Len(log)
  BY ViewTypes DEF ProjectionInv, TypeOK, CountsBounded
<1>2. seen[r].count = Len(log)
  <2> SUFFICES ASSUME seen[r].count < Len(log) PROVE FALSE
    BY <1>1
  <2>1. seen[r].count + 1 \in 1..Len(log)
    BY <1>1
  <2>2. log[seen[r].count + 1].seq = seen[r].count
    BY <1>1, <2>1 DEF ProjectionInv, RowIsProjection
  <2> QED
    BY <2>1, <2>2 DEF Commit, SequenceFree, Sequence
<1>3. PICK m \in Moves(seen[r].phase, seen[r].target) :
        /\ log' = Append(log, [seq |-> Sequence(r), from |-> seen[r].phase, to |-> m.to])
        /\ phase' = Column(seen[r].phase, m.to, phase)
        /\ resumeTarget' = Column(seen[r].target, m.target, resumeTarget)
  BY DEF Commit
<1>4. m.to # seen[r].phase
  BY <1>3, MoveMoves DEF ProjectionInv, TargetsRun
<1> QED
  BY <1>2, <1>3, <1>4 DEF Column, Sequence

LEMMA ProjectionInit == Init => ProjectionInv
<1> SUFFICES ASSUME Init PROVE ProjectionInv
  OBVIOUS
<1>1. TypeOK
  BY TypeInit
<1>2. TargetsRun /\ CountsBounded
  BY DEF Init, TargetsRun, CountsBounded, NothingSeen
<1>3. RowIsProjection
  BY DEF Init, RowIsProjection, PhaseAfter
<1> QED
  BY <1>1, <1>2, <1>3 DEF ProjectionInv

LEMMA ProjectionNext == ProjectionInv /\ [Next]_vars => ProjectionInv'
<1> SUFFICES ASSUME ProjectionInv, [Next]_vars PROVE ProjectionInv'
  OBVIOUS
<1>1. TypeOK /\ TypeOK' /\ Len(log) \in Nat
  BY TypeNext DEF ProjectionInv, TypeOK
<1>2. ASSUME NEW r \in Requests, ReadRow(r) PROVE (TargetsRun /\ CountsBounded /\ RowIsProjection)'
  <2>1. (TargetsRun /\ CountsBounded)'
    BY <1>1, <1>2, ViewTypes DEF ReadRow, ProjectionInv, TargetsRun, CountsBounded, TypeOK
  <2> QED
    BY <1>2, <2>1 DEF ReadRow, ProjectionInv, RowIsProjection, PhaseAfter
<1>3. ASSUME NEW r \in Requests, ReadHistory(r) PROVE (TargetsRun /\ CountsBounded /\ RowIsProjection)'
  <2>1. (TargetsRun /\ CountsBounded)'
    BY <1>1, <1>3, ViewTypes DEF ReadHistory, ProjectionInv, TargetsRun, CountsBounded, TypeOK, Views
  <2> QED
    BY <1>3, <2>1 DEF ReadHistory, ProjectionInv, RowIsProjection, PhaseAfter
<1>4. ASSUME NEW r \in Requests, Commit(r) PROVE (TargetsRun /\ CountsBounded /\ RowIsProjection)'
  <2>1. PICK m \in Moves(seen[r].phase, seen[r].target) :
          /\ log' = Append(log, [seq |-> Len(log), from |-> seen[r].phase, to |-> m.to])
          /\ phase' = m.to
          /\ resumeTarget' = Column(seen[r].target, m.target, resumeTarget)
    BY <1>4, CommitIsNext
  <2>2. /\ [seq |-> Len(log), from |-> seen[r].phase, to |-> m.to] \in Hops
        /\ seen' = [seen EXCEPT ![r] = NothingSeen]
    BY <1>1, <1>4, <2>1, ViewTypes, MoveTypes DEF TypeOK, Hops, Commit
  <2>3. /\ Len(log') = Len(log) + 1
        /\ \A i \in 1..Len(log) : log'[i] = log[i]
        /\ log'[Len(log) + 1] = [seq |-> Len(log), from |-> seen[r].phase, to |-> m.to]
    BY <1>1, <2>1, <2>2 DEF TypeOK
  <2>4. CountsBounded'
    BY <1>1, <2>2, <2>3, ViewTypes DEF ProjectionInv, CountsBounded, NothingSeen, TypeOK
  <2>5. TargetsRun'
    <3>1. m.target # "paused"
      BY <2>1, MoveMoves DEF ProjectionInv, TargetsRun
    <3>2. resumeTarget' # "paused"
      BY <2>1, <3>1 DEF ProjectionInv, TargetsRun, Column
    <3> QED
      BY <1>1, <2>2, <3>2 DEF ProjectionInv, TargetsRun, NothingSeen, TypeOK
  <2>6. \A i \in 1..Len(log') : log'[i].seq = i - 1
    BY <1>1, <2>3 DEF ProjectionInv, RowIsProjection
  <2>7. phase' = PhaseAfter(log', Len(log'))
    BY <1>1, <2>1, <2>3 DEF PhaseAfter
  <2> QED
    BY <2>4, <2>5, <2>6, <2>7 DEF RowIsProjection
<1>5. ASSUME NEW r \in Requests, Abandon(r) PROVE (TargetsRun /\ CountsBounded /\ RowIsProjection)'
  <2>1. (TargetsRun /\ CountsBounded)'
    BY <1>1, <1>5 DEF Abandon, ProjectionInv, TargetsRun, CountsBounded, TypeOK, NothingSeen
  <2> QED
    BY <1>5, <2>1 DEF Abandon, ProjectionInv, RowIsProjection, PhaseAfter
<1>6. ASSUME UNCHANGED vars PROVE (TargetsRun /\ CountsBounded /\ RowIsProjection)'
  BY <1>6 DEF vars, ProjectionInv, TargetsRun, CountsBounded, RowIsProjection, PhaseAfter
<1> QED
  BY <1>1, <1>2, <1>3, <1>4, <1>5, <1>6 DEF Next, ProjectionInv

(* The row is the projection of a gapless history that its docstring       *)
(* promises, for any number of concurrent requests.                        *)
THEOREM ProjectionCorrect == Spec => []RowIsProjection
<1>1. ProjectionInv => RowIsProjection
  BY DEF ProjectionInv
<1> QED
  BY <1>1, ProjectionInit, ProjectionNext, PTL DEF Spec
-----------------------------------------------------------------------------
(* No race skips a phase: whatever a request read, the campaign was there. *)

Visited(q) == \E j \in 0..Len(log) : PhaseAfter(log, j) = q

SeenWasThere ==
  /\ resumeTarget # None => Visited(resumeTarget)
  /\ \A r \in Requests : /\ Visited(seen[r].phase)
                         /\ seen[r].target # None => Visited(seen[r].target)

NoSkipInv == ProjectionInv /\ SeenWasThere /\ NoPhaseSkipped

LEMMA VisitedFacts ==
  ASSUME TypeOK
  PROVE  Visited("discover") /\ Visited(PhaseAfter(log, Len(log)))
<1>1. Len(log) \in Nat
  BY DEF TypeOK
<1> QED
  BY <1>1 DEF Visited, PhaseAfter

LEMMA VisitedStays ==
  ASSUME TypeOK, NEW e \in Hops, log' = Append(log, e), NEW q
  PROVE  /\ Visited(q) => Visited(q)'
         /\ \A j \in 0..Len(log) : PhaseAfter(log', j) = PhaseAfter(log, j)
<1>1. /\ Len(log) \in Nat /\ Len(log') = Len(log) + 1
      /\ \A i \in 1..Len(log) : log'[i] = log[i]
  BY DEF TypeOK
<1>2. \A j \in 0..Len(log) : PhaseAfter(log', j) = PhaseAfter(log, j)
  BY <1>1 DEF PhaseAfter
<1> QED
  BY <1>1, <1>2 DEF Visited

LEMMA NoSkipInit == Init => NoSkipInv
<1> SUFFICES ASSUME Init PROVE NoSkipInv
  OBVIOUS
<1>1. ProjectionInv /\ TypeOK
  BY ProjectionInit DEF ProjectionInv
<1>2. SeenWasThere
  BY <1>1, VisitedFacts DEF Init, SeenWasThere, NothingSeen
<1>3. NoPhaseSkipped
  BY DEF Init, NoPhaseSkipped
<1> QED
  BY <1>1, <1>2, <1>3 DEF NoSkipInv

LEMMA NoSkipNext == NoSkipInv /\ [Next]_vars => NoSkipInv'
<1> SUFFICES ASSUME NoSkipInv, [Next]_vars PROVE NoSkipInv'
  OBVIOUS
<1>1. ProjectionInv /\ ProjectionInv' /\ TypeOK /\ TypeOK' /\ SeenWasThere /\ NoPhaseSkipped
  BY ProjectionNext DEF NoSkipInv, ProjectionInv
<1>2. Len(log) \in Nat /\ Visited("discover") /\ Visited(phase)
  BY <1>1, VisitedFacts DEF TypeOK, ProjectionInv, RowIsProjection
<1>3. ASSUME UNCHANGED log PROVE NoPhaseSkipped' /\ \A q : Visited(q) => Visited(q)'
  BY <1>1, <1>3 DEF NoPhaseSkipped, PhaseAfter, Visited
<1>4. ASSUME NEW r \in Requests, ReadRow(r) PROVE (SeenWasThere /\ NoPhaseSkipped)'
  <2>1. UNCHANGED <<log, resumeTarget>>
    BY <1>4 DEF ReadRow
  <2>2. \A s \in Requests : \/ seen'[s].phase = seen[s].phase /\ seen'[s].target = seen[s].target
                            \/ seen'[s].phase = phase /\ seen'[s].target = resumeTarget
    BY <1>1, <1>4 DEF ReadRow, TypeOK
  <2> QED
    BY <1>1, <1>2, <1>3, <2>1, <2>2 DEF SeenWasThere
<1>5. ASSUME NEW r \in Requests, ReadHistory(r) PROVE (SeenWasThere /\ NoPhaseSkipped)'
  <2>1. UNCHANGED <<log, resumeTarget>>
    BY <1>5 DEF ReadHistory
  <2>2. \A s \in Requests : seen'[s].phase = seen[s].phase /\ seen'[s].target = seen[s].target
    BY <1>1, <1>5 DEF ReadHistory, TypeOK, Views
  <2> QED
    BY <1>1, <1>3, <2>1, <2>2 DEF SeenWasThere
<1>6. ASSUME NEW r \in Requests, Commit(r) PROVE (SeenWasThere /\ NoPhaseSkipped)'
  <2>1. PICK m \in Moves(seen[r].phase, seen[r].target) :
          /\ log' = Append(log, [seq |-> Len(log), from |-> seen[r].phase, to |-> m.to])
          /\ phase' = m.to
          /\ resumeTarget' = Column(seen[r].target, m.target, resumeTarget)
    BY <1>1, <1>6, CommitIsNext
  <2> DEFINE e == [seq |-> Len(log), from |-> seen[r].phase, to |-> m.to]
  <2>2. e \in Hops /\ seen' = [seen EXCEPT ![r] = NothingSeen]
    BY <1>1, <1>2, <1>6, <2>1, ViewTypes, MoveTypes DEF TypeOK, Hops, Commit
  <2>3. log' = Append(log, e) /\ e.to = m.to
    BY <2>1
  <2> HIDE DEF e
  <2>4. /\ Len(log') = Len(log) + 1
        /\ \A i \in 1..Len(log) : log'[i] = log[i]
        /\ log'[Len(log) + 1] = e
    BY <1>1, <2>2, <2>3 DEF TypeOK
  <2>5. /\ \A q : Visited(q) => Visited(q)'
        /\ \A j \in 0..Len(log) : PhaseAfter(log', j) = PhaseAfter(log, j)
    BY <1>1, <2>2, <2>3, VisitedStays
  <2>6. m.target \in {None, seen[r].phase, seen[r].target}
    BY <2>1, MoveTargets
  <2>7. SeenWasThere'
    <3>1. resumeTarget' # None => Visited(resumeTarget)'
      BY <1>1, <2>1, <2>5, <2>6 DEF SeenWasThere, Column
    <3>2. ASSUME NEW s \in Requests
          PROVE  Visited(seen[s].phase)' /\ (seen[s].target # None => Visited(seen[s].target))'
      <4>1. \/ seen'[s] = seen[s]
            \/ seen'[s].phase = "discover" /\ seen'[s].target = None
        BY <1>1, <2>2 DEF TypeOK, NothingSeen
      <4> QED
        BY <1>1, <1>2, <2>5, <4>1 DEF SeenWasThere
    <3> QED
      BY <3>1, <3>2 DEF SeenWasThere
  <2>8. NoPhaseSkipped'
    <3>1. ASSUME NEW i \in 1..Len(log), log'[i].to \notin {"paused", "cancelled"}, log'[i].to # "discover"
          PROVE  \E j \in 0..(i - 1) : <<PhaseAfter(log', j), log'[i].to>> \in Edges
      <4>1. PICK j \in 0..(i - 1) : <<PhaseAfter(log, j), log[i].to>> \in Edges
        BY <1>1, <2>4, <3>1 DEF NoPhaseSkipped
      <4>2. j \in 0..Len(log)
        BY <1>2
      <4> QED
        BY <2>4, <2>5, <4>1, <4>2
    <3>2. ASSUME m.to \notin {"paused", "cancelled"}, m.to # "discover"
          PROVE  \E j \in 0..Len(log) : <<PhaseAfter(log, j), m.to>> \in Edges
      <4>1. CASE <<seen[r].phase, m.to>> \in Edges
        BY <1>1, <4>1 DEF SeenWasThere, Visited
      <4>2. CASE m.to = seen[r].target /\ seen[r].target # None
        <5>1. PICK j \in 0..Len(log) : PhaseAfter(log, j) = m.to
          BY <1>1, <4>2 DEF SeenWasThere, Visited
        <5>2. j \in 1..Len(log) /\ log[j].to = m.to
          BY <1>2, <3>2, <5>1 DEF PhaseAfter
        <5>3. PICK k \in 0..(j - 1) : <<PhaseAfter(log, k), m.to>> \in Edges
          BY <1>1, <3>2, <5>2 DEF NoPhaseSkipped
        <5> QED
          BY <1>2, <5>2, <5>3
      <4> QED
        BY <2>1, <3>2, <4>1, <4>2, MoveSources
    <3>3. ASSUME NEW i \in 1..Len(log'), log'[i].to \notin {"paused", "cancelled"}, log'[i].to # "discover"
          PROVE  \E j \in 0..(i - 1) : <<PhaseAfter(log', j), log'[i].to>> \in Edges
      <4>1. CASE i \in 1..Len(log)
        BY <3>1, <3>3, <4>1
      <4>2. CASE i = Len(log) + 1
        <5>1. log'[i].to = m.to
          BY <2>3, <2>4, <4>2
        <5>2. PICK j \in 0..Len(log) : <<PhaseAfter(log, j), m.to>> \in Edges
          BY <3>2, <3>3, <5>1
        <5>3. j \in 0..(i - 1)
          BY <1>2, <4>2
        <5> QED
          BY <2>5, <5>1, <5>2, <5>3
      <4> QED
        BY <1>2, <2>4, <4>1, <4>2
    <3> QED
      BY <3>3 DEF NoPhaseSkipped
  <2> QED
    BY <2>7, <2>8
<1>7. ASSUME NEW r \in Requests, Abandon(r) PROVE (SeenWasThere /\ NoPhaseSkipped)'
  <2>1. UNCHANGED <<log, resumeTarget>>
    BY <1>7 DEF Abandon
  <2>2. \A s \in Requests : \/ seen'[s] = seen[s]
                            \/ seen'[s].phase = "discover" /\ seen'[s].target = None
    BY <1>1, <1>7 DEF Abandon, TypeOK, NothingSeen
  <2> QED
    BY <1>1, <1>2, <1>3, <2>1, <2>2 DEF SeenWasThere
<1>8. ASSUME UNCHANGED vars PROVE (SeenWasThere /\ NoPhaseSkipped)'
  BY <1>1, <1>3, <1>8 DEF vars, SeenWasThere
<1> QED
  BY <1>1, <1>4, <1>5, <1>6, <1>7, <1>8 DEF Next, NoSkipInv

(* No campaign reaches a phase past one it was never in, for any number of *)
(* concurrent requests: a race may repeat or undo steps, not skip one.     *)
THEOREM NoSkipCorrect == Spec => []NoPhaseSkipped
<1>1. NoSkipInv => NoPhaseSkipped
  BY DEF NoSkipInv
<1> QED
  BY <1>1, NoSkipInit, NoSkipNext, PTL DEF Spec

-----------------------------------------------------------------------------
(* The abstract lifecycle.  Columns that are written only when they change *)
(* come out right as long as the row is the one the request has read.      *)

LEMMA LifecycleInit == Init => Lifecycle!Init
BY DEF Init, Lifecycle!Init, Lifecycle!None

LEMMA SameGraph ==
  /\ Lifecycle!Edges = Edges /\ Lifecycle!Phases = Phases /\ Lifecycle!None = None
  /\ \A p : (Lifecycle!CanPause(p) <=> CanPause(p)) /\ (Lifecycle!CanCancel(p) <=> CanCancel(p))
  /\ \A l, p, q : Lifecycle!HopTo(l, p, q) = HopTo(l, p, q)
BY DEF Edges, Phases, Lifecycle!Edges, Lifecycle!Phases, Lifecycle!None, CanPause, CanCancel, Terminal,
       Lifecycle!CanPause, Lifecycle!CanCancel, Lifecycle!Terminal, HopTo, Lifecycle!HopTo

(* a commit on a row that is as it was read takes a step of the lifecycle *)
LEMMA CurrentCommit ==
  ASSUME NEW r \in Requests, Current(r), Commit(r)
  PROVE  Lifecycle!Next
<1>1. PICK m \in Moves(phase, resumeTarget) :
        /\ log' = Append(log, [seq |-> Len(log), from |-> phase, to |-> m.to])
        /\ phase' = Column(phase, m.to, phase)
        /\ resumeTarget' = Column(resumeTarget, m.target, resumeTarget)
  <2>1. seen[r].phase = phase /\ seen[r].target = resumeTarget /\ seen[r].count = Len(log)
    BY DEF Current
  <2> QED
    BY <2>1 DEF Commit, Sequence
<1>2. phase' = m.to /\ resumeTarget' = m.target /\ log' = Append(log, HopTo(log, phase, m.to))
  BY <1>1 DEF Column, HopTo
<1>3. Lifecycle!Move(m.to)
  BY <1>2, SameGraph DEF Lifecycle!Move
<1>4. CASE m = [to |-> "paused", target |-> phase] /\ CanPause(phase)
  BY <1>2, <1>3, <1>4, SameGraph DEF Lifecycle!Pause, Lifecycle!Try, Lifecycle!Next
<1>5. CASE m = [to |-> "cancelled", target |-> None] /\ CanCancel(phase)
  BY <1>2, <1>3, <1>5, SameGraph DEF Lifecycle!Cancel, Lifecycle!Try, Lifecycle!Next
<1>6. CASE m = [to |-> resumeTarget, target |-> None] /\ phase = "paused" /\ resumeTarget # None
  BY <1>2, <1>3, <1>6, SameGraph DEF Lifecycle!Resume, Lifecycle!Try, Lifecycle!Next
<1>7. CASE \E q \in Phases : m = [to |-> q, target |-> resumeTarget] /\ <<phase, q>> \in Edges
  <2>1. PICK q \in Phases : m = [to |-> q, target |-> resumeTarget] /\ <<phase, q>> \in Edges
    BY <1>7
  <2> QED
    BY <1>2, <1>3, <2>1, SameGraph DEF Lifecycle!Advance, Lifecycle!Next
<1> QED
  BY <1>4, <1>5, <1>6, <1>7, MoveCases

LEMMA CurrentStep ==
  TypeOK /\ [Next]_vars
    => [(\A r \in Requests : Leaves(r) => Current(r)) => Lifecycle!Next \/ UNCHANGED Lifecycle!vars]_vars
<1> SUFFICES ASSUME TypeOK, [Next]_vars, \A r \in Requests : Leaves(r) => Current(r)
             PROVE  Lifecycle!Next \/ UNCHANGED Lifecycle!vars
  OBVIOUS
<1>1. CASE UNCHANGED <<phase, resumeTarget, log>>
  BY <1>1 DEF Lifecycle!vars
<1>2. ASSUME NEW r \in Requests, Commit(r) PROVE Lifecycle!Next
  <2>1. Leaves(r)
    BY <1>2 DEF Commit, Leaves, TypeOK
  <2> QED
    BY <1>2, <2>1, CurrentCommit
<1>3. ASSUME NEW r \in Requests, ReadRow(r) \/ ReadHistory(r) \/ Abandon(r)
      PROVE  UNCHANGED <<phase, resumeTarget, log>>
  BY <1>3 DEF ReadRow, ReadHistory, Abandon
<1> QED
  BY <1>1, <1>2, <1>3 DEF Next, vars

(* A request that commits on what it read, unchanged since, takes a step   *)
(* of the campaign lifecycle, for any number of concurrent requests and    *)
(* whatever races went before.                                             *)
THEOREM CurrentRequestsRefine == Spec => CurrentRequestsImplementLifecycle
<1> DEFINE Promised == (\A r \in Requests : Leaves(r) => Current(r)) => Lifecycle!Next \/ UNCHANGED Lifecycle!vars
<1>1. TypeOK /\ [Next]_vars => [Promised]_vars
  BY CurrentStep
<1>2. CurrentRequestsImplementLifecycle <=> Lifecycle!Init /\ [][Promised]_vars
  BY DEF CurrentRequestsImplementLifecycle
<1> HIDE DEF Promised
<1> QED
  BY <1>1, <1>2, TypeInit, TypeNext, LifecycleInit, PTL DEF Spec
=============================================================================
