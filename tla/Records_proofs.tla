---------------------------- MODULE Records_proofs ----------------------------
(***************************************************************************)
(* Proofs about what is kept and read back, for every value of the         *)
(* constants: the journal that two adapters may open, of which one is the  *)
(* owner; the trace store, whose chain shows damage and whose discovery    *)
(* reports are those of the failures they were clustered from; the         *)
(* evidence archive, whose rows rest on what a rebuild has read; the       *)
(* artifact registry, whose dependencies never form a cycle; and what the  *)
(* archives report: sums, frontiers and comparisons of the evidence, and   *)
(* stored tables that tell when they are not of it; and an experiment,     *)
(* whose comparison is what its runs say.  The lemmas on induction that    *)
(* come first serve the other services' proofs too.                        *)
(***************************************************************************)
EXTENDS JournalOwnership, TraceDiscovery, EvidenceArchive, ArtifactRegistry, ArchiveViews,
        ExperimentAnalysis, FiniteSetTheorems, SequenceTheorems, WellFoundedInduction, TLAPS

-----------------------------------------------------------------------------
(* Induction over data, stated for sets so that no operator is a parameter. *)

(* A nonempty set of finite sets has one that includes no other. *)
LEMMA MinimalSet ==
  ASSUME NEW F, F # {}, \A x \in F : IsFiniteSet(x)
  PROVE  \E x \in F : \A y \in F : y \subseteq x => y = x
<1> DEFINE S == UNION F
<1>1. F \subseteq FiniteSubsetsOf(S)
  BY DEF FiniteSubsetsOf
<1>2. IsWellFoundedOn(StrictSubsetOrdering(S), FiniteSubsetsOf(S))
  BY FS_StrictSubsetOrderingWellFounded
<1>3. PICK x \in F : \A y \in F : ~(<<y, x>> \in StrictSubsetOrdering(S))
  BY <1>1, <1>2, WFMin
<1>4. ASSUME NEW y \in F, y \subseteq x PROVE y = x
  <2>1. <<y, x>> \in (SUBSET S) \X (SUBSET S)
    OBVIOUS
  <2>2. <<y, x>>[1] = y /\ <<y, x>>[2] = x
    OBVIOUS
  <2>3. CASE y # x
    <3>1. <<y, x>> \in StrictSubsetOrdering(S)
      BY <1>4, <2>1, <2>2, <2>3 DEF StrictSubsetOrdering
    <3> QED
      BY <1>3, <3>1
  <2> QED
    BY <2>3
<1> QED
  BY <1>4

(* A nonempty set of natural numbers has a least one. *)
LEMMA LeastNat ==
  ASSUME NEW T \in SUBSET Nat, T # {}
  PROVE  \E x \in T : \A y \in T : x <= y
<1> DEFINE Upto(n) == {x \in T : x <= n}
<1> DEFINE F == {Upto(n) : n \in T}
<1>1. \A x \in F : IsFiniteSet(x)
  <2> SUFFICES ASSUME NEW n \in T PROVE IsFiniteSet(Upto(n))
    OBVIOUS
  <2> QED
    BY FS_BoundedSetOfNaturals
<1>2. PICK x \in F : \A y \in F : y \subseteq x => y = x
  <2>1. F # {}
    OBVIOUS
  <2> HIDE DEF F
  <2> QED
    BY <1>1, <2>1, MinimalSet
<1>3. PICK n \in T : x = Upto(n)
  OBVIOUS
<1>4. ASSUME NEW m \in T PROVE n <= m
  <2>1. CASE m < n
    <3>1. Upto(m) \subseteq Upto(n)
      <4>1. \A k \in T : k <= m => k <= n
        BY <2>1
      <4> QED
        BY <4>1
    <3>2. Upto(m) = Upto(n)
      BY <1>2, <1>3, <3>1
    <3> QED
      BY <2>1, <3>2
  <2> QED
    BY <2>1
<1> QED
  BY <1>4

(* Induction over the natural numbers, for a set of them *)
LEMMA NatSetInduction ==
  ASSUME NEW Q, 0 \in Q, \A n \in Nat : n \in Q => n + 1 \in Q
  PROVE  Nat \subseteq Q
<1> SUFFICES ASSUME Nat \ Q # {} PROVE FALSE
  OBVIOUS
<1>1. PICK x \in Nat \ Q : \A y \in Nat \ Q : x <= y
  BY LeastNat
<1>2. x # 0 /\ x - 1 \in Nat /\ x - 1 + 1 = x
  OBVIOUS
<1>3. x - 1 \in Q
  BY <1>1, <1>2
<1> QED
  BY <1>2, <1>3

(* Induction over a finite set, for a set of its subsets *)
LEMMA SubsetInduction ==
  ASSUME NEW S, IsFiniteSet(S), NEW F, {} \in F,
         \A U \in SUBSET S : \A x \in S : U \in F /\ x \notin U => U \cup {x} \in F
  PROVE  S \in F
<1> SUFFICES ASSUME S \notin F PROVE FALSE
  OBVIOUS
<1> DEFINE G == (SUBSET S) \ F
<1>1. G # {} /\ \A x \in G : IsFiniteSet(x)
  BY FS_Subset
<1>2. PICK U \in G : \A y \in G : y \subseteq U => y = U
  <2> HIDE DEF G
  <2> QED
    BY <1>1, MinimalSet
<1>3. PICK x \in U : TRUE
  OBVIOUS
<1>4. U \ {x} \in SUBSET S /\ x \in S /\ x \notin U \ {x} /\ (U \ {x}) \cup {x} = U
  OBVIOUS
<1>5. U \ {x} \in F
  BY <1>2, <1>4
<1>6. U \in F
  BY <1>4, <1>5
<1> QED
  BY <1>6

(* A function on the natural numbers whose values step from one to the next *)
Recurs(T, c, D) == \E f \in [Nat -> T] : f[0] = c /\ \A n \in Nat : f[n + 1] = D[<<f[n], n>>]

LEMMA Recursion ==
  ASSUME NEW T, NEW c \in T, NEW D \in [T \X Nat -> T]
  PROVE  Recurs(T, c, D)
<1> DEFINE Upto(n) == {g \in [0..n -> T] : g[0] = c /\ \A i \in 0..(n - 1) : g[i + 1] = D[<<g[i], i>>]}
<1> DEFINE Q == {n \in Nat : Upto(n) # {}}
<1>1. 0 \in Q
  <2>1. [i \in 0..0 |-> c] \in Upto(0)
    OBVIOUS
  <2> QED
    BY <2>1
<1>2. ASSUME NEW n \in Nat, n \in Q PROVE n + 1 \in Q
  <2>1. PICK g \in [0..n -> T] : g[0] = c /\ \A i \in 0..(n - 1) : g[i + 1] = D[<<g[i], i>>]
    BY <1>2
  <2> DEFINE h == [i \in 0..(n + 1) |-> IF i = n + 1 THEN D[<<g[n], n>>] ELSE g[i]]
  <2>2. D[<<g[n], n>>] \in T
    OBVIOUS
  <2>3. h \in [0..(n + 1) -> T]
    BY <2>2
  <2>4. h[0] = c
    BY <2>1
  <2>5. ASSUME NEW i \in 0..n PROVE h[i + 1] = D[<<h[i], i>>]
    <3>1. CASE i = n
      <4>1. h[n + 1] = D[<<g[n], n>>] /\ h[n] = g[n]
        OBVIOUS
      <4> QED
        BY <3>1, <4>1
    <3>2. CASE i \in 0..(n - 1)
      BY <2>1, <3>2
    <3> QED
      BY <3>1, <3>2
  <2>6. n + 1 - 1 = n /\ n + 1 \in Nat
    OBVIOUS
  <2> HIDE DEF h
  <2>7. h \in Upto(n + 1)
    BY <2>3, <2>4, <2>5, <2>6
  <2>8. Upto(n + 1) # {}
    BY <2>7
  <2> HIDE DEF Upto
  <2> QED
    BY <2>6, <2>8
<1>3. Nat \subseteq Q
  <2> HIDE DEF Q
  <2> QED
    BY <1>1, <1>2, NatSetInduction
<1>4. ASSUME NEW m \in Nat, NEW n \in Nat, m <= n, NEW g \in Upto(m), NEW h \in Upto(n)
      PROVE  \A i \in 0..m : g[i] = h[i]
  <2> DEFINE R == {i \in Nat : i <= m => g[i] = h[i]}
  <2>1. 0 \in R
    OBVIOUS
  <2>2. ASSUME NEW i \in Nat, i \in R PROVE i + 1 \in R
    <3> SUFFICES ASSUME i + 1 <= m PROVE g[i + 1] = h[i + 1]
      OBVIOUS
    <3>1. i \in 0..(m - 1) /\ i \in 0..(n - 1) /\ i <= m
      BY <1>4
    <3>2. g[i] = h[i]
      BY <2>2, <3>1
    <3> QED
      BY <3>1, <3>2
  <2>3. Nat \subseteq R
    <3> HIDE DEF R
    <3> QED
      BY <2>1, <2>2, NatSetInduction
  <2> QED
    BY <2>3
<1>5. PICK G : \A n \in Nat : G[n] \in Upto(n)
  <2> DEFINE H == [n \in Nat |-> CHOOSE g : g \in Upto(n)]
  <2>1. ASSUME NEW n \in Nat PROVE H[n] \in Upto(n)
    <3>1. Upto(n) # {}
      BY <1>3
    <3>2. H[n] = CHOOSE g : g \in Upto(n)
      OBVIOUS
    <3> HIDE DEF H, Upto
    <3> QED
      BY <3>1, <3>2
  <2> HIDE DEF H, Upto
  <2> QED
    BY <2>1
<1>6. ASSUME NEW n \in Nat
      PROVE  G[n] \in [0..n -> T] /\ G[n][0] = c /\ \A i \in 0..(n - 1) : G[n][i + 1] = D[<<G[n][i], i>>]
  BY <1>5
<1> DEFINE f == [n \in Nat |-> G[n][n]]
<1>7. f \in [Nat -> T]
  <2>1. \A n \in Nat : n \in 0..n
    OBVIOUS
  <2>2. \A n \in Nat : G[n][n] \in T
    BY <1>6, <2>1
  <2> QED
    BY <2>2
<1>8. f[0] = c
  BY <1>6
<1>9. ASSUME NEW n \in Nat PROVE f[n + 1] = D[<<f[n], n>>]
  <2>1. n + 1 \in Nat /\ n \in 0..(n + 1 - 1) /\ n \in 0..n /\ n <= n + 1
    OBVIOUS
  <2>2. G[n + 1][n + 1] = D[<<G[n + 1][n], n>>]
    BY <1>6, <2>1
  <2>3. G[n][n] = G[n + 1][n]
    <3>1. G[n] \in Upto(n) /\ G[n + 1] \in Upto(n + 1)
      BY <1>5, <2>1
    <3>2. \A i \in 0..n : G[n][i] = G[n + 1][i]
      <4> HIDE DEF Upto
      <4> QED
        BY <1>4, <2>1, <3>1
    <3> QED
      BY <2>1, <3>2
  <2>4. f[n] = G[n][n] /\ f[n + 1] = G[n + 1][n + 1]
    BY <2>1
  <2> HIDE DEF f
  <2> QED
    BY <2>2, <2>3, <2>4
<1> HIDE DEF f
<1> QED
  BY <1>7, <1>8, <1>9 DEF Recurs

(* Two functions that step alike from one value are one. *)
LEMMA StepsAlike ==
  ASSUME NEW f, NEW g, f[0] = g[0], \A n \in Nat : f[n] = g[n] => f[n + 1] = g[n + 1]
  PROVE  \A n \in Nat : f[n] = g[n]
<1> DEFINE Q == {n \in Nat : f[n] = g[n]}
<1>1. 0 \in Q /\ \A n \in Nat : n \in Q => n + 1 \in Q
  OBVIOUS
<1> HIDE DEF Q
<1>2. Nat \subseteq Q
  BY <1>1, NatSetInduction
<1> QED
  BY <1>2 DEF Q

-----------------------------------------------------------------------------
(* Who owns a journal *)
OwnershipSpec == OwnershipInit /\ [][OwnershipNext]_ownershipVars

JournalRecordSet == [seq : Nat \ {0}, of : Nat]

(* The records of a log that still wait for an acknowledgement. *)
AckCovers(log, n) == \E i \in DOMAIN log : log[i].of = NoEvent /\ n <= log[i].seq
AwaitsAck(log) == {r \in Range(log) : r.of # NoEvent /\ ~AckCovers(log, r.seq)}

LEMMA RangeOfAppend ==
  ASSUME NEW R, NEW q \in Seq(R), NEW r \in R
  PROVE  Range(Append(q, r)) = Range(q) \cup {r}
<1>1. /\ DOMAIN Append(q, r) = 1..Len(q) + 1
      /\ \A i \in 1..Len(q) : Append(q, r)[i] = q[i]
      /\ Append(q, r)[Len(q) + 1] = r
  OBVIOUS
<1>2. DOMAIN q = 1..Len(q) /\ Len(q) \in Nat
  OBVIOUS
<1>3. \A i \in 1..Len(q) + 1 : i \in 1..Len(q) \/ i = Len(q) + 1
  BY <1>2
<1>4. 1..Len(q) \subseteq 1..Len(q) + 1 /\ Len(q) + 1 \in 1..Len(q) + 1
  BY <1>2
<1> DEFINE a == Append(q, r)
<1> HIDE DEF a
<1>5. ASSUME NEW x \in Range(a) PROVE x \in Range(q) \cup {r}
  BY <1>1, <1>2, <1>3, <1>5 DEF Range, a
<1>6. ASSUME NEW x \in Range(q) \cup {r} PROVE x \in Range(a)
  BY <1>1, <1>2, <1>4, <1>6 DEF Range, a
<1> QED
  BY <1>5, <1>6 DEF a

LEMMA HighestIs ==
  ASSUME NEW S \in SUBSET Nat, NEW b \in Nat, \A k \in S : k <= b
  PROVE  /\ HighestSeq(S) \in Nat
         /\ \A k \in S : k <= HighestSeq(S)
         /\ S # {} => HighestSeq(S) \in S
<1>1. CASE S = {}
  BY <1>1 DEF HighestSeq
<1>2. CASE S # {}
  <2> DEFINE T == {m \in Nat : \A k \in S : k <= m}
  <2>1. b \in T /\ T \in SUBSET Nat
    OBVIOUS
  <2>2. PICK m \in T : \A y \in T : m <= y
    <3> HIDE DEF T
    <3> QED
      BY <2>1, LeastNat
  <2>3. m \in S
    <3> SUFFICES ASSUME m \notin S PROVE FALSE
      OBVIOUS
    <3>1. PICK k \in S : TRUE
      BY <1>2
    <3>2. m \in Nat /\ k \in Nat /\ k <= m /\ k # m
      BY <3>1
    <3>3. m - 1 \in Nat
      BY <3>2
    <3>4. \A j \in S : j \in Nat /\ j <= m /\ j # m
      OBVIOUS
    <3>5. \A j \in S : j <= m - 1
      BY <3>2, <3>4
    <3>6. m - 1 \in T
      BY <3>3, <3>5
    <3> QED
      BY <2>2, <3>2, <3>6
  <2>4. \E n \in S : \A k \in S : k <= n
    BY <2>3
  <2> QED
    BY <1>2, <2>4 DEF HighestSeq
<1> QED
  BY <1>1, <1>2

LEMMA NumbersAreBounded ==
  ASSUME NEW log \in Seq(JournalRecordSet)
  PROVE  \E b \in Nat : \A i \in DOMAIN log : log[i].seq <= b
<1> DEFINE Q == {n \in Nat : n <= Len(log) => \E b \in Nat : \A i \in 1..n : log[i].seq <= b}
<1>1. 0 \in Q
  OBVIOUS
<1>2. ASSUME NEW n \in Nat, n \in Q PROVE n + 1 \in Q
  <2> SUFFICES ASSUME n + 1 <= Len(log)
               PROVE  \E b \in Nat : \A i \in 1..n + 1 : log[i].seq <= b
    OBVIOUS
  <2>1. PICK b \in Nat : \A i \in 1..n : log[i].seq <= b
    BY <1>2
  <2>2. n + 1 \in DOMAIN log
    OBVIOUS
  <2>3. log[n + 1] \in JournalRecordSet
    BY <2>2
  <2> DEFINE c == log[n + 1].seq
             d == IF b <= c THEN c ELSE b
  <2>4. c \in Nat
    BY <2>3 DEF JournalRecordSet
  <2> HIDE DEF c
  <2>5. d \in Nat /\ b <= d /\ c <= d
    BY <2>4
  <2> HIDE DEF d
  <2>6. ASSUME NEW i \in 1..n + 1 PROVE log[i].seq <= d
    <3>1. CASE i = n + 1
      BY <2>5, <3>1 DEF c
    <3>2. CASE i \in 1..n
      <4>1. log[i] \in JournalRecordSet
        BY <3>2
      <4>2. log[i].seq \in Nat
        BY <4>1 DEF JournalRecordSet
      <4> QED
        BY <2>1, <2>5, <3>2, <4>2
    <3> QED
      BY <3>1, <3>2
  <2> QED
    BY <2>5, <2>6
<1>3. Nat \subseteq Q
  <2> HIDE DEF Q
  <2> QED
    BY <1>1, <1>2, NatSetInduction
<1>4. Len(log) \in Nat /\ DOMAIN log = 1..Len(log)
  OBVIOUS
<1>5. Len(log) \in Q
  <2> HIDE DEF Q
  <2> QED
    BY <1>3, <1>4
<1>6. \E b \in Nat : \A i \in 1..Len(log) : log[i].seq <= b
  BY <1>4, <1>5
<1> QED
  BY <1>4, <1>6

LEMMA AckedIs ==
  ASSUME NEW log \in Seq(JournalRecordSet)
  PROVE  /\ HighestSeq(SeqsOf(log, TRUE)) \in Nat
         /\ \A i \in DOMAIN log : log[i].seq > HighestSeq(SeqsOf(log, TRUE)) <=> ~AckCovers(log, log[i].seq)
<1> DEFINE S == SeqsOf(log, TRUE)
           h == HighestSeq(S)
<1>0. \A i \in DOMAIN log : log[i].seq \in Nat \ {0}
  <2>1. \A i \in DOMAIN log : log[i] \in JournalRecordSet
    OBVIOUS
  <2> QED
    BY <2>1 DEF JournalRecordSet
<1>1. S = {log[i].seq : i \in {i \in DOMAIN log : log[i].of = NoEvent}}
  BY DEF SeqsOf
<1>2. S \in SUBSET Nat
  BY <1>0, <1>1
<1>3. PICK b \in Nat : \A i \in DOMAIN log : log[i].seq <= b
  BY NumbersAreBounded
<1>4. \A k \in S : k <= b
  BY <1>1, <1>3
<1> HIDE DEF S
<1>5. h \in Nat /\ (\A k \in S : k <= h) /\ (S # {} => h \in S)
  BY <1>2, <1>4, HighestIs
<1>6. S = {} => h = 0
  BY DEF HighestSeq
<1> HIDE DEF h
<1>7. ASSUME NEW i \in DOMAIN log PROVE log[i].seq > h <=> ~AckCovers(log, log[i].seq)
  <2>1. CASE log[i].seq > h
    <3>1. ASSUME NEW j \in DOMAIN log, log[j].of = NoEvent PROVE ~(log[i].seq <= log[j].seq)
      <4>1. log[j].seq \in S
        BY <1>1, <3>1
      <4>2. log[j].seq <= h
        BY <4>1, <1>5
      <4> QED
        BY <1>0, <1>5, <2>1, <4>2
    <3> QED
      BY <2>1, <3>1 DEF AckCovers
  <2>2. CASE ~(log[i].seq > h)
    <3>1. log[i].seq <= h /\ h # 0
      BY <1>0, <1>5, <2>2
    <3>2. h \in S
      BY <1>5, <1>6, <3>1
    <3>3. PICK j \in DOMAIN log : log[j].of = NoEvent /\ log[j].seq = h
      BY <1>1, <3>2
    <3> QED
      BY <2>2, <3>1, <3>3 DEF AckCovers
  <2> QED
    BY <2>1, <2>2
<1> QED
  BY <1>5, <1>7 DEF h, S

LEMMA NextIs ==
  ASSUME NEW log \in Seq(JournalRecordSet)
  PROVE  NextSeq(log) \in Nat \ {0} /\ \A i \in DOMAIN log : log[i].seq < NextSeq(log)
<1> DEFINE S == SeqsOf(log, TRUE) \cup SeqsOf(log, FALSE)
           h == HighestSeq(S)
<1>0. \A i \in DOMAIN log : log[i].seq \in Nat \ {0}
  <2>1. \A i \in DOMAIN log : log[i] \in JournalRecordSet
    OBVIOUS
  <2> QED
    BY <2>1 DEF JournalRecordSet
<1>1. ASSUME NEW i \in DOMAIN log PROVE log[i].seq \in S
  <2>1. CASE log[i].of = NoEvent
    BY <2>1 DEF SeqsOf
  <2>2. CASE log[i].of # NoEvent
    BY <2>2 DEF SeqsOf
  <2> QED
    BY <2>1, <2>2
<1>2. S \in SUBSET Nat
  BY <1>0 DEF SeqsOf
<1>3. PICK b \in Nat : \A i \in DOMAIN log : log[i].seq <= b
  BY NumbersAreBounded
<1>4. \A k \in S : k <= b
  BY <1>3 DEF SeqsOf
<1> HIDE DEF S
<1>5. h \in Nat /\ \A k \in S : k <= h
  BY <1>2, <1>4, HighestIs
<1>6. NextSeq(log) = h + 1
  BY DEF NextSeq, S
<1> HIDE DEF h
<1>7. ASSUME NEW i \in DOMAIN log PROVE log[i].seq < h + 1
  <2>1. log[i].seq <= h
    BY <1>1, <1>5
  <2> QED
    BY <1>0, <1>5, <2>1
<1> QED
  BY <1>5, <1>6, <1>7

(* recover reads back what waits for an acknowledgement, and nothing else. *)
LEMMA UnacknowledgedIs ==
  ASSUME NEW log \in Seq(JournalRecordSet)
  PROVE  /\ Unacknowledged(log) \in Seq(JournalRecordSet)
         /\ Range(Unacknowledged(log)) = AwaitsAck(log)
<1> DEFINE n == Len(log)
           acked == HighestSeq(SeqsOf(log, TRUE))
           T == Seq(JournalRecordSet)
           waits(k) == k \in 1..n /\ log[k].of # NoEvent /\ log[k].seq > acked
           D == [x \in T \X Nat |-> IF waits(x[2] + 1) THEN Append(x[1], log[x[2] + 1]) ELSE x[1]]
           Rereads(g) == [k \in 0..n |-> IF k = 0 THEN <<>> ELSE IF log[k].of # NoEvent /\ log[k].seq > acked
                                                               THEN Append(g[k - 1], log[k]) ELSE g[k - 1]]
           readBack == CHOOSE g : g = Rereads(g)
<1>0. n \in Nat /\ DOMAIN log = 1..n /\ \A k \in 1..n : log[k] \in JournalRecordSet
  OBVIOUS
<1>1. <<>> \in T /\ \A q \in T, r \in JournalRecordSet : Append(q, r) \in T
  OBVIOUS
<1>2. \A k \in Nat : waits(k + 1) => log[k + 1] \in JournalRecordSet
  BY <1>0
<1>3. D \in [T \X Nat -> T] /\ \A q \in T, k \in Nat : D[<<q, k>>] = IF waits(k + 1) THEN Append(q, log[k + 1]) ELSE q
  <2> HIDE DEF T, waits, n
  <2> QED
    BY <1>1, <1>2
<1>4. PICK f \in [Nat -> T] : f[0] = <<>> /\ \A k \in Nat : f[k + 1] = D[<<f[k], k>>]
  <2> DEFINE c == <<>>
  <2>1. c \in T /\ D \in [T \X Nat -> T]
    BY <1>1, <1>3
  <2> HIDE DEF c, T, D
  <2>2. Recurs(T, c, D)
    BY <2>1, Recursion
  <2> QED
    BY <2>2 DEF Recurs, c
<1>5. f[0] = <<>> /\ \A k \in Nat : f[k] \in T /\ f[k + 1] = IF waits(k + 1) THEN Append(f[k], log[k + 1]) ELSE f[k]
  <2> HIDE DEF D, T, waits, n
  <2> QED
    BY <1>3, <1>4
<1> DEFINE h == [k \in 0..n |-> f[k]]
<1>6. h = Rereads(h)
  <2>1. ASSUME NEW k \in 0..n
        PROVE  h[k] = IF k = 0 THEN <<>> ELSE IF log[k].of # NoEvent /\ log[k].seq > acked
                                              THEN Append(h[k - 1], log[k]) ELSE h[k - 1]
    <3>1. CASE k = 0
      BY <1>5, <3>1
    <3>2. CASE k # 0
      <4>1. k - 1 \in Nat /\ k - 1 + 1 = k /\ k - 1 \in 0..n /\ k \in 1..n
        BY <1>0, <3>2
      <4>2. f[k] = IF waits(k) THEN Append(f[k - 1], log[k]) ELSE f[k - 1]
        <5> HIDE DEF waits
        <5>1. f[k - 1 + 1] = IF waits(k - 1 + 1) THEN Append(f[k - 1], log[k - 1 + 1]) ELSE f[k - 1]
          BY <1>5, <4>1
        <5> QED
          BY <4>1, <5>1
      <4> HIDE DEF n, acked
      <4>3. waits(k) <=> log[k].of # NoEvent /\ log[k].seq > acked
        BY <4>1
      <4>4. h[k] = f[k] /\ h[k - 1] = f[k - 1]
        BY <4>1
      <4> HIDE DEF h, waits
      <4> QED
        BY <3>2, <4>2, <4>3, <4>4
    <3> QED
      BY <3>1, <3>2
  <2> QED
    BY <2>1
<1>7. readBack = Rereads(readBack)
  <2> HIDE DEF Rereads, h
  <2> QED
    BY <1>6
<1>8. Unacknowledged(log) = readBack[n]
  <2> HIDE DEF acked
  <2> QED
    BY DEF Unacknowledged, acked
<1> HIDE DEF readBack, D, h, acked
<1> DEFINE Of(k) == {log[i] : i \in {i \in 1..k : log[i].of # NoEvent /\ log[i].seq > acked}}
           Q == {k \in Nat : k <= n => readBack[k] \in T /\ Range(readBack[k]) = Of(k)}
<1>9. \A k \in 0..n : readBack[k] = IF k = 0 THEN <<>> ELSE IF log[k].of # NoEvent /\ log[k].seq > acked
                                                         THEN Append(readBack[k - 1], log[k]) ELSE readBack[k - 1]
  BY <1>7
<1>10. 0 \in Q
  <2>1. readBack[0] = <<>>
    <3>1. 0 \in 0..n
      BY <1>0
    <3> HIDE DEF n
    <3> QED
      BY <1>9, <3>1
  <2>2. Range(<<>>) = {} /\ Of(0) = {}
    BY DEF Range
  <2> QED
    BY <1>1, <2>1, <2>2
<1>11. ASSUME NEW k \in Nat, k \in Q PROVE k + 1 \in Q
  <2> DEFINE m == k + 1
  <2> HIDE DEF T, Of
  <2>0. m \in Nat
    OBVIOUS
  <2>1. ASSUME m <= n PROVE k <= n /\ m \in 0..n /\ m \in 1..n /\ m # 0 /\ m - 1 = k
    BY <1>0, <2>1
  <2>2. \A i \in 1..m : i \in 1..k \/ i = m
    OBVIOUS
  <2>3. 1..k \subseteq 1..m /\ m \in 1..m
    OBVIOUS
  <2> HIDE DEF m
  <2>4. ASSUME m <= n PROVE readBack[m] \in T /\ Range(readBack[m]) = Of(m)
    <3>1. readBack[k] \in T /\ Range(readBack[k]) = Of(k)
      <4> HIDE DEF n
      <4> QED
        BY <1>11, <2>1, <2>4
    <3>2. log[m] \in JournalRecordSet
      BY <1>0, <2>1, <2>4
    <3>3. readBack[m] = IF log[m].of # NoEvent /\ log[m].seq > acked THEN Append(readBack[k], log[m]) ELSE readBack[k]
      BY <1>9, <2>1, <2>4
    <3>4. CASE log[m].of # NoEvent /\ log[m].seq > acked
      <4>1. readBack[m] = Append(readBack[k], log[m])
        BY <3>3, <3>4
      <4>2. \A q \in T, r \in JournalRecordSet : Range(Append(q, r)) = Range(q) \cup {r}
        BY RangeOfAppend DEF T
      <4>3. Of(m) = Of(k) \cup {log[m]}
        BY <2>2, <2>3, <3>4 DEF Of
      <4> QED
        BY <1>1, <3>1, <3>2, <4>1, <4>2, <4>3
    <3>5. CASE ~(log[m].of # NoEvent /\ log[m].seq > acked)
      <4>1. readBack[m] = readBack[k]
        BY <3>3, <3>5
      <4>2. Of(m) = Of(k)
        BY <2>2, <2>3, <3>5 DEF Of
      <4> QED
        BY <3>1, <4>1, <4>2
    <3> QED
      BY <3>4, <3>5
  <2>5. m \in Q
    <3> HIDE DEF n
    <3> QED
      BY <2>0, <2>4
  <2> QED
    BY <2>5 DEF m
<1>12. Nat \subseteq Q
  <2> HIDE DEF Q
  <2> QED
    BY <1>10, <1>11, NatSetInduction
<1>13. readBack[n] \in T /\ Range(readBack[n]) = Of(n)
  <2>1. n \in Q
    <3> HIDE DEF Q
    <3> QED
      BY <1>0, <1>12
  <2> HIDE DEF T, Of, n
  <2> QED
    BY <1>0, <2>1
<1>14. Of(n) = AwaitsAck(log)
  <2>1. \A i \in DOMAIN log : log[i].seq > acked <=> ~AckCovers(log, log[i].seq)
    BY AckedIs DEF acked
  <2> QED
    BY <1>0, <2>1 DEF AwaitsAck, Range
<1> QED
  BY <1>8, <1>13, <1>14

LEMMA WaitingAfterEvent ==
  ASSUME NEW log \in Seq(JournalRecordSet), NEW r \in JournalRecordSet, r.of # NoEvent,
         \A i \in DOMAIN log : log[i].seq < r.seq
  PROVE  AwaitsAck(Append(log, r)) = AwaitsAck(log) \cup {r}
<1>1. /\ DOMAIN Append(log, r) = 1..Len(log) + 1
      /\ \A i \in 1..Len(log) : Append(log, r)[i] = log[i]
      /\ Append(log, r)[Len(log) + 1] = r
  OBVIOUS
<1>2. DOMAIN log = 1..Len(log) /\ Len(log) \in Nat
  OBVIOUS
<1>3. Range(Append(log, r)) = Range(log) \cup {r}
  BY RangeOfAppend
<1>4. \A i \in 1..Len(log) + 1 : i \in 1..Len(log) \/ i = Len(log) + 1
  BY <1>2
<1>5. 1..Len(log) \subseteq 1..Len(log) + 1
  BY <1>2
<1> DEFINE a == Append(log, r)
<1> HIDE DEF a
<1>6. \A n : AckCovers(a, n) <=> AckCovers(log, n)
  BY <1>1, <1>2, <1>4, <1>5 DEF AckCovers, a
<1>7. ~AckCovers(log, r.seq)
  <2>1. \A i \in DOMAIN log : log[i] \in JournalRecordSet
    BY <1>2
  <2> QED
    BY <2>1 DEF AckCovers, JournalRecordSet
<1> QED
  BY <1>3, <1>6, <1>7 DEF AwaitsAck, a

LEMMA WaitingAfterAck ==
  ASSUME NEW log \in Seq(JournalRecordSet), NEW r \in JournalRecordSet, r.of = NoEvent
  PROVE  AwaitsAck(Append(log, r)) = {w \in AwaitsAck(log) : r.seq < w.seq}
<1>1. /\ DOMAIN Append(log, r) = 1..Len(log) + 1
      /\ \A i \in 1..Len(log) : Append(log, r)[i] = log[i]
      /\ Append(log, r)[Len(log) + 1] = r
  OBVIOUS
<1>2. DOMAIN log = 1..Len(log) /\ Len(log) \in Nat
  OBVIOUS
<1>3. Range(Append(log, r)) = Range(log) \cup {r}
  BY RangeOfAppend
<1>4. \A i \in 1..Len(log) + 1 : i \in 1..Len(log) \/ i = Len(log) + 1
  BY <1>2
<1>5. 1..Len(log) \subseteq 1..Len(log) + 1 /\ Len(log) + 1 \in 1..Len(log) + 1
  BY <1>2
<1> DEFINE a == Append(log, r)
<1> HIDE DEF a
<1>6. \A n : AckCovers(a, n) <=> AckCovers(log, n) \/ n <= r.seq
  BY <1>1, <1>2, <1>4, <1>5 DEF AckCovers, a
<1>7. \A w \in Range(log) : w.seq \in Nat
  <2>1. \A i \in DOMAIN log : log[i] \in JournalRecordSet
    BY <1>2
  <2> QED
    BY <2>1 DEF Range, JournalRecordSet
<1>8. r.seq \in Nat
  BY DEF JournalRecordSet
<1>9. \A w \in Range(log) : ~(w.seq <= r.seq) <=> r.seq < w.seq
  BY <1>7, <1>8
<1> QED
  BY <1>3, <1>6, <1>9 DEF AwaitsAck, a

(* The records recovery renumbers are all waiting, for the same events. *)
LEMMA RenumberedIs ==
  ASSUME NEW found \in Seq(JournalRecordSet)
  PROVE  /\ Renumbered(found) \in Seq(JournalRecordSet) /\ DOMAIN Renumbered(found) = DOMAIN found
         /\ \A i \in DOMAIN found : Renumbered(found)[i].seq = i /\ Renumbered(found)[i].of = found[i].of
         /\ Renumbered(found) = [i \in DOMAIN found |-> [found[i] EXCEPT !.seq = i]]
         /\ (\A i \in DOMAIN found : found[i].of # NoEvent) =>
               /\ AwaitsAck(Renumbered(found)) = Range(Renumbered(found))
               /\ \A w \in Range(found) : \E v \in AwaitsAck(Renumbered(found)) : v.of = w.of
<1> DEFINE n == Len(found)
           Rec(i) == [seq |-> i, of |-> found[i].of]
<1>1. n \in Nat /\ DOMAIN found = 1..n /\ \A i \in 1..n : found[i] \in JournalRecordSet
  OBVIOUS
<1>2. \A i \in 1..n : i \in Nat \ {0} /\ found[i].of \in Nat
  BY <1>1 DEF JournalRecordSet
<1>3. \A i \in 1..n : Rec(i) \in JournalRecordSet /\ Rec(i).seq = i /\ Rec(i).of = found[i].of
  BY <1>2 DEF JournalRecordSet
<1>4. \A i \in 1..n : Rec(i) = [found[i] EXCEPT !.seq = i]
  BY <1>1 DEF JournalRecordSet
<1>5. Renumbered(found) = [i \in 1..n |-> Rec(i)]
  BY <1>1 DEF Renumbered
<1>6. Renumbered(found) = [i \in DOMAIN found |-> [found[i] EXCEPT !.seq = i]]
  BY <1>1, <1>4, <1>5
<1> HIDE DEF Rec, n
<1>7. /\ Renumbered(found) \in Seq(JournalRecordSet) /\ DOMAIN Renumbered(found) = 1..n
      /\ \A i \in 1..n : Renumbered(found)[i] = Rec(i)
  BY <1>1, <1>3, <1>5
<1> DEFINE b == Renumbered(found)
<1> HIDE DEF b
<1>8. \A i \in 1..n : b[i].seq = i /\ b[i].of = found[i].of
  BY <1>3, <1>7 DEF b
<1>9. ASSUME \A i \in DOMAIN found : found[i].of # NoEvent
      PROVE  /\ AwaitsAck(b) = Range(b)
             /\ \A w \in Range(found) : \E v \in AwaitsAck(b) : v.of = w.of
  <2>1. \A k : ~AckCovers(b, k)
    BY <1>1, <1>7, <1>8, <1>9 DEF AckCovers, b
  <2>2. AwaitsAck(b) = Range(b)
    BY <1>1, <1>7, <1>8, <1>9, <2>1 DEF AwaitsAck, Range, b
  <2>3. \A w \in Range(found) : \E v \in Range(b) : v.of = w.of
    BY <1>1, <1>7, <1>8 DEF Range, b
  <2> QED
    BY <2>2, <2>3
<1> QED
  BY <1>1, <1>6, <1>7, <1>8, <1>9 DEF b

-----------------------------------------------------------------------------
JournalSteps == {"recovered", "rewriting", "rewritten", "placed", "opened", "running", "ended"}
SessionSet ==
  [at : JournalSteps, recovers : BOOLEAN, beside : BOOLEAN, found : Seq(JournalRecordSet), start : Nat \ {0},
   file : Nat, next : Nat \ {0}, pending : Seq(JournalRecordSet)]

(* an adapter that found nobody else there, and whom nobody has met while it began *)
BegunAlone(s) == Alive(s) /\ ~sessions[s].beside

SessionShape(s) ==
  /\ sessions[s].file \in 0..Len(journalFiles)
  /\ sessions[s].at \in {"rewriting", "rewritten", "opened", "running"} => sessions[s].file # NoInode
  /\ sessions[s].at \in {"recovered", "rewriting", "rewritten"} => sessions[s].recovers = TRUE
  /\ Alive(s) /\ ~Running(s) => sessions[s].pending = <<>>

OwnershipShape ==
  /\ journalFiles \in Seq(Seq(JournalRecordSet))
  /\ atPath \in 0..Len(journalFiles) /\ atSpare \in 0..Len(journalFiles)
  /\ atPath # NoInode => atPath # atSpare
  /\ sessions \in Seq(SessionSet)
  /\ \A s \in DOMAIN sessions : SessionShape(s)
  /\ journaled \in Nat /\ takenOver \in BOOLEAN

OneFileEach ==
  \A s, t \in DOMAIN sessions : Running(s) /\ Running(t) /\ s # t => sessions[s].file # sessions[t].file

BegunApart ==
  \A s, t \in DOMAIN sessions : BegunAlone(s) /\ Alive(t) /\ s # t => Running(s) /\ sessions[t].beside

(* What an adapter that is alone has found is what the path still holds, *)
(* or, once the compacted file is there, what that file holds.           *)
FoundHolds(s) ==
  /\ sessions[s].at \in {"recovered", "rewriting", "rewritten"} =>
       sessions[s].found = Unacknowledged(RecordsAt(atPath))
  /\ sessions[s].at \in {"rewriting", "rewritten"} => sessions[s].file = atSpare
  /\ sessions[s].at = "rewriting" => journalFiles[sessions[s].file] = <<>>
  /\ sessions[s].at = "rewritten" => journalFiles[sessions[s].file] = Renumbered(sessions[s].found)
  /\ sessions[s].at \in {"placed", "opened"} =>
       IF sessions[s].recovers
       THEN /\ atPath # NoInode /\ RecordsAt(atPath) = Renumbered(sessions[s].found)
            /\ \A i \in DOMAIN sessions[s].found : sessions[s].found[i].of # NoEvent
       ELSE sessions[s].start = NextSeq(RecordsAt(atPath))
  /\ sessions[s].at = "opened" => sessions[s].file = atPath

JournalTold == deliveredThere \cup skippedOver

(* The adapter that runs writes the file at the path, numbers above all    *)
(* that is there, and has every event in its queue that waits there.       *)
OwnsPath(s) ==
  /\ ~sessions[s].beside /\ sessions[s].file = atPath
  /\ \A i \in DOMAIN RecordsAt(atPath) : RecordsAt(atPath)[i].seq < sessions[s].next
  /\ \A i \in DOMAIN sessions[s].pending : sessions[s].pending[i].seq < sessions[s].next
  /\ \A i, j \in DOMAIN sessions[s].pending : i < j => sessions[s].pending[i].seq < sessions[s].pending[j].seq
  /\ \A r \in AwaitsAck(RecordsAt(atPath)) : r.of \in JournalTold \/ r \in Range(sessions[s].pending)

Undisturbed ==
  /\ \A s \in DOMAIN sessions : BegunAlone(s) => FoundHolds(s)
  /\ \A s \in DOMAIN sessions : Running(s) => OwnsPath(s)
  /\ \A s \in DOMAIN sessions : sessions[s].at \in {"rewriting", "rewritten"} => sessions[s].file # atPath
  /\ \A e \in 1..journaled : e \in JournalTold \/ \E r \in AwaitsAck(RecordsAt(atPath)) : r.of = e

OwnershipInv ==
  /\ OwnershipShape /\ OneFileEach /\ BegunApart
  /\ ~takenOver => Undisturbed

(* one adapter goes on, and the others stay as they are *)
GoesOn(ss, tt, s, x, f, n, q) ==
  /\ tt \in Seq(SessionSet) /\ DOMAIN tt = DOMAIN ss
  /\ \A t \in DOMAIN ss : t # s => tt[t] = ss[t]
  /\ tt[s].at = x /\ tt[s].file = f /\ tt[s].next = n /\ tt[s].pending = q
  /\ tt[s].recovers = ss[s].recovers /\ tt[s].beside = ss[s].beside
  /\ tt[s].found = ss[s].found /\ tt[s].start = ss[s].start

LEMMA ChangedStep ==
  ASSUME NEW ss \in Seq(SessionSet), NEW s \in DOMAIN ss, NEW x \in JournalSteps
  PROVE  GoesOn(ss, [ss EXCEPT ![s].at = x], s, x, ss[s].file, ss[s].next, ss[s].pending)
<1> DEFINE r == [ss[s] EXCEPT !.at = x]
           tt == [ss EXCEPT ![s] = r]
<1>1. ss[s] \in SessionSet
  OBVIOUS
<1>2. /\ r \in SessionSet /\ r.at = x /\ r.file = ss[s].file /\ r.next = ss[s].next /\ r.pending = ss[s].pending
      /\ r.recovers = ss[s].recovers /\ r.beside = ss[s].beside /\ r.found = ss[s].found /\ r.start = ss[s].start
  BY <1>1 DEF SessionSet
<1> HIDE DEF r
<1>3. tt \in Seq(SessionSet) /\ DOMAIN tt = DOMAIN ss /\ tt[s] = r /\ \A t \in DOMAIN ss : t # s => tt[t] = ss[t]
  BY <1>2
<1> HIDE DEF tt
<1>4. GoesOn(ss, tt, s, x, ss[s].file, ss[s].next, ss[s].pending)
  BY <1>2, <1>3 DEF GoesOn
<1> QED
  BY <1>4 DEF tt, r

LEMMA ChangedFile ==
  ASSUME NEW ss \in Seq(SessionSet), NEW s \in DOMAIN ss, NEW x \in JournalSteps, NEW f \in Nat
  PROVE  GoesOn(ss, [[ss EXCEPT ![s].at = x] EXCEPT ![s].file = f], s, x, f, ss[s].next, ss[s].pending)
<1> DEFINE r == [ss[s] EXCEPT !.at = x, !.file = f]
           tt == [ss EXCEPT ![s] = r]
<1>1. ss[s] \in SessionSet
  OBVIOUS
<1>2. /\ r \in SessionSet /\ r.at = x /\ r.file = f /\ r.next = ss[s].next /\ r.pending = ss[s].pending
      /\ r.recovers = ss[s].recovers /\ r.beside = ss[s].beside /\ r.found = ss[s].found /\ r.start = ss[s].start
  BY <1>1 DEF SessionSet
<1>3. [[ss EXCEPT ![s].at = x] EXCEPT ![s].file = f] = tt
  BY <1>1 DEF SessionSet
<1> HIDE DEF r
<1>4. tt \in Seq(SessionSet) /\ DOMAIN tt = DOMAIN ss /\ tt[s] = r /\ \A t \in DOMAIN ss : t # s => tt[t] = ss[t]
  BY <1>2
<1> HIDE DEF tt
<1>5. GoesOn(ss, tt, s, x, f, ss[s].next, ss[s].pending)
  BY <1>2, <1>4 DEF GoesOn
<1> QED
  BY <1>3, <1>5 DEF tt, r

LEMMA ChangedQueue ==
  ASSUME NEW ss \in Seq(SessionSet), NEW s \in DOMAIN ss, NEW n \in Nat \ {0}, NEW q \in Seq(JournalRecordSet)
  PROVE  /\ GoesOn(ss, [[ss EXCEPT ![s].at = "running"] EXCEPT ![s].next = n, ![s].pending = q],
                    s, "running", ss[s].file, n, q)
         /\ GoesOn(ss, [[ss EXCEPT ![s].at = "running"] EXCEPT ![s].next = n],
                    s, "running", ss[s].file, n, ss[s].pending)
         /\ GoesOn(ss, [ss EXCEPT ![s].next = n, ![s].pending = q], s, ss[s].at, ss[s].file, n, q)
         /\ GoesOn(ss, [ss EXCEPT ![s].pending = q], s, ss[s].at, ss[s].file, ss[s].next, q)
<1>1. ss[s] \in SessionSet
  OBVIOUS
<1>2. ss[s].next \in Nat \ {0} /\ ss[s].pending \in Seq(JournalRecordSet) /\ ss[s].at \in JournalSteps
  BY <1>1 DEF SessionSet
<1>3. ASSUME NEW x \in JournalSteps, NEW m \in Nat \ {0}, NEW p \in Seq(JournalRecordSet)
      PROVE  GoesOn(ss, [ss EXCEPT ![s] = [ss[s] EXCEPT !.at = x, !.next = m, !.pending = p]], s, x, ss[s].file, m, p)
  <2> DEFINE r == [ss[s] EXCEPT !.at = x, !.next = m, !.pending = p]
             tt == [ss EXCEPT ![s] = r]
  <2>1. /\ r \in SessionSet /\ r.at = x /\ r.file = ss[s].file /\ r.next = m /\ r.pending = p
        /\ r.recovers = ss[s].recovers /\ r.beside = ss[s].beside /\ r.found = ss[s].found /\ r.start = ss[s].start
    BY <1>1 DEF SessionSet
  <2> HIDE DEF r
  <2>2. tt \in Seq(SessionSet) /\ DOMAIN tt = DOMAIN ss /\ tt[s] = r /\ \A t \in DOMAIN ss : t # s => tt[t] = ss[t]
    BY <2>1
  <2> HIDE DEF tt
  <2>3. GoesOn(ss, tt, s, x, ss[s].file, m, p)
    BY <2>1, <2>2 DEF GoesOn
  <2> QED
    BY <2>3 DEF tt, r
<1>4. "running" \in JournalSteps
  BY DEF JournalSteps
<1>5. [[ss EXCEPT ![s].at = "running"] EXCEPT ![s].next = n, ![s].pending = q]
        = [ss EXCEPT ![s] = [ss[s] EXCEPT !.at = "running", !.next = n, !.pending = q]]
  BY <1>1 DEF SessionSet
<1>6. [[ss EXCEPT ![s].at = "running"] EXCEPT ![s].next = n]
        = [ss EXCEPT ![s] = [ss[s] EXCEPT !.at = "running", !.next = n, !.pending = ss[s].pending]]
  BY <1>1 DEF SessionSet
<1>7. [ss EXCEPT ![s].next = n, ![s].pending = q]
        = [ss EXCEPT ![s] = [ss[s] EXCEPT !.at = ss[s].at, !.next = n, !.pending = q]]
  BY <1>1 DEF SessionSet
<1>8. [ss EXCEPT ![s].pending = q]
        = [ss EXCEPT ![s] = [ss[s] EXCEPT !.at = ss[s].at, !.next = ss[s].next, !.pending = q]]
  BY <1>1 DEF SessionSet
<1> DEFINE Put(x, m, p) == [ss EXCEPT ![s] = [ss[s] EXCEPT !.at = x, !.next = m, !.pending = p]]
<1>9. \A x \in JournalSteps, m \in Nat \ {0}, p \in Seq(JournalRecordSet) :
        GoesOn(ss, Put(x, m, p), s, x, ss[s].file, m, p)
  BY <1>3
<1> HIDE DEF Put
<1>10. GoesOn(ss, Put("running", n, q), s, "running", ss[s].file, n, q)
  BY <1>4, <1>9
<1>11. GoesOn(ss, Put("running", n, ss[s].pending), s, "running", ss[s].file, n, ss[s].pending)
  BY <1>2, <1>4, <1>9
<1>12. GoesOn(ss, Put(ss[s].at, n, q), s, ss[s].at, ss[s].file, n, q)
  BY <1>2, <1>9
<1>13. GoesOn(ss, Put(ss[s].at, ss[s].next, q), s, ss[s].at, ss[s].file, ss[s].next, q)
  BY <1>2, <1>9
<1>14. GoesOn(ss, [[ss EXCEPT ![s].at = "running"] EXCEPT ![s].next = n, ![s].pending = q],
               s, "running", ss[s].file, n, q)
  BY <1>5, <1>10 DEF Put
<1>15. GoesOn(ss, [[ss EXCEPT ![s].at = "running"] EXCEPT ![s].next = n],
               s, "running", ss[s].file, n, ss[s].pending)
  BY <1>6, <1>11 DEF Put
<1>16. GoesOn(ss, [ss EXCEPT ![s].next = n, ![s].pending = q], s, ss[s].at, ss[s].file, n, q)
  BY <1>7, <1>12 DEF Put
<1>17. GoesOn(ss, [ss EXCEPT ![s].pending = q], s, ss[s].at, ss[s].file, ss[s].next, q)
  BY <1>8, <1>13 DEF Put
<1> QED
  BY <1>14, <1>15, <1>16, <1>17

(* one file has new content, or is new *)
FileIs(F, G, f, c) ==
  /\ G \in Seq(Seq(JournalRecordSet)) /\ Len(F) <= Len(G) /\ f \in 1..Len(G) /\ G[f] = c
  /\ \A k \in 1..Len(F) : k # f => G[k] = F[k]

LEMMA FileRewritten ==
  ASSUME NEW F \in Seq(Seq(JournalRecordSet)), NEW f \in 1..Len(F), NEW c \in Seq(JournalRecordSet)
  PROVE  FileIs(F, [F EXCEPT ![f] = c], f, c) /\ Len([F EXCEPT ![f] = c]) = Len(F)
<1> DEFINE L == Seq(JournalRecordSet)
<1>1. F \in Seq(L) /\ c \in L
  OBVIOUS
<1> HIDE DEF L
<1> DEFINE G == [F EXCEPT ![f] = c]
<1>2. G \in Seq(L) /\ Len(G) = Len(F) /\ G[f] = c /\ \A k \in 1..Len(F) : k # f => G[k] = F[k]
  BY <1>1
<1>3. Len(F) \in Nat
  BY <1>1
<1> HIDE DEF G
<1>4. FileIs(F, G, f, c) /\ Len(G) = Len(F)
  BY <1>2, <1>3 DEF FileIs, L
<1> QED
  BY <1>4 DEF G

LEMMA FileAdded ==
  ASSUME NEW F \in Seq(Seq(JournalRecordSet)), NEW c \in Seq(JournalRecordSet)
  PROVE  FileIs(F, Append(F, c), Len(F) + 1, c) /\ Len(Append(F, c)) = Len(F) + 1
<1> DEFINE L == Seq(JournalRecordSet)
<1>1. F \in Seq(L) /\ c \in L
  OBVIOUS
<1> HIDE DEF L
<1> DEFINE G == Append(F, c)
<1>2. G \in Seq(L) /\ Len(G) = Len(F) + 1 /\ G[Len(F) + 1] = c /\ \A k \in 1..Len(F) : G[k] = F[k]
  BY <1>1
<1>3. Len(F) \in Nat
  BY <1>1
<1> HIDE DEF G
<1>4. FileIs(F, G, Len(F) + 1, c) /\ Len(G) = Len(F) + 1
  BY <1>2, <1>3 DEF FileIs, L
<1> QED
  BY <1>4 DEF G

LEMMA ShapeKept ==
  ASSUME OwnershipShape, NEW s \in DOMAIN sessions, NEW x, NEW f, NEW n, NEW q,
         GoesOn(sessions, sessions', s, x, f, n, q),
         journalFiles' \in Seq(Seq(JournalRecordSet)), Len(journalFiles) <= Len(journalFiles'),
         f \in 0..Len(journalFiles'),
         x \in {"rewriting", "rewritten", "opened", "running"} => f # NoInode,
         x \in {"recovered", "rewriting", "rewritten"} => sessions[s].recovers = TRUE,
         x # "ended" /\ x # "running" => q = <<>>
  PROVE  sessions' \in Seq(SessionSet) /\ \A t \in DOMAIN sessions' : SessionShape(t)'
<1>1. Len(journalFiles) \in Nat /\ Len(journalFiles') \in Nat
  BY DEF OwnershipShape
<1>2. ASSUME NEW t \in DOMAIN sessions', t # s PROVE SessionShape(t)'
  <2>1. t \in DOMAIN sessions /\ sessions'[t] = sessions[t]
    BY <1>2 DEF GoesOn
  <2>2. SessionShape(t)
    BY <2>1 DEF OwnershipShape
  <2> QED
    BY <1>1, <2>1, <2>2 DEF SessionShape, Alive, Running
<1>3. SessionShape(s)'
  BY DEF GoesOn, SessionShape, Alive, Running
<1> QED
  BY <1>2, <1>3 DEF GoesOn

LEMMA ApartKept ==
  ASSUME BegunApart, NEW s \in DOMAIN sessions, NEW x, NEW f, NEW n, NEW q,
         GoesOn(sessions, sessions', s, x, f, n, q), Alive(s), Running(s) => x \in {"running", "ended"}
  PROVE  BegunApart'
<1> SUFFICES ASSUME NEW u \in DOMAIN sessions', NEW t \in DOMAIN sessions', BegunAlone(u)', Alive(t)', u # t
             PROVE  Running(u)' /\ sessions'[t].beside
  BY DEF BegunApart
<1>1. u \in DOMAIN sessions /\ t \in DOMAIN sessions
  BY DEF GoesOn
<1>2. sessions'[u].beside = sessions[u].beside /\ sessions'[t].beside = sessions[t].beside
  BY <1>1 DEF GoesOn
<1>3. Alive(u) /\ Alive(t) /\ ~sessions[u].beside
  BY <1>1, <1>2 DEF GoesOn, BegunAlone, Alive
<1>4. Running(u) /\ sessions[t].beside
  BY <1>1, <1>3 DEF BegunApart, BegunAlone
<1>5. Running(u)'
  BY <1>1, <1>4 DEF GoesOn, BegunAlone, Alive, Running
<1> QED
  BY <1>2, <1>4, <1>5

LEMMA OneFileKept ==
  ASSUME OneFileEach, NEW s \in DOMAIN sessions, NEW x, NEW f, NEW n, NEW q,
         GoesOn(sessions, sessions', s, x, f, n, q),
         x = "running" => \A t \in DOMAIN sessions : Running(t) /\ t # s => sessions[t].file # f
  PROVE  OneFileEach'
<1> SUFFICES ASSUME NEW u \in DOMAIN sessions', NEW t \in DOMAIN sessions', Running(u)', Running(t)', u # t
             PROVE  sessions'[u].file # sessions'[t].file
  BY DEF OneFileEach
<1>1. u \in DOMAIN sessions /\ t \in DOMAIN sessions
  BY DEF GoesOn
<1>2. CASE u = s
  BY <1>1, <1>2 DEF GoesOn, Running
<1>3. CASE t = s
  BY <1>1, <1>3 DEF GoesOn, Running
<1>4. CASE u # s /\ t # s
  BY <1>1, <1>4 DEF GoesOn, Running, OneFileEach
<1> QED
  BY <1>2, <1>3, <1>4

(* An adapter that is alone, and begins, has nobody else there. *)
LEMMA AloneIs ==
  ASSUME BegunApart, NEW s \in DOMAIN sessions, Alive(s), ~Running(s)
  PROVE  /\ ~sessions[s].beside => \A t \in DOMAIN sessions : t # s => ~Alive(t)
         /\ \A t \in DOMAIN sessions : t # s /\ BegunAlone(t) => Running(t)
BY DEF BegunApart, BegunAlone

(* The adapter that runs undisturbed is the only one not beside another. *)
LEMMA RunningIs ==
  ASSUME BegunApart, NEW s \in DOMAIN sessions, Running(s), ~sessions[s].beside, Undisturbed
  PROVE  \A t \in DOMAIN sessions : t # s => ~BegunAlone(t) /\ ~Running(t)
<1> SUFFICES ASSUME NEW t \in DOMAIN sessions, t # s PROVE ~BegunAlone(t) /\ ~Running(t)
  OBVIOUS
<1>1. Alive(s) /\ (Running(t) => Alive(t))
  BY DEF Alive, Running
<1>2. BegunAlone(s)
  BY <1>1 DEF BegunAlone
<1>3. Alive(t) => sessions[t].beside
  BY <1>2 DEF BegunApart
<1> QED
  BY <1>1, <1>3 DEF Undisturbed, OwnsPath, BegunAlone

LEMMA InitOwnership == OwnershipInit => OwnershipInv
<1> SUFFICES ASSUME OwnershipInit PROVE OwnershipInv
  OBVIOUS
<1>1. journalFiles = <<>> /\ sessions = <<>> /\ atPath = 0 /\ atSpare = 0 /\ journaled = 0 /\ takenOver = FALSE
  BY DEF OwnershipInit, NoInode
<1>2. OwnershipShape
  <2>1. journalFiles \in Seq(Seq(JournalRecordSet)) /\ Len(journalFiles) = 0
    BY <1>1
  <2>2. sessions \in Seq(SessionSet) /\ DOMAIN sessions = {}
    BY <1>1
  <2>3. atPath \in 0..Len(journalFiles) /\ atSpare \in 0..Len(journalFiles)
    BY <1>1, <2>1
  <2>4. journaled \in Nat /\ takenOver \in BOOLEAN
    BY <1>1
  <2>5. atPath = NoInode
    BY <1>1 DEF NoInode
  <2> QED
    BY <2>1, <2>2, <2>3, <2>4, <2>5 DEF OwnershipShape
<1>3. OneFileEach /\ BegunApart /\ Undisturbed
  BY <1>1 DEF OneFileEach, BegunApart, Undisturbed
<1> QED
  BY <1>2, <1>3 DEF OwnershipInv

LEMMA PathRecords ==
  ASSUME OwnershipShape
  PROVE  /\ RecordsAt(atPath) \in Seq(JournalRecordSet)
         /\ \A k \in 1..Len(journalFiles) : journalFiles[k] \in Seq(JournalRecordSet)
         /\ Len(journalFiles) \in Nat
<1> DEFINE L == Seq(JournalRecordSet)
<1>1. journalFiles \in Seq(L)
  BY DEF OwnershipShape
<1>2. <<>> \in L
  OBVIOUS
<1> HIDE DEF L
<1>3. Len(journalFiles) \in Nat /\ \A k \in 1..Len(journalFiles) : journalFiles[k] \in L
  BY <1>1
<1>4. atPath \in 0..Len(journalFiles)
  BY DEF OwnershipShape
<1>5. atPath # NoInode => atPath \in 1..Len(journalFiles)
  BY <1>3, <1>4 DEF NoInode
<1>6. RecordsAt(atPath) \in L
  BY <1>2, <1>3, <1>5 DEF RecordsAt
<1> QED
  BY <1>3, <1>6 DEF L

LEMMA PathKept ==
  ASSUME OwnershipShape, NEW f, NEW c, FileIs(journalFiles, journalFiles', f, c), f # atPath, atPath' = atPath
  PROVE  RecordsAt(atPath)' = RecordsAt(atPath)
<1>1. atPath \in 0..Len(journalFiles) /\ Len(journalFiles) \in Nat
  BY PathRecords DEF OwnershipShape
<1>2. atPath # NoInode => atPath \in 1..Len(journalFiles)
  BY <1>1 DEF NoInode
<1>3. atPath # NoInode => journalFiles'[atPath] = journalFiles[atPath]
  BY <1>2 DEF FileIs
<1> QED
  BY <1>3 DEF RecordsAt

(* An adapter that goes on without taking the path or the lock disturbs nobody. *)
LEMMA UndisturbedKept ==
  ASSUME OwnershipShape, BegunApart, Undisturbed, NEW s \in DOMAIN sessions, NEW x, NEW f, NEW n, NEW q,
         GoesOn(sessions, sessions', s, x, f, n, q), Alive(s), x # "running",
         RecordsAt(atPath)' = RecordsAt(atPath),
         \A t \in DOMAIN sessions : Running(t) => atPath' = atPath,
         journaled' = journaled, deliveredThere' = deliveredThere, skippedOver' = skippedOver,
         x \in {"rewriting", "rewritten"} => f # atPath',
         \A t \in DOMAIN sessions : sessions[t].at \in {"rewriting", "rewritten"} => sessions[t].file # atPath',
         x # "ended" /\ ~sessions[s].beside => FoundHolds(s)'
  PROVE  Undisturbed'
<1>0. /\ DOMAIN sessions' = DOMAIN sessions
      /\ \A t \in DOMAIN sessions : t # s => sessions'[t] = sessions[t]
      /\ sessions'[s].at = x /\ sessions'[s].file = f /\ sessions'[s].beside = sessions[s].beside
  BY DEF GoesOn
<1>1. ASSUME NEW t \in DOMAIN sessions', BegunAlone(t)' PROVE FoundHolds(t)'
  <2>1. CASE t = s
    BY <1>0, <1>1, <2>1 DEF BegunAlone, Alive
  <2>2. CASE t # s
    <3>1. t \in DOMAIN sessions /\ sessions'[t] = sessions[t]
      BY <1>0, <2>2
    <3>2. BegunAlone(t)
      BY <1>1, <3>1 DEF BegunAlone, Alive
    <3>3. sessions'[t].at = "running"
      BY <2>2, <3>1, <3>2 DEF BegunApart, Running
    <3> QED
      BY <3>3 DEF FoundHolds
  <2> QED
    BY <2>1, <2>2
<1>2. ASSUME NEW t \in DOMAIN sessions', Running(t)' PROVE OwnsPath(t)'
  <2>1. t # s
    BY <1>0, <1>2 DEF Running
  <2>2. t \in DOMAIN sessions /\ sessions'[t] = sessions[t] /\ Running(t)
    BY <1>0, <1>2, <2>1 DEF Running
  <2>3. OwnsPath(t) /\ atPath' = atPath
    BY <2>2 DEF Undisturbed
  <2>4. JournalTold' = JournalTold
    BY DEF JournalTold
  <2> DEFINE log == RecordsAt(atPath)
  <2>5. log' = log
    OBVIOUS
  <2> HIDE DEF log
  <2> QED
    BY <2>2, <2>3, <2>4, <2>5 DEF OwnsPath, log
<1>3. ASSUME NEW t \in DOMAIN sessions', sessions'[t].at \in {"rewriting", "rewritten"}
      PROVE  sessions'[t].file # atPath'
  <2>1. CASE t = s
    BY <1>0, <1>3, <2>1
  <2>2. CASE t # s
    BY <1>0, <1>3, <2>2
  <2> QED
    BY <2>1, <2>2
<1>4. \A e \in 1..journaled' : e \in JournalTold' \/ \E r \in AwaitsAck(RecordsAt(atPath))' : r.of = e
  <2>1. JournalTold' = JournalTold
    BY DEF JournalTold
  <2> DEFINE log == RecordsAt(atPath)
  <2>2. log' = log
    OBVIOUS
  <2>3. \A e \in 1..journaled : e \in JournalTold \/ \E r \in AwaitsAck(log) : r.of = e
    BY DEF Undisturbed
  <2> HIDE DEF log
  <2> QED
    BY <2>1, <2>2, <2>3 DEF log
<1> QED
  BY <1>1, <1>2, <1>3, <1>4 DEF Undisturbed

LEMMA KeepsEndSession ==
  ASSUME OwnershipInv, NEW s \in DOMAIN sessions, EndSession(s)
  PROVE  OwnershipInv'
<1>0. OwnershipShape /\ OneFileEach /\ BegunApart /\ (~takenOver => Undisturbed)
  BY DEF OwnershipInv
<1>1. GoesOn(sessions, sessions', s, "ended", sessions[s].file, sessions[s].next, sessions[s].pending)
  <2>1. "ended" \in JournalSteps /\ sessions \in Seq(SessionSet)
    BY <1>0 DEF JournalSteps, OwnershipShape
  <2> QED
    BY <2>1, ChangedStep DEF EndSession, Goes
<1>2. /\ journalFiles' = journalFiles /\ atPath' = atPath /\ atSpare' = atSpare /\ journaled' = journaled
      /\ deliveredThere' = deliveredThere /\ takenOver' = takenOver /\ skippedOver' = skippedOver /\ Alive(s)
  BY DEF EndSession
<1>3. OwnershipShape'
  <2>1. Len(journalFiles) \in Nat /\ SessionShape(s)
    BY <1>0, PathRecords DEF OwnershipShape
  <2>2. sessions' \in Seq(SessionSet) /\ \A t \in DOMAIN sessions' : SessionShape(t)'
    <3>1. journalFiles' \in Seq(Seq(JournalRecordSet)) /\ Len(journalFiles) <= Len(journalFiles')
      BY <1>0, <1>2, <2>1 DEF OwnershipShape
    <3>2. sessions[s].file \in 0..Len(journalFiles')
      BY <1>2, <2>1 DEF SessionShape
    <3> QED
      BY <1>0, <1>1, <3>1, <3>2, ShapeKept
  <2> QED
    BY <1>0, <1>2, <2>2 DEF OwnershipShape
<1>4. BegunApart'
  BY <1>0, <1>1, <1>2, ApartKept
<1>5. OneFileEach'
  BY <1>0, <1>1, OneFileKept
<1>6. ~takenOver' => Undisturbed'
  <2> SUFFICES ASSUME ~takenOver' PROVE Undisturbed'
    OBVIOUS
  <2>1. Undisturbed
    BY <1>0, <1>2
  <2>2. RecordsAt(atPath)' = RecordsAt(atPath)
    BY <1>2 DEF RecordsAt
  <2>3. \A t \in DOMAIN sessions : sessions[t].at \in {"rewriting", "rewritten"} => sessions[t].file # atPath'
    BY <1>2, <2>1 DEF Undisturbed
  <2> QED
    BY <1>0, <1>1, <1>2, <2>1, <2>2, <2>3, UndisturbedKept, SMTT(30), ZenonT(60)
<1> QED
  BY <1>3, <1>4, <1>5, <1>6 DEF OwnershipInv

LEMMA KeepsOpenSpare ==
  ASSUME OwnershipInv, NEW s \in DOMAIN sessions, OpenSpare(s)
  PROVE  OwnershipInv'
<1>0. OwnershipShape /\ OneFileEach /\ BegunApart /\ (~takenOver => Undisturbed)
  BY DEF OwnershipInv
<1>1. /\ sessions[s].at = "recovered" /\ atPath' = atPath /\ journaled' = journaled
      /\ deliveredThere' = deliveredThere /\ takenOver' = takenOver /\ skippedOver' = skippedOver
      /\ Alive(s) /\ ~Running(s)
  BY DEF OpenSpare, Alive, Running
<1>2. /\ Len(journalFiles) \in Nat /\ journalFiles \in Seq(Seq(JournalRecordSet)) /\ <<>> \in Seq(JournalRecordSet)
      /\ atPath \in 0..Len(journalFiles) /\ atSpare \in 0..Len(journalFiles) /\ sessions \in Seq(SessionSet)
      /\ SessionShape(s)
  BY <1>0, PathRecords DEF OwnershipShape
<1>3. /\ FileIs(journalFiles, journalFiles', atSpare', <<>>) /\ atSpare' \in 1..Len(journalFiles')
      /\ Len(journalFiles) <= Len(journalFiles') /\ Len(journalFiles') \in Nat /\ atSpare' # atPath
  <2>1. CASE atSpare = NoInode
    <3>1. journalFiles' = Append(journalFiles, <<>>) /\ atSpare' = Len(journalFiles) + 1
      BY <2>1 DEF OpenSpare
    <3>2. FileIs(journalFiles, journalFiles', atSpare', <<>>) /\ Len(journalFiles') = Len(journalFiles) + 1
      BY <1>2, <3>1, FileAdded
    <3> QED
      BY <1>2, <3>1, <3>2
  <2>2. CASE atSpare # NoInode
    <3>1. journalFiles' = [journalFiles EXCEPT ![atSpare] = <<>>] /\ atSpare' = atSpare
      BY <2>2 DEF OpenSpare
    <3>2. atSpare \in 1..Len(journalFiles)
      BY <1>2, <2>2 DEF NoInode
    <3>3. FileIs(journalFiles, journalFiles', atSpare', <<>>) /\ Len(journalFiles') = Len(journalFiles)
      BY <1>2, <3>1, <3>2, FileRewritten
    <3>4. atSpare # atPath
      BY <1>0, <2>2 DEF OwnershipShape
    <3> QED
      BY <1>2, <3>1, <3>2, <3>3, <3>4
  <2> QED
    BY <2>1, <2>2
<1>4. GoesOn(sessions, sessions', s, "rewriting", atSpare', sessions[s].next, sessions[s].pending)
  <2>1. "rewriting" \in JournalSteps /\ atSpare' \in Nat
    BY <1>3 DEF JournalSteps
  <2>2. sessions' = [[sessions EXCEPT ![s].at = "rewriting"] EXCEPT ![s].file = atSpare']
    BY DEF OpenSpare, Goes
  <2> DEFINE spare == atSpare'
  <2>3. GoesOn(sessions, [[sessions EXCEPT ![s].at = "rewriting"] EXCEPT ![s].file = spare], s, "rewriting", spare,
                sessions[s].next, sessions[s].pending)
    <3>1. spare \in Nat
      BY <2>1
    <3> HIDE DEF spare
    <3> QED
      BY <1>2, <2>1, <3>1, ChangedFile
  <2> QED
    BY <2>2, <2>3
<1>5. OwnershipShape'
  <2>1. atSpare' # NoInode /\ atSpare' \in 0..Len(journalFiles') /\ atPath' \in 0..Len(journalFiles')
    BY <1>1, <1>2, <1>3 DEF NoInode
  <2>2. journalFiles' \in Seq(Seq(JournalRecordSet))
    BY <1>3 DEF FileIs
  <2>3. sessions[s].recovers = TRUE /\ sessions[s].pending = <<>>
    BY <1>1, <1>2 DEF SessionShape
  <2>4. sessions' \in Seq(SessionSet) /\ \A t \in DOMAIN sessions' : SessionShape(t)'
    BY <1>0, <1>3, <1>4, <2>1, <2>2, <2>3, ShapeKept
  <2> QED
    BY <1>0, <1>1, <1>3, <2>1, <2>2, <2>4 DEF OwnershipShape
<1>6. BegunApart'
  BY <1>0, <1>1, <1>4, ApartKept
<1>7. OneFileEach'
  BY <1>0, <1>4, OneFileKept
<1>8. ~takenOver' => Undisturbed'
  <2> SUFFICES ASSUME ~takenOver' PROVE Undisturbed'
    OBVIOUS
  <2>1. Undisturbed
    BY <1>0, <1>1
  <2>2. RecordsAt(atPath)' = RecordsAt(atPath)
    BY <1>0, <1>1, <1>3, PathKept
  <2>3. \A t \in DOMAIN sessions : sessions[t].at \in {"rewriting", "rewritten"} => sessions[t].file # atPath'
    BY <1>1, <2>1 DEF Undisturbed
  <2>4. ASSUME ~sessions[s].beside PROVE FoundHolds(s)'
    <3>1. FoundHolds(s)
      BY <1>1, <2>1, <2>4 DEF Undisturbed, BegunAlone
    <3> DEFINE log == RecordsAt(atPath)
    <3>2. sessions[s].found = Unacknowledged(log) /\ log' = log
      BY <1>1, <2>2, <3>1 DEF FoundHolds
    <3> HIDE DEF log
    <3>3. sessions'[s].found = Unacknowledged(log')
      BY <1>4, <3>2 DEF GoesOn
    <3>4. sessions'[s].at = "rewriting" /\ sessions'[s].file = atSpare'
      BY <1>4 DEF GoesOn
    <3>5. journalFiles'[sessions'[s].file] = <<>>
      BY <1>3, <3>4 DEF FileIs
    <3> QED
      BY <3>3, <3>4, <3>5 DEF FoundHolds, log
  <2>5. atSpare' # atPath'
    BY <1>1, <1>3
  <2> QED
    BY <1>0, <1>1, <1>4, <2>1, <2>2, <2>3, <2>4, <2>5, UndisturbedKept, SMTT(30), ZenonT(60)
<1> QED
  BY <1>5, <1>6, <1>7, <1>8 DEF OwnershipInv

LEMMA KeepsWriteSpare ==
  ASSUME OwnershipInv, NEW s \in DOMAIN sessions, WriteSpare(s)
  PROVE  OwnershipInv'
<1> DEFINE f == sessions[s].file
           new == Renumbered(sessions[s].found)
           old == journalFiles[f]
           c == new \o SubSeq(old, Len(new) + 1, Len(old))
<1>0. OwnershipShape /\ OneFileEach /\ BegunApart /\ (~takenOver => Undisturbed)
  BY DEF OwnershipInv
<1>1. /\ sessions[s].at = "rewriting" /\ atPath' = atPath /\ journaled' = journaled /\ atSpare' = atSpare
      /\ deliveredThere' = deliveredThere /\ takenOver' = takenOver /\ skippedOver' = skippedOver
      /\ Alive(s) /\ ~Running(s)
  BY DEF WriteSpare, Alive, Running
<1>2. /\ Len(journalFiles) \in Nat /\ journalFiles \in Seq(Seq(JournalRecordSet))
      /\ atPath \in 0..Len(journalFiles) /\ atSpare \in 0..Len(journalFiles) /\ sessions \in Seq(SessionSet)
      /\ SessionShape(s)
  BY <1>0, PathRecords DEF OwnershipShape
<1>3. f \in 1..Len(journalFiles) /\ f \in 0..Len(journalFiles) /\ f # NoInode
  BY <1>1, <1>2 DEF SessionShape, NoInode
<1>4. sessions[s].found \in Seq(JournalRecordSet)
  <2>1. sessions[s] \in SessionSet
    BY <1>2
  <2> QED
    BY <2>1 DEF SessionSet
<1>5. /\ new \in Seq(JournalRecordSet)
      /\ new = [i \in DOMAIN sessions[s].found |-> [sessions[s].found[i] EXCEPT !.seq = i]]
  BY <1>4, RenumberedIs
<1>6. journalFiles' = [journalFiles EXCEPT ![f] = c]
  <2> HIDE DEF new
  <2> QED
    BY <1>5 DEF WriteSpare
<1>7. old \in Seq(JournalRecordSet)
  BY <1>0, <1>3, PathRecords
<1>8. c \in Seq(JournalRecordSet) /\ (old = <<>> => c = new)
  <2> HIDE DEF new, old
  <2>1. SubSeq(old, Len(new) + 1, Len(old)) \in Seq(JournalRecordSet)
    BY <1>5, <1>7
  <2>2. old = <<>> => SubSeq(old, Len(new) + 1, Len(old)) = <<>>
    <3>1. Len(new) \in Nat
      BY <1>5
    <3> QED
      BY <3>1
  <2>3. new \o <<>> = new
    BY <1>5
  <2> QED
    BY <1>5, <2>1, <2>2, <2>3
<1> HIDE DEF c
<1>9. FileIs(journalFiles, journalFiles', f, c) /\ Len(journalFiles') = Len(journalFiles)
  <2> HIDE DEF f
  <2> QED
    BY <1>2, <1>3, <1>6, <1>8, FileRewritten
<1>10. GoesOn(sessions, sessions', s, "rewritten", f, sessions[s].next, sessions[s].pending)
  <2>1. "rewritten" \in JournalSteps
    BY DEF JournalSteps
  <2> QED
    BY <1>2, <2>1, ChangedStep DEF WriteSpare, Goes
<1> HIDE DEF f, new, old
<1>11. OwnershipShape'
  <2>1. journalFiles' \in Seq(Seq(JournalRecordSet)) /\ Len(journalFiles) <= Len(journalFiles')
    BY <1>2, <1>9 DEF FileIs
  <2>2. sessions[s].recovers = TRUE /\ sessions[s].pending = <<>> /\ f \in 0..Len(journalFiles')
    BY <1>1, <1>2, <1>3, <1>9 DEF SessionShape
  <2>3. sessions' \in Seq(SessionSet) /\ \A t \in DOMAIN sessions' : SessionShape(t)'
    BY <1>0, <1>3, <1>10, <2>1, <2>2, ShapeKept
  <2> QED
    BY <1>0, <1>1, <1>9, <2>1, <2>3 DEF OwnershipShape
<1>12. BegunApart'
  BY <1>0, <1>1, <1>10, ApartKept
<1>13. OneFileEach'
  BY <1>0, <1>10, OneFileKept
<1>14. ~takenOver' => Undisturbed'
  <2> SUFFICES ASSUME ~takenOver' PROVE Undisturbed'
    OBVIOUS
  <2>1. Undisturbed
    BY <1>0, <1>1
  <2>2. f # atPath /\ f # atPath'
    BY <1>1, <2>1 DEF Undisturbed, f
  <2>3. RecordsAt(atPath)' = RecordsAt(atPath)
    BY <1>0, <1>1, <1>9, <2>2, PathKept
  <2>4. \A t \in DOMAIN sessions : sessions[t].at \in {"rewriting", "rewritten"} => sessions[t].file # atPath'
    BY <1>1, <2>1 DEF Undisturbed
  <2>5. ASSUME ~sessions[s].beside PROVE FoundHolds(s)'
    <3>1. FoundHolds(s)
      BY <1>1, <2>1, <2>5 DEF Undisturbed, BegunAlone
    <3> DEFINE log == RecordsAt(atPath)
    <3>2. sessions[s].found = Unacknowledged(log) /\ log' = log /\ f = atSpare /\ old = <<>>
      BY <1>1, <2>3, <3>1 DEF FoundHolds, f, old
    <3> HIDE DEF log
    <3>3. /\ sessions'[s].found = Unacknowledged(log') /\ sessions'[s].at = "rewritten" /\ sessions'[s].file = atSpare'
          /\ sessions'[s].found = sessions[s].found
      BY <1>1, <1>10, <3>2 DEF GoesOn
    <3>4. journalFiles'[sessions'[s].file] = Renumbered(sessions'[s].found)
      BY <1>1, <1>8, <1>9, <3>2, <3>3 DEF FileIs, new
    <3> QED
      BY <3>3, <3>4 DEF FoundHolds, log
  <2> QED
    BY <1>0, <1>1, <1>10, <2>1, <2>2, <2>3, <2>4, <2>5, UndisturbedKept, SMTT(30), ZenonT(60)
<1> QED
  BY <1>11, <1>12, <1>13, <1>14 DEF OwnershipInv

LEMMA KeepsOpenJournal ==
  ASSUME OwnershipInv, NEW s \in DOMAIN sessions, OpenJournal(s)
  PROVE  OwnershipInv'
<1>0. OwnershipShape /\ OneFileEach /\ BegunApart /\ (~takenOver => Undisturbed)
  BY DEF OwnershipInv
<1>1. /\ sessions[s].at = "placed" /\ atSpare' = atSpare /\ journaled' = journaled
      /\ deliveredThere' = deliveredThere /\ takenOver' = takenOver /\ skippedOver' = skippedOver
      /\ Alive(s) /\ ~Running(s)
  BY DEF OpenJournal, Alive, Running
<1>2. /\ Len(journalFiles) \in Nat /\ journalFiles \in Seq(Seq(JournalRecordSet)) /\ <<>> \in Seq(JournalRecordSet)
      /\ atPath \in 0..Len(journalFiles) /\ atSpare \in 0..Len(journalFiles) /\ sessions \in Seq(SessionSet)
      /\ SessionShape(s)
  BY <1>0, PathRecords DEF OwnershipShape
<1>3. /\ atPath' \in 1..Len(journalFiles') /\ Len(journalFiles) <= Len(journalFiles') /\ Len(journalFiles') \in Nat
      /\ journalFiles' \in Seq(Seq(JournalRecordSet)) /\ atPath' # atSpare
      /\ RecordsAt(atPath)' = RecordsAt(atPath) /\ (atPath # NoInode => atPath' = atPath)
      /\ (atPath = NoInode => atPath' = Len(journalFiles) + 1)
  <2>1. CASE atPath = NoInode
    <3>1. journalFiles' = Append(journalFiles, <<>>) /\ atPath' = Len(journalFiles) + 1
      BY <2>1 DEF OpenJournal
    <3>2. FileIs(journalFiles, journalFiles', atPath', <<>>) /\ Len(journalFiles') = Len(journalFiles) + 1
      BY <1>2, <3>1, FileAdded
    <3>3. RecordsAt(atPath) = <<>> /\ atPath' # NoInode /\ journalFiles'[atPath'] = <<>>
      BY <1>2, <2>1, <3>1, <3>2 DEF RecordsAt, FileIs, NoInode
    <3>4. RecordsAt(atPath)' = <<>>
      BY <3>3 DEF RecordsAt
    <3>5. journalFiles' \in Seq(Seq(JournalRecordSet))
      BY <3>2 DEF FileIs
    <3>6. /\ atPath' \in 1..Len(journalFiles') /\ Len(journalFiles) <= Len(journalFiles') /\ Len(journalFiles') \in Nat
          /\ atPath' # atSpare
      BY <1>2, <3>1, <3>2
    <3> QED
      BY <2>1, <3>1, <3>3, <3>4, <3>5, <3>6
  <2>2. CASE atPath # NoInode
    <3>1. journalFiles' = journalFiles /\ atPath' = atPath
      BY <2>2 DEF OpenJournal
    <3>2. atPath # atSpare
      BY <1>0, <2>2 DEF OwnershipShape
    <3>3. RecordsAt(atPath)' = RecordsAt(atPath)
      BY <3>1 DEF RecordsAt
    <3>4. atPath' \in 1..Len(journalFiles') /\ Len(journalFiles) <= Len(journalFiles') /\ Len(journalFiles') \in Nat
      BY <1>2, <2>2, <3>1 DEF NoInode
    <3> QED
      BY <1>2, <2>2, <3>1, <3>2, <3>3, <3>4
  <2> QED
    BY <2>1, <2>2
<1>4. GoesOn(sessions, sessions', s, "opened", atPath', sessions[s].next, sessions[s].pending)
  <2> DEFINE path == atPath'
  <2>1. "opened" \in JournalSteps /\ path \in Nat
    BY <1>3 DEF JournalSteps
  <2>2. sessions' = [[sessions EXCEPT ![s].at = "opened"] EXCEPT ![s].file = path]
    BY DEF OpenJournal, Goes
  <2>3. sessions \in Seq(SessionSet)
    BY <1>2
  <2>4. GoesOn(sessions, [[sessions EXCEPT ![s].at = "opened"] EXCEPT ![s].file = path], s, "opened", path,
                sessions[s].next, sessions[s].pending)
    <3> HIDE DEF path
    <3> QED
      BY <2>1, <2>3, ChangedFile
  <2> QED
    BY <2>2, <2>4
<1>5. OwnershipShape'
  <2>1. atPath' # NoInode /\ atSpare' \in 0..Len(journalFiles') /\ atPath' \in 0..Len(journalFiles')
    <3>1. /\ atPath' \in 1..Len(journalFiles') /\ Len(journalFiles) <= Len(journalFiles') /\ Len(journalFiles') \in Nat
          /\ Len(journalFiles) \in Nat
      BY <1>2, <1>3
    <3>2. atSpare' \in 0..Len(journalFiles)
      BY <1>1, <1>2
    <3> QED
      BY <3>1, <3>2 DEF NoInode
  <2>2. sessions[s].pending = <<>>
    BY <1>1, <1>2 DEF SessionShape
  <2>3. sessions' \in Seq(SessionSet) /\ \A t \in DOMAIN sessions' : SessionShape(t)'
    BY <1>0, <1>3, <1>4, <2>1, <2>2, ShapeKept
  <2> QED
    BY <1>0, <1>1, <1>3, <2>1, <2>3 DEF OwnershipShape
<1>6. BegunApart'
  BY <1>0, <1>1, <1>4, ApartKept
<1>7. OneFileEach'
  BY <1>0, <1>4, OneFileKept
<1>8. ~takenOver' => Undisturbed'
  <2> SUFFICES ASSUME ~takenOver' PROVE Undisturbed'
    OBVIOUS
  <2>1. Undisturbed
    BY <1>0, <1>1
  <2>2. ASSUME NEW t \in DOMAIN sessions, Running(t) PROVE atPath' = atPath
    <3>1. OwnsPath(t) /\ SessionShape(t)
      BY <1>0, <2>1, <2>2 DEF Undisturbed, OwnershipShape
    <3>2. atPath # NoInode
      BY <2>2, <3>1 DEF OwnsPath, SessionShape, Running
    <3> QED
      BY <1>3, <3>2
  <2>3. ASSUME NEW t \in DOMAIN sessions, sessions[t].at \in {"rewriting", "rewritten"} PROVE sessions[t].file # atPath'
    <3>1. sessions[t].file \in 0..Len(journalFiles) /\ sessions[t].file # atPath
      BY <1>0, <2>1, <2>3 DEF Undisturbed, OwnershipShape, SessionShape
    <3>2. CASE atPath = NoInode
      <4>1. atPath' = Len(journalFiles) + 1 /\ Len(journalFiles) \in Nat
        BY <1>2, <1>3, <3>2
      <4> QED
        BY <3>1, <4>1
    <3>3. CASE atPath # NoInode
      <4>1. atPath' = atPath
        BY <1>3, <3>3
      <4> QED
        BY <3>1, <4>1
    <3> QED
      BY <3>2, <3>3
  <2>4. ASSUME ~sessions[s].beside PROVE FoundHolds(s)'
    <3>1. FoundHolds(s)
      BY <1>1, <2>1, <2>4 DEF Undisturbed, BegunAlone
    <3> DEFINE log == RecordsAt(atPath)
    <3>2. log' = log
      BY <1>3
    <3>3. IF sessions[s].recovers
          THEN /\ atPath # NoInode /\ log = Renumbered(sessions[s].found)
               /\ \A i \in DOMAIN sessions[s].found : sessions[s].found[i].of # NoEvent
          ELSE sessions[s].start = NextSeq(log)
      BY <1>1, <3>1 DEF FoundHolds
    <3> HIDE DEF log
    <3>4. /\ sessions'[s].at = "opened" /\ sessions'[s].file = atPath' /\ sessions'[s].found = sessions[s].found
          /\ sessions'[s].start = sessions[s].start /\ sessions'[s].recovers = sessions[s].recovers
      BY <1>4 DEF GoesOn
    <3>5. IF sessions'[s].recovers
          THEN /\ atPath' # NoInode /\ log' = Renumbered(sessions'[s].found)
               /\ \A i \in DOMAIN sessions'[s].found : sessions'[s].found[i].of # NoEvent
          ELSE sessions'[s].start = NextSeq(log')
      BY <1>3, <3>2, <3>3, <3>4
    <3> QED
      BY <3>4, <3>5 DEF FoundHolds, log
  <2>5. "opened" \in {"rewriting", "rewritten"} => atPath' # atPath'
    OBVIOUS
  <2>6. "opened" # "running" /\ RecordsAt(atPath)' = RecordsAt(atPath)
    BY <1>3
  <2>7. "opened" # "ended" /\ ~sessions[s].beside => FoundHolds(s)'
    BY <2>4
  <2> QED
    BY <1>0, <1>1, <1>4, <2>1, <2>2, <2>3, <2>5, <2>6, <2>7, UndisturbedKept, SMTT(30), ZenonT(60)
<1> QED
  BY <1>5, <1>6, <1>7, <1>8 DEF OwnershipInv

LEMMA KeepsPutInPlace ==
  ASSUME OwnershipInv, NEW s \in DOMAIN sessions, PutInPlace(s)
  PROVE  OwnershipInv'
<1>0. OwnershipShape /\ OneFileEach /\ BegunApart /\ (~takenOver => Undisturbed)
  BY DEF OwnershipInv
<1>1. /\ sessions[s].at = "rewritten" /\ journalFiles' = journalFiles /\ journaled' = journaled
      /\ deliveredThere' = deliveredThere /\ skippedOver' = skippedOver
      /\ Alive(s) /\ ~Running(s)
  BY DEF PutInPlace, Alive, Running
<1>2. /\ Len(journalFiles) \in Nat /\ journalFiles \in Seq(Seq(JournalRecordSet))
      /\ atPath \in 0..Len(journalFiles) /\ atSpare \in 0..Len(journalFiles) /\ sessions \in Seq(SessionSet)
      /\ SessionShape(s) /\ takenOver \in BOOLEAN
  BY <1>0, PathRecords DEF OwnershipShape
<1>3. /\ sessions[s].file \in 0..Len(journalFiles') /\ Len(journalFiles) <= Len(journalFiles')
      /\ journalFiles' \in Seq(Seq(JournalRecordSet)) /\ sessions[s].pending = <<>> /\ sessions[s].recovers = TRUE
  BY <1>1, <1>2 DEF SessionShape
<1>4. sessions[s].found \in Seq(JournalRecordSet) /\ sessions[s].beside \in BOOLEAN
  <2>1. sessions[s] \in SessionSet
    BY <1>2
  <2> QED
    BY <2>1 DEF SessionSet
<1>5. CASE atSpare = NoInode
  <2>1. atPath' = atPath /\ atSpare' = atSpare /\ takenOver' = takenOver
    BY <1>5 DEF PutInPlace
  <2>2. GoesOn(sessions, sessions', s, "ended", sessions[s].file, sessions[s].next, sessions[s].pending)
    <3>1. "ended" \in JournalSteps
      BY DEF JournalSteps
    <3> QED
      BY <1>2, <1>5, <3>1, ChangedStep DEF PutInPlace, Goes
  <2>3. sessions' \in Seq(SessionSet) /\ \A t \in DOMAIN sessions' : SessionShape(t)'
    BY <1>0, <1>3, <2>2, ShapeKept
  <2>4. OwnershipShape'
    BY <1>0, <1>1, <2>1, <2>3 DEF OwnershipShape
  <2>5. BegunApart'
    BY <1>0, <1>1, <2>2, ApartKept
  <2>6. OneFileEach'
    BY <1>0, <2>2, OneFileKept
  <2>7. ~takenOver' => Undisturbed'
    <3> SUFFICES ASSUME ~takenOver' PROVE Undisturbed'
      OBVIOUS
    <3>1. Undisturbed
      BY <1>0, <2>1
    <3>2. RecordsAt(atPath)' = RecordsAt(atPath)
      BY <1>1, <2>1 DEF RecordsAt
    <3>3. \A t \in DOMAIN sessions : sessions[t].at \in {"rewriting", "rewritten"} => sessions[t].file # atPath'
      BY <2>1, <3>1 DEF Undisturbed
    <3>4. "ended" \notin {"rewriting", "rewritten"} /\ "ended" # "running"
      OBVIOUS
    <3>5. journaled' = journaled /\ deliveredThere' = deliveredThere /\ skippedOver' = skippedOver /\ Alive(s)
      BY <1>1, <2>1
    <3>6. \A t \in DOMAIN sessions : Running(t) => atPath' = atPath
      BY <1>1, <2>1
    <3> QED
      BY <1>0, <2>2, <3>1, <3>2, <3>3, <3>4, <3>5, <3>6, UndisturbedKept, SMTT(30), ZenonT(60)
  <2> QED
    BY <2>4, <2>5, <2>6, <2>7 DEF OwnershipInv
<1>6. CASE atSpare # NoInode
  <2>1. atPath' = atSpare /\ atSpare' = NoInode /\ takenOver' = (takenOver \/ sessions[s].beside)
    BY <1>6 DEF PutInPlace
  <2>2. GoesOn(sessions, sessions', s, "placed", sessions[s].file, sessions[s].next, sessions[s].pending)
    <3>1. "placed" \in JournalSteps
      BY DEF JournalSteps
    <3> QED
      BY <1>2, <1>6, <3>1, ChangedStep DEF PutInPlace, Goes
  <2>3. sessions' \in Seq(SessionSet) /\ \A t \in DOMAIN sessions' : SessionShape(t)'
    BY <1>0, <1>3, <2>2, ShapeKept
  <2>4. OwnershipShape'
    <3>1. takenOver' \in BOOLEAN
      BY <2>1
    <3>2. NoInode \in 0..Len(journalFiles') /\ atPath' # NoInode
      BY <1>1, <1>2, <1>6, <2>1 DEF NoInode
    <3> QED
      BY <1>0, <1>1, <2>1, <2>3, <3>1, <3>2 DEF OwnershipShape
  <2>5. BegunApart'
    BY <1>0, <1>1, <2>2, ApartKept
  <2>6. OneFileEach'
    BY <1>0, <2>2, OneFileKept
  <2>7. ~takenOver' => Undisturbed'
    <3> SUFFICES ASSUME ~takenOver' PROVE Undisturbed'
      OBVIOUS
    <3>1. Undisturbed /\ ~sessions[s].beside
      BY <1>0, <2>1
    <3>2. \A t \in DOMAIN sessions : t # s => ~Alive(t)
      BY <1>0, <1>1, <3>1, AloneIs
    <3>3. FoundHolds(s)
      BY <1>1, <3>1 DEF Undisturbed, BegunAlone
    <3> DEFINE log == RecordsAt(atPath)
    <3>4. /\ sessions[s].found = Unacknowledged(log) /\ sessions[s].file = atSpare
          /\ journalFiles[atSpare] = Renumbered(sessions[s].found)
      BY <1>1, <3>3 DEF FoundHolds
    <3>5. log \in Seq(JournalRecordSet)
      BY <1>0, PathRecords
    <3> HIDE DEF log
    <3>6. Range(sessions[s].found) = AwaitsAck(log)
      BY <3>4, <3>5, UnacknowledgedIs
    <3>7. \A i \in DOMAIN sessions[s].found : sessions[s].found[i].of # NoEvent
      BY <3>6 DEF Range, AwaitsAck
    <3>8. RecordsAt(atPath)' = Renumbered(sessions[s].found)
      BY <1>1, <1>6, <2>1, <3>4 DEF RecordsAt
    <3>9. /\ DOMAIN sessions' = DOMAIN sessions /\ \A t \in DOMAIN sessions : t # s => sessions'[t] = sessions[t]
          /\ sessions'[s].at = "placed" /\ sessions'[s].found = sessions[s].found
          /\ sessions'[s].recovers = sessions[s].recovers
      BY <2>2 DEF GoesOn
    <3>10. \A t \in DOMAIN sessions' : t # s => sessions'[t].at = "ended"
      BY <3>2, <3>9 DEF Alive
    <3>11. FoundHolds(s)'
      <4>1. atPath' # NoInode
        BY <1>6, <2>1
      <4>2. IF sessions'[s].recovers
            THEN /\ atPath' # NoInode /\ RecordsAt(atPath)' = Renumbered(sessions'[s].found)
                 /\ \A i \in DOMAIN sessions'[s].found : sessions'[s].found[i].of # NoEvent
            ELSE sessions'[s].start = NextSeq(RecordsAt(atPath))'
        BY <1>3, <3>7, <3>8, <3>9, <4>1
      <4> QED
        BY <3>9, <4>2 DEF FoundHolds
    <3>12. \A t \in DOMAIN sessions' : BegunAlone(t)' => FoundHolds(t)'
      BY <3>10, <3>11 DEF BegunAlone, Alive
    <3>13. \A t \in DOMAIN sessions' : ~Running(t)'
      BY <3>9, <3>10 DEF Running
    <3>14. \A t \in DOMAIN sessions' : sessions'[t].at \notin {"rewriting", "rewritten"}
      <4>1. \A t \in DOMAIN sessions' : sessions'[t].at = "placed" \/ sessions'[t].at = "ended"
        BY <3>9, <3>10
      <4> QED
        BY <4>1
    <3>15. ASSUME NEW e \in 1..journaled' PROVE e \in JournalTold' \/ \E r \in AwaitsAck(RecordsAt(atPath))' : r.of = e
      <4>1. JournalTold' = JournalTold /\ e \in 1..journaled
        BY <1>1 DEF JournalTold
      <4>2. e \in JournalTold \/ \E r \in AwaitsAck(log) : r.of = e
        BY <3>1, <4>1 DEF Undisturbed, log
      <4>3. \A w \in Range(sessions[s].found) : \E v \in AwaitsAck(Renumbered(sessions[s].found)) : v.of = w.of
        BY <1>4, <3>7, RenumberedIs
      <4>4. AwaitsAck(RecordsAt(atPath))' = AwaitsAck(Renumbered(sessions[s].found))
        BY <3>8
      <4> QED
        BY <3>6, <4>1, <4>2, <4>3, <4>4
    <3> QED
      BY <3>12, <3>13, <3>14, <3>15 DEF Undisturbed
  <2> QED
    BY <2>4, <2>5, <2>6, <2>7 DEF OwnershipInv
<1> QED
  BY <1>5, <1>6

LEMMA KeepsLockJournal ==
  ASSUME OwnershipInv, NEW s \in DOMAIN sessions, LockJournal(s)
  PROVE  OwnershipInv'
<1>0. OwnershipShape /\ OneFileEach /\ BegunApart /\ (~takenOver => Undisturbed)
  BY DEF OwnershipInv
<1>1. /\ sessions[s].at = "opened" /\ journalFiles' = journalFiles /\ journaled' = journaled
      /\ deliveredThere' = deliveredThere /\ atPath' = atPath /\ atSpare' = atSpare
      /\ Alive(s) /\ ~Running(s)
  BY DEF LockJournal, Alive, Running
<1>2. /\ Len(journalFiles) \in Nat /\ journalFiles \in Seq(Seq(JournalRecordSet))
      /\ atPath \in 0..Len(journalFiles) /\ atSpare \in 0..Len(journalFiles) /\ sessions \in Seq(SessionSet)
      /\ SessionShape(s) /\ takenOver \in BOOLEAN
  BY <1>0, PathRecords DEF OwnershipShape
<1>3. /\ sessions[s].file \in 0..Len(journalFiles') /\ Len(journalFiles) <= Len(journalFiles')
      /\ journalFiles' \in Seq(Seq(JournalRecordSet)) /\ sessions[s].pending = <<>> /\ sessions[s].file # NoInode
  BY <1>1, <1>2 DEF SessionShape
<1>4. /\ sessions[s].found \in Seq(JournalRecordSet) /\ sessions[s].beside \in BOOLEAN
      /\ sessions[s].recovers \in BOOLEAN
      /\ sessions[s].start \in Nat \ {0} /\ sessions[s].pending \in Seq(JournalRecordSet)
  <2>1. sessions[s] \in SessionSet
    BY <1>2
  <2> QED
    BY <2>1 DEF SessionSet
<1>5. CASE ~LockFree(sessions[s].file)
  <2>1. sessions' = [sessions EXCEPT ![s].at = "ended"] /\ skippedOver' = skippedOver /\ takenOver' = takenOver
    BY <1>5 DEF LockJournal, Goes
  <2>2. GoesOn(sessions, sessions', s, "ended", sessions[s].file, sessions[s].next, sessions[s].pending)
    <3>1. "ended" \in JournalSteps
      BY DEF JournalSteps
    <3> QED
      BY <1>2, <2>1, <3>1, ChangedStep
  <2>3. sessions' \in Seq(SessionSet) /\ \A t \in DOMAIN sessions' : SessionShape(t)'
    BY <1>0, <1>3, <2>2, ShapeKept
  <2>4. OwnershipShape'
    BY <1>0, <1>1, <2>1, <2>3 DEF OwnershipShape
  <2>5. BegunApart'
    BY <1>0, <1>1, <2>2, ApartKept
  <2>6. OneFileEach'
    BY <1>0, <2>2, OneFileKept
  <2>7. ~takenOver' => Undisturbed'
    <3> SUFFICES ASSUME ~takenOver' PROVE Undisturbed'
      OBVIOUS
    <3>1. Undisturbed
      BY <1>0, <2>1
    <3>2. RecordsAt(atPath)' = RecordsAt(atPath)
      BY <1>1 DEF RecordsAt
    <3>3. \A t \in DOMAIN sessions : sessions[t].at \in {"rewriting", "rewritten"} => sessions[t].file # atPath'
      BY <1>1, <3>1 DEF Undisturbed
    <3>4. "ended" \notin {"rewriting", "rewritten"} /\ "ended" # "running"
      OBVIOUS
    <3>5. journaled' = journaled /\ deliveredThere' = deliveredThere /\ skippedOver' = skippedOver /\ Alive(s)
      BY <1>1, <2>1
    <3>6. \A t \in DOMAIN sessions : Running(t) => atPath' = atPath
      BY <1>1, <2>1
    <3> QED
      BY <1>0, <2>2, <3>1, <3>2, <3>3, <3>4, <3>5, <3>6, UndisturbedKept, SMTT(30), ZenonT(60)
  <2> QED
    BY <2>4, <2>5, <2>6, <2>7 DEF OwnershipInv
<1>6. CASE LockFree(sessions[s].file)
  <2> DEFINE new == IF sessions[s].recovers THEN Len(sessions[s].found) + 1 ELSE sessions[s].start
             queue == IF sessions[s].recovers THEN Renumbered(sessions[s].found) ELSE sessions[s].pending
  <2>1. takenOver' = (takenOver \/ sessions[s].beside)
    BY <1>6 DEF LockJournal
  <2>2. sessions[s].recovers =>
          /\ sessions' = [[sessions EXCEPT ![s].at = "running"] EXCEPT ![s].next = Len(sessions[s].found) + 1,
                                                                       ![s].pending = Renumbered(sessions[s].found)]
          /\ skippedOver' = skippedOver
    BY <1>6 DEF LockJournal, Goes
  <2>3. ~sessions[s].recovers =>
          /\ sessions' = [[sessions EXCEPT ![s].at = "running"] EXCEPT ![s].next = sessions[s].start]
          /\ skippedOver' = skippedOver \cup {r.of : r \in Range(journalFiles[sessions[s].file])}
    BY <1>6 DEF LockJournal, Goes
  <2>4. /\ Renumbered(sessions[s].found) \in Seq(JournalRecordSet)
        /\ DOMAIN Renumbered(sessions[s].found) = DOMAIN sessions[s].found
        /\ \A i \in DOMAIN sessions[s].found : Renumbered(sessions[s].found)[i].seq = i
    BY <1>4, RenumberedIs
  <2>5. Len(sessions[s].found) \in Nat /\ Len(sessions[s].found) + 1 \in Nat \ {0}
    BY <1>4
  <2>6. GoesOn(sessions, sessions', s, "running", sessions[s].file, new, queue)
    <3>1. CASE sessions[s].recovers
      <4> DEFINE n == Len(sessions[s].found) + 1
                 q == Renumbered(sessions[s].found)
      <4>1. n \in Nat \ {0} /\ q \in Seq(JournalRecordSet)
        BY <2>4, <2>5
      <4>2. sessions' = [[sessions EXCEPT ![s].at = "running"] EXCEPT ![s].next = n, ![s].pending = q]
        BY <2>2, <3>1
      <4>3. new = n /\ queue = q
        BY <3>1
      <4> HIDE DEF n, q, new, queue
      <4> QED
        BY <1>2, <4>1, <4>2, <4>3, ChangedQueue
    <3>2. CASE ~sessions[s].recovers
      <4>1. GoesOn(sessions, [[sessions EXCEPT ![s].at = "running"] EXCEPT ![s].next = sessions[s].start],
                    s, "running", sessions[s].file, sessions[s].start, sessions[s].pending)
        BY <1>2, <1>4, ChangedQueue
      <4>2. new = sessions[s].start /\ queue = sessions[s].pending
        BY <3>2
      <4>3. sessions' = [[sessions EXCEPT ![s].at = "running"] EXCEPT ![s].next = sessions[s].start]
        BY <2>3, <3>2
      <4> HIDE DEF new, queue
      <4> QED
        BY <4>1, <4>2, <4>3
    <3> QED
      BY <3>1, <3>2
  <2>7. OwnershipShape'
    <3>1. takenOver' \in BOOLEAN
      BY <2>1
    <3>2. sessions' \in Seq(SessionSet) /\ \A t \in DOMAIN sessions' : SessionShape(t)'
      <4> HIDE DEF new, queue
      <4> QED
        BY <1>0, <1>3, <2>6, ShapeKept
    <3> QED
      BY <1>0, <1>1, <3>1, <3>2 DEF OwnershipShape
  <2>8. BegunApart'
    <3> HIDE DEF new, queue
    <3> QED
      BY <1>0, <1>1, <2>6, ApartKept
  <2>9. OneFileEach'
    <3> HIDE DEF new, queue
    <3>1. \A t \in DOMAIN sessions : Running(t) /\ t # s => sessions[t].file # sessions[s].file
      BY <1>6 DEF LockFree, LockTaken
    <3> QED
      BY <1>0, <2>6, <3>1, OneFileKept
  <2>10. ~takenOver' => Undisturbed'
    <3> SUFFICES ASSUME ~takenOver' PROVE Undisturbed'
      OBVIOUS
    <3>1. Undisturbed /\ ~sessions[s].beside
      BY <1>0, <2>1
    <3>2. \A t \in DOMAIN sessions : t # s => ~Alive(t)
      BY <1>0, <1>1, <3>1, AloneIs
    <3>3. FoundHolds(s)
      BY <1>1, <3>1 DEF Undisturbed, BegunAlone
    <3> DEFINE log == RecordsAt(atPath)
    <3>4. /\ sessions[s].file = atPath
          /\ IF sessions[s].recovers
             THEN /\ log = Renumbered(sessions[s].found)
                  /\ \A i \in DOMAIN sessions[s].found : sessions[s].found[i].of # NoEvent
             ELSE sessions[s].start = NextSeq(log)
      BY <1>1, <3>3 DEF FoundHolds
    <3>5. log \in Seq(JournalRecordSet) /\ log' = log /\ log = journalFiles[sessions[s].file]
      BY <1>0, <1>1, <1>3, <3>4, PathRecords DEF RecordsAt
    <3> HIDE DEF log
    <3>6. /\ DOMAIN sessions' = DOMAIN sessions /\ \A t \in DOMAIN sessions : t # s => sessions'[t] = sessions[t]
          /\ sessions'[s].at = "running" /\ sessions'[s].beside = sessions[s].beside
          /\ sessions'[s].file = sessions[s].file /\ sessions'[s].next = new /\ sessions'[s].pending = queue
      BY <2>6 DEF GoesOn
    <3>7. \A t \in DOMAIN sessions' : t # s => sessions'[t].at = "ended"
      BY <3>2, <3>6 DEF Alive
    <3>8. /\ \A i \in DOMAIN log : log[i].seq < new
          /\ \A i \in DOMAIN queue : queue[i].seq < new
          /\ \A i, j \in DOMAIN queue : i < j => queue[i].seq < queue[j].seq
          /\ \A r \in AwaitsAck(log) : r.of \in JournalTold' \/ r \in Range(queue)
          /\ JournalTold \subseteq JournalTold'
      <4>1. CASE sessions[s].recovers
        <5>1. new = Len(sessions[s].found) + 1 /\ queue = Renumbered(sessions[s].found) /\ log = queue
          BY <3>4, <4>1
        <5>2. DOMAIN queue = 1..Len(sessions[s].found) /\ \A i \in DOMAIN queue : queue[i].seq = i
          BY <1>4, <2>4, <5>1
        <5>3. \A i \in 1..Len(sessions[s].found) : i < Len(sessions[s].found) + 1
          BY <2>5
        <5>4. AwaitsAck(log) \subseteq Range(log)
          BY DEF AwaitsAck
        <5>5. JournalTold \subseteq JournalTold'
          BY <1>1, <2>2, <4>1 DEF JournalTold
        <5> HIDE DEF new, queue
        <5> QED
          BY <5>1, <5>2, <5>3, <5>4, <5>5
      <4>2. CASE ~sessions[s].recovers
        <5>1. new = NextSeq(log) /\ queue = <<>>
          BY <1>3, <3>4, <4>2
        <5>2. \A i \in DOMAIN log : log[i].seq < NextSeq(log)
          BY <3>5, NextIs
        <5>3. skippedOver' = skippedOver \cup {r.of : r \in Range(log)}
          BY <2>3, <3>5, <4>2
        <5>4. AwaitsAck(log) \subseteq Range(log)
          BY DEF AwaitsAck
        <5>5. JournalTold \subseteq JournalTold' /\ \A r \in AwaitsAck(log) : r.of \in JournalTold'
          BY <1>1, <5>3, <5>4 DEF JournalTold
        <5> HIDE DEF new, queue
        <5> QED
          BY <5>1, <5>2, <5>5
      <4> QED
        BY <4>1, <4>2
    <3> HIDE DEF new, queue
    <3>9. OwnsPath(s)'
      BY <1>1, <3>1, <3>4, <3>5, <3>6, <3>8 DEF OwnsPath, log
    <3>10. \A t \in DOMAIN sessions' : Running(t)' => OwnsPath(t)'
      BY <3>7, <3>9 DEF Running
    <3>11. FoundHolds(s)'
      BY <3>6 DEF FoundHolds
    <3>12. \A t \in DOMAIN sessions' : BegunAlone(t)' => FoundHolds(t)'
      BY <3>7, <3>11 DEF BegunAlone, Alive
    <3>13. \A t \in DOMAIN sessions' : sessions'[t].at \notin {"rewriting", "rewritten"}
      <4>1. \A t \in DOMAIN sessions' : sessions'[t].at = "running" \/ sessions'[t].at = "ended"
        BY <3>6, <3>7
      <4> QED
        BY <4>1
    <3>14. ASSUME NEW e \in 1..journaled' PROVE e \in JournalTold' \/ \E r \in AwaitsAck(log') : r.of = e
      <4>1. e \in JournalTold \/ \E r \in AwaitsAck(log) : r.of = e
        BY <1>1, <3>1 DEF Undisturbed, log
      <4> QED
        BY <3>5, <3>8, <4>1
    <3> QED
      BY <3>10, <3>12, <3>13, <3>14 DEF Undisturbed, log
  <2> QED
    BY <2>7, <2>8, <2>9, <2>10 DEF OwnershipInv
<1> QED
  BY <1>5, <1>6

(* What is common to the two actions of an adapter that runs: it writes one *)
(* record to its file, and its queue changes.                               *)
RecordWritten(s, r, n, q) ==
  /\ journalFiles' = [journalFiles EXCEPT ![sessions[s].file] = Append(journalFiles[sessions[s].file], r)]
  /\ atPath' = atPath /\ atSpare' = atSpare /\ takenOver' = takenOver /\ skippedOver' = skippedOver
  /\ GoesOn(sessions, sessions', s, "running", sessions[s].file, n, q)

LEMMA RecordIsKept ==
  ASSUME OwnershipInv, NEW s \in DOMAIN sessions, Running(s), NEW r \in JournalRecordSet, NEW n, NEW q,
         RecordWritten(s, r, n, q), journaled' \in Nat
  PROVE  /\ OwnershipShape' /\ OneFileEach' /\ BegunApart'
         /\ atPath = sessions[s].file => RecordsAt(atPath)' = Append(RecordsAt(atPath), r)
<1> DEFINE f == sessions[s].file
           c == Append(journalFiles[f], r)
<1>0. OwnershipShape /\ OneFileEach /\ BegunApart
  BY DEF OwnershipInv
<1>1. /\ Len(journalFiles) \in Nat /\ journalFiles \in Seq(Seq(JournalRecordSet))
      /\ SessionShape(s) /\ sessions[s].at = "running" /\ Alive(s)
  BY <1>0, PathRecords DEF OwnershipShape, Running, Alive
<1>2. f \in 1..Len(journalFiles) /\ f \in 0..Len(journalFiles) /\ f # NoInode
  BY <1>1 DEF SessionShape, NoInode
<1>3. c \in Seq(JournalRecordSet)
  <2>1. journalFiles[f] \in Seq(JournalRecordSet)
    BY <1>0, <1>2, PathRecords
  <2> QED
    BY <2>1
<1>4. journalFiles' = [journalFiles EXCEPT ![f] = c]
  BY DEF RecordWritten
<1> HIDE DEF c
<1>5. FileIs(journalFiles, journalFiles', f, c) /\ Len(journalFiles') = Len(journalFiles)
  <2> HIDE DEF f
  <2> QED
    BY <1>1, <1>2, <1>3, <1>4, FileRewritten
<1>6. GoesOn(sessions, sessions', s, "running", f, n, q)
  BY DEF RecordWritten
<1>7. OwnershipShape'
  <2>1. journalFiles' \in Seq(Seq(JournalRecordSet)) /\ Len(journalFiles) <= Len(journalFiles')
    BY <1>1, <1>5 DEF FileIs
  <2>2. f \in 0..Len(journalFiles')
    BY <1>2, <1>5
  <2>3. sessions' \in Seq(SessionSet) /\ \A t \in DOMAIN sessions' : SessionShape(t)'
    BY <1>0, <1>2, <1>6, <2>1, <2>2, ShapeKept
  <2> QED
    BY <1>0, <1>5, <2>1, <2>3 DEF OwnershipShape, RecordWritten
<1>8. BegunApart'
  <2>1. Running(s) => "running" \in {"running", "ended"}
    OBVIOUS
  <2> QED
    BY <1>0, <1>1, <1>6, <2>1, ApartKept
<1>9. OneFileEach'
  <2>1. \A t \in DOMAIN sessions : Running(t) /\ t # s => sessions[t].file # f
    BY <1>0 DEF OneFileEach
  <2> QED
    BY <1>0, <1>6, <2>1, OneFileKept
<1>10. ASSUME atPath = f PROVE RecordsAt(atPath)' = Append(RecordsAt(atPath), r)
  <2>1. atPath' = f /\ atPath' # NoInode /\ journalFiles'[f] = c
    BY <1>2, <1>5, <1>10 DEF FileIs, RecordWritten
  <2>2. RecordsAt(atPath)' = c /\ RecordsAt(atPath) = journalFiles[f]
    BY <1>2, <1>10, <2>1 DEF RecordsAt
  <2> QED
    BY <2>2 DEF c
<1> QED
  BY <1>7, <1>8, <1>9, <1>10

(* The adapter that runs is alone with the path, and stays so. *)
LEMMA OwnerKeepsPath ==
  ASSUME OwnershipInv, NEW s \in DOMAIN sessions, Running(s), NEW r \in JournalRecordSet, NEW n, NEW q,
         RecordWritten(s, r, n, q), Undisturbed, OwnsPath(s)', NEW log, log = RecordsAt(atPath)',
         \A e \in 1..journaled' : e \in JournalTold' \/ \E w \in AwaitsAck(log) : w.of = e
  PROVE  Undisturbed'
<1>1. OwnsPath(s) /\ BegunApart
  BY DEF Undisturbed, OwnershipInv
<1>2. \A t \in DOMAIN sessions : t # s => ~BegunAlone(t) /\ ~Running(t)
  BY <1>1, RunningIs DEF OwnsPath
<1>3. /\ DOMAIN sessions' = DOMAIN sessions /\ \A t \in DOMAIN sessions : t # s => sessions'[t] = sessions[t]
      /\ sessions'[s].at = "running" /\ atPath' = atPath
  BY DEF RecordWritten, GoesOn
<1>4. \A t \in DOMAIN sessions' : t # s => ~BegunAlone(t)' /\ ~Running(t)'
  BY <1>2, <1>3 DEF BegunAlone, Alive, Running
<1>5. FoundHolds(s)'
  BY <1>3 DEF FoundHolds
<1>6. \A t \in DOMAIN sessions' : BegunAlone(t)' => FoundHolds(t)'
  BY <1>4, <1>5
<1>7. \A t \in DOMAIN sessions' : Running(t)' => OwnsPath(t)'
  BY <1>4
<1>8. ASSUME NEW t \in DOMAIN sessions', sessions'[t].at \in {"rewriting", "rewritten"}
      PROVE  sessions'[t].file # atPath'
  <2>1. t # s
    BY <1>3, <1>8
  <2> QED
    BY <1>3, <1>8, <2>1 DEF Undisturbed
<1> QED
  BY <1>6, <1>7, <1>8 DEF Undisturbed

(* A record numbered above those before it is the last of them. *)
LEMMA NumberedLast ==
  ASSUME NEW p \in Seq(JournalRecordSet), NEW x \in JournalRecordSet, \A i \in DOMAIN p : p[i].seq < x.seq
  PROVE  /\ \A i \in DOMAIN Append(p, x) : Append(p, x)[i].seq < x.seq + 1
         /\ (\A i, j \in DOMAIN p : i < j => p[i].seq < p[j].seq)
              => \A i, j \in DOMAIN Append(p, x) : i < j => Append(p, x)[i].seq < Append(p, x)[j].seq
<1> DEFINE q == Append(p, x)
           k == Len(p)
<1>1. /\ k \in Nat /\ DOMAIN p = 1..k /\ DOMAIN q = 1..k + 1
      /\ q[k + 1] = x /\ \A i \in 1..k : q[i] = p[i]
  <2>1. k \in Nat /\ DOMAIN p = 1..k
    OBVIOUS
  <2>2. DOMAIN q = 1..k + 1 /\ q[k + 1] = x
    OBVIOUS
  <2>3. \A i \in 1..k : q[i] = p[i]
    OBVIOUS
  <2> QED
    BY <2>1, <2>2, <2>3
<1> HIDE DEF q, k
<1>2. \A y \in JournalRecordSet : y.seq \in Nat
  BY DEF JournalRecordSet
<1>3. x.seq \in Nat /\ \A i \in 1..k : p[i].seq \in Nat
  <2>1. \A i \in 1..k : p[i] \in JournalRecordSet
    BY <1>1
  <2> QED
    BY <1>2, <2>1
<1>4. \A i \in 1..k : q[i].seq < x.seq /\ q[i].seq \in Nat
  BY <1>1, <1>3
<1>5. ASSUME NEW i \in 1..k + 1 PROVE i = k + 1 \/ i \in 1..k
  BY <1>1
<1>6. \A i \in DOMAIN q : q[i].seq < x.seq + 1
  <2> SUFFICES ASSUME NEW i \in 1..k + 1 PROVE q[i].seq < x.seq + 1
    BY <1>1
  <2>1. CASE i = k + 1
    BY <1>1, <1>3, <2>1
  <2>2. CASE i \in 1..k
    <3>1. q[i].seq < x.seq /\ q[i].seq \in Nat
      BY <1>4, <2>2
    <3> QED
      BY <1>3, <3>1
  <2> QED
    BY <1>5, <2>1, <2>2
<1>7. ASSUME \A i, j \in DOMAIN p : i < j => p[i].seq < p[j].seq, NEW i \in 1..k + 1, NEW j \in 1..k + 1, i < j
      PROVE  q[i].seq < q[j].seq
  <2>1. i \in 1..k
    BY <1>1, <1>7
  <2>2. CASE j = k + 1
    BY <1>1, <1>4, <2>1, <2>2
  <2>3. CASE j \in 1..k
    BY <1>1, <1>7, <2>1, <2>3
  <2> QED
    BY <1>5, <2>2, <2>3
<1> QED
  BY <1>1, <1>6, <1>7 DEF q

LEMMA KeepsJournalEvent ==
  ASSUME OwnershipInv, NEW s \in DOMAIN sessions, JournalEvent(s)
  PROVE  OwnershipInv'
<1> DEFINE e0 == journaled + 1
           r == [seq |-> sessions[s].next, of |-> journaled + 1]
           n == sessions[s].next + 1
           q == Append(sessions[s].pending, r)
<1>0. OwnershipShape /\ (~takenOver => Undisturbed)
  BY DEF OwnershipInv
<1>1. /\ Running(s) /\ sessions[s].at = "running" /\ journaled' = e0 /\ journaled \in Nat
      /\ deliveredThere' = deliveredThere /\ skippedOver' = skippedOver /\ takenOver' = takenOver
      /\ sessions \in Seq(SessionSet)
  BY <1>0 DEF JournalEvent, Running, OwnershipShape
<1>2. sessions[s].next \in Nat \ {0} /\ sessions[s].pending \in Seq(JournalRecordSet) /\ sessions[s].at \in JournalSteps
  <2>1. sessions[s] \in SessionSet
    BY <1>1
  <2> QED
    BY <2>1 DEF SessionSet
<1>3. r \in JournalRecordSet /\ r.seq = sessions[s].next /\ r.of = e0 /\ r.of # NoEvent /\ e0 \in Nat
  BY <1>1, <1>2 DEF JournalRecordSet, NoEvent
<1>4. journalFiles' = [journalFiles EXCEPT ![sessions[s].file] = Append(journalFiles[sessions[s].file], r)]
  BY DEF JournalEvent, Written
<1>5. sessions' = [sessions EXCEPT ![s].next = n, ![s].pending = q]
  BY <1>1, <1>2 DEF JournalEvent
<1> HIDE DEF r
<1>6. n \in Nat \ {0} /\ q \in Seq(JournalRecordSet) /\ n = sessions[s].next + 1
  BY <1>2, <1>3
<1> HIDE DEF n
<1>7. RecordWritten(s, r, n, q)
  <2> HIDE DEF q
  <2>1. GoesOn(sessions, [sessions EXCEPT ![s].next = n, ![s].pending = q], s, sessions[s].at, sessions[s].file, n, q)
    BY <1>1, <1>6, ChangedQueue
  <2>2. GoesOn(sessions, sessions', s, "running", sessions[s].file, n, q)
    BY <1>1, <1>5, <2>1
  <2> QED
    BY <1>4, <2>2 DEF RecordWritten, JournalEvent
<1>8. journaled' \in Nat
  BY <1>1
<1>9. /\ OwnershipShape' /\ OneFileEach' /\ BegunApart'
      /\ atPath = sessions[s].file => RecordsAt(atPath)' = Append(RecordsAt(atPath), r)
  <2> HIDE DEF q
  <2> QED
    BY <1>1, <1>3, <1>7, <1>8, RecordIsKept
<1>10. ~takenOver' => Undisturbed'
  <2> SUFFICES ASSUME ~takenOver' PROVE Undisturbed'
    OBVIOUS
  <2>1. Undisturbed /\ OwnsPath(s)
    BY <1>0, <1>1 DEF Undisturbed
  <2> DEFINE log == RecordsAt(atPath)
             new == Append(log, r)
  <2>2. /\ log \in Seq(JournalRecordSet) /\ ~sessions[s].beside /\ sessions[s].file = atPath
        /\ \A i \in DOMAIN log : log[i].seq < sessions[s].next
        /\ \A i \in DOMAIN sessions[s].pending : sessions[s].pending[i].seq < sessions[s].next
        /\ \A i, j \in DOMAIN sessions[s].pending : i < j => sessions[s].pending[i].seq < sessions[s].pending[j].seq
        /\ \A w \in AwaitsAck(log) : w.of \in JournalTold \/ w \in Range(sessions[s].pending)
    BY <1>0, <2>1, PathRecords DEF OwnsPath
  <2>3. RecordsAt(atPath)' = new
    BY <1>9, <2>2
  <2> HIDE DEF log
  <2>4. /\ DOMAIN new = 1..Len(log) + 1 /\ new[Len(log) + 1] = r /\ \A i \in 1..Len(log) : new[i] = log[i]
        /\ DOMAIN log = 1..Len(log) /\ Len(log) \in Nat
    BY <1>3, <2>2
  <2>5. /\ DOMAIN q = 1..Len(sessions[s].pending) + 1 /\ q[Len(sessions[s].pending) + 1] = r
        /\ \A i \in 1..Len(sessions[s].pending) : q[i] = sessions[s].pending[i]
        /\ DOMAIN sessions[s].pending = 1..Len(sessions[s].pending) /\ Len(sessions[s].pending) \in Nat
    BY <1>2, <1>3
  <2>6. AwaitsAck(new) = AwaitsAck(log) \cup {r}
    BY <1>3, <2>2, WaitingAfterEvent
  <2>7. Range(q) = Range(sessions[s].pending) \cup {r}
    BY <1>2, <1>3, RangeOfAppend
  <2>9. \A i \in DOMAIN new : new[i].seq < n
    <3>1. \A i \in DOMAIN log : log[i].seq < r.seq
      BY <1>3, <2>2
    <3> QED
      BY <1>3, <1>6, <2>2, <3>1, NumberedLast DEF new
  <2>10. /\ \A i \in DOMAIN q : q[i].seq < n
         /\ \A i, j \in DOMAIN q : i < j => q[i].seq < q[j].seq
    <3>1. \A i \in DOMAIN sessions[s].pending : sessions[s].pending[i].seq < r.seq
      BY <1>3, <2>2
    <3> QED
      BY <1>2, <1>3, <1>6, <2>2, <3>1, NumberedLast DEF q
  <2> HIDE DEF new, q
  <2>12. JournalTold' = JournalTold
    BY <1>1 DEF JournalTold
  <2>13. \A w \in AwaitsAck(new) : w.of \in JournalTold' \/ w \in Range(q)
    BY <2>2, <2>6, <2>7, <2>12
  <2>14. OwnsPath(s)'
    <3>1. /\ sessions'[s].beside = sessions[s].beside /\ sessions'[s].file = sessions[s].file
          /\ sessions'[s].next = n /\ sessions'[s].pending = q /\ atPath' = atPath
      BY <1>7 DEF RecordWritten, GoesOn
    <3> QED
      BY <2>2, <2>3, <2>9, <2>10, <2>13, <3>1 DEF OwnsPath
  <2>15. ASSUME NEW e \in 1..journaled' PROVE e \in JournalTold' \/ \E w \in AwaitsAck(new) : w.of = e
    <3>1. CASE e = e0
      BY <1>3, <2>6, <3>1
    <3>2. CASE e # e0
      <4>1. e \in 1..journaled
        BY <1>1, <2>15, <3>2
      <4>2. e \in JournalTold \/ \E w \in AwaitsAck(log) : w.of = e
        BY <2>1, <4>1 DEF Undisturbed, log
      <4> QED
        BY <2>6, <2>12, <4>2
    <3> QED
      BY <3>1, <3>2
  <2> QED
    BY <1>1, <1>3, <1>7, <2>1, <2>3, <2>14, <2>15, OwnerKeepsPath
<1> QED
  BY <1>9, <1>10 DEF OwnershipInv

LEMMA KeepsAcknowledge ==
  ASSUME OwnershipInv, NEW s \in DOMAIN sessions, Acknowledge(s)
  PROVE  OwnershipInv'
<1> DEFINE pend == sessions[s].pending
           first == Head(sessions[s].pending)
           r == [seq |-> first.seq, of |-> NoEvent]
           q == Tail(sessions[s].pending)
<1>0. OwnershipShape /\ (~takenOver => Undisturbed)
  BY DEF OwnershipInv
<1>1. /\ Running(s) /\ sessions[s].at = "running" /\ journaled' = journaled /\ journaled \in Nat
      /\ deliveredThere' = deliveredThere \cup {first.of} /\ skippedOver' = skippedOver /\ takenOver' = takenOver
      /\ sessions \in Seq(SessionSet) /\ pend # <<>>
  BY <1>0 DEF Acknowledge, Running, OwnershipShape
<1>2. sessions[s].next \in Nat \ {0} /\ pend \in Seq(JournalRecordSet) /\ sessions[s].at \in JournalSteps
  <2>1. sessions[s] \in SessionSet
    BY <1>1
  <2> QED
    BY <2>1 DEF SessionSet
<1>3. /\ first \in JournalRecordSet /\ q \in Seq(JournalRecordSet) /\ Len(pend) \in Nat \ {0} /\ first = pend[1]
      /\ DOMAIN pend = 1..Len(pend) /\ DOMAIN q = 1..Len(pend) - 1 /\ \A i \in 1..Len(pend) - 1 : q[i] = pend[i + 1]
  BY <1>1, <1>2
<1>4. r \in JournalRecordSet /\ r.seq = first.seq /\ r.of = NoEvent
  BY <1>3 DEF JournalRecordSet, NoEvent
<1>5. journalFiles' = [journalFiles EXCEPT ![sessions[s].file] = Append(journalFiles[sessions[s].file], r)]
  BY DEF Acknowledge, Written
<1>6. sessions' = [sessions EXCEPT ![s].pending = q]
  BY DEF Acknowledge
<1> HIDE DEF r, q, pend, first
<1>7. RecordWritten(s, r, sessions[s].next, q)
  <2>1. GoesOn(sessions, [sessions EXCEPT ![s].pending = q], s, sessions[s].at, sessions[s].file, sessions[s].next, q)
    BY <1>1, <1>2, <1>3, ChangedQueue
  <2> QED
    BY <1>1, <1>5, <1>6, <2>1 DEF RecordWritten, Acknowledge
<1>8. /\ OwnershipShape' /\ OneFileEach' /\ BegunApart'
      /\ atPath = sessions[s].file => RecordsAt(atPath)' = Append(RecordsAt(atPath), r)
  BY <1>1, <1>4, <1>7, RecordIsKept
<1>9. ~takenOver' => Undisturbed'
  <2> SUFFICES ASSUME ~takenOver' PROVE Undisturbed'
    OBVIOUS
  <2>1. Undisturbed /\ OwnsPath(s)
    BY <1>0, <1>1 DEF Undisturbed
  <2> DEFINE log == RecordsAt(atPath)
             new == Append(log, r)
  <2>2. /\ log \in Seq(JournalRecordSet) /\ ~sessions[s].beside /\ sessions[s].file = atPath
        /\ \A i \in DOMAIN log : log[i].seq < sessions[s].next
        /\ \A i \in DOMAIN pend : pend[i].seq < sessions[s].next
        /\ \A i, j \in DOMAIN pend : i < j => pend[i].seq < pend[j].seq
        /\ \A w \in AwaitsAck(log) : w.of \in JournalTold \/ w \in Range(pend)
    BY <1>0, <2>1, PathRecords DEF OwnsPath, pend
  <2>3. RecordsAt(atPath)' = new
    BY <1>8, <2>2
  <2> HIDE DEF log
  <2>4. /\ DOMAIN new = 1..Len(log) + 1 /\ new[Len(log) + 1] = r /\ \A i \in 1..Len(log) : new[i] = log[i]
        /\ DOMAIN log = 1..Len(log) /\ Len(log) \in Nat
    BY <1>4, <2>2
  <2>5. AwaitsAck(new) = {w \in AwaitsAck(log) : r.seq < w.seq}
    BY <1>4, <2>2, WaitingAfterAck
  <2>6. (\A w \in AwaitsAck(log) : w.seq \in Nat) /\ \A i \in DOMAIN pend : pend[i].seq \in Nat
    <3>1. (\A i \in DOMAIN log : log[i] \in JournalRecordSet) /\ \A i \in DOMAIN pend : pend[i] \in JournalRecordSet
      BY <1>2, <2>2
    <3> QED
      BY <3>1 DEF JournalRecordSet, AwaitsAck, Range
  <2> HIDE DEF new
  <2>7. ASSUME NEW i \in DOMAIN new PROVE new[i].seq < sessions[s].next
    <3>1. CASE i \in 1..Len(log)
      BY <2>2, <2>4, <3>1
    <3>2. CASE i = Len(log) + 1
      <4>1. 1 \in DOMAIN pend
        BY <1>3
      <4> QED
        BY <1>3, <1>4, <2>2, <2>4, <3>2, <4>1
    <3> QED
      BY <2>4, <3>1, <3>2
  <2>8. \A i \in DOMAIN q : i + 1 \in DOMAIN pend /\ q[i] = pend[i + 1]
    BY <1>3
  <2>9. \A i \in DOMAIN q : q[i].seq < sessions[s].next
    BY <2>2, <2>8
  <2>10. ASSUME NEW i \in DOMAIN q, NEW j \in DOMAIN q, i < j PROVE q[i].seq < q[j].seq
    <3>1. i + 1 < j + 1
      BY <1>3, <2>10
    <3> QED
      BY <2>2, <2>8, <3>1
  <2>11. JournalTold' = JournalTold \cup {first.of}
    BY <1>1 DEF JournalTold
  <2>12. ASSUME NEW w \in Range(pend) PROVE w = first \/ (w \in Range(q) /\ first.seq < w.seq)
    <3>1. PICK i \in DOMAIN pend : w = pend[i]
      BY <2>12 DEF Range
    <3>2. CASE i = 1
      BY <1>3, <3>1, <3>2
    <3>3. CASE i # 1
      <4>1. i - 1 \in DOMAIN q /\ q[i - 1] = pend[i] /\ 1 < i /\ 1 \in DOMAIN pend
        <5>1. i - 1 \in 1..Len(pend) - 1 /\ i - 1 + 1 = i
          BY <1>3, <3>1, <3>3
        <5> QED
          BY <1>3, <5>1
      <4>2. pend[1].seq < pend[i].seq
        BY <2>2, <3>1, <4>1
      <4> QED
        BY <1>3, <3>1, <4>1, <4>2 DEF Range
    <3> QED
      BY <3>2, <3>3
  <2>13. ASSUME NEW w \in AwaitsAck(new) PROVE w.of \in JournalTold' \/ w \in Range(q)
    <3>1. w \in AwaitsAck(log)
      BY <2>5, <2>13
    <3>2. CASE w \in Range(pend)
      BY <2>11, <2>12, <3>2
    <3> QED
      BY <2>2, <2>11, <3>1, <3>2
  <2>14. OwnsPath(s)'
    <3>1. /\ sessions'[s].beside = sessions[s].beside /\ sessions'[s].file = sessions[s].file
          /\ sessions'[s].next = sessions[s].next /\ sessions'[s].pending = q /\ atPath' = atPath
      BY <1>7 DEF RecordWritten, GoesOn
    <3> QED
      BY <2>2, <2>3, <2>7, <2>9, <2>10, <2>13, <3>1 DEF OwnsPath
  <2>15. ASSUME NEW e \in 1..journaled' PROVE e \in JournalTold' \/ \E w \in AwaitsAck(new) : w.of = e
    <3>1. e \in JournalTold \/ \E w \in AwaitsAck(log) : w.of = e
      BY <1>1, <2>1 DEF Undisturbed, log
    <3>2. CASE e \in JournalTold
      BY <2>11, <3>2
    <3>3. ASSUME NEW w \in AwaitsAck(log), w.of = e PROVE e \in JournalTold' \/ \E v \in AwaitsAck(new) : v.of = e
      <4>1. CASE w.of \in JournalTold
        BY <2>11, <3>3, <4>1
      <4>2. CASE w \in Range(pend)
        <5>1. CASE w = first
          BY <2>11, <3>3, <5>1
        <5>2. CASE first.seq < w.seq
          BY <1>4, <2>5, <3>3, <5>2
        <5> QED
          BY <2>12, <4>2, <5>1, <5>2
      <4> QED
        BY <2>2, <3>3, <4>1, <4>2
    <3> QED
      BY <3>1, <3>2, <3>3
  <2> QED
    BY <1>1, <1>4, <1>7, <2>1, <2>3, <2>14, <2>15, OwnerKeepsPath
<1> QED
  BY <1>8, <1>9 DEF OwnershipInv

(* What an adapter finds when it begins, and what becomes of those that begin beside it. *)
SessionBegun(recovers, log) ==
  [at |-> IF recovers THEN "recovered" ELSE "placed", recovers |-> recovers,
   beside |-> \E s \in DOMAIN sessions : Alive(s), found |-> Unacknowledged(log), start |-> NextSeq(log),
   file |-> NoInode, next |-> 1, pending |-> <<>>]

LEMMA SessionsBegun ==
  ASSUME OwnershipShape, NEW recovers \in BOOLEAN, BeginSession(recovers)
  PROVE  /\ sessions' \in Seq(SessionSet) /\ DOMAIN sessions = 1..Len(sessions) /\ Len(sessions) \in Nat
         /\ DOMAIN sessions' = 1..Len(sessions) + 1
         /\ sessions'[Len(sessions) + 1] = SessionBegun(recovers, RecordsAt(atPath))
         /\ \A t \in DOMAIN sessions :
              /\ sessions'[t].at = sessions[t].at /\ sessions'[t].file = sessions[t].file
              /\ sessions'[t].next = sessions[t].next /\ sessions'[t].pending = sessions[t].pending
              /\ sessions'[t].recovers = sessions[t].recovers
              /\ sessions'[t].beside <=> sessions[t].beside \/ (Alive(t) /\ ~Running(t))
<1> DEFINE log == RecordsAt(atPath)
           Meets(t) == sessions[t].beside \/ (Alive(t) /\ ~Running(t))
           Met(t) == [sessions[t] EXCEPT !.beside = Meets(t)]
           old == [t \in DOMAIN sessions |-> Met(t)]
           new == SessionBegun(recovers, log)
<1>1. sessions \in Seq(SessionSet) /\ log \in Seq(JournalRecordSet)
  BY PathRecords DEF OwnershipShape
<1>2. sessions' = Append(old, new)
  BY DEF BeginSession, SessionBegun
<1>3. new \in SessionSet
  <2> DEFINE found == Unacknowledged(log)
             start == NextSeq(log)
             meets == \E s \in DOMAIN sessions : Alive(s)
             where == IF recovers THEN "recovered" ELSE "placed"
  <2>1. found \in Seq(JournalRecordSet) /\ start \in Nat \ {0}
    BY <1>1, UnacknowledgedIs, NextIs
  <2>2. meets \in BOOLEAN
    OBVIOUS
  <2>3. where \in JournalSteps
    BY DEF JournalSteps
  <2>4. <<>> \in Seq(JournalRecordSet) /\ NoInode \in Nat /\ 1 \in Nat \ {0}
    BY DEF NoInode
  <2>5. new = [at |-> where, recovers |-> recovers, beside |-> meets, found |-> found, start |-> start,
               file |-> NoInode, next |-> 1, pending |-> <<>>]
    BY DEF SessionBegun
  <2> HIDE DEF found, start, meets, where, new
  <2> QED
    BY <2>1, <2>2, <2>3, <2>4, <2>5 DEF SessionSet
<1>4. ASSUME NEW t \in DOMAIN sessions
      PROVE  /\ Met(t) \in SessionSet
             /\ Met(t).at = sessions[t].at /\ Met(t).file = sessions[t].file
             /\ Met(t).next = sessions[t].next /\ Met(t).pending = sessions[t].pending
             /\ Met(t).recovers = sessions[t].recovers /\ (Met(t).beside <=> Meets(t))
  <2>1. sessions[t] \in SessionSet
    BY <1>1
  <2>2. Meets(t) \in BOOLEAN
    OBVIOUS
  <2> HIDE DEF Meets
  <2>3. \A b \in BOOLEAN : [sessions[t] EXCEPT !.beside = b] \in SessionSet
    BY <2>1 DEF SessionSet
  <2>4. Met(t) \in SessionSet
    BY <2>2, <2>3
  <2>5. /\ Met(t).at = sessions[t].at /\ Met(t).file = sessions[t].file
        /\ Met(t).next = sessions[t].next /\ Met(t).pending = sessions[t].pending
        /\ Met(t).recovers = sessions[t].recovers
    BY <2>1 DEF SessionSet
  <2>6. Met(t).beside = Meets(t)
    BY <2>1 DEF SessionSet
  <2> QED
    BY <2>4, <2>5, <2>6
<1> HIDE DEF new, Met
<1>5. DOMAIN sessions = 1..Len(sessions) /\ Len(sessions) \in Nat
  BY <1>1
<1>6. old \in Seq(SessionSet) /\ Len(old) = Len(sessions) /\ \A t \in DOMAIN sessions : old[t] = Met(t)
  BY <1>4, <1>5
<1> HIDE DEF old, Meets
<1>7. /\ sessions' \in Seq(SessionSet) /\ DOMAIN sessions' = 1..Len(sessions) + 1
      /\ sessions'[Len(sessions) + 1] = new /\ \A t \in DOMAIN sessions : sessions'[t] = Met(t)
  BY <1>2, <1>3, <1>5, <1>6
<1> QED
  BY <1>4, <1>5, <1>7 DEF new, Meets

LEMMA KeepsBeginSession ==
  ASSUME OwnershipInv, NEW recovers \in BOOLEAN, BeginSession(recovers)
  PROVE  OwnershipInv'
<1>u. PICK u : u = Len(sessions) + 1
  OBVIOUS
<1>0. OwnershipShape /\ OneFileEach /\ BegunApart /\ (~takenOver => Undisturbed)
  BY DEF OwnershipInv
<1>1. /\ journalFiles' = journalFiles /\ atPath' = atPath /\ atSpare' = atSpare /\ journaled' = journaled
      /\ deliveredThere' = deliveredThere /\ takenOver' = takenOver /\ skippedOver' = skippedOver
  BY DEF BeginSession
<1>2. /\ sessions' \in Seq(SessionSet) /\ DOMAIN sessions = 1..Len(sessions) /\ Len(sessions) \in Nat
      /\ DOMAIN sessions' = 1..u
      /\ sessions'[u] = SessionBegun(recovers, RecordsAt(atPath))
      /\ \A t \in DOMAIN sessions :
           /\ sessions'[t].at = sessions[t].at /\ sessions'[t].file = sessions[t].file
           /\ sessions'[t].next = sessions[t].next /\ sessions'[t].pending = sessions[t].pending
           /\ sessions'[t].recovers = sessions[t].recovers
           /\ sessions'[t].beside <=> sessions[t].beside \/ (Alive(t) /\ ~Running(t))
  BY <1>0, <1>u, SessionsBegun
<1>3. \A t \in DOMAIN sessions' : t \in DOMAIN sessions \/ t = u
  <2>1. \A t \in 1..u : t \in 1..Len(sessions) \/ t = u
    BY <1>u, <1>2
  <2> QED
    BY <1>2, <2>1
<1>4. /\ sessions'[u].at = (IF recovers THEN "recovered" ELSE "placed") /\ sessions'[u].recovers = recovers
      /\ sessions'[u].beside <=> \E s \in DOMAIN sessions : Alive(s)
      /\ sessions'[u].found = Unacknowledged(RecordsAt(atPath)) /\ sessions'[u].start = NextSeq(RecordsAt(atPath))
      /\ sessions'[u].file = NoInode /\ sessions'[u].pending = <<>>
  BY <1>2 DEF SessionBegun
<1>5. OwnershipShape'
  <2>1. ASSUME NEW t \in DOMAIN sessions' PROVE SessionShape(t)'
    <3>1. CASE t \in DOMAIN sessions
      <4>1. SessionShape(t)
        BY <1>0, <3>1 DEF OwnershipShape
      <4> QED
        BY <1>1, <1>2, <3>1, <4>1 DEF SessionShape, Alive, Running
    <3>2. CASE t = u
      <4>1. NoInode \in 0..Len(journalFiles')
        BY <1>0, <1>1, PathRecords DEF NoInode
      <4>2. sessions'[t].at \notin {"rewriting", "rewritten", "opened", "running"}
        BY <1>4, <3>2
      <4>3. sessions'[t].at \in {"recovered", "rewriting", "rewritten"} => sessions'[t].recovers = TRUE
        BY <1>4, <3>2
      <4> QED
        BY <1>4, <3>2, <4>1, <4>2, <4>3 DEF SessionShape
    <3> QED
      BY <1>3, <3>1, <3>2
  <2> QED
    BY <1>0, <1>1, <1>2, <2>1 DEF OwnershipShape
<1>6. ~Running(u)'
  <2>1. sessions'[u].at # "running"
    BY <1>4
  <2> QED
    BY <2>1 DEF Running
<1>7. \A t \in DOMAIN sessions : (Running(t)' <=> Running(t)) /\ (Alive(t)' <=> Alive(t))
  BY <1>2 DEF Running, Alive
<1>8. OneFileEach'
  BY <1>0, <1>2, <1>3, <1>6, <1>7 DEF OneFileEach
<1>9. \A t \in DOMAIN sessions : BegunAlone(t)' => Running(t) /\ BegunAlone(t)
  BY <1>2, <1>7 DEF BegunAlone
<1>10. BegunApart'
  <2> SUFFICES ASSUME NEW v \in DOMAIN sessions', NEW t \in DOMAIN sessions', BegunAlone(v)', Alive(t)', v # t
               PROVE  Running(v)' /\ sessions'[t].beside
    BY DEF BegunApart
  <2>1. CASE v = u
    <3>1. t \in DOMAIN sessions /\ Alive(t)
      BY <1>3, <1>7, <2>1
    <3> QED
      BY <1>4, <2>1, <3>1 DEF BegunAlone
  <2>2. CASE v \in DOMAIN sessions
    <3>1. Running(v) /\ BegunAlone(v) /\ Running(v)' /\ Alive(v)
      BY <1>7, <1>9, <2>2 DEF BegunAlone
    <3>2. CASE t = u
      BY <1>4, <2>2, <3>1, <3>2
    <3>3. CASE t \in DOMAIN sessions
      BY <1>0, <1>2, <1>7, <2>2, <3>1, <3>3 DEF BegunApart
    <3> QED
      BY <1>3, <3>1, <3>2, <3>3
  <2> QED
    BY <1>3, <2>1, <2>2
<1>11. ~takenOver' => Undisturbed'
  <2> SUFFICES ASSUME ~takenOver' PROVE Undisturbed'
    OBVIOUS
  <2>1. Undisturbed
    BY <1>0, <1>1
  <2> DEFINE log == RecordsAt(atPath)
  <2>2. log' = log /\ JournalTold' = JournalTold
    BY <1>1 DEF RecordsAt, JournalTold
  <2>3. sessions'[u].found = Unacknowledged(log) /\ sessions'[u].start = NextSeq(log)
    BY <1>4
  <2> HIDE DEF log
  <2>4. ASSUME NEW t \in DOMAIN sessions', BegunAlone(t)' PROVE FoundHolds(t)'
    <3>1. CASE t \in DOMAIN sessions
      <4>1. sessions'[t].at = "running"
        BY <1>2, <1>9, <2>4, <3>1 DEF Running
      <4> QED
        BY <4>1 DEF FoundHolds
    <3>2. CASE t = u
      <4>1. CASE recovers
        <5>1. sessions'[t].at = "recovered"
          BY <1>4, <3>2, <4>1
        <5>2. sessions'[t].found = Unacknowledged(log')
          BY <2>2, <2>3, <3>2
        <5> QED
          BY <5>1, <5>2 DEF FoundHolds, log
      <4>2. CASE ~recovers
        <5>1. sessions'[t].at = "placed" /\ ~sessions'[t].recovers
          BY <1>4, <3>2, <4>2
        <5>2. sessions'[t].start = NextSeq(log')
          BY <2>2, <2>3, <3>2
        <5> QED
          BY <5>1, <5>2 DEF FoundHolds, log
      <4> QED
        BY <4>1, <4>2
    <3> QED
      BY <1>3, <3>1, <3>2
  <2>5. ASSUME NEW t \in DOMAIN sessions', Running(t)' PROVE OwnsPath(t)'
    <3>1. t \in DOMAIN sessions /\ Running(t)
      BY <1>3, <1>6, <1>7, <2>5
    <3>2. OwnsPath(t)
      BY <2>1, <3>1 DEF Undisturbed
    <3>3. ~sessions'[t].beside
      BY <1>2, <3>1, <3>2 DEF OwnsPath
    <3> QED
      BY <1>1, <1>2, <2>2, <3>1, <3>2, <3>3 DEF OwnsPath, log
  <2>6. ASSUME NEW t \in DOMAIN sessions', sessions'[t].at \in {"rewriting", "rewritten"}
        PROVE  sessions'[t].file # atPath'
    <3>1. CASE t \in DOMAIN sessions
      BY <1>1, <1>2, <2>1, <2>6, <3>1 DEF Undisturbed
    <3>2. CASE t = u
      BY <1>4, <2>6, <3>2
    <3> QED
      BY <1>3, <3>1, <3>2
  <2>7. \A e \in 1..journaled' : e \in JournalTold' \/ \E w \in AwaitsAck(log') : w.of = e
    BY <1>1, <2>1, <2>2 DEF Undisturbed, log
  <2> QED
    BY <2>4, <2>5, <2>6, <2>7 DEF Undisturbed, log
<1> QED
  BY <1>5, <1>8, <1>10, <1>11 DEF OwnershipInv

LEMMA StepKeepsOwnership == OwnershipInv /\ [OwnershipNext]_ownershipVars => OwnershipInv'
<1>1. ASSUME OwnershipInv, OwnershipNext PROVE OwnershipInv'
  <2>1. ASSUME NEW recovers \in BOOLEAN, BeginSession(recovers) PROVE OwnershipInv'
    BY <1>1, <2>1, KeepsBeginSession
  <2>2. ASSUME NEW s \in DOMAIN sessions, OpenSpare(s) PROVE OwnershipInv'
    BY <1>1, <2>2, KeepsOpenSpare
  <2>3. ASSUME NEW s \in DOMAIN sessions, WriteSpare(s) PROVE OwnershipInv'
    BY <1>1, <2>3, KeepsWriteSpare
  <2>4. ASSUME NEW s \in DOMAIN sessions, PutInPlace(s) PROVE OwnershipInv'
    BY <1>1, <2>4, KeepsPutInPlace
  <2>5. ASSUME NEW s \in DOMAIN sessions, OpenJournal(s) PROVE OwnershipInv'
    BY <1>1, <2>5, KeepsOpenJournal
  <2>6. ASSUME NEW s \in DOMAIN sessions, LockJournal(s) PROVE OwnershipInv'
    BY <1>1, <2>6, KeepsLockJournal
  <2>7. ASSUME NEW s \in DOMAIN sessions, JournalEvent(s) PROVE OwnershipInv'
    BY <1>1, <2>7, KeepsJournalEvent
  <2>8. ASSUME NEW s \in DOMAIN sessions, Acknowledge(s) PROVE OwnershipInv'
    BY <1>1, <2>8, KeepsAcknowledge
  <2>9. ASSUME NEW s \in DOMAIN sessions, EndSession(s) PROVE OwnershipInv'
    BY <1>1, <2>9, KeepsEndSession
  <2> QED
    BY <1>1, <2>1, <2>2, <2>3, <2>4, <2>5, <2>6, <2>7, <2>8, <2>9 DEF OwnershipNext
<1>2. ASSUME OwnershipInv, UNCHANGED ownershipVars PROVE OwnershipInv'
  <2>1. /\ journalFiles' = journalFiles /\ atPath' = atPath /\ atSpare' = atSpare /\ sessions' = sessions
        /\ journaled' = journaled /\ deliveredThere' = deliveredThere /\ takenOver' = takenOver
        /\ skippedOver' = skippedOver
    BY <1>2 DEF ownershipVars
  <2>2. OwnershipShape' /\ OneFileEach' /\ BegunApart'
    BY <1>2, <2>1
       DEF OwnershipInv, OwnershipShape, OneFileEach, BegunApart, SessionShape, BegunAlone, Alive, Running
  <2>3. ~takenOver => Undisturbed'
    BY <1>2, <2>1
       DEF OwnershipInv, Undisturbed, FoundHolds, OwnsPath, BegunAlone, Alive, Running, RecordsAt, JournalTold
  <2> QED
    BY <2>1, <2>2, <2>3 DEF OwnershipInv
<1> QED
  BY <1>1, <1>2

LEMMA OwnershipIsSound == OwnershipInv => JournalHasOneOwner
<1> SUFFICES ASSUME OwnershipInv PROVE JournalHasOneOwner
  OBVIOUS
<1>1. \A s, t \in DOMAIN sessions : Running(s) /\ Running(t) /\ s # t => sessions[s].file # sessions[t].file
  BY DEF OwnershipInv, OneFileEach
<1>2. ASSUME ~takenOver
      PROVE  /\ \A s, t \in DOMAIN sessions : Running(s) /\ Running(t) => s = t
             /\ LET readBack == Unacknowledged(RecordsAt(atPath)) IN
                \A e \in 1..journaled :
                  e \in deliveredThere \cup skippedOver \cup {readBack[i].of : i \in DOMAIN readBack}
  <2>1. Undisturbed /\ OwnershipShape
    BY <1>2 DEF OwnershipInv
  <2>2. \A s, t \in DOMAIN sessions : Running(s) /\ Running(t) => s = t
    <3>1. \A s \in DOMAIN sessions : Running(s) => sessions[s].file = atPath
      BY <2>1 DEF Undisturbed, OwnsPath
    <3> QED
      BY <1>1, <3>1
  <2> DEFINE log == RecordsAt(atPath)
             readBack == Unacknowledged(log)
  <2>3. log \in Seq(JournalRecordSet)
    BY <2>1, PathRecords
  <2>4. Range(readBack) = AwaitsAck(log)
    BY <2>3, UnacknowledgedIs
  <2>5. \A e \in 1..journaled : e \in JournalTold \/ \E r \in AwaitsAck(log) : r.of = e
    BY <2>1 DEF Undisturbed
  <2> HIDE DEF readBack, log
  <2>6. \A e \in 1..journaled : e \in deliveredThere \cup skippedOver \cup {readBack[i].of : i \in DOMAIN readBack}
    BY <2>4, <2>5 DEF JournalTold, Range
  <2> QED
    BY <2>2, <2>6 DEF readBack, log
<1> QED
  BY <1>1, <1>2 DEF JournalHasOneOwner

(* Two adapters never write to one journal file, and unless one that began *)
(* beside another took the path or the lock over, every event journaled    *)
(* was delivered, was skipped by an adapter opened without recovery, or    *)
(* can be recovered from the path (sdk/journal.py, Adapter._open_journal). *)
THEOREM OwnershipCorrect == OwnershipSpec => []JournalHasOneOwner
<1>1. OwnershipInit => OwnershipInv
  BY InitOwnership
<1>2. OwnershipInv /\ [OwnershipNext]_ownershipVars => OwnershipInv'
  BY StepKeepsOwnership
<1>3. OwnershipInv => JournalHasOneOwner
  BY OwnershipIsSound
<1> QED
  BY <1>1, <1>2, <1>3, PTL DEF OwnershipSpec

-----------------------------------------------------------------------------
(* What is read back from the trace store *)
TraceSpec == TraceInit /\ [][TraceNext]_traceVars

LEMMA ImagesAreFinite ==
  ASSUME NEW S, IsFiniteSet(S), NEW f, DOMAIN f = S
  PROVE  IsFiniteSet({f[x] : x \in S})
<1> DEFINE T == {f[x] : x \in S}
           g == [x \in S |-> f[x]]
<1>1. g \in Surjection(S, T)
  BY DEF Surjection
<1> QED
  BY <1>1, FS_Surjection

(* The traces of a cluster, in the order of their tasks, are all of them. *)
LEMMA TaskOrderIs ==
  ASSUME NEW P \in SUBSET (Nat \X Nat), IsFiniteSet(P)
  PROVE  /\ InTaskOrder(P) \in Seq(Nat) /\ Range(InTaskOrder(P)) = {p[2] : p \in P}
         /\ Len(InTaskOrder(P)) = Cardinality(P) /\ Cardinality(P) \in Nat
         /\ P # {} => Cardinality(P) # 0
<1> DEFINE n == Cardinality(P)
           before(p) == {q \in P : TaskBefore(q, p)}
           rank(p) == Cardinality(before(p))
           f == [p \in P |-> rank(p)]
           I == 0..n - 1
<1>1. n \in Nat /\ (P # {} => n # 0)
  BY FS_CardinalityType, FS_EmptySet
<1>2. \A p \in P : p[1] \in Nat /\ p[2] \in Nat /\ p = <<p[1], p[2]>>
  OBVIOUS
<1>3. ASSUME NEW p \in P, NEW r \in P PROVE p = r \/ TaskBefore(p, r) \/ TaskBefore(r, p)
  <2>1. p # r => p[1] # r[1] \/ p[2] # r[2]
    BY <1>2
  <2> QED
    BY <1>2, <2>1 DEF TaskBefore
<1>4. ASSUME NEW p \in P, NEW q \in P, NEW r \in P, TaskBefore(q, p), TaskBefore(p, r) PROVE TaskBefore(q, r)
  BY <1>2, <1>4 DEF TaskBefore
<1>5. \A p \in P : ~TaskBefore(p, p)
  BY <1>2 DEF TaskBefore
<1>6. ASSUME NEW p \in P
      PROVE  IsFiniteSet(before(p)) /\ rank(p) \in Nat /\ rank(p) < n
  <2>1. before(p) \in SUBSET P /\ p \notin before(p)
    BY <1>5
  <2>2. IsFiniteSet(before(p)) /\ rank(p) <= n /\ (n = rank(p) => P = before(p))
    <3> HIDE DEF before
    <3> QED
      BY <2>1, FS_Subset
  <2>3. rank(p) \in Nat
    BY <2>2, FS_CardinalityType
  <2>4. n # rank(p)
    BY <2>1, <2>2
  <2> HIDE DEF n, rank, before
  <2> QED
    BY <1>1, <2>2, <2>3, <2>4
<1>7. ASSUME NEW p \in P, NEW r \in P, TaskBefore(p, r) PROVE rank(p) < rank(r)
  <2>1. before(p) \subseteq before(r)
    BY <1>4, <1>7
  <2>2. p \in before(r) /\ p \notin before(p)
    BY <1>5, <1>7
  <2>3. IsFiniteSet(before(r)) /\ rank(r) \in Nat /\ rank(p) \in Nat
    BY <1>6
  <2>4. rank(p) <= rank(r) /\ (rank(r) = rank(p) => before(r) = before(p))
    <3> HIDE DEF before
    <3> QED
      BY <2>1, <2>3, FS_Subset
  <2>5. rank(r) # rank(p)
    BY <2>2, <2>4
  <2> HIDE DEF rank, before
  <2> QED
    BY <2>3, <2>4, <2>5
<1>8. ASSUME NEW p \in P, NEW r \in P, rank(p) = rank(r) PROVE p = r
  <2> HIDE DEF rank
  <2>1. rank(p) \in Nat
    BY <1>6
  <2>2. ~(rank(p) < rank(r)) /\ ~(rank(r) < rank(p))
    BY <1>8, <2>1
  <2> QED
    BY <1>3, <1>7, <2>2
<1>9. f \in Injection(P, I)
  <2> HIDE DEF rank
  <2>1. ASSUME NEW p \in P PROVE rank(p) \in I
    <3> HIDE DEF n
    <3>1. rank(p) \in Nat /\ rank(p) < n
      BY <1>6
    <3> QED
      BY <1>1, <3>1
  <2>2. f \in [P -> I]
    BY <2>1
  <2>3. \A p, r \in P : f[p] = f[r] => p = r
    BY <1>8
  <2>4. DOMAIN f = P
    OBVIOUS
  <2> HIDE DEF f
  <2> QED
    BY <2>2, <2>3, <2>4 DEF Injection, IsInjective
<1>10. IsFiniteSet(I) /\ Cardinality(I) = n
  <2> HIDE DEF n
  <2>1. 0 \in Int /\ n - 1 \in Int
    BY <1>1
  <2> QED
    BY <1>1, <2>1, FS_Interval
<1>11. f \in Surjection(P, I)
  <2> HIDE DEF f, I
  <2> QED
    BY <1>9, <1>10, FS_Injection
<1>12. \A i \in I : \E p \in P : rank(p) = i
  <2> HIDE DEF rank, I
  <2> QED
    BY <1>11 DEF Surjection
<1> DEFINE at(i) == CHOOSE p \in P : rank(p) = i - 1
<1>13. ASSUME NEW i \in 1..n PROVE at(i) \in P /\ rank(at(i)) = i - 1
  <2>1. i - 1 \in I
    BY <1>1
  <2> HIDE DEF rank, I, n
  <2> QED
    BY <1>12, <2>1
<1>14. InTaskOrder(P) = [i \in 1..n |-> at(i)[2]]
  BY DEF InTaskOrder
<1> HIDE DEF at
<1>15. \A i \in 1..n : at(i)[2] \in Nat
  BY <1>2, <1>13
<1>16. InTaskOrder(P) \in Seq(Nat) /\ Len(InTaskOrder(P)) = n /\ DOMAIN InTaskOrder(P) = 1..n
  <2> HIDE DEF n
  <2> QED
    BY <1>1, <1>14, <1>15
<1>17. Range(InTaskOrder(P)) = {at(i)[2] : i \in 1..n}
  <2> HIDE DEF n
  <2> QED
    BY <1>14 DEF Range
<1>18. ASSUME NEW p \in P PROVE \E i \in 1..n : at(i) = p
  <2> HIDE DEF rank, n
  <2>1. PICK k \in Nat : k = rank(p) /\ k < n
    BY <1>6
  <2>2. k + 1 \in 1..n /\ k + 1 - 1 = k
    BY <1>1, <2>1
  <2>3. PICK i \in 1..n : i = k + 1
    BY <2>2
  <2>4. at(i) \in P /\ rank(at(i)) = i - 1
    BY <1>13
  <2>5. rank(at(i)) = rank(p)
    BY <2>1, <2>2, <2>3, <2>4
  <2> QED
    BY <1>8, <2>4, <2>5
<1>19. {at(i)[2] : i \in 1..n} = {p[2] : p \in P}
  <2> HIDE DEF n
  <2> QED
    BY <1>13, <1>18
<1> QED
  BY <1>1, <1>16, <1>17, <1>19

LEMMA PrefixIs ==
  ASSUME NEW R, NEW q \in Seq(R), NEW w \in Seq(R), Len(q) <= Len(w), \A i \in 1..Len(q) : q[i] = w[i]
  PROVE  IsPrefix(q, w)
<1>1. Len(q) \in Nat /\ Len(w) \in Nat
  OBVIOUS
<1> DEFINE a == SubSeq(q, 1, Len(q))
           b == SubSeq(w, 1, Len(q))
<1>2. a \in Seq(R) /\ Len(a) = Len(q) /\ \A i \in 1..Len(q) : a[i] = q[i]
  BY <1>1
<1>3. b \in Seq(R) /\ Len(b) = Len(q) /\ \A i \in 1..Len(q) : b[i] = w[i]
  BY <1>1
<1> HIDE DEF a, b
<1>4. a = b
  BY <1>2, <1>3
<1> QED
  BY <1>4 DEF IsPrefix, a, b

-----------------------------------------------------------------------------
(* The failures that a report speaks of, and the report, as a function of them. *)
FailuresShape(F) ==
  /\ IsFiniteSet(F)
  /\ \A x \in F : x[1] \in Nat /\ x[2] \in Nat /\ x[3] = <<x[3][1], x[3][2]>>
  /\ \A x, y \in F : x[1] = y[1] => x = y

Grouped(F, key) == {<<x[2], x[1]>> : x \in {x \in F : x[3] = key}}
GroupOf(F, key) ==
  [category |-> key[1], signature |-> key[2], members |-> InTaskOrder(Grouped(F, key)),
   representatives |-> Page(InTaskOrder(Grouped(F, key)), MaxRepresentatives)]
ReportOn(basis) ==
  [campaign |-> basis.campaign, scanned |-> basis.scanned, unresolved |-> basis.unresolved,
   clusters |-> {GroupOf(basis.failures, x[3]) : x \in basis.failures}]

LEMMA GroupIs ==
  ASSUME NEW F, FailuresShape(F), NEW key
  PROVE  /\ Range(GroupOf(F, key).members) = {x[1] : x \in {x \in F : x[3] = key}}
         /\ GroupOf(F, key).category = key[1] /\ GroupOf(F, key).signature = key[2]
         /\ IsPrefix(GroupOf(F, key).representatives, GroupOf(F, key).members)
         /\ (\E x \in F : x[3] = key) => GroupOf(F, key).representatives # <<>>
<1> DEFINE S == {x \in F : x[3] = key}
           P == Grouped(F, key)
           mm == InTaskOrder(P)
           reps == Page(mm, MaxRepresentatives)
<1>1. IsFiniteSet(S)
  BY FS_Subset DEF FailuresShape
<1>2. P = {<<x[2], x[1]>> : x \in S}
  BY DEF Grouped
<1>3. P \in SUBSET (Nat \X Nat)
  BY <1>2 DEF FailuresShape
<1>4. IsFiniteSet(P)
  <2> DEFINE g == [x \in S |-> <<x[2], x[1]>>]
  <2>1. DOMAIN g = S /\ P = {g[x] : x \in S}
    BY <1>2
  <2> HIDE DEF g, S, P
  <2> QED
    BY <1>1, <2>1, ImagesAreFinite
<1>5. {p[2] : p \in P} = {x[1] : x \in S}
  <2> HIDE DEF S
  <2>1. \A x \in S : <<x[2], x[1]>>[2] = x[1]
    OBVIOUS
  <2>2. ASSUME NEW p \in P PROVE p[2] \in {x[1] : x \in S}
    <3>1. PICK x \in S : p = <<x[2], x[1]>>
      BY <1>2
    <3> QED
      BY <2>1, <3>1
  <2>3. ASSUME NEW x \in S PROVE x[1] \in {p[2] : p \in P}
    <3>1. PICK p \in P : p = <<x[2], x[1]>>
      BY <1>2
    <3>2. p[2] = x[1]
      BY <2>1, <3>1
    <3> QED
      BY <3>2
  <2> QED
    BY <2>2, <2>3
<1>6. P # {} <=> S # {}
  BY <1>2
<1> HIDE DEF P
<1>7. /\ mm \in Seq(Nat) /\ Range(mm) = {p[2] : p \in P} /\ Len(mm) = Cardinality(P) /\ Cardinality(P) \in Nat
      /\ (P # {} => Cardinality(P) # 0)
  BY <1>3, <1>4, TaskOrderIs
<1> HIDE DEF mm
<1>8. MaxRepresentatives \in Nat \ {0}
  BY TraceAssumption
<1>9. IsPrefix(reps, mm) /\ (Len(mm) # 0 => reps # <<>>)
  <2> DEFINE k == IF MaxRepresentatives < Len(mm) THEN MaxRepresentatives ELSE Len(mm)
  <2>1. k \in Nat /\ k <= Len(mm) /\ (Len(mm) # 0 => k # 0)
    BY <1>7, <1>8
  <2>2. reps = SubSeq(mm, 1, k)
    BY DEF Page
  <2> HIDE DEF k, reps
  <2>3. reps \in Seq(Nat) /\ Len(reps) = k /\ \A i \in 1..k : reps[i] = mm[i]
    BY <1>7, <2>1, <2>2
  <2>4. IsPrefix(reps, mm)
    BY <1>7, <2>1, <2>3, PrefixIs
  <2> QED
    BY <2>1, <2>3, <2>4
<1> DEFINE c1 == key[1]
           c2 == key[2]
<1>10. GroupOf(F, key) = [category |-> c1, signature |-> c2, members |-> mm, representatives |-> reps]
  BY DEF GroupOf, mm, P
<1> HIDE DEF reps, c1, c2
<1>11. /\ GroupOf(F, key).category = c1 /\ GroupOf(F, key).signature = c2 /\ GroupOf(F, key).members = mm
       /\ GroupOf(F, key).representatives = reps
  BY <1>10
<1> QED
  BY <1>5, <1>6, <1>7, <1>9, <1>11 DEF c1, c2

LEMMA ReportFields ==
  ASSUME NEW basis
  PROVE  ReportOn(basis).clusters = {GroupOf(basis.failures, x[3]) : x \in basis.failures}
         /\ ReportOn(basis).campaign = basis.campaign
<1> DEFINE a == basis.campaign
           b == basis.scanned
           c == basis.unresolved
           d == {GroupOf(basis.failures, x[3]) : x \in basis.failures}
<1>1. ReportOn(basis) = [campaign |-> a, scanned |-> b, unresolved |-> c, clusters |-> d]
  BY DEF ReportOn
<1> HIDE DEF a, b, c, d
<1>2. ReportOn(basis).clusters = d /\ ReportOn(basis).campaign = a
  BY <1>1
<1> QED
  BY <1>2 DEF a, d

(* Each failure is in one cluster of the report, and each cluster has its first members. *)
LEMMA ReportIsExact ==
  ASSUME NEW basis, FailuresShape(basis.failures)
  PROVE  /\ \A failure \in basis.failures :
              \E c \in ReportOn(basis).clusters :
                <<c.category, c.signature>> = failure[3] /\ failure[1] \in Range(c.members)
         /\ \A c \in ReportOn(basis).clusters :
              /\ Range(c.members) \subseteq {failure[1] : failure \in basis.failures}
              /\ \A other \in ReportOn(basis).clusters \ {c} : Range(c.members) \cap Range(other.members) = {}
              /\ c.representatives # <<>> /\ IsPrefix(c.representatives, c.members)
         /\ FailuresNamed(ReportOn(basis)) = {failure[1] : failure \in basis.failures}
<1> DEFINE F == basis.failures
           C == ReportOn(basis).clusters
<1>1. C = {GroupOf(F, x[3]) : x \in F}
  BY ReportFields
<1> HIDE DEF F, C
<1>0. FailuresShape(F)
  BY DEF F
<1>2. ASSUME NEW x \in F
      PROVE  /\ Range(GroupOf(F, x[3]).members) = {y[1] : y \in {y \in F : y[3] = x[3]}}
             /\ <<GroupOf(F, x[3]).category, GroupOf(F, x[3]).signature>> = x[3]
             /\ IsPrefix(GroupOf(F, x[3]).representatives, GroupOf(F, x[3]).members)
             /\ GroupOf(F, x[3]).representatives # <<>>
  <2> DEFINE key == x[3]
  <2>1. key = <<key[1], key[2]>> /\ \E y \in F : y[3] = key
    BY <1>0 DEF FailuresShape
  <2> HIDE DEF key
  <2>4. /\ Range(GroupOf(F, key).members) = {y[1] : y \in {y \in F : y[3] = key}}
        /\ GroupOf(F, key).category = key[1] /\ GroupOf(F, key).signature = key[2]
        /\ IsPrefix(GroupOf(F, key).representatives, GroupOf(F, key).members)
        /\ (\E y \in F : y[3] = key) => GroupOf(F, key).representatives # <<>>
    BY <1>0, GroupIs, Zenon
  <2>2. /\ Range(GroupOf(F, key).members) = {y[1] : y \in {y \in F : y[3] = key}}
        /\ GroupOf(F, key).category = key[1] /\ GroupOf(F, key).signature = key[2]
        /\ IsPrefix(GroupOf(F, key).representatives, GroupOf(F, key).members)
        /\ GroupOf(F, key).representatives # <<>>
    BY <2>1, <2>4
  <2>3. /\ Range(GroupOf(F, key).members) = {y[1] : y \in {y \in F : y[3] = key}}
        /\ <<GroupOf(F, key).category, GroupOf(F, key).signature>> = key
        /\ IsPrefix(GroupOf(F, key).representatives, GroupOf(F, key).members)
        /\ GroupOf(F, key).representatives # <<>>
    BY <2>1, <2>2
  <2> QED
    BY <2>3 DEF key
<1>3. ASSUME NEW x \in F
      PROVE  \E c \in C : <<c.category, c.signature>> = x[3] /\ x[1] \in Range(c.members)
  <2> DEFINE c == GroupOf(F, x[3])
  <2>1. c \in C
    BY <1>1
  <2>2. <<c.category, c.signature>> = x[3] /\ x[1] \in Range(c.members)
    BY <1>2
  <2> HIDE DEF c
  <2> QED
    BY <2>1, <2>2
<1>4. ASSUME NEW c \in C
      PROVE  /\ Range(c.members) \subseteq {x[1] : x \in F}
             /\ \A other \in C \ {c} : Range(c.members) \cap Range(other.members) = {}
             /\ c.representatives # <<>> /\ IsPrefix(c.representatives, c.members)
  <2>1. PICK x \in F : c = GroupOf(F, x[3])
    BY <1>1
  <2>2. /\ Range(c.members) = {y[1] : y \in {y \in F : y[3] = x[3]}}
        /\ c.representatives # <<>> /\ IsPrefix(c.representatives, c.members)
    BY <1>2, <2>1
  <2>3. ASSUME NEW other \in C \ {c} PROVE Range(c.members) \cap Range(other.members) = {}
    <3>1. PICK z \in F : other = GroupOf(F, z[3])
      BY <1>1
    <3>2. Range(other.members) = {y[1] : y \in {y \in F : y[3] = z[3]}}
      BY <1>2, <3>1
    <3>3. z[3] # x[3]
      BY <2>1, <2>3, <3>1
    <3>4. ASSUME NEW t \in Range(c.members), t \in Range(other.members) PROVE FALSE
      <4>1. PICK y \in F : y[3] = x[3] /\ t = y[1]
        BY <2>2
      <4>2. PICK w \in F : w[3] = z[3] /\ t = w[1]
        BY <3>2, <3>4
      <4> QED
        BY <1>0, <3>3, <4>1, <4>2 DEF FailuresShape
    <3> QED
      BY <3>4
  <2>4. Range(c.members) \subseteq {y[1] : y \in F}
    BY <2>2
  <2> QED
    BY <2>2, <2>3, <2>4
<1>5. FailuresNamed(ReportOn(basis)) = {x[1] : x \in F}
  <2>1. FailuresNamed(ReportOn(basis)) = UNION {Range(c.members) : c \in C}
    BY DEF FailuresNamed, C
  <2>2. \A x \in F : \E c \in C : x[1] \in Range(c.members)
    BY <1>3
  <2>3. \A c \in C : Range(c.members) \subseteq {x[1] : x \in F}
    BY <1>4
  <2> QED
    BY <2>1, <2>2, <2>3
<1> QED
  BY <1>3, <1>4, <1>5 DEF F, C

(* A report is what its basis determines. *)
LEMMA ReportIsOnBasis ==
  ASSUME NEW campaign
  PROVE  ClusterFailures(campaign) = ReportOn(Basis(campaign))
<1> DEFINE F == {<<t, TaskOf(t), ClusterKey(t)>> : t \in Failed(campaign)}
           b == Cardinality(ListTraces(campaign))
           c == Unresolved(campaign)
<1>1. Basis(campaign) = [campaign |-> campaign, scanned |-> b, unresolved |-> c, failures |-> F]
  BY DEF Basis
<1> HIDE DEF b, c, F
<1>2. /\ Basis(campaign).campaign = campaign /\ Basis(campaign).scanned = b /\ Basis(campaign).unresolved = c
      /\ Basis(campaign).failures = F
  BY <1>1
<1>3. ASSUME NEW key PROVE GroupOf(F, key) = Cluster(campaign, key)
  <2> DEFINE A == {<<x[2], x[1]>> : x \in {x \in F : x[3] = key}}
             B == {<<TaskOf(t), t>> : t \in {t \in Failed(campaign) : ClusterKey(t) = key}}
  <2>3. ASSUME NEW p \in A PROVE p \in B
    <3>1. PICK x \in F : x[3] = key /\ p = <<x[2], x[1]>>
      OBVIOUS
    <3>2. PICK t \in Failed(campaign) : x = <<t, TaskOf(t), ClusterKey(t)>>
      BY DEF F
    <3>3. x[1] = t /\ x[2] = TaskOf(t) /\ x[3] = ClusterKey(t)
      BY <3>2
    <3> QED
      BY <3>1, <3>3
  <2>4. ASSUME NEW p \in B PROVE p \in A
    <3>1. PICK t \in Failed(campaign) : ClusterKey(t) = key /\ p = <<TaskOf(t), t>>
      OBVIOUS
    <3>2. PICK x \in F : x = <<t, TaskOf(t), ClusterKey(t)>>
      BY DEF F
    <3>3. x[1] = t /\ x[2] = TaskOf(t) /\ x[3] = ClusterKey(t)
      BY <3>2
    <3> QED
      BY <3>1, <3>3
  <2>1. A = B
    <3> HIDE DEF A, B
    <3> QED
      BY <2>3, <2>4
  <2>2. InTaskOrder(Grouped(F, key)) = Members(campaign, key)
    BY <2>1 DEF Grouped, Members
  <2> QED
    BY <2>2 DEF GroupOf, Cluster
<1>4. {GroupOf(F, x[3]) : x \in F} = {Cluster(campaign, ClusterKey(t)) : t \in Failed(campaign)}
  <2>1. {GroupOf(F, x[3]) : x \in F} = {Cluster(campaign, x[3]) : x \in F}
    BY <1>3
  <2>2. {Cluster(campaign, x[3]) : x \in F} = {Cluster(campaign, ClusterKey(t)) : t \in Failed(campaign)}
    <3>1. ASSUME NEW x \in F
          PROVE  \E t \in Failed(campaign) : Cluster(campaign, x[3]) = Cluster(campaign, ClusterKey(t))
      <4>1. PICK t \in Failed(campaign) : x = <<t, TaskOf(t), ClusterKey(t)>>
        BY DEF F
      <4> QED
        BY <4>1
    <3>2. ASSUME NEW t \in Failed(campaign)
          PROVE  \E x \in F : Cluster(campaign, x[3]) = Cluster(campaign, ClusterKey(t))
      <4>1. PICK x \in F : x = <<t, TaskOf(t), ClusterKey(t)>>
        BY DEF F
      <4>2. x[3] = ClusterKey(t)
        BY <4>1
      <4> QED
        BY <4>2
    <3> QED
      BY <3>1, <3>2
  <2> QED
    BY <2>1, <2>2
<1> QED
  BY <1>2, <1>4 DEF ReportOn, ClusterFailures, b, c

-----------------------------------------------------------------------------
LEMMA SequenceGrows ==
  ASSUME NEW q, q \in Seq(Range(q)), NEW r
  PROVE  /\ Append(q, r) \in Seq(Range(Append(q, r))) /\ Len(Append(q, r)) = Len(q) + 1 /\ Len(q) \in Nat
         /\ DOMAIN q = 1..Len(q) /\ DOMAIN Append(q, r) = 1..Len(q) + 1 /\ Append(q, r)[Len(q) + 1] = r
         /\ \A i \in 1..Len(q) : Append(q, r)[i] = q[i]
<1> DEFINE R == Range(q) \cup {r}
           a == Append(q, r)
<1>1. q \in Seq(R) /\ r \in R
  <2>1. Range(q) \subseteq R
    OBVIOUS
  <2> HIDE DEF R
  <2>2. \A i \in 1..Len(q) : q[i] \in R
    BY <2>1
  <2>3. q = [i \in 1..Len(q) |-> q[i]] /\ Len(q) \in Nat
    OBVIOUS
  <2>4. q \in Seq(R)
    BY <2>2, <2>3
  <2> QED
    BY <2>4 DEF R
<1>2. Range(a) = R
  <2> HIDE DEF R
  <2>1. Range(Append(q, r)) = Range(q) \cup {r}
    BY <1>1, RangeOfAppend
  <2> QED
    BY <2>1 DEF R
<1> HIDE DEF R
<1>3. /\ a \in Seq(R) /\ Len(a) = Len(q) + 1 /\ Len(q) \in Nat /\ DOMAIN q = 1..Len(q)
      /\ DOMAIN a = 1..Len(q) + 1 /\ a[Len(q) + 1] = r /\ \A i \in 1..Len(q) : a[i] = q[i]
  BY <1>1
<1> QED
  BY <1>2, <1>3

LEMMA JoinedIs ==
  ASSUME NEW R, NEW a \in Seq(R), NEW b \in Seq(R)
  PROVE  /\ a \o b \in Seq(R) /\ Len(a \o b) = Len(a) + Len(b) /\ Len(a) \in Nat /\ Len(b) \in Nat
         /\ \A k \in 1..Len(a) + Len(b) : (a \o b)[k] = IF k <= Len(a) THEN a[k] ELSE b[k - Len(a)]
  OBVIOUS

LEMMA RemovedIs ==
  ASSUME NEW R, NEW q \in Seq(R), NEW i \in 1..Len(q)
  PROVE  /\ Len(RemoveAt(q, i)) = Len(q) - 1 /\ DOMAIN RemoveAt(q, i) = 1..Len(q) - 1
         /\ \A k \in 1..Len(q) - 1 : RemoveAt(q, i)[k] = IF k < i THEN q[k] ELSE q[k + 1]
<1> DEFINE a == SubSeq(q, 1, i - 1)
           b == SubSeq(q, i + 1, Len(q))
<1>1. Len(q) \in Nat /\ i \in Nat /\ i <= Len(q) /\ i # 0
  OBVIOUS
<1>2. a \in Seq(R) /\ Len(a) = i - 1 /\ \A k \in 1..i - 1 : a[k] = q[k]
  BY <1>1
<1>3. b \in Seq(R) /\ Len(b) = Len(q) - i /\ \A k \in 1..Len(q) - i : b[k] = q[k + i]
  BY <1>1
<1>4. RemoveAt(q, i) = a \o b
  BY DEF RemoveAt
<1> HIDE DEF a, b
<1> DEFINE c == a \o b
<1>5. /\ c \in Seq(R) /\ Len(c) = Len(a) + Len(b)
      /\ \A k \in 1..Len(a) + Len(b) : c[k] = IF k <= Len(a) THEN a[k] ELSE b[k - Len(a)]
  BY <1>2, <1>3, JoinedIs
<1> HIDE DEF c
<1>6. Len(c) = Len(q) - 1 /\ DOMAIN c = 1..Len(q) - 1
  BY <1>1, <1>2, <1>3, <1>5
<1>7. ASSUME NEW k \in 1..Len(q) - 1 PROVE c[k] = IF k < i THEN q[k] ELSE q[k + 1]
  <2>0. k \in 1..Len(a) + Len(b)
    BY <1>1, <1>2, <1>3
  <2>1. CASE k < i
    <3>1. k <= Len(a) /\ k \in 1..i - 1
      BY <1>1, <1>2, <2>1
    <3> QED
      BY <1>2, <1>5, <2>0, <2>1, <3>1
  <2>2. CASE ~(k < i)
    <3>1. ~(k <= Len(a)) /\ k - Len(a) = k - (i - 1) /\ k - (i - 1) \in 1..Len(q) - i /\ k - (i - 1) + i = k + 1
      BY <1>1, <1>2, <2>2
    <3> QED
      BY <1>3, <1>5, <2>0, <2>2, <3>1
  <2> QED
    BY <2>1, <2>2
<1> QED
  BY <1>4, <1>6, <1>7 DEF c

(* What a basis says of failures, it says of traces that were stored. *)
LEMMA BasisIsShaped ==
  ASSUME NEW campaign, traceChain \in Seq(Range(traceChain)),
         \A i \in DOMAIN traceChain : traceChain[i].event \in Events
  PROVE  FailuresShape(Basis(campaign).failures)
<1> DEFINE F == {<<t, TaskOf(t), ClusterKey(t)>> : t \in Failed(campaign)}
           chain == traceChain
           named == [i \in DOMAIN chain |-> chain[i].event.trace]
           N == {named[i] : i \in DOMAIN chain}
<1>1. Basis(campaign).failures = F
  <2> DEFINE b == Cardinality(ListTraces(campaign))
             c == Unresolved(campaign)
  <2>1. Basis(campaign) = [campaign |-> campaign, scanned |-> b, unresolved |-> c, failures |-> F]
    BY DEF Basis
  <2> HIDE DEF b, c, F
  <2> QED
    BY <2>1
<1>2. IsFiniteSet(N)
  <2>1. DOMAIN chain = 1..Len(chain) /\ Len(chain) \in Nat
    OBVIOUS
  <2>2. IsFiniteSet(DOMAIN chain)
    BY <2>1, FS_Interval
  <2>3. DOMAIN named = DOMAIN chain
    OBVIOUS
  <2> HIDE DEF named
  <2> QED
    BY <2>2, <2>3, ImagesAreFinite
<1>3. \A t \in Failed(campaign) : \E e \in Stored : e.trace = t
  BY DEF Failed, ListTraces, LastActivity, Matching
<1>4. Failed(campaign) \subseteq N
  BY <1>3 DEF Stored
<1>5. IsFiniteSet(Failed(campaign))
  <2> HIDE DEF N
  <2> QED
    BY <1>2, <1>4, FS_Subset
<1>6. \A e \in Stored : e.trace \in Nat /\ e.task \in Nat
  BY TraceAssumption DEF Stored
<1>7. ASSUME NEW t \in Failed(campaign) PROVE t \in Nat /\ TaskOf(t) \in Nat
  <2> DEFINE T == {e.task : e \in {e \in Stored : e.trace = t}}
  <2>1. T \in SUBSET Nat /\ T # {} /\ t \in Nat
    BY <1>3, <1>6
  <2>2. TaskOf(t) = Min(T)
    BY DEF TaskOf
  <2> HIDE DEF T
  <2>3. \E x \in T : \A y \in T : x <= y
    BY <2>1, LeastNat
  <2>4. Min(T) \in T
    BY <2>3 DEF Min
  <2> QED
    BY <2>1, <2>2, <2>4
<1>8. \A t : ClusterKey(t) = <<ClusterKey(t)[1], ClusterKey(t)[2]>>
  BY DEF ClusterKey
<1> DEFINE g == [t \in Failed(campaign) |-> <<t, TaskOf(t), ClusterKey(t)>>]
<1>9. DOMAIN g = Failed(campaign) /\ F = {g[t] : t \in Failed(campaign)}
  OBVIOUS
<1>10. IsFiniteSet(F)
  <2> HIDE DEF g, F
  <2> QED
    BY <1>5, <1>9, ImagesAreFinite
<1>11. ASSUME NEW x \in F PROVE \E t \in Failed(campaign) : x[1] = t /\ x[2] = TaskOf(t) /\ x[3] = ClusterKey(t)
                                                           /\ x = <<t, TaskOf(t), ClusterKey(t)>>
  <2>1. PICK t \in Failed(campaign) : x = <<t, TaskOf(t), ClusterKey(t)>>
    OBVIOUS
  <2>2. x[1] = t /\ x[2] = TaskOf(t) /\ x[3] = ClusterKey(t)
    BY <2>1
  <2> QED
    BY <2>1, <2>2
<1> HIDE DEF F
<1>12. \A x \in F : x[1] \in Nat /\ x[2] \in Nat /\ x[3] = <<x[3][1], x[3][2]>>
  BY <1>7, <1>8, <1>11
<1>13. \A x, y \in F : x[1] = y[1] => x = y
  BY <1>11
<1> QED
  BY <1>1, <1>10, <1>12, <1>13 DEF FailuresShape

-----------------------------------------------------------------------------
(* A row of a chain nobody touched.  A hash is never the hash it extends:  *)
(* that is what tells two rows that exchanged their places.                *)
ChainRow(i) ==
  /\ traceChain[i] = [seq |-> i, event |-> ingested[i], prev |-> traceChain[i].prev,
                      hash |-> <<ingested[i], traceChain[i].prev>>]
  /\ traceChain[i].prev = (IF i = 1 THEN Genesis ELSE traceChain[i - 1].hash)
  /\ traceChain[i].hash # traceChain[i].prev
ChainIs ==
  /\ traceChain \in Seq(Range(traceChain)) /\ Len(traceChain) = Len(ingested)
  /\ \A i \in 1..Len(traceChain) : ChainRow(i)
EventsOf(listed) == [i \in DOMAIN listed |-> listed[i].event]
ShowsDamage(listed) == Violations(listed) = {} => IsPrefix(EventsOf(listed), ingested)

ReportRowIs(row) ==
  /\ row = [body |-> row.body, digest |-> row.digest, signed |-> row.signed, basis |-> row.basis]
  /\ row.digest = ReportOn(row.basis) /\ FailuresShape(row.basis.failures)
RowsAre ==
  /\ discoveryRows \in Seq(Range(discoveryRows))
  /\ \A i \in DOMAIN discoveryRows : ReportRowIs(discoveryRows[i])
  /\ \A i, j \in DOMAIN discoveryRows : discoveryRows[i].digest = discoveryRows[j].digest => i = j

DiscovererIs(run) ==
  /\ run = [at |-> run.at, report |-> run.report, basis |-> run.basis]
  /\ run.at \in {"look", "insert", "served"} => run.report = ReportOn(run.basis) /\ FailuresShape(run.basis.failures)
DiscoverersAre ==
  discovery = [d \in Discoverers |-> discovery[d]] /\ \A d \in Discoverers : DiscovererIs(discovery[d])

DiscoveryInv ==
  /\ ingested \in Seq(Events) /\ damagedChain \in BOOLEAN
  /\ ~damagedChain => ChainIs
  /\ damagedChain => ShowsDamage(traceChain)
  /\ RowsAre /\ DiscoverersAre

LEMMA ViolationShows ==
  ASSUME NEW listed, NEW i \in DOMAIN listed,
         \/ listed[i].seq # (IF i = 1 THEN 1 ELSE listed[i - 1].seq + 1)
         \/ listed[i].prev # (IF i = 1 THEN Genesis ELSE listed[i - 1].hash)
         \/ listed[i].hash # EventHash(listed[i].event, listed[i].prev)
  PROVE  Violations(listed) # {}
<1> DEFINE gap == IF listed[i].seq # (IF i = 1 THEN 1 ELSE listed[i - 1].seq + 1) THEN {<<i, "sequence_gap">>} ELSE {}
           prev == IF listed[i].prev # (IF i = 1 THEN Genesis ELSE listed[i - 1].hash)
                   THEN {<<i, "prev_hash_mismatch">>} ELSE {}
           hash == IF listed[i].hash # EventHash(listed[i].event, listed[i].prev) THEN {<<i, "hash_mismatch">>} ELSE {}
<1>1. gap # {} \/ prev # {} \/ hash # {}
  OBVIOUS
<1>2. gap \cup prev \cup hash \subseteq Violations(listed)
  BY DEF Violations
<1> QED
  BY <1>1, <1>2

LEMMA ChainRowIs ==
  ASSUME ChainIs, NEW i \in 1..Len(traceChain)
  PROVE  /\ traceChain[i].seq = i /\ traceChain[i].event = ingested[i]
         /\ traceChain[i].hash = <<ingested[i], traceChain[i].prev>>
         /\ traceChain[i].prev = (IF i = 1 THEN Genesis ELSE traceChain[i - 1].hash)
         /\ traceChain[i].hash # traceChain[i].prev
<1> DEFINE a == traceChain[i].prev
           e == ingested[i]
           h == <<e, a>>
<1>1. traceChain[i] = [seq |-> i, event |-> e, prev |-> a, hash |-> h]
  BY DEF ChainIs, ChainRow
<1>2. traceChain[i].prev = (IF i = 1 THEN Genesis ELSE traceChain[i - 1].hash)
      /\ traceChain[i].hash # traceChain[i].prev
  BY DEF ChainIs, ChainRow
<1> HIDE DEF a, e, h
<1>3. traceChain[i].seq = i /\ traceChain[i].event = e /\ traceChain[i].hash = h
  BY <1>1
<1> QED
  BY <1>2, <1>3 DEF a, e, h

LEMMA ChainVerifies ==
  ASSUME ChainIs, ingested \in Seq(Events)
  PROVE  /\ Violations(traceChain) = {} /\ IsPrefix(EventsOf(traceChain), ingested)
         /\ DOMAIN traceChain = 1..Len(traceChain) /\ Len(traceChain) \in Nat /\ Len(traceChain) = Len(ingested)
         /\ \A i \in DOMAIN traceChain : traceChain[i].event \in Events
<1>1. DOMAIN traceChain = 1..Len(traceChain) /\ Len(traceChain) \in Nat /\ Len(traceChain) = Len(ingested)
  BY DEF ChainIs
<1>2. \A i \in 1..Len(traceChain) :
         /\ traceChain[i].seq = i /\ traceChain[i].event = ingested[i]
         /\ traceChain[i].hash = <<ingested[i], traceChain[i].prev>>
         /\ traceChain[i].prev = (IF i = 1 THEN Genesis ELSE traceChain[i - 1].hash)
  BY ChainRowIs
<1>3. ASSUME NEW i \in 1..Len(traceChain)
      PROVE  /\ traceChain[i].seq = (IF i = 1 THEN 1 ELSE traceChain[i - 1].seq + 1)
             /\ traceChain[i].prev = (IF i = 1 THEN Genesis ELSE traceChain[i - 1].hash)
             /\ traceChain[i].hash = EventHash(traceChain[i].event, traceChain[i].prev)
  <2>1. CASE i = 1
    BY <1>2, <2>1 DEF EventHash
  <2>2. CASE i # 1
    <3>1. i - 1 \in 1..Len(traceChain) /\ i - 1 + 1 = i
      BY <1>1, <2>2
    <3>2. traceChain[i - 1].seq = i - 1
      BY <1>2, <3>1
    <3> QED
      BY <1>2, <2>2, <3>1, <3>2 DEF EventHash
  <2> QED
    BY <2>1, <2>2
<1>4. Violations(traceChain) = {}
  BY <1>1, <1>3 DEF Violations
<1>5. \A i \in DOMAIN traceChain : traceChain[i].event \in Events
  <2>1. \A i \in 1..Len(ingested) : ingested[i] \in Events
    OBVIOUS
  <2> QED
    BY <1>1, <1>2, <2>1
<1>6. IsPrefix(EventsOf(traceChain), ingested)
  <2> DEFINE ee == EventsOf(traceChain)
  <2>1. ee = [i \in 1..Len(traceChain) |-> traceChain[i].event]
    BY <1>1 DEF EventsOf
  <2>2. ee \in Seq(Events) /\ Len(ee) = Len(ingested) /\ \A i \in 1..Len(ee) : ee[i] = ingested[i]
    BY <1>1, <1>2, <1>5, <2>1
  <2> HIDE DEF ee
  <2>3. Len(ee) <= Len(ingested)
    BY <1>1, <2>2
  <2>4. IsPrefix(ee, ingested)
    BY <2>2, <2>3, PrefixIs
  <2> QED
    BY <2>4 DEF ee
<1> QED
  BY <1>1, <1>4, <1>5, <1>6

-----------------------------------------------------------------------------
(* Damage to the chain shows: an envelope altered is not what was hashed,  *)
(* two listed that exchanged their places extend the wrong hash, a row that  *)
(* is gone leaves a gap, and only the last one goes without a trace.       *)
LEMMA RowHasFields ==
  ASSUME ChainIs, NEW i \in 1..Len(traceChain)
  PROVE  traceChain[i] = [seq |-> traceChain[i].seq, event |-> traceChain[i].event, prev |-> traceChain[i].prev,
                          hash |-> traceChain[i].hash]
<1> DEFINE s == traceChain[i].seq
           a == traceChain[i].prev
           h == traceChain[i].hash
           e == traceChain[i].event
<1>1. traceChain[i] = [seq |-> i, event |-> ingested[i], prev |-> a, hash |-> <<ingested[i], a>>]
  BY DEF ChainIs, ChainRow
<1>2. s = i /\ e = ingested[i] /\ h = <<ingested[i], a>>
  BY ChainRowIs
<1> HIDE DEF s, a, h, e
<1>3. traceChain[i] = [seq |-> s, event |-> e, prev |-> a, hash |-> h]
  BY <1>1, <1>2
<1> QED
  BY <1>3 DEF s, a, h, e

LEMMA AlteredShows ==
  ASSUME ChainIs, NEW i \in 1..Len(traceChain), NEW event, event # traceChain[i].event,
         NEW listed, listed = [traceChain EXCEPT ![i].event = event]
  PROVE  Violations(listed) # {}
<1>1. DOMAIN traceChain = 1..Len(traceChain)
  BY DEF ChainIs
<1> DEFINE s == traceChain[i].seq
           a == traceChain[i].prev
           h == traceChain[i].hash
           e == traceChain[i].event
<1>2. traceChain[i] = [seq |-> s, event |-> e, prev |-> a, hash |-> h]
  BY RowHasFields
<1>7. h = <<e, a>>
  BY ChainRowIs
<1> HIDE DEF s, a, h, e
<1>3. listed[i] = [[seq |-> s, event |-> e, prev |-> a, hash |-> h] EXCEPT !.event = event] /\ i \in DOMAIN listed
  BY <1>1, <1>2
<1>4. listed[i].event = event /\ listed[i].prev = a /\ listed[i].hash = h
  BY <1>3
<1>5. event # e
  BY DEF e
<1>6. listed[i].hash # EventHash(listed[i].event, listed[i].prev)
  BY <1>7, <1>4, <1>5 DEF EventHash
<1> QED
  BY <1>3, <1>6, ViolationShows

LEMMA ExchangeShows ==
  ASSUME ChainIs, NEW i \in 1..Len(traceChain), i < Len(traceChain), NEW listed,
         listed = [traceChain EXCEPT ![i] = [traceChain[i + 1] EXCEPT !.seq = traceChain[i].seq],
                                   ![i + 1] = [traceChain[i] EXCEPT !.seq = traceChain[i + 1].seq]]
  PROVE  Violations(listed) # {}
<1>1. DOMAIN traceChain = 1..Len(traceChain) /\ Len(traceChain) \in Nat
  BY DEF ChainIs
<1>2. i + 1 \in 1..Len(traceChain) /\ i + 1 # i /\ i + 1 # 1 /\ i + 1 - 1 = i
  BY <1>1
<1> DEFINE s == traceChain[i + 1].seq
           a == traceChain[i + 1].prev
           h == traceChain[i + 1].hash
           e == traceChain[i + 1].event
<1>3. traceChain[i + 1] = [seq |-> s, event |-> e, prev |-> a, hash |-> h]
  BY <1>2, RowHasFields
<1> HIDE DEF s, a, h, e
<1>4. listed[i] = [[seq |-> s, event |-> e, prev |-> a, hash |-> h] EXCEPT !.seq = traceChain[i].seq]
  BY <1>1, <1>2, <1>3
<1>5. i \in DOMAIN listed
  BY <1>1
<1>6. listed[i].prev = a
  BY <1>4
<1>7. a = traceChain[i].hash
  BY <1>2, ChainRowIs DEF a
<1>8. traceChain[i].hash # traceChain[i].prev
  BY ChainRowIs
<1>9. listed[i].prev # (IF i = 1 THEN Genesis ELSE listed[i - 1].hash)
  <2>1. i # 1 => listed[i - 1] = traceChain[i - 1]
    BY <1>1, <1>2
  <2>2. traceChain[i].prev = (IF i = 1 THEN Genesis ELSE traceChain[i - 1].hash)
    BY ChainRowIs
  <2> QED
    BY <1>6, <1>7, <1>8, <2>1, <2>2
<1> HIDE DEF a
<1>10. Violations(listed) # {}
  BY ONLY <1>5, <1>9, ViolationShows, SMT
<1> QED
  BY <1>10

LEMMA RemovalShows ==
  ASSUME ChainIs, ingested \in Seq(Events), NEW i \in 1..Len(traceChain), NEW listed, listed = RemoveAt(traceChain, i)
  PROVE  ShowsDamage(listed)
<1>1. DOMAIN traceChain = 1..Len(traceChain) /\ Len(traceChain) \in Nat /\ Len(traceChain) = Len(ingested)
  BY DEF ChainIs
<1>2. /\ Len(listed) = Len(traceChain) - 1 /\ DOMAIN listed = 1..Len(traceChain) - 1
      /\ \A k \in 1..Len(traceChain) - 1 : listed[k] = IF k < i THEN traceChain[k] ELSE traceChain[k + 1]
  BY RemovedIs DEF ChainIs
<1>3. CASE i < Len(traceChain)
  <2>1. i \in 1..Len(traceChain) - 1 /\ i + 1 \in 1..Len(traceChain) /\ i \in Nat
    BY <1>1, <1>3
  <2>2. listed[i].seq = i + 1
    BY <1>2, <2>1, ChainRowIs
  <2>3. i # 1 => listed[i - 1].seq = i - 1
    <3> SUFFICES ASSUME i # 1 PROVE listed[i - 1].seq = i - 1
      OBVIOUS
    <3>1. i - 1 \in 1..Len(traceChain) - 1 /\ i - 1 < i /\ i - 1 \in 1..Len(traceChain)
      BY <1>1, <2>1
    <3>2. listed[i - 1] = traceChain[i - 1]
      BY <1>2, <3>1
    <3> QED
      BY <3>1, <3>2, ChainRowIs
  <2>4. listed[i].seq # (IF i = 1 THEN 1 ELSE listed[i - 1].seq + 1)
    BY <2>1, <2>2, <2>3
  <2>5. Violations(listed) # {}
    BY <1>2, <2>1, <2>4, ViolationShows
  <2> QED
    BY <2>5 DEF ShowsDamage
<1>4. CASE ~(i < Len(traceChain))
  <2>1. i = Len(traceChain)
    <3> DEFINE m == Len(traceChain)
    <3>1. m \in Nat /\ i \in 1..m /\ ~(i < m)
      BY <1>1, <1>4
    <3> HIDE DEF m
    <3>2. i = m
      BY <3>1
    <3> QED
      BY <3>2 DEF m
  <2> DEFINE n == Len(traceChain) - 1
  <2>2. n \in Nat /\ n <= Len(ingested) /\ \A k \in 1..n : k < i /\ k \in 1..Len(traceChain)
    BY <1>1, <2>1
  <2>3. EventsOf(listed) = [k \in 1..n |-> listed[k].event]
    BY <1>2 DEF EventsOf
  <2>4. \A k \in 1..n : listed[k] = traceChain[k]
    BY <1>2, <2>2
  <2>5. \A k \in 1..n : traceChain[k].event = ingested[k]
    BY <2>2, ChainRowIs
  <2>6. \A k \in 1..n : ingested[k] \in Events
    BY <1>1, <2>2
  <2> HIDE DEF n
  <2>7. /\ EventsOf(listed) \in Seq(Events)
        /\ Len(EventsOf(listed)) = n
        /\ \A k \in 1..n : EventsOf(listed)[k] = ingested[k]
    BY <2>2, <2>3, <2>4, <2>5, <2>6
  <2>8. IsPrefix(EventsOf(listed), ingested)
    BY <2>2, <2>7, PrefixIs
  <2> QED
    BY <2>8 DEF ShowsDamage
<1> QED
  BY <1>3, <1>4

LEMMA DamageIsShown ==
  ASSUME DiscoveryInv, DamageChain PROVE damagedChain' /\ ShowsDamage(traceChain)'
<1>1. ChainIs /\ ingested \in Seq(Events) /\ damagedChain' /\ ingested' = ingested
  BY DEF DiscoveryInv, DamageChain
<1>2. DOMAIN traceChain = 1..Len(traceChain)
  BY <1>1, ChainVerifies
<1>3. PICK i \in 1..Len(traceChain) :
        \/ \E event \in Events \ {traceChain[i].event} : traceChain' = [traceChain EXCEPT ![i].event = event]
        \/ /\ i < Len(traceChain)
           /\ traceChain' = [traceChain EXCEPT ![i] = [traceChain[i + 1] EXCEPT !.seq = traceChain[i].seq],
                                               ![i + 1] = [traceChain[i] EXCEPT !.seq = traceChain[i + 1].seq]]
        \/ traceChain' = RemoveAt(traceChain, i)
  BY <1>2 DEF DamageChain
<1>4. ShowsDamage(traceChain')
  <2>1. CASE \E event \in Events \ {traceChain[i].event} : traceChain' = [traceChain EXCEPT ![i].event = event]
    BY <1>1, <2>1, AlteredShows DEF ShowsDamage
  <2>2. CASE /\ i < Len(traceChain)
             /\ traceChain' = [traceChain EXCEPT ![i] = [traceChain[i + 1] EXCEPT !.seq = traceChain[i].seq],
                                                 ![i + 1] = [traceChain[i] EXCEPT !.seq = traceChain[i + 1].seq]]
    BY <1>1, <2>2, ExchangeShows DEF ShowsDamage
  <2>3. CASE traceChain' = RemoveAt(traceChain, i)
    BY <1>1, <2>3, RemovalShows
  <2> QED
    BY <1>3, <2>1, <2>2, <2>3
<1> QED
  BY <1>1, <1>4 DEF ShowsDamage

LEMMA IngestionExtends ==
  ASSUME DiscoveryInv, NEW event \in Events, Ingest(event)
  PROVE  ingested' \in Seq(Events) /\ ~damagedChain' /\ ChainIs'
<1> DEFINE n == Len(traceChain)
           prev == IF traceChain = <<>> THEN Genesis ELSE Last(traceChain).hash
           row == [seq |-> n + 1, event |-> event, prev |-> prev, hash |-> EventHash(event, prev)]
<1>1. /\ ~damagedChain /\ ingested \in Seq(Events) /\ ChainIs /\ damagedChain' = damagedChain
      /\ traceChain' = Append(traceChain, row) /\ ingested' = Append(ingested, event)
  BY DEF DiscoveryInv, Ingest, Undamaged
<1>2. ingested' \in Seq(Events)
  BY <1>1
<1>3. traceChain \in Seq(Range(traceChain)) /\ n = Len(ingested)
  BY <1>1 DEF ChainIs
<1> HIDE DEF row, prev
<1>4. /\ traceChain' \in Seq(Range(traceChain')) /\ Len(traceChain') = n + 1 /\ n \in Nat
      /\ DOMAIN traceChain = 1..n /\ DOMAIN traceChain' = 1..n + 1 /\ traceChain'[n + 1] = row
      /\ \A i \in 1..n : traceChain'[i] = traceChain[i]
  BY <1>1, <1>3, SequenceGrows
<1>5. /\ Len(ingested') = n + 1 /\ ingested'[n + 1] = event
      /\ \A i \in 1..n : ingested'[i] = ingested[i]
  BY <1>1, <1>3
<1>6. prev = (IF n + 1 = 1 THEN Genesis ELSE traceChain'[n + 1 - 1].hash)
  <2>1. CASE n = 0
    <3>1. traceChain = <<>>
      BY <1>3, <2>1
    <3> QED
      BY <2>1, <3>1 DEF prev
  <2>2. CASE n # 0
    <3>1. traceChain # <<>> /\ n + 1 # 1 /\ n + 1 - 1 = n /\ n \in 1..n
      BY <1>4, <2>2
    <3>2. Last(traceChain) = traceChain[n]
      BY DEF Last
    <3> QED
      BY <1>4, <3>1, <3>2 DEF prev
  <2> QED
    BY <2>1, <2>2
<1>7. <<event, prev>> # prev
  <2>1. CASE n = 0
    <3>1. prev = <<>>
      BY <1>4, <1>6, <2>1 DEF Genesis
    <3> QED
      BY <3>1
  <2>2. CASE n # 0
    <3>1. n \in 1..n /\ n + 1 # 1 /\ n + 1 - 1 = n
      BY <1>4, <2>2
    <3>2. prev = traceChain[n].hash
      BY <1>4, <1>6, <3>1
    <3> DEFINE a == traceChain[n].prev
               e == ingested[n]
    <3>3. prev = <<e, a>> /\ prev # a
      BY <1>1, <3>1, <3>2, ChainRowIs
    <3> HIDE DEF a, e
    <3>4. SUFFICES ASSUME <<event, prev>> = prev PROVE FALSE
      OBVIOUS
    <3>5. <<event, prev>> = <<e, a>>
      BY <3>3, <3>4
    <3>6. prev = a
      BY <3>5
    <3> QED
      BY <3>3, <3>6
  <2> QED
    BY <2>1, <2>2
<1>8. ASSUME NEW i \in 1..n + 1 PROVE ChainRow(i)'
  <2>1. CASE i = n + 1
    <3> DEFINE h == EventHash(event, prev)
               m == n + 1
    <3>1. row = [seq |-> m, event |-> event, prev |-> prev, hash |-> h]
      BY DEF row
    <3>0. h = <<event, prev>>
      BY DEF EventHash
    <3> HIDE DEF h, m
    <3>2. row.prev = prev /\ row.hash = h
      BY <3>1
    <3>3. traceChain'[i] = row /\ ingested'[i] = event /\ i = m
      BY <1>4, <1>5, <2>1 DEF m
    <3>4. traceChain'[i] = [seq |-> i, event |-> ingested'[i], prev |-> traceChain'[i].prev,
                            hash |-> <<ingested'[i], traceChain'[i].prev>>]
      BY <3>0, <3>1, <3>2, <3>3
    <3>5. traceChain'[i].prev = (IF i = 1 THEN Genesis ELSE traceChain'[i - 1].hash)
      BY <1>6, <2>1, <3>2, <3>3
    <3>6. traceChain'[i].hash # traceChain'[i].prev
      BY <1>7, <3>0, <3>2, <3>3
    <3> QED
      BY <3>4, <3>5, <3>6 DEF ChainRow
  <2>2. CASE i # n + 1
    <3>1. i \in 1..n
      BY <1>4, <2>2
    <3>2. ChainRow(i)
      BY <1>1, <3>1 DEF ChainIs
    <3>3. traceChain'[i] = traceChain[i] /\ ingested'[i] = ingested[i]
      BY <1>4, <1>5, <3>1
    <3>4. i # 1 => traceChain'[i - 1] = traceChain[i - 1]
      BY <1>4, <3>1
    <3> QED
      BY <3>2, <3>3, <3>4 DEF ChainRow
  <2> QED
    BY <2>1, <2>2
<1> QED
  BY <1>1, <1>2, <1>4, <1>5, <1>8 DEF ChainIs

-----------------------------------------------------------------------------
(* What one discoverer does leaves the others as they were. *)
LEMMA OneDiscovers ==
  ASSUME DiscoverersAre, NEW d \in Discoverers, NEW run, DiscovererIs(run), discovery' = [discovery EXCEPT ![d] = run]
  PROVE  DiscoverersAre'
<1>1. DOMAIN discovery = Discoverers
  BY DEF DiscoverersAre
<1>2. \A x \in Discoverers : discovery'[x] = IF x = d THEN run ELSE discovery[x]
  BY <1>1
<1>3. discovery' = [x \in Discoverers |-> discovery'[x]]
  BY <1>1
<1>4. \A x \in Discoverers : DiscovererIs(discovery'[x])
  BY <1>2 DEF DiscoverersAre
<1> QED
  BY <1>3, <1>4 DEF DiscoverersAre

LEMMA ReadersRead ==
  ASSUME DiscoveryInv, NEW d \in Discoverers, NEW campaign, ReadTraces(d, campaign)
  PROVE  DiscoverersAre'
<1> DEFINE b == Basis(campaign)
           r == ClusterFailures(campaign)
           run == [at |-> "look", report |-> r, basis |-> b]
<1>1. DiscoverersAre /\ ChainIs /\ ingested \in Seq(Events) /\ discovery' = [discovery EXCEPT ![d] = run]
  BY DEF DiscoveryInv, ReadTraces
<1>2. r = ReportOn(b)
  BY ReportIsOnBasis
<1>3. FailuresShape(b.failures)
  <2>1. traceChain \in Seq(Range(traceChain)) /\ \A i \in DOMAIN traceChain : traceChain[i].event \in Events
    BY <1>1, ChainVerifies DEF ChainIs
  <2> QED
    BY <2>1, BasisIsShaped
<1> HIDE DEF b, r
<1>4. run.at = "look" /\ run.report = r /\ run.basis = b
  OBVIOUS
<1>5. DiscovererIs(run)
  BY <1>2, <1>3, <1>4 DEF DiscovererIs
<1> HIDE DEF run
<1> QED
  BY <1>1, <1>5, OneDiscovers

LEMMA ServedIs ==
  ASSUME DiscoverersAre, NEW d \in Discoverers, NEW row, row.digest = ReportOn(discovery[d].basis),
         FailuresShape(discovery[d].basis.failures), discovery' = Served(d, row)
  PROVE  DiscoverersAre'
<1> DEFINE b == discovery[d].basis
           r == discovery[d].report
           a == discovery[d].at
           a1 == IF VerifyReport(row) THEN "served" ELSE "refused"
           r1 == IF VerifyReport(row) THEN row.body ELSE r
           run == [at |-> a1, report |-> r1, basis |-> b]
<1>1. DOMAIN discovery = Discoverers /\ discovery[d] = [at |-> a, report |-> r, basis |-> b]
  BY DEF DiscoverersAre, DiscovererIs
<1>2. discovery' = [discovery EXCEPT ![d] = IF VerifyReport(row)
                                               THEN [discovery[d] EXCEPT !.at = "served", !.report = row.body]
                                               ELSE [discovery[d] EXCEPT !.at = "refused"]]
  BY DEF Served
<1>3. discovery' = [discovery EXCEPT ![d] = run]
  <2> DEFINE body == row.body
  <2>1. CASE VerifyReport(row)
    <3>1. a1 = "served" /\ r1 = body
      BY <2>1
    <3> HIDE DEF a, b, r, a1, r1, body
    <3>3. [discovery[d] EXCEPT !.at = "served"] = [at |-> a1, report |-> r, basis |-> b]
      BY <1>1, <3>1
    <3>4. [[at |-> a1, report |-> r, basis |-> b] EXCEPT !.report = body] = run
      BY <3>1
    <3>5. [discovery[d] EXCEPT !.at = "served", !.report = body] =
          [[discovery[d] EXCEPT !.at = "served"] EXCEPT !.report = body]
      OBVIOUS
    <3>2. [discovery[d] EXCEPT !.at = "served", !.report = body] = run
      BY <3>3, <3>4, <3>5
    <3> QED
      BY <1>2, <2>1, <3>2 DEF body
  <2>2. CASE ~VerifyReport(row)
    <3>1. a1 = "refused" /\ r1 = r
      BY <2>2
    <3> HIDE DEF a, b, r, a1, r1
    <3>2. [discovery[d] EXCEPT !.at = "refused"] = run
      BY <1>1, <3>1
    <3> QED
      BY <1>2, <2>2, <3>2
  <2> QED
    BY <2>1, <2>2
<1>4. VerifyReport(row) => r1 = ReportOn(b)
  BY DEF VerifyReport
<1>5. a1 \in {"look", "insert", "served"} => VerifyReport(row)
  OBVIOUS
<1>6. FailuresShape(b.failures)
  OBVIOUS
<1> HIDE DEF a, b, r, a1, r1
<1>7. run.at = a1 /\ run.report = r1 /\ run.basis = b
  OBVIOUS
<1>8. DiscovererIs(run)
  BY <1>4, <1>5, <1>6, <1>7 DEF DiscovererIs
<1> HIDE DEF run
<1> QED
  BY <1>3, <1>8, OneDiscovers

LEMMA FoundIs ==
  ASSUME DiscoverersAre, NEW d \in Discoverers, discovery[d].at \in {"look", "insert"}
  PROVE  discovery[d].report = ReportOn(discovery[d].basis) /\ FailuresShape(discovery[d].basis.failures)
BY DEF DiscoverersAre, DiscovererIs

LEMMA TurnsAre ==
  ASSUME DiscoverersAre, NEW d \in Discoverers, NEW to \in {"insert", "collided"},
         discovery[d].at \in {"look", "insert"}, discovery' = [discovery EXCEPT ![d].at = to]
  PROVE  DiscoverersAre'
<1> DEFINE b == discovery[d].basis
           r == discovery[d].report
           a == discovery[d].at
           run == [at |-> to, report |-> r, basis |-> b]
<1>1. DOMAIN discovery = Discoverers /\ discovery[d] = [at |-> a, report |-> r, basis |-> b]
  BY DEF DiscoverersAre, DiscovererIs
<1>2. r = ReportOn(b) /\ FailuresShape(b.failures)
  BY FoundIs
<1> HIDE DEF a, b, r
<1>6. [discovery[d] EXCEPT !.at = to] = run
  BY <1>1
<1>3. discovery' = [discovery EXCEPT ![d] = run]
  BY <1>6
<1>4. run.at = to /\ run.report = r /\ run.basis = b
  OBVIOUS
<1>5. DiscovererIs(run)
  BY <1>2, <1>4 DEF DiscovererIs
<1> HIDE DEF run
<1> QED
  BY <1>3, <1>5, OneDiscovers

LEMMA LookersLook ==
  ASSUME DiscoveryInv, NEW d \in Discoverers, LookForReport(d)
  PROVE  DiscoverersAre'
<1>1. DiscoverersAre /\ discovery[d].at \in {"look", "insert"}
  BY DEF DiscoveryInv, LookForReport
<1>2. CASE discovery' = [discovery EXCEPT ![d].at = "insert"]
  BY <1>1, <1>2, TurnsAre
<1>3. ASSUME NEW row \in Range(discoveryRows), row.digest = discovery[d].report, discovery' = Served(d, row)
      PROVE  DiscoverersAre'
  <2>1. discovery[d].report = ReportOn(discovery[d].basis) /\ FailuresShape(discovery[d].basis.failures)
    BY <1>1, FoundIs
  <2>2. row.digest = ReportOn(discovery[d].basis)
    BY <1>3, <2>1
  <2> QED
    BY <1>1, <1>3, <2>1, <2>2, ServedIs
<1> QED
  BY <1>2, <1>3 DEF LookForReport

(* A report is inserted where none has its digest: one row for what was found. *)
LEMMA InsertersInsert ==
  ASSUME DiscoveryInv, NEW d \in Discoverers, InsertReport(d)
  PROVE  DiscoverersAre' /\ RowsAre'
<1> DEFINE r == discovery[d].report
           b == discovery[d].basis
           row == [body |-> r, digest |-> r, signed |-> r, basis |-> b]
<1>1. DiscoverersAre /\ RowsAre /\ discovery[d].at \in {"look", "insert"}
  BY DEF DiscoveryInv, InsertReport
<1>2. r = ReportOn(b) /\ FailuresShape(b.failures)
  BY <1>1, FoundIs
<1>3. CASE ExistingReport(r)
  <2>1. discovery' = [discovery EXCEPT ![d].at = "collided"] /\ discoveryRows' = discoveryRows
    BY <1>3 DEF InsertReport
  <2>2. DiscoverersAre'
    BY <1>1, <2>1, TurnsAre
  <2>3. RowsAre'
    BY <1>1, <2>1 DEF RowsAre
  <2> QED
    BY <2>2, <2>3
<1>4. CASE ~ExistingReport(r)
  <2>1. discoveryRows' = Append(discoveryRows, row) /\ discovery' = Served(d, row)
    BY <1>4 DEF InsertReport
  <2>2. row.body = r /\ row.digest = r /\ row.signed = r /\ row.basis = b
    <3> HIDE DEF r, b
    <3> QED
      OBVIOUS
  <2>3. ReportRowIs(row)
    <3>1. row = [body |-> row.body, digest |-> row.digest, signed |-> row.signed, basis |-> row.basis]
      BY <2>2
    <3> HIDE DEF row, r, b
    <3> QED
      BY <1>2, <2>2, <3>1 DEF ReportRowIs
  <2>4. DiscoverersAre'
    <3>1. row.digest = ReportOn(discovery[d].basis)
      BY <1>2, <2>2 DEF b
    <3>2. FailuresShape(discovery[d].basis.failures)
      BY <1>2 DEF b
    <3> HIDE DEF row
    <3> QED
      BY <1>1, <2>1, <3>1, <3>2, ServedIs
  <2> DEFINE n == Len(discoveryRows)
  <2>5. \A i \in DOMAIN discoveryRows : discoveryRows[i].digest # r
    BY <1>4 DEF ExistingReport
  <2> HIDE DEF row, r, b
  <2>6. discoveryRows \in Seq(Range(discoveryRows))
    BY <1>1 DEF RowsAre
  <2>7. /\ discoveryRows' \in Seq(Range(discoveryRows')) /\ n \in Nat
        /\ DOMAIN discoveryRows = 1..n /\ DOMAIN discoveryRows' = 1..n + 1 /\ discoveryRows'[n + 1] = row
        /\ \A i \in 1..n : discoveryRows'[i] = discoveryRows[i]
    BY <2>1, <2>6, SequenceGrows
  <2> HIDE DEF n
  <2>8. \A i \in 1..n + 1 : i \in 1..n \/ i = n + 1
    BY <2>7
  <2>9. ASSUME NEW i \in 1..n + 1 PROVE ReportRowIs(discoveryRows'[i])
    BY <1>1, <2>3, <2>7, <2>8 DEF RowsAre
  <2>10. ASSUME NEW i \in 1..n + 1, NEW j \in 1..n + 1, discoveryRows'[i].digest = discoveryRows'[j].digest
         PROVE  i = j
    <3>1. \A k \in 1..n : discoveryRows'[k].digest # r
      BY <2>5, <2>7
    <3>2. discoveryRows'[n + 1].digest = r
      BY <2>2, <2>7
    <3>3. \A k, l \in 1..n : discoveryRows'[k].digest = discoveryRows'[l].digest => k = l
      BY <1>1, <2>7 DEF RowsAre
    <3> QED
      BY <2>8, <2>10, <3>1, <3>2, <3>3
  <2>11. RowsAre'
    BY <2>7, <2>9, <2>10 DEF RowsAre
  <2> QED
    BY <2>4, <2>11
<1> QED
  BY <1>3, <1>4

(* A row whose body is altered is still the row of its digest. *)
LEMMA AlteredRowsAre ==
  ASSUME DiscoveryInv, DamageReport PROVE RowsAre'
<1>1. RowsAre /\ Len(discoveryRows) = 1 /\ DOMAIN discoveryRows = 1..1
  BY DEF DiscoveryInv, DamageReport, RowsAre
<1>2. PICK body : discoveryRows' = [discoveryRows EXCEPT ![1].body = body]
  BY DEF DamageReport
<1> DEFINE e == discoveryRows[1].digest
           g == discoveryRows[1].signed
           b == discoveryRows[1].basis
           a == discoveryRows[1].body
<1>3. discoveryRows[1] = [body |-> a, digest |-> e, signed |-> g, basis |-> b] /\ e = ReportOn(b)
      /\ FailuresShape(b.failures)
  BY <1>1 DEF RowsAre, ReportRowIs
<1> HIDE DEF e, g, b, a
<1> DEFINE row == [body |-> body, digest |-> e, signed |-> g, basis |-> b]
<1>4. discoveryRows' = [i \in 1..1 |-> row]
  <2>1. discoveryRows = [i \in 1..1 |-> discoveryRows[i]]
    BY <1>1 DEF RowsAre
  <2>2. discoveryRows'[1] = row /\ DOMAIN discoveryRows' = 1..1
    BY <1>1, <1>2, <1>3
  <2>3. discoveryRows' = [i \in 1..1 |-> discoveryRows'[i]]
    BY <1>2, <2>1
  <2> HIDE DEF row
  <2>4. \A i \in 1..1 : i = 1
    OBVIOUS
  <2> QED
    BY <2>2, <2>3, <2>4
<1>5. row.body = body /\ row.digest = e /\ row.signed = g /\ row.basis = b
  OBVIOUS
<1>6. ReportRowIs(row)
  <2>1. row = [body |-> row.body, digest |-> row.digest, signed |-> row.signed, basis |-> row.basis]
    BY <1>5
  <2> HIDE DEF row
  <2> QED
    BY <1>3, <1>5, <2>1 DEF ReportRowIs
<1> HIDE DEF row
<1>7. DOMAIN discoveryRows' = 1..1 /\ \A i \in 1..1 : i = 1 /\ discoveryRows'[i] = row
  BY <1>4
<1>8. discoveryRows' \in Seq(Range(discoveryRows'))
  <2>1. row \in Range(discoveryRows')
    BY <1>7 DEF Range
  <2> DEFINE S == Range(discoveryRows')
  <2> HIDE DEF S
  <2>2. row \in S
    BY <2>1 DEF S
  <2>3. discoveryRows' \in Seq(S)
    BY <1>4, <2>2
  <2> QED
    BY <2>3 DEF S
<1> QED
  BY <1>6, <1>7, <1>8 DEF RowsAre

-----------------------------------------------------------------------------
LEMMA DiscoveryStarts ==
  ASSUME TraceInit PROVE DiscoveryInv
<1>0. traceChain = <<>> /\ ingested = <<>> /\ discoveryRows = <<>> /\ ~damagedChain /\ damagedChain \in BOOLEAN
  BY DEF TraceInit
<1>6. \A S : <<>> \in Seq(S) /\ Len(<<>>) = 0 /\ DOMAIN <<>> = {} /\ 1..0 = {}
  OBVIOUS
<1>1. /\ ingested \in Seq(Events) /\ damagedChain \in BOOLEAN /\ ~damagedChain
      /\ traceChain \in Seq(Range(traceChain)) /\ Len(traceChain) = Len(ingested) /\ 1..Len(traceChain) = {}
      /\ discoveryRows \in Seq(Range(discoveryRows)) /\ DOMAIN discoveryRows = {}
  BY <1>0, <1>6
<1>2. ChainIs /\ RowsAre
  BY <1>1 DEF ChainIs, RowsAre
<1>3. DiscovererIs(NoReport)
  BY DEF DiscovererIs, NoReport
<1>4. discovery = [d \in Discoverers |-> NoReport]
  BY DEF TraceInit
<1>5. DiscoverersAre
  <2> DEFINE none == NoReport
  <2>1. discovery = [d \in Discoverers |-> none] /\ DiscovererIs(none)
    BY <1>3, <1>4
  <2> HIDE DEF none
  <2> QED
    BY <2>1 DEF DiscoverersAre
<1> QED
  BY <1>1, <1>2, <1>5 DEF DiscoveryInv

LEMMA ChainStays ==
  ASSUME DiscoveryInv, UNCHANGED <<traceChain, ingested, damagedChain>>
  PROVE  /\ ingested' \in Seq(Events) /\ damagedChain' \in BOOLEAN
         /\ ~damagedChain' => ChainIs'
         /\ damagedChain' => ShowsDamage(traceChain)'
<1>1. ChainIs => ChainIs'
  BY DEF ChainIs, ChainRow
<1> QED
  BY <1>1 DEF DiscoveryInv, ShowsDamage

LEMMA RowsStay ==
  ASSUME DiscoveryInv, discoveryRows' = discoveryRows PROVE RowsAre'
BY DEF DiscoveryInv, RowsAre

LEMMA DiscoverersStay ==
  ASSUME DiscoveryInv, discovery' = discovery PROVE DiscoverersAre'
BY DEF DiscoveryInv, DiscoverersAre

LEMMA DiscoveryMoves ==
  ASSUME DiscoveryInv, [TraceNext]_traceVars PROVE DiscoveryInv'
<1>1. CASE UNCHANGED traceVars
  BY <1>1, ChainStays, RowsStay, DiscoverersStay DEF traceVars, DiscoveryInv
<1>2. CASE DamageChain
  BY <1>2, DamageIsShown, RowsStay, DiscoverersStay DEF DiscoveryInv, DamageChain
<1>3. CASE LoseBody
  BY <1>3, ChainStays, RowsStay, DiscoverersStay DEF DiscoveryInv, LoseBody
<1>4. CASE DamageReport
  BY <1>4, ChainStays, AlteredRowsAre, DiscoverersStay DEF DiscoveryInv, DamageReport
<1>5. ASSUME NEW event \in Events, Ingest(event) PROVE DiscoveryInv'
  BY <1>5, IngestionExtends, RowsStay, DiscoverersStay DEF DiscoveryInv, Ingest
<1>6. ASSUME NEW d \in Discoverers, LookForReport(d) PROVE DiscoveryInv'
  BY <1>6, ChainStays, RowsStay, LookersLook DEF DiscoveryInv, LookForReport
<1>7. ASSUME NEW d \in Discoverers, InsertReport(d) PROVE DiscoveryInv'
  BY <1>7, ChainStays, InsertersInsert DEF DiscoveryInv, InsertReport
<1>8. ASSUME NEW d \in Discoverers, NEW campaign \in Campaigns, ReadTraces(d, campaign) PROVE DiscoveryInv'
  BY <1>8, ChainStays, RowsStay, ReadersRead DEF DiscoveryInv, ReadTraces
<1> QED
  BY <1>1, <1>2, <1>3, <1>4, <1>5, <1>6, <1>7, <1>8 DEF TraceNext

LEMMA DiscoveryShows ==
  ASSUME DiscoveryInv PROVE TracesAreFaithful
<1>1. DamageShows
  BY ChainVerifies DEF DiscoveryInv, DamageShows, ShowsDamage, EventsOf
<1>2. RowsAre /\ DiscoverersAre
  BY DEF DiscoveryInv
<1>3. ASSUME NEW i \in DOMAIN discoveryRows
      PROVE  discoveryRows[i].digest = ReportOn(discoveryRows[i].basis)
             /\ FailuresShape(discoveryRows[i].basis.failures)
  BY <1>2 DEF RowsAre, ReportRowIs
<1>4. DiscoveryIsReproducible
  <2>1. \A i, j \in DOMAIN discoveryRows : discoveryRows[i].basis = discoveryRows[j].basis => i = j
    BY <1>2, <1>3 DEF RowsAre
  <2>2. ASSUME NEW i \in DOMAIN discoveryRows
        PROVE  LET row == discoveryRows[i] IN
               /\ \A failure \in row.basis.failures :
                    \E c \in row.digest.clusters :
                      <<c.category, c.signature>> = failure[3] /\ failure[1] \in Range(c.members)
               /\ \A c \in row.digest.clusters :
                    /\ Range(c.members) \subseteq {failure[1] : failure \in row.basis.failures}
                    /\ \A other \in row.digest.clusters \ {c} : Range(c.members) \cap Range(other.members) = {}
                    /\ c.representatives # <<>> /\ IsPrefix(c.representatives, c.members)
    <3> DEFINE b == discoveryRows[i].basis
    <3>1. discoveryRows[i].digest = ReportOn(b) /\ FailuresShape(b.failures)
      BY <1>3
    <3> HIDE DEF b
    <3>2. /\ \A failure \in b.failures :
               \E c \in ReportOn(b).clusters :
                 <<c.category, c.signature>> = failure[3] /\ failure[1] \in Range(c.members)
          /\ \A c \in ReportOn(b).clusters :
               /\ Range(c.members) \subseteq {failure[1] : failure \in b.failures}
               /\ \A other \in ReportOn(b).clusters \ {c} : Range(c.members) \cap Range(other.members) = {}
               /\ c.representatives # <<>> /\ IsPrefix(c.representatives, c.members)
      BY <3>1, ReportIsExact
    <3> QED
      BY <3>1, <3>2 DEF b
  <2> QED
    BY <2>1, <2>2 DEF DiscoveryIsReproducible
<1>5. ServedAsSigned
  <2>1. ASSUME NEW d \in Discoverers, discovery[d].at = "served"
        PROVE  FailuresNamed(discovery[d].report) = {failure[1] : failure \in discovery[d].basis.failures}
    <3>1. discovery[d].report = ReportOn(discovery[d].basis) /\ FailuresShape(discovery[d].basis.failures)
      BY <1>2, <2>1 DEF DiscoverersAre, DiscovererIs
    <3> DEFINE b == discovery[d].basis
    <3> HIDE DEF b
    <3>2. FailuresShape(b.failures) => FailuresNamed(ReportOn(b)) = {failure[1] : failure \in b.failures}
      BY ReportIsExact
    <3> QED
      BY <3>1, <3>2 DEF b
  <2>2. ASSUME NEW campaign \in Campaigns, NEW report \in ListReports(campaign) \ {Malformed}
        PROVE  \E row \in Range(discoveryRows) : FailuresNamed(report) = {failure[1] : failure \in row.basis.failures}
    <3> DEFINE listed == {row \in Range(discoveryRows) : row.digest.campaign = campaign}
    <3>1. PICK row \in listed : VerifyReport(row) /\ report = row.body
      <4>1. ListReports(campaign) =
              IF \A row \in listed : VerifyReport(row) THEN {row.body : row \in listed} ELSE {Malformed}
        BY DEF ListReports
      <4> HIDE DEF listed
      <4> QED
        BY <2>2, <4>1
    <3>2. report = row.digest /\ row \in Range(discoveryRows)
      BY <3>1 DEF VerifyReport
    <3>3. PICK i \in DOMAIN discoveryRows : row = discoveryRows[i]
      BY <3>2 DEF Range
    <3>4. report = ReportOn(row.basis) /\ FailuresShape(row.basis.failures)
      BY <1>3, <3>2, <3>3
    <3> DEFINE b == row.basis
    <3> HIDE DEF b
    <3>5. FailuresShape(b.failures) => FailuresNamed(ReportOn(b)) = {failure[1] : failure \in b.failures}
      BY ReportIsExact
    <3> QED
      BY <3>2, <3>4, <3>5 DEF b
  <2> QED
    BY <2>1, <2>2 DEF ServedAsSigned
<1> QED
  BY <1>1, <1>4, <1>5 DEF TracesAreFaithful

(* What is read back from the trace store can be relied on: damage to the  *)
(* chain (verify_chain) or to a report shows, and however runs of          *)
(* run_discovery overlap, the same failures are one report that names each *)
(* of them.                                                                *)
THEOREM DiscoveryCorrect == TraceSpec => []TracesAreFaithful
<1>1. TraceInit => DiscoveryInv
  BY DiscoveryStarts
<1>2. DiscoveryInv /\ [TraceNext]_traceVars => DiscoveryInv'
  BY DiscoveryMoves
<1>3. DiscoveryInv => TracesAreFaithful
  BY DiscoveryShows
<1> QED
  BY <1>1, <1>2, <1>3, PTL DEF TraceSpec

-----------------------------------------------------------------------------
(* The archive.  A commit replaces the rows its rebuild has read and never  *)
(* a key: what it deletes was evidence when it read, so it is among what it *)
(* writes.                                                                 *)
ArchiveSpec == ArchiveInit /\ [][ArchiveNext]_archiveVars

EvidenceShape ==
  /\ Len(proposals) \in Nat /\ DOMAIN proposals = 1..Len(proposals)
  /\ Len(attestations) \in Nat /\ DOMAIN attestations = 1..Len(attestations)

(* What is registered *)
RulesInv ==
  /\ EvidenceShape
  /\ \A c \in DOMAIN artifacts :
       /\ c \in Scaffold => artifacts[c] = "research"
       /\ c \in Executable => c.clean /\ c \in reports
       /\ \E p \in DOMAIN proposals : proposals[p].artifact = c
  /\ \A p \in DOMAIN proposals : proposals[p].artifact \in Executable => proposals[p].artifact \in reports
  /\ \A p, q \in DOMAIN proposals :
       proposals[p].artifact = proposals[q].artifact /\ proposals[p].artifact \in Executable => p = q
  /\ Len(refusals) \in Nat /\ turnedAway \in Nat /\ Len(refusals) = turnedAway

LEMMA ProposalFields ==
  ASSUME NEW c, NEW d, NEW row, row = [artifact |-> c, declared |-> d]
  PROVE  row.artifact = c
  OBVIOUS

LEMMA Registers ==
  ASSUME RulesInv, NEW c \in Contents, RegisterCandidate(c)
  PROVE  RulesInv'
<1>1. PICK declared \in BOOLEAN : proposals' = Append(proposals, [artifact |-> c, declared |-> declared])
  BY DEF RegisterCandidate
<1> DEFINE row == [artifact |-> c, declared |-> declared]
<1>2. proposals' = Append(proposals, row) /\ row.artifact = c
  BY <1>1, ProposalFields
<1> HIDE DEF row
<1>3. /\ MayRegister(c) /\ Gate(c) /\ UNCHANGED <<environment, attestations, refusals, turnedAway>>
      /\ artifacts' = IF c \in DOMAIN artifacts THEN artifacts
                      ELSE [d \in DOMAIN artifacts \cup {c} |-> IF d = c THEN environment ELSE artifacts[d]]
      /\ reports' = IF c \in Executable THEN reports \cup {c} ELSE reports
  BY DEF RegisterCandidate, PersistAnalysisReport
<1> DEFINE n == Len(proposals)
<1>4. /\ n \in Nat /\ DOMAIN proposals = 1..n /\ n + 1 \notin DOMAIN proposals
      /\ Len(proposals') = n + 1 /\ DOMAIN proposals' = DOMAIN proposals \cup {n + 1}
      /\ DOMAIN proposals' = 1..Len(proposals')
      /\ proposals'[n + 1] = row /\ \A p \in DOMAIN proposals : proposals'[p] = proposals[p]
  BY <1>2 DEF RulesInv, EvidenceShape
<1> HIDE DEF n
<1>5. /\ \A p \in DOMAIN proposals : proposals'[p].artifact = proposals[p].artifact
      /\ proposals'[n + 1].artifact = c
  BY <1>2, <1>4
<1>6. EvidenceShape'
  BY <1>3, <1>4 DEF RulesInv, EvidenceShape
<1>7. \A d \in DOMAIN artifacts' :
        /\ d \in Scaffold => artifacts'[d] = "research"
        /\ d \in Executable => d.clean /\ d \in reports'
        /\ \E p \in DOMAIN proposals' : proposals'[p].artifact = d
  <2> SUFFICES ASSUME NEW d \in DOMAIN artifacts'
               PROVE  /\ d \in Scaffold => artifacts'[d] = "research"
                      /\ d \in Executable => d.clean /\ d \in reports'
                      /\ \E p \in DOMAIN proposals' : proposals'[p].artifact = d
    OBVIOUS
  <2>1. CASE d \in DOMAIN artifacts
    <3>1. artifacts'[d] = artifacts[d]
      BY <1>3, <2>1
    <3>2. PICK p \in DOMAIN proposals : proposals[p].artifact = d
      BY <2>1 DEF RulesInv
    <3>3. p \in DOMAIN proposals' /\ proposals'[p].artifact = d
      BY <1>4, <1>5, <3>2
    <3> QED
      BY <1>3, <2>1, <3>1, <3>3 DEF RulesInv
  <2>2. CASE d \notin DOMAIN artifacts
    <3>1. d = c /\ artifacts'[d] = environment
      BY <1>3, <2>2
    <3>2. n + 1 \in DOMAIN proposals'
      BY <1>4
    <3> QED
      BY <1>3, <1>5, <3>1, <3>2 DEF MayRegister, Gate
  <2> QED
    BY <2>1, <2>2
<1>8. \A p \in DOMAIN proposals' : proposals'[p].artifact \in Executable => proposals'[p].artifact \in reports'
  BY <1>3, <1>4, <1>5 DEF RulesInv
<1>9. \A p, q \in DOMAIN proposals' :
        proposals'[p].artifact = proposals'[q].artifact /\ proposals'[p].artifact \in Executable => p = q
  <2>1. \A p \in DOMAIN proposals : proposals[p].artifact = c => c \notin Executable
    BY <1>3 DEF Gate, RulesInv
  <2> QED
    BY <1>4, <1>5, <2>1 DEF RulesInv
<1>10. /\ Scaffold' = Scaffold /\ Executable' = Executable
  BY DEF Scaffold, Executable
<1> QED
  BY <1>3, <1>6, <1>7, <1>8, <1>9, <1>10 DEF RulesInv

LEMMA RulesKept ==
  ASSUME RulesInv, [ArchiveNext]_archiveVars
  PROVE  RulesInv'
<1>1. ASSUME UNCHANGED evidenceVars PROVE RulesInv'
  BY <1>1 DEF RulesInv, EvidenceShape, evidenceVars, Scaffold, Executable
<1>2. ASSUME NEW c \in Contents, RefuseCandidate(c) PROVE RulesInv'
  <2>1. /\ refusals' = Append(refusals, c) /\ turnedAway' = turnedAway + 1
        /\ UNCHANGED <<artifacts, proposals, attestations, reports>>
    BY <1>2 DEF RefuseCandidate, Refuse
  <2>2. Len(refusals') \in Nat /\ turnedAway' \in Nat /\ Len(refusals') = turnedAway'
    BY <2>1 DEF RulesInv
  <2> QED
    BY <2>1, <2>2 DEF RulesInv, EvidenceShape, Scaffold, Executable
<1>3. ASSUME NEW c \in Contents, RecordEvaluation(c) PROVE RulesInv'
  BY <1>3 DEF RecordEvaluation, RulesInv, EvidenceShape, Scaffold, Executable
<1>4. ASSUME NEW r \in Readers, ReadEvidence(r) \/ Flush(r) \/ Reconcile(r) \/ Aggregate(r) \/ Commit(r)
      PROVE  RulesInv'
  <2>1. UNCHANGED evidenceVars
    BY <1>4 DEF ReadEvidence, Flush, Reconcile, Aggregate, Commit, Move, evidenceVars
  <2> QED
    BY <1>1, <2>1
<1>5. CASE Redeploy
  BY <1>1, <1>5 DEF Redeploy
<1>6. CASE UNCHANGED archiveVars
  BY <1>1, <1>6 DEF archiveVars, evidenceVars
<1> QED
  BY <1>2, <1>3, <1>4, <1>5, <1>6, Registers DEF ArchiveNext

LEMMA RulesHold == RulesInv => RegisteredByTheRules
<1> SUFFICES ASSUME RulesInv PROVE RegisteredByTheRules
  OBVIOUS
<1>1. ASSUME NEW c \in Executable
      PROVE  Cardinality({p \in DOMAIN proposals : proposals[p].artifact = c}) <= 1
  <2> DEFINE of == {p \in DOMAIN proposals : proposals[p].artifact = c}
  <2>1. \A p, q \in of : p = q
    BY <1>1 DEF RulesInv
  <2>2. CASE of = {}
    BY <2>2, FS_EmptySet
  <2>3. CASE of # {}
    <3>1. PICK p : p \in of
      BY <2>3
    <3>2. of = {p}
      <4> HIDE DEF of
      <4> QED
        BY <2>1, <3>1
    <3> HIDE DEF of
    <3>3. Cardinality(of) = 1
      BY <3>2, FS_Singleton
    <3> QED
      BY <3>3 DEF of
  <2> QED
    BY <2>2, <2>3
<1> QED
  BY <1>1 DEF RulesInv, RegisteredByTheRules

(* What is reported.  The evidence a query saw is there for good.          *)
RecordedAt(n) ==
  n[1] \in Nat /\ n[2] \in Nat /\ n[1] <= Len(proposals) /\ n[2] <= Len(attestations)

EvidenceGrown ==
  /\ kind' = kind /\ Len(proposals) <= Len(proposals') /\ Len(attestations) <= Len(attestations')
  /\ \A p \in DOMAIN proposals : proposals'[p] = proposals[p]
  /\ \A a \in DOMAIN attestations : attestations'[a] = attestations[a]

LEMMA PairsStay ==
  ASSUME EvidenceShape, EvidenceShape', EvidenceGrown, NEW n, RecordedAt(n)
  PROVE  RecordedAt(n)' /\ Pairs(n)' = Pairs(n)
<1>1. RecordedAt(n)'
  BY DEF RecordedAt, EvidenceShape, EvidenceGrown
<1>2. \A i \in 1..n[1] : i \in DOMAIN proposals /\ proposals'[i] = proposals[i]
  BY SMTT(30), ZenonT(60) DEF RecordedAt, EvidenceShape, EvidenceGrown
<1>3. \A j \in 1..n[2] : j \in DOMAIN attestations /\ attestations'[j] = attestations[j]
  BY DEF RecordedAt, EvidenceShape, EvidenceGrown
<1>4. \A i \in 1..n[1], j \in 1..n[2] :
        (Projected(i)' /\ attestations'[j] = proposals'[i].artifact)
          <=> (Projected(i) /\ attestations[j] = proposals[i].artifact)
  BY <1>2, <1>3 DEF Projected, EvidenceGrown
<1> QED
  BY <1>1, <1>4 DEF Pairs, Projected

LEMMA PairsWithin ==
  ASSUME NEW n, NEW m, n[1] \in Nat, n[2] \in Nat, m[1] \in Nat, m[2] \in Nat, n[1] <= m[1], n[2] <= m[2]
  PROVE  Pairs(n) \subseteq Pairs(m) /\ Pairs(n)' \subseteq Pairs(m)'
<1>1. 1..n[1] \subseteq 1..m[1] /\ 1..n[2] \subseteq 1..m[2]
  OBVIOUS
<1> QED
  BY <1>1 DEF Pairs

LEMMA PairsGrow ==
  ASSUME EvidenceShape, NEW n, RecordedAt(n)
  PROVE  Pairs(n) \subseteq Pairs(Now) /\ RecordedAt(Now)
<1>1. Now[1] = Len(proposals) /\ Now[2] = Len(attestations)
  BY DEF Now
<1>2. 1..n[1] \subseteq 1..Now[1] /\ 1..n[2] \subseteq 1..Now[2]
  BY <1>1 DEF EvidenceShape, RecordedAt
<1>3. RecordedAt(Now)
  BY <1>1 DEF EvidenceShape, RecordedAt
<1> HIDE DEF Now
<1> QED
  BY <1>2, <1>3 DEF Pairs

ReportStates == [at : Steps, by : Nat, since : Nat \X Nat, compared : Nat \X Nat, victims : SUBSET Rows,
            own : SUBSET Rows, reconciled : BOOLEAN, rows : SUBSET Rows]

ActiveReaders == {r \in Readers : reader[r].at # "idle"}
FlushedReaders == {r \in ActiveReaders : reader[r].at # "flush"}

ReaderInv(r) ==
  /\ reader[r].by \in 1..rebuilds
  /\ RecordedAt(reader[r].since) /\ Keys(reader[r].victims) \subseteq Pairs(reader[r].since)
  /\ \A x \in reader[r].victims : x.by \in 1..rebuilds
  /\ \A x \in stored : x.by # reader[r].by
  /\ reader[r].at # "flush" =>
       Keys(reader[r].own) = Pairs(reader[r].since) /\ \A x \in reader[r].own : x.by = reader[r].by
  /\ reader[r].at = "aggregate" /\ reader[r].reconciled =>
       RecordedAt(reader[r].compared) /\ Pairs(reader[r].compared) \subseteq Keys(Visible(r))
  /\ reader[r].at = "report" =>
       /\ Keys(reader[r].rows) \subseteq Pairs(Now)
       /\ reader[r].reconciled =>
            RecordedAt(reader[r].compared) /\ Pairs(reader[r].compared) \subseteq Keys(reader[r].rows)

RebuildsApart == \A q, r \in ActiveReaders :
  /\ reader[q].by = reader[r].by => q = r
  /\ \A x \in reader[q].victims : x.by # reader[r].by

ArchiveInv ==
  /\ EvidenceShape /\ rebuilds \in Nat /\ stored \subseteq Rows /\ reader \in [Readers -> ReportStates]
  /\ Keys(stored) \subseteq Pairs(Now) /\ \A x \in stored : x.by \in 1..rebuilds
  /\ \A r \in ActiveReaders : ReaderInv(r)
  /\ RebuildsApart

LEMMA KeysOfUnion ==
  ASSUME NEW a, NEW b
  PROVE  Keys(a \cup b) = Keys(a) \cup Keys(b)
  BY DEF Keys

LEMMA KeysOfSubset ==
  ASSUME NEW a, NEW b, a \subseteq b
  PROVE  Keys(a) \subseteq Keys(b)
  BY DEF Keys

(* The evidence grows and the archive stays. *)
LEMMA EvidenceGrows ==
  ASSUME ArchiveInv, EvidenceShape', EvidenceGrown, UNCHANGED <<stored, rebuilds, reader>>
  PROVE  ArchiveInv'
<1>1. \A n : RecordedAt(n) => RecordedAt(n)' /\ Pairs(n)' = Pairs(n)
  BY PairsStay DEF ArchiveInv
<1>2. RecordedAt(Now) /\ Pairs(Now) \subseteq Pairs(Now)'
  <2>1. RecordedAt(Now)
    BY DEF RecordedAt, Now, ArchiveInv, EvidenceShape
  <2>2. Now[1] <= Now'[1] /\ Now[2] <= Now'[2]
    BY DEF Now, EvidenceGrown
  <2>3. PICK n, m : n = Now /\ m = Now'
    OBVIOUS
  <2>4. /\ n[1] \in Nat /\ n[2] \in Nat /\ m[1] \in Nat /\ m[2] \in Nat
        /\ n[1] <= m[1] /\ n[2] <= m[2]
    BY <2>2, <2>3 DEF Now, ArchiveInv, EvidenceShape
  <2>5. Pairs(n)' \subseteq Pairs(m)'
    BY <2>4, PairsWithin
  <2>6. Pairs(n)' = Pairs(n)
    BY <1>1, <2>1, <2>3
  <2>7. Pairs(Now)' = Pairs(m)' /\ Pairs(Now) = Pairs(n)
    BY <2>3 DEF Pairs
  <2> QED
    BY <2>1, <2>5, <2>6, <2>7
<1>3. ASSUME NEW r \in ActiveReaders PROVE ReaderInv(r)'
  <2> DEFINE w == reader[r]
  <2>1. ReaderInv(r) /\ reader'[r] = w
    BY DEF ArchiveInv
  <2>2. Visible(r)' = Visible(r)
    BY DEF Visible
  <2>3. RecordedAt(w.since) => RecordedAt(w.since)' /\ Pairs(w.since)' = Pairs(w.since)
    BY <1>1
  <2> QED
    BY <1>1, <1>2, <2>1, <2>2 DEF ReaderInv
<1>4. ActiveReaders' = ActiveReaders
  BY DEF ActiveReaders
<1>5. RebuildsApart'
  BY <1>4 DEF RebuildsApart, ArchiveInv
<1> QED
  BY <1>2, <1>3, <1>4, <1>5 DEF ArchiveInv

(* The rows a rebuild writes are the pairs it read, under its own number. *)
EvidenceRow(ij, by) == [proposal |-> ij[1], attestation |-> ij[2], by |-> by]
RowsWritten(n, by) == {EvidenceRow(ij, by) : ij \in Pairs(n)}

LEMMA RowIs ==
  ASSUME NEW n, RecordedAt(n), NEW by \in Nat, NEW ij \in Pairs(n)
  PROVE  /\ EvidenceRow(ij, by) \in Rows /\ EvidenceRow(ij, by).by = by
         /\ <<EvidenceRow(ij, by).proposal, EvidenceRow(ij, by).attestation>> = ij
<1>1. n[1] \in Nat /\ n[2] \in Nat
  BY DEF RecordedAt
<1>2. ij \in (1..n[1]) \X (1..n[2])
  BY DEF Pairs
<1>3. ij[1] \in Nat /\ ij[2] \in Nat /\ ij = <<ij[1], ij[2]>>
  BY <1>1, <1>2
<1> QED
  BY <1>3 DEF EvidenceRow, Rows

LEMMA RowsWrittenAre ==
  ASSUME NEW n, RecordedAt(n), NEW by \in Nat
  PROVE  /\ RowsWritten(n, by) \subseteq Rows /\ Keys(RowsWritten(n, by)) = Pairs(n)
         /\ \A x \in RowsWritten(n, by) : x.by = by
<1>1. \A ij \in Pairs(n) : /\ EvidenceRow(ij, by) \in Rows /\ EvidenceRow(ij, by).by = by
                           /\ <<EvidenceRow(ij, by).proposal, EvidenceRow(ij, by).attestation>> = ij
  BY RowIs
<1>2. RowsWritten(n, by) \subseteq Rows /\ \A x \in RowsWritten(n, by) : x.by = by
  BY <1>1 DEF RowsWritten
<1>3. Keys(RowsWritten(n, by)) = {<<EvidenceRow(ij, by).proposal, EvidenceRow(ij, by).attestation>> : ij \in Pairs(n)}
  BY DEF Keys, RowsWritten
<1> QED
  BY <1>1, <1>2, <1>3

(* One report moves on, the rest is as it was. *)
SameEvidence == UNCHANGED <<proposals, attestations, kind>>

LEMMA SameEvidenceIs ==
  ASSUME SameEvidence
  PROVE  /\ EvidenceShape' = EvidenceShape /\ Now' = Now
         /\ \A n : RecordedAt(n)' = RecordedAt(n) /\ Pairs(n)' = Pairs(n)
  BY DEF SameEvidence, EvidenceShape, Now, RecordedAt, Pairs, Projected

LEMMA ReportMoves ==
  ASSUME ArchiveInv, SameEvidence, UNCHANGED <<stored, rebuilds>>,
         NEW r \in ActiveReaders, NEW row \in ReportStates, reader' = [reader EXCEPT ![r] = row],
         row.at # "idle", row.by = reader[r].by, row.victims = reader[r].victims, ReaderInv(r)'
  PROVE  ArchiveInv'
<1>1. /\ reader' \in [Readers -> ReportStates] /\ reader'[r] = row /\ r \in Readers
      /\ \A q \in Readers : q # r => reader'[q] = reader[q]
  BY DEF ArchiveInv, ActiveReaders
<1>2. ActiveReaders' = ActiveReaders
  BY <1>1 DEF ActiveReaders
<1>3. ASSUME NEW q \in ActiveReaders, q # r PROVE ReaderInv(q)'
  <2>1. q \in Readers /\ reader'[q] = reader[q] /\ ReaderInv(q)
    BY <1>1, <1>3 DEF ArchiveInv, ActiveReaders
  <2>2. Visible(q)' = Visible(q)
    BY <2>1 DEF Visible
  <2>3. \A n : RecordedAt(n)' = RecordedAt(n) /\ Pairs(n)' = Pairs(n)
    BY SameEvidenceIs
  <2>4. Pairs(Now)' = Pairs(Now)
    BY DEF SameEvidence, Now, Pairs, Projected
  <2> QED
    BY <2>1, <2>2, <2>3, <2>4 DEF ReaderInv
<1>4. \A q \in Readers : reader'[q].by = reader[q].by /\ reader'[q].victims = reader[q].victims
  BY <1>1
<1>5. RebuildsApart'
  <2>1. \A q \in ActiveReaders : q \in Readers
    BY DEF ActiveReaders
  <2> QED
    BY <1>2, <1>4, <2>1 DEF ArchiveInv, RebuildsApart
<1>6. Pairs(Now)' = Pairs(Now) /\ EvidenceShape'
  BY DEF SameEvidence, Now, Pairs, Projected, EvidenceShape, ArchiveInv
<1> QED
  BY <1>1, <1>2, <1>3, <1>5, <1>6 DEF ArchiveInv

AfterFlush(w, o) == [w EXCEPT !.at = "reconcile", !.own = o]
AfterReconcile(w, n, b) == [w EXCEPT !.at = "aggregate", !.compared = n, !.reconciled = b]
AfterAggregate(w, o) == [w EXCEPT !.at = "report", !.rows = o]
AfterRead(b, n, v) == [Idle EXCEPT !.at = "flush", !.by = b, !.since = n, !.victims = v]

LEMMA FlushedRow ==
  ASSUME NEW w \in ReportStates, NEW o \in SUBSET Rows, NEW row, row = AfterFlush(w, o)
  PROVE  /\ row \in ReportStates /\ row.at = "reconcile" /\ row.own = o
         /\ row.by = w.by /\ row.since = w.since /\ row.victims = w.victims
  BY DEF ReportStates, Steps, AfterFlush, AfterReconcile, AfterAggregate

LEMMA ReconciledRow ==
  ASSUME NEW w \in ReportStates, NEW n \in Nat \X Nat, NEW b \in BOOLEAN,
         NEW row, row = AfterReconcile(w, n, b)
  PROVE  /\ row \in ReportStates /\ row.at = "aggregate" /\ row.compared = n /\ row.reconciled = b
         /\ row.by = w.by /\ row.since = w.since /\ row.victims = w.victims /\ row.own = w.own
  BY DEF ReportStates, Steps, AfterFlush, AfterReconcile, AfterAggregate

LEMMA AggregatedRow ==
  ASSUME NEW w \in ReportStates, NEW o \in SUBSET Rows, NEW row, row = AfterAggregate(w, o)
  PROVE  /\ row \in ReportStates /\ row.at = "report" /\ row.rows = o
         /\ row.by = w.by /\ row.since = w.since /\ row.victims = w.victims /\ row.own = w.own
         /\ row.compared = w.compared /\ row.reconciled = w.reconciled
  BY DEF ReportStates, Steps, AfterFlush, AfterReconcile, AfterAggregate

LEMMA FlushKeeps ==
  ASSUME ArchiveInv, NEW r \in Readers, Flush(r)
  PROVE  ArchiveInv'
<1> DEFINE w == reader[r]
           o == RowsWritten(w.since, w.by)
           row == AfterFlush(w, o)
<1>1. /\ w.at = "flush" /\ reader' = [reader EXCEPT ![r] = row] /\ SameEvidence /\ UNCHANGED <<stored, rebuilds>>
  BY DEF Flush, Move, SameEvidence, RowsWritten, EvidenceRow, AfterFlush
<1>2. w \in ReportStates /\ r \in ActiveReaders /\ ReaderInv(r)
  BY <1>1 DEF ArchiveInv, ActiveReaders
<1>3. RecordedAt(w.since) /\ w.by \in Nat
  BY <1>2 DEF ReaderInv, ReportStates
<1>4. o \in SUBSET Rows /\ Keys(o) = Pairs(w.since) /\ \A x \in o : x.by = w.by
  <2> HIDE DEF w
  <2> QED
    BY <1>3, RowsWrittenAre
<1> HIDE DEF o
<1>5. /\ row \in ReportStates /\ row.at = "reconcile" /\ row.own = o
      /\ row.by = w.by /\ row.since = w.since /\ row.victims = w.victims
  <2>1. row = AfterFlush(w, o)
    OBVIOUS
  <2>2. w \in ReportStates /\ o \in SUBSET Rows
    BY <1>2, <1>4
  <2> HIDE DEF row, w
  <2> QED
    BY <2>1, <2>2, FlushedRow
<1> HIDE DEF row
<1>6. reader'[r] = row
  BY <1>1 DEF ArchiveInv
<1>7. \A n : RecordedAt(n)' = RecordedAt(n) /\ Pairs(n)' = Pairs(n)
  BY <1>1, SameEvidenceIs
<1>8. ReaderInv(r)'
  BY <1>1, <1>2, <1>4, <1>5, <1>6, <1>7 DEF ReaderInv
<1> QED
  BY <1>1, <1>2, <1>5, <1>8, ReportMoves

LEMMA ReconcileKeeps ==
  ASSUME ArchiveInv, NEW r \in Readers, Reconcile(r)
  PROVE  ArchiveInv'
<1> DEFINE w == reader[r]
           b == Matches(Visible(r), Now)
           row == AfterReconcile(w, Now, b)
<1>1. /\ w.at = "reconcile" /\ reader' = [reader EXCEPT ![r] = row] /\ SameEvidence /\ UNCHANGED <<stored, rebuilds>>
  BY DEF Reconcile, Move, SameEvidence, AfterReconcile
<1>2. w \in ReportStates /\ r \in ActiveReaders /\ ReaderInv(r)
  BY <1>1 DEF ArchiveInv, ActiveReaders
<1>3. Now \in Nat \X Nat /\ RecordedAt(Now) /\ b \in BOOLEAN
  BY DEF Now, RecordedAt, ArchiveInv, EvidenceShape, Matches
<1>4. b => Pairs(Now) \subseteq Keys(Visible(r))
  BY DEF Matches
<1> HIDE DEF b
<1>5. /\ row \in ReportStates /\ row.at = "aggregate" /\ row.compared = Now /\ row.reconciled = b
      /\ row.by = w.by /\ row.since = w.since /\ row.victims = w.victims /\ row.own = w.own
  <2>1. row = AfterReconcile(w, Now, b)
    OBVIOUS
  <2> HIDE DEF row, w
  <2> QED
    BY <2>1, <1>2, <1>3, ReconciledRow
<1> HIDE DEF row
<1>6. reader'[r] = row
  BY <1>1 DEF ArchiveInv
<1>7. \A n : RecordedAt(n)' = RecordedAt(n) /\ Pairs(n)' = Pairs(n)
  BY <1>1, SameEvidenceIs
<1>8. Visible(r)' = Visible(r)
  BY <1>1, <1>5, <1>6 DEF Visible
<1>9. ReaderInv(r)'
  BY <1>1, <1>2, <1>3, <1>4, <1>5, <1>6, <1>7, <1>8 DEF ReaderInv
<1> QED
  BY <1>1, <1>2, <1>5, <1>9, ReportMoves

LEMMA VisibleIsEvidence ==
  ASSUME ArchiveInv, NEW r \in FlushedReaders
  PROVE  /\ Visible(r) \subseteq Rows /\ Keys(Visible(r)) \subseteq Pairs(Now)
         /\ \A x \in Visible(r) : x.by \in 1..rebuilds
<1>1. reader[r] \in ReportStates /\ ReaderInv(r) /\ reader[r].at # "flush"
  BY DEF ArchiveInv, FlushedReaders, ActiveReaders
<1>2. Keys(stored \ reader[r].victims) \subseteq Keys(stored)
  BY KeysOfSubset
<1>3. Pairs(reader[r].since) \subseteq Pairs(Now)
  BY <1>1, PairsGrow DEF ReaderInv, ArchiveInv
<1>4. Keys(Visible(r)) = Keys(stored \ reader[r].victims) \cup Keys(reader[r].own)
  BY KeysOfUnion DEF Visible
<1>5. Keys(reader[r].own) = Pairs(reader[r].since) /\ reader[r].own \subseteq Rows
  BY <1>1 DEF ReaderInv, ReportStates
<1>6. Keys(Visible(r)) \subseteq Pairs(Now)
  BY <1>2, <1>3, <1>4, <1>5 DEF ArchiveInv
<1> QED
  BY <1>1, <1>5, <1>6 DEF Visible, ReaderInv, ArchiveInv

LEMMA AggregateKeeps ==
  ASSUME ArchiveInv, NEW r \in Readers, Aggregate(r)
  PROVE  ArchiveInv'
<1> DEFINE w == reader[r]
           o == Visible(r)
           row == AfterAggregate(w, o)
<1>1. /\ w.at = "aggregate" /\ reader' = [reader EXCEPT ![r] = row] /\ SameEvidence /\ UNCHANGED <<stored, rebuilds>>
  BY DEF Aggregate, Move, SameEvidence, AfterAggregate
<1>2. w \in ReportStates /\ r \in ActiveReaders /\ ReaderInv(r)
  BY <1>1 DEF ArchiveInv, ActiveReaders
<1>3. o \in SUBSET Rows /\ Keys(o) \subseteq Pairs(Now)
  BY <1>1, <1>2, VisibleIsEvidence DEF FlushedReaders
<1>4. w.reconciled => RecordedAt(w.compared) /\ Pairs(w.compared) \subseteq Keys(o)
  BY <1>1, <1>2 DEF ReaderInv
<1> HIDE DEF o
<1>5. /\ row \in ReportStates /\ row.at = "report" /\ row.rows = o
      /\ row.by = w.by /\ row.since = w.since /\ row.victims = w.victims /\ row.own = w.own
      /\ row.compared = w.compared /\ row.reconciled = w.reconciled
  <2>1. row = AfterAggregate(w, o)
    OBVIOUS
  <2> HIDE DEF row, w
  <2> QED
    BY <2>1, <1>2, <1>3, AggregatedRow
<1> HIDE DEF row
<1>6. reader'[r] = row
  BY <1>1 DEF ArchiveInv
<1>7. \A n : RecordedAt(n)' = RecordedAt(n) /\ Pairs(n)' = Pairs(n)
  BY <1>1, SameEvidenceIs
<1>8. Pairs(Now)' = Pairs(Now)
  BY <1>1 DEF SameEvidence, Now, Pairs, Projected
<1>9. ReaderInv(r)'
  BY <1>1, <1>2, <1>3, <1>4, <1>5, <1>6, <1>7, <1>8 DEF ReaderInv
<1> QED
  BY <1>1, <1>2, <1>5, <1>9, ReportMoves

LEMMA RebuildRow ==
  ASSUME NEW b \in Nat, NEW n \in Nat \X Nat, NEW v \in SUBSET Rows,
         NEW row, row = AfterRead(b, n, v)
  PROVE  row \in ReportStates /\ row.at = "flush" /\ row.by = b /\ row.since = n /\ row.victims = v
  BY DEF Idle, ReportStates, Steps, AfterRead

LEMMA RebuildKeeps ==
  ASSUME ArchiveInv, NEW r \in Readers, ReadEvidence(r)
  PROVE  ArchiveInv'
<1> DEFINE row == AfterRead(rebuilds + 1, Now, stored)
           k == rebuilds
<1>1. /\ reader[r].at = "idle" /\ reader' = [reader EXCEPT ![r] = row] /\ SameEvidence
      /\ rebuilds' = k + 1 /\ UNCHANGED stored
  BY DEF ReadEvidence, Move, SameEvidence, AfterRead
<1>2. Now \in Nat \X Nat /\ RecordedAt(Now) /\ k \in Nat /\ stored \in SUBSET Rows
  BY DEF Now, RecordedAt, ArchiveInv, EvidenceShape
<1>3. row \in ReportStates /\ row.at = "flush" /\ row.by = k + 1 /\ row.since = Now /\ row.victims = stored
  <2>1. row = AfterRead(rebuilds + 1, Now, stored)
    OBVIOUS
  <2>2. rebuilds + 1 \in Nat
    BY <1>2
  <2> HIDE DEF row
  <2> QED
    BY <2>1, <2>2, <1>2, RebuildRow
<1> HIDE DEF row
<1>4. /\ reader' \in [Readers -> ReportStates] /\ reader'[r] = row
      /\ \A q \in Readers : q # r => reader'[q] = reader[q]
  BY <1>1, <1>3 DEF ArchiveInv
<1>5. /\ ActiveReaders' = ActiveReaders \cup {r} /\ r \notin ActiveReaders
      /\ \A q \in ActiveReaders : q \in Readers /\ q # r
  BY <1>1, <1>3, <1>4 DEF ActiveReaders
<1>6. \A n : RecordedAt(n)' = RecordedAt(n) /\ Pairs(n)' = Pairs(n)
  BY <1>1, SameEvidenceIs
<1>7. Pairs(Now)' = Pairs(Now) /\ EvidenceShape'
  BY <1>1 DEF SameEvidence, Now, Pairs, Projected, EvidenceShape, ArchiveInv
<1>8. \A x \in stored : x.by \in 1..k /\ x.by \in 1..k + 1 /\ x.by # k + 1
  BY <1>2 DEF ArchiveInv
<1>9. ReaderInv(r)'
  <2>1. k + 1 \in 1..k + 1
    BY <1>2
  <2>2. Keys(stored) \subseteq Pairs(Now)
    BY DEF ArchiveInv
  <2> QED
    BY <1>1, <1>2, <1>3, <1>4, <1>6, <1>7, <1>8, <2>1, <2>2 DEF ReaderInv
<1>10. ASSUME NEW q \in ActiveReaders PROVE ReaderInv(q)'
  <2>1. reader'[q] = reader[q] /\ ReaderInv(q)
    BY <1>4, <1>5 DEF ArchiveInv
  <2>2. Visible(q)' = Visible(q)
    BY <1>1, <2>1 DEF Visible
  <2>3. 1..k \subseteq 1..k + 1
    BY <1>2
  <2> QED
    BY <1>1, <1>6, <1>7, <2>1, <2>2, <2>3 DEF ReaderInv
<1>11. RebuildsApart'
  <2>1. \A q \in ActiveReaders : /\ reader[q].by \in 1..k /\ \A x \in reader[q].victims : x.by \in 1..k
                          /\ \A x \in stored : x.by # reader[q].by
    BY DEF ArchiveInv, ReaderInv
  <2>2. \A j \in 1..k : j # k + 1
    BY <1>2
  <2>3. \A q \in ActiveReaders : reader'[q] = reader[q]
    BY <1>4, <1>5
  <2> SUFFICES ASSUME NEW q \in ActiveReaders', NEW p \in ActiveReaders'
               PROVE  /\ reader'[q].by = reader'[p].by => q = p
                      /\ \A x \in reader'[q].victims : x.by # reader'[p].by
    BY DEF RebuildsApart
  <2>4. CASE q = r /\ p = r
    BY <1>3, <1>4, <1>8, <2>4
  <2>5. CASE q = r /\ p \in ActiveReaders
    BY <1>3, <1>4, <2>1, <2>2, <2>3, <2>5
  <2>6. CASE q \in ActiveReaders /\ p = r
    BY <1>3, <1>4, <2>1, <2>2, <2>3, <2>6
  <2>7. CASE q \in ActiveReaders /\ p \in ActiveReaders
    BY <2>3, <2>7 DEF ArchiveInv, RebuildsApart
  <2> QED
    BY <1>5, <2>4, <2>5, <2>6, <2>7
<1>12. \A x \in stored' : x.by \in 1..rebuilds'
  BY <1>1, <1>8
<1> QED
  <2>1. rebuilds' \in Nat /\ stored' \subseteq Rows /\ Keys(stored)' \subseteq Pairs(Now)'
    BY <1>1, <1>2, <1>7 DEF ArchiveInv
  <2> QED
    BY <1>4, <1>5, <1>7, <1>9, <1>10, <1>11, <1>12, <2>1 DEF ArchiveInv

(* What another's commit takes out of sight, by its key it puts back. *)
LEMMA CommitKeepsKeys ==
  ASSUME ArchiveInv, NEW r \in FlushedReaders, NEW q \in ActiveReaders, q # r
  PROVE  Keys(Visible(q)) \subseteq Keys((Visible(r) \ reader[q].victims) \cup reader[q].own)
<1> DEFINE seen == (Visible(r) \ reader[q].victims) \cup reader[q].own
<1>1. /\ ReaderInv(r) /\ r \in ActiveReaders /\ reader[r].at # "flush"
      /\ \A x \in reader[q].victims : x.by # reader[r].by
  BY DEF ArchiveInv, RebuildsApart, FlushedReaders
<1>2. ASSUME NEW x \in Visible(q), x \in reader[q].own \/ x \notin reader[r].victims
      PROVE  x \in seen
  BY <1>2 DEF Visible
<1>4. ASSUME NEW x \in Visible(q), x \in reader[r].victims
      PROVE  \E y \in seen : <<y.proposal, y.attestation>> = <<x.proposal, x.attestation>>
  <2> DEFINE v == reader[r].victims
             o == reader[r].own
             k == <<x.proposal, x.attestation>>
  <2>1. k \in Keys(v) /\ Keys(v) \subseteq Keys(o)
    BY <1>1, <1>4 DEF ReaderInv, Keys
  <2>2. PICK y \in o : <<y.proposal, y.attestation>> = k
    <3> HIDE DEF v, o, k
    <3> QED
      BY <2>1 DEF Keys
  <2>3. y.by = reader[r].by
    BY <1>1, <2>2 DEF ReaderInv
  <2>4. y \in seen
    BY <1>1, <2>2, <2>3 DEF Visible
  <2> QED
    BY <2>2, <2>4
<1> HIDE DEF seen
<1>5. Keys(Visible(q)) \subseteq Keys(seen)
  BY <1>2, <1>4 DEF Keys
<1> QED
  BY <1>5 DEF seen

LEMMA CommitKeeps ==
  ASSUME ArchiveInv, NEW r \in Readers, Commit(r)
  PROVE  ArchiveInv'
<1>1. /\ reader[r].at = "report" /\ reader' = [reader EXCEPT ![r] = Idle] /\ SameEvidence
      /\ stored' = Visible(r) /\ UNCHANGED rebuilds
  BY DEF Commit, Move, SameEvidence
<1>2. r \in FlushedReaders /\ r \in ActiveReaders /\ ReaderInv(r)
  BY <1>1 DEF ArchiveInv, ActiveReaders, FlushedReaders
<1>3. Idle \in ReportStates /\ Idle.at = "idle"
  BY DEF Idle, ReportStates, Steps
<1>4. /\ reader' \in [Readers -> ReportStates] /\ reader'[r] = Idle
      /\ \A q \in Readers : q # r => reader'[q] = reader[q]
  BY <1>1, <1>3 DEF ArchiveInv
<1>5. /\ ActiveReaders' = ActiveReaders \ {r}
      /\ \A q \in ActiveReaders' : q \in ActiveReaders /\ q # r /\ reader'[q] = reader[q]
  BY <1>3, <1>4 DEF ActiveReaders
<1>6. stored' \subseteq Rows /\ Keys(stored') \subseteq Pairs(Now) /\ \A x \in stored' : x.by \in 1..rebuilds
  BY <1>1, <1>2, VisibleIsEvidence
<1>7. \A n : RecordedAt(n)' = RecordedAt(n) /\ Pairs(n)' = Pairs(n)
  BY <1>1, SameEvidenceIs
<1>8. Pairs(Now)' = Pairs(Now) /\ EvidenceShape'
  BY <1>1 DEF SameEvidence, Now, Pairs, Projected, EvidenceShape, ArchiveInv
<1>9. ASSUME NEW q \in ActiveReaders' PROVE ReaderInv(q)'
  <2>1. q \in ActiveReaders /\ q # r /\ reader'[q] = reader[q] /\ ReaderInv(q)
    BY <1>5 DEF ArchiveInv
  <2>2. \A x \in stored' : x.by # reader[q].by
    <3>1. reader[r].by # reader[q].by
      BY <1>2, <2>1 DEF ArchiveInv, RebuildsApart
    <3> QED
      BY <1>1, <1>2, <2>1, <3>1 DEF Visible, ReaderInv
  <2>3. Keys(Visible(q)) \subseteq Keys(Visible(q)')
    <3>1. Visible(q)' = (Visible(r) \ reader[q].victims) \cup reader[q].own
      BY <1>1, <2>1 DEF Visible
    <3> QED
      BY <1>2, <2>1, <3>1, CommitKeepsKeys
  <2>4. Keys(Visible(q))' = Keys(Visible(q)')
    BY DEF Keys
  <2> QED
    BY <1>1, <1>7, <1>8, <2>1, <2>2, <2>3, <2>4 DEF ReaderInv
<1>10. RebuildsApart'
  BY <1>5 DEF ArchiveInv, RebuildsApart
<1>11. Keys(stored)' \subseteq Pairs(Now)'
  BY <1>6, <1>8 DEF Keys
<1> QED
  BY <1>1, <1>4, <1>6, <1>8, <1>9, <1>10, <1>11 DEF ArchiveInv

LEMMA ArchiveStarts == ArchiveInit => RulesInv /\ ArchiveInv
<1> SUFFICES ASSUME ArchiveInit PROVE RulesInv /\ ArchiveInv
  OBVIOUS
<1>1. Idle \in ReportStates /\ Idle.at = "idle"
  BY DEF Idle, ReportStates, Steps
<1>2. reader \in [Readers -> ReportStates] /\ ActiveReaders = {}
  BY <1>1 DEF ArchiveInit, ActiveReaders
<1>3. EvidenceShape
  BY DEF ArchiveInit, EvidenceShape
<1>4. Keys(stored) = {}
  BY DEF ArchiveInit, Keys
<1> QED
  BY <1>2, <1>3, <1>4 DEF ArchiveInit, RulesInv, ArchiveInv, RebuildsApart

LEMMA AppendedIsLonger ==
  ASSUME NEW s, Len(s) \in Nat, DOMAIN s = 1..Len(s), NEW row
  PROVE  Len(s) <= Len(Append(s, row)) /\ \A i \in DOMAIN s : Append(s, row)[i] = s[i]
  OBVIOUS

LEMMA LongerOrSame ==
  ASSUME NEW s, Len(s) \in Nat, DOMAIN s = 1..Len(s), NEW t, t = s \/ \E row : t = Append(s, row)
  PROVE  Len(s) <= Len(t) /\ \A i \in DOMAIN s : t[i] = s[i]
<1>1. ASSUME NEW row, t = Append(s, row)
      PROVE  Len(s) <= Len(t) /\ \A i \in DOMAIN s : t[i] = s[i]
  <2>1. Len(s) <= Len(Append(s, row)) /\ \A i \in DOMAIN s : Append(s, row)[i] = s[i]
    BY AppendedIsLonger
  <2> QED
    BY ONLY <1>1, <2>1, Zenon
<1>2. CASE t = s
  BY <1>2
<1> QED
  BY <1>1, <1>2

LEMMA ArchiveKept ==
  ASSUME RulesInv, ArchiveInv, [ArchiveNext]_archiveVars
  PROVE  ArchiveInv'
<1>0. EvidenceShape' /\ EvidenceShape
  BY RulesKept DEF RulesInv
<1>1. ASSUME NEW c \in Contents, RefuseCandidate(c) \/ RegisterCandidate(c) \/ RecordEvaluation(c) PROVE ArchiveInv'
  <2>1. UNCHANGED <<kind, stored, rebuilds, reader>>
    BY <1>1 DEF RefuseCandidate, RegisterCandidate, RecordEvaluation
  <2>2. \/ proposals' = proposals
        \/ \E row : proposals' = Append(proposals, row)
    BY <1>1 DEF RefuseCandidate, RegisterCandidate, RecordEvaluation
  <2>3. \/ attestations' = attestations
        \/ \E row : attestations' = Append(attestations, row)
    BY <1>1 DEF RefuseCandidate, RegisterCandidate, RecordEvaluation
  <2>4. Len(proposals) <= Len(proposals') /\ \A p \in DOMAIN proposals : proposals'[p] = proposals[p]
    <3>1. Len(proposals) \in Nat /\ DOMAIN proposals = 1..Len(proposals)
      BY <1>0 DEF EvidenceShape
    <3> QED
      BY <2>2, <3>1, LongerOrSame
  <2>5. Len(attestations) <= Len(attestations') /\ \A a \in DOMAIN attestations : attestations'[a] = attestations[a]
    <3>1. Len(attestations) \in Nat /\ DOMAIN attestations = 1..Len(attestations)
      BY <1>0 DEF EvidenceShape
    <3> QED
      BY <2>3, <3>1, LongerOrSame
  <2> QED
    BY <1>0, <2>1, <2>4, <2>5, EvidenceGrows DEF EvidenceGrown
<1>2. CASE Redeploy
  <2>1. /\ reader' = [r \in Readers |-> Idle]
        /\ SameEvidence /\ UNCHANGED <<stored, rebuilds>>
    BY <1>2 DEF Redeploy, SameEvidence, evidenceVars
  <2>2. Idle \in ReportStates /\ Idle.at = "idle"
    BY DEF Idle, ReportStates, Steps
  <2>3. reader' \in [Readers -> ReportStates] /\ ActiveReaders' = {}
    BY <2>1, <2>2 DEF ActiveReaders
  <2>4. Pairs(Now)' = Pairs(Now) /\ EvidenceShape'
    BY <2>1 DEF SameEvidence, Now, Pairs, Projected, EvidenceShape, ArchiveInv
  <2> QED
    BY <2>1, <2>3, <2>4 DEF ArchiveInv, RebuildsApart
<1>3. CASE UNCHANGED archiveVars
  <2>1. EvidenceGrown /\ UNCHANGED <<stored, rebuilds, reader>>
    BY <1>0, <1>3 DEF archiveVars, EvidenceGrown, EvidenceShape
  <2> QED
    BY <1>0, <2>1, EvidenceGrows
<1>4. ASSUME NEW r \in Readers, ReadEvidence(r) \/ Flush(r) \/ Reconcile(r) \/ Aggregate(r) \/ Commit(r)
      PROVE  ArchiveInv'
  BY <1>4, RebuildKeeps, FlushKeeps, ReconcileKeeps, AggregateKeeps, CommitKeeps
<1> QED
  BY <1>1, <1>2, <1>3, <1>4 DEF ArchiveNext

(* "scaffold mutation exists only in the research tenant" (api/service.py), *)
(* and a report that says it was reconciled rests on all it was compared   *)
(* with, whoever registers, rebuilds or commits meanwhile                  *)
(* (ParetoArchiveService.reconcile).                                       *)
THEOREM ArchiveCorrect == ArchiveSpec => []EvidenceIsSound
<1>1. ArchiveInv => ArchiveRestsOnEvidence
  <2> SUFFICES ASSUME ArchiveInv, NEW r \in Readers, reader[r].at = "report"
               PROVE  /\ Keys(reader[r].rows) \subseteq Pairs(Now)
                      /\ reader[r].reconciled => Pairs(reader[r].compared) \subseteq Keys(reader[r].rows)
    BY DEF ArchiveRestsOnEvidence, ArchiveInv
  <2>1. ReaderInv(r)
    BY DEF ArchiveInv, ActiveReaders
  <2> QED
    BY <2>1 DEF ReaderInv
<1>2. RulesInv /\ ArchiveInv /\ [ArchiveNext]_archiveVars => (RulesInv /\ ArchiveInv)'
  BY RulesKept, ArchiveKept
<1> QED
  BY <1>1, <1>2, ArchiveStarts, RulesHold, PTL DEF ArchiveSpec, EvidenceIsSound

-----------------------------------------------------------------------------
(* The artifact registry: what it depends on, for any rows r               *)

DepsInside(r) == \A d \in DOMAIN r : r[d].deps \in Seq(DOMAIN r)
Depends(r, d) == Elements(r[d].deps)

IsReach(r, d, f) ==
  /\ f[0] = Depends(r, d)
  /\ \A n \in Nat : f[n + 1] = f[n] \cup UNION {Depends(r, e) : e \in f[n]}
ReachIn(r, d) ==
  LET from[n \in Nat] == IF n = 0 THEN Depends(r, d)
                         ELSE from[n - 1] \cup UNION {Depends(r, e) : e \in from[n - 1]}
  IN  from[Cardinality(Names)]

LEMMA DependsInside ==
  ASSUME NEW r, DepsInside(r), NEW d \in DOMAIN r
  PROVE  Depends(r, d) \subseteq DOMAIN r
  BY DEF DepsInside, Depends, Elements

LEMMA SizeOfNames == Cardinality(Names) \in Nat /\ Cardinality(Names) + 1 \in Nat
<1>1. Cardinality(Names) \in Nat
  BY RegistryAssumption, FS_CardinalityType DEF RegistryAssumption
<1> QED
  BY <1>1

LEMMA ReachFacts ==
  ASSUME NEW r, DepsInside(r), NEW d \in DOMAIN r
  PROVE  \E f \in [Nat -> SUBSET DOMAIN r] : IsReach(r, d, f) /\ ReachIn(r, d) = f[Cardinality(Names)]
<1> DEFINE T == SUBSET DOMAIN r
           c == Depends(r, d)
           Further(S) == S \cup UNION {Depends(r, e) : e \in S}
           D == [x \in T \X Nat |-> Further(x[1])]
           Step(g) == [n \in Nat |-> IF n = 0 THEN c ELSE Further(g[n - 1])]
           from == CHOOSE g : g = Step(g)
<1>1. c \in T
  BY DependsInside
<1>2. \A S \in T : Further(S) \in T
  BY DependsInside
<1>3. D \in [T \X Nat -> T] /\ \A S \in T, n \in Nat : D[<<S, n>>] = Further(S)
  <2> HIDE DEF T, Further
  <2> QED
    BY <1>2
<1>4. PICK f \in [Nat -> T] : f[0] = c /\ \A n \in Nat : f[n + 1] = D[<<f[n], n>>]
  <2> HIDE DEF T, c, D
  <2>1. Recurs(T, c, D)
    BY <1>1, <1>3, Recursion
  <2> QED
    BY <2>1 DEF Recurs
<1>5. f[0] = c /\ \A n \in Nat : f[n + 1] = Further(f[n])
  <2> HIDE DEF T, c, D, Further
  <2> QED
    BY <1>3, <1>4
<1>6. f = Step(f)
  <2> HIDE DEF T, c, D, Further
  <2>1. ASSUME NEW n \in Nat PROVE f[n] = IF n = 0 THEN c ELSE Further(f[n - 1])
    <3>1. CASE n = 0
      BY <1>5, <3>1
    <3>2. CASE n # 0
      <4>1. n - 1 \in Nat /\ n - 1 + 1 = n
        BY <3>2
      <4> QED
        BY <1>5, <3>2, <4>1
    <3> QED
      BY <3>1, <3>2
  <2> QED
    BY <1>4, <2>1
<1>7. from = Step(from)
  <2> HIDE DEF Step
  <2> QED
    BY <1>6
<1>8. \A n \in Nat : from[n] = f[n]
  <2> HIDE DEF T, c, D, Further, from
  <2>1. from[0] = c
    BY <1>7
  <2>2. ASSUME NEW n \in Nat PROVE from[n + 1] = Further(from[n])
    <3>1. n + 1 \in Nat /\ n + 1 # 0 /\ n + 1 - 1 = n
      OBVIOUS
    <3> QED
      BY <1>7, <3>1
  <2> HIDE DEF Step
  <2> QED
    BY <1>5, <2>1, <2>2, StepsAlike
<1>9. ReachIn(r, d) = from[Cardinality(Names)]
  BY DEF ReachIn
<1>10. IsReach(r, d, f)
  BY <1>5 DEF IsReach
<1> HIDE DEF from
<1> QED
  BY <1>4, <1>8, <1>9, <1>10, SizeOfNames

LEMMA ReachInside ==
  ASSUME NEW r, DepsInside(r), NEW d \in DOMAIN r
  PROVE  ReachIn(r, d) \subseteq DOMAIN r
  BY ReachFacts, SizeOfNames

(* The rows q keep the dependencies of the rows r. *)
Keeps(r, q) == DOMAIN r \subseteq DOMAIN q /\ \A e \in DOMAIN r : q[e].deps = r[e].deps

LEMMA ReachStays ==
  ASSUME NEW r, DepsInside(r), NEW q, DepsInside(q), Keeps(r, q), NEW d \in DOMAIN r
  PROVE  ReachIn(q, d) = ReachIn(r, d)
<1>1. PICK f \in [Nat -> SUBSET DOMAIN r] : IsReach(r, d, f) /\ ReachIn(r, d) = f[Cardinality(Names)]
  BY ReachFacts
<1>2. d \in DOMAIN q
  BY DEF Keeps
<1>3. PICK g \in [Nat -> SUBSET DOMAIN q] : IsReach(q, d, g) /\ ReachIn(q, d) = g[Cardinality(Names)]
  BY <1>2, ReachFacts
<1>4. \A e \in DOMAIN r : Depends(q, e) = Depends(r, e)
  BY DEF Keeps, Depends
<1>5. f[0] = g[0]
  BY <1>1, <1>3, <1>4 DEF IsReach
<1>6. ASSUME NEW n \in Nat, f[n] = g[n] PROVE f[n + 1] = g[n + 1]
  <2>1. f[n] \subseteq DOMAIN r
    BY <1>1
  <2>2. UNION {Depends(r, e) : e \in f[n]} = UNION {Depends(q, e) : e \in f[n]}
    BY <1>4, <2>1
  <2> QED
    BY <1>1, <1>3, <1>6, <2>2 DEF IsReach
<1>7. \A n \in Nat : f[n] = g[n]
  BY <1>5, <1>6, StepsAlike
<1> QED
  BY <1>1, <1>3, <1>7, SizeOfNames

-----------------------------------------------------------------------------
(* A dependency was there first. *)
Ranks(r, order) ==
  /\ order \in [DOMAIN r -> Nat]
  /\ \A d \in DOMAIN r : order[d] < Cardinality(DOMAIN r)
  /\ \A d \in DOMAIN r : \A e \in Depends(r, d) : order[e] < order[d]

LEMMA ReachRanks ==
  ASSUME NEW r, DepsInside(r), NEW d \in DOMAIN r, NEW order, Ranks(r, order)
  PROVE  \A e \in ReachIn(r, d) : order[e] < order[d]
<1>1. PICK f \in [Nat -> SUBSET DOMAIN r] : IsReach(r, d, f) /\ ReachIn(r, d) = f[Cardinality(Names)]
  BY ReachFacts
<1> DEFINE Q == {n \in Nat : \A e \in f[n] : order[e] < order[d]}
<1>2. \A x \in DOMAIN r : order[x] \in Nat
  BY DEF Ranks
<1>3. 0 \in Q
  BY <1>1 DEF IsReach, Ranks
<1>4. ASSUME NEW n \in Nat, n \in Q PROVE n + 1 \in Q
  <2>1. ASSUME NEW e \in f[n + 1] PROVE order[e] < order[d]
    <3>1. CASE e \in f[n]
      BY <1>4, <3>1
    <3>2. CASE e \notin f[n]
      <4>1. PICK x \in f[n] : e \in Depends(r, x)
        BY <1>1, <3>2 DEF IsReach
      <4>2. x \in DOMAIN r /\ order[x] < order[d]
        BY <1>1, <1>4, <4>1
      <4>3. e \in DOMAIN r /\ order[e] < order[x]
        BY <4>1, <4>2, DependsInside DEF Ranks
      <4>4. order[e] \in Nat /\ order[x] \in Nat /\ order[d] \in Nat
        BY <1>2, <4>2, <4>3
      <4> HIDE DEF Q
      <4> QED
        BY <4>2, <4>3, <4>4
    <3> QED
      BY <3>1, <3>2
  <2> QED
    BY <2>1
<1>5. Nat \subseteq Q
  <2> HIDE DEF Q
  <2> QED
    BY <1>3, <1>4, NatSetInduction
<1> QED
  BY <1>1, <1>5, SizeOfNames

(* As many steps as there are names reach everything that can be reached. *)
LEMMA ReachCloses ==
  ASSUME NEW r, DepsInside(r), NEW d \in DOMAIN r, NEW order, Ranks(r, order), DOMAIN r \subseteq Names
  PROVE  \A x \in {d} \cup ReachIn(r, d) : Depends(r, x) \subseteq ReachIn(r, d)
<1> DEFINE N == Cardinality(Names)
<1>1. PICK f \in [Nat -> SUBSET DOMAIN r] : IsReach(r, d, f) /\ ReachIn(r, d) = f[N]
  BY ReachFacts
<1>2. Cardinality(DOMAIN r) \in Nat /\ N \in Nat /\ Cardinality(DOMAIN r) <= N
  BY RegistryAssumption, FS_Subset, FS_CardinalityType DEF RegistryAssumption
<1>3. \A x \in DOMAIN r : order[x] \in Nat
  BY DEF Ranks
<1> DEFINE Low(n) == \A e \in f[n + 1] : e \in f[n] \/ order[e] + n + 2 <= order[d]
           Q == {n \in Nat : Low(n)}
<1>4. ASSUME NEW e, NEW x, x \in DOMAIN r, e \in Depends(r, x)
      PROVE  e \in DOMAIN r /\ order[e] \in Nat /\ order[x] \in Nat /\ order[e] < order[x]
  BY <1>3, <1>4, DependsInside DEF Ranks
<1>5. Low(0)
  <2> SUFFICES ASSUME NEW e \in f[1], e \notin f[0] PROVE order[e] + 0 + 2 <= order[d]
    OBVIOUS
  <2>1. f[0 + 1] = f[0] \cup UNION {Depends(r, x) : x \in f[0]} /\ f[0] = Depends(r, d)
    BY <1>1 DEF IsReach
  <2>2. PICK x \in f[0] : e \in Depends(r, x)
    BY <2>1
  <2>3. x \in DOMAIN r /\ x \in Depends(r, d)
    BY <1>1, <2>1, <2>2
  <2>4. /\ order[e] < order[x] /\ order[x] < order[d]
        /\ order[e] \in Nat /\ order[x] \in Nat /\ order[d] \in Nat
    BY <1>4, <2>2, <2>3
  <2> QED
    BY <2>4
<1>6. ASSUME NEW n \in Nat, Low(n) PROVE Low(n + 1)
  <2> SUFFICES ASSUME NEW e \in f[n + 1 + 1], e \notin f[n + 1]
               PROVE  order[e] + (n + 1) + 2 <= order[d]
    OBVIOUS
  <2>1. /\ f[n + 1 + 1] = f[n + 1] \cup UNION {Depends(r, x) : x \in f[n + 1]}
        /\ f[n + 1] = f[n] \cup UNION {Depends(r, x) : x \in f[n]}
    <3>1. n + 1 \in Nat
      OBVIOUS
    <3> QED
      BY <1>1, <3>1 DEF IsReach
  <2>2. PICK x \in f[n + 1] : e \in Depends(r, x)
    BY <2>1
  <2>3. x \notin f[n]
    BY <2>1, <2>2
  <2>4. order[x] + n + 2 <= order[d]
    BY <1>6, <2>2, <2>3
  <2>5. x \in DOMAIN r
    <3>1. n + 1 \in Nat
      OBVIOUS
    <3> QED
      BY <1>1, <2>2, <3>1
  <2>6. order[e] < order[x] /\ order[e] \in Nat /\ order[x] \in Nat /\ order[d] \in Nat
    BY <1>3, <1>4, <2>2, <2>5
  <2> HIDE DEF Low
  <2> QED
    BY <2>4, <2>6
<1>7. \A n \in Nat : Low(n)
  <2>1. 0 \in Q /\ \A n \in Nat : n \in Q => n + 1 \in Q
    BY <1>5, <1>6
  <2>2. Nat \subseteq Q
    <3> HIDE DEF Q
    <3> QED
      BY <2>1, NatSetInduction
  <2> QED
    BY <2>2
<1>8. f[N + 1] \subseteq f[N]
  <2> SUFFICES ASSUME NEW e \in f[N + 1], e \notin f[N] PROVE FALSE
    OBVIOUS
  <2>1. order[e] + N + 2 <= order[d]
    BY <1>2, <1>7
  <2>2. e \in DOMAIN r
    BY <1>1, <1>2
  <2>3. order[e] \in Nat /\ order[d] \in Nat /\ order[d] < Cardinality(DOMAIN r)
    BY <1>3, <2>2 DEF Ranks
  <2> HIDE DEF N
  <2> QED
    BY <1>2, <2>1, <2>3
<1>9. f[N + 1] = f[N] \cup UNION {Depends(r, x) : x \in f[N]}
  BY <1>1, <1>2 DEF IsReach
<1>10. f[0] \subseteq f[N]
  <2> DEFINE R == {n \in Nat : f[0] \subseteq f[n]}
  <2>1. 0 \in R /\ \A n \in Nat : n \in R => n + 1 \in R
    BY <1>1 DEF IsReach
  <2>2. Nat \subseteq R
    <3> HIDE DEF R
    <3> QED
      BY <2>1, NatSetInduction
  <2> QED
    BY <1>2, <2>2
<1>11. f[0] = Depends(r, d)
  BY <1>1 DEF IsReach
<1> HIDE DEF N
<1> QED
  BY <1>1, <1>8, <1>9, <1>10, <1>11

-----------------------------------------------------------------------------
(* The walk that refuses a release                                         *)

Walks(r) == [seen : SUBSET DOMAIN r, stack : Seq(DOMAIN r), again : BOOLEAN]
WalkFrom(root) == [seen |-> {}, stack |-> <<root>>, again |-> FALSE]
Visited(r, w, top) ==
  [seen |-> w.seen \cup {top}, again |-> top \in w.seen,
   stack |-> SubSeq(w.stack, 1, Len(w.stack) - 1) \o r[top].deps]
WalkStep(r, w) == IF w.stack = <<>> \/ w.again THEN w ELSE Visited(r, w, w.stack[Len(w.stack)])

IsWalk(r, root, w) == w[0] = WalkFrom(root) /\ \A n \in Nat : w[n + 1] = WalkStep(r, w[n])
MeetsIn(r, root) ==
  LET walk[n \in Nat] ==
        IF n = 0 THEN [seen |-> {}, stack |-> <<root>>, again |-> FALSE]
        ELSE LET w == walk[n - 1]  top == w.stack[Len(w.stack)] IN
             IF w.stack = <<>> \/ w.again THEN w
             ELSE [seen |-> w.seen \cup {top}, again |-> top \in w.seen,
                   stack |-> SubSeq(w.stack, 1, Len(w.stack) - 1) \o r[top].deps]
  IN  walk[Cardinality(Names) + 1].again

LEMMA WalkFields ==
  ASSUME NEW r, NEW w \in Walks(r)
  PROVE  w.seen \subseteq DOMAIN r /\ w.stack \in Seq(DOMAIN r) /\ w.again \in BOOLEAN
  BY DEF Walks

LEMMA TopOfStack ==
  ASSUME NEW T, NEW s \in Seq(T), s # <<>>
  PROVE  /\ Len(s) \in Nat /\ Len(s) >= 1 /\ s[Len(s)] \in T
         /\ SubSeq(s, 1, Len(s) - 1) \in Seq(T) /\ Len(SubSeq(s, 1, Len(s) - 1)) = Len(s) - 1
         /\ \A k \in 1..(Len(s) - 1) : SubSeq(s, 1, Len(s) - 1)[k] = s[k] /\ s[k] \in T
<1>1. Len(s) \in Nat /\ Len(s) >= 1
  OBVIOUS
<1>2. Len(s) \in 1..Len(s) /\ \A i \in 1..Len(s) : s[i] \in T
  BY <1>1
<1>3. \A k \in 1..(Len(s) - 1) : k \in 1..Len(s)
  BY <1>1
<1>4. /\ SubSeq(s, 1, Len(s) - 1) \in Seq(T)
      /\ Len(SubSeq(s, 1, Len(s) - 1)) = Len(s) - 1
      /\ \A k \in 1..(Len(s) - 1) : SubSeq(s, 1, Len(s) - 1)[k] = s[k]
  <2> DEFINE n == Len(s) - 1
  <2>1. n \in Nat /\ n <= Len(s)
    BY <1>1
  <2>2. SubSeq(s, 1, n) = [i \in 1..n |-> s[i]]
    BY <2>1
  <2>3. \A i \in 1..n : s[i] \in T
    BY <1>2, <1>3
  <2>4. [i \in 1..n |-> s[i]] \in Seq(T) /\ Len([i \in 1..n |-> s[i]]) = n
    BY <2>1, <2>3
  <2> HIDE DEF n
  <2>5. \A k \in 1..n : SubSeq(s, 1, n)[k] = s[k]
    BY <2>2
  <2> QED
    BY <2>2, <2>4, <2>5 DEF n
<1> QED
  BY <1>1, <1>2, <1>3, <1>4

LEMMA VisitedTyped ==
  ASSUME NEW r, DepsInside(r), NEW w \in Walks(r), w.stack # <<>>
  PROVE  Visited(r, w, w.stack[Len(w.stack)]) \in Walks(r)
<1> DEFINE top == w.stack[Len(w.stack)]
           rest == SubSeq(w.stack, 1, Len(w.stack) - 1)
<1>1. w.seen \subseteq DOMAIN r /\ w.stack \in Seq(DOMAIN r)
  BY WalkFields
<1>2. top \in DOMAIN r /\ rest \in Seq(DOMAIN r)
  BY <1>1, TopOfStack
<1>3. r[top].deps \in Seq(DOMAIN r)
  BY <1>2 DEF DepsInside
<1> HIDE DEF top, rest
<1>4. rest \o r[top].deps \in Seq(DOMAIN r)
  BY <1>2, <1>3, ConcatProperties
<1>5. [seen |-> w.seen \cup {top}, again |-> top \in w.seen, stack |-> rest \o r[top].deps] \in Walks(r)
  BY <1>1, <1>2, <1>4 DEF Walks
<1> QED
  BY <1>5 DEF Visited, top, rest

LEMMA StepTyped ==
  ASSUME NEW r, DepsInside(r), NEW w \in Walks(r)
  PROVE  WalkStep(r, w) \in Walks(r)
  BY VisitedTyped DEF WalkStep

LEMMA WalkFacts ==
  ASSUME NEW r, DepsInside(r), NEW d \in DOMAIN r
  PROVE  \E w \in [Nat -> Walks(r)] : IsWalk(r, d, w) /\ MeetsIn(r, d) = w[Cardinality(Names) + 1].again
<1> DEFINE T == Walks(r)
           c == WalkFrom(d)
           D == [x \in T \X Nat |-> WalkStep(r, x[1])]
           Step(g) == [n \in Nat |-> IF n = 0 THEN c ELSE WalkStep(r, g[n - 1])]
           walk == CHOOSE g : g = Step(g)
<1>1. c \in T
  <2>1. <<d>> \in Seq(DOMAIN r)
    OBVIOUS
  <2> QED
    BY <2>1 DEF WalkFrom, Walks
<1>2. \A w \in T : WalkStep(r, w) \in T
  BY StepTyped
<1>3. D \in [T \X Nat -> T] /\ \A w \in T, n \in Nat : D[<<w, n>>] = WalkStep(r, w)
  <2> HIDE DEF T
  <2> QED
    BY <1>2
<1>4. PICK f \in [Nat -> T] : f[0] = c /\ \A n \in Nat : f[n + 1] = D[<<f[n], n>>]
  <2> HIDE DEF T, c, D
  <2>1. Recurs(T, c, D)
    BY <1>1, <1>3, Recursion
  <2> QED
    BY <2>1 DEF Recurs
<1>5. f[0] = c /\ \A n \in Nat : f[n + 1] = WalkStep(r, f[n])
  <2> HIDE DEF T, c, D
  <2> QED
    BY <1>3, <1>4
<1>6. f = Step(f)
  <2> HIDE DEF T, c, D
  <2>1. ASSUME NEW n \in Nat PROVE f[n] = IF n = 0 THEN c ELSE WalkStep(r, f[n - 1])
    <3>1. CASE n = 0
      BY <1>5, <3>1
    <3>2. CASE n # 0
      <4>1. n - 1 \in Nat /\ n - 1 + 1 = n
        BY <3>2
      <4> QED
        BY <1>5, <3>2, <4>1
    <3> QED
      BY <3>1, <3>2
  <2> QED
    BY <1>4, <2>1
<1>7. walk = Step(walk)
  <2> HIDE DEF Step
  <2> QED
    BY <1>6
<1>8. \A n \in Nat : walk[n] = f[n]
  <2> HIDE DEF T, c, D, walk
  <2>1. walk[0] = c
    BY <1>7
  <2>2. ASSUME NEW n \in Nat PROVE walk[n + 1] = WalkStep(r, walk[n])
    <3>1. n + 1 \in Nat /\ n + 1 # 0 /\ n + 1 - 1 = n
      OBVIOUS
    <3> QED
      BY <1>7, <3>1
  <2> HIDE DEF Step
  <2> QED
    BY <1>5, <2>1, <2>2, StepsAlike
<1>9. MeetsIn(r, d) = walk[Cardinality(Names) + 1].again
  BY DEF MeetsIn, WalkStep, Visited, WalkFrom
<1>10. IsWalk(r, d, f)
  BY <1>5 DEF IsWalk
<1> HIDE DEF walk
<1> QED
  BY <1>4, <1>8, <1>9, <1>10, SizeOfNames

LEMMA MeetingStays ==
  ASSUME NEW r, DepsInside(r), NEW q, DepsInside(q), Keeps(r, q), NEW d \in DOMAIN r
  PROVE  MeetsIn(q, d) = MeetsIn(r, d)
<1>1. PICK f \in [Nat -> Walks(r)] : IsWalk(r, d, f) /\ MeetsIn(r, d) = f[Cardinality(Names) + 1].again
  BY WalkFacts
<1>2. d \in DOMAIN q
  BY DEF Keeps
<1>3. PICK g \in [Nat -> Walks(q)] : IsWalk(q, d, g) /\ MeetsIn(q, d) = g[Cardinality(Names) + 1].again
  BY <1>2, WalkFacts
<1>4. ASSUME NEW w \in Walks(r) PROVE WalkStep(q, w) = WalkStep(r, w)
  <2>1. CASE w.stack # <<>>
    <3>1. w.stack[Len(w.stack)] \in DOMAIN r
      BY <2>1, WalkFields, TopOfStack
    <3> QED
      BY <3>1 DEF WalkStep, Visited, Keeps
  <2>2. CASE w.stack = <<>>
    BY <2>2 DEF WalkStep
  <2> QED
    BY <2>1, <2>2
<1>5. \A n \in Nat : f[n] = g[n]
  <2>1. f[0] = g[0]
    BY <1>1, <1>3 DEF IsWalk
  <2>2. ASSUME NEW n \in Nat, f[n] = g[n] PROVE f[n + 1] = g[n + 1]
    <3>1. f[n] \in Walks(r)
      BY <1>1
    <3>2. f[n + 1] = WalkStep(r, f[n]) /\ g[n + 1] = WalkStep(q, g[n])
      BY <1>1, <1>3 DEF IsWalk
    <3> QED
      BY <1>4, <2>2, <3>1, <3>2
  <2> QED
    BY <2>1, <2>2, StepsAlike
<1> QED
  BY <1>1, <1>3, <1>5, SizeOfNames

-----------------------------------------------------------------------------
(* What the walk meets again is a dependency along two ways: each artifact *)
(* on the stack, or seen, got there by a dependency of its own.            *)
SharedBelow(r, d) ==
  \E e, f \in {d} \cup ReachIn(r, d) :
    \E i \in DOMAIN r[e].deps, j \in DOMAIN r[f].deps :
      <<e, i>> # <<f, j>> /\ r[e].deps[i] = r[f].deps[j]

Way(r, d, seen, x, way) ==
  \/ x = d /\ way = <<d, 0>>
  \/ \E e \in seen, i \in Nat \ {0} : i \in DOMAIN r[e].deps /\ r[e].deps[i] = x /\ way = <<e, i>>

Ways(r, d, w, L, K) ==
  /\ \A x \in w.seen : Way(r, d, w.seen, x, L[x])
  /\ \A k \in 1..Len(w.stack) : Way(r, d, w.seen, w.stack[k], K[k])
  /\ \A x, y \in w.seen : L[x] = L[y] => x = y
  /\ \A j, k \in 1..Len(w.stack) : K[j] = K[k] => j = k
  /\ \A x \in w.seen, k \in 1..Len(w.stack) : L[x] # K[k]

Traced(r, d, w) ==
  /\ w.seen \subseteq {d} \cup ReachIn(r, d)
  /\ \A k \in 1..Len(w.stack) : w.stack[k] \in {d} \cup ReachIn(r, d)
  /\ w.again => SharedBelow(r, d)
  /\ ~w.again => \E L, K : Ways(r, d, w, L, K)

LEMMA WayGrows ==
  ASSUME NEW r, NEW d, NEW S, NEW U, S \subseteq U, NEW x, NEW way, Way(r, d, S, x, way)
  PROVE  Way(r, d, U, x, way)
  BY DEF Way

LEMMA WayIsOld ==
  ASSUME NEW r, NEW d, NEW S, NEW x, NEW way, Way(r, d, S, x, way),
         NEW top, top \notin S, NEW i \in Nat \ {0}
  PROVE  way # <<top, i>>
  BY DEF Way

LEMMA TwoWays ==
  ASSUME NEW r, DepsInside(r), NEW d \in DOMAIN r, NEW order, Ranks(r, order),
         NEW S, S \subseteq {d} \cup ReachIn(r, d),
         NEW x, NEW way, NEW other, Way(r, d, S, x, way), Way(r, d, S, x, other), way # other
  PROVE  SharedBelow(r, d)
<1>1. ASSUME NEW e \in S, NEW i \in DOMAIN r[e].deps, r[e].deps[i] = d PROVE FALSE
  <2>1. e \in DOMAIN r
    BY ReachInside
  <2>2. d \in Depends(r, e)
    BY <1>1 DEF Depends, Elements
  <2>3. order[d] < order[e]
    BY <2>1, <2>2 DEF Ranks
  <2>4. e = d \/ order[e] < order[d]
    BY ReachRanks
  <2>5. order[d] \in Nat /\ order[e] \in Nat
    BY <2>1 DEF Ranks
  <2> QED
    BY <2>3, <2>4, <2>5
<1>2. ~(x = d /\ way = <<d, 0>>) /\ ~(x = d /\ other = <<d, 0>>)
  BY <1>1 DEF Way
<1>3. PICK e \in S, i \in Nat \ {0} : i \in DOMAIN r[e].deps /\ r[e].deps[i] = x /\ way = <<e, i>>
  BY <1>2 DEF Way
<1>4. PICK f \in S, j \in Nat \ {0} : j \in DOMAIN r[f].deps /\ r[f].deps[j] = x /\ other = <<f, j>>
  BY <1>2 DEF Way
<1>5. e \in {d} \cup ReachIn(r, d) /\ f \in {d} \cup ReachIn(r, d) /\ <<e, i>> # <<f, j>>
  BY <1>3, <1>4
<1> QED
  BY <1>3, <1>4, <1>5 DEF SharedBelow

LEMMA VisitTraced ==
  ASSUME NEW r, DepsInside(r), NEW d \in DOMAIN r, NEW order, Ranks(r, order), DOMAIN r \subseteq Names,
         NEW w \in Walks(r), Traced(r, d, w), w.stack # <<>>, ~w.again
  PROVE  Traced(r, d, Visited(r, w, w.stack[Len(w.stack)]))
<1> DEFINE n == Len(w.stack)
           top == w.stack[n]
           rest == SubSeq(w.stack, 1, n - 1)
           deps == r[top].deps
           v == Visited(r, w, top)
<1>1. w.seen \subseteq DOMAIN r /\ w.stack \in Seq(DOMAIN r)
  BY WalkFields
<1>2. /\ n \in Nat /\ n >= 1 /\ top \in DOMAIN r /\ rest \in Seq(DOMAIN r) /\ Len(rest) = n - 1
      /\ \A k \in 1..(n - 1) : rest[k] = w.stack[k]
  BY <1>1, TopOfStack
<1>3. n \in 1..n /\ \A k \in 1..(n - 1) : k \in 1..n /\ k # n
  BY <1>2
<1>4. deps \in Seq(DOMAIN r) /\ Len(deps) \in Nat
  BY <1>2 DEF DepsInside
<1>5. v.seen = w.seen \cup {top} /\ v.again = (top \in w.seen) /\ v.stack = rest \o deps
  BY DEF Visited
<1>6. top \in {d} \cup ReachIn(r, d)
  BY <1>3 DEF Traced
<1>7. DOMAIN deps = 1..Len(deps)
  BY <1>4
<1> HIDE DEF v, deps, rest, top, n
<1>8. /\ Len(v.stack) = n - 1 + Len(deps)
      /\ \A k \in 1..(n - 1) : v.stack[k] = w.stack[k]
      /\ \A k \in n..(n - 1 + Len(deps)) : v.stack[k] = deps[k - (n - 1)] /\ k - (n - 1) \in 1..Len(deps)
  <2>1. /\ Len(rest \o deps) = Len(rest) + Len(deps)
        /\ \A k \in 1..(Len(rest) + Len(deps)) :
             (rest \o deps)[k] = IF k <= Len(rest) THEN rest[k] ELSE deps[k - Len(rest)]
    BY <1>2, <1>4, ConcatProperties
  <2>2. \A k \in 1..(n - 1) : k \in 1..(n - 1 + Len(deps)) /\ k <= n - 1
    BY <1>2, <1>4
  <2>3. \A k \in n..(n - 1 + Len(deps)) :
          k \in 1..(n - 1 + Len(deps)) /\ ~(k <= n - 1) /\ k - (n - 1) \in 1..Len(deps)
    BY <1>2, <1>4
  <2> QED
    BY <1>2, <1>5, <2>1, <2>2, <2>3
<1>9. \A k \in 1..(n - 1 + Len(deps)) : k \in 1..(n - 1) \/ k \in n..(n - 1 + Len(deps))
  BY <1>2, <1>4
<1>10. \A i \in 1..Len(deps) : deps[i] \in ReachIn(r, d)
  <2>1. Depends(r, top) \subseteq ReachIn(r, d)
    BY <1>6, ReachCloses
  <2> QED
    BY <1>7, <2>1 DEF Depends, Elements, deps
<1>11. v.seen \subseteq {d} \cup ReachIn(r, d)
  BY <1>5, <1>6 DEF Traced
<1>12. \A k \in 1..Len(v.stack) : v.stack[k] \in {d} \cup ReachIn(r, d)
  <2> SUFFICES ASSUME NEW k \in 1..Len(v.stack) PROVE v.stack[k] \in {d} \cup ReachIn(r, d)
    OBVIOUS
  <2>1. CASE k \in 1..(n - 1)
    BY <1>3, <1>8, <2>1 DEF Traced, n
  <2>2. CASE k \in n..(n - 1 + Len(deps))
    BY <1>8, <1>10, <2>2
  <2> QED
    BY <1>8, <1>9, <2>1, <2>2
<1>13. PICK L, K : Ways(r, d, w, L, K)
  BY DEF Traced
<1>14. /\ \A x \in w.seen : Way(r, d, w.seen, x, L[x])
       /\ \A k \in 1..n : Way(r, d, w.seen, w.stack[k], K[k])
       /\ \A x, y \in w.seen : L[x] = L[y] => x = y
       /\ \A j, k \in 1..n : K[j] = K[k] => j = k
       /\ \A x \in w.seen, k \in 1..n : L[x] # K[k]
  BY <1>13 DEF Ways, n
<1>15. CASE top \in w.seen
  <2>1. Way(r, d, w.seen, top, L[top]) /\ Way(r, d, w.seen, top, K[n]) /\ L[top] # K[n]
    BY <1>3, <1>14, <1>15 DEF top
  <2>2. SharedBelow(r, d)
    BY <2>1, TwoWays DEF Traced
  <2> QED
    BY <1>5, <1>11, <1>12, <1>15, <2>2 DEF Traced, v, top, n
<1>16. CASE top \notin w.seen
  <2> DEFINE L2 == [x \in v.seen |-> IF x = top THEN K[n] ELSE L[x]]
             K2 == [k \in 1..Len(v.stack) |-> IF k < n THEN K[k] ELSE <<top, k - (n - 1)>>]
  <2>0. /\ L2[top] = K[n]
        /\ \A x \in w.seen : x # top /\ L2[x] = L[x]
        /\ \A k \in 1..(n - 1) : K2[k] = K[k]
        /\ \A k \in n..(n - 1 + Len(deps)) : K2[k] = <<top, k - (n - 1)>> /\ k - (n - 1) \in Nat \ {0}
    <3>1. \A k \in 1..(n - 1) : k \in 1..Len(v.stack) /\ k < n
      BY <1>2, <1>4, <1>8
    <3>2. \A k \in n..(n - 1 + Len(deps)) : k \in 1..Len(v.stack) /\ ~(k < n) /\ k - (n - 1) \in Nat \ {0}
      BY <1>2, <1>4, <1>8
    <3> QED
      BY <1>5, <1>16, <3>1, <3>2
  <2> HIDE DEF L2, K2
  <2>1. \A x \in v.seen : Way(r, d, v.seen, x, L2[x])
    <3>1. Way(r, d, w.seen, top, K[n])
      BY <1>3, <1>14 DEF top
    <3>2. Way(r, d, v.seen, top, K[n]) /\ \A x \in w.seen : Way(r, d, v.seen, x, L[x])
      BY <1>5, <1>14, <3>1, WayGrows
    <3> QED
      BY <1>5, <2>0, <3>2
  <2>2. \A k \in 1..Len(v.stack) : Way(r, d, v.seen, v.stack[k], K2[k])
    <3> SUFFICES ASSUME NEW k \in 1..Len(v.stack) PROVE Way(r, d, v.seen, v.stack[k], K2[k])
      OBVIOUS
    <3>1. CASE k \in 1..(n - 1)
      <4>1. Way(r, d, w.seen, w.stack[k], K[k])
        BY <1>3, <1>14, <3>1
      <4>2. Way(r, d, v.seen, w.stack[k], K[k])
        BY <1>5, <4>1, WayGrows
      <4> QED
        BY <1>8, <2>0, <3>1, <4>2
    <3>2. CASE k \in n..(n - 1 + Len(deps))
      <4>1. /\ v.stack[k] = deps[k - (n - 1)] /\ k - (n - 1) \in DOMAIN r[top].deps
            /\ k - (n - 1) \in Nat \ {0} /\ K2[k] = <<top, k - (n - 1)>> /\ top \in v.seen
        BY <1>5, <1>7, <1>8, <2>0, <3>2 DEF deps
      <4> QED
        BY <4>1 DEF Way, deps
    <3> QED
      BY <1>8, <1>9, <3>1, <3>2
  <2>3. \A x \in w.seen, k \in n..(n - 1 + Len(deps)) : L[x] # K2[k]
    <3> SUFFICES ASSUME NEW x \in w.seen, NEW k \in n..(n - 1 + Len(deps)) PROVE L[x] # K2[k]
      OBVIOUS
    <3> DEFINE i == k - (n - 1)
    <3>1. Way(r, d, w.seen, x, L[x])
      BY <1>14
    <3>2. K2[k] = <<top, i>> /\ i \in Nat \ {0}
      BY <2>0
    <3> HIDE DEF i
    <3>3. L[x] # <<top, i>>
      BY <1>16, <3>1, <3>2, WayIsOld
    <3> QED
      BY <3>2, <3>3
  <2>4. \A j \in 1..n, k \in n..(n - 1 + Len(deps)) : K[j] # K2[k]
    <3> SUFFICES ASSUME NEW j \in 1..n, NEW k \in n..(n - 1 + Len(deps)) PROVE K[j] # K2[k]
      OBVIOUS
    <3> DEFINE i == k - (n - 1)
    <3>1. Way(r, d, w.seen, w.stack[j], K[j])
      BY <1>14
    <3>2. K2[k] = <<top, i>> /\ i \in Nat \ {0}
      BY <2>0
    <3> HIDE DEF i
    <3>3. K[j] # <<top, i>>
      BY <1>16, <3>1, <3>2, WayIsOld
    <3> QED
      BY <3>2, <3>3
  <2>5. \A x, y \in v.seen : L2[x] = L2[y] => x = y
    BY <1>3, <1>5, <1>14, <2>0
  <2>6. \A j, k \in 1..Len(v.stack) : K2[j] = K2[k] => j = k
    <3> SUFFICES ASSUME NEW j \in 1..Len(v.stack), NEW k \in 1..Len(v.stack), K2[j] = K2[k]
                 PROVE  j = k
      OBVIOUS
    <3>1. CASE j \in 1..(n - 1) /\ k \in 1..(n - 1)
      BY <1>3, <1>14, <2>0, <3>1
    <3>2. CASE j \in 1..(n - 1) /\ k \in n..(n - 1 + Len(deps))
      BY <1>3, <2>0, <2>4, <3>2
    <3>3. CASE j \in n..(n - 1 + Len(deps)) /\ k \in 1..(n - 1)
      BY <1>3, <2>0, <2>4, <3>3
    <3>4. CASE j \in n..(n - 1 + Len(deps)) /\ k \in n..(n - 1 + Len(deps))
      <4>1. <<top, j - (n - 1)>> = <<top, k - (n - 1)>>
        BY <2>0, <3>4
      <4>2. j - (n - 1) = k - (n - 1)
        BY <4>1
      <4>3. j \in Int /\ k \in Int /\ n \in Int
        BY <1>2, <1>4, <1>8
      <4> QED
        BY <4>2, <4>3
    <3> QED
      BY <1>8, <1>9, <3>1, <3>2, <3>3, <3>4
  <2>7. \A x \in v.seen, k \in 1..Len(v.stack) : L2[x] # K2[k]
    <3> SUFFICES ASSUME NEW x \in v.seen, NEW k \in 1..Len(v.stack) PROVE L2[x] # K2[k]
      OBVIOUS
    <3>1. CASE x = top /\ k \in 1..(n - 1)
      BY <1>3, <1>14, <2>0, <3>1
    <3>2. CASE x = top /\ k \in n..(n - 1 + Len(deps))
      BY <1>3, <2>0, <2>4, <3>2
    <3>3. CASE x \in w.seen /\ k \in 1..(n - 1)
      BY <1>3, <1>14, <2>0, <3>3
    <3>4. CASE x \in w.seen /\ k \in n..(n - 1 + Len(deps))
      BY <2>0, <2>3, <3>4
    <3> QED
      BY <1>5, <1>8, <1>9, <3>1, <3>2, <3>3, <3>4
  <2>8. Ways(r, d, v, L2, K2)
    BY <2>1, <2>2, <2>5, <2>6, <2>7 DEF Ways
  <2> QED
    BY <1>5, <1>11, <1>12, <1>16, <2>8 DEF Traced, v, top, n
<1> QED
  BY <1>15, <1>16

LEMMA MeetingIsShared ==
  ASSUME NEW r, DepsInside(r), NEW d \in DOMAIN r, NEW order, Ranks(r, order), DOMAIN r \subseteq Names,
         MeetsIn(r, d)
  PROVE  SharedBelow(r, d)
<1>1. PICK w \in [Nat -> Walks(r)] : IsWalk(r, d, w) /\ MeetsIn(r, d) = w[Cardinality(Names) + 1].again
  BY WalkFacts
<1> DEFINE Q == {n \in Nat : Traced(r, d, w[n])}
<1>2. 0 \in Q
  <2> DEFINE v == WalkFrom(d)
  <2>1. v.seen = {} /\ v.stack = <<d>> /\ v.again = FALSE /\ Len(v.stack) = 1 /\ v.stack[1] = d
    BY DEF WalkFrom
  <2> HIDE DEF v
  <2> DEFINE K == [k \in 1..1 |-> <<d, 0>>]
  <2>2. \A k \in 1..1 : k = 1
    OBVIOUS
  <2>3. Way(r, d, v.seen, d, <<d, 0>>)
    BY DEF Way
  <2>4. Ways(r, d, v, K, K)
    BY <2>1, <2>2, <2>3 DEF Ways
  <2>5. Traced(r, d, v)
    BY <2>1, <2>2, <2>4 DEF Traced
  <2> QED
    BY <1>1, <2>5 DEF IsWalk, v
<1>3. ASSUME NEW n \in Nat, n \in Q PROVE n + 1 \in Q
  <2>1. w[n] \in Walks(r) /\ Traced(r, d, w[n]) /\ w[n + 1] = WalkStep(r, w[n])
    BY <1>1, <1>3 DEF IsWalk
  <2>2. Traced(r, d, WalkStep(r, w[n]))
    BY <2>1, VisitTraced DEF WalkStep
  <2> QED
    BY <2>1, <2>2
<1>4. Nat \subseteq Q
  <2> HIDE DEF Q
  <2> QED
    BY <1>2, <1>3, NatSetInduction
<1>5. Traced(r, d, w[Cardinality(Names) + 1])
  BY <1>4, SizeOfNames
<1> QED
  BY <1>1, <1>5 DEF Traced

-----------------------------------------------------------------------------
(* The registry as it runs                                                 *)

RegistrySpec == RegistryInit /\ [][RegistryNext]_registryVars

RowOf(d, uri) == [type |-> Design[d].type, body |-> Design[d].body, deps |-> Design[d].deps, uri |-> uri]

RowsAsDesigned ==
  /\ rows = [d \in Artifacts |-> rows[d]] /\ Artifacts \subseteq Names /\ DepsInside(rows)
  /\ \A d \in Artifacts : rows[d] = RowOf(d, rows[d].uri)
  /\ \A d \in Artifacts : d \notin misplaced => rows[d].uri = rows[d].body
  /\ \A d \in Artifacts : rows[d].body \in bodies \cup deleted
  /\ misplaced \subseteq Artifacts
  /\ \A n \in registered : n \in Names /\ Digest(n) \in Artifacts

ClientsInOrder ==
  /\ client = [c \in Clients |-> client[c]]
  /\ \A c \in Clients : client[c] # NotRegistering =>
       /\ client[c].for \in Names
       /\ Elements(Design[client[c].for].deps) \subseteq Artifacts
       /\ client[c].kept => Design[client[c].for].body \in bodies \cup deleted

SomeOrder == \E order : Ranks(rows, order)

ReferencesResolve ==
  /\ UNION references \subseteq Artifacts
  /\ \A m \in manifests :
       /\ m.arts \subseteq Artifacts
       /\ m.prior = {} \/ m.prior \in {x.arts : x \in manifests}
       /\ \A d \in m.arts : ~MeetsIn(rows, d)
  /\ \A r \in refused : r.why = "circular" => \E d \in r.arts : d \in Artifacts /\ SharedBelow(rows, d)

RegistryInv == RowsAsDesigned /\ ClientsInOrder /\ SomeOrder /\ ReferencesResolve

LEMMA ReachedIs ==
  /\ \A d : Reached(d) = ReachIn(rows, d)
  /\ \A d : MeetsAgain(d) = MeetsIn(rows, d)
<1>1. ASSUME NEW d PROVE Reached(d) = ReachIn(rows, d)
  BY DEF Reached, ReachIn, Depends
<1>2. ASSUME NEW d PROVE MeetsAgain(d) = MeetsIn(rows, d)
  BY DEF MeetsAgain, MeetsIn
<1> QED
  BY <1>1, <1>2

LEMMA DigestOf ==
  ASSUME NEW n \in Names
  PROVE  /\ Digest(n) \in Names /\ Design[Digest(n)].type = Design[n].type
         /\ Design[Digest(n)].body = Design[n].body /\ Design[Digest(n)].deps = Design[n].deps
<1>1. \E e \in Names : Digested(Design[e]) = Digested(Design[n])
  OBVIOUS
<1>2. Digest(n) \in Names /\ Digested(Design[Digest(n)]) = Digested(Design[n])
  BY <1>1 DEF Digest
<1> QED
  BY <1>2 DEF Digested

LEMMA RowFields ==
  ASSUME NEW d, NEW uri
  PROVE  /\ RowOf(d, uri).type = Design[d].type /\ RowOf(d, uri).body = Design[d].body
         /\ RowOf(d, uri).deps = Design[d].deps /\ RowOf(d, uri).uri = uri
         /\ \A b : [RowOf(d, uri) EXCEPT !.uri = b] = RowOf(d, b)
  BY DEF RowOf

LEMMA SharedStays ==
  ASSUME NEW r, DepsInside(r), NEW q, DepsInside(q), Keeps(r, q), NEW d \in DOMAIN r, SharedBelow(r, d)
  PROVE  SharedBelow(q, d)
<1>1. ReachIn(q, d) = ReachIn(r, d) /\ ReachIn(r, d) \subseteq DOMAIN r
  BY ReachStays, ReachInside
<1> QED
  BY <1>1 DEF SharedBelow, Keeps

(* What refers to the rows still does when rows are added or changed. *)
LEMMA ReferencesStay ==
  ASSUME RegistryInv, Keeps(rows, rows'), DepsInside(rows'), UNION references' \subseteq Artifacts',
         UNCHANGED <<manifests, refused>>
  PROVE  ReferencesResolve'
<1>1. DepsInside(rows) /\ DOMAIN rows = Artifacts /\ DOMAIN rows' = Artifacts'
  BY DEF RegistryInv, RowsAsDesigned, Artifacts
<1>2. ASSUME NEW m \in manifests
      PROVE  m.arts \subseteq Artifacts' /\ \A d \in m.arts : ~MeetsIn(rows', d)
  <2>1. m.arts \subseteq DOMAIN rows /\ \A d \in m.arts : ~MeetsIn(rows, d)
    BY <1>1 DEF RegistryInv, ReferencesResolve
  <2>2. \A d \in m.arts : MeetsIn(rows', d) = MeetsIn(rows, d)
    BY <1>1, <2>1, MeetingStays
  <2> QED
    BY <1>1, <2>1, <2>2 DEF Keeps
<1>3. ASSUME NEW r \in refused, r.why = "circular"
      PROVE  \E d \in r.arts : d \in Artifacts' /\ SharedBelow(rows', d)
  <2>1. PICK d \in r.arts : d \in DOMAIN rows /\ SharedBelow(rows, d)
    BY <1>1, <1>3 DEF RegistryInv, ReferencesResolve
  <2>2. SharedBelow(rows', d)
    BY <1>1, <2>1, SharedStays
  <2> QED
    BY <1>1, <2>1, <2>2 DEF Keeps
<1>4. \A m \in manifests : m.prior = {} \/ m.prior \in {x.arts : x \in manifests}
  BY DEF RegistryInv, ReferencesResolve
<1> QED
  BY <1>2, <1>3, <1>4 DEF ReferencesResolve

LEMMA RowsKept ==
  ASSUME RegistryInv, UNCHANGED rows
  PROVE  /\ Keeps(rows, rows') /\ DepsInside(rows') /\ DepsInside(rows) /\ Artifacts' = Artifacts
         /\ DOMAIN rows = Artifacts /\ SomeOrder'
  BY DEF RegistryInv, RowsAsDesigned, Artifacts, Keeps, SomeOrder

(* A step that leaves the rows, and what is said of a client, alone *)
LEMMA RegistryAside ==
  ASSUME RegistryInv, UNCHANGED <<rows, misplaced, client>>,
         bodies \cup deleted \subseteq bodies' \cup deleted',
         \A n \in registered' : n \in Names /\ Digest(n) \in Artifacts
  PROVE  RowsAsDesigned' /\ ClientsInOrder' /\ SomeOrder'
<1>1. SomeOrder' /\ Artifacts' = Artifacts
  BY RowsKept
<1>2. RowsAsDesigned'
  BY <1>1 DEF RegistryInv, RowsAsDesigned, Artifacts
<1>3. ClientsInOrder'
  BY <1>1 DEF RegistryInv, ClientsInOrder
<1> QED
  BY <1>1, <1>2, <1>3

LEMMA OneClient ==
  ASSUME RegistryInv, NEW c \in Clients, NEW x, client' = [client EXCEPT ![c] = x],
         Artifacts \subseteq Artifacts', bodies \cup deleted \subseteq bodies' \cup deleted',
         x # NotRegistering =>
           /\ x.for \in Names /\ Elements(Design[x.for].deps) \subseteq Artifacts'
           /\ x.kept => Design[x.for].body \in bodies' \cup deleted'
  PROVE  ClientsInOrder'
<1>1. client = [e \in Clients |-> client[e]]
  BY DEF RegistryInv, ClientsInOrder
<1>2. client' = [e \in Clients |-> IF e = c THEN x ELSE client[e]]
  BY <1>1
<1>3. client' = [e \in Clients |-> client'[e]]
  BY <1>2
<1>4. ASSUME NEW e \in Clients, client'[e] # NotRegistering
      PROVE  /\ client'[e].for \in Names
             /\ Elements(Design[client'[e].for].deps) \subseteq Artifacts'
             /\ client'[e].kept => Design[client'[e].for].body \in bodies' \cup deleted'
  <2>1. CASE e = c
    BY <1>2, <1>4, <2>1
  <2>2. CASE e # c
    <3>1. client'[e] = client[e]
      BY <1>2, <2>2
    <3>2. /\ client[e].for \in Names
          /\ Elements(Design[client[e].for].deps) \subseteq Artifacts
          /\ client[e].kept => Design[client[e].for].body \in bodies \cup deleted
      BY <1>4, <3>1 DEF RegistryInv, ClientsInOrder
    <3> QED
      BY <3>1, <3>2
  <2> QED
    BY <2>1, <2>2
<1> QED
  BY <1>3, <1>4 DEF ClientsInOrder

LEMMA RowAdded ==
  ASSUME RegistryInv, NEW n \in Names, Digest(n) \notin Artifacts, Elements(Design[n].deps) \subseteq Artifacts,
         NEW d, d = Digest(n),
         rows' = [e \in Artifacts \cup {d} |-> IF e = d THEN RowOf(d, Design[d].body) ELSE rows[e]],
         bodies \cup deleted \subseteq bodies' \cup deleted', Design[d].body \in bodies' \cup deleted',
         UNCHANGED misplaced, registered' = registered \cup {n}
  PROVE  /\ RowsAsDesigned' /\ SomeOrder' /\ Keeps(rows, rows') /\ DepsInside(rows')
         /\ Artifacts' = Artifacts \cup {d}
<1>1. /\ Artifacts' = Artifacts \cup {d} /\ DOMAIN rows' = Artifacts \cup {d} /\ DOMAIN rows = Artifacts
      /\ rows'[d] = RowOf(d, Design[d].body) /\ \A e \in Artifacts : e # d /\ rows'[e] = rows[e]
  BY DEF Artifacts
<1>2. d \in Names /\ Design[d].deps = Design[n].deps
  BY DigestOf
<1>3. /\ Artifacts \subseteq Names /\ DepsInside(rows)
      /\ \A e \in Artifacts : rows[e] = RowOf(e, rows[e].uri)
      /\ \A e \in Artifacts : e \notin misplaced => rows[e].uri = rows[e].body
      /\ \A e \in Artifacts : rows[e].body \in bodies \cup deleted
      /\ misplaced \subseteq Artifacts
      /\ \A k \in registered : k \in Names /\ Digest(k) \in Artifacts
  BY DEF RegistryInv, RowsAsDesigned
<1>4. /\ rows'[d].body = Design[d].body /\ rows'[d].uri = Design[d].body /\ rows'[d].deps = Design[d].deps
      /\ rows'[d] = RowOf(d, rows'[d].uri)
  BY <1>1, RowFields
<1>5. Keeps(rows, rows')
  BY <1>1 DEF Keeps
<1>6. DepsInside(rows')
  <2>1. Design[n].deps \in Seq(Names)
    BY RegistryAssumption DEF RegistryAssumption
  <2>2. \A i \in 1..Len(Design[n].deps) : Design[n].deps[i] \in Artifacts
    BY <2>1 DEF Elements
  <2>3. Design[n].deps \in Seq(Artifacts)
    BY <2>1, <2>2
  <2>4. \A s \in Seq(Artifacts) : s \in Seq(Artifacts \cup {d})
    OBVIOUS
  <2>5. \A e \in Artifacts : rows[e].deps \in Seq(Artifacts)
    BY <1>1, <1>3 DEF DepsInside
  <2> QED
    BY <1>1, <1>2, <1>4, <2>3, <2>4, <2>5 DEF DepsInside
<1>7. SomeOrder'
  <2>1. PICK order : Ranks(rows, order)
    BY DEF RegistryInv, SomeOrder
  <2> DEFINE size == Cardinality(Artifacts)
             later == [e \in Artifacts \cup {d} |-> IF e = d THEN size ELSE order[e]]
  <2>2. IsFiniteSet(Artifacts)
    BY <1>3, RegistryAssumption, FS_Subset DEF RegistryAssumption
  <2>3. size \in Nat /\ Cardinality(Artifacts \cup {d}) = size + 1
    BY <2>2, FS_CardinalityType, FS_AddElement
  <2>4. \A e \in Artifacts : order[e] \in Nat /\ order[e] < size
    BY <1>1, <2>1 DEF Ranks
  <2>5. later[d] = size /\ \A e \in Artifacts : later[e] = order[e]
    BY <1>1
  <2> HIDE DEF size
  <2>6. later \in [Artifacts \cup {d} -> Nat]
    BY <2>3, <2>4
  <2> HIDE DEF later
  <2>7. \A e \in Artifacts \cup {d} : later[e] < size + 1
    BY <2>3, <2>4, <2>5
  <2>8. ASSUME NEW e \in Artifacts \cup {d}, NEW x \in Depends(rows', e) PROVE later[x] < later[e]
    <3>1. CASE e = d
      <4>1. x \in Artifacts
        BY <1>2, <1>4, <2>8, <3>1 DEF Depends
      <4> QED
        BY <2>4, <2>5, <3>1, <4>1
    <3>2. CASE e \in Artifacts
      <4>1. x \in Depends(rows, e)
        BY <1>1, <2>8, <3>2 DEF Depends
      <4>2. x \in Artifacts /\ order[x] < order[e]
        BY <1>1, <1>3, <2>1, <3>2, <4>1, DependsInside DEF Ranks
      <4> QED
        BY <2>5, <3>2, <4>2
    <3> QED
      BY <3>1, <3>2
  <2>9. Ranks(rows', later)
    BY <1>1, <2>3, <2>6, <2>7, <2>8 DEF Ranks, size
  <2> QED
    BY <2>9 DEF SomeOrder
<1>8. rows' = [e \in Artifacts' |-> rows'[e]]
  BY <1>1
<1>9. \A e \in Artifacts' : rows'[e] = RowOf(e, rows'[e].uri)
  BY <1>1, <1>3, <1>4
<1>10. \A e \in Artifacts' : e \notin misplaced' => rows'[e].uri = rows'[e].body
  BY <1>1, <1>3, <1>4
<1>11. \A e \in Artifacts' : rows'[e].body \in bodies' \cup deleted'
  BY <1>1, <1>3, <1>4
<1>12. \A k \in registered' : k \in Names /\ Digest(k) \in Artifacts'
  BY <1>1, <1>3
<1>13. RowsAsDesigned'
  BY <1>1, <1>2, <1>3, <1>6, <1>8, <1>9, <1>10, <1>11, <1>12 DEF RowsAsDesigned
<1> QED
  BY <1>1, <1>5, <1>6, <1>7, <1>13

LEMMA RegisterKeeps ==
  ASSUME RegistryInv, NEW c \in Clients, Register(c)
  PROVE  RegistryInv'
<1> DEFINE r == client[c]
           d == Digest(r.for)
<1>1. /\ r # NotRegistering /\ Unique(r) /\ ProposalHolds(r)
      /\ rows' = [e \in Artifacts \cup {d} |->
           IF e = d THEN [type |-> Design[r.for].type, body |-> Design[r.for].body,
                          deps |-> Design[r.for].deps, uri |-> Design[r.for].body]
           ELSE rows[e]]
      /\ bodies' = IF r.kept THEN bodies ELSE bodies \cup {Design[r.for].body}
      /\ references' = references \cup Proposal(r)
      /\ registered' = registered \cup {r.for}
      /\ client' = [client EXCEPT ![c] = NotRegistering]
      /\ UNCHANGED <<deleted, misplaced, manifests, refused>>
  BY DEF Register
<1>2. /\ r.for \in Names /\ Elements(Design[r.for].deps) \subseteq Artifacts
      /\ r.kept => Design[r.for].body \in bodies \cup deleted
  BY <1>1 DEF RegistryInv, ClientsInOrder
<1>3. /\ Design[d].body = Design[r.for].body /\ Design[d].deps = Design[r.for].deps
      /\ Design[d].type = Design[r.for].type
  BY <1>2, DigestOf
<1>4. [type |-> Design[r.for].type, body |-> Design[r.for].body, deps |-> Design[r.for].deps,
       uri |-> Design[r.for].body] = RowOf(d, Design[d].body)
  BY <1>3 DEF RowOf
<1>5. rows' = [e \in Artifacts \cup {d} |-> IF e = d THEN RowOf(d, Design[d].body) ELSE rows[e]]
  BY <1>1, <1>4
<1>6. bodies \cup deleted \subseteq bodies' \cup deleted' /\ Design[d].body \in bodies' \cup deleted'
  BY <1>1, <1>2, <1>3
<1>7. d \notin Artifacts
  BY <1>1 DEF Unique
<1> HIDE DEF d
<1>8. /\ RowsAsDesigned' /\ SomeOrder' /\ Keeps(rows, rows') /\ DepsInside(rows')
      /\ Artifacts' = Artifacts \cup {d}
  <2> DEFINE n == r.for
  <2>1. d = Digest(n) /\ n \in Names /\ Elements(Design[n].deps) \subseteq Artifacts /\ Digest(n) \notin Artifacts
    BY <1>2, <1>7 DEF d
  <2>2. registered' = registered \cup {n} /\ UNCHANGED misplaced
    BY <1>1
  <2> HIDE DEF n
  <2> QED
    BY <1>5, <1>6, <2>1, <2>2, RowAdded
<1>9. ClientsInOrder'
  BY <1>1, <1>6, <1>8, OneClient
<1>10. UNION references' \subseteq Artifacts'
  <2>1. \A S \in Proposal(r) : S \subseteq Artifacts \cup {d}
    BY <1>1 DEF Proposal, ProposalHolds, d
  <2>2. UNION references \subseteq Artifacts
    BY DEF RegistryInv, ReferencesResolve
  <2> HIDE DEF r
  <2> QED
    BY <1>1, <1>8, <2>1, <2>2
<1>11. ReferencesResolve'
  BY <1>1, <1>8, <1>10, ReferencesStay
<1> QED
  BY <1>8, <1>9, <1>11 DEF RegistryInv

LEMMA MisplaceKeeps ==
  ASSUME RegistryInv, NEW d \in Artifacts, NEW b, MisplaceBody(d, b)
  PROVE  RegistryInv'
<1>1. /\ rows' = [rows EXCEPT ![d].uri = b] /\ misplaced' = misplaced \cup {d}
      /\ UNCHANGED <<bodies, deleted, references, manifests, refused, client, registered>>
  BY DEF MisplaceBody
<1>2. /\ rows = [e \in Artifacts |-> rows[e]] /\ Artifacts \subseteq Names /\ DepsInside(rows)
      /\ \A e \in Artifacts : rows[e] = RowOf(e, rows[e].uri)
      /\ \A e \in Artifacts : e \notin misplaced => rows[e].uri = rows[e].body
      /\ \A e \in Artifacts : rows[e].body \in bodies \cup deleted
      /\ misplaced \subseteq Artifacts
      /\ \A k \in registered : k \in Names /\ Digest(k) \in Artifacts
  BY DEF RegistryInv, RowsAsDesigned
<1>3. DOMAIN rows = Artifacts /\ DOMAIN rows' = Artifacts /\ Artifacts' = Artifacts
  BY <1>1 DEF Artifacts
<1>4. rows'[d] = [rows[d] EXCEPT !.uri = b] /\ \A e \in Artifacts : e # d => rows'[e] = rows[e]
  BY <1>1, <1>2
<1>5. rows'[d] = RowOf(d, b)
  <2>1. rows[d] = RowOf(d, rows[d].uri)
    BY <1>2
  <2>2. [RowOf(d, rows[d].uri) EXCEPT !.uri = b] = RowOf(d, b)
    BY RowFields
  <2> QED
    BY <1>4, <2>1, <2>2
<1>6. rows'[d].uri = b /\ rows'[d].body = rows[d].body /\ rows'[d].deps = rows[d].deps
  <2>1. rows[d].body = Design[d].body /\ rows[d].deps = Design[d].deps
    BY <1>2, RowFields
  <2> QED
    BY <1>5, <2>1, RowFields
<1>7. Keeps(rows, rows') /\ DepsInside(rows')
  BY <1>2, <1>3, <1>4, <1>6 DEF Keeps, DepsInside
<1>8. rows' = [e \in Artifacts' |-> rows'[e]]
  BY <1>1, <1>2, <1>3
<1>9. \A e \in Artifacts : rows'[e] = RowOf(e, rows'[e].uri)
  <2>1. \A e \in Artifacts : e = d \/ e # d
    OBVIOUS
  <2> QED
    BY <1>2, <1>4, <1>5, <1>6
<1>10. \A e \in Artifacts : e \notin misplaced' => rows'[e].uri = rows'[e].body
  BY <1>1, <1>2, <1>4
<1>11. \A e \in Artifacts : rows'[e].body \in bodies \cup deleted
  BY <1>2, <1>4, <1>6
<1>12. RowsAsDesigned'
  BY <1>1, <1>2, <1>3, <1>7, <1>8, <1>9, <1>10, <1>11 DEF RowsAsDesigned
<1>13. SomeOrder'
  <2>1. PICK order : Ranks(rows, order)
    BY DEF RegistryInv, SomeOrder
  <2>2. \A e \in Artifacts : Depends(rows', e) = Depends(rows, e)
    BY <1>3, <1>7 DEF Keeps, Depends
  <2>3. Ranks(rows', order)
    BY <1>3, <2>1, <2>2 DEF Ranks
  <2> QED
    BY <2>3 DEF SomeOrder
<1>14. ClientsInOrder'
  BY <1>1, <1>3 DEF RegistryInv, ClientsInOrder
<1>15. ReferencesResolve'
  <2>1. UNION references' \subseteq Artifacts'
    BY <1>1, <1>3 DEF RegistryInv, ReferencesResolve
  <2> QED
    BY <1>1, <1>7, <2>1, ReferencesStay
<1> QED
  BY <1>12, <1>13, <1>14, <1>15 DEF RegistryInv

(* A release that is refused as circular shares a dependency. *)
LEMMA ReleaseKeeps ==
  ASSUME RegistryInv, NEW arts, NEW prior \in PriorReleases, NEW research, CreateRelease(arts, prior, research)
  PROVE  ReferencesResolve'
<1>1. /\ arts \subseteq Artifacts /\ UNCHANGED <<rows, references>>
      /\ IF Activates(arts)
         THEN manifests' = manifests \cup {Manifest(arts, prior)} /\ UNCHANGED refused
         ELSE refused' = refused \cup {[arts |-> arts, why |-> "circular"]} /\ UNCHANGED manifests
  BY DEF CreateRelease
<1>2. /\ Artifacts' = Artifacts /\ DOMAIN rows = Artifacts /\ DepsInside(rows)
  BY <1>1, RowsKept
<1>3. /\ UNION references \subseteq Artifacts
      /\ \A m \in manifests :
           /\ m.arts \subseteq Artifacts
           /\ m.prior = {} \/ m.prior \in {x.arts : x \in manifests}
           /\ \A d \in m.arts : ~MeetsIn(rows, d)
      /\ \A r \in refused : r.why = "circular" => \E d \in r.arts : d \in Artifacts /\ SharedBelow(rows, d)
  BY DEF RegistryInv, ReferencesResolve
<1>4. CASE Activates(arts)
  <2> DEFINE new == Manifest(arts, prior)
  <2>1. new.arts = arts /\ new.prior = prior
    BY DEF Manifest
  <2>2. prior = {} \/ prior \in {x.arts : x \in manifests}
    BY DEF PriorReleases
  <2>3. \A d \in arts : ~MeetsIn(rows, d)
    BY <1>4, ReachedIs DEF Activates
  <2> HIDE DEF new
  <2>4. manifests' = manifests \cup {new} /\ refused' = refused
    BY <1>1, <1>4 DEF new
  <2>5. ASSUME NEW m \in manifests'
        PROVE  /\ m.arts \subseteq Artifacts'
               /\ m.prior = {} \/ m.prior \in {x.arts : x \in manifests'}
               /\ \A d \in m.arts : ~MeetsIn(rows', d)
    <3>1. CASE m = new
      BY <1>1, <1>2, <2>1, <2>2, <2>3, <2>4, <3>1
    <3>2. CASE m \in manifests
      BY <1>1, <1>2, <1>3, <2>4, <3>2
    <3> QED
      BY <2>4, <2>5, <3>1, <3>2
  <2> QED
    BY <1>1, <1>2, <1>3, <2>4, <2>5 DEF ReferencesResolve
<1>5. CASE ~Activates(arts)
  <2> DEFINE new == [arts |-> arts, why |-> "circular"]
  <2>1. PICK d \in arts : MeetsIn(rows, d)
    BY <1>5, ReachedIs DEF Activates
  <2>2. PICK order : Ranks(rows, order)
    BY DEF RegistryInv, SomeOrder
  <2>3. d \in DOMAIN rows /\ DOMAIN rows \subseteq Names
    BY <1>1, <1>2, <2>1 DEF RegistryInv, RowsAsDesigned
  <2>4. SharedBelow(rows, d)
    BY <1>2, <2>1, <2>2, <2>3, MeetingIsShared
  <2>5. new.arts = arts
    OBVIOUS
  <2> HIDE DEF new
  <2>6. refused' = refused \cup {new} /\ manifests' = manifests
    BY <1>1, <1>5 DEF new
  <2>7. ASSUME NEW r \in refused', r.why = "circular"
        PROVE  \E e \in r.arts : e \in Artifacts' /\ SharedBelow(rows', e)
    <3>1. CASE r = new
      BY <1>1, <1>2, <2>1, <2>3, <2>4, <2>5, <3>1
    <3>2. CASE r \in refused
      BY <1>1, <1>2, <1>3, <2>7, <3>2
    <3> QED
      BY <2>6, <2>7, <3>1, <3>2
  <2> QED
    BY <1>1, <1>2, <1>3, <2>6, <2>7 DEF ReferencesResolve
<1> QED
  BY <1>4, <1>5

LEMMA RegistryStep == RegistryInv /\ [RegistryNext]_registryVars => RegistryInv'
<1> SUFFICES ASSUME RegistryInv, [RegistryNext]_registryVars PROVE RegistryInv'
  OBVIOUS
<1>0. /\ UNION references \subseteq Artifacts
      /\ \A n \in registered : n \in Names /\ Digest(n) \in Artifacts
  BY DEF RegistryInv, RowsAsDesigned, ReferencesResolve
<1>1. ASSUME UNCHANGED <<rows, misplaced, client, manifests, refused>>,
             bodies \cup deleted \subseteq bodies' \cup deleted',
             \A n \in registered' : n \in Names /\ Digest(n) \in Artifacts,
             UNION references' \subseteq Artifacts
      PROVE  RegistryInv'
  <2>1. RowsAsDesigned' /\ ClientsInOrder' /\ SomeOrder'
    BY <1>1, RegistryAside
  <2>2. Keeps(rows, rows') /\ DepsInside(rows') /\ Artifacts' = Artifacts
    BY <1>1, RowsKept
  <2>3. ReferencesResolve'
    BY <1>1, <2>2, ReferencesStay
  <2> QED
    BY <2>1, <2>3 DEF RegistryInv
<1>2. CASE UNCHANGED registryVars
  BY <1>0, <1>1, <1>2 DEF registryVars
<1>3. ASSUME NEW wanted \in Registrations, ReturnExisting(wanted) PROVE RegistryInv'
  <2>1. wanted.for \in Names
    BY RegistryAssumption DEF RegistryAssumption
  <2>2. Digest(wanted.for) \in Artifacts /\ registered' = registered \cup {wanted.for}
    BY <1>3 DEF ReturnExisting
  <2>3. \A S \in Proposal(wanted) : S \subseteq Artifacts
    BY <1>3, <2>2 DEF ReturnExisting, Proposal, ProposalHolds
  <2>4. UNION references' \subseteq Artifacts
    <3>1. references' = references \cup Proposal(wanted)
      BY <1>3 DEF ReturnExisting
    <3> QED
      BY <1>0, <2>3, <3>1
  <2>5. \A n \in registered' : n \in Names /\ Digest(n) \in Artifacts
    BY <1>0, <2>1, <2>2
  <2> QED
    BY <1>1, <1>3, <2>4, <2>5 DEF ReturnExisting
<1>4. ASSUME UNCHANGED <<rows, bodies, deleted, misplaced, references, manifests, refused, registered>>,
             ClientsInOrder'
      PROVE  RegistryInv'
  <2>1. Keeps(rows, rows') /\ DepsInside(rows') /\ Artifacts' = Artifacts /\ SomeOrder'
    BY <1>4, RowsKept
  <2>2. ReferencesResolve'
    BY <1>0, <1>4, <2>1, ReferencesStay
  <2>3. RowsAsDesigned'
    BY <1>4, <2>1 DEF RegistryInv, RowsAsDesigned, Artifacts
  <2> QED
    BY <1>4, <2>1, <2>2, <2>3 DEF RegistryInv
<1>5. ASSUME NEW c \in Clients, NEW wanted \in Registrations, LookUp(c, wanted) PROVE RegistryInv'
  <2> DEFINE x == [for |-> wanted.for, parent |-> wanted.parent, kept |-> Design[wanted.for].body \in bodies]
  <2>1. /\ x.for = wanted.for /\ x.kept = (Design[wanted.for].body \in bodies)
    OBVIOUS
  <2>2. wanted.for \in Names
    BY RegistryAssumption DEF RegistryAssumption
  <2>3. /\ client' = [client EXCEPT ![c] = x] /\ Elements(Design[wanted.for].deps) \subseteq Artifacts
        /\ UNCHANGED <<rows, bodies, deleted, misplaced, references, manifests, refused, registered>>
    BY <1>5 DEF LookUp
  <2> HIDE DEF x
  <2>4. Artifacts' = Artifacts
    BY <2>3, RowsKept
  <2>5. /\ x.for \in Names /\ Elements(Design[x.for].deps) \subseteq Artifacts'
        /\ x.kept => Design[x.for].body \in bodies' \cup deleted'
        /\ Artifacts \subseteq Artifacts' /\ bodies \cup deleted \subseteq bodies' \cup deleted'
    BY <2>1, <2>2, <2>3, <2>4
  <2>6. ClientsInOrder'
    BY <2>3, <2>5, OneClient
  <2> QED
    BY <1>4, <2>3, <2>6
<1>6. ASSUME NEW c \in Clients, Register(c) PROVE RegistryInv'
  BY <1>6, RegisterKeeps
<1>7. ASSUME NEW c \in Clients, Fail(c) PROVE RegistryInv'
  <2>1. /\ client' = [client EXCEPT ![c] = NotRegistering]
        /\ UNCHANGED <<rows, bodies, deleted, misplaced, references, manifests, refused, registered>>
    BY <1>7 DEF Fail
  <2>2. Artifacts \subseteq Artifacts' /\ bodies \cup deleted \subseteq bodies' \cup deleted'
    BY <2>1, RowsKept
  <2>3. ClientsInOrder'
    BY <2>1, <2>2, OneClient
  <2> QED
    BY <1>4, <2>1, <2>3
<1>8. ASSUME NEW d, NEW members, RecordComposite(d, members) PROVE RegistryInv'
  <2>1. /\ {d} \cup UNION {Named(m) : m \in members} \subseteq Artifacts
        /\ references' = references \cup {{d}} \cup {Named(m) : m \in members}
        /\ UNCHANGED <<rows, bodies, deleted, misplaced, manifests, refused, client, registered>>
    BY <1>8 DEF RecordComposite
  <2>2. UNION references' \subseteq Artifacts
    BY <1>0, <2>1
  <2> QED
    BY <1>0, <1>1, <2>1, <2>2
<1>9. ASSUME NEW d, RecordAbout(d) PROVE RegistryInv'
  <2>1. /\ d \in Artifacts /\ references' = references \cup {{d}}
        /\ UNCHANGED <<rows, bodies, deleted, misplaced, manifests, refused, client, registered>>
    BY <1>9 DEF RecordAbout
  <2>2. UNION references' \subseteq Artifacts
    BY <1>0, <2>1
  <2> QED
    BY <1>0, <1>1, <2>1, <2>2
<1>10. ASSUME NEW b, DeleteBody(b) PROVE RegistryInv'
  <2>1. bodies \cup deleted \subseteq bodies' \cup deleted'
    BY <1>10 DEF DeleteBody
  <2> QED
    BY <1>0, <1>1, <1>10, <2>1 DEF DeleteBody
<1>11. ASSUME NEW d \in Artifacts, NEW b, MisplaceBody(d, b) PROVE RegistryInv'
  BY <1>11, MisplaceKeeps
<1>12. ASSUME NEW arts, RefuseScaffoldRelease(arts) PROVE RegistryInv'
  <2> DEFINE new == [arts |-> arts, why |-> "environment"]
  <2>1. /\ refused' = refused \cup {new}
        /\ UNCHANGED <<rows, bodies, deleted, misplaced, references, manifests, client, registered>>
    BY <1>12 DEF RefuseScaffoldRelease
  <2>2. new.why # "circular"
    OBVIOUS
  <2> HIDE DEF new
  <2>3. RowsAsDesigned' /\ ClientsInOrder' /\ SomeOrder' /\ Artifacts' = Artifacts
    BY <1>0, <2>1, RegistryAside, RowsKept
  <2>4. ReferencesResolve'
    BY <2>1, <2>2, <2>3 DEF RegistryInv, ReferencesResolve
  <2> QED
    BY <2>3, <2>4 DEF RegistryInv
<1>13. ASSUME NEW arts, NEW prior \in PriorReleases, NEW research, CreateRelease(arts, prior, research)
       PROVE  RegistryInv'
  <2>1. UNCHANGED <<rows, bodies, deleted, misplaced, references, client, registered>>
    BY <1>13 DEF CreateRelease
  <2>2. RowsAsDesigned' /\ ClientsInOrder' /\ SomeOrder'
    BY <1>0, <2>1, RegistryAside
  <2>3. ReferencesResolve'
    BY <1>13, ReleaseKeeps
  <2> QED
    BY <2>2, <2>3 DEF RegistryInv
<1> QED
  BY <1>2, <1>3, <1>5, <1>6, <1>7, <1>8, <1>9, <1>10, <1>11, <1>12, <1>13
     DEF RegistryNext, RecordEvidence, RecordAttestation, AppendStatusEvent

LEMMA RegistryHolds == RegistryInv => RegistrySound
<1> SUFFICES ASSUME RegistryInv PROVE RegistrySound
  OBVIOUS
<1>1. /\ Artifacts \subseteq Names /\ DepsInside(rows) /\ DOMAIN rows = Artifacts
      /\ \A d \in Artifacts : rows[d] = RowOf(d, rows[d].uri)
      /\ \A d \in Artifacts : d \notin misplaced => rows[d].uri = rows[d].body
      /\ \A d \in Artifacts : rows[d].body \in bodies \cup deleted
      /\ misplaced \subseteq Artifacts
      /\ \A n \in registered : n \in Names /\ Digest(n) \in Artifacts
  BY DEF RegistryInv, RowsAsDesigned, Artifacts
<1>2. \A d \in Artifacts : /\ rows[d].type = Design[d].type /\ rows[d].body = Design[d].body
                           /\ rows[d].deps = Design[d].deps
  BY <1>1, RowFields
<1>3. \A d \in Artifacts : Digested(rows[d]) = Digested(Design[d])
  BY <1>2 DEF Digested
<1>4. FoundAsRegistered
  <2>1. ASSUME NEW n \in registered
        PROVE  LET d == Digest(n) IN
               /\ d \in Artifacts
               /\ rows[d].body = Design[n].body /\ rows[d].deps = Design[n].deps
               /\ d \notin misplaced => ReadArtifact(d) \in {Design[n].body, "revoked"}
    <3> DEFINE d == Digest(n)
    <3>1. d \in Artifacts /\ n \in Names
      BY <1>1
    <3>2. rows[d].body = Design[n].body /\ rows[d].deps = Design[n].deps
      BY <1>2, <3>1, DigestOf
    <3>3. Digested(rows[d]) = Digested(Design[d])
      BY <1>3, <3>1
    <3> HIDE DEF d
    <3>4. d \notin misplaced => rows[d].uri = rows[d].body /\ rows[d].body \in bodies \cup deleted
      BY <1>1, <3>1
    <3>5. d \notin misplaced => ReadArtifact(d) \in {Design[n].body, "revoked"}
      BY <3>2, <3>3, <3>4 DEF ReadArtifact
    <3> QED
      BY <3>1, <3>2, <3>5 DEF d
  <2>2. ASSUME NEW d \in misplaced
        PROVE  ReadArtifact(d) \in {Design[d].body, "revoked", NotFound, "mismatch"}
    <3>1. rows[d].body = Design[d].body
      BY <1>1, <1>2
    <3> QED
      BY <3>1 DEF ReadArtifact
  <2> QED
    BY <2>1, <2>2 DEF FoundAsRegistered
<1>5. \A d \in Artifacts : Reached(d) \subseteq Artifacts
  BY <1>1, ReachedIs, ReachInside
<1>6. PointsSomewhere
  <2>1. /\ UNION references \subseteq Artifacts
        /\ \A m \in manifests : m.arts \subseteq Artifacts /\ (m.prior = {} \/ m.prior \in {x.arts : x \in manifests})
    BY DEF RegistryInv, ReferencesResolve
  <2>2. \A m \in manifests : UNION {Reached(d) : d \in m.arts} \subseteq Artifacts
    BY <1>5, <2>1
  <2> QED
    BY <1>5, <2>1, <2>2 DEF PointsSomewhere
<1>7. CircularIsShared
  <2>1. PICK order : Ranks(rows, order)
    BY DEF RegistryInv, SomeOrder
  <2>2. ASSUME NEW d \in Artifacts, d \in Reached(d) PROVE FALSE
    <3>1. order[d] < order[d]
      BY <1>1, <2>1, <2>2, ReachedIs, ReachRanks
    <3>2. order[d] \in Nat
      BY <1>1, <2>1 DEF Ranks
    <3> QED
      BY <3>1, <3>2
  <2>3. ASSUME NEW r \in refused, r.why = "circular"
        PROVE  \E d \in r.arts : \E e, f \in {d} \cup Reached(d) :
                 \E i \in DOMAIN rows[e].deps, j \in DOMAIN rows[f].deps :
                   <<e, i>> # <<f, j>> /\ rows[e].deps[i] = rows[f].deps[j]
    <3>1. PICK d \in r.arts : SharedBelow(rows, d)
      BY <2>3 DEF RegistryInv, ReferencesResolve
    <3>2. Reached(d) = ReachIn(rows, d)
      BY ReachedIs
    <3> QED
      BY <3>1, <3>2 DEF SharedBelow
  <2>4. \A m \in manifests : \A d \in m.arts : ~MeetsAgain(d)
    BY ReachedIs DEF RegistryInv, ReferencesResolve
  <2> QED
    BY <2>2, <2>3, <2>4 DEF CircularIsShared
<1> QED
  BY <1>4, <1>6, <1>7 DEF RegistrySound

(* Whoever registers, deletes or moves the same bytes meanwhile, an artifact *)
(* is found as it was registered or its deletion is reported; nothing points *)
(* nowhere, however far dependencies are followed; the registry has no       *)
(* cycle, and a release is refused as circular for a dependency it shares    *)
(* (registry/service.py).                                                    *)
THEOREM RegistryCorrect == RegistrySpec => []RegistrySound
<1>1. RegistryInit => RegistryInv
  <2> SUFFICES ASSUME RegistryInit PROVE RegistryInv
    OBVIOUS
  <2>1. rows = [n \in {} |-> Nothing] /\ DOMAIN rows = {} /\ Artifacts = {}
    BY DEF RegistryInit, Artifacts
  <2>2. Ranks(rows, rows)
    BY <2>1 DEF Ranks
  <2>3. RowsAsDesigned
    BY <2>1 DEF RegistryInit, RowsAsDesigned, DepsInside
  <2> QED
    BY <2>1, <2>2, <2>3 DEF RegistryInit, RegistryInv, ClientsInOrder, SomeOrder, ReferencesResolve
<1> QED
  BY <1>1, RegistryStep, RegistryHolds, PTL DEF RegistrySpec

-----------------------------------------------------------------------------
(* Sums over finite sets, and what they do not depend on                   *)

(* s gives every part of S the sum of f over it *)
SumsOf(s, f, S) ==
  /\ s \in [SUBSET S -> Int] /\ s[{}] = 0
  /\ \A U \in SUBSET S : \A x \in S \ U : s[U \cup {x}] = s[U] + f[x]

LEMMA SumsExist ==
  ASSUME NEW S, IsFiniteSet(S), NEW f, \A x \in S : f[x] \in Int
  PROVE  \E s : SumsOf(s, f, S)
<1> DEFINE F == {U \in SUBSET S : \E s : SumsOf(s, f, U)}
<1>1. {} \in F
  <2> DEFINE z == [U \in SUBSET {} |-> 0]
  <2>1. SumsOf(z, f, {})
    BY DEF SumsOf
  <2> QED
    BY <2>1
<1>2. ASSUME NEW U \in SUBSET S, NEW y \in S, U \in F, y \notin U PROVE U \cup {y} \in F
  <2>1. PICK s : SumsOf(s, f, U)
    BY <1>2
  <2> DEFINE V == U \cup {y}
             t == [W \in SUBSET V |-> IF y \in W THEN s[W \ {y}] + f[y] ELSE s[W]]
  <2>2. \A W \in SUBSET V : /\ y \in W => W \ {y} \in SUBSET U /\ t[W] = s[W \ {y}] + f[y]
                            /\ y \notin W => W \in SUBSET U /\ t[W] = s[W]
    OBVIOUS
  <2>3. \A W \in SUBSET U : s[W] \in Int
    BY <2>1 DEF SumsOf
  <2>4. f[y] \in Int
    OBVIOUS
  <2>5. t \in [SUBSET V -> Int]
    <3>1. \A W \in SUBSET V : (IF y \in W THEN s[W \ {y}] + f[y] ELSE s[W]) \in Int
      BY <2>3, <2>4
    <3> QED
      BY <3>1
  <2>6. t[{}] = 0
    BY <2>1, <2>2 DEF SumsOf
  <2> HIDE DEF t
  <2>7. ASSUME NEW W \in SUBSET V, NEW x \in V \ W PROVE t[W \cup {x}] = t[W] + f[x]
    <3>1. CASE x = y
      <4>1. (W \cup {y}) \ {y} = W /\ y \notin W /\ W \cup {y} \in SUBSET V
        BY <2>7, <3>1
      <4> QED
        BY <2>2, <3>1, <4>1
    <3>2. CASE x # y /\ y \notin W
      <4>1. x \in U \ W /\ y \notin W \cup {x} /\ W \cup {x} \in SUBSET V /\ W \in SUBSET U
        BY <2>7, <3>2
      <4>2. s[W \cup {x}] = s[W] + f[x]
        BY <2>1, <4>1 DEF SumsOf
      <4> QED
        BY <2>2, <3>2, <4>1, <4>2
    <3>3. CASE x # y /\ y \in W
      <4> DEFINE D == W \ {y}
      <4>1. /\ x \in U \ D /\ y \in W \cup {x} /\ W \cup {x} \in SUBSET V /\ D \in SUBSET U
            /\ (W \cup {x}) \ {y} = D \cup {x}
        BY <2>7, <3>3
      <4>2. s[D \cup {x}] = s[D] + f[x]
        BY <2>1, <4>1 DEF SumsOf
      <4>3. t[W \cup {x}] = s[D \cup {x}] + f[y] /\ t[W] = s[D] + f[y]
        BY <2>2, <3>3, <4>1
      <4>4. s[D] \in Int /\ f[x] \in Int /\ f[y] \in Int
        BY <2>3, <4>1
      <4> QED
        BY <4>2, <4>3, <4>4
    <3> QED
      BY <3>1, <3>2, <3>3
  <2>8. SumsOf(t, f, V)
    BY <2>5, <2>6, <2>7 DEF SumsOf
  <2> QED
    BY <2>8
<1>3. S \in F
  <2> HIDE DEF F
  <2> QED
    BY <1>1, <1>2, SubsetInduction
<1> QED
  BY <1>3

LEMMA SumIs ==
  ASSUME NEW f, f = [x \in DOMAIN f |-> f[x]], IsFiniteSet(DOMAIN f), \A x \in DOMAIN f : f[x] \in Int,
         NEW s, SumsOf(s, f, DOMAIN f)
  PROVE  SumOfAll(f) = s[DOMAIN f]
<1> DEFINE S == DOMAIN f
           Sums(g) == [U \in SUBSET S |-> IF U = {} THEN 0 ELSE LET x == CHOOSE x \in U : TRUE IN f[x] + g[U \ {x}]]
           sum == CHOOSE g : g = Sums(g)
<1>1. ASSUME NEW U \in SUBSET S, U # {}, NEW x \in U PROVE s[U] = f[x] + s[U \ {x}]
  <2>1. U \ {x} \in SUBSET S /\ x \in S \ (U \ {x}) /\ (U \ {x}) \cup {x} = U
    BY <1>1
  <2>2. s[U] = s[U \ {x}] + f[x]
    BY <2>1 DEF SumsOf
  <2>3. s[U \ {x}] \in Int /\ f[x] \in Int
    BY <2>1 DEF SumsOf
  <2> QED
    BY <2>2, <2>3
<1>2. s = Sums(s)
  <2>1. \A U \in SUBSET S : s[U] = IF U = {} THEN 0 ELSE LET x == CHOOSE x \in U : TRUE IN f[x] + s[U \ {x}]
    <3> SUFFICES ASSUME NEW U \in SUBSET S
                 PROVE  s[U] = IF U = {} THEN 0 ELSE LET x == CHOOSE x \in U : TRUE IN f[x] + s[U \ {x}]
      OBVIOUS
    <3>1. CASE U = {}
      BY <3>1 DEF SumsOf
    <3>2. CASE U # {}
      <4>1. (CHOOSE x \in U : TRUE) \in U
        BY <3>2
      <4> QED
        BY <1>1, <3>2, <4>1
    <3> QED
      BY <3>1, <3>2
  <2>2. s = [U \in SUBSET S |-> s[U]]
    BY DEF SumsOf
  <2> QED
    BY <2>1, <2>2
<1>3. sum = Sums(sum)
  <2> HIDE DEF Sums
  <2> QED
    BY <1>2
<1>4. SumOfAll(f) = sum[S]
  <2>1. sum = CHOOSE g : g = [U \in SUBSET DOMAIN f |->
                IF U = {} THEN 0 ELSE LET x == CHOOSE x \in U : TRUE IN f[x] + g[U \ {x}]]
    OBVIOUS
  <2> HIDE DEF sum
  <2> QED
    BY <2>1 DEF SumOfAll
<1> HIDE DEF sum
<1>5. ASSUME NEW U \in SUBSET S, U # {}
      PROVE  sum[U] = f[CHOOSE x \in U : TRUE] + sum[U \ {CHOOSE x \in U : TRUE}]
  BY <1>3, <1>5
<1> DEFINE Bad == {U \in SUBSET S : sum[U] # s[U]}
<1>6. Bad = {}
  <2> SUFFICES ASSUME Bad # {} PROVE FALSE
    OBVIOUS
  <2>1. \A U \in Bad : IsFiniteSet(U)
    BY FS_Subset
  <2>2. PICK U \in Bad : \A W \in Bad : W \subseteq U => W = U
    <3> HIDE DEF Bad
    <3> QED
      BY <2>1, MinimalSet
  <2>3. CASE U = {}
    <3>1. sum[{}] = 0
      BY <1>3
    <3> QED
      BY <2>2, <2>3, <3>1 DEF SumsOf
  <2>4. CASE U # {}
    <3> DEFINE x == CHOOSE x \in U : TRUE
    <3>1. x \in U
      BY <2>4
    <3>2. sum[U] = f[x] + sum[U \ {x}] /\ s[U] = f[x] + s[U \ {x}]
      <4>1. U \in SUBSET S
        OBVIOUS
      <4> HIDE DEF Bad
      <4>2. sum[U] = f[x] + sum[U \ {x}]
        BY <1>5, <2>4, <4>1
      <4> HIDE DEF x
      <4>3. s[U] = f[x] + s[U \ {x}]
        BY <1>1, <2>4, <3>1, <4>1
      <4> QED
        BY <4>2, <4>3
    <3> HIDE DEF x
    <3>3. U \ {x} \in SUBSET S /\ U \ {x} \subseteq U /\ U \ {x} # U
      BY <2>2, <3>1
    <3>4. U \ {x} \notin Bad
      BY <2>2, <3>3
    <3> QED
      BY <2>2, <3>2, <3>3, <3>4
  <2> QED
    BY <2>3, <2>4
<1> QED
  BY <1>4, <1>6

(* A sum is of its values, whatever it calls what they are of, and adds up. *)
Numbers(f) == f = [x \in DOMAIN f |-> f[x]] /\ IsFiniteSet(DOMAIN f) /\ \A x \in DOMAIN f : f[x] \in Int

LEMMA SumStarts ==
  ASSUME NEW f, f = [x \in {} |-> f[x]]
  PROVE  SumOfAll(f) = 0
<1>1. DOMAIN f = {}
  OBVIOUS
<1>2. IsFiniteSet(DOMAIN f)
  BY <1>1, FS_EmptySet
<1>3. PICK s : SumsOf(s, f, DOMAIN f)
  BY <1>1, <1>2, SumsExist
<1>4. SumOfAll(f) = s[DOMAIN f]
  BY <1>1, <1>2, <1>3, SumIs
<1> QED
  BY <1>1, <1>3, <1>4 DEF SumsOf

LEMMA SumGrows ==
  ASSUME NEW g, Numbers(g), NEW y \in DOMAIN g,
         NEW f, f = [x \in DOMAIN g \ {y} |-> g[x]]
  PROVE  /\ SumOfAll(f) \in Int
         /\ SumOfAll(g) = SumOfAll(f) + g[y]
<1> DEFINE S == DOMAIN g
           U == S \ {y}
<1>1. IsFiniteSet(S) /\ IsFiniteSet(U) /\ DOMAIN f = U /\ \A x \in U : f[x] = g[x]
  BY FS_RemoveElement DEF Numbers
<1>2. PICK s : SumsOf(s, g, S)
  BY <1>1, SumsExist DEF Numbers
<1> DEFINE r == [W \in SUBSET U |-> s[W]]
<1>3. SumsOf(r, f, U)
  <2>1. \A W \in SUBSET U : W \in SUBSET S /\ r[W] = s[W]
    OBVIOUS
  <2>2. r \in [SUBSET U -> Int] /\ r[{}] = 0
    BY <1>2, <2>1 DEF SumsOf
  <2>3. ASSUME NEW W \in SUBSET U, NEW x \in U \ W PROVE r[W \cup {x}] = r[W] + f[x]
    <3>1. W \in SUBSET S /\ W \cup {x} \in SUBSET U /\ x \in S \ W /\ f[x] = g[x]
      BY <1>1
    <3>2. s[W \cup {x}] = s[W] + g[x]
      BY <1>2, <3>1 DEF SumsOf
    <3> QED
      BY <2>1, <3>1, <3>2
  <2> QED
    BY <2>2, <2>3 DEF SumsOf
<1>4. SumOfAll(g) = s[S]
  BY <1>1, <1>2, SumIs DEF Numbers
<1>5. SumOfAll(f) = r[U]
  <2>1. f = [x \in DOMAIN f |-> f[x]] /\ \A x \in DOMAIN f : f[x] \in Int
    BY <1>1 DEF Numbers
  <2> HIDE DEF r, U
  <2> QED
    BY <1>1, <1>3, <2>1, SumIs
<1>6. s[U \cup {y}] = s[U] + g[y] /\ U \cup {y} = S /\ r[U] = s[U] /\ s[U] \in Int
  <2>1. U \in SUBSET S /\ y \in S \ U /\ U \cup {y} = S
    OBVIOUS
  <2> QED
    BY <1>2, <2>1 DEF SumsOf
<1> QED
  BY <1>4, <1>5, <1>6

SumOn(f, W) == SumOfAll([x \in W |-> f[x]])

LEMMA SumsStep ==
  ASSUME NEW S, IsFiniteSet(S), NEW f, \A x \in S : f[x] \in Int
  PROVE  /\ SumOn(f, {}) = 0
         /\ \A W \in SUBSET S : SumOn(f, W) \in Int
         /\ \A W \in SUBSET S : \A x \in S \ W : SumOn(f, W \cup {x}) = SumOn(f, W) + f[x]
<1>1. SumOn(f, {}) = 0
  <2> DEFINE z == [x \in {} |-> f[x]]
  <2>1. z = [x \in {} |-> z[x]]
    OBVIOUS
  <2> HIDE DEF z
  <2>2. SumOfAll(z) = 0
    BY <2>1, SumStarts
  <2> QED
    BY <2>2 DEF z, SumOn
<1>2. ASSUME NEW W \in SUBSET S, NEW x \in S \ W
      PROVE  SumOn(f, W) \in Int /\ SumOn(f, W \cup {x}) = SumOn(f, W) + f[x]
  <2> DEFINE g == [y \in W \cup {x} |-> f[y]]
             h == [y \in W |-> f[y]]
  <2>1. W \cup {x} \in SUBSET S
    OBVIOUS
  <2>2. Numbers(g) /\ x \in DOMAIN g /\ g[x] = f[x]
    BY <2>1, FS_Subset DEF Numbers
  <2>3. h = [y \in DOMAIN g \ {x} |-> g[y]]
    OBVIOUS
  <2> HIDE DEF g, h
  <2>4. SumOfAll(h) \in Int /\ SumOfAll(g) = SumOfAll(h) + g[x]
    BY <2>2, <2>3, SumGrows
  <2> QED
    BY <2>2, <2>4 DEF SumOn, g, h
<1>3. ASSUME NEW W \in SUBSET S PROVE SumOn(f, W) \in Int
  <2>1. CASE W = {}
    BY <1>1, <2>1
  <2>2. CASE W # {}
    <3>1. PICK x \in W : TRUE
      BY <2>2
    <3>2. W \ {x} \in SUBSET S /\ x \in S \ (W \ {x}) /\ (W \ {x}) \cup {x} = W
      BY <3>1
    <3>3. SumOn(f, W \ {x}) \in Int /\ SumOn(f, W) = SumOn(f, W \ {x}) + f[x]
      BY <1>2, <3>2
    <3>4. f[x] \in Int
      BY <3>2
    <3> QED
      BY <3>3, <3>4
  <2> QED
    BY <2>1, <2>2
<1> QED
  BY <1>1, <1>2, <1>3

(* The same values under other names have the same sum. *)
LEMMA SumAlike ==
  ASSUME NEW S, IsFiniteSet(S), NEW f, \A x \in S : f[x] \in Int,
         NEW T, IsFiniteSet(T), NEW g, NEW b,
         \A x \in S : b[x] \in T /\ g[b[x]] = f[x],
         \A x, y \in S : b[x] = b[y] => x = y, \A z \in T : \E x \in S : z = b[x]
  PROVE  SumOn(f, S) = SumOn(g, T)
<1> DEFINE Of(W) == {b[x] : x \in W}
           F == {W \in SUBSET S : SumOn(f, W) = SumOn(g, Of(W))}
<1>1. \A z \in T : g[z] \in Int
  OBVIOUS
<1>2. {} \in F
  <2>1. Of({}) = {}
    OBVIOUS
  <2>2. SumOn(f, {}) = 0 /\ SumOn(g, {}) = 0
    BY <1>1, SumsStep
  <2> HIDE DEF Of
  <2> QED
    BY <2>1, <2>2
<1>3. ASSUME NEW W \in SUBSET S, NEW x \in S, W \in F, x \notin W PROVE W \cup {x} \in F
  <2>1. Of(W \cup {x}) = Of(W) \cup {b[x]} /\ Of(W) \in SUBSET T /\ b[x] \in T \ Of(W) /\ g[b[x]] = f[x]
    BY <1>3
  <2> HIDE DEF Of
  <2>2. SumOn(g, Of(W) \cup {b[x]}) = SumOn(g, Of(W)) + g[b[x]]
    BY <1>1, <2>1, SumsStep
  <2>3. SumOn(f, W \cup {x}) = SumOn(f, W) + f[x]
    BY <1>3, SumsStep
  <2>4. SumOn(f, W) = SumOn(g, Of(W)) /\ W \cup {x} \in SUBSET S
    BY <1>3
  <2> QED
    BY <2>1, <2>2, <2>3, <2>4
<1>4. S \in F
  <2> HIDE DEF F
  <2> QED
    BY <1>2, <1>3, SubsetInduction
<1>5. Of(S) = T
  OBVIOUS
<1> HIDE DEF Of
<1> QED
  BY <1>4, <1>5

(* Rows that are shared out among values: the shares add up. *)
ShareOf(v, R, q) == {r \in R : q[r] = {v}}
SharedOut(V, R, q) == {r \in R : \E v \in V : q[r] = {v}}

LEMMA SharesAddUp ==
  ASSUME NEW R, IsFiniteSet(R), NEW V, IsFiniteSet(V), NEW q, NEW f,
         \A v \in V : f[v] = Cardinality(ShareOf(v, R, q))
  PROVE  SumOn(f, V) = Cardinality(SharedOut(V, R, q))
<1> USE DEF ShareOf, SharedOut
<1> DEFINE Share(v) == {r \in R : q[r] = {v}}
           Shares(W) == {r \in R : \E v \in W : q[r] = {v}}
           F == {W \in SUBSET V : SumOn(f, W) = Cardinality(Shares(W))}
<1>1. \A v \in V : IsFiniteSet(Share(v)) /\ f[v] = Cardinality(Share(v)) /\ f[v] \in Int
  <2> SUFFICES ASSUME NEW v \in V PROVE IsFiniteSet(Share(v)) /\ f[v] = Cardinality(Share(v)) /\ f[v] \in Int
    OBVIOUS
  <2>1. Share(v) \in SUBSET R
    OBVIOUS
  <2>2. f[v] = Cardinality(Share(v))
    OBVIOUS
  <2> HIDE DEF Share
  <2>3. IsFiniteSet(Share(v))
    BY <2>1, FS_Subset
  <2>4. Cardinality(Share(v)) \in Nat
    BY <2>3, FS_CardinalityType
  <2> QED
    BY <2>2, <2>3, <2>4
<1>2. {} \in F
  <2>1. Shares({}) = {}
    OBVIOUS
  <2>2. SumOn(f, {}) = 0
    BY <1>1, SumsStep
  <2> HIDE DEF Shares
  <2> QED
    BY <2>1, <2>2, FS_EmptySet
<1>3. ASSUME NEW W \in SUBSET V, NEW v \in V, W \in F, v \notin W PROVE W \cup {v} \in F
  <2>1. Shares(W \cup {v}) = Shares(W) \cup Share(v) /\ Shares(W) \cap Share(v) = {} /\ Shares(W) \in SUBSET R
    BY <1>3
  <2>2. SumOn(f, W) = Cardinality(Shares(W)) /\ W \cup {v} \in SUBSET V
    BY <1>3
  <2> HIDE DEF Shares, Share
  <2>3. IsFiniteSet(Shares(W)) /\ Cardinality({}) = 0
    BY <2>1, FS_Subset, FS_EmptySet
  <2>4. Cardinality(Shares(W) \cup Share(v)) = Cardinality(Shares(W)) + Cardinality(Share(v)) - 0
    BY <1>1, <2>1, <2>3, FS_Union
  <2>5. SumOn(f, W \cup {v}) = SumOn(f, W) + f[v]
    BY <1>1, <1>3, SumsStep
  <2>6. Cardinality(Shares(W)) \in Nat /\ Cardinality(Share(v)) \in Nat
    BY <1>1, <2>3, FS_CardinalityType
  <2>7. f[v] = Cardinality(Share(v)) /\ f[v] \in Int
    BY <1>1
  <2>8. SumOn(f, W \cup {v}) = Cardinality(Shares(W \cup {v}))
    <3> DEFINE a == Cardinality(Shares(W))
               b == Cardinality(Share(v))
    <3>1. Cardinality(Shares(W \cup {v})) = a + b - 0
      BY <2>1, <2>4
    <3>2. SumOn(f, W \cup {v}) = a + b /\ a \in Nat /\ b \in Nat
      BY <2>2, <2>5, <2>6, <2>7
    <3> HIDE DEF F, a, b
    <3> QED
      BY <3>1, <3>2
  <2> QED
    BY <2>2, <2>8
<1>4. V \in F
  <2> HIDE DEF F
  <2> QED
    BY <1>2, <1>3, SubsetInduction
<1> QED
  BY <1>4

(* Among finitely many numbers one is the least, one the greatest. *)
LEMMA LeastAndGreatest ==
  ASSUME NEW S, IsFiniteSet(S), S # {}, NEW f, \A x \in S : f[x] \in Int
  PROVE  \E lo \in S, hi \in S : \A x \in S : f[lo] <= f[x] /\ f[x] <= f[hi]
<1> DEFINE F == {W \in SUBSET S : W # {} => \E lo \in W, hi \in W : \A x \in W : f[lo] <= f[x] /\ f[x] <= f[hi]}
<1>1. {} \in F
  OBVIOUS
<1>2. ASSUME NEW W \in SUBSET S, NEW y \in S, W \in F, y \notin W PROVE W \cup {y} \in F
  <2> SUFFICES \E lo \in W \cup {y}, hi \in W \cup {y} : \A x \in W \cup {y} : f[lo] <= f[x] /\ f[x] <= f[hi]
    OBVIOUS
  <2>1. f[y] \in Int /\ \A x \in W : f[x] \in Int
    OBVIOUS
  <2>2. CASE W = {}
    BY <2>1, <2>2
  <2>3. CASE W # {}
    <3>1. PICK lo \in W, hi \in W : \A x \in W : f[lo] <= f[x] /\ f[x] <= f[hi]
      BY <1>2, <2>3
    <3>2. \E l \in W \cup {y} : \A x \in W \cup {y} : f[l] <= f[x]
      <4>1. CASE f[lo] <= f[y]
        BY <3>1, <4>1
      <4>2. CASE ~(f[lo] <= f[y])
        <5>1. \A x \in W : f[y] <= f[x]
          BY <2>1, <3>1, <4>2
        <5> QED
          BY <2>1, <5>1
      <4> QED
        BY <4>1, <4>2
    <3>3. \E h \in W \cup {y} : \A x \in W \cup {y} : f[x] <= f[h]
      <4>1. CASE f[y] <= f[hi]
        BY <3>1, <4>1
      <4>2. CASE ~(f[y] <= f[hi])
        <5>1. \A x \in W : f[x] <= f[y]
          BY <2>1, <3>1, <4>2
        <5> QED
          BY <2>1, <5>1
      <4> QED
        BY <4>1, <4>2
    <3> QED
      BY <3>2, <3>3
  <2> QED
    BY <2>2, <2>3
<1>3. S \in F
  <2> HIDE DEF F
  <2> QED
    BY <1>1, <1>2, SubsetInduction
<1> QED
  BY <1>3

LEMMA Distributes ==
  ASSUME NEW a \in Int, NEW n \in Int
  PROVE  a * (n + 1) = a * n + a /\ a * n \in Int /\ a * 0 = 0
  OBVIOUS

(* A mean lies among what it is the mean of. *)
LEMMA SumBetween ==
  ASSUME NEW S, IsFiniteSet(S), S # {}, NEW f, \A x \in S : f[x] \in Int
  PROVE  \E lo \in S, hi \in S : /\ f[lo] * Cardinality(S) <= SumOn(f, S)
                                 /\ f[hi] * Cardinality(S) >= SumOn(f, S)
<1>1. PICK lo \in S, hi \in S : \A x \in S : f[lo] <= f[x] /\ f[x] <= f[hi]
  BY LeastAndGreatest
<1> DEFINE a == f[lo]
           b == f[hi]
           F == {W \in SUBSET S : a * Cardinality(W) <= SumOn(f, W) /\ b * Cardinality(W) >= SumOn(f, W)}
<1>2. a \in Int /\ b \in Int /\ \A x \in S : a <= f[x] /\ f[x] <= b
  BY <1>1
<1> HIDE DEF a, b
<1>3. {} \in F
  <2>1. SumOn(f, {}) = 0 /\ Cardinality({}) = 0
    BY SumsStep, FS_EmptySet
  <2> QED
    BY <1>2, <2>1, Distributes
<1>4. ASSUME NEW W \in SUBSET S, NEW x \in S, W \in F, x \notin W PROVE W \cup {x} \in F
  <2> DEFINE n == Cardinality(W)
             s == SumOn(f, W)
  <2>1. IsFiniteSet(W)
    BY FS_Subset
  <2>2. n \in Nat /\ Cardinality(W \cup {x}) = n + 1
    BY <1>4, <2>1, FS_AddElement, FS_CardinalityType
  <2>3. s \in Int /\ SumOn(f, W \cup {x}) = s + f[x]
    BY <1>4, SumsStep
  <2>4. a * n <= s /\ b * n >= s
    BY <1>4
  <2>5. f[x] \in Int /\ a <= f[x] /\ f[x] <= b
    BY <1>2
  <2> HIDE DEF n, s, F
  <2>6. a * (n + 1) = a * n + a /\ b * (n + 1) = b * n + b /\ a * n \in Int /\ b * n \in Int
    BY <1>2, <2>2, Distributes
  <2>7. a * (n + 1) <= s + f[x] /\ b * (n + 1) >= s + f[x]
    <3> DEFINE an == a * n
               bn == b * n
               y == f[x]
    <3>1. /\ a * (n + 1) = an + a /\ b * (n + 1) = bn + b /\ an \in Int /\ bn \in Int /\ y \in Int
          /\ an <= s /\ bn >= s /\ a <= y /\ y <= b
      BY <2>4, <2>5, <2>6
    <3> HIDE DEF an, bn, y
    <3>2. an + a <= s + y /\ bn + b >= s + y
      BY <1>2, <2>3, <3>1
    <3> QED
      BY <3>1, <3>2 DEF y
  <2> QED
    BY <2>2, <2>3, <2>7 DEF F
<1>5. S \in F
  <2> HIDE DEF F
  <2> QED
    BY <1>3, <1>4, SubsetInduction
<1> QED
  BY <1>5 DEF a, b

-----------------------------------------------------------------------------
(* The archives' views *)
ViewSpec == ViewInit /\ [][ViewNext]_viewVars

ViewInv == /\ ideas \subseteq Ideas /\ IsFiniteSet(ideas)
           /\ findings \in Seq(Findings)

LEMMA ViewStarts ==
  ViewInit => ViewInv
BY FS_EmptySet DEF ViewInit, ViewInv

LEMMA ViewMoves ==
  ASSUME ViewInv, [ViewNext]_viewVars
  PROVE  ViewInv'
<1>1. CASE RecordIdea
  <2>1. PICK i \in Ideas \ ideas : ideas' = ideas \cup {i}
    BY <1>1 DEF RecordIdea
  <2>2. findings' = findings
    BY <1>1 DEF RecordIdea
  <2> QED
    BY <2>1, <2>2, FS_AddElement DEF ViewInv
<1>2. CASE RecordFinding
  <2>1. PICK f \in Findings : findings' = Append(findings, f)
    BY <1>2 DEF RecordFinding
  <2>2. ideas' = ideas
    BY <1>2 DEF RecordFinding
  <2>3. findings' \in Seq(Findings)
    BY <2>1 DEF ViewInv
  <2> QED
    BY <2>2, <2>3 DEF ViewInv
<1>3. CASE UNCHANGED viewVars
  BY <1>3 DEF viewVars, ViewInv
<1> QED
  BY <1>1, <1>2, <1>3 DEF ViewNext

LEMMA PairsAreFinite ==
  ASSUME NEW A, IsFiniteSet(A), NEW B, IsFiniteSet(B)
  PROVE  /\ IsFiniteSet([idea : A, finding : B])
         /\ Cardinality([idea : A, finding : B]) = Cardinality(A) * Cardinality(B)
<1> DEFINE f == [p \in A \X B |-> [idea |-> p[1], finding |-> p[2]]]
           T == [idea : A, finding : B]
<1>1. f \in [A \X B -> T]
  OBVIOUS
<1>2. ASSUME NEW r \in T PROVE \E p \in A \X B : f[p] = r
  <2>1. <<r.idea, r.finding>> \in A \X B
    OBVIOUS
  <2>2. f[<<r.idea, r.finding>>] = r
    OBVIOUS
  <2> QED
    BY <2>1, <2>2
<1>3. ASSUME NEW p \in A \X B, NEW q \in A \X B, f[p] = f[q] PROVE p = q
  <2>1. f[p].idea = p[1] /\ f[p].finding = p[2] /\ f[q].idea = q[1] /\ f[q].finding = q[2]
    OBVIOUS
  <2> QED
    BY <1>3, <2>1
<1> HIDE DEF f
<1>4. f \in Surjection(A \X B, T)
  BY <1>1, <1>2 DEF Surjection
<1>5. f \in Injection(A \X B, T)
  BY <1>1, <1>3 DEF Injection, IsInjective
<1>6. IsFiniteSet(A \X B) /\ Cardinality(A \X B) = Cardinality(A) * Cardinality(B)
  BY FS_Product
<1> HIDE DEF T
<1>7. IsFiniteSet(T) /\ Cardinality(T) = Cardinality(A \X B)
  BY <1>4, <1>5, <1>6, FS_Surjection
<1> QED
  BY <1>6, <1>7 DEF T

LEMMA FindingsAre ==
  ASSUME ViewInv
  PROVE  /\ Len(findings) \in Nat /\ DOMAIN findings = 1..Len(findings) /\ IsFiniteSet(DOMAIN findings)
         /\ \A n \in DOMAIN findings : findings[n] \in Findings
<1>1. Len(findings) \in Nat /\ DOMAIN findings = 1..Len(findings)
  BY DEF ViewInv
<1>2. IsFiniteSet(1..Len(findings))
  BY <1>1, FS_Interval
<1> QED
  BY <1>1, <1>2 DEF ViewInv

LEMMA ViewRows ==
  ASSUME ViewInv
  PROVE  /\ IsFiniteSet(Pair)
         /\ \A r \in Pair : r.idea \in ideas /\ r.finding \in DOMAIN findings
         /\ \A r \in Pair : /\ DOMAIN CostOf(r) = CostMetrics \cap DOMAIN findings[r.finding].metrics
                            /\ \A k \in DOMAIN CostOf(r) : CostOf(r)[k] \in Int
         /\ \A c : RowsIn(c) \subseteq Pair
<1>1. IsFiniteSet(Pair)
  BY FindingsAre, PairsAreFinite DEF Pair, ViewInv
<1>2. \A r \in Pair : r.idea \in ideas /\ r.finding \in DOMAIN findings
  BY DEF Pair
<1>3. ASSUME NEW r \in Pair
      PROVE  /\ DOMAIN CostOf(r) = CostMetrics \cap DOMAIN findings[r.finding].metrics
             /\ \A k \in DOMAIN CostOf(r) : CostOf(r)[k] \in Int
  <2> DEFINE m == findings[r.finding].metrics
  <2>1. CostOf(r) = [k \in CostMetrics \cap DOMAIN m |-> m[k]]
    BY DEF CostOf, Restrict
  <2>2. \A k \in DOMAIN m : m[k] \in Int
    BY <1>2, FindingsAre, ViewAssumption
  <2> HIDE DEF m
  <2>3. /\ DOMAIN CostOf(r) = CostMetrics \cap DOMAIN m
        /\ \A k \in DOMAIN CostOf(r) : CostOf(r)[k] \in Int
    BY <2>1, <2>2
  <2> QED
    BY <2>3 DEF m
<1>4. \A c : RowsIn(c) \subseteq Pair
  BY DEF RowsIn
<1> QED
  BY <1>1, <1>2, <1>3, <1>4

Summed(a) ==
  /\ a.count \in Nat \ {0} /\ a.passes \in Nat /\ a.passes <= a.count
  /\ \A k \in DOMAIN a.total : a.total[k] \in Int

LEMMA TotalsAre ==
  ASSUME ViewInv, NEW rs \in SUBSET Pair, NEW k
  PROVE  TotalOf(rs, k) \in Int
<1> DEFINE S == {r \in rs : k \in DOMAIN CostOf(r)}
           f == [r \in S |-> CostOf(r)[k]]
<1>1. \A r \in S : CostOf(r)[k] \in Int
  BY ViewRows
<1>2. \A r \in S : f[r] \in Int /\ f[r] = CostOf(r)[k]
  BY <1>1
<1>3. IsFiniteSet(S)
  BY ViewRows, FS_Subset
<1>4. f = [r \in S |-> f[r]]
  OBVIOUS
<1>5. TotalOf(rs, k) = SumOfAll(f)
  BY DEF TotalOf
<1> HIDE DEF S, f
<1>6. SumOn(f, S) \in Int
  BY <1>2, <1>3, SumsStep
<1> QED
  BY <1>4, <1>5, <1>6 DEF SumOn

LEMMA SumUpCounts ==
  ASSUME NEW rs
  PROVE  SumUp(rs).count = Cardinality(rs) /\ SumUp(rs).passes = Cardinality(PassedRows(rs))
BY DEF SumUp

LEMMA SumsUp ==
  ASSUME ViewInv, NEW rs \in SUBSET Pair, rs # {}
  PROVE  Summed(SumUp(rs)) /\ DOMAIN SumUp(rs).total = UNION {DOMAIN CostOf(r) : r \in rs}
<1> DEFINE K == UNION {DOMAIN CostOf(r) : r \in rs}
           t == [k \in K |-> TotalOf(rs, k)]
           i == Cardinality({r.idea : r \in rs})
           n == Cardinality(rs)
           p == Cardinality(PassedRows(rs))
<1>1. IsFiniteSet(rs) /\ PassedRows(rs) \in SUBSET rs
  BY ViewRows, FS_Subset DEF PassedRows
<1>2. n \in Nat \ {0} /\ p \in Nat /\ p <= n
  BY <1>1, FS_Subset, FS_CardinalityType, FS_EmptySet
<1>3. \A k \in K : TotalOf(rs, k) \in Int
  BY TotalsAre
<1>4. SumUp(rs) = [ideas |-> i, count |-> n, passes |-> p, total |-> t]
  BY DEF SumUp
<1> HIDE DEF K, i, n, p
<1>5. DOMAIN t = K /\ \A k \in K : t[k] \in Int
  BY <1>3
<1> HIDE DEF t
<1>6. SumUp(rs).count = n /\ SumUp(rs).passes = p /\ SumUp(rs).total = t
  BY <1>4
<1> QED
  BY <1>2, <1>5, <1>6 DEF Summed, K

(* Rates and means are fractions, compared across *)
LEMMA Across ==
  ASSUME NEW a \in Int, NEW b \in Int, NEW c \in Nat, a <= b
  PROVE  a * c <= b * c
<1> DEFINE d == b - a
<1>1. d \in Nat /\ b = a + d
  OBVIOUS
<1> HIDE DEF d
<1>2. b * c = a * c + d * c
  BY <1>1
<1>3. d * c \in Nat /\ a * c \in Int
  BY <1>1
<1> QED
  BY <1>2, <1>3

LEMMA Cancels ==
  ASSUME NEW a \in Int, NEW b \in Int, NEW c \in Nat \ {0}, a * c <= b * c
  PROVE  a <= b
<1> SUFFICES ASSUME b < a PROVE FALSE
  OBVIOUS
<1> DEFINE d == a - b
<1>1. d \in Nat \ {0} /\ a = b + d
  OBVIOUS
<1> HIDE DEF d
<1>2. a * c = b * c + d * c
  BY <1>1
<1>3. d * c \in Nat /\ d * c >= c /\ b * c \in Int
  <2>1. 1 * c <= d * c
    BY <1>1, Across
  <2> QED
    BY <1>1, <2>1
<1> QED
  BY <1>2, <1>3

LEMMA SwapsAcross ==
  ASSUME NEW a \in Int, NEW b \in Int, NEW c \in Int
  PROVE  (a * b) * c = (a * c) * b
  OBVIOUS

LEMMA FractionsChain ==
  ASSUME NEW p1 \in Int, NEW p2 \in Int, NEW p3 \in Int,
         NEW q1 \in Nat \ {0}, NEW q2 \in Nat \ {0}, NEW q3 \in Nat \ {0},
         p1 * q2 <= p2 * q1, p2 * q3 <= p3 * q2
  PROVE  p1 * q3 <= p3 * q1
<1>1. (p1 * q2) * q3 <= (p2 * q1) * q3
  <2>1. p1 * q2 \in Int /\ p2 * q1 \in Int
    OBVIOUS
  <2> QED
    BY <2>1, Across
<1>2. (p2 * q3) * q1 <= (p3 * q2) * q1
  <2>1. p2 * q3 \in Int /\ p3 * q2 \in Int
    OBVIOUS
  <2> QED
    BY <2>1, Across
<1>3. /\ (p1 * q2) * q3 = (p1 * q3) * q2 /\ (p2 * q1) * q3 = (p2 * q3) * q1
      /\ (p3 * q2) * q1 = (p3 * q1) * q2
  BY SwapsAcross
<1> DEFINE a == p1 * q3
           b == p3 * q1
           x == (p2 * q3) * q1
<1>4. a \in Int /\ b \in Int /\ x \in Int /\ a * q2 \in Int /\ b * q2 \in Int
  OBVIOUS
<1>5. a * q2 <= x /\ x <= b * q2
  BY <1>1, <1>2, <1>3
<1> HIDE DEF a, b, x
<1>6. a * q2 <= b * q2
  BY <1>4, <1>5
<1>7. a <= b
  BY <1>4, <1>6, Cancels
<1> QED
  BY <1>7 DEF a, b

LEMMA RatesChain ==
  ASSUME NEW a, NEW b, NEW c, Summed(a), Summed(b), Summed(c), RateAtLeast(a, b), RateAtLeast(b, c)
  PROVE  RateAtLeast(a, c)
<1>1. /\ a.passes \in Int /\ b.passes \in Int /\ c.passes \in Int
      /\ a.count \in Nat \ {0} /\ b.count \in Nat \ {0} /\ c.count \in Nat \ {0}
  BY DEF Summed
<1>2. c.passes * b.count <= b.passes * c.count /\ b.passes * a.count <= a.passes * b.count
  <2>1. /\ c.passes * b.count \in Int /\ b.passes * c.count \in Int
        /\ b.passes * a.count \in Int /\ a.passes * b.count \in Int
    BY <1>1
  <2> QED
    BY <2>1 DEF RateAtLeast
<1>3. c.passes * a.count <= a.passes * c.count
  BY <1>1, <1>2, FractionsChain
<1>4. c.passes * a.count \in Int /\ a.passes * c.count \in Int
  BY <1>1
<1> QED
  BY <1>3, <1>4 DEF RateAtLeast

LEMMA CostsChain ==
  ASSUME NEW a, NEW b, NEW c, Summed(a), Summed(b), Summed(c), NEW k,
         k \in DOMAIN a.total, k \in DOMAIN b.total, k \in DOMAIN c.total,
         ~Cheaper(b, a, k), ~Cheaper(c, b, k)
  PROVE  ~Cheaper(c, a, k)
<1>1. /\ a.total[k] \in Int /\ b.total[k] \in Int /\ c.total[k] \in Int
      /\ a.count \in Nat \ {0} /\ b.count \in Nat \ {0} /\ c.count \in Nat \ {0}
  BY DEF Summed
<1>2. a.total[k] * b.count <= b.total[k] * a.count /\ b.total[k] * c.count <= c.total[k] * b.count
  <2>1. /\ a.total[k] * b.count \in Int /\ b.total[k] * a.count \in Int
        /\ b.total[k] * c.count \in Int /\ c.total[k] * b.count \in Int
    BY <1>1
  <2> QED
    BY <2>1 DEF Cheaper
<1>3. a.total[k] * c.count <= c.total[k] * a.count
  BY <1>1, <1>2, FractionsChain
<1>4. a.total[k] * c.count \in Int /\ c.total[k] * a.count \in Int
  BY <1>1
<1> QED
  BY <1>3, <1>4 DEF Cheaper

LEMMA DominanceChains ==
  ASSUME NEW a, NEW b, NEW c, Summed(a), Summed(b), Summed(c),
         DOMAIN a.total = DOMAIN b.total, DOMAIN b.total = DOMAIN c.total,
         Dominates(a, b), Dominates(b, c)
  PROVE  Dominates(a, c)
<1>1. Shared(a, b) = DOMAIN a.total /\ Shared(b, c) = DOMAIN a.total /\ Shared(a, c) = DOMAIN a.total
  BY DEF Shared
<1>2. /\ RateAtLeast(a, b) /\ RateAtLeast(b, c)
      /\ \A k \in DOMAIN a.total : ~Cheaper(b, a, k) /\ ~Cheaper(c, b, k)
  BY <1>1 DEF Dominates, NotWorse
<1>3. RateAtLeast(a, c)
  BY <1>2, RatesChain
<1>4. \A k \in DOMAIN a.total : ~Cheaper(c, a, k)
  BY <1>2, CostsChain
<1>5. ~RateAtLeast(b, a) \/ \E k \in DOMAIN a.total : Cheaper(a, b, k)
  BY <1>1 DEF Dominates
<1>6. CASE ~RateAtLeast(b, a)
  <2>1. RateAtLeast(c, a) => RateAtLeast(b, a)
    BY <1>2, RatesChain
  <2> QED
    BY <1>1, <1>3, <1>4, <1>6, <2>1 DEF Dominates, NotWorse
<1>7. ASSUME NEW k \in DOMAIN a.total, Cheaper(a, b, k) PROVE Dominates(a, c)
  <2>1. ~Cheaper(a, c, k) => ~Cheaper(a, b, k)
    BY <1>2, CostsChain
  <2>2. Cheaper(a, c, k)
    BY <1>7, <2>1
  <2> QED
    BY <1>1, <1>3, <1>4, <2>2 DEF Dominates, NotWorse
<1> QED
  BY <1>5, <1>6, <1>7

LEMMA DominanceIsOneWay ==
  ASSUME NEW a, NEW b, Dominates(a, b)
  PROVE  ~Dominates(b, a)
<1>1. Shared(a, b) = Shared(b, a)
  BY DEF Shared
<1> QED
  BY <1>1 DEF Dominates, NotWorse

LEMMA FrontierFair ==
  ASSUME ViewInv
  PROVE  FrontierIsFair
<1> SUFFICES ASSUME NEW c
             PROVE  LET all == ByArtifact(c) IN
                    /\ \A x, y \in DOMAIN all : y \in DominatorsOf(c, x) => x \notin DominatorsOf(c, y)
                    /\ (\A x, y \in DOMAIN all : DOMAIN all[x].total = DOMAIN all[y].total) =>
                         \A x \in DOMAIN all \ Frontier(c) : Frontier(c) \cap DominatorsOf(c, x) # {}
  BY DEF FrontierIsFair
<1> DEFINE all == ByArtifact(c)
           X == DOMAIN all
<1>1. \A x \in X : \A y : y \in DominatorsOf(c, x) <=> y \in X \ {x} /\ Dominates(all[y], all[x])
  BY DEF DominatorsOf
<1>2. \A x, y \in X : y \in DominatorsOf(c, x) => x \notin DominatorsOf(c, y)
  BY <1>1, DominanceIsOneWay
<1>3. IsFiniteSet(X) /\ \A x \in X : Summed(all[x])
  <2>1. X = {r.idea.artifact : r \in RowsIn(c)}
    BY DEF ByArtifact
  <2> DEFINE f == [r \in RowsIn(c) |-> r.idea.artifact]
  <2>2. f \in Surjection(RowsIn(c), X)
    BY <2>1 DEF Surjection
  <2>3. IsFiniteSet(RowsIn(c))
    BY ViewRows, FS_Subset
  <2> HIDE DEF f
  <2>4. IsFiniteSet(X)
    BY <2>2, <2>3, FS_Surjection
  <2>5. ASSUME NEW x \in X PROVE Summed(all[x])
    <3> DEFINE rs == {r \in RowsIn(c) : r.idea.artifact = x}
    <3>1. rs # {} /\ rs \in SUBSET Pair
      BY <2>1, ViewRows
    <3>2. all[x] = SumUp(rs)
      BY <2>1 DEF ByArtifact
    <3> HIDE DEF rs, all, X
    <3> QED
      BY <3>1, <3>2, SumsUp
  <2> QED
    BY <2>4, <2>5
<1> HIDE DEF all, X
<1>4. ASSUME \A x, y \in X : DOMAIN all[x].total = DOMAIN all[y].total, NEW x \in X, DominatorsOf(c, x) # {}
      PROVE  \E y \in X : DominatorsOf(c, y) = {} /\ y \in DominatorsOf(c, x)
  <2>1. \A u, v, w \in X : v \in DominatorsOf(c, u) /\ w \in DominatorsOf(c, v) => w \in DominatorsOf(c, u)
    <3> SUFFICES ASSUME NEW u \in X, NEW v \in X, NEW w \in X, v \in DominatorsOf(c, u), w \in DominatorsOf(c, v)
                 PROVE  w \in DominatorsOf(c, u)
      OBVIOUS
    <3>1. Dominates(all[w], all[v]) /\ Dominates(all[v], all[u])
      BY <1>1
    <3>2. Dominates(all[w], all[u])
      <4> DEFINE a == all[w]
                 b == all[v]
                 d == all[u]
      <4>1. Summed(a) /\ Summed(b) /\ Summed(d) /\ DOMAIN a.total = DOMAIN b.total /\ DOMAIN b.total = DOMAIN d.total
        BY <1>3, <1>4
      <4>2. Dominates(a, b) /\ Dominates(b, d)
        BY <3>1
      <4> HIDE DEF a, b, d
      <4>3. Dominates(a, d)
        BY <4>1, <4>2, DominanceChains
      <4> QED
        BY <4>3 DEF a, d
    <3>3. w # u
      BY <1>2
    <3> QED
      BY <1>1, <3>2, <3>3
  <2> DEFINE F == {DominatorsOf(c, y) : y \in DominatorsOf(c, x)}
  <2>2. \A u \in X : DominatorsOf(c, u) \subseteq X /\ u \notin DominatorsOf(c, u)
    BY <1>1
  <2>3. F # {} /\ \A D \in F : IsFiniteSet(D)
    BY <1>3, <1>4, <2>2, FS_Subset
  <2>4. PICK D \in F : \A E \in F : E \subseteq D => E = D
    <3> HIDE DEF F
    <3> QED
      BY <2>3, MinimalSet
  <2>5. PICK y \in DominatorsOf(c, x) : D = DominatorsOf(c, y)
    BY <2>4
  <2>6. y \in X
    BY <2>2, <2>5
  <2>7. ASSUME NEW z \in DominatorsOf(c, y) PROVE FALSE
    <3>1. z \in X /\ z \in DominatorsOf(c, x)
      BY <2>1, <2>2, <2>5, <2>6, <2>7
    <3>2. DominatorsOf(c, z) \subseteq D
      BY <2>1, <2>2, <2>5, <2>6, <3>1
    <3>3. DominatorsOf(c, z) = D
      BY <2>4, <3>1, <3>2
    <3> QED
      BY <2>2, <2>5, <2>7, <3>1, <3>3
  <2> QED
    BY <2>5, <2>6, <2>7
<1>5. \A x \in X : x \in Frontier(c) <=> DominatorsOf(c, x) = {}
  BY DEF Frontier, all, X
<1>6. (\A x, y \in X : DOMAIN all[x].total = DOMAIN all[y].total) =>
        \A x \in X \ Frontier(c) : Frontier(c) \cap DominatorsOf(c, x) # {}
  BY <1>4, <1>5
<1> QED
  BY <1>2, <1>6 DEF all, X

(* A row is in one slice at most, and in the one it declares. *)
LEMMA SlicesAre ==
  ASSUME NEW r, NEW d
  PROVE  /\ SliceOf(r, d) = {} \/ \E v : SliceOf(r, d) = {v}
         /\ d \in DOMAIN r.idea.slices => SliceOf(r, d) = {r.idea.slices[d]}
<1>1. CASE d \in DOMAIN r.idea.slices
  BY <1>1 DEF SliceOf
<1>2. CASE d \notin DOMAIN r.idea.slices
  <2> DEFINE told == findings[r.finding].slices
  <2>1. SliceOf(r, d) = {told[e] : e \in {d} \cap DOMAIN told}
    BY <1>2 DEF SliceOf, AttestedSlice
  <2> HIDE DEF told
  <2>2. CASE d \in DOMAIN told
    <3>1. {d} \cap DOMAIN told = {d}
      BY <2>2
    <3>2. SliceOf(r, d) = {told[d]}
      BY <2>1, <3>1
    <3> QED
      BY <1>2, <3>2
  <2>3. CASE d \notin DOMAIN told
    BY <1>2, <2>1, <2>3
  <2> QED
    BY <2>2, <2>3
<1> QED
  BY <1>1, <1>2

LEMMA RatesAreOwn ==
  ASSUME ViewInv, NEW c, NEW x \in DOMAIN ByArtifact(c)
  PROVE  LET own == {n \in DOMAIN findings : findings[n].artifact = x}
             good == {n \in own : findings[n].outcome = "pass"}
         IN ByArtifact(c)[x].passes * Cardinality(own) = Cardinality(good) * ByArtifact(c)[x].count
<1> DEFINE own == {n \in DOMAIN findings : findings[n].artifact = x}
           good == {n \in own : findings[n].outcome = "pass"}
           I == {i \in IdeasOf(c) : i.artifact = x}
           rs == {r \in RowsIn(c) : r.idea.artifact = x}
<1>1. rs = [idea : I, finding : own]
  <2>1. \A r \in rs : r \in Pair /\ r.idea \in I /\ r.finding \in own
    BY DEF RowsIn, Pair
  <2>2. \A r \in Pair : r \in [idea : {r.idea}, finding : {r.finding}]
    BY DEF Pair
  <2>3. rs \subseteq [idea : I, finding : own]
    BY <2>1, <2>2
  <2>4. [idea : I, finding : own] \subseteq rs
    BY DEF RowsIn, Pair, IdeasOf
  <2> QED
    BY <2>3, <2>4
<1>2. PassedRows(rs) = [idea : I, finding : good]
  <2> HIDE DEF rs, I
  <2>1. PassedRows(rs) = {r \in [idea : I, finding : own] : findings[r.finding].outcome = "pass"}
    BY <1>1 DEF PassedRows
  <2> QED
    BY <2>1
<1>3. IsFiniteSet(I) /\ IsFiniteSet(own) /\ IsFiniteSet(good)
  <2>1. I \in SUBSET ideas /\ own \in SUBSET DOMAIN findings /\ good \in SUBSET DOMAIN findings
    BY DEF IdeasOf
  <2> QED
    BY <2>1, FindingsAre, FS_Subset DEF ViewInv
<1>4. ByArtifact(c)[x] = SumUp(rs)
  BY DEF ByArtifact
<1> HIDE DEF rs, I, own, good
<1>5. ByArtifact(c)[x].passes = Cardinality(PassedRows(rs)) /\ ByArtifact(c)[x].count = Cardinality(rs)
  BY <1>4 DEF SumUp
<1>6. /\ Cardinality(rs) = Cardinality(I) * Cardinality(own)
      /\ Cardinality(PassedRows(rs)) = Cardinality(I) * Cardinality(good)
  BY <1>1, <1>2, <1>3, PairsAreFinite
<1>7. Cardinality(I) \in Int /\ Cardinality(own) \in Int /\ Cardinality(good) \in Int
  BY <1>3, FS_CardinalityType
<1>8. (Cardinality(I) * Cardinality(good)) * Cardinality(own) = Cardinality(good) * (Cardinality(I) * Cardinality(own))
  BY <1>7
<1>9. ByArtifact(c)[x].passes * Cardinality(own) = Cardinality(good) * ByArtifact(c)[x].count
  BY <1>5, <1>6, <1>8
<1> QED
  BY <1>9 DEF own, good

LEMMA SlicesAddUp ==
  ASSUME ViewInv, NEW c, NEW d
  PROVE  LET told == SummarizeBySlice(c, d) IN
         /\ SumOfAll([v \in DOMAIN told |-> told[v].count]) = Cardinality({r \in RowsIn(c) : SliceOf(r, d) # {}})
         /\ \A v \in DOMAIN told : told[v].passes <= told[v].count
<1> DEFINE told == SummarizeBySlice(c, d)
           R == RowsIn(c)
           V == UNION {SliceOf(r, d) : r \in R}
           In(v) == {r \in R : SliceOf(r, d) = {v}}
           q == [r \in R |-> SliceOf(r, d)]
           f == [v \in V |-> Cardinality(In(v))]
<1>1. R \in SUBSET Pair /\ IsFiniteSet(R)
  BY ViewRows, FS_Subset
<1>2. DOMAIN told = V /\ \A v \in V : told[v] = SumUp(In(v))
  BY DEF SummarizeBySlice
<1>3. \A v \in V : In(v) \in SUBSET R /\ In(v) # {}
  <2> SUFFICES ASSUME NEW v \in V PROVE In(v) # {}
    OBVIOUS
  <2>1. PICK r \in R : v \in SliceOf(r, d)
    OBVIOUS
  <2>2. SliceOf(r, d) = {v}
    BY <2>1, SlicesAre
  <2> QED
    BY <2>2
<1>4. IsFiniteSet(V)
  <2> DEFINE g == [r \in R |-> SliceOf(r, d)]
             T == {SliceOf(r, d) : r \in R}
  <2>1. g \in Surjection(R, T)
    BY DEF Surjection
  <2> HIDE DEF g
  <2>2. IsFiniteSet(T)
    <3> HIDE DEF T
    <3> QED
      BY <1>1, <2>1, FS_Surjection
  <2>3. ASSUME NEW r PROVE IsFiniteSet(SliceOf(r, d))
    <3>1. CASE SliceOf(r, d) = {}
      BY <3>1, FS_EmptySet
    <3>2. CASE \E v : SliceOf(r, d) = {v}
      BY <3>2, FS_Singleton
    <3> QED
      BY <3>1, <3>2, SlicesAre
  <2>5. \A S \in T : IsFiniteSet(S)
    BY <2>3
  <2>4. IsFiniteSet(UNION T)
    <3> HIDE DEF T
    <3> QED
      BY <2>2, <2>5, FS_UNION
  <2> QED
    BY <2>4
<1>5. \A v \in V : f[v] = Cardinality(ShareOf(v, R, q))
  <2>1. \A v \in V : f[v] = Cardinality(In(v))
    OBVIOUS
  <2>2. \A v : In(v) = ShareOf(v, R, q)
    BY DEF ShareOf
  <2> HIDE DEF f, In, q, V
  <2> QED
    BY <2>1, <2>2
<1>6. SharedOut(V, R, q) = {r \in R : SliceOf(r, d) # {}}
  <2>1. ASSUME NEW r \in R PROVE (\E v \in V : q[r] = {v}) <=> SliceOf(r, d) # {}
    <3>1. q[r] = SliceOf(r, d) /\ SliceOf(r, d) \subseteq V
      OBVIOUS
    <3> HIDE DEF q, V
    <3> QED
      BY <3>1, SlicesAre
  <2> HIDE DEF q, V
  <2> QED
    BY <2>1 DEF SharedOut
<1>7. [v \in DOMAIN told |-> told[v].count] = f
  <2>1. \A v \in V : told[v].count = Cardinality(In(v))
    <3> SUFFICES ASSUME NEW v \in V PROVE told[v].count = Cardinality(In(v))
      OBVIOUS
    <3> HIDE DEF told, In, V
    <3> QED
      BY <1>2, SumUpCounts
  <2> HIDE DEF told, In
  <2> QED
    BY <1>2, <2>1
<1>8. f = [v \in V |-> f[v]]
  OBVIOUS
<1>9. \A v \in V : told[v].passes <= told[v].count
  <2> SUFFICES ASSUME NEW v \in V PROVE told[v].passes <= told[v].count
    OBVIOUS
  <2>1. In(v) \in SUBSET Pair /\ In(v) # {}
    BY <1>1, <1>3
  <2> HIDE DEF In, told, V
  <2> QED
    BY <1>2, <2>1, SumsUp DEF Summed
<1> HIDE DEF told, R, V, In, q, f
<1>10. SumOn(f, V) = Cardinality(SharedOut(V, R, q))
  BY <1>1, <1>4, <1>5, SharesAddUp
<1>11. SumOfAll([v \in DOMAIN told |-> told[v].count]) = Cardinality({r \in R : SliceOf(r, d) # {}})
  BY <1>6, <1>7, <1>8, <1>10 DEF SumOn
<1> QED
  BY <1>2, <1>9, <1>11 DEF told, R

LEMMA RowsAddUpAlways ==
  ASSUME ViewInv
  PROVE  RowsAddUp
<1> SUFFICES ASSUME NEW c \in {i.campaign : i \in ideas}
             PROVE  /\ \A x \in DOMAIN ByArtifact(c) :
                         LET own == {n \in DOMAIN findings : findings[n].artifact = x}
                             good == {n \in own : findings[n].outcome = "pass"}
                         IN ByArtifact(c)[x].passes * Cardinality(own) = Cardinality(good) * ByArtifact(c)[x].count
                    /\ \A d \in Dimensions :
                         LET told == SummarizeBySlice(c, d) IN
                         /\ \A r \in RowsIn(c) : d \in DOMAIN r.idea.slices => SliceOf(r, d) = {r.idea.slices[d]}
                         /\ SumOfAll([v \in DOMAIN told |-> told[v].count])
                              = Cardinality({r \in RowsIn(c) : SliceOf(r, d) # {}})
                         /\ \A v \in DOMAIN told : told[v].passes <= told[v].count
  BY DEF RowsAddUp
<1>1. \A r, d : d \in DOMAIN r.idea.slices => SliceOf(r, d) = {r.idea.slices[d]}
  BY SlicesAre
<1> QED
  BY <1>1, RatesAreOwn, SlicesAddUp

LEMMA DeltasAre ==
  ASSUME ViewInv, NEW i
  PROVE  \A x : x \in Deltas(i) <=>
           \E m \in MetricsOf(i.artifact), p \in MetricsOf(i.parent) : p[1] = m[1] /\ x = <<m[1], m[2] - p[2]>>
<1> DEFINE M == MetricsOf(i.artifact)
           P == MetricsOf(i.parent)
<1>1. Deltas(i) = UNION {{<<m[1], m[2] - p[2]>> : p \in {q \in P : q[1] = m[1]}} : m \in M}
  BY DEF Deltas
<1> HIDE DEF M, P
<1>2. \A x : x \in Deltas(i) <=> \E m \in M, p \in P : p[1] = m[1] /\ x = <<m[1], m[2] - p[2]>>
  BY <1>1
<1> QED
  BY <1>2 DEF M, P

LEMMA MetricsAreNumbers ==
  ASSUME ViewInv, NEW a
  PROVE  \A m \in MetricsOf(a) : m[2] \in Int
<1>1. ASSUME NEW f \in LatestFinding(a) PROVE \A k \in DOMAIN f.metrics : f.metrics[k] \in Int
  <2>1. f \in Findings
    BY FindingsAre DEF LatestFinding
  <2> QED
    BY <2>1, ViewAssumption
<1> SUFFICES ASSUME NEW m \in MetricsOf(a) PROVE m[2] \in Int
  OBVIOUS
<1>2. PICK f \in LatestFinding(a) : \E k \in DOMAIN f.metrics : m = <<k, f.metrics[k]>>
  BY DEF MetricsOf
<1> QED
  BY <1>1, <1>2

LEMMA DeltasTurn ==
  ASSUME ViewInv, NEW i, NEW j, i.artifact = j.parent, j.artifact = i.parent, NEW x \in Deltas(i)
  PROVE  /\ x[2] \in Int
         /\ \E y \in Deltas(j) : y[1] = x[1] /\ y[2] \in Int /\ y[2] = 0 - x[2]
<1>1. PICK m \in MetricsOf(i.artifact), p \in MetricsOf(i.parent) : p[1] = m[1] /\ x = <<m[1], m[2] - p[2]>>
  BY DeltasAre
<1>2. m[2] \in Int /\ p[2] \in Int
  BY MetricsAreNumbers
<1> DEFINE y == <<p[1], p[2] - m[2]>>
<1>3. y \in Deltas(j)
  <2>1. p \in MetricsOf(j.artifact) /\ m \in MetricsOf(j.parent) /\ m[1] = p[1]
    BY <1>1
  <2> QED
    BY <2>1, DeltasAre
<1>4. x[1] = m[1] /\ x[2] = m[2] - p[2] /\ y[1] = p[1] /\ y[2] = p[2] - m[2]
  BY <1>1
<1> HIDE DEF y
<1>5. x[2] \in Int /\ y[1] = x[1] /\ y[2] \in Int /\ y[2] = 0 - x[2]
  BY <1>1, <1>2, <1>4
<1> QED
  BY <1>3, <1>5

LEMMA GainsAreLosses ==
  ASSUME ViewInv, NEW i, NEW j, i.artifact = j.parent, j.artifact = i.parent
  PROVE  Gains(i) = Regressions(j)
<1>1. ASSUME NEW k \in Gains(i) PROVE k \in Regressions(j)
  <2>1. PICK x \in Deltas(i) : k = x[1] /\ x[2] # 0 /\ GoodDelta(x[1], x[2])
    BY DEF Gains
  <2>2. PICK y \in Deltas(j) : x[2] \in Int /\ y[1] = x[1] /\ y[2] \in Int /\ y[2] = 0 - x[2]
    BY DeltasTurn
  <2>3. y[2] # 0 /\ ~GoodDelta(y[1], y[2])
    BY <2>1, <2>2 DEF GoodDelta
  <2> QED
    BY <2>1, <2>2, <2>3 DEF Regressions
<1>2. ASSUME NEW k \in Regressions(j) PROVE k \in Gains(i)
  <2>1. PICK y \in Deltas(j) : k = y[1] /\ y[2] # 0 /\ ~GoodDelta(y[1], y[2])
    BY DEF Regressions
  <2>2. PICK x \in Deltas(i) : y[2] \in Int /\ x[1] = y[1] /\ x[2] \in Int /\ x[2] = 0 - y[2]
    BY DeltasTurn
  <2>3. x[2] # 0 /\ GoodDelta(x[1], x[2])
    BY <2>1, <2>2 DEF GoodDelta
  <2> QED
    BY <2>1, <2>2, <2>3 DEF Gains
<1> QED
  BY <1>1, <1>2

LEMMA ComparedAlways ==
  ASSUME ViewInv
  PROVE  ComparedFairly
<1>1. \A i \in ideas, j \in ideas :
        i.artifact = j.parent /\ j.artifact = i.parent => Gains(i) = Regressions(j) /\ Gains(j) = Regressions(i)
  BY GainsAreLosses
<1>2. ASSUME NEW i \in ideas, NEW x \in Deltas(i), x[1] \in CostMetrics, x[2] > 0 PROVE x[1] \in Regressions(i)
  <2>1. PICK m \in MetricsOf(i.artifact), p \in MetricsOf(i.parent) : p[1] = m[1] /\ x = <<m[1], m[2] - p[2]>>
    BY DeltasAre
  <2>2. m[2] \in Int /\ p[2] \in Int
    BY MetricsAreNumbers
  <2>3. x[2] \in Int
    BY <2>1, <2>2
  <2>4. x[2] # 0 /\ ~GoodDelta(x[1], x[2])
    BY <1>2, <2>3 DEF GoodDelta
  <2> QED
    BY <2>4 DEF Regressions
<1>3. ASSUME NEW k \in DOMAIN SummarizeClasses, SummarizeClasses[k].fit > 0
      PROVE  \E r \in FitRows(k), s \in FitRows(k) :
               /\ findings[r.finding].metrics.fitness * SummarizeClasses[k].fit <= SummarizeClasses[k].fitness
               /\ findings[s.finding].metrics.fitness * SummarizeClasses[k].fit >= SummarizeClasses[k].fitness
  <2> DEFINE S == FitRows(k)
             f == [r \in S |-> findings[r.finding].metrics.fitness]
             n == Cardinality(S)
  <2>1. SummarizeClasses[k].fit = n /\ SummarizeClasses[k].fitness = SumOfAll(f)
    BY DEF SummarizeClasses
  <2>2. S \in SUBSET Pair /\ IsFiniteSet(S)
    <3>1. S \in SUBSET Pair
      BY ViewRows DEF FitRows, ClassRows
    <3> QED
      BY <3>1, ViewRows, FS_Subset
  <2>3. \A r \in S : f[r] \in Int
    <3>1. \A r \in S : "fitness" \in DOMAIN findings[r.finding].metrics /\ r.finding \in DOMAIN findings
      BY <2>2, ViewRows DEF FitRows
    <3>2. \A r \in S : findings[r.finding].metrics["fitness"] \in Int
      BY <3>1, FindingsAre, ViewAssumption
    <3> HIDE DEF S
    <3> QED
      BY <3>2
  <2>4. S # {}
    <3>1. CASE S = {}
      <4>1. n = 0
        BY <3>1, FS_EmptySet
      <4> QED
        BY <1>3, <2>1, <4>1
    <3> QED
      BY <3>1
  <2>5. f = [r \in S |-> f[r]] /\ \A r \in S : f[r] = findings[r.finding].metrics.fitness
    OBVIOUS
  <2> HIDE DEF S, f
  <2>6. PICK lo \in S, hi \in S : f[lo] * Cardinality(S) <= SumOn(f, S) /\ f[hi] * Cardinality(S) >= SumOn(f, S)
    BY <2>2, <2>3, <2>4, SumBetween
  <2>7. SumOn(f, S) = SumOfAll(f)
    BY <2>5 DEF SumOn
  <2> QED
    BY <2>1, <2>5, <2>6, <2>7 DEF S
<1> QED
  BY <1>1, <1>2, <1>3 DEF ComparedFairly

(* Frontiers are fair, rows add up to what was attested, and a comparison   *)
(* reads the same from both ends, whatever is proposed and attested        *)
(* (selection/pareto_archive.py, productivity.py, mutation_archive.py, and *)
(* the service's compare_with_parent).                                     *)
THEOREM ViewsCorrect == ViewSpec => []ViewsAreFair
<1>1. ViewInv => ViewsAreFair
  BY FrontierFair, RowsAddUpAlways, ComparedAlways DEF ViewsAreFair
<1> QED
  BY <1>1, ViewStarts, ViewMoves, PTL DEF ViewSpec

-----------------------------------------------------------------------------
(* The archives' stored tables *)
TableStep ==
  \/ ViewNext /\ UNCHANGED tableVars
  \/ Rebuild
  \/ SpoilRow
TablesSpec == ViewInit /\ TablesInit /\ [][TableStep]_<<viewVars, tableVars>>

(* What a rebuild lists, and the row it writes of each *)
Listed == {r \in AllRows : archive = "mutation" => r.idea.class # NoClass}
TableRow(r) ==
  IF archive = "productivity" THEN ProductivityRow(r)
  ELSE IF archive = "pareto" THEN ParetoRow(r) ELSE MutationRow(r)

LEMMA KeysAreOwn ==
  ASSUME ViewInv, NEW r \in AllRows, NEW s \in AllRows, KeyOf(r) = KeyOf(s)
  PROVE  r = s
<1>1. r \in Pair /\ s \in Pair
  BY DEF AllRows
<1>2. r.idea.id = s.idea.id /\ r.finding = s.finding
  BY DEF KeyOf
<1>3. r.idea \in Ideas /\ s.idea \in Ideas
  BY <1>1 DEF Pair, ViewInv
<1>4. r.idea = s.idea
  BY <1>2, <1>3, ViewAssumption
<1> QED
  BY <1>1, <1>2, <1>4 DEF Pair

LEMMA TableOfRows ==
  ASSUME ViewInv, NEW f, DOMAIN f \subseteq AllRows
  PROVE  /\ DOMAIN TableOf(f) = {KeyOf(r) : r \in DOMAIN f}
         /\ \A r \in DOMAIN f : TableOf(f)[KeyOf(r)] = f[r]
<1>1. ASSUME NEW r \in DOMAIN f
      PROVE  (CHOOSE s \in DOMAIN f : KeyOf(s) = KeyOf(r)) = r
  <2> DEFINE t == CHOOSE s \in DOMAIN f : KeyOf(s) = KeyOf(r)
  <2>1. t \in DOMAIN f /\ KeyOf(t) = KeyOf(r)
    OBVIOUS
  <2> HIDE DEF t
  <2>2. t = r
    BY <2>1, KeysAreOwn
  <2> QED
    BY <2>2 DEF t
<1> QED
  BY <1>1 DEF TableOf

LEMMA ExpectedIs ==
  ASSUME ViewInv, archive \in Archives
  PROVE  /\ DOMAIN Expected = {KeyOf(r) : r \in Listed}
         /\ \A r \in Listed : Expected[KeyOf(r)] = TableRow(r)
<1>1. CASE archive = "productivity"
  <2> DEFINE f == [r \in AllRows |-> ProductivityRow(r)]
  <2>1. Expected = TableOf(f)
    BY <1>1 DEF Expected, ProjectProductivity
  <2>2. Listed = AllRows /\ \A r : TableRow(r) = ProductivityRow(r)
    BY <1>1 DEF Listed, TableRow
  <2>3. DOMAIN f = AllRows /\ \A r \in AllRows : f[r] = ProductivityRow(r)
    OBVIOUS
  <2> HIDE DEF f
  <2> QED
    BY <2>1, <2>2, <2>3, TableOfRows
<1>2. CASE archive = "pareto"
  <2> DEFINE f == [r \in AllRows |-> ParetoRow(r)]
  <2>1. Expected = TableOf(f)
    BY <1>2 DEF Expected, ProjectParetoRows
  <2>2. Listed = AllRows /\ \A r : TableRow(r) = ParetoRow(r)
    BY <1>2 DEF Listed, TableRow
  <2>3. DOMAIN f = AllRows /\ \A r \in AllRows : f[r] = ParetoRow(r)
    OBVIOUS
  <2> HIDE DEF f
  <2> QED
    BY <2>1, <2>2, <2>3, TableOfRows
<1>3. CASE archive = "mutation"
  <2> DEFINE f == [r \in {r \in AllRows : r.idea.class # NoClass} |-> MutationRow(r)]
  <2>1. Expected = TableOf(f)
    BY <1>3 DEF Expected, ProjectMutationArchive
  <2>2. /\ Listed = {r \in AllRows : r.idea.class # NoClass}
        /\ \A r : TableRow(r) = MutationRow(r)
    BY <1>3 DEF Listed, TableRow
  <2>3. DOMAIN f = Listed /\ \A r \in Listed : f[r] = MutationRow(r)
    BY <2>2
  <2>4. Listed \subseteq AllRows
    BY DEF Listed
  <2> HIDE DEF f
  <2> QED
    BY <2>1, <2>2, <2>3, <2>4, TableOfRows
<1> QED
  BY <1>1, <1>2, <1>3, TableAssumption

(* The columns that are read *)
ColumnNames == {"artifact", "parent", "campaign", "outcome", "class", "cost", "fitness", "slices"}

LEMMA EvidenceColumns ==
  ASSUME NEW r
  PROVE  /\ DOMAIN EvidenceOf(r) = ColumnNames
         /\ EvidenceOf(r).artifact = r.idea.artifact
         /\ EvidenceOf(r).campaign = r.idea.campaign
         /\ EvidenceOf(r).outcome = findings[r.finding].outcome
         /\ EvidenceOf(r).cost = <<>>
<1> DEFINE a == r.idea.artifact
           p == r.idea.parent
           c == r.idea.campaign
           o == findings[r.finding].outcome
           e == NoColumns
           t == [e EXCEPT !.artifact = a, !.parent = p, !.campaign = c, !.outcome = o]
<1>1. EvidenceOf(r) = t
  BY DEF EvidenceOf
<1>2. DOMAIN e = ColumnNames /\ e.cost = <<>>
  BY DEF NoColumns, ColumnNames
<1> HIDE DEF a, p, c, o, e
<1>3. DOMAIN t = ColumnNames
  BY <1>2
<1>4. t.artifact = a /\ t.campaign = c /\ t.outcome = o /\ t.cost = <<>>
  BY <1>2 DEF ColumnNames
<1> HIDE DEF t
<1> QED
  BY <1>1, <1>3, <1>4 DEF a, c, o

LEMMA ColumnsAre ==
  ASSUME NEW r, archive \in Archives
  PROVE  /\ TableRow(r).artifact = r.idea.artifact /\ TableRow(r).campaign = r.idea.campaign
         /\ TableRow(r).outcome = findings[r.finding].outcome
         /\ archive # "mutation" => TableRow(r).cost = CostOf(r)
         /\ archive = "mutation" =>
              /\ TableRow(r).class = r.idea.class /\ TableRow(r).cost = <<>>
              /\ TableRow(r).fitness =
                   {findings[r.finding].metrics[m] : m \in {"fitness"} \cap DOMAIN findings[r.finding].metrics}
<1> DEFINE a == r.idea.artifact
           p == r.idea.parent
           c == r.idea.campaign
           o == findings[r.finding].outcome
           e == EvidenceOf(r)
           k == CostOf(r)
           g == r.idea.class
           w == {findings[r.finding].metrics[m] : m \in {"fitness"} \cap DOMAIN findings[r.finding].metrics}
           z == UNION {{<<d, v>> : v \in SliceOf(r, d)} : d \in Dimensions}
<1>1. DOMAIN e = ColumnNames /\ e.artifact = a /\ e.campaign = c /\ e.outcome = o /\ e.cost = <<>>
  BY EvidenceColumns
<1>2. /\ ProductivityRow(r) = [e EXCEPT !.cost = k]
      /\ ParetoRow(r) = [e EXCEPT !.cost = k, !.slices = z]
      /\ MutationRow(r) = [e EXCEPT !.class = g, !.fitness = w]
  BY DEF ProductivityRow, ParetoRow, MutationRow
<1> HIDE DEF a, p, c, o, k, g, w, z, e
<1>3. /\ ProductivityRow(r).artifact = a /\ ProductivityRow(r).campaign = c /\ ProductivityRow(r).outcome = o
      /\ ProductivityRow(r).cost = k
  BY <1>1, <1>2 DEF ColumnNames
<1>4. /\ ParetoRow(r).artifact = a /\ ParetoRow(r).campaign = c /\ ParetoRow(r).outcome = o
      /\ ParetoRow(r).cost = k
  BY <1>1, <1>2 DEF ColumnNames
<1>5. /\ MutationRow(r).artifact = a /\ MutationRow(r).campaign = c /\ MutationRow(r).outcome = o
      /\ MutationRow(r).class = g /\ MutationRow(r).cost = <<>> /\ MutationRow(r).fitness = w
  BY <1>1, <1>2 DEF ColumnNames
<1>6. CASE archive = "productivity"
  BY <1>3, <1>6 DEF TableRow, a, c, o, k
<1>7. CASE archive = "pareto"
  BY <1>4, <1>7 DEF TableRow, a, c, o, k
<1>8. CASE archive = "mutation"
  BY <1>5, <1>8 DEF TableRow, a, c, o, g, w
<1> QED
  BY <1>6, <1>7, <1>8, TableAssumption
(* The evidence only grows, and what a row says of it stays *)
LEMMA TableRowsStay ==
  ASSUME ViewInv, [ViewNext]_viewVars, archive' = archive, NEW r \in AllRows
  PROVE  r \in AllRows' /\ TableRow(r)' = TableRow(r)
<1>1. ideas \subseteq ideas'
  BY DEF ViewNext, RecordIdea, RecordFinding, viewVars
<1>2. /\ r.finding \in DOMAIN findings' /\ findings'[r.finding] = findings[r.finding]
      /\ r \in Pair /\ r.finding \in DOMAIN findings
  <2>1. r \in Pair /\ r.finding \in DOMAIN findings
    BY DEF AllRows, Pair
  <2>2. CASE findings' = findings
    BY <2>1, <2>2
  <2>3. CASE RecordFinding
    <3>1. PICK g \in Findings : findings' = Append(findings, g)
      BY <2>3 DEF RecordFinding
    <3>2. findings \in Seq(Findings)
      BY DEF ViewInv
    <3> QED
      BY <2>1, <3>1, <3>2
  <2> QED
    BY <2>1, <2>2, <2>3 DEF ViewNext, RecordIdea, viewVars
<1>3. r \in AllRows'
  <2>1. r = [idea |-> r.idea, finding |-> r.finding] /\ r.idea \in ideas'
    BY <1>1, <1>2 DEF Pair
  <2>2. r \in Pair'
    BY <1>2, <2>1 DEF Pair
  <2> QED
    BY <1>2, <2>2 DEF AllRows
<1>4. /\ EvidenceOf(r)' = EvidenceOf(r) /\ CostOf(r)' = CostOf(r)
      /\ \A d : SliceOf(r, d)' = SliceOf(r, d)
  BY <1>2 DEF EvidenceOf, CostOf, SliceOf, AttestedSlice
<1>5. ProductivityRow(r)' = ProductivityRow(r)
  BY <1>4 DEF ProductivityRow
<1>6. ParetoRow(r)' = ParetoRow(r)
  <2> DEFINE pairs(d) == {<<d, v>> : v \in SliceOf(r, d)}
             all == UNION {pairs(d) : d \in Dimensions}
  <2>1. \A d : pairs(d)' = pairs(d)
    BY <1>4
  <2>2. all' = all
    BY <2>1
  <2>3. ParetoRow(r) = [EvidenceOf(r) EXCEPT !.cost = CostOf(r), !.slices = all]
    BY DEF ParetoRow
  <2>4. ParetoRow(r)' = [EvidenceOf(r)' EXCEPT !.cost = CostOf(r)', !.slices = all']
    BY DEF ParetoRow
  <2> HIDE DEF all
  <2> QED
    BY <1>4, <2>2, <2>3, <2>4
<1>7. MutationRow(r)' = MutationRow(r)
  BY <1>2, <1>4 DEF MutationRow
<1> QED
  BY <1>3, <1>5, <1>6, <1>7 DEF TableRow

LEMMA ExpectedGrows ==
  ASSUME ViewInv, [ViewNext]_viewVars, archive' = archive, archive \in Archives
  PROVE  DOMAIN Expected \subseteq DOMAIN Expected' /\ \A k \in DOMAIN Expected : Expected'[k] = Expected[k]
<1>1. ViewInv'
  BY ViewMoves
<1>2. /\ DOMAIN Expected' = {KeyOf(r) : r \in Listed'}
      /\ \A r \in Listed' : Expected'[KeyOf(r)] = TableRow(r)'
  <2>1. archive' \in Archives
    OBVIOUS
  <2>2. (ViewInv /\ archive \in Archives =>
           /\ DOMAIN Expected = {KeyOf(r) : r \in Listed}
           /\ \A r \in Listed : Expected[KeyOf(r)] = TableRow(r))'
    BY ExpectedIs, PTL
  <2> QED
    BY <1>1, <2>1, <2>2 DEF KeyOf
<1> SUFFICES ASSUME NEW k \in DOMAIN Expected
             PROVE  k \in DOMAIN Expected' /\ Expected'[k] = Expected[k]
  OBVIOUS
<1>3. PICK r \in Listed : k = KeyOf(r)
  BY ExpectedIs
<1>4. r \in AllRows' /\ r \in AllRows /\ TableRow(r)' = TableRow(r)
  BY TableRowsStay DEF Listed
<1>5. r \in Listed'
  BY <1>4 DEF Listed
<1> QED
  BY <1>2, <1>3, <1>4, <1>5, ExpectedIs

(* A table is behind the evidence until it is written to by hand; then a   *)
(* row of it is missing or says what the evidence does not                *)
RowIsApart(k) ==
  \/ k \notin DOMAIN table
  \/ k \in DOMAIN table /\ table[k].outcome # Expected[k].outcome
  \/ /\ k \in DOMAIN table /\ archive # "mutation"
     /\ \E c \in CostMetrics \cap DOMAIN table[k].cost \cap DOMAIN Expected[k].cost :
          table[k].cost[c] # Expected[k].cost[c]
TableInv ==
  /\ ViewInv /\ archive \in Archives
  /\ ~spoiled => DOMAIN table \subseteq DOMAIN Expected /\ \A k \in DOMAIN table : table[k] = Expected[k]
  /\ spoiled => \E k \in DOMAIN Expected : RowIsApart(k)

LEMMA TableStarts ==
  ViewInit /\ TablesInit => TableInv
<1> SUFFICES ASSUME ViewInit, TablesInit PROVE TableInv
  OBVIOUS
<1>1. DOMAIN table = {} /\ archive \in Archives /\ spoiled = FALSE
  BY DEF TablesInit
<1> QED
  BY <1>1, ViewStarts DEF TableInv

LEMMA RowIsFull ==
  ASSUME NEW r, archive \in Archives
  PROVE  DOMAIN TableRow(r) = ColumnNames
<1> DEFINE e == EvidenceOf(r)
<1>1. DOMAIN e = ColumnNames
  BY EvidenceColumns
<1>2. /\ DOMAIN ProductivityRow(r) = DOMAIN e
      /\ DOMAIN ParetoRow(r) = DOMAIN e
      /\ DOMAIN MutationRow(r) = DOMAIN e
  BY DEF ProductivityRow, ParetoRow, MutationRow
<1> QED
  BY <1>1, <1>2 DEF TableRow

LEMMA SpoiledIsApart ==
  ASSUME TableInv, SpoilRow
  PROVE  TableInv'
<1>1. ~spoiled /\ spoiled' /\ UNCHANGED <<archive, ideas, findings>>
  BY DEF SpoilRow, viewVars
<1>2. ViewInv' /\ archive' \in Archives
  BY <1>1 DEF TableInv, ViewInv
<1>3. DOMAIN Expected \subseteq DOMAIN Expected' /\ \A x \in DOMAIN Expected : Expected'[x] = Expected[x]
  <2>1. [ViewNext]_viewVars
    BY <1>1 DEF viewVars
  <2> QED
    BY <1>1, <2>1, ExpectedGrows DEF TableInv
<1>4. PICK k \in DOMAIN table :
        \/ table' = Restrict(table, DOMAIN table \ {k})
        \/ table' = [table EXCEPT ![k].outcome = IF @ = "pass" THEN "fail" ELSE "pass"]
        \/ \E c \in DOMAIN table[k].cost : table' = [table EXCEPT ![k].cost[c] = @ + 1]
  BY DEF SpoilRow
<1>5. k \in DOMAIN Expected /\ table[k] = Expected[k]
  BY <1>1 DEF TableInv
<1>6. PICK r \in Listed : k = KeyOf(r)
  BY <1>5, ExpectedIs DEF TableInv
<1>7. /\ table[k] = TableRow(r) /\ r \in Pair
      /\ TableRow(r).outcome = findings[r.finding].outcome
      /\ archive # "mutation" => TableRow(r).cost = CostOf(r)
      /\ archive = "mutation" => TableRow(r).cost = <<>>
  BY <1>5, <1>6, ExpectedIs, ColumnsAre DEF TableInv, Listed, AllRows
<1>8. CASE table' = Restrict(table, DOMAIN table \ {k})
  <2>1. k \notin DOMAIN table'
    BY <1>8 DEF Restrict
  <2>2. RowIsApart(k)'
    BY <2>1 DEF RowIsApart
  <2> QED
    BY <1>1, <1>2, <1>3, <1>5, <2>2 DEF TableInv
<1>9. CASE table' = [table EXCEPT ![k].outcome = IF @ = "pass" THEN "fail" ELSE "pass"]
  <2> DEFINE row == [table[k] EXCEPT !.outcome = IF @ = "pass" THEN "fail" ELSE "pass"]
  <2>1. table' = [table EXCEPT ![k] = row]
    BY <1>9
  <2>2. "outcome" \in DOMAIN table[k]
    BY <1>7, RowIsFull DEF TableInv, ColumnNames
  <2>3. row.outcome = IF table[k].outcome = "pass" THEN "fail" ELSE "pass"
    BY <2>2
  <2>4. row.outcome # table[k].outcome
    BY <2>3
  <2> HIDE DEF row
  <2>5. k \in DOMAIN table' /\ table'[k] = row
    BY <2>1
  <2>6. table'[k].outcome # Expected'[k].outcome
    BY <1>3, <1>5, <2>4, <2>5
  <2>7. RowIsApart(k)'
    BY <2>5, <2>6 DEF RowIsApart
  <2> QED
    BY <1>1, <1>2, <1>3, <1>5, <2>7 DEF TableInv
<1>10. ASSUME NEW c \in DOMAIN table[k].cost, table' = [table EXCEPT ![k].cost[c] = @ + 1]
       PROVE  TableInv'
  <2> DEFINE old == table[k].cost
             cost == [old EXCEPT ![c] = @ + 1]
             row == [table[k] EXCEPT !.cost = cost]
  <2>1. table' = [table EXCEPT ![k] = row]
    BY <1>10
  <2>2. "cost" \in DOMAIN table[k]
    BY <1>7, RowIsFull DEF TableInv, ColumnNames
  <2>3. archive # "mutation" /\ old = CostOf(r)
    BY <1>7
  <2>4. c \in CostMetrics /\ old[c] \in Int
    BY <1>7, <2>3, ViewRows DEF TableInv
  <2>5. row.cost = cost
    BY <2>2
  <2>6. c \in DOMAIN cost /\ cost[c] = old[c] + 1
    OBVIOUS
  <2>7. cost[c] # old[c]
    BY <2>4, <2>6
  <2> HIDE DEF row, cost
  <2>8. k \in DOMAIN table' /\ table'[k] = row
    BY <2>1
  <2>9. Expected'[k].cost = old
    BY <1>3, <1>5
  <2>10. c \in DOMAIN old
    OBVIOUS
  <2> HIDE DEF old
  <2>11. RowIsApart(k)'
    BY <1>1, <2>3, <2>4, <2>5, <2>6, <2>7, <2>8, <2>9, <2>10 DEF RowIsApart
  <2> QED
    BY <1>1, <1>2, <1>3, <1>5, <2>11 DEF TableInv
<1> QED
  BY <1>4, <1>8, <1>9, <1>10

LEMMA TableMoves ==
  ASSUME TableInv, [TableStep]_<<viewVars, tableVars>>
  PROVE  TableInv'
<1>1. CASE [ViewNext]_viewVars /\ UNCHANGED tableVars
  <2>1. ViewInv' /\ archive' = archive /\ table' = table /\ spoiled' = spoiled /\ archive \in Archives
    BY <1>1, ViewMoves DEF TableInv, tableVars
  <2>2. DOMAIN Expected \subseteq DOMAIN Expected' /\ \A k \in DOMAIN Expected : Expected'[k] = Expected[k]
    BY <1>1, <2>1, ExpectedGrows DEF TableInv
  <2>3. CASE ~spoiled
    BY <2>1, <2>2, <2>3 DEF TableInv
  <2>4. CASE spoiled
    <3>1. PICK k \in DOMAIN Expected : RowIsApart(k)
      BY <2>4 DEF TableInv
    <3>2. k \in DOMAIN Expected' /\ Expected'[k] = Expected[k]
      BY <2>2
    <3>3. RowIsApart(k)'
      BY <2>1, <3>1, <3>2 DEF RowIsApart
    <3> QED
      BY <2>1, <2>4, <3>2, <3>3 DEF TableInv
  <2> QED
    BY <2>3, <2>4
<1>2. CASE Rebuild
  <2>1. table' = Expected /\ spoiled' = FALSE /\ UNCHANGED <<archive, ideas, findings>>
    BY <1>2 DEF Rebuild, RowsReplaced, viewVars
  <2>2. ViewInv' /\ archive' \in Archives
    BY <2>1 DEF TableInv, ViewInv
  <2>3. [ViewNext]_viewVars
    BY <2>1 DEF viewVars
  <2>4. DOMAIN Expected \subseteq DOMAIN Expected' /\ \A k \in DOMAIN Expected : Expected'[k] = Expected[k]
    BY <2>1, <2>3, ExpectedGrows DEF TableInv
  <2> QED
    BY <2>1, <2>2, <2>4 DEF TableInv
<1>3. CASE SpoilRow
  BY <1>3, SpoiledIsApart
<1> QED
  BY <1>1, <1>2, <1>3 DEF TableStep, viewVars, tableVars

(* Reconciliation: a row that is apart is told, whatever is told of a table *)
(* nobody wrote to is a row it lacks                                      *)
LEMMA DriftIs ==
  ASSUME archive \in Archives
  PROVE  /\ KeysApart(Expected) \cup FieldsApart(Expected, SharedColumns) \subseteq Drift
         /\ archive # "mutation" => CostsApart(Expected) \subseteq Drift
         /\ \A x \in Drift :
              \/ x \in KeysApart(Expected) \cup CostsApart(Expected)
              \/ \E names : x \in FieldsApart(Expected, names)
<1>1. CASE archive = "productivity"
  BY <1>1 DEF Drift, Expected, ProductivityDrift
<1>2. CASE archive = "pareto"
  <2>1. FieldsApart(Expected, SharedColumns) \subseteq FieldsApart(Expected, SharedColumns \cup {"slices"})
    BY DEF FieldsApart
  <2>2. Expected = ProjectParetoRows
    BY <1>2 DEF Expected
  <2>3. Drift = KeysApart(Expected) \cup FieldsApart(Expected, SharedColumns \cup {"slices"}) \cup CostsApart(Expected)
    BY <1>2, <2>2 DEF Drift, ParetoDrift
  <2> QED
    BY <2>1, <2>3
<1>3. CASE archive = "mutation"
  <2>1. FieldsApart(Expected, SharedColumns) \subseteq FieldsApart(Expected, SharedColumns \cup {"class", "fitness"})
    BY DEF FieldsApart
  <2>2. Expected = ProjectMutationArchive
    BY <1>3 DEF Expected
  <2>3. Drift = KeysApart(Expected) \cup FieldsApart(Expected, SharedColumns \cup {"class", "fitness"})
    BY <1>3, <2>2 DEF Drift, MutationDrift
  <2> QED
    BY <1>3, <2>1, <2>3
<1> QED
  BY <1>1, <1>2, <1>3, TableAssumption

LEMMA OnlyBehind ==
  ASSUME TableInv, ~spoiled, NEW x \in Drift
  PROVE  x[1] = "missing"
<1>1. DOMAIN table \subseteq DOMAIN Expected /\ \A k \in DOMAIN table : table[k] = Expected[k]
  BY DEF TableInv
<1>2. x \in KeysApart(Expected) => x[1] = "missing"
  BY <1>1 DEF KeysApart
<1>3. CostsApart(Expected) = {}
  BY <1>1 DEF CostsApart, Common
<1>4. \A names : FieldsApart(Expected, names) = {}
  <2> SUFFICES ASSUME NEW names, NEW p \in FieldsApart(Expected, names) PROVE FALSE
    OBVIOUS
  <2>1. p[2] \in DOMAIN table /\ table[p[2]][p[1]] # Expected[p[2]][p[1]]
    BY DEF FieldsApart, Common
  <2>2. table[p[2]] = Expected[p[2]]
    BY <1>1, <2>1
  <2> QED
    BY <2>1, <2>2
<1> QED
  BY <1>2, <1>3, <1>4, DriftIs DEF TableInv

LEMMA SpoiledIsTold ==
  ASSUME TableInv, spoiled
  PROVE  Drift # {}
<1>1. PICK k \in DOMAIN Expected : RowIsApart(k)
  BY DEF TableInv
<1>2. CASE k \notin DOMAIN table
  <2>1. <<"missing", k>> \in KeysApart(Expected)
    BY <1>2 DEF KeysApart
  <2> QED
    BY <2>1, DriftIs DEF TableInv
<1>3. CASE k \in DOMAIN table /\ table[k].outcome # Expected[k].outcome
  <2>1. k \in Common(Expected)
    BY <1>3 DEF Common
  <2>2. <<"outcome", k>> \in SharedColumns \X Common(Expected)
    BY <2>1 DEF SharedColumns
  <2>3. table[k]["outcome"] # Expected[k]["outcome"]
    BY <1>3
  <2>4. <<"outcome", k>> \in FieldsApart(Expected, SharedColumns)
    BY <2>2, <2>3 DEF FieldsApart
  <2> QED
    BY <2>4, DriftIs DEF TableInv
<1>4. CASE /\ k \in DOMAIN table /\ archive # "mutation"
           /\ \E c \in CostMetrics \cap DOMAIN table[k].cost \cap DOMAIN Expected[k].cost :
                table[k].cost[c] # Expected[k].cost[c]
  <2>1. k \in Common(Expected)
    BY <1>4 DEF Common
  <2>2. PICK c \in CostMetrics \cap DOMAIN table[k].cost \cap DOMAIN Expected[k].cost :
               table[k].cost[c] # Expected[k].cost[c]
    BY <1>4
  <2>3. Told(table[k].cost, c) = {table[k].cost[c]} /\ Told(Expected[k].cost, c) = {Expected[k].cost[c]}
    BY <2>2 DEF Told
  <2>4. Told(table[k].cost, c) # Told(Expected[k].cost, c)
    BY <2>2, <2>3
  <2>5. <<c, k>> \in CostMetrics \X Common(Expected)
    BY <2>1, <2>2
  <2>6. <<c, k>> \in CostsApart(Expected)
    BY <2>4, <2>5 DEF CostsApart
  <2> QED
    BY <1>4, <2>6, DriftIs DEF TableInv
<1> QED
  BY <1>1, <1>2, <1>3, <1>4 DEF RowIsApart

LEMMA ReconciledIsListed ==
  ASSUME TableInv, Drift = {}
  PROVE  /\ DOMAIN table = {KeyOf(r) : r \in Listed}
         /\ \A r \in Listed : table[KeyOf(r)] = TableRow(r)
<1>1. ~spoiled
  BY SpoiledIsTold
<1>2. KeysApart(Expected) = {}
  BY DriftIs DEF TableInv
<1>3. \A k \in DOMAIN Expected : k \in DOMAIN table
  <2> SUFFICES ASSUME NEW k \in DOMAIN Expected, k \notin DOMAIN table PROVE FALSE
    OBVIOUS
  <2>1. <<"missing", k>> \in KeysApart(Expected)
    BY DEF KeysApart
  <2> QED
    BY <1>2, <2>1
<1>4. DOMAIN table = DOMAIN Expected /\ \A k \in DOMAIN table : table[k] = Expected[k]
  BY <1>1, <1>3 DEF TableInv
<1> QED
  BY <1>4, ExpectedIs DEF TableInv

(* One-to-one names leave a cardinality as it is *)
LEMMA AsMany ==
  ASSUME NEW S, IsFiniteSet(S), NEW T, NEW b, \A x \in S : b[x] \in T,
         \A x, y \in S : b[x] = b[y] => x = y, \A z \in T : \E x \in S : z = b[x]
  PROVE  IsFiniteSet(T) /\ Cardinality(T) = Cardinality(S)
<1> DEFINE f == [x \in S |-> b[x]]
<1>1. f \in [S -> T]
  OBVIOUS
<1>2. \A z \in T : \E x \in S : f[x] = z
  OBVIOUS
<1>3. \A x, y \in S : f[x] = f[y] => x = y
  OBVIOUS
<1> HIDE DEF f
<1>4. f \in Surjection(S, T) /\ f \in Injection(S, T)
  BY <1>1, <1>2, <1>3 DEF Surjection, Injection, IsInjective
<1> QED
  BY <1>4, FS_Surjection

(* The figures of some rows of a reconciled table are those of the rows    *)
LEMMA FiguresAre ==
  ASSUME TableInv, Drift = {}, archive # "mutation", NEW rs \in SUBSET AllRows
  PROVE  Figures({KeyOf(r) : r \in rs}) = SumUp(rs)
<1> DEFINE K == {KeyOf(r) : r \in rs}
           b == [r \in rs |-> KeyOf(r)]
<1>1. /\ \A r \in rs : table[KeyOf(r)].outcome = findings[r.finding].outcome
      /\ \A r \in rs : table[KeyOf(r)].cost = CostOf(r)
  <2>1. Listed = AllRows /\ archive \in Archives
    BY DEF Listed, TableInv
  <2> QED
    BY <2>1, ReconciledIsListed, ColumnsAre
<1>2. /\ \A r \in rs : b[r] \in K /\ b[r] = KeyOf(r) /\ KeyOf(r)[1] = r.idea.id
      /\ \A r, s \in rs : b[r] = b[s] => r = s
      /\ \A k \in K : \E r \in rs : k = b[r]
  <2>1. \A r, s \in rs : KeyOf(r) = KeyOf(s) => r = s
    BY KeysAreOwn DEF TableInv
  <2> QED
    BY <2>1 DEF KeyOf
<1>3. IsFiniteSet(rs) /\ rs \in SUBSET Pair
  BY ViewRows, FS_Subset DEF AllRows, TableInv
<1> HIDE DEF K, b
<1>4. Cardinality(K) = Cardinality(rs) /\ IsFiniteSet(K)
  BY <1>2, <1>3, AsMany
<1>5. Cardinality({k \in K : table[k].outcome = "pass"}) = Cardinality(PassedRows(rs))
  <2> DEFINE P == {k \in K : table[k].outcome = "pass"}
             Q == PassedRows(rs)
  <2>1. Q \in SUBSET rs /\ \A r \in rs : r \in Q <=> findings[r.finding].outcome = "pass"
    BY DEF PassedRows
  <2>2. \A k \in K : k \in P <=> table[k].outcome = "pass"
    OBVIOUS
  <2>3. P \subseteq K
    OBVIOUS
  <2>4. IsFiniteSet(Q)
    BY <1>3, <2>1, FS_Subset
  <2> HIDE DEF P, Q
  <2>5. /\ \A r \in Q : b[r] \in P
        /\ \A r, s \in Q : b[r] = b[s] => r = s
        /\ \A k \in P : \E r \in Q : k = b[r]
    BY <1>1, <1>2, <2>1, <2>2, <2>3
  <2>6. Cardinality(P) = Cardinality(Q)
    BY <2>4, <2>5, AsMany
  <2> QED
    BY <2>6 DEF P, Q
<1>6. Cardinality({k[1] : k \in K}) = Cardinality({r.idea : r \in rs})
  <2> DEFINE I == {r.idea : r \in rs}
             N == {k[1] : k \in K}
             g == [i \in I |-> i.id]
  <2>1. \A r \in rs : r.idea \in I
    OBVIOUS
  <2>2. \A i \in I : \E r \in rs : i = r.idea
    OBVIOUS
  <2>3. \A i \in I : g[i] = i.id
    OBVIOUS
  <2>4. I \in SUBSET Ideas /\ IsFiniteSet(I)
    <3>1. I \in SUBSET ideas
      BY <1>3, ViewRows DEF TableInv
    <3> QED
      BY <3>1, FS_Subset DEF TableInv, ViewInv
  <2>5. \A n \in N : \E k \in K : n = k[1]
    OBVIOUS
  <2>6. \A k \in K : k[1] \in N
    OBVIOUS
  <2> HIDE DEF I, N, g
  <2>7. \A i \in I : g[i] \in N
    BY <1>2, <2>2, <2>3, <2>6
  <2>8. \A i, j \in I : g[i] = g[j] => i = j
    BY <2>3, <2>4, ViewAssumption
  <2>9. \A n \in N : \E i \in I : n = g[i]
    BY <1>2, <2>1, <2>3, <2>5
  <2>10. Cardinality(N) = Cardinality(I)
    BY <2>4, <2>7, <2>8, <2>9, AsMany
  <2> QED
    BY <2>10 DEF N, I
<1>7. UNION {DOMAIN table[k].cost : k \in K} = UNION {DOMAIN CostOf(r) : r \in rs}
  <2>1. \A r \in rs : DOMAIN table[KeyOf(r)].cost = DOMAIN CostOf(r)
    BY <1>1
  <2>2. {DOMAIN table[k].cost : k \in K} = {DOMAIN CostOf(r) : r \in rs}
    BY <1>2, <2>1
  <2> QED
    BY <2>2
<1>8. \A c : SumOfColumn(K, c) = TotalOf(rs, c)
  <2> SUFFICES ASSUME NEW c PROVE SumOfColumn(K, c) = TotalOf(rs, c)
    OBVIOUS
  <2> DEFINE S == {r \in rs : c \in DOMAIN CostOf(r)}
             f == [r \in S |-> CostOf(r)[c]]
             T == {k \in K : c \in DOMAIN table[k].cost}
             g == [k \in T |-> table[k].cost[c]]
  <2>1. TotalOf(rs, c) = SumOfAll(f) /\ SumOfColumn(K, c) = SumOfAll(g)
    BY DEF TotalOf, SumOfColumn
  <2>2. f = [r \in S |-> f[r]] /\ g = [k \in T |-> g[k]]
    OBVIOUS
  <2>3. /\ S \in SUBSET rs /\ \A r \in rs : r \in S <=> c \in DOMAIN CostOf(r)
        /\ T \in SUBSET K /\ \A k \in K : k \in T <=> c \in DOMAIN table[k].cost
        /\ \A r \in S : f[r] = CostOf(r)[c]
        /\ \A k \in T : g[k] = table[k].cost[c]
    OBVIOUS
  <2> HIDE DEF S, f, T, g
  <2>4. \A r \in S : f[r] \in Int
    BY <1>3, <2>3, ViewRows DEF TableInv
  <2>5. IsFiniteSet(S) /\ IsFiniteSet(T)
    BY <1>3, <1>4, <2>3, FS_Subset
  <2>6. /\ \A r \in S : b[r] \in T /\ g[b[r]] = f[r]
        /\ \A r, s \in S : b[r] = b[s] => r = s
        /\ \A k \in T : \E r \in S : k = b[r]
    BY <1>1, <1>2, <2>3
  <2>7. SumOn(f, S) = SumOn(g, T)
    BY <2>4, <2>5, <2>6, SumAlike
  <2> QED
    BY <2>1, <2>2, <2>7 DEF SumOn
<1>9. [c \in UNION {DOMAIN table[k].cost : k \in K} |-> SumOfColumn(K, c)]
      = [c \in UNION {DOMAIN CostOf(r) : r \in rs} |-> TotalOf(rs, c)]
  BY <1>7, <1>8
<1>10. Figures(K) = SumUp(rs)
  BY <1>4, <1>5, <1>6, <1>9 DEF Figures, SumUp
<1> QED
  BY <1>10 DEF K

LEMMA SummaryAgrees ==
  ASSUME TableInv, Drift = {}, archive = "productivity"
  PROVE  Summary = [a \in {r.idea.artifact : r \in AllRows} |-> SumUp({r \in AllRows : r.idea.artifact = a})]
<1>1. /\ DOMAIN table = {KeyOf(r) : r \in AllRows}
      /\ \A r \in AllRows : table[KeyOf(r)].artifact = r.idea.artifact
  <2>1. Listed = AllRows /\ archive \in Archives
    BY DEF Listed, TableInv
  <2> QED
    BY <2>1, ReconciledIsListed, ColumnsAre
<1>2. {table[k].artifact : k \in DOMAIN table} = {r.idea.artifact : r \in AllRows}
  BY <1>1
<1>3. \A a : Figures(KeysWith("artifact", a)) = SumUp({r \in AllRows : r.idea.artifact = a})
  <2> SUFFICES ASSUME NEW a
               PROVE  Figures(KeysWith("artifact", a)) = SumUp({r \in AllRows : r.idea.artifact = a})
    OBVIOUS
  <2> DEFINE rs == {r \in AllRows : r.idea.artifact = a}
  <2>1. KeysWith("artifact", a) = {k \in DOMAIN table : table[k].artifact = a}
    BY DEF KeysWith
  <2>2. KeysWith("artifact", a) = {KeyOf(r) : r \in rs}
    BY <1>1, <2>1
  <2>3. rs \in SUBSET AllRows
    OBVIOUS
  <2> HIDE DEF rs
  <2>4. Figures({KeyOf(r) : r \in rs}) = SumUp(rs)
    BY <2>3, FiguresAre
  <2> QED
    BY <2>2, <2>4 DEF rs
<1> QED
  BY <1>2, <1>3 DEF Summary

LEMMA FrontierAgrees ==
  ASSUME TableInv, Drift = {}, archive = "pareto", NEW c
  PROVE  StoredFrontier(c) = Frontier(c)
<1> DEFINE keys == KeysWith("campaign", c)
           kept == [a \in {table[k].artifact : k \in keys} |-> Figures({k \in keys : table[k].artifact = a})]
           all == ByArtifact(c)
<1>1. /\ DOMAIN table = {KeyOf(r) : r \in AllRows}
      /\ \A r \in AllRows : /\ table[KeyOf(r)].artifact = r.idea.artifact
                            /\ table[KeyOf(r)].campaign = r.idea.campaign
  <2>1. Listed = AllRows /\ archive \in Archives
    BY DEF Listed, TableInv
  <2> QED
    BY <2>1, ReconciledIsListed, ColumnsAre
<1>2. RowsIn(c) = {r \in AllRows : r.idea.campaign = c}
  <2>1. \A r \in Pair : r.idea \in ideas
    BY DEF Pair
  <2> QED
    BY <2>1 DEF RowsIn, AllRows, IdeasOf
<1>3. keys = {KeyOf(r) : r \in RowsIn(c)} /\ \A r \in RowsIn(c) : table[KeyOf(r)].artifact = r.idea.artifact
  <2>1. keys = {k \in DOMAIN table : table[k].campaign = c}
    BY DEF KeysWith
  <2> HIDE DEF keys
  <2> QED
    BY <1>1, <1>2, <2>1
<1> HIDE DEF keys
<1>4. {table[k].artifact : k \in keys} = {r.idea.artifact : r \in RowsIn(c)}
  BY <1>3
<1>5. \A a : Figures({k \in keys : table[k].artifact = a}) = SumUp({r \in RowsIn(c) : r.idea.artifact = a})
  <2> SUFFICES ASSUME NEW a
               PROVE  Figures({k \in keys : table[k].artifact = a}) = SumUp({r \in RowsIn(c) : r.idea.artifact = a})
    OBVIOUS
  <2> DEFINE rs == {r \in RowsIn(c) : r.idea.artifact = a}
  <2>1. {k \in keys : table[k].artifact = a} = {KeyOf(r) : r \in rs}
    BY <1>3
  <2>2. rs \in SUBSET AllRows
    BY <1>2
  <2> HIDE DEF rs
  <2>3. Figures({KeyOf(r) : r \in rs}) = SumUp(rs)
    BY <2>2, FiguresAre
  <2> QED
    BY <2>1, <2>3 DEF rs
<1>6. kept = all
  BY <1>4, <1>5 DEF ByArtifact
<1>7. StoredFrontier(c) = {a \in DOMAIN kept : \A d \in DOMAIN kept : ~Dominates(kept[d], kept[a])}
  BY DEF StoredFrontier, keys
<1> HIDE DEF kept, all
<1>8. Frontier(c) = {a \in DOMAIN all : \A d \in DOMAIN all \ {a} : ~Dominates(all[d], all[a])}
  BY DEF Frontier, DominatorsOf, all
<1>9. \A a : ~Dominates(all[a], all[a]) \/ ~(a \in DOMAIN all)
  <2> SUFFICES ASSUME NEW a \in DOMAIN all PROVE ~Dominates(all[a], all[a])
    OBVIOUS
  <2>1. Summed(all[a])
    <3> DEFINE rs == {r \in RowsIn(c) : r.idea.artifact = a}
    <3>1. all[a] = SumUp(rs) /\ rs # {}
      BY DEF ByArtifact, all
    <3>2. rs \in SUBSET Pair
      BY ViewRows DEF TableInv
    <3> HIDE DEF rs
    <3> QED
      BY <3>1, <3>2, SumsUp DEF TableInv
  <2> QED
    BY <2>1, DominanceIsOneWay
<1> QED
  BY <1>6, <1>7, <1>8, <1>9

LEMMA ClassesAgree ==
  ASSUME TableInv, Drift = {}, archive = "mutation"
  PROVE  Classes = SummarizeClasses
<1> DEFINE Fit(r) == findings[r.finding].metrics
           AllFit(K) == {k \in K : table[k].fitness # {}}
           One(K) == [ideas |-> Cardinality({k[1] : k \in K}), count |-> Cardinality(K),
                      passes |-> Cardinality({k \in K : table[k].outcome = "pass"}),
                      fit |-> Cardinality(AllFit(K)),
                      fitness |-> SumOfAll([k \in AllFit(K) |-> CHOOSE x \in table[k].fitness : TRUE])]
           Other(c) == [ideas |-> Cardinality({r.idea : r \in ClassRows(c)}), count |-> Cardinality(ClassRows(c)),
                        passes |-> Cardinality(PassedRows(ClassRows(c))), fit |-> Cardinality(FitRows(c)),
                        fitness |-> SumOfAll([r \in FitRows(c) |-> findings[r.finding].metrics.fitness])]
           D == {i.class : i \in {j \in ideas : ClassRows(j.class) # {}}} \ {NoClass}
<1>1. /\ DOMAIN table = {KeyOf(r) : r \in Listed}
      /\ \A r \in Listed :
           /\ table[KeyOf(r)].class = r.idea.class /\ table[KeyOf(r)].outcome = findings[r.finding].outcome
           /\ table[KeyOf(r)].fitness = {Fit(r)[m] : m \in {"fitness"} \cap DOMAIN Fit(r)}
  BY ReconciledIsListed, ColumnsAre DEF TableInv
<1>2. Listed = {r \in AllRows : r.idea.class # NoClass}
  BY DEF Listed
<1>3. \A c : ClassRows(c) = {r \in AllRows : r.idea.class = c}
  <2> SUFFICES ASSUME NEW c PROVE ClassRows(c) = {r \in AllRows : r.idea.class = c}
    OBVIOUS
  <2>1. UNION {RowsIn(d) : d \in {i.campaign : i \in ideas}} = AllRows
    <3>1. \A r \in AllRows : r \in RowsIn(r.idea.campaign) /\ r.idea \in ideas
      BY DEF AllRows, RowsIn, IdeasOf, Pair
    <3>2. \A d : RowsIn(d) \subseteq AllRows
      BY DEF AllRows, RowsIn
    <3> QED
      BY <3>1, <3>2
  <2> QED
    BY <2>1 DEF ClassRows
<1>4. {table[k].class : k \in DOMAIN table} = D
  <2>1. ASSUME NEW c \in {table[k].class : k \in DOMAIN table} PROVE c \in D
    <3>1. PICK r \in Listed : c = r.idea.class
      BY <1>1
    <3>2. r \in ClassRows(c) /\ r.idea \in ideas /\ c # NoClass
      BY <1>2, <1>3, <3>1 DEF AllRows, Pair
    <3> QED
      BY <3>1, <3>2
  <2>2. ASSUME NEW c \in D PROVE c \in {table[k].class : k \in DOMAIN table}
    <3>1. ClassRows(c) # {} /\ c # NoClass
      OBVIOUS
    <3>2. PICK r \in AllRows : r.idea.class = c
      BY <1>3, <3>1
    <3>3. r \in Listed
      BY <1>2, <3>1, <3>2
    <3> QED
      BY <1>1, <3>2, <3>3
  <2> QED
    BY <2>1, <2>2
<1>5. ASSUME NEW c, c # NoClass PROVE One(KeysWith("class", c)) = Other(c)
  <2> DEFINE rs == ClassRows(c)
             K == KeysWith("class", c)
             b == [r \in rs |-> KeyOf(r)]
  <2>1. rs \in SUBSET AllRows /\ rs \in SUBSET Pair /\ rs \in SUBSET Listed /\ IsFiniteSet(rs)
    <3>1. rs \in SUBSET AllRows /\ rs \in SUBSET Listed
      BY <1>2, <1>3, <1>5
    <3> QED
      BY <3>1, ViewRows, FS_Subset DEF AllRows, TableInv
  <2>2. K = {KeyOf(r) : r \in rs}
    <3>1. K = {k \in DOMAIN table : table[k].class = c}
      BY DEF KeysWith
    <3>2. \A r \in Listed : r \in rs <=> r.idea.class = c
      BY <1>2, <1>3
    <3> HIDE DEF K, rs
    <3> QED
      BY <1>1, <2>1, <3>1, <3>2
  <2>3. /\ \A r \in rs : b[r] \in K /\ b[r] = KeyOf(r) /\ b[r][1] = r.idea.id
        /\ \A r, s \in rs : b[r] = b[s] => r = s
        /\ \A k \in K : \E r \in rs : k = b[r]
    <3>1. \A r, s \in rs : KeyOf(r) = KeyOf(s) => r = s
      BY <2>1, KeysAreOwn DEF TableInv
    <3> HIDE DEF K
    <3> QED
      BY <2>2, <3>1 DEF KeyOf
  <2>4. \A r \in rs : /\ table[b[r]].outcome = findings[r.finding].outcome
                      /\ table[b[r]].fitness = {Fit(r)[m] : m \in {"fitness"} \cap DOMAIN Fit(r)}
    BY <1>1, <2>1, <2>3
  <2>5. FitRows(c) = {r \in rs : "fitness" \in DOMAIN Fit(r)}
    BY DEF FitRows
  <2> HIDE DEF K, rs, b
  <2>6. Cardinality(K) = Cardinality(rs) /\ IsFiniteSet(K)
    BY <2>1, <2>3, AsMany
  <2>7. Cardinality({k \in K : table[k].outcome = "pass"}) = Cardinality(PassedRows(rs))
    <3> DEFINE P == {k \in K : table[k].outcome = "pass"}
               Q == PassedRows(rs)
    <3>1. Q \in SUBSET rs /\ \A r \in rs : r \in Q <=> findings[r.finding].outcome = "pass"
      BY DEF PassedRows
    <3>2. P \in SUBSET K /\ \A k \in K : k \in P <=> table[k].outcome = "pass"
      OBVIOUS
    <3>3. IsFiniteSet(Q)
      BY <2>1, <3>1, FS_Subset
    <3> HIDE DEF P, Q
    <3>4. /\ \A r \in Q : b[r] \in P
          /\ \A r, s \in Q : b[r] = b[s] => r = s
          /\ \A k \in P : \E r \in Q : k = b[r]
      BY <2>3, <2>4, <3>1, <3>2
    <3>5. Cardinality(P) = Cardinality(Q)
      BY <3>3, <3>4, AsMany
    <3> QED
      BY <3>5 DEF P, Q
  <2>8. Cardinality({k[1] : k \in K}) = Cardinality({r.idea : r \in rs})
    <3> DEFINE I == {r.idea : r \in rs}
               N == {k[1] : k \in K}
               g == [i \in I |-> i.id]
    <3>1. /\ \A r \in rs : r.idea \in I
          /\ \A i \in I : g[i] = i.id /\ \E r \in rs : i = r.idea
          /\ \A n \in N : \E k \in K : n = k[1]
          /\ \A k \in K : k[1] \in N
      OBVIOUS
    <3>2. I \in SUBSET Ideas /\ IsFiniteSet(I)
      <4>1. I \in SUBSET ideas
        BY <2>1, ViewRows DEF TableInv
      <4> QED
        BY <4>1, FS_Subset DEF TableInv, ViewInv
    <3> HIDE DEF I, N, g
    <3>3. \A i \in I : g[i] \in N
      BY <2>3, <3>1
    <3>4. \A i, j \in I : g[i] = g[j] => i = j
      BY <3>1, <3>2, ViewAssumption
    <3>5. \A n \in N : \E i \in I : n = g[i]
      BY <2>3, <3>1
    <3>6. Cardinality(N) = Cardinality(I)
      BY <3>2, <3>3, <3>4, <3>5, AsMany
    <3> QED
      BY <3>6 DEF N, I
  <2>9. Cardinality(AllFit(K)) = Cardinality(FitRows(c)) /\
        SumOfAll([k \in AllFit(K) |-> CHOOSE x \in table[k].fitness : TRUE])
          = SumOfAll([r \in FitRows(c) |-> findings[r.finding].metrics.fitness])
    <3> DEFINE T == AllFit(K)
               S == FitRows(c)
               f == [r \in S |-> findings[r.finding].metrics.fitness]
               g == [k \in T |-> CHOOSE x \in table[k].fitness : TRUE]
    <3>1. /\ S \in SUBSET rs /\ \A r \in rs : r \in S <=> "fitness" \in DOMAIN Fit(r)
          /\ T \in SUBSET K /\ \A k \in K : k \in T <=> table[k].fitness # {}
      BY <2>5
    <3>2. \A r \in S : f[r] = Fit(r).fitness
      OBVIOUS
    <3>3. \A k \in T : g[k] = CHOOSE x \in table[k].fitness : TRUE
      OBVIOUS
    <3>4. f = [r \in S |-> f[r]] /\ g = [k \in T |-> g[k]]
      OBVIOUS
    <3> HIDE DEF T, S
    <3>5. \A r \in S : table[b[r]].fitness = {Fit(r).fitness}
      <4> SUFFICES ASSUME NEW r \in S PROVE table[b[r]].fitness = {Fit(r).fitness}
        OBVIOUS
      <4>1. table[b[r]].fitness = {Fit(r)[m] : m \in {"fitness"} \cap DOMAIN Fit(r)} /\ "fitness" \in DOMAIN Fit(r)
        BY <2>4, <3>1
      <4> HIDE DEF Fit
      <4>2. {"fitness"} \cap DOMAIN Fit(r) = {"fitness"}
        BY <4>1
      <4> QED
        BY <4>1, <4>2
    <3>6. \A r \in rs : r \notin S => table[b[r]].fitness = {}
      BY <2>4, <3>1
    <3>7. \A r \in S : f[r] \in Int
      <4> SUFFICES ASSUME NEW r \in S PROVE Fit(r).fitness \in Int
        BY <3>2
      <4>1. r \in Pair /\ "fitness" \in DOMAIN Fit(r)
        BY <2>1, <3>1
      <4> QED
        BY <4>1, ViewRows, FindingsAre, ViewAssumption DEF TableInv
    <3>8. \A r \in S : b[r] \in T /\ g[b[r]] = f[r]
      <4> SUFFICES ASSUME NEW r \in S PROVE b[r] \in T /\ g[b[r]] = f[r]
        OBVIOUS
      <4>1. table[b[r]].fitness = {f[r]} /\ b[r] \in K
        BY <2>3, <3>1, <3>2, <3>5
      <4>2. b[r] \in T
        BY <3>1, <4>1
      <4>3. g[b[r]] = CHOOSE x \in {f[r]} : TRUE
        BY <3>3, <4>1, <4>2
      <4> HIDE DEF f, g
      <4> QED
        BY <4>2, <4>3
    <3> HIDE DEF f, g, Fit
    <3>9. /\ \A r, s \in S : b[r] = b[s] => r = s
          /\ \A k \in T : \E r \in S : k = b[r]
      BY <2>3, <3>1, <3>6
    <3>10. IsFiniteSet(S) /\ IsFiniteSet(T)
      BY <2>1, <2>6, <3>1, FS_Subset
    <3>11. SumOn(f, S) = SumOn(g, T)
      BY <3>7, <3>8, <3>9, <3>10, SumAlike
    <3>12. Cardinality(T) = Cardinality(S)
      BY <3>8, <3>9, <3>10, AsMany
    <3>13. SumOfAll(f) = SumOfAll(g)
      BY <3>4, <3>11 DEF SumOn
    <3> QED
      BY <3>12, <3>13 DEF T, S, f, g
  <2> HIDE DEF AllFit, Fit
  <2>10. rs = ClassRows(c) /\ K = KeysWith("class", c)
    BY DEF rs, K
  <2> QED
    BY <2>6, <2>7, <2>8, <2>9, <2>10
<1>6. Classes = [c \in {table[k].class : k \in DOMAIN table} |-> One(KeysWith("class", c))]
  BY DEF Classes
<1>7. SummarizeClasses = [c \in D |-> Other(c)]
  BY DEF SummarizeClasses
<1>8. \A c \in D : One(KeysWith("class", c)) = Other(c)
  BY <1>5
<1> HIDE DEF One, Other, D
<1> QED
  BY <1>4, <1>6, <1>7, <1>8

(* A stored table is only ever behind the evidence; one that was written to *)
(* by hand never reconciles, and one that reconciles says of artifacts,    *)
(* frontiers and classes what the evidence says, however many calls record *)
(* evidence, rebuild it and spoil it in between (reconcile of              *)
(* selection/productivity.py, pareto_archive.py and mutation_archive.py).  *)
THEOREM TablesCorrect == TablesSpec => []TablesTellDrift
<1>1. TableInv => TablesTellDrift
  BY OnlyBehind, SpoiledIsTold, SummaryAgrees, FrontierAgrees, ClassesAgree DEF TablesTellDrift
<1>2. ViewInit /\ TablesInit => TableInv
  BY TableStarts
<1>3. TableInv /\ [TableStep]_<<viewVars, tableVars>> => TableInv'
  BY TableMoves
<1> QED
  BY <1>1, <1>2, <1>3, PTL DEF TablesSpec

-----------------------------------------------------------------------------
(* Experiments *)
AnalysisSpec == AnalysisInit /\ [][AnalysisNext]_analysisVars

(* More of sums: of two parts, of what is shared out by a key, of differences *)
LEMMA SumJoins ==
  ASSUME NEW S, IsFiniteSet(S), NEW f, \A x \in S : f[x] \in Int,
         NEW A \in SUBSET S, NEW B \in SUBSET S, A \cap B = {}
  PROVE  SumOn(f, A \cup B) = SumOn(f, A) + SumOn(f, B)
<1> DEFINE Both(W) == A \cup W
           Adds(W) == SumOn(f, Both(W)) = SumOn(f, A) + SumOn(f, W)
           F == {W \in SUBSET B : Adds(W)}
<1>0. \A W : W \in F <=> W \in SUBSET B /\ Adds(W)
  <2> HIDE DEF Adds
  <2> QED
    OBVIOUS
<1> HIDE DEF F
<1>1. {} \in F
  <2>1. Both({}) = A /\ SumOn(f, {}) = 0 /\ SumOn(f, A) \in Int
    BY SumsStep
  <2> HIDE DEF Both
  <2> QED
    BY <1>0, <2>1
<1>2. ASSUME NEW W \in SUBSET B, NEW x \in B, W \in F, x \notin W PROVE W \cup {x} \in F
  <2> DEFINE U == W \cup {x}
             V == Both(W) \cup {x}
  <2>1. /\ Both(W) \in SUBSET S /\ x \in S \ Both(W) /\ W \in SUBSET S /\ x \in S \ W
        /\ V = Both(U) /\ U \in SUBSET B
    BY <1>2
  <2> HIDE DEF Both
  <2>2. /\ SumOn(f, V) = SumOn(f, Both(W)) + f[x]
        /\ SumOn(f, U) = SumOn(f, W) + f[x]
        /\ SumOn(f, A) \in Int /\ SumOn(f, W) \in Int /\ f[x] \in Int
    BY <2>1, SumsStep
  <2>3. SumOn(f, Both(W)) = SumOn(f, A) + SumOn(f, W)
    BY <1>0, <1>2
  <2> HIDE DEF U, V
  <2>4. Adds(U)
    BY <2>1, <2>2, <2>3
  <2> HIDE DEF Adds
  <2>5. U \in F
    BY <1>0, <2>1, <2>4
  <2> QED
    BY <2>5 DEF U
<1>3. IsFiniteSet(B)
  BY FS_Subset
<1>4. B \in F
  BY <1>1, <1>2, <1>3, SubsetInduction
<1>5. Adds(B)
  <2> HIDE DEF Adds
  <2> QED
    BY <1>0, <1>4
<1> QED
  BY <1>5

KeyedBy(v, R, q) == {r \in R : q[r] = v}

LEMMA SumsShared ==
  ASSUME NEW R, IsFiniteSet(R), NEW f, \A x \in R : f[x] \in Int, NEW V, IsFiniteSet(V), NEW q, NEW g,
         \A v \in V : g[v] = SumOn(f, KeyedBy(v, R, q)), \A r \in R : q[r] \in V
  PROVE  SumOn(g, V) = SumOn(f, R)
<1> USE DEF KeyedBy
<1> DEFINE Share(W) == {r \in R : q[r] \in W}
           One(v) == {r \in R : q[r] = v}
           F == {W \in SUBSET V : SumOn(g, W) = SumOn(f, Share(W))}
<1>1. \A v \in V : g[v] = SumOn(f, One(v)) /\ g[v] \in Int
  <2> SUFFICES ASSUME NEW v \in V PROVE g[v] = SumOn(f, One(v)) /\ g[v] \in Int
    OBVIOUS
  <2>1. g[v] = SumOn(f, One(v)) /\ One(v) \in SUBSET R
    OBVIOUS
  <2> HIDE DEF One
  <2> QED
    BY <2>1, SumsStep
<1>2. {} \in F
  <2>1. Share({}) = {}
    OBVIOUS
  <2>2. SumOn(g, {}) = 0 /\ SumOn(f, {}) = 0
    BY <1>1, SumsStep
  <2> HIDE DEF Share
  <2> QED
    BY <2>1, <2>2
<1>3. ASSUME NEW W \in SUBSET V, NEW v \in V, W \in F, v \notin W PROVE W \cup {v} \in F
  <2>1. /\ Share(W \cup {v}) = Share(W) \cup One(v) /\ Share(W) \cap One(v) = {}
        /\ Share(W) \in SUBSET R /\ One(v) \in SUBSET R
    BY <1>3
  <2> HIDE DEF Share, One
  <2>2. SumOn(f, Share(W) \cup One(v)) = SumOn(f, Share(W)) + SumOn(f, One(v))
    BY <2>1, SumJoins
  <2>3. SumOn(g, W \cup {v}) = SumOn(g, W) + g[v]
    BY <1>1, <1>3, SumsStep
  <2>4. SumOn(g, W) = SumOn(f, Share(W)) /\ W \cup {v} \in SUBSET V
    BY <1>3
  <2> QED
    BY <1>1, <2>1, <2>2, <2>3, <2>4
<1>4. V \in F
  <2> HIDE DEF F
  <2> QED
    BY <1>2, <1>3, SubsetInduction
<1>5. Share(V) = R
  OBVIOUS
<1> HIDE DEF Share
<1> QED
  BY <1>4, <1>5

LEMMA SumsApart ==
  ASSUME NEW S, IsFiniteSet(S), NEW f, \A x \in S : f[x] \in Int, NEW g, \A x \in S : g[x] \in Int,
         NEW d, \A x \in S : d[x] = f[x] - g[x]
  PROVE  SumOn(d, S) = SumOn(f, S) - SumOn(g, S)
<1> DEFINE F == {W \in SUBSET S : SumOn(d, W) = SumOn(f, W) - SumOn(g, W)}
<1>1. \A x \in S : d[x] \in Int
  OBVIOUS
<1>2. {} \in F
  <2>1. SumOn(d, {}) = 0 /\ SumOn(f, {}) = 0 /\ SumOn(g, {}) = 0
    BY <1>1, SumsStep
  <2> QED
    BY <2>1
<1>3. ASSUME NEW W \in SUBSET S, NEW x \in S, W \in F, x \notin W PROVE W \cup {x} \in F
  <2>1. SumOn(d, W \cup {x}) = SumOn(d, W) + d[x]
    BY <1>1, <1>3, SumsStep
  <2>2. SumOn(f, W \cup {x}) = SumOn(f, W) + f[x] /\ SumOn(f, W) \in Int
    BY <1>3, SumsStep
  <2>3. SumOn(g, W \cup {x}) = SumOn(g, W) + g[x] /\ SumOn(g, W) \in Int
    BY <1>3, SumsStep
  <2>4. f[x] \in Int /\ g[x] \in Int /\ d[x] = f[x] - g[x] /\ SumOn(d, W) = SumOn(f, W) - SumOn(g, W)
    BY <1>3
  <2>5. SumOn(d, W \cup {x}) = SumOn(f, W \cup {x}) - SumOn(g, W \cup {x})
    BY <2>1, <2>2, <2>3, <2>4
  <2> QED
    BY <1>3, <2>5
<1>4. S \in F
  <2> HIDE DEF F
  <2> QED
    BY <1>2, <1>3, SubsetInduction
<1> QED
  BY <1>4

LEMMA SumSign ==
  ASSUME NEW S, IsFiniteSet(S), NEW f, \A x \in S : f[x] \in Int
  PROVE  /\ (\A x \in S : f[x] <= 0) => SumOn(f, S) <= 0
         /\ (\A x \in S : f[x] >= 0) => SumOn(f, S) >= 0
<1> DEFINE F == {W \in SUBSET S : /\ (\A x \in S : f[x] <= 0) => SumOn(f, W) <= 0
                                  /\ (\A x \in S : f[x] >= 0) => SumOn(f, W) >= 0}
<1>1. {} \in F
  <2>1. SumOn(f, {}) = 0
    BY SumsStep
  <2> QED
    BY <2>1
<1>2. ASSUME NEW W \in SUBSET S, NEW x \in S, W \in F, x \notin W PROVE W \cup {x} \in F
  <2>1. SumOn(f, W \cup {x}) = SumOn(f, W) + f[x] /\ SumOn(f, W) \in Int /\ f[x] \in Int
    BY <1>2, SumsStep
  <2>2. /\ (\A y \in S : f[y] <= 0) => SumOn(f, W) <= 0
        /\ (\A y \in S : f[y] >= 0) => SumOn(f, W) >= 0
    BY <1>2
  <2>3. /\ (\A y \in S : f[y] <= 0) => SumOn(f, W \cup {x}) <= 0
        /\ (\A y \in S : f[y] >= 0) => SumOn(f, W \cup {x}) >= 0
    BY <2>1, <2>2
  <2> QED
    BY <1>2, <2>3
<1>3. S \in F
  <2> HIDE DEF F
  <2> QED
    BY <1>1, <1>2, SubsetInduction
<1> QED
  BY <1>3

LEMMA SumOverIs ==
  ASSUME NEW f
  PROVE  /\ SumOver(f) = SumOfAll(f)
         /\ f = [x \in DOMAIN f |-> f[x]] => SumOver(f) = SumOn(f, DOMAIN f)
<1>1. SumOver(f) = SumOfAll(f)
  BY DEF SumOver, SumOfAll
<1> QED
  BY <1>1 DEF SumOn

(* Whole parts *)
LEMMA WholeParts ==
  ASSUME NEW m \in Nat, NEW p \in Nat \ {0}
  PROVE  (m \div p) \in Nat /\ (m \div p) * p <= m /\ (m % p) \in 0..(p - 1)
OBVIOUS

LEMMA PartBelow ==
  ASSUME NEW m \in Nat, NEW p \in Nat \ {0}, NEW k \in Nat, m < p * k
  PROVE  (m \div p) \in 0..(k - 1)
<1> DEFINE d == m \div p
<1>1. d \in Nat /\ d * p <= m
  BY WholeParts
<1> HIDE DEF d
<1>2. CASE k <= d
  <2>1. k * p <= d * p
    BY <1>1, <1>2, Across
  <2>2. k * p = p * k /\ k * p \in Int /\ d * p \in Int
    BY <1>1
  <2> QED
    BY <1>1, <2>1, <2>2
<1>3. CASE d < k
  BY <1>1, <1>3
<1>4. d \in 0..(k - 1)
  BY <1>1, <1>2, <1>3
<1> QED
  BY <1>4 DEF d

(* The invariant *)
Ready(e) == e \in ExperimentDrafts /\ ArmsSound(e) /\ FamilySound(e) /\ StatisticsSound(e)
IsTuple(s) == \E S : s \in Seq(S)
TaskIn(id) == \E i \in DOMAIN tasksNow : tasksNow[i].id = id
RunSound(r) == r.score \in {0, 1} /\ r.seed \in 0..(experimentNow.seeds - 1) /\ TaskIn(r.task)
Compared(i, ci) ==
  [arm |-> IdOf(i), ci |-> ci, delta |-> SumOver(Differences(IdOf(i))), verdict |-> VerdictOn(ci)]
ComparedWhole ==
  /\ Candidates(experimentNow) # {} /\ Len(runLog) = Cells /\ tasksNow # <<>>
  /\ \E cis : /\ DOMAIN cis = Candidates(experimentNow)
              /\ \A i \in Candidates(experimentNow) : cis[i] \in IntervalsOf(IdOf(i))
              /\ resultNow.compared = [i \in Candidates(experimentNow) |-> Compared(i, cis[i])]
              /\ resultNow.alpha = PerComparison(experimentNow)
TasksOpen ==
  /\ TaskSetSound(tasksNow) /\ IsTuple(tasksNow)
  /\ \E p \in UNION TaskSources : p.kind \notin {"holdout", "canary"} /\ tasksNow = p.tasks
AnalysisInv ==
  /\ experimentNow = NoExperiment \/ Ready(experimentNow)
  /\ experimentNow = NoExperiment => tasksNow = <<>>
  /\ tasksNow = <<>> => runLog = <<>>
  /\ tasksNow # <<>> => TasksOpen
  /\ IsTuple(runLog) /\ \A n \in DOMAIN runLog : RunSound(runLog[n])
  /\ resultNow # NoComparison => ComparedWhole
  /\ contributionAt # NothingKept =>
       /\ resultNow # NoComparison /\ contributionAt.address = MarginalContributions
       /\ DOMAIN contributionAt = {"address", "bytes"}
  /\ contributions.loaded => resultNow # NoComparison /\ contributions.records = MarginalContributions

LEMMA AnalysisStarts ==
  AnalysisInit => AnalysisInv
<1> SUFFICES ASSUME AnalysisInit PROVE AnalysisInv
  OBVIOUS
<1>1. /\ experimentNow = NoExperiment /\ tasksNow = <<>> /\ runLog = <<>> /\ resultNow = NoComparison
      /\ contributionAt = NothingKept /\ ~contributions.loaded
  BY DEF AnalysisInit, NotLoaded
<1>2. runLog \in Seq({}) /\ DOMAIN runLog = {}
  BY <1>1
<1> QED
  BY <1>1, <1>2 DEF AnalysisInv, IsTuple

LEMMA CellsAre ==
  ASSUME AnalysisInv, tasksNow # <<>>, Len(runLog) < Cells
  PROVE  /\ CellAt(Len(runLog)).seed \in 0..(experimentNow.seeds - 1)
         /\ TaskIn(CellAt(Len(runLog)).task)
<1> DEFINE p == Len(tasksNow)
           k == experimentNow.seeds
           a == Len(experimentNow.arms)
           n == Len(runLog)
           q == p * k
<1>1. experimentNow # NoExperiment /\ experimentNow \in ExperimentDrafts /\ StatisticsSound(experimentNow)
  BY DEF AnalysisInv, Ready
<1>2. p \in Nat \ {0} /\ DOMAIN tasksNow = 1..p
  <2>1. IsTuple(tasksNow)
    BY DEF AnalysisInv, TasksOpen
  <2>2. PICK S : tasksNow \in Seq(S)
    BY <2>1 DEF IsTuple
  <2> QED
    BY <2>2
<1>3. k \in Nat /\ a \in Nat
  BY <1>1, AnalysisAssumption DEF StatisticsSound
<1>4. n \in Nat
  BY DEF AnalysisInv, IsTuple
<1>5. CellAt(n).seed = (n % q) \div p /\ CellAt(n).task = tasksNow[(n % p) + 1].id
  BY DEF CellAt
<1>6. n < a * k * p
  BY DEF Cells
<1> HIDE DEF p, k, a, n
<1>7. k # 0
  BY <1>2, <1>3, <1>4, <1>6
<1>8. q \in Nat \ {0}
  BY <1>2, <1>3, <1>7
<1> HIDE DEF q
<1>9. (n % q) \in 0..(q - 1)
  BY <1>4, <1>8, WholeParts
<1>10. ((n % q) \div p) \in 0..(k - 1)
  <2> DEFINE m == n % q
  <2>1. m \in Nat /\ m < q
    BY <1>8, <1>9
  <2> HIDE DEF m
  <2>2. (m \div p) \in 0..(k - 1)
    BY <1>2, <1>3, <2>1, PartBelow DEF q
  <2> QED
    BY <2>2 DEF m
<1>11. (n % p) + 1 \in DOMAIN tasksNow
  <2>1. (n % p) \in 0..(p - 1)
    BY <1>2, <1>4, WholeParts
  <2> QED
    BY <1>2, <2>1
<1> QED
  BY <1>5, <1>10, <1>11 DEF TaskIn, n, k

LEMMA AnalysisMoves ==
  ASSUME AnalysisInv, [AnalysisNext]_analysisVars
  PROVE  AnalysisInv'
<1>1. CASE DeclareExperiment
  <2>1. PICK e \in ExperimentDrafts : ArmsSound(e) /\ FamilySound(e) /\ StatisticsSound(e) /\ experimentNow' = e
    BY <1>1 DEF DeclareExperiment
  <2>2. /\ experimentNow = NoExperiment /\ tasksNow = <<>> /\ runLog = <<>>
        /\ UNCHANGED <<tasksNow, runLog, resultNow, contributionAt, contributions>>
    BY <1>1 DEF DeclareExperiment, AnalysisInv
  <2>3. resultNow = NoComparison /\ contributionAt = NothingKept /\ ~contributions.loaded
    BY <2>2 DEF AnalysisInv, ComparedWhole
  <2>4. Ready(experimentNow')
    BY <2>1 DEF Ready
  <2>5. IsTuple(runLog)' /\ DOMAIN runLog' = {}
    BY <2>2 DEF AnalysisInv, IsTuple
  <2> QED
    BY <2>2, <2>3, <2>4, <2>5 DEF AnalysisInv, Ready
<1>2. CASE LoadTasks
  <2>1. PICK p \in UNION TaskSources :
               Unsealed(p.kind) /\ TaskSetSound(p.tasks) /\ tasksNow' = p.tasks
    BY <1>2 DEF LoadTasks, PartitionsOf
  <2>2. /\ experimentNow # NoExperiment /\ tasksNow = <<>> /\ runLog = <<>>
        /\ UNCHANGED <<experimentNow, runLog, resultNow, contributionAt, contributions>>
    BY <1>2 DEF LoadTasks, AnalysisInv
  <2>3. resultNow = NoComparison /\ contributionAt = NothingKept /\ ~contributions.loaded
    BY <2>2 DEF AnalysisInv, ComparedWhole
  <2>4. TasksOpen'
    <3>1. p.tasks \in Seq(Range(p.tasks))
      BY AnalysisAssumption
    <3>2. IsTuple(p.tasks) /\ p \in UNION TaskSources
      BY <3>1 DEF IsTuple
    <3> QED
      BY <2>1, <3>2 DEF TasksOpen, Unsealed, IsTuple, TaskSetSound
  <2>5. IsTuple(runLog)' /\ DOMAIN runLog' = {}
    BY <2>2 DEF AnalysisInv, IsTuple
  <2>6. Ready(experimentNow')
    BY <2>2 DEF AnalysisInv, Ready
  <2> QED
    BY <2>2, <2>3, <2>4, <2>5, <2>6 DEF AnalysisInv, Ready
<1>3. CASE RunCell
  <2>1. PICK score \in {0, 1} :
               runLog' = Append(runLog, [arm |-> CellAt(Len(runLog)).arm, seed |-> CellAt(Len(runLog)).seed,
                                         task |-> CellAt(Len(runLog)).task, score |-> score])
    BY <1>3 DEF RunCell
  <2>2. /\ tasksNow # <<>> /\ Len(runLog) < Cells
        /\ UNCHANGED <<experimentNow, tasksNow, resultNow, contributionAt, contributions>>
    BY <1>3 DEF RunCell
  <2>3. resultNow = NoComparison /\ contributionAt = NothingKept /\ ~contributions.loaded
    <3>1. Len(runLog) \in Nat
      BY DEF AnalysisInv, IsTuple
    <3> QED
      BY <2>2, <3>1 DEF AnalysisInv, ComparedWhole
  <2> DEFINE cell == CellAt(Len(runLog))
             r == [arm |-> cell.arm, seed |-> cell.seed, task |-> cell.task, score |-> score]
  <2>4. runLog' = Append(runLog, r)
    BY <2>1
  <2>5. cell.seed \in 0..(experimentNow.seeds - 1) /\ TaskIn(cell.task)
    BY <2>2, CellsAre
  <2> HIDE DEF cell
  <2>6. r.seed = cell.seed /\ r.task = cell.task /\ r.score = score
    OBVIOUS
  <2> HIDE DEF r
  <2>7. RunSound(r)
    BY <2>5, <2>6 DEF RunSound
  <2>8. IsTuple(runLog') /\ \A n \in DOMAIN runLog' : RunSound(runLog'[n])
    <3>1. PICK S : runLog \in Seq(S)
      BY DEF AnalysisInv, IsTuple
    <3> DEFINE T == S \cup {r}
    <3>2. runLog \in Seq(T) /\ r \in T
      BY <3>1
    <3> HIDE DEF T
    <3>3. runLog' \in Seq(T)
      BY <2>4, <3>2
    <3>4. \A n \in DOMAIN runLog' : runLog'[n] = r \/ (n \in DOMAIN runLog /\ runLog'[n] = runLog[n])
      BY <2>4, <3>2
    <3>5. IsTuple(runLog')
      BY <3>3 DEF IsTuple
    <3>6. \A n \in DOMAIN runLog : RunSound(runLog[n])
      BY DEF AnalysisInv
    <3> QED
      BY <2>7, <3>4, <3>5, <3>6
  <2>10. TasksOpen' /\ (experimentNow' = NoExperiment \/ Ready(experimentNow'))
    BY <2>2 DEF AnalysisInv, TasksOpen, IsTuple, TaskSetSound, Ready
  <2>11. experimentNow' # NoExperiment /\ tasksNow' # <<>>
    BY <2>2 DEF AnalysisInv
  <2>12. (\A n \in DOMAIN runLog : RunSound(runLog[n]))'
    BY <2>2, <2>8 DEF RunSound, TaskIn
  <2>13. (IsTuple(runLog))'
    BY <2>8 DEF IsTuple
  <2> QED
    BY <2>2, <2>3, <2>10, <2>11, <2>12, <2>13 DEF AnalysisInv
<1>4. CASE BackendBreaks
  <2>1. /\ Len(runLog) < Cells /\ runLog' = <<>> /\ tasksNow' = <<>>
        /\ UNCHANGED <<experimentNow, resultNow, contributionAt, contributions>>
    BY <1>4 DEF BackendBreaks
  <2>2. resultNow = NoComparison /\ contributionAt = NothingKept /\ ~contributions.loaded
    <3>1. Len(runLog) \in Nat
      BY DEF AnalysisInv, IsTuple
    <3> QED
      BY <2>1, <3>1 DEF AnalysisInv, ComparedWhole
  <2>3. IsTuple(runLog)' /\ DOMAIN runLog' = {}
    <3>1. runLog' \in Seq({})
      BY <2>1
    <3> QED
      BY <2>1, <3>1 DEF IsTuple
  <2>4. experimentNow' = NoExperiment \/ Ready(experimentNow')
    BY <2>1 DEF AnalysisInv, Ready
  <2> QED
    BY <2>1, <2>2, <2>3, <2>4 DEF AnalysisInv, Ready
<1>5. CASE Summarize
  <2>1. PICK cis \in [Candidates(experimentNow) -> UNION {IntervalsOf(IdOf(i)) : i \in Candidates(experimentNow)}] :
          /\ \A i \in DOMAIN cis : cis[i] \in IntervalsOf(IdOf(i))
          /\ resultNow' =
               [compared |-> [i \in DOMAIN cis |->
                  [arm |-> IdOf(i), ci |-> cis[i], delta |-> SumOver(Differences(IdOf(i))),
                   verdict |-> VerdictOn(cis[i])]],
                alpha |-> PerComparison(experimentNow)]
    BY <1>5 DEF Summarize
  <2>2. /\ tasksNow # <<>> /\ Len(runLog) = Cells /\ Candidates(experimentNow) # {} /\ resultNow = NoComparison
        /\ UNCHANGED <<experimentNow, tasksNow, runLog, contributionAt, contributions>>
    BY <1>5 DEF Summarize
  <2>3. contributionAt = NothingKept /\ ~contributions.loaded
    BY <2>2 DEF AnalysisInv
  <2> DEFINE all == [i \in Candidates(experimentNow) |-> Compared(i, cis[i])]
             part == PerComparison(experimentNow)
  <2>4. DOMAIN cis = Candidates(experimentNow)
    BY <2>1
  <2>5. resultNow' = [compared |-> all, alpha |-> part]
    BY <2>1, <2>4 DEF Compared
  <2> HIDE DEF all, part
  <2>6. resultNow'.compared = all /\ resultNow'.alpha = part
    BY <2>5
  <2>7. /\ all = [i \in Candidates(experimentNow) |-> Compared(i, cis[i])]
        /\ part = PerComparison(experimentNow)
    BY DEF all, part
  <2>8. /\ \A i : IdOf(i)' = IdOf(i)
        /\ \A x : Differences(x)' = Differences(x)
        /\ \A x : IntervalsOf(x)' = IntervalsOf(x)
        /\ Cells' = Cells
    <3>1. \A x : Differences(x)' = Differences(x)
      <4>1. \A x : Aligned(x)' = Aligned(x)
        BY <2>2 DEF Aligned, ScoreOf, SumScores, RunsOf
      <4> QED
        BY <2>2, <4>1 DEF Differences
    <3>2. \A x : Resampled(x)' = Resampled(x)
      <4>1. tasksNow' = tasksNow
        BY <2>2
      <4> QED
        BY <3>1, <4>1, Zenon DEF Resampled
    <3> QED
      BY <2>2, <3>1, <3>2 DEF IdOf, IntervalsOf, Cells
  <2>9. \A i, ci : Compared(i, ci)' = Compared(i, ci)
    BY <2>8 DEF Compared
  <2>10. ComparedWhole'
    <3>1. \A i \in Candidates(experimentNow) : cis[i] \in IntervalsOf(IdOf(i))
      BY <2>1, <2>4
    <3> QED
      BY <2>2, <2>4, <2>6, <2>7, <2>8, <2>9, <3>1 DEF ComparedWhole
  <2>11. (TasksOpen /\ (experimentNow = NoExperiment \/ Ready(experimentNow)))'
    BY <2>2 DEF AnalysisInv, TasksOpen, IsTuple, TaskSetSound, Ready
  <2>12. (IsTuple(runLog) /\ \A n \in DOMAIN runLog : RunSound(runLog[n]))'
    BY <2>2 DEF AnalysisInv, IsTuple, RunSound, TaskIn
  <2> QED
    BY <2>2, <2>3, <2>10, <2>11, <2>12 DEF AnalysisInv
<1>6. ASSUME UNCHANGED <<experimentNow, tasksNow, runLog, resultNow>>
      PROVE  /\ MarginalContributions' = MarginalContributions
             /\ (TasksOpen' <=> TasksOpen) /\ (ComparedWhole' <=> ComparedWhole)
             /\ (experimentNow = NoExperiment \/ Ready(experimentNow))'
             /\ (IsTuple(runLog) /\ \A n \in DOMAIN runLog : RunSound(runLog[n]))'
  <2>1. MarginalContributions' = MarginalContributions
    BY <1>6 DEF MarginalContributions, ContributionOf
  <2>2. TasksOpen' <=> TasksOpen
    BY <1>6 DEF TasksOpen, IsTuple
  <2>3. (experimentNow = NoExperiment \/ Ready(experimentNow))'
    BY <1>6 DEF AnalysisInv, Ready
  <2>4. (IsTuple(runLog) /\ \A n \in DOMAIN runLog : RunSound(runLog[n]))'
    BY <1>6 DEF AnalysisInv, IsTuple, RunSound, TaskIn
  <2>5. ComparedWhole' <=> ComparedWhole
    <3>1. \A x : Differences(x)' = Differences(x)
      <4>1. \A x : Aligned(x)' = Aligned(x)
        BY <1>6 DEF Aligned, ScoreOf, SumScores, RunsOf
      <4> QED
        BY <1>6, <4>1 DEF Differences
    <3>2. \A x : Resampled(x)' = Resampled(x)
      <4>1. tasksNow' = tasksNow
        BY <1>6
      <4> QED
        BY <3>1, <4>1, Zenon DEF Resampled
    <3>3. /\ \A i : IdOf(i)' = IdOf(i)
          /\ \A x : IntervalsOf(x)' = IntervalsOf(x)
          /\ Cells' = Cells
      BY <1>6, <3>1, <3>2 DEF IdOf, IntervalsOf, Cells
    <3>4. \A i, ci : Compared(i, ci)' = Compared(i, ci)
      BY <3>1, <3>3 DEF Compared
    <3> QED
      BY <1>6, <3>3, <3>4 DEF ComparedWhole
  <2> QED
    BY <2>1, <2>2, <2>3, <2>4, <2>5
<1>7. CASE PersistContributions
  <2>1. /\ resultNow # NoComparison /\ UNCHANGED <<experimentNow, tasksNow, runLog, resultNow, contributions>>
        /\ contributionAt' = [address |-> MarginalContributions, bytes |-> MarginalContributions]
    BY <1>7 DEF PersistContributions
  <2>2. contributionAt'.address = MarginalContributions /\ DOMAIN contributionAt' = {"address", "bytes"}
    BY <2>1
  <2> QED
    BY <1>6, <2>1, <2>2 DEF AnalysisInv
<1>8. CASE DamageContributions
  <2>1. PICK i \in DOMAIN contributionAt.bytes :
               contributionAt' = [contributionAt EXCEPT !.bytes = Restrict(@, DOMAIN @ \ {i})]
    BY <1>8 DEF DamageContributions
  <2>2. contributionAt # NothingKept /\ UNCHANGED <<experimentNow, tasksNow, runLog, resultNow, contributions>>
    BY <1>8 DEF DamageContributions
  <2>3. contributionAt.address = MarginalContributions /\ DOMAIN contributionAt = {"address", "bytes"}
    BY <2>2 DEF AnalysisInv
  <2>4. contributionAt'.address = MarginalContributions /\ DOMAIN contributionAt' = {"address", "bytes"}
    BY <2>1, <2>3
  <2> QED
    BY <1>6, <2>2, <2>4 DEF AnalysisInv
<1>9. CASE LoadContributions
  <2>1. /\ contributionAt # NothingKept /\ contributionAt.bytes = contributionAt.address
        /\ contributions' = [loaded |-> TRUE, records |-> contributionAt.bytes]
        /\ UNCHANGED <<experimentNow, tasksNow, runLog, resultNow, contributionAt>>
    BY <1>9 DEF LoadContributions, HashesToAddress
  <2>2. contributions'.records = contributionAt.address
    BY <2>1
  <2> QED
    BY <1>6, <2>1, <2>2 DEF AnalysisInv
<1>10. CASE UNCHANGED analysisVars
  <2>1. UNCHANGED <<experimentNow, tasksNow, runLog, resultNow, contributionAt, contributions>>
    BY <1>10 DEF analysisVars
  <2> QED
    BY <1>6, <2>1 DEF AnalysisInv
<1> QED
  BY <1>1, <1>2, <1>3, <1>4, <1>5, <1>7, <1>8, <1>9, <1>10 DEF AnalysisNext

(* What the runs add up to: each has one task, one seed and one slice *)
Scores == [n \in DOMAIN runLog |-> runLog[n].score]

LEMMA RunsAre ==
  ASSUME AnalysisInv
  PROVE  /\ IsFiniteSet(DOMAIN runLog) /\ IsFiniteSet(DOMAIN tasksNow)
         /\ \A n \in DOMAIN runLog : Scores[n] \in Int
         /\ \A arm : RunsOf(arm) \in SUBSET DOMAIN runLog /\ IsFiniteSet(RunsOf(arm))
         /\ \A n \in DOMAIN runLog : \E i \in DOMAIN tasksNow :
              /\ tasksNow[i].id = runLog[n].task
              /\ \A j \in DOMAIN tasksNow : tasksNow[j].id = runLog[n].task => j = i
<1>1. IsFiniteSet(DOMAIN runLog)
  <2>1. PICK S : runLog \in Seq(S)
    BY DEF AnalysisInv, IsTuple
  <2> QED
    BY <2>1, FS_Interval
<1>2. IsFiniteSet(DOMAIN tasksNow)
  <2>1. CASE tasksNow = <<>>
    <3>1. DOMAIN tasksNow = {}
      BY <2>1
    <3> QED
      BY <3>1, FS_EmptySet
  <2>2. CASE tasksNow # <<>>
    <3>1. PICK S : tasksNow \in Seq(S)
      BY <2>2 DEF AnalysisInv, TasksOpen, IsTuple
    <3> QED
      BY <3>1, FS_Interval
  <2> QED
    BY <2>1, <2>2
<1>3. \A n \in DOMAIN runLog : Scores[n] \in Int /\ TaskIn(runLog[n].task)
  BY DEF Scores, AnalysisInv, RunSound
<1>4. \A arm : RunsOf(arm) \in SUBSET DOMAIN runLog /\ IsFiniteSet(RunsOf(arm))
  <2> SUFFICES ASSUME NEW arm PROVE RunsOf(arm) \in SUBSET DOMAIN runLog /\ IsFiniteSet(RunsOf(arm))
    OBVIOUS
  <2>1. RunsOf(arm) \in SUBSET DOMAIN runLog
    BY DEF RunsOf
  <2> QED
    BY <1>1, <2>1, FS_Subset
<1>5. ASSUME NEW n \in DOMAIN runLog
      PROVE  \E i \in DOMAIN tasksNow :
                /\ tasksNow[i].id = runLog[n].task
                /\ \A j \in DOMAIN tasksNow : tasksNow[j].id = runLog[n].task => j = i
  <2>1. PICK i \in DOMAIN tasksNow : tasksNow[i].id = runLog[n].task
    BY <1>3 DEF TaskIn
  <2>2. tasksNow # <<>>
    BY <2>1
  <2>3. TaskSetSound(tasksNow)
    BY <2>2 DEF AnalysisInv, TasksOpen
  <2> QED
    BY <2>1, <2>3 DEF TaskSetSound
<1> QED
  BY <1>1, <1>2, <1>3, <1>4, <1>5

LEMMA ScoresAre ==
  ASSUME NEW W \in SUBSET DOMAIN runLog
  PROVE  SumScores(W) = SumOn(Scores, W)
<1> DEFINE f == [n \in W |-> runLog[n].score]
           g == [n \in W |-> Scores[n]]
<1>1. f = g
  BY DEF Scores
<1>2. SumScores(W) = SumOver(f) /\ SumOn(Scores, W) = SumOfAll(g)
  BY DEF SumScores, SumOn
<1> HIDE DEF f, g
<1> QED
  BY <1>1, <1>2, SumOverIs

(* a run counts for the one task it is of *)
LEMMA TasksAddUp ==
  ASSUME AnalysisInv, NEW arm
  PROVE  /\ \A i \in DOMAIN tasksNow : Aligned(arm)[i] \in Int
         /\ SumOn(Aligned(arm), DOMAIN tasksNow) = SumScores(RunsOf(arm))
<1> DEFINE R == RunsOf(arm)
           V == DOMAIN tasksNow
           q == [n \in R |-> CHOOSE i \in V : tasksNow[i].id = runLog[n].task]
           g == Aligned(arm)
<1>1. R \in SUBSET DOMAIN runLog /\ IsFiniteSet(R) /\ IsFiniteSet(V) /\ \A n \in R : Scores[n] \in Int
  BY RunsAre
<1>2. \A n \in R : q[n] \in V /\ \A i \in V : tasksNow[i].id = runLog[n].task <=> q[n] = i
  <2> SUFFICES ASSUME NEW n \in R
               PROVE  q[n] \in V /\ \A i \in V : tasksNow[i].id = runLog[n].task <=> q[n] = i
    OBVIOUS
  <2>1. PICK i \in V : /\ tasksNow[i].id = runLog[n].task
                       /\ \A j \in V : tasksNow[j].id = runLog[n].task => j = i
    BY <1>1, RunsAre
  <2>2. q[n] = CHOOSE k \in V : tasksNow[k].id = runLog[n].task
    OBVIOUS
  <2> HIDE DEF q, V
  <2> QED
    BY <2>1, <2>2
<1>3. \A i \in V : g[i] = SumScores({n \in R : runLog[n].task = tasksNow[i].id})
  BY DEF Aligned, ScoreOf
<1> HIDE DEF R, V, q, g
<1>4. \A i \in V : g[i] = SumOn(Scores, KeyedBy(i, R, q)) /\ g[i] \in Int
  <2> SUFFICES ASSUME NEW i \in V PROVE g[i] = SumOn(Scores, KeyedBy(i, R, q)) /\ g[i] \in Int
    OBVIOUS
  <2> DEFINE W == {n \in R : runLog[n].task = tasksNow[i].id}
  <2>1. W = KeyedBy(i, R, q)
    BY <1>2 DEF KeyedBy
  <2>2. W \in SUBSET DOMAIN runLog /\ W \in SUBSET R /\ g[i] = SumScores(W)
    BY <1>1, <1>3
  <2> HIDE DEF W
  <2>3. g[i] = SumOn(Scores, W)
    BY <2>2, ScoresAre
  <2>4. SumOn(Scores, W) \in Int
    BY <1>1, <2>2, SumsStep
  <2> QED
    BY <2>1, <2>3, <2>4
<1>5. SumOn(g, V) = SumOn(Scores, R)
  <2>1. \A n \in R : Scores[n] \in Int
    BY <1>1
  <2>2. \A n \in R : q[n] \in V
    BY <1>2
  <2>3. \A i \in V : g[i] = SumOn(Scores, KeyedBy(i, R, q))
    BY <1>4
  <2>4. IsFiniteSet(R) /\ IsFiniteSet(V)
    BY <1>1
  <2> QED
    BY <2>1, <2>2, <2>3, <2>4, SumsShared
<1>6. SumScores(R) = SumOn(Scores, R)
  BY <1>1, ScoresAre
<1> QED
  BY <1>4, <1>5, <1>6 DEF R, V, g

(* and for the one seed *)
LEMMA SeedsAddUp ==
  ASSUME AnalysisInv, NEW arm
  PROVE  SumOver([s \in 0..(experimentNow.seeds - 1) |-> SeedRate(arm, s)]) = SumScores(RunsOf(arm))
<1> DEFINE R == RunsOf(arm)
           V == 0..(experimentNow.seeds - 1)
           q == [n \in R |-> runLog[n].seed]
           g == [s \in V |-> SeedRate(arm, s)]
<1>1. R \in SUBSET DOMAIN runLog /\ IsFiniteSet(R) /\ \A n \in R : Scores[n] \in Int
  BY RunsAre
<1>2. \A n \in R : q[n] \in V /\ q[n] = runLog[n].seed
  BY <1>1 DEF AnalysisInv, RunSound
<1>3. \A s \in V : g[s] = SumScores({n \in R : runLog[n].seed = s})
  BY DEF SeedRate
<1>4. IsFiniteSet(V)
  <2>1. CASE experimentNow = NoExperiment
    BY <2>1, FS_Interval DEF NoExperiment
  <2>2. CASE experimentNow # NoExperiment
    BY <2>2, FS_Interval, AnalysisAssumption DEF AnalysisInv, Ready
  <2> QED
    BY <2>1, <2>2
<1>5. DOMAIN g = V /\ g = [s \in DOMAIN g |-> g[s]]
  OBVIOUS
<1> HIDE DEF R, V, q, g
<1>6. \A s \in V : g[s] = SumOn(Scores, KeyedBy(s, R, q))
  <2> SUFFICES ASSUME NEW s \in V PROVE g[s] = SumOn(Scores, KeyedBy(s, R, q))
    OBVIOUS
  <2> DEFINE W == {n \in R : runLog[n].seed = s}
  <2>1. W = KeyedBy(s, R, q)
    BY <1>2 DEF KeyedBy
  <2>2. W \in SUBSET DOMAIN runLog /\ g[s] = SumScores(W)
    BY <1>1, <1>3
  <2> HIDE DEF W
  <2> QED
    BY <2>1, <2>2, ScoresAre
<1>7. SumOn(g, V) = SumOn(Scores, R)
  <2>1. \A n \in R : Scores[n] \in Int
    BY <1>1
  <2>2. \A n \in R : q[n] \in V
    BY <1>2
  <2>3. \A s \in V : g[s] = SumOn(Scores, KeyedBy(s, R, q))
    BY <1>6
  <2>4. IsFiniteSet(R) /\ IsFiniteSet(V)
    BY <1>1, <1>4
  <2> QED
    BY <2>1, <2>2, <2>3, <2>4, SumsShared
<1>8. SumScores(R) = SumOn(Scores, R)
  BY <1>1, ScoresAre
<1>9. SumOver(g) = SumOn(g, V)
  BY <1>5, SumOverIs
<1> QED
  BY <1>7, <1>8, <1>9 DEF R, V, g

(* a slice is one of the values, or none *)
LEMMA SliceRunsAddUp ==
  ASSUME AnalysisInv, NEW arm
  PROVE  SumOver([v \in SliceValues |-> Cardinality(SliceRuns(arm, v))])
           = Cardinality(RunsOf(arm)) - Cardinality(SliceRuns(arm, NoName))
<1> DEFINE R == RunsOf(arm)
           V == SliceValues
           taskOf == [n \in R |-> CHOOSE i \in DOMAIN tasksNow : tasksNow[i].id = runLog[n].task]
           q == [n \in R |-> {tasksNow[taskOf[n]].slice}]
           g == [v \in V |-> Cardinality(SliceRuns(arm, v))]
           none == SliceRuns(arm, NoName)
<1>1. R \in SUBSET DOMAIN runLog /\ IsFiniteSet(R)
  BY RunsAre
<1>2. \A n \in R : /\ taskOf[n] \in DOMAIN tasksNow
                   /\ \A i \in DOMAIN tasksNow : tasksNow[i].id = runLog[n].task <=> taskOf[n] = i
  <2> SUFFICES ASSUME NEW n \in R
               PROVE  /\ taskOf[n] \in DOMAIN tasksNow
                      /\ \A i \in DOMAIN tasksNow : tasksNow[i].id = runLog[n].task <=> taskOf[n] = i
    OBVIOUS
  <2>1. PICK i \in DOMAIN tasksNow : /\ tasksNow[i].id = runLog[n].task
                       /\ \A j \in DOMAIN tasksNow : tasksNow[j].id = runLog[n].task => j = i
    BY <1>1, RunsAre
  <2>2. taskOf[n] = CHOOSE k \in DOMAIN tasksNow : tasksNow[k].id = runLog[n].task
    OBVIOUS
  <2> HIDE DEF taskOf
  <2> QED
    BY <2>1, <2>2
<1>3. \A n \in R : q[n] = {tasksNow[taskOf[n]].slice}
  OBVIOUS
<1>4. \A v : SliceRuns(arm, v) = {n \in R : q[n] = {v}}
  <2> HIDE DEF taskOf, q
  <2>1. \A v, n : n \in SliceRuns(arm, v) <=> n \in R /\ \E i \in DOMAIN tasksNow :
                                  tasksNow[i].id = runLog[n].task /\ tasksNow[i].slice = v
    BY DEF SliceRuns
  <2>2. \A v, n : n \in SliceRuns(arm, v) <=> n \in R /\ tasksNow[taskOf[n]].slice = v
    BY <1>2, <2>1
  <2> QED
    BY <1>3, <2>2
<1>5. DOMAIN g = V /\ g = [v \in DOMAIN g |-> g[v]] /\ \A v \in V : g[v] = Cardinality(SliceRuns(arm, v))
  OBVIOUS
<1>6. IsFiniteSet(V)
  <2> DEFINE D == DOMAIN tasksNow
             T == {tasksNow[i].slice : i \in D}
  <2>1. IsFiniteSet(D)
    BY RunsAre
  <2>2. \A z \in T : \E i \in D : z = tasksNow[i].slice
    OBVIOUS
  <2>3. V \in SUBSET T
    BY DEF SliceValues
  <2>4. IsFiniteSet(T)
    <3> DEFINE slices == [i \in D |-> tasksNow[i].slice]
    <3>1. slices \in Surjection(D, T)
      BY DEF Surjection
    <3> HIDE DEF slices, D, T
    <3> QED
      BY <2>1, <3>1, FS_Surjection
  <2> HIDE DEF V, T
  <2> QED
    BY <2>3, <2>4, FS_Subset
<1>7. R \ none = SharedOut(V, R, q) /\ R \cap none = none
  <2>1. \A n \in R : tasksNow[taskOf[n]].slice # NoName => tasksNow[taskOf[n]].slice \in V
    BY <1>2 DEF SliceValues
  <2>2. NoName \notin V
    BY DEF SliceValues
  <2>3. none = {n \in R : q[n] = {NoName}}
    BY <1>4
  <2> HIDE DEF taskOf, q, none, V
  <2> QED
    BY <1>3, <2>1, <2>2, <2>3 DEF SharedOut
<1> HIDE DEF R, V, taskOf, q, g, none
<1>8. \A v \in V : g[v] = Cardinality(ShareOf(v, R, q))
  <2> SUFFICES ASSUME NEW v \in V PROVE g[v] = Cardinality(ShareOf(v, R, q))
    OBVIOUS
  <2>1. SliceRuns(arm, v) = ShareOf(v, R, q)
    BY <1>4 DEF ShareOf
  <2> QED
    BY <1>5, <2>1
<1>9. SumOn(g, V) = Cardinality(SharedOut(V, R, q))
  BY <1>1, <1>6, <1>8, SharesAddUp
<1>10. Cardinality(R \ none) = Cardinality(R) - Cardinality(R \cap none)
  BY <1>1, FS_Difference
<1>11. SumOver(g) = SumOn(g, V)
  BY <1>5, SumOverIs
<1> QED
  BY <1>7, <1>9, <1>10, <1>11 DEF R, V, g, none

(* what is said of an arm *)
BaseId == experimentNow.arms[IncumbentOf(experimentNow)].id

LEMMA DifferencesAre ==
  ASSUME AnalysisInv, NEW arm
  PROVE  /\ \A i \in DOMAIN tasksNow : Differences(arm)[i] \in Int
         /\ SumOver(Differences(arm)) = SumScores(RunsOf(arm)) - SumScores(RunsOf(BaseId))
<1> DEFINE V == DOMAIN tasksNow
           d == Differences(arm)
           own == Aligned(arm)
           base == Aligned(BaseId)
<1>1. \A i \in V : own[i] \in Int /\ base[i] \in Int
  BY TasksAddUp
<1>2. SumOn(own, V) = SumScores(RunsOf(arm)) /\ SumOn(base, V) = SumScores(RunsOf(BaseId))
  BY TasksAddUp
<1>3. /\ d = [i \in V |-> own[i] - base[i]]
  BY DEF Differences, BaseId
<1>4. IsFiniteSet(V)
  BY RunsAre
<1> HIDE DEF V, d, own, base
<1>5. DOMAIN d = V /\ d = [i \in DOMAIN d |-> d[i]] /\ \A i \in V : d[i] = own[i] - base[i]
  BY <1>3
<1>6. SumOn(d, V) = SumOn(own, V) - SumOn(base, V)
  BY <1>1, <1>4, <1>5, SumsApart
<1>7. SumOver(d) = SumOn(d, V)
  BY <1>5, SumOverIs
<1>8. \A i \in V : d[i] \in Int
  BY <1>1, <1>5
<1> QED
  BY <1>2, <1>6, <1>7, <1>8 DEF V, d

LEMMA DrawsAreOfTasks ==
  ASSUME AnalysisInv, NEW arm, NEW mean \in Resampled(arm)
  PROVE  /\ mean > 0 => \E i \in DOMAIN tasksNow : Differences(arm)[i] > 0
         /\ mean < 0 => \E i \in DOMAIN tasksNow : Differences(arm)[i] < 0
<1> DEFINE V == DOMAIN tasksNow
           d == Differences(arm)
<1>1. PICK draw \in [V -> V] : mean = SumOver([i \in V |-> d[draw[i]]])
  BY DEF Resampled
<1> DEFINE f == [i \in V |-> d[draw[i]]]
<1>2. \A i \in V : f[i] = d[draw[i]] /\ draw[i] \in V
  BY <1>1
<1>3. DOMAIN f = V /\ f = [i \in DOMAIN f |-> f[i]] /\ mean = SumOver(f)
  BY <1>1
<1>4. IsFiniteSet(V) /\ \A i \in V : d[i] \in Int
  BY RunsAre, DifferencesAre
<1> HIDE DEF f, V, d
<1>5. mean = SumOn(f, V)
  BY <1>3, SumOverIs
<1>6. \A i \in V : f[i] \in Int
  BY <1>2, <1>4
<1>7. /\ (\A x \in V : f[x] <= 0) => mean <= 0
      /\ (\A x \in V : f[x] >= 0) => mean >= 0
  BY <1>4, <1>5, <1>6, SumSign
<1>8. mean \in Int
  BY <1>4, <1>5, <1>6, SumsStep
<1>9. mean > 0 => \E i \in V : d[i] > 0
  <2> SUFFICES ASSUME mean > 0 PROVE \E i \in V : d[i] > 0
    OBVIOUS
  <2>1. PICK x \in V : ~(f[x] <= 0)
    BY <1>7, <1>8
  <2> QED
    BY <1>2, <1>4, <2>1
<1>10. mean < 0 => \E i \in V : d[i] < 0
  <2> SUFFICES ASSUME mean < 0 PROVE \E i \in V : d[i] < 0
    OBVIOUS
  <2>1. PICK x \in V : ~(f[x] >= 0)
    BY <1>7, <1>8
  <2> QED
    BY <1>2, <1>4, <2>1
<1> QED
  BY <1>9, <1>10 DEF V, d

LEMMA CandidatesAre ==
  ASSUME AnalysisInv, experimentNow # NoExperiment
  PROVE  /\ IsFiniteSet(Candidates(experimentNow)) /\ IsFiniteSet(Ablations(experimentNow))
         /\ Ablations(experimentNow) \subseteq Candidates(experimentNow)
         /\ experimentNow.alpha \in Nat
<1>1. experimentNow \in ExperimentDrafts /\ StatisticsSound(experimentNow)
  BY DEF AnalysisInv, Ready
<1>2. IsFiniteSet(DOMAIN experimentNow.arms)
  <2>1. experimentNow.arms \in Seq(Range(experimentNow.arms))
    BY <1>1, AnalysisAssumption
  <2> DEFINE L == Len(experimentNow.arms)
  <2>2. L \in Nat /\ DOMAIN experimentNow.arms = 1..L
    BY <2>1
  <2> HIDE DEF L
  <2>3. IsFiniteSet(1..L)
    BY <2>2, FS_Interval
  <2> QED
    BY <2>2, <2>3
<1>3. experimentNow.alpha \in Nat
  BY <1>1, AnalysisAssumption DEF StatisticsSound
<1>4. Ablations(experimentNow) \subseteq Candidates(experimentNow)
  BY DEF Ablations, Candidates
<1>5. Candidates(experimentNow) \in SUBSET DOMAIN experimentNow.arms
  BY DEF Candidates
<1>6. IsFiniteSet(Candidates(experimentNow))
  BY <1>2, <1>5, FS_Subset
<1>7. IsFiniteSet(Ablations(experimentNow))
  BY <1>4, <1>6, FS_Subset
<1> QED
  BY <1>3, <1>4, <1>6, <1>7

LEMMA PairsCompared ==
  AnalysisInv => ComparedAsPairs
<1> SUFFICES ASSUME AnalysisInv, NEW c \in DOMAIN resultNow.compared
             PROVE  LET x == resultNow.compared[c]
                        total(arm) == SumScores(RunsOf(arm))
                        base == experimentNow.arms[IncumbentOf(experimentNow)].id
                    IN /\ x.delta = total(x.arm) - total(base)
                       /\ x.verdict = "improvement" => \E i \in DOMAIN tasksNow : Differences(x.arm)[i] > 0
                       /\ x.verdict = "regression" => \E i \in DOMAIN tasksNow : Differences(x.arm)[i] < 0
                       /\ experimentNow.multiplicity # "none" =>
                            resultNow.alpha * Cardinality(DOMAIN resultNow.compared) <= experimentNow.alpha
  BY DEF ComparedAsPairs
<1> DEFINE x == resultNow.compared[c]
           id == IdOf(c)
<1>1. resultNow # NoComparison
  BY DEF NoComparison
<1>2. ComparedWhole /\ experimentNow # NoExperiment
  BY <1>1 DEF AnalysisInv, ComparedWhole
<1>3. PICK cis : /\ DOMAIN cis = Candidates(experimentNow)
                 /\ \A i \in Candidates(experimentNow) : cis[i] \in IntervalsOf(IdOf(i))
                 /\ resultNow.compared = [i \in Candidates(experimentNow) |-> Compared(i, cis[i])]
                 /\ resultNow.alpha = PerComparison(experimentNow)
  BY <1>2 DEF ComparedWhole
<1> DEFINE ci == cis[c]
<1>4. /\ DOMAIN resultNow.compared = Candidates(experimentNow) /\ x = Compared(c, ci)
      /\ ci \in IntervalsOf(id)
  BY <1>3
<1>5. /\ x.arm = id /\ x.delta = SumOver(Differences(id)) /\ x.verdict = VerdictOn(ci)
  BY <1>4 DEF Compared
<1>6. ci[1] \in Resampled(id) /\ ci[2] \in Resampled(id)
  BY <1>4 DEF IntervalsOf
<1> HIDE DEF x, id, ci
<1>7. x.delta = SumScores(RunsOf(x.arm)) - SumScores(RunsOf(BaseId))
  BY <1>5, DifferencesAre
<1>8. x.verdict = "improvement" => \E i \in DOMAIN tasksNow : Differences(x.arm)[i] > 0
  <2> SUFFICES ASSUME x.verdict = "improvement" PROVE \E i \in DOMAIN tasksNow : Differences(x.arm)[i] > 0
    OBVIOUS
  <2>1. ci[1] > 0
    BY <1>5 DEF VerdictOn
  <2> QED
    BY <1>5, <1>6, <2>1, DrawsAreOfTasks
<1>9. x.verdict = "regression" => \E i \in DOMAIN tasksNow : Differences(x.arm)[i] < 0
  <2> SUFFICES ASSUME x.verdict = "regression" PROVE \E i \in DOMAIN tasksNow : Differences(x.arm)[i] < 0
    OBVIOUS
  <2>1. ci[2] < 0
    BY <1>5 DEF VerdictOn
  <2> QED
    BY <1>5, <1>6, <2>1, DrawsAreOfTasks
<1>10. experimentNow.multiplicity # "none" =>
         resultNow.alpha * Cardinality(DOMAIN resultNow.compared) <= experimentNow.alpha
  <2> SUFFICES ASSUME experimentNow.multiplicity # "none"
               PROVE  resultNow.alpha * Cardinality(DOMAIN resultNow.compared) <= experimentNow.alpha
    OBVIOUS
  <2> DEFINE m == experimentNow.alpha
             p == Cardinality(Candidates(experimentNow))
  <2>1. resultNow.alpha = m \div p /\ Cardinality(DOMAIN resultNow.compared) = p
    BY <1>3, <1>4 DEF PerComparison
  <2>2. m \in Nat /\ IsFiniteSet(Candidates(experimentNow)) /\ c \in Candidates(experimentNow)
    BY <1>2, <1>4, CandidatesAre
  <2>3. p \in Nat /\ p # 0
    BY <2>2, FS_CardinalityType, FS_EmptySet
  <2> HIDE DEF m, p
  <2>4. (m \div p) * p <= m
    BY <2>2, <2>3, WholeParts
  <2> QED
    BY <2>1, <2>4 DEF m
<1> QED
  BY <1>7, <1>8, <1>9, <1>10 DEF x, BaseId

LEMMA RunsAllCount ==
  AnalysisInv => EveryRunCounts
BY SeedsAddUp, SliceRunsAddUp DEF EveryRunCounts

LEMMA AblationsDeclared ==
  AnalysisInv => AblationsWereDeclared
<1> SUFFICES ASSUME AnalysisInv, contributions.loaded PROVE AblationsWereDeclared
  BY DEF AblationsWereDeclared
<1> DEFINE kept == contributions.records
           S == Ablations(experimentNow)
           arms == experimentNow.arms
           of(a) == CHOOSE i \in DOMAIN resultNow.compared : resultNow.compared[i].arm = a.id
<1>1. kept = MarginalContributions /\ resultNow # NoComparison
  BY DEF AnalysisInv
<1>2. ComparedWhole /\ experimentNow # NoExperiment
  BY <1>1 DEF AnalysisInv, ComparedWhole
<1>3. IsFiniteSet(S) /\ S \subseteq Candidates(experimentNow) /\ FamilySound(experimentNow)
  BY <1>2, CandidatesAre DEF AnalysisInv, Ready
<1>4. DOMAIN kept = S /\ \A i \in S : kept[i] = ContributionOf(arms[i])
  BY <1>1 DEF MarginalContributions
<1>5. \A i \in S : i \in DOMAIN resultNow.compared /\ resultNow.compared[i].arm = arms[i].id
  <2>1. PICK cis : resultNow.compared = [i \in Candidates(experimentNow) |-> Compared(i, cis[i])]
    BY <1>2 DEF ComparedWhole
  <2> QED
    BY <1>3, <2>1 DEF Compared, IdOf
<1>6. \A a : /\ ContributionOf(a).component = a.component /\ ContributionOf(a).arm = a.id
             /\ ContributionOf(a).delta = resultNow.compared[of(a)].delta
  BY DEF ContributionOf
<1>7. ASSUME NEW i \in S
      PROVE  /\ kept[i].component \in experimentNow.family
             /\ \E c \in DOMAIN resultNow.compared :
                  resultNow.compared[c].arm = kept[i].arm /\ resultNow.compared[c].delta = kept[i].delta
  <2> DEFINE c == of(arms[i])
  <2>1. c \in DOMAIN resultNow.compared /\ resultNow.compared[c].arm = arms[i].id
    BY <1>5
  <2>2. /\ kept[i].component = arms[i].component /\ kept[i].arm = arms[i].id
        /\ kept[i].delta = resultNow.compared[c].delta
    BY <1>4, <1>6
  <2> HIDE DEF c, kept
  <2>3. kept[i].component \in experimentNow.family
    BY <1>3, <2>2 DEF FamilySound, FamilyDeclared
  <2> QED
    BY <2>1, <2>2, <2>3
<1>8. Cardinality(S) = Cardinality({kept[i].component : i \in S})
  <2> DEFINE b == [i \in S |-> kept[i].component]
             T == {kept[i].component : i \in S}
  <2>1. \A i \in S : b[i] = kept[i].component /\ b[i] = arms[i].component
    BY <1>4, <1>6
  <2>2. /\ \A i \in S : b[i] \in T
        /\ \A z \in T : \E i \in S : z = b[i]
    OBVIOUS
  <2> HIDE DEF b, T, kept
  <2>3. \A i, j \in S : b[i] = b[j] => i = j
    BY <1>3, <2>1 DEF FamilySound
  <2>4. Cardinality(T) = Cardinality(S)
    <3> HIDE DEF S
    <3> QED
      BY <1>3, <2>2, <2>3, AsMany
  <2> QED
    BY <2>4 DEF T
<1> HIDE DEF kept
<1> QED
  BY <1>4, <1>7, <1>8 DEF AblationsWereDeclared, kept

LEMMA SealsHold ==
  AnalysisInv => SealedStaysSealed
<1> SUFFICES ASSUME AnalysisInv, NEW n \in DOMAIN runLog
             PROVE  \E p \in UNION TaskSources :
                      p.kind \notin {"holdout", "canary"} /\ \E i \in DOMAIN p.tasks : p.tasks[i].id = runLog[n].task
  BY DEF SealedStaysSealed
<1>1. PICK i \in DOMAIN tasksNow : tasksNow[i].id = runLog[n].task
  BY DEF AnalysisInv, RunSound, TaskIn
<1>2. tasksNow # <<>>
  BY <1>1
<1>3. PICK p \in UNION TaskSources : p.kind \notin {"holdout", "canary"} /\ tasksNow = p.tasks
  BY <1>2 DEF AnalysisInv, TasksOpen
<1> QED
  BY <1>1, <1>3

(* What is said of an experiment's arms is what its runs say, every run     *)
(* counts once, an ablation was declared, and no sealed task was run        *)
(* (summarize_experiment, _validate_ablation_family, ensure_unsealed).      *)
THEOREM AnalysisCorrect == AnalysisSpec => []AnalysisIsHonest
<1>1. AnalysisInv => AnalysisIsHonest
  BY PairsCompared, RunsAllCount, AblationsDeclared, SealsHold DEF AnalysisIsHonest
<1> QED
  BY <1>1, AnalysisStarts, AnalysisMoves, PTL DEF AnalysisSpec
=============================================================================
