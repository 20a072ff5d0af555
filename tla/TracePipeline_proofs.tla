------------------------ MODULE TracePipeline_proofs ------------------------
(***************************************************************************)
(* TracePipeline for every capacity, batch size, fault bound and number of *)
(* events: its types; that an acknowledgement never covers an event the    *)
(* ingest API has not answered for, unless the process let go of it; that  *)
(* no event vanishes and what a host loss may take is bounded by the fsync *)
(* policy; and that the journal replays, and the API ingests, in order.    *)
(***************************************************************************)
EXTENDS TracePipeline, FiniteSetTheorems, SequenceTheorems, TLAPS

-----------------------------------------------------------------------------
(* What the operators on sequences return *)

LEMMA UnionBound ==
  ASSUME NEW s, NEW t, IsFiniteSet(s), IsFiniteSet(t)
  PROVE  /\ IsFiniteSet(s \cup t) /\ Cardinality(s \cup t) \in Nat
         /\ Cardinality(s \cup t) <= Cardinality(s) + Cardinality(t)
<1>1. IsFiniteSet(s \cap t)
  BY FS_Subset
<1>2. PICK a \in Nat : a = Cardinality(s)
  BY FS_CardinalityType
<1>3. PICK b \in Nat : b = Cardinality(t)
  BY FS_CardinalityType
<1>4. PICK c \in Nat : c = Cardinality(s \cap t)
  BY <1>1, FS_CardinalityType
<1>5. IsFiniteSet(s \cup t) /\ Cardinality(s \cup t) = a + b - c
  BY <1>2, <1>3, <1>4, FS_Union
<1>6. Cardinality(s \cup t) \in Nat
  BY <1>5, FS_CardinalityType
<1> QED
  BY <1>2, <1>3, <1>5, <1>6

LEMMA ElemsRange ==
  ASSUME NEW T, NEW s \in Seq(T)
  PROVE  /\ Len(s) \in Nat
         /\ DOMAIN s = 1..Len(s)
         /\ \A e : e \in Elems(s) <=> \E i \in 1..Len(s) : e = s[i]
         /\ \A i \in 1..Len(s) : s[i] \in T /\ s[i] \in Elems(s)
         /\ Elems(s) \subseteq T
         /\ s # <<>> => Len(s) > 0
<1>1. Len(s) \in Nat /\ DOMAIN s = 1..Len(s) /\ s \in [1..Len(s) -> T]
  BY LenProperties
<1>2. s # <<>> => Len(s) > 0
  BY EmptySeq
<1> QED
  BY <1>1, <1>2 DEF Elems

LEMMA ListIsSeq ==
  ASSUME NEW T, NEW n \in Nat, NEW f \in [1..n -> T]
  PROVE  f \in Seq(T) /\ Len(f) = n
<1>1. f \in Seq(T)
  BY SeqDef
<1>2. Len(f) \in Nat /\ 1..Len(f) = 1..n
  BY <1>1, LenProperties
<1> QED
  BY <1>1, <1>2

LEMMA ElemsConcat ==
  ASSUME NEW T, NEW s \in Seq(T), NEW t \in Seq(T)
  PROVE  /\ s \o t \in Seq(T)
         /\ Elems(s \o t) \subseteq Elems(s) \cup Elems(t)
<1>1. /\ s \o t \in Seq(T)
      /\ Len(s \o t) = Len(s) + Len(t)
      /\ \A i \in 1 .. Len(s) + Len(t) : (s \o t)[i] =
                     IF i <= Len(s) THEN s[i] ELSE t[i - Len(s)]
  BY ConcatProperties
<1>2. ASSUME NEW i \in 1..Len(s \o t)
      PROVE  (s \o t)[i] \in Elems(s) \cup Elems(t)
  <2>1. Len(s) \in Nat /\ Len(t) \in Nat
    BY ElemsRange
  <2>2. CASE i <= Len(s)
    <3>1. i \in 1..Len(s) /\ (s \o t)[i] = s[i]
      BY <1>1, <2>1, <2>2
    <3> QED
      BY <3>1, ElemsRange
  <2>3. CASE ~(i <= Len(s))
    <3>1. i - Len(s) \in 1..Len(t) /\ (s \o t)[i] = t[i - Len(s)]
      BY <1>1, <2>1, <2>3
    <3> QED
      BY <3>1, ElemsRange
  <2> QED
    BY <2>2, <2>3
<1>3. \A e : e \in Elems(s \o t) => \E i \in 1..Len(s \o t) : e = (s \o t)[i]
  BY <1>1, ElemsRange, ZenonT(60), SMTT(30)
<1> QED
  BY <1>1, <1>2, <1>3

LEMMA Joined ==
  ASSUME NEW T, NEW s \in Seq(T), NEW t \in Seq(T), NEW u, u = s \o t
  PROVE  /\ u \in Seq(T)
         /\ Len(u) = Len(s) + Len(t)
         /\ \A i \in 1..(Len(s) + Len(t)) : u[i] = IF i <= Len(s) THEN s[i] ELSE t[i - Len(s)]
  BY ConcatProperties

LEMMA ElemsSubSeq ==
  ASSUME NEW T, NEW s \in Seq(T), NEW m \in 1..(Len(s) + 1), NEW n \in (m - 1)..Len(s)
  PROVE  /\ SubSeq(s, m, n) \in Seq(T)
         /\ Len(SubSeq(s, m, n)) = n - m + 1
         /\ \A i \in 1..(n - m + 1) : SubSeq(s, m, n)[i] = s[m + i - 1]
         /\ Elems(SubSeq(s, m, n)) \subseteq Elems(s)
<1>0. Len(s) \in Nat /\ m \in Int /\ n \in Int
  BY LenProperties
<1>1. \A i \in m..n : s[i] \in T
  BY <1>0, ElementOfSeq
<1>2. /\ SubSeq(s, m, n) \in Seq(T)
      /\ Len(SubSeq(s, m, n)) = IF m <= n THEN n - m + 1 ELSE 0
      /\ \A i \in 1..(n - m + 1) : SubSeq(s, m, n)[i] = s[m + i - 1]
  BY <1>0, <1>1, SubSeqProperties
<1>3. Len(SubSeq(s, m, n)) = n - m + 1
  BY <1>0, <1>2
<1>4. ASSUME NEW e \in Elems(SubSeq(s, m, n))
      PROVE  e \in Elems(s)
  <2> DEFINE u == SubSeq(s, m, n)
  <2>0. u \in Seq(T) /\ Len(u) = n - m + 1
    BY <1>2, <1>3
  <2>1. PICK i \in 1..(n - m + 1) : e = u[i]
    <3> HIDE DEF u
    <3>1. \A d : d \in Elems(u) => \E i \in 1..Len(u) : d = u[i]
      BY <2>0, ElemsRange
    <3>2. e \in Elems(u)
      BY DEF u
    <3> QED
      BY <2>0, <3>1, <3>2
  <2>2. m + i - 1 \in 1..Len(s) /\ e = s[m + i - 1]
    BY <1>0, <1>2, <2>1
  <2> QED
    BY <2>2, ElemsRange
<1> QED
  BY <1>2, <1>3, <1>4

LEMMA Suffix ==
  ASSUME NEW T, NEW s \in Seq(T), NEW k \in 0..Len(s), NEW u, u = SubSeq(s, k + 1, Len(s))
  PROVE  /\ u \in Seq(T)
         /\ Len(u) = Len(s) - k
         /\ \A i \in 1..Len(u) : u[i] = s[k + i]
<1>1. Len(s) \in Nat /\ k + 1 \in 1..(Len(s) + 1) /\ Len(s) \in (k + 1 - 1)..Len(s)
  BY LenProperties
<1>2. /\ u \in Seq(T)
      /\ Len(u) = Len(s) - (k + 1) + 1
      /\ \A i \in 1..(Len(s) - (k + 1) + 1) : u[i] = s[(k + 1) + i - 1]
  BY <1>1, ElemsSubSeq
<1>3. Len(u) = Len(s) - k /\ \A i \in Int : (k + 1) + i - 1 = k + i
  BY <1>1, <1>2
<1> QED
  BY <1>1, <1>2, <1>3

LEMMA Prefix ==
  ASSUME NEW T, NEW s \in Seq(T), NEW k \in 0..Len(s), NEW u, u = SubSeq(s, 1, k)
  PROVE  /\ u \in Seq(T)
         /\ Len(u) = k
         /\ \A i \in 1..Len(u) : u[i] = s[i]
         /\ Elems(u) \subseteq Elems(s)
<1>1. Len(s) \in Nat /\ 1 \in 1..(Len(s) + 1) /\ k \in (1 - 1)..Len(s)
  BY LenProperties
<1>2. /\ u \in Seq(T)
      /\ Len(u) = k - 1 + 1
      /\ \A i \in 1..(k - 1 + 1) : u[i] = s[1 + i - 1]
      /\ Elems(u) \subseteq Elems(s)
  BY <1>1, ElemsSubSeq
<1>3. Len(u) = k /\ \A i \in Int : 1 + i - 1 = i
  BY <1>1, <1>2
<1> QED
  BY <1>1, <1>2, <1>3

LEMMA ElemsTail ==
  ASSUME NEW T, NEW s \in Seq(T), s # <<>>
  PROVE  /\ Tail(s) \in Seq(T)
         /\ Head(s) \in T
         /\ Elems(Tail(s)) \subseteq Elems(s)
         /\ Elems(s) \subseteq {Head(s)} \cup Elems(Tail(s))
<1>1. /\ Head(s) \in T
      /\ Tail(s) \in Seq(T)
      /\ Len(Tail(s)) = Len(s) - 1
      /\ \A i \in 1 .. Len(Tail(s)) : Tail(s)[i] = s[i+1]
  BY HeadTailProperties
<1>2. Head(s) = s[1] /\ Len(s) \in Nat /\ Len(s) > 0
  BY ElemsRange
<1>3. ASSUME NEW i \in 1..Len(s)
      PROVE  s[i] \in {Head(s)} \cup Elems(Tail(s))
  <2>1. CASE i = 1
    BY <1>2, <2>1
  <2>2. CASE i # 1
    <3>1. i - 1 \in 1..Len(Tail(s)) /\ s[i] = Tail(s)[i - 1]
      BY <1>1, <1>2, <2>2
    <3> QED
      BY <1>1, <3>1, ElemsRange
  <2> QED
    BY <2>1, <2>2
<1>4. ASSUME NEW i \in 1..Len(Tail(s))
      PROVE  Tail(s)[i] \in Elems(s)
  <2>1. i + 1 \in 1..Len(s) /\ Tail(s)[i] = s[i + 1]
    BY <1>1, <1>2
  <2> QED
    BY <2>1, ElemsRange
<1>5. \A e \in Elems(s) : \E i \in 1..Len(s) : e = s[i]
  BY ElemsRange
<1>6. \A e \in Elems(Tail(s)) : \E i \in 1..Len(Tail(s)) : e = Tail(s)[i]
  <2> DEFINE t == Tail(s)
  <2>1. t \in Seq(T)
    BY <1>1
  <2> HIDE DEF t
  <2>2. \A e \in Elems(t) : \E i \in 1..Len(t) : e = t[i]
    BY <2>1, ElemsRange
  <2> QED
    BY <2>2 DEF t
<1> QED
  BY <1>1, <1>3, <1>4, <1>5, <1>6

(* Writing lines adds nothing but those lines, whole, and a corrupt line. *)
LEMMA WriteLinesElems ==
  ASSUME NEW j \in Seq(Lines), NEW lines \in Seq(Lines), lines # <<>>
  PROVE  /\ WriteLines(j, lines) \in Seq(Lines)
         /\ Elems(WriteLines(j, lines)) \subseteq Elems(j) \cup Elems(lines) \cup {CorruptRecord}
<1>0. CorruptRecord \in Lines
  BY DEF CorruptRecord, Lines
<1>1. CASE ~EndsTorn(j)
  BY <1>1, ElemsConcat DEF WriteLines
<1>2. CASE EndsTorn(j)
  <2> DEFINE whole == SubSeq(j, 1, Len(j) - 1)
  <2>1. whole \in Seq(Lines) /\ Elems(whole) \subseteq Elems(j)
    <3>1. Len(j) \in Nat /\ Len(j) > 0
      BY <1>2, ElemsRange DEF EndsTorn
    <3> QED
      BY <3>1, ElemsSubSeq
  <2> DEFINE gap == <<CorruptRecord>>
  <2>2. gap \in Seq(Lines) /\ Elems(gap) = {CorruptRecord}
    BY <1>0 DEF Elems
  <2>3. Tail(lines) \in Seq(Lines) /\ Elems(Tail(lines)) \subseteq Elems(lines)
    BY ElemsTail
  <2>4. WriteLines(j, lines) = (whole \o gap) \o Tail(lines)
    BY <1>2 DEF WriteLines
  <2> DEFINE rest == Tail(lines)
  <2> HIDE DEF whole, gap, rest
  <2>5. whole \o gap \in Seq(Lines) /\ Elems(whole \o gap) \subseteq Elems(j) \cup {CorruptRecord}
    BY <2>1, <2>2, ElemsConcat
  <2> DEFINE head == whole \o gap
  <2> HIDE DEF head
  <2>6. head \in Seq(Lines) /\ Elems(head) \subseteq Elems(j) \cup {CorruptRecord}
    BY <2>5 DEF head
  <2>7. rest \in Seq(Lines) /\ Elems(rest) \subseteq Elems(lines)
    BY <2>3 DEF rest
  <2>8. WriteLines(j, lines) = head \o rest
    BY <2>4 DEF head, rest
  <2> QED
    BY <2>6, <2>7, <2>8, ElemsConcat
<1> QED
  BY <1>1, <1>2

LEMMA WritePartElems ==
  ASSUME NEW j \in Seq(Lines), NEW lines \in Seq(Lines), NEW n \in 0..Len(lines),
         NEW torn \in BOOLEAN
  PROVE  /\ WritePart(j, lines, n, torn) \in Seq(Lines)
         /\ Elems(WritePart(j, lines, n, torn))
              \subseteq Elems(j) \cup Elems(lines) \cup {CorruptRecord, TornRecord}
<1> DEFINE whole == IF n = 0 THEN j ELSE WriteLines(j, SubSeq(lines, 1, n))
<1>1. /\ whole \in Seq(Lines)
      /\ Elems(whole) \subseteq Elems(j) \cup Elems(lines) \cup {CorruptRecord}
  <2>1. CASE n = 0
    BY <2>1
  <2>2. CASE n # 0
    <3> DEFINE first == SubSeq(lines, 1, n)
    <3>1. Len(lines) \in Nat /\ 1 \in 1..(Len(lines) + 1) /\ n \in (1 - 1)..Len(lines)
      BY ElemsRange
    <3>2. first \in Seq(Lines) /\ Len(first) = n - 1 + 1 /\ Elems(first) \subseteq Elems(lines)
      BY <3>1, ElemsSubSeq
    <3>3. whole = WriteLines(j, first)
      BY <2>2
    <3> HIDE DEF first, whole
    <3>4. first # <<>>
      BY <2>2, <3>1, <3>2, EmptySeq
    <3> QED
      BY <3>2, <3>3, <3>4, WriteLinesElems
  <2> QED
    BY <2>1, <2>2
<1>2. TornRecord \in Lines
  BY DEF TornRecord, Lines
<1>3. /\ Append(whole, TornRecord) \in Seq(Lines)
      /\ Elems(Append(whole, TornRecord)) \subseteq Elems(whole) \cup {TornRecord}
  <2> HIDE DEF whole
  <2> QED
    BY <1>1, <1>2 DEF Elems
<1> QED
  BY <1>1, <1>3 DEF WritePart

(* An ordered listing of positions is increasing and misses none. *)
LEMMA InOrderListing ==
  ASSUME NEW n \in Nat, NEW S \in SUBSET (1..n), NEW f \in InOrder(S)
  PROVE  \E k \in Nat : /\ f \in [1..k -> S]
                        /\ \A a, b \in 1..k : a < b => f[a] < f[b]
                        /\ \A i \in S : \E a \in 1..k : f[a] = i
<1>1. IsFiniteSet(1..n)
  BY FS_Interval
<1>2. Cardinality(S) \in Nat
  BY <1>1, FS_Subset, FS_CardinalityType
<1> QED
  BY <1>2 DEF InOrder

(* The lists an append or a restart builds have the types of their variables. *)
LEMMA BatchLists ==
  ASSUME batch \in Seq(Nat), nextSeq \in Nat
  PROVE  /\ BatchRecords \in Seq(Lines) /\ Len(BatchRecords) = Len(batch)
         /\ BatchEntries \in Seq(Entries) /\ Len(BatchEntries) = Len(batch)
         /\ \A i \in 1..Len(batch) : /\ BatchRecords[i] = EventRecord(nextSeq + i - 1, batch[i])
                                     /\ BatchEntries[i] = [seq |-> nextSeq + i - 1, ev |-> batch[i]]
<1>1. Len(batch) \in Nat /\ \A i \in 1..Len(batch) : batch[i] \in Nat
  BY LenProperties, ElementOfSeq
<1>2. \A i \in 1..Len(batch) : /\ EventRecord(nextSeq + i - 1, batch[i]) \in Lines
                              /\ [seq |-> nextSeq + i - 1, ev |-> batch[i]] \in Entries
  BY <1>1 DEF EventRecord, Lines, Entries
<1>3. /\ BatchRecords \in [1..Len(batch) -> Lines]
      /\ BatchEntries \in [1..Len(batch) -> Entries]
  BY <1>2 DEF BatchRecords, BatchEntries
<1>4. /\ BatchRecords \in Seq(Lines) /\ Len(BatchRecords) = Len(batch)
      /\ BatchEntries \in Seq(Entries) /\ Len(BatchEntries) = Len(batch)
  BY <1>1, <1>3, ListIsSeq
<1> QED
  BY <1>4 DEF BatchRecords, BatchEntries

LEMMA KeptType ==
  ASSUME PipelineAssumption, NEW q \in Seq(Entries)
  PROVE  /\ Kept(q) \in Seq(Entries)
         /\ Overflow(q) \in 0..Len(q)
         /\ Len(Kept(q)) = Len(q) - Overflow(q)
         /\ \A i \in 1..Len(Kept(q)) : Kept(q)[i] = q[Overflow(q) + i]
<1>1. Len(q) \in Nat /\ BufferMax \in Nat
  BY LenProperties DEF PipelineAssumption
<1>2. Overflow(q) \in 0..Len(q)
  BY <1>1 DEF Overflow
<1>3. Kept(q) = SubSeq(q, Overflow(q) + 1, Len(q))
  BY DEF Kept
<1> DEFINE k == Overflow(q)
            u == Kept(q)
<1>4. /\ Kept(q) \in Seq(Entries)
      /\ Len(Kept(q)) = Len(q) - Overflow(q)
      /\ \A i \in 1..Len(Kept(q)) : Kept(q)[i] = q[Overflow(q) + i]
  <2>1. k \in 0..Len(q) /\ u = SubSeq(q, k + 1, Len(q))
    BY <1>2, <1>3
  <2> HIDE DEF k, u
  <2>2. /\ u \in Seq(Entries)
        /\ Len(u) = Len(q) - k
        /\ \A i \in 1..Len(u) : u[i] = q[k + i]
    BY <2>1, Suffix
  <2> QED
    BY <2>2 DEF k, u
<1> QED
  BY <1>2, <1>4

(* Eviction takes exactly the events it does not keep. *)
LEMMA EvictedEvents ==
  ASSUME PipelineAssumption, NEW q \in Seq(Entries)
  PROVE  /\ Evicted(q) \subseteq Nat
         /\ \A i \in 1..Len(q) : q[i].ev \in Evicted(q) \/ q[i] \in Elems(Kept(q))
<1>1. Len(q) \in Nat /\ Overflow(q) \in 0..Len(q)
  BY KeptType, LenProperties
<1> DEFINE out == SubSeq(q, 1, Overflow(q))
<1>2. /\ out \in Seq(Entries)
      /\ Len(out) = Overflow(q)
      /\ \A i \in 1..Overflow(q) : out[i] = q[i]
  BY <1>1, Prefix
<1>3. Evicted(q) = EventsOf(out)
  BY DEF Evicted
<1> HIDE DEF out
<1>4. DOMAIN out = 1..Overflow(q) /\ \A i \in 1..Overflow(q) : out[i] \in Entries
  BY <1>2, ElemsRange
<1>5. Evicted(q) \subseteq Nat
  BY <1>3, <1>4 DEF EventsOf, Entries
<1>6. ASSUME NEW i \in 1..Len(q)
      PROVE  q[i].ev \in Evicted(q) \/ q[i] \in Elems(Kept(q))
  <2>1. CASE i <= Overflow(q)
    BY <1>1, <1>2, <1>3, <1>4, <2>1, SMTT(30), ZenonT(60) DEF EventsOf
  <2>2. CASE i > Overflow(q)
    <3> DEFINE kept == Kept(q)
    <3>1. /\ kept \in Seq(Entries)
          /\ Len(kept) = Len(q) - Overflow(q)
          /\ \A n \in 1..Len(kept) : kept[n] = q[Overflow(q) + n]
      BY KeptType
    <3>2. i - Overflow(q) \in 1..Len(kept) /\ q[i] = kept[i - Overflow(q)]
      BY <1>1, <2>2, <3>1, SMTT(30), ZenonT(60)
    <3> HIDE DEF kept
    <3>3. q[i] \in Elems(kept)
      BY <3>1, <3>2, ElemsRange
    <3> QED
      BY <3>3 DEF kept
  <2> QED
    BY <1>1, <2>1, <2>2
<1> QED
  BY <1>5, <1>6

-----------------------------------------------------------------------------
(* Types.  FlusherShape comes along: which locals are set where matters to *)
(* the head of a batch, of a chunk and of a request.                       *)

Typed == TypeOK /\ FlusherShape

LEMMA TypesUnchanged ==
  /\ TypeOwner /\ UNCHANGED <<appVars, stopping, journalOpen>> => TypeOwner'
  /\ TypeBuffer /\ UNCHANGED bufferVars => TypeBuffer'
  /\ TypeFlusher /\ UNCHANGED flusherVars => TypeFlusher'
  /\ TypeJournal /\ UNCHANGED journalVars => TypeJournal'
  /\ TypeServer /\ UNCHANGED serverVars => TypeServer'
  /\ TypeRest /\ UNCHANGED <<faultVars, shelved, crashLost>> => TypeRest'
  /\ FlusherShape /\ UNCHANGED <<app, pc, batch, outbox, chunk>> => FlusherShape'
<1>1. TypeOwner /\ UNCHANGED <<appVars, stopping, journalOpen>> => TypeOwner'
  BY DEF TypeOwner, appVars
<1>2. TypeBuffer /\ UNCHANGED bufferVars => TypeBuffer'
  BY DEF TypeBuffer, bufferVars
<1>3. TypeFlusher /\ UNCHANGED flusherVars => TypeFlusher'
  BY DEF TypeFlusher, flusherVars
<1>4. TypeJournal /\ UNCHANGED journalVars => TypeJournal'
  BY DEF TypeJournal, journalVars
<1>5. TypeServer /\ UNCHANGED serverVars => TypeServer'
  BY DEF TypeServer, serverVars
<1>6. TypeRest /\ UNCHANGED <<faultVars, shelved, crashLost>> => TypeRest'
  BY DEF TypeRest, faultVars
<1>7. FlusherShape /\ UNCHANGED <<app, pc, batch, outbox, chunk>> => FlusherShape'
  BY DEF FlusherShape
<1> QED
  BY <1>1, <1>2, <1>3, <1>4, <1>5, <1>6, <1>7

LEMMA TypeInit == Init => Typed
<1> SUFFICES ASSUME Init
             PROVE  Typed
  OBVIOUS
<1>1. TypeOwner /\ TypeRest /\ FlusherShape
  BY DEF Init, TypeOwner, TypeRest, FlusherShape
<1>2. TypeBuffer
  BY EmptySeq DEF Init, TypeBuffer
<1>4. TypeFlusher
  BY EmptySeq DEF Init, TypeFlusher
<1>3. TypeJournal /\ TypeServer
  BY DEF Init, TypeJournal, TypeServer
<1> QED
  BY <1>1, <1>2, <1>3, <1>4 DEF Typed, TypeOK

LEMMA TypeOffer == Typed /\ Offer => Typed'
<1> SUFFICES ASSUME Typed, Offer
             PROVE  Typed'
  OBVIOUS
<1>1. TypeOwner' /\ TypeFlusher' /\ TypeJournal' /\ TypeServer' /\ TypeRest' /\ FlusherShape'
  BY TypesUnchanged DEF Typed, TypeOK, Offer, appVars, flusherVars
<1>2. TypeBuffer'
  <2>1. emitted + 1 \in Nat /\ Append(buffer, emitted + 1) \in Seq(Nat)
    BY AppendProperties DEF Typed, TypeOK, TypeBuffer
  <2> QED
    BY <2>1 DEF Typed, TypeOK, TypeBuffer, Offer
<1> QED
  BY <1>1, <1>2 DEF Typed, TypeOK

LEMMA TypeApplication == Typed /\ (Flush \/ Close \/ FlushReturn \/ CloseJournal) => Typed'
<1> SUFFICES ASSUME Typed, Flush \/ Close \/ FlushReturn \/ CloseJournal
             PROVE  Typed'
  OBVIOUS
<1> USE DEF Typed, TypeOK
<1>1. TypeBuffer' /\ TypeServer' /\ TypeRest'
  BY TypesUnchanged DEF Flush, Close, FlushCall, FlushReturn, CloseJournal
<1>2. TypeOwner'
  BY DEF TypeOwner, TypeBuffer, Flush, Close, FlushCall, FlushReturn, CloseJournal
<1>3. TypeFlusher'
  <2>1. CASE Flush \/ Close
    BY <2>1 DEF TypeFlusher, Flush, Close, FlushCall
  <2>2. CASE FlushReturn \/ CloseJournal
    BY <2>2, TypesUnchanged DEF FlushReturn, CloseJournal
  <2> QED
    BY <2>1, <2>2
<1>4. TypeJournal'
  <2>1. CASE Flush \/ Close \/ FlushReturn
    BY <2>1, TypesUnchanged DEF Flush, Close, FlushCall, FlushReturn
  <2>2. CASE CloseJournal
    BY <2>2, LenProperties DEF TypeJournal, CloseJournal
  <2> QED
    BY <2>1, <2>2
<1>5. FlusherShape'
  BY DEF FlusherShape, Flush, Close, FlushCall, FlushReturn, CloseJournal, flusherVars
<1> QED
  BY <1>1, <1>2, <1>3, <1>4, <1>5

LEMMA TypeTime == Typed /\ Time => Typed'
<1> SUFFICES ASSUME Typed, Time
             PROVE  Typed'
  OBVIOUS
<1> USE DEF Typed, TypeOK, Time, BackoffExpires, IntervalElapses
<1>1. TypeOwner' /\ TypeBuffer' /\ TypeJournal' /\ TypeServer' /\ TypeRest'
  BY TypesUnchanged
<1>2. TypeFlusher'
  BY DEF TypeFlusher
<1>3. FlusherShape'
  BY TypesUnchanged DEF appVars
<1> QED
  BY <1>1, <1>2, <1>3

(* the steps of the flusher that only move it, or let go of a local *)
LEMMA TypeMove ==
  Typed /\ (LoopTest \/ Deliver \/ SendDone \/ AppendAfterClose \/ AckAfterClose) => Typed'
<1> SUFFICES ASSUME Typed, LoopTest \/ Deliver \/ SendDone \/ AppendAfterClose \/ AckAfterClose
             PROVE  Typed'
  OBVIOUS
<1> USE DEF Typed, TypeOK, LoopTest, Deliver, SendDone, AppendAfterClose, AckAfterClose
<1>1. TypeOwner' /\ TypeBuffer' /\ TypeJournal' /\ TypeServer'
  BY TypesUnchanged
<1>2. TypeRest'
  <2>1. Elems(batch) \subseteq Nat
    BY ElemsRange DEF TypeFlusher
  <2> QED
    BY <2>1 DEF TypeRest, faultVars
<1>3. TypeFlusher'
  <2>1. /\ invalid' = invalid /\ outbox' = outbox
        /\ batch' \in {batch, <<>>} /\ chunk' \in {chunk, <<>>}
    OBVIOUS
  <2>2. batch' \in Seq(Nat) /\ outbox' \in Seq(Entries) /\ chunk' \in Seq(Entries)
    BY <2>1, EmptySeq DEF TypeFlusher
  <2>3. /\ force' \in BOOLEAN /\ final' \in BOOLEAN
        /\ backoff' \in BOOLEAN /\ elapsed' \in BOOLEAN
    BY DEF TypeFlusher, TypeOwner
  <2>4. pc' \in {"idle", "cycle", "append", "deliver", "send", "sending", "ack", "stopped", "down"}
    BY DEF AfterCycle
  <2> QED
    BY <2>1, <2>2, <2>3, <2>4 DEF TypeFlusher
<1>4. FlusherShape'
  BY DEF FlusherShape, AfterCycle, appVars
<1> QED
  BY <1>1, <1>2, <1>3, <1>4

LEMMA TypeDrain == Typed /\ Drain => Typed'
<1> SUFFICES ASSUME Typed, Drain
             PROVE  Typed'
  OBVIOUS
<1> USE DEF Typed, TypeOK
<1> DEFINE Valid == {i \in DOMAIN buffer : buffer[i] \notin Invalid}
<1>0. /\ Len(buffer) \in Nat /\ DOMAIN buffer = 1..Len(buffer)
      /\ \A i \in 1..Len(buffer) : buffer[i] \in Nat
      /\ \A e : e \in Elems(buffer) <=> \E i \in 1..Len(buffer) : e = buffer[i]
      /\ Elems(buffer) \subseteq Nat
  BY ElemsRange DEF TypeBuffer
<1>1. PICK f \in InOrder(Valid) : batch' = [n \in DOMAIN f |-> buffer[f[n]]]
  BY DEF Drain
<1>2. Valid \in SUBSET (1..Len(buffer))
  BY <1>0
<1>3. PICK k \in Nat : f \in [1..k -> Valid] /\ \A i \in Valid : \E a \in 1..k : f[a] = i
  <2>1. Len(buffer) \in Nat /\ f \in InOrder(Valid)
    BY <1>0
  <2> HIDE DEF Valid
  <2>2. \E k \in Nat : /\ f \in [1..k -> Valid]
                       /\ \A a, b \in 1..k : a < b => f[a] < f[b]
                       /\ \A i \in Valid : \E a \in 1..k : f[a] = i
    <3>1. \A P \in SUBSET (1..Len(buffer)) : \A g \in InOrder(P) : \E k \in Nat :
            /\ g \in [1..k -> P]
            /\ \A a, b \in 1..k : a < b => g[a] < g[b]
            /\ \A i \in P : \E a \in 1..k : g[a] = i
      BY <2>1, InOrderListing
    <3> QED
      BY <1>2, <2>1, <3>1
  <2> QED
    BY <2>2
<1>4. batch' \in [1..k -> Nat]
  BY <1>0, <1>1, <1>2, <1>3
<1>5. batch' \in Seq(Nat) /\ Len(batch') = k
  BY <1>4, ListIsSeq
<1>6. ~(Elems(buffer) \subseteq Invalid) => batch' # <<>>
  <2>1. ASSUME ~(Elems(buffer) \subseteq Invalid)
        PROVE  k # 0
    BY <1>0, <1>3, <2>1
  <2> QED
    BY <1>5, <2>1, EmptySeq
<1>7. TypeOwner' /\ TypeJournal' /\ TypeServer' /\ TypeRest'
  BY TypesUnchanged DEF Drain
<1>8. TypeBuffer'
  BY EmptySeq DEF TypeBuffer, Drain
<1>9. TypeFlusher'
  BY <1>0, <1>5 DEF TypeFlusher, Drain
<1>10. FlusherShape'
  BY <1>6 DEF FlusherShape, Drain, appVars
<1> QED
  BY <1>7, <1>8, <1>9, <1>10

LEMMA TypeJournalBatch == PipelineAssumption /\ Typed /\ JournalBatch => Typed'
<1> SUFFICES ASSUME PipelineAssumption, Typed, JournalBatch
             PROVE  Typed'
  OBVIOUS
<1> USE DEF Typed, TypeOK
<1>1. /\ BatchRecords \in Seq(Lines) /\ Len(BatchRecords) = Len(batch)
      /\ BatchEntries \in Seq(Entries) /\ Len(batch) \in Nat
  BY BatchLists, LenProperties DEF TypeFlusher, TypeJournal
<1>2. BatchRecords # <<>>
  BY <1>1, EmptySeq DEF FlusherShape, JournalBatch, TypeFlusher
<1>3. journal' \in Seq(Lines)
  BY <1>1, <1>2, WriteLinesElems DEF JournalBatch, TypeJournal
<1>4. TypeJournal'
  BY <1>1, <1>3, LenProperties, SMTT(30), ZenonT(60) DEF TypeJournal, JournalBatch
<1>5. Queued \in Seq(Entries)
  BY <1>1, ElemsConcat DEF Queued, TypeFlusher
<1>6. Kept(Queued) \in Seq(Entries) /\ Evicted(Queued) \subseteq Nat
  BY <1>5, KeptType, EvictedEvents
<1>7. TypeOwner' /\ TypeBuffer' /\ TypeServer'
  BY TypesUnchanged DEF JournalBatch
<1>8. TypeFlusher'
  BY <1>6, EmptySeq DEF TypeFlusher, JournalBatch
<1>9. TypeRest'
  BY <1>6 DEF TypeRest, JournalBatch, faultVars
<1>10. FlusherShape'
  BY DEF FlusherShape, JournalBatch, appVars
<1> QED
  BY <1>4, <1>7, <1>8, <1>9, <1>10

(* what a failing or interrupted write leaves in the file *)
LEMMA TypeWritePart ==
  ASSUME Typed, NEW n \in 0..Len(batch), NEW torn \in BOOLEAN
  PROVE  WritePart(journal, BatchRecords, n, torn) \in Seq(Lines)
<1>1. BatchRecords \in Seq(Lines) /\ Len(BatchRecords) = Len(batch) /\ journal \in Seq(Lines)
  BY BatchLists DEF Typed, TypeOK, TypeFlusher, TypeJournal
<1> QED
  BY <1>1, WritePartElems

LEMMA TypeAppendFails == Typed /\ AppendFails => Typed'
<1> SUFFICES ASSUME Typed, AppendFails
             PROVE  Typed'
  OBVIOUS
<1> USE DEF Typed, TypeOK
<1>1. Elems(batch) \subseteq Nat /\ Len(batch) \in Nat
  BY ElemsRange DEF TypeFlusher
<1>2. PICK n \in 0..Len(batch), torn \in BOOLEAN :
        /\ journal' = WritePart(journal, BatchRecords, n, torn)
        /\ nextSeq' = IF n = Len(batch) THEN nextSeq + n ELSE nextSeq
        /\ unsynced' = IF n = Len(batch) THEN unsynced + n ELSE unsynced
  BY DEF AppendFails
<1>3. journal' \in Seq(Lines)
  BY <1>2, TypeWritePart
<1>4. TypeJournal'
  BY <1>1, <1>2, <1>3 DEF TypeJournal, AppendFails
<1>5. TypeOwner' /\ TypeBuffer' /\ TypeServer'
  BY TypesUnchanged DEF AppendFails
<1>6. TypeFlusher'
  BY EmptySeq DEF TypeFlusher, AppendFails, AfterCycle
<1>7. TypeRest'
  <2>1. /\ shelved' = shelved \cup Elems(batch) /\ crashLost' = crashLost
        /\ crashes' = crashes /\ failures' = failures /\ errors' = errors + 1
    BY DEF AppendFails
  <2>2. shelved' \subseteq Nat /\ crashLost' \subseteq Nat
    BY <1>1, <2>1 DEF TypeRest
  <2>3. crashes' \in Nat /\ failures' \in Nat /\ errors' \in Nat
    BY <2>1 DEF TypeRest
  <2> QED
    BY <2>2, <2>3 DEF TypeRest
<1>8. FlusherShape'
  BY DEF FlusherShape, AppendFails, AfterCycle, appVars
<1> QED
  BY <1>4, <1>5, <1>6, <1>7, <1>8

LEMMA TypeSendChunk == PipelineAssumption /\ Typed /\ SendChunk => Typed'
<1> SUFFICES ASSUME PipelineAssumption, Typed, SendChunk
             PROVE  Typed'
  OBVIOUS
<1> USE DEF Typed, TypeOK
<1> DEFINE k == IF Len(outbox) < BatchMax THEN Len(outbox) ELSE BatchMax
<1>1. outbox \in Seq(Entries) /\ outbox # <<>> /\ Len(outbox) \in Nat /\ Len(outbox) > 0
  BY ElemsRange DEF TypeFlusher, SendChunk
<1>2. k \in 1..Len(outbox)
  BY <1>1 DEF PipelineAssumption
<1>3. chunk' = SubSeq(outbox, 1, k) /\ k \in 0..Len(outbox)
  BY <1>1, <1>2 DEF SendChunk
<1>4. /\ chunk' \in Seq(Entries) /\ Len(chunk') = k
      /\ \A i \in 1..k : chunk'[i] = outbox[i]
  BY <1>1, <1>3, Prefix
<1>5. chunk' # <<>>
  BY <1>2, <1>4, EmptySeq
<1>6. request' \in Seq(Nat)
  <2>1. DOMAIN chunk' = 1..k /\ \A i \in 1..k : chunk'[i] \in Entries
    BY <1>4, ElemsRange
  <2>2. request' = [i \in DOMAIN chunk' |-> chunk'[i].ev]
    BY DEF SendChunk
  <2>3. request' \in [1..k -> Nat] /\ k \in Nat
    BY <1>1, <1>2, <2>1, <2>2 DEF Entries
  <2> QED
    BY <2>3, ListIsSeq
<1>7. TypeOwner' /\ TypeBuffer' /\ TypeJournal' /\ TypeRest'
  BY TypesUnchanged DEF SendChunk
<1>8. TypeFlusher'
  BY <1>4 DEF TypeFlusher, SendChunk
<1>9. TypeServer'
  BY <1>6 DEF TypeServer, SendChunk
<1>10. FlusherShape'
  <2>1. outbox' = outbox /\ app' = app /\ pc' = "sending" /\ pc = "send"
    BY DEF SendChunk, appVars
  <2>2. k <= Len(outbox)
    BY <1>1, <1>2
  <2> HIDE DEF k
  <2> QED
    BY <1>4, <1>5, <2>1, <2>2 DEF FlusherShape
<1> QED
  BY <1>7, <1>8, <1>9, <1>10

LEMMA TypeUnsent ==
  ASSUME Typed, pc = "sending"
  PROVE  /\ chunk # <<>> /\ Len(chunk) \in 1..Len(outbox)
         /\ Unsent \in Seq(Entries)
         /\ Len(Unsent) = Len(outbox) - Len(chunk)
         /\ \A i \in 1..Len(Unsent) : Unsent[i] = outbox[Len(chunk) + i]
<1>1. outbox \in Seq(Entries) /\ chunk \in Seq(Entries)
  BY DEF Typed, TypeOK, TypeFlusher
<1>2. chunk # <<>> /\ Len(chunk) <= Len(outbox)
  BY DEF Typed, FlusherShape
<1>3. Len(chunk) \in 1..Len(outbox)
  BY <1>1, <1>2, ElemsRange
<1>4. Unsent = SubSeq(outbox, Len(chunk) + 1, Len(outbox)) /\ Len(chunk) \in 0..Len(outbox)
  BY <1>3 DEF Unsent
<1>5. /\ Unsent \in Seq(Entries)
      /\ Len(Unsent) = Len(outbox) - Len(chunk)
      /\ \A i \in 1..Len(Unsent) : Unsent[i] = outbox[Len(chunk) + i]
  BY <1>1, <1>4, Suffix
<1> QED
  BY <1>2, <1>3, <1>5

LEMMA TypeSendSucceeds == Typed /\ SendSucceeds => Typed'
<1> SUFFICES ASSUME Typed, SendSucceeds
             PROVE  Typed'
  OBVIOUS
<1> USE DEF Typed, TypeOK
<1>1. outbox' \in Seq(Entries) /\ chunk' = chunk /\ chunk # <<>>
  BY TypeUnsent DEF SendSucceeds
<1>2. TypeOwner' /\ TypeBuffer' /\ TypeJournal' /\ TypeServer' /\ TypeRest'
  BY TypesUnchanged DEF SendSucceeds
<1>3. TypeFlusher'
  BY <1>1 DEF TypeFlusher, SendSucceeds
<1>4. FlusherShape'
  BY <1>1 DEF FlusherShape, SendSucceeds, appVars
<1> QED
  BY <1>2, <1>3, <1>4

LEMMA TypeSendFails == Typed /\ SendFails => Typed'
<1> SUFFICES ASSUME Typed, SendFails
             PROVE  Typed'
  OBVIOUS
<1> USE DEF Typed, TypeOK
<1>1. TypeOwner' /\ TypeBuffer' /\ TypeJournal'
  BY TypesUnchanged DEF SendFails
<1>2. TypeFlusher'
  BY EmptySeq DEF TypeFlusher, SendFails, AfterCycle
<1>3. TypeServer'
  BY EmptySeq DEF TypeServer, SendFails, Abandon
<1>4. TypeRest'
  BY DEF TypeRest, SendFails
<1>5. FlusherShape'
  BY DEF FlusherShape, SendFails, AfterCycle, appVars
<1> QED
  BY <1>1, <1>2, <1>3, <1>4, <1>5

LEMMA AckRecordType ==
  ASSUME Typed, pc = "ack"
  PROVE  /\ chunk # <<>> /\ HighestSeq \in Nat
         /\ <<AckRecord(HighestSeq)>> \in Seq(Lines)
         /\ <<AckRecord(HighestSeq)>> # <<>>
         /\ Elems(<<AckRecord(HighestSeq)>>) = {AckRecord(HighestSeq)}
<1>1. chunk \in Seq(Entries) /\ chunk # <<>>
  BY DEF Typed, TypeOK, TypeFlusher, FlusherShape
<1>2. Len(chunk) \in 1..Len(chunk) /\ chunk[Len(chunk)] \in Entries
  BY <1>1, ElemsRange
<1>3. HighestSeq \in Nat
  BY <1>2 DEF HighestSeq, Entries
<1>4. AckRecord(HighestSeq) \in Lines
  BY <1>3 DEF AckRecord, Lines
<1> HIDE DEF HighestSeq
<1> DEFINE a == AckRecord(HighestSeq)
<1>5. a \in Lines
  BY <1>4
<1> HIDE DEF a
<1>6. <<a>> \in Seq(Lines) /\ <<a>> # <<>> /\ Elems(<<a>>) = {a}
  BY <1>5 DEF Elems
<1> QED
  BY <1>1, <1>3, <1>6 DEF a

LEMMA TypeAck == Typed /\ (Ack \/ AckFails) => Typed'
<1> SUFFICES ASSUME Typed, Ack \/ AckFails
             PROVE  Typed'
  OBVIOUS
<1> USE DEF Typed, TypeOK
<1>1. journal \in Seq(Lines) /\ <<>> \in Seq(Lines)
  BY EmptySeq DEF TypeJournal
<1>2. journal' \in Seq(Lines)
  <2>1. CASE Ack
    BY <1>1, <2>1, AckRecordType, WriteLinesElems DEF Ack
  <2>2. CASE AckFails
    <3>1. PICK torn \in BOOLEAN : journal' = WritePart(journal, <<>>, 0, torn)
      BY <2>2 DEF AckFails
    <3>2. 0 \in 0..Len(<<>>)
      BY EmptySeq
    <3> QED
      BY <1>1, <3>1, <3>2, WritePartElems
  <2> QED
    BY <2>1, <2>2
<1>3. TypeJournal'
  BY <1>2 DEF TypeJournal, Ack, AckFails
<1>4. TypeOwner' /\ TypeBuffer' /\ TypeServer'
  BY TypesUnchanged DEF Ack, AckFails
<1>5. TypeFlusher'
  BY EmptySeq DEF TypeFlusher, Ack, AckFails, AfterCycle
<1>6. TypeRest'
  <2>1. shelved' = shelved /\ crashLost' = crashLost
    BY DEF Ack, AckFails
  <2>2. crashes' = crashes /\ failures' = failures /\ errors' \in {errors, errors + 1}
    BY DEF Ack, AckFails, faultVars
  <2> QED
    BY <2>1, <2>2 DEF TypeRest
<1>7. FlusherShape'
  BY DEF FlusherShape, Ack, AckFails, AfterCycle, appVars
<1> QED
  BY <1>3, <1>4, <1>5, <1>6, <1>7

(* The API adds the event to the chain or to the rejected ones. *)
LEMMA IngestEffect ==
  ASSUME TypeServer, NEW e \in Nat, Ingest(e)
  PROVE  /\ chain' \in Seq(Nat) /\ rejected' \subseteq Nat
         /\ Settled' = Settled \cup {e}
<1>1. chain \in Seq(Nat) /\ rejected \subseteq Nat
  BY DEF TypeServer
<1>2. CASE e \in Refused
  BY <1>1, <1>2 DEF Ingest, Settled
<1>3. CASE e \notin Refused /\ e \in Elems(chain)
  BY <1>1, <1>3 DEF Ingest, Settled
<1>4. CASE e \notin Refused /\ e \notin Elems(chain)
  <2>1. chain' = Append(chain, e) /\ rejected' = rejected
    BY <1>4 DEF Ingest
  <2>2. /\ chain' \in Seq(Nat) /\ Len(chain') = Len(chain) + 1 /\ Len(chain) \in Nat
        /\ \A i \in 1..Len(chain) : chain'[i] = chain[i]
        /\ chain'[Len(chain) + 1] = e
    BY <1>1, <2>1, AppendProperties, LenProperties
  <2>3. /\ DOMAIN chain = 1..Len(chain) /\ DOMAIN chain' = 1..(Len(chain) + 1)
    BY <1>1, <2>2, LenProperties
  <2>4. {chain'[i] : i \in DOMAIN chain'} = {chain[i] : i \in DOMAIN chain} \cup {e}
    BY <2>2, <2>3
  <2>5. Elems(chain)' = {chain'[i] : i \in DOMAIN chain'}
    BY DEF Elems
  <2>6. Elems(chain)' = Elems(chain) \cup {e}
    BY <2>4, <2>5 DEF Elems
  <2> QED
    BY <1>1, <2>1, <2>2, <2>6 DEF Settled
<1> QED
  BY <1>2, <1>3, <1>4

LEMMA TypeServerStep == Typed /\ Server => Typed'
<1> SUFFICES ASSUME Typed, Server
             PROVE  Typed'
  OBVIOUS
<1> USE DEF Typed, TypeOK
<1>1. TypeOwner' /\ TypeBuffer' /\ TypeFlusher' /\ TypeJournal' /\ TypeRest'
  BY TypesUnchanged DEF Server, IngestEvent, IngestLate
<1>2. FlusherShape'
  BY TypesUnchanged DEF Server, IngestEvent, IngestLate, appVars, flusherVars
<1>3. TypeServer'
  <2>1. CASE IngestEvent
    <3>1. Head(request) \in Nat /\ Tail(request) \in Seq(Nat)
      BY <2>1, ElemsTail DEF IngestEvent, TypeServer
    <3>2. chain' \in Seq(Nat) /\ rejected' \subseteq Nat
      BY <2>1, <3>1, IngestEffect DEF IngestEvent
    <3> QED
      BY <2>1, <3>1, <3>2 DEF IngestEvent, TypeServer
  <2>2. CASE IngestLate
    <3>1. PICK r \in late :
            /\ Ingest(Head(r))
            /\ late' = (late \ {r}) \cup (IF Len(r) = 1 THEN {} ELSE {Tail(r)})
      BY <2>2 DEF IngestLate
    <3>2. r \in Seq(Nat) /\ r # <<>>
      BY DEF TypeServer
    <3>3. /\ Head(r) \in Nat /\ Tail(r) \in Seq(Nat) /\ Len(Tail(r)) = Len(r) - 1
          /\ Len(r) \in Nat
      BY <3>2, HeadTailProperties, LenProperties
    <3>4. Len(r) # 1 => Tail(r) # <<>>
      <4> DEFINE rest == Tail(r)
      <4>1. rest \in Seq(Nat) /\ Len(rest) = Len(r) - 1 /\ Len(r) \in Nat
        BY <3>3
      <4> HIDE DEF rest
      <4>2. Len(r) # 1 => rest # <<>>
        BY <4>1, EmptySeq
      <4> QED
        BY <4>2 DEF rest
    <3>5. chain' \in Seq(Nat) /\ rejected' \subseteq Nat
      BY <3>1, <3>3, IngestEffect
    <3> QED
      BY <2>2, <3>1, <3>3, <3>4, <3>5 DEF IngestLate, TypeServer
  <2> QED
    BY <2>1, <2>2 DEF Server
<1> QED
  BY <1>1, <1>2, <1>3

LEMMA TypeDie == ASSUME Typed, NEW j \in Seq(Lines), DieWith(j) PROVE Typed'
<1> USE DEF Typed, TypeOK
<1>1. TypeOwner'
  BY DEF TypeOwner, DieWith
<1>2. TypeBuffer'
  BY EmptySeq DEF TypeBuffer, DieWith
<1>3. TypeFlusher'
  BY EmptySeq DEF TypeFlusher, DieWith
<1>4. TypeJournal'
  BY LenProperties DEF TypeJournal, DieWith
<1>5. TypeServer'
  BY EmptySeq DEF TypeServer, DieWith, Abandon
<1>6. TypeRest'
  <2> DEFINE held == Elems(buffer) \cup Elems(batch) \cup EventsOf(outbox) \cup Replayable(journal)
  <2>1. Elems(buffer) \subseteq Nat /\ Elems(batch) \subseteq Nat
    BY ElemsRange DEF TypeBuffer, TypeFlusher
  <2>2. EventsOf(outbox) \subseteq Nat
    <3>1. \A i \in DOMAIN outbox : outbox[i] \in Entries
      BY ElemsRange DEF TypeFlusher
    <3> QED
      BY <3>1 DEF EventsOf, Entries
  <2>3. Replayable(journal) \subseteq Nat
    <3>1. \A i \in DOMAIN journal : journal[i] \in Lines
      BY ElemsRange DEF TypeJournal
    <3> QED
      BY <3>1 DEF Replayable, Unacked, Lines
  <2>4. held \subseteq Nat
    BY <2>1, <2>2, <2>3
  <2>5. crashLost' = crashLost \cup (held \ Replayable(j)) /\ shelved' = shelved
    BY DEF DieWith
  <2> HIDE DEF held
  <2>6. shelved' \subseteq Nat /\ crashLost' \subseteq Nat
    BY <2>4, <2>5 DEF TypeRest
  <2>7. crashes' \in Nat /\ failures' \in Nat /\ errors' \in Nat
    BY DEF TypeRest, DieWith
  <2> QED
    BY <2>6, <2>7 DEF TypeRest
<1>7. FlusherShape'
  BY DEF FlusherShape, DieWith
<1> QED
  BY <1>1, <1>2, <1>3, <1>4, <1>5, <1>6, <1>7

LEMMA CrashContent ==
  ASSUME Typed, Crash \/ CrashInWrite
  PROVE  \E j \in Seq(Lines) :
           /\ DieWith(j)
           /\ Elems(j) \subseteq Elems(journal) \cup Elems(BatchRecords) \cup {CorruptRecord, TornRecord}
           /\ Crash => Elems(j) \subseteq Elems(journal)
           /\ ~Crash => pc = "append"
<1>0. journal \in Seq(Lines) /\ synced \in Nat /\ Len(journal) \in Nat
  BY LenProperties DEF Typed, TypeOK, TypeJournal
<1>1. CASE Crash
  <2>1. PICK n \in synced..Len(journal) : DieWith(SubSeq(journal, 1, n))
    BY <1>1 DEF Crash
  <2> DEFINE j == SubSeq(journal, 1, n)
  <2>2. n \in 0..Len(journal)
    BY <1>0
  <2>3. j \in Seq(Lines) /\ Elems(j) \subseteq Elems(journal)
    BY <1>0, <2>2, Prefix
  <2>4. DieWith(j)
    BY <2>1
  <2> HIDE DEF j
  <2> QED
    BY <1>1, <2>3, <2>4
<1>2. CASE CrashInWrite /\ ~Crash
  <2>1. PICK n \in 0..(Len(batch) - 1), torn \in BOOLEAN :
           DieWith(WritePart(journal, BatchRecords, n, torn))
    BY <1>2 DEF CrashInWrite
  <2>2. BatchRecords \in Seq(Lines) /\ Len(BatchRecords) = Len(batch) /\ Len(batch) \in Nat
    BY BatchLists, LenProperties DEF Typed, TypeOK, TypeFlusher, TypeJournal
  <2>3. n \in 0..Len(BatchRecords)
    BY <2>2
  <2> DEFINE j == WritePart(journal, BatchRecords, n, torn)
  <2>4. /\ j \in Seq(Lines)
        /\ Elems(j) \subseteq Elems(journal) \cup Elems(BatchRecords) \cup {CorruptRecord, TornRecord}
    BY <1>0, <2>2, <2>3, WritePartElems
  <2>5. DieWith(j) /\ pc = "append"
    BY <1>2, <2>1 DEF CrashInWrite
  <2> HIDE DEF j
  <2> QED
    BY <1>2, <2>4, <2>5
<1> QED
  BY <1>1, <1>2

LEMMA TypeCrash == Typed /\ (Crash \/ CrashInWrite) => Typed'
  BY CrashContent, TypeDie

(* What a restart with recovery makes of the journal: f lists the positions *)
(* of the unacknowledged records, one replay entry and one record for each. *)
LEMMA RestartLists ==
  ASSUME Typed, PipelineAssumption, ReplayJournal
  PROVE  \E k \in Nat : \E f \in [1..k -> Unacked(journal)] : \E replay \in Seq(Entries) :
           /\ journal' \in Seq(Lines) /\ Len(journal') = k
           /\ Len(replay) = k
           /\ \A i \in 1..k : /\ replay[i] = [seq |-> i, ev |-> journal[f[i]].ev]
                              /\ journal'[i] = EventRecord(i, journal[f[i]].ev)
           /\ outbox' = Kept(replay)
           /\ shelved' = shelved \cup Evicted(replay)
           /\ synced' = k /\ nextSeq' = k + 1
           /\ \A x, y \in 1..k : x < y => f[x] < f[y]
<1>1. journal \in Seq(Lines) /\ Len(journal) \in Nat /\ DOMAIN journal = 1..Len(journal)
  BY LenProperties DEF Typed, TypeOK, TypeJournal
<1>2. Unacked(journal) \in SUBSET (1..Len(journal))
  BY <1>1 DEF Unacked
<1> DEFINE U == Unacked(journal)
<1>3. PICK f \in InOrder(U) :
        LET replay == [n \in DOMAIN f |-> [seq |-> n, ev |-> journal[f[n]].ev]]
        IN  /\ journal' = [n \in DOMAIN f |-> EventRecord(n, journal[f[n]].ev)]
            /\ synced' = Len(replay)
            /\ nextSeq' = StartSeq(Len(replay))
            /\ outbox' = Kept(replay)
            /\ shelved' = shelved \cup Evicted(replay)
  BY DEF ReplayJournal
<1> DEFINE replay == [n \in DOMAIN f |-> [seq |-> n, ev |-> journal[f[n]].ev]]
<1>4. PICK k \in Nat : f \in [1..k -> U] /\ \A a, b \in 1..k : a < b => f[a] < f[b]
  <2>1. \A P \in SUBSET (1..Len(journal)) : \A g \in InOrder(P) : \E k \in Nat :
          /\ g \in [1..k -> P]
          /\ \A a, b \in 1..k : a < b => g[a] < g[b]
          /\ \A i \in P : \E a \in 1..k : g[a] = i
    BY <1>1, InOrderListing
  <2> HIDE DEF U
  <2>2. U \in SUBSET (1..Len(journal))
    BY <1>2 DEF U
  <2>3. f \in InOrder(U)
    BY <1>3 DEF U
  <2> QED
    BY <2>1, <2>2, <2>3
<1>5. \A i \in 1..k : f[i] \in U /\ journal[f[i]] \in Lines /\ journal[f[i]].ev \in Nat
  <2>1. \A i \in 1..Len(journal) : journal[i] \in Lines /\ journal[i].ev \in Nat
    <3>1. \A i \in 1..Len(journal) : journal[i] \in Lines
      BY <1>1, ElementOfSeq
    <3> QED
      BY <3>1 DEF Lines
  <2> QED
    BY <1>2, <1>4, <2>1
<1>6. DOMAIN f = 1..k
  BY <1>4
<1>7. replay \in [1..k -> Entries] /\ journal' \in [1..k -> Lines]
  BY <1>3, <1>5, <1>6 DEF Entries, Lines, EventRecord
<1>8. /\ replay \in Seq(Entries) /\ Len(replay) = k
      /\ journal' \in Seq(Lines) /\ Len(journal') = k
  <2> HIDE DEF replay
  <2> QED
    BY <1>7, ListIsSeq
<1>9. \A i \in 1..k : /\ replay[i] = [seq |-> i, ev |-> journal[f[i]].ev]
                      /\ journal'[i] = EventRecord(i, journal[f[i]].ev)
  BY <1>3, <1>6
<1>10. /\ synced' = Len(replay) /\ nextSeq' = StartSeq(Len(replay))
       /\ outbox' = Kept(replay) /\ shelved' = shelved \cup Evicted(replay)
  BY <1>3
<1> HIDE DEF replay, U
<1>11. synced' = k /\ nextSeq' = k + 1
  BY <1>8, <1>10 DEF StartSeq
<1>12. f \in [1..k -> Unacked(journal)] /\ \A x, y \in 1..k : x < y => f[x] < f[y]
  BY <1>4 DEF U
<1> QED
  BY <1>8, <1>9, <1>10, <1>11, <1>12

LEMMA TypeRestart == PipelineAssumption /\ Typed /\ Restart => Typed'
<1> SUFFICES ASSUME PipelineAssumption, Typed, Restart
             PROVE  Typed'
  OBVIOUS
<1>0. TypeOwner /\ TypeBuffer /\ TypeFlusher /\ TypeJournal /\ TypeServer /\ TypeRest
  BY DEF Typed, TypeOK
<1>1. TypeOwner'
  BY <1>0 DEF TypeOwner, Restart
<1>2. TypeBuffer' /\ TypeServer'
  BY <1>0, TypesUnchanged DEF Restart
<1>3. /\ journal' \in Seq(Lines) /\ synced' \in Nat /\ nextSeq' \in Nat
      /\ outbox' \in Seq(Entries) /\ shelved' \subseteq Nat
  <2>1. CASE ReplayJournal
    <3>1. PICK k \in Nat, replay \in Seq(Entries) :
            /\ journal' \in Seq(Lines)
            /\ outbox' = Kept(replay)
            /\ shelved' = shelved \cup Evicted(replay)
            /\ synced' = k /\ nextSeq' = k + 1
      BY <2>1, RestartLists
    <3>2. Kept(replay) \in Seq(Entries) /\ Evicted(replay) \subseteq Nat
      BY KeptType, EvictedEvents
    <3>3. k \in Nat /\ k + 1 \in Nat /\ shelved \subseteq Nat
      BY <1>0 DEF TypeRest
    <3>4. shelved' \subseteq Nat
      BY <3>1, <3>2, <3>3
    <3> QED
      BY <3>1, <3>2, <3>3, <3>4
  <2>2. CASE ContinueJournal
    <3>1. \A i \in DOMAIN journal : journal[i] \in Lines
      BY <1>0, ElemsRange DEF TypeJournal
    <3>2. Replayable(journal) \subseteq Nat /\ HighestIn(journal) \subseteq Nat
      BY <3>1 DEF Replayable, Unacked, HighestIn, Lines
    <3>3. /\ \E n \in HighestIn(journal) : nextSeq' = n + 1
          /\ shelved' = shelved \cup Replayable(journal)
          /\ journal' = journal /\ synced' = synced /\ outbox' = outbox
      BY <2>2 DEF ContinueJournal
    <3>4. nextSeq' \in Nat
      BY <3>2, <3>3
    <3>5. shelved' \subseteq Nat
      BY <1>0, <3>2, <3>3 DEF TypeRest
    <3> QED
      BY <1>0, <3>3, <3>4, <3>5 DEF TypeJournal, TypeFlusher
  <2>3. ReplayJournal \/ ContinueJournal
    BY DEF Restart
  <2> QED
    BY <2>1, <2>2, <2>3
<1>4. TypeFlusher'
  BY <1>0, <1>3 DEF TypeFlusher, Restart
<1>5. TypeJournal'
  BY <1>3 DEF TypeJournal, Restart
<1>6. TypeRest'
  <2>1. crashLost' = crashLost /\ crashes' = crashes /\ failures' = failures /\ errors' = errors
    BY DEF Restart, faultVars
  <2> QED
    BY <1>0, <1>3, <2>1 DEF TypeRest
<1>7. FlusherShape'
  BY DEF FlusherShape, Restart
<1> QED
  BY <1>1, <1>2, <1>4, <1>5, <1>6, <1>7 DEF Typed, TypeOK

LEMMA TypeStep == PipelineAssumption /\ Typed /\ [Next]_vars => Typed'
<1>1. Typed /\ UNCHANGED vars => Typed'
  BY TypesUnchanged DEF Typed, TypeOK, vars, appVars, flusherVars
<1> QED
  BY <1>1, TypeOffer, TypeApplication, TypeTime, TypeMove, TypeDrain, TypeJournalBatch,
     TypeAppendFails, TypeSendChunk, TypeSendSucceeds, TypeSendFails, TypeAck,
     TypeServerStep, TypeCrash, TypeRestart
  DEF Next, Application, Flusher, Faults

-----------------------------------------------------------------------------
(* Acknowledgements.  What matters of the journal is the set of its lines. *)

Safe == Typed /\ IInv

(* the steps that touch neither the journal nor the outbox *)
LEMMA SafeUntouched ==
  ASSUME IInv, FlusherShape',
         UNCHANGED <<journal, nextSeq, outbox>>, app' # "down" => app # "down",
         Settled \subseteq Settled', shelved \subseteq shelved',
         pc' = "ack" => pc = "ack" /\ chunk' = chunk,
         pc' = "sending" => /\ pc = "sending" /\ chunk' = chunk
                            /\ Elems(request) \subseteq Settled' \cup Elems(request')
  PROVE  IInv'
<1>1. SeqsOrdered'
  BY DEF IInv, SeqsOrdered, HighestSeq
<1>2. RecordsHeld'
  BY DEF IInv, RecordsHeld
<1>3. ChunkAsked'
  BY DEF IInv, ChunkAsked
<1>4. AckSafe'
  BY DEF IInv, AckSafe, HighestSeq
<1>5. AcksSafe'
  BY DEF IInv, AcksSafe
<1> QED
  BY <1>1, <1>2, <1>3, <1>4, <1>5 DEF IInv

LEMMA SafeApplication == Safe /\ Typed' /\ (Application \/ Time) => IInv'
<1> SUFFICES ASSUME Safe, Typed', Application \/ Time
             PROVE  IInv'
  OBVIOUS
<1>1. /\ UNCHANGED <<journal, nextSeq, outbox, pc, chunk, request, chain, rejected, shelved>>
      /\ app' # "down" => app # "down"
  BY DEF Application, Time, Offer, Flush, Close, FlushCall, FlushReturn, CloseJournal,
         BackoffExpires, IntervalElapses, appVars, flusherVars, journalVars, serverVars
<1>2. Settled' = Settled /\ FlusherShape' /\ IInv
  BY <1>1 DEF Settled, Safe, Typed
<1> QED
  BY <1>1, <1>2, SafeUntouched

LEMMA SafeMove ==
  Safe /\ Typed'
    /\ (LoopTest \/ Drain \/ Deliver \/ SendDone \/ AppendAfterClose \/ AckAfterClose \/ SendFails)
      => IInv'
<1> SUFFICES ASSUME Safe, Typed',
                    LoopTest \/ Drain \/ Deliver \/ SendDone \/ AppendAfterClose
                      \/ AckAfterClose \/ SendFails
             PROVE  IInv'
  OBVIOUS
<1>1. /\ UNCHANGED <<journal, nextSeq, outbox, app, chain, rejected>>
      /\ shelved \subseteq shelved' /\ pc' \notin {"ack", "sending"}
  BY DEF LoopTest, Drain, Deliver, SendDone, AppendAfterClose, AckAfterClose, SendFails, AfterCycle,
         appVars, journalVars, serverVars
<1>2. Settled' = Settled /\ FlusherShape' /\ IInv
  BY <1>1 DEF Settled, Safe, Typed
<1> QED
  BY <1>1, <1>2, SafeUntouched

LEMMA SafeServer == Safe /\ Typed' /\ Server => IInv'
<1> SUFFICES ASSUME Safe, Typed', Server
             PROVE  IInv'
  OBVIOUS
<1>1. TypeServer
  BY DEF Safe, Typed, TypeOK
<1>2. UNCHANGED <<journal, nextSeq, outbox, app, pc, chunk, shelved>>
  BY DEF Server, IngestEvent, IngestLate, appVars, flusherVars, journalVars
<1>3. Settled \subseteq Settled' /\ Elems(request) \subseteq Settled' \cup Elems(request')
  <2>1. CASE IngestEvent
    <3>1. Ingest(Head(request)) /\ request' = Tail(request) /\ request # <<>>
      BY <2>1 DEF IngestEvent
    <3>2. Head(request) \in Nat /\ Elems(request) \subseteq {Head(request)} \cup Elems(Tail(request))
      BY <1>1, <3>1, ElemsTail DEF TypeServer
    <3>3. Settled' = Settled \cup {Head(request)}
      BY <1>1, <3>1, <3>2, IngestEffect
    <3> QED
      BY <3>1, <3>2, <3>3
  <2>2. CASE IngestLate
    <3>1. PICK r \in late : Ingest(Head(r))
      BY <2>2 DEF IngestLate
    <3>2. Head(r) \in Nat
      BY <1>1, ElemsTail DEF TypeServer
    <3>3. Settled' = Settled \cup {Head(r)} /\ request' = request
      BY <1>1, <2>2, <3>1, <3>2, IngestEffect DEF IngestLate
    <3> QED
      BY <3>3
  <2> QED
    BY <2>1, <2>2 DEF Server
<1>4. FlusherShape' /\ IInv
  BY DEF Safe, Typed
<1> QED
  BY <1>2, <1>3, <1>4, SafeUntouched

(* Queueing keeps sequence numbers increasing, and so does eviction. *)
LEMMA KeptOrdered ==
  ASSUME PipelineAssumption, NEW q \in Seq(Entries), NEW top \in Nat,
         \A m, n \in 1..Len(q) : m < n => q[m].seq < q[n].seq,
         \A m \in 1..Len(q) : q[m].seq < top
  PROVE  /\ \A m, n \in 1..Len(Kept(q)) : m < n => Kept(q)[m].seq < Kept(q)[n].seq
         /\ \A m \in 1..Len(Kept(q)) : Kept(q)[m].seq < top
<1> DEFINE kept == Kept(q)
<1>1. /\ Len(q) \in Nat /\ Overflow(q) \in 0..Len(q)
      /\ Len(kept) = Len(q) - Overflow(q)
      /\ \A i \in 1..Len(kept) : kept[i] = q[Overflow(q) + i]
  BY KeptType, LenProperties
<1> HIDE DEF kept
<1>2. \A m \in 1..Len(kept) : Overflow(q) + m \in 1..Len(q)
  BY <1>1
<1>3. \A m, n \in 1..Len(kept) : m < n => Overflow(q) + m < Overflow(q) + n
  BY <1>1
<1>4. \A m, n \in 1..Len(kept) : m < n => kept[m].seq < kept[n].seq
  BY <1>1, <1>2, <1>3
<1>5. \A m \in 1..Len(kept) : kept[m].seq < top
  BY <1>1, <1>2
<1> QED
  BY <1>4, <1>5 DEF kept

LEMMA QueuedOrdered ==
  ASSUME Typed, SeqsOrdered
  PROVE  /\ Queued \in Seq(Entries)
         /\ \A m, n \in 1..Len(Queued) : m < n => Queued[m].seq < Queued[n].seq
         /\ \A m \in 1..Len(Queued) : Queued[m].seq < nextSeq + Len(batch)
         /\ Elems(outbox) \cup Elems(BatchEntries) \subseteq Elems(Queued)
<1>1. /\ BatchEntries \in Seq(Entries) /\ Len(BatchEntries) = Len(batch)
      /\ \A i \in 1..Len(batch) : BatchEntries[i] = [seq |-> nextSeq + i - 1, ev |-> batch[i]]
  BY BatchLists DEF Typed, TypeOK, TypeFlusher, TypeJournal
<1>2. /\ outbox \in Seq(Entries) /\ nextSeq \in Nat
      /\ Len(outbox) \in Nat /\ Len(batch) \in Nat
  BY LenProperties DEF Typed, TypeOK, TypeFlusher, TypeJournal
<1> DEFINE q == outbox \o BatchEntries
<1>3. /\ q \in Seq(Entries) /\ Len(q) = Len(outbox) + Len(batch)
      /\ \A i \in 1..(Len(outbox) + Len(batch)) :
           q[i] = IF i <= Len(outbox) THEN outbox[i] ELSE BatchEntries[i - Len(outbox)]
  <2>1. /\ q \in Seq(Entries) /\ Len(q) = Len(outbox) + Len(BatchEntries)
        /\ \A i \in 1..(Len(outbox) + Len(BatchEntries)) :
             q[i] = IF i <= Len(outbox) THEN outbox[i] ELSE BatchEntries[i - Len(outbox)]
    <3> DEFINE t == BatchEntries
    <3>1. outbox \in Seq(Entries) /\ t \in Seq(Entries) /\ q = outbox \o t
      BY <1>1, <1>2
    <3> HIDE DEF q, t
    <3>2. /\ q \in Seq(Entries) /\ Len(q) = Len(outbox) + Len(t)
          /\ \A i \in 1..(Len(outbox) + Len(t)) :
               q[i] = IF i <= Len(outbox) THEN outbox[i] ELSE t[i - Len(outbox)]
      BY <3>1, Joined
    <3> QED
      BY <3>2 DEF t
  <2> HIDE DEF q
  <2> QED
    BY <1>1, <2>1
<1>4. Queued = q
  BY DEF Queued
<1> HIDE DEF q
<1>5. \A i \in 1..Len(outbox) : q[i] = outbox[i] /\ i \in 1..Len(q)
  BY <1>2, <1>3
<1>6. \A i \in 1..Len(batch) :
        q[Len(outbox) + i] = BatchEntries[i] /\ Len(outbox) + i \in 1..Len(q)
  BY <1>2, <1>3
<1>7. \A i \in 1..Len(q) : i > Len(outbox) =>
        i - Len(outbox) \in 1..Len(batch) /\ q[i].seq = nextSeq + (i - Len(outbox)) - 1
  <2>1. \A i \in 1..Len(q) : i > Len(outbox) =>
          i - Len(outbox) \in 1..Len(batch) /\ q[i] = BatchEntries[i - Len(outbox)]
    BY <1>2, <1>3
  <2>2. ASSUME NEW n \in 1..Len(batch)
        PROVE  BatchEntries[n].seq = nextSeq + n - 1
    <3>1. BatchEntries[n] = [seq |-> nextSeq + n - 1, ev |-> batch[n]]
      BY <1>1
    <3> QED
      BY <3>1
  <2> QED
    BY <2>1, <2>2
<1>8. \A i \in 1..Len(outbox) : outbox[i].seq \in Nat /\ outbox[i].seq < nextSeq
  <2>1. \A i \in 1..Len(outbox) : outbox[i] \in Entries
    BY <1>2, ElementOfSeq
  <2> QED
    BY <2>1 DEF SeqsOrdered, Entries
<1>9. ASSUME NEW m \in 1..Len(q), NEW n \in 1..Len(q), m < n
      PROVE  q[m].seq < q[n].seq
  <2>1. CASE n <= Len(outbox)
    <3>1. m \in 1..Len(outbox) /\ n \in 1..Len(outbox)
      BY <1>2, <1>3, <1>9, <2>1
    <3> QED
      BY <1>5, <1>9, <3>1 DEF SeqsOrdered
  <2>2. CASE m <= Len(outbox) /\ n > Len(outbox)
    <3>1. m \in 1..Len(outbox) /\ q[m].seq < nextSeq /\ q[m].seq \in Nat
      BY <1>2, <1>3, <1>5, <1>8, <2>2
    <3> QED
      BY <1>2, <1>7, <2>2, <3>1
  <2>3. CASE m > Len(outbox)
    BY <1>2, <1>3, <1>7, <1>9, <2>3
  <2> QED
    BY <1>2, <1>3, <1>9, <2>1, <2>2, <2>3
<1>10. ASSUME NEW m \in 1..Len(q)
       PROVE  q[m].seq < nextSeq + Len(batch)
  <2>1. CASE m <= Len(outbox)
    <3>1. q[m].seq \in Nat /\ q[m].seq < nextSeq
      BY <1>2, <1>3, <1>5, <1>8, <2>1
    <3> QED
      BY <1>2, <3>1
  <2>2. CASE m > Len(outbox)
    BY <1>2, <1>3, <1>7, <2>2
  <2> QED
    BY <1>2, <1>3, <2>1, <2>2
<1>11. Elems(outbox) \cup Elems(BatchEntries) \subseteq Elems(q)
  <2>1. \A i \in 1..Len(q) : q[i] \in Elems(q)
    BY <1>3, ElemsRange
  <2>2. \A e \in Elems(outbox) : \E i \in 1..Len(outbox) : e = outbox[i]
    BY <1>2, ElemsRange
  <2>3. \A e \in Elems(BatchEntries) : \E i \in 1..Len(batch) : e = BatchEntries[i]
    BY <1>1, ElemsRange
  <2> QED
    BY <1>5, <1>6, <2>1, <2>2, <2>3
<1> QED
  BY <1>3, <1>4, <1>9, <1>10, <1>11

(* Records of a batch are numbered past every acknowledgement. *)
LEMMA BatchAboveAcks ==
  ASSUME Typed
  PROVE  \A r \in Elems(BatchRecords) :
           /\ r.k = "e" /\ r.seq \in Nat /\ r.seq >= nextSeq
           /\ r.ev \in Elems(batch)
           /\ [seq |-> r.seq, ev |-> r.ev] \in Elems(BatchEntries)
<1>1. /\ BatchRecords \in Seq(Lines) /\ BatchEntries \in Seq(Entries)
      /\ Len(BatchRecords) = Len(batch) /\ Len(BatchEntries) = Len(batch)
      /\ \A i \in 1..Len(batch) : /\ BatchRecords[i] = EventRecord(nextSeq + i - 1, batch[i])
                                  /\ BatchEntries[i] = [seq |-> nextSeq + i - 1, ev |-> batch[i]]
  BY BatchLists DEF Typed, TypeOK, TypeFlusher, TypeJournal
<1>2. batch \in Seq(Nat) /\ nextSeq \in Nat
  BY DEF Typed, TypeOK, TypeFlusher, TypeJournal
<1>3. \A r \in Elems(BatchRecords) : \E i \in 1..Len(batch) : r = BatchRecords[i]
  BY <1>1, ElemsRange
<1>4. \A i \in 1..Len(batch) : batch[i] \in Elems(batch)
  BY <1>2, ElemsRange
<1>5. \A i \in 1..Len(batch) : BatchEntries[i] \in Elems(BatchEntries)
  BY <1>1, ElemsRange
<1>6. ASSUME NEW i \in 1..Len(batch), NEW r, r = BatchRecords[i]
      PROVE  /\ r.k = "e" /\ r.seq = nextSeq + i - 1 /\ r.ev = batch[i]
             /\ [seq |-> r.seq, ev |-> r.ev] = BatchEntries[i]
  <2>1. r = EventRecord(nextSeq + i - 1, batch[i])
    BY <1>1, <1>6
  <2>2. r.k = "e" /\ r.seq = nextSeq + i - 1 /\ r.ev = batch[i]
    BY <2>1 DEF EventRecord
  <2>3. BatchEntries[i] = [seq |-> nextSeq + i - 1, ev |-> batch[i]]
    BY <1>1
  <2> QED
    BY <2>2, <2>3
<1>7. \A i \in 1..Len(batch) : nextSeq + i - 1 \in Nat /\ nextSeq + i - 1 >= nextSeq
  BY <1>2, LenProperties
<1>8. ASSUME NEW r \in Elems(BatchRecords)
      PROVE  /\ r.k = "e" /\ r.seq \in Nat /\ r.seq >= nextSeq
             /\ r.ev \in Elems(batch)
             /\ [seq |-> r.seq, ev |-> r.ev] \in Elems(BatchEntries)
  <2>1. PICK i \in 1..Len(batch) : r = BatchRecords[i]
    BY <1>3
  <2>2. /\ r.k = "e" /\ r.seq = nextSeq + i - 1 /\ r.ev = batch[i]
        /\ [seq |-> r.seq, ev |-> r.ev] = BatchEntries[i]
    BY <1>6, <2>1
  <2>3. r.seq \in Nat /\ r.seq >= nextSeq
    BY <1>7, <2>2
  <2> QED
    BY <1>4, <1>5, <2>2, <2>3
<1> QED
  BY <1>8

LEMMA SafeJournalBatch == PipelineAssumption /\ Safe /\ Typed' /\ JournalBatch => IInv'
<1> SUFFICES ASSUME PipelineAssumption, Safe, Typed', JournalBatch
             PROVE  IInv'
  OBVIOUS
<1>0. Typed /\ SeqsOrdered /\ RecordsHeld /\ AcksSafe /\ FlusherShape /\ FlusherShape'
  BY DEF Safe, IInv, Typed
<1>1. /\ pc = "append" /\ pc' = "deliver" /\ app' = app /\ app # "down"
      /\ nextSeq' = nextSeq + Len(batch) /\ Settled' = Settled
      /\ journal' = WriteLines(journal, BatchRecords)
      /\ outbox' = Kept(Queued) /\ shelved' = shelved \cup Evicted(Queued)
  BY <1>0 DEF JournalBatch, FlusherShape, appVars, serverVars, Settled
<1>2. /\ journal \in Seq(Lines) /\ nextSeq \in Nat /\ Len(batch) \in Nat
      /\ BatchRecords \in Seq(Lines) /\ BatchRecords # <<>>
  <2>1. batch \in Seq(Nat) /\ batch # <<>>
    BY <1>0, <1>1 DEF Typed, TypeOK, TypeFlusher, FlusherShape
  <2>2. /\ journal \in Seq(Lines) /\ nextSeq \in Nat
        /\ BatchRecords \in Seq(Lines) /\ Len(BatchRecords) = Len(batch)
    BY <1>0, <2>1, BatchLists DEF Typed, TypeOK, TypeJournal
  <2> QED
    BY <2>1, <2>2, ElemsRange, EmptySeq
<1>3. Elems(journal') \subseteq Elems(journal) \cup Elems(BatchRecords) \cup {CorruptRecord}
  BY <1>1, <1>2, WriteLinesElems
<1>4. CorruptRecord.k \notin {"e", "a"}
  BY DEF CorruptRecord
<1>5. \A a \in Elems(journal') : a.k = "a" => a \in Elems(journal) /\ a.seq < nextSeq
  BY <1>0, <1>1, <1>3, <1>4, BatchAboveAcks DEF SeqsOrdered
<1>6. \A r \in Elems(journal') : r.k = "e" => r \in Elems(journal) \/ r \in Elems(BatchRecords)
  BY <1>3, <1>4
<1>7. \A r \in Elems(journal) : r \in Lines
  BY <1>2, ElemsRange
<1>8. SeqsOrdered'
  <2>1. /\ \A m, n \in 1..Len(outbox') : m < n => outbox'[m].seq < outbox'[n].seq
        /\ \A m \in 1..Len(outbox') : outbox'[m].seq < nextSeq'
    <3> DEFINE q == Queued
               top == nextSeq + Len(batch)
    <3>1. /\ q \in Seq(Entries) /\ top \in Nat
          /\ \A m, n \in 1..Len(q) : m < n => q[m].seq < q[n].seq
          /\ \A m \in 1..Len(q) : q[m].seq < top
      BY <1>0, <1>2, QueuedOrdered
    <3>2. outbox' = Kept(q) /\ nextSeq' = top
      BY <1>1
    <3> HIDE DEF q, top
    <3> QED
      BY <3>1, <3>2, KeptOrdered
  <2>2. \A r \in Elems(journal') : r.k = "a" => r.seq < nextSeq'
    BY <1>1, <1>2, <1>5, <1>7, SMTT(30), ZenonT(60) DEF Lines
  <2> QED
    BY <1>1, <2>1, <2>2 DEF SeqsOrdered
<1>9. RecordsHeld'
  <2>1. Queued \in Seq(Entries) /\ Elems(outbox) \cup Elems(BatchEntries) \subseteq Elems(Queued)
    BY <1>0, QueuedOrdered
  <2>2. \A x \in Elems(Queued) : x.ev \in Evicted(Queued) \/ x \in Elems(Kept(Queued))
    <3>1. \A x \in Elems(Queued) : \E i \in 1..Len(Queued) : x = Queued[i]
      BY <2>1, ElemsRange
    <3>2. \A i \in 1..Len(Queued) : Queued[i].ev \in Evicted(Queued) \/ Queued[i] \in Elems(Kept(Queued))
      BY <2>1, EvictedEvents
    <3> QED
      BY <3>1, <3>2
  <2>3. ASSUME NEW r \in Elems(journal'), r.k = "e"
        PROVE  \/ r.ev \in Settled' \cup shelved'
               \/ [seq |-> r.seq, ev |-> r.ev] \in Elems(outbox')
    <3> DEFINE x == [seq |-> r.seq, ev |-> r.ev]
    <3>1. r.ev \in Settled \cup shelved \/ x \in Elems(outbox) \cup Elems(BatchEntries)
      BY <1>0, <1>1, <1>6, <2>3, BatchAboveAcks DEF RecordsHeld
    <3>2. x.ev = r.ev
      OBVIOUS
    <3> HIDE DEF x
    <3>3. CASE r.ev \in Settled \cup shelved
      BY <1>1, <3>3
    <3>4. CASE x \in Elems(outbox) \cup Elems(BatchEntries)
      BY <1>1, <2>1, <2>2, <3>2, <3>4 DEF x
    <3> QED
      BY <3>1, <3>3, <3>4
  <2> QED
    BY <2>3 DEF RecordsHeld
<1>10. AcksSafe'
  <2>1. ASSUME NEW r \in Elems(journal'), NEW a \in Elems(journal'),
               r.k = "e", a.k = "a", r.seq <= a.seq
        PROVE  r.ev \in Settled' \cup shelved'
    <3>0. a \in Elems(journal) /\ a.seq < nextSeq /\ a \in Lines
      BY <1>5, <1>7, <2>1
    <3>1. a \in Elems(journal) /\ a.seq < nextSeq /\ a.seq \in Nat
      BY <3>0 DEF Lines
    <3>2. CASE r \in Elems(journal)
      BY <1>0, <1>1, <2>1, <3>1, <3>2 DEF AcksSafe
    <3>3. CASE r \in Elems(BatchRecords)
      <4>1. r.seq \in Nat /\ r.seq >= nextSeq
        BY <1>0, <3>3, BatchAboveAcks
      <4> QED
        BY <1>2, <2>1, <3>1, <4>1
    <3> QED
      BY <1>6, <2>1, <3>2, <3>3
  <2> QED
    BY <2>1 DEF AcksSafe
<1>11. ChunkAsked' /\ AckSafe'
  BY <1>1 DEF ChunkAsked, AckSafe
<1> QED
  BY <1>0, <1>8, <1>9, <1>10, <1>11 DEF IInv

LEMMA SafeAppendFails == Safe /\ Typed' /\ AppendFails => IInv'
<1> SUFFICES ASSUME Safe, Typed', AppendFails
             PROVE  IInv'
  OBVIOUS
<1>0. Typed /\ SeqsOrdered /\ RecordsHeld /\ AcksSafe /\ FlusherShape /\ FlusherShape'
  BY DEF Safe, IInv, Typed
<1>1. /\ pc = "append" /\ pc' \notin {"ack", "sending"} /\ app' = app /\ app # "down"
      /\ Settled' = Settled /\ outbox' = outbox /\ shelved' = shelved \cup Elems(batch)
  BY <1>0 DEF AppendFails, AfterCycle, FlusherShape, appVars, serverVars, Settled
<1>2. /\ journal \in Seq(Lines) /\ outbox \in Seq(Entries) /\ nextSeq \in Nat /\ Len(batch) \in Nat
      /\ BatchRecords \in Seq(Lines) /\ Len(BatchRecords) = Len(batch)
  BY <1>0, BatchLists, LenProperties DEF Typed, TypeOK, TypeFlusher, TypeJournal
<1>3. PICK n \in 0..Len(batch), torn \in BOOLEAN :
        /\ journal' = WritePart(journal, BatchRecords, n, torn)
        /\ nextSeq' = IF n = Len(batch) THEN nextSeq + n ELSE nextSeq
  BY DEF AppendFails
<1>4. nextSeq' \in Nat /\ nextSeq <= nextSeq'
  BY <1>2, <1>3
<1>5. Elems(journal') \subseteq Elems(journal) \cup Elems(BatchRecords) \cup {CorruptRecord, TornRecord}
  BY <1>2, <1>3, WritePartElems
<1>6. CorruptRecord.k \notin {"e", "a"} /\ TornRecord.k \notin {"e", "a"}
  BY DEF CorruptRecord, TornRecord
<1>7. \A a \in Elems(journal') : a.k = "a" => a \in Elems(journal) /\ a.seq < nextSeq
  BY <1>0, <1>1, <1>5, <1>6, BatchAboveAcks DEF SeqsOrdered
<1>8. \A r \in Elems(journal') : r.k = "e" => r \in Elems(journal) \/ r.ev \in Elems(batch)
  BY <1>0, <1>5, <1>6, BatchAboveAcks
<1>9. SeqsOrdered'
  <2>1. \A m \in 1..Len(outbox) : outbox[m].seq \in Nat
    <3>1. \A m \in 1..Len(outbox) : outbox[m] \in Entries
      BY <1>2, ElementOfSeq
    <3> QED
      BY <3>1 DEF Entries
  <2>2. \A m \in 1..Len(outbox) : outbox[m].seq < nextSeq'
    BY <1>0, <1>2, <1>4, <2>1 DEF SeqsOrdered
  <2>3. \A r \in Elems(journal') : r.k = "a" => r.seq < nextSeq'
    <3>0. \A r \in Elems(journal) : r \in Lines
      BY <1>2, ElemsRange
    <3>1. \A r \in Elems(journal) : r.seq \in Nat
      BY <3>0 DEF Lines
    <3> QED
      BY <1>2, <1>4, <1>7, <3>1
  <2> QED
    BY <1>0, <1>1, <2>2, <2>3 DEF SeqsOrdered
<1>10. RecordsHeld'
  BY <1>0, <1>1, <1>8 DEF RecordsHeld
<1>11. AcksSafe'
  BY <1>0, <1>1, <1>7, <1>8 DEF AcksSafe
<1>12. ChunkAsked' /\ AckSafe'
  BY <1>1 DEF ChunkAsked, AckSafe
<1> QED
  BY <1>0, <1>9, <1>10, <1>11, <1>12 DEF IInv

LEMMA SafeSendChunk == Safe /\ Typed' /\ SendChunk => IInv'
<1> SUFFICES ASSUME Safe, Typed', SendChunk
             PROVE  IInv'
  OBVIOUS
<1>1. /\ UNCHANGED <<journal, nextSeq, outbox, app, shelved>> /\ Settled' = Settled
      /\ pc' = "sending" /\ request' = [i \in DOMAIN chunk' |-> chunk'[i].ev]
  BY DEF SendChunk, appVars, journalVars, Settled
<1>2. IInv /\ FlusherShape'
  BY DEF Safe, Typed
<1>3. SeqsOrdered' /\ RecordsHeld' /\ AcksSafe' /\ AckSafe'
  <2>1. SeqsOrdered'
    BY <1>1, <1>2 DEF IInv, SeqsOrdered
  <2>2. RecordsHeld'
    BY <1>1, <1>2 DEF IInv, RecordsHeld
  <2>3. AcksSafe' /\ AckSafe'
    BY <1>1, <1>2 DEF IInv, AcksSafe, AckSafe
  <2> QED
    BY <2>1, <2>2, <2>3
<1>4. ChunkAsked'
  <2>1. chunk' \in Seq(Entries)
    BY DEF Typed, TypeOK, TypeFlusher
  <2>2. DOMAIN chunk' = 1..Len(chunk')
    BY <2>1, LenProperties
  <2>3. \A m \in 1..Len(chunk') : chunk'[m].ev \in Elems(request')
    BY <1>1, <2>2 DEF Elems
  <2> QED
    BY <2>3 DEF ChunkAsked
<1> QED
  BY <1>2, <1>3, <1>4 DEF IInv

(* Records up to the chunk's last one are of events answered for: they are *)
(* no longer in the outbox, or in the part of it that the chunk copies.    *)
LEMMA SafeSendSucceeds == Safe /\ Typed' /\ SendSucceeds => IInv'
<1> SUFFICES ASSUME Safe, Typed', SendSucceeds
             PROVE  IInv'
  OBVIOUS
<1>0. Typed /\ SeqsOrdered /\ RecordsHeld /\ ChunkAsked /\ AcksSafe /\ FlusherShape /\ FlusherShape'
  BY DEF Safe, IInv, Typed
<1>1. /\ UNCHANGED <<journal, nextSeq, app, chunk, shelved>> /\ Settled' = Settled
      /\ pc = "sending" /\ pc' = "ack" /\ outbox' = Unsent /\ request = <<>> /\ app # "down"
  BY <1>0 DEF SendSucceeds, FlusherShape, appVars, journalVars, serverVars, Settled
<1> DEFINE L == Len(chunk)
           unsent == Unsent
<1>2. /\ L \in 1..Len(outbox) /\ Len(outbox) \in Nat
      /\ unsent \in Seq(Entries) /\ Len(unsent) = Len(outbox) - L
      /\ \A i \in 1..Len(unsent) : unsent[i] = outbox[L + i]
      /\ outbox \in Seq(Entries)
  BY <1>0, <1>1, TypeUnsent, LenProperties DEF Typed, TypeOK, TypeFlusher
<1>3. \A m \in 1..L : chunk[m] = outbox[m]
  BY <1>0, <1>1 DEF FlusherShape
<1>4. \A m \in 1..L : outbox[m].ev \in Settled
  <2>1. Elems(request) = {}
    BY <1>1 DEF Elems
  <2> QED
    BY <1>0, <1>1, <1>3, <2>1 DEF ChunkAsked
<1>5. HighestSeq = outbox[L].seq /\ HighestSeq' = HighestSeq
  BY <1>1, <1>2, <1>3, SMTT(30), ZenonT(60) DEF HighestSeq
<1>6. outbox' = unsent
  BY <1>1
<1>7. \A m \in 1..Len(outbox) : outbox[m].seq \in Nat
  <2>1. \A m \in 1..Len(outbox) : outbox[m] \in Entries
    BY <1>2, ElementOfSeq
  <2> QED
    BY <2>1 DEF Entries
<1> HIDE DEF L, unsent, HighestSeq
<1>8. \A m, n \in 1..Len(outbox) : m < n => outbox[m].seq < outbox[n].seq
  BY <1>0 DEF SeqsOrdered
<1>9. SeqsOrdered'
  <2>1. \A i \in 1..Len(unsent) : L + i \in 1..Len(outbox)
    BY <1>2
  <2>2. \A m, n \in 1..Len(unsent) : m < n => L + m < L + n
    BY <1>2
  <2>3. \A m, n \in 1..Len(unsent) : m < n => unsent[m].seq < unsent[n].seq
    BY <1>2, <1>8, <2>1, <2>2
  <2>4. \A m \in 1..Len(unsent) : unsent[m].seq < nextSeq
    BY <1>0, <1>2, <2>1 DEF SeqsOrdered
  <2>5. HighestSeq < nextSeq
    BY <1>0, <1>2, <1>5 DEF SeqsOrdered
  <2>6. \A r \in Elems(journal) : r.k = "a" => r.seq < nextSeq
    BY <1>0, <1>1 DEF SeqsOrdered
  <2> QED
    BY <1>1, <1>5, <1>6, <2>3, <2>4, <2>5, <2>6 DEF SeqsOrdered
<1> DEFINE later == {x \in Elems(unsent) : x.seq > HighestSeq}
<1> HIDE DEF later
<1>10. \A x \in Elems(outbox) : x.ev \in Settled \/ x \in later
  <2>1. \A x \in Elems(outbox) : \E i \in 1..Len(outbox) : x = outbox[i]
    BY <1>2, ElemsRange
  <2>2. ASSUME NEW i \in 1..Len(outbox)
        PROVE  outbox[i].ev \in Settled \/ outbox[i] \in later
    <3>1. CASE i <= L
      <4>1. i \in 1..L
        BY <1>2, <3>1
      <4> QED
        BY <1>4, <4>1
    <3>2. CASE i > L
      <4>1. i - L \in 1..Len(unsent) /\ L + (i - L) = i
        BY <1>2, <3>2
      <4>2. outbox[i] = unsent[i - L]
        BY <1>2, <4>1
      <4>3. outbox[i] \in Elems(unsent)
        BY <1>2, <4>1, <4>2, ElemsRange
      <4>4. outbox[L].seq < outbox[i].seq
        BY <1>2, <1>8, <3>2
      <4>5. outbox[L].seq \in Nat /\ outbox[i].seq \in Nat
        BY <1>2, <1>7
      <4> QED
        BY <1>5, <4>3, <4>4, <4>5 DEF later
    <3> QED
      BY <1>2, <3>1, <3>2
  <2> QED
    BY <2>1, <2>2
<1>11. ASSUME NEW r \in Elems(journal), r.k = "e"
       PROVE  \/ r.ev \in Settled \cup shelved
              \/ [seq |-> r.seq, ev |-> r.ev] \in Elems(unsent) /\ ~(r.seq <= HighestSeq)
  <2> DEFINE x == [seq |-> r.seq, ev |-> r.ev]
  <2>1. r.ev \in Settled \cup shelved \/ x \in Elems(outbox)
    BY <1>0, <1>1, <1>11 DEF RecordsHeld
  <2>2. x.ev = r.ev /\ x.seq = r.seq
    OBVIOUS
  <2> HIDE DEF x
  <2>3. r.ev \in Settled \cup shelved \/ x \in later
    BY <1>10, <2>1, <2>2
  <2>4. HighestSeq \in Nat /\ r.seq \in Nat
    <3>1. journal \in Seq(Lines)
      BY <1>0 DEF Typed, TypeOK, TypeJournal
    <3>2. r \in Lines
      BY <3>1, ElemsRange
    <3> QED
      BY <1>2, <1>5, <1>7, <3>2 DEF Lines
  <2>5. x \in later => x \in Elems(unsent) /\ ~(r.seq <= HighestSeq)
    BY <2>2, <2>4 DEF later
  <2> QED
    BY <2>3, <2>5 DEF x
<1>12. RecordsHeld'
  BY <1>1, <1>6, <1>11 DEF RecordsHeld
<1>13. AckSafe'
  <2>4. \A r \in Elems(journal) : r.k = "e" /\ r.seq <= HighestSeq => r.ev \in Settled \cup shelved
    BY <1>11
  <2> QED
    BY <1>1, <1>5, <2>4 DEF AckSafe
<1>14. ChunkAsked' /\ AcksSafe'
  BY <1>0, <1>1 DEF ChunkAsked, AcksSafe
<1> QED
  BY <1>0, <1>9, <1>12, <1>13, <1>14 DEF IInv

LEMMA SafeAck == Safe /\ Typed' /\ (Ack \/ AckFails) => IInv'
<1> SUFFICES ASSUME Safe, Typed', Ack \/ AckFails
             PROVE  IInv'
  OBVIOUS
<1>0. /\ Typed /\ SeqsOrdered /\ RecordsHeld /\ AckSafe /\ AcksSafe
      /\ FlusherShape /\ FlusherShape'
  BY DEF Safe, IInv, Typed
<1>1. /\ UNCHANGED <<nextSeq, app, outbox, shelved>> /\ Settled' = Settled
      /\ pc = "ack" /\ pc' \notin {"ack", "sending"} /\ app # "down"
  BY <1>0 DEF Ack, AckFails, AfterCycle, FlusherShape, appVars, serverVars, Settled
<1>2. journal \in Seq(Lines) /\ <<>> \in Seq(Lines) /\ 0 \in 0..Len(<<>>) /\ Elems(<<>>) = {}
  BY <1>0, EmptySeq DEF Typed, TypeOK, TypeJournal, Elems
<1> DEFINE a == AckRecord(HighestSeq)
<1>3. Elems(journal') \subseteq Elems(journal) \cup {a, CorruptRecord, TornRecord}
  <2>1. CASE Ack
    BY <1>0, <1>1, <1>2, <2>1, AckRecordType, WriteLinesElems DEF Ack
  <2>2. CASE AckFails
    <3>1. PICK torn \in BOOLEAN : journal' = WritePart(journal, <<>>, 0, torn)
      BY <2>2 DEF AckFails
    <3> QED
      BY <1>2, <3>1, WritePartElems
  <2> QED
    BY <2>1, <2>2
<1>4. /\ CorruptRecord.k \notin {"e", "a"} /\ TornRecord.k \notin {"e", "a"}
      /\ a.k = "a" /\ a.seq = HighestSeq
  BY DEF CorruptRecord, TornRecord, AckRecord
<1> HIDE DEF a, HighestSeq
<1>5. \A r \in Elems(journal') : r.k = "e" => r \in Elems(journal)
  <2>1. a.k # "e"
    BY <1>4
  <2> QED
    BY <1>3, <1>4, <2>1
<1>6. \A r \in Elems(journal') : r.k = "a" => r \in Elems(journal) \/ r.seq = HighestSeq
  BY <1>3, <1>4
<1>7. SeqsOrdered'
  <2>1. \A r \in Elems(journal') : r.k = "a" => r.seq < nextSeq
    BY <1>0, <1>1, <1>6 DEF SeqsOrdered
  <2> QED
    BY <1>0, <1>1, <2>1 DEF SeqsOrdered
<1>8. RecordsHeld'
  BY <1>0, <1>1, <1>5 DEF RecordsHeld
<1>9. AcksSafe'
  <2>1. ASSUME NEW r \in Elems(journal'), NEW b \in Elems(journal'),
               r.k = "e", b.k = "a", r.seq <= b.seq
        PROVE  r.ev \in Settled \cup shelved
    <3>1. r \in Elems(journal)
      BY <1>5, <2>1
    <3>2. CASE b \in Elems(journal)
      BY <1>0, <2>1, <3>1, <3>2 DEF AcksSafe
    <3>3. CASE b.seq = HighestSeq
      BY <1>0, <1>1, <2>1, <3>1, <3>3 DEF AckSafe
    <3> QED
      BY <1>6, <2>1, <3>2, <3>3
  <2> QED
    BY <1>1, <2>1 DEF AcksSafe
<1>10. ChunkAsked' /\ AckSafe'
  BY <1>1 DEF ChunkAsked, AckSafe
<1> QED
  BY <1>0, <1>7, <1>8, <1>9, <1>10 DEF IInv

LEMMA SafeCrash == Safe /\ Typed' /\ (Crash \/ CrashInWrite) => IInv'
<1> SUFFICES ASSUME Safe, Typed', Crash \/ CrashInWrite
             PROVE  IInv'
  OBVIOUS
<1>0. Typed /\ SeqsOrdered /\ AcksSafe /\ FlusherShape /\ FlusherShape'
  BY DEF Safe, IInv, Typed
<1>1. PICK j \in Seq(Lines) :
        /\ DieWith(j)
        /\ Elems(j) \subseteq Elems(journal) \cup Elems(BatchRecords) \cup {CorruptRecord, TornRecord}
        /\ Crash => Elems(j) \subseteq Elems(journal)
        /\ ~Crash => pc = "append"
  BY <1>0, CrashContent
<1>2. /\ app' = "down" /\ pc' = "down" /\ outbox' = <<>> /\ journal' = j
      /\ shelved' = shelved /\ Settled' = Settled
  BY <1>1 DEF DieWith, Settled
<1>3. SeqsOrdered'
  <2>1. 1..Len(<<>>) = {}
    BY EmptySeq
  <2> QED
    BY <1>2, <2>1 DEF SeqsOrdered
<1>4. AcksSafe'
  <2>1. CASE Crash
    BY <1>0, <1>1, <1>2, <2>1 DEF AcksSafe
  <2>2. CASE ~Crash
    <3>1. CorruptRecord.k \notin {"e", "a"} /\ TornRecord.k \notin {"e", "a"}
      BY DEF CorruptRecord, TornRecord
    <3>2. app # "down"
      BY <1>0, <1>1, <2>2 DEF FlusherShape
    <3>3. \A b \in Elems(j) : b.k = "a" => b \in Elems(journal) /\ b.seq < nextSeq
      BY <1>0, <1>1, <3>1, <3>2, BatchAboveAcks DEF SeqsOrdered
    <3>4. ASSUME NEW r \in Elems(j), NEW b \in Elems(j), r.k = "e", b.k = "a", r.seq <= b.seq
          PROVE  r.ev \in Settled \cup shelved
      <4>1. b \in Elems(journal) /\ b.seq < nextSeq
        BY <3>3, <3>4
      <4>2. CASE r \in Elems(journal)
        BY <1>0, <3>4, <4>1, <4>2 DEF AcksSafe
      <4>3. CASE r \in Elems(BatchRecords)
        <5>1. r.seq \in Nat /\ r.seq >= nextSeq
          BY <1>0, <4>3, BatchAboveAcks
        <5>2. journal \in Seq(Lines) /\ nextSeq \in Nat
          BY <1>0 DEF Typed, TypeOK, TypeJournal
        <5>3. b \in Lines
          BY <4>1, <5>2, ElemsRange
        <5>4. b.seq \in Nat
          BY <5>3 DEF Lines
        <5> QED
          BY <3>4, <4>1, <5>1, <5>2, <5>4
      <4> QED
        BY <1>1, <3>1, <3>4, <4>2, <4>3
    <3> QED
      BY <1>2, <3>4 DEF AcksSafe
  <2> QED
    BY <2>1, <2>2
<1>5. RecordsHeld' /\ ChunkAsked' /\ AckSafe'
  BY <1>2 DEF RecordsHeld, ChunkAsked, AckSafe
<1> QED
  BY <1>0, <1>3, <1>4, <1>5 DEF IInv

LEMMA SafeRestart == PipelineAssumption /\ Safe /\ Typed' /\ Restart => IInv'
<1> SUFFICES ASSUME PipelineAssumption, Safe, Typed', Restart
             PROVE  IInv'
  OBVIOUS
<1>0. Typed /\ AcksSafe /\ FlusherShape /\ FlusherShape'
  BY DEF Safe, IInv, Typed
<1>1. /\ app = "down" /\ app' = "open" /\ pc' = "idle" /\ outbox = <<>> /\ Settled' = Settled
  BY <1>0 DEF Restart, FlusherShape, serverVars, Settled
<1>2. ChunkAsked' /\ AckSafe'
  BY <1>1 DEF ChunkAsked, AckSafe
<1>3. journal \in Seq(Lines)
  BY <1>0 DEF Typed, TypeOK, TypeJournal
<1>4. CASE ReplayJournal
  <2>0. PICK k \in Nat : \E f \in [1..k -> Unacked(journal)] : \E replay \in Seq(Entries) :
          /\ journal' \in Seq(Lines) /\ Len(journal') = k
          /\ Len(replay) = k
          /\ \A i \in 1..k : /\ replay[i] = [seq |-> i, ev |-> journal[f[i]].ev]
                             /\ journal'[i] = EventRecord(i, journal[f[i]].ev)
          /\ outbox' = Kept(replay)
          /\ shelved' = shelved \cup Evicted(replay)
          /\ nextSeq' = k + 1
    BY <1>0, <1>4, RestartLists
  <2>1. PICK f \in [1..k -> Unacked(journal)], replay \in Seq(Entries) :
          /\ journal' \in Seq(Lines) /\ Len(journal') = k
          /\ Len(replay) = k
          /\ \A i \in 1..k : /\ replay[i] = [seq |-> i, ev |-> journal[f[i]].ev]
                             /\ journal'[i] = EventRecord(i, journal[f[i]].ev)
          /\ outbox' = Kept(replay)
          /\ shelved' = shelved \cup Evicted(replay)
          /\ nextSeq' = k + 1
    BY <2>0
  <2>2. \A r \in Elems(journal') : \E i \in 1..k :
          r.k = "e" /\ r.k # "a" /\ [seq |-> r.seq, ev |-> r.ev] = replay[i]
    <3>1. \A r \in Elems(journal') : \E i \in 1..k : r = journal'[i]
      BY <2>1, ElemsRange
    <3>2. ASSUME NEW i \in 1..k, NEW r, r = journal'[i]
          PROVE  r.k = "e" /\ r.k # "a" /\ [seq |-> r.seq, ev |-> r.ev] = replay[i]
      <4>1. r = EventRecord(i, journal[f[i]].ev) /\ replay[i] = [seq |-> i, ev |-> journal[f[i]].ev]
        BY <2>1, <3>2
      <4>2. r.k = "e" /\ r.seq = i /\ r.ev = journal[f[i]].ev
        BY <4>1 DEF EventRecord
      <4> QED
        BY <4>1, <4>2
    <3>3. ASSUME NEW r \in Elems(journal')
          PROVE  \E i \in 1..k : r.k = "e" /\ r.k # "a" /\ [seq |-> r.seq, ev |-> r.ev] = replay[i]
      <4>1. PICK i \in 1..k : r = journal'[i]
        BY <3>1
      <4>2. r.k = "e" /\ r.k # "a" /\ [seq |-> r.seq, ev |-> r.ev] = replay[i]
        BY <3>2, <4>1
      <4> QED
        BY <4>2
    <3> QED
      BY <3>3
  <2>3. AcksSafe'
    BY <2>2 DEF AcksSafe
  <2>4. RecordsHeld'
    <3>1. \A i \in 1..k : replay[i].ev \in Evicted(replay) \/ replay[i] \in Elems(Kept(replay))
      BY <2>1, EvictedEvents
    <3>2. ASSUME NEW r \in Elems(journal'), r.k = "e"
          PROVE  \/ r.ev \in Settled' \cup shelved'
                 \/ [seq |-> r.seq, ev |-> r.ev] \in Elems(outbox')
      <4> DEFINE x == [seq |-> r.seq, ev |-> r.ev]
      <4>1. PICK i \in 1..k : x = replay[i]
        BY <2>2
      <4>2. x.ev = r.ev
        OBVIOUS
      <4> HIDE DEF x
      <4>3. r.ev \in Evicted(replay) \/ x \in Elems(Kept(replay))
        BY <3>1, <4>1, <4>2
      <4> QED
        BY <2>1, <4>3 DEF x
    <3> QED
      BY <3>2 DEF RecordsHeld
  <2>5. SeqsOrdered'
    <3>1. \A i \in 1..k : replay[i].seq = i
      <4>1. ASSUME NEW i \in 1..k
            PROVE  replay[i].seq = i
        <5>1. replay[i] = [seq |-> i, ev |-> journal[f[i]].ev]
          BY <2>1
        <5> QED
          BY <5>1
      <4> QED
        BY <4>1
    <3>2. /\ \A m, n \in 1..k : m < n => replay[m].seq < replay[n].seq
          /\ \A m \in 1..k : replay[m].seq < k + 1
          /\ k + 1 \in Nat
      BY <3>1
    <3>3. /\ \A m, n \in 1..Len(outbox') : m < n => outbox'[m].seq < outbox'[n].seq
          /\ \A m \in 1..Len(outbox') : outbox'[m].seq < nextSeq'
      <4> DEFINE top == k + 1
      <4>1. /\ top \in Nat /\ nextSeq' = top /\ outbox' = Kept(replay)
            /\ \A m, n \in 1..Len(replay) : m < n => replay[m].seq < replay[n].seq
            /\ \A m \in 1..Len(replay) : replay[m].seq < top
        BY <2>1, <3>2
      <4> HIDE DEF top
      <4> QED
        BY <4>1, KeptOrdered
    <3> QED
      BY <1>1, <2>2, <3>3 DEF SeqsOrdered
  <2> QED
    BY <1>0, <1>2, <2>3, <2>4, <2>5 DEF IInv
<1>5. CASE ContinueJournal
  <2>1. /\ \E n \in HighestIn(journal) : nextSeq' = n + 1
        /\ shelved' = shelved \cup Replayable(journal)
        /\ journal' = journal /\ outbox' = <<>>
    BY <1>1, <1>5 DEF ContinueJournal
  <2>2. DOMAIN journal = 1..Len(journal) /\ \A i \in 1..Len(journal) : journal[i] \in Lines
    BY <1>3, ElemsRange
  <2>3. \A r \in Elems(journal) : r.seq < nextSeq'
    <3>1. PICK n \in HighestIn(journal) : nextSeq' = n + 1
      BY <2>1
    <3>2. \A i \in DOMAIN journal : journal[i].seq \in Nat
      BY <2>2 DEF Lines
    <3>3. n \in Nat /\ \A i \in DOMAIN journal : journal[i].seq <= n
      BY <3>2 DEF HighestIn
    <3>4. \A i \in DOMAIN journal : journal[i].seq < nextSeq'
      BY <3>1, <3>2, <3>3
    <3> QED
      BY <3>4 DEF Elems
  <2>4. SeqsOrdered'
    <3>1. 1..Len(<<>>) = {}
      BY EmptySeq
    <3> QED
      BY <1>1, <2>1, <2>3, <3>1 DEF SeqsOrdered
  <2>5. AcksSafe'
    BY <1>0, <1>1, <2>1 DEF AcksSafe
  <2>6. RecordsHeld'
    <3>1. ASSUME NEW i \in DOMAIN journal, journal[i].k = "e"
          PROVE  journal[i].ev \in Settled \cup shelved \cup Replayable(journal)
      <4>1. CASE Acked(journal, journal[i].seq)
        <5>1. PICK n \in DOMAIN journal : journal[n].k = "a" /\ journal[i].seq <= journal[n].seq
          BY <4>1 DEF Acked
        <5>2. journal[i] \in Elems(journal) /\ journal[n] \in Elems(journal)
          BY DEF Elems
        <5> QED
          BY <1>0, <3>1, <5>1, <5>2 DEF AcksSafe
      <4>2. CASE ~Acked(journal, journal[i].seq)
        BY <3>1, <4>2 DEF Replayable, Unacked
      <4> QED
        BY <4>1, <4>2
    <3>2. \A r \in Elems(journal) : \E i \in DOMAIN journal : r = journal[i]
      BY DEF Elems
    <3>3. \A r \in Elems(journal) : r.k = "e" => r.ev \in Settled \cup shelved'
      BY <2>1, <3>1, <3>2
    <3> QED
      BY <1>1, <2>1, <3>3 DEF RecordsHeld
  <2> QED
    BY <1>0, <1>2, <2>4, <2>5, <2>6 DEF IInv
<1>6. ReplayJournal \/ ContinueJournal
  BY DEF Restart
<1> QED
  BY <1>4, <1>5, <1>6

LEMMA SafeInit == Init => IInv
<1> SUFFICES ASSUME Init
             PROVE  IInv
  OBVIOUS
<1>1. Elems(journal) = {} /\ outbox = <<>> /\ 1..Len(<<>>) = {} /\ pc = "idle"
  BY EmptySeq DEF Init, Elems
<1>2. FlusherShape
  BY TypeInit DEF Typed
<1> QED
  BY <1>1, <1>2 DEF IInv, SeqsOrdered, RecordsHeld, ChunkAsked, AckSafe, AcksSafe

LEMMA SafeStep == PipelineAssumption /\ Safe /\ [Next]_vars => Safe'
<1> SUFFICES ASSUME PipelineAssumption, Safe, [Next]_vars
             PROVE  Safe'
  OBVIOUS
<1>1. Typed /\ Typed'
  BY TypeStep DEF Safe
<1>2. CASE UNCHANGED vars
  <2>1. /\ UNCHANGED <<journal, nextSeq, outbox, app, shelved, pc, chunk, request>>
        /\ Settled' = Settled /\ IInv /\ FlusherShape'
    BY <1>1, <1>2 DEF Safe, Typed, vars, appVars, flusherVars, journalVars, serverVars, Settled
  <2> QED
    BY <1>1, <2>1, SafeUntouched DEF Safe
<1>3. CASE Next
  BY <1>1, <1>3, SafeApplication, SafeMove, SafeServer, SafeJournalBatch, SafeAppendFails,
     SafeSendChunk, SafeSendSucceeds, SafeAck, SafeCrash, SafeRestart
  DEF Next, Flusher, Faults, Safe
<1> QED
  BY <1>2, <1>3

-----------------------------------------------------------------------------
(* Every variable has its type in every reachable state. *)
THEOREM TypeCorrect == Spec => []TypeOK
<1>1. Init => Typed
  BY TypeInit
<1>2. Typed /\ [Next]_vars => Typed'
  BY TypeStep, PipelineAssumption
<1>3. Typed => TypeOK
  BY DEF Typed
<1> QED
  BY <1>1, <1>2, <1>3, PTL DEF Spec

(* No acknowledgement covers the record of an event the ingest API has not *)
(* answered for, unless the process let go of that event: for every        *)
(* capacity, batch size and pattern of faults, with recovery on or off.    *)
THEOREM AcksCorrect == Spec => []AckCoversSettled
<1>1. Init => Safe
  BY TypeInit, SafeInit DEF Safe
<1>2. Safe /\ [Next]_vars => Safe'
  BY SafeStep, PipelineAssumption
<1>3. Safe => AckCoversSettled
  <2> SUFFICES ASSUME AcksSafe, NEW i \in DOMAIN journal, journal[i].k = "e",
                      Acked(journal, journal[i].seq)
               PROVE  journal[i].ev \in Settled \cup shelved
    BY DEF Safe, IInv, AckCoversSettled
  <2>1. PICK n \in DOMAIN journal : journal[n].k = "a" /\ journal[i].seq <= journal[n].seq
    BY DEF Acked
  <2>2. journal[i] \in Elems(journal) /\ journal[n] \in Elems(journal)
    BY DEF Elems
  <2> QED
    BY <2>1, <2>2 DEF AcksSafe
<1> QED
  BY <1>1, <1>2, <1>3, PTL DEF Spec

-----------------------------------------------------------------------------
(* Losses.  An accepted event leaves the place it is in only for another,  *)
(* or for one of the sets that say who has taken it.                       *)

LEMMA EventsOfElems ==
  ASSUME NEW q
  PROVE  EventsOf(q) = {x.ev : x \in Elems(q)}
  BY DEF EventsOf, Elems

(* outside of an append nothing is drained and not yet journaled *)
BatchInAppend == pc # "append" => batch = <<>>

LEMMA BatchInAppendStep == BatchInAppend /\ Safe /\ [Next]_vars => BatchInAppend'
<1> SUFFICES ASSUME BatchInAppend, Safe, [Next]_vars PROVE BatchInAppend'
  OBVIOUS
<1>1. CASE UNCHANGED <<pc, batch>>
  BY <1>1 DEF BatchInAppend
<1>2. CASE Drain
  <2>1. CASE ~(Elems(buffer) \subseteq Invalid)
    BY <1>2, <2>1 DEF Drain, BatchInAppend
  <2>2. CASE Elems(buffer) \subseteq Invalid
    <3> DEFINE Valid == {i \in DOMAIN buffer : buffer[i] \notin Invalid}
    <3>1. Valid = {}
      BY <2>2 DEF Elems
    <3>2. PICK f \in InOrder(Valid) : batch' = [n \in DOMAIN f |-> buffer[f[n]]]
      BY <1>2 DEF Drain
    <3>3. f \in [1..0 -> {}]
      BY <3>1, <3>2, FS_EmptySet DEF InOrder
    <3>4. DOMAIN f = {}
      BY <3>3
    <3>5. batch' = <<>>
      BY <3>2, <3>4, EmptySeq
    <3> QED
      BY <3>5 DEF BatchInAppend
  <2> QED
    BY <2>1, <2>2
<1>3. CASE JournalBatch \/ AppendFails \/ AppendAfterClose \/ Crash \/ CrashInWrite
  BY <1>3 DEF JournalBatch, AppendFails, AppendAfterClose, Crash, CrashInWrite, DieWith, BatchInAppend
<1>4. CASE LoopTest \/ Deliver \/ SendDone \/ SendChunk \/ SendSucceeds \/ Ack \/ AckAfterClose
           \/ AckFails \/ SendFails \/ Restart
  BY <1>4 DEF LoopTest, Deliver, SendDone, SendChunk, SendSucceeds, Ack, AckAfterClose, AckFails,
              SendFails, Restart, AfterCycle, BatchInAppend, Safe, Typed, FlusherShape
<1>5. CASE Application \/ Time \/ Server \/ UNCHANGED vars
  BY <1>1, <1>5 DEF Application, Offer, Flush, Close, FlushCall, FlushReturn, CloseJournal, Time,
       BackoffExpires, IntervalElapses, Server, IngestEvent, IngestLate, vars, flusherVars
<1> QED
  BY <1>2, <1>3, <1>4, <1>5 DEF Next, Flusher, Faults

(* a step that only moves events on keeps them all *)
LEMMA HeldKept ==
  ASSUME NothingVanishes, Accepted' \subseteq Accepted,
         Settled \subseteq Settled', invalid \subseteq invalid',
         shelved \subseteq shelved', crashLost \subseteq crashLost',
         Elems(buffer) \cup Elems(batch) \cup EventsOf(outbox)
           \subseteq Elems(buffer') \cup Elems(batch') \cup EventsOf(outbox') \cup Settled' \cup invalid' \cup shelved',
         app = "down" => app' = "down" /\ journal' = journal
  PROVE  NothingVanishes'
  BY DEF NothingVanishes

LEMMA VanishDrain == Safe /\ BatchInAppend /\ NothingVanishes /\ Drain => NothingVanishes'
<1> SUFFICES ASSUME Safe, BatchInAppend, NothingVanishes, Drain PROVE NothingVanishes'
  OBVIOUS
<1> DEFINE Valid == {i \in DOMAIN buffer : buffer[i] \notin Invalid}
<1>1. PICK f \in InOrder(Valid) : batch' = [n \in DOMAIN f |-> buffer[f[n]]]
  BY DEF Drain
<1>2. batch = <<>> /\ Elems(batch) = {}
  BY DEF Drain, BatchInAppend, Elems
<1>3. \A i \in Valid : \E n \in DOMAIN f : f[n] = i
  <2>1. f \in [1..Cardinality(Valid) -> Valid]
        /\ \A i \in Valid : \E n \in 1..Cardinality(Valid) : f[n] = i
    BY <1>1 DEF InOrder
  <2> QED
    BY <2>1
<1>4. Elems(buffer) \subseteq Elems(batch') \cup invalid'
  <2>1. invalid' = invalid \cup (Elems(buffer) \cap Invalid)
    BY DEF Drain
  <2>2. ASSUME NEW i \in DOMAIN buffer, buffer[i] \notin Invalid PROVE buffer[i] \in Elems(batch')
    <3>1. PICK n \in DOMAIN f : f[n] = i
      BY <1>3, <2>2
    <3>2. n \in DOMAIN batch' /\ batch'[n] = buffer[i]
      BY <1>1, <3>1
    <3> QED
      BY <3>2 DEF Elems
  <2> QED
    BY <2>1, <2>2 DEF Elems
<1>5. /\ UNCHANGED <<emitted, dropped, outbox, shelved, crashLost, app, chain, rejected>>
      /\ invalid \subseteq invalid' /\ pc # "down"
  BY DEF Drain, appVars, serverVars
<1>6. app # "down"
  BY <1>5 DEF Safe, Typed, FlusherShape
<1>7. Accepted' = Accepted /\ Settled' = Settled
  BY <1>5 DEF Accepted, Settled
<1> QED
  BY <1>2, <1>4, <1>5, <1>6, <1>7, HeldKept

(* what is queued is kept or evicted *)
LEMMA QueueKeeps ==
  ASSUME PipelineAssumption, NEW q \in Seq(Entries)
  PROVE  EventsOf(q) \subseteq EventsOf(Kept(q)) \cup Evicted(q)
<1>1. \A x \in Elems(q) : \E i \in 1..Len(q) : x = q[i]
  BY ElemsRange
<1>2. \A i \in 1..Len(q) : q[i].ev \in Evicted(q) \/ q[i] \in Elems(Kept(q))
  BY EvictedEvents
<1> QED
  BY <1>1, <1>2, EventsOfElems

LEMMA VanishJournalBatch ==
  PipelineAssumption /\ Safe /\ NothingVanishes /\ JournalBatch => NothingVanishes'
<1> SUFFICES ASSUME PipelineAssumption, Safe, NothingVanishes, JournalBatch PROVE NothingVanishes'
  OBVIOUS
<1>1. Queued \in Seq(Entries) /\ Elems(outbox) \cup Elems(BatchEntries) \subseteq Elems(Queued)
  BY QueuedOrdered DEF Safe, IInv
<1>2. Elems(batch) \subseteq {x.ev : x \in Elems(BatchEntries)}
  <2>1. /\ batch \in Seq(Nat) /\ BatchEntries \in Seq(Entries) /\ Len(BatchEntries) = Len(batch)
        /\ \A i \in 1..Len(batch) : BatchEntries[i] = [seq |-> nextSeq + i - 1, ev |-> batch[i]]
    BY BatchLists DEF Safe, Typed, TypeOK, TypeFlusher, TypeJournal
  <2>2. \A e \in Elems(batch) : \E i \in 1..Len(batch) : e = batch[i]
    BY <2>1, ElemsRange
  <2>3. \A i \in 1..Len(batch) : BatchEntries[i] \in Elems(BatchEntries)
    BY <2>1, ElemsRange
  <2>4. ASSUME NEW i \in 1..Len(batch) PROVE batch[i] = BatchEntries[i].ev
    <3>1. BatchEntries[i] = [seq |-> nextSeq + i - 1, ev |-> batch[i]]
      BY <2>1
    <3> QED
      BY <3>1
  <2> QED
    BY <2>2, <2>3, <2>4
<1>3. Elems(batch) \cup EventsOf(outbox) \subseteq EventsOf(Queued)
  BY <1>1, <1>2, EventsOfElems
<1>4. EventsOf(Queued) \subseteq EventsOf(Kept(Queued)) \cup Evicted(Queued)
  BY <1>1, QueueKeeps
<1>5. /\ outbox' = Kept(Queued) /\ shelved' = shelved \cup Evicted(Queued)
      /\ UNCHANGED <<emitted, dropped, buffer, invalid, crashLost, app, chain, rejected>> /\ pc # "down"
  BY DEF JournalBatch, appVars, bufferVars, serverVars
<1>6. app # "down"
  BY <1>5 DEF Safe, Typed, FlusherShape
<1>7. Accepted' = Accepted /\ Settled' = Settled
  BY <1>5 DEF Accepted, Settled
<1> QED
  BY <1>3, <1>4, <1>5, <1>6, <1>7, HeldKept

LEMMA VanishSendSucceeds == Safe /\ NothingVanishes /\ SendSucceeds => NothingVanishes'
<1> SUFFICES ASSUME Safe, NothingVanishes, SendSucceeds PROVE NothingVanishes'
  OBVIOUS
<1>1. /\ outbox' = Unsent /\ pc = "sending" /\ request = <<>>
      /\ UNCHANGED <<emitted, dropped, buffer, batch, invalid, shelved, crashLost, app, chain, rejected>>
  BY DEF SendSucceeds, appVars, bufferVars, serverVars
<1>2. /\ chunk # <<>> /\ Len(chunk) \in 1..Len(outbox)
      /\ Unsent \in Seq(Entries) /\ Len(Unsent) = Len(outbox) - Len(chunk)
      /\ \A i \in 1..Len(Unsent) : Unsent[i] = outbox[Len(chunk) + i]
      /\ outbox \in Seq(Entries) /\ Len(outbox) \in Nat
  BY <1>1, TypeUnsent, LenProperties DEF Safe, Typed, TypeOK, TypeFlusher
<1>3. \A m \in 1..Len(chunk) : outbox[m].ev \in Settled
  <2>1. Elems(request) = {}
    BY <1>1 DEF Elems
  <2>2. \A m \in 1..Len(chunk) : chunk[m] = outbox[m]
    BY <1>1 DEF Safe, Typed, FlusherShape
  <2> QED
    BY <1>1, <2>1, <2>2 DEF Safe, IInv, ChunkAsked
<1>4. ASSUME NEW x \in Elems(outbox) PROVE x.ev \in Settled \/ x \in Elems(Unsent)
  <2>1. PICK i \in 1..Len(outbox) : x = outbox[i]
    BY <1>2, ElemsRange
  <2>2. CASE i <= Len(chunk)
    <3>1. i \in 1..Len(chunk)
      BY <1>2, <2>2
    <3> QED
      BY <1>3, <2>1, <3>1
  <2>3. CASE i > Len(chunk)
    <3> DEFINE u == Unsent
    <3>1. u \in Seq(Entries) /\ i - Len(chunk) \in 1..Len(u) /\ u[i - Len(chunk)] = x
      BY <1>2, <2>1, <2>3
    <3> HIDE DEF u
    <3>2. x \in Elems(u)
      BY <3>1, ElemsRange
    <3> QED
      BY <3>2 DEF u
  <2> QED
    BY <1>2, <2>2, <2>3
<1>5. EventsOf(outbox) \subseteq Settled \cup EventsOf(outbox')
  BY <1>1, <1>4, EventsOfElems
<1>6. app # "down"
  BY <1>1 DEF Safe, Typed, FlusherShape
<1>7. Accepted' = Accepted /\ Settled' = Settled
  BY <1>1 DEF Accepted, Settled
<1> QED
  BY <1>1, <1>5, <1>6, <1>7, HeldKept

LEMMA VanishRestart == PipelineAssumption /\ Safe /\ NothingVanishes /\ Restart => NothingVanishes'
<1> SUFFICES ASSUME PipelineAssumption, Safe, NothingVanishes, Restart PROVE NothingVanishes'
  OBVIOUS
<1>1. /\ app = "down" /\ app' = "open" /\ outbox = <<>>
      /\ UNCHANGED <<emitted, dropped, buffer, batch, invalid, crashLost, chain, rejected>>
  BY DEF Restart, Safe, Typed, FlusherShape, bufferVars, serverVars
<1>2. EventsOf(outbox) = {}
  BY <1>1 DEF EventsOf
<1>3. Replayable(journal) \subseteq EventsOf(outbox') \cup shelved' /\ shelved \subseteq shelved'
  <2>1. CASE ReplayJournal
    <3>1. PICK f \in InOrder(Unacked(journal)) :
            LET replay == [n \in DOMAIN f |-> [seq |-> n, ev |-> journal[f[n]].ev]]
            IN  outbox' = Kept(replay) /\ shelved' = shelved \cup Evicted(replay)
      BY <2>1 DEF ReplayJournal
    <3> DEFINE replay == [n \in DOMAIN f |-> [seq |-> n, ev |-> journal[f[n]].ev]]
    <3>2. /\ f \in [1..Cardinality(Unacked(journal)) -> Unacked(journal)]
          /\ \A i \in Unacked(journal) : \E n \in 1..Cardinality(Unacked(journal)) : f[n] = i
      BY <3>1 DEF InOrder
    <3>3. Replayable(journal) \subseteq EventsOf(replay)
      <4>1. ASSUME NEW i \in Unacked(journal) PROVE journal[i].ev \in EventsOf(replay)
        <5>1. PICK n \in DOMAIN f : f[n] = i
          BY <3>2
        <5>2. n \in DOMAIN replay /\ replay[n].ev = journal[i].ev
          BY <5>1
        <5> QED
          BY <5>2 DEF EventsOf
      <4> QED
        BY <4>1 DEF Replayable
    <3>4. replay \in Seq(Entries)
      <4>1. \A i \in Unacked(journal) : i \in DOMAIN journal
        BY DEF Unacked
      <4>2. \A i \in DOMAIN journal : journal[i] \in Lines
        BY ElemsRange DEF Safe, Typed, TypeOK, TypeJournal
      <4>3. \A i \in Unacked(journal) : journal[i].ev \in Nat
        BY <4>1, <4>2 DEF Lines
      <4>4. Cardinality(Unacked(journal)) \in Nat
        <5>1. journal \in Seq(Lines) /\ Len(journal) \in Nat /\ DOMAIN journal = 1..Len(journal)
          BY ElemsRange DEF Safe, Typed, TypeOK, TypeJournal
        <5>2. IsFiniteSet(1..Len(journal)) /\ Unacked(journal) \subseteq 1..Len(journal)
          BY <4>1, <5>1, FS_Interval
        <5> QED
          BY <5>2, FS_Subset, FS_CardinalityType
      <4>5. replay \in [1..Cardinality(Unacked(journal)) -> Entries]
        BY <3>2, <4>3, <4>4 DEF Entries
      <4> HIDE DEF replay
      <4> QED
        BY <4>4, <4>5, ListIsSeq
    <3> HIDE DEF replay
    <3>5. EventsOf(replay) \subseteq EventsOf(Kept(replay)) \cup Evicted(replay)
      BY <3>4, QueueKeeps
    <3>6. outbox' = Kept(replay) /\ shelved' = shelved \cup Evicted(replay)
      BY <3>1 DEF replay
    <3> QED
      BY <3>3, <3>5, <3>6
  <2>2. CASE ContinueJournal
    BY <2>2 DEF ContinueJournal
  <2> QED
    BY <2>1, <2>2 DEF Restart
<1>4. Accepted' = Accepted /\ Settled' = Settled
  BY <1>1 DEF Accepted, Settled
<1>5. Accepted \subseteq Elems(buffer) \cup Elems(batch) \cup Settled \cup invalid \cup shelved \cup crashLost
                         \cup Replayable(journal)
  BY <1>1, <1>2 DEF NothingVanishes
<1>6. Accepted' \subseteq Elems(buffer') \cup Elems(batch') \cup EventsOf(outbox') \cup Settled' \cup invalid'
                          \cup shelved' \cup crashLost'
  BY <1>1, <1>3, <1>4, <1>5
<1> QED
  BY <1>6 DEF NothingVanishes

LEMMA VanishStep ==
  PipelineAssumption /\ Safe /\ BatchInAppend /\ NothingVanishes /\ [Next]_vars => NothingVanishes'
<1> SUFFICES ASSUME PipelineAssumption, Safe, BatchInAppend, NothingVanishes, [Next]_vars
             PROVE  NothingVanishes'
  OBVIOUS
<1>0. TypeServer /\ emitted \in Nat
  BY DEF Safe, Typed, TypeOK, TypeBuffer
<1>1. CASE UNCHANGED <<emitted, dropped, buffer, batch, outbox, invalid, shelved, crashLost, app, journal>>
           /\ Settled \subseteq Settled'
  <2>1. Accepted' = Accepted
    BY <1>1 DEF Accepted
  <2> QED
    BY <1>1, <2>1, HeldKept
<1>2. CASE Offer
  <2>1. /\ UNCHANGED <<batch, outbox, invalid, shelved, crashLost, app, journal, chain, rejected>>
        /\ emitted' = emitted + 1 /\ app # "down"
        /\ \/ dropped' = dropped \cup {emitted + 1} /\ buffer' = buffer
           \/ dropped' = dropped /\ buffer' = Append(buffer, emitted + 1)
    BY <1>2 DEF Offer, appVars, flusherVars, serverVars, journalVars
  <2>2. 1..(emitted + 1) = (1..emitted) \cup {emitted + 1}
    BY <1>0
  <2>3. Settled' = Settled
    BY <2>1 DEF Settled
  <2>4. CASE dropped' = dropped \cup {emitted + 1} /\ buffer' = buffer
    <3>1. Accepted' \subseteq Accepted
      BY <2>1, <2>2, <2>4 DEF Accepted
    <3> QED
      BY <2>1, <2>3, <2>4, <3>1, HeldKept
  <2>5. CASE dropped' = dropped /\ buffer' = Append(buffer, emitted + 1)
    <3>1. Accepted' \subseteq Accepted \cup {emitted + 1}
      BY <2>1, <2>2, <2>5 DEF Accepted
    <3>2. Elems(buffer') = Elems(buffer) \cup {emitted + 1}
      <4>1. /\ buffer \in Seq(Nat) /\ emitted + 1 \in Nat
        BY <1>0 DEF Safe, Typed, TypeOK, TypeBuffer
      <4>2. /\ Len(buffer') = Len(buffer) + 1 /\ Len(buffer) \in Nat /\ buffer' \in Seq(Nat)
            /\ \A i \in 1..Len(buffer) : buffer'[i] = buffer[i]
            /\ buffer'[Len(buffer) + 1] = emitted + 1
        BY <2>5, <4>1, AppendProperties, LenProperties
      <4>3. DOMAIN buffer = 1..Len(buffer) /\ DOMAIN buffer' = 1..(Len(buffer) + 1)
        BY <4>1, <4>2, LenProperties
      <4>4. {buffer'[i] : i \in DOMAIN buffer'} = {buffer[i] : i \in DOMAIN buffer} \cup {emitted + 1}
        BY <4>2, <4>3, SMTT(30), ZenonT(60)
      <4> QED
        BY <4>4 DEF Elems
    <3> QED
      BY <2>1, <2>3, <3>1, <3>2 DEF NothingVanishes
  <2> QED
    BY <2>1, <2>4, <2>5
<1>3. CASE AppendFails \/ AppendAfterClose
  <2>1. /\ UNCHANGED <<emitted, dropped, buffer, outbox, invalid, crashLost, app, chain, rejected>>
        /\ shelved' = shelved \cup Elems(batch) /\ app # "down"
    BY <1>3 DEF AppendFails, AppendAfterClose, appVars, bufferVars, serverVars, Safe, Typed, FlusherShape
  <2>2. Accepted' = Accepted /\ Settled' = Settled
    BY <2>1 DEF Accepted, Settled
  <2> QED
    BY <2>1, <2>2, HeldKept
<1>4. CASE Crash \/ CrashInWrite
  <2>1. PICK j : DieWith(j)
    BY <1>4 DEF Crash, CrashInWrite
  <2>2. /\ UNCHANGED <<emitted, dropped, invalid, chain, rejected, shelved>> /\ app' = "down" /\ journal' = j
        /\ crashLost' = crashLost \cup ((Elems(buffer) \cup Elems(batch) \cup EventsOf(outbox)
                                          \cup Replayable(journal)) \ Replayable(j))
    BY <2>1 DEF DieWith
  <2>3. Accepted' = Accepted /\ Settled' = Settled
    BY <2>2 DEF Accepted, Settled
  <2>4. Accepted \subseteq Settled \cup invalid \cup shelved \cup crashLost' \cup Replayable(j)
    BY <2>2 DEF NothingVanishes
  <2> QED
    BY <2>2, <2>3, <2>4 DEF NothingVanishes
<1>5. CASE Server
  <2>1. UNCHANGED <<emitted, dropped, buffer, batch, outbox, invalid, shelved, crashLost, app, journal>>
    BY <1>5 DEF Server, IngestEvent, IngestLate, appVars, bufferVars, flusherVars, journalVars
  <2>2. Settled \subseteq Settled'
    <3>1. \A e : Ingest(e) => Settled \subseteq Settled'
      <4>1. chain \in Seq(Nat)
        BY <1>0 DEF TypeServer
      <4>2. ASSUME NEW e, chain' = Append(chain, e) PROVE Elems(chain) \subseteq Elems(chain')
        <5>1. DOMAIN chain = 1..Len(chain) /\ Len(chain) \in Nat /\ DOMAIN chain' = 1..(Len(chain) + 1)
              /\ \A i \in 1..Len(chain) : chain'[i] = chain[i]
          BY <4>1, <4>2
        <5>2. \A i \in DOMAIN chain : i \in DOMAIN chain' /\ chain'[i] = chain[i]
          BY <5>1
        <5> QED
          BY <5>2 DEF Elems
      <4> QED
        BY <4>2 DEF Ingest, Settled
    <3> QED
      BY <1>5, <3>1 DEF Server, IngestEvent, IngestLate
  <2> QED
    BY <1>1, <2>1, <2>2
<1>6. CASE Flush \/ Close \/ FlushReturn \/ CloseJournal \/ Time \/ LoopTest \/ Deliver \/ SendDone
           \/ SendChunk \/ AckAfterClose \/ UNCHANGED vars
  <2>1. UNCHANGED <<emitted, dropped, buffer, batch, outbox, invalid, shelved, crashLost, journal, chain, rejected>>
        /\ (app = "down" => app' = "down")
    BY <1>6 DEF Flush, Close, FlushCall, FlushReturn, CloseJournal, Time, BackoffExpires, IntervalElapses,
         LoopTest, Deliver, SendDone, SendChunk, AckAfterClose, vars, appVars, bufferVars, flusherVars,
         journalVars, serverVars
  <2>2. Accepted' = Accepted /\ Settled' = Settled
    BY <2>1 DEF Accepted, Settled
  <2> QED
    BY <2>1, <2>2, HeldKept
<1>7. CASE Ack \/ AckFails \/ SendFails
  <2>1. UNCHANGED <<emitted, dropped, buffer, batch, outbox, invalid, shelved, crashLost, app, chain, rejected>>
        /\ app # "down"
    BY <1>7 DEF Ack, AckFails, SendFails, appVars, bufferVars, serverVars, Safe, Typed, FlusherShape
  <2>2. Accepted' = Accepted /\ Settled' = Settled
    BY <2>1 DEF Accepted, Settled
  <2> QED
    BY <2>1, <2>2, HeldKept
<1> QED
  BY <1>2, <1>3, <1>4, <1>5, <1>6, <1>7, VanishDrain, VanishJournalBatch, VanishSendSucceeds, VanishRestart
     DEF Next, Application, Flusher, Faults

LossInv == Safe /\ BatchInAppend /\ NothingVanishes

LEMMA LossInvInit == Init => LossInv
<1> SUFFICES ASSUME Init PROVE LossInv
  OBVIOUS
<1>1. BatchInAppend
  BY DEF Init, BatchInAppend
<1>2. NothingVanishes
  <2>1. Accepted = {}
    BY DEF Init, Accepted
  <2> QED
    BY <2>1 DEF NothingVanishes
<1> QED
  BY <1>1, <1>2, TypeInit, SafeInit DEF LossInv, Safe

LEMMA LossInvStep == LossInv /\ [Next]_vars => LossInv'
  BY PipelineAssumption, SafeStep, BatchInAppendStep, VanishStep DEF LossInv

(* An accepted event is somewhere, or one of the known causes has taken it,*)
(* for every capacity, batch size and pattern of faults, with recovery on  *)
(* or off.                                                                 *)
THEOREM NothingLost == Spec => []NothingVanishes
<1>1. LossInv => NothingVanishes
  BY DEF LossInv
<1> QED
  BY <1>1, LossInvInit, LossInvStep, PTL DEF Spec

(* A flush() that returns true has missed, of the events accepted before   *)
(* it was called, at most those that are drained and not yet journaled.    *)
THEOREM FlushCorrect == Spec => FlushMissesOnlyTheBatch
<1> DEFINE Misses == flushed = "pending" /\ flushed' = "true"
                       => Accepted \cap (1..flushMark) \subseteq Done \cup Elems(batch)
<1>1. LossInv /\ [Next]_vars => [Misses]_vars
  <2> SUFFICES ASSUME LossInv, [Next]_vars, flushed = "pending", flushed' = "true"
               PROVE  Accepted \subseteq Done \cup Elems(batch)
    OBVIOUS
  <2>1. FlushReturn
    BY DEF Next, Application, Offer, Flush, Close, FlushCall, CloseJournal, Time, BackoffExpires, IntervalElapses,
           Flusher, LoopTest, Drain, JournalBatch, AppendAfterClose, Deliver, SendDone, SendChunk, SendSucceeds,
           Ack, AckAfterClose, Faults, AppendFails, AckFails, SendFails, Crash, CrashInWrite, DieWith,
           Server, IngestEvent, IngestLate, Restart, vars, appVars
  <2>2. NothingQueued /\ app # "down"
    BY <2>1 DEF FlushReturn
  <2>3. Elems(buffer) = {} /\ EventsOf(outbox) = {}
    BY <2>2 DEF NothingQueued, Elems, EventsOf
  <2> QED
    BY <2>2, <2>3 DEF LossInv, NothingVanishes, Done
<1>2. FlushMissesOnlyTheBatch <=> [][Misses]_vars
  BY DEF FlushMissesOnlyTheBatch
<1> HIDE DEF Misses
<1> QED
  BY <1>1, <1>2, LossInvInit, LossInvStep, PTL DEF Spec

-----------------------------------------------------------------------------
(* What losing the host costs: no more than the records the journal counts *)
(* as not yet synced.                                                      *)

(* WriteLines, line by line: a torn end is overwritten *)
Overwritten(j) == IF EndsTorn(j) THEN 1 ELSE 0

LEMMA WriteLinesAt ==
  ASSUME NEW j \in Seq(Lines), NEW lines \in Seq(Lines), lines # <<>>, NEW wl, wl = WriteLines(j, lines)
  PROVE  /\ wl \in Seq(Lines)
         /\ Len(wl) = Len(j) + Len(lines) - Overwritten(j)
         /\ \A i \in 1..Len(j) : wl[i] = IF EndsTorn(j) /\ i = Len(j) THEN CorruptRecord ELSE j[i]
         /\ \A i \in (1 + Overwritten(j))..Len(lines) : wl[Len(j) + i - Overwritten(j)] = lines[i]
<1>0. Len(j) \in Nat /\ Len(lines) \in Nat /\ Len(lines) > 0
  BY ElemsRange
<1>1. CASE ~EndsTorn(j)
  <2> DEFINE w == j \o lines
  <2>1. /\ w \in Seq(Lines) /\ Len(w) = Len(j) + Len(lines)
        /\ \A i \in 1 .. Len(j) + Len(lines) : w[i] = IF i <= Len(j) THEN j[i] ELSE lines[i - Len(j)]
    BY ConcatProperties
  <2>2. w = WriteLines(j, lines)
    BY <1>1 DEF WriteLines
  <2> HIDE DEF w
  <2>3. /\ \A i \in 1..Len(j) : w[i] = j[i]
        /\ \A i \in 1..Len(lines) : w[Len(j) + i - 0] = lines[i]
    <3>1. \A i \in 1..Len(j) : w[i] = j[i]
      BY <1>0, <2>1
    <3>2. ASSUME NEW i \in 1..Len(lines) PROVE w[Len(j) + i - 0] = lines[i]
      <4>1. Len(j) + i - 0 = Len(j) + i /\ Len(j) + i \in 1..(Len(j) + Len(lines)) /\ ~(Len(j) + i <= Len(j))
            /\ (Len(j) + i) - Len(j) = i
        BY <1>0
      <4> QED
        BY <2>1, <4>1
    <3> QED
      BY <3>1, <3>2
  <2> QED
    BY <1>0, <1>1, <2>1, <2>2, <2>3 DEF Overwritten
<1>2. CASE EndsTorn(j)
  <2> DEFINE whole == SubSeq(j, 1, Len(j) - 1)
             gap == <<CorruptRecord>>
             rest == Tail(lines)
             head == whole \o gap
             w == head \o rest
  <2>0. Len(j) > 0 /\ CorruptRecord \in Lines
    BY <1>2 DEF EndsTorn, CorruptRecord, Lines
  <2>1. whole \in Seq(Lines) /\ Len(whole) = Len(j) - 1 /\ \A i \in 1..Len(whole) : whole[i] = j[i]
    <3>0. Len(j) - 1 \in 0..Len(j)
      BY <1>0, <2>0
    <3>1. PICK k \in 0..Len(j) : k = Len(j) - 1
      BY <3>0
    <3>2. whole = SubSeq(j, 1, k)
      BY <3>1
    <3> HIDE DEF whole
    <3>3. whole \in Seq(Lines) /\ Len(whole) = k /\ \A i \in 1..Len(whole) : whole[i] = j[i]
      BY <3>2, Prefix
    <3> QED
      BY <3>1, <3>3
  <2>2. gap \in Seq(Lines) /\ Len(gap) = 1 /\ gap[1] = CorruptRecord
    BY <2>0
  <2>3. rest \in Seq(Lines) /\ Len(rest) = Len(lines) - 1 /\ \A i \in 1..Len(rest) : rest[i] = lines[i + 1]
    BY HeadTailProperties
  <2>4. w = WriteLines(j, lines)
    <3>1. WriteLines(j, lines) = whole \o gap \o rest
      BY <1>2 DEF WriteLines
    <3> QED
      BY <3>1
  <2>5. /\ head \in Seq(Lines) /\ Len(head) = Len(j)
        /\ \A i \in 1..Len(j) : head[i] = IF i = Len(j) THEN CorruptRecord ELSE j[i]
    <3> HIDE DEF whole, gap
    <3>1. /\ head \in Seq(Lines) /\ Len(head) = Len(whole) + Len(gap)
          /\ \A i \in 1 .. Len(whole) + Len(gap) : head[i] = IF i <= Len(whole) THEN whole[i] ELSE gap[i - Len(whole)]
      BY <2>1, <2>2, ConcatProperties
    <3>2. Len(head) = Len(j)
      BY <1>0, <2>1, <2>2, <3>1
    <3>3. ASSUME NEW i \in 1..Len(j) PROVE head[i] = IF i = Len(j) THEN CorruptRecord ELSE j[i]
      <4>1. CASE i = Len(j)
        <5>1. ~(i <= Len(whole)) /\ i - Len(whole) = 1 /\ i \in 1 .. Len(whole) + Len(gap)
          BY <1>0, <2>1, <2>2, <4>1
        <5> QED
          BY <2>2, <3>1, <4>1, <5>1
      <4>2. CASE i # Len(j)
        <5>1. i \in 1..Len(whole) /\ i <= Len(whole) /\ i \in 1 .. Len(whole) + Len(gap)
          BY <1>0, <2>1, <2>2, <4>2
        <5> QED
          BY <2>1, <3>1, <4>2, <5>1
      <4> QED
        BY <4>1, <4>2
    <3> QED
      BY <3>1, <3>2, <3>3
  <2> HIDE DEF head, rest
  <2>6. /\ w \in Seq(Lines) /\ Len(w) = Len(j) + (Len(lines) - 1)
        /\ \A i \in 1 .. Len(j) + (Len(lines) - 1) : w[i] = IF i <= Len(j) THEN head[i] ELSE rest[i - Len(j)]
    BY <2>3, <2>5, ConcatProperties
  <2> HIDE DEF w
  <2>7. \A i \in 1..Len(j) : w[i] = IF i = Len(j) THEN CorruptRecord ELSE j[i]
    <3>1. \A i \in 1..Len(j) : i <= Len(j) /\ i \in 1 .. Len(j) + (Len(lines) - 1)
      BY <1>0
    <3> QED
      BY <2>5, <2>6, <3>1
  <2>8. ASSUME NEW i \in (1 + 1)..Len(lines) PROVE w[Len(j) + i - 1] = lines[i]
    <3>1. /\ Len(j) + i - 1 \in 1 .. Len(j) + (Len(lines) - 1) /\ ~(Len(j) + i - 1 <= Len(j))
          /\ (Len(j) + i - 1) - Len(j) = i - 1 /\ i - 1 \in 1..Len(rest) /\ (i - 1) + 1 = i
      BY <1>0, <2>3
    <3> QED
      BY <2>3, <2>6, <3>1
  <2>9. Len(w) = Len(j) + Len(lines) - 1
    BY <1>0, <2>6
  <2> QED
    BY <1>2, <2>4, <2>6, <2>7, <2>8, <2>9 DEF Overwritten
<1> QED
  BY <1>1, <1>2

Exposed(j, s) == {i \in Unacked(j) : i > s}

(* a write exposes nothing but the event records it writes *)
LEMMA ExposedByWrite ==
  ASSUME NEW j \in Seq(Lines), NEW lines \in Seq(Lines), lines # <<>>, NEW s \in Nat,
         NEW w, w = WriteLines(j, lines)
  PROVE  /\ w \in Seq(Lines) /\ Len(w) <= Len(j) + Len(lines)
         /\ \A i \in Exposed(w, s) : i \in Exposed(j, s) \/ (i \in (Len(j) + 1)..Len(w) /\ w[i] \in Elems(lines))
<1>0. Len(j) \in Nat /\ Len(lines) \in Nat /\ Len(lines) > 0 /\ DOMAIN j = 1..Len(j)
  BY ElemsRange
<1> DEFINE d == Overwritten(j)
<1>1. /\ w \in Seq(Lines) /\ d \in {0, 1}
      /\ Len(w) = Len(j) + Len(lines) - d
      /\ \A i \in 1..Len(j) : w[i] = IF EndsTorn(j) /\ i = Len(j) THEN CorruptRecord ELSE j[i]
      /\ \A i \in (1 + d)..Len(lines) : w[Len(j) + i - d] = lines[i]
  BY WriteLinesAt DEF Overwritten
<1> HIDE DEF d
<1>2. DOMAIN w = 1..Len(w) /\ Len(w) \in Nat
  BY <1>1, ElemsRange
<1>3. Len(w) >= Len(j) /\ Len(w) <= Len(j) + Len(lines)
  <2>1. d \in {0, 1} /\ Len(w) = Len(j) + Len(lines) - d
    BY <1>1
  <2> QED
    BY <1>0, <2>1
<1>4. ASSUME NEW n, Acked(j, n) PROVE Acked(w, n)
  <2>1. PICK i \in 1..Len(j) : j[i].k = "a" /\ n <= j[i].seq
    BY <1>0, <1>4 DEF Acked
  <2>2. ~(EndsTorn(j) /\ i = Len(j))
    BY <2>1 DEF EndsTorn, TornRecord
  <2>3. i \in DOMAIN w
    BY <1>0, <1>2, <1>3
  <2>4. w[i] = j[i]
    BY <1>1, <2>2
  <2> QED
    BY <2>1, <2>3, <2>4 DEF Acked
<1>5. ASSUME NEW i \in Exposed(w, s), i <= Len(j) PROVE i \in Exposed(j, s)
  <2>1. i \in 1..Len(j) /\ w[i].k = "e" /\ ~Acked(w, w[i].seq) /\ i > s
    BY <1>0, <1>2, <1>5 DEF Exposed, Unacked
  <2>2. w[i] = j[i]
    BY <1>1, <2>1 DEF CorruptRecord
  <2> QED
    BY <1>0, <1>4, <2>1, <2>2 DEF Exposed, Unacked
<1>6. ASSUME NEW i \in Exposed(w, s), ~(i <= Len(j)) PROVE i \in (Len(j) + 1)..Len(w) /\ w[i] \in Elems(lines)
  <2>1. i \in (Len(j) + 1)..Len(w)
    BY <1>0, <1>2, <1>6 DEF Exposed, Unacked
  <2>2. i - Len(j) + d \in (1 + d)..Len(lines) /\ Len(j) + (i - Len(j) + d) - d = i
        /\ i - Len(j) + d \in 1..Len(lines)
    <3>1. d \in {0, 1} /\ Len(w) = Len(j) + Len(lines) - d
      BY <1>1
    <3>2. \A a, b, c, x, y \in Int : y >= 0 /\ x >= a + 1 /\ x <= b /\ b = a + c - y
             => /\ x - a + y \in (1 + y)..c /\ a + (x - a + y) - y = x /\ x - a + y \in 1..c
      OBVIOUS
    <3>3. d \in Int /\ d >= 0
      BY <3>1
    <3>4. i \in Int /\ Len(w) \in Int /\ i >= Len(j) + 1 /\ i <= Len(w)
      BY <1>0, <1>2, <2>1
    <3> QED
      BY <1>0, <3>1, <3>2, <3>3, <3>4
  <2>3. w[i] = lines[i - Len(j) + d]
    BY <1>1, <2>2
  <2> QED
    BY <2>1, <2>2, <2>3, ElemsRange
<1> QED
  BY <1>1, <1>3, <1>5, <1>6

LEMMA ExposedFinite ==
  ASSUME NEW j \in Seq(Lines), NEW s
  PROVE  IsFiniteSet(Exposed(j, s)) /\ Cardinality(Exposed(j, s)) \in Nat
<1>1. Len(j) \in Nat /\ DOMAIN j = 1..Len(j)
  BY ElemsRange
<1>2. Exposed(j, s) \subseteq 1..Len(j) /\ IsFiniteSet(1..Len(j))
  BY <1>1, FS_Interval DEF Exposed, Unacked
<1> QED
  BY <1>2, FS_Subset, FS_CardinalityType

LEMMA NoneExposed ==
  ASSUME NEW j \in Seq(Lines), NEW s, s = Len(j)
  PROVE  Exposed(j, s) = {} /\ Cardinality(Exposed(j, s)) = 0
<1>1. Len(j) \in Nat /\ DOMAIN j = 1..Len(j)
  BY ElemsRange
<1>2. Exposed(j, s) = {}
  BY <1>1 DEF Exposed, Unacked
<1> QED
  BY <1>2, FS_EmptySet

SyncInv ==
  /\ unsynced < FsyncMax
  /\ Cardinality(Exposed(journal, synced)) <= unsynced
  /\ app = "down" => synced = Len(journal)

CountsSynced == errors = 0 => SyncInv

LEMMA SyncedByDeath ==
  ASSUME NEW j \in Seq(Lines), DieWith(j), PipelineAssumption
  PROVE  SyncInv'
<1>1. journal' = j /\ synced' = Len(j) /\ unsynced' = 0
  BY DEF DieWith
<1>2. Exposed(j, Len(j)) = {} /\ Cardinality(Exposed(j, Len(j))) = 0
  BY NoneExposed
<1>3. Cardinality(Exposed(journal, synced))' = 0
  BY <1>1, <1>2 DEF Exposed, Unacked, Acked
<1> QED
  BY <1>1, <1>3 DEF SyncInv, PipelineAssumption

LEMMA SyncedStep == PipelineAssumption /\ Safe /\ CountsSynced /\ [Next]_vars => CountsSynced'
<1> SUFFICES ASSUME PipelineAssumption, Safe, CountsSynced, [Next]_vars, errors' = 0 PROVE SyncInv'
  BY DEF CountsSynced
<1>0. /\ journal \in Seq(Lines) /\ synced \in Nat /\ unsynced \in Nat /\ Len(journal) \in Nat /\ FsyncMax \in Nat
      /\ FsyncMax > 0 /\ errors \in Nat
      /\ Cardinality(Exposed(journal, synced)) \in Nat /\ IsFiniteSet(Exposed(journal, synced))
      /\ batch \in Seq(Nat) /\ Len(batch) \in Nat /\ nextSeq \in Nat
  BY ExposedFinite, LenProperties DEF Safe, Typed, TypeOK, TypeJournal, TypeRest, TypeFlusher, PipelineAssumption
<1>1. errors = 0 /\ ~AppendFails /\ ~AckFails
  <2>1. errors' = errors \/ errors' = errors + 1
    BY DEF Next, Application, Offer, Flush, Close, FlushCall, FlushReturn, CloseJournal, Time, BackoffExpires,
           IntervalElapses, Flusher, LoopTest, Drain, JournalBatch, AppendAfterClose, Deliver, SendDone, SendChunk,
           SendSucceeds, Ack, AckAfterClose, Faults, AppendFails, AckFails, SendFails, Crash, CrashInWrite, DieWith,
           Server, IngestEvent, IngestLate, Restart, vars, faultVars
  <2>2. (AppendFails \/ AckFails) => errors' = errors + 1
    BY DEF AppendFails, AckFails
  <2> QED
    BY <1>0, <2>1, <2>2
<1>2. SyncInv
  BY <1>1 DEF CountsSynced
<1>3. CASE UNCHANGED <<journal, synced, unsynced>> /\ (app = app' \/ app' # "down")
  BY <1>2, <1>3 DEF SyncInv, Exposed, Unacked, Acked
<1>4. CASE JournalBatch
  <2> DEFINE w == WriteLines(journal, BatchRecords)
  <2>1. /\ journal' = w /\ app' # "down"
        /\ \/ synced' = Len(journal') /\ unsynced' = 0
           \/ ~FsyncDue /\ unsynced' = unsynced + Len(batch) /\ synced' = synced
    BY <1>4 DEF JournalBatch, appVars, Safe, Typed, FlusherShape
  <2>2. BatchRecords \in Seq(Lines) /\ Len(BatchRecords) = Len(batch) /\ BatchRecords # <<>>
    <3>1. BatchRecords \in Seq(Lines) /\ Len(BatchRecords) = Len(batch)
      BY <1>0, BatchLists
    <3>2. batch # <<>>
      BY <1>4 DEF JournalBatch, Safe, Typed, FlusherShape
    <3>3. Len(batch) > 0
      BY <1>0, <3>2, ElemsRange
    <3> QED
      BY <3>1, <3>3, EmptySeq
  <2>3. /\ w \in Seq(Lines) /\ Len(w) <= Len(journal) + Len(batch)
        /\ \A i \in Exposed(w, synced) : i \in Exposed(journal, synced) \/ i \in (Len(journal) + 1)..Len(w)
    BY <1>0, <2>2, ExposedByWrite
  <2> HIDE DEF w
  <2>4. Len(w) \in Nat
    BY <2>3, LenProperties
  <2>5. Exposed(w, Len(w)) = {} /\ Cardinality(Exposed(w, Len(w))) = 0
    BY <2>3, NoneExposed
  <2>6. Cardinality(Exposed(w, synced)) <= Cardinality(Exposed(journal, synced)) + Len(batch)
    <3> DEFINE new == (Len(journal) + 1)..(Len(journal) + Len(batch))
               old == Exposed(journal, synced)
    <3>1. IsFiniteSet(new) /\ Cardinality(new) = Len(batch)
      <4>1. Len(journal) + 1 \in Int /\ Len(journal) + Len(batch) \in Int
        BY <1>0
      <4>2. /\ IsFiniteSet(new)
            /\ Cardinality(new) = IF Len(journal) + 1 > Len(journal) + Len(batch) THEN 0
                                  ELSE (Len(journal) + Len(batch)) - (Len(journal) + 1) + 1
        BY <4>1, FS_Interval
      <4>3. Len(journal) + Len(batch) - (Len(journal) + 1) + 1 = Len(batch)
        BY <1>0
      <4> HIDE DEF new
      <4> QED
        BY <1>0, <4>2, <4>3
    <3>2. Exposed(w, synced) \subseteq old \cup new
      BY <1>0, <2>3, <2>4
    <3> HIDE DEF new, old
    <3>3. IsFiniteSet(old) /\ Cardinality(old) \in Nat
      BY <1>0 DEF old
    <3>4. /\ IsFiniteSet(old \cup new) /\ Cardinality(old \cup new) \in Nat
          /\ Cardinality(old \cup new) <= Cardinality(old) + Cardinality(new)
      BY <3>1, <3>3, UnionBound
    <3>5. Cardinality(old \cup new) <= Cardinality(old) + Len(batch)
      BY <3>1, <3>4
    <3>6. Cardinality(Exposed(w, synced)) <= Cardinality(old \cup new) /\ Cardinality(Exposed(w, synced)) \in Nat
      BY <2>3, <3>2, <3>4, FS_Subset, ExposedFinite
    <3>8. Cardinality(Exposed(w, synced)) <= Cardinality(old) + Len(batch)
      BY <1>0, <3>3, <3>4, <3>5, <3>6
    <3> QED
      BY <3>8 DEF old
  <2>7. CASE synced' = Len(journal') /\ unsynced' = 0
    <3>1. Cardinality(Exposed(journal, synced))' = 0
      BY <2>1, <2>5, <2>7 DEF Exposed, Unacked, Acked
    <3> QED
      BY <1>0, <2>1, <2>7, <3>1 DEF SyncInv
  <2>8. CASE ~FsyncDue /\ unsynced' = unsynced + Len(batch) /\ synced' = synced
    <3>1. Cardinality(Exposed(journal, synced))' = Cardinality(Exposed(w, synced))
      BY <2>1, <2>8 DEF Exposed, Unacked, Acked
    <3>2. unsynced' < FsyncMax
      BY <1>0, <2>8 DEF FsyncDue
    <3>3. Cardinality(Exposed(w, synced)) \in Nat
      BY <2>3, ExposedFinite
    <3>4. Cardinality(Exposed(w, synced)) <= unsynced + Len(batch)
      BY <1>0, <1>2, <2>6, <3>3 DEF SyncInv
    <3> QED
      BY <2>1, <2>8, <3>1, <3>2, <3>4 DEF SyncInv
  <2> QED
    BY <2>1, <2>7, <2>8
<1>5. CASE Ack
  <2>1. /\ pc = "ack" /\ chunk # <<>> /\ chunk \in Seq(Entries)
        /\ journal' = WriteLines(journal, <<AckRecord(HighestSeq)>>)
        /\ UNCHANGED <<synced, unsynced, app>>
    BY <1>5 DEF Ack, Safe, Typed, TypeOK, TypeFlusher, FlusherShape, appVars
  <2> DEFINE line == <<AckRecord(HighestSeq)>>
             w == WriteLines(journal, line)
  <2>2. line \in Seq(Lines) /\ line # <<>> /\ \A x \in Elems(line) : x.k # "e"
    <3>1. Len(chunk) \in Nat /\ Len(chunk) > 0
      BY <2>1, ElemsRange
    <3>2. HighestSeq \in Nat
      <4>1. chunk[Len(chunk)] \in Entries
        BY <2>1, <3>1, ElementOfSeq
      <4> QED
        BY <4>1 DEF HighestSeq, Entries
    <3>3. AckRecord(HighestSeq) \in Lines
      BY <3>2 DEF AckRecord, Lines
    <3>4. Elems(line) = {AckRecord(HighestSeq)}
      BY DEF Elems
    <3> QED
      BY <3>3, <3>4 DEF AckRecord
  <2>3. /\ w \in Seq(Lines)
        /\ \A i \in Exposed(w, synced) : i \in Exposed(journal, synced) \/ w[i] \in Elems(line)
    <3> HIDE DEF line
    <3> QED
      BY <1>0, <2>2, ExposedByWrite
  <2>4. journal' = w
    BY <2>1
  <2> HIDE DEF w, line
  <2>5. \A i \in Exposed(w, synced) : w[i].k = "e"
    BY DEF Exposed, Unacked
  <2>6. Exposed(w, synced) \subseteq Exposed(journal, synced)
    BY <2>2, <2>3, <2>5
  <2>7. /\ Cardinality(Exposed(w, synced)) <= Cardinality(Exposed(journal, synced))
        /\ Cardinality(Exposed(w, synced)) \in Nat
    BY <1>0, <2>3, <2>6, FS_Subset, ExposedFinite
  <2>8. Cardinality(Exposed(journal, synced))' = Cardinality(Exposed(w, synced))
    BY <2>1, <2>4 DEF Exposed, Unacked, Acked
  <2>9. app # "down"
    BY <2>1 DEF Safe, Typed, FlusherShape
  <2>10. Cardinality(Exposed(w, synced)) <= unsynced
    BY <1>0, <1>2, <2>7 DEF SyncInv
  <2> QED
    BY <1>2, <2>1, <2>8, <2>9, <2>10 DEF SyncInv
<1>6. CASE CloseJournal
  <2>1. synced' = Len(journal) /\ unsynced' = 0 /\ journal' = journal /\ app' # "down"
    BY <1>6 DEF CloseJournal
  <2>2. Cardinality(Exposed(journal, Len(journal))) = 0
    BY <1>0, NoneExposed
  <2>3. Cardinality(Exposed(journal, synced))' = 0
    BY <2>1, <2>2 DEF Exposed, Unacked, Acked
  <2> QED
    BY <1>0, <2>1, <2>3 DEF SyncInv
<1>7. CASE Crash \/ CrashInWrite
  <2>1. PICK j \in Seq(Lines) : DieWith(j)
    BY <1>7, CrashContent DEF Safe
  <2> QED
    BY <2>1, SyncedByDeath
<1>8. CASE Restart
  <2>1. app = "down" /\ app' = "open" /\ unsynced' = 0 /\ (ReplayJournal \/ ContinueJournal)
    BY <1>8 DEF Restart
  <2>2. journal' \in Seq(Lines) /\ synced' = Len(journal')
    <3>1. CASE ReplayJournal
      BY <3>1, RestartLists DEF Safe
    <3>2. CASE ContinueJournal
      BY <1>0, <1>2, <2>1, <3>2 DEF ContinueJournal, SyncInv
    <3> QED
      BY <2>1, <3>1, <3>2
  <2> DEFINE j == journal'
             s == synced'
  <2>3. j \in Seq(Lines) /\ s = Len(j)
    BY <2>2
  <2>4. Cardinality(Exposed(j, s)) = 0
    <3> HIDE DEF j, s
    <3> QED
      BY <2>3, NoneExposed
  <2>5. Cardinality(Exposed(journal, synced))' = 0
    BY <2>4 DEF Exposed, Unacked, Acked
  <2> QED
    BY <1>0, <2>1, <2>5 DEF SyncInv
<1>9. CASE Offer \/ Flush \/ Close \/ FlushReturn \/ LoopTest \/ Drain \/ AppendAfterClose \/ Deliver \/ SendDone
           \/ SendChunk \/ SendSucceeds \/ AckAfterClose \/ SendFails \/ Time \/ Server \/ UNCHANGED vars
  <2>1. UNCHANGED <<journal, synced, unsynced>> /\ (app = app' \/ app' # "down")
    BY <1>9 DEF Offer, Flush, Close, FlushCall, FlushReturn, LoopTest, Drain, AppendAfterClose, Deliver, SendDone,
         SendChunk, SendSucceeds, AckAfterClose, SendFails, Time, BackoffExpires, IntervalElapses, Server,
         IngestEvent, IngestLate, vars, appVars, journalVars
  <2> QED
    BY <1>3, <2>1
<1> QED
  BY <1>1, <1>4, <1>5, <1>6, <1>7, <1>8, <1>9 DEF Next, Application, Flusher, Faults

(* As long as no append or acknowledgement has failed, a crash costs fewer *)
(* journaled events than FsyncMax, and nothing but what it is known to     *)
(* cost: a failed append leaves records that the fsync policy never counts.*)
THEOREM LossCorrect == Spec => [](errors = 0 => LossBounded)
<1> DEFINE I == LossInv /\ CountsSynced
<1>1. Init => I
  <2> SUFFICES ASSUME Init PROVE CountsSynced
    BY LossInvInit
  <2>1. journal \in Seq(Lines) /\ synced = Len(journal) /\ unsynced = 0 /\ app = "open"
    BY DEF Init
  <2>2. Cardinality(Exposed(journal, synced)) = 0
    BY <2>1, NoneExposed
  <2> QED
    BY <2>1, <2>2, PipelineAssumption DEF CountsSynced, SyncInv, PipelineAssumption
<1>2. I /\ [Next]_vars => I'
  BY PipelineAssumption, LossInvStep, SyncedStep DEF LossInv
<1>3. I => (errors = 0 => LossBounded)
  <2> SUFFICES ASSUME I, errors = 0 PROVE HostLossBounded
    BY DEF LossInv, LossBounded
  <2>1. SyncInv /\ journal \in Seq(Lines) /\ unsynced \in Nat
    BY DEF CountsSynced, LossInv, Safe, Typed, TypeOK, TypeJournal
  <2>2. Cardinality(Exposed(journal, synced)) \in Nat
    BY <2>1, ExposedFinite
  <2>3. Cardinality(Exposed(journal, synced)) < FsyncMax
    BY <2>1, <2>2, PipelineAssumption DEF SyncInv, PipelineAssumption
  <2> QED
    BY <2>3 DEF HostLossBounded, Exposed
<1> HIDE DEF I
<1> QED
  BY <1>1, <1>2, <1>3, PTL DEF Spec

-----------------------------------------------------------------------------
(* What the next process would replay: while every write has been whole,   *)
(* the records of the retry queue are in the journal, past every           *)
(* acknowledgement.                                                        *)

(* behind whole lines, lines are written whole *)
LEMMA WholeWrite ==
  ASSUME NEW j \in Seq(Lines), NEW lines \in Seq(Lines), TornRecord \notin Elems(j)
  PROVE  Elems(WriteLines(j, lines)) = Elems(j) \cup Elems(lines)
<1>1. ~EndsTorn(j)
  <2> SUFFICES ASSUME EndsTorn(j) PROVE FALSE
    OBVIOUS
  <2>1. Len(j) \in Nat /\ Len(j) > 0 /\ j[Len(j)] = TornRecord
    BY LenProperties DEF EndsTorn
  <2>2. Len(j) \in 1..Len(j)
    BY <2>1
  <2> QED
    BY <2>1, <2>2, ElemsRange
<1> DEFINE w == j \o lines
<1>2. WriteLines(j, lines) = w
  BY <1>1 DEF WriteLines
<1>3. /\ w \in Seq(Lines) /\ Len(w) = Len(j) + Len(lines)
      /\ \A i \in 1..(Len(j) + Len(lines)) : w[i] = IF i <= Len(j) THEN j[i] ELSE lines[i - Len(j)]
      /\ Elems(w) \subseteq Elems(j) \cup Elems(lines)
  BY Joined, ElemsConcat
<1> HIDE DEF w
<1>4. Len(j) \in Nat /\ Len(lines) \in Nat
  BY LenProperties
<1>5. ASSUME NEW i \in 1..Len(j) PROVE j[i] \in Elems(w)
  <2>1. i \in 1..Len(w) /\ w[i] = j[i]
    BY <1>3, <1>4
  <2> QED
    BY <1>3, <2>1, ElemsRange
<1>6. ASSUME NEW i \in 1..Len(lines) PROVE lines[i] \in Elems(w)
  <2>1. Len(j) + i \in 1..Len(w) /\ ~(Len(j) + i <= Len(j)) /\ (Len(j) + i) - Len(j) = i
    BY <1>3, <1>4
  <2>2. w[Len(j) + i] = lines[i]
    BY <1>3, <2>1
  <2> QED
    BY <1>3, <2>1, <2>2, ElemsRange
<1>7. Elems(j) \subseteq Elems(w)
  BY <1>5, ElemsRange
<1>8. Elems(lines) \subseteq Elems(w)
  BY <1>6, ElemsRange
<1> QED
  BY <1>2, <1>3, <1>7, <1>8

LEMMA KeptElems ==
  ASSUME PipelineAssumption, NEW q \in Seq(Entries)
  PROVE  Kept(q) \in Seq(Entries) /\ Elems(Kept(q)) \subseteq Elems(q)
<1>1. /\ Kept(q) \in Seq(Entries) /\ Overflow(q) \in 0..Len(q)
      /\ Len(Kept(q)) = Len(q) - Overflow(q)
      /\ \A i \in 1..Len(Kept(q)) : Kept(q)[i] = q[Overflow(q) + i]
  BY KeptType
<1>2. Len(q) \in Nat
  BY LenProperties
<1> DEFINE u == Kept(q)
<1>3. /\ u \in Seq(Entries) /\ Len(u) = Len(q) - Overflow(q)
      /\ \A i \in 1..Len(u) : u[i] = q[Overflow(q) + i]
  BY <1>1
<1> HIDE DEF u
<1>4. ASSUME NEW i \in 1..Len(u) PROVE u[i] \in Elems(q)
  <2>1. Overflow(q) + i \in 1..Len(q)
    BY <1>1, <1>2, <1>3
  <2> QED
    BY <1>3, <2>1, ElemsRange
<1>5. \A e \in Elems(u) : \E i \in 1..Len(u) : e = u[i]
  BY <1>3, ElemsRange
<1> QED
  BY <1>1, <1>4, <1>5 DEF u

LEMMA QueuedElems ==
  ASSUME Typed
  PROVE  Queued \in Seq(Entries) /\ Elems(Queued) \subseteq Elems(outbox) \cup Elems(BatchEntries)
<1>1. BatchEntries \in Seq(Entries) /\ outbox \in Seq(Entries)
  BY BatchLists DEF Typed, TypeOK, TypeFlusher, TypeJournal
<1> DEFINE t == BatchEntries
<1>2. t \in Seq(Entries)
  BY <1>1
<1> HIDE DEF t
<1>3. outbox \o t \in Seq(Entries) /\ Elems(outbox \o t) \subseteq Elems(outbox) \cup Elems(t)
  BY <1>1, <1>2, ElemsConcat
<1> QED
  BY <1>3 DEF t, Queued

(* entry x is in journal j for the next process to replay *)
Backed(x, j) == /\ EventRecord(x.seq, x.ev) \in Elems(j)
                /\ \A r \in Elems(j) : r.k = "a" => r.seq < x.seq

ReplayInv == app # "down" =>
  /\ TornRecord \notin Elems(journal)
  /\ \A x \in Elems(outbox) : Backed(x, journal)
  /\ pc = "ack" => \A x \in Elems(outbox) : HighestSeq < x.seq

WritesWhole == errors = 0 => ReplayInv

LEMMA ReplayJournalBatch == PipelineAssumption /\ Safe /\ ReplayInv /\ JournalBatch => ReplayInv'
<1> SUFFICES ASSUME PipelineAssumption, Safe, ReplayInv, JournalBatch PROVE ReplayInv'
  OBVIOUS
<1>1. /\ pc = "append" /\ pc' = "deliver" /\ app # "down" /\ Typed /\ SeqsOrdered
      /\ journal' = WriteLines(journal, BatchRecords)
      /\ outbox' = Kept(Queued)
  BY DEF JournalBatch, Safe, IInv, Typed, FlusherShape
<1>2. /\ journal \in Seq(Lines) /\ nextSeq \in Nat /\ batch \in Seq(Nat)
      /\ BatchRecords \in Seq(Lines) /\ BatchEntries \in Seq(Entries)
      /\ Len(BatchRecords) = Len(batch) /\ Len(BatchEntries) = Len(batch) /\ Len(batch) \in Nat
      /\ \A i \in 1..Len(batch) : /\ BatchRecords[i] = EventRecord(nextSeq + i - 1, batch[i])
                                  /\ BatchEntries[i] = [seq |-> nextSeq + i - 1, ev |-> batch[i]]
  BY <1>1, BatchLists, LenProperties DEF Typed, TypeOK, TypeFlusher, TypeJournal
<1>3. Elems(journal') = Elems(journal) \cup Elems(BatchRecords)
  BY <1>1, <1>2, WholeWrite DEF ReplayInv
<1>4. \A r \in Elems(BatchRecords) : r.k = "e"
  BY <1>1, BatchAboveAcks
<1>5. TornRecord \notin Elems(journal')
  BY <1>1, <1>3, <1>4 DEF ReplayInv, TornRecord
<1>6. Elems(outbox') \subseteq Elems(outbox) \cup Elems(BatchEntries)
  <2> DEFINE q == Queued
  <2>1. q \in Seq(Entries) /\ Elems(q) \subseteq Elems(outbox) \cup Elems(BatchEntries)
    BY <1>1, QueuedElems
  <2> HIDE DEF q
  <2>2. Elems(Kept(q)) \subseteq Elems(q)
    BY <2>1, KeptElems
  <2> QED
    BY <1>1, <2>1, <2>2 DEF q
<1>7. \A a \in Elems(journal') : a.k = "a" => a \in Elems(journal) /\ a.seq < nextSeq
  BY <1>1, <1>3, <1>4 DEF SeqsOrdered
<1>8. ASSUME NEW x \in Elems(outbox) PROVE Backed(x, journal')
  BY <1>1, <1>3, <1>7 DEF ReplayInv, Backed
<1>9. ASSUME NEW x \in Elems(BatchEntries) PROVE Backed(x, journal')
  <2>1. PICK i \in 1..Len(batch) : x = [seq |-> nextSeq + i - 1, ev |-> batch[i]]
    <3> DEFINE t == BatchEntries
    <3>1. t \in Seq(Entries) /\ Len(t) = Len(batch)
          /\ \A i \in 1..Len(batch) : t[i] = [seq |-> nextSeq + i - 1, ev |-> batch[i]]
      BY <1>2
    <3> HIDE DEF t
    <3>2. \E i \in 1..Len(t) : x = t[i]
      <4>1. x \in Elems(t)
        BY <1>9 DEF t
      <4> QED
        BY <3>1, <4>1, ElemsRange
    <3> QED
      BY <3>1, <3>2
  <2>2. BatchRecords[i] \in Elems(BatchRecords)
    <3> DEFINE t == BatchRecords
    <3>1. t \in Seq(Lines) /\ Len(t) = Len(batch)
      BY <1>2
    <3> HIDE DEF t
    <3>2. t[i] \in Elems(t)
      BY <3>1, ElemsRange
    <3> QED
      BY <3>2 DEF t
  <2>3. EventRecord(x.seq, x.ev) = BatchRecords[i]
    BY <1>2, <2>1
  <2>4. x.seq >= nextSeq /\ x.seq \in Nat
    BY <1>2, <2>1
  <2>5. \A a \in Elems(journal) : a.k = "a" => a.seq \in Nat
    <3>1. \A a \in Elems(journal) : a \in Lines
      BY <1>2, ElemsRange
    <3> QED
      BY <3>1 DEF Lines
  <2>6. \A a \in Elems(journal') : a.k = "a" => a.seq < x.seq
    BY <1>2, <1>7, <2>4, <2>5
  <2> QED
    BY <1>3, <2>2, <2>3, <2>6 DEF Backed
<1>10. \A x \in Elems(outbox') : Backed(x, journal')
  BY <1>6, <1>8, <1>9
<1> QED
  BY <1>1, <1>5, <1>10 DEF ReplayInv, Backed

LEMMA ReplaySendSucceeds == Safe /\ ReplayInv /\ SendSucceeds => ReplayInv'
<1> SUFFICES ASSUME Safe, ReplayInv, SendSucceeds PROVE ReplayInv'
  OBVIOUS
<1>1. /\ outbox' = Unsent /\ pc = "sending" /\ pc' = "ack" /\ journal' = journal /\ chunk' = chunk /\ app # "down"
  BY DEF SendSucceeds, journalVars, Safe, Typed, FlusherShape
<1>2. /\ chunk # <<>> /\ Len(chunk) \in 1..Len(outbox)
      /\ Unsent \in Seq(Entries) /\ Len(Unsent) = Len(outbox) - Len(chunk)
      /\ \A i \in 1..Len(Unsent) : Unsent[i] = outbox[Len(chunk) + i]
      /\ outbox \in Seq(Entries) /\ Len(outbox) \in Nat
  BY <1>1, TypeUnsent, LenProperties DEF Safe, Typed, TypeOK, TypeFlusher
<1> DEFINE u == Unsent
<1>3. /\ u \in Seq(Entries) /\ Len(u) = Len(outbox) - Len(chunk)
      /\ \A i \in 1..Len(u) : u[i] = outbox[Len(chunk) + i]
      /\ outbox' = u
  BY <1>1, <1>2
<1> HIDE DEF u
<1>4. ASSUME NEW x \in Elems(u) PROVE x \in Elems(outbox) /\ HighestSeq < x.seq
  <2>1. PICK i \in 1..Len(u) : x = u[i]
    BY <1>3, ElemsRange
  <2>2. Len(chunk) + i \in 1..Len(outbox) /\ Len(chunk) < Len(chunk) + i
    BY <1>2, <1>3
  <2>3. x = outbox[Len(chunk) + i]
    BY <1>3, <2>1
  <2>4. HighestSeq = outbox[Len(chunk)].seq
    <3>1. \A m \in 1..Len(chunk) : chunk[m] = outbox[m]
      BY <1>1 DEF Safe, Typed, FlusherShape
    <3>2. Len(chunk) \in 1..Len(chunk)
      BY <1>2
    <3> QED
      BY <3>1, <3>2 DEF HighestSeq
  <2>5. \A m, n \in 1..Len(outbox) : m < n => outbox[m].seq < outbox[n].seq
    BY DEF Safe, IInv, SeqsOrdered
  <2> QED
    BY <1>2, <2>2, <2>3, <2>4, <2>5, ElemsRange
<1>5. HighestSeq' = HighestSeq
  BY <1>1 DEF HighestSeq
<1> QED
  BY <1>1, <1>3, <1>4, <1>5 DEF ReplayInv, Backed

LEMMA ReplayAck == Safe /\ ReplayInv /\ Ack => ReplayInv'
<1> SUFFICES ASSUME Safe, ReplayInv, Ack PROVE ReplayInv'
  OBVIOUS
<1>1. /\ pc = "ack" /\ pc' = "send" /\ outbox' = outbox /\ app # "down"
      /\ journal' = WriteLines(journal, <<AckRecord(HighestSeq)>>)
      /\ chunk # <<>> /\ chunk \in Seq(Entries) /\ journal \in Seq(Lines)
  BY DEF Ack, Safe, Typed, TypeOK, TypeFlusher, TypeJournal, FlusherShape
<1> DEFINE line == <<AckRecord(HighestSeq)>>
<1>2. line \in Seq(Lines) /\ Elems(line) = {AckRecord(HighestSeq)}
  <2>1. Len(chunk) \in Nat /\ Len(chunk) > 0
    BY <1>1, ElemsRange
  <2>2. chunk[Len(chunk)] \in Entries
    BY <1>1, <2>1, ElementOfSeq
  <2>3. AckRecord(HighestSeq) \in Lines
    BY <2>2 DEF HighestSeq, Entries, AckRecord, Lines
  <2> QED
    BY <2>3 DEF Elems
<1>3. Elems(journal') = Elems(journal) \cup {AckRecord(HighestSeq)}
  <2>1. journal' = WriteLines(journal, line)
    BY <1>1
  <2>2. TornRecord \notin Elems(journal)
    BY <1>1 DEF ReplayInv
  <2> HIDE DEF line
  <2> QED
    BY <1>1, <1>2, <2>1, <2>2, WholeWrite
<1>4. TornRecord \notin Elems(journal')
  BY <1>1, <1>3 DEF ReplayInv, TornRecord, AckRecord
<1>5. ASSUME NEW x \in Elems(outbox) PROVE Backed(x, journal')
  BY <1>1, <1>3 DEF ReplayInv, Backed, AckRecord
<1> QED
  BY <1>1, <1>4, <1>5 DEF ReplayInv, Backed

LEMMA ReplayRestart ==
  PipelineAssumption /\ Safe /\ Restart /\ RecoverOnStart \subseteq {TRUE} => ReplayInv'
<1> SUFFICES ASSUME PipelineAssumption, Safe, Restart, RecoverOnStart \subseteq {TRUE} PROVE ReplayInv'
  OBVIOUS
<1>1. ReplayJournal /\ pc' = "idle"
  BY DEF Restart
<1>2. PICK k \in Nat : \E f \in [1..k -> Unacked(journal)] : \E replay \in Seq(Entries) :
           /\ journal' \in Seq(Lines) /\ Len(journal') = k
           /\ Len(replay) = k
           /\ \A i \in 1..k : /\ replay[i] = [seq |-> i, ev |-> journal[f[i]].ev]
                              /\ journal'[i] = EventRecord(i, journal[f[i]].ev)
           /\ outbox' = Kept(replay)
  BY <1>1, RestartLists DEF Safe
<1>3. PICK f \in [1..k -> Unacked(journal)] : \E replay \in Seq(Entries) :
           /\ journal' \in Seq(Lines) /\ Len(journal') = k
           /\ Len(replay) = k
           /\ \A i \in 1..k : /\ replay[i] = [seq |-> i, ev |-> journal[f[i]].ev]
                              /\ journal'[i] = EventRecord(i, journal[f[i]].ev)
           /\ outbox' = Kept(replay)
  BY <1>2
<1>4. PICK replay \in Seq(Entries) :
           /\ journal' \in Seq(Lines) /\ Len(journal') = k
           /\ Len(replay) = k
           /\ \A i \in 1..k : /\ replay[i] = [seq |-> i, ev |-> journal[f[i]].ev]
                              /\ journal'[i] = EventRecord(i, journal[f[i]].ev)
           /\ outbox' = Kept(replay)
  BY <1>3
<1> DEFINE j == journal'
<1>5. /\ j \in Seq(Lines) /\ Len(j) = k
      /\ \A i \in 1..k : j[i] = EventRecord(i, journal[f[i]].ev)
  BY <1>4
<1> HIDE DEF j
<1>6. \A r \in Elems(j) : r.k = "e"
  <2>1. \A r \in Elems(j) : \E i \in 1..k : r = j[i]
    BY <1>5, ElemsRange
  <2> QED
    BY <1>5, <2>1 DEF EventRecord
<1>7. ASSUME NEW x \in Elems(replay) PROVE EventRecord(x.seq, x.ev) \in Elems(j)
  <2>1. PICK i \in 1..k : x = replay[i]
    BY <1>4, ElemsRange
  <2>2. x = [seq |-> i, ev |-> journal[f[i]].ev] /\ j[i] = EventRecord(i, journal[f[i]].ev)
    BY <1>4, <1>5, <2>1
  <2>3. EventRecord(x.seq, x.ev) = j[i]
    BY <2>2
  <2> QED
    BY <1>5, <2>3, ElemsRange
<1>8. Elems(outbox') \subseteq Elems(replay)
  BY <1>4, KeptElems
<1>9. TornRecord \notin Elems(j)
  BY <1>6 DEF TornRecord
<1> QED
  BY <1>1, <1>6, <1>7, <1>8, <1>9 DEF ReplayInv, Backed, j

LEMMA ReplayStep ==
  ASSUME RecoverOnStart \subseteq {TRUE}
  PROVE  PipelineAssumption /\ Safe /\ WritesWhole /\ [Next]_vars => WritesWhole'
<1> SUFFICES ASSUME PipelineAssumption, Safe, WritesWhole, [Next]_vars, errors' = 0 PROVE ReplayInv'
  BY DEF WritesWhole
<1>1. errors = 0 /\ ~AppendFails /\ ~AckFails
  <2>0. errors \in Nat
    BY DEF Safe, Typed, TypeOK, TypeRest
  <2>1. errors' = errors \/ errors' = errors + 1
    BY DEF Next, Application, Offer, Flush, Close, FlushCall, FlushReturn, CloseJournal, Time, BackoffExpires,
           IntervalElapses, Flusher, LoopTest, Drain, JournalBatch, AppendAfterClose, Deliver, SendDone, SendChunk,
           SendSucceeds, Ack, AckAfterClose, Faults, AppendFails, AckFails, SendFails, Crash, CrashInWrite, DieWith,
           Server, IngestEvent, IngestLate, Restart, vars, faultVars
  <2>2. (AppendFails \/ AckFails) => errors' = errors + 1
    BY DEF AppendFails, AckFails
  <2> QED
    BY <2>0, <2>1, <2>2
<1>2. ReplayInv
  BY <1>1 DEF WritesWhole
<1>3. CASE Crash \/ CrashInWrite
  BY <1>3 DEF Crash, CrashInWrite, DieWith, ReplayInv
<1>4. CASE UNCHANGED <<journal, outbox>> /\ (app' # "down" => app # "down") /\ pc' # "ack"
  BY <1>2, <1>4 DEF ReplayInv, Backed
<1>5. CASE UNCHANGED <<journal, outbox, pc, chunk>> /\ (app' # "down" => app # "down")
  BY <1>2, <1>5 DEF ReplayInv, Backed, HighestSeq
<1>6. CASE LoopTest \/ Drain \/ AppendAfterClose \/ Deliver \/ SendDone \/ SendChunk \/ AckAfterClose \/ SendFails
  <2>1. UNCHANGED <<journal, outbox>> /\ (app' # "down" => app # "down") /\ pc' # "ack"
    BY <1>6 DEF LoopTest, Drain, AppendAfterClose, Deliver, SendDone, SendChunk, AckAfterClose, SendFails,
         AfterCycle, appVars, journalVars
  <2> QED
    BY <1>4, <2>1
<1>7. CASE Application \/ Time \/ Server \/ UNCHANGED vars
  <2>1. UNCHANGED <<journal, outbox, pc, chunk>> /\ (app' # "down" => app # "down")
    BY <1>7 DEF Application, Offer, Flush, Close, FlushCall, FlushReturn, CloseJournal, Time, BackoffExpires,
         IntervalElapses, Server, IngestEvent, IngestLate, vars, appVars, journalVars, flusherVars
  <2> QED
    BY <1>5, <2>1
<1> QED
  BY <1>1, <1>2, <1>3, <1>6, <1>7, ReplayJournalBatch, ReplaySendSucceeds, ReplayAck, ReplayRestart
     DEF Next, Flusher, Faults

LEMMA ReplayableFromInv ==
  Safe /\ ReplayInv => OutboxIsReplayable
<1> SUFFICES ASSUME Safe, ReplayInv PROVE OutboxIsReplayable
  OBVIOUS
<1>0. journal \in Seq(Lines) /\ DOMAIN journal = 1..Len(journal) /\ \A r \in Elems(journal) : r \in Lines
  BY ElemsRange DEF Safe, Typed, TypeOK, TypeJournal
<1>1. CASE app = "down"
  <2>1. EventsOf(outbox) = {}
    BY <1>1 DEF Safe, Typed, FlusherShape, EventsOf
  <2> QED
    BY <2>1 DEF OutboxIsReplayable
<1>2. CASE app # "down"
  <2>1. ASSUME NEW x \in Elems(outbox) PROVE x.ev \in Replayable(journal)
    <3>1. Backed(x, journal)
      BY <1>2 DEF ReplayInv
    <3>2. PICK i \in DOMAIN journal : journal[i] = EventRecord(x.seq, x.ev)
      BY <3>1 DEF Backed, Elems
    <3>3. x \in Entries
      BY ElemsRange DEF Safe, Typed, TypeOK, TypeFlusher
    <3>4. ~Acked(journal, x.seq)
      <4>1. ASSUME NEW n \in DOMAIN journal, journal[n].k = "a", x.seq <= journal[n].seq PROVE FALSE
        <5>1. journal[n] \in Elems(journal)
          BY DEF Elems
        <5>2. journal[n].seq < x.seq /\ journal[n].seq \in Nat /\ x.seq \in Nat
          BY <1>0, <3>1, <3>3, <4>1, <5>1 DEF Backed, Lines, Entries
        <5> QED
          BY <4>1, <5>2
      <4> QED
        BY <4>1 DEF Acked
    <3>5. i \in Unacked(journal) /\ journal[i].ev = x.ev
      BY <3>2, <3>4 DEF Unacked, EventRecord
    <3> QED
      BY <3>5 DEF Replayable
  <2> QED
    BY <2>1, EventsOfElems DEF OutboxIsReplayable
<1> QED
  BY <1>1, <1>2

(* With recover_on_start, as long as no append or acknowledgement has      *)
(* failed, the next process would replay every event of the retry queue.   *)
(* Without it a process writes on behind a torn line, and after a failed   *)
(* append the same process does: the first record behind it is unreadable. *)
THEOREM QueueReplayable ==
  ASSUME RecoverOnStart \subseteq {TRUE}
  PROVE  Spec => [](errors = 0 => OutboxIsReplayable)
<1> DEFINE I == Safe /\ WritesWhole
<1>1. Init => I
  <2> SUFFICES ASSUME Init PROVE WritesWhole
    BY TypeInit, SafeInit DEF Safe
  <2>1. Elems(journal) = {} /\ Elems(outbox) = {} /\ pc = "idle"
    BY DEF Init, Elems
  <2> QED
    BY <2>1 DEF WritesWhole, ReplayInv
<1>2. I /\ [Next]_vars => I'
  BY PipelineAssumption, SafeStep, ReplayStep
<1>3. I => (errors = 0 => OutboxIsReplayable)
  BY ReplayableFromInv DEF WritesWhole
<1> HIDE DEF I
<1> QED
  BY <1>1, <1>2, <1>3, PTL DEF Spec

-----------------------------------------------------------------------------
(* Order.  Events stay in the order they were offered along the pipeline,  *)
(* so as long as none was evicted or destroyed, a request asks for nothing *)
(* before everything older is answered for or ahead of it in the request.  *)

Journaled(j) == {r.ev : r \in {x \in Elems(j) : x.k = "e"}}

Rising(s) == \A m, n \in 1..Len(s) : m < n => s[m] < s[n]
RisingEntries(q) == \A m, n \in 1..Len(q) : m < n => q[m].ev < q[n].ev
RisingRecords(j) == \A m, n \in 1..Len(j) : m < n /\ j[m].k = "e" /\ j[n].k = "e" => j[m].ev < j[n].ev
Below(S, T) == \A x \in S, y \in T : x < y

(* what the flusher may handle: offered, not dropped, and valid *)
Deliverable == {e \in 1..emitted : e \notin dropped /\ e \notin Invalid}

(* events move along the pipeline in the order they were offered *)
PipelineOrdered ==
  /\ Rising(buffer) /\ Rising(batch) /\ RisingEntries(outbox) /\ RisingRecords(journal)
  /\ Below(Elems(batch), Elems(buffer))
  /\ Below(EventsOf(outbox) \cup Journaled(journal), Elems(batch) \cup Elems(buffer))

PipelineValid ==
  /\ Elems(buffer) \subseteq (1..emitted) \ dropped
  /\ Elems(batch) \cup EventsOf(outbox) \cup Journaled(journal) \subseteq Deliverable
  /\ invalid \subseteq Invalid /\ dropped \subseteq 1..emitted

(* a request asks for nothing before its turn *)
Answered == dropped \cup invalid \cup Settled
Prefixed(r, done) == \A m \in 1..Len(r) : \A d \in 1..(r[m] - 1) :
                       d \in done \/ \E k \in 1..(m - 1) : d = r[k]

RequestsValid == rejected \subseteq Refused /\ \A r \in {request} \cup late : Elems(r) \subseteq Deliverable

RequestsPrefixed == \A r \in {request} \cup late : Prefixed(r, Answered)
ChainComplete == \A c \in Elems(chain) : \A d \in 1..(c - 1) : d \in Answered

InTurn == shelved \cup crashLost = {} => RequestsPrefixed /\ ChainComplete /\ Rising(chain)

(* a step that leaves the pipeline alone, or takes from it *)
LEMMA DeliverableGrows ==
  ASSUME TypeBuffer,
         \/ UNCHANGED <<emitted, dropped>>
         \/ emitted' = emitted + 1 /\ dropped' \subseteq dropped \cup {emitted + 1}
  PROVE  Deliverable \subseteq Deliverable' /\ (1..emitted) \ dropped \subseteq ((1..emitted) \ dropped)'
<1>1. emitted \in Nat
  BY DEF TypeBuffer
<1>2. CASE UNCHANGED <<emitted, dropped>>
  BY <1>2 DEF Deliverable
<1>3. CASE emitted' = emitted + 1 /\ dropped' \subseteq dropped \cup {emitted + 1}
  BY <1>1, <1>3 DEF Deliverable
<1> QED
  BY <1>2, <1>3

LEMMA OrderOffer == Safe /\ PipelineOrdered /\ PipelineValid /\ Offer => PipelineOrdered' /\ PipelineValid'
<1> SUFFICES ASSUME Safe, PipelineOrdered, PipelineValid, Offer PROVE PipelineOrdered' /\ PipelineValid'
  OBVIOUS
<1>1. /\ UNCHANGED <<batch, outbox, journal, invalid>> /\ emitted' = emitted + 1
      /\ \/ dropped' = dropped \cup {emitted + 1} /\ buffer' = buffer
         \/ dropped' = dropped /\ buffer' = Append(buffer, emitted + 1)
      /\ buffer \in Seq(Nat) /\ emitted \in Nat /\ Len(buffer) \in Nat /\ dropped \subseteq Nat
      /\ TypeBuffer
  BY LenProperties DEF Offer, flusherVars, journalVars, Safe, Typed, TypeOK, TypeBuffer
<1>2. Deliverable \subseteq Deliverable' /\ (1..emitted) \ dropped \subseteq ((1..emitted) \ dropped)'
  BY <1>1, DeliverableGrows
<1>3. /\ UNCHANGED <<EventsOf(outbox), Elems(batch), Journaled(journal)>>
      /\ (Rising(batch) /\ RisingEntries(outbox) /\ RisingRecords(journal))'
  BY <1>1 DEF EventsOf, Elems, Journaled, PipelineOrdered, Rising, RisingEntries, RisingRecords
<1>4. CASE buffer' = buffer
  <2>1. Elems(buffer)' = Elems(buffer) /\ Rising(buffer)'
    BY <1>4 DEF Elems, PipelineOrdered, Rising
  <2>2. (dropped \subseteq 1..emitted)'
    <3>1. 1..emitted \subseteq 1..emitted' /\ emitted + 1 \in 1..emitted'
      BY <1>1
    <3>2. dropped \subseteq 1..emitted
      BY DEF PipelineValid
    <3>3. dropped' \subseteq dropped \cup {emitted + 1}
      BY <1>1
    <3> QED
      BY <3>1, <3>2, <3>3
  <2> QED
    BY <1>1, <1>2, <1>3, <2>1, <2>2 DEF PipelineOrdered, PipelineValid
<1>5. CASE dropped' = dropped /\ buffer' = Append(buffer, emitted + 1)
  <2>1. /\ buffer' \in Seq(Nat) /\ Len(buffer') = Len(buffer) + 1
        /\ \A i \in 1..Len(buffer) : buffer'[i] = buffer[i]
        /\ buffer'[Len(buffer) + 1] = emitted + 1
    BY <1>1, <1>5, AppendProperties
  <2>2. Elems(buffer') \subseteq Elems(buffer) \cup {emitted + 1}
    <3> DEFINE b == buffer'
    <3>1. /\ b \in Seq(Nat) /\ Len(b) = Len(buffer) + 1
          /\ \A i \in 1..Len(buffer) : b[i] = buffer[i]
          /\ b[Len(buffer) + 1] = emitted + 1
      BY <2>1
    <3> HIDE DEF b
    <3>2. \A e \in Elems(b) : \E i \in 1..Len(b) : e = b[i]
      BY <3>1, ElemsRange
    <3>3. ASSUME NEW i \in 1..Len(b) PROVE b[i] \in Elems(buffer) \cup {emitted + 1}
      <4>1. i \in 1..Len(buffer) \/ i = Len(buffer) + 1
        BY <1>1, <3>1
      <4> QED
        BY <1>1, <3>1, <4>1, ElemsRange
    <3> QED
      BY <3>2, <3>3 DEF b
  <2>3. Elems(buffer) \cup Elems(batch) \cup EventsOf(outbox) \cup Journaled(journal) \subseteq 1..emitted
    BY DEF PipelineValid, Deliverable
  <2>4. Rising(buffer')
    <3>1. \A i \in 1..Len(buffer) : buffer[i] < emitted + 1
      <4>1. \A i \in 1..Len(buffer) : buffer[i] \in Elems(buffer)
        BY <1>1, ElemsRange
      <4>2. \A e \in 1..emitted : e < emitted + 1
        BY <1>1
      <4> QED
        BY <2>3, <4>1, <4>2
    <3>2. ASSUME NEW m \in 1..Len(buffer'), NEW n \in 1..Len(buffer'), m < n PROVE buffer'[m] < buffer'[n]
      <4>0. PICK k \in Nat : k = Len(buffer)
        BY <1>1
      <4>1. Len(buffer') = k + 1
        BY <2>1, <4>0
      <4>2. m \in 1..(k + 1) /\ n \in 1..(k + 1)
        BY <4>1
      <4>3. m \in 1..k /\ (n \in 1..k \/ n = k + 1)
        BY <3>2, <4>2
      <4>4. m \in 1..Len(buffer) /\ (n \in 1..Len(buffer) \/ n = Len(buffer) + 1)
        BY <4>0, <4>3
      <4>5. CASE n \in 1..Len(buffer)
        <5>1. buffer[m] < buffer[n]
          BY <3>2, <4>4, <4>5 DEF PipelineOrdered, Rising
        <5> QED
          BY <2>1, <4>4, <4>5, <5>1
      <4>6. CASE n = Len(buffer) + 1
        BY <2>1, <3>1, <4>4, <4>6
      <4> QED
        BY <4>4, <4>5, <4>6
    <3> QED
      BY <3>2 DEF Rising
  <2>5. \A x \in 1..emitted : x < emitted + 1
    BY <1>1
  <2>6. /\ Below(Elems(batch), Elems(buffer'))
        /\ Below(EventsOf(outbox) \cup Journaled(journal), Elems(batch) \cup Elems(buffer'))
    BY <2>2, <2>3, <2>5 DEF PipelineOrdered, Below
  <2>7. emitted + 1 \in ((1..emitted) \ dropped)'
    <3>1. emitted + 1 \notin dropped
      BY <1>1 DEF PipelineValid
    <3> QED
      BY <1>1, <1>5, <3>1
  <2>8. (dropped \subseteq 1..emitted)'
    BY <1>1, <1>5 DEF PipelineValid
  <2> QED
    BY <1>1, <1>2, <1>3, <2>2, <2>4, <2>6, <2>7, <2>8 DEF PipelineOrdered, PipelineValid
<1> QED
  BY <1>1, <1>4, <1>5

(* listing entries in increasing positions keeps their order *)
LEMMA ListedRising ==
  ASSUME NEW s \in Seq(Nat), Rising(s), NEW k \in Nat, NEW f \in [1..k -> 1..Len(s)],
         \A a, b \in 1..k : a < b => f[a] < f[b],
         NEW t \in Seq(Nat), Len(t) = k, \A i \in 1..k : t[i] = s[f[i]]
  PROVE  Rising(t)
<1> SUFFICES ASSUME NEW m \in 1..k, NEW n \in 1..k, m < n PROVE t[m] < t[n]
  BY DEF Rising
<1>1. f[m] \in 1..Len(s) /\ f[n] \in 1..Len(s) /\ f[m] < f[n]
  OBVIOUS
<1> QED
  BY <1>1 DEF Rising

LEMMA KeptRising ==
  ASSUME PipelineAssumption, NEW q \in Seq(Entries), RisingEntries(q)
  PROVE  RisingEntries(Kept(q))
<1> DEFINE kept == Kept(q)
<1>1. /\ Len(q) \in Nat /\ Overflow(q) \in 0..Len(q)
      /\ Len(kept) = Len(q) - Overflow(q)
      /\ \A i \in 1..Len(kept) : kept[i] = q[Overflow(q) + i]
  BY KeptType, LenProperties
<1> HIDE DEF kept
<1>2. \A m \in 1..Len(kept) : Overflow(q) + m \in 1..Len(q)
  BY <1>1
<1>3. \A m, n \in 1..Len(kept) : m < n => Overflow(q) + m < Overflow(q) + n
  BY <1>1
<1>4. \A m, n \in 1..Len(kept) : m < n => kept[m].ev < kept[n].ev
  BY <1>1, <1>2, <1>3 DEF RisingEntries
<1> QED
  BY <1>4 DEF kept, RisingEntries

(* records written behind smaller ones keep the journal in order *)
LEMMA WriteRising ==
  ASSUME NEW j \in Seq(Lines), NEW lines \in Seq(Lines), lines # <<>>, NEW w, w = WriteLines(j, lines),
         RisingRecords(j), RisingRecords(lines), Below(Journaled(j), Journaled(lines))
  PROVE  w \in Seq(Lines) /\ RisingRecords(w) /\ Journaled(w) \subseteq Journaled(j) \cup Journaled(lines)
<1>0. Len(j) \in Nat /\ Len(lines) \in Nat /\ DOMAIN j = 1..Len(j)
  BY ElemsRange
<1> DEFINE d == Overwritten(j)
<1>1. /\ w \in Seq(Lines) /\ d \in {0, 1}
      /\ Len(w) = Len(j) + Len(lines) - d
      /\ \A i \in 1..Len(j) : w[i] = IF EndsTorn(j) /\ i = Len(j) THEN CorruptRecord ELSE j[i]
      /\ \A i \in (1 + d)..Len(lines) : w[Len(j) + i - d] = lines[i]
  BY WriteLinesAt DEF Overwritten
<1> HIDE DEF d
<1>2. d \in Int /\ d >= 0 /\ Len(w) = Len(j) + Len(lines) - d /\ Len(w) \in Int
  <2>1. d \in {0, 1} /\ Len(w) = Len(j) + Len(lines) - d
    BY <1>1
  <2> QED
    BY <1>0, <2>1
<1>3. \A a, b, c, x, y \in Int : y >= 0 /\ x >= a + 1 /\ x <= b /\ b = a + c - y
             => /\ x - a + y \in (1 + y)..c /\ a + (x - a + y) - y = x /\ x - a + y \in 1..c
  OBVIOUS
<1>4. ASSUME NEW i \in 1..Len(w), i > Len(j)
      PROVE  i - Len(j) + d \in 1..Len(lines) /\ w[i] = lines[i - Len(j) + d]
  <2>1. i - Len(j) + d \in (1 + d)..Len(lines) /\ Len(j) + (i - Len(j) + d) - d = i /\ i - Len(j) + d \in 1..Len(lines)
    BY <1>0, <1>2, <1>3, <1>4
  <2> QED
    BY <1>1, <2>1
<1>5. ASSUME NEW i \in 1..Len(w), ~(i > Len(j)), w[i].k = "e"
      PROVE  i \in 1..Len(j) /\ w[i] = j[i]
  <2>1. i \in 1..Len(j)
    BY <1>0, <1>5
  <2> QED
    BY <1>1, <1>5, <2>1 DEF CorruptRecord
<1>6. \A i \in 1..Len(j) : j[i].k = "e" => j[i].ev \in Journaled(j)
  BY <1>0 DEF Journaled, Elems
<1>7. \A i \in 1..Len(lines) : lines[i].k = "e" => lines[i].ev \in Journaled(lines)
  <2>1. DOMAIN lines = 1..Len(lines)
    BY ElemsRange
  <2> QED
    BY <2>1 DEF Journaled, Elems
<1>8. RisingRecords(w)
  <2> SUFFICES ASSUME NEW m \in 1..Len(w), NEW n \in 1..Len(w), m < n, w[m].k = "e", w[n].k = "e"
               PROVE  w[m].ev < w[n].ev
    BY DEF RisingRecords
  <2>1. CASE ~(n > Len(j))
    <3>1. ~(m > Len(j))
      BY <1>0, <1>2, <2>1
    <3>2. m \in 1..Len(j) /\ n \in 1..Len(j) /\ w[m] = j[m] /\ w[n] = j[n]
      BY <1>5, <2>1, <3>1
    <3> QED
      BY <3>2 DEF RisingRecords
  <2>2. CASE n > Len(j) /\ ~(m > Len(j))
    <3>1. w[m].ev \in Journaled(j)
      BY <1>5, <1>6, <2>2
    <3>2. w[n].ev \in Journaled(lines)
      BY <1>4, <1>7, <2>2
    <3> QED
      BY <3>1, <3>2 DEF Below
  <2>3. CASE m > Len(j)
    <3>1. n > Len(j)
      BY <1>0, <1>2, <2>3
    <3> DEFINE a == m - Len(j) + d
               b == n - Len(j) + d
    <3>2. a \in 1..Len(lines) /\ b \in 1..Len(lines) /\ w[m] = lines[a] /\ w[n] = lines[b]
      BY <1>4, <2>3, <3>1
    <3>3. a < b
      BY <1>0, <1>2
    <3> HIDE DEF a, b
    <3> QED
      BY <3>2, <3>3 DEF RisingRecords
  <2> QED
    BY <2>1, <2>2, <2>3
<1>9. Journaled(w) \subseteq Journaled(j) \cup Journaled(lines)
  <2>1. Elems(w) \subseteq Elems(j) \cup Elems(lines) \cup {CorruptRecord}
    BY WriteLinesElems
  <2>2. CorruptRecord.k # "e"
    BY DEF CorruptRecord
  <2> QED
    BY <2>1, <2>2 DEF Journaled
<1> QED
  BY <1>1, <1>8, <1>9

LEMMA PrefixRising ==
  ASSUME NEW j \in Seq(Lines), NEW n \in 0..Len(j), NEW w, w = SubSeq(j, 1, n), RisingRecords(j)
  PROVE  w \in Seq(Lines) /\ Len(w) = n /\ RisingRecords(w) /\ Journaled(w) \subseteq Journaled(j)
<1>1. w \in Seq(Lines) /\ Len(w) = n /\ (\A i \in 1..Len(w) : w[i] = j[i]) /\ Elems(w) \subseteq Elems(j)
  <2>1. Len(j) \in Nat /\ 1 \in 1..(Len(j) + 1) /\ n \in (1 - 1)..Len(j)
    BY LenProperties
  <2> DEFINE v == SubSeq(j, 1, n)
  <2>2. v \in Seq(Lines) /\ Elems(v) \subseteq Elems(j)
    BY <2>1, Prefix
  <2>3. Len(v) = n
    BY <2>1, Prefix
  <2>4. \A i \in 1..n : v[i] = j[i]
    BY <2>1, Prefix
  <2> QED
    BY <2>2, <2>3, <2>4
<1>2. Len(j) \in Nat
  BY LenProperties
<1>3. 1..Len(w) \subseteq 1..Len(j)
  BY <1>1, <1>2
<1> QED
  BY <1>1, <1>3 DEF RisingRecords, Journaled

LEMMA PartRising ==
  ASSUME NEW j \in Seq(Lines), NEW lines \in Seq(Lines), NEW n \in 0..Len(lines), NEW torn \in BOOLEAN,
         NEW w, w = WritePart(j, lines, n, torn),
         RisingRecords(j), RisingRecords(lines), Below(Journaled(j), Journaled(lines))
  PROVE  w \in Seq(Lines) /\ RisingRecords(w) /\ Journaled(w) \subseteq Journaled(j) \cup Journaled(lines)
<1> DEFINE whole == IF n = 0 THEN j ELSE WriteLines(j, SubSeq(lines, 1, n))
<1>1. whole \in Seq(Lines) /\ RisingRecords(whole) /\ Journaled(whole) \subseteq Journaled(j) \cup Journaled(lines)
  <2>1. CASE n = 0
    BY <2>1
  <2>2. CASE n # 0
    <3> DEFINE first == SubSeq(lines, 1, n)
    <3>1. first \in Seq(Lines) /\ Len(first) = n /\ RisingRecords(first) /\ Journaled(first) \subseteq Journaled(lines)
      BY PrefixRising
    <3>2. whole = WriteLines(j, first)
      BY <2>2
    <3> HIDE DEF first, whole
    <3>3. first # <<>>
      BY <2>2, <3>1, EmptySeq
    <3>4. Below(Journaled(j), Journaled(first))
      BY <3>1 DEF Below
    <3> QED
      BY <3>1, <3>2, <3>3, <3>4, WriteRising
  <2> QED
    BY <2>1, <2>2
<1>2. w = IF torn /\ ~EndsTorn(whole) THEN Append(whole, TornRecord) ELSE whole
  BY DEF WritePart
<1> HIDE DEF whole
<1>3. CASE w = whole
  BY <1>1, <1>3
<1>4. CASE w = Append(whole, TornRecord)
  <2>1. TornRecord \in Lines /\ TornRecord.k # "e"
    BY DEF TornRecord, Lines
  <2>2. /\ w \in Seq(Lines) /\ Len(w) = Len(whole) + 1 /\ Len(whole) \in Nat
        /\ \A i \in 1..Len(whole) : w[i] = whole[i]
        /\ w[Len(whole) + 1] = TornRecord
    BY <1>1, <1>4, <2>1, AppendProperties, LenProperties
  <2>3. \A i \in 1..Len(w) : w[i].k = "e" => i \in 1..Len(whole) /\ w[i] = whole[i]
    BY <2>1, <2>2
  <2>4. RisingRecords(w)
    BY <1>1, <2>3 DEF RisingRecords
  <2>5. Journaled(w) \subseteq Journaled(whole)
    <3>1. \A r \in Elems(w) : \E i \in 1..Len(w) : r = w[i]
      BY <2>2, ElemsRange
    <3>2. \A i \in 1..Len(whole) : whole[i] \in Elems(whole)
      BY <1>1, ElemsRange
    <3> QED
      BY <2>3, <3>1, <3>2 DEF Journaled
  <2> QED
    BY <1>1, <2>2, <2>4, <2>5
<1> QED
  BY <1>2, <1>3, <1>4

(* the batch's records and entries, in the batch's order *)
LEMMA BatchRising ==
  ASSUME Typed, PipelineOrdered
  PROVE  /\ BatchRecords \in Seq(Lines) /\ RisingRecords(BatchRecords) /\ Journaled(BatchRecords) \subseteq Elems(batch)
         /\ Queued \in Seq(Entries) /\ RisingEntries(Queued)
         /\ EventsOf(Queued) \subseteq EventsOf(outbox) \cup Elems(batch)
         /\ Below(Journaled(journal), Journaled(BatchRecords))
<1>1. /\ batch \in Seq(Nat) /\ Len(batch) \in Nat /\ outbox \in Seq(Entries) /\ Len(outbox) \in Nat
      /\ BatchRecords \in Seq(Lines) /\ BatchEntries \in Seq(Entries)
      /\ Len(BatchRecords) = Len(batch) /\ Len(BatchEntries) = Len(batch)
      /\ \A i \in 1..Len(batch) : /\ BatchRecords[i] = EventRecord(nextSeq + i - 1, batch[i])
                                  /\ BatchEntries[i] = [seq |-> nextSeq + i - 1, ev |-> batch[i]]
  BY BatchLists, LenProperties DEF Typed, TypeOK, TypeFlusher, TypeJournal
<1> DEFINE rs == BatchRecords
           es == BatchEntries
           q == Queued
<1>2. /\ rs \in Seq(Lines) /\ es \in Seq(Entries) /\ Len(rs) = Len(batch) /\ Len(es) = Len(batch)
      /\ \A i \in 1..Len(batch) : rs[i].ev = batch[i] /\ es[i].ev = batch[i]
  <2>1. \A i \in 1..Len(batch) : /\ BatchRecords[i] = EventRecord(nextSeq + i - 1, batch[i])
                                 /\ BatchEntries[i] = [seq |-> nextSeq + i - 1, ev |-> batch[i]]
    BY <1>1
  <2>2. ASSUME NEW i \in 1..Len(batch) PROVE BatchRecords[i].ev = batch[i] /\ BatchEntries[i].ev = batch[i]
    <3>1. /\ BatchRecords[i] = EventRecord(nextSeq + i - 1, batch[i])
          /\ BatchEntries[i] = [seq |-> nextSeq + i - 1, ev |-> batch[i]]
      BY <2>1
    <3>2. /\ EventRecord(nextSeq + i - 1, batch[i]).ev = batch[i]
          /\ [seq |-> nextSeq + i - 1, ev |-> batch[i]].ev = batch[i]
      BY DEF EventRecord
    <3> QED
      BY <3>1, <3>2
  <2> QED
    BY <1>1, <2>2
<1>3. q = outbox \o es
  BY DEF Queued
<1> HIDE DEF rs, es, q
<1>4. \A m, n \in 1..Len(batch) : m < n => batch[m] < batch[n]
  BY DEF PipelineOrdered, Rising
<1>5. RisingRecords(rs)
  BY <1>2, <1>4 DEF RisingRecords
<1>6. \A i \in 1..Len(batch) : batch[i] \in Elems(batch)
  BY <1>1, ElemsRange
<1>7. Journaled(rs) \subseteq Elems(batch)
  <2>1. \A r \in Elems(rs) : \E i \in 1..Len(rs) : r = rs[i]
    BY <1>2, ElemsRange
  <2> QED
    BY <1>2, <1>6, <2>1 DEF Journaled
<1>8. /\ q \in Seq(Entries) /\ Len(q) = Len(outbox) + Len(batch)
      /\ \A i \in 1..(Len(outbox) + Len(batch)) : q[i] = IF i <= Len(outbox) THEN outbox[i] ELSE es[i - Len(outbox)]
  <2>1. /\ q \in Seq(Entries) /\ Len(q) = Len(outbox) + Len(es)
        /\ \A i \in 1..(Len(outbox) + Len(es)) : q[i] = IF i <= Len(outbox) THEN outbox[i] ELSE es[i - Len(outbox)]
    <3>1. outbox \in Seq(Entries) /\ es \in Seq(Entries)
      BY <1>1, <1>2
    <3> QED
      BY <1>3, <3>1, Joined
  <2> QED
    BY <1>2, <2>1
<1>9. \A i \in 1..Len(outbox) : outbox[i].ev \in EventsOf(outbox)
  <2>1. DOMAIN outbox = 1..Len(outbox)
    BY <1>1, LenProperties
  <2> QED
    BY <2>1 DEF EventsOf
<1>10. ASSUME NEW i \in 1..Len(q)
       PROVE  \/ i \in 1..Len(outbox) /\ q[i] = outbox[i]
              \/ i > Len(outbox) /\ i - Len(outbox) \in 1..Len(batch) /\ q[i].ev = batch[i - Len(outbox)]
  <2>1. CASE i <= Len(outbox)
    BY <1>1, <1>8, <2>1
  <2>2. CASE ~(i <= Len(outbox))
    <3>1. i \in 1..(Len(outbox) + Len(batch))
      BY <1>8
    <3>2. i - Len(outbox) \in 1..Len(batch)
      BY <1>1, <2>2, <3>1
    <3>3. q[i] = es[i - Len(outbox)]
      BY <1>8, <2>2, <3>1
    <3>4. i > Len(outbox)
      BY <1>1, <2>2
    <3> QED
      BY <1>2, <3>2, <3>3, <3>4
  <2> QED
    BY <2>1, <2>2
<1>11. EventsOf(q) \subseteq EventsOf(outbox) \cup Elems(batch)
  <2>1. DOMAIN q = 1..Len(q)
    BY <1>8, LenProperties
  <2>2. \A i \in 1..Len(q) : q[i].ev \in EventsOf(outbox) \cup Elems(batch)
    BY <1>6, <1>9, <1>10
  <2> QED
    BY <2>1, <2>2 DEF EventsOf
<1>12. RisingEntries(q)
  <2> SUFFICES ASSUME NEW m \in 1..Len(q), NEW n \in 1..Len(q), m < n PROVE q[m].ev < q[n].ev
    BY DEF RisingEntries
  <2>0. m \in Int /\ n \in Int
    BY <1>1, <1>8
  <2>1. CASE n \in 1..Len(outbox) /\ q[n] = outbox[n]
    <3>1. m \in 1..Len(outbox) /\ ~(m > Len(outbox))
      BY <1>1, <2>0, <2>1
    <3>2. q[m] = outbox[m]
      BY <1>10, <3>1
    <3> QED
      BY <2>1, <3>1, <3>2 DEF PipelineOrdered, RisingEntries
  <2>2. CASE n > Len(outbox) /\ n - Len(outbox) \in 1..Len(batch) /\ q[n].ev = batch[n - Len(outbox)]
    <3>1. CASE m \in 1..Len(outbox) /\ q[m] = outbox[m]
      <4>1. q[m].ev \in EventsOf(outbox) /\ q[n].ev \in Elems(batch)
        BY <1>6, <1>9, <2>2, <3>1
      <4> QED
        BY <4>1 DEF PipelineOrdered, Below
    <3>2. CASE m > Len(outbox) /\ m - Len(outbox) \in 1..Len(batch) /\ q[m].ev = batch[m - Len(outbox)]
      <4>1. m - Len(outbox) < n - Len(outbox)
        BY <1>1, <2>0
      <4> QED
        BY <1>4, <2>2, <3>2, <4>1
    <3> QED
      BY <1>10, <3>1, <3>2
  <2> QED
    BY <1>10, <2>1, <2>2
<1>13. Below(Journaled(journal), Journaled(rs))
  BY <1>7 DEF PipelineOrdered, Below
<1> QED
  BY <1>2, <1>5, <1>7, <1>8, <1>11, <1>12, <1>13 DEF rs, q

(* a step that moves events forward, never past an older one *)
LEMMA OrderMoves ==
  ASSUME PipelineOrdered, PipelineValid, UNCHANGED <<emitted, dropped, invalid>>,
         buffer' \in {buffer, <<>>}, batch' \in {batch, <<>>},
         RisingEntries(outbox'), RisingRecords(journal'),
         EventsOf(outbox') \cup Journaled(journal')
           \subseteq EventsOf(outbox) \cup Journaled(journal) \cup (IF batch' = <<>> THEN Elems(batch) ELSE {})
  PROVE  PipelineOrdered' /\ PipelineValid'
<1>1. Elems(<<>>) = {} /\ Rising(<<>>)
  BY DEF Elems, Rising
<1>2. Elems(buffer') \subseteq Elems(buffer) /\ Rising(buffer')
  BY <1>1 DEF PipelineOrdered
<1>3. Elems(batch') \subseteq Elems(batch) /\ Rising(batch')
  BY <1>1 DEF PipelineOrdered
<1>4. Below(Elems(batch'), Elems(buffer'))
  BY <1>2, <1>3 DEF PipelineOrdered, Below
<1>5. Below(EventsOf(outbox') \cup Journaled(journal'), Elems(batch') \cup Elems(buffer'))
  <2>1. CASE batch' = <<>>
    <3>1. Elems(batch') = {}
      BY <1>1, <2>1
    <3>2. \A x \in EventsOf(outbox) \cup Journaled(journal) \cup Elems(batch) : \A y \in Elems(buffer) : x < y
      BY DEF PipelineOrdered, Below
    <3> QED
      BY <1>2, <2>1, <3>1, <3>2 DEF Below
  <2>2. CASE batch' # <<>>
    BY <1>2, <1>3, <2>2 DEF PipelineOrdered, Below
  <2> QED
    BY <2>1, <2>2
<1>6. Deliverable' = Deliverable
  BY DEF Deliverable
<1>7. PipelineOrdered'
  BY <1>2, <1>3, <1>4, <1>5 DEF PipelineOrdered, Rising, RisingEntries, RisingRecords, Below, Elems, EventsOf, Journaled
<1>8. Elems(batch') \cup EventsOf(outbox') \cup Journaled(journal') \subseteq Deliverable
  BY <1>3 DEF PipelineValid
<1>9. PipelineValid'
  BY <1>2, <1>6, <1>8 DEF PipelineValid, Elems, EventsOf, Journaled
<1> QED
  BY <1>7, <1>9

LEMMA OrderDrain == Safe /\ PipelineOrdered /\ PipelineValid /\ Drain => PipelineOrdered' /\ PipelineValid'
<1> SUFFICES ASSUME Safe, PipelineOrdered, PipelineValid, Drain PROVE PipelineOrdered' /\ PipelineValid'
  OBVIOUS
<1>0. buffer \in Seq(Nat) /\ Len(buffer) \in Nat /\ DOMAIN buffer = 1..Len(buffer)
  BY ElemsRange DEF Safe, Typed, TypeOK, TypeBuffer
<1> DEFINE S == {i \in DOMAIN buffer : buffer[i] \notin Invalid}
<1>1. PICK f \in InOrder(S) : batch' = [n \in DOMAIN f |-> buffer[f[n]]]
  BY DEF Drain
<1>2. /\ UNCHANGED <<emitted, dropped, outbox, journal>> /\ buffer' = <<>>
      /\ invalid' = invalid \cup (Elems(buffer) \cap Invalid)
  BY DEF Drain, journalVars
<1>3. S \in SUBSET (1..Len(buffer))
  BY <1>0
<1>4. PICK k \in Nat : f \in [1..k -> S] /\ \A a, b \in 1..k : a < b => f[a] < f[b]
  <2>1. \A P \in SUBSET (1..Len(buffer)) : \A g \in InOrder(P) : \E k \in Nat :
          g \in [1..k -> P] /\ \A a, b \in 1..k : a < b => g[a] < g[b]
    BY <1>0, InOrderListing
  <2> HIDE DEF S
  <2> QED
    BY <1>1, <1>3, <2>1
<1>5. f \in [1..k -> 1..Len(buffer)] /\ DOMAIN f = 1..k /\ \A i \in 1..k : buffer[f[i]] \notin Invalid
  BY <1>3, <1>4
<1> HIDE DEF S
<1> DEFINE b == batch'
<1>6. b = [n \in 1..k |-> buffer[f[n]]]
  BY <1>1, <1>5
<1> HIDE DEF b
<1>7. b \in Seq(Nat) /\ Len(b) = k
  <2>1. \A i \in 1..k : buffer[f[i]] \in Nat
    BY <1>0, <1>5, ElementOfSeq
  <2>2. b \in [1..k -> Nat]
    BY <1>6, <2>1
  <2> QED
    BY <2>2, ListIsSeq
<1>8. \A i \in 1..k : b[i] = buffer[f[i]]
  BY <1>6
<1>9. Rising(b)
  BY <1>0, <1>4, <1>5, <1>7, <1>8, ListedRising DEF PipelineOrdered
<1>10. Elems(b) \subseteq Elems(buffer) \ Invalid
  <2>1. \A e \in Elems(b) : \E i \in 1..k : e = b[i]
    BY <1>7, ElemsRange
  <2>2. \A i \in 1..k : buffer[f[i]] \in Elems(buffer)
    BY <1>0, <1>5, ElemsRange
  <2> QED
    BY <1>5, <1>8, <2>1, <2>2
<1>11. Elems(buffer') = {} /\ Rising(buffer')
  BY <1>2 DEF Elems, Rising
<1>12. Deliverable' = Deliverable
  BY <1>2 DEF Deliverable
<1>13. PipelineOrdered'
  <2>1. Rising(batch)' /\ Rising(buffer)' /\ Elems(buffer)' = {} /\ Elems(batch)' \subseteq Elems(buffer)
    BY <1>9, <1>10, <1>11 DEF b, Rising, Elems
  <2>2. RisingEntries(outbox)' /\ RisingRecords(journal)' /\ UNCHANGED <<EventsOf(outbox), Journaled(journal)>>
    BY <1>2 DEF PipelineOrdered, RisingEntries, RisingRecords, EventsOf, Journaled, Elems
  <2> QED
    BY <2>1, <2>2 DEF PipelineOrdered, Below
<1>14. PipelineValid'
  <2>1. Elems(batch)' \subseteq Deliverable /\ Elems(buffer)' = {}
    BY <1>10, <1>11 DEF b, PipelineValid, Deliverable, Elems
  <2>2. UNCHANGED <<EventsOf(outbox), Journaled(journal)>>
    BY <1>2 DEF EventsOf, Journaled, Elems
  <2> QED
    BY <1>2, <1>12, <2>1, <2>2 DEF PipelineValid
<1> QED
  BY <1>13, <1>14

LEMMA OrderJournalBatch ==
  PipelineAssumption /\ Safe /\ PipelineOrdered /\ PipelineValid /\ JournalBatch => PipelineOrdered' /\ PipelineValid'
<1> SUFFICES ASSUME PipelineAssumption, Safe, PipelineOrdered, PipelineValid, JournalBatch
             PROVE  PipelineOrdered' /\ PipelineValid'
  OBVIOUS
<1>1. /\ UNCHANGED <<emitted, dropped, buffer, invalid>> /\ batch' = <<>> /\ batch # <<>>
      /\ journal' = WriteLines(journal, BatchRecords) /\ outbox' = Kept(Queued) /\ Typed
      /\ journal \in Seq(Lines) /\ batch \in Seq(Nat)
  BY DEF JournalBatch, bufferVars, Safe, Typed, FlusherShape, TypeOK, TypeJournal, TypeFlusher
<1> DEFINE rs == BatchRecords
           q == Queued
<1>2. /\ rs \in Seq(Lines) /\ RisingRecords(rs) /\ Journaled(rs) \subseteq Elems(batch)
      /\ q \in Seq(Entries) /\ RisingEntries(q)
      /\ EventsOf(q) \subseteq EventsOf(outbox) \cup Elems(batch)
      /\ Below(Journaled(journal), Journaled(rs))
  BY <1>1, BatchRising
<1>3. rs # <<>>
  <2>1. Len(rs) = Len(batch) /\ Len(batch) > 0
    BY <1>1, BatchLists, ElemsRange DEF Typed, TypeOK, TypeJournal
  <2> QED
    BY <1>2, <2>1, EmptySeq
<1> DEFINE j == journal'
<1>4. j = WriteLines(journal, rs) /\ outbox' = Kept(q)
  BY <1>1
<1> HIDE DEF rs, q, j
<1>5. RisingRecords(j) /\ Journaled(j) \subseteq Journaled(journal) \cup Journaled(rs)
  BY <1>1, <1>2, <1>3, <1>4, WriteRising DEF PipelineOrdered
<1>6. RisingEntries(outbox') /\ EventsOf(outbox') \subseteq EventsOf(q)
  <2>1. RisingEntries(Kept(q)) /\ Elems(Kept(q)) \subseteq Elems(q)
    BY <1>2, KeptRising, KeptElems
  <2> QED
    BY <1>4, <2>1, EventsOfElems
<1> QED
  BY <1>1, <1>2, <1>5, <1>6, OrderMoves DEF j

LEMMA OrderAppendFails ==
  Safe /\ PipelineOrdered /\ PipelineValid /\ AppendFails => PipelineOrdered' /\ PipelineValid'
<1> SUFFICES ASSUME Safe, PipelineOrdered, PipelineValid, AppendFails PROVE PipelineOrdered' /\ PipelineValid'
  OBVIOUS
<1>1. /\ UNCHANGED <<emitted, dropped, buffer, invalid, outbox>> /\ batch' = <<>> /\ Typed
      /\ journal \in Seq(Lines) /\ batch \in Seq(Nat)
  BY DEF AppendFails, bufferVars, Safe, Typed, TypeOK, TypeJournal, TypeFlusher
<1>2. PICK n \in 0..Len(batch), torn \in BOOLEAN : journal' = WritePart(journal, BatchRecords, n, torn)
  BY DEF AppendFails
<1> DEFINE rs == BatchRecords
           j == journal'
<1>3. /\ rs \in Seq(Lines) /\ RisingRecords(rs) /\ Journaled(rs) \subseteq Elems(batch)
      /\ Below(Journaled(journal), Journaled(rs))
  BY <1>1, BatchRising
<1>4. Len(rs) = Len(batch)
  BY <1>1, BatchLists DEF Typed, TypeOK, TypeJournal
<1>5. j = WritePart(journal, rs, n, torn) /\ n \in 0..Len(rs)
  BY <1>2, <1>4
<1> HIDE DEF rs, j
<1>6. RisingRecords(j) /\ Journaled(j) \subseteq Journaled(journal) \cup Journaled(rs)
  BY <1>1, <1>3, <1>5, PartRising DEF PipelineOrdered
<1>7. RisingEntries(outbox') /\ EventsOf(outbox') = EventsOf(outbox)
  BY <1>1 DEF PipelineOrdered
<1> QED
  BY <1>1, <1>3, <1>6, <1>7, OrderMoves DEF j

LEMMA OrderAck ==
  Safe /\ PipelineOrdered /\ PipelineValid /\ (Ack \/ AckFails) => PipelineOrdered' /\ PipelineValid'
<1> SUFFICES ASSUME Safe, PipelineOrdered, PipelineValid, Ack \/ AckFails PROVE PipelineOrdered' /\ PipelineValid'
  OBVIOUS
<1>1. UNCHANGED <<emitted, dropped, buffer, invalid, outbox, batch>> /\ journal \in Seq(Lines)
  BY DEF Ack, AckFails, bufferVars, Safe, Typed, TypeOK, TypeJournal
<1> DEFINE j == journal'
<1>2. RisingRecords(j) /\ Journaled(j) \subseteq Journaled(journal)
  <2>1. CASE Ack
    <3> DEFINE line == <<AckRecord(HighestSeq)>>
    <3>1. chunk # <<>> /\ chunk \in Seq(Entries)
      BY <2>1 DEF Ack, Safe, Typed, TypeOK, TypeFlusher, FlusherShape
    <3>2. line \in Seq(Lines) /\ Elems(line) = {AckRecord(HighestSeq)} /\ Len(line) = 1
      <4>1. Len(chunk) \in Nat /\ Len(chunk) > 0
        BY <3>1, ElemsRange
      <4>2. chunk[Len(chunk)] \in Entries
        BY <3>1, <4>1, ElementOfSeq
      <4>3. AckRecord(HighestSeq) \in Lines
        BY <4>2 DEF HighestSeq, Entries, AckRecord, Lines
      <4> QED
        BY <4>3 DEF Elems
    <3>3. j = WriteLines(journal, line)
      BY <2>1 DEF Ack
    <3>4. line # <<>>
      OBVIOUS
    <3> HIDE DEF line, j
    <3>5. Journaled(line) = {}
      BY <3>2 DEF Journaled, AckRecord
    <3>6. RisingRecords(line) /\ Below(Journaled(journal), Journaled(line))
      BY <3>2, <3>5 DEF RisingRecords, Below
    <3> QED
      BY <1>1, <3>2, <3>3, <3>4, <3>5, <3>6, WriteRising DEF PipelineOrdered
  <2>2. CASE AckFails
    <3>1. PICK torn \in BOOLEAN : j = WritePart(journal, <<>>, 0, torn)
      BY <2>2 DEF AckFails
    <3> DEFINE line == <<>>
    <3>2. line \in Seq(Lines) /\ 0 \in 0..Len(line) /\ Elems(line) = {} /\ Len(line) = 0
      BY EmptySeq DEF Elems
    <3>3. j = WritePart(journal, line, 0, torn)
      BY <3>1
    <3> HIDE DEF line, j
    <3>5. Journaled(line) = {}
      BY <3>2 DEF Journaled
    <3>6. RisingRecords(line) /\ Below(Journaled(journal), Journaled(line))
      BY <3>2, <3>5 DEF RisingRecords, Below
    <3> QED
      BY <1>1, <3>2, <3>3, <3>5, <3>6, PartRising DEF PipelineOrdered
  <2> QED
    BY <2>1, <2>2
<1> HIDE DEF j
<1>3. RisingEntries(outbox') /\ EventsOf(outbox') = EventsOf(outbox)
  BY <1>1 DEF PipelineOrdered
<1> QED
  BY <1>1, <1>2, <1>3, OrderMoves DEF j

LEMMA OrderSendSucceeds ==
  Safe /\ PipelineOrdered /\ PipelineValid /\ SendSucceeds => PipelineOrdered' /\ PipelineValid'
<1> SUFFICES ASSUME Safe, PipelineOrdered, PipelineValid, SendSucceeds PROVE PipelineOrdered' /\ PipelineValid'
  OBVIOUS
<1>1. UNCHANGED <<emitted, dropped, buffer, invalid, batch, journal>> /\ pc = "sending" /\ outbox' = Unsent
  BY DEF SendSucceeds, bufferVars, journalVars
<1> DEFINE u == Unsent
<1>2. /\ chunk # <<>> /\ Len(chunk) \in 1..Len(outbox)
      /\ u \in Seq(Entries) /\ Len(u) = Len(outbox) - Len(chunk)
      /\ \A i \in 1..Len(u) : u[i] = outbox[Len(chunk) + i]
      /\ outbox \in Seq(Entries) /\ Len(outbox) \in Nat
  BY <1>1, TypeUnsent, LenProperties DEF Safe, Typed, TypeOK, TypeFlusher
<1> HIDE DEF u
<1>3. \A i \in 1..Len(u) : Len(chunk) + i \in 1..Len(outbox)
  BY <1>2
<1>4. RisingEntries(u)
  <2> SUFFICES ASSUME NEW m \in 1..Len(u), NEW n \in 1..Len(u), m < n PROVE u[m].ev < u[n].ev
    BY DEF RisingEntries
  <2>1. Len(chunk) + m < Len(chunk) + n
    BY <1>2
  <2> QED
    BY <1>2, <1>3, <2>1 DEF PipelineOrdered, RisingEntries
<1>5. Elems(u) \subseteq Elems(outbox)
  <2>1. \A x \in Elems(u) : \E i \in 1..Len(u) : x = u[i]
    BY <1>2, ElemsRange
  <2>2. \A i \in 1..Len(outbox) : outbox[i] \in Elems(outbox)
    BY <1>2, ElemsRange
  <2> QED
    BY <1>2, <1>3, <2>1, <2>2
<1>6. outbox' = u
  BY <1>1 DEF u
<1>7. /\ RisingEntries(outbox')
      /\ EventsOf(outbox') \subseteq EventsOf(outbox)
      /\ RisingRecords(journal')
      /\ Journaled(journal') = Journaled(journal)
  BY <1>1, <1>4, <1>5, <1>6, EventsOfElems DEF PipelineOrdered
<1> QED
  BY <1>1, <1>7, OrderMoves

LEMMA OrderCrash ==
  Safe /\ PipelineOrdered /\ PipelineValid /\ (Crash \/ CrashInWrite) => PipelineOrdered' /\ PipelineValid'
<1> SUFFICES ASSUME Safe, PipelineOrdered, PipelineValid, Crash \/ CrashInWrite PROVE PipelineOrdered' /\ PipelineValid'
  OBVIOUS
<1>0. /\ journal \in Seq(Lines) /\ Len(journal) \in Nat /\ synced \in Nat /\ Typed
      /\ batch \in Seq(Nat) /\ Len(batch) \in Nat
  BY LenProperties DEF Safe, Typed, TypeOK, TypeJournal, TypeFlusher
<1>1. \E j : DieWith(j) /\ RisingRecords(j) /\ Journaled(j) \subseteq Journaled(journal) \cup Elems(batch)
  <2>1. CASE Crash
    <3>1. PICK n \in synced..Len(journal) : DieWith(SubSeq(journal, 1, n))
      BY <2>1 DEF Crash
    <3>2. n \in 0..Len(journal)
      BY <1>0
    <3> DEFINE j == SubSeq(journal, 1, n)
    <3>3. DieWith(j)
      BY <3>1
    <3>4. RisingRecords(j) /\ Journaled(j) \subseteq Journaled(journal)
      BY <1>0, <3>2, PrefixRising DEF PipelineOrdered
    <3> HIDE DEF j
    <3> QED
      BY <3>3, <3>4
  <2>2. CASE CrashInWrite
    <3>1. PICK n \in 0..(Len(batch) - 1), torn \in BOOLEAN : DieWith(WritePart(journal, BatchRecords, n, torn))
      BY <2>2 DEF CrashInWrite
    <3> DEFINE rs == BatchRecords
    <3>2. /\ rs \in Seq(Lines) /\ RisingRecords(rs) /\ Journaled(rs) \subseteq Elems(batch)
          /\ Below(Journaled(journal), Journaled(rs))
      BY <1>0, BatchRising
    <3>3. Len(rs) = Len(batch)
      BY <1>0, BatchLists DEF Typed, TypeOK, TypeJournal
    <3>4. DieWith(WritePart(journal, rs, n, torn)) /\ n \in 0..Len(rs)
      BY <1>0, <3>1, <3>3
    <3> HIDE DEF rs
    <3> DEFINE j == WritePart(journal, rs, n, torn)
    <3>5. DieWith(j)
      BY <3>4
    <3>6. RisingRecords(j) /\ Journaled(j) \subseteq Journaled(journal) \cup Journaled(rs)
      BY <1>0, <3>2, <3>4, PartRising DEF PipelineOrdered
    <3> HIDE DEF j
    <3> QED
      BY <3>2, <3>5, <3>6
  <2> QED
    BY <2>1, <2>2
<1>2. PICK j : DieWith(j) /\ RisingRecords(j) /\ Journaled(j) \subseteq Journaled(journal) \cup Elems(batch)
  BY <1>1
<1>3. /\ UNCHANGED <<emitted, dropped, invalid>> /\ buffer' = <<>> /\ batch' = <<>> /\ outbox' = <<>> /\ journal' = j
  BY <1>2 DEF DieWith
<1>4. EventsOf(outbox') = {} /\ RisingEntries(outbox')
  BY <1>3 DEF EventsOf, RisingEntries
<1> QED
  BY <1>2, <1>3, <1>4, OrderMoves

LEMMA OrderRestart ==
  PipelineAssumption /\ Safe /\ PipelineOrdered /\ PipelineValid /\ Restart => PipelineOrdered' /\ PipelineValid'
<1> SUFFICES ASSUME PipelineAssumption, Safe, PipelineOrdered, PipelineValid, Restart
             PROVE  PipelineOrdered' /\ PipelineValid'
  OBVIOUS
<1>1. UNCHANGED <<emitted, dropped, invalid, buffer, batch>>
  BY DEF Restart, bufferVars
<1>2. CASE ContinueJournal
  <2>1. journal' = journal /\ outbox' = outbox
    BY <1>2 DEF ContinueJournal
  <2>2. /\ RisingEntries(outbox') /\ RisingRecords(journal')
        /\ EventsOf(outbox') = EventsOf(outbox) /\ Journaled(journal') = Journaled(journal)
    BY <2>1 DEF PipelineOrdered
  <2> QED
    BY <1>1, <2>2, OrderMoves
<1>3. CASE ReplayJournal
  <2>0. journal \in Seq(Lines) /\ DOMAIN journal = 1..Len(journal)
    BY ElemsRange DEF Safe, Typed, TypeOK, TypeJournal
  <2>1. PICK k \in Nat : \E f \in [1..k -> Unacked(journal)] : \E replay \in Seq(Entries) :
           /\ journal' \in Seq(Lines) /\ Len(journal') = k
           /\ Len(replay) = k
           /\ \A i \in 1..k : /\ replay[i] = [seq |-> i, ev |-> journal[f[i]].ev]
                              /\ journal'[i] = EventRecord(i, journal[f[i]].ev)
           /\ outbox' = Kept(replay)
           /\ shelved' = shelved \cup Evicted(replay)
           /\ synced' = k /\ nextSeq' = k + 1
           /\ \A x, y \in 1..k : x < y => f[x] < f[y]
    <3>1. Typed /\ PipelineAssumption /\ ReplayJournal
      BY <1>3 DEF Safe
    <3> QED
      BY <3>1, RestartLists
  <2>2. PICK f \in [1..k -> Unacked(journal)] : \E replay \in Seq(Entries) :
           /\ journal' \in Seq(Lines) /\ Len(journal') = k
           /\ Len(replay) = k
           /\ \A i \in 1..k : /\ replay[i] = [seq |-> i, ev |-> journal[f[i]].ev]
                              /\ journal'[i] = EventRecord(i, journal[f[i]].ev)
           /\ outbox' = Kept(replay)
           /\ shelved' = shelved \cup Evicted(replay)
           /\ synced' = k /\ nextSeq' = k + 1
           /\ \A x, y \in 1..k : x < y => f[x] < f[y]
    BY <2>1
  <2>3. PICK replay \in Seq(Entries) :
           /\ journal' \in Seq(Lines) /\ Len(journal') = k
           /\ Len(replay) = k
           /\ \A i \in 1..k : /\ replay[i] = [seq |-> i, ev |-> journal[f[i]].ev]
                              /\ journal'[i] = EventRecord(i, journal[f[i]].ev)
           /\ outbox' = Kept(replay)
           /\ shelved' = shelved \cup Evicted(replay)
           /\ synced' = k /\ nextSeq' = k + 1
           /\ \A x, y \in 1..k : x < y => f[x] < f[y]
    BY <2>2
  <2> DEFINE j == journal'
  <2>4. j \in Seq(Lines) /\ Len(j) = k /\ \A i \in 1..k : j[i] = EventRecord(i, journal[f[i]].ev)
    BY <2>3
  <2> HIDE DEF j
  <2>5. ASSUME NEW i \in 1..k
        PROVE  f[i] \in 1..Len(journal) /\ journal[f[i]].k = "e" /\ journal[f[i]].ev \in Journaled(journal)
    <3>1. f[i] \in DOMAIN journal /\ journal[f[i]].k = "e"
      BY DEF Unacked
    <3> QED
      BY <2>0, <3>1 DEF Journaled, Elems
  <2>6. ASSUME NEW i \in 1..k PROVE j[i].ev = journal[f[i]].ev /\ replay[i].ev = journal[f[i]].ev
    <3>1. j[i] = EventRecord(i, journal[f[i]].ev) /\ replay[i] = [seq |-> i, ev |-> journal[f[i]].ev]
      BY <2>3, <2>4
    <3>2. /\ EventRecord(i, journal[f[i]].ev).ev = journal[f[i]].ev
          /\ [seq |-> i, ev |-> journal[f[i]].ev].ev = journal[f[i]].ev
      BY DEF EventRecord
    <3> QED
      BY <3>1, <3>2
  <2>7. ASSUME NEW m \in 1..k, NEW n \in 1..k, m < n PROVE journal[f[m]].ev < journal[f[n]].ev
    <3>1. f[m] < f[n]
      BY <2>3, <2>7
    <3> QED
      BY <2>5, <3>1 DEF PipelineOrdered, RisingRecords
  <2>8. RisingRecords(j) /\ RisingEntries(replay)
    BY <2>3, <2>4, <2>6, <2>7 DEF RisingRecords, RisingEntries
  <2>9. Journaled(j) \subseteq Journaled(journal)
    <3>1. \A r \in Elems(j) : \E i \in 1..k : r = j[i]
      BY <2>4, ElemsRange
    <3>2. \A x \in Journaled(j) : \E r \in Elems(j) : x = r.ev
      BY DEF Journaled
    <3> QED
      BY <2>5, <2>6, <3>1, <3>2, SMTT(30), ZenonT(60)
  <2>10. RisingEntries(outbox') /\ EventsOf(outbox') \subseteq Journaled(journal)
    <3>1. RisingEntries(Kept(replay)) /\ Elems(Kept(replay)) \subseteq Elems(replay)
      BY <2>8, KeptRising, KeptElems
    <3>2. \A x \in Elems(replay) : \E i \in 1..k : x = replay[i]
      BY <2>3, ElemsRange
    <3>3. EventsOf(Kept(replay)) \subseteq Journaled(journal)
      BY <2>5, <2>6, <3>1, <3>2, EventsOfElems
    <3> QED
      BY <2>3, <3>1, <3>3
  <2> QED
    BY <1>1, <2>8, <2>9, <2>10, OrderMoves DEF j
<1> QED
  BY <1>2, <1>3 DEF Restart

LEMMA OrderStep ==
  PipelineAssumption /\ Safe /\ PipelineOrdered /\ PipelineValid /\ [Next]_vars => PipelineOrdered' /\ PipelineValid'
<1> SUFFICES ASSUME PipelineAssumption, Safe, PipelineOrdered, PipelineValid, [Next]_vars
             PROVE  PipelineOrdered' /\ PipelineValid'
  OBVIOUS
<1>1. CASE Flush \/ Close \/ FlushReturn \/ CloseJournal \/ Time \/ Server \/ LoopTest \/ Deliver \/ SendDone
           \/ SendChunk \/ AckAfterClose \/ SendFails \/ AppendAfterClose \/ UNCHANGED vars
  <2>1. UNCHANGED <<emitted, dropped, invalid, buffer, outbox, journal>> /\ batch' \in {batch, <<>>}
    BY <1>1 DEF Flush, Close, FlushCall, FlushReturn, CloseJournal, Time, BackoffExpires, IntervalElapses, Server,
         IngestEvent, IngestLate, LoopTest, Deliver, SendDone, SendChunk, AckAfterClose, SendFails, AppendAfterClose,
         vars, bufferVars, flusherVars, journalVars
  <2>2. /\ RisingEntries(outbox') /\ RisingRecords(journal')
        /\ EventsOf(outbox') = EventsOf(outbox) /\ Journaled(journal') = Journaled(journal)
    BY <2>1 DEF PipelineOrdered
  <2> QED
    BY <2>1, <2>2, OrderMoves
<1> QED
  BY <1>1, OrderOffer, OrderDrain, OrderJournalBatch, OrderAppendFails, OrderAck, OrderSendSucceeds, OrderCrash,
     OrderRestart DEF Next, Application, Flusher, Faults

-----------------------------------------------------------------------------
(* What the ingest API is asked for, and in which order. *)

(* a request is sent only behind everything older than its events *)
LEMMA ChunkPrefixed ==
  ASSUME PipelineAssumption, Safe, NothingVanishes, BatchInAppend, PipelineOrdered, PipelineValid, SendChunk
  PROVE  /\ Elems(request') \subseteq Deliverable
         /\ shelved \cup crashLost = {} => Prefixed(request', Answered)
<1> DEFINE k == IF Len(outbox) < BatchMax THEN Len(outbox) ELSE BatchMax
           r == request'
<1>1. outbox \in Seq(Entries) /\ Len(outbox) \in Nat /\ Len(outbox) > 0 /\ DOMAIN outbox = 1..Len(outbox)
  BY ElemsRange DEF Safe, Typed, TypeOK, TypeFlusher, SendChunk
<1>2. k \in 1..Len(outbox) /\ k \in 0..Len(outbox) /\ k \in Nat
  BY <1>1 DEF PipelineAssumption
<1>3. chunk' = SubSeq(outbox, 1, k)
  BY DEF SendChunk
<1>4. chunk' \in Seq(Entries) /\ Len(chunk') = k /\ \A i \in 1..k : chunk'[i] = outbox[i]
  BY <1>1, <1>2, <1>3, Prefix
<1>5. DOMAIN chunk' = 1..k
  BY <1>4, LenProperties
<1>6. r = [i \in 1..k |-> outbox[i].ev]
  <2>1. r = [i \in DOMAIN chunk' |-> chunk'[i].ev]
    BY DEF SendChunk
  <2> QED
    BY <1>4, <1>5, <2>1
<1> HIDE DEF r, k
<1>7. \A i \in 1..Len(outbox) : outbox[i].ev \in EventsOf(outbox) /\ outbox[i].ev \in Nat
  <2>1. \A i \in 1..Len(outbox) : outbox[i] \in Entries
    BY <1>1, ElementOfSeq
  <2> QED
    BY <1>1, <2>1 DEF EventsOf, Entries
<1>8. 1..k \subseteq 1..Len(outbox)
  BY <1>1, <1>2
<1>9. r \in Seq(Nat) /\ Len(r) = k
  <2>1. r \in [1..k -> Nat]
    BY <1>6, <1>7, <1>8
  <2> QED
    BY <1>2, <2>1, ListIsSeq
<1>10. \A i \in 1..k : r[i] = outbox[i].ev
  BY <1>6
<1>11. Elems(r) \subseteq Deliverable
  <2>1. \A e \in Elems(r) : \E i \in 1..k : e = r[i]
    BY <1>9, ElemsRange
  <2> QED
    BY <1>7, <1>8, <1>10, <2>1 DEF PipelineValid
<1>12. ASSUME shelved \cup crashLost = {}, NEW m \in 1..k, NEW d \in 1..(r[m] - 1)
       PROVE  d \in Answered \/ \E i \in 1..(m - 1) : d = r[i]
  <2>0. emitted \in Nat /\ m \in 1..Len(outbox)
    BY <1>8 DEF Safe, Typed, TypeOK, TypeBuffer
  <2>1. r[m] = outbox[m].ev /\ r[m] \in Deliverable /\ r[m] \in EventsOf(outbox) /\ r[m] \in Nat
    BY <1>7, <1>10, <2>0 DEF PipelineValid
  <2>2. r[m] \in 1..emitted
    BY <2>1 DEF Deliverable
  <2>3. d \in 1..emitted /\ d < r[m]
    BY <2>0, <2>1, <2>2
  <2>4. app # "down" /\ batch = <<>>
    BY DEF SendChunk, Safe, Typed, FlusherShape, BatchInAppend
  <2>5. Elems(batch) = {}
    BY <2>4 DEF Elems
  <2>6. d \notin Elems(buffer)
    <3> SUFFICES ASSUME d \in Elems(buffer) PROVE FALSE
      OBVIOUS
    <3>1. r[m] < d
      BY <2>1 DEF PipelineOrdered, Below
    <3> QED
      BY <2>1, <2>3, <3>1
  <2>7. d \in Answered \/ d \in EventsOf(outbox)
    BY <1>12, <2>3, <2>4, <2>5, <2>6 DEF NothingVanishes, Accepted, Answered
  <2>8. ASSUME d \in EventsOf(outbox) PROVE \E i \in 1..(m - 1) : d = r[i]
    <3>1. PICK i \in 1..Len(outbox) : d = outbox[i].ev
      BY <1>1, <2>8 DEF EventsOf
    <3>2. ~(m < i) /\ m # i
      BY <1>7, <2>0, <2>1, <2>3, <3>1, SMTT(30), ZenonT(60) DEF PipelineOrdered, RisingEntries
    <3>3. i \in 1..(m - 1) /\ i \in 1..k
      BY <1>1, <1>2, <3>2
    <3> QED
      BY <1>10, <3>1, <3>3
  <2> QED
    BY <2>7, <2>8
<1>13. shelved \cup crashLost = {} => Prefixed(r, Answered)
  BY <1>9, <1>12 DEF Prefixed
<1> QED
  BY <1>11, <1>13 DEF r

(* an event ingested in its turn leaves the chain complete and in order *)
LEMMA IngestInTurn ==
  ASSUME TypeServer, PipelineValid, rejected \subseteq Refused,
         NEW r \in Seq(Nat), r # <<>>, Elems(r) \subseteq Deliverable,
         Ingest(Head(r)), UNCHANGED <<dropped, invalid>>
  PROVE  /\ Answered \subseteq Answered' /\ rejected' \subseteq Refused
         /\ Tail(r) \in Seq(Nat) /\ Elems(Tail(r)) \subseteq Elems(r)
         /\ Prefixed(r, Answered) /\ ChainComplete /\ Rising(chain) => /\ ChainComplete' /\ Rising(chain')
                                                            /\ Prefixed(Tail(r), Answered')
<1> DEFINE e == Head(r)
           t == Tail(r)
<1>1. Len(r) \in Nat /\ Len(r) > 0 /\ r \in Seq(Nat)
  BY ElemsRange
<1>2. e = r[1] /\ e \in Nat /\ t \in Seq(Nat) /\ Len(t) = Len(r) - 1 /\ \A i \in 1..Len(t) : t[i] = r[i + 1]
  BY <1>1, HeadTailProperties
<1>3. Elems(t) \subseteq Elems(r)
  BY ElemsTail
<1>4. Settled' = Settled \cup {e} /\ chain' \in Seq(Nat)
  BY <1>2, IngestEffect
<1>5. Answered' = Answered \cup {e}
  BY <1>4 DEF Answered
<1>6. rejected' \subseteq Refused
  BY DEF Ingest
<1>7. e \in Deliverable
  <2>1. 1 \in 1..Len(r)
    BY <1>1
  <2> QED
    BY <1>1, <1>2, <2>1, ElemsRange
<1>8. chain' = chain \/ (chain' = Append(chain, e) /\ e \notin Refused /\ e \notin Elems(chain))
  BY DEF Ingest
<1> HIDE DEF e, t
<1>9. ASSUME Prefixed(r, Answered), ChainComplete, Rising(chain)
      PROVE  ChainComplete' /\ Rising(chain') /\ Prefixed(t, Answered')
  <2>0. chain \in Seq(Nat) /\ Len(chain) \in Nat /\ \A i \in 1..Len(chain) : chain[i] \in Nat
    BY LenProperties, ElementOfSeq DEF TypeServer
  <2>1. \A d \in 1..(e - 1) : d \in Answered
    BY <1>1, <1>2, <1>9, SMTT(30), ZenonT(60) DEF Prefixed
  <2>2. ASSUME NEW m \in 1..Len(t), NEW d \in 1..(t[m] - 1)
        PROVE  d \in Answered' \/ \E i \in 1..(m - 1) : d = t[i]
    <3>1. m + 1 \in 1..Len(r) /\ t[m] = r[m + 1] /\ m \in Nat
      BY <1>1, <1>2
    <3>2. d \in Answered \/ \E i \in 1..((m + 1) - 1) : d = r[i]
      BY <1>9, <3>1 DEF Prefixed
    <3>3. CASE d \in Answered
      BY <1>5, <3>3
    <3>4. ASSUME NEW i \in 1..((m + 1) - 1), d = r[i] PROVE d \in Answered' \/ \E x \in 1..(m - 1) : d = t[x]
      <4>1. CASE i = 1
        BY <1>2, <1>5, <3>4, <4>1
      <4>2. CASE i # 1
        <5>1. i - 1 \in 1..(m - 1) /\ i - 1 \in 1..Len(t) /\ (i - 1) + 1 = i
          BY <1>1, <1>2, <3>1, <4>2
        <5>2. t[i - 1] = r[i]
          BY <1>2, <5>1
        <5> QED
          BY <3>4, <5>1, <5>2
      <4> QED
        BY <4>1, <4>2
    <3> QED
      BY <3>2, <3>3, <3>4
  <2>3. Prefixed(t, Answered')
    <3>1. \A m \in 1..Len(t) : \A d \in 1..(t[m] - 1) : d \in Answered' \/ \E i \in 1..(m - 1) : d = t[i]
      BY <2>2
    <3> QED
      BY <3>1 DEF Prefixed
  <2>4. CASE chain' = chain
    <3>1. \A x \in Elems(chain) : \A d \in 1..(x - 1) : d \in Answered'
      BY <1>5, <1>9 DEF ChainComplete
    <3>2. Elems(chain)' = Elems(chain)
      BY <2>4 DEF Elems
    <3>3. ChainComplete'
      BY <3>1, <3>2 DEF ChainComplete
    <3> QED
      BY <1>9, <2>3, <2>4, <3>3
  <2>5. CASE chain' = Append(chain, e) /\ e \notin Refused /\ e \notin Elems(chain)
    <3> DEFINE c == chain'
    <3>1. /\ c \in Seq(Nat) /\ Len(c) = Len(chain) + 1
          /\ (\A i \in 1..Len(chain) : c[i] = chain[i]) /\ c[Len(chain) + 1] = e
      BY <1>2, <2>0, <2>5, AppendProperties
    <3> HIDE DEF c
    <3>2. ASSUME NEW x \in Elems(chain) PROVE x < e
      <4>1. x \in Nat /\ x # e
        BY <2>0, <2>5, <3>2, ElemsRange
      <4>2. ASSUME x > e PROVE FALSE
        <5>1. e \in 1..(x - 1)
          BY <1>2, <1>7, <4>1, <4>2 DEF Deliverable
        <5>2. e \in Answered
          BY <1>9, <5>1 DEF ChainComplete
        <5> QED
          BY <1>7, <2>5, <5>2 DEF Answered, Settled, Deliverable, PipelineValid
      <4> QED
        BY <1>2, <4>1, <4>2
    <3>3. \A i \in 1..Len(c) : i \in 1..Len(chain) \/ (i = Len(chain) + 1 /\ c[i] = e)
      BY <2>0, <3>1
    <3>4. \A i \in 1..Len(chain) : chain[i] \in Elems(chain)
      BY <2>0, ElemsRange
    <3>5. Rising(c)
      <4> SUFFICES ASSUME NEW m \in 1..Len(c), NEW n \in 1..Len(c), m < n PROVE c[m] < c[n]
        BY DEF Rising
      <4>1. m \in 1..Len(chain) /\ c[m] = chain[m]
        <5>1. \A a \in Nat : \A x, y \in 1..(a + 1) : x < y => x \in 1..a
          OBVIOUS
        <5>2. m \in 1..(Len(chain) + 1) /\ n \in 1..(Len(chain) + 1)
          BY <3>1
        <5>3. m \in 1..Len(chain)
          BY <2>0, <5>1, <5>2
        <5> QED
          BY <3>1, <5>3
      <4>2. CASE n \in 1..Len(chain)
        <5>1. chain[m] < chain[n]
          BY <1>9, <4>1, <4>2 DEF Rising
        <5> QED
          BY <3>1, <4>1, <4>2, <5>1
      <4>3. CASE c[n] = e
        BY <3>2, <3>4, <4>1, <4>3
      <4> QED
        BY <3>3, <4>2, <4>3
    <3>6. Elems(c) \subseteq Elems(chain) \cup {e}
      <4>1. \A x \in Elems(c) : \E i \in 1..Len(c) : x = c[i]
        BY <3>1, ElemsRange
      <4> QED
        BY <3>1, <3>3, <3>4, <4>1
    <3>7. ChainComplete'
      <4>1. \A x \in Elems(c) : \A d \in 1..(x - 1) : d \in Answered
        BY <1>9, <2>1, <3>6 DEF ChainComplete
      <4>2. \A x \in Elems(c) : \A d \in 1..(x - 1) : d \in Answered'
        BY <1>5, <4>1
      <4>3. Elems(chain)' = Elems(c)
        BY DEF c, Elems
      <4> QED
        BY <4>2, <4>3 DEF ChainComplete
    <3> QED
      BY <2>3, <3>5, <3>7 DEF c
  <2> QED
    BY <1>8, <2>4, <2>5
<1> QED
  BY <1>2, <1>3, <1>5, <1>6, <1>9 DEF t

(* a step that asks for nothing new *)
LEMMA RequestsKept ==
  ASSUME RequestsValid, InTurn, Deliverable \subseteq Deliverable', UNCHANGED <<chain, rejected>>,
         dropped \subseteq dropped', invalid \subseteq invalid',
         shelved \subseteq shelved', crashLost \subseteq crashLost',
         request' \in {request, <<>>}, late' \subseteq late \cup {request}
  PROVE  RequestsValid' /\ InTurn'
<1>1. Settled' = Settled /\ Answered \subseteq Answered'
  BY DEF Answered, Settled
<1>2. ASSUME NEW r \in {request'} \cup late' PROVE r \in {request} \cup late \/ r = <<>>
  OBVIOUS
<1>3. Elems(<<>>) = {} /\ \A done : Prefixed(<<>>, done)
  BY DEF Elems, Prefixed
<1>4. \A r \in {request'} \cup late' : Elems(r) \subseteq Deliverable'
  BY <1>2, <1>3 DEF RequestsValid
<1>5. RequestsValid'
  BY <1>4 DEF RequestsValid, Elems
<1>6. ASSUME shelved' \cup crashLost' = {} PROVE (RequestsPrefixed /\ ChainComplete /\ Rising(chain))'
  <2>1. shelved \cup crashLost = {}
    BY <1>6
  <2>2. RequestsPrefixed /\ ChainComplete /\ Rising(chain)
    BY <2>1 DEF InTurn
  <2>3. \A r : Prefixed(r, Answered) => Prefixed(r, Answered')
    BY <1>1 DEF Prefixed
  <2>4. \A r \in {request'} \cup late' : Prefixed(r, Answered')
    BY <1>2, <1>3, <2>2, <2>3 DEF RequestsPrefixed
  <2>5. RequestsPrefixed'
    BY <2>4 DEF RequestsPrefixed, Prefixed
  <2>6. Elems(chain)' = Elems(chain)
    BY DEF Elems
  <2>7. ChainComplete'
    BY <1>1, <2>2, <2>6 DEF ChainComplete
  <2>8. Rising(chain)'
    BY <2>2 DEF Rising
  <2> QED
    BY <2>5, <2>7, <2>8
<1> QED
  BY <1>5, <1>6 DEF InTurn

LEMMA RequestsSent ==
  ASSUME PipelineAssumption, LossInv, PipelineOrdered, PipelineValid, RequestsValid, InTurn, SendChunk
  PROVE  RequestsValid' /\ InTurn'
<1>1. UNCHANGED <<emitted, dropped, invalid, shelved, crashLost, chain, rejected, late>>
  BY DEF SendChunk, bufferVars
<1>2. /\ Elems(request') \subseteq Deliverable
      /\ shelved \cup crashLost = {} => Prefixed(request', Answered)
  BY ChunkPrefixed DEF LossInv
<1>3. Deliverable' = Deliverable /\ Answered' = Answered
  BY <1>1 DEF Deliverable, Answered, Settled
<1>4. RequestsValid'
  <2>1. \A r \in {request'} \cup late' : Elems(r) \subseteq Deliverable'
    BY <1>1, <1>2, <1>3 DEF RequestsValid
  <2> QED
    BY <1>1, <2>1 DEF RequestsValid, Elems
<1>5. ASSUME shelved' \cup crashLost' = {} PROVE (RequestsPrefixed /\ ChainComplete /\ Rising(chain))'
  <2>1. shelved \cup crashLost = {}
    BY <1>1, <1>5
  <2>2. RequestsPrefixed /\ ChainComplete /\ Rising(chain)
    BY <2>1 DEF InTurn
  <2>3. \A r \in {request'} \cup late' : Prefixed(r, Answered')
    BY <1>1, <1>2, <1>3, <2>1, <2>2 DEF RequestsPrefixed
  <2>4. RequestsPrefixed'
    BY <2>3 DEF RequestsPrefixed, Prefixed
  <2>5. Elems(chain)' = Elems(chain)
    BY <1>1 DEF Elems
  <2>6. ChainComplete'
    BY <1>3, <2>2, <2>5 DEF ChainComplete
  <2>7. Rising(chain)'
    BY <1>1, <2>2 DEF Rising
  <2> QED
    BY <2>4, <2>6, <2>7
<1> QED
  BY <1>4, <1>5 DEF InTurn

LEMMA RequestsIngested ==
  ASSUME LossInv, PipelineValid, RequestsValid, InTurn, Server
  PROVE  RequestsValid' /\ InTurn'
<1>0. TypeServer
  BY DEF LossInv, Safe, Typed, TypeOK
<1>1. UNCHANGED <<emitted, dropped, invalid, shelved, crashLost>>
  BY DEF Server, IngestEvent, IngestLate, bufferVars, flusherVars
<1>2. PICK r \in {request} \cup late :
        /\ r # <<>> /\ Ingest(Head(r))
        /\ \A q \in {request'} \cup late' : q \in {request} \cup late \/ q = Tail(r)
  <2>1. CASE IngestEvent
    BY <2>1 DEF IngestEvent
  <2>2. CASE IngestLate
    <3>1. PICK r \in late : Ingest(Head(r)) /\ late' = (late \ {r}) \cup (IF Len(r) = 1 THEN {} ELSE {Tail(r)})
      BY <2>2 DEF IngestLate
    <3>2. r # <<>> /\ request' = request
      BY <1>0, <2>2 DEF IngestLate, TypeServer
    <3> QED
      BY <3>1, <3>2
  <2> QED
    BY <2>1, <2>2 DEF Server
<1>3. r \in Seq(Nat) /\ Elems(r) \subseteq Deliverable /\ rejected \subseteq Refused
  BY <1>0 DEF RequestsValid, TypeServer
<1>4. /\ Answered \subseteq Answered' /\ rejected' \subseteq Refused
      /\ Elems(Tail(r)) \subseteq Elems(r)
      /\ Prefixed(r, Answered) /\ ChainComplete /\ Rising(chain) => /\ ChainComplete' /\ Rising(chain')
                                                                    /\ Prefixed(Tail(r), Answered')
  BY <1>0, <1>1, <1>2, <1>3, IngestInTurn
<1>5. Deliverable' = Deliverable
  BY <1>1 DEF Deliverable
<1>6. RequestsValid'
  <2>1. \A q \in {request'} \cup late' : Elems(q) \subseteq Deliverable'
    BY <1>2, <1>3, <1>4, <1>5 DEF RequestsValid
  <2> QED
    BY <1>4, <2>1 DEF RequestsValid, Elems
<1>7. ASSUME shelved' \cup crashLost' = {} PROVE (RequestsPrefixed /\ ChainComplete /\ Rising(chain))'
  <2>1. RequestsPrefixed /\ ChainComplete /\ Rising(chain)
    BY <1>1, <1>7 DEF InTurn
  <2>2. ChainComplete' /\ Rising(chain') /\ Prefixed(Tail(r), Answered')
    BY <1>2, <1>4, <2>1 DEF RequestsPrefixed
  <2>3. \A q : Prefixed(q, Answered) => Prefixed(q, Answered')
    BY <1>4 DEF Prefixed
  <2>4. \A q \in {request'} \cup late' : Prefixed(q, Answered')
    BY <1>2, <2>1, <2>2, <2>3 DEF RequestsPrefixed
  <2>5. RequestsPrefixed'
    BY <2>4 DEF RequestsPrefixed, Prefixed
  <2> QED
    BY <2>2, <2>5 DEF Rising
<1> QED
  BY <1>6, <1>7 DEF InTurn

OrderInv == PipelineOrdered /\ PipelineValid /\ RequestsValid /\ InTurn

LEMMA OrderInvInit == Init => OrderInv
<1> SUFFICES ASSUME Init PROVE OrderInv
  OBVIOUS
<1>1. /\ buffer = <<>> /\ batch = <<>> /\ outbox = <<>> /\ journal = <<>> /\ request = <<>> /\ chain = <<>>
      /\ late = {} /\ dropped = {} /\ invalid = {} /\ rejected = {}
  BY DEF Init
<1>2. /\ Elems(<<>>) = {} /\ EventsOf(<<>>) = {} /\ Journaled(<<>>) = {} /\ Rising(<<>>)
      /\ RisingEntries(<<>>) /\ RisingRecords(<<>>) /\ \A done : Prefixed(<<>>, done)
  BY DEF Elems, EventsOf, Journaled, Rising, RisingEntries, RisingRecords, Prefixed
<1>3. PipelineOrdered /\ PipelineValid
  BY <1>1, <1>2 DEF PipelineOrdered, PipelineValid, Below
<1>4. RequestsValid /\ InTurn
  BY <1>1, <1>2 DEF RequestsValid, InTurn, RequestsPrefixed, ChainComplete
<1> QED
  BY <1>3, <1>4 DEF OrderInv

LEMMA OrderInvStep == PipelineAssumption /\ LossInv /\ OrderInv /\ [Next]_vars => OrderInv'
<1> SUFFICES ASSUME PipelineAssumption, LossInv, OrderInv, [Next]_vars PROVE OrderInv'
  OBVIOUS
<1>1. PipelineOrdered' /\ PipelineValid'
  BY OrderStep DEF LossInv, OrderInv
<1>2. RequestsValid' /\ InTurn'
  <2>1. CASE SendChunk
    BY <2>1, RequestsSent DEF OrderInv
  <2>2. CASE Server
    BY <2>2, RequestsIngested DEF OrderInv
  <2>3. CASE ~SendChunk /\ ~Server
    <3>0. CASE UNCHANGED vars
      <4>1. UNCHANGED <<emitted, dropped, invalid, shelved, crashLost, chain, rejected, request, late>>
        BY <3>0 DEF vars, bufferVars, flusherVars, serverVars
      <4>2. Deliverable' = Deliverable
        BY <4>1 DEF Deliverable
      <4> QED
        BY <4>1, <4>2, RequestsKept DEF OrderInv
    <3>1. CASE Next
      <4>1. /\ UNCHANGED <<chain, rejected>> /\ request' \in {request, <<>>} /\ late' \subseteq late \cup {request}
        <5>1. CASE SendFails \/ Crash \/ CrashInWrite
          BY <5>1 DEF SendFails, Crash, CrashInWrite, DieWith, Abandon
        <5>2. CASE ~(SendFails \/ Crash \/ CrashInWrite)
          <6>1. UNCHANGED serverVars
            BY <2>3, <3>1, <5>2
               DEF Next, Application, Offer, Flush, Close, FlushCall, FlushReturn, CloseJournal, Time, BackoffExpires,
               IntervalElapses, Flusher, LoopTest, Drain, JournalBatch, AppendAfterClose, Deliver, SendDone,
               SendSucceeds, Ack, AckAfterClose, Faults, AppendFails, AckFails, Restart
          <6> QED
            BY <6>1 DEF serverVars
        <5> QED
          BY <5>1, <5>2
      <4>2. \/ UNCHANGED <<emitted, dropped>>
            \/ emitted' = emitted + 1 /\ dropped' \subseteq dropped \cup {emitted + 1}
        BY <2>3, <3>1
           DEF Next, Application, Offer, Flush, Close, FlushCall, FlushReturn, CloseJournal, Time, BackoffExpires,
           IntervalElapses, Flusher, LoopTest, Drain, JournalBatch, AppendAfterClose, Deliver, SendDone,
           SendSucceeds, Ack, AckAfterClose, Faults, AppendFails, AckFails, Restart, SendFails, Crash, CrashInWrite,
           DieWith, bufferVars
      <4>3. /\ dropped \subseteq dropped' /\ invalid \subseteq invalid'
            /\ shelved \subseteq shelved' /\ crashLost \subseteq crashLost'
        BY <2>3, <3>1
           DEF Next, Application, Offer, Flush, Close, FlushCall, FlushReturn, CloseJournal, Time, BackoffExpires,
           IntervalElapses, Flusher, LoopTest, Drain, JournalBatch, AppendAfterClose, Deliver, SendDone,
           SendSucceeds, Ack, AckAfterClose, Faults, AppendFails, AckFails, Restart, SendFails, Crash, CrashInWrite,
           DieWith, bufferVars, flusherVars, ReplayJournal, ContinueJournal
      <4>4. Deliverable \subseteq Deliverable'
        BY <4>2, DeliverableGrows DEF LossInv, Safe, Typed, TypeOK
      <4> QED
        BY <4>1, <4>3, <4>4, RequestsKept DEF OrderInv
    <3> QED
      BY <3>0, <3>1
  <2> QED
    BY <2>1, <2>2, <2>3
<1> QED
  BY <1>1, <1>2 DEF OrderInv

(* As long as nothing was evicted or destroyed, the chain holds the events *)
(* in the order they were offered, once each, for every capacity and every *)
(* pattern of failures, abandoned requests, crashes and replays.           *)
THEOREM OrderCorrect == Spec => []IngestedInOrder
<1> DEFINE I == LossInv /\ OrderInv
<1>1. Init => I
  BY LossInvInit, OrderInvInit
<1>2. I /\ [Next]_vars => I'
  BY PipelineAssumption, LossInvStep, OrderInvStep
<1>3. I => IngestedInOrder
  <2> SUFFICES ASSUME I, shelved \cup crashLost = {} PROVE \A m, n \in DOMAIN chain : m < n => chain[m] < chain[n]
    BY DEF IngestedInOrder
  <2>1. Rising(chain)
    BY DEF OrderInv, InTurn
  <2>2. DOMAIN chain = 1..Len(chain)
    BY LenProperties DEF LossInv, Safe, Typed, TypeOK, TypeServer
  <2> QED
    BY <2>1, <2>2 DEF Rising
<1> HIDE DEF I
<1> QED
  BY <1>1, <1>2, <1>3, PTL DEF Spec

(* With recover_on_start, as long as no append or acknowledgement has      *)
(* failed, what is still owed would be replayed, and it arrives in order.  *)
THEOREM ReplayCorrect ==
  ASSUME RecoverOnStart \subseteq {TRUE}
  PROVE  Spec => [](errors = 0 => ReplayInOrder)
<1> DEFINE P == errors = 0 => OutboxIsReplayable
           Q == errors = 0 => ReplayInOrder
<1>1. Spec => []P
  BY QueueReplayable
<1>2. Spec => []IngestedInOrder
  BY OrderCorrect
<1>3. P /\ IngestedInOrder => Q
  BY DEF ReplayInOrder
<1> HIDE DEF P, Q
<1>4. Spec => []Q
  BY <1>1, <1>2, <1>3, PTL
<1> QED
  BY <1>4 DEF Q

=============================================================================
