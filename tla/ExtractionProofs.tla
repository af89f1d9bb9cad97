--------------------------- MODULE ExtractionProofs ---------------------------
(* Proofs about the extraction system.                                         *)
EXTENDS ExtractionSystem, FiniteSetTheorems, SequenceTheorems, WellFoundedInduction, TLAPS

-----------------------------------------------------------------------------
(* Induction, without a predicate as a parameter.                              *)

(* Every nonempty set of naturals has a least element.                         *)
LEMMA LeastOf ==
  ASSUME NEW T, T \subseteq Nat, T # {}
  PROVE  \E x \in T : \A y \in T : x <= y
<1> DEFINE R == OpToRel(<, Nat)
<1>1. IsWellFoundedOn(R, Nat)
  BY NatLessThanWellFounded
<1>2. \E x \in T : \A y \in T : ~(<<y, x>> \in R)
  <2> HIDE DEF R
  <2> QED BY <1>1, WFMin
<1>3. \A x, y \in Nat : <<y, x>> \in R <=> y < x
  BY DEF OpToRel
<1>4. \A x, y \in Nat : ~(y < x) => x <= y
  OBVIOUS
<1> HIDE DEF R
<1>5. PICK x \in T : \A y \in T : ~(<<y, x>> \in R)
  BY <1>2
<1>6. \A y \in T : ~(y < x)
  BY <1>3, <1>5
<1> QED BY <1>4, <1>6

(* A set with 0 and the successor of each of its naturals has them all.        *)
LEMMA SetInduction ==
  ASSUME NEW S, 0 \in S, \A n \in Nat : n \in S => n + 1 \in S
  PROVE  Nat \subseteq S
<1> SUFFICES ASSUME ~(Nat \subseteq S) PROVE FALSE
  OBVIOUS
<1> DEFINE T == {n \in Nat : n \notin S}
<1>1. T # {} /\ T \subseteq Nat
  OBVIOUS
<1>2. PICK x \in T : \A y \in T : x <= y
  BY <1>1, LeastOf
<1>3. x # 0
  OBVIOUS
<1>4. x - 1 \in Nat /\ x - 1 \notin T
  BY <1>2, <1>3
<1> QED BY <1>4, <1>2

(* The recursion of a fold over the subsets of a finite set: one step takes an *)
(* element away and combines it with what is left.                             *)
IsFold(g, D, base, pick, step) ==
  \A s \in SUBSET D : g[s] = IF s = {} THEN base ELSE step[<<s, g[s \ {pick[s]}]>>]

(* It has a solution.                                                          *)
LEMMA FoldHasSolution ==
  ASSUME NEW D, IsFiniteSet(D), NEW V, NEW base \in V,
         NEW pick, \A s \in SUBSET D : s # {} => pick[s] \in s,
         NEW step \in [(SUBSET D) \X V -> V]
  PROVE  \E g \in [SUBSET D -> V] : IsFold(g, D, base, pick, step)
<1> DEFINE Sub(n) == {s \in SUBSET D : Cardinality(s) <= n}
           Solves(g, n) == \A s \in Sub(n) :
             g[s] = IF s = {} THEN base ELSE step[<<s, g[s \ {pick[s]}]>>]
           C == {n \in Nat : \E g \in [Sub(n) -> V] : Solves(g, n)}
<1>1. \A s \in SUBSET D : IsFiniteSet(s) /\ Cardinality(s) \in Nat
  BY FS_Subset, FS_CardinalityType
<1>2. \A s \in SUBSET D : Cardinality(s) = 0 <=> s = {}
  BY <1>1, FS_EmptySet
<1>3. \A s \in SUBSET D : s # {} =>
         s \ {pick[s]} \in SUBSET D /\ Cardinality(s \ {pick[s]}) = Cardinality(s) - 1
  BY <1>1, FS_RemoveElement
<1>4. 0 \in C
  <2> DEFINE g == [s \in Sub(0) |-> base]
  <2>1. g \in [Sub(0) -> V]
    OBVIOUS
  <2>2. \A s \in Sub(0) : s = {}
    BY <1>1, <1>2
  <2>3. Solves(g, 0)
    BY <2>2
  <2> QED BY <2>1, <2>3
<1>5. ASSUME NEW n \in Nat, n \in C PROVE n + 1 \in C
  <2>1. PICK g \in [Sub(n) -> V] : Solves(g, n)
    BY <1>5
  <2> DEFINE h == [s \in Sub(n + 1) |-> IF s = {} THEN base ELSE step[<<s, g[s \ {pick[s]}]>>]]
  <2>2. \A s \in Sub(n + 1) : s # {} => s \ {pick[s]} \in Sub(n)
    BY <1>1, <1>3
  <2>3. h \in [Sub(n + 1) -> V]
    <3>1. \A s \in Sub(n + 1) : s # {} => g[s \ {pick[s]}] \in V
      BY <2>1, <2>2
    <3>2. \A s \in Sub(n + 1) : s \in SUBSET D
      OBVIOUS
    <3> QED BY <3>1, <3>2
  <2>4. \A s \in Sub(n) : s \in Sub(n + 1) /\ h[s] = g[s]
    <3>1. \A s \in Sub(n) : s \in Sub(n + 1)
      BY <1>1
    <3> QED BY <2>1, <3>1
  <2>5. Solves(h, n + 1)
    <3> SUFFICES ASSUME NEW s \in Sub(n + 1)
                 PROVE  h[s] = IF s = {} THEN base ELSE step[<<s, h[s \ {pick[s]}]>>]
      OBVIOUS
    <3>1. s # {} => h[s \ {pick[s]}] = g[s \ {pick[s]}]
      BY <2>2, <2>4
    <3> QED BY <3>1
  <2> HIDE DEF h, Solves, Sub
  <2>6. \E f \in [Sub(n + 1) -> V] : Solves(f, n + 1)
    BY <2>3, <2>5
  <2> QED BY <2>6
<1>6. Nat \subseteq C
  <2>1. \A n \in Nat : n \in C => n + 1 \in C
    BY <1>5
  <2> HIDE DEF C
  <2> QED BY <1>4, <2>1, SetInduction
<1>7. Sub(Cardinality(D)) = SUBSET D
  <2>1. \A s \in SUBSET D : Cardinality(s) <= Cardinality(D)
    BY FS_Subset
  <2> QED BY <2>1
<1>8. Cardinality(D) \in C
  <2> HIDE DEF C
  <2>1. Cardinality(D) \in Nat
    BY FS_CardinalityType
  <2> QED BY <1>6, <2>1
<1> QED BY <1>7, <1>8 DEF IsFold

(* What holds of the empty set and of a set whenever it holds without its      *)
(* picked element holds of every subset of a finite set.                       *)
LEMMA FoldStaysIn ==
  ASSUME NEW D, IsFiniteSet(D), NEW V, NEW h, h[{}] \in V,
         NEW pick, \A s \in SUBSET D : s # {} => pick[s] \in s,
         \A s \in SUBSET D : s # {} /\ h[s \ {pick[s]}] \in V => h[s] \in V
  PROVE  \A s \in SUBSET D : h[s] \in V
<1> DEFINE C == {n \in Nat : \A s \in SUBSET D : Cardinality(s) = n => h[s] \in V}
<1>1. \A s \in SUBSET D : IsFiniteSet(s) /\ Cardinality(s) \in Nat
  BY FS_Subset, FS_CardinalityType
<1>2. \A s \in SUBSET D : Cardinality(s) = 0 <=> s = {}
  BY <1>1, FS_EmptySet
<1>3. \A s \in SUBSET D : s # {} =>
         s \ {pick[s]} \in SUBSET D /\ Cardinality(s \ {pick[s]}) = Cardinality(s) - 1
  BY <1>1, FS_RemoveElement
<1>4. 0 \in C
  BY <1>2
<1>5. ASSUME NEW n \in Nat, n \in C PROVE n + 1 \in C
  <2>1. \A s \in SUBSET D : Cardinality(s) = n + 1 => s # {} /\ h[s \ {pick[s]}] \in V
    BY <1>2, <1>3, <1>5
  <2>2. \A s \in SUBSET D : Cardinality(s) = n + 1 => h[s] \in V
    BY <2>1
  <2> QED BY <2>2
<1>6. \A n \in Nat : n \in C => n + 1 \in C
  BY <1>5
<1>7. Nat \subseteq C
  <2> HIDE DEF C
  <2> QED BY <1>4, <1>6, SetInduction
<1> QED BY <1>1, <1>7

(* What a sum over the connectors returns is a natural.                        *)
LEMMA SumIsNatural ==
  ASSUME NEW sums, NEW f, \A c \in Connectors : sums[c][f] \in Nat
  PROVE  SumOver(sums, f) \in Nat
<1> DEFINE pick == [s \in SUBSET Connectors |-> CHOOSE x \in s : TRUE]
           step == [p \in (SUBSET Connectors) \X Nat |->
                      IF p[1] = {} THEN 0 ELSE sums[pick[p[1]]][f] + p[2]]
           body(g) == [s \in SUBSET Connectors |-> IF s = {} THEN 0 ELSE
                         LET x == CHOOSE x \in s : TRUE IN g[s \ {x}] + sums[x][f]]
           it == CHOOSE g : g = body(g)
<1>1. SumOver(sums, f) = it[Connectors]
  BY DEF SumOver, FoldSet, MapThenFoldSet
<1>2. \A s \in SUBSET Connectors : s # {} => pick[s] \in s
  OBVIOUS
<1>3. step \in [(SUBSET Connectors) \X Nat -> Nat]
  BY <1>2
<1>4. PICK g \in [SUBSET Connectors -> Nat] : IsFold(g, Connectors, 0, pick, step)
  <2>1. 0 \in Nat /\ IsFiniteSet(Connectors)
    BY ConnectorsAssumption
  <2> HIDE DEF pick, step
  <2> QED BY ONLY <1>2, <1>3, <2>1, FoldHasSolution
<1>5. g = body(g)
  <2>1. ASSUME NEW s \in SUBSET Connectors, s # {}
        PROVE  g[s] = g[s \ {pick[s]}] + sums[pick[s]][f]
    <3>1. pick[s] \in Connectors /\ s \ {pick[s]} \in SUBSET Connectors
      BY <1>2, <2>1
    <3>2. g[s] = step[<<s, g[s \ {pick[s]}]>>]
      BY <1>4, <2>1 DEF IsFold
    <3>3. g[s \ {pick[s]}] \in Nat /\ sums[pick[s]][f] \in Nat
      BY <3>1
    <3> HIDE DEF pick
    <3>4. \A n \in Nat : step[<<s, n>>] = sums[pick[s]][f] + n
      BY <2>1
    <3> HIDE DEF step
    <3> QED BY <3>2, <3>3, <3>4
  <2>2. \A s \in SUBSET Connectors : pick[s] = CHOOSE x \in s : TRUE
    OBVIOUS
  <2>3. g[{}] = 0
    BY <1>4 DEF IsFold
  <2> HIDE DEF pick, step
  <2>4. \A s \in SUBSET Connectors : g[s] = body(g)[s]
    BY <2>1, <2>2, <2>3
  <2> QED BY <2>4
<1>6. it = body(it)
  BY <1>5
<1>7. it[{}] = 0
  BY <1>6
<1>8. \A s \in SUBSET Connectors : pick[s] = CHOOSE x \in s : TRUE
  OBVIOUS
<1>9. \A s \in SUBSET Connectors : s # {} => it[s] = it[s \ {pick[s]}] + sums[pick[s]][f]
  <2> HIDE DEF it, pick
  <2> QED BY <1>6, <1>8
<1>10. \A s \in SUBSET Connectors : s # {} /\ it[s \ {pick[s]}] \in Nat => it[s] \in Nat
  <2> SUFFICES ASSUME NEW s \in SUBSET Connectors, s # {}, it[s \ {pick[s]}] \in Nat
               PROVE  it[s] \in Nat
    OBVIOUS
  <2> HIDE DEF it, pick
  <2>1. sums[pick[s]][f] \in Nat
    BY <1>2
  <2>2. it[s] = it[s \ {pick[s]}] + sums[pick[s]][f]
    BY <1>9
  <2> QED BY <2>1, <2>2
<1>11. \A s \in SUBSET Connectors : it[s] \in Nat
  <2>1. IsFiniteSet(Connectors) /\ it[{}] \in Nat
    BY <1>7, ConnectorsAssumption
  <2> HIDE DEF it, pick
  <2> QED BY ONLY <1>2, <1>10, <2>1, FoldStaysIn
<1> HIDE DEF it
<1> QED BY <1>1, <1>11

(* A nonempty set of positions has a greatest one, which Max returns.          *)
LEMMA MaxOfPositions ==
  ASSUME NEW n \in Nat, NEW S, S \subseteq 1..n, S # {}
  PROVE  Max(S) \in S
<1> DEFINE T == {n - x : x \in S}
<1>1. T \subseteq Nat /\ T # {}
  <2>1. \A x \in S : x \in 1..n
    OBVIOUS
  <2>2. \A x \in 1..n : n - x \in Nat
    OBVIOUS
  <2>3. PICK x \in S : TRUE
    OBVIOUS
  <2>4. n - x \in T
    OBVIOUS
  <2> QED BY <2>1, <2>2, <2>4
<1>2. PICK t \in T : \A y \in T : t <= y
  BY <1>1, LeastOf
<1>3. PICK x \in S : t = n - x
  BY <1>2
<1>4. \A y \in S : x >= y
  <2> TAKE y \in S
  <2>1. n - y \in T
    OBVIOUS
  <2> HIDE DEF T
  <2>2. t <= n - y
    BY <1>2, <2>1
  <2> QED BY <1>3, <2>2
<1> QED BY <1>4 DEF Max

(* Adding the candidates of a page leaves a sequence of candidates.            *)
LEMMA CandidatesStayIn ==
  ASSUME NEW V, NEW cands \in Seq(V), NEW page \in Seq(Records), NEW fresh,
         \A k \in DOMAIN page : page[k] \in fresh => [r |-> page[k], at |-> content[page[k]]] \in V
  PROVE  NewCandidates(cands, page, fresh) \in Seq(V)
<1> DEFINE D == DOMAIN page
           add(cs, r) == IF r \in fresh THEN Append(cs, [r |-> r, at |-> content[r]]) ELSE cs
           pick == [s \in SUBSET D |-> Max(s)]
           step == [p \in (SUBSET D) \X Seq(V) |-> IF p[1] = {} THEN cands ELSE add(p[2], page[pick[p[1]]])]
           body(g) == [s \in SUBSET D |-> IF s = {} THEN cands
                         ELSE LET x == Max(s) IN add(g[s \ {x}], page[x])]
           it == CHOOSE g : g = body(g)
<1>1. NewCandidates(cands, page, fresh) = it[D]
  BY DEF NewCandidates, FoldLeft, MapThenFoldSet
<1>2. \A s \in SUBSET D : s # {} => pick[s] \in s
  BY MaxOfPositions
<1>3. IsFiniteSet(D) /\ cands \in Seq(V)
  BY FS_Interval
<1>4. \A cs \in Seq(V), k \in D : add(cs, page[k]) \in Seq(V)
  OBVIOUS
<1>5. step \in [(SUBSET D) \X Seq(V) -> Seq(V)]
  <2> HIDE DEF pick, add
  <2> QED BY <1>2, <1>4
<1>6. PICK g \in [SUBSET D -> Seq(V)] : IsFold(g, D, cands, pick, step)
  <2> HIDE DEF pick, step, add, D
  <2> QED BY ONLY <1>2, <1>3, <1>5, FoldHasSolution
<1>7. g = body(g)
  <2>1. ASSUME NEW s \in SUBSET D, s # {}
        PROVE  g[s] = add(g[s \ {pick[s]}], page[pick[s]])
    <3>1. g[s] = step[<<s, g[s \ {pick[s]}]>>] /\ g[s \ {pick[s]}] \in Seq(V)
      BY <1>6, <2>1 DEF IsFold
    <3> HIDE DEF pick, add
    <3>2. \A cs \in Seq(V) : step[<<s, cs>>] = add(cs, page[pick[s]])
      BY <2>1
    <3> HIDE DEF step
    <3> QED BY <3>1, <3>2
  <2>2. \A s \in SUBSET D : pick[s] = Max(s)
    OBVIOUS
  <2>3. g[{}] = cands
    BY <1>6 DEF IsFold
  <2> HIDE DEF pick, step, add, D
  <2>4. \A s \in SUBSET D : g[s] = body(g)[s]
    BY <2>1, <2>2, <2>3
  <2> QED BY <2>4
<1>8. it = body(it)
  <2> HIDE DEF add, D
  <2> QED BY <1>7
<1>9. it[{}] = cands
  BY <1>8
<1>10. \A s \in SUBSET D : s # {} => it[s] = add(it[s \ {pick[s]}], page[pick[s]])
  <2>1. \A s \in SUBSET D : pick[s] = Max(s)
    OBVIOUS
  <2> HIDE DEF it, pick, add, D
  <2> QED BY <1>8, <2>1
<1>11. \A s \in SUBSET D : s # {} /\ it[s \ {pick[s]}] \in Seq(V) => it[s] \in Seq(V)
  <2> SUFFICES ASSUME NEW s \in SUBSET D, s # {}, it[s \ {pick[s]}] \in Seq(V)
               PROVE  it[s] \in Seq(V)
    OBVIOUS
  <2> HIDE DEF it, pick, add, D
  <2>1. pick[s] \in D
    BY <1>2
  <2>2. add(it[s \ {pick[s]}], page[pick[s]]) \in Seq(V)
    BY <1>4, <2>1
  <2> QED BY <1>10, <2>2
<1>12. \A s \in SUBSET D : it[s] \in Seq(V)
  <2>1. it[{}] \in Seq(V)
    BY <1>9
  <2> HIDE DEF it, pick, D
  <2> QED BY ONLY <1>2, <1>3, <1>11, <2>1, FoldStaysIn
<1> HIDE DEF it, D
<1> QED BY <1>1, <1>12

(* A finite set listed as a sequence.                                          *)
LEMMA SetToSeqIsListed ==
  ASSUME NEW S, IsFiniteSet(S)
  PROVE  SetToSeq(S) \in Seq(S)
<1>1. Cardinality(S) \in Nat /\ ExistsBijection(1..Cardinality(S), S)
  BY FS_CardinalityType
<1>2. \E f \in [1..Cardinality(S) -> S] : IsInjective(f)
  BY <1>1 DEF ExistsBijection, Bijection, Injection
<1>3. SetToSeq(S) \in [1..Cardinality(S) -> S]
  BY <1>2 DEF SetToSeq
<1> QED BY <1>1, <1>3

-----------------------------------------------------------------------------
(* The stored rows.                                                            *)

(* What a row is in itself: nothing, or revisions that say something new each  *)
(* time, the last of which the row holds; the payload as it was seen last, of  *)
(* which only the running countdown may differ; the deadline of the payload.   *)
RowShape(r, row) ==
  /\ row \in RowType
  /\ ~Stored(row) => row = Absent
  /\ \A k \in 1..(Len(row.revs) - 1) : row.revs[k] # row.revs[k + 1]
  /\ Stored(row) => Last(row.revs) = row.hash
  /\ row.hash = [row.raw EXCEPT !.tick = row.hash.tick]
  /\ r \notin Countdown => row.hash = row.raw /\ row.due = <<row.raw.dl, row.raw.tick>>

(* Appending something new to revisions that differ from each other.           *)
LEMMA AppendDiffers ==
  ASSUME NEW S, NEW s \in Seq(S), NEW e \in S, s # <<>> => Last(s) # e,
         \A k \in 1..(Len(s) - 1) : s[k] # s[k + 1]
  PROVE  /\ Append(s, e) \in Seq(S) /\ Append(s, e) # <<>>
         /\ Len(Append(s, e)) = Len(s) + 1 /\ Last(Append(s, e)) = e
         /\ \A k \in 1..(Len(Append(s, e)) - 1) : Append(s, e)[k] # Append(s, e)[k + 1]
<1> DEFINE t == Append(s, e)
<1>1. t \in Seq(S) /\ Len(t) = Len(s) + 1 /\ t[Len(t)] = e
  OBVIOUS
<1>2. \A k \in 1..Len(s) : t[k] = s[k]
  OBVIOUS
<1>3. t # <<>> /\ Last(t) = e
  <2>1. Len(s) \in Nat /\ Len(<<>>) = 0
    OBVIOUS
  <2> HIDE DEF t
  <2> QED BY <1>1, <2>1 DEF Last
<1>4. ASSUME NEW k \in 1..(Len(t) - 1) PROVE t[k] # t[k + 1]
  <2>1. CASE k < Len(s)
    <3>1. k \in 1..(Len(s) - 1) /\ k \in 1..Len(s) /\ k + 1 \in 1..Len(s)
      BY <1>1, <2>1
    <3> HIDE DEF t
    <3> QED BY <1>2, <3>1
  <2>2. CASE k = Len(s)
    <3>1. s # <<>> /\ t[k] = s[Len(s)] /\ t[k + 1] = e
      BY <1>1, <1>2, <2>2
    <3> QED BY <3>1 DEF Last
  <2> QED BY <1>1, <2>1, <2>2
<1> QED BY <1>1, <1>3, <1>4

(* The hash that is kept is one of the two, and says what the payload says     *)
(* apart from the countdown.                                                   *)
LEMMA EffectiveHashSays ==
  ASSUME NEW r, NEW row, RowShape(r, row), NEW p \in Hashes
  PROVE  /\ EffectiveHash(r, row, p) \in Hashes
         /\ EffectiveHash(r, row, p) = [p EXCEPT !.tick = EffectiveHash(r, row, p).tick]
         /\ r \notin Countdown => EffectiveHash(r, row, p) = p
<1>1. CASE Natural(r, row, p) /\ [row.raw EXCEPT !.tick = p.tick] = p
  <2>1. EffectiveHash(r, row, p) = row.hash /\ row.hash \in Hashes /\ row.raw \in Hashes
    BY <1>1 DEF EffectiveHash, RowShape, RowType
  <2>2. row.hash = [row.raw EXCEPT !.tick = row.hash.tick]
    BY DEF RowShape
  <2>3. row.hash = [p EXCEPT !.tick = row.hash.tick]
    BY <1>1, <2>1, <2>2 DEF Hashes
  <2> QED BY <1>1, <2>1, <2>3 DEF Natural
<1>2. CASE ~(Natural(r, row, p) /\ [row.raw EXCEPT !.tick = p.tick] = p)
  <2>1. EffectiveHash(r, row, p) = p
    BY <1>2 DEF EffectiveHash
  <2> QED BY <2>1 DEF Hashes
<1> QED BY <1>1, <1>2

(* Storing a payload gives a row of that shape, which holds the payload.       *)
LEMMA RecordedIsShaped ==
  ASSUME NEW r, NEW row, RowShape(r, row), NEW p \in Hashes
  PROVE  RowShape(r, Recorded(r, row, p)) /\ Recorded(r, row, p).raw = p /\ Stored(Recorded(r, row, p))
<1> DEFINE hash == EffectiveHash(r, row, p)
           due == Deadline(r, row, p)
           new == Recorded(r, row, p)
<1>1. hash \in Hashes /\ hash = [p EXCEPT !.tick = hash.tick] /\ (r \notin Countdown => hash = p)
  BY EffectiveHashSays
<1>2. row.revs \in Seq(Hashes) /\ row.hash \in Hashes /\ row.due \in Nat \X Nat
  BY DEF RowShape, RowType
<1>3. due \in Nat \X Nat /\ (r \notin Countdown => due = <<p.dl, p.tick>>)
  BY <1>2 DEF Deadline, Natural, Hashes
<1>4. /\ new.hash = hash /\ new.raw = p /\ new.due = due
      /\ new.revs = IF ItemStatus(r, row, p) = "duplicate" THEN row.revs ELSE Append(row.revs, hash)
      /\ new = [revs |-> new.revs, hash |-> hash, raw |-> p, due |-> due]
  BY DEF Recorded
<1> HIDE DEF hash, due, new
<1>5. /\ new.revs \in Seq(Hashes) /\ new.revs # <<>> /\ Last(new.revs) = hash
      /\ \A k \in 1..(Len(new.revs) - 1) : new.revs[k] # new.revs[k + 1]
  <2>1. CASE ItemStatus(r, row, p) = "duplicate"
    <3>1. Stored(row) /\ hash = row.hash
      BY <2>1 DEF ItemStatus, hash
    <3> QED BY <1>2, <1>4, <2>1, <3>1 DEF RowShape, Stored
  <2>2. CASE ItemStatus(r, row, p) # "duplicate"
    <3>1. Stored(row) => hash # row.hash
      BY <2>2 DEF ItemStatus, hash
    <3>2. row.revs # <<>> => Last(row.revs) # hash
      BY <3>1 DEF RowShape, Stored
    <3>3. \A k \in 1..(Len(row.revs) - 1) : row.revs[k] # row.revs[k + 1]
      BY DEF RowShape
    <3>4. new.revs = Append(row.revs, hash)
      BY <1>4, <2>2
    <3> QED BY <1>1, <1>2, <3>2, <3>3, <3>4, AppendDiffers
  <2> QED BY <2>1, <2>2
<1>6. new \in RowType
  BY <1>1, <1>3, <1>4, <1>5 DEF RowType
<1>7. Stored(new)
  BY <1>5 DEF Stored
<1>8. RowShape(r, new)
  BY <1>1, <1>3, <1>4, <1>5, <1>6, <1>7 DEF RowShape
<1> QED BY <1>4, <1>7, <1>8 DEF new

(* A deadline that moves makes a revision, provided that no older reading of   *)
(* the same countdown is stored again.                                         *)
LEMMA DeadlineNeedsRevision ==
  ASSUME NEW r, NEW row, RowShape(r, row), NEW p \in Hashes,
         r \in Countdown => row.raw.tick <= p.tick,
         Recorded(r, row, p).due # row.due
  PROVE  Len(Recorded(r, row, p).revs) > Len(row.revs)
<1>1. row.revs \in Seq(Hashes) /\ row.raw \in Hashes /\ row.hash \in Hashes
  BY DEF RowShape, RowType
<1>2. EffectiveHash(r, row, p) \in Hashes
  BY EffectiveHashSays
<1>3. ItemStatus(r, row, p) # "duplicate"
  <2> SUFFICES ASSUME ItemStatus(r, row, p) = "duplicate" PROVE FALSE
    OBVIOUS
  <2>1. Stored(row) /\ EffectiveHash(r, row, p) = row.hash
    BY DEF ItemStatus
  <2>2. ~Natural(r, row, p) /\ <<p.dl, p.tick>> # row.due
    BY DEF Recorded, Deadline
  <2>3. row.hash = p
    BY <2>1, <2>2 DEF EffectiveHash
  <2>4. r \in Countdown
    BY <2>2, <2>3 DEF RowShape
  <2>5. row.raw.dl = p.dl
    BY <1>1, <2>3 DEF RowShape, Hashes
  <2> QED BY <2>1, <2>2, <2>4, <2>5 DEF Natural
<1>4. Recorded(r, row, p).revs = Append(row.revs, EffectiveHash(r, row, p))
  BY <1>3 DEF Recorded
<1> QED BY <1>1, <1>2, <1>4

-----------------------------------------------------------------------------
(* The type invariant, with what the worker's data say about the source.       *)

(* A content the source has shown: it only counts up.                          *)
Past(a, b) == a.v <= b.v /\ a.dl <= b.dl /\ a.tick <= b.tick

(* A candidate for details was listed by its connector as the source was then. *)
Sightings(c) == {x \in Candidates : x.r \in plan.home[c] /\ Past(x.at, content[x.r])}
Jobs == {j \in [conn : Connectors, cands : Seq(Candidates)] :
           Deferred(j.conn) /\ j.cands \in Seq(Sightings(j.conn)) /\ j.cands # <<>>}
Workers ==
  [pc : {"off", "list", "details", "save"}, conn : Connectors \cup {"none"}, todo : Seq(Connectors),
   page : Nat, prev : Seq(Records), known : Nat, floor : BOOLEAN, first : BOOLEAN, start : SUBSET Records,
   cands : Seq(Candidates), jobs : Seq(Jobs), sum : Summaries, sums : [Connectors -> Summaries]]
WorkerOK(u) ==
  /\ u \in Workers
  /\ u.pc \in {"list", "details"} => u.conn \in Connectors /\ u.cands \in Seq(Sightings(u.conn))
  /\ u.pc = "list" => u.page > 0
  /\ u.pc = "details" => Deferred(u.conn) /\ u.cands # <<>>

SourcesOK ==
  /\ plan \in Plans /\ content \in [Records -> Contents]
  /\ list \in [Connectors -> Seq(Records)] /\ \A c \in Connectors : Listed(c) \subseteq plan.home[c]
RowOK(r) ==
  /\ RowShape(r, db[r])
  /\ Past(db[r].raw, content[r]) /\ db[r].raw.d <= content[r].v
  /\ db[r].raw.d > 0 => \E c \in Connectors : Deferred(c) /\ r \in plan.home[c]
RowsOK == db \in [Records -> RowType] /\ \A r \in Records : RowOK(r)
Forms == [conns : SUBSET Connectors, mode : {"none", "incremental", "range"}, details : BOOLEAN, cap : Nat]
RunsOK ==
  /\ runs \in [Runs -> RunRecords] /\ items \in [Runs -> ItemCounts]
  /\ msgs \subseteq Runs /\ stale \subseteq Runs /\ gap \subseteq Connectors
  /\ conn \in [Connectors -> ConnectorRows] /\ settings \in SettingsRow /\ form \in Forms
WorkersOK == w \in [Runs -> Workers] /\ \A i \in Runs : WorkerOK(w[i])
Verdicts == {"none", "blocked", "failed", "warning", "passed"}
AccOK ==
  /\ acc \in [pc : {"off", "sent", "prepare", "next", "create", "wait", "done", "dead"}, was : BOOLEAN,
              todo : Seq(Connectors), run : Runs \cup {0}, of : [Connectors -> Verdicts]]
  /\ acc.pc \in {"create", "wait"} => acc.todo # <<>>
  /\ acc.pc = "wait" => acc.run \in Runs
  /\ report \in [st : Terminal \cup {"none", "queued", "running"}, of : [Connectors -> Verdicts]]
  /\ disp \in {"idle", "sent"}
TypeInv == SourcesOK /\ RowsOK /\ RunsOK /\ WorkersOK /\ AccOK

-----------------------------------------------------------------------------
(* The course of a run, and what its worker may still write.                   *)

(* A list that has not ended badly, summaries that say succeeded only of a     *)
(* complete list.                                                              *)
SumsOK(u) ==
  /\ \A c \in Connectors : u.sums[c].status = "succeeded" => u.sums[c].complete
  /\ u.pc = "list" => u.sum.status \in {"succeeded", "succeeded_with_warnings"}

(* A run is free, or waits for its message, or is worked on, or neither; only  *)
(* what a recovery closed is in another state meanwhile.                       *)
CourseOK(i) ==
  /\ runs[i].st = "none" => runs[i] = NoRun /\ i \notin msgs /\ w[i] = Off
  /\ i \in msgs => w[i].pc = "off" /\ runs[i].st \in {"queued", "failed", "cancelled"}
                   /\ (~runs[i].closed => runs[i].st = "queued")
  /\ w[i].pc # "off" => i \notin msgs /\ runs[i].st \in {"running", "failed", "cancelled"}
                        /\ (~runs[i].closed => runs[i].st = "running")
  /\ SumsOK(w[i])
  /\ runs[i].st = "succeeded" =>
       \A c \in runs[i].conns : w[i].sums[c].status = "succeeded"
CourseInv == \A i \in Runs : CourseOK(i)

(* The open runs of the schedule cover enabled connectors, and are one.        *)
OpenScheduled == {i \in Runs : runs[i].trig = "scheduled" /\ runs[i].st \in Active /\ ~runs[i].closed}
ScheduleInv ==
  /\ \A i \in Runs : runs[i].trig = "scheduled" => runs[i].conns # {} /\ runs[i].conns \subseteq Scheduled
  /\ \A i, j \in OpenScheduled : i = j

(* A finished run that read something from one connector only.                 *)
Evidence(i, c) ==
  /\ runs[i].conns = {c} /\ runs[i].mode = "range" /\ items[i].ok > 0
  /\ runs[i].st \notin Active \cup {"none"} /\ (runs[i].st = "succeeded" \/ runs[i].closed)
  /\ i \notin msgs /\ w[i].pc = "off"
Proven(c) == \E i \in Runs : Evidence(i, c)

(* The run of the connector under test, from its creation to its verdict.      *)
UnderTest(i, c) ==
  /\ runs[i].conns = {c} /\ runs[i].mode = "range" /\ ~runs[i].details /\ i \notin msgs
  /\ runs[i].st # "none" /\ (runs[i].st = "cancelled" => runs[i].closed)
  /\ w[i].pc # "details"
  /\ w[i].pc = "list" => w[i].conn = c /\ w[i].todo = <<>> /\ w[i].jobs = <<>>
  /\ w[i].pc = "save" => w[i].sums[c].status # "none"
VerdictInv ==
  /\ \A c \in Connectors : acc.of[c] = "passed" => Proven(c)
  /\ acc.pc = "wait" => UnderTest(acc.run, Head(acc.todo))
  /\ report.st = "succeeded" =>
       \A c \in Connectors : report.of[c] \notin {"none", "blocked"} => Proven(c)
SystemInv == TypeInv /\ CourseInv /\ ScheduleInv /\ VerdictInv

-----------------------------------------------------------------------------
(* The plan of a behaviour is as assumed.                                      *)
LEMMA PlanIsTyped ==
  ASSUME SourcesOK
  PROVE  /\ plan.conns \subseteq Connectors /\ plan.shape \in [Connectors -> Kinds]
         /\ plan.home \in [Connectors -> SUBSET Records] /\ plan.list \in [Connectors -> Seq(Records)]
         /\ \A c, e \in Connectors : c # e => plan.home[c] \cap plan.home[e] = {}
         /\ \A c \in Connectors : ToSet(plan.list[c]) \subseteq plan.home[c]
         /\ \A c \in Connectors : Deferred(c) => plan.home[c] \cap Countdown = {}
         /\ plan.caps \subseteq Nat /\ plan.details \subseteq BOOLEAN
  BY PlansAssumption DEF SourcesOK, Deferred, Shape

(* The type invariant implies what the runs check.                             *)
LEMMA TypeInvIsTyped == TypeInv => ExtractionTypeOK
<1> SUFFICES ASSUME TypeInv PROVE ExtractionTypeOK
  OBVIOUS
<1>1. plan \in Plans /\ list \in [Connectors -> Seq(Records)] /\ content \in [Records -> Contents]
  BY DEF TypeInv, SourcesOK
<1>2. db \in [Records -> RowType]
  BY DEF TypeInv, RowsOK
<1>3. /\ runs \in [Runs -> RunRecords] /\ items \in [Runs -> ItemCounts]
      /\ msgs \subseteq Runs /\ stale \subseteq Runs /\ gap \subseteq Connectors
      /\ conn \in [Connectors -> ConnectorRows] /\ settings \in SettingsRow
  BY DEF TypeInv, RunsOK
<1>4. ASSUME NEW i \in Runs PROVE WorkerRow(w[i])
  <2>1. w[i] \in Workers
    BY DEF TypeInv, WorkersOK
  <2>2. Jobs \subseteq [conn : Connectors, cands : Seq(Candidates)]
    BY DEF Jobs
  <2>3. Seq(Jobs) \subseteq Seq([conn : Connectors, cands : Seq(Candidates)])
    BY <2>2, SeqMonotonic
  <2> QED BY <2>1, <2>3 DEF Workers, WorkerRow
<1>5. /\ acc.pc \in {"off", "sent", "prepare", "next", "create", "wait", "done", "dead"}
      /\ report.st \in Terminal \cup {"none", "queued", "running"} /\ disp \in {"idle", "sent"}
  BY DEF TypeInv, AccOK
<1> QED BY <1>1, <1>2, <1>3, <1>4, <1>5 DEF ExtractionTypeOK

-----------------------------------------------------------------------------
(* The tasks of a worker.                                                      *)

(* Warnings and the empty summary are summaries.                               *)
LEMMA SummariesAreTyped ==
  /\ NoSummary \in Summaries
  /\ \A s \in Summaries : Warned(s) \in Summaries
  BY DEF NoSummary, Summaries, Warned

(* The worker that is off, with any summaries.                                 *)
LEMMA OffIsTyped ==
  ASSUME NEW sums \in [Connectors -> Summaries]
  PROVE  Off \in Workers /\ [Off EXCEPT !.sums = sums] \in Workers
<1> DEFINE none == [c \in Connectors |-> NoSummary]
<1>1. none \in [Connectors -> Summaries] /\ NoSummary \in Summaries
  BY SummariesAreTyped
<1>2. Off = [pc |-> "off", conn |-> "none", todo |-> <<>>, page |-> 0, prev |-> <<>>, known |-> 0,
             floor |-> TRUE, first |-> FALSE, start |-> {}, cands |-> <<>>, jobs |-> <<>>,
             sum |-> NoSummary, sums |-> none]
  BY DEF Off
<1> HIDE DEF none
<1>3. Off \in Workers
  <2>1. <<>> \in Seq(Connectors) /\ <<>> \in Seq(Records) /\ <<>> \in Seq(Candidates) /\ <<>> \in Seq(Jobs)
    OBVIOUS
  <2> QED BY <1>1, <1>2, <2>1 DEF Workers
<1> QED BY <1>3 DEF Workers

(* A list starts at its first page, with nothing found yet.                    *)
LEMMA StartListOK ==
  ASSUME SourcesOK, NEW i, NEW u \in Workers, NEW c \in Connectors
  PROVE  LET v == StartList(i, u, c) IN
         /\ WorkerOK(v) /\ v.pc = "list" /\ v.conn = c /\ v.sum.status = "succeeded"
         /\ v.todo = u.todo /\ v.jobs = u.jobs /\ v.sums = u.sums
<1> DEFINE v == StartList(i, u, c)
           s == [NoSummary EXCEPT !.status = "succeeded"]
           fr == FirstRun(c)
           all == Listed(c)
           a == [u EXCEPT !.pc = "list", !.conn = c, !.page = 1, !.prev = <<>>, !.known = 0,
                     !.cands = <<>>, !.first = fr, !.start = all, !.sum = s]
           fl == ~OverlapRequired(i, a)
<1>1. s \in Summaries /\ s.status = "succeeded"
  BY DEF NoSummary, Summaries
<1>2. fr \in BOOLEAN
  BY DEF FirstRun
<1>3. all \in SUBSET Records
  BY DEF SourcesOK, Listed, ToSet
<1>4. fl \in BOOLEAN
  OBVIOUS
<1>5. v = [a EXCEPT !.floor = fl]
  BY DEF StartList
<1> HIDE DEF s, fl, v, fr, all
<1>6. /\ a \in Workers /\ a.pc = "list" /\ a.conn = c /\ a.sum = s /\ a.cands = <<>> /\ a.page = 1
      /\ a.todo = u.todo /\ a.jobs = u.jobs /\ a.sums = u.sums
  <2> DEFINE b == [u EXCEPT !.pc = "list", !.conn = c, !.page = 1, !.prev = <<>>]
             d == [b EXCEPT !.known = 0, !.cands = <<>>, !.first = fr]
  <2>1. /\ b \in Workers /\ b.pc = "list" /\ b.conn = c /\ b.page = 1
        /\ b.todo = u.todo /\ b.jobs = u.jobs /\ b.sums = u.sums
    <3>1. <<>> \in Seq(Records)
      OBVIOUS
    <3> QED BY <3>1 DEF Workers
  <2>2. a = [d EXCEPT !.start = all, !.sum = s]
    OBVIOUS
  <2> HIDE DEF a, b
  <2>3. /\ d \in Workers /\ d.pc = "list" /\ d.conn = c /\ d.cands = <<>> /\ d.page = 1
        /\ d.todo = u.todo /\ d.jobs = u.jobs /\ d.sums = u.sums
    <3>1. <<>> \in Seq(Candidates)
      OBVIOUS
    <3> QED BY <1>2, <2>1, <3>1 DEF Workers
  <2> HIDE DEF d
  <2> QED BY <1>1, <1>3, <2>2, <2>3 DEF Workers
<1> HIDE DEF a
<1>7. /\ v \in Workers /\ v.pc = "list" /\ v.conn = c /\ v.sum = s /\ v.cands = <<>> /\ v.page = 1
      /\ v.todo = u.todo /\ v.jobs = u.jobs /\ v.sums = u.sums
  BY <1>4, <1>5, <1>6 DEF Workers
<1>8. WorkerOK(v)
  BY <1>7 DEF WorkerOK
<1> QED BY <1>1, <1>7, <1>8 DEF v

(* The next list, the next details, or the save, with the summaries so far.    *)
LEMMA NextTaskOK ==
  ASSUME SourcesOK, NEW i, NEW done, done.todo \in Seq(Connectors), done.jobs \in Seq(Jobs),
         done.sums \in [Connectors -> Summaries]
  PROVE  LET v == NextTask(i, done) IN
         /\ WorkerOK(v) /\ v.pc \in {"list", "details", "save"} /\ v.sums = done.sums
         /\ v.pc = "list" => v.sum.status = "succeeded" /\ done.todo # <<>>
         /\ v.pc = "details" => done.jobs # <<>>
<1> DEFINE v == NextTask(i, done)
           u == [[[Off EXCEPT !.todo = done.todo] EXCEPT !.jobs = done.jobs] EXCEPT !.sums = done.sums]
<1>1. /\ u \in Workers /\ u.todo = done.todo /\ u.jobs = done.jobs /\ u.sums = done.sums
  BY OffIsTyped DEF Off, Workers
<1>2. v = IF u.todo # <<>> THEN [StartList(i, u, Head(u.todo)) EXCEPT !.todo = Tail(u.todo)]
          ELSE IF u.jobs # <<>>
               THEN [u EXCEPT !.pc = "details", !.conn = Head(u.jobs).conn, !.cands = Head(u.jobs).cands,
                              !.jobs = Tail(u.jobs)]
               ELSE [u EXCEPT !.pc = "save"]
  BY DEF NextTask
<1> HIDE DEF u, v
<1>3. CASE u.todo # <<>>
  <2> DEFINE a == StartList(i, u, Head(u.todo))
  <2>1. Head(u.todo) \in Connectors /\ Tail(u.todo) \in Seq(Connectors)
    BY <1>1, <1>3
  <2>2. /\ WorkerOK(a) /\ a.pc = "list" /\ a.sum.status = "succeeded" /\ a.sums = u.sums
    BY <1>1, <2>1, StartListOK
  <2>3. v = [a EXCEPT !.todo = Tail(u.todo)]
    BY <1>2, <1>3
  <2> HIDE DEF a
  <2>4. a \in Workers /\ a.conn \in Connectors /\ a.cands \in Seq(Sightings(a.conn)) /\ a.page > 0
    BY <2>2 DEF WorkerOK
  <2>5. /\ v \in Workers /\ v.pc = "list" /\ v.conn = a.conn /\ v.cands = a.cands /\ v.sum = a.sum
        /\ v.sums = a.sums /\ v.page = a.page
    BY <2>1, <2>2, <2>3, <2>4 DEF Workers
  <2>6. WorkerOK(v)
    BY <2>4, <2>5 DEF WorkerOK
  <2> QED BY <1>1, <1>3, <2>2, <2>5, <2>6 DEF v
<1>4. CASE u.todo = <<>> /\ u.jobs # <<>>
  <2> DEFINE j == Head(u.jobs)
  <2>1. j \in Jobs /\ Tail(u.jobs) \in Seq(Jobs)
    BY <1>1, <1>4
  <2>2. j.conn \in Connectors /\ j.cands \in Seq(Candidates) /\ Deferred(j.conn)
        /\ j.cands \in Seq(Sightings(j.conn)) /\ j.cands # <<>>
    BY <2>1 DEF Jobs
  <2>3. v = [u EXCEPT !.pc = "details", !.conn = j.conn, !.cands = j.cands, !.jobs = Tail(u.jobs)]
    BY <1>2, <1>4
  <2> HIDE DEF j
  <2>4. v \in Workers /\ v.pc = "details" /\ v.conn = j.conn /\ v.cands = j.cands /\ v.sums = u.sums
    BY <1>1, <2>1, <2>2, <2>3 DEF Workers
  <2>5. WorkerOK(v)
    BY <2>2, <2>4 DEF WorkerOK
  <2> QED BY <1>1, <1>4, <2>4, <2>5 DEF v
<1>5. CASE u.todo = <<>> /\ u.jobs = <<>>
  <2>1. v = [u EXCEPT !.pc = "save"]
    BY <1>2, <1>5
  <2>2. v \in Workers /\ v.pc = "save" /\ v.sums = u.sums
    BY <1>1, <2>1 DEF Workers
  <2>3. WorkerOK(v)
    BY <2>2 DEF WorkerOK
  <2> QED BY <1>1, <2>2, <2>3 DEF v
<1> QED BY <1>3, <1>4, <1>5

(* A list that is done: its summary is written down, and the next task taken.  *)
LEMMA ListDoneOK ==
  ASSUME SourcesOK, NEW i, NEW u, WorkerOK(u), u.pc = "list"
  PROVE  LET v == ListDone(i, u) IN
         /\ WorkerOK(v) /\ v.pc \in {"list", "details", "save"}
         /\ v.sums = [u.sums EXCEPT ![u.conn] = u.sum]
         /\ v.pc = "list" => v.sum.status = "succeeded" /\ u.todo # <<>>
         /\ v.pc = "details" => u.jobs # <<>> \/ runs[i].details
<1> DEFINE sums == [u.sums EXCEPT ![u.conn] = u.sum]
           z == [u EXCEPT !.sums[u.conn] = u.sum]
           n == IF Len(u.cands) < DetailLimit THEN Len(u.cands) ELSE DetailLimit
           cands == SubSeq(u.cands, 1, n)
           job == [conn |-> u.conn, cands |-> cands]
           v == ListDone(i, u)
<1>1. /\ u \in Workers /\ u.conn \in Connectors /\ u.cands \in Seq(Sightings(u.conn))
      /\ u.sum \in Summaries /\ u.sums \in [Connectors -> Summaries]
      /\ u.todo \in Seq(Connectors) /\ u.jobs \in Seq(Jobs)
  BY DEF WorkerOK, Workers
<1>2. sums \in [Connectors -> Summaries]
  BY <1>1
<1>3. z.sums = sums /\ z.todo = u.todo /\ z.jobs = u.jobs
  BY <1>1 DEF Workers
<1>4. cands \in Seq(Sightings(u.conn))
  <2>1. n \in Nat /\ n <= Len(u.cands)
    BY <1>1, SizesAssumption
  <2>2. \A k \in 1..n : u.cands[k] \in Sightings(u.conn)
    BY <1>1, <2>1
  <2> HIDE DEF n
  <2> QED BY <1>1, <2>1, <2>2, SubSeqProperties
<1>5. cands \in Seq(Candidates)
  <2>1. Sightings(u.conn) \subseteq Candidates
    BY DEF Sightings
  <2> QED BY <1>4, <2>1, SeqMonotonic
<1>6. v = IF ~(Deferred(u.conn) /\ runs[i].details /\ u.sum.complete /\ cands # <<>>) THEN NextTask(i, z)
          ELSE IF Shape(u.conn).kind = "parsnamad"
               THEN [Off EXCEPT !.pc = "details", !.conn = u.conn, !.cands = cands,
                                !.todo = z.todo, !.jobs = z.jobs, !.sums = z.sums]
               ELSE NextTask(i, [z EXCEPT !.jobs = Append(@, job)])
  BY DEF ListDone
<1> HIDE DEF z, v, cands
<1>7. CASE ~(Deferred(u.conn) /\ runs[i].details /\ u.sum.complete /\ cands # <<>>)
  <2>1. v = NextTask(i, z)
    BY <1>6, <1>7
  <2>2. /\ z.todo \in Seq(Connectors) /\ z.jobs \in Seq(Jobs) /\ z.sums \in [Connectors -> Summaries]
    BY <1>1, <1>2, <1>3
  <2> HIDE DEF sums
  <2>3. /\ WorkerOK(v) /\ v.pc \in {"list", "details", "save"} /\ v.sums = z.sums
        /\ v.pc = "list" => v.sum.status = "succeeded" /\ z.todo # <<>>
        /\ v.pc = "details" => z.jobs # <<>>
    BY <2>1, <2>2, NextTaskOK
  <2> QED BY <1>3, <2>3 DEF v, sums
<1>8. CASE /\ Deferred(u.conn) /\ runs[i].details /\ u.sum.complete /\ cands # <<>>
           /\ Shape(u.conn).kind = "parsnamad"
  <2> DEFINE a == [Off EXCEPT !.pc = "details", !.conn = u.conn, !.cands = cands]
  <2>1. a \in Workers /\ a.pc = "details" /\ a.conn = u.conn /\ a.cands = cands
    BY <1>1, <1>5, OffIsTyped DEF Workers
  <2>2. v = [a EXCEPT !.todo = z.todo, !.jobs = z.jobs, !.sums = z.sums]
    BY <1>6, <1>8
  <2> HIDE DEF a
  <2>3. /\ v \in Workers /\ v.pc = "details" /\ v.conn = u.conn /\ v.cands = cands /\ v.sums = sums
    BY <1>1, <1>2, <1>3, <2>1, <2>2 DEF Workers
  <2>4. WorkerOK(v)
    BY <1>1, <1>4, <1>8, <2>3 DEF WorkerOK
  <2> QED BY <1>8, <2>3, <2>4 DEF v
<1>9. CASE /\ Deferred(u.conn) /\ runs[i].details /\ u.sum.complete /\ cands # <<>>
           /\ Shape(u.conn).kind # "parsnamad"
  <2> DEFINE y == [z EXCEPT !.jobs = Append(@, job)]
  <2>1. job \in Jobs
    BY <1>1, <1>4, <1>5, <1>9 DEF Jobs
  <2>2. y.todo = u.todo /\ y.sums = sums /\ y.jobs = Append(u.jobs, job)
    <3>1. z \in Workers
      BY <1>1, <1>2 DEF z, Workers
    <3> QED BY <1>3, <3>1 DEF Workers
  <2>3. v = NextTask(i, y)
    BY <1>6, <1>9
  <2> HIDE DEF job, y
  <2>4. y.todo \in Seq(Connectors) /\ y.jobs \in Seq(Jobs) /\ y.sums \in [Connectors -> Summaries]
    BY <1>1, <1>2, <2>1, <2>2
  <2> HIDE DEF sums
  <2>5. /\ WorkerOK(v) /\ v.pc \in {"list", "details", "save"} /\ v.sums = y.sums
        /\ v.pc = "list" => v.sum.status = "succeeded" /\ y.todo # <<>>
    BY <2>3, <2>4, NextTaskOK
  <2> QED BY <1>9, <2>2, <2>5 DEF v, sums
<1> QED BY <1>7, <1>8, <1>9

(* One detail is done: its outcome is noted, and the rest of the details or    *)
(* the next task follows.                                                      *)
NotedSums(u, o) == [u.sums EXCEPT ![u.conn] = IF o = "enriched" THEN @ ELSE Warned(@)]
AfterDetail(u, o, rest) == [u EXCEPT !.cands = rest, !.sums[u.conn] = IF o = "enriched" THEN @ ELSE Warned(@)]
LEMMA DetailDoneOK ==
  ASSUME SourcesOK, NEW i, NEW u, WorkerOK(u), u.pc = "details", NEW o,
         NEW rest, rest \in {<<>>, Tail(u.cands)},
         NEW v, v = AfterDetail(u, o, rest), NEW x, x = IF rest = <<>> THEN NextTask(i, v) ELSE v
  PROVE  /\ WorkerOK(x) /\ x.pc \in {"list", "details", "save"}
         /\ x.sums = NotedSums(u, o)
         /\ x.pc = "list" => x.sum.status = "succeeded"
<1> DEFINE one == IF o = "enriched" THEN u.sums[u.conn] ELSE Warned(u.sums[u.conn])
           sums == [u.sums EXCEPT ![u.conn] = one]
<1>1. /\ u \in Workers /\ u.conn \in Connectors /\ u.cands \in Seq(Sightings(u.conn)) /\ u.cands # <<>>
      /\ Deferred(u.conn) /\ u.sums \in [Connectors -> Summaries]
      /\ u.todo \in Seq(Connectors) /\ u.jobs \in Seq(Jobs)
  BY DEF WorkerOK, Workers
<1>2. one \in Summaries /\ sums \in [Connectors -> Summaries]
  BY <1>1, SummariesAreTyped
<1>3. v = [u EXCEPT !.cands = rest, !.sums = sums]
  BY <1>1 DEF Workers, AfterDetail
<1>4. rest \in Seq(Sightings(u.conn)) /\ rest \in Seq(Candidates)
  <2>1. Sightings(u.conn) \subseteq Candidates
    BY DEF Sightings
  <2>2. <<>> \in Seq(Sightings(u.conn)) /\ Tail(u.cands) \in Seq(Sightings(u.conn))
    BY ONLY <1>1, EmptySeq, HeadTailProperties
  <2>3. rest \in Seq(Sightings(u.conn))
    BY <2>2
  <2> QED BY <2>1, <2>3, SeqMonotonic
<1>5. sums = NotedSums(u, o)
  BY <1>1 DEF NotedSums
<1> HIDE DEF one, sums
<1>6. /\ v \in Workers /\ v.pc = "details" /\ v.conn = u.conn /\ v.cands = rest /\ v.sums = sums
      /\ v.todo = u.todo /\ v.jobs = u.jobs
  BY <1>1, <1>2, <1>3, <1>4 DEF Workers
<1>7. CASE rest = <<>>
  <2>1. v.todo \in Seq(Connectors) /\ v.jobs \in Seq(Jobs) /\ v.sums \in [Connectors -> Summaries]
    BY <1>1, <1>2, <1>6
  <2>2. x = NextTask(i, v) /\ SourcesOK
    BY <1>7
  <2>3. /\ WorkerOK(x) /\ x.pc \in {"list", "details", "save"} /\ x.sums = v.sums
        /\ x.pc = "list" => x.sum.status = "succeeded"
    BY ONLY <2>1, <2>2, NextTaskOK
  <2> QED BY <1>5, <1>6, <2>3
<1>8. CASE rest # <<>>
  <2>1. WorkerOK(v)
    BY <1>1, <1>4, <1>6, <1>8 DEF WorkerOK
  <2> QED BY <1>5, <1>6, <1>8, <2>1
<1> QED BY <1>7, <1>8

-----------------------------------------------------------------------------
(* The pages of a list.                                                        *)

(* A page is a part of the list.                                               *)
LEMMA PageIsListed ==
  ASSUME SourcesOK, NEW c \in Connectors, NEW p \in Nat, p > 0
  PROVE  PageOf(c, p) \in Seq(Records) /\ ToSet(PageOf(c, p)) \subseteq Listed(c)
<1> DEFINE a == (p - 1) * PageSize + 1
           b == IF p * PageSize < Len(list[c]) THEN p * PageSize ELSE Len(list[c])
<1>1. list[c] \in Seq(Records) /\ Len(list[c]) \in Nat /\ PageSize \in Nat
  BY SizesAssumption DEF SourcesOK
<1>2. a \in Nat /\ a > 0 /\ b \in Nat /\ b <= Len(list[c])
  <2>1. (p - 1) * PageSize \in Nat /\ p * PageSize \in Nat
    BY <1>1
  <2> QED BY <1>1, <2>1
<1>3. PageOf(c, p) = SubSeq(list[c], a, b)
  BY DEF PageOf
<1> HIDE DEF a, b
<1>4. \A k \in a..b : k \in 1..Len(list[c]) /\ list[c][k] \in Records
  BY <1>1, <1>2
<1>5. /\ PageOf(c, p) \in Seq(Records)
      /\ \A k \in DOMAIN PageOf(c, p) : \E n \in DOMAIN list[c] : PageOf(c, p)[k] = list[c][n]
  BY <1>1, <1>2, <1>3, <1>4
<1> QED BY <1>5 DEF ToSet, Listed

(* What a page holds is a finite set of records.                               *)
LEMMA PageIsFinite ==
  ASSUME NEW page \in Seq(Records)
  PROVE  IsFiniteSet(ToSet(page)) /\ ToSet(page) \subseteq Records
<1>1. IsFiniteSet(1..Len(page)) /\ DOMAIN page = 1..Len(page)
  BY FS_Interval
<1>2. page \in Surjection(1..Len(page), ToSet(page))
  BY <1>1 DEF Surjection, ToSet
<1>3. IsFiniteSet(ToSet(page))
  BY <1>1, <1>2, FS_Surjection
<1> QED BY <1>3 DEF ToSet

(* What an unread page leaves in the worker's hands.                           *)
LEMMA UnreadListOK ==
  ASSUME NEW i, NEW u, WorkerOK(u), u.pc = "list", NEW o, NEW page,
         NEW sum, sum = IF o = "retried" THEN Warned(UnreadSummary(i, u, o, page))
                        ELSE UnreadSummary(i, u, o, page),
         NEW v, v = [u EXCEPT !.sum = sum]
  PROVE  /\ WorkerOK(v) /\ v.pc = "list" /\ v.conn = u.conn /\ v.todo = u.todo /\ v.jobs = u.jobs
         /\ v.sums = u.sums /\ v.sum = sum
<1> DEFINE a == UnreadSummary(i, u, o, page)
           st == IF Broken(o) THEN "failed"
                 ELSE IF Repeated(u, page) \/ (page = <<>> /\ ~NaturalEnd(u, o)) THEN "partial"
                 ELSE u.sum.status
           complete == ~Broken(o) /\ ~Repeated(u, page) /\ (page = <<>> => NaturalEnd(u, o))
           n == IF Broken(o) THEN u.sum.bad + 1 ELSE u.sum.bad
<1>1. u \in Workers /\ u.sum \in Summaries
  BY DEF WorkerOK, Workers
<1>2. complete \in BOOLEAN
  OBVIOUS
<1>3. st \in {"none", "succeeded", "succeeded_with_warnings", "partial", "failed"} /\ n \in Nat
  BY <1>1 DEF Summaries
<1>4. a = [u.sum EXCEPT !.status = st, !.complete = complete, !.bad = n]
  BY DEF UnreadSummary
<1> HIDE DEF a, st, complete, n
<1>5. a \in Summaries
  BY <1>1, <1>2, <1>3, <1>4 DEF Summaries
<1>6. sum \in Summaries
  BY <1>5, SummariesAreTyped DEF a
<1>7. /\ v \in Workers /\ v.pc = u.pc /\ v.conn = u.conn /\ v.todo = u.todo /\ v.jobs = u.jobs
      /\ v.sums = u.sums /\ v.sum = sum /\ v.cands = u.cands /\ v.page = u.page
  BY <1>1, <1>6 DEF Workers
<1> QED BY <1>7 DEF WorkerOK

(* What a page that is read leaves there.                                      *)
AfterPage(u, page, known, floor, sum, fresh) ==
  [u EXCEPT !.prev = page, !.known = known, !.floor = floor, !.page = @ + 1, !.sum = sum,
            !.cands = NewCandidates(@, page, fresh)]
LEMMA ReadListOK ==
  ASSUME SourcesOK, NEW u, WorkerOK(u), u.pc = "list",
         NEW page \in Seq(Records), ToSet(page) \subseteq Listed(u.conn), NEW fresh,
         NEW known \in Nat, NEW floor \in BOOLEAN, NEW sum \in Summaries,
         NEW v, v = AfterPage(u, page, known, floor, sum, fresh)
  PROVE  /\ WorkerOK(v) /\ v.pc = "list" /\ v.conn = u.conn /\ v.todo = u.todo /\ v.jobs = u.jobs
         /\ v.sums = u.sums /\ v.sum = sum
<1> DEFINE cs == NewCandidates(u.cands, page, fresh)
<1>1. u \in Workers /\ u.conn \in Connectors /\ u.cands \in Seq(Sightings(u.conn)) /\ u.page \in Nat
  BY DEF WorkerOK, Workers
<1>2. \A k \in DOMAIN page : [r |-> page[k], at |-> content[page[k]]] \in Sightings(u.conn)
  <2> TAKE k \in DOMAIN page
  <2>1. page[k] \in Records /\ page[k] \in plan.home[u.conn] /\ content[page[k]] \in Contents
    BY <1>1 DEF SourcesOK, ToSet
  <2>2. Past(content[page[k]], content[page[k]])
    BY <2>1 DEF Past, Contents
  <2> QED BY <2>1, <2>2 DEF Sightings, Candidates
<1>3. cs \in Seq(Sightings(u.conn))
  BY <1>1, <1>2, CandidatesStayIn
<1>4. cs \in Seq(Candidates)
  <2>1. Sightings(u.conn) \subseteq Candidates
    BY DEF Sightings
  <2> QED BY <1>3, <2>1, SeqMonotonic
<1> DEFINE a == [u EXCEPT !.prev = page, !.known = known, !.floor = floor]
<1>5. v = [a EXCEPT !.page = u.page + 1, !.sum = sum, !.cands = cs]
  BY <1>1 DEF Workers, AfterPage
<1> HIDE DEF cs
<1>6. /\ a \in Workers /\ a.pc = u.pc /\ a.conn = u.conn /\ a.todo = u.todo /\ a.jobs = u.jobs
      /\ a.sums = u.sums
  BY <1>1 DEF Workers
<1> HIDE DEF a
<1>7. /\ v \in Workers /\ v.pc = u.pc /\ v.conn = u.conn /\ v.todo = u.todo /\ v.jobs = u.jobs
      /\ v.sums = u.sums /\ v.sum = sum /\ v.cands = cs /\ v.page = u.page + 1
  <2>1. sum \in Summaries /\ u.page + 1 \in Nat
    BY <1>1
  <2> QED BY ONLY <1>4, <1>5, <1>6, <2>1 DEF Workers
<1> QED BY <1>1, <1>3, <1>7 DEF WorkerOK

(* How one page changes a run's worker: y is the list after the page, x what   *)
(* the worker does next.  A list that goes on has not ended badly; one that is *)
(* done is complete when its summary says succeeded.                           *)
ListAdvances(i, x, y) ==
  /\ WorkerOK(x) /\ WorkerOK(y) /\ y.pc = "list" /\ y.conn = w[i].conn /\ y.sums = w[i].sums
  /\ y.todo = w[i].todo /\ y.jobs = w[i].jobs
  /\ \/ x = y /\ (SumsOK(w[i]) => y.sum.status \in {"succeeded", "succeeded_with_warnings"})
     \/ /\ x = ListDone(i, y) /\ (y.sum.status = "succeeded" => y.sum.complete)
        /\ SumsOK(w[i]) => y.sum.status # "none"

(* The summaries a page may leave are typed, and only a complete one still     *)
(* says succeeded at the end of a list.                                        *)
LEMMA ReadSummaryOK ==
  ASSUME NEW u, WorkerOK(u), NEW o, NEW rs, IsFiniteSet(rs), NEW bad, IsFiniteSet(bad), NEW i,
         NEW read, read = ReadSummary(u, o, rs, bad)
  PROVE  /\ read \in Summaries /\ [read EXCEPT !.complete = TRUE] \in Summaries
         /\ CapSummary(i, u, read) \in Summaries
         /\ CapSummary(i, u, read).status = "succeeded" => CapSummary(i, u, read).complete
         /\ [read EXCEPT !.complete = TRUE].complete
         /\ u.sum.status \in {"succeeded", "succeeded_with_warnings"} =>
              /\ read.status \in {"succeeded", "succeeded_with_warnings"}
              /\ [read EXCEPT !.complete = TRUE].status # "none" /\ CapSummary(i, u, read).status # "none"
<1> DEFINE n == u.sum.ok + Cardinality(rs)
           b == u.sum.bad + Cardinality(bad)
           a == [u.sum EXCEPT !.ok = n, !.bad = b]
<1>1. u.sum \in Summaries /\ Cardinality(rs) \in Nat /\ Cardinality(bad) \in Nat
  BY FS_CardinalityType DEF WorkerOK, Workers
<1>2. a \in Summaries /\ a.status = u.sum.status
  <2>1. n \in Nat /\ b \in Nat
    BY <1>1 DEF Summaries
  <2> HIDE DEF n, b
  <2> QED BY ONLY <1>1, <2>1 DEF Summaries
<1>3. read = IF o = "retried" THEN Warned(a) ELSE a
  BY DEF ReadSummary
<1> HIDE DEF a
<1>4. read \in Summaries
  BY <1>2, <1>3, SummariesAreTyped
<1>5. [read EXCEPT !.complete = TRUE] \in Summaries /\ [read EXCEPT !.complete = TRUE].complete
  BY <1>4 DEF Summaries
<1>6. Warned(read) \in Summaries /\ Warned(read).status # "succeeded"
  BY <1>4, SummariesAreTyped DEF Warned, Summaries
<1>7. CapSummary(i, u, read) \in {[read EXCEPT !.complete = TRUE], Warned(read)}
  BY DEF CapSummary
<1>8. u.sum.status \in {"succeeded", "succeeded_with_warnings"} =>
         read.status \in {"succeeded", "succeeded_with_warnings"}
  BY <1>2, <1>3 DEF Warned, Summaries
<1>9. /\ [read EXCEPT !.complete = TRUE].status = read.status
      /\ read.status # "none" => Warned(read).status # "none"
  BY <1>4 DEF Warned, Summaries
<1> QED BY <1>4, <1>5, <1>6, <1>7, <1>8, <1>9

(* A page that is not read.                                                    *)
LEMMA UnreadPageAdvances ==
  ASSUME SourcesOK, WorkersOK, NEW i \in Runs, w[i].pc = "list", NEW o, NEW page, UnreadPage(i, o, page)
  PROVE  /\ \E x, y : w' = [w EXCEPT ![i] = x] /\ ListAdvances(i, x, y)
         /\ db' = db /\ items' = [items EXCEPT ![i].pages = @ + 1]
         /\ gap' \subseteq gap \cup {w[i].conn}
<1> DEFINE u == w[i]
           a == UnreadSummary(i, u, o, page)
           sum == IF o = "retried" THEN Warned(a) ELSE a
           y == [u EXCEPT !.sum = sum]
           x == ListDone(i, y)
<1>1. WorkerOK(u) /\ u.pc = "list" /\ u.sum \in Summaries
  BY DEF WorkersOK, WorkerOK, Workers
<1>2. /\ w' = [w EXCEPT ![i] = x] /\ db' = db /\ items' = [items EXCEPT ![i].pages = @ + 1]
      /\ gap' \subseteq gap \cup {u.conn}
  BY DEF UnreadPage
<1>3. (sum.status = "succeeded" => sum.complete) /\ (SumsOK(u) => sum.status # "none")
  <2>1. sum.status = "succeeded" => sum = a
    BY DEF Warned
  <2>2. sum.status = "none" => a.status = "none"
    BY <1>1 DEF Warned
  <2>3. /\ a.status = IF Broken(o) THEN "failed"
             ELSE IF Repeated(u, page) \/ (page = <<>> /\ ~NaturalEnd(u, o)) THEN "partial" ELSE u.sum.status
        /\ a.complete = (~Broken(o) /\ ~Repeated(u, page) /\ (page = <<>> => NaturalEnd(u, o)))
    BY <1>1 DEF UnreadSummary, Summaries
  <2>4. SumsOK(u) => u.sum.status # "none"
    BY <1>1 DEF SumsOK
  <2> QED BY <2>1, <2>2, <2>3, <2>4
<1> HIDE DEF sum
<1>4. /\ WorkerOK(y) /\ y.pc = "list" /\ y.conn = u.conn /\ y.todo = u.todo /\ y.jobs = u.jobs
      /\ y.sums = u.sums /\ y.sum = sum
  BY <1>1, UnreadListOK DEF sum
<1> HIDE DEF y, u
<1>5. WorkerOK(x)
  BY <1>4, ListDoneOK
<1>6. ListAdvances(i, x, y)
  BY <1>3, <1>4, <1>5 DEF ListAdvances, u
<1> HIDE DEF x
<1> QED BY <1>2, <1>6 DEF u

(* A page that is read: what was selected and did not fail is stored.          *)
PageStores(i, rs) ==
  db' = [r \in Records |-> IF r \in rs THEN Recorded(r, db[r], ListedPayload(i, w[i], r)) ELSE db[r]]

LEMMA ReadPageAdvances ==
  ASSUME SourcesOK, WorkersOK, NEW i \in Runs, w[i].pc = "list", NEW o,
         NEW page \in Seq(Records), ToSet(page) \subseteq Listed(w[i].conn),
         NEW bad, bad \subseteq Selected(i, w[i], page), ReadPage(i, o, page, bad)
  PROVE  /\ \E x, y : w' = [w EXCEPT ![i] = x] /\ ListAdvances(i, x, y)
         /\ \E rs \in SUBSET Listed(w[i].conn) : \E n \in Nat, b \in Nat :
              /\ PageStores(i, rs)
              /\ items' = [items EXCEPT ![i].ok = @ + n, ![i].bad = @ + b, ![i].pages = @ + 1]
         /\ gap' \subseteq gap \cup {w[i].conn}
<1> DEFINE u == w[i]
           c == u.conn
           rs == Selected(i, u, page) \ bad
           fresh == {r \in rs : ItemStatus(r, db[r], ListedPayload(i, u, r)) # "duplicate"}
           known == KnownPages(i, u, rs)
           floor == u.floor \/ \A k \in DOMAIN page : page[k] \in plan.old
           stop == KnownBoundary(i, u, known, floor) \/ (Shape(c).ends /\ u.page >= Pages(c))
           last == u.page >= Cap(i, c)
           read == ReadSummary(u, o, rs, bad)
           full == [read EXCEPT !.complete = TRUE]
           sum == IF stop THEN full ELSE IF last THEN CapSummary(i, u, read) ELSE read
           y == [u EXCEPT !.prev = page, !.known = known, !.floor = floor, !.page = @ + 1, !.sum = sum,
                          !.cands = NewCandidates(@, page, fresh)]
           x == IF stop \/ last THEN ListDone(i, y) ELSE y
<1>1. WorkerOK(u) /\ u.pc = "list" /\ u.known \in Nat /\ u.floor \in BOOLEAN
  BY DEF WorkersOK, WorkerOK, Workers
<1>2. /\ db' = [r \in Records |-> IF r \in rs THEN Recorded(r, db[r], ListedPayload(i, u, r)) ELSE db[r]]
      /\ items' = [items EXCEPT ![i].ok = @ + Cardinality(rs), ![i].bad = @ + Cardinality(bad), ![i].pages = @ + 1]
      /\ w' = [w EXCEPT ![i] = x]
      /\ gap' \subseteq gap \cup {c}
  BY DEF ReadPage
<1>3. rs \in SUBSET Listed(c) /\ IsFiniteSet(rs) /\ IsFiniteSet(bad)
  <2>1. IsFiniteSet(ToSet(page)) /\ Selected(i, u, page) \subseteq ToSet(page)
    BY PageIsFinite DEF Selected
  <2>2. rs \in SUBSET ToSet(page) /\ bad \in SUBSET ToSet(page)
    BY <2>1
  <2> QED BY <2>1, <2>2, FS_Subset
<1>4. known \in Nat
  BY <1>1 DEF KnownPages
<1>5. floor \in BOOLEAN
  BY <1>1
<1> HIDE DEF rs, known, floor
<1>6. /\ read \in Summaries /\ full \in Summaries /\ CapSummary(i, u, read) \in Summaries
      /\ CapSummary(i, u, read).status = "succeeded" => CapSummary(i, u, read).complete
      /\ full.complete
      /\ u.sum.status \in {"succeeded", "succeeded_with_warnings"} =>
           /\ read.status \in {"succeeded", "succeeded_with_warnings"}
           /\ full.status # "none" /\ CapSummary(i, u, read).status # "none"
  <2> HIDE DEF u
  <2> QED BY <1>1, <1>3, ReadSummaryOK
<1> HIDE DEF read, full, stop, last
<1>7. /\ sum \in Summaries /\ (stop \/ last => (sum.status = "succeeded" => sum.complete))
      /\ ~(stop \/ last) => sum = read
      /\ u.sum.status \in {"succeeded", "succeeded_with_warnings"} => sum.status # "none"
  BY <1>6
<1> HIDE DEF sum, fresh
<1>8. /\ WorkerOK(y) /\ y.pc = "list" /\ y.conn = u.conn /\ y.todo = u.todo /\ y.jobs = u.jobs
      /\ y.sums = u.sums /\ y.sum = sum
  <2>1. ToSet(page) \subseteq Listed(u.conn) /\ page \in Seq(Records) /\ SourcesOK
    OBVIOUS
  <2>2. y = AfterPage(u, page, known, floor, sum, fresh)
    BY DEF AfterPage
  <2> HIDE DEF u, y
  <2> QED BY ONLY <1>1, <1>4, <1>5, <1>7, <2>1, <2>2, ReadListOK
<1> HIDE DEF y
<1>9. ListAdvances(i, x, y)
  <2>1. CASE stop \/ last
    <3>1. x = ListDone(i, y)
      BY <2>1
    <3>2. WorkerOK(x)
      BY <1>8, <3>1, ListDoneOK
    <3>3. SumsOK(u) => u.sum.status \in {"succeeded", "succeeded_with_warnings"}
      BY <1>1 DEF SumsOK
    <3> QED BY <1>7, <1>8, <2>1, <3>1, <3>2, <3>3 DEF ListAdvances
  <2>2. CASE ~(stop \/ last)
    <3>1. x = y
      BY <2>2
    <3>2. SumsOK(u) => u.sum.status \in {"succeeded", "succeeded_with_warnings"}
      BY <1>1 DEF SumsOK
    <3> QED BY <1>6, <1>7, <1>8, <2>2, <3>1, <3>2 DEF ListAdvances
  <2> QED BY <2>1, <2>2
<1>10. Cardinality(rs) \in Nat /\ Cardinality(bad) \in Nat
  BY <1>3, FS_CardinalityType
<1> HIDE DEF x
<1>11. \E z \in SUBSET Listed(w[i].conn) : \E n \in Nat, b \in Nat :
         /\ PageStores(i, z)
         /\ items' = [items EXCEPT ![i].ok = @ + n, ![i].bad = @ + b, ![i].pages = @ + 1]
  BY <1>2, <1>3, <1>10 DEF PageStores
<1>12. gap' \subseteq gap \cup {w[i].conn}
  BY <1>2
<1> QED BY <1>2, <1>9, <1>11, <1>12

(* One page of a list, whatever becomes of it.                                 *)
LEMMA PageAdvances ==
  ASSUME SourcesOK, RowsOK, RunsOK, WorkersOK, NEW i \in Runs, Page(i)
  PROVE  /\ w[i].pc = "list" /\ w[i].conn \in Connectors
         /\ \E x, y : w' = [w EXCEPT ![i] = x] /\ ListAdvances(i, x, y)
         /\ \E rs \in SUBSET Listed(w[i].conn) : PageStores(i, rs)
         /\ items' \in [Runs -> ItemCounts] /\ \A j \in Runs \ {i} : items'[j] = items[j]
         /\ gap' \subseteq Connectors /\ stale' \subseteq stale
         /\ UNCHANGED <<plan, list, content, runs, msgs, conn, settings, form>>
<1> DEFINE u == w[i]
           PageFor(o) == IF o = "blank" THEN <<>> ELSE PageOf(u.conn, u.page)
           Unread(o) == EndsUnread(i, u, o, PageFor(o))
<1>1. /\ u.pc = "list" /\ u.conn \in Connectors /\ u.page \in Nat /\ u.page > 0
  BY DEF Page, WorkersOK, WorkerOK, Workers
<1>2. /\ UNCHANGED <<plan, list, content, runs, msgs, conn, settings, form>> /\ stale' \subseteq stale
  BY DEF Page
<1>3. PICK o : \E bad \in SUBSET (IF Unread(o) THEN {} ELSE Selected(i, u, PageFor(o))) :
         IF Unread(o) THEN UnreadPage(i, o, PageFor(o)) ELSE ReadPage(i, o, PageFor(o), bad)
  BY DEF Page
<1> DEFINE page == PageFor(o)
<1>4. page \in Seq(Records) /\ ToSet(page) \subseteq Listed(u.conn)
  <2>1. <<>> \in Seq(Records) /\ ToSet(<<>>) = {}
    BY DEF ToSet
  <2>2. PageOf(u.conn, u.page) \in Seq(Records) /\ ToSet(PageOf(u.conn, u.page)) \subseteq Listed(u.conn)
    BY <1>1, PageIsListed
  <2> QED BY <2>1, <2>2
<1>5. items \in [Runs -> ItemCounts] /\ gap \subseteq Connectors
  BY DEF RunsOK
<1>6. CASE Unread(o)
  <2>1. UnreadPage(i, o, page)
    BY <1>3, <1>6
  <2> HIDE DEF PageFor
  <2>2. /\ \E x, y : w' = [w EXCEPT ![i] = x] /\ ListAdvances(i, x, y)
        /\ db' = db /\ items' = [items EXCEPT ![i].pages = @ + 1]
        /\ gap' \subseteq gap \cup {w[i].conn}
    BY <1>1, <2>1, UnreadPageAdvances
  <2>3. items' \in [Runs -> ItemCounts] /\ \A j \in Runs \ {i} : items'[j] = items[j]
    BY <1>5, <2>2 DEF ItemCounts
  <2>4. PageStores(i, {})
    BY <2>2 DEF RowsOK, PageStores
  <2>5. \E rs \in SUBSET Listed(w[i].conn) : PageStores(i, rs)
    BY <2>4
  <2> QED BY <1>1, <1>2, <1>5, <2>2, <2>3, <2>5
<1>7. CASE ~Unread(o)
  <2>1. PICK bad : bad \subseteq Selected(i, u, page) /\ ReadPage(i, o, page, bad)
    BY <1>3, <1>7
  <2> HIDE DEF PageFor
  <2>2. /\ \E x, y : w' = [w EXCEPT ![i] = x] /\ ListAdvances(i, x, y)
        /\ \E rs \in SUBSET Listed(w[i].conn) : \E n \in Nat, b \in Nat :
              /\ PageStores(i, rs)
              /\ items' = [items EXCEPT ![i].ok = @ + n, ![i].bad = @ + b, ![i].pages = @ + 1]
        /\ gap' \subseteq gap \cup {w[i].conn}
    BY <1>1, <1>4, <2>1, ReadPageAdvances
  <2>3. items' \in [Runs -> ItemCounts] /\ \A j \in Runs \ {i} : items'[j] = items[j]
    <3>1. PICK n \in Nat, b \in Nat :
            items' = [items EXCEPT ![i].ok = @ + n, ![i].bad = @ + b, ![i].pages = @ + 1]
      BY <2>2
    <3> QED BY <1>5, <3>1 DEF ItemCounts
  <2> QED BY <1>1, <1>2, <1>5, <2>2, <2>3
<1> QED BY <1>6, <1>7

(* One detail page, at either of the two sources that have them later.         *)
LEMMA DetailAdvances ==
  ASSUME SourcesOK, RowsOK, WorkersOK, NEW i \in Runs, HezarehDetail(i) \/ ParsnamadDetail(i)
  PROVE  /\ w[i].pc = "details" /\ w[i].conn \in Connectors /\ Deferred(w[i].conn)
         /\ \E x, o : /\ w' = [w EXCEPT ![i] = x] /\ WorkerOK(x) /\ x.pc \in {"list", "details", "save"}
                      /\ x.sums = NotedSums(w[i], o)
                      /\ x.pc = "list" => x.sum.status = "succeeded"
         /\ \/ db' = db
            \/ \E r \in Records, at \in Contents :
                 /\ r \in plan.home[w[i].conn] /\ Past(at, content[r])
                 /\ db' = [db EXCEPT ![r] = Recorded(r, @, Payload(at, content[r].v))]
         /\ stale' \subseteq stale
         /\ UNCHANGED <<plan, list, content, runs, items, msgs, conn, settings, form, gap>>
<1> DEFINE u == w[i]
           x0 == Head(u.cands)
           p == Payload(x0.at, content[x0.r].v)
<1>1. PICK o, rest : rest \in {<<>>, Tail(u.cands)} /\ DetailPage(i, o, rest)
  BY DEF HezarehDetail, ParsnamadDetail
<1>2. WorkerOK(u) /\ u.pc = "details" /\ u.conn \in Connectors /\ Deferred(u.conn)
      /\ u.cands \in Seq(Sightings(u.conn)) /\ u.cands # <<>>
  BY <1>1 DEF WorkersOK, WorkerOK, DetailPage
<1>3. /\ db' = IF o = "enriched" THEN [db EXCEPT ![x0.r] = Recorded(x0.r, @, p)] ELSE db
      /\ w' = [w EXCEPT ![i] = IF rest = <<>> THEN NextTask(i, AfterDetail(u, o, rest)) ELSE AfterDetail(u, o, rest)]
      /\ stale' \subseteq stale
      /\ UNCHANGED <<plan, list, content, runs, items, msgs, conn, settings, form, gap>>
  BY <1>1 DEF DetailPage, AfterDetail
<1>4. x0 \in Sightings(u.conn)
  BY <1>2
<1>5. x0.r \in Records /\ x0.at \in Contents /\ x0.r \in plan.home[u.conn] /\ Past(x0.at, content[x0.r])
  BY <1>4 DEF Sightings, Candidates
<1>6. \/ db' = db
      \/ \E r \in Records, at \in Contents :
           /\ r \in plan.home[w[i].conn] /\ Past(at, content[r])
           /\ db' = [db EXCEPT ![r] = Recorded(r, @, Payload(at, content[r].v))]
  <2>1. CASE o = "enriched"
    <3>1. db' = [db EXCEPT ![x0.r] = Recorded(x0.r, @, Payload(x0.at, content[x0.r].v))]
      BY <1>3, <2>1
    <3> HIDE DEF x0
    <3> QED BY <1>5, <3>1
  <2>2. CASE o # "enriched"
    BY <1>3, <2>2
  <2> QED BY <2>1, <2>2
<1> DEFINE v == AfterDetail(u, o, rest)
           x == IF rest = <<>> THEN NextTask(i, v) ELSE v
<1>7. /\ WorkerOK(x) /\ x.pc \in {"list", "details", "save"}
      /\ x.sums = NotedSums(u, o)
      /\ x.pc = "list" => x.sum.status = "succeeded"
  <2>1. SourcesOK
    OBVIOUS
  <2> HIDE DEF u
  <2> QED BY ONLY <1>1, <1>2, <2>1, DetailDoneOK
<1>8. w' = [w EXCEPT ![i] = x]
  BY <1>3
<1> HIDE DEF x, p, x0
<1>9. \E z, q : /\ w' = [w EXCEPT ![i] = z] /\ WorkerOK(z) /\ z.pc \in {"list", "details", "save"}
                /\ z.sums = NotedSums(w[i], q)
                /\ z.pc = "list" => z.sum.status = "succeeded"
  BY <1>7, <1>8
<1> QED BY <1>2, <1>3, <1>6, <1>9

-----------------------------------------------------------------------------
(* What the sources show, and what is stored of it.                            *)

(* An edit only counts up.                                                     *)
LEMMA EditCountsUp ==
  ASSUME SourcesOK, Edit
  PROVE  content' \in [Records -> Contents] /\ \A r \in Records : Past(content[r], content'[r])
<1>1. content \in [Records -> Contents]
  BY DEF SourcesOK
<1>2. PICK q \in Records, f \in {"v", "dl", "tick"} : content' = [content EXCEPT ![q][f] = @ + 1]
  BY DEF Edit
<1>3. content' = [content EXCEPT ![q] = [content[q] EXCEPT ![f] = content[q][f] + 1]]
  BY <1>2
<1> DEFINE new == [content[q] EXCEPT ![f] = content[q][f] + 1]
<1>4. new \in Contents /\ Past(content[q], new)
  <2>1. CASE f = "v"
    BY <1>1, <2>1 DEF Contents, Past
  <2>2. CASE f = "dl"
    BY <1>1, <2>2 DEF Contents, Past
  <2>3. CASE f = "tick"
    BY <1>1, <2>3 DEF Contents, Past
  <2> QED BY <2>1, <2>2, <2>3
<1>5. \A r \in Records : Past(content[r], content[r])
  BY <1>1 DEF Contents, Past
<1>6. content' = [content EXCEPT ![q] = new]
  BY <1>3
<1> HIDE DEF new
<1>7. content' \in [Records -> Contents]
  BY <1>1, <1>4, <1>6
<1>8. \A r \in Records : Past(content[r], content'[r])
  BY <1>1, <1>4, <1>5, <1>6
<1> QED BY <1>7, <1>8

(* The steps that leave the sources and what is stored of them alone.          *)
Elsewhere == UNCHANGED <<plan, list, content, db>>
Aside ==
  \/ Validate \/ Switch \/ DueArrives \/ TimePasses \/ CreateManual \/ DispatchDue \/ RecoverStale
  \/ \E i \in Runs : Stop(i) \/ LoseMessage(i) \/ RunExtraction(i) \/ Save(i)
  \/ AccNext
Reading == \E i \in Runs : Page(i) \/ HezarehDetail(i) \/ ParsnamadDetail(i)

(* Every step leaves them alone, is of a source, or reads one.                *)
LEMMA StepsSplit == [Next]_vars => UNCHANGED vars \/ Aside \/ Publish \/ Edit \/ Reading
  BY DEF Next, Outside, Faults, Tables, Worker, Aside, Reading

(* The steps aside do what their name says.                                   *)
LEMMA AsideIsElsewhere == Aside => Elsewhere
<1> SUFFICES ASSUME Aside PROVE Elsewhere
  OBVIOUS
<1>1. CASE Validate \/ Switch \/ DueArrives \/ TimePasses \/ CreateManual \/ DispatchDue \/ RecoverStale
  BY <1>1 DEF Validate, Switch, DueArrives, TimePasses, CreateManual, DispatchDue, RecoverStale, Elsewhere
<1>2. CASE \E i \in Runs : Stop(i) \/ LoseMessage(i) \/ RunExtraction(i) \/ Save(i)
  BY <1>2 DEF Stop, LoseMessage, RunExtraction, Save, Elsewhere
<1>3. CASE AccNext
  BY <1>3 DEF AccNext, Task, Dispatch, Resave, StartAcceptance, Prepare, CheckConnector, TestConnector,
              Judge, Finish, Fatal, Die, Elsewhere, extVars
<1> QED BY <1>1, <1>2, <1>3 DEF Aside

(* Only a record of the connector is put at the head of its list.              *)
LEMMA SourcesKept ==
  ASSUME SourcesOK, [Next]_vars
  PROVE  SourcesOK'
<1>1. CASE UNCHANGED vars \/ Aside
  <2>1. UNCHANGED <<plan, list, content>>
    BY <1>1, AsideIsElsewhere DEF vars, extVars, Elsewhere
  <2> QED BY <2>1 DEF SourcesOK, Listed
<1>2. CASE Publish
  <2>1. PICK r \in Records, c \in Connectors :
          /\ r \in plan.home[c] /\ list' = [list EXCEPT ![c] = <<r>> \o @] /\ UNCHANGED <<plan, content>>
    BY <1>2 DEF Publish
  <2>2. list \in [Connectors -> Seq(Records)] /\ \A e \in Connectors : Listed(e) \subseteq plan.home[e]
    BY DEF SourcesOK
  <2> DEFINE new == <<r>> \o list[c]
  <2>3. new \in Seq(Records) /\ ToSet(new) \subseteq ToSet(list[c]) \cup {r}
    <3>1. <<r>> \in Seq(Records) /\ list[c] \in Seq(Records) /\ Len(<<r>>) = 1 /\ <<r>>[1] = r
      BY <2>2
    <3>2. new \in Seq(Records) /\ Len(new) = 1 + Len(list[c])
      BY <3>1
    <3>3. \A k \in 1..Len(new) : new[k] = r \/ (k - 1 \in 1..Len(list[c]) /\ new[k] = list[c][k - 1])
      BY <3>1, <3>2
    <3> HIDE DEF new
    <3> QED BY <3>1, <3>2, <3>3 DEF ToSet
  <2>4. list' = [list EXCEPT ![c] = new]
    BY <2>1
  <2> HIDE DEF new
  <2>5. list' \in [Connectors -> Seq(Records)]
    BY <2>2, <2>3, <2>4
  <2>6. ASSUME NEW e \in Connectors PROVE ToSet(list'[e]) \subseteq plan.home[e]
    BY <2>1, <2>2, <2>3, <2>4 DEF Listed
  <2> QED BY <2>1, <2>5, <2>6 DEF SourcesOK, Listed
<1>3. CASE Edit
  <2>1. content' \in [Records -> Contents]
    BY <1>3, EditCountsUp
  <2>2. UNCHANGED <<plan, list>>
    BY <1>3 DEF Edit
  <2> QED BY <2>1, <2>2 DEF SourcesOK, Listed
<1>4. CASE Reading
  <2>1. ASSUME NEW i \in Runs, Page(i) PROVE UNCHANGED <<plan, list, content>>
    BY <2>1 DEF Page
  <2>2. ASSUME NEW i \in Runs, HezarehDetail(i) \/ ParsnamadDetail(i)
        PROVE  UNCHANGED <<plan, list, content>>
    BY <2>2 DEF HezarehDetail, ParsnamadDetail, DetailPage
  <2>3. UNCHANGED <<plan, list, content>>
    BY <1>4, <2>1, <2>2 DEF Reading
  <2> QED BY <2>3 DEF SourcesOK, Listed
<1> QED BY <1>1, <1>2, <1>3, <1>4, StepsSplit

(* A worker's reading stores payloads the source has shown, of records of its  *)
(* connector: no older countdown, and no older detail for a run that asks for  *)
(* details.                                                                    *)
Writes(i, r, p) ==
  /\ db'[r] = Recorded(r, db[r], p) /\ Past(p, content[r]) /\ p.d <= content[r].v
  /\ p.d > 0 => Deferred(w[i].conn) /\ r \in plan.home[w[i].conn]
  /\ r \in Countdown => db[r].raw.tick <= p.tick
  /\ runs[i].details => db[r].raw.d <= p.d

LEMMA ReadingWrites ==
  ASSUME SourcesOK, RowsOK, RunsOK, WorkersOK, NEW i \in Runs, Page(i) \/ HezarehDetail(i) \/ ParsnamadDetail(i),
         NEW r \in Records, db'[r] # db[r]
  PROVE  \E p \in Hashes : Writes(i, r, p)
<1>1. /\ content[r] \in Contents /\ db[r] \in RowType /\ db[r].raw \in Hashes
      /\ Past(db[r].raw, content[r]) /\ db[r].raw.d <= content[r].v
      /\ db[r].raw.d > 0 => \E e \in Connectors : Deferred(e) /\ r \in plan.home[e]
  BY DEF SourcesOK, RowsOK, RowOK, RowShape, RowType
<1>2. CASE Page(i)
  <2>1. PICK rs \in SUBSET Listed(w[i].conn) : PageStores(i, rs)
    BY <1>2, PageAdvances
  <2>2. w[i].conn \in Connectors
    BY <1>2, PageAdvances
  <2> DEFINE c == w[i].conn
             d == KeptDetail(i, w[i], r)
             p == ListedPayload(i, w[i], r)
  <2>3. r \in rs /\ db'[r] = Recorded(r, db[r], p)
    BY <2>1 DEF PageStores
  <2>4. r \in plan.home[c]
    BY <2>2, <2>3 DEF SourcesOK
  <2>5. d = (IF Deferred(c) /\ runs[i].details THEN db[r].raw.d ELSE 0) /\ d \in Nat
    BY <1>1 DEF KeptDetail, Hashes
  <2>6. p = [v |-> content[r].v, dl |-> content[r].dl, tick |-> content[r].tick, d |-> d]
    BY DEF ListedPayload, Payload
  <2>7. runs[i].details => db[r].raw.d <= d
    <3>1. ~Deferred(c) => ~(db[r].raw.d > 0)
      <4>1. \A e \in Connectors : r \in plan.home[e] => e = c
        BY <2>2, <2>4, PlanIsTyped
      <4> QED BY <1>1, <4>1
    <3>2. db[r].raw.d \in Nat
      BY <1>1 DEF Hashes
    <3> QED BY <2>5, <3>1, <3>2
  <2> HIDE DEF p, d
  <2>8. p \in Hashes /\ p.d = d /\ Past(p, content[r])
    BY <1>1, <2>5, <2>6 DEF Hashes, Contents, Past
  <2>9. d <= content[r].v /\ (d > 0 => Deferred(c))
    BY <1>1, <2>5 DEF Contents
  <2>10. db[r].raw.tick <= p.tick
    BY <1>1, <2>6 DEF Past
  <2> QED BY <2>3, <2>4, <2>7, <2>8, <2>9, <2>10 DEF Writes
<1>3. CASE HezarehDetail(i) \/ ParsnamadDetail(i)
  <2> DEFINE c == w[i].conn
  <2>1. c \in Connectors /\ Deferred(c)
    BY <1>3, DetailAdvances
  <2>2. \/ db' = db
        \/ \E q \in Records, at \in Contents :
             /\ q \in plan.home[c] /\ Past(at, content[q])
             /\ db' = [db EXCEPT ![q] = Recorded(q, @, Payload(at, content[q].v))]
    BY <1>3, DetailAdvances
  <2>3. PICK q \in Records, at \in Contents :
             /\ q \in plan.home[c] /\ Past(at, content[q])
             /\ db' = [db EXCEPT ![q] = Recorded(q, @, Payload(at, content[q].v))]
    BY <2>2
  <2>4. q = r /\ db'[r] = Recorded(r, db[r], Payload(at, content[r].v))
    BY <2>3 DEF RowsOK
  <2> DEFINE p == Payload(at, content[r].v)
  <2>5. p \in Hashes /\ p.d = content[r].v /\ p.v = at.v /\ p.dl = at.dl /\ p.tick = at.tick
    BY <1>1 DEF Payload, Hashes, Contents
  <2>6. db'[r] = Recorded(r, db[r], p)
    BY <2>4
  <2> HIDE DEF p
  <2>7. Past(p, content[r]) /\ p.d <= content[r].v
    BY <1>1, <2>3, <2>4, <2>5 DEF Past, Contents
  <2>8. r \notin Countdown
    BY <2>1, <2>3, <2>4, PlanIsTyped
  <2> QED BY <1>1, <2>1, <2>3, <2>4, <2>5, <2>6, <2>7, <2>8 DEF Writes
<1> QED BY <1>2, <1>3

(* Every stored row stays of its shape and behind what its source shows.       *)
LEMMA RowsKept ==
  ASSUME SourcesOK, RowsOK, RunsOK, WorkersOK, [Next]_vars
  PROVE  RowsOK'
<1> USE DEF RowOK
<1>1. CASE UNCHANGED vars \/ Aside \/ Publish
  <2>1. UNCHANGED <<plan, content, db>>
    BY <1>1, AsideIsElsewhere DEF vars, extVars, Elsewhere, Publish
  <2> QED BY <2>1 DEF RowsOK, Deferred, Shape
<1>2. CASE Edit
  <2>1. UNCHANGED <<plan, db>> /\ content' \in [Records -> Contents]
        /\ \A r \in Records : Past(content[r], content'[r])
    BY <1>2, EditCountsUp DEF Edit
  <2>2. ASSUME NEW r \in Records
        PROVE  Past(db[r].raw, content'[r]) /\ db[r].raw.d <= content'[r].v
    <3>1. /\ db[r].raw \in Hashes /\ content[r] \in Contents /\ content'[r] \in Contents
          /\ Past(db[r].raw, content[r]) /\ db[r].raw.d <= content[r].v /\ Past(content[r], content'[r])
      BY <2>1 DEF SourcesOK, RowsOK, RowType
    <3> QED BY <3>1 DEF Past, Contents, Hashes
  <2> QED BY <2>1, <2>2 DEF RowsOK, Deferred, Shape
<1>3. CASE Reading
  <2>1. PICK i \in Runs : Page(i) \/ HezarehDetail(i) \/ ParsnamadDetail(i)
    BY <1>3 DEF Reading
  <2>2. UNCHANGED <<plan, content>>
    BY <2>1 DEF Page, HezarehDetail, ParsnamadDetail, DetailPage
  <2>3. db \in [Records -> RowType] /\ \A r \in Records : RowOK(r)
    BY DEF RowsOK
  <2>4. w[i].conn \in Connectors
    BY <2>1, PageAdvances, DetailAdvances
  <2>5. ASSUME NEW r \in Records
        PROVE  /\ RowShape(r, db'[r])
               /\ Past(db'[r].raw, content[r]) /\ db'[r].raw.d <= content[r].v
               /\ db'[r].raw.d > 0 => \E c \in Connectors : Deferred(c) /\ r \in plan.home[c]
    <3>1. CASE db'[r] = db[r]
      BY <2>3, <3>1
    <3>2. CASE db'[r] # db[r]
      <4>1. PICK p \in Hashes : Writes(i, r, p)
        BY <2>1, <3>2, ReadingWrites
      <4>2. RowShape(r, Recorded(r, db[r], p)) /\ Recorded(r, db[r], p).raw = p
        BY <2>3, RecordedIsShaped
      <4> QED BY <2>4, <4>1, <4>2 DEF Writes
    <3> QED BY <3>1, <3>2
  <2>6. DOMAIN db' = Records /\ db' = [r \in DOMAIN db' |-> db'[r]]
    <3>1. CASE Page(i)
      <4>1. PICK rs \in SUBSET Listed(w[i].conn) : PageStores(i, rs)
        BY <3>1, PageAdvances
      <4> QED BY <4>1 DEF PageStores
    <3>2. CASE HezarehDetail(i) \/ ParsnamadDetail(i)
      <4>1. \/ db' = db
            \/ \E q \in Records, at \in Contents :
                 db' = [db EXCEPT ![q] = Recorded(q, @, Payload(at, content[q].v))]
        BY <3>2, DetailAdvances
      <4> QED BY <2>3, <4>1
    <3> QED BY <2>1, <3>1, <3>2
  <2>7. \A r \in Records : db'[r] \in RowType
    BY <2>5 DEF RowShape
  <2>8. db' \in [Records -> RowType]
    BY <2>6, <2>7
  <2> QED BY <2>2, <2>5, <2>8 DEF RowsOK, Deferred, Shape
<1> QED BY <1>1, <1>2, <1>3, StepsSplit

-----------------------------------------------------------------------------
(* The workers.                                                                *)

(* What a worker holds stays true of sources that only count up.               *)
LEMMA WorkersSurvive ==
  ASSUME SourcesOK, SourcesOK', plan' = plan, \A r \in Records : Past(content[r], content'[r])
  PROVE  \A u : WorkerOK(u) => WorkerOK(u)'
<1>1. ASSUME NEW c \in Connectors PROVE Sightings(c) \subseteq Sightings(c)'
  <2>1. ASSUME NEW x \in Sightings(c) PROVE x \in Sightings(c)'
    <3>1. x \in Candidates /\ x.r \in plan.home[c] /\ Past(x.at, content[x.r])
      BY DEF Sightings
    <3>2. x.r \in Records /\ x.at \in Contents
      BY <3>1 DEF Candidates
    <3>3. content[x.r] \in Contents /\ content'[x.r] \in Contents
      BY <3>2 DEF SourcesOK
    <3>4. Past(x.at, content'[x.r])
      BY <3>1, <3>2, <3>3 DEF Past, Contents
    <3> QED BY <3>1, <3>4 DEF Sightings
  <2> QED BY <2>1
<1>2. \A c \in Connectors : Seq(Sightings(c)) \subseteq Seq(Sightings(c)')
  BY <1>1, SeqMonotonic
<1>3. \A c : Deferred(c)' <=> Deferred(c)
  BY DEF Deferred, Shape
<1>4. Jobs \subseteq Jobs'
  <2>1. ASSUME NEW j \in Jobs PROVE j \in Jobs'
    <3>1. /\ j \in [conn : Connectors, cands : Seq(Candidates)] /\ Deferred(j.conn)
          /\ j.cands \in Seq(Sightings(j.conn)) /\ j.cands # <<>>
      BY DEF Jobs
    <3>2. j.conn \in Connectors
      BY <3>1
    <3>3. j.cands \in Seq(Sightings(j.conn)')
      BY <1>2, <3>1, <3>2
    <3>4. Deferred(j.conn)'
      BY <1>3, <3>1
    <3> QED BY <3>1, <3>3, <3>4 DEF Jobs
  <2> QED BY <2>1
<1>5. Seq(Jobs) \subseteq Seq(Jobs')
  BY <1>4, SeqMonotonic
<1>6. Workers \subseteq Workers'
  BY <1>5 DEF Workers
<1> SUFFICES ASSUME NEW u, WorkerOK(u) PROVE WorkerOK(u)'
  OBVIOUS
<1>7. /\ u \in Workers'
      /\ u.pc \in {"list", "details"} => u.conn \in Connectors /\ u.cands \in Seq(Sightings(u.conn)')
      /\ u.pc = "list" => u.page > 0
      /\ u.pc = "details" => Deferred(u.conn)' /\ u.cands # <<>>
  BY <1>2, <1>3, <1>6 DEF WorkerOK
<1> QED BY <1>7 DEF WorkerOK

(* The run that is created next is a free one.                                 *)
LEMMA NextRunIsFree ==
  ASSUME Free # {}
  PROVE  NextRun \in Free /\ NextRun \in Runs /\ runs[NextRun].st = "none"
<1>1. Free \subseteq Nat
  BY RunsAssumption DEF Free
<1>2. \E i \in Free : \A j \in Free : i <= j
  BY <1>1, LeastOf
<1>3. NextRun \in Free
  BY <1>2 DEF NextRun
<1> QED BY <1>3 DEF Free

(* Nothing is summarised when a run begins.                                    *)
NoSums == [c \in Connectors |-> NoSummary]

(* A run that begins takes its first connector, or has nothing to do.          *)
LEMMA BeginAdvances ==
  ASSUME SourcesOK, RunsOK, WorkersOK, NEW i \in Runs, RunExtraction(i)
  PROVE  /\ \E x : /\ w' = [w EXCEPT ![i] = x] /\ WorkerOK(x) /\ x.pc \in {"list", "save"}
                   /\ x.sums = NoSums /\ (x.pc = "list" => x.sum.status = "succeeded")
         /\ i \in msgs /\ w[i].pc = "off"
         /\ runs' = [runs EXCEPT ![i].st = "running"] /\ msgs' = msgs \ {i} /\ stale' = stale \ {i}
         /\ UNCHANGED <<plan, list, content, db, items, conn, settings, form, gap>>
<1> DEFINE runnable == {c \in runs[i].conns : conn[c].enabled}
           done == [Off EXCEPT !.todo = SetToSeq(runnable)]
           x == NextTask(i, done)
<1>1. runnable \subseteq Connectors
  BY DEF RunsOK, RunRecords
<1>2. SetToSeq(runnable) \in Seq(Connectors)
  <2>1. IsFiniteSet(runnable)
    BY <1>1, FS_Subset, ConnectorsAssumption
  <2>2. SetToSeq(runnable) \in Seq(runnable)
    BY <2>1, SetToSeqIsListed
  <2> QED BY <1>1, <2>2, SeqMonotonic
<1>3. /\ w' = [w EXCEPT ![i] = x] /\ i \in msgs /\ w[i].pc = "off"
      /\ runs' = [runs EXCEPT ![i].st = "running"] /\ msgs' = msgs \ {i} /\ stale' = stale \ {i}
      /\ UNCHANGED <<plan, list, content, db, items, conn, settings, form, gap>>
  BY DEF RunExtraction, Begin
<1> HIDE DEF runnable
<1>4. done.todo = SetToSeq(runnable) /\ done.jobs = <<>> /\ done.sums = NoSums
  BY DEF Off, NoSums
<1>5. NoSums \in [Connectors -> Summaries] /\ <<>> \in Seq(Jobs)
  BY SummariesAreTyped DEF NoSums
<1> HIDE DEF done
<1>6. /\ WorkerOK(x) /\ x.pc \in {"list", "details", "save"} /\ x.sums = done.sums
      /\ x.pc = "list" => x.sum.status = "succeeded"
      /\ x.pc = "details" => done.jobs # <<>>
  BY <1>2, <1>4, <1>5, NextTaskOK
<1> HIDE DEF x
<1> QED BY <1>3, <1>4, <1>6

(* The run of a connector under test begins with its list.                     *)
LEMMA TestAdvances ==
  ASSUME SourcesOK, RunsOK, AccOK, TestConnector
  PROVE  LET i == NextRun
             c == Head(acc.todo) IN
         /\ i \in Runs /\ runs[i].st = "none" /\ c \in Connectors
         /\ \E x : /\ w' = [w EXCEPT ![i] = x] /\ WorkerOK(x) /\ x.pc = "list" /\ x.conn = c
                   /\ x.todo = <<>> /\ x.jobs = <<>> /\ x.sums = NoSums /\ x.sum.status = "succeeded"
         /\ runs' = [runs EXCEPT ![i] = [Queued("manual", "range", FALSE, {c}, 0) EXCEPT !.st = "running"]]
         /\ acc.pc = "create" /\ acc' = [acc EXCEPT !.pc = "wait", !.run = i]
         /\ UNCHANGED <<plan, list, content, db, items, msgs, conn, settings, stale, form, gap, report, disp>>
<1> DEFINE i == NextRun
           c == Head(acc.todo)
           x == StartList(i, Off, c)
<1>1. i \in Runs /\ runs[i].st = "none"
  BY NextRunIsFree DEF TestConnector
<1>2. c \in Connectors
  BY DEF AccOK, TestConnector
<1>3. Off \in Workers /\ Off.todo = <<>> /\ Off.jobs = <<>> /\ Off.sums = NoSums
  <2>1. NoSums \in [Connectors -> Summaries]
    BY SummariesAreTyped DEF NoSums
  <2> QED BY <2>1, OffIsTyped DEF Off, NoSums
<1>4. /\ w' = [w EXCEPT ![i] = x]
      /\ runs' = [runs EXCEPT ![i] = [Queued("manual", "range", FALSE, {c}, 0) EXCEPT !.st = "running"]]
      /\ acc.pc = "create" /\ acc' = [acc EXCEPT !.pc = "wait", !.run = i]
      /\ UNCHANGED <<plan, list, content, db, items, msgs, conn, settings, stale, form, gap, report, disp>>
  BY DEF TestConnector
<1> HIDE DEF i, c
<1>5. /\ WorkerOK(x) /\ x.pc = "list" /\ x.conn = c /\ x.sum.status = "succeeded"
      /\ x.todo = Off.todo /\ x.jobs = Off.jobs /\ x.sums = Off.sums
  BY <1>2, <1>3, StartListOK
<1> HIDE DEF x
<1>6. \E z : /\ w' = [w EXCEPT ![i] = z] /\ WorkerOK(z) /\ z.pc = "list" /\ z.conn = c
             /\ z.todo = <<>> /\ z.jobs = <<>> /\ z.sums = NoSums /\ z.sum.status = "succeeded"
  BY <1>3, <1>4, <1>5
<1> QED BY <1>1, <1>2, <1>4, <1>6 DEF i, c

(* The worker that is off is well formed, with or without summaries.           *)
LEMMA OffIsOK ==
  ASSUME NEW sums \in [Connectors -> Summaries]
  PROVE  /\ WorkerOK(Off) /\ Off.pc = "off" /\ Off.sums = NoSums
         /\ WorkerOK([Off EXCEPT !.sums = sums])
         /\ [Off EXCEPT !.sums = sums].pc = "off" /\ [Off EXCEPT !.sums = sums].sums = sums
  BY OffIsTyped DEF WorkerOK, Off, NoSums

(* Nothing summarised, nothing to do.                                          *)
LEMMA IdleIsOK == NoSums \in [Connectors -> Summaries] /\ WorkerOK(Off)
<1>1. NoSums \in [Connectors -> Summaries]
  BY SummariesAreTyped DEF NoSums
<1> QED BY <1>1, OffIsOK

(* A step leaves the workers alone, or moves one to a well-formed state.       *)
LEMMA WorkersMove ==
  ASSUME SourcesOK, RowsOK, RunsOK, WorkersOK, AccOK, [Next]_vars
  PROVE  \/ w' = w
         \/ UNCHANGED <<plan, content>> /\ \E i \in Runs : \E x : w' = [w EXCEPT ![i] = x] /\ WorkerOK(x)
<1>1. CASE UNCHANGED vars \/ Publish \/ Edit
  BY <1>1 DEF vars, extVars, Publish, Edit
<1>2. CASE Validate \/ Switch \/ DueArrives \/ TimePasses \/ CreateManual \/ DispatchDue \/ RecoverStale
  BY <1>2 DEF Validate, Switch, DueArrives, TimePasses, CreateManual, DispatchDue, RecoverStale
<1>3. ASSUME NEW i \in Runs, Stop(i) \/ LoseMessage(i)
      PROVE  w' = w \/ (UNCHANGED <<plan, content>> /\ \E x : w' = [w EXCEPT ![i] = x] /\ WorkerOK(x))
  <2>1. w' = w \/ w' = [w EXCEPT ![i] = Off]
    BY <1>3 DEF Stop, LoseMessage
  <2>2. UNCHANGED <<plan, content>>
    BY <1>3 DEF Stop, LoseMessage
  <2>3. WorkerOK(Off)
    BY IdleIsOK
  <2> QED BY <2>1, <2>2, <2>3
<1>4. ASSUME NEW i \in Runs, RunExtraction(i)
      PROVE  UNCHANGED <<plan, content>> /\ \E x : w' = [w EXCEPT ![i] = x] /\ WorkerOK(x)
  BY <1>4, BeginAdvances
<1>5. ASSUME NEW i \in Runs, Save(i)
      PROVE  UNCHANGED <<plan, content>> /\ \E x : w' = [w EXCEPT ![i] = x] /\ WorkerOK(x)
  <2> DEFINE sums == w[i].sums
             x == [Off EXCEPT !.sums = sums]
  <2>1. sums \in [Connectors -> Summaries]
    BY DEF WorkersOK, Workers
  <2>2. w' = [w EXCEPT ![i] = x] /\ UNCHANGED <<plan, content>>
    BY <1>5 DEF Save
  <2> HIDE DEF sums
  <2>3. WorkerOK(x)
    BY <2>1, OffIsOK
  <2> HIDE DEF x
  <2> QED BY <2>2, <2>3
<1>6. CASE Reading
  <2>1. PICK i \in Runs : Page(i) \/ HezarehDetail(i) \/ ParsnamadDetail(i)
    BY <1>6 DEF Reading
  <2>2. UNCHANGED <<plan, content>> /\ \E x : w' = [w EXCEPT ![i] = x] /\ WorkerOK(x)
    <3>1. CASE Page(i)
      <4>1. UNCHANGED <<plan, content>> /\ \E x, y : w' = [w EXCEPT ![i] = x] /\ ListAdvances(i, x, y)
        BY <3>1, PageAdvances
      <4> QED BY <4>1 DEF ListAdvances
    <3>2. CASE HezarehDetail(i) \/ ParsnamadDetail(i)
      BY <3>2, DetailAdvances
    <3> QED BY <2>1, <3>1, <3>2
  <2> QED BY <2>2
<1>7. CASE Dispatch \/ Resave \/ StartAcceptance \/ Prepare \/ CheckConnector \/ Judge \/ Finish \/ Fatal
  BY <1>7 DEF Dispatch, Resave, StartAcceptance, Prepare, CheckConnector, Judge, Finish, Fatal, extVars
<1>8. CASE TestConnector
  BY <1>8, TestAdvances
<1>9. CASE Die
  <2>1. w' = w \/ (acc.pc = "wait" /\ w' = [w EXCEPT ![acc.run] = Off])
    BY <1>9 DEF Die
  <2>2. acc.pc = "wait" => acc.run \in Runs
    BY DEF AccOK
  <2>3. UNCHANGED <<plan, content>>
    BY <1>9 DEF Die
  <2>4. WorkerOK(Off)
    BY IdleIsOK
  <2> QED BY <2>1, <2>2, <2>3, <2>4
<1>10. CASE Aside
  <2>1. CASE \E i \in Runs : Stop(i) \/ LoseMessage(i) \/ RunExtraction(i) \/ Save(i)
    BY <1>3, <1>4, <1>5, <2>1
  <2>2. CASE AccNext
    BY <1>7, <1>8, <1>9, <2>2 DEF AccNext, Task
  <2> QED BY <1>2, <1>10, <2>1, <2>2 DEF Aside
<1> QED BY <1>1, <1>6, <1>10, StepsSplit

(* Every worker stays well formed.                                             *)
LEMMA WorkersKept ==
  ASSUME SourcesOK, RowsOK, RunsOK, WorkersOK, AccOK, [Next]_vars
  PROVE  WorkersOK'
<1>1. SourcesOK'
  BY SourcesKept
<1>2. plan' = plan /\ \A r \in Records : Past(content[r], content'[r])
  <2>1. \A r \in Records : Past(content[r], content[r])
    BY DEF SourcesOK, Contents, Past
  <2>2. CASE Edit
    BY <2>2, EditCountsUp DEF Edit
  <2>3. CASE UNCHANGED vars \/ Aside \/ Publish \/ Reading
    <3>1. UNCHANGED <<plan, content>>
      BY <2>3, AsideIsElsewhere
         DEF vars, extVars, Elsewhere, Publish, Reading, Page, HezarehDetail, ParsnamadDetail, DetailPage
    <3> QED BY <2>1, <3>1
  <2> QED BY <2>2, <2>3, StepsSplit
<1>3. \A u : WorkerOK(u) => WorkerOK(u)'
  BY <1>1, <1>2, WorkersSurvive
<1>4. w \in [Runs -> Workers] /\ \A i \in Runs : WorkerOK(w[i])
  BY DEF WorkersOK
<1>5. /\ DOMAIN w' = Runs /\ w' = [i \in DOMAIN w' |-> w'[i]]
      /\ \A i \in Runs : WorkerOK(w'[i])
  <2>1. CASE w' = w
    BY <1>4, <2>1
  <2>2. CASE \E i \in Runs : \E x : w' = [w EXCEPT ![i] = x] /\ WorkerOK(x)
    BY <1>4, <2>2
  <2> QED BY <2>1, <2>2, WorkersMove
<1>6. \A u : WorkerOK(u)' => u \in Workers'
  BY DEF WorkerOK
<1>7. \A i \in Runs : \A u : u = w'[i] => WorkerOK(u)'
  BY <1>3, <1>5
<1>8. w' \in [Runs -> Workers']
  BY <1>5, <1>6, <1>7
<1> QED BY <1>7, <1>8 DEF WorkersOK

-----------------------------------------------------------------------------
(* The acceptance of connectors.                                               *)

(* What a verdict writes.                                                      *)
LEMMA VerdictSays ==
  ASSUME AccOK, NEW c \in Connectors, NEW v \in Verdicts, Verdict(c, v), acc.todo # <<>>
  PROVE  /\ acc' = [acc EXCEPT !.pc = "next", !.todo = Tail(acc.todo), !.run = 0, !.of = [acc.of EXCEPT ![c] = v]]
         /\ acc'.pc = "next" /\ acc'.todo = Tail(acc.todo) /\ acc'.of = [acc.of EXCEPT ![c] = v]
         /\ acc'.of \in [Connectors -> Verdicts]
         /\ acc' \in [pc : {"off", "sent", "prepare", "next", "create", "wait", "done", "dead"}, was : BOOLEAN,
                      todo : Seq(Connectors), run : Runs \cup {0}, of : [Connectors -> Verdicts]]
         /\ report' = [st |-> "running", of |-> acc'.of]
<1> DEFINE of == [acc.of EXCEPT ![c] = v]
<1>1. /\ acc' = [acc EXCEPT !.pc = "next", !.todo = Tail(@), !.run = 0, !.of = of]
      /\ report' = [st |-> "running", of |-> of]
  BY DEF Verdict
<1>2. of \in [Connectors -> Verdicts]
  BY DEF AccOK
<1>3. acc.todo \in Seq(Connectors) /\ Tail(acc.todo) \in Seq(Connectors)
  BY DEF AccOK
<1> HIDE DEF of
<1>4. /\ acc' = [acc EXCEPT !.pc = "next", !.todo = Tail(acc.todo), !.run = 0, !.of = of]
      /\ acc'.pc = "next" /\ acc'.todo = Tail(acc.todo) /\ acc'.of = of
      /\ acc' \in [pc : {"off", "sent", "prepare", "next", "create", "wait", "done", "dead"}, was : BOOLEAN,
                   todo : Seq(Connectors), run : Runs \cup {0}, of : [Connectors -> Verdicts]]
  BY <1>1, <1>2, <1>3 DEF AccOK
<1> QED BY <1>1, <1>2, <1>4 DEF of

(* The connector that is judged, the verdict, and what is left of the run.     *)
LEMMA JudgeSays ==
  ASSUME AccOK, Judge
  PROVE  /\ acc.pc = "wait" /\ acc.run \in Runs /\ w[acc.run].pc = "off"
         /\ acc.todo # <<>> /\ Head(acc.todo) \in Connectors
         /\ runs' = [runs EXCEPT ![acc.run] = Settled(acc.run)]
         /\ \E v \in Verdicts : /\ Verdict(Head(acc.todo), v)
                                /\ v = "passed" => VerdictOf(Settled(acc.run), items[acc.run]) = "passed"
         /\ UNCHANGED <<plan, list, content, db, items, msgs, w, conn, settings, stale, form, gap, disp>>
<1> DEFINE i == acc.run
           c == Head(acc.todo)
           v == VerdictOf(Settled(i), items[i])
<1>1. acc.pc = "wait" /\ i \in Runs /\ w[i].pc = "off" /\ acc.todo # <<>> /\ c \in Connectors
  BY DEF AccOK, Judge
<1>2. /\ runs' = [runs EXCEPT ![i] = Settled(i)]
      /\ UNCHANGED <<plan, list, content, db, items, msgs, w, conn, settings, stale, form, gap, disp>>
  BY DEF Judge
<1>3. PICK pass \in ProbesPass(c) : Verdict(c, IF v = "passed" /\ ~pass THEN "warning" ELSE v)
  BY DEF Judge
<1>4. v \in Verdicts
  BY DEF VerdictOf, Verdicts
<1> HIDE DEF v
<1>5. \E x \in Verdicts : Verdict(c, x) /\ (x = "passed" => v = "passed")
  <2>1. CASE v = "passed" /\ ~pass
    <3>1. Verdict(c, "warning") /\ "warning" \in Verdicts
      BY <1>3, <2>1 DEF Verdicts
    <3> QED BY <3>1
  <2>2. CASE ~(v = "passed" /\ ~pass)
    <3>1. Verdict(c, v)
      BY <1>3, <2>2
    <3> QED BY <1>4, <3>1
  <2> QED BY <2>1, <2>2
<1> QED BY <1>1, <1>2, <1>5 DEF v

(* What the check of the next connector writes.                                *)
LEMMA CheckSays ==
  ASSUME AccOK, RunsOK, CheckConnector
  PROVE  /\ acc.pc = "next" /\ acc.todo # <<>> /\ Head(acc.todo) \in Connectors
         /\ conn' \in [Connectors -> ConnectorRows] /\ Scheduled \subseteq Scheduled'
         /\ \/ Busy({Head(acc.todo)}) # {} /\ Verdict(Head(acc.todo), "blocked")
            \/ Busy({Head(acc.todo)}) = {} /\ acc' = [acc EXCEPT !.pc = "create"] /\ report' = report
         /\ UNCHANGED <<plan, list, content, db, runs, items, msgs, w, settings, stale, form, gap, disp>>
<1> DEFINE c == Head(acc.todo)
<1>1. acc.pc = "next" /\ acc.todo # <<>> /\ c \in Connectors
  BY DEF AccOK, CheckConnector
<1>2. /\ conn' = [conn EXCEPT ![c].enabled = TRUE, ![c].ok = TRUE]
      /\ UNCHANGED <<plan, list, content, db, runs, items, msgs, w, settings, stale, form, gap, disp>>
      /\ \/ Busy({c}) # {} /\ Verdict(c, "blocked")
         \/ Busy({c}) = {} /\ acc' = [acc EXCEPT !.pc = "create"] /\ report' = report
  BY DEF CheckConnector
<1>3. conn \in [Connectors -> ConnectorRows]
  BY DEF RunsOK
<1> HIDE DEF c
<1>4. conn' \in [Connectors -> ConnectorRows] /\ \A e \in Connectors : conn[e].enabled => conn'[e].enabled
  <2> DEFINE yes == TRUE
             a == [conn EXCEPT ![c] = [conn[c] EXCEPT !.enabled = yes]]
             b == [a EXCEPT ![c] = [a[c] EXCEPT !.ok = yes]]
  <2>1. yes \in BOOLEAN /\ yes
    OBVIOUS
  <2>2. conn' = b
    BY <1>1, <1>2, <1>3
  <2> HIDE DEF yes
  <2>3. a \in [Connectors -> ConnectorRows] /\ a[c].enabled = yes /\ \A e \in Connectors : e # c => a[e] = conn[e]
    BY <1>1, <1>3, <2>1 DEF ConnectorRows
  <2> HIDE DEF a
  <2>4. b \in [Connectors -> ConnectorRows] /\ b[c].enabled = a[c].enabled
        /\ \A e \in Connectors : e # c => b[e] = a[e]
    BY <1>1, <2>1, <2>3 DEF ConnectorRows
  <2> HIDE DEF b
  <2> QED BY <2>1, <2>2, <2>3, <2>4
<1>5. Scheduled \subseteq Scheduled'
  BY <1>4 DEF Scheduled
<1> QED BY <1>1, <1>2, <1>4, <1>5 DEF c

(* The acceptance keeps its types.                                             *)
LEMMA AccKept ==
  ASSUME SourcesOK, RunsOK, AccOK, [Next]_vars
  PROVE  AccOK'
<1> DEFINE AccRows == [pc : {"off", "sent", "prepare", "next", "create", "wait", "done", "dead"}, was : BOOLEAN,
                       todo : Seq(Connectors), run : Runs \cup {0}, of : [Connectors -> Verdicts]]
           Reports == [st : Terminal \cup {"none", "queued", "running"}, of : [Connectors -> Verdicts]]
<1>1. /\ acc \in AccRows /\ report \in Reports /\ disp \in {"idle", "sent"}
      /\ acc.pc \in {"create", "wait"} => acc.todo # <<>>
      /\ acc.pc = "wait" => acc.run \in Runs
  BY DEF AccOK
<1>2. /\ acc.pc \in {"off", "sent", "prepare", "next", "create", "wait", "done", "dead"}
      /\ acc.todo \in Seq(Connectors) /\ acc.of \in [Connectors -> Verdicts] /\ acc.run \in Runs \cup {0}
  BY <1>1
<1>3. CASE UNCHANGED accVars
  BY <1>3 DEF accVars, AccOK
<1>4. NoVerdicts \in [Connectors -> Verdicts]
  BY DEF NoVerdicts, Verdicts
<1>5. CASE Dispatch
  <2>1. /\ acc' = [acc EXCEPT !.pc = "sent"] /\ report' = [report EXCEPT !.st = "queued"] /\ disp' = "sent"
    BY <1>5 DEF Dispatch
  <2>2. acc' \in AccRows /\ acc'.pc = "sent" /\ report' \in Reports
    BY <1>1, <2>1
  <2> QED BY <2>1, <2>2 DEF AccOK
<1>6. CASE Resave
  <2>1. UNCHANGED acc /\ report' = [NoReport EXCEPT !.st = "queued"] /\ disp' = "idle"
    BY <1>6 DEF Resave
  <2>2. report' = [st |-> "queued", of |-> NoVerdicts]
    BY <2>1 DEF NoReport
  <2>3. report' \in Reports
    BY <1>4, <2>2
  <2> QED BY <1>1, <2>1, <2>3 DEF AccOK
<1>7. CASE StartAcceptance
  <2>1. /\ acc' = [acc EXCEPT !.pc = "prepare", !.was = settings.enabled]
        /\ report' = [st |-> "running", of |-> acc.of] /\ disp' = disp
    BY <1>7 DEF StartAcceptance
  <2>2. settings.enabled \in BOOLEAN
    BY DEF RunsOK, SettingsRow
  <2>3. acc' \in AccRows /\ acc'.pc = "prepare"
    BY <1>1, <2>1, <2>2
  <2> QED BY <1>1, <1>2, <2>1, <2>3 DEF AccOK
<1>8. CASE Prepare
  <2>1. acc' = [acc EXCEPT !.pc = "next", !.todo = SetToSeq(plan.conns)] /\ UNCHANGED <<report, disp>>
    BY <1>8 DEF Prepare
  <2>2. SetToSeq(plan.conns) \in Seq(Connectors)
    <3>1. plan.conns \subseteq Connectors
      BY PlanIsTyped
    <3>2. IsFiniteSet(plan.conns)
      BY <3>1, FS_Subset, ConnectorsAssumption
    <3>3. SetToSeq(plan.conns) \in Seq(plan.conns)
      BY <3>2, SetToSeqIsListed
    <3> QED BY <3>1, <3>3, SeqMonotonic
  <2>3. acc' \in AccRows /\ acc'.pc = "next"
    BY <1>1, <2>1, <2>2
  <2> QED BY <1>1, <2>1, <2>3 DEF AccOK
<1>9. ASSUME NEW c \in Connectors, NEW v \in Verdicts, Verdict(c, v), acc.todo # <<>>, disp' = disp
      PROVE  AccOK'
  <2>1. /\ acc'.pc = "next" /\ acc'.of \in [Connectors -> Verdicts] /\ acc' \in AccRows
        /\ report' = [st |-> "running", of |-> acc'.of]
    BY <1>9, VerdictSays
  <2>2. report' \in Reports
    BY <2>1
  <2> QED BY <1>1, <1>9, <2>1, <2>2 DEF AccOK
<1>10. CASE CheckConnector
  <2>1. CASE Verdict(Head(acc.todo), "blocked")
    <3>1. "blocked" \in Verdicts
      BY DEF Verdicts
    <3> QED BY <1>9, <1>10, <2>1, <3>1, CheckSays
  <2>2. CASE acc' = [acc EXCEPT !.pc = "create"] /\ report' = report
    <3>1. acc.todo # <<>> /\ disp' = disp
      BY <1>10, CheckSays
    <3>2. acc' \in AccRows /\ acc'.pc = "create" /\ acc'.todo = acc.todo
      BY <1>1, <2>2
    <3> QED BY <1>1, <2>2, <3>1, <3>2 DEF AccOK
  <2> QED BY <1>10, <2>1, <2>2, CheckSays
<1>11. CASE TestConnector
  <2>1. /\ acc.pc = "create" /\ acc' = [acc EXCEPT !.pc = "wait", !.run = NextRun] /\ NextRun \in Runs
        /\ UNCHANGED <<report, disp>>
    BY <1>11, TestAdvances
  <2>2. acc' \in AccRows /\ acc'.todo = acc.todo /\ acc'.run = NextRun
    BY <1>1, <2>1
  <2> QED BY <1>1, <2>1, <2>2 DEF AccOK
<1>12. CASE Judge
  BY <1>9, <1>12, JudgeSays
<1>13. CASE Finish \/ Fatal
  <2>1. /\ acc' = [acc EXCEPT !.pc = "done"] /\ disp' = disp
        /\ \E s \in Terminal : report' = [st |-> s, of |-> acc.of]
    <3>1. \A of : ReportStatus(of) \in Terminal
      BY DEF ReportStatus, Terminal
    <3>2. "failed" \in Terminal
      BY DEF Terminal
    <3> QED BY <1>13, <3>1, <3>2 DEF Finish, Fatal
  <2>2. acc' \in AccRows /\ acc'.pc = "done"
    BY <1>1, <2>1
  <2>3. report' \in Reports
    BY <1>2, <2>1
  <2> QED BY <1>1, <2>1, <2>2, <2>3 DEF AccOK
<1>14. CASE Die
  <2>1. acc' = [acc EXCEPT !.pc = "dead"] /\ UNCHANGED <<report, disp>>
    BY <1>14 DEF Die
  <2>2. acc' \in AccRows /\ acc'.pc = "dead"
    BY <1>1, <2>1
  <2> QED BY <1>1, <2>1, <2>2 DEF AccOK
<1>15. UNCHANGED accVars \/ AccNext
  BY DEF vars, Next
<1> QED BY <1>3, <1>5, <1>6, <1>7, <1>8, <1>10, <1>11, <1>12, <1>13, <1>14, <1>15 DEF AccNext, Task

-----------------------------------------------------------------------------
(* The rows of the runs.                                                       *)

(* What was asked for is never changed; the state and the mark of a recovery   *)
(* are.                                                                        *)
Same(a, b) ==
  a.trig = b.trig /\ a.mode = b.mode /\ a.details = b.details /\ a.conns = b.conns /\ a.cap = b.cap
Restated(row, st) == [row EXCEPT !.st = st]
Marked(row, st) == [row EXCEPT !.st = st, !.closed = TRUE]
Counted(row, st, ok, bad) == [row EXCEPT !.st = st, !.ok = ok, !.bad = bad]

(* A row whose state changes keeps its type and what was asked for.           *)
LEMMA RestatedIsTyped ==
  ASSUME NEW row \in RunRecords, NEW st \in RunStatus, NEW g, g = Restated(row, st)
  PROVE  g \in RunRecords /\ g.st = st /\ Same(g, row) /\ g.closed = row.closed
  BY DEF RunRecords, Restated, Same

(* So does a row that is saved with its counts.                               *)
LEMMA CountedIsTyped ==
  ASSUME NEW row \in RunRecords, NEW st \in RunStatus, NEW ok \in Nat, NEW bad \in Nat,
         NEW g, g = Counted(row, st, ok, bad)
  PROVE  g \in RunRecords /\ g.st = st /\ Same(g, row) /\ g.closed = row.closed
  BY DEF RunRecords, Counted, Same

(* So does a row that a recovery marks.                                       *)
LEMMA MarkedIsTyped ==
  ASSUME NEW row \in RunRecords, NEW st \in RunStatus, NEW g, g = Marked(row, st)
  PROVE  g \in RunRecords /\ g.st = st /\ Same(g, row) /\ g.closed
<1> DEFINE yes == TRUE
<1>1. yes \in BOOLEAN /\ yes
  OBVIOUS
<1>2. g = [row EXCEPT !.st = st, !.closed = yes]
  BY DEF Marked
<1> HIDE DEF yes
<1>3. g \in RunRecords /\ g.st = st /\ Same(g, row) /\ g.closed = yes
  BY <1>1, <1>2 DEF RunRecords, Same
<1> QED BY <1>1, <1>3

(* A new row has what was asked for.                                           *)
LEMMA QueuedIsTyped ==
  ASSUME NEW trig \in {"manual", "scheduled"}, NEW mode \in {"none", "incremental", "range"},
         NEW details \in BOOLEAN, NEW conns \in SUBSET Connectors, NEW cap \in Nat,
         NEW g, g = Queued(trig, mode, details, conns, cap)
  PROVE  /\ g \in RunRecords /\ g.st = "queued" /\ g.trig = trig /\ g.mode = mode /\ g.details = details
         /\ g.conns = conns /\ ~g.closed
<1> DEFINE no == FALSE
<1>1. no \in BOOLEAN /\ ~no
  OBVIOUS
<1>2. NoRun = [st |-> "none", trig |-> "none", mode |-> "none", details |-> no, conns |-> {},
               cap |-> 0, ok |-> 0, bad |-> 0, closed |-> no]
  BY DEF NoRun
<1> HIDE DEF no
<1>3. NoRun \in RunRecords /\ NoRun.closed = no
  BY <1>1, <1>2 DEF RunRecords, RunStatus
<1>4. g = [NoRun EXCEPT !.st = "queued", !.trig = trig, !.mode = mode, !.details = details,
                        !.conns = conns, !.cap = cap]
  BY DEF Queued
<1> DEFINE a == [NoRun EXCEPT !.st = "queued", !.trig = trig, !.mode = mode]
<1>5. a \in RunRecords /\ a.st = "queued" /\ a.trig = trig /\ a.mode = mode /\ a.closed = no
  BY <1>3 DEF RunRecords, RunStatus
<1>6. g = [a EXCEPT !.details = details, !.conns = conns, !.cap = cap]
  BY <1>4
<1> HIDE DEF a
<1>7. /\ g \in RunRecords /\ g.st = "queued" /\ g.trig = trig /\ g.mode = mode /\ g.details = details
      /\ g.conns = conns /\ g.closed = no
  BY <1>5, <1>6 DEF RunRecords
<1> QED BY <1>1, <1>7

(* The free row.                                                               *)
LEMMA NoRunIsTyped == NoRun \in RunRecords /\ NoRun.st = "none" /\ NoRun.trig = "none" /\ NoRun.conns = {}
<1> DEFINE no == FALSE
<1>1. no \in BOOLEAN
  OBVIOUS
<1>2. NoRun = [st |-> "none", trig |-> "none", mode |-> "none", details |-> no, conns |-> {},
               cap |-> 0, ok |-> 0, bad |-> 0, closed |-> no]
  BY DEF NoRun
<1> HIDE DEF no
<1> QED BY <1>1, <1>2 DEF RunRecords, RunStatus

(* The recovery of the acceptance dispatchers cancels what is too old.         *)
LEMMA CancelledSays ==
  ASSUME RunsOK, NEW g, g = Cancelled(TooOld)
  PROVE  /\ g \in [Runs -> RunRecords]
         /\ \A j \in Runs : \/ g[j] = runs[j]
                            \/ /\ Same(g[j], runs[j]) /\ runs[j].st \in Active
                               /\ g[j].st = "cancelled" /\ g[j].closed
<1>1. ASSUME NEW j \in Runs
      PROVE  /\ g[j] \in RunRecords
             /\ \/ g[j] = runs[j]
                \/ /\ Same(g[j], runs[j]) /\ runs[j].st \in Active
                   /\ g[j].st = "cancelled" /\ g[j].closed
  <2>1. runs[j] \in RunRecords
    BY DEF RunsOK
  <2>2. CASE j \in TooOld
    <3>1. g[j] = Marked(runs[j], "cancelled")
      BY <2>2 DEF Cancelled, Marked
    <3>2. "cancelled" \in RunStatus /\ runs[j].st \in Active
      BY <2>2 DEF RunStatus, TooOld
    <3> QED BY <2>1, <3>1, <3>2, MarkedIsTyped
  <2>3. CASE j \notin TooOld
    BY <2>1, <2>3 DEF Cancelled
  <2> QED BY <2>2, <2>3
<1>2. DOMAIN g = Runs /\ g = [j \in DOMAIN g |-> g[j]]
  BY DEF Cancelled
<1> QED BY <1>1, <1>2

(* The recovery of the schedule fails the dead runs of the schedule.           *)
LEMMA RecoveredSays ==
  ASSUME RunsOK, NEW g, g = Recovered
  PROVE  /\ g \in [Runs -> RunRecords]
         /\ \A j \in Runs : \/ g[j] = runs[j] /\ j \notin Dead
                            \/ /\ Same(g[j], runs[j]) /\ runs[j].st \in Active /\ runs[j].mode = "incremental"
                               /\ g[j].st = "failed" /\ g[j].closed
<1>1. ASSUME NEW j \in Runs
      PROVE  /\ g[j] \in RunRecords
             /\ \/ g[j] = runs[j] /\ j \notin Dead
                \/ /\ Same(g[j], runs[j]) /\ runs[j].st \in Active /\ runs[j].mode = "incremental"
                   /\ g[j].st = "failed" /\ g[j].closed
  <2>1. runs[j] \in RunRecords /\ items[j].ok \in Nat /\ items[j].bad \in Nat
    BY DEF RunsOK, ItemCounts
  <2>2. CASE j \in Dead
    <3>1. "failed" \in RunStatus /\ runs[j].st \in Active /\ runs[j].mode = "incremental"
      BY <2>2 DEF RunStatus, Dead, Busy, Recoverable
    <3>2. PICK a : a = Counted(runs[j], "failed", items[j].ok, items[j].bad)
      OBVIOUS
    <3>3. a \in RunRecords /\ a.st = "failed" /\ Same(a, runs[j])
      BY <2>1, <3>1, <3>2, CountedIsTyped
    <3>4. g[j] = Marked(a, "failed")
      BY <2>1, <2>2, <3>2 DEF Recovered, Closing, Counted, Marked, RunRecords
    <3>5. g[j] \in RunRecords /\ g[j].st = "failed" /\ Same(g[j], a) /\ g[j].closed
      BY <3>1, <3>3, <3>4, MarkedIsTyped
    <3> QED BY <3>1, <3>3, <3>5 DEF Same
  <2>3. CASE j \notin Dead
    BY <2>1, <2>3 DEF Recovered
  <2> QED BY <2>2, <2>3
<1>2. DOMAIN g = Runs /\ g = [j \in DOMAIN g |-> g[j]]
  BY DEF Recovered
<1> QED BY <1>1, <1>2

(* A manual request is created as it was validated.                            *)
LEMMA CreateSays ==
  ASSUME RunsOK, CreateManual
  PROVE  /\ NextRun \in Runs /\ runs[NextRun].st = "none"
         /\ \E row \in RunRecords : /\ runs' = [runs EXCEPT ![NextRun] = row]
                                    /\ row.st = "queued" /\ row.trig = "manual" /\ ~row.closed
         /\ msgs' = msgs \cup {NextRun} /\ form' = NoForm
         /\ UNCHANGED <<plan, list, content, db, items, w, conn, settings, stale, gap>>
<1>1. NextRun \in Runs /\ runs[NextRun].st = "none"
  BY NextRunIsFree DEF CreateManual
<1>2. PICK row : row = Queued("manual", form.mode, form.details, form.conns, form.cap)
  OBVIOUS
<1>3. /\ form.mode \in {"none", "incremental", "range"} /\ form.details \in BOOLEAN
      /\ form.conns \in SUBSET Connectors /\ form.cap \in Nat
  BY DEF RunsOK, Forms
<1>4. row \in RunRecords /\ row.st = "queued" /\ row.trig = "manual" /\ ~row.closed
  BY <1>2, <1>3, QueuedIsTyped
<1>5. /\ runs' = [runs EXCEPT ![NextRun] = row] /\ msgs' = msgs \cup {NextRun} /\ form' = NoForm
      /\ UNCHANGED <<plan, list, content, db, items, w, conn, settings, stale, gap>>
  BY <1>2 DEF CreateManual
<1> QED BY <1>1, <1>4, <1>5

(* One tick of the schedule: nothing, a recovery, or a recovery and a run of   *)
(* all enabled connectors.                                                     *)
NewRun(i, g) ==
  /\ i \in Runs /\ runs[i].st = "none" /\ Scheduled # {} /\ Blocking = {} /\ msgs' = msgs \cup {i}
  /\ g \in RunRecords /\ g.st = "queued" /\ g.trig = "scheduled" /\ g.conns = Scheduled /\ ~g.closed
  /\ runs' = [j \in Runs |-> IF j = i THEN g ELSE Recovered[j]]

LEMMA DispatchSays ==
  ASSUME RunsOK, DispatchDue
  PROVE  /\ \/ runs' = runs /\ msgs' = msgs
            \/ runs' = Recovered /\ msgs' = msgs
            \/ \E i, g : NewRun(i, g)
         /\ settings' \in SettingsRow
         /\ UNCHANGED <<plan, list, content, db, items, w, conn, stale, form, gap>>
<1>1. UNCHANGED <<plan, list, content, db, items, w, conn, stale, form, gap>>
  BY DEF DispatchDue
<1>2. settings' \in SettingsRow
  <2>1. settings' \in {settings, [settings EXCEPT !.next = "later"]} /\ settings \in SettingsRow
    BY DEF DispatchDue, RunsOK
  <2> QED BY <2>1 DEF SettingsRow
<1>3. CASE \/ runs' = runs /\ msgs' = msgs
           \/ runs' = Recovered /\ msgs' = msgs
  BY <1>1, <1>2, <1>3
<1>4. CASE /\ Scheduled # {} /\ Blocking = {} /\ Free # {} /\ msgs' = msgs \cup {NextRun}
           /\ runs' = [i \in Runs |->
                IF i = NextRun THEN Queued("scheduled", "incremental", TRUE, Scheduled, 0) ELSE Recovered[i]]
  <2>1. PICK g : g = Queued("scheduled", "incremental", TRUE, Scheduled, 0)
    OBVIOUS
  <2>2. g \in RunRecords /\ g.st = "queued" /\ g.trig = "scheduled" /\ g.conns = Scheduled /\ ~g.closed
    <3> DEFINE yes == TRUE
    <3>1. Scheduled \in SUBSET Connectors /\ yes \in BOOLEAN /\ 0 \in Nat
      BY DEF Scheduled
    <3>2. g = Queued("scheduled", "incremental", yes, Scheduled, 0)
      BY <2>1
    <3> HIDE DEF yes
    <3> QED BY <3>1, <3>2, QueuedIsTyped
  <2>3. NextRun \in Runs /\ runs[NextRun].st = "none"
    BY <1>4, NextRunIsFree
  <2>4. NewRun(NextRun, g)
    BY <1>4, <2>1, <2>2, <2>3 DEF NewRun
  <2> QED BY <1>1, <1>2, <2>4
<1> QED BY <1>3, <1>4 DEF DispatchDue

(* The result of a run.                                                        *)
LEMMA SaveSays ==
  ASSUME RunsOK, WorkersOK, NEW i \in Runs, Save(i)
  PROVE  /\ w[i].pc = "save" /\ w' = [w EXCEPT ![i] = [Off EXCEPT !.sums = w[i].sums]]
         /\ \E row \in RunRecords : /\ runs' = [runs EXCEPT ![i] = row]
                                    /\ row.st = ResultStatus(i, w[i].sums) /\ Same(row, runs[i])
                                    /\ row.closed = runs[i].closed
         /\ conn' \in [Connectors -> ConnectorRows] /\ Scheduled' = Scheduled
         /\ stale' \subseteq stale
         /\ UNCHANGED <<plan, list, content, db, items, msgs, settings, form, gap>>
<1> DEFINE sums == w[i].sums
           ok == SumOver(sums, "ok")
           bad == SumOver(sums, "bad")
           st == ResultStatus(i, sums)
<1>1. sums \in [Connectors -> Summaries]
  BY DEF WorkersOK, Workers
<1>2. ok \in Nat /\ bad \in Nat
  <2>1. \A c \in Connectors : sums[c]["ok"] \in Nat /\ sums[c]["bad"] \in Nat
    BY <1>1 DEF Summaries
  <2> HIDE DEF sums
  <2> QED BY <2>1, SumIsNatural
<1>3. st \in RunStatus
  BY DEF ResultStatus, RunStatus
<1>4. /\ w[i].pc = "save" /\ w' = [w EXCEPT ![i] = [Off EXCEPT !.sums = sums]]
      /\ runs' = [runs EXCEPT ![i].st = st, ![i].ok = ok, ![i].bad = bad]
      /\ conn' = [c \in Connectors |->
                IF sums[c].status = "none" THEN conn[c]
                ELSE [conn[c] EXCEPT !.ok = sums[c].status \notin {"failed", "partial"}]]
      /\ stale' \subseteq stale
      /\ UNCHANGED <<plan, list, content, db, items, msgs, settings, form, gap>>
  BY DEF Save
<1>5. runs \in [Runs -> RunRecords] /\ runs[i] \in RunRecords /\ conn \in [Connectors -> ConnectorRows]
  BY DEF RunsOK
<1> HIDE DEF ok, bad, st, sums
<1>6. PICK row : row = Counted(runs[i], st, ok, bad)
  OBVIOUS
<1>7. row \in RunRecords /\ row.st = st /\ Same(row, runs[i]) /\ row.closed = runs[i].closed
  BY <1>2, <1>3, <1>5, <1>6, CountedIsTyped
<1>8. runs' = [runs EXCEPT ![i] = row]
  BY <1>4, <1>5, <1>6 DEF Counted
<1>9. ASSUME NEW c \in Connectors
      PROVE  conn'[c] \in ConnectorRows /\ conn'[c].enabled = conn[c].enabled
  <2> DEFINE fine == sums[c].status \notin {"failed", "partial"}
  <2>1. conn'[c] = conn[c] \/ conn'[c] = [conn[c] EXCEPT !.ok = fine]
    BY <1>4
  <2>2. fine \in BOOLEAN /\ conn[c] \in ConnectorRows
    BY <1>5
  <2> HIDE DEF fine
  <2> QED BY <2>1, <2>2 DEF ConnectorRows
<1>10. conn' \in [Connectors -> ConnectorRows]
  BY <1>4, <1>9
<1>11. Scheduled' = Scheduled
  BY <1>9 DEF Scheduled
<1> QED BY <1>4, <1>7, <1>8, <1>10, <1>11 DEF st, sums

(* The row of the run under test.                                              *)
LEMMA TestRow ==
  ASSUME NEW c \in Connectors
  PROVE  \E row \in RunRecords :
           /\ row = [Queued("manual", "range", FALSE, {c}, 0) EXCEPT !.st = "running"]
           /\ row.st = "running" /\ row.trig = "manual" /\ row.mode = "range" /\ ~row.details
           /\ row.conns = {c} /\ ~row.closed
<1> DEFINE no == FALSE
<1>1. no \in BOOLEAN /\ ~no /\ {c} \in SUBSET Connectors /\ 0 \in Nat
  OBVIOUS
<1>2. PICK g : g = Queued("manual", "range", FALSE, {c}, 0)
  OBVIOUS
<1>3. g = Queued("manual", "range", no, {c}, 0)
  BY <1>2
<1> HIDE DEF no
<1>4. /\ g \in RunRecords /\ g.st = "queued" /\ g.trig = "manual" /\ g.mode = "range" /\ g.details = no
      /\ g.conns = {c} /\ ~g.closed
  BY <1>1, <1>3, QueuedIsTyped
<1>5. PICK row : row = Restated(g, "running")
  OBVIOUS
<1>6. "running" \in RunStatus
  BY DEF RunStatus
<1>7. row \in RunRecords /\ row.st = "running" /\ Same(row, g) /\ row.closed = g.closed
  BY <1>4, <1>5, <1>6, RestatedIsTyped
<1>8. row = [Queued("manual", "range", FALSE, {c}, 0) EXCEPT !.st = "running"]
  BY <1>2, <1>5 DEF Restated
<1> QED BY <1>1, <1>4, <1>7, <1>8 DEF Same

(* What an exception of the extraction leaves of the row under test.           *)
LEMMA SettledSays ==
  ASSUME RunsOK, NEW i \in Runs
  PROVE  /\ Settled(i) \in RunRecords /\ Same(Settled(i), runs[i]) /\ Settled(i).closed = runs[i].closed
         /\ Settled(i).st = IF runs[i].st \in Active THEN "failed" ELSE runs[i].st
<1>1. runs[i] \in RunRecords /\ "failed" \in RunStatus
  BY DEF RunsOK, RunStatus
<1>2. CASE runs[i].st \in Active
  <2>1. PICK g : g = Restated(runs[i], "failed")
    OBVIOUS
  <2>2. g \in RunRecords /\ g.st = "failed" /\ Same(g, runs[i]) /\ g.closed = runs[i].closed
    BY <1>1, <2>1, RestatedIsTyped
  <2>3. Settled(i) = g
    BY <1>2, <2>1 DEF Settled, Restated
  <2> QED BY <1>2, <2>2, <2>3
<1>3. CASE runs[i].st \notin Active
  BY <1>1, <1>3 DEF Settled, Same
<1> QED BY <1>2, <1>3

(* The rows of the runs keep their types.                                      *)
LEMMA RunsKept ==
  ASSUME SourcesOK, RowsOK, RunsOK, WorkersOK, AccOK, [Next]_vars
  PROVE  RunsOK'
<1>1. /\ runs \in [Runs -> RunRecords] /\ items \in [Runs -> ItemCounts]
      /\ msgs \subseteq Runs /\ stale \subseteq Runs /\ gap \subseteq Connectors
      /\ conn \in [Connectors -> ConnectorRows] /\ settings \in SettingsRow /\ form \in Forms
  BY DEF RunsOK
<1>2. CASE UNCHANGED vars \/ Publish \/ Edit
  <2>1. UNCHANGED <<runs, items, msgs, stale, gap, conn, settings, form>>
    BY <1>2 DEF vars, extVars, Publish, Edit
  <2> QED BY <1>1, <2>1 DEF RunsOK
<1>3. CASE Validate
  <2>1. UNCHANGED <<runs, items, msgs, stale, gap, conn, settings>>
    BY <1>3 DEF Validate
  <2>2. PICK conns \in SUBSET Connectors, m \in {"incremental", "range"}, d \in plan.details, k \in plan.caps :
          form' = [conns |-> conns, mode |-> m, details |-> d, cap |-> k]
    BY <1>3 DEF Validate
  <2>3. d \in BOOLEAN /\ k \in Nat
    BY PlanIsTyped
  <2>4. form' \in Forms
    BY <2>2, <2>3 DEF Forms
  <2> QED BY <1>1, <2>1, <2>4 DEF RunsOK
<1>4. CASE Switch \/ DueArrives
  <2>1. UNCHANGED <<runs, items, msgs, stale, gap, conn, form>>
    BY <1>4 DEF Switch, DueArrives
  <2>2. settings' \in SettingsRow
    <3>1. CASE Switch
      <4>1. PICK on \in BOOLEAN : settings' = SettingsAfter(on)
        BY <3>1 DEF Switch
      <4> QED BY <4>1 DEF SettingsAfter, NextExtraction, SettingsRow
    <3>2. CASE DueArrives
      BY <1>1, <3>2 DEF DueArrives, SettingsRow
    <3> QED BY <1>4, <3>1, <3>2
  <2> QED BY <1>1, <2>1, <2>2 DEF RunsOK
<1>5. CASE TimePasses
  <2>1. stale' \subseteq Runs /\ UNCHANGED <<runs, items, msgs, gap, conn, settings, form>>
    BY <1>1, <1>5 DEF TimePasses
  <2> QED BY <1>1, <2>1 DEF RunsOK
<1>6. CASE CreateManual
  <2>1. /\ runs' \in [Runs -> RunRecords] /\ msgs' \subseteq Runs /\ form' = NoForm
        /\ UNCHANGED <<items, stale, gap, conn, settings>>
    BY <1>1, <1>6, CreateSays
  <2>2. NoForm \in Forms
    <3> DEFINE no == FALSE
    <3>1. no \in BOOLEAN
      OBVIOUS
    <3>2. NoForm = [conns |-> {}, mode |-> "none", details |-> no, cap |-> 0]
      BY DEF NoForm
    <3> HIDE DEF no
    <3> QED BY <3>1, <3>2 DEF Forms
  <2> QED BY <1>1, <2>1, <2>2 DEF RunsOK
<1>7. CASE DispatchDue
  <2>1. settings' \in SettingsRow /\ UNCHANGED <<items, stale, gap, conn, form>>
    BY <1>7, DispatchSays
  <2>2. Recovered \in [Runs -> RunRecords]
    BY RecoveredSays
  <2>3. runs' \in [Runs -> RunRecords] /\ msgs' \subseteq Runs
    <3>1. CASE \E i, g : NewRun(i, g)
      <4>1. PICK i, g : NewRun(i, g)
        BY <3>1
      <4> QED BY <1>1, <2>2, <4>1 DEF NewRun
    <3>2. CASE runs' \in {runs, Recovered} /\ msgs' = msgs
      BY <1>1, <2>2, <3>2
    <3> QED BY <1>7, <3>1, <3>2, DispatchSays
  <2> QED BY <1>1, <2>1, <2>3 DEF RunsOK
<1>8. ASSUME runs' = Cancelled(TooOld), UNCHANGED <<items, msgs, stale, gap, conn, settings, form>>
      PROVE  RunsOK'
  <2>1. runs' \in [Runs -> RunRecords]
    BY <1>8, CancelledSays
  <2> QED BY <1>1, <1>8, <2>1 DEF RunsOK
<1>9. CASE RecoverStale \/ Dispatch \/ Prepare
  BY <1>8, <1>9 DEF RecoverStale, Dispatch, Prepare
<1>10. ASSUME NEW i \in Runs, Stop(i) \/ LoseMessage(i) PROVE RunsOK'
  <2>1. msgs' \subseteq msgs /\ UNCHANGED <<runs, items, stale, conn, settings, form>>
    BY <1>10 DEF Stop, LoseMessage
  <2>2. w[i].pc = "list" => w[i].conn \in Connectors
    BY DEF WorkersOK, WorkerOK
  <2>3. gap' \subseteq Connectors
    BY <1>1, <1>10, <2>2 DEF Stop, LoseMessage
  <2> QED BY <1>1, <2>1, <2>3 DEF RunsOK
<1>11. ASSUME NEW i \in Runs, RunExtraction(i) PROVE RunsOK'
  <2>1. /\ runs' = [runs EXCEPT ![i].st = "running"] /\ msgs' \subseteq msgs /\ stale' \subseteq stale
        /\ UNCHANGED <<items, conn, settings, form, gap>>
    BY <1>11, BeginAdvances
  <2>2. PICK row : row = Restated(runs[i], "running")
    OBVIOUS
  <2>3. row \in RunRecords
    BY <1>1, <2>2, RestatedIsTyped DEF RunStatus
  <2>4. runs' = [runs EXCEPT ![i] = row]
    BY <1>1, <2>1, <2>2 DEF Restated
  <2> QED BY <1>1, <2>1, <2>3, <2>4 DEF RunsOK
<1>12. ASSUME NEW i \in Runs, Save(i) PROVE RunsOK'
  <2>1. /\ runs' \in [Runs -> RunRecords] /\ conn' \in [Connectors -> ConnectorRows] /\ stale' \subseteq stale
        /\ UNCHANGED <<items, msgs, settings, form, gap>>
    BY <1>1, <1>12, SaveSays
  <2> QED BY <1>1, <2>1 DEF RunsOK
<1>13. ASSUME NEW i \in Runs, Page(i) PROVE RunsOK'
  <2>1. /\ items' \in [Runs -> ItemCounts] /\ gap' \subseteq Connectors /\ stale' \subseteq stale
        /\ UNCHANGED <<runs, msgs, conn, settings, form>>
    BY <1>13, PageAdvances
  <2> QED BY <1>1, <2>1 DEF RunsOK
<1>14. ASSUME NEW i \in Runs, HezarehDetail(i) \/ ParsnamadDetail(i) PROVE RunsOK'
  <2>1. stale' \subseteq stale /\ UNCHANGED <<runs, items, msgs, conn, settings, form, gap>>
    BY <1>14, DetailAdvances
  <2> QED BY <1>1, <2>1 DEF RunsOK
<1>15. CASE Resave
  <2>1. UNCHANGED <<runs, items, msgs, stale, gap, conn, settings, form>>
    BY <1>15 DEF Resave, extVars
  <2> QED BY <1>1, <2>1 DEF RunsOK
<1>16. CASE StartAcceptance \/ Finish \/ Fatal
  <2>1. UNCHANGED <<runs, items, msgs, stale, gap, conn, form>>
    BY <1>16 DEF StartAcceptance, Finish, Fatal
  <2>2. \E on \in BOOLEAN : settings' = [settings EXCEPT !.enabled = on]
    <3>1. CASE StartAcceptance
      BY <3>1 DEF StartAcceptance
    <3>2. CASE Finish \/ Fatal
      <4>1. settings' = [settings EXCEPT !.enabled = settings.enabled \/ acc.was]
        BY <1>1, <3>2 DEF Finish, Fatal, Restored, SettingsRow
      <4> QED BY <4>1
    <3> QED BY <1>16, <3>1, <3>2
  <2>3. settings' \in SettingsRow
    BY <1>1, <2>2 DEF SettingsRow
  <2> QED BY <1>1, <2>1, <2>3 DEF RunsOK
<1>17. CASE CheckConnector
  <2>1. conn' \in [Connectors -> ConnectorRows] /\ UNCHANGED <<runs, items, msgs, settings, stale, form, gap>>
    BY <1>17, CheckSays
  <2> QED BY <1>1, <2>1 DEF RunsOK
<1>18. CASE TestConnector
  <2> DEFINE i == NextRun
             c == Head(acc.todo)
  <2>1. /\ i \in Runs /\ c \in Connectors
        /\ runs' = [runs EXCEPT ![i] = [Queued("manual", "range", FALSE, {c}, 0) EXCEPT !.st = "running"]]
        /\ UNCHANGED <<items, msgs, conn, settings, stale, form, gap>>
    BY <1>18, TestAdvances
  <2> HIDE DEF i, c
  <2>2. \E row \in RunRecords : runs' = [runs EXCEPT ![i] = row]
    BY <2>1, TestRow
  <2> QED BY <1>1, <2>1, <2>2 DEF RunsOK
<1>19. CASE Judge
  <2>1. /\ acc.run \in Runs /\ runs' = [runs EXCEPT ![acc.run] = Settled(acc.run)]
        /\ UNCHANGED <<items, msgs, conn, settings, stale, form, gap>>
    BY <1>19, JudgeSays
  <2>2. Settled(acc.run) \in RunRecords
    BY <1>1, <2>1, SettledSays
  <2> QED BY <1>1, <2>1, <2>2 DEF RunsOK
<1>20. CASE Die
  <2>1. UNCHANGED <<runs, items, msgs, conn, settings, stale, form>>
    BY <1>20 DEF Die
  <2>2. gap' \subseteq Connectors
    BY <1>1, <1>20 DEF Die, AccOK
  <2> QED BY <1>1, <2>1, <2>2 DEF RunsOK
<1>21. CASE AccNext
  BY <1>9, <1>15, <1>16, <1>17, <1>18, <1>19, <1>20, <1>21 DEF AccNext, Task
<1>22. CASE Outside \/ Faults \/ Tables
  BY <1>2, <1>3, <1>4, <1>5, <1>6, <1>7, <1>9, <1>10, <1>11, <1>12, <1>13, <1>14, <1>22
     DEF Outside, Faults, Tables, Worker
<1> QED BY <1>2, <1>21, <1>22 DEF Next

-----------------------------------------------------------------------------
(* The type invariant of every behaviour, and what follows from it.            *)

(* Everything is well formed when the system starts.                           *)
LEMMA TypesInitially == Init => TypeInv
<1> SUFFICES ASSUME Init PROVE TypeInv
  OBVIOUS
<1> USE DEF Init, ExtInit, AccInit
<1>1. SourcesOK
  <2>1. plan \in Plans /\ list = plan.list
    OBVIOUS
  <2>2. content \in [Records -> Contents]
    BY DEF Contents
  <2>3. list \in [Connectors -> Seq(Records)] /\ \A c \in Connectors : ToSet(list[c]) \subseteq plan.home[c]
    BY <2>1, PlansAssumption
  <2> QED BY <2>1, <2>2, <2>3 DEF SourcesOK, Listed
<1>2. RowsOK
  <2>1. NoHash \in Hashes /\ <<0, 0>> \in Nat \X Nat /\ <<>> \in Seq(Hashes)
    BY DEF NoHash, Hashes
  <2>2. Absent \in RowType /\ Absent.revs = <<>> /\ Absent.hash = NoHash /\ Absent.raw = NoHash
        /\ Absent.due = <<0, 0>>
    BY <2>1 DEF Absent, RowType
  <2>3. NoHash = [NoHash EXCEPT !.tick = NoHash.tick] /\ NoHash.dl = 0 /\ NoHash.tick = 0 /\ NoHash.d = 0
    BY DEF NoHash
  <2>4. \A r \in Records : RowShape(r, Absent)
    BY <2>2, <2>3 DEF RowShape, Stored
  <2>5. \A r \in Records : /\ Past(NoHash, content[r]) /\ NoHash.d <= content[r].v
    BY DEF NoHash, Past
  <2>6. \A r \in Records : db[r] = Absent
    OBVIOUS
  <2> QED BY <2>2, <2>3, <2>4, <2>5, <2>6 DEF RowsOK, RowOK
<1>3. RunsOK
  <2>1. runs \in [Runs -> RunRecords]
    BY NoRunIsTyped
  <2>2. items \in [Runs -> ItemCounts]
    BY DEF ItemCounts
  <2>3. conn \in [Connectors -> ConnectorRows] /\ settings \in SettingsRow
    <3> DEFINE yes == TRUE
               on == [c \in Connectors |-> c \in plan.conns]
    <3>1. yes \in BOOLEAN /\ on \in [Connectors -> BOOLEAN]
      OBVIOUS
    <3>2. conn = [c \in Connectors |-> [enabled |-> on[c], ok |-> yes]] /\ settings = [enabled |-> yes, next |-> "later"]
      OBVIOUS
    <3> HIDE DEF yes, on
    <3> QED BY ONLY <3>1, <3>2 DEF ConnectorRows, SettingsRow
  <2>4. form \in Forms
    <3> DEFINE no == FALSE
    <3>1. no \in BOOLEAN
      OBVIOUS
    <3>2. form = [conns |-> {}, mode |-> "none", details |-> no, cap |-> 0]
      BY DEF NoForm
    <3> HIDE DEF no
    <3> QED BY <3>1, <3>2 DEF Forms
  <2>5. msgs = {} /\ stale = {} /\ gap = {}
    OBVIOUS
  <2> QED BY <2>1, <2>2, <2>3, <2>4, <2>5 DEF RunsOK
<1>4. WorkersOK
  <2>1. WorkerOK(Off) /\ w = [i \in Runs |-> Off]
    BY IdleIsOK
  <2> QED BY <2>1 DEF WorkersOK, WorkerOK
<1>5. AccOK
  <2>1. NoVerdicts \in [Connectors -> Verdicts]
    BY DEF NoVerdicts, Verdicts
  <2> DEFINE no == FALSE
  <2>2. no \in BOOLEAN
    OBVIOUS
  <2>3. acc = [pc |-> "off", was |-> no, todo |-> <<>>, run |-> 0, of |-> NoVerdicts]
        /\ report = [st |-> "none", of |-> NoVerdicts] /\ disp = "idle"
    BY DEF Idle, NoReport
  <2> HIDE DEF no
  <2> QED BY ONLY <2>1, <2>2, <2>3 DEF AccOK
<1> QED BY <1>1, <1>2, <1>3, <1>4, <1>5 DEF TypeInv

(* Every step keeps it.                                                        *)
LEMMA TypesKept == TypeInv /\ [Next]_vars => TypeInv'
<1> SUFFICES ASSUME TypeInv, [Next]_vars PROVE TypeInv'
  OBVIOUS
<1>1. SourcesOK /\ RowsOK /\ RunsOK /\ WorkersOK /\ AccOK
  BY DEF TypeInv
<1> QED BY <1>1, SourcesKept, RowsKept, RunsKept, WorkersKept, AccKept DEF TypeInv

(* So everything always is well formed.                                       *)
LEMMA TypesAlways == Spec => []TypeInv
<1> QED BY TypesInitially, TypesKept, PTL DEF Spec

(* Every variable keeps its type: whatever a page holds, however a list ends,  *)
(* whichever tests, recoveries and deaths come between the steps of a run.     *)
THEOREM ExtractionIsTyped == Spec => []ExtractionTypeOK
<1> QED BY TypesAlways, TypeInvIsTyped, PTL

(* Every revision of a record says something new, and the newest is what the   *)
(* row holds: neither the place in the list, nor a countdown that runs on, nor *)
(* a detail that is seen again makes one.                                      *)
THEOREM RevisionsStaySemantic == Spec => []RevisionsAreSemantic
<1>1. TypeInv => RevisionsAreSemantic
  BY DEF TypeInv, RowsOK, RowOK, RowShape, RevisionsAreSemantic
<1> QED BY <1>1, TypesAlways, PTL

(* The deadline of a notice moves only together with a revision of its source. *)
THEOREM DeadlinesMoveWithRevisions == Spec => DeadlineMovesWithRevision
<1> DEFINE Moves == \A r \in Records : db'[r].due # db[r].due => Len(db'[r].revs) > Len(db[r].revs)
<1>1. TypeInv /\ [Next]_vars => [Moves]_vars
  <2> SUFFICES ASSUME TypeInv, [Next]_vars, NEW r \in Records, db'[r].due # db[r].due
               PROVE  Len(db'[r].revs) > Len(db[r].revs)
    OBVIOUS
  <2>1. SourcesOK /\ RowsOK /\ RunsOK /\ WorkersOK /\ RowShape(r, db[r])
    BY DEF TypeInv, RowsOK, RowOK
  <2>2. db'[r] # db[r]
    OBVIOUS
  <2>3. Reading
    BY <2>2, StepsSplit, AsideIsElsewhere DEF vars, extVars, Elsewhere, Publish, Edit
  <2>4. PICK i \in Runs : Page(i) \/ HezarehDetail(i) \/ ParsnamadDetail(i)
    BY <2>3 DEF Reading
  <2>5. PICK p \in Hashes : Writes(i, r, p)
    BY <2>1, <2>2, <2>4, ReadingWrites
  <2>6. db'[r] = Recorded(r, db[r], p) /\ (r \in Countdown => db[r].raw.tick <= p.tick)
    BY <2>5 DEF Writes
  <2>7. Recorded(r, db[r], p).due # db[r].due
    BY <2>6
  <2> QED BY <2>1, <2>6, <2>7, DeadlineNeedsRevision
<1> QED BY <1>1, TypesAlways, PTL DEF Spec, DeadlineMovesWithRevision

(* A run that asks for details never loses the detail a record has, nor goes   *)
(* back to an older one.                                                       *)
THEOREM DetailsStayKept == Spec => DetailsAreKept
<1> DEFINE Keeps == \A i \in Runs, r \in Records :
              w[i] # w'[i] /\ runs[i].details /\ Alone(i) => db'[r].raw.d >= db[r].raw.d
<1>1. TypeInv /\ [Next]_vars => [Keeps]_vars
  <2> SUFFICES ASSUME TypeInv, [Next]_vars, NEW i \in Runs, NEW r \in Records,
                      w[i] # w'[i], runs[i].details
               PROVE  db'[r].raw.d >= db[r].raw.d
    OBVIOUS
  <2>1. SourcesOK /\ RowsOK /\ RunsOK /\ WorkersOK /\ RowShape(r, db[r]) /\ w \in [Runs -> Workers]
    BY DEF TypeInv, RowsOK, RowOK, WorkersOK
  <2>2. db[r].raw.d \in Nat
    BY <2>1 DEF RowShape, RowType, Hashes
  <2>3. CASE db'[r] = db[r]
    BY <2>2, <2>3
  <2>4. CASE db'[r] # db[r]
    <3>1. Reading
      BY <2>4, StepsSplit, AsideIsElsewhere DEF vars, extVars, Elsewhere, Publish, Edit
    <3>2. PICK j \in Runs : Page(j) \/ HezarehDetail(j) \/ ParsnamadDetail(j)
      BY <3>1 DEF Reading
    <3>3. \E x : w' = [w EXCEPT ![j] = x]
      <4>1. CASE Page(j)
        <5>1. \E x, y : w' = [w EXCEPT ![j] = x] /\ ListAdvances(j, x, y)
          BY <2>1, <4>1, PageAdvances
        <5> QED BY <5>1
      <4>2. CASE HezarehDetail(j) \/ ParsnamadDetail(j)
        BY <2>1, <4>2, DetailAdvances
      <4> QED BY <3>2, <4>1, <4>2
    <3>4. i = j
      BY <2>1, <3>3
    <3>5. PICK p \in Hashes : Writes(i, r, p)
      BY <2>1, <2>4, <3>2, <3>4, ReadingWrites
    <3>6. Recorded(r, db[r], p).raw = p
      BY <2>1, RecordedIsShaped
    <3>7. p.d \in Nat
      BY DEF Hashes
    <3> QED BY <2>2, <3>5, <3>6, <3>7 DEF Writes
  <2> QED BY <2>3, <2>4
<1> QED BY <1>1, TypesAlways, PTL DEF Spec, DetailsAreKept

-----------------------------------------------------------------------------
(* The course of the runs.                                                     *)

(* A run that nothing touches stays on its course.                             *)
Untouched(j) == runs'[j] = runs[j] /\ (j \in msgs' <=> j \in msgs) /\ w'[j] = w[j]
LEMMA UntouchedCourse ==
  ASSUME NEW j \in Runs, CourseOK(j), Untouched(j)
  PROVE  CourseOK(j)'
  BY DEF CourseOK, SumsOK, Untouched

(* One that a recovery closes does.                                            *)
LEMMA ClosedCourse ==
  ASSUME NEW j \in Runs, CourseOK(j), runs[j].st \in Active, runs'[j].st \in {"failed", "cancelled"},
         runs'[j].closed, j \in msgs' <=> j \in msgs, w'[j] = w[j]
  PROVE  CourseOK(j)'
  BY DEF CourseOK, SumsOK, Active

(* One that is created waits for its message.                                  *)
LEMMA CreatedCourse ==
  ASSUME NEW j \in Runs, CourseOK(j), runs[j].st = "none", runs'[j].st = "queued", w'[j] = w[j]
  PROVE  CourseOK(j)'
<1>1. w'[j] = Off
  BY DEF CourseOK
<1>2. Off.pc = "off" /\ Off.sums = NoSums /\ \A c \in Connectors : NoSums[c].status = "none"
  BY DEF Off, NoSums, NoSummary
<1> QED BY <1>1, <1>2 DEF CourseOK, SumsOK

(* One whose worker goes on, or that is taken up.                              *)
LEMMA WorkingCourse ==
  ASSUME NEW j \in Runs, CourseOK(j), NEW x, w'[j] = x, x.pc # "off", SumsOK(x), j \notin msgs',
         \/ runs'[j].st = "running"
         \/ runs'[j] = runs[j] /\ w[j].pc # "off"
  PROVE  CourseOK(j)'
  BY DEF CourseOK, SumsOK

(* One whose worker stopped, without a word or with its message lost.          *)
LEMMA StoppedCourse ==
  ASSUME NEW j \in Runs, CourseOK(j), runs'[j] = runs[j], runs[j].st # "none", j \notin msgs',
         w'[j] = w[j] \/ (w'[j] = Off /\ runs[j].st # "succeeded"), w'[j].pc = "off"
  PROVE  CourseOK(j)'
<1>1. Off.pc = "off" /\ Off.sums = NoSums /\ \A c \in Connectors : NoSums[c].status = "none"
  BY DEF Off, NoSums, NoSummary
<1> QED BY <1>1 DEF CourseOK, SumsOK

(* A page leaves only complete lists as succeeded.                             *)
LEMMA PageSums ==
  ASSUME SourcesOK, NEW i \in Runs, WorkerOK(w[i]), SumsOK(w[i]), w[i].pc = "list",
         NEW x, NEW y, ListAdvances(i, x, y)
  PROVE  /\ SumsOK(x) /\ x.pc \in {"list", "details", "save"}
         /\ x = y \/ x.sums = [w[i].sums EXCEPT ![w[i].conn] = y.sum]
<1>1. WorkerOK(y) /\ y.pc = "list" /\ y.conn = w[i].conn /\ y.sums = w[i].sums
  BY DEF ListAdvances
<1>2. w[i].sums \in [Connectors -> Summaries] /\ w[i].conn \in Connectors
  BY DEF WorkerOK, Workers
<1>3. CASE x = y /\ y.sum.status \in {"succeeded", "succeeded_with_warnings"}
  BY <1>1, <1>3 DEF SumsOK
<1>4. CASE x = ListDone(i, y) /\ (y.sum.status = "succeeded" => y.sum.complete)
  <2>1. /\ x.pc \in {"list", "details", "save"} /\ x.sums = [y.sums EXCEPT ![y.conn] = y.sum]
        /\ x.pc = "list" => x.sum.status = "succeeded"
    <3> DEFINE v == ListDone(i, y)
    <3>1. /\ v.pc \in {"list", "details", "save"} /\ v.sums = [y.sums EXCEPT ![y.conn] = y.sum]
          /\ v.pc = "list" => v.sum.status = "succeeded"
      <4>1. WorkerOK(y) /\ y.pc = "list" BY <1>1
      <4> QED BY ONLY SourcesOK, <4>1, ListDoneOK
    <3>2. x = v
      BY <1>4
    <3> HIDE DEF v
    <3> QED BY <3>1, <3>2
  <2> QED BY <1>1, <1>2, <1>4, <2>1 DEF SumsOK
<1> QED BY <1>3, <1>4 DEF ListAdvances

(* So does a detail.                                                           *)
LEMMA DetailSums ==
  ASSUME NEW i \in Runs, WorkerOK(w[i]), SumsOK(w[i]), NEW o, NEW x, x.sums = NotedSums(w[i], o),
         x.pc = "list" => x.sum.status = "succeeded"
  PROVE  SumsOK(x)
<1>1. w[i].sums \in [Connectors -> Summaries]
  BY DEF WorkerOK, Workers
<1>2. ASSUME NEW c \in Connectors, x.sums[c].status = "succeeded" PROVE x.sums[c].complete
  <2>1. x.sums[c] = w[i].sums[c] \/ x.sums[c] = Warned(w[i].sums[c])
    BY <1>1 DEF NotedSums
  <2>2. w[i].sums[c] \in Summaries
    BY <1>1
  <2>3. x.sums[c] = w[i].sums[c]
    BY <1>2, <2>1, <2>2 DEF Warned, Summaries
  <2> QED BY <1>2, <2>3 DEF SumsOK
<1> QED BY <1>2 DEF SumsOK

(* A run succeeds only with every connector it was asked for.                  *)
LEMMA ResultSays ==
  ASSUME NEW i \in Runs, NEW sums \in [Connectors -> Summaries], runs[i].conns \subseteq Connectors
  PROVE  /\ ResultStatus(i, sums) \notin Active \cup {"none"}
         /\ ResultStatus(i, sums) = "succeeded" =>
              \A c \in runs[i].conns : sums[c].status = "succeeded"
         /\ ResultStatus(i, sums) = "cancelled" => \A c \in Connectors : sums[c].status = "none"
<1> DEFINE of == {c \in Connectors : sums[c].status # "none"}
<1>1. \A c \in Connectors : sums[c].status \in {"none", "succeeded", "succeeded_with_warnings", "partial", "failed"}
  BY DEF Summaries
<1>2. ResultStatus(i, sums) \notin Active \cup {"none"}
  BY DEF ResultStatus, Active
<1>3. ASSUME ResultStatus(i, sums) = "succeeded", NEW c \in runs[i].conns PROVE sums[c].status = "succeeded"
  <2>1. /\ {e \in of : sums[e].status = "failed"} = {} /\ {e \in of : sums[e].status = "partial"} = {}
        /\ {e \in of : sums[e].status = "succeeded_with_warnings"} = {} /\ of = runs[i].conns
    BY <1>3 DEF ResultStatus
  <2>2. c \in of /\ c \in Connectors
    BY <2>1
  <2> QED BY <1>1, <2>1, <2>2
<1>4. ASSUME ResultStatus(i, sums) = "cancelled" PROVE of = {}
  BY <1>4 DEF ResultStatus
<1> QED BY <1>2, <1>3, <1>4

(* Every run stays on its course.                                              *)
LEMMA CourseKept ==
  ASSUME SystemInv, [Next]_vars
  PROVE  CourseInv'
<1>1. /\ SourcesOK /\ RowsOK /\ RunsOK /\ WorkersOK /\ AccOK
      /\ runs \in [Runs -> RunRecords] /\ w \in [Runs -> Workers] /\ msgs \subseteq Runs
  BY DEF SystemInv, TypeInv, RunsOK, WorkersOK
<1> SUFFICES ASSUME NEW j \in Runs PROVE CourseOK(j)'
  BY DEF CourseInv
<1>2. CourseOK(j) /\ WorkerOK(w[j]) /\ SumsOK(w[j]) /\ runs[j] \in RunRecords
  BY <1>1 DEF SystemInv, CourseInv, WorkersOK, CourseOK
<1>3. CASE Untouched(j)
  BY <1>2, <1>3, UntouchedCourse
<1>4. CASE UNCHANGED <<runs, msgs, w>>
  BY <1>3, <1>4 DEF Untouched
<1>5. CASE UNCHANGED vars \/ Publish \/ Edit \/ Validate \/ Switch \/ DueArrives \/ TimePasses \/ Resave
           \/ StartAcceptance \/ Finish \/ Fatal
  BY <1>4, <1>5 DEF vars, extVars, Publish, Edit, Validate, Switch, DueArrives, TimePasses, Resave,
                    StartAcceptance, Finish, Fatal
<1>6. CASE CheckConnector
  BY <1>1, <1>4, <1>6, CheckSays
<1>7. CASE CreateManual
  <2>1. PICK row \in RunRecords : runs' = [runs EXCEPT ![NextRun] = row] /\ row.st = "queued"
    BY <1>1, <1>7, CreateSays
  <2>2. runs[NextRun].st = "none" /\ NextRun \in Runs /\ msgs' = msgs \cup {NextRun} /\ w' = w
    BY <1>1, <1>7, CreateSays
  <2>3. CASE j = NextRun
    BY <1>1, <1>2, <2>1, <2>2, <2>3, CreatedCourse
  <2>4. CASE j # NextRun
    BY <1>1, <1>3, <2>1, <2>2, <2>4 DEF Untouched
  <2> QED BY <2>3, <2>4
<1>8. ASSUME runs'[j] = Recovered[j], j \in msgs' <=> j \in msgs, w' = w
      PROVE  CourseOK(j)'
  <2>1. PICK g : g = Recovered
    OBVIOUS
  <2>2. g[j] = runs[j] \/ (runs[j].st \in Active /\ g[j].st = "failed" /\ g[j].closed)
    BY <1>1, <2>1, RecoveredSays
  <2>3. CASE g[j] = runs[j]
    BY <1>3, <1>8, <2>1, <2>3 DEF Untouched
  <2>4. CASE runs[j].st \in Active /\ g[j].st = "failed" /\ g[j].closed
    BY <1>2, <1>8, <2>1, <2>4, ClosedCourse
  <2> QED BY <2>2, <2>3, <2>4
<1>9. CASE DispatchDue
  <2>1. w' = w
    BY <1>1, <1>9, DispatchSays
  <2>2. CASE UNCHANGED <<runs, msgs>>
    BY <1>4, <2>1, <2>2
  <2>3. CASE runs' = Recovered /\ msgs' = msgs
    BY <1>8, <2>1, <2>3
  <2>4. CASE \E i, g : NewRun(i, g)
    <3>1. PICK i, g : NewRun(i, g)
      BY <2>4
    <3>2. CASE j = i
      <4>1. runs[j].st = "none" /\ runs'[j].st = "queued"
        BY <3>1, <3>2 DEF NewRun
      <4> QED BY <1>2, <2>1, <4>1, CreatedCourse
    <3>3. CASE j # i
      <4>1. runs'[j] = Recovered[j] /\ (j \in msgs' <=> j \in msgs)
        BY <3>1, <3>3 DEF NewRun
      <4> QED BY <1>8, <2>1, <4>1
    <3> QED BY <3>2, <3>3
  <2> QED BY <1>1, <1>9, <2>2, <2>3, <2>4, DispatchSays
<1>10. CASE RecoverStale \/ Dispatch \/ Prepare
  <2>1. runs' = Cancelled(TooOld) /\ UNCHANGED <<msgs, w>>
    BY <1>10 DEF RecoverStale, Dispatch, Prepare
  <2>2. PICK g : g = Cancelled(TooOld)
    OBVIOUS
  <2>3. g[j] = runs[j] \/ (runs[j].st \in Active /\ g[j].st = "cancelled" /\ g[j].closed)
    BY <1>1, <2>2, CancelledSays
  <2>4. CASE g[j] = runs[j]
    BY <1>3, <2>1, <2>2, <2>4 DEF Untouched
  <2>5. CASE runs[j].st \in Active /\ g[j].st = "cancelled" /\ g[j].closed
    BY <1>2, <2>1, <2>2, <2>5, ClosedCourse
  <2> QED BY <2>3, <2>4, <2>5
<1>11. ASSUME NEW i \in Runs, Stop(i) PROVE CourseOK(j)'
  <2>1. w[i].pc # "off" /\ w' = [w EXCEPT ![i] = Off] /\ UNCHANGED <<runs, msgs>>
    BY <1>11 DEF Stop
  <2>2. CASE j = i
    <3>1. runs[j].st \notin {"none", "succeeded"} /\ j \notin msgs' /\ w'[j] = Off /\ w'[j].pc = "off"
      BY <1>1, <1>2, <2>1, <2>2, IdleIsOK DEF CourseOK, Off
    <3> QED BY <1>2, <2>1, <3>1, StoppedCourse
  <2>3. CASE j # i
    BY <1>1, <1>3, <2>1, <2>3 DEF Untouched
  <2> QED BY <2>2, <2>3
<1>12. ASSUME NEW i \in Runs, LoseMessage(i) PROVE CourseOK(j)'
  <2>1. i \in msgs /\ msgs' = msgs \ {i} /\ UNCHANGED <<runs, w>>
    BY <1>12 DEF LoseMessage
  <2>2. CASE j = i
    <3>1. runs[j].st # "none" /\ j \notin msgs' /\ w'[j].pc = "off"
      BY <1>2, <2>1, <2>2 DEF CourseOK
    <3> QED BY <1>2, <2>1, <3>1, StoppedCourse
  <2>3. CASE j # i
    BY <1>3, <2>1, <2>3 DEF Untouched
  <2> QED BY <2>2, <2>3
<1>13. ASSUME NEW i \in Runs, RunExtraction(i) PROVE CourseOK(j)'
  <2>1. PICK x : /\ w' = [w EXCEPT ![i] = x] /\ x.pc \in {"list", "save"}
                 /\ x.sums = NoSums /\ (x.pc = "list" => x.sum.status = "succeeded")
    BY <1>1, <1>13, BeginAdvances
  <2>2. runs' = [runs EXCEPT ![i].st = "running"] /\ msgs' = msgs \ {i}
    BY <1>1, <1>13, BeginAdvances
  <2>3. SumsOK(x)
    BY <2>1 DEF SumsOK, NoSums, NoSummary
  <2>4. CASE j = i
    <3>1. runs'[j].st = "running" /\ j \notin msgs' /\ w'[j] = x /\ x.pc # "off"
      BY <1>1, <2>1, <2>2, <2>4 DEF RunRecords
    <3> QED BY <1>2, <2>3, <3>1, WorkingCourse
  <2>5. CASE j # i
    BY <1>1, <1>3, <2>1, <2>2, <2>5 DEF Untouched
  <2> QED BY <2>4, <2>5
<1>14. ASSUME NEW i \in Runs, NEW x, w' = [w EXCEPT ![i] = x], x.pc # "off", i = j => SumsOK(x),
              w[i].pc # "off", UNCHANGED <<runs, msgs>>
       PROVE  CourseOK(j)'
  <2>1. CASE j = i
    <3>1. j \notin msgs'
      BY <1>2, <1>14, <2>1 DEF CourseOK
    <3>2. w'[j] = x /\ runs'[j] = runs[j] /\ w[j].pc # "off" /\ SumsOK(x)
      BY <1>1, <1>14, <2>1
    <3> QED BY <1>2, <1>14, <3>1, <3>2, WorkingCourse
  <2>2. CASE j # i
    BY <1>1, <1>3, <1>14, <2>2 DEF Untouched
  <2> QED BY <2>1, <2>2
<1>15. ASSUME NEW i \in Runs, Page(i) PROVE CourseOK(j)'
  <2>1. w[i].pc = "list" /\ UNCHANGED <<runs, msgs>>
    BY <1>1, <1>15, PageAdvances
  <2>2. PICK x, y : w' = [w EXCEPT ![i] = x] /\ ListAdvances(i, x, y)
    BY <1>1, <1>15, PageAdvances
  <2>3. WorkerOK(w[i]) /\ SumsOK(w[i])
    BY <1>1 DEF SystemInv, CourseInv, WorkersOK, CourseOK
  <2>4. SumsOK(x) /\ x.pc # "off"
    BY <1>1, <2>1, <2>2, <2>3, PageSums
  <2>5. w[i].pc # "off"
    BY <2>1
  <2> QED BY <1>14, <2>1, <2>2, <2>4, <2>5
<1>16. ASSUME NEW i \in Runs, HezarehDetail(i) \/ ParsnamadDetail(i) PROVE CourseOK(j)'
  <2>1. w[i].pc = "details" /\ UNCHANGED <<runs, msgs>>
    BY <1>1, <1>16, DetailAdvances
  <2>2. PICK x, o : /\ w' = [w EXCEPT ![i] = x] /\ x.pc \in {"list", "details", "save"}
                    /\ x.sums = NotedSums(w[i], o) /\ (x.pc = "list" => x.sum.status = "succeeded")
    BY <1>1, <1>16, DetailAdvances
  <2>3. WorkerOK(w[i]) /\ SumsOK(w[i])
    BY <1>1 DEF SystemInv, CourseInv, WorkersOK, CourseOK
  <2>4. SumsOK(x) /\ x.pc # "off"
    BY <2>2, <2>3, DetailSums
  <2>5. w[i].pc # "off"
    BY <2>1
  <2> QED BY <1>14, <2>1, <2>2, <2>4, <2>5
<1>17. ASSUME NEW i \in Runs, Save(i) PROVE CourseOK(j)'
  <2> DEFINE sums == w[i].sums
             done == [Off EXCEPT !.sums = sums]
  <2>1. PICK row \in RunRecords : /\ runs' = [runs EXCEPT ![i] = row]
                                  /\ row.st = ResultStatus(i, sums) /\ Same(row, runs[i])
                                  /\ row.closed = runs[i].closed
    BY <1>1, <1>17, SaveSays
  <2>2. w[i].pc = "save" /\ w' = [w EXCEPT ![i] = done] /\ msgs' = msgs
    BY <1>1, <1>17, SaveSays
  <2>3. sums \in [Connectors -> Summaries] /\ runs[i].conns \subseteq Connectors
    BY <1>1 DEF Workers, RunRecords
  <2>4. done.pc = "off" /\ done.sums = sums
    BY DEF Off
  <2> HIDE DEF sums, done
  <2>5. /\ row.st # "none" /\ row.conns = runs[i].conns
        /\ row.st = "succeeded" => \A c \in runs[i].conns : sums[c].status = "succeeded"
    BY <2>1, <2>3, ResultSays DEF Same
  <2>6. CASE j = i
    <3>1. j \notin msgs /\ \A c \in Connectors : sums[c].status = "succeeded" => sums[c].complete
      BY <1>2, <2>2, <2>6 DEF CourseOK, SumsOK, sums
    <3>2. runs'[j] = row /\ w'[j] = done /\ msgs' = msgs
      BY <1>1, <2>1, <2>2, <2>6
    <3> QED BY <2>4, <2>5, <2>6, <3>1, <3>2 DEF CourseOK, SumsOK
  <2>7. CASE j # i
    BY <1>1, <1>3, <2>1, <2>2, <2>7 DEF Untouched
  <2> QED BY <2>6, <2>7
<1>18. CASE TestConnector
  <2> DEFINE i == NextRun
             c == Head(acc.todo)
  <2>1. /\ i \in Runs /\ runs[i].st = "none" /\ c \in Connectors /\ msgs' = msgs
        /\ runs' = [runs EXCEPT ![i] = [Queued("manual", "range", FALSE, {c}, 0) EXCEPT !.st = "running"]]
    BY <1>1, <1>18, TestAdvances
  <2>2. PICK x : /\ w' = [w EXCEPT ![i] = x] /\ x.pc = "list" /\ x.sums = NoSums /\ x.sum.status = "succeeded"
    BY <1>1, <1>18, TestAdvances
  <2> HIDE DEF i, c
  <2>3. PICK row \in RunRecords : runs' = [runs EXCEPT ![i] = row] /\ row.st = "running"
    BY <2>1, TestRow
  <2>4. SumsOK(x) /\ x.pc # "off"
    BY <2>2 DEF SumsOK, NoSums, NoSummary
  <2>5. CASE j = i
    <3>1. j \notin msgs'
      BY <1>2, <2>1, <2>5 DEF CourseOK
    <3>2. runs'[j].st = "running" /\ w'[j] = x
      BY <1>1, <2>2, <2>3, <2>5
    <3> QED BY <1>2, <2>4, <3>1, <3>2, WorkingCourse
  <2>6. CASE j # i
    BY <1>1, <1>3, <2>1, <2>2, <2>3, <2>6 DEF Untouched
  <2> QED BY <2>5, <2>6
<1>19. CASE Judge
  <2>1. /\ acc.pc = "wait" /\ acc.run \in Runs /\ w[acc.run].pc = "off" /\ UNCHANGED <<msgs, w>>
        /\ runs' = [runs EXCEPT ![acc.run] = Settled(acc.run)]
    BY <1>1, <1>19, JudgeSays
  <2>2. acc.run \notin msgs
    BY <2>1 DEF SystemInv, VerdictInv, UnderTest
  <2>3. CASE j = acc.run /\ runs[j].st \in Active
    <3>1. runs'[j].st = "failed" /\ j \notin msgs' /\ w'[j].pc = "off" /\ w'[j] = w[j]
      BY <1>1, <2>1, <2>2, <2>3, SettledSays
    <3> QED BY <1>2, <3>1 DEF CourseOK
  <2>4. CASE ~(j = acc.run /\ runs[j].st \in Active)
    <3>1. runs'[j] = runs[j]
      BY <1>1, <2>1, <2>4 DEF Settled
    <3> QED BY <1>3, <2>1, <3>1 DEF Untouched
  <2> QED BY <2>3, <2>4
<1>20. CASE Die
  <2>1. UNCHANGED <<runs, msgs>>
    BY <1>20 DEF Die
  <2>2. w' = w \/ (acc.pc = "wait" /\ w[acc.run].pc # "off" /\ w' = [w EXCEPT ![acc.run] = Off])
    BY <1>20 DEF Die
  <2>3. CASE w'[j] = w[j]
    BY <1>3, <2>1, <2>3 DEF Untouched
  <2>4. CASE w'[j] # w[j]
    <3>1. j = acc.run /\ w[j].pc # "off" /\ w'[j] = Off
      BY <1>1, <2>2, <2>4
    <3>2. runs[j].st \notin {"none", "succeeded"} /\ j \notin msgs' /\ w'[j].pc = "off"
      BY <1>2, <2>1, <3>1 DEF CourseOK, Off
    <3> QED BY <1>2, <2>1, <3>1, <3>2, StoppedCourse
  <2> QED BY <2>3, <2>4
<1>21. CASE AccNext
  BY <1>5, <1>6, <1>10, <1>18, <1>19, <1>20, <1>21 DEF AccNext, Task
<1>22. CASE Outside \/ Faults \/ Tables
  BY <1>5, <1>7, <1>9, <1>10, <1>11, <1>12, <1>13, <1>15, <1>16, <1>17, <1>22
     DEF Outside, Faults, Tables, Worker
<1> QED BY <1>5, <1>21, <1>22 DEF Next

-----------------------------------------------------------------------------
(* The schedule.                                                               *)

(* No step switches a connector off.                                           *)
LEMMA ConnectorsStayOn ==
  ASSUME RunsOK, WorkersOK, AccOK, [Next]_vars
  PROVE  Scheduled \subseteq Scheduled'
<1>1. CASE conn' = conn
  BY <1>1 DEF Scheduled
<1>2. ASSUME NEW i \in Runs, Save(i) PROVE Scheduled \subseteq Scheduled'
  BY <1>2, SaveSays
<1>3. CASE CheckConnector
  BY <1>3, CheckSays
<1>4. CASE AccNext
  <2>1. CASE Dispatch \/ Resave \/ StartAcceptance \/ Prepare \/ TestConnector \/ Judge \/ Finish \/ Fatal \/ Die
    BY <1>1, <2>1 DEF Dispatch, Resave, StartAcceptance, Prepare, TestConnector, Judge, Finish, Fatal, Die, extVars
  <2> QED BY <1>3, <1>4, <2>1 DEF AccNext, Task
<1>5. CASE Outside \/ Faults \/ CreateManual \/ DispatchDue \/ RecoverStale
  BY <1>1, <1>5 DEF Outside, Faults, Publish, Edit, Validate, Switch, DueArrives, TimePasses, Stop, LoseMessage,
                    CreateManual, DispatchDue, RecoverStale
<1>6. ASSUME NEW i \in Runs, Worker(i) PROVE Scheduled \subseteq Scheduled'
  <2>1. CASE RunExtraction(i) \/ Page(i) \/ HezarehDetail(i) \/ ParsnamadDetail(i)
    BY <1>1, <2>1 DEF RunExtraction, Page, HezarehDetail, ParsnamadDetail, DetailPage
  <2> QED BY <1>2, <1>6, <2>1 DEF Worker
<1>7. CASE UNCHANGED vars
  BY <1>1, <1>7 DEF vars, extVars
<1> QED BY <1>4, <1>5, <1>6, <1>7 DEF Next, Tables

(* A run of the schedule is opened by its creation only.                       *)
OpenRow(row) == row.trig = "scheduled" /\ row.st \in Active /\ ~row.closed
Ages(j) == Same(runs'[j], runs[j]) /\ (OpenRow(runs'[j]) => OpenRow(runs[j]))

(* A row that stays asks for the same.                                        *)
LEMMA SameIsReflexive == \A row : Same(row, row)
  BY DEF Same

(* How a step changes a run: it ages, or is created.                           *)
LEMMA RunsAge ==
  ASSUME SystemInv, [Next]_vars, NEW j \in Runs
  PROVE  \/ Ages(j)
         \/ runs[j].st = "none" /\ runs'[j].trig = "manual"
         \/ \E i, g : NewRun(i, g)
<1>1. /\ SourcesOK /\ RowsOK /\ RunsOK /\ WorkersOK /\ AccOK /\ CourseOK(j)
      /\ runs \in [Runs -> RunRecords] /\ w \in [Runs -> Workers]
  BY DEF SystemInv, TypeInv, CourseInv, RunsOK, WorkersOK
<1>2. CASE runs'[j] = runs[j]
  BY <1>2 DEF Ages, Same
<1>3. CASE UNCHANGED vars \/ Outside \/ Faults
  BY <1>2, <1>3 DEF vars, extVars, Outside, Faults, Publish, Edit, Validate, Switch, DueArrives, TimePasses,
                    Stop, LoseMessage
<1>4. CASE CreateManual
  <2>1. PICK row \in RunRecords : runs' = [runs EXCEPT ![NextRun] = row] /\ row.trig = "manual"
    BY <1>1, <1>4, CreateSays
  <2>2. runs[NextRun].st = "none" /\ NextRun \in Runs
    BY <1>1, <1>4, CreateSays
  <2> QED BY <1>1, <1>2, <2>1, <2>2
<1>5. CASE DispatchDue
  <2>1. CASE runs' = Recovered
    <3>1. PICK g : g = Recovered
      OBVIOUS
    <3>2. g[j] = runs[j] \/ (Same(g[j], runs[j]) /\ g[j].st = "failed")
      BY <1>1, <3>1, RecoveredSays
    <3> QED BY <1>2, <2>1, <3>1, <3>2 DEF Ages, OpenRow, Active
  <2> QED BY <1>1, <1>2, <1>5, <2>1, DispatchSays
<1>6. CASE RecoverStale \/ Dispatch \/ Prepare
  <2>1. runs' = Cancelled(TooOld)
    BY <1>6 DEF RecoverStale, Dispatch, Prepare
  <2>2. PICK g : g = Cancelled(TooOld)
    OBVIOUS
  <2>3. g[j] = runs[j] \/ (Same(g[j], runs[j]) /\ g[j].st = "cancelled")
    BY <1>1, <2>2, CancelledSays
  <2> QED BY <1>2, <2>1, <2>2, <2>3 DEF Ages, OpenRow, Active
<1>7. ASSUME NEW i \in Runs, RunExtraction(i), runs'[j] # runs[j] PROVE Ages(j)
  <2>1. runs' = [runs EXCEPT ![i].st = "running"] /\ i \in msgs
    BY <1>1, <1>7, BeginAdvances
  <2>2. j = i
    BY <1>1, <1>7, <2>1
  <2>3. PICK g : g = Restated(runs[j], "running")
    OBVIOUS
  <2>4. g.st = "running" /\ Same(g, runs[j]) /\ g.closed = runs[j].closed
    BY <1>1, <2>3, RestatedIsTyped DEF RunStatus
  <2>5. runs'[j] = g
    BY <1>1, <2>1, <2>2, <2>3 DEF Restated
  <2>6. ~runs[j].closed => runs[j].st = "queued"
    BY <1>1, <2>1, <2>2 DEF CourseOK
  <2> QED BY <2>4, <2>5, <2>6 DEF Ages, OpenRow, Same, Active
<1>8. ASSUME NEW i \in Runs, Page(i) \/ HezarehDetail(i) \/ ParsnamadDetail(i) PROVE Ages(j)
  <2>1. runs' = runs
    BY <1>1, <1>8, PageAdvances, DetailAdvances
  <2> QED BY <2>1, SameIsReflexive DEF Ages
<1>9. ASSUME NEW i \in Runs, Save(i), runs'[j] # runs[j] PROVE Ages(j)
  <2>1. PICK row \in RunRecords : /\ runs' = [runs EXCEPT ![i] = row]
                                  /\ row.st = ResultStatus(i, w[i].sums) /\ Same(row, runs[i])
    BY <1>1, <1>9, SaveSays
  <2>2. w[i].sums \in [Connectors -> Summaries] /\ runs[i].conns \subseteq Connectors
    BY <1>1 DEF Workers, RunRecords
  <2>3. row.st \notin Active
    BY <2>1, <2>2, ResultSays
  <2>4. j = i /\ runs'[j] = row
    BY <1>1, <1>9, <2>1
  <2> QED BY <2>1, <2>3, <2>4 DEF Ages, OpenRow
<1>10. CASE Resave \/ StartAcceptance \/ CheckConnector \/ Finish \/ Fatal \/ Die
  BY <1>2, <1>10 DEF Resave, StartAcceptance, CheckConnector, Finish, Fatal, Die, extVars
<1>11. CASE TestConnector
  <2> DEFINE i == NextRun
             c == Head(acc.todo)
  <2>1. /\ i \in Runs /\ runs[i].st = "none" /\ c \in Connectors
        /\ runs' = [runs EXCEPT ![i] = [Queued("manual", "range", FALSE, {c}, 0) EXCEPT !.st = "running"]]
    BY <1>1, <1>11, TestAdvances
  <2> HIDE DEF i, c
  <2>2. PICK row \in RunRecords : runs' = [runs EXCEPT ![i] = row] /\ row.trig = "manual"
    BY <2>1, TestRow
  <2> QED BY <1>1, <1>2, <2>1, <2>2
<1>12. CASE Judge
  <2>1. acc.run \in Runs /\ runs' = [runs EXCEPT ![acc.run] = Settled(acc.run)]
    BY <1>1, <1>12, JudgeSays
  <2>2. CASE j = acc.run
    <3>1. runs'[j] = Settled(j)
      BY <1>1, <2>1, <2>2
    <3>2. /\ Same(Settled(j), runs[j]) /\ Settled(j).closed = runs[j].closed
          /\ Settled(j).st = IF runs[j].st \in Active THEN "failed" ELSE runs[j].st
      BY <1>1, SettledSays
    <3> QED BY <3>1, <3>2 DEF Ages, OpenRow, Active
  <2>3. CASE j # acc.run
    BY <1>1, <1>2, <2>1, <2>3
  <2> QED BY <2>2, <2>3
<1>13. CASE AccNext
  BY <1>6, <1>10, <1>11, <1>12, <1>13 DEF AccNext, Task
<1>14. CASE Tables
  BY <1>2, <1>4, <1>5, <1>6, <1>7, <1>8, <1>9, <1>14 DEF Tables, Worker
<1> QED BY <1>3, <1>13, <1>14 DEF Next

(* The schedule opens a run only when all its earlier ones are closed.         *)
LEMMA NewRunIsAlone ==
  ASSUME SystemInv, NEW i, NEW g, NewRun(i, g), NEW j \in Runs, j # i
  PROVE  Same(runs'[j], runs[j]) /\ ~OpenRow(runs'[j])
<1>1. RunsOK /\ runs \in [Runs -> RunRecords]
  BY DEF SystemInv, TypeInv, RunsOK
<1>2. PICK f : f = Recovered
  OBVIOUS
<1>3. runs'[j] = f[j]
  BY <1>2 DEF NewRun
<1>4. \/ f[j] = runs[j] /\ j \notin Dead
      \/ Same(f[j], runs[j]) /\ f[j].st = "failed"
  BY <1>1, <1>2, RecoveredSays
<1>5. CASE f[j] = runs[j] /\ j \notin Dead
  <2>1. j \notin Busy(Scheduled)
    BY <1>5 DEF NewRun, Blocking, Dead
  <2>2. runs[j].trig = "scheduled" => runs[j].conns # {} /\ runs[j].conns \subseteq Scheduled
    BY DEF SystemInv, ScheduleInv
  <2>3. ~OpenRow(runs[j])
    BY <2>1, <2>2 DEF Busy, OpenRow
  <2> QED BY <1>3, <1>5, <2>3, SameIsReflexive
<1>6. CASE Same(f[j], runs[j]) /\ f[j].st = "failed"
  BY <1>3, <1>6 DEF OpenRow, Active
<1> QED BY <1>4, <1>5, <1>6

(* The runs of the schedule stay one at a time, over enabled connectors.       *)
LEMMA ScheduleKept ==
  ASSUME SystemInv, [Next]_vars
  PROVE  ScheduleInv'
<1>1. /\ RunsOK /\ WorkersOK /\ AccOK /\ Scheduled \subseteq Scheduled'
      /\ runs \in [Runs -> RunRecords] /\ runs' \in [Runs -> RunRecords]
  BY TypesKept, ConnectorsStayOn DEF SystemInv, TypeInv, RunsOK
<1>2. \A i \in Runs : runs[i].trig = "scheduled" => runs[i].conns # {} /\ runs[i].conns \subseteq Scheduled
  BY DEF SystemInv, ScheduleInv
<1>3. \A i, j \in Runs : OpenRow(runs[i]) /\ OpenRow(runs[j]) => i = j
  BY DEF SystemInv, ScheduleInv, OpenScheduled, OpenRow
<1>4. CASE \E i, g : NewRun(i, g)
  <2>1. PICK i, g : NewRun(i, g)
    BY <1>4
  <2>2. \A j \in Runs : j # i => Same(runs'[j], runs[j]) /\ ~OpenRow(runs'[j])
    BY <2>1, NewRunIsAlone
  <2>3. i \in Runs /\ runs'[i].conns = Scheduled /\ Scheduled # {}
    BY <2>1 DEF NewRun
  <2>4. \A j \in Runs : runs'[j].trig = "scheduled" => runs'[j].conns # {} /\ runs'[j].conns \subseteq Scheduled
    BY <1>2, <2>2, <2>3 DEF Same
  <2>5. \A j, k \in Runs : OpenRow(runs'[j]) /\ OpenRow(runs'[k]) => j = k
    BY <2>2
  <2> QED BY <1>1, <2>4, <2>5 DEF ScheduleInv, OpenScheduled, OpenRow
<1>5. CASE ~\E i, g : NewRun(i, g)
  <2>1. \A j \in Runs : Ages(j) \/ runs'[j].trig = "manual"
    BY <1>5, RunsAge
  <2>2. \A j \in Runs : runs'[j].trig = "scheduled" => runs'[j].conns # {} /\ runs'[j].conns \subseteq Scheduled
    BY <1>2, <2>1 DEF Ages, Same
  <2>3. \A j \in Runs : OpenRow(runs'[j]) => OpenRow(runs[j])
    BY <2>1 DEF Ages, OpenRow
  <2> QED BY <1>1, <1>3, <2>2, <2>3 DEF ScheduleInv, OpenScheduled, OpenRow
<1> QED BY <1>4, <1>5

-----------------------------------------------------------------------------
(* The verdicts of the acceptance.                                             *)

(* A run that has ended, with no message and no worker left, is left alone.    *)
LEMMA EndedStays ==
  ASSUME SystemInv, [Next]_vars, NEW j \in Runs, w[j].pc = "off", j \notin msgs,
         runs[j].st \notin Active \cup {"none"}
  PROVE  Untouched(j) /\ items'[j] = items[j]
<1>1. /\ SourcesOK /\ RowsOK /\ RunsOK /\ WorkersOK /\ AccOK
      /\ runs \in [Runs -> RunRecords] /\ w \in [Runs -> Workers] /\ items \in [Runs -> ItemCounts]
  BY DEF SystemInv, TypeInv, RunsOK, WorkersOK
<1>2. CASE UNCHANGED <<runs, msgs, w, items>>
  BY <1>2 DEF Untouched
<1>3. CASE UNCHANGED vars \/ Outside
  BY <1>2, <1>3 DEF vars, extVars, Outside, Publish, Edit, Validate, Switch, DueArrives, TimePasses
<1>4. CASE Faults
  <2>1. PICK i \in Runs : Stop(i) \/ LoseMessage(i)
    BY <1>4 DEF Faults
  <2>2. i # j
    BY <2>1 DEF Stop, LoseMessage
  <2> QED BY <1>1, <2>1, <2>2 DEF Stop, LoseMessage, Untouched
<1>5. CASE CreateManual
  <2>1. PICK row \in RunRecords : runs' = [runs EXCEPT ![NextRun] = row]
    BY <1>1, <1>5, CreateSays
  <2>2. NextRun # j /\ msgs' = msgs \cup {NextRun} /\ UNCHANGED <<w, items>>
    BY <1>1, <1>5, CreateSays
  <2> QED BY <1>1, <2>1, <2>2 DEF Untouched
<1>6. CASE DispatchDue
  <2>1. UNCHANGED <<w, items>>
    BY <1>1, <1>6, DispatchSays
  <2>2. PICK f : f = Recovered
    OBVIOUS
  <2>3. f[j] = runs[j]
    BY <1>1, <2>2, RecoveredSays
  <2>4. CASE \E i, g : NewRun(i, g)
    <3>1. PICK i, g : NewRun(i, g)
      BY <2>4
    <3>2. i # j /\ runs'[j] = f[j] /\ (j \in msgs' <=> j \in msgs)
      BY <2>2, <3>1 DEF NewRun
    <3> QED BY <2>1, <2>3, <3>2 DEF Untouched
  <2>5. CASE msgs' = msgs /\ runs' \in {runs, Recovered}
    BY <2>1, <2>2, <2>3, <2>5 DEF Untouched
  <2> QED BY <1>1, <1>6, <2>4, <2>5, DispatchSays
<1>7. CASE RecoverStale \/ Dispatch \/ Prepare
  <2>1. runs' = Cancelled(TooOld) /\ UNCHANGED <<msgs, w, items>>
    BY <1>7 DEF RecoverStale, Dispatch, Prepare
  <2>2. PICK g : g = Cancelled(TooOld)
    OBVIOUS
  <2>3. g[j] = runs[j]
    BY <1>1, <2>2, CancelledSays
  <2> QED BY <2>1, <2>2, <2>3 DEF Untouched
<1>8. ASSUME NEW i \in Runs, Worker(i) PROVE Untouched(j) /\ items'[j] = items[j]
  <2>1. CASE RunExtraction(i)
    <3>1. i # j
      BY <2>1 DEF RunExtraction
    <3>2. \E x : w' = [w EXCEPT ![i] = x]
      BY <1>1, <2>1, BeginAdvances
    <3>3. runs' = [runs EXCEPT ![i].st = "running"] /\ msgs' = msgs \ {i} /\ items' = items
      BY <1>1, <2>1, BeginAdvances
    <3> QED BY <1>1, <3>1, <3>2, <3>3 DEF Untouched
  <2>2. CASE Page(i)
    <3>1. i # j /\ items'[j] = items[j] /\ UNCHANGED <<runs, msgs>>
      BY <1>1, <2>2, PageAdvances
    <3>2. \E x, y : w' = [w EXCEPT ![i] = x] /\ ListAdvances(i, x, y)
      BY <1>1, <2>2, PageAdvances
    <3> QED BY <1>1, <3>1, <3>2 DEF Untouched
  <2>3. CASE HezarehDetail(i) \/ ParsnamadDetail(i)
    <3>1. i # j /\ UNCHANGED <<items, runs, msgs>>
      BY <1>1, <2>3, DetailAdvances
    <3>2. \E x, o : w' = [w EXCEPT ![i] = x]
      BY <1>1, <2>3, DetailAdvances
    <3> QED BY <1>1, <3>1, <3>2 DEF Untouched
  <2>4. CASE Save(i)
    <3>1. i # j /\ UNCHANGED <<items, msgs>> /\ w' = [w EXCEPT ![i] = [Off EXCEPT !.sums = w[i].sums]]
      BY <1>1, <2>4, SaveSays
    <3>2. \E row \in RunRecords : runs' = [runs EXCEPT ![i] = row]
      BY <1>1, <2>4, SaveSays
    <3> QED BY <1>1, <3>1, <3>2 DEF Untouched
  <2> QED BY <1>8, <2>1, <2>2, <2>3, <2>4 DEF Worker
<1>9. CASE Resave \/ StartAcceptance \/ CheckConnector \/ Finish \/ Fatal
  BY <1>2, <1>9 DEF Resave, StartAcceptance, CheckConnector, Finish, Fatal, extVars
<1>10. CASE TestConnector
  <2> DEFINE i == NextRun
             c == Head(acc.todo)
  <2>1. /\ i \in Runs /\ i # j /\ UNCHANGED <<msgs, items>>
        /\ runs' = [runs EXCEPT ![i] = [Queued("manual", "range", FALSE, {c}, 0) EXCEPT !.st = "running"]]
    BY <1>1, <1>10, TestAdvances
  <2>2. \E x : w' = [w EXCEPT ![i] = x]
    BY <1>1, <1>10, TestAdvances
  <2> HIDE DEF i, c
  <2> QED BY <1>1, <2>1, <2>2 DEF Untouched
<1>11. CASE Judge
  <2>1. /\ acc.run \in Runs /\ runs' = [runs EXCEPT ![acc.run] = Settled(acc.run)] /\ UNCHANGED <<msgs, w, items>>
    BY <1>1, <1>11, JudgeSays
  <2>2. Settled(j) = runs[j]
    BY DEF Settled
  <2> QED BY <1>1, <2>1, <2>2 DEF Untouched
<1>12. CASE Die
  <2>1. UNCHANGED <<runs, msgs, items>>
    BY <1>12 DEF Die
  <2>2. w' = w \/ (w[acc.run].pc # "off" /\ w' = [w EXCEPT ![acc.run] = Off])
    BY <1>12 DEF Die
  <2> QED BY <1>1, <2>1, <2>2 DEF Untouched
<1>13. CASE AccNext
  BY <1>7, <1>9, <1>10, <1>11, <1>12, <1>13 DEF AccNext, Task
<1>14. CASE Tables
  BY <1>5, <1>6, <1>7, <1>8, <1>14 DEF Tables
<1> QED BY <1>3, <1>4, <1>13, <1>14 DEF Next

(* So what proves a connector goes on to.                                      *)
LEMMA ProofsStay ==
  ASSUME SystemInv, [Next]_vars
  PROVE  \A c : Proven(c) => Proven(c)'
<1> SUFFICES ASSUME NEW c, Proven(c) PROVE Proven(c)'
  OBVIOUS
<1>1. PICK i \in Runs : Evidence(i, c)
  BY DEF Proven
<1>2. Untouched(i) /\ items'[i] = items[i]
  BY <1>1, EndedStays DEF Evidence
<1>3. Evidence(i, c)'
  BY <1>1, <1>2 DEF Evidence, Untouched
<1> QED BY <1>3 DEF Proven

(* The run under test stays the one that was created for its connector.        *)
LEMMA UnderTestStays ==
  ASSUME SystemInv, Outside \/ Faults \/ Tables, NEW i \in Runs, NEW c \in Connectors, UnderTest(i, c)
  PROVE  UnderTest(i, c)'
<1>1. /\ SourcesOK /\ RowsOK /\ RunsOK /\ WorkersOK /\ AccOK /\ CourseOK(i)
      /\ runs \in [Runs -> RunRecords] /\ w \in [Runs -> Workers]
      /\ WorkerOK(w[i]) /\ SumsOK(w[i]) /\ runs[i] \in RunRecords
  BY DEF SystemInv, TypeInv, RunsOK, WorkersOK, CourseInv, CourseOK
<1>2. CASE Untouched(i)
  BY <1>2 DEF Untouched, UnderTest
<1>3. CASE Outside
  BY <1>2, <1>3 DEF Outside, Publish, Edit, Validate, Switch, DueArrives, TimePasses, Untouched
<1>4. CASE Faults
  <2>1. PICK j \in Runs : Stop(j) \/ LoseMessage(j)
    BY <1>4 DEF Faults
  <2>2. CASE j # i
    BY <1>1, <1>2, <2>1, <2>2 DEF Stop, LoseMessage, Untouched
  <2>3. CASE j = i
    <3>1. Stop(i)
      BY <2>1, <2>3 DEF LoseMessage, UnderTest
    <3>2. w'[i] = Off /\ UNCHANGED <<runs, msgs>>
      BY <1>1, <3>1 DEF Stop
    <3>3. Off.pc = "off"
      BY DEF Off
    <3> QED BY <3>2, <3>3 DEF UnderTest
  <2> QED BY <2>2, <2>3
<1>5. CASE CreateManual
  <2>1. PICK row \in RunRecords : runs' = [runs EXCEPT ![NextRun] = row]
    BY <1>1, <1>5, CreateSays
  <2>2. runs[NextRun].st = "none" /\ msgs' = msgs \cup {NextRun} /\ w' = w
    BY <1>1, <1>5, CreateSays
  <2>3. NextRun # i
    BY <2>2 DEF UnderTest
  <2> QED BY <1>1, <1>2, <2>1, <2>2, <2>3 DEF Untouched
<1>6. CASE DispatchDue
  <2>1. w' = w
    BY <1>1, <1>6, DispatchSays
  <2>2. PICK f : f = Recovered
    OBVIOUS
  <2>3. f[i] = runs[i]
    <3>1. runs[i].mode = "range"
      BY DEF UnderTest
    <3> QED BY <1>1, <2>2, <3>1, RecoveredSays
  <2>4. CASE \E k, g : NewRun(k, g)
    <3>1. PICK k, g : NewRun(k, g)
      BY <2>4
    <3>2. k # i /\ runs'[i] = f[i] /\ (i \in msgs' <=> i \in msgs)
      BY <2>2, <3>1 DEF NewRun, UnderTest
    <3> QED BY <1>2, <2>1, <2>3, <3>2 DEF Untouched
  <2>5. CASE msgs' = msgs /\ runs' \in {runs, Recovered}
    BY <1>2, <2>1, <2>2, <2>3, <2>5 DEF Untouched
  <2> QED BY <1>1, <1>6, <2>4, <2>5, DispatchSays
<1>7. CASE RecoverStale
  <2>1. runs' = Cancelled(TooOld) /\ UNCHANGED <<msgs, w>>
    BY <1>7 DEF RecoverStale
  <2>2. PICK g : g = Cancelled(TooOld)
    OBVIOUS
  <2>3. \/ g[i] = runs[i]
        \/ Same(g[i], runs[i]) /\ g[i].st = "cancelled" /\ g[i].closed
    BY <1>1, <2>2, CancelledSays
  <2>4. CASE g[i] = runs[i]
    BY <1>2, <2>1, <2>2, <2>4 DEF Untouched
  <2>5. CASE Same(g[i], runs[i]) /\ g[i].st = "cancelled" /\ g[i].closed
    BY <2>1, <2>2, <2>5 DEF Same, UnderTest
  <2> QED BY <2>3, <2>4, <2>5
<1>8. ASSUME NEW j \in Runs, Worker(j), j # i PROVE Untouched(i)
  <2>1. CASE RunExtraction(j)
    <3>1. \E x : w' = [w EXCEPT ![j] = x]
      BY <1>1, <2>1, BeginAdvances
    <3>2. runs' = [runs EXCEPT ![j].st = "running"] /\ msgs' = msgs \ {j}
      BY <1>1, <2>1, BeginAdvances
    <3> QED BY <1>1, <1>8, <3>1, <3>2 DEF Untouched
  <2>2. CASE Page(j)
    <3>1. UNCHANGED <<runs, msgs>>
      BY <1>1, <2>2, PageAdvances
    <3>2. \E x, y : w' = [w EXCEPT ![j] = x] /\ ListAdvances(j, x, y)
      BY <1>1, <2>2, PageAdvances
    <3> QED BY <1>1, <1>8, <3>1, <3>2 DEF Untouched
  <2>3. CASE HezarehDetail(j) \/ ParsnamadDetail(j)
    <3>1. UNCHANGED <<runs, msgs>>
      BY <1>1, <2>3, DetailAdvances
    <3>2. \E x, o : w' = [w EXCEPT ![j] = x]
      BY <1>1, <2>3, DetailAdvances
    <3> QED BY <1>1, <1>8, <3>1, <3>2 DEF Untouched
  <2>4. CASE Save(j)
    <3>1. UNCHANGED msgs /\ w' = [w EXCEPT ![j] = [Off EXCEPT !.sums = w[j].sums]]
      BY <1>1, <2>4, SaveSays
    <3>2. \E row \in RunRecords : runs' = [runs EXCEPT ![j] = row]
      BY <1>1, <2>4, SaveSays
    <3> QED BY <1>1, <1>8, <3>1, <3>2 DEF Untouched
  <2> QED BY <1>8, <2>1, <2>2, <2>3, <2>4 DEF Worker
<1>9. ~RunExtraction(i) /\ ~HezarehDetail(i) /\ ~ParsnamadDetail(i)
  BY <1>1, DetailAdvances DEF RunExtraction, UnderTest
<1>10. CASE Page(i)
  <2>1. w[i].pc = "list" /\ UNCHANGED <<runs, msgs>>
    BY <1>1, <1>10, PageAdvances
  <2>2. PICK x, y : w' = [w EXCEPT ![i] = x] /\ ListAdvances(i, x, y)
    BY <1>1, <1>10, PageAdvances
  <2>3. /\ w'[i] = x /\ WorkerOK(y) /\ y.pc = "list" /\ y.conn = c /\ y.todo = <<>> /\ y.jobs = <<>>
        /\ c \in Connectors /\ y.sums \in [Connectors -> Summaries] /\ ~runs[i].details
    BY <1>1, <2>1, <2>2 DEF ListAdvances, UnderTest, WorkerOK, Workers
  <2>4. CASE x = y
    BY <2>1, <2>3, <2>4 DEF UnderTest
  <2>5. CASE x = ListDone(i, y) /\ (SumsOK(w[i]) => y.sum.status # "none")
    <3> DEFINE v == ListDone(i, y)
    <3>1. /\ v.pc \in {"list", "details", "save"} /\ v.sums = [y.sums EXCEPT ![y.conn] = y.sum]
          /\ v.pc = "list" => y.todo # <<>>
          /\ v.pc = "details" => y.jobs # <<>> \/ runs[i].details
      BY <1>1, <2>3, ListDoneOK
    <3>2. x = v
      BY <2>5
    <3> HIDE DEF v
    <3>3. x.pc = "save" /\ x.sums[c] = y.sum
      BY <2>3, <3>1, <3>2
    <3>4. x.sums[c].status # "none"
      BY <1>1, <2>5, <3>3
    <3> QED BY <2>1, <2>3, <3>3, <3>4 DEF UnderTest
  <2> QED BY <2>2, <2>4, <2>5 DEF ListAdvances
<1>11. CASE Save(i)
  <2> DEFINE sums == w[i].sums
             done == [Off EXCEPT !.sums = sums]
  <2>1. PICK row \in RunRecords : /\ runs' = [runs EXCEPT ![i] = row]
                                  /\ row.st = ResultStatus(i, sums) /\ Same(row, runs[i])
    BY <1>1, <1>11, SaveSays
  <2>2. w[i].pc = "save" /\ w' = [w EXCEPT ![i] = done] /\ msgs' = msgs
    BY <1>1, <1>11, SaveSays
  <2>3. sums \in [Connectors -> Summaries] /\ runs[i].conns \subseteq Connectors /\ sums[c].status # "none"
    BY <1>1, <2>2 DEF Workers, RunRecords, UnderTest
  <2>4. done.pc = "off"
    BY DEF Off
  <2> HIDE DEF sums, done
  <2>5. row.st # "none" /\ row.st # "cancelled"
    BY <2>1, <2>3, ResultSays
  <2>6. runs'[i] = row /\ w'[i] = done
    BY <1>1, <2>1, <2>2
  <2> QED BY <2>1, <2>2, <2>4, <2>5, <2>6 DEF UnderTest, Same
<1>12. CASE \E j \in Runs : Worker(j)
  <2>1. PICK j \in Runs : Worker(j)
    BY <1>12
  <2>2. CASE j # i
    BY <1>2, <1>8, <2>1, <2>2
  <2>3. CASE j = i
    BY <1>9, <1>10, <1>11, <2>1, <2>3 DEF Worker
  <2> QED BY <2>2, <2>3
<1> QED BY <1>3, <1>4, <1>5, <1>6, <1>7, <1>12 DEF Tables

(* A passed verdict has its proof: the run under test is what it judges.       *)
LEMMA PassIsProven ==
  ASSUME SystemInv, Judge, VerdictOf(Settled(acc.run), items[acc.run]) = "passed"
  PROVE  \A c : c = Head(acc.todo) => Proven(c)'
<1>0. PICK i, c : i = acc.run /\ c = Head(acc.todo)
  OBVIOUS
<1> DEFINE row == Settled(i)
<1>1. RunsOK /\ AccOK /\ UnderTest(i, c)
  BY <1>0 DEF SystemInv, TypeInv, VerdictInv, Judge
<1>2. /\ i \in Runs /\ w[i].pc = "off" /\ UNCHANGED <<items, msgs, w>> /\ runs' = [runs EXCEPT ![i] = row]
  BY <1>0, <1>1, JudgeSays
<1>3. /\ row \in RunRecords /\ Same(row, runs[i]) /\ row.closed = runs[i].closed
      /\ row.st = IF runs[i].st \in Active THEN "failed" ELSE runs[i].st
  BY <1>1, <1>2, SettledSays
<1>4. /\ items[i].ok \in Nat /\ items[i].bad \in Nat /\ runs \in [Runs -> RunRecords]
  BY <1>1, <1>2 DEF RunsOK, ItemCounts
<1>5. VerdictOf(row, items[i]) = "passed"
  BY <1>0
<1> HIDE DEF row
<1>6. items[i].ok > 0 /\ row.st \notin {"failed", "partial", "succeeded_with_warnings"}
  BY <1>4, <1>5 DEF VerdictOf
<1>7. row.st \in {"succeeded", "cancelled"}
  BY <1>1, <1>3, <1>6 DEF RunRecords, RunStatus, Active, UnderTest
<1>8. row.st = "cancelled" => row.closed
  BY <1>1, <1>3 DEF UnderTest, Active
<1>9. runs'[i] = row
  BY <1>2, <1>4
<1>10. Evidence(i, c)'
  <2>1. /\ runs'[i].conns = {c} /\ runs'[i].mode = "range" /\ i \notin msgs'
    BY <1>1, <1>2, <1>3, <1>9 DEF UnderTest, Same
  <2>2. items'[i].ok > 0 /\ w'[i].pc = "off"
    BY <1>2, <1>6
  <2>3. runs'[i].st \notin Active \cup {"none"} /\ (runs'[i].st = "succeeded" \/ runs'[i].closed)
    BY <1>7, <1>8, <1>9 DEF Active
  <2> QED BY <2>1, <2>2, <2>3 DEF Evidence
<1> QED BY <1>0, <1>2, <1>10 DEF Proven

(* Every verdict that says passed keeps or gains its proof.                    *)
LEMMA PassesKept ==
  ASSUME SystemInv, [Next]_vars
  PROVE  \A c \in Connectors : acc'.of[c] = "passed" => Proven(c)'
<1>1. RunsOK /\ AccOK /\ acc.of \in [Connectors -> Verdicts]
  BY DEF SystemInv, TypeInv, AccOK
<1>2. \A c \in Connectors : acc.of[c] = "passed" => Proven(c)'
  BY ProofsStay DEF SystemInv, VerdictInv
<1>3. CASE acc'.of = acc.of
  BY <1>2, <1>3
<1>4. ASSUME NEW e \in Connectors, NEW v \in Verdicts, Verdict(e, v), acc.todo # <<>>, v = "passed" => Proven(e)'
      PROVE  \A c \in Connectors : acc'.of[c] = "passed" => Proven(c)'
  <2>1. acc'.of = [acc.of EXCEPT ![e] = v]
    BY <1>1, <1>4, VerdictSays
  <2> QED BY <1>1, <1>2, <1>4, <2>1
<1>5. CASE UNCHANGED accVars \/ Resave
  BY <1>3, <1>5 DEF accVars, Resave
<1>6. CASE Dispatch \/ StartAcceptance \/ Prepare \/ Finish \/ Fatal \/ Die
  <2>1. acc'.of = acc.of
    BY <1>1, <1>6 DEF AccOK, Dispatch, StartAcceptance, Prepare, Finish, Fatal, Die
  <2> QED BY <1>3, <2>1
<1>7. CASE CheckConnector
  <2>1. CASE Verdict(Head(acc.todo), "blocked")
    <3>1. "blocked" \in Verdicts /\ "blocked" # "passed"
      BY DEF Verdicts
    <3> QED BY <1>1, <1>4, <1>7, <2>1, <3>1, CheckSays
  <2>2. CASE acc' = [acc EXCEPT !.pc = "create"]
    <3>1. acc'.of = acc.of
      BY <1>1, <2>2 DEF AccOK
    <3> QED BY <1>3, <3>1
  <2> QED BY <1>1, <1>7, <2>1, <2>2, CheckSays
<1>8. CASE TestConnector
  <2>1. acc' = [acc EXCEPT !.pc = "wait", !.run = NextRun]
    BY <1>8 DEF TestConnector
  <2>2. acc'.of = acc.of
    BY <1>1, <2>1 DEF AccOK
  <2> QED BY <1>3, <2>2
<1>9. CASE Judge
  <2>1. acc.todo # <<>> /\ Head(acc.todo) \in Connectors
    BY <1>1, <1>9, JudgeSays
  <2>2. PICK v \in Verdicts : /\ Verdict(Head(acc.todo), v)
                              /\ v = "passed" => VerdictOf(Settled(acc.run), items[acc.run]) = "passed"
    BY <1>1, <1>9, JudgeSays
  <2>3. v = "passed" => \A e : e = Head(acc.todo) => Proven(e)'
    BY <1>9, <2>2, PassIsProven
  <2>4. \A e : e = Head(acc.todo) => (v = "passed" => Proven(e)')
    BY <2>3
  <2> QED BY <1>4, <2>1, <2>2, <2>4
<1>10. UNCHANGED accVars \/ AccNext
  BY DEF vars, Next
<1> QED BY <1>5, <1>6, <1>7, <1>8, <1>9, <1>10 DEF AccNext, Task

(* The run the acceptance waits for stays the one it created.                  *)
LEMMA WaitedForStays ==
  ASSUME SystemInv, [Next]_vars, acc'.pc = "wait"
  PROVE  UnderTest(acc.run, Head(acc.todo))'
<1>1. SourcesOK /\ RunsOK /\ AccOK /\ CourseInv
  BY DEF SystemInv, TypeInv
<1>2. ASSUME UNCHANGED acc, \A i \in Runs, c \in Connectors : UnderTest(i, c) => UnderTest(i, c)'
      PROVE  UnderTest(acc.run, Head(acc.todo))'
  <2>1. PICK i, c : i = acc.run /\ c = Head(acc.todo)
    OBVIOUS
  <2>2. i \in Runs /\ c \in Connectors /\ UnderTest(i, c)
    BY <1>1, <1>2, <2>1 DEF SystemInv, VerdictInv, AccOK
  <2>3. UnderTest(i, c)'
    BY <1>2, <2>2
  <2>4. i = acc'.run /\ c = Head(acc'.todo)
    BY <1>2, <2>1
  <2> QED BY <2>3, <2>4
<1>3. CASE UNCHANGED vars \/ Resave
  <2>1. UNCHANGED <<acc, runs, msgs, w>>
    BY <1>3 DEF vars, accVars, Resave, extVars
  <2> QED BY <1>2, <2>1 DEF UnderTest
<1>4. CASE (Outside \/ Faults \/ Tables) /\ UNCHANGED accVars
  BY <1>2, <1>4, UnderTestStays DEF accVars
<1>5. ~(Dispatch \/ StartAcceptance \/ Prepare \/ Finish \/ Fatal \/ Die)
  BY <1>1 DEF AccOK, Dispatch, StartAcceptance, Prepare, Finish, Fatal, Die
<1>6. ASSUME NEW c \in Connectors, NEW v \in Verdicts, acc.todo # <<>> PROVE ~Verdict(c, v)
  BY <1>1, <1>6, VerdictSays
<1>7. ~CheckConnector
  <2>1. "blocked" \in Verdicts
    BY DEF Verdicts
  <2> SUFFICES ASSUME CheckConnector PROVE FALSE
    OBVIOUS
  <2>2. acc' = [acc EXCEPT !.pc = "create"]
    BY <1>1, <1>6, <2>1, CheckSays
  <2> QED BY <1>1, <2>2 DEF AccOK
<1>8. ~Judge
  BY <1>1, <1>6, JudgeSays
<1>9. CASE TestConnector
  <2>1. PICK i, c : i = NextRun /\ c = Head(acc.todo)
    OBVIOUS
  <2>2. /\ i \in Runs /\ runs[i].st = "none" /\ c \in Connectors
        /\ runs' = [runs EXCEPT ![i] = [Queued("manual", "range", FALSE, {c}, 0) EXCEPT !.st = "running"]]
        /\ acc' = [acc EXCEPT !.pc = "wait", !.run = i] /\ msgs' = msgs
    BY <1>1, <1>9, <2>1, TestAdvances
  <2>3. PICK x : /\ w' = [w EXCEPT ![i] = x] /\ x.pc = "list" /\ x.conn = c
                 /\ x.todo = <<>> /\ x.jobs = <<>>
    BY <1>1, <1>9, <2>1, TestAdvances
  <2>4. PICK row \in RunRecords :
          /\ row = [Queued("manual", "range", FALSE, {c}, 0) EXCEPT !.st = "running"]
          /\ row.st = "running" /\ row.mode = "range" /\ ~row.details /\ row.conns = {c}
    BY <2>2, TestRow
  <2>5. runs' = [runs EXCEPT ![i] = row]
    BY <2>2, <2>4
  <2>6. i \notin msgs'
    BY <1>1, <2>2 DEF CourseInv, CourseOK
  <2>7. runs'[i] = row /\ w'[i] = x
    BY <2>2, <2>3, <2>5 DEF SystemInv, TypeInv, RunsOK, WorkersOK
  <2>8. UnderTest(i, c)'
    BY <2>3, <2>4, <2>6, <2>7 DEF UnderTest
  <2>9. acc'.run = i /\ acc'.todo = acc.todo
    BY <1>1, <2>2 DEF AccOK
  <2> QED BY <2>1, <2>8, <2>9
<1> QED BY <1>3, <1>4, <1>5, <1>7, <1>8, <1>9 DEF Next, AccNext, Task

(* A report says succeeded only of connectors with a proof.                    *)
LEMMA ReportKept ==
  ASSUME SystemInv, [Next]_vars, report'.st = "succeeded"
  PROVE  \A c \in Connectors : report'.of[c] \notin {"none", "blocked"} => Proven(c)'
<1>1. RunsOK /\ AccOK /\ acc.of \in [Connectors -> Verdicts]
      /\ report \in [st : Terminal \cup {"none", "queued", "running"}, of : [Connectors -> Verdicts]]
  BY DEF SystemInv, TypeInv, AccOK
<1>2. CASE report' = report
  BY <1>2, ProofsStay DEF SystemInv, VerdictInv
<1>3. CASE UNCHANGED accVars
  BY <1>2, <1>3 DEF accVars
<1>4. ~(Dispatch \/ Resave \/ StartAcceptance \/ Fatal)
  <2>1. ~Dispatch
    BY <1>1 DEF Dispatch
  <2>2. ~Resave
    BY DEF Resave, NoReport
  <2>3. ~StartAcceptance /\ ~Fatal
    BY DEF StartAcceptance, Fatal
  <2> QED BY <2>1, <2>2, <2>3
<1>5. CASE Prepare \/ Die
  BY <1>2, <1>5 DEF Prepare, Die
<1>6. ASSUME NEW c \in Connectors, NEW v \in Verdicts, acc.todo # <<>> PROVE ~Verdict(c, v)
  BY DEF Verdict
<1>7. CASE CheckConnector
  <2>1. "blocked" \in Verdicts
    BY DEF Verdicts
  <2>2. report' = report
    BY <1>1, <1>6, <1>7, <2>1, CheckSays
  <2> QED BY <1>2, <2>2
<1>8. CASE TestConnector
  BY <1>2, <1>8 DEF TestConnector
<1>9. ~Judge
  BY <1>1, <1>6, JudgeSays
<1>10. CASE Finish
  <2>1. ReportStatus(acc.of) = "succeeded" /\ report'.of = acc.of
    BY <1>10 DEF Finish
  <2>2. \A c \in Connectors : acc.of[c] \notin {"none", "blocked"} => acc.of[c] = "passed"
    <3> DEFINE tested == {acc.of[c] : c \in Connectors} \ {"none", "blocked"}
    <3>1. "failed" \notin tested /\ "warning" \notin tested
      BY <2>1 DEF ReportStatus
    <3>2. \A c \in Connectors : acc.of[c] \in Verdicts
      BY <1>1
    <3> QED BY <3>1, <3>2 DEF Verdicts
  <2>3. \A c \in Connectors : acc.of[c] = "passed" => Proven(c)'
    BY ProofsStay DEF SystemInv, VerdictInv
  <2> QED BY <2>1, <2>2, <2>3
<1> QED BY <1>3, <1>4, <1>5, <1>7, <1>8, <1>9, <1>10 DEF Next, AccNext, Task, vars

(* Verdicts, the run under test and the report keep what they rest on.         *)
LEMMA VerdictKept ==
  ASSUME SystemInv, [Next]_vars
  PROVE  VerdictInv'
<1> QED BY PassesKept, WaitedForStays, ReportKept DEF VerdictInv

-----------------------------------------------------------------------------
(* The invariant of the whole system, and what it says of runs and reports.    *)

(* It holds when the system starts.                                            *)
LEMMA SystemInitially == Init => SystemInv
<1> SUFFICES ASSUME Init PROVE SystemInv
  OBVIOUS
<1>1. TypeInv
  BY TypesInitially
<1>2. /\ runs = [i \in Runs |-> NoRun] /\ w = [i \in Runs |-> Off] /\ msgs = {}
      /\ acc = Idle /\ report = NoReport
  BY DEF Init, ExtInit, AccInit
<1>3. NoRun.st = "none" /\ NoRun.trig = "none"
  BY NoRunIsTyped
<1>4. Off.pc = "off" /\ SumsOK(Off)
  BY DEF Off, SumsOK, NoSummary
<1>5. CourseInv
  BY <1>2, <1>3, <1>4 DEF CourseInv, CourseOK
<1>6. ScheduleInv
  BY <1>2, <1>3 DEF ScheduleInv, OpenScheduled
<1>7. VerdictInv
  BY <1>2 DEF VerdictInv, Idle, NoReport, NoVerdicts
<1> QED BY <1>1, <1>5, <1>6, <1>7 DEF SystemInv

(* Every step keeps it, so it always holds.                                    *)
LEMMA SystemAlways == Spec => []SystemInv
<1>1. SystemInv /\ [Next]_vars => SystemInv'
  <2> SUFFICES ASSUME SystemInv, [Next]_vars PROVE SystemInv'
    OBVIOUS
  <2>1. TypeInv'
    BY TypesKept DEF SystemInv
  <2> QED BY <2>1, CourseKept, ScheduleKept, VerdictKept DEF SystemInv
<1> QED BY <1>1, SystemInitially, PTL DEF Spec

(* A run that says succeeded read every connector it was asked for to the end  *)
(* of its list, whatever recoveries, late workers and details came between the *)
(* lists and the save (execute_run, _result_status).                           *)
THEOREM SuccessStaysComplete == Spec => []SuccessIsComplete
<1>1. SystemInv => SuccessIsComplete
  <2> SUFFICES ASSUME SystemInv, NEW i \in Runs, runs[i].st = "succeeded", NEW c \in runs[i].conns
               PROVE  w[i].sums[c].status = "succeeded" /\ w[i].sums[c].complete
    BY DEF SuccessIsComplete
  <2>1. CourseOK(i) /\ runs[i].conns \subseteq Connectors
    BY DEF SystemInv, CourseInv, TypeInv, RunsOK, RunRecords
  <2> QED BY <2>1 DEF CourseOK, SumsOK
<1> QED BY <1>1, SystemAlways, PTL

(* The schedule never has two open runs: a new one is made only when no active *)
(* run shares a connector with it, and each of its runs covers some connector  *)
(* that is still enabled (dispatch_due_extraction).                            *)
THEOREM OneRunIsScheduled == Spec => []OneScheduledRun
<1>1. SystemInv => OneScheduledRun
  <2> SUFFICES ASSUME SystemInv PROVE Cardinality(OpenScheduled) <= 1
    BY DEF OneScheduledRun, OpenScheduled
  <2>1. CASE OpenScheduled = {}
    BY <2>1, FS_EmptySet
  <2>2. ASSUME NEW i \in OpenScheduled PROVE Cardinality(OpenScheduled) <= 1
    <3>1. OpenScheduled = {i}
      BY DEF SystemInv, ScheduleInv
    <3>2. Cardinality({i}) = 1
      BY FS_Singleton
    <3> QED BY <3>1, <3>2
  <2> QED BY <2>1, <2>2
<1> QED BY <1>1, SystemAlways, PTL

(* An acceptance report that says succeeded has, for each connector it tested, *)
(* a run of that connector alone that stored something and was not a failure,  *)
(* whatever faults, recoveries and other runs came between the test and the    *)
(* report (run_connector_acceptance and its _verdict).                         *)
THEOREM AcceptedHavePassed == Spec => []AcceptedMeansPassed
<1>1. SystemInv => AcceptedMeansPassed
  BY DEF SystemInv, VerdictInv, Proven, Evidence, AcceptedMeansPassed
<1> QED BY <1>1, SystemAlways, PTL

-----------------------------------------------------------------------------
(* A list that ends as complete has left nothing out.                          *)

(* Of a record nothing is left out when it is stored, or was too old from the  *)
(* start; what a worker holds for its details is stored.                       *)
Kept(r) == r \in plan.old \/ Stored(db[r])
Found == {x \in Candidates : Stored(db[x.r])}

(* The sources: a list is newest first, no record is in it twice, and nothing  *)
(* is kept that has not been listed.                                           *)
OrderOK ==
  \A c \in Connectors :
    /\ \A k, l \in DOMAIN list[c] :
         k < l => list[c][k] # list[c][l] /\ (list[c][k] \in plan.old => list[c][l] \in plan.old)
    /\ \A r \in plan.home[c] : Kept(r) => r \in Listed(c)

(* A worker's list: the places it has passed, the records that came in front   *)
(* since it began, and the last place at which it may have stored a record of  *)
(* its own, behind which it has seen nothing but known ones.                   *)
Lists(u, c) == u.pc = "list" /\ u.conn = c
Passed(u) == (u.page - 1) * PageSize
Grown(u) == Cardinality(Listed(u.conn) \ u.start)
Reach(u) == (u.page - 1 - u.known) * PageSize + Grown(u)

(* What it has passed is kept, as far as it was there when the list began.     *)
ReaderOK(u) ==
  u.pc = "list" =>
    /\ u.start \subseteq Listed(u.conn)
    /\ u.conn \notin gap => \A l \in DOMAIN list[u.conn] :
         l <= Passed(u) /\ list[u.conn][l] \in u.start => Kept(list[u.conn][l])

(* What the worker holds is stored, and no summary is complete before its end. *)
Holds(u, S) ==
  /\ u.cands \in Seq(S) /\ \A m \in DOMAIN u.jobs : u.jobs[m].cands \in Seq(S)
  /\ \A c \in Connectors : u.sums[c].status = "none" => ~u.sums[c].complete
HandsOK(u) == Holds(u, Found) /\ (u.pc = "list" => ~u.sum.complete)

(* A record is missing behind a stored one only while some run is between the  *)
(* two: it may have stored the first, and has not come to the second.          *)
Missing(c, k, l) == k < l /\ Stored(db[list[c][k]]) /\ ~Kept(list[c][l])
Between(u, c, k, l) == Lists(u, c) /\ k <= Reach(u) /\ l > Passed(u)
BehindOK(c) ==
  c \notin gap => \A k, l \in DOMAIN list[c] : Missing(c, k, l) => \E j \in Runs : Between(w[j], c, k, l)

StoreInv ==
  /\ OrderOK
  /\ \A j \in Runs : ReaderOK(w[j]) /\ HandsOK(w[j])
  /\ \A c \in Connectors : BehindOK(c)

(* A list that has just begun.                                                 *)
ListBegins(u) ==
  u.pc = "list" => /\ u.conn \in Connectors /\ u.page = 1 /\ u.known = 0 /\ u.start = Listed(u.conn)
                   /\ ~u.sum.complete

-----------------------------------------------------------------------------
(* A list begins at its first page, with all that is listed before it.         *)
LEMMA StartListBegins ==
  ASSUME SourcesOK, NEW i, NEW u \in Workers, NEW c \in Connectors
  PROVE  LET v == StartList(i, u, c) IN ListBegins(v) /\ v.cands = <<>>
<1> DEFINE v == StartList(i, u, c)
           s == [NoSummary EXCEPT !.status = "succeeded"]
           fr == FirstRun(c)
           all == Listed(c)
           a == [u EXCEPT !.pc = "list", !.conn = c, !.page = 1, !.prev = <<>>, !.known = 0,
                     !.cands = <<>>, !.first = fr, !.start = all, !.sum = s]
           fl == ~OverlapRequired(i, a)
<1>1. v = [a EXCEPT !.floor = fl]
  BY DEF StartList
<1> HIDE DEF s, fl, v, fr
<1>2. a.pc = "list" /\ a.conn = c /\ a.page = 1 /\ a.known = 0 /\ a.start = all /\ a.cands = <<>> /\ a.sum = s
  BY DEF Workers
<1>3. /\ DOMAIN a = DOMAIN u /\ "floor" # "pc" /\ "floor" # "conn" /\ "floor" # "page" /\ "floor" # "known"
      /\ "floor" # "start" /\ "floor" # "cands" /\ "floor" # "sum"
  OBVIOUS
<1> HIDE DEF a
<1>4. /\ v.pc = a.pc /\ v.conn = a.conn /\ v.page = a.page /\ v.known = a.known /\ v.start = a.start
      /\ v.cands = a.cands /\ v.sum = a.sum
  <2>1. \A f \in {"pc", "conn", "page", "known", "start", "cands", "sum"} : f \in DOMAIN u
    BY DEF Workers
  <2> QED BY <1>1, <1>3, <2>1
<1>5. ~s.complete
  BY DEF s, NoSummary
<1> QED BY <1>2, <1>4, <1>5 DEF ListBegins, v

(* The next task is a new list, or none.                                       *)
LEMMA NextTaskBegins ==
  ASSUME SourcesOK, NEW i, NEW done, done.todo \in Seq(Connectors), done.jobs \in Seq(Jobs),
         done.sums \in [Connectors -> Summaries],
         NEW S, \A m \in DOMAIN done.jobs : done.jobs[m].cands \in Seq(S),
         \A c \in Connectors : done.sums[c].status = "none" => ~done.sums[c].complete
  PROVE  ListBegins(NextTask(i, done)) /\ Holds(NextTask(i, done), S)
<1> DEFINE v == NextTask(i, done)
           u == [[[Off EXCEPT !.todo = done.todo] EXCEPT !.jobs = done.jobs] EXCEPT !.sums = done.sums]
<1>1. /\ u \in Workers /\ u.todo = done.todo /\ u.jobs = done.jobs /\ u.sums = done.sums /\ u.cands = <<>>
  BY OffIsTyped DEF Off, Workers
<1>2. v = IF u.todo # <<>> THEN [StartList(i, u, Head(u.todo)) EXCEPT !.todo = Tail(u.todo)]
          ELSE IF u.jobs # <<>>
               THEN [u EXCEPT !.pc = "details", !.conn = Head(u.jobs).conn, !.cands = Head(u.jobs).cands,
                              !.jobs = Tail(u.jobs)]
               ELSE [u EXCEPT !.pc = "save"]
  BY DEF NextTask
<1>3. v.sums = done.sums
  BY NextTaskOK
<1>4. <<>> \in Seq(S)
  OBVIOUS
<1> HIDE DEF u, v
<1>5. CASE u.todo # <<>>
  <2> DEFINE a == StartList(i, u, Head(u.todo))
  <2>1. Head(u.todo) \in Connectors
    BY <1>1, <1>5
  <2>2. /\ WorkerOK(a) /\ a.pc = "list" /\ a.jobs = u.jobs
    BY <1>1, <2>1, StartListOK
  <2>3. ListBegins(a) /\ a.cands = <<>>
    BY <1>1, <2>1, StartListBegins
  <2>4. v = [a EXCEPT !.todo = Tail(u.todo)]
    BY <1>2, <1>5
  <2> HIDE DEF a
  <2>5. a \in Workers
    BY <2>2 DEF WorkerOK
  <2>6. /\ v.pc = a.pc /\ v.conn = a.conn /\ v.cands = a.cands /\ v.page = a.page /\ v.known = a.known
        /\ v.start = a.start /\ v.jobs = a.jobs /\ v.sum = a.sum
    BY <2>4, <2>5 DEF Workers
  <2> QED BY <1>1, <1>3, <1>4, <2>2, <2>3, <2>6 DEF ListBegins, Holds, v
<1>6. CASE u.todo = <<>> /\ u.jobs # <<>>
  <2>1. v = [u EXCEPT !.pc = "details", !.conn = Head(u.jobs).conn, !.cands = Head(u.jobs).cands,
                      !.jobs = Tail(u.jobs)]
    BY <1>2, <1>6
  <2>2. v.pc = "details" /\ v.cands = Head(u.jobs).cands /\ v.jobs = Tail(u.jobs)
    BY <1>1, <2>1 DEF Workers
  <2>3. Head(u.jobs) = u.jobs[1] /\ 1 \in DOMAIN u.jobs
    BY <1>1, <1>6
  <2>4. \A m \in DOMAIN Tail(u.jobs) : m + 1 \in DOMAIN u.jobs /\ Tail(u.jobs)[m] = u.jobs[m + 1]
    BY <1>1, <1>6
  <2> QED BY <1>1, <1>3, <2>2, <2>3, <2>4 DEF ListBegins, Holds, v
<1>7. CASE u.todo = <<>> /\ u.jobs = <<>>
  <2>1. v = [u EXCEPT !.pc = "save"]
    BY <1>2, <1>7
  <2>2. v.pc = "save" /\ v.cands = <<>> /\ v.jobs = u.jobs
    BY <1>1, <2>1 DEF Workers
  <2> QED BY <1>1, <1>3, <1>4, <2>2 DEF ListBegins, Holds, v
<1> QED BY <1>5, <1>6, <1>7

(* So is what follows a list that is done.                                     *)
LEMMA ListDoneBegins ==
  ASSUME SourcesOK, NEW i, NEW u, WorkerOK(u), u.pc = "list", NEW S, Holds(u, S), u.sum.status # "none"
  PROVE  ListBegins(ListDone(i, u)) /\ Holds(ListDone(i, u), S)
<1> DEFINE sums == [u.sums EXCEPT ![u.conn] = u.sum]
           z == [u EXCEPT !.sums[u.conn] = u.sum]
           n == IF Len(u.cands) < DetailLimit THEN Len(u.cands) ELSE DetailLimit
           cands == SubSeq(u.cands, 1, n)
           job == [conn |-> u.conn, cands |-> cands]
           v == ListDone(i, u)
<1>1. /\ u \in Workers /\ u.conn \in Connectors /\ u.cands \in Seq(Sightings(u.conn))
      /\ u.sum \in Summaries /\ u.sums \in [Connectors -> Summaries]
      /\ u.todo \in Seq(Connectors) /\ u.jobs \in Seq(Jobs)
  BY DEF WorkerOK, Workers
<1>2. sums \in [Connectors -> Summaries] /\ \A c \in Connectors : sums[c].status = "none" => ~sums[c].complete
  BY <1>1 DEF Holds
<1>3. z.sums = sums /\ z.todo = u.todo /\ z.jobs = u.jobs /\ z \in Workers
  BY <1>1 DEF Workers
<1>4. \A T : u.cands \in Seq(T) => cands \in Seq(T)
  <2> TAKE T
  <2> SUFFICES ASSUME u.cands \in Seq(T) PROVE cands \in Seq(T)
    OBVIOUS
  <2>1. n \in Nat /\ n <= Len(u.cands)
    BY SizesAssumption
  <2>2. \A k \in 1..n : u.cands[k] \in T
    BY <2>1
  <2> HIDE DEF n
  <2> QED BY <2>1, <2>2, SubSeqProperties
<1>5. cands \in Seq(Candidates) /\ cands \in Seq(Sightings(u.conn)) /\ cands \in Seq(S)
  <2>1. Sightings(u.conn) \subseteq Candidates
    BY DEF Sightings
  <2>2. cands \in Seq(Sightings(u.conn)) /\ cands \in Seq(S)
    BY <1>1, <1>4 DEF Holds
  <2> QED BY <2>1, <2>2, SeqMonotonic
<1>6. v = IF ~(Deferred(u.conn) /\ runs[i].details /\ u.sum.complete /\ cands # <<>>) THEN NextTask(i, z)
          ELSE IF Shape(u.conn).kind = "parsnamad"
               THEN [Off EXCEPT !.pc = "details", !.conn = u.conn, !.cands = cands,
                                !.todo = z.todo, !.jobs = z.jobs, !.sums = z.sums]
               ELSE NextTask(i, [z EXCEPT !.jobs = Append(@, job)])
  BY DEF ListDone
<1>7. \A m \in DOMAIN u.jobs : u.jobs[m].cands \in Seq(S)
  BY DEF Holds
<1> HIDE DEF z, v, cands
<1>8. CASE ~(Deferred(u.conn) /\ runs[i].details /\ u.sum.complete /\ cands # <<>>)
  <2>1. v = NextTask(i, z)
    BY <1>6, <1>8
  <2> HIDE DEF sums
  <2>2. ListBegins(v) /\ Holds(v, S)
    BY <1>1, <1>2, <1>3, <1>7, <2>1, NextTaskBegins
  <2> QED BY <2>2 DEF v
<1>9. CASE /\ Deferred(u.conn) /\ runs[i].details /\ u.sum.complete /\ cands # <<>>
           /\ Shape(u.conn).kind = "parsnamad"
  <2> DEFINE a == [Off EXCEPT !.pc = "details", !.conn = u.conn, !.cands = cands]
  <2>1. a \in Workers /\ a.pc = "details" /\ a.cands = cands
    BY <1>1, <1>5, OffIsTyped DEF Workers
  <2>2. v = [a EXCEPT !.todo = z.todo, !.jobs = z.jobs, !.sums = z.sums]
    BY <1>6, <1>9
  <2> HIDE DEF a
  <2>3. v.pc = "details" /\ v.cands = cands /\ v.jobs = u.jobs /\ v.sums = sums
    BY <1>3, <2>1, <2>2 DEF Workers
  <2> HIDE DEF sums
  <2> QED BY <1>2, <1>5, <1>7, <2>3 DEF ListBegins, Holds, v
<1>10. CASE /\ Deferred(u.conn) /\ runs[i].details /\ u.sum.complete /\ cands # <<>>
            /\ Shape(u.conn).kind # "parsnamad"
  <2> DEFINE y == [z EXCEPT !.jobs = Append(@, job)]
  <2>1. job \in Jobs
    BY <1>1, <1>5, <1>10 DEF Jobs
  <2>2. y.todo = u.todo /\ y.sums = sums /\ y.jobs = Append(u.jobs, job)
    BY <1>3 DEF Workers
  <2>3. v = NextTask(i, y)
    BY <1>6, <1>10
  <2>4. job.cands = cands
    OBVIOUS
  <2> HIDE DEF job, y, sums
  <2>5. \A m \in DOMAIN y.jobs : y.jobs[m].cands \in Seq(S)
    BY <1>1, <1>5, <1>7, <2>1, <2>2, <2>4
  <2>6. y.todo \in Seq(Connectors) /\ y.jobs \in Seq(Jobs) /\ y.sums \in [Connectors -> Summaries]
        /\ \A c \in Connectors : y.sums[c].status = "none" => ~y.sums[c].complete
    BY <1>1, <1>2, <2>1, <2>2
  <2>7. ListBegins(v) /\ Holds(v, S)
    BY <2>3, <2>5, <2>6, NextTaskBegins
  <2> QED BY <2>7 DEF v
<1> QED BY <1>8, <1>9, <1>10

(* So is what follows a detail.                                                *)
LEMMA DetailDoneBegins ==
  ASSUME SourcesOK, NEW i, NEW u, WorkerOK(u), u.pc = "details", NEW o, NEW S, Holds(u, S),
         NEW rest, rest \in {<<>>, Tail(u.cands)},
         NEW v, v = AfterDetail(u, o, rest), NEW x, x = IF rest = <<>> THEN NextTask(i, v) ELSE v
  PROVE  ListBegins(x) /\ Holds(x, S)
<1>1. /\ u \in Workers /\ u.conn \in Connectors /\ u.cands \in Seq(Candidates) /\ u.cands # <<>>
      /\ u.sums \in [Connectors -> Summaries]
      /\ u.todo \in Seq(Connectors) /\ u.jobs \in Seq(Jobs)
  BY DEF WorkerOK, Workers
<1>2. NotedSums(u, o) \in [Connectors -> Summaries]
      /\ \A c \in Connectors : NotedSums(u, o)[c].status = "none" => ~NotedSums(u, o)[c].complete
  <2>1. \A s \in Summaries : Warned(s) \in Summaries
                             /\ (Warned(s).status = "none" => s.status = "none" /\ Warned(s) = s)
    BY DEF Warned, Summaries
  <2> HIDE DEF Summaries
  <2> QED BY <1>1, <2>1 DEF NotedSums, Holds
<1>3. rest \in Seq(S)
  <2>1. u.cands \in Seq(S)
    BY DEF Holds
  <2>2. <<>> \in Seq(S) /\ Tail(u.cands) \in Seq(S)
    BY ONLY <1>1, <2>1, EmptySeq, HeadTailProperties
  <2> QED BY <2>2
<1>4. /\ v.pc = "details" /\ v.cands = rest /\ v.sums = NotedSums(u, o) /\ v.todo = u.todo /\ v.jobs = u.jobs
  <2> DEFINE sums == NotedSums(u, o)
  <2>1. v = [[u EXCEPT !.cands = rest] EXCEPT !.sums = sums]
    BY <1>1 DEF AfterDetail, NotedSums, Workers
  <2> HIDE DEF sums
  <2> QED BY <1>1, <2>1 DEF Workers, sums
<1>5. CASE rest = <<>>
  <2>1. x = NextTask(i, v)
    BY <1>5
  <2>2. \A m \in DOMAIN u.jobs : u.jobs[m].cands \in Seq(S)
    BY DEF Holds
  <2>3. /\ v.todo \in Seq(Connectors) /\ v.jobs \in Seq(Jobs) /\ v.sums \in [Connectors -> Summaries]
        /\ \A m \in DOMAIN v.jobs : v.jobs[m].cands \in Seq(S)
        /\ \A c \in Connectors : v.sums[c].status = "none" => ~v.sums[c].complete
    BY <1>1, <1>2, <1>4, <2>2
  <2>4. ListBegins(NextTask(i, v)) /\ Holds(NextTask(i, v), S)
    BY ONLY SourcesOK, <2>3, NextTaskBegins
  <2> QED BY <2>1, <2>4
<1>6. CASE rest # <<>>
  <2>1. x = v
    BY <1>6
  <2> QED BY <1>2, <1>3, <1>4, <2>1 DEF ListBegins, Holds
<1> QED BY <1>5, <1>6

-----------------------------------------------------------------------------
(* The places of a page.                                                       *)
OnPage(c, p) == {l \in DOMAIN list[c] : (p - 1) * PageSize < l /\ l <= p * PageSize}

(* A page holds what is listed at its places.                                  *)
LEMMA PageHolds ==
  ASSUME SourcesOK, NEW c \in Connectors, NEW p \in Nat, p > 0
  PROVE  /\ \A l \in OnPage(c, p) : \E k \in DOMAIN PageOf(c, p) : PageOf(c, p)[k] = list[c][l]
         /\ \A k \in DOMAIN PageOf(c, p) : \E l \in OnPage(c, p) : PageOf(c, p)[k] = list[c][l]
<1> DEFINE s == list[c]
           n == Len(s)
           f == (p - 1) * PageSize
           e == p * PageSize
           b == IF e < n THEN e ELSE n
<1>1. s \in Seq(Records) /\ n \in Nat /\ DOMAIN s = 1..n
  BY DEF SourcesOK
<1>2. f \in Nat /\ e \in Nat
  BY SizesAssumption
<1>3. PageOf(c, p) = SubSeq(s, f + 1, b)
  BY DEF PageOf
<1>4. OnPage(c, p) = {l \in 1..n : f < l /\ l <= e}
  BY <1>1 DEF OnPage
<1> HIDE DEF s, n, f, e
<1>5. b \in Nat /\ b <= n /\ b <= e /\ (b = e \/ b = n)
  BY <1>1, <1>2
<1> HIDE DEF b
<1>6. \A k \in (f + 1)..b : k \in 1..n /\ s[k] \in Records
  BY <1>1, <1>2, <1>5
<1>7. /\ DOMAIN SubSeq(s, f + 1, b) = 1..(IF f + 1 <= b THEN b - f ELSE 0)
      /\ \A k \in DOMAIN SubSeq(s, f + 1, b) : SubSeq(s, f + 1, b)[k] = s[f + k]
  BY <1>1, <1>2, <1>5
<1>8. ASSUME NEW l \in OnPage(c, p) PROVE \E k \in DOMAIN PageOf(c, p) : PageOf(c, p)[k] = s[l]
  <2>1. l \in 1..n /\ f < l /\ l <= b
    BY <1>1, <1>4, <1>5
  <2>2. l - f \in DOMAIN SubSeq(s, f + 1, b) /\ f + (l - f) = l
    BY <1>1, <1>2, <1>5, <1>7, <2>1
  <2> QED BY <1>3, <1>7, <2>2
<1>9. ASSUME NEW k \in DOMAIN PageOf(c, p) PROVE \E l \in OnPage(c, p) : PageOf(c, p)[k] = s[l]
  <2>1. k \in 1..(b - f) /\ PageOf(c, p)[k] = s[f + k]
    BY <1>2, <1>3, <1>5, <1>7
  <2>2. f + k \in 1..n /\ f < f + k /\ f + k <= e
    BY <1>1, <1>2, <1>5, <2>1
  <2> QED BY <1>4, <2>1, <2>2
<1> QED BY <1>8, <1>9 DEF s

(* What a page does to the list it is of: the records that are newly stored    *)
(* are at its places.                                                          *)
KeptNext(r) == r \in plan.old \/ Stored(db'[r])
FillsPage(c, p) ==
  /\ \A r \in Records : Stored(db[r]) => Stored(db'[r])
  /\ \A r \in Records : Stored(db'[r]) /\ ~Stored(db[r]) => \E l \in OnPage(c, p) : list[c][l] = r

(* Nothing but known records.                                                  *)
NothingNew == \A r \in Records : Stored(db'[r]) => Stored(db[r])

(* A list that goes on, without a fault so far, has kept the page; one that    *)
(* ends complete has either kept all that it had not passed before, or ends at *)
(* its second page of known records before the list has grown by two pages.    *)
GoesOn(i) ==
  LET u == w[i]
      v == w'[i]
      c == u.conn IN
  /\ v.pc = "list" /\ v.conn = c /\ v.page = u.page + 1 /\ v.start = u.start /\ v.known \in Nat
  /\ v.sums = u.sums /\ ~v.sum.complete
  /\ c \notin gap' => /\ \A l \in OnPage(c, u.page) : KeptNext(list[c][l])
                      /\ v.known = 0 \/ (v.known = u.known + 1 /\ NothingNew)
AllKept(u) == \A l \in DOMAIN list[u.conn] : l > Passed(u) => KeptNext(list[u.conn][l])
AtKnown(u) ==
  /\ u.known > 0 /\ NothingNew /\ Grown(u) < 2 * PageSize
  /\ \A l \in OnPage(u.conn, u.page) : Stored(db[list[u.conn][l]])
Finishes(i) == ListBegins(w'[i]) /\ (w[i].conn \notin gap' => AllKept(w[i]) \/ AtKnown(w[i]))

(* A page that is not read ends the list: as complete only when there is no    *)
(* further page, or only older ones.                                           *)
LEMMA UnreadPageFinishes ==
  ASSUME SourcesOK, OrderOK, RowsOK, RunsOK, WorkersOK, NEW i \in Runs, w[i].pc = "list", SumsOK(w[i]), HandsOK(w[i]),
         NEW o, NEW page, page = IF o = "blank" THEN <<>> ELSE PageOf(w[i].conn, w[i].page),
         EndsUnread(i, w[i], o, page), UnreadPage(i, o, page), UNCHANGED <<plan, list>>
  PROVE  db' = db /\ Finishes(i) /\ Holds(w'[i], Found)
<1> DEFINE u == w[i]
           a == UnreadSummary(i, u, o, page)
           sum == IF o = "retried" THEN Warned(a) ELSE a
           y == [u EXCEPT !.sum = sum]
           x == ListDone(i, y)
<1>1. WorkerOK(u) /\ u.pc = "list" /\ u.sum \in Summaries /\ u.conn \in Connectors /\ u.page \in Nat /\ u.page > 0
      /\ u \in Workers
  BY DEF WorkersOK, WorkerOK, Workers
<1>2. /\ w' = [w EXCEPT ![i] = x] /\ db' = db
      /\ gap' = IF a.complete THEN gap ELSE gap \cup {u.conn}
  BY DEF UnreadPage
<1>3. sum.status # "none"
  <2>1. sum.status = "none" => a.status = "none"
    BY <1>1 DEF Warned
  <2>2. a.status = IF Broken(o) THEN "failed"
             ELSE IF Repeated(u, page) \/ (page = <<>> /\ ~NaturalEnd(u, o)) THEN "partial" ELSE u.sum.status
    BY <1>1 DEF UnreadSummary, Summaries
  <2>3. u.sum.status # "none"
    BY <1>1 DEF SumsOK
  <2> QED BY <2>1, <2>2, <2>3
<1>4. a.complete = (~Broken(o) /\ ~Repeated(u, page) /\ (page = <<>> => NaturalEnd(u, o)))
  BY <1>1 DEF UnreadSummary, Summaries
<1>5. /\ WorkerOK(y) /\ y.pc = "list" /\ y.sum = sum /\ y.jobs = u.jobs /\ y.sums = u.sums /\ y.cands = u.cands
  <2>1. WorkerOK(y) /\ y.pc = "list" /\ y.sum = sum /\ y.jobs = u.jobs /\ y.sums = u.sums
    BY <1>1, UnreadListOK
  <2>2. y.cands = u.cands
    BY <1>1 DEF Workers
  <2> QED BY <2>1, <2>2
<1>6. w'[i] = x
  BY <1>2 DEF WorkersOK
<1>7. Holds(y, Found)
  BY <1>5 DEF HandsOK, Holds
<1> HIDE DEF y, sum
<1>8. ListBegins(x) /\ Holds(x, Found)
  BY <1>3, <1>5, <1>7, ListDoneBegins
<1> HIDE DEF x
<1>9. ASSUME u.conn \notin gap' PROVE AllKept(u)
  <2>1. a.complete
    BY <1>2, <1>9
  <2>2. ~Broken(o) /\ ~Repeated(u, page) /\ (page = <<>> => o # "blank")
    BY <1>4, <2>1 DEF NaturalEnd
  <2>3. page = <<>> \/ TooOldPage(i, u, page)
    BY <2>2 DEF EndsUnread
  <2>4. page = PageOf(u.conn, u.page)
    BY <2>2
  <2>5. list[u.conn] \in Seq(Records)
    BY <1>1 DEF SourcesOK
  <2> SUFFICES ASSUME NEW l \in DOMAIN list[u.conn], l > Passed(u)
               PROVE  KeptNext(list[u.conn][l])
    BY DEF AllKept
  <2>6. DOMAIN list[u.conn] = 1..Len(list[u.conn]) /\ Passed(u) \in Nat
        /\ Passed(u) + 1 <= u.page * PageSize
    <3>1. u.page * PageSize = Passed(u) + PageSize /\ Passed(u) \in Nat
      BY <1>1, SizesAssumption DEF Passed
    <3> QED BY <2>5, <3>1, SizesAssumption
  <2> DEFINE k == Passed(u) + 1
  <2>7. k \in OnPage(u.conn, u.page)
    BY <2>6 DEF OnPage, Passed
  <2>8. PICK m \in DOMAIN page : page[m] = list[u.conn][k]
    BY <1>1, <2>4, <2>7, PageHolds
  <2>9. TooOldPage(i, u, page)
    BY <2>3, <2>8
  <2>10. list[u.conn][k] \in plan.old
    BY <2>8, <2>9 DEF TooOldPage
  <2>11. k = l \/ k < l
    BY <2>6
  <2>12. list[u.conn][l] \in plan.old
    BY <1>1, <2>7, <2>10, <2>11 DEF OrderOK, OnPage
  <2> QED BY <2>12 DEF KeptNext
<1> QED BY <1>2, <1>6, <1>8, <1>9 DEF Finishes

(* Rounded up, the quotient covers the dividend.                               *)
LEMMA DivisionBounds ==
  ASSUME NEW a \in Nat, NEW b \in Nat, b > 0
  PROVE  /\ a \div b \in Nat
         /\ b * (a \div b) <= a
         /\ a < b * (a \div b) + b
  BY SMT

(* Products grow with their factor.                                            *)
LEMMA ProductsGrow ==
  ASSUME NEW a \in Int, NEW b \in Int, a <= b, NEW k \in Nat
  PROVE  a * k <= b * k /\ a * k \in Int /\ b * k \in Int
<1>1. b - a \in Nat
  OBVIOUS
<1>2. (b - a) * k \in Nat /\ b * k = a * k + (b - a) * k /\ a * k \in Int
  BY <1>1
<1> QED BY <1>2

(* The pages cover the list.                                                   *)
LEMMA PagesCover ==
  ASSUME SourcesOK, NEW c \in Connectors, NEW p \in Nat, p >= Pages(c)
  PROVE  Len(list[c]) <= p * PageSize
<1>1. Len(list[c]) \in Nat /\ PageSize \in Nat /\ PageSize > 0
  BY SizesAssumption DEF SourcesOK
<1> DEFINE n == Len(list[c])
           m == n + PageSize - 1
           q == m \div PageSize
<1>2. m \in Nat /\ q = Pages(c)
  BY <1>1 DEF Pages
<1>3. q \in Nat /\ m < PageSize * q + PageSize
  <2> HIDE DEF m
  <2> QED BY <1>1, <1>2, DivisionBounds
<1> HIDE DEF q
<1>4. q * PageSize <= p * PageSize /\ q * PageSize \in Int /\ p * PageSize \in Int
  BY <1>1, <1>2, <1>3, ProductsGrow
<1>5. PageSize * q = q * PageSize
  BY <1>1, <1>3
<1> QED BY <1>1, <1>3, <1>4, <1>5

(* What a page stores of its list.                                             *)
LEMMA PageGrows ==
  ASSUME SourcesOK, RowsOK, NEW i \in Runs, NEW c \in Connectors, NEW p \in Nat, p > 0,
         NEW rs, \A r \in rs : r \in Records /\ \E l \in OnPage(c, p) : list[c][l] = r, PageStores(i, rs)
  PROVE  FillsPage(c, p) /\ \A r \in rs : Stored(db'[r])
<1>1. ASSUME NEW r \in Records, r \in rs PROVE Stored(db'[r])
  <2>1. db'[r] = Recorded(r, db[r], ListedPayload(i, w[i], r))
    BY <1>1 DEF PageStores
  <2>2. content[r] \in Contents /\ RowShape(r, db[r]) /\ db[r].raw.d \in Nat
    BY DEF SourcesOK, RowsOK, RowOK, RowShape, RowType, Hashes
  <2>3. KeptDetail(i, w[i], r) \in Nat
    BY <2>2 DEF KeptDetail
  <2>4. ListedPayload(i, w[i], r) \in Hashes
    BY <2>2, <2>3 DEF ListedPayload, Payload, Contents, Hashes
  <2> QED BY <2>1, <2>2, <2>4, RecordedIsShaped
<1>2. \A r \in Records : r \notin rs => db'[r] = db[r]
  BY DEF PageStores
<1> QED BY <1>1, <1>2 DEF FillsPage

(* A second page of known records is all stored already.                       *)
LEMMA KnownSays ==
  ASSUME NEW i, NEW u, NEW rs
  PROVE  \/ KnownPages(i, u, rs) = 0
         \/ KnownPages(i, u, rs) = u.known + 1 /\ \A r \in rs : Stored(db[r])
<1>1. ASSUME NEW r, ItemStatus(r, db[r], ListedPayload(i, u, r)) = "duplicate" PROVE Stored(db[r])
  BY <1>1 DEF ItemStatus
<1>2. StatusesOf(i, u, rs) = {"duplicate"} => \A r \in rs : ItemStatus(r, db[r], ListedPayload(i, u, r)) = "duplicate"
  BY DEF StatusesOf
<1> QED BY <1>1, <1>2 DEF KnownPages

(* A page that is read lets the list go on, or ends it.                        *)
LEMMA ReadPageFinishes ==
  ASSUME SourcesOK, OrderOK, RowsOK, RunsOK, WorkersOK, NEW i \in Runs, w[i].pc = "list", SumsOK(w[i]), HandsOK(w[i]),
         NEW o, NEW page, page = PageOf(w[i].conn, w[i].page),
         NEW bad, bad \subseteq Selected(i, w[i], page), ReadPage(i, o, page, bad), UNCHANGED <<plan, list, content>>
  PROVE  FillsPage(w[i].conn, w[i].page) /\ (GoesOn(i) \/ Finishes(i)) /\ Holds(w'[i], Found')
<1> DEFINE u == w[i]
           c == u.conn
           p == u.page
           rs == Selected(i, u, page) \ bad
           fresh == {r \in rs : ItemStatus(r, db[r], ListedPayload(i, u, r)) # "duplicate"}
           known == KnownPages(i, u, rs)
           floor == u.floor \/ \A k \in DOMAIN page : page[k] \in plan.old
           bound == KnownBoundary(i, u, known, floor)
           stop == bound \/ (Shape(c).ends /\ p >= Pages(c))
           last == p >= Cap(i, c)
           read == ReadSummary(u, o, rs, bad)
           full == [read EXCEPT !.complete = TRUE]
           sum == IF stop THEN full ELSE IF last THEN CapSummary(i, u, read) ELSE read
           y == AfterPage(u, page, known, floor, sum, fresh)
           x == IF stop \/ last THEN ListDone(i, y) ELSE y
<1>1. /\ WorkerOK(u) /\ u.pc = "list" /\ u.known \in Nat /\ u.floor \in BOOLEAN /\ c \in Connectors /\ u \in Workers
      /\ p \in Nat /\ p > 0 /\ u.cands \in Seq(Candidates)
  BY DEF WorkersOK, WorkerOK, Workers
<1>2. /\ PageStores(i, rs) /\ w' = [w EXCEPT ![i] = x]
      /\ gap' = IF bad # {} \/ ((stop \/ last) /\ ~sum.complete) \/ (bound /\ Outgrown(u))
                THEN gap \cup {c} ELSE gap
  BY DEF ReadPage, PageStores, AfterPage
<1>3. page \in Seq(Records) /\ ToSet(page) \subseteq Listed(c) /\ IsFiniteSet(ToSet(page)) /\ ToSet(page) \subseteq Records
  BY <1>1, PageIsListed, PageIsFinite
<1>4. Selected(i, u, page) \subseteq ToSet(page)
  BY DEF Selected
<1>5. IsFiniteSet(rs) /\ IsFiniteSet(bad)
  <2>1. rs \in SUBSET ToSet(page) /\ bad \in SUBSET ToSet(page)
    BY <1>4
  <2> QED BY <1>3, <2>1, FS_Subset
<1>6. \A r \in ToSet(page) : \E l \in OnPage(c, p) : list[c][l] = r
  BY <1>1, PageHolds DEF ToSet
<1>7. \A l \in OnPage(c, p) : list[c][l] \in ToSet(page)
  <2> TAKE l \in OnPage(c, p)
  <2>1. PICK k \in DOMAIN page : page[k] = list[c][l]
    BY <1>1, PageHolds
  <2> QED BY <2>1 DEF ToSet
<1>8. FillsPage(c, p) /\ \A r \in rs : Stored(db'[r])
  <2>1. \A r \in rs : r \in Records /\ \E l \in OnPage(c, p) : list[c][l] = r
    BY <1>3, <1>4, <1>6
  <2> HIDE DEF rs, c, p
  <2> QED BY <1>1, <1>2, <2>1, PageGrows
<1>9. known = 0 \/ (known = u.known + 1 /\ \A r \in rs : Stored(db[r]))
  BY KnownSays
<1>10. known \in Nat /\ floor \in BOOLEAN
  BY <1>1, <1>9
<1>11. (known # 0 => NothingNew)
  BY <1>2, <1>9 DEF PageStores, NothingNew
<1> HIDE DEF known, floor, bound
<1>12. /\ read \in Summaries /\ full \in Summaries /\ CapSummary(i, u, read) \in Summaries
       /\ read.status # "none" /\ full.status # "none" /\ CapSummary(i, u, read).status # "none"
  <2>1. u.sum.status \in {"succeeded", "succeeded_with_warnings"}
    BY <1>1 DEF SumsOK
  <2> HIDE DEF u, rs
  <2> QED BY <1>1, <1>5, <2>1, ReadSummaryOK
<1>13. ~read.complete
  <2>1. ~u.sum.complete /\ u.sum \in Summaries
    BY <1>1 DEF HandsOK, Workers
  <2> DEFINE n == u.sum.ok + Cardinality(rs)
             b == u.sum.bad + Cardinality(bad)
             a == [u.sum EXCEPT !.ok = n, !.bad = b]
  <2>2. read = IF o = "retried" THEN Warned(a) ELSE a
    BY DEF ReadSummary
  <2> HIDE DEF n, b, read
  <2>3. a.complete = u.sum.complete /\ DOMAIN a = DOMAIN u.sum
    BY <2>1 DEF Summaries
  <2>4. DOMAIN u.sum = {"status", "complete", "ok", "bad"}
    BY <2>1 DEF Summaries
  <2> HIDE DEF a
  <2>5. Warned(a).complete = a.complete
    BY <2>3, <2>4 DEF Warned
  <2> QED BY <2>1, <2>2, <2>3, <2>5
<1>14. CapSummary(i, u, read).complete => Pages(c) <= Cap(i, c)
  <2> HIDE DEF read
  <2>1. ~Warned(read).complete
    BY <1>12, <1>13 DEF Warned, Summaries
  <2> QED BY <2>1 DEF CapSummary
<1> HIDE DEF read, full
<1>15. sum \in Summaries /\ sum.status # "none"
  BY <1>12
<1>16. (stop \/ last) \/ sum = read
  OBVIOUS
<1>17. sum.complete => stop \/ (last /\ Pages(c) <= Cap(i, c))
  BY <1>13, <1>14
<1> HIDE DEF sum
<1>18. /\ WorkerOK(y) /\ y.pc = "list" /\ y.conn = c /\ y.jobs = u.jobs /\ y.sums = u.sums /\ y.sum = sum
  <2> HIDE DEF u, y, fresh, rs
  <2> QED BY ONLY SourcesOK, <1>1, <1>3, <1>10, <1>15, ReadListOK DEF y, c
<1>19. y.page = p + 1 /\ y.known = known /\ y.start = u.start /\ y.cands = NewCandidates(u.cands, page, fresh)
  <2> DEFINE cs == NewCandidates(u.cands, page, fresh)
             a == [u EXCEPT !.prev = page, !.known = known, !.floor = floor]
  <2>1. a.start = u.start /\ a.known = known /\ DOMAIN a = DOMAIN u
    BY <1>1 DEF Workers
  <2>2. y = [a EXCEPT !.page = p + 1, !.sum = sum, !.cands = cs]
    BY <1>1 DEF AfterPage, Workers
  <2> HIDE DEF cs, a, y
  <2>3. DOMAIN u = {"pc", "conn", "todo", "page", "prev", "known", "floor", "first", "start", "cands", "jobs", "sum", "sums"}
    BY <1>1 DEF Workers
  <2>4. y.page = p + 1 /\ y.known = a.known /\ y.start = a.start /\ y.cands = cs
    BY ONLY <2>1, <2>2, <2>3
  <2> QED BY <2>1, <2>4 DEF cs
<1>20. Holds(y, Found')
  <2>1. Found \subseteq Found'
    BY <1>8 DEF Found, Candidates, FillsPage
  <2>2. u.cands \in Seq(Found) /\ \A m \in DOMAIN u.jobs : u.jobs[m].cands \in Seq(Found)
    BY DEF HandsOK, Holds
  <2>3. Seq(Found) \subseteq Seq(Found')
    BY <2>1, SeqMonotonic
  <2>4. \A k \in DOMAIN page : page[k] \in fresh => [r |-> page[k], at |-> content[page[k]]] \in Found'
    <3> TAKE k \in DOMAIN page
    <3> HAVE page[k] \in fresh
    <3>1. page[k] \in Records /\ content[page[k]] \in Contents /\ Stored(db'[page[k]])
      BY <1>3, <1>8 DEF SourcesOK
    <3> QED BY <3>1 DEF Found, Candidates
  <2> HIDE DEF fresh, y
  <2>5. y.cands \in Seq(Found')
    BY <1>3, <1>19, <2>2, <2>3, <2>4, CandidatesStayIn
  <2> QED BY <1>18, <2>2, <2>3, <2>5 DEF HandsOK, Holds
<1>21. w'[i] = x
  BY <1>2 DEF WorkersOK
<1>22. ASSUME c \notin gap' PROVE \A l \in OnPage(c, p) : KeptNext(list[c][l])
  <2>1. rs = Selected(i, u, page)
    BY <1>2, <1>22
  <2> TAKE l \in OnPage(c, p)
  <2>2. list[c][l] \in ToSet(page)
    BY <1>7
  <2>3. CASE list[c][l] \in plan.old
    BY <2>3 DEF KeptNext
  <2>4. CASE list[c][l] \notin plan.old
    <3>1. list[c][l] \in rs
      BY <2>1, <2>2, <2>4 DEF Selected
    <3> QED BY <1>8, <3>1 DEF KeptNext
  <2> QED BY <2>3, <2>4
<1> HIDE DEF y
<1>23. CASE ~(stop \/ last)
  <2>1. x = y /\ ~sum.complete
    BY <1>13, <1>16, <1>23
  <2>2. c \notin gap' => known = 0 \/ (known = u.known + 1 /\ NothingNew)
    BY <1>9, <1>11, <1>10
  <2> HIDE DEF x
  <2>3. GoesOn(i)
    BY <1>10, <1>18, <1>19, <1>21, <1>22, <2>1, <2>2 DEF GoesOn
  <2> QED BY <1>8, <1>20, <1>21, <2>1, <2>3
<1>24. CASE stop \/ last
  <2>1. x = ListDone(i, y)
    BY <1>24
  <2> HIDE DEF x
  <2>2. ListBegins(x) /\ Holds(x, Found')
    BY <1>15, <1>18, <1>20, <2>1, ListDoneBegins
  <2>3. ASSUME c \notin gap' PROVE AllKept(u) \/ AtKnown(u)
    <3>1. bad = {} /\ sum.complete /\ ~(bound /\ Outgrown(u))
      BY <1>2, <1>24, <2>3
    <3>2. CASE bound
      <4>1. runs[i].mode = "incremental" /\ ~u.first /\ known >= 2
        BY <3>2 DEF bound, KnownBoundary
      <4>2. u.known > 0 /\ NothingNew /\ \A r \in rs : Stored(db[r])
        BY <1>1, <1>9, <1>11, <4>1
      <4>3. rs = ToSet(page)
        BY <3>1, <4>1 DEF Selected, CutsOff
      <4>4. \A l \in OnPage(c, p) : Stored(db[list[c][l]])
        BY <1>7, <4>2, <4>3
      <4>5. Grown(u) < 2 * PageSize
        <5>1. Grown(u) \in Nat
          <6>1. list[c] \in Seq(Records)
            BY <1>1 DEF SourcesOK
          <6>2. IsFiniteSet(Listed(c))
            BY <6>1, PageIsFinite DEF Listed
          <6>3. IsFiniteSet(Listed(c) \ u.start)
            BY <6>2, FS_Subset
          <6> QED BY <6>3, FS_CardinalityType DEF Grown
        <5>2. ~(Grown(u) >= 2 * PageSize)
          BY <3>1, <3>2 DEF Outgrown, Grown
        <5> QED BY <5>1, <5>2, SizesAssumption
      <4> QED BY <4>2, <4>4, <4>5 DEF AtKnown
    <3>3. CASE ~bound
      <4>1. p >= Pages(c)
        <5>1. CASE Shape(c).ends /\ p >= Pages(c)
          BY <5>1
        <5>2. CASE last /\ Pages(c) <= Cap(i, c)
          <6>1. Pages(c) \in Int
            BY <1>1, SizesAssumption DEF SourcesOK, Pages
          <6>2. Cap(i, c) \in Nat
            <7>1. runs[i].cap \in Nat /\ Shape(c).max \in Nat
              BY <1>1, PlanIsTyped DEF RunsOK, RunRecords, Shape, Kinds
            <7> QED BY <7>1 DEF Cap
          <6> QED BY <1>1, <5>2, <6>1, <6>2
        <5> QED BY <1>17, <3>1, <3>3, <5>1, <5>2
      <4>2. Len(list[c]) <= p * PageSize
        BY <1>1, <4>1, PagesCover
      <4>3. ASSUME NEW l \in DOMAIN list[c], l > Passed(u) PROVE KeptNext(list[c][l])
        <5>1. list[c] \in Seq(Records)
          BY <1>1 DEF SourcesOK
        <5>2. l \in 1..Len(list[c])
          BY <5>1
        <5>3. Passed(u) \in Int /\ p * PageSize \in Int
          BY <1>1, SizesAssumption DEF Passed
        <5>4. l <= p * PageSize /\ Passed(u) < l
          BY <4>2, <4>3, <5>1, <5>2, <5>3
        <5>5. l \in OnPage(c, p)
          BY <5>4 DEF OnPage, Passed
        <5> QED BY <1>22, <2>3, <5>5
      <4> QED BY <4>3 DEF AllKept
    <3> QED BY <3>2, <3>3
  <2> QED BY <1>8, <1>21, <2>2, <2>3 DEF Finishes
<1> QED BY <1>23, <1>24

(* One page, whatever becomes of it.                                           *)
LEMMA PageTurns ==
  ASSUME SourcesOK, OrderOK, RowsOK, RunsOK, WorkersOK, NEW i \in Runs, SumsOK(w[i]), HandsOK(w[i]), Page(i)
  PROVE  /\ w[i].pc = "list" /\ w[i].conn \in Connectors /\ w[i].page \in Nat /\ w[i].page > 0 /\ w[i].known \in Nat
         /\ FillsPage(w[i].conn, w[i].page) /\ (GoesOn(i) \/ Finishes(i)) /\ Holds(w'[i], Found')
         /\ UNCHANGED <<plan, list, content>> /\ gap \subseteq gap'
         /\ \A j \in Runs \ {i} : w'[j] = w[j]
<1> DEFINE u == w[i]
           PageFor(o) == IF o = "blank" THEN <<>> ELSE PageOf(u.conn, u.page)
           Unread(o) == EndsUnread(i, u, o, PageFor(o))
<1>1. /\ u.pc = "list" /\ u.conn \in Connectors /\ u.page \in Nat /\ u.page > 0 /\ u.known \in Nat
  BY DEF Page, WorkersOK, WorkerOK, Workers
<1>2. UNCHANGED <<plan, list, content>>
  BY DEF Page
<1>3. PICK o : \E bad \in SUBSET (IF Unread(o) THEN {} ELSE Selected(i, u, PageFor(o))) :
         IF Unread(o) THEN UnreadPage(i, o, PageFor(o)) ELSE ReadPage(i, o, PageFor(o), bad)
  BY DEF Page
<1> DEFINE page == PageFor(o)
<1>4. CASE Unread(o)
  <2>1. UnreadPage(i, o, page) /\ EndsUnread(i, u, o, page)
    BY <1>3, <1>4
  <2>2. page = IF o = "blank" THEN <<>> ELSE PageOf(w[i].conn, w[i].page)
    OBVIOUS
  <2> HIDE DEF PageFor, page
  <2>3. db' = db /\ Finishes(i) /\ Holds(w'[i], Found)
    BY ONLY SourcesOK, OrderOK, RowsOK, RunsOK, WorkersOK, SumsOK(w[i]), HandsOK(w[i]), <1>1, <1>2, <2>1, <2>2,
            UnreadPageFinishes
  <2>4. Found' = Found /\ FillsPage(u.conn, u.page)
    BY <2>3 DEF Found, FillsPage
  <2>5. gap \subseteq gap' /\ \A j \in Runs \ {i} : w'[j] = w[j]
    BY <2>1 DEF UnreadPage, WorkersOK
  <2> QED BY <1>1, <1>2, <2>3, <2>4, <2>5
<1>5. CASE ~Unread(o)
  <2>1. PICK bad : bad \subseteq Selected(i, u, page) /\ ReadPage(i, o, page, bad)
    BY <1>3, <1>5
  <2>2. page = PageOf(w[i].conn, w[i].page)
    BY <1>5 DEF EndsUnread
  <2> HIDE DEF PageFor, page
  <2>3. FillsPage(u.conn, u.page) /\ (GoesOn(i) \/ Finishes(i)) /\ Holds(w'[i], Found')
    BY <1>1, <1>2, <2>1, <2>2, ReadPageFinishes
  <2>4. gap \subseteq gap' /\ \A j \in Runs \ {i} : w'[j] = w[j]
    BY <2>1 DEF ReadPage, WorkersOK
  <2> QED BY <1>1, <1>2, <2>3, <2>4
<1> QED BY <1>4, <1>5

(* The other steps, publications apart: what is stored stays so and nothing is *)
(* added; a worker that changes begins a list or has none, and what it had     *)
(* begun is broken off.                                                        *)
Turns(j) ==
  ListBegins(w'[j]) /\ Holds(w'[j], Found) /\ (w[j].pc = "list" => w[j].conn \in gap')
LeavesStore ==
  /\ UNCHANGED <<plan, list>> /\ gap \subseteq gap'
  /\ \A r \in Records : Stored(db'[r]) <=> Stored(db[r])
  /\ \A j \in Runs : w'[j] = w[j] \/ Turns(j)

(* A detail is of a record that is stored.                                     *)
LEMMA DetailIsQuiet ==
  ASSUME SourcesOK, RowsOK, WorkersOK, NEW i \in Runs, HandsOK(w[i]), HezarehDetail(i) \/ ParsnamadDetail(i)
  PROVE  LeavesStore
<1> DEFINE u == w[i]
           x0 == Head(u.cands)
           p == Payload(x0.at, content[x0.r].v)
<1>1. PICK o, rest : rest \in {<<>>, Tail(u.cands)} /\ DetailPage(i, o, rest)
  BY DEF HezarehDetail, ParsnamadDetail
<1>2. WorkerOK(u) /\ u.pc = "details" /\ u.cands \in Seq(Found) /\ u.cands # <<>> /\ Holds(u, Found)
  BY <1>1 DEF WorkersOK, WorkerOK, DetailPage, HandsOK, Holds
<1> DEFINE v == AfterDetail(u, o, rest)
           x == IF rest = <<>> THEN NextTask(i, v) ELSE v
<1>3. /\ db' = IF o = "enriched" THEN [db EXCEPT ![x0.r] = Recorded(x0.r, @, p)] ELSE db
      /\ w' = [w EXCEPT ![i] = x]
      /\ UNCHANGED <<plan, list, gap>>
  BY <1>1 DEF DetailPage, AfterDetail
<1>4. x0 \in Candidates /\ Stored(db[x0.r]) /\ x0.r \in Records /\ x0.at \in Contents
  <2>1. x0 \in Found
    BY <1>2
  <2> QED BY <2>1 DEF Found, Candidates
<1>5. Stored(Recorded(x0.r, db[x0.r], p))
  <2>1. RowShape(x0.r, db[x0.r]) /\ content[x0.r] \in Contents
    BY <1>4 DEF RowsOK, RowOK, SourcesOK
  <2>2. p \in Hashes
    BY <1>4, <2>1 DEF Payload, Contents, Hashes
  <2> QED BY <2>1, <2>2, RecordedIsShaped
<1>6. \A r \in Records : Stored(db'[r]) <=> Stored(db[r])
  BY <1>3, <1>4, <1>5 DEF RowsOK
<1>7. ListBegins(x) /\ Holds(x, Found)
  <2> HIDE DEF u
  <2> QED BY ONLY SourcesOK, <1>1, <1>2, DetailDoneBegins
<1> HIDE DEF x
<1>8. w'[i] = x /\ \A j \in Runs \ {i} : w'[j] = w[j]
  BY <1>3 DEF WorkersOK
<1> QED BY <1>2, <1>3, <1>6, <1>7, <1>8 DEF LeavesStore, Turns

(* A worker that is off holds nothing.                                         *)
LEMMA OffBegins ==
  ASSUME NEW S, NEW sums \in [Connectors -> Summaries], \A c \in Connectors : sums[c].status = "none" => ~sums[c].complete
  PROVE  /\ ListBegins(Off) /\ Holds(Off, S) /\ ListBegins([Off EXCEPT !.sums = sums]) /\ Holds([Off EXCEPT !.sums = sums], S)
<1> DEFINE none == [c \in Connectors |-> NoSummary]
           x == [Off EXCEPT !.sums = sums]
<1>1. Off = [pc |-> "off", conn |-> "none", todo |-> <<>>, page |-> 0, prev |-> <<>>, known |-> 0,
             floor |-> TRUE, first |-> FALSE, start |-> {}, cands |-> <<>>, jobs |-> <<>>,
             sum |-> NoSummary, sums |-> none]
  BY DEF Off
<1>2. \A c \in Connectors : ~none[c].complete
  BY DEF NoSummary
<1>3. <<>> \in Seq(S) /\ DOMAIN <<>> = {}
  OBVIOUS
<1> HIDE DEF none
<1>4. Off.pc = "off" /\ Off.cands = <<>> /\ Off.jobs = <<>> /\ Off.sums = none
  BY <1>1
<1>5. x.pc = "off" /\ x.cands = <<>> /\ x.jobs = <<>> /\ x.sums = sums
  BY <1>1
<1> HIDE DEF x
<1>6. ListBegins(x) /\ Holds(x, S)
  BY <1>3, <1>5 DEF ListBegins, Holds
<1> QED BY <1>2, <1>3, <1>4, <1>6 DEF ListBegins, Holds, x

(* A run is taken up, or a connector tested: a list begins.                    *)
LEMMA BeginIsQuiet ==
  ASSUME SourcesOK, RunsOK, WorkersOK, NEW i \in Runs, RunExtraction(i)
  PROVE  LeavesStore
<1> DEFINE runnable == {c \in runs[i].conns : conn[c].enabled}
           done == [Off EXCEPT !.todo = SetToSeq(runnable)]
           x == NextTask(i, done)
<1>1. runnable \subseteq Connectors
  BY DEF RunsOK, RunRecords
<1>2. SetToSeq(runnable) \in Seq(Connectors)
  <2>1. IsFiniteSet(runnable)
    BY <1>1, FS_Subset, ConnectorsAssumption
  <2>2. SetToSeq(runnable) \in Seq(runnable)
    BY <2>1, SetToSeqIsListed
  <2> QED BY <1>1, <2>2, SeqMonotonic
<1>3. /\ w' = [w EXCEPT ![i] = x] /\ w[i].pc = "off" /\ UNCHANGED <<plan, list, db, gap>>
  BY DEF RunExtraction, Begin
<1> HIDE DEF runnable
<1>4. done.todo = SetToSeq(runnable) /\ done.jobs = <<>> /\ done.sums = NoSums
  BY DEF Off, NoSums
<1>5. NoSums \in [Connectors -> Summaries] /\ <<>> \in Seq(Jobs) /\ DOMAIN <<>> = {}
      /\ \A c \in Connectors : ~NoSums[c].complete
  BY SummariesAreTyped DEF NoSums, NoSummary
<1> HIDE DEF done
<1>6. ListBegins(x) /\ Holds(x, Found)
  BY <1>2, <1>4, <1>5, NextTaskBegins
<1> HIDE DEF x
<1>7. w'[i] = x /\ \A j \in Runs \ {i} : w'[j] = w[j]
  BY <1>3 DEF WorkersOK
<1> QED BY <1>3, <1>6, <1>7 DEF LeavesStore, Turns

LEMMA TestIsQuiet ==
  ASSUME SourcesOK, RunsOK, WorkersOK, AccOK, CourseInv, TestConnector
  PROVE  LeavesStore
<1> DEFINE i == NextRun
           c == Head(acc.todo)
           x == StartList(i, Off, c)
<1>1. i \in Runs /\ runs[i].st = "none"
  BY NextRunIsFree DEF TestConnector
<1>2. c \in Connectors
  BY DEF AccOK, TestConnector
<1>3. NoSums \in [Connectors -> Summaries] /\ \A e \in Connectors : ~NoSums[e].complete
  BY SummariesAreTyped DEF NoSums, NoSummary
<1>4. Off \in Workers /\ Off.todo = <<>> /\ Off.jobs = <<>> /\ Off.sums = NoSums /\ Off.pc = "off"
  BY <1>3, OffIsTyped DEF Off, NoSums
<1>5. /\ w' = [w EXCEPT ![i] = x] /\ UNCHANGED <<plan, list, db, gap>>
  BY DEF TestConnector
<1>6. w[i] = Off
  BY <1>1 DEF CourseInv, CourseOK
<1> HIDE DEF i, c
<1>7. ListBegins(x) /\ x.cands = <<>> /\ x.jobs = Off.jobs /\ x.sums = Off.sums
  BY <1>2, <1>4, StartListOK, StartListBegins
<1> HIDE DEF x
<1>8. Holds(x, Found)
  <2>1. <<>> \in Seq(Found) /\ DOMAIN <<>> = {}
    OBVIOUS
  <2> QED BY <1>3, <1>4, <1>7, <2>1 DEF Holds
<1>9. w'[i] = x /\ \A j \in Runs \ {i} : w'[j] = w[j]
  BY <1>1, <1>5 DEF WorkersOK
<1>10. w[i].pc # "list"
  BY <1>4, <1>6
<1> QED BY <1>5, <1>7, <1>8, <1>9, <1>10 DEF LeavesStore, Turns

(* A worker that stops breaks off its list, and one that saves has none.       *)
LEMMA StopIsQuiet ==
  ASSUME WorkersOK, NEW i \in Runs, NEW x, ListBegins(x), Holds(x, Found), w' = [w EXCEPT ![i] = x],
         w[i].pc = "list" => w[i].conn \in gap', gap \subseteq gap', UNCHANGED <<plan, list, db>>
  PROVE  LeavesStore
<1>1. w'[i] = x /\ \A j \in Runs \ {i} : w'[j] = w[j]
  BY DEF WorkersOK
<1> QED BY <1>1 DEF LeavesStore, Turns

(* So every step but a page, a publication and an edit is quiet.               *)
LEMMA AsideIsQuiet ==
  ASSUME SystemInv, StoreInv, Aside
  PROVE  LeavesStore
<1>1. /\ SourcesOK /\ RowsOK /\ RunsOK /\ WorkersOK /\ AccOK /\ CourseInv /\ VerdictInv
  BY DEF SystemInv, TypeInv
<1>2. NoSums \in [Connectors -> Summaries] /\ \A c \in Connectors : ~NoSums[c].complete
  BY SummariesAreTyped DEF NoSums, NoSummary
<1>3. ListBegins(Off) /\ Holds(Off, Found)
  BY <1>2, OffBegins
<1>4. UNCHANGED <<w, plan, list, db, gap>> => LeavesStore
  BY DEF LeavesStore
<1>5. CASE Validate \/ Switch \/ DueArrives \/ TimePasses \/ CreateManual \/ DispatchDue \/ RecoverStale
  BY <1>4, <1>5 DEF Validate, Switch, DueArrives, TimePasses, CreateManual, DispatchDue, RecoverStale
<1>6. ASSUME NEW i \in Runs, LoseMessage(i) PROVE LeavesStore
  BY <1>4, <1>6 DEF LoseMessage
<1>7. ASSUME NEW i \in Runs, Stop(i) PROVE LeavesStore
  <2>1. /\ w' = [w EXCEPT ![i] = Off] /\ UNCHANGED <<plan, list, db>>
        /\ gap' = gap \cup (IF w[i].pc = "list" THEN {w[i].conn} ELSE {})
    BY <1>7 DEF Stop
  <2> QED BY <1>1, <1>3, <2>1, StopIsQuiet
<1>8. ASSUME NEW i \in Runs, RunExtraction(i) PROVE LeavesStore
  BY <1>1, <1>8, BeginIsQuiet
<1>9. ASSUME NEW i \in Runs, Save(i) PROVE LeavesStore
  <2> DEFINE sums == w[i].sums
             x == [Off EXCEPT !.sums = sums]
  <2>1. /\ w[i].pc = "save" /\ w' = [w EXCEPT ![i] = x] /\ UNCHANGED <<plan, list, db, gap>>
    BY <1>9 DEF Save
  <2>2. sums \in [Connectors -> Summaries] /\ \A c \in Connectors : sums[c].status = "none" => ~sums[c].complete
    BY <1>1 DEF WorkersOK, Workers, StoreInv, HandsOK, Holds
  <2> HIDE DEF sums
  <2>3. ListBegins(x) /\ Holds(x, Found)
    BY <2>2, OffBegins
  <2> HIDE DEF x
  <2> QED BY <1>1, <2>1, <2>3, StopIsQuiet
<1>10. CASE AccNext
  <2>1. CASE Dispatch \/ Resave \/ StartAcceptance \/ Prepare \/ CheckConnector \/ Judge \/ Finish \/ Fatal
    BY <1>4, <2>1 DEF Dispatch, Resave, StartAcceptance, Prepare, CheckConnector, Judge, Finish, Fatal, extVars
  <2>2. CASE TestConnector
    BY <1>1, <2>2, TestIsQuiet
  <2>3. CASE Die
    <3>1. CASE acc.pc = "wait" /\ w[acc.run].pc # "off"
      <4>1. /\ w' = [w EXCEPT ![acc.run] = Off] /\ gap' = gap \cup {Head(acc.todo)} /\ UNCHANGED <<plan, list, db>>
        BY <2>3, <3>1 DEF Die
      <4>2. acc.run \in Runs /\ UnderTest(acc.run, Head(acc.todo))
        BY <1>1, <3>1 DEF AccOK, VerdictInv
      <4>3. w[acc.run].pc = "list" => w[acc.run].conn = Head(acc.todo)
        BY <4>2 DEF UnderTest
      <4> QED BY <1>1, <1>3, <4>1, <4>2, <4>3, StopIsQuiet
    <3>2. CASE ~(acc.pc = "wait" /\ w[acc.run].pc # "off")
      BY <1>4, <2>3, <3>2 DEF Die
    <3> QED BY <3>1, <3>2
  <2> QED BY <1>10, <2>1, <2>2, <2>3 DEF AccNext, Task
<1> QED BY <1>5, <1>6, <1>7, <1>8, <1>9, <1>10 DEF Aside

(* A quiet step keeps the invariant.                                           *)
LEMMA QuietKeeps ==
  ASSUME SourcesOK, WorkersOK, StoreInv, LeavesStore
  PROVE  StoreInv'
<1>1. UNCHANGED <<plan, list>> /\ gap \subseteq gap'
  BY DEF LeavesStore
<1>2. \A r \in Records : Kept(r)' <=> Kept(r)
  BY DEF LeavesStore, Kept
<1>3. Found' = Found
  BY DEF LeavesStore, Found, Candidates
<1>4. \A c \in Connectors : \A l \in DOMAIN list[c] : list[c][l] \in Records
  BY DEF SourcesOK
<1>5. OrderOK'
  <2>1. \A c \in Connectors : \A r \in plan.home[c] : r \in Records
    BY PlanIsTyped
  <2> QED BY <1>1, <1>2, <2>1 DEF OrderOK, StoreInv, Listed
<1>6. ASSUME NEW j \in Runs PROVE ReaderOK(w[j])' /\ HandsOK(w[j])'
  <2>1. CASE w'[j] = w[j]
    <3>1. HandsOK(w[j])'
      BY <1>3, <2>1 DEF StoreInv, HandsOK, Holds
    <3>2. w[j].pc = "list" => w[j].conn \in Connectors
      BY DEF WorkersOK, WorkerOK
    <3>3. ReaderOK(w[j])
      BY DEF StoreInv
    <3>4. ReaderOK(w[j])'
      BY <1>1, <1>2, <1>4, <2>1, <3>2, <3>3 DEF ReaderOK, Passed, Listed
    <3> QED BY <3>1, <3>4
  <2>2. CASE Turns(j)
    <3>1. HandsOK(w[j])'
      BY <1>3, <2>2 DEF Turns, HandsOK, ListBegins, Holds
    <3>2. w'[j].pc = "list" => w'[j].page = 1 /\ w'[j].conn \in Connectors /\ w'[j].start = Listed(w'[j].conn)
      BY <2>2 DEF Turns, ListBegins
    <3>3. (1 - 1) * PageSize = 0
      BY SizesAssumption
    <3>4. \A c \in Connectors : \A l \in DOMAIN list[c] : l > 0
      BY DEF SourcesOK
    <3>5. \A c \in Connectors : \A l \in DOMAIN list[c] : ~(l <= 0)
      BY DEF SourcesOK
    <3>6. ReaderOK(w[j])'
      BY <1>1, <3>2, <3>3, <3>5 DEF ReaderOK, Passed, Listed
    <3> QED BY <3>1, <3>6
  <2> QED BY <2>1, <2>2 DEF LeavesStore
<1>7. ASSUME NEW c \in Connectors PROVE BehindOK(c)'
  <2> SUFFICES ASSUME c \notin gap', NEW k \in DOMAIN list'[c], NEW l \in DOMAIN list'[c], Missing(c, k, l)'
               PROVE  \E j \in Runs : Between(w[j], c, k, l)'
    BY DEF BehindOK
  <2>1. k \in DOMAIN list[c] /\ l \in DOMAIN list[c] /\ c \notin gap
    BY <1>1
  <2>2. Missing(c, k, l)
    BY <1>1, <1>2, <1>4, <2>1 DEF Missing, LeavesStore
  <2>3. PICK j \in Runs : Between(w[j], c, k, l)
    BY <2>1, <2>2 DEF StoreInv, BehindOK
  <2>4. w'[j] = w[j]
    BY <2>3 DEF LeavesStore, Turns, Between, Lists
  <2>5. Between(w[j], c, k, l)'
    BY <1>1, <2>3, <2>4 DEF Between, Lists, Reach, Passed, Grown, Listed
  <2> QED BY <2>5
<1> QED BY <1>5, <1>6, <1>7 DEF StoreInv

(* An edit does, too: nothing of it is stored.                                 *)
LEMMA EditIsQuiet ==
  ASSUME Edit
  PROVE  LeavesStore
  BY DEF Edit, LeavesStore

(* The places of a list after a publication.                                   *)
LEMMA PublishShifts ==
  ASSUME SourcesOK, NEW c \in Connectors, NEW r \in Records, r \notin Listed(c),
         list' = [list EXCEPT ![c] = <<r>> \o @]
  PROVE  /\ DOMAIN list'[c] = 1..(Len(list[c]) + 1) /\ list'[c][1] = r
         /\ \A k \in DOMAIN list'[c] : k # 1 => k - 1 \in DOMAIN list[c] /\ list'[c][k] = list[c][k - 1]
         /\ Listed(c)' = Listed(c) \cup {r}
         /\ \A e \in Connectors \ {c} : list'[e] = list[e]
<1> DEFINE s == list[c]
           new == <<r>> \o s
<1>1. s \in Seq(Records) /\ list'[c] = new /\ \A e \in Connectors \ {c} : list'[e] = list[e]
  BY DEF SourcesOK
<1> HIDE DEF s
<1>2. Len(<<r>>) = 1 /\ <<r>>[1] = r /\ <<r>> \in Seq(Records)
  OBVIOUS
<1>3. /\ new \in Seq(Records) /\ Len(new) = Len(s) + 1 /\ new[1] = r
      /\ \A k \in 1..Len(new) : k # 1 => k - 1 \in 1..Len(s) /\ new[k] = s[k - 1]
  BY <1>1, <1>2
<1> HIDE DEF new
<1>4. DOMAIN new = 1..(Len(s) + 1) /\ DOMAIN s = 1..Len(s)
  BY <1>1, <1>3
<1>5. ToSet(new) = ToSet(s) \cup {r}
  <2>1. \A k \in 1..Len(s) : k + 1 \in 1..Len(new) /\ new[k + 1] = s[k]
    BY <1>1, <1>3
  <2>2. 1 \in 1..Len(new)
    BY <1>1, <1>3
  <2>3. \A k \in DOMAIN new : new[k] = r \/ new[k] \in ToSet(s)
    BY <1>3, <1>4 DEF ToSet
  <2>4. \A k \in DOMAIN s : s[k] \in ToSet(new)
    BY <1>4, <2>1 DEF ToSet
  <2>5. r \in ToSet(new)
    BY <1>3, <1>4, <2>2 DEF ToSet
  <2> QED BY <2>3, <2>4, <2>5 DEF ToSet
<1> QED BY <1>1, <1>3, <1>4, <1>5 DEF Listed, s

(* A publication shifts every place by one, and every list that is being read  *)
(* has grown by one record.                                                    *)
LEMMA PublishKeeps ==
  ASSUME SourcesOK, WorkersOK, StoreInv, Publish
  PROVE  StoreInv'
<1>1. PICK r \in Records, c \in Connectors :
        /\ r \in plan.home[c] \ Listed(c) /\ list' = [list EXCEPT ![c] = <<r>> \o @]
        /\ UNCHANGED <<plan, db, w, gap>>
  BY DEF Publish
<1>2. /\ DOMAIN list'[c] = 1..(Len(list[c]) + 1) /\ list'[c][1] = r
      /\ \A k \in DOMAIN list'[c] : k # 1 => k - 1 \in DOMAIN list[c] /\ list'[c][k] = list[c][k - 1]
      /\ Listed(c)' = Listed(c) \cup {r}
      /\ \A e \in Connectors \ {c} : list'[e] = list[e]
  BY <1>1, PublishShifts
<1>3. /\ OrderOK /\ \A e \in Connectors : BehindOK(e)
      /\ \A j \in Runs : ReaderOK(w[j]) /\ HandsOK(w[j])
  BY DEF StoreInv
<1>4. ~Kept(r) /\ r \notin Listed(c)
  BY <1>1, <1>3 DEF OrderOK
<1>5. \A e : Kept(e)' <=> Kept(e)
  BY <1>1 DEF Kept
<1>6. \A e \in Connectors \ {c} : Listed(e)' = Listed(e)
  BY <1>2 DEF Listed
<1>7. /\ \A k \in DOMAIN list[c] : k \in Int
      /\ \A k \in DOMAIN list'[c] : k \in Int /\ (k # 1 => k > 1)
      /\ \A k \in DOMAIN list[c] : list[c][k] \in Listed(c)
  <2>1. list[c] \in Seq(Records)
    BY DEF SourcesOK
  <2> QED BY <1>2, <2>1 DEF Listed, ToSet
<1>8. OrderOK'
  <2>1. ASSUME NEW e \in Connectors \ {c}
        PROVE  /\ \A k, l \in DOMAIN list'[e] : k < l =>
                    list'[e][k] # list'[e][l] /\ (list'[e][k] \in plan'.old => list'[e][l] \in plan'.old)
               /\ \A q \in plan'.home[e] : Kept(q)' => q \in Listed(e)'
    BY <1>1, <1>2, <1>3, <1>5, <1>6 DEF OrderOK
  <2>2. ASSUME NEW k \in DOMAIN list'[c], NEW l \in DOMAIN list'[c], k < l
        PROVE  list'[c][k] # list'[c][l] /\ (list'[c][k] \in plan.old => list'[c][l] \in plan.old)
    <3>1. l # 1 /\ l - 1 \in DOMAIN list[c] /\ list'[c][l] = list[c][l - 1]
      BY <1>2, <1>7, <2>2
    <3>2. CASE k = 1
      BY <1>2, <1>4, <1>7, <3>1, <3>2 DEF Kept
    <3>3. CASE k # 1
      <4>1. k - 1 \in DOMAIN list[c] /\ list'[c][k] = list[c][k - 1] /\ k - 1 < l - 1
        BY <1>2, <1>7, <2>2, <3>3
      <4> QED BY <1>3, <3>1, <4>1 DEF OrderOK
    <3> QED BY <3>2, <3>3
  <2>3. \A q \in plan.home[c] : Kept(q) => q \in Listed(c) \cup {r}
    BY <1>3 DEF OrderOK
  <2>4. plan' = plan /\ Listed(c)' = Listed(c) \cup {r}
    BY <1>1, <1>2
  <2>5. ASSUME NEW e \in Connectors
        PROVE  /\ \A k, l \in DOMAIN list'[e] : k < l =>
                    list'[e][k] # list'[e][l] /\ (list'[e][k] \in plan'.old => list'[e][l] \in plan'.old)
               /\ \A q \in plan'.home[e] : Kept(q)' => q \in Listed(e)'
    <3>1. CASE e = c
      <4>1. \A q \in plan'.home[c] : Kept(q)' => q \in Listed(c)'
        BY <1>5, <2>3, <2>4
      <4>2. Listed(e)' = Listed(c)'
        BY <3>1 DEF Listed
      <4> QED BY <2>2, <2>4, <3>1, <4>1, <4>2
    <3>2. CASE e # c
      BY <2>1, <3>2
    <3> QED BY <3>1, <3>2
  <2> QED BY <2>5 DEF OrderOK
<1>9. ASSUME NEW j \in Runs PROVE ReaderOK(w[j])' /\ HandsOK(w[j])'
  <2>1. HandsOK(w[j])'
    <3>1. Found' = Found
      BY <1>1 DEF Found
    <3> QED BY <1>1, <1>3, <3>1 DEF HandsOK, Holds
  <2>2. w[j].pc = "list" => w[j].conn \in Connectors
    BY DEF WorkersOK, WorkerOK
  <2>3. ASSUME w[j].pc = "list", w[j].conn # c PROVE ReaderOK(w[j])'
    BY <1>1, <1>2, <1>3, <1>5, <1>6, <2>2, <2>3 DEF ReaderOK, Passed
  <2>4. ASSUME w[j].pc = "list", w[j].conn = c PROVE ReaderOK(w[j])'
    <3>1. w[j].start \subseteq Listed(c)
      BY <1>3, <2>4 DEF ReaderOK
    <3>2. ASSUME c \notin gap, NEW l \in DOMAIN list'[c], l <= Passed(w[j]), list'[c][l] \in w[j].start
          PROVE  Kept(list'[c][l])
      <4>1. l # 1
        BY <1>2, <1>4, <3>1, <3>2
      <4>2. l - 1 \in DOMAIN list[c] /\ list'[c][l] = list[c][l - 1]
        BY <1>2, <4>1
      <4>3. Passed(w[j]) \in Int
        BY SizesAssumption, <2>4 DEF WorkersOK, WorkerOK, Workers, Passed
      <4>4. l - 1 <= Passed(w[j])
        BY <1>7, <3>2, <4>3
      <4> QED BY <1>3, <2>4, <3>2, <4>2, <4>4 DEF ReaderOK
    <3> QED BY <1>1, <1>2, <1>5, <2>4, <3>1, <3>2 DEF ReaderOK, Passed
  <2>5. ASSUME w[j].pc # "list" PROVE ReaderOK(w[j])'
    BY <1>1, <2>5 DEF ReaderOK
  <2> QED BY <2>1, <2>3, <2>4, <2>5
<1>10. ASSUME NEW j \in Runs, Lists(w[j], c)
       PROVE  Grown(w[j])' = Grown(w[j]) + 1 /\ Grown(w[j]) \in Nat
  <2>1. w[j].start \subseteq Listed(c)
    BY <1>3, <1>10 DEF ReaderOK, Lists
  <2>2. Listed(c)' \ w[j].start = (Listed(c) \ w[j].start) \cup {r} /\ r \notin Listed(c) \ w[j].start
    BY <1>2, <1>4, <2>1
  <2>3. list[c] \in Seq(Records)
    BY DEF SourcesOK
  <2>4. IsFiniteSet(Listed(c) \ w[j].start)
    BY <2>3, PageIsFinite, FS_Subset DEF Listed
  <2>5. Cardinality((Listed(c) \ w[j].start) \cup {r}) = Cardinality(Listed(c) \ w[j].start) + 1
        /\ Cardinality(Listed(c) \ w[j].start) \in Nat
    BY <2>2, <2>4, FS_AddElement, FS_CardinalityType
  <2>6. Listed(w[j].conn) = Listed(c) /\ Listed(w[j].conn)' = Listed(c)'
    BY <1>1, <1>10 DEF Lists, Listed
  <2>7. w'[j] = w[j]
    BY <1>1
  <2> QED BY <2>2, <2>5, <2>6, <2>7 DEF Grown
<1>11. ASSUME NEW e \in Connectors PROVE BehindOK(e)'
  <2> SUFFICES ASSUME e \notin gap', NEW k \in DOMAIN list'[e], NEW l \in DOMAIN list'[e], Missing(e, k, l)'
               PROVE  \E j \in Runs : Between(w[j], e, k, l)'
    BY DEF BehindOK
  <2>1. CASE e # c
    <3>1. list'[e] = list[e] /\ Missing(e, k, l)
      BY <1>1, <1>2, <1>5, <2>1 DEF Missing
    <3>2. PICK j \in Runs : Between(w[j], e, k, l)
      BY <1>1, <1>3, <3>1 DEF BehindOK
    <3>3. Listed(w[j].conn)' = Listed(w[j].conn) /\ w'[j] = w[j]
      BY <1>1, <1>6, <2>1, <3>2 DEF Between, Lists
    <3>4. Between(w[j], e, k, l)'
      BY <3>2, <3>3 DEF Between, Lists, Reach, Passed, Grown
    <3> QED BY <3>4
  <2>2. CASE e = c
    <3>1. k < l /\ Stored(db[list'[c][k]]) /\ ~Kept(list'[c][l])
      BY <1>1, <1>5, <2>2 DEF Missing
    <3>2. k # 1 /\ l # 1
      BY <1>2, <1>4, <1>7, <2>2, <3>1 DEF Kept
    <3>3. /\ k - 1 \in DOMAIN list[c] /\ list'[c][k] = list[c][k - 1]
          /\ l - 1 \in DOMAIN list[c] /\ list'[c][l] = list[c][l - 1] /\ k - 1 < l - 1
      <4>1. k \in DOMAIN list'[c] /\ l \in DOMAIN list'[c]
        BY <2>2
      <4>2. k \in Int /\ l \in Int
        BY ONLY <4>1, <1>7
      <4>3. k - 1 < l - 1
        BY ONLY <3>1, <4>2
      <4> QED BY ONLY <1>2, <3>2, <4>1, <4>3
    <3>4. Missing(c, k - 1, l - 1)
      BY <3>1, <3>3 DEF Missing
    <3>5. PICK j \in Runs : Between(w[j], c, k - 1, l - 1)
      BY <1>1, <1>3, <2>2, <3>3, <3>4 DEF BehindOK
    <3>6. Lists(w[j], c) /\ k - 1 <= Reach(w[j]) /\ l - 1 > Passed(w[j])
      BY <3>5 DEF Between
    <3>7. w'[j] = w[j] /\ Grown(w[j])' = Grown(w[j]) + 1 /\ Grown(w[j]) \in Nat
      BY <1>1, <1>10, <3>6
    <3> DEFINE a == (w[j].page - 1 - w[j].known) * PageSize
    <3>8. a \in Int /\ Passed(w[j]) \in Int
      BY SizesAssumption, <3>6 DEF WorkersOK, WorkerOK, Workers, Lists, Passed
    <3>9. Reach(w[j]) = a + Grown(w[j]) /\ Reach(w[j])' = a + Grown(w[j])' /\ Passed(w[j])' = Passed(w[j])
      BY <3>7 DEF Reach, Passed
    <3> HIDE DEF a
    <3>10. k <= Reach(w[j])' /\ l > Passed(w[j])'
      BY <1>7, <2>2, <3>6, <3>7, <3>8, <3>9
    <3>11. Lists(w[j], c)'
      BY <3>6, <3>7 DEF Lists
    <3> QED BY <2>2, <3>10, <3>11 DEF Between
  <2> QED BY <2>1, <2>2
<1> QED BY <1>8, <1>9, <1>11 DEF StoreInv

(* The places of a list that is read on, in numbers.                           *)
LEMMA PagePlaces ==
  ASSUME NEW p \in Nat, p > 0, NEW k \in Nat
  PROVE  /\ (p - 1) * PageSize \in Nat /\ p * PageSize \in Nat /\ PageSize \in Nat /\ PageSize > 0
         /\ p * PageSize = (p - 1) * PageSize + PageSize
         /\ (p - 1 - k) * PageSize \in Int /\ (p - 1 - k) * PageSize <= p * PageSize
         /\ k > 0 => (p - 1 - k) * PageSize <= p * PageSize - 2 * PageSize
<1>1. PageSize \in Nat /\ PageSize > 0
  BY SizesAssumption
<1>2. (p - 1) * PageSize \in Nat /\ p * PageSize \in Nat /\ p * PageSize = (p - 1) * PageSize + PageSize
  BY <1>1
<1>3. (p - 1 - k) * PageSize <= p * PageSize /\ (p - 1 - k) * PageSize \in Int
  BY <1>1, ProductsGrow
<1>4. (p - 2) * PageSize = p * PageSize - 2 * PageSize
  BY <1>1
<1>5. k > 0 => (p - 1 - k) * PageSize <= (p - 2) * PageSize
  BY <1>1, ProductsGrow
<1> QED BY <1>1, <1>2, <1>3, <1>4, <1>5

(* What a list has grown by.                                                   *)
LEMMA GrownIsNatural ==
  ASSUME SourcesOK, NEW u, u.conn \in Connectors
  PROVE  Grown(u) \in Nat
<1>1. list[u.conn] \in Seq(Records)
  BY DEF SourcesOK
<1>2. IsFiniteSet(Listed(u.conn))
  BY <1>1, PageIsFinite DEF Listed
<1>3. IsFiniteSet(Listed(u.conn) \ u.start)
  BY <1>2, FS_Subset
<1> QED BY <1>3, FS_CardinalityType DEF Grown

(* What a page newly stores is nowhere but at its places.                      *)
LEMMA NewIsOnPage ==
  ASSUME SourcesOK, OrderOK, NEW c \in Connectors, NEW p, FillsPage(c, p), NEW e \in Connectors,
         NEW l \in DOMAIN list[e], Stored(db'[list[e][l]]), ~Stored(db[list[e][l]])
  PROVE  e = c /\ l \in OnPage(c, p)
<1>1. list[e][l] \in Records /\ list[e][l] \in Listed(e)
  BY DEF SourcesOK, Listed, ToSet
<1>2. PICK m \in OnPage(c, p) : list[c][m] = list[e][l]
  BY <1>1 DEF FillsPage
<1>3. m \in DOMAIN list[c] /\ list[c][m] \in Listed(c)
  BY DEF OnPage, Listed, ToSet
<1>4. e = c
  <2>1. list[e][l] \in plan.home[e] /\ list[e][l] \in plan.home[c]
    BY <1>1, <1>2, <1>3 DEF SourcesOK
  <2> QED BY <2>1, PlanIsTyped
<1>5. m \in Int /\ l \in Int
  BY <1>3 DEF SourcesOK
<1>6. ~(m < l) /\ ~(l < m)
  BY <1>2, <1>3, <1>4 DEF OrderOK
<1> QED BY <1>4, <1>5, <1>6

(* A run that ends at known records has stored nothing of its own so far.      *)
LEMMA KnownReach ==
  ASSUME SourcesOK, NEW u, u.conn \in Connectors, u.page \in Nat, u.page > 0, u.known \in Nat, AtKnown(u)
  PROVE  Reach(u) \in Int /\ Reach(u) < u.page * PageSize
<1> DEFINE a == (u.page - 1 - u.known) * PageSize
           g == Grown(u)
           k == u.page * PageSize
<1>1. a \in Int /\ k \in Nat /\ a <= k - 2 * PageSize /\ PageSize \in Nat
  BY PagePlaces DEF AtKnown
<1>2. g \in Nat /\ g < 2 * PageSize
  BY GrownIsNatural DEF AtKnown
<1>3. Reach(u) = a + g
  BY DEF Reach
<1> HIDE DEF a, k, g
<1>4. a + g \in Int /\ a + g < k
  BY <1>1, <1>2
<1> QED BY <1>3, <1>4 DEF k

(* A list that ends at known records before its last page: what it has not     *)
(* come to is missing behind a record that it did not store itself.            *)
LEMMA KnownEnd ==
  ASSUME SourcesOK, WorkersOK, StoreInv, NEW i \in Runs, w[i].pc = "list", w[i].conn \notin gap,
         FillsPage(w[i].conn, w[i].page), AtKnown(w[i]),
         NEW l \in DOMAIN list[w[i].conn], l > w[i].page * PageSize, ~KeptNext(list[w[i].conn][l])
  PROVE  \E j \in Runs \ {i} : Between(w[j], w[i].conn, w[i].page * PageSize, l)
<1> DEFINE u == w[i]
           c == u.conn
           p == u.page
           k == p * PageSize
<1>1. c \in Connectors /\ p \in Nat /\ p > 0 /\ u.known \in Nat
  BY DEF WorkersOK, WorkerOK, Workers
<1>2. /\ (p - 1) * PageSize \in Nat /\ k \in Nat /\ PageSize \in Nat /\ PageSize > 0
      /\ k = (p - 1) * PageSize + PageSize
      /\ (p - 1 - u.known) * PageSize \in Int
      /\ u.known > 0 => (p - 1 - u.known) * PageSize <= k - 2 * PageSize
  BY <1>1, PagePlaces
<1>3. DOMAIN list[c] = 1..Len(list[c]) /\ Len(list[c]) \in Nat
  BY <1>1 DEF SourcesOK
<1>4. k \in OnPage(c, p) /\ k \in DOMAIN list[c]
  <2>1. k \in 1..Len(list[c]) /\ (p - 1) * PageSize < k
    <3> DEFINE q == (p - 1) * PageSize
               n == Len(list[c])
    <3>1. l > k /\ l \in 1..n /\ n \in Nat
      BY <1>3
    <3>2. q \in Nat /\ k \in Nat /\ k = q + PageSize /\ PageSize \in Nat /\ PageSize > 0
      BY <1>2
    <3> HIDE DEF k, q, n
    <3>3. k \in 1..n /\ q < k
      BY <3>1, <3>2
    <3> QED BY <3>3 DEF q, n
  <2> QED BY <1>2, <1>3, <2>1 DEF OnPage
<1>5. Stored(db[list[c][k]])
  BY <1>4 DEF AtKnown
<1>6. ~Kept(list[c][l])
  <2>1. list[c][l] \in Records
    BY <1>1 DEF SourcesOK
  <2> QED BY <2>1 DEF Kept, KeptNext, FillsPage
<1>7. Missing(c, k, l)
  <2>1. k < l
    BY <1>2, <1>3
  <2> QED BY <1>5, <1>6, <2>1 DEF Missing
<1>8. PICK j \in Runs : Between(w[j], c, k, l)
  BY <1>1, <1>4, <1>7 DEF StoreInv, BehindOK
<1>9. ~(k <= Reach(u))
  <2>1. Reach(u) \in Int /\ Reach(u) < k
    BY <1>1, KnownReach
  <2> HIDE DEF k
  <2> QED BY <1>2, <2>1
<1>10. j # i
  BY <1>8, <1>9 DEF Between
<1> QED BY <1>8, <1>10

(* A list that ends as complete, without a fault so far: what is missing is    *)
(* behind the page of another run.                                             *)
LEMMA EndSays ==
  ASSUME SourcesOK, WorkersOK, StoreInv, NEW i \in Runs, w[i].pc = "list", w[i].conn \notin gap,
         FillsPage(w[i].conn, w[i].page), AllKept(w[i]) \/ AtKnown(w[i]),
         NEW l \in DOMAIN list[w[i].conn], ~KeptNext(list[w[i].conn][l])
  PROVE  \/ l <= Passed(w[i]) /\ list[w[i].conn][l] \notin w[i].start
         \/ /\ l > w[i].page * PageSize
            /\ \E j \in Runs \ {i} : Between(w[j], w[i].conn, w[i].page * PageSize, l)
<1> DEFINE u == w[i]
           c == u.conn
           p == u.page
<1>1. c \in Connectors /\ p \in Nat /\ p > 0 /\ u.known \in Nat
  BY DEF WorkersOK, WorkerOK, Workers
<1>2. (p - 1) * PageSize \in Nat /\ p * PageSize \in Nat
  BY <1>1, PagePlaces
<1>3. l \in Int /\ list[c][l] \in Records
  BY <1>1 DEF SourcesOK
<1>4. ~Kept(list[c][l])
  BY <1>3 DEF Kept, KeptNext, FillsPage
<1>5. CASE l <= Passed(u)
  BY <1>4, <1>5 DEF StoreInv, ReaderOK
<1>6. CASE l > Passed(u)
  <2>1. AtKnown(u)
    BY <1>6 DEF AllKept
  <2>2. l \notin OnPage(c, p)
    BY <1>4, <2>1 DEF AtKnown, Kept
  <2>3. l > p * PageSize
    BY <1>2, <1>3, <1>6, <2>2 DEF OnPage, Passed
  <2> QED BY <2>1, <2>3, KnownEnd
<1>7. Passed(u) \in Int
  BY <1>2 DEF Passed
<1> QED BY <1>3, <1>5, <1>6, <1>7

(* Its list may end: nothing is missing but what other runs are about to read. *)
LEMMA EndKeepsBehind ==
  ASSUME SourcesOK, WorkersOK, StoreInv, NEW i \in Runs, w[i].pc = "list", w[i].conn \notin gap,
         FillsPage(w[i].conn, w[i].page), AllKept(w[i]) \/ AtKnown(w[i]),
         NEW k \in DOMAIN list[w[i].conn], NEW l \in DOMAIN list[w[i].conn],
         k < l, Stored(db'[list[w[i].conn][k]]), ~KeptNext(list[w[i].conn][l])
  PROVE  \E j \in Runs \ {i} : Between(w[j], w[i].conn, k, l)
<1> DEFINE u == w[i]
           c == u.conn
           p == u.page
<1>1. c \in Connectors /\ p \in Nat /\ p > 0 /\ u.known \in Nat
  BY DEF WorkersOK, WorkerOK, Workers
<1>2. (p - 1) * PageSize \in Nat /\ p * PageSize \in Nat
  BY <1>1, PagePlaces
<1>3. k \in Int /\ l \in Int /\ list[c][l] \in Records
  BY <1>1 DEF SourcesOK
<1>4. ~Kept(list[c][l])
  BY <1>3 DEF Kept, KeptNext, FillsPage
<1>5. OrderOK /\ BehindOK(c)
  BY <1>1 DEF StoreInv
<1>6. ~Stored(db[list[c][k]]) => (p - 1) * PageSize < k /\ k <= p * PageSize
  BY <1>1, <1>5, NewIsOnPage DEF OnPage
<1>7. CASE l <= Passed(u)
  <2>1. Stored(db[list[c][k]])
    <3>1. ~(Passed(u) < k)
      BY <1>2, <1>3, <1>7 DEF Passed
    <3> QED BY <1>6, <3>1 DEF Passed
  <2>2. PICK j \in Runs : Between(w[j], c, k, l)
    BY <1>4, <1>5, <2>1 DEF BehindOK, Missing
  <2>3. j # i
    BY <1>2, <1>3, <1>7, <2>2 DEF Between, Passed
  <2> QED BY <2>2, <2>3
<1>8. CASE l > Passed(u)
  <2>1. ~(l <= Passed(u))
    BY <1>2, <1>3, <1>8 DEF Passed
  <2>2. /\ l > p * PageSize
        /\ \E j \in Runs \ {i} : Between(w[j], c, p * PageSize, l)
    BY <2>1, EndSays
  <2>3. AtKnown(u)
    BY <1>8 DEF AllKept
  <2>4. Stored(db[list[c][k]])
    <3>1. list[c][k] \in Records
      BY <1>1 DEF SourcesOK
    <3> QED BY <2>3, <3>1 DEF AtKnown, NothingNew
  <2>5. PICK j \in Runs : Between(w[j], c, k, l)
    BY <1>4, <1>5, <2>4 DEF BehindOK, Missing
  <2>6. CASE j # i
    BY <2>5, <2>6
  <2>7. CASE j = i
    <3>1. PICK m \in Runs \ {i} : Between(w[m], c, p * PageSize, l)
      BY <2>2
    <3>2. k <= Reach(u) /\ Reach(u) \in Int /\ Reach(u) < p * PageSize
      BY <1>1, <2>3, <2>5, <2>7, KnownReach DEF Between
    <3>3. Reach(w[m]) \in Int
      <4>1. /\ w[m].conn \in Connectors /\ w[m].page \in Nat /\ w[m].page > 0 /\ w[m].known \in Nat
        BY <3>1 DEF WorkersOK, WorkerOK, Workers, Between, Lists
      <4>2. Grown(w[m]) \in Nat /\ (w[m].page - 1 - w[m].known) * PageSize \in Int
        BY <4>1, GrownIsNatural, PagePlaces
      <4> QED BY <4>2 DEF Reach
    <3>4. p * PageSize <= Reach(w[m])
      BY <3>1 DEF Between
    <3>5. k <= Reach(w[m])
      <4> DEFINE q == p * PageSize
                 a == Reach(u)
                 b == Reach(w[m])
      <4>1. q \in Nat /\ a \in Int /\ b \in Int /\ k <= a /\ a < q /\ q <= b /\ k \in Int
        BY <1>2, <1>3, <3>2, <3>3, <3>4
      <4> HIDE DEF q, a, b
      <4>2. k <= b
        BY <4>1
      <4> QED BY <4>2 DEF b
    <3> QED BY <3>1, <3>5 DEF Between
  <2> QED BY <2>6, <2>7
<1>9. Passed(u) \in Int
  BY <1>2 DEF Passed
<1> QED BY <1>3, <1>7, <1>8, <1>9

(* What a page does to the rest: nothing that was kept is lost.                *)
LEMMA PageKeepsKept ==
  ASSUME NEW c, NEW p, FillsPage(c, p), UNCHANGED plan
  PROVE  /\ \A r \in Records : Kept(r) => Kept(r)' /\ (Kept(r)' <=> KeptNext(r))
         /\ Found \subseteq Found' /\ Seq(Found) \subseteq Seq(Found')
<1>1. \A r \in Records : Kept(r) => Kept(r)' /\ (Kept(r)' <=> KeptNext(r))
  BY DEF Kept, KeptNext, FillsPage
<1>2. Found \subseteq Found'
  BY DEF Found, Candidates, FillsPage
<1> QED BY <1>1, <1>2, SeqMonotonic

(* A page stores only what is listed.                                          *)
LEMMA PageKeepsOrder ==
  ASSUME SourcesOK, OrderOK, NEW c \in Connectors, NEW p, FillsPage(c, p), UNCHANGED <<plan, list>>
  PROVE  OrderOK'
<1>1. ASSUME NEW e \in Connectors, NEW r \in plan.home[e], Kept(r)' PROVE r \in Listed(e)
  <2>1. r \in Records
    BY PlanIsTyped
  <2>2. CASE Kept(r)
    BY <2>2 DEF OrderOK
  <2>3. CASE ~Kept(r)
    <3>1. Stored(db'[r]) /\ ~Stored(db[r])
      BY <1>1, <2>3 DEF Kept
    <3>2. PICK l \in OnPage(c, p) : list[c][l] = r
      BY <2>1, <3>1 DEF FillsPage
    <3>3. r \in Listed(c)
      BY <3>2 DEF OnPage, Listed, ToSet
    <3>4. r \in plan.home[c]
      BY <3>3 DEF SourcesOK
    <3>5. e = c
      BY <3>4, PlanIsTyped
    <3> QED BY <3>3, <3>5
  <2> QED BY <2>2, <2>3
<1>2. \A e : Listed(e)' = Listed(e)
  BY DEF Listed
<1> QED BY <1>1, <1>2 DEF OrderOK

(* What the workers have passed stays kept, and the page is.                   *)
LEMMA PageKeepsReaders ==
  ASSUME SourcesOK, WorkersOK, StoreInv, NEW i \in Runs, w[i].pc = "list",
         FillsPage(w[i].conn, w[i].page), GoesOn(i) \/ Finishes(i), Holds(w'[i], Found'),
         UNCHANGED <<plan, list>>, gap \subseteq gap', \A j \in Runs \ {i} : w'[j] = w[j],
         NEW j \in Runs
  PROVE  ReaderOK(w[j])' /\ HandsOK(w[j])'
<1> DEFINE u == w[i]
           c == u.conn
           p == u.page
<1>1. /\ \A r \in Records : Kept(r) => Kept(r)' /\ (Kept(r)' <=> KeptNext(r))
      /\ Found \subseteq Found' /\ Seq(Found) \subseteq Seq(Found')
  BY PageKeepsKept
<1>2. ReaderOK(w[j]) /\ HandsOK(w[j])
  BY DEF StoreInv
<1>3. \A e : Listed(e)' = Listed(e)
  BY DEF Listed
<1>4. \A e \in Connectors : \A l \in DOMAIN list[e] : list[e][l] \in Records /\ l \in Nat /\ l > 0
  BY DEF SourcesOK
<1>5. CASE j # i
  <2>1. w'[j] = w[j]
    BY <1>5
  <2>2. w[j].pc = "list" => w[j].conn \in Connectors
    BY DEF WorkersOK, WorkerOK
  <2>3. ReaderOK(w[j])'
    BY <1>1, <1>2, <1>3, <1>4, <2>1, <2>2 DEF ReaderOK, Passed
  <2>4. HandsOK(w[j])'
    BY <1>1, <1>2, <2>1 DEF HandsOK, Holds
  <2> QED BY <2>3, <2>4
<1>6. CASE j = i /\ GoesOn(i)
  <2>1. /\ c \in Connectors /\ p \in Nat /\ p > 0
    BY DEF WorkersOK, WorkerOK, Workers
  <2>2. /\ w'[i].pc = "list" /\ w'[i].conn = c /\ w'[i].page = p + 1 /\ w'[i].start = u.start
        /\ ~w'[i].sum.complete /\ (c \notin gap' => \A l \in OnPage(c, p) : KeptNext(list[c][l]))
    BY <1>6 DEF GoesOn
  <2>3. ((p + 1) - 1) * PageSize = p * PageSize /\ p * PageSize \in Nat /\ Passed(u) \in Nat
    BY <2>1, PagePlaces DEF Passed
  <2>4. ASSUME c \notin gap', NEW l \in DOMAIN list[c], l <= p * PageSize, list[c][l] \in u.start
        PROVE  KeptNext(list[c][l])
    <3>1. CASE l <= Passed(u)
      <4>1. Kept(list[c][l])
        BY <1>2, <1>6, <2>4, <3>1 DEF ReaderOK
      <4> QED BY <1>1, <1>4, <2>1, <4>1
    <3>2. CASE Passed(u) < l
      <4>1. l \in OnPage(c, p)
        BY <2>4, <3>2 DEF OnPage, Passed
      <4> QED BY <2>2, <2>4, <4>1
    <3> QED BY <1>4, <2>1, <2>3, <3>1, <3>2
  <2>5. u.start \subseteq Listed(c)
    BY <1>2, <1>6 DEF ReaderOK
  <2>6. ReaderOK(w[j])'
    BY <1>3, <1>6, <2>2, <2>3, <2>4, <2>5 DEF ReaderOK, Passed, Kept, KeptNext
  <2> QED BY <1>6, <2>2, <2>6 DEF HandsOK
<1>7. CASE j = i /\ Finishes(i)
  <2>1. ListBegins(w'[i])
    BY <1>7 DEF Finishes
  <2>2. HandsOK(w[j])'
    BY <1>7, <2>1 DEF HandsOK, ListBegins
  <2>3. (1 - 1) * PageSize = 0
    BY SizesAssumption
  <2>4. w'[i].pc = "list" => w'[i].page = 1 /\ w'[i].conn \in Connectors /\ w'[i].start = Listed(w'[i].conn)
    BY <2>1 DEF ListBegins
  <2>5. ReaderOK(w[j])'
    BY <1>3, <1>4, <1>7, <2>3, <2>4 DEF ReaderOK, Passed
  <2> QED BY <2>2, <2>5
<1> QED BY <1>5, <1>6, <1>7

(* A list that goes on has kept the page: it reaches at least as far as it did,*)
(* and to the end of the page if it stored anything there.                     *)
LEMMA GoesOnReaches ==
  ASSUME SourcesOK, WorkersOK, NEW i \in Runs, w[i].pc = "list", GoesOn(i), w[i].conn \notin gap',
         UNCHANGED <<plan, list>>
  PROVE  /\ Reach(w[i])' \in Int /\ Reach(w[i]) \in Int /\ Reach(w[i]) <= Reach(w[i])'
         /\ Passed(w[i])' = w[i].page * PageSize
         /\ ~NothingNew => w[i].page * PageSize <= Reach(w[i])'
<1> DEFINE u == w[i]
           v == w'[i]
           c == u.conn
           p == u.page
           a == (p - 1 - u.known) * PageSize
           b == (v.page - 1 - v.known) * PageSize
           g == Grown(u)
           k == p * PageSize
<1>1. c \in Connectors /\ p \in Nat /\ p > 0 /\ u.known \in Nat
  BY DEF WorkersOK, WorkerOK, Workers
<1>2. /\ v.conn = c /\ v.page = p + 1 /\ v.start = u.start
      /\ v.known = 0 \/ (v.known = u.known + 1 /\ NothingNew)
  BY DEF GoesOn
<1>3. a \in Int /\ k \in Nat /\ a <= k
  BY <1>1, PagePlaces
<1>4. g \in Nat
  BY <1>1, GrownIsNatural
<1>5. Grown(u)' = g
  BY <1>2 DEF Grown, Listed
<1>6. Reach(u) = a + g /\ Reach(u)' = b + g
  BY <1>5 DEF Reach
<1>7. CASE v.known = 0
  <2>1. v.page - 1 - v.known = p
    BY <1>1, <1>2, <1>7
  <2>2. b = k
    BY <2>1
  <2>3. Passed(u)' = k
    <3>1. v.page - 1 = p
      BY <1>1, <1>2
    <3> QED BY <3>1 DEF Passed
  <2> HIDE DEF a, b, g, k
  <2> QED BY <1>3, <1>4, <1>6, <2>2, <2>3 DEF k
<1>8. CASE v.known = u.known + 1 /\ NothingNew
  <2>1. v.page - 1 - v.known = p - 1 - u.known /\ v.page - 1 = p
    BY <1>1, <1>2, <1>8
  <2>2. b = a /\ Passed(u)' = k
    BY <2>1 DEF Passed
  <2> HIDE DEF a, b, g, k
  <2> QED BY <1>3, <1>4, <1>6, <1>8, <2>2 DEF k
<1> QED BY <1>2, <1>7, <1>8

(* What is missing behind a stored record is still to be read by some run.     *)
LEMMA PageKeepsBehind ==
  ASSUME SourcesOK, WorkersOK, StoreInv, NEW i \in Runs, w[i].pc = "list", w[i].conn \in Connectors,
         FillsPage(w[i].conn, w[i].page), GoesOn(i) \/ Finishes(i),
         UNCHANGED <<plan, list>>, gap \subseteq gap', \A j \in Runs \ {i} : w'[j] = w[j],
         NEW e \in Connectors
  PROVE  BehindOK(e)'
<1> DEFINE u == w[i]
           c == u.conn
           p == u.page
<1> SUFFICES ASSUME e \notin gap', NEW k \in DOMAIN list[e], NEW l \in DOMAIN list[e],
                    k < l, Stored(db'[list[e][k]]), ~KeptNext(list[e][l])
             PROVE  \E j \in Runs : Between(w[j], e, k, l)'
  BY DEF BehindOK, Missing, Kept, KeptNext
<1>1. e \notin gap /\ OrderOK /\ BehindOK(e)
  BY DEF StoreInv
<1>2. k \in Int /\ l \in Int /\ list[e][l] \in Records /\ list[e][k] \in Records
  BY DEF SourcesOK
<1>3. ~Kept(list[e][l])
  BY <1>2 DEF Kept, KeptNext, FillsPage
<1>4. ASSUME NEW j \in Runs \ {i}, Between(w[j], e, k, l) PROVE Between(w[j], e, k, l)'
  <2>1. w'[j] = w[j]
    BY <1>4
  <2>2. Listed(w[j].conn)' = Listed(w[j].conn)
    BY <2>1 DEF Listed
  <2> QED BY <1>4, <2>1, <2>2 DEF Between, Lists, Reach, Passed, Grown
<1>5. Stored(db[list[e][k]]) => \E j \in Runs : Between(w[j], e, k, l)
  BY <1>1, <1>3 DEF BehindOK, Missing
<1>6. CASE e # c
  <2>1. Stored(db[list[e][k]])
    BY <1>1, <1>6, NewIsOnPage
  <2>2. ~Between(w[i], e, k, l)
    BY <1>6 DEF Between, Lists
  <2> QED BY <1>4, <1>5, <2>1, <2>2
<1>7. CASE e = c /\ Finishes(i)
  <2>1. AllKept(u) \/ AtKnown(u)
    BY <1>7 DEF Finishes
  <2>2. \E j \in Runs \ {i} : Between(w[j], c, k, l)
    BY <1>1, <1>7, <2>1, EndKeepsBehind
  <2> QED BY <1>4, <1>7, <2>2
<1>8. CASE e = c /\ GoesOn(i)
  <2>1. /\ Reach(u)' \in Int /\ Reach(u) \in Int /\ Reach(u) <= Reach(u)' /\ Passed(u)' = p * PageSize
        /\ ~NothingNew => p * PageSize <= Reach(u)'
    BY <1>8, GoesOnReaches
  <2>2. w'[i].pc = "list" /\ w'[i].conn = c
    BY <1>8 DEF GoesOn
  <2>3. l \notin OnPage(c, p)
    BY <1>8 DEF GoesOn
  <2>4. Passed(u) \in Nat /\ p * PageSize \in Nat
    <3>1. p \in Nat /\ p > 0
      BY DEF WorkersOK, WorkerOK, Workers
    <3> QED BY <3>1, PagePlaces DEF Passed
  <2>5. ASSUME l > Passed(u) PROVE l > Passed(u)'
    BY <1>2, <1>8, <2>1, <2>3, <2>4, <2>5 DEF OnPage, Passed
  <2>6. CASE Stored(db[list[e][k]])
    <3>1. PICK j \in Runs : Between(w[j], e, k, l)
      BY <1>5, <2>6
    <3>2. CASE j # i
      BY <1>4, <3>1, <3>2
    <3>3. CASE j = i
      <4>1. k <= Reach(u) /\ l > Passed(u)
        BY <3>1, <3>3 DEF Between
      <4>2. k <= Reach(u)' /\ l > Passed(u)'
        BY <1>2, <2>1, <2>5, <4>1
      <4> QED BY <1>8, <2>2, <4>2 DEF Between, Lists
    <3> QED BY <3>2, <3>3
  <2>7. CASE ~Stored(db[list[e][k]])
    <3>1. k \in OnPage(c, p) /\ ~NothingNew
      BY <1>1, <1>2, <2>7, NewIsOnPage DEF NothingNew
    <3>2. k <= p * PageSize /\ Passed(u) < k
      BY <3>1 DEF OnPage, Passed
    <3>3. k <= Reach(u)' /\ l > Passed(u)
      BY <1>2, <2>1, <2>4, <3>1, <3>2
    <3>4. l > Passed(u)'
      BY <2>5, <3>3
    <3> QED BY <1>8, <2>2, <3>3, <3>4 DEF Between, Lists
  <2> QED BY <2>6, <2>7
<1> QED BY <1>6, <1>7, <1>8

(* A page keeps the invariant.                                                 *)
LEMMA PageKeeps ==
  ASSUME SourcesOK, RowsOK, RunsOK, WorkersOK, StoreInv, NEW i \in Runs, SumsOK(w[i]), Page(i)
  PROVE  StoreInv'
<1>1. OrderOK /\ HandsOK(w[i])
  BY DEF StoreInv
<1>2. /\ w[i].pc = "list" /\ w[i].conn \in Connectors
      /\ FillsPage(w[i].conn, w[i].page) /\ (GoesOn(i) \/ Finishes(i)) /\ Holds(w'[i], Found')
      /\ UNCHANGED <<plan, list, content>> /\ gap \subseteq gap'
      /\ \A j \in Runs \ {i} : w'[j] = w[j]
  BY <1>1, PageTurns
<1>3. OrderOK'
  BY <1>1, <1>2, PageKeepsOrder
<1>4. \A j \in Runs : ReaderOK(w[j])' /\ HandsOK(w[j])'
  BY <1>2, PageKeepsReaders
<1>5. \A c \in Connectors : BehindOK(c)'
  BY <1>2, PageKeepsBehind
<1> QED BY <1>3, <1>4, <1>5 DEF StoreInv

(* At the start nothing is stored, and nobody reads.                           *)
LEMMA StoreInitially == Init => StoreInv
<1> SUFFICES ASSUME Init PROVE StoreInv
  OBVIOUS
<1>1. /\ plan \in Plans /\ list = plan.list /\ db = [r \in Records |-> Absent] /\ w = [j \in Runs |-> Off]
  BY DEF Init, ExtInit
<1>2. \A r \in Records : ~Stored(db[r])
  BY <1>1 DEF Stored, Absent
<1>3. /\ plan.list \in [Connectors -> Seq(Records)]
      /\ \A c \in Connectors : plan.home[c] \subseteq Records /\ plan.home[c] \cap plan.old \subseteq ToSet(plan.list[c])
      /\ \A c \in Connectors : \A k, l \in DOMAIN plan.list[c] :
           k < l => plan.list[c][k] # plan.list[c][l] /\ (plan.list[c][k] \in plan.old => plan.list[c][l] \in plan.old)
  BY <1>1, PlansAssumption
<1>4. OrderOK
  BY <1>1, <1>2, <1>3 DEF OrderOK, Kept, Listed
<1>5. ASSUME NEW j \in Runs PROVE ReaderOK(w[j]) /\ HandsOK(w[j])
  <2>1. w[j] = Off /\ Off.pc = "off"
    BY <1>1 DEF Off
  <2>2. NoSums \in [Connectors -> Summaries] /\ \A c \in Connectors : ~NoSums[c].complete
    BY SummariesAreTyped DEF NoSums, NoSummary
  <2>3. Holds(Off, Found)
    BY <2>2, OffBegins
  <2> QED BY <2>1, <2>3 DEF ReaderOK, HandsOK
<1>6. ASSUME NEW c \in Connectors PROVE BehindOK(c)
  <2>1. \A k \in DOMAIN list[c] : list[c][k] \in Records
    BY <1>1, <1>3
  <2> QED BY <1>2, <2>1 DEF BehindOK, Missing
<1> QED BY <1>4, <1>5, <1>6 DEF StoreInv

(* A step is quiet, or an edit, a publication or a page.                       *)
LEMMA StepsStore ==
  ASSUME SystemInv, StoreInv, [Next]_vars
  PROVE  LeavesStore \/ Publish \/ \E i \in Runs : Page(i)
<1>1. /\ SourcesOK /\ RowsOK /\ RunsOK /\ WorkersOK
  BY DEF SystemInv, TypeInv
<1>2. CASE UNCHANGED vars
  BY <1>2 DEF vars, extVars, LeavesStore
<1>3. CASE Aside
  BY <1>3, AsideIsQuiet
<1>4. CASE Edit
  BY <1>4, EditIsQuiet
<1>5. CASE Reading
  <2>1. PICK i \in Runs : Page(i) \/ HezarehDetail(i) \/ ParsnamadDetail(i)
    BY <1>5 DEF Reading
  <2>2. HandsOK(w[i])
    BY DEF StoreInv
  <2>3. CASE HezarehDetail(i) \/ ParsnamadDetail(i)
    BY <1>1, <2>2, <2>3, DetailIsQuiet
  <2> QED BY <2>1, <2>3
<1> QED BY <1>2, <1>3, <1>4, <1>5, StepsSplit

(* Every step keeps it, so it always holds.                                    *)
LEMMA StoreAlways == Spec => []StoreInv
<1>1. SystemInv /\ StoreInv /\ [Next]_vars => StoreInv'
  <2> SUFFICES ASSUME SystemInv, StoreInv, [Next]_vars PROVE StoreInv'
    OBVIOUS
  <2>1. /\ SourcesOK /\ RowsOK /\ RunsOK /\ WorkersOK /\ \A i \in Runs : SumsOK(w[i])
    BY DEF SystemInv, TypeInv, CourseInv, CourseOK
  <2>2. CASE LeavesStore
    BY <2>1, <2>2, QuietKeeps
  <2>3. CASE Publish
    BY <2>1, <2>3, PublishKeeps
  <2>4. CASE \E i \in Runs : Page(i)
    BY <2>1, <2>4, PageKeeps
  <2> QED BY <2>2, <2>3, <2>4, StepsStore
<1> QED BY <1>1, StoreInitially, SystemAlways, PTL DEF Spec

(* A list that ends as complete, read by nobody else, has stored all there was *)
(* when it began.                                                              *)
LEMMA EndHasStored ==
  ASSUME SourcesOK, WorkersOK, StoreInv, NEW i \in Runs, w[i].pc = "list", w[i].conn \notin gap,
         FillsPage(w[i].conn, w[i].page), AllKept(w[i]) \/ AtKnown(w[i]),
         \A j \in Runs \ {i} : w[j].pc = "off" \/ w[j].conn # w[i].conn,
         NEW r \in w[i].start \ plan.old
  PROVE  Stored(db'[r])
<1> DEFINE c == w[i].conn
<1>1. w[i].start \subseteq Listed(c)
  BY DEF StoreInv, ReaderOK
<1>2. PICK l \in DOMAIN list[c] : list[c][l] = r
  BY <1>1 DEF Listed, ToSet
<1>3. SUFFICES ASSUME ~KeptNext(list[c][l]) PROVE FALSE
  BY <1>2 DEF KeptNext
<1>4. \E j \in Runs \ {i} : Between(w[j], c, w[i].page * PageSize, l)
  BY <1>2, <1>3, EndSays
<1> QED BY <1>4 DEF Between, Lists

(* Whatever comes between the pages of a list (publications, other runs that   *)
(* stored its records, faults elsewhere), a list that ends as complete has     *)
(* stored what was there when it began, unless one of its connector broke off  *)
(* or outgrew its reader (_execute_connector, _known_boundary_can_stop).       *)
THEOREM CompleteListsAreStored == Spec => CompleteMeansStored
<1>1. SystemInv /\ StoreInv /\ [Next]_vars
      => [\A i \in Runs : LET c == w[i].conn IN
            (/\ w[i].pc = "list" /\ w[i].page > 0 /\ w[i].sums[c].status = "none"
             /\ w'[i].sums[c].complete
             /\ c \notin gap'
             /\ \A j \in Runs \ {i} : w[j].pc = "off" \/ w[j].conn # c)
            => \A r \in w[i].start \ plan.old : Stored(db'[r])]_vars
  <2> SUFFICES ASSUME SystemInv, StoreInv, [Next]_vars, NEW i \in Runs,
                      w[i].pc = "list", w[i].sums[w[i].conn].status = "none",
                      w'[i].sums[w[i].conn].complete, w[i].conn \notin gap',
                      \A j \in Runs \ {i} : w[j].pc = "off" \/ w[j].conn # w[i].conn,
                      NEW r \in w[i].start \ plan.old
               PROVE  Stored(db'[r])
    OBVIOUS
  <2> DEFINE c == w[i].conn
  <2>1. /\ SourcesOK /\ RowsOK /\ RunsOK /\ WorkersOK /\ \A j \in Runs : SumsOK(w[j])
    BY DEF SystemInv, TypeInv, CourseInv, CourseOK
  <2>2. c \in Connectors /\ ~w[i].sums[c].complete
    BY <2>1 DEF WorkersOK, WorkerOK, StoreInv, HandsOK, Holds
  <2>3. w'[i].sums # w[i].sums
    BY <2>2
  <2>4. ~LeavesStore
    BY <2>3 DEF LeavesStore, Turns
  <2>5. ~Publish
    BY <2>3 DEF Publish
  <2>6. PICK j \in Runs : Page(j)
    BY <2>4, <2>5, StepsStore
  <2>7. /\ FillsPage(w[j].conn, w[j].page) /\ (GoesOn(j) \/ Finishes(j)) /\ gap \subseteq gap'
        /\ \A k \in Runs \ {j} : w'[k] = w[k]
    <3>1. OrderOK /\ HandsOK(w[j])
      BY DEF StoreInv
    <3> QED BY <2>1, <2>6, <3>1, PageTurns
  <2>8. j = i /\ Finishes(i)
    BY <2>3, <2>7 DEF GoesOn
  <2>9. AllKept(w[i]) \/ AtKnown(w[i])
    BY <2>7, <2>8 DEF Finishes
  <2> QED BY <2>1, <2>7, <2>8, <2>9, EndHasStored
<1> QED BY <1>1, SystemAlways, StoreAlways, PTL DEF Spec, CompleteMeansStored
==============================================================================
