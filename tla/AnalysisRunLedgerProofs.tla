---- MODULE AnalysisRunLedgerProofs ----
(***************************************************************************)
(* The work queue of AnalysisRun keeps the promises of ClaimLedger; what it *)
(* counts as completed or skipped has a stored analysis behind it; holds    *)
(* are bounded and results fresh.                                           *)
(*                                                                          *)
(* All follow from one fact about every step and every item: how the item   *)
(* may move (ItemStep).  A request applies several transformations to an    *)
(* item in one transaction; Moved is closed under their composition.  A     *)
(* step that gives out no slice is quiet: it takes no item and makes no     *)
(* response.  The two claim actions that do give one out are looked at one  *)
(* by one.                                                                  *)
(***************************************************************************)
EXTENDS AnalysisRunProofs, FiniteSetTheorems

----------------------------------------------------------------------------
\* How an item moves

\* To the ledger nothing happens; what is not open work is not touched at all.
Alike(i, j) ==
  /\ j.status = i.status /\ j.token = i.token /\ j.by = i.by /\ j.ctx = i.ctx
  /\ j.settled = i.settled /\ j.basis = i.basis /\ j.result = i.result
  /\ j.left > 0 <=> i.left > 0
  /\ i.status \notin OpenStatuses => j = i

\* Back to the open work; from a live claim only when the context is a newer one.
Freed(i, j) ==
  /\ i.status \in OpenStatuses /\ j.status \in {"pending", "retry"}
  /\ i.ctx <= j.ctx /\ j.result = i.result
  /\ i.status = "claimed" /\ i.left > 0 => i.ctx < j.ctx

\* A stored analysis of this content of notice n under this context.
Stored(n, ctx, hash) == ExactDraft(n, ctx, hash) \in drafts \/ ExactCompact(n, ctx, hash)

\* Given up; skipped only for an analysis that is stored.
Closed(i, j, n) ==
  /\ i.status \in OpenStatuses /\ j.status \in {"skipped", "cancelled"}
  /\ j.result = i.result
  /\ j.status = "skipped" => Stored(n, j.ctx, j.hash)

Moved(i, j, n) == Alike(i, j) \/ Freed(i, j) \/ Closed(i, j, n)

\* A free item is claimed.
Taken(i, j) ==
  /\ i.status \in {"pending", "retry"} /\ j.status = "claimed" /\ j.left > 0
  /\ j.token \in Tokens /\ j.by \in Workers /\ j.ctx = i.ctx /\ j.result = i.result

\* A claimed item is shown to its worker, with a basis taken now.
Shown(i, j) ==
  /\ i.status = "claimed" /\ j.status = "claimed" /\ j.token = i.token /\ j.by = i.by
  /\ j.ctx = i.ctx /\ j.settled = i.settled /\ j.result = i.result
  /\ j.left > 0 <=> i.left > 0

\* What does not move is alike.
LEMMA AlikeReflexive ==
  ASSUME NEW i
  PROVE  Alike(i, i)
  BY DEF Alike

\* Two moves, one after the other, are a move.
LEMMA MovedTransitive ==
  ASSUME NEW i \in Items, NEW j \in Items, NEW k \in Items, NEW n,
         Moved(i, j, n), Moved(j, k, n)
  PROVE  Moved(i, k, n)
<1>1. i.ctx \in Nat /\ j.ctx \in Nat /\ k.ctx \in Nat
  BY SizesAssumption DEF Items, Contexts
<1>2. CASE Alike(i, j)
  BY <1>1, <1>2 DEF Moved, Alike, Freed, Closed, OpenStatuses
<1>3. CASE Freed(i, j) /\ (Alike(j, k) \/ Freed(j, k))
  BY <1>1, <1>3 DEF Moved, Alike, Freed, OpenStatuses
<1>4. CASE Freed(i, j) /\ Closed(j, k, n)
  BY <1>4 DEF Moved, Freed, Closed
<1>5. CASE Closed(i, j, n)
  BY <1>5 DEF Moved, Alike, Freed, Closed, OpenStatuses
<1> QED
  BY <1>2, <1>3, <1>4, <1>5 DEF Moved

----------------------------------------------------------------------------
\* The transformations of a request

LEMMA ReboundMoves ==
  ASSUME IInv, NEW r \in Runs, NEW n \in Notices
  PROVE  Moved(item[r][n], Rebound(r)[n], n)
<1> DEFINE i == item[r][n]
<1>1. i \in Items /\ Sound(i, run[r].ctx) /\ run[r].ctx \in Contexts /\ active \in Contexts
      /\ run[r].ctx <= active
  BY DEF IInv, TypeOK, ItemsAreSound, SoundItems, BoundToThePast, RunRows
<1>2. CASE run[r].ctx = active
  <2>1. Rebound(r)[n] = i
    BY <1>2 DEF Rebound
  <2> QED
    BY <2>1, AlikeReflexive DEF Moved
<1>3. CASE run[r].ctx # active /\ i.status \in OpenStatuses
  <2>1. i.ctx = run[r].ctx /\ i.ctx < active
    BY <1>1, <1>3, SizesAssumption DEF Sound, Contexts
  <2>2. CASE i.status = "claimed"
    <3> DEFINE x == Released(i, "retry")
               j == [x EXCEPT !.ctx = active, !.basis = NoBasis]
    <3>1. Rebound(r)[n] = j
      BY <1>3, <2>2 DEF Rebound
    <3>2. x \in Items /\ x.status = "retry" /\ x.result = i.result
      BY <1>1, ReleasedItem, ReleasedFields DEF ItemStatuses, OpenStatuses
    <3> HIDE DEF x
    <3>3. j.status = "retry" /\ j.ctx = active /\ j.result = i.result
      BY <1>1, <3>2 DEF Items
    <3>4. i.ctx <= active
      BY <1>1, <2>1, SizesAssumption DEF Contexts
    <3> HIDE DEF j
    <3> QED
      BY <1>3, <2>1, <3>1, <3>3, <3>4 DEF Moved, Freed
  <2>3. CASE i.status \in {"pending", "retry"}
    <3> DEFINE j == [i EXCEPT !.ctx = active]
    <3>1. Rebound(r)[n] = j
      BY <1>3, <2>3 DEF Rebound
    <3>2. j.status = i.status /\ j.ctx = active /\ j.result = i.result
      BY <1>1 DEF Items
    <3> HIDE DEF j
    <3> QED
      BY <1>1, <1>3, <2>1, <2>3, <3>1, <3>2 DEF Moved, Freed
  <2> QED
    BY <1>3, <2>2, <2>3 DEF OpenStatuses
<1>4. CASE run[r].ctx # active /\ i.status \notin OpenStatuses
  <2>1. Rebound(r)[n] = i
    BY <1>4 DEF Rebound, OpenStatuses
  <2> QED
    BY <2>1, AlikeReflexive DEF Moved
<1> QED
  BY <1>2, <1>3, <1>4

LEMMA ExpiredMoves ==
  ASSUME NEW its, NEW ctx \in Contexts, SoundItems(its, ctx), NEW n \in Notices
  PROVE  Moved(its[n], Expired(its)[n], n)
<1>1. its[n] \in Items /\ Sound(its[n], ctx)
  BY DEF SoundItems
<1>2. CASE its[n].status = "claimed" /\ its[n].left = 0
  <2>1. Expired(its)[n] = Released(its[n], "retry")
    BY <1>2 DEF Expired
  <2>2. Released(its[n], "retry").status = "retry" /\ Released(its[n], "retry").ctx = its[n].ctx
        /\ Released(its[n], "retry").result = its[n].result
    BY <1>1, ReleasedFields DEF ItemStatuses, OpenStatuses
  <2>3. its[n].ctx <= its[n].ctx
    BY <1>1, SizesAssumption DEF Items, Contexts
  <2> QED
    BY <1>2, <2>1, <2>2, <2>3 DEF Moved, Freed, OpenStatuses
<1>3. CASE ~(its[n].status = "claimed" /\ its[n].left = 0)
  BY <1>3, AlikeReflexive DEF Expired, Moved
<1> QED
  BY <1>2, <1>3

LEMMA ReconciledMoves ==
  ASSUME NEW r, NEW its, SoundItems(its, active), NEW n \in Notices
  PROVE  Moved(its[n], Reconciled(r, its)[n], n)
<1>1. its[n] \in Items /\ Sound(its[n], active)
  BY DEF SoundItems
<1>2. CASE Redundant(r, its, n)
  <2> DEFINE x == Released(its[n], "skipped")
             j == [x EXCEPT !.reason = "already_valid_current_analysis"]
  <2>1. Reconciled(r, its)[n] = j
    BY <1>2 DEF Reconciled
  <2>2. /\ x \in Items /\ x.status = "skipped" /\ x.result = its[n].result
        /\ x.ctx = its[n].ctx /\ x.hash = its[n].hash
    BY <1>1, ReleasedItem, ReleasedFields DEF ItemStatuses
  <2> HIDE DEF x
  <2>3. /\ j.status = "skipped" /\ j.result = its[n].result
        /\ j.ctx = its[n].ctx /\ j.hash = its[n].hash
    BY <2>2 DEF Items
  <2> HIDE DEF j
  <2>4. its[n].status \in OpenStatuses /\ its[n].ctx = active
    BY <1>1, <1>2 DEF Redundant, OpenStatuses, Sound
  <2>5. Stored(n, active, its[n].hash)
    BY <1>2 DEF Redundant, Stored, ExactCompact
  <2> QED
    BY <2>1, <2>3, <2>4, <2>5 DEF Moved, Closed
<1>3. CASE ~Redundant(r, its, n)
  BY <1>3, AlikeReflexive DEF Reconciled, Moved
<1> QED
  BY <1>2, <1>3

LEMMA PreparedMoves ==
  ASSUME IInv, NEW r \in Runs, NEW due \in BOOLEAN, NEW n \in Notices
  PROVE  Moved(item[r][n], Prepared(r, due)[n], n)
<1>1. SoundItems(Rebound(r), active) /\ item[r][n] \in Items /\ active \in Contexts
  BY ReboundSound DEF IInv, TypeOK
<1> DEFINE a == Rebound(r)
           b == Expired(a)
           c == Reconciled(r, b)
<1>2. Moved(item[r][n], a[n], n)
  BY ReboundMoves
<1> HIDE DEF a
<1>3. Moved(a[n], b[n], n) /\ SoundItems(b, active)
  BY <1>1, ExpiredMoves, ExpiredSound DEF a
<1> HIDE DEF b
<1>4. Moved(b[n], c[n], n) /\ SoundItems(c, active)
  BY <1>3, ReconciledMoves, ReconciledSound
<1> HIDE DEF c
<1>5. a[n] \in Items /\ b[n] \in Items /\ c[n] \in Items
  BY <1>1, <1>3, <1>4 DEF SoundItems, a
<1>6. Moved(item[r][n], b[n], n)
  BY <1>1, <1>2, <1>3, <1>5, MovedTransitive
<1>7. Moved(item[r][n], c[n], n)
  BY <1>1, <1>4, <1>5, <1>6, MovedTransitive
<1> QED
  BY <1>6, <1>7 DEF Prepared, a, b, c

LEMMA CapturedMoves ==
  ASSUME NEW its, NEW ctx, SoundItems(its, ctx), NEW slice, NEW n \in Notices,
         n \in slice => its[n].status = "claimed"
  PROVE  IF n \in slice THEN Shown(its[n], Captured(its, slice)[n])
                        ELSE Captured(its, slice)[n] = its[n]
<1>1. its[n] \in Items
  BY DEF SoundItems
<1>2. CASE n \in slice
  <2> DEFINE j == [its[n] EXCEPT !.basis = content[n].sem]
  <2>1. Captured(its, slice)[n] = j
    BY <1>2 DEF Captured
  <2>2. j.status = its[n].status /\ j.token = its[n].token /\ j.by = its[n].by
        /\ j.ctx = its[n].ctx /\ j.settled = its[n].settled /\ j.left = its[n].left
        /\ j.result = its[n].result
    BY <1>1 DEF Items
  <2> HIDE DEF j
  <2> QED
    BY <1>2, <2>1, <2>2 DEF Shown
<1>3. CASE n \notin slice
  BY <1>3 DEF Captured
<1> QED
  BY <1>2, <1>3

LEMMA RenewedMoves ==
  ASSUME NEW its, NEW ctx, SoundItems(its, ctx), NEW ws, NEW lease \in 1 .. LeaseTicks,
         NEW n \in Notices
  PROVE  Alike(its[n], Renewed(its, ws, lease)[n])
<1>1. its[n] \in Items
  BY DEF SoundItems
<1>2. CASE \E w \in ws : n \in HeldBy(its, w) /\ its[n].age <= HardAge
  <2> DEFINE j == [its[n] EXCEPT !.left = lease]
  <2>1. Renewed(its, ws, lease)[n] = j
    BY <1>2 DEF Renewed
  <2>2. j.status = its[n].status /\ j.token = its[n].token /\ j.by = its[n].by
        /\ j.ctx = its[n].ctx /\ j.settled = its[n].settled /\ j.left = lease
        /\ j.basis = its[n].basis /\ j.result = its[n].result
    BY <1>1 DEF Items
  <2>3. its[n].status = "claimed" /\ its[n].left > 0
    BY <1>2 DEF HeldBy
  <2>4. lease > 0
    BY SizesAssumption
  <2> HIDE DEF j
  <2> QED
    BY <2>1, <2>2, <2>3, <2>4 DEF Alike, OpenStatuses
<1>3. CASE ~(\E w \in ws : n \in HeldBy(its, w) /\ its[n].age <= HardAge)
  BY <1>3, AlikeReflexive DEF Renewed
<1> QED
  BY <1>2, <1>3

LEMMA ReservedMoves ==
  ASSUME NEW its, NEW ctx, SoundItems(its, ctx), NEW w \in Workers,
         NEW lease \in 1 .. LeaseTicks,
         NEW S \in SUBSET {n \in Notices : its[n].status \in {"pending", "retry"}},
         NEW token \in [S -> Tokens], NEW n \in Notices
  PROVE  IF n \in S THEN Taken(its[n], Reserved(its, S, w, token, lease)[n])
                    ELSE Reserved(its, S, w, token, lease)[n] = its[n]
<1>1. its[n] \in Items
  BY DEF SoundItems
<1>2. CASE n \in S
  <2> DEFINE j == [its[n] EXCEPT !.status = "claimed", !.token = token[n], !.by = w,
                                 !.left = lease, !.age = 0]
  <2>1. Reserved(its, S, w, token, lease)[n] = j
    BY <1>2 DEF Reserved
  <2>2. j.status = "claimed" /\ j.token = token[n] /\ j.by = w /\ j.left = lease
        /\ j.ctx = its[n].ctx /\ j.result = its[n].result
    BY <1>1 DEF Items
  <2>3. token[n] \in Tokens /\ lease > 0 /\ its[n].status \in {"pending", "retry"}
    BY <1>2, SizesAssumption
  <2> HIDE DEF j
  <2> QED
    BY <1>2, <2>1, <2>2, <2>3 DEF Taken
<1>3. CASE n \notin S
  BY <1>3 DEF Reserved
<1> QED
  BY <1>2, <1>3

----------------------------------------------------------------------------
\* The moves of a whole step

\* A new item.
Added(i, j) == i.status = "absent" /\ j.status = "pending" /\ j.result = NoResult

\* Back to the open work, a live claim too: its notice has changed.
GivenBack(i, j) ==
  /\ i.status \in OpenStatuses /\ j.status \in {"pending", "retry"}
  /\ i.ctx <= j.ctx /\ j.result = i.result

\* Claimed, perhaps after it was freed in the same transaction.
TakenOver(i, j) ==
  /\ i.status \in OpenStatuses /\ j.status = "claimed" /\ j.left > 0
  /\ j.token \in Tokens /\ j.by \in Workers /\ i.ctx <= j.ctx /\ j.result = i.result
  /\ i.status = "claimed" /\ i.left > 0 => i.ctx < j.ctx

Lapsed(i, j) ==
  /\ i.status = "claimed" /\ i.left > 0
  /\ j.status = "claimed" /\ j.left = 0 /\ j.token = i.token /\ j.by = i.by
  /\ j.ctx = i.ctx /\ j.basis = i.basis /\ j.result = i.result

\* A stored analysis for item i of notice n, drafts being D.
Evidence(i, n, D) ==
  \/ ExactDraft(n, i.ctx, i.hash) \in D
  \/ i.result # NoResult /\ i.result.compact /\ i.result.ctx = i.ctx

\* The answer in item j is that of a response for claim i, and if the claim has a
\* basis it is the one the content of j has.
Answers(i, j, r, n) ==
  \E t \in tickets :
    /\ t.run = r /\ t.notice = n /\ t.token = i.token
    /\ j.result.sem = t.sem /\ j.result.kind = t.kind
    /\ i.basis # NoBasis => j.hash.sem = i.basis

Settled(i, j, r, n, D) ==
  /\ i.status = "claimed" /\ j.status = "completed" /\ j.settled = i.token
  /\ Evidence(j, n, D)
  /\ j.result = i.result \/ Answers(i, j, r, n)

\* What a step that claims nothing may do.
Quiet(i, j, r, n, D) ==
  \/ Moved(i, j, n) \/ Added(i, j) \/ GivenBack(i, j) \/ Lapsed(i, j)
  \/ Settled(i, j, r, n, D)

ItemStep(i, j, r, n, D) == Quiet(i, j, r, n, D) \/ TakenOver(i, j) \/ Shown(i, j)

\* An item that moves and then is taken is taken.
LEMMA MovedTaken ==
  ASSUME NEW i \in Items, NEW j \in Items, NEW k \in Items, NEW l \in Items,
         NEW n, Moved(i, j, n), Taken(j, k), k = l \/ Shown(k, l)
  PROVE  TakenOver(i, l)
<1>1. i.ctx \in Nat /\ i.ctx <= i.ctx
  BY SizesAssumption DEF Items, Contexts
<1>2. /\ l.status = "claimed" /\ l.left > 0 /\ l.token \in Tokens /\ l.by \in Workers
      /\ l.ctx = j.ctx /\ l.result = j.result
  BY DEF Taken, Shown
<1>3. CASE Alike(i, j)
  BY <1>1, <1>2, <1>3 DEF Alike, Taken, TakenOver, OpenStatuses
<1>4. CASE Freed(i, j)
  BY <1>2, <1>4 DEF Freed, TakenOver
<1>5. ~Closed(i, j, n)
  BY DEF Closed, Taken
<1> QED
  BY <1>3, <1>4, <1>5 DEF Moved

\* What a result makes of an item, in the terms above.
LEMMA JudgedMoves ==
  ASSUME IInv, NEW r \in Runs, NEW its, SoundItems(its, active), NEW B \in SUBSET TicketsOf(r),
         NEW material \in SUBSET B, NEW n \in Notices, NEW D,
         drafts \subseteq D, Drafted(its, material) \subseteq D
  PROVE  LET i == its[n]
             j == JudgedItems(its, B, material)[n] IN
         j = i \/ (i.status = "claimed" /\ (Alike(i, j) \/ GivenBack(i, j) \/ Settled(i, j, r, n, D)))
<1> USE DEF IInv, TypeOK
<1> DEFINE i == its[n]
           j == JudgedItems(its, B, material)[n]
           t == CHOOSE t \in B : t.notice = n
           m == t \in material
<1>1. i \in Items /\ Sound(i, active)
  BY DEF SoundItems
<1>2. CASE ~(\E u \in B : u.notice = n)
  BY <1>2 DEF JudgedItems
<1>3. CASE \E u \in B : u.notice = n
  <2>1. /\ t \in B /\ t \in Tickets /\ t.notice = n /\ t.token \in Tokens
        /\ t \in tickets /\ t.run = r
    BY <1>3 DEF TicketsBearTokens, TicketsOf
  <2>2. j = Judged(i, t, m) /\ m \in BOOLEAN
    BY <1>3 DEF JudgedItems
  <2>3. m => (Verdict(i, t) = "imported"
                => ExactDraft(n, active, HashNow(i, t)) \in D)
    BY <2>1 DEF Drafted
  <2> HIDE DEF t, m, j, i
  <2>4. CASE t.token # i.token
    BY <2>2, <2>4, JudgedForeign DEF i, j
  <2>5. CASE t.token = i.token
    <3>1. i.status = "claimed" /\ i.ctx = active
      BY <1>1, <2>1, <2>5 DEF Sound, OpenStatuses
    <3>2. \/ j = i
          \/ j = [i EXCEPT !.hash = HashNow(i, t)]
          \/ j \in {Released(i, "retry"), Unlocked(i, "retry")}
          \/ j \in Items /\ Completes(i, j, t, m)
      BY <1>1, <2>1, <2>2, JudgedOwn
    <3>3. CASE j = [i EXCEPT !.hash = HashNow(i, t)]
      <4>1. HashNow(i, t) \in Contents
        BY <1>1, <2>1 DEF HashNow, Tickets, Items
      <4>2. /\ j.status = i.status /\ j.token = i.token /\ j.by = i.by
            /\ j.left = i.left /\ j.ctx = i.ctx /\ j.settled = i.settled
            /\ j.basis = i.basis /\ j.result = i.result
        BY <1>1, <3>3, <4>1, RebasedFields
      <4>3. Alike(i, j)
        BY <3>1, <4>2 DEF Alike, OpenStatuses
      <4> QED
        BY <3>1, <4>3 DEF i, j
    <3>4. CASE j \in {Released(i, "retry"), Unlocked(i, "retry")}
      <4>1. j.status = "retry" /\ j.ctx = i.ctx /\ j.result = i.result
        BY <1>1, <3>4, ReleasedFields, UnlockedItem DEF ItemStatuses, OpenStatuses
      <4>2. i.ctx <= i.ctx
        BY <1>1, SizesAssumption DEF Items, Contexts
      <4>3. GivenBack(i, j)
        BY <3>1, <4>1, <4>2 DEF GivenBack, OpenStatuses
      <4> QED
        BY <3>1, <4>3 DEF i, j
    <3>5. CASE j \in Items /\ Completes(i, j, t, m)
      <4>1. /\ j.status = "completed" /\ j.settled = t.token /\ j.ctx = active
            /\ j.hash = HashNow(i, t) /\ j.result \in Results \cup {NoResult}
        BY <3>1, <3>5 DEF Completes, Items
      <4>2. Evidence(j, n, D)
        <5>1. CASE Verdict(i, t) = "duplicate"
          <6>1. ExactDraft(n, active, HashNow(i, t)) \in drafts
            BY <2>1, <3>5, <5>1 DEF Completes
          <6> QED
            BY <4>1, <6>1 DEF Evidence
        <5>2. CASE Verdict(i, t) = "imported" /\ m
          BY <2>3, <4>1, <5>2 DEF Evidence
        <5>3. CASE Verdict(i, t) = "imported" /\ ~m
          <6>1. /\ j.result = [sem |-> t.sem, ctx |-> t.ctx, kind |-> t.kind, compact |-> ~m]
                /\ t.ctx = active
            BY <3>5, <5>3 DEF Completes
          <6>2. j.result \in Results
            BY <2>1, <2>2, <6>1 DEF Results, Tickets
          <6>3. j.result.compact = ~m /\ j.result.ctx = active
            BY <6>1
          <6> QED
            BY <4>1, <5>3, <6>2, <6>3, NullsAssumption DEF Evidence
        <5> QED
          BY <3>5, <5>1, <5>2, <5>3 DEF Completes
      <4>3. j.result = i.result \/ Answers(i, j, r, n)
        <5>1. CASE Verdict(i, t) = "duplicate" /\ j.result = i.result
          BY <5>1
        <5>2. CASE /\ j.result = [sem |-> t.sem, ctx |-> t.ctx, kind |-> t.kind, compact |-> ~m]
                   /\ i.basis # NoBasis => HashNow(i, t).sem = i.basis
          <6>1. j.result.sem = t.sem /\ j.result.kind = t.kind
            BY <5>2
          <6> QED
            BY <2>1, <2>5, <4>1, <5>2, <6>1 DEF Answers
        <5> QED
          BY <3>5, <5>1, <5>2 DEF Completes
      <4> QED
        BY <2>5, <3>1, <4>1, <4>2, <4>3 DEF Settled, i, j
    <3> QED
      BY <3>1, <3>2, <3>3, <3>4, <3>5 DEF i, j
  <2> QED
    BY <2>4, <2>5
<1> QED
  BY <1>2, <1>3

----------------------------------------------------------------------------
\* Every step moves every item by an ItemStep

QuietSteps ==
  \A r \in Runs, n \in Notices : Quiet(item[r][n], item'[r][n], r, n, drafts')

StepsOk ==
  \A r \in Runs, n \in Notices : ItemStep(item[r][n], item'[r][n], r, n, drafts')

\* A commit touches one run at a time.
LEMMA CommitTouches ==
  ASSUME IInv, NEW r \in Runs, NEW status, NEW its, Commit(r, status, its),
         NEW q \in Runs, NEW n \in Notices
  PROVE  IF q = r THEN item'[q][n] = its[n]
                  ELSE item'[q][n] = item[q][n] /\ Quiet(item[q][n], item'[q][n], q, n, drafts')
<1>1. IF q = r THEN item'[q][n] = its[n] ELSE item'[q][n] = item[q][n]
  BY DEF Commit, IInv, TypeOK
<1> QED
  BY <1>1, AlikeReflexive DEF Quiet, Moved

LEMMA CommitSteps ==
  ASSUME IInv, NEW r \in Runs, NEW status, NEW its, Commit(r, status, its),
         \A n \in Notices : ItemStep(item[r][n], its[n], r, n, drafts')
  PROVE  StepsOk
  BY CommitTouches DEF StepsOk, ItemStep

LEMMA CommitQuietSteps ==
  ASSUME IInv, NEW r \in Runs, NEW status, NEW its, Commit(r, status, its),
         \A n \in Notices : Quiet(item[r][n], its[n], r, n, drafts')
  PROVE  QuietSteps
  BY CommitTouches DEF QuietSteps

LEMMA UnchangedSteps ==
  ASSUME item' = item
  PROVE  QuietSteps
  BY AlikeReflexive DEF QuietSteps, Quiet, Moved

LEMMA InitializeSteps ==
  ASSUME IInv, NEW r \in Runs, Initialize(r)
  PROVE  QuietSteps
<1> DEFINE its == Queued(r, item[r], Notices, run[r].ctx)
<1>1. ASSUME NEW n \in Notices
      PROVE  its[n] = item[r][n] \/ Added(item[r][n], its[n])
  BY DEF Queued, NewItem, Added
<1>2. ASSUME NEW q \in Runs, NEW n \in Notices
      PROVE  item'[q][n] = IF q = r THEN its[n] ELSE item[q][n]
  BY DEF Initialize, IInv, TypeOK
<1> HIDE DEF its
<1> QED
  BY <1>1, <1>2, AlikeReflexive DEF QuietSteps, Quiet, Moved

LEMMA AdmitSteps ==
  ASSUME IInv, NEW r \in Runs, NEW recent, Admit(r, recent)
  PROVE  QuietSteps
<1> DEFINE a == Rebound(r)
           its == IF run[r].status \in FinishedStatuses \cup {"paused"} THEN a
                  ELSE Queued(r, a, recent, active)
<1>1. ASSUME NEW n \in Notices
      PROVE  Quiet(item[r][n], its[n], r, n, drafts')
  <2>1. Moved(item[r][n], a[n], n)
    BY ReboundMoves
  <2>2. \/ its[n] = a[n]
        \/ a[n].status = "absent" /\ its[n].status = "pending" /\ its[n].result = NoResult
    BY DEF Queued, NewItem
  <2>3. a[n].status = "absent" => item[r][n].status = "absent"
    BY <2>1 DEF Moved, Alike, Freed, Closed
  <2> HIDE DEF a, its
  <2> QED
    BY <2>1, <2>2, <2>3 DEF Quiet, Added
<1>2. Commit(r, run[r].status, its)
  BY DEF Admit
<1> HIDE DEF its
<1> QED
  BY <1>1, <1>2, CommitQuietSteps

LEMMA CancelSteps ==
  ASSUME IInv, NEW r \in Runs, Cancel(r)
  PROVE  QuietSteps
<1>1. ASSUME NEW q \in Runs, NEW n \in Notices
      PROVE  Moved(item[q][n], item'[q][n], n)
  <2>1. item[q][n] \in Items
    BY DEF IInv, TypeOK
  <2>2. CASE q = r /\ item[q][n].status \in OpenStatuses
    <3>1. item'[q][n] = Released(item[q][n], "cancelled")
      BY <2>2 DEF Cancel, IInv, TypeOK
    <3>2. item'[q][n].status = "cancelled" /\ item'[q][n].result = item[q][n].result
      BY <2>1, <3>1, ReleasedFields DEF ItemStatuses
    <3> QED
      BY <2>2, <3>2 DEF Moved, Closed
  <2>3. CASE ~(q = r /\ item[q][n].status \in OpenStatuses)
    <3>1. item'[q][n] = item[q][n]
      BY <2>3 DEF Cancel, IInv, TypeOK
    <3> QED
      BY <3>1, AlikeReflexive DEF Moved
  <2> QED
    BY <2>2, <2>3
<1> QED
  BY <1>1 DEF QuietSteps, Quiet

LEMMA ClaimHeldSliceSteps ==
  ASSUME IInv, NEW r \in Runs, NEW w \in Workers, NEW due \in BOOLEAN,
         ClaimHeldSlice(r, w, due)
  PROVE  StepsOk
<1> DEFINE its == Prepared(r, due)
<1>1. PICK slice \in AtMost(HeldBy(its, w), SliceSize) :
        Commit(r, PreparedStatus(r, due), Captured(its, slice))
  BY DEF ClaimHeldSlice
<1>2. SoundItems(its, active)
  BY PreparedSound DEF IInv
<1>3. ASSUME NEW n \in Notices
      PROVE  ItemStep(item[r][n], Captured(its, slice)[n], r, n, drafts')
  <2>1. Moved(item[r][n], its[n], n)
    BY PreparedMoves
  <2>2. n \in slice => its[n].status = "claimed"
    BY DEF AtMost, HeldBy
  <2> HIDE DEF its
  <2>3. IF n \in slice THEN Shown(its[n], Captured(its, slice)[n])
                       ELSE Captured(its, slice)[n] = its[n]
    BY <1>2, <2>2, CapturedMoves
  <2>4. CASE n \in slice
    <3>1. Alike(item[r][n], its[n])
      BY <2>1, <2>2, <2>4 DEF Moved, Freed, Closed
    <3> QED
      BY <2>3, <2>4, <3>1 DEF ItemStep, Shown, Alike
  <2>5. CASE n \notin slice
    BY <2>1, <2>3, <2>5 DEF ItemStep, Quiet
  <2> QED
    BY <2>4, <2>5
<1> HIDE DEF its
<1> QED
  BY <1>1, <1>3, CommitSteps

LEMMA ClaimNewReservationSteps ==
  ASSUME IInv, NEW r \in Runs, NEW w \in Workers, NEW limit,
         NEW lease \in 1 .. LeaseTicks, NEW due \in BOOLEAN,
         ClaimNewReservation(r, w, limit, lease, due)
  PROVE  StepsOk
<1> DEFINE its == Prepared(r, due)
           free == {n \in Notices : its[n].status \in {"pending", "retry"}}
           size == Window(its, limit)
<1>1. PICK S \in AtMost(free, size) :
        \E token \in [S -> Tokens] : \E slice \in AtMost(S, SliceSize) :
          Commit(r, "waiting_for_results", Captured(Reserved(its, S, w, token, lease), slice))
  BY DEF ClaimNewReservation
<1>2. PICK token \in [S -> Tokens] :
        \E slice \in AtMost(S, SliceSize) :
          Commit(r, "waiting_for_results", Captured(Reserved(its, S, w, token, lease), slice))
  BY <1>1
<1>3. PICK slice \in AtMost(S, SliceSize) :
        Commit(r, "waiting_for_results", Captured(Reserved(its, S, w, token, lease), slice))
  BY <1>2
<1> DEFINE held == Reserved(its, S, w, token, lease)
           end == Captured(held, slice)
<1>4. SoundItems(its, active)
  BY PreparedSound DEF IInv
<1>5. S \in SUBSET free /\ slice \in SUBSET S
  BY DEF AtMost
<1>6. ASSUME NEW n \in Notices
      PROVE  ItemStep(item[r][n], end[n], r, n, drafts')
  <2>1. Moved(item[r][n], its[n], n)
    BY PreparedMoves
  <2> HIDE DEF its
  <2>2. SoundItems(held, active)
    BY <1>4, <1>5, ReservedSound
  <2>3. IF n \in S THEN Taken(its[n], held[n]) ELSE held[n] = its[n]
    BY <1>4, <1>5, ReservedMoves
  <2>4. n \in slice => held[n].status = "claimed"
    BY <1>5, <2>3 DEF Taken
  <2> HIDE DEF held
  <2>5. SoundItems(end, active)
        /\ IF n \in slice THEN Shown(held[n], end[n]) ELSE end[n] = held[n]
    BY <2>2, <2>4, CapturedSound, CapturedMoves DEF IInv, TypeOK
  <2>6. item[r][n] \in Items /\ its[n] \in Items /\ held[n] \in Items /\ end[n] \in Items
    BY <1>4, <2>2, <2>5 DEF SoundItems, IInv, TypeOK
  <2> HIDE DEF end
  <2>7. CASE n \in S
    BY <2>1, <2>3, <2>5, <2>6, <2>7, MovedTaken DEF ItemStep
  <2>8. CASE n \notin S
    BY <1>5, <2>1, <2>3, <2>5, <2>8 DEF ItemStep, Quiet
  <2> QED
    BY <2>7, <2>8
<1>7. Commit(r, "waiting_for_results", end)
  BY <1>3
<1> HIDE DEF end
<1> QED
  BY <1>6, <1>7, CommitSteps

LEMMA ClaimNothingSteps ==
  ASSUME IInv, NEW r \in Runs, NEW w \in Workers, NEW due \in BOOLEAN,
         ClaimNothing(r, w, due)
  PROVE  QuietSteps
<1>1. Commit(r, PreparedStatus(r, due), Prepared(r, due))
  BY DEF ClaimNothing
<1>2. \A n \in Notices : Quiet(item[r][n], Prepared(r, due)[n], r, n, drafts')
  BY PreparedMoves DEF Quiet
<1> QED
  BY <1>1, <1>2, CommitQuietSteps

LEMMA RebindOnlySteps ==
  ASSUME IInv, NEW r \in Runs, RebindOnly(r)
  PROVE  QuietSteps
<1>1. Commit(r, run[r].status, Rebound(r))
  BY DEF RebindOnly
<1>2. \A n \in Notices : Quiet(item[r][n], Rebound(r)[n], r, n, drafts')
  BY ReboundMoves DEF Quiet
<1> QED
  BY <1>1, <1>2, CommitQuietSteps

LEMMA RenewSteps ==
  ASSUME IInv, NEW r \in Runs, NEW w \in Workers, NEW lease \in 1 .. LeaseTicks,
         Renew(r, w, lease)
  PROVE  QuietSteps
<1> DEFINE a == Rebound(r)
           its == Renewed(a, {w}, lease)
<1>1. Commit(r, run[r].status, its)
  BY DEF Renew
<1>2. SoundItems(a, active)
  BY ReboundSound DEF IInv
<1>3. ASSUME NEW n \in Notices
      PROVE  Quiet(item[r][n], its[n], r, n, drafts')
  <2>1. Moved(item[r][n], a[n], n)
    BY ReboundMoves
  <2> HIDE DEF a
  <2>2. SoundItems(its, active) /\ Alike(a[n], its[n])
    BY <1>2, RenewedSound, RenewedMoves
  <2>3. item[r][n] \in Items /\ a[n] \in Items /\ its[n] \in Items
    BY <1>2, <2>2 DEF SoundItems, IInv, TypeOK
  <2> HIDE DEF its
  <2>4. Moved(item[r][n], its[n], n)
    BY <2>1, <2>2, <2>3, MovedTransitive DEF Moved
  <2> QED
    BY <2>4 DEF Quiet
<1> HIDE DEF its
<1> QED
  BY <1>1, <1>3, CommitQuietSteps

LEMMA ImportSteps ==
  ASSUME IInv, NEW r \in Runs, NEW B \in SUBSET TicketsOf(r), NEW material \in SUBSET B,
         Import(r, B, material)
  PROVE  QuietSteps
<1> DEFINE a == Rebound(r)
           judged == JudgedItems(a, B, material)
           ws == Renewers(a, B)
           status == Finalized(run[r].status, judged)
           its == Renewed(judged, ws, LeaseTicks)
<1>1. B \in SUBSET tickets /\ Commit(r, status, its)
      /\ drafts' = drafts \cup Drafted(a, material)
  BY DEF Import, TicketsOf
<1>2. SoundItems(a, active)
  BY ReboundSound DEF IInv
<1>3. ASSUME NEW n \in Notices
      PROVE  Quiet(item[r][n], its[n], r, n, drafts')
  <2> DEFINE i == item[r][n]
             b == judged[n]
  <2>1. Moved(i, a[n], n)
    BY ReboundMoves
  <2> HIDE DEF a, ws
  <2>2. SoundItems(judged, active)
    BY <1>1, <1>2, JudgedItemsSound
  <2>3. \/ b = a[n]
        \/ /\ a[n].status = "claimed"
           /\ Alike(a[n], b) \/ GivenBack(a[n], b) \/ Settled(a[n], b, r, n, drafts')
    <3>1. drafts \subseteq drafts' /\ Drafted(a, material) \subseteq drafts'
      BY <1>1
    <3> DEFINE D == drafts'
    <3> HIDE DEF D
    <3>2. drafts \subseteq D /\ Drafted(a, material) \subseteq D
      BY <3>1 DEF D
    <3>3. \/ judged[n] = a[n]
          \/ /\ a[n].status = "claimed"
             /\ \/ Alike(a[n], judged[n]) \/ GivenBack(a[n], judged[n])
                \/ Settled(a[n], judged[n], r, n, D)
      BY <1>1, <1>2, <3>2, JudgedMoves
    <3> QED
      BY <3>3 DEF D
  <2>4. LeaseTicks \in 1 .. LeaseTicks
    BY SizesAssumption
  <2> HIDE DEF judged
  <2>5. SoundItems(its, active) /\ Alike(b, its[n])
    BY <2>2, <2>4, RenewedSound, RenewedMoves
  <2>6. i \in Items /\ a[n] \in Items /\ b \in Items /\ its[n] \in Items
    BY <1>2, <2>2, <2>5 DEF SoundItems, IInv, TypeOK
  <2> HIDE DEF b, its, i
  <2>7. CASE b = a[n] \/ Alike(a[n], b)
    <3>1. Moved(i, b, n)
      BY <2>1, <2>6, <2>7, MovedTransitive DEF Moved
    <3>2. Moved(i, its[n], n)
      BY <2>5, <2>6, <3>1, MovedTransitive DEF Moved
    <3> QED
      BY <3>2 DEF Quiet, i
  <2>8. CASE a[n].status = "claimed" /\ (GivenBack(a[n], b) \/ Settled(a[n], b, r, n, drafts'))
    <3>1. Alike(i, a[n])
      BY <2>1, <2>8 DEF Moved, Freed, Closed
    <3>2. CASE GivenBack(a[n], b)
      <4>1. its[n].status \in {"pending", "retry"} /\ its[n].ctx = b.ctx /\ its[n].result = b.result
        BY <2>5, <3>2 DEF GivenBack, Alike
      <4>2. GivenBack(i, its[n])
        BY <3>1, <3>2, <4>1 DEF GivenBack, Alike
      <4> QED
        BY <4>2 DEF Quiet, i
    <3>3. CASE Settled(a[n], b, r, n, drafts')
      <4>1. its[n] = b
        BY <2>5, <3>3 DEF Alike, Settled, OpenStatuses
      <4>2. i.status = a[n].status /\ i.token = a[n].token /\ i.result = a[n].result
            /\ i.basis = a[n].basis
        BY <3>1 DEF Alike
      <4>3. Settled(i, b, r, n, drafts')
        BY <3>3, <4>2 DEF Settled, Answers
      <4> QED
        BY <4>1, <4>3 DEF Quiet, i
    <3> QED
      BY <2>8, <3>2, <3>3
  <2> QED
    BY <2>3, <2>7, <2>8
<1> HIDE DEF its, status
<1> QED
  BY <1>1, <1>3, CommitQuietSteps

LEMMA TickSteps ==
  ASSUME IInv, Tick
  PROVE  QuietSteps
<1>1. ASSUME NEW r \in Runs, NEW n \in Notices
      PROVE  Moved(item[r][n], item'[r][n], n) \/ Lapsed(item[r][n], item'[r][n])
  <2> DEFINE i == item[r][n]
             left == IF i.left = 0 THEN 0 ELSE i.left - 1
             age == IF i.age > HardAge THEN i.age ELSE i.age + 1
  <2>1. i \in Items /\ item'[r][n] = Aged(i)
    BY DEF IInv, TypeOK, Tick
  <2>2. CASE i.status # "claimed"
    <3>1. item'[r][n] = i
      BY <2>1, <2>2 DEF Aged
    <3> QED
      BY <3>1, AlikeReflexive DEF Moved
  <2>3. CASE i.status = "claimed"
    <3>1. Aged(i) = [i EXCEPT !.left = left, !.age = age]
      BY <2>3 DEF Aged
    <3> HIDE DEF left, age
    <3>2. /\ Aged(i).status = i.status /\ Aged(i).token = i.token /\ Aged(i).by = i.by
          /\ Aged(i).ctx = i.ctx /\ Aged(i).settled = i.settled /\ Aged(i).left = left
          /\ Aged(i).basis = i.basis /\ Aged(i).result = i.result
      BY <2>1, <3>1 DEF Items
    <3>3. i.left \in Nat /\ (i.left = 0 => left = 0)
          /\ (i.left > 0 => left = 0 \/ left > 0)
      BY <2>1, SizesAssumption DEF Items, left
    <3> HIDE DEF i
    <3>4. CASE left = 0 /\ i.left > 0
      BY <2>1, <2>3, <3>2, <3>4 DEF Lapsed, i
    <3>5. CASE left > 0 /\ i.left > 0
      BY <2>1, <2>3, <3>2, <3>5 DEF Moved, Alike, OpenStatuses, i
    <3>6. CASE i.left = 0
      BY <2>1, <2>3, <3>2, <3>3, <3>6 DEF Moved, Alike, OpenStatuses, i
    <3> QED
      BY <3>3, <3>4, <3>5, <3>6
  <2> QED
    BY <2>2, <2>3
<1> QED
  BY <1>1 DEF QuietSteps, Quiet

\* A step in which no slice is given out.
LEMMA EveryOtherStep ==
  ASSUME IInv, [Next]_vars,
         ~ \E r \in Runs, w \in Workers, due \in BOOLEAN : ClaimHeldSlice(r, w, due),
         ~ \E r \in Runs, w \in Workers, due \in BOOLEAN, limit \in 1 .. ClaimLimit,
              lease \in 1 .. LeaseTicks : ClaimNewReservation(r, w, limit, lease, due)
  PROVE  QuietSteps
<1>1. CASE UNCHANGED vars
  BY <1>1, UnchangedSteps DEF vars
<1>2. ASSUME NEW r \in Runs, Start(r) \/ Pause(r) \/ Resume(r)
      PROVE  QuietSteps
  BY <1>2, UnchangedSteps DEF Start, Create, Pause, Resume
<1>3. ASSUME NEW r \in Runs, Claim(r)
      PROVE  QuietSteps
  BY <1>3, ClaimNothingSteps DEF Claim
<1>4. ASSUME NEW r \in Runs, Initialize(r) \/ Operate(r)
      PROVE  QuietSteps
  BY <1>2, <1>3, <1>4, InitializeSteps, AdmitSteps, CancelSteps, RebindOnlySteps,
     RenewSteps, ImportSteps DEF Operate
<1>5. CASE Environment
  BY <1>5, UnchangedSteps, TickSteps
     DEF Environment, EditNotice, ToggleNotice, ActivateContext, ReviewDraft, Drop
<1> QED
  BY <1>1, <1>2, <1>4, <1>5 DEF Next

\* Each step of the engine moves each item by a step of these.
LEMMA EveryStep ==
  ASSUME IInv, [Next]_vars
  PROVE  StepsOk
<1>1. ASSUME NEW r \in Runs, NEW w \in Workers, NEW due \in BOOLEAN,
             ClaimHeldSlice(r, w, due)
      PROVE  StepsOk
  BY <1>1, ClaimHeldSliceSteps
<1>2. ASSUME NEW r \in Runs, NEW w \in Workers, NEW due \in BOOLEAN,
             NEW limit \in 1 .. ClaimLimit, NEW lease \in 1 .. LeaseTicks,
             ClaimNewReservation(r, w, limit, lease, due)
      PROVE  StepsOk
  BY <1>2, ClaimNewReservationSteps
<1>3. QuietSteps => StepsOk
  BY DEF QuietSteps, StepsOk, ItemStep
<1> QED
  BY <1>1, <1>2, <1>3, EveryOtherStep

----------------------------------------------------------------------------
\* Theorems

LEMMA LedgerEntries ==
  ASSUME NEW i \in Items
  PROVE  /\ LedgerEntry(i).state =
              IF i.status = "absent" THEN "none"
              ELSE IF i.status \in {"pending", "retry"} THEN "free"
              ELSE IF i.status = "claimed" THEN IF i.left > 0 THEN "held" ELSE "lapsed"
              ELSE IF i.status = "completed" THEN "settled" ELSE "closed"
         /\ LedgerEntry(i).token = IF i.status = "completed" THEN i.settled ELSE i.token
         /\ LedgerEntry(i).by = i.by
         /\ LedgerEntry(i).epoch = i.ctx
<1>1. i.left = 0 \/ i.left > 0
  BY SizesAssumption DEF Items
<1>2. ~(i.left = 0 /\ i.left > 0)
  OBVIOUS
<1> QED
  BY <1>1, <1>2 DEF LedgerEntry

\* Each of them is a step of the ledger, or a stutter.
LEMMA ItemStepRefines ==
  ASSUME NEW i \in Items, NEW j \in Items, NEW r, NEW n, NEW D,
         ItemStep(i, j, r, n, D)
  PROVE  Ledger!Step(LedgerEntry(i), LedgerEntry(j))
<1> DEFINE e == LedgerEntry(i)
           f == LedgerEntry(j)
<1>0. /\ e = [state |-> e.state, token |-> e.token, by |-> e.by, epoch |-> e.epoch]
      /\ f = [state |-> f.state, token |-> f.token, by |-> f.by, epoch |-> f.epoch]
  BY DEF LedgerEntry
<1>1. /\ e.state = IF i.status = "absent" THEN "none"
                   ELSE IF i.status \in {"pending", "retry"} THEN "free"
                   ELSE IF i.status = "claimed" THEN IF i.left > 0 THEN "held" ELSE "lapsed"
                   ELSE IF i.status = "completed" THEN "settled" ELSE "closed"
      /\ e.token = IF i.status = "completed" THEN i.settled ELSE i.token
      /\ e.by = i.by /\ e.epoch = i.ctx
  BY LedgerEntries
<1>2. /\ f.state = IF j.status = "absent" THEN "none"
                   ELSE IF j.status \in {"pending", "retry"} THEN "free"
                   ELSE IF j.status = "claimed" THEN IF j.left > 0 THEN "held" ELSE "lapsed"
                   ELSE IF j.status = "completed" THEN "settled" ELSE "closed"
      /\ f.token = IF j.status = "completed" THEN j.settled ELSE j.token
      /\ f.by = j.by /\ f.epoch = j.ctx
  BY LedgerEntries
<1>3. f.epoch \in Nat /\ e.epoch \in Nat
  BY <1>1, <1>2, SizesAssumption DEF Items, Contexts
<1> HIDE DEF e, f
<1>4. CASE Alike(i, j)
  <2>1. e.state = f.state /\ e.token = f.token /\ e.by = f.by /\ e.epoch = f.epoch
    BY <1>1, <1>2, <1>4 DEF Alike
  <2> QED
    BY <1>0, <2>1 DEF Ledger!Step, e, f
<1>11. CASE Shown(i, j)
  <2>1. e.state = f.state /\ e.token = f.token /\ e.by = f.by /\ e.epoch = f.epoch
    BY <1>1, <1>2, <1>11 DEF Shown
  <2> QED
    BY <1>0, <2>1 DEF Ledger!Step, e, f
<1>5. CASE Freed(i, j) \/ GivenBack(i, j)
  <2>1. Ledger!Release(e, f)
    BY <1>1, <1>2, <1>5 DEF Freed, GivenBack, OpenStatuses, Ledger!Release
  <2> QED
    BY <2>1 DEF Ledger!Step, e, f
<1>6. CASE Closed(i, j, n)
  <2>1. Ledger!Close(e, f)
    BY <1>1, <1>2, <1>6 DEF Closed, OpenStatuses, Ledger!Close
  <2> QED
    BY <2>1 DEF Ledger!Step, e, f
<1>7. CASE Added(i, j)
  <2>1. Ledger!Offer(e, f)
    BY <1>1, <1>2, <1>7 DEF Added, Ledger!Offer
  <2> QED
    BY <2>1 DEF Ledger!Step, e, f
<1>8. CASE TakenOver(i, j)
  <2>1. Ledger!Take(e, f) \/ Ledger!Revoke(e, f)
    BY <1>1, <1>2, <1>3, <1>8 DEF TakenOver, OpenStatuses, Ledger!Take, Ledger!Revoke
  <2> QED
    BY <2>1 DEF Ledger!Step, e, f
<1>9. CASE Lapsed(i, j)
  <2>1. e.state = "held" /\ f.state = "lapsed" /\ f.token = e.token /\ f.by = e.by
        /\ f.epoch = e.epoch
    BY <1>1, <1>2, <1>9 DEF Lapsed
  <2>2. f = [e EXCEPT !.state = "lapsed"]
    BY <1>0, <2>1
  <2> QED
    BY <2>1, <2>2 DEF Ledger!Step, Ledger!Lapse, e, f
<1>10. CASE Settled(i, j, r, n, D)
  <2>1. Ledger!Settle(e, f)
    BY <1>1, <1>2, <1>10 DEF Settled, Ledger!Settle
  <2> QED
    BY <2>1 DEF Ledger!Step, e, f
<1> QED
  BY <1>4, <1>5, <1>6, <1>7, <1>8, <1>9, <1>10, <1>11
     DEF ItemStep, Quiet, Moved

\* Drafts are not taken back.
LEMMA DraftsStay ==
  ASSUME [Next]_vars
  PROVE  drafts \subseteq drafts'
<1>1. CASE UNCHANGED vars
  BY <1>1 DEF vars
<1>2. ASSUME NEW r \in Runs, Start(r) \/ Initialize(r) \/ Claim(r)
      PROVE  drafts \subseteq drafts'
  BY <1>2 DEF Start, Create, Initialize, Claim, ClaimHeldSlice, ClaimNewReservation,
              ClaimNothing
<1>3. ASSUME NEW r \in Runs, Operate(r)
      PROVE  drafts \subseteq drafts'
  BY <1>2, <1>3 DEF Operate, Admit, Pause, Resume, Cancel, RebindOnly, Renew, Import
<1>4. CASE Environment
  BY <1>4 DEF Environment, EditNotice, ToggleNotice, ActivateContext, ReviewDraft, Tick, Drop
<1> QED
  BY <1>1, <1>2, <1>3, <1>4 DEF Next

\* What a run counts as completed always has a stored analysis behind it, of the
\* content and the context the item names.
THEOREM CompletionsHaveEvidence == Spec => []CompletionHasEvidence
<1> DEFINE Inv == \A r \in Runs, n \in Notices :
                    item[r][n].status = "completed" => Evidence(item[r][n], n, drafts)
<1>1. Init => Inv
  BY DEF Init, Absent, NewItem
<1>2. Inv /\ IInv /\ [Next]_vars => Inv'
  <2> SUFFICES ASSUME Inv, IInv, [Next]_vars, NEW r \in Runs, NEW n \in Notices,
                      item'[r][n].status = "completed"
               PROVE  Evidence(item'[r][n], n, drafts')
    OBVIOUS
  <2>1. ItemStep(item[r][n], item'[r][n], r, n, drafts')
    BY EveryStep DEF StepsOk
  <2>2. drafts \subseteq drafts'
    BY DraftsStay
  <2>3. CASE Settled(item[r][n], item'[r][n], r, n, drafts')
    BY <2>3 DEF Settled
  <2>4. CASE Moved(item[r][n], item'[r][n], n)
    <3>1. item[r][n].status = "completed" /\ item'[r][n] = item[r][n]
      BY <2>4 DEF Moved, Alike, Freed, Closed, OpenStatuses
    <3> QED
      BY <2>2, <3>1 DEF Evidence
  <2> QED
    BY <2>1, <2>3, <2>4 DEF ItemStep, Quiet, Added, GivenBack, TakenOver,
       Lapsed, Shown
<1>3. Inv => CompletionHasEvidence
  BY DEF Evidence, CompletionHasEvidence
<1> QED
  BY <1>1, <1>2, <1>3, Invariance, PTL DEF Spec

\* The queue implements ClaimLedger: whatever the requests, the leases and the
\* context switches, a live claim is taken over only by a newer context, an item is
\* completed once, by the token that holds it, and stays as it was completed.
THEOREM ImplementsLedger == Spec => LedgerSpec
<1>1. Init => Ledger!Init
  <2>1. ASSUME Init, NEW k \in Runs \X Notices
        PROVE  LedgerEntry(item[k[1]][k[2]]).state = "none"
    <3>1. k[1] \in Runs /\ k[2] \in Notices
      OBVIOUS
    <3>2. item[k[1]][k[2]].status = "absent"
      BY <2>1, <3>1 DEF Init, Absent, NewItem
    <3> QED
      BY <3>2 DEF LedgerEntry
  <2> QED
    BY <2>1 DEF Ledger!Init
<1>2. IInv /\ IInv' /\ [Next]_vars
        => [Ledger!Next]_([k \in Runs \X Notices |-> LedgerEntry(item[k[1]][k[2]])])
  <2> SUFFICES ASSUME IInv, IInv', [Next]_vars
               PROVE  Ledger!Next
    OBVIOUS
  <2>1. StepsOk
    BY EveryStep
  <2>2. ASSUME NEW k \in Runs \X Notices
        PROVE  Ledger!Step(LedgerEntry(item[k[1]][k[2]]), LedgerEntry(item'[k[1]][k[2]]))
    <3>1. k[1] \in Runs /\ k[2] \in Notices
      OBVIOUS
    <3>2. item[k[1]][k[2]] \in Items /\ item'[k[1]][k[2]] \in Items
      BY <3>1 DEF IInv, TypeOK
    <3>3. ItemStep(item[k[1]][k[2]], item'[k[1]][k[2]], k[1], k[2], drafts')
      BY <2>1, <3>1 DEF StepsOk
    <3> QED
      BY <3>2, <3>3, ItemStepRefines
  <2> QED
    BY <2>2 DEF Ledger!Next
<1> QED
  BY <1>1, <1>2, Invariance, PTL DEF Spec, LedgerSpec, Ledger!Spec

----------------------------------------------------------------------------
\* Claims: facts about the steps

\* What is held after a transformation was held before it, by the same worker.
LEMMA MovedHeld ==
  ASSUME NEW i, NEW j, NEW n, Moved(i, j, n), j.status = "claimed"
  PROVE  Alike(i, j) /\ i.status = "claimed"
  BY DEF Moved, Alike, Freed, Closed

\* A claim that a quiet step leaves is the one there was, with the basis it had.
LEMMA QuietClaimed ==
  ASSUME NEW i, NEW j, NEW r, NEW n, NEW D, Quiet(i, j, r, n, D), j.status = "claimed"
  PROVE  /\ i.status = "claimed" /\ j.token = i.token /\ j.by = i.by /\ j.basis = i.basis
         /\ j.left > 0 => i.left > 0
<1>1. CASE Moved(i, j, n)
  BY <1>1, MovedHeld DEF Alike
<1>2. CASE Lapsed(i, j)
  BY <1>2 DEF Lapsed
<1> QED
  BY <1>1, <1>2 DEF Quiet, Added, GivenBack, Settled

\* The actions that give a slice out.
Gives ==
  \E r \in Runs, w \in Workers, due \in BOOLEAN :
    \/ ClaimHeldSlice(r, w, due)
    \/ \E limit \in 1 .. ClaimLimit, lease \in 1 .. LeaseTicks :
         ClaimNewReservation(r, w, limit, lease, due)

\* A step that gives nothing out moves items quietly and makes no response.
LEMMA OtherStepIsQuiet ==
  ASSUME IInv, [Next]_vars, ~Gives
  PROVE  QuietSteps /\ tickets' \subseteq tickets
<1>1. QuietSteps
  BY EveryOtherStep DEF Gives
<1>2. ASSUME NEW r \in Runs, Claim(r)
      PROVE  tickets' = tickets
  BY <1>2 DEF Gives, Claim, ClaimNothing
<1>3. ASSUME NEW r \in Runs, Start(r) \/ Initialize(r) \/ Operate(r)
      PROVE  tickets' = tickets
  BY <1>2, <1>3 DEF Start, Create, Initialize, Operate, Admit, Pause, Resume, Cancel,
                    RebindOnly, Renew, Import
<1>4. Environment => tickets' \subseteq tickets
  BY DEF Environment, EditNotice, ToggleNotice, ActivateContext, ReviewDraft, Tick, Drop
<1>5. UNCHANGED vars => tickets' = tickets
  BY DEF vars
<1> QED
  BY <1>1, <1>3, <1>4, <1>5 DEF Next

\* What a new reservation S of w makes of the items `its', before the slice is shown:
\* items jts, whose new tokens no response bears yet.
Reserves(r, w, its, S, jts) ==
  /\ SoundItems(jts, active)
  /\ \A n \in Notices :
       IF n \in S
         THEN /\ Taken(its[n], jts[n]) /\ jts[n].by = w
              /\ \A t \in tickets : t.run = r /\ t.notice = n => t.token # jts[n].token
         ELSE jts[n] = its[n]

\* The step that reserves S of the items `its' for w and shows a slice of it.
TakesNew(r, w, limit, its) ==
  \E S \in AtMost({n \in Notices : its[n].status \in {"pending", "retry"}},
                  Window(its, limit)) :
  \E jts : \E slice \in SUBSET S :
    /\ Reserves(r, w, its, S, jts)
    /\ Commit(r, "waiting_for_results", Captured(jts, slice))
    /\ Respond(r, jts, slice)

\* A new reservation takes free items within the cap, and responds with them.
LEMMA NewReservation ==
  ASSUME IInv, NEW r \in Runs, NEW w \in Workers, NEW limit \in 1 .. ClaimLimit,
         NEW lease \in 1 .. LeaseTicks, NEW due \in BOOLEAN,
         ClaimNewReservation(r, w, limit, lease, due)
  PROVE  TakesNew(r, w, limit, Prepared(r, due))
<1> DEFINE its == Prepared(r, due)
           free == {n \in Notices : its[n].status \in {"pending", "retry"}}
           end(S, token, slice) ==
             /\ \A n \in S : token[n] \in FreshTokens(r, n)
             /\ Commit(r, "waiting_for_results",
                       Captured(Reserved(its, S, w, token, lease), slice))
             /\ Respond(r, Reserved(its, S, w, token, lease), slice)
<1>1. PICK S \in AtMost(free, Window(its, limit)) :
        \E token \in [S -> Tokens] : \E slice \in AtMost(S, SliceSize) : end(S, token, slice)
  BY DEF ClaimNewReservation
<1>2. PICK token \in [S -> Tokens] : \E slice \in AtMost(S, SliceSize) : end(S, token, slice)
  BY <1>1
<1>3. PICK slice \in AtMost(S, SliceSize) : end(S, token, slice)
  BY <1>2
<1> DEFINE jts == Reserved(its, S, w, token, lease)
<1>4. SoundItems(its, active)
  BY PreparedSound DEF IInv
<1>5. S \in SUBSET free /\ slice \in SUBSET S
  BY DEF AtMost
<1>6. Reserves(r, w, its, S, jts)
  <2>1. SoundItems(jts, active)
    BY <1>4, <1>5, ReservedSound
  <2>2. ASSUME NEW n \in S
        PROVE  /\ Taken(its[n], jts[n]) /\ jts[n].by = w
               /\ \A t \in tickets : t.run = r /\ t.notice = n => t.token # jts[n].token
    <3> DEFINE x == its[n]
               j == [x EXCEPT !.status = "claimed", !.token = token[n], !.by = w,
                              !.left = lease, !.age = 0]
    <3>1. n \in Notices /\ x \in Items /\ jts[n] = j
      BY <1>4, <1>5 DEF SoundItems, Reserved
    <3>2. Taken(x, jts[n])
      BY <1>4, <1>5, <3>1, ReservedMoves
    <3> HIDE DEF its, x
    <3>3. j.by = w /\ j.token = token[n]
      BY <3>1 DEF Items
    <3>4. token[n] \in FreshTokens(r, n)
      BY <1>3
    <3>5. \A t \in tickets : t.run = r /\ t.notice = n => t.token # token[n]
      BY <3>4 DEF FreshTokens
    <3> HIDE DEF j
    <3> QED
      BY <3>1, <3>2, <3>3, <3>5 DEF x
  <2>3. \A n \in Notices : n \notin S => jts[n] = its[n]
    BY DEF Reserved
  <2> QED
    BY <2>1, <2>2, <2>3 DEF Reserves
<1>7. Commit(r, "waiting_for_results", Captured(jts, slice)) /\ Respond(r, jts, slice)
  BY <1>3
<1> HIDE DEF jts, its
<1> QED
  BY <1>5, <1>6, <1>7 DEF TakesNew, its

\* A repeated claim captures and responds with what its worker holds.
LEMMA HeldSlice ==
  ASSUME IInv, NEW r \in Runs, NEW w \in Workers, NEW due \in BOOLEAN,
         ClaimHeldSlice(r, w, due)
  PROVE  LET its == Prepared(r, due) IN
         \E status : \E slice \in SUBSET HeldBy(its, w) :
           /\ Commit(r, status, Captured(its, slice))
           /\ Respond(r, its, slice)
<1>1. PICK slice \in AtMost(HeldBy(Prepared(r, due), w), SliceSize) :
        /\ Commit(r, PreparedStatus(r, due), Captured(Prepared(r, due), slice))
        /\ Respond(r, Prepared(r, due), slice)
  BY DEF ClaimHeldSlice
<1>2. slice \in SUBSET HeldBy(Prepared(r, due), w)
  BY DEF AtMost
<1> QED
  BY <1>1, <1>2

----------------------------------------------------------------------------
\* How much is held

LEMMA HeldAreFinite ==
  ASSUME NEW its, NEW w
  PROVE  /\ Held(its) \in SUBSET Notices /\ HeldBy(its, w) \in SUBSET Held(its)
         /\ IsFiniteSet(Held(its)) /\ IsFiniteSet(HeldBy(its, w))
         /\ Cardinality(Held(its)) \in Nat /\ Cardinality(HeldBy(its, w)) \in Nat
<1>1. Held(its) \in SUBSET Notices /\ HeldBy(its, w) \in SUBSET Held(its)
  BY DEF Held, HeldBy
<1>2. IsFiniteSet(Held(its)) /\ IsFiniteSet(HeldBy(its, w))
  BY <1>1, FS_Subset, SizesAssumption
<1> QED
  BY <1>1, <1>2, FS_CardinalityType

\* A run that holds no more than before keeps its bounds.
Bounded(its) ==
  /\ Cardinality(Held(its)) <= GlobalCap
  /\ \A w \in Workers : Cardinality(HeldBy(its, w)) <= ClaimLimit

\* Bounds stay when no claim comes to be held.
LEMMA FewerHeld ==
  ASSUME NEW its, NEW jts, Bounded(its),
         \A n \in Notices : jts[n].status = "claimed" /\ jts[n].left > 0
           => its[n].status = "claimed" /\ its[n].left > 0 /\ jts[n].by = its[n].by
  PROVE  Bounded(jts) /\ Held(jts) \subseteq Held(its)
         /\ \A w : HeldBy(jts, w) \subseteq HeldBy(its, w)
<1>1. Held(jts) \in SUBSET Held(its) /\ \A w : HeldBy(jts, w) \in SUBSET HeldBy(its, w)
  BY DEF Held, HeldBy
<1>2. Cardinality(Held(jts)) <= Cardinality(Held(its))
  BY <1>1, HeldAreFinite, FS_Subset
<1>3. \A w : Cardinality(HeldBy(jts, w)) <= Cardinality(HeldBy(its, w))
  BY <1>1, HeldAreFinite, FS_Subset
<1>4. \A w : /\ Cardinality(Held(jts)) \in Nat /\ Cardinality(Held(its)) \in Nat
             /\ Cardinality(HeldBy(jts, w)) \in Nat /\ Cardinality(HeldBy(its, w)) \in Nat
  BY HeldAreFinite
<1>5. Cardinality(Held(jts)) <= GlobalCap
  BY <1>2, <1>4, SizesAssumption DEF Bounded
<1>6. ASSUME NEW w \in Workers
      PROVE  Cardinality(HeldBy(jts, w)) <= ClaimLimit
  BY <1>3, <1>4, SizesAssumption DEF Bounded
<1> QED
  BY <1>1, <1>5, <1>6 DEF Bounded

\* What comes before a claim takes no claim.
LEMMA PreparedBounded ==
  ASSUME IInv, NEW r \in Runs, NEW due \in BOOLEAN, Bounded(item[r])
  PROVE  Bounded(Prepared(r, due))
<1>1. \A n \in Notices :
        Prepared(r, due)[n].status = "claimed" /\ Prepared(r, due)[n].left > 0
          => /\ item[r][n].status = "claimed" /\ item[r][n].left > 0
             /\ Prepared(r, due)[n].by = item[r][n].by
  BY PreparedMoves, MovedHeld DEF Alike
<1> HIDE DEF IInv
<1> QED
  BY <1>1, FewerHeld

\* Nor does the capture of the basis.
LEMMA CapturedBounded ==
  ASSUME NEW its, SoundItems(its, active), Bounded(its),
         NEW slice, \A n \in slice : its[n].status = "claimed"
  PROVE  Bounded(Captured(its, slice))
<1>1. \A n \in Notices :
        Captured(its, slice)[n].status = "claimed" /\ Captured(its, slice)[n].left > 0
          => /\ its[n].status = "claimed" /\ its[n].left > 0
             /\ Captured(its, slice)[n].by = its[n].by
  BY CapturedMoves DEF Shown
<1> QED
  BY <1>1, FewerHeld

\* A new reservation fits in the free slots of the run and in one window.
LEMMA ReservedBounded ==
  ASSUME NEW its, NEW jts, Bounded(its), NEW w \in Workers, NEW limit \in 1 .. ClaimLimit,
         HeldBy(its, w) = {}, Cardinality(Held(its)) < GlobalCap,
         NEW S, S \in AtMost({n \in Notices : its[n].status \in {"pending", "retry"}},
                             Window(its, limit)),
         \A n \in Notices : IF n \in S THEN jts[n].by = w ELSE jts[n] = its[n]
  PROVE  Bounded(jts)
<1> DEFINE free == {n \in Notices : its[n].status \in {"pending", "retry"}}
           h == Cardinality(Held(its))
<1>1. S \in SUBSET Notices /\ IsFiniteSet(S) /\ Cardinality(S) \in Nat
      /\ IsFiniteSet(free) /\ Cardinality(free) \in Nat
  BY FS_Subset, FS_CardinalityType, SizesAssumption DEF AtMost
<1>2. h \in Nat /\ limit \in Nat /\ limit <= ClaimLimit /\ GlobalCap \in Nat /\ ClaimLimit \in Nat
  BY HeldAreFinite, SizesAssumption
<1>3. Cardinality(S) = IF Cardinality(free) < Window(its, limit) THEN Cardinality(free)
                                                                 ELSE Window(its, limit)
  BY DEF AtMost
<1>4. Window(its, limit) = IF limit < GlobalCap - h THEN limit ELSE GlobalCap - h
  BY DEF Window
<1> HIDE DEF h, free
<1>5. Cardinality(S) <= limit /\ Cardinality(S) + h <= GlobalCap
  BY <1>1, <1>2, <1>3, <1>4 DEF h
<1>6. Cardinality(Held(jts)) <= GlobalCap
  <2>1. Held(jts) \in SUBSET (Held(its) \cup S)
    BY DEF Held
  <2>2. /\ IsFiniteSet(Held(its) \cup S)
        /\ Cardinality(Held(its) \cup S) = h + Cardinality(S) - Cardinality(Held(its) \cap S)
    BY <1>1, HeldAreFinite, FS_Union DEF h
  <2>3. Cardinality(Held(its) \cap S) \in Nat /\ Cardinality(Held(its) \cup S) \in Nat
    BY <1>1, <2>2, FS_Intersection, FS_CardinalityType
  <2>4. Cardinality(Held(jts)) <= Cardinality(Held(its) \cup S)
    BY <2>1, <2>2, FS_Subset
  <2>5. Cardinality(Held(jts)) \in Nat
    BY HeldAreFinite
  <2> QED
    BY <1>1, <1>2, <1>5, <2>2, <2>3, <2>4, <2>5
<1>7. ASSUME NEW v \in Workers
      PROVE  Cardinality(HeldBy(jts, v)) <= ClaimLimit
  <2>1. CASE v = w
    <3>1. HeldBy(jts, v) \in SUBSET S
      BY <2>1 DEF HeldBy
    <3>2. Cardinality(HeldBy(jts, v)) <= Cardinality(S) /\ Cardinality(HeldBy(jts, v)) \in Nat
      BY <1>1, <3>1, HeldAreFinite, FS_Subset
    <3> QED
      BY <1>1, <1>2, <1>5, <3>2
  <2>2. CASE v # w
    <3>1. HeldBy(jts, v) \in SUBSET HeldBy(its, v)
      BY <2>2 DEF HeldBy
    <3>2. Cardinality(HeldBy(jts, v)) <= Cardinality(HeldBy(its, v))
      BY <3>1, HeldAreFinite, FS_Subset
    <3>3. Cardinality(HeldBy(its, v)) <= ClaimLimit
      BY DEF Bounded
    <3> QED
      BY <1>2, <3>2, <3>3, HeldAreFinite
  <2> QED
    BY <2>1, <2>2
<1> QED
  BY <1>6, <1>7 DEF Bounded

\* A commit of bounded items keeps the bounds of all runs.
LEMMA CommitBounded ==
  ASSUME IInv, NEW r \in Runs, NEW status, NEW its, Commit(r, status, its),
         HoldsAreBounded, Bounded(its)
  PROVE  HoldsAreBounded'
<1>1. ASSUME NEW q \in Runs
      PROVE  item'[q] = IF q = r THEN its ELSE item[q]
  BY DEF Commit, IInv, TypeOK
<1>2. ASSUME NEW q \in Runs
      PROVE  Bounded(item'[q])
  BY <1>1 DEF HoldsAreBounded, Bounded
<1> QED
  BY <1>2 DEF HoldsAreBounded, Bounded

\* So every step keeps the bounds.
LEMMA HoldsPreserved ==
  ASSUME IInv, HoldsAreBounded, [Next]_vars
  PROVE  HoldsAreBounded'
<1>1. \A r \in Runs : Bounded(item[r])
  BY DEF HoldsAreBounded, Bounded
<1>2. ASSUME NEW r \in Runs, NEW w \in Workers, NEW due \in BOOLEAN,
             ClaimHeldSlice(r, w, due)
      PROVE  HoldsAreBounded'
  <2> DEFINE its == Prepared(r, due)
  <2>0. PICK status : \E slice \in SUBSET HeldBy(its, w) :
                        Commit(r, status, Captured(its, slice))
    BY <1>2, HeldSlice
  <2>1. PICK slice \in SUBSET HeldBy(its, w) : Commit(r, status, Captured(its, slice))
    BY <2>0
  <2>2. SoundItems(its, active) /\ Bounded(its)
    BY <1>1, PreparedSound, PreparedBounded DEF IInv
  <2>3. \A n \in slice : its[n].status = "claimed"
    BY DEF HeldBy
  <2> HIDE DEF its
  <2>4. Bounded(Captured(its, slice))
    BY <2>2, <2>3, CapturedBounded
  <2> QED
    BY <2>1, <2>4, CommitBounded
<1>3. ASSUME NEW r \in Runs, NEW w \in Workers, NEW due \in BOOLEAN,
             NEW limit \in 1 .. ClaimLimit, NEW lease \in 1 .. LeaseTicks,
             ClaimNewReservation(r, w, limit, lease, due)
      PROVE  HoldsAreBounded'
  <2> DEFINE its == Prepared(r, due)
             free == {n \in Notices : its[n].status \in {"pending", "retry"}}
             end(S, jts, slice) == /\ Reserves(r, w, its, S, jts)
                                   /\ Commit(r, "waiting_for_results", Captured(jts, slice))
  <2>0. PICK S \in AtMost(free, Window(its, limit)) :
          \E jts : \E slice \in SUBSET S : end(S, jts, slice)
    BY <1>3, NewReservation DEF TakesNew
  <2>1. PICK jts : \E slice \in SUBSET S : end(S, jts, slice)
    BY <2>0
  <2>6. PICK slice \in SUBSET S : end(S, jts, slice)
    BY <2>1
  <2>2. Bounded(its) /\ HeldBy(its, w) = {} /\ Cardinality(Held(its)) < GlobalCap
    BY <1>1, <1>3, PreparedBounded DEF ClaimNewReservation
  <2>3. S \subseteq Notices
    BY DEF AtMost
  <2> HIDE DEF its
  <2>4. Bounded(jts)
    BY <2>6, <2>2, ReservedBounded DEF Reserves
  <2>5. Bounded(Captured(jts, slice))
    BY <2>6, <2>3, <2>4, CapturedBounded DEF Reserves, Taken
  <2> QED
    BY <2>6, <2>5, CommitBounded
<1>4. CASE QuietSteps
  <2>1. ASSUME NEW r \in Runs
        PROVE  Bounded(item'[r])
    <3>1. \A n \in Notices : item'[r][n].status = "claimed" /\ item'[r][n].left > 0
            => /\ item[r][n].status = "claimed" /\ item[r][n].left > 0
               /\ item'[r][n].by = item[r][n].by
      BY <1>4, QuietClaimed DEF QuietSteps
    <3> QED
      BY <1>1, <3>1, FewerHeld
  <2> QED
    BY <2>1 DEF HoldsAreBounded, Bounded
<1> QED
  BY <1>2, <1>3, <1>4, OtherStepIsQuiet DEF Gives

\* No worker ever holds more than one reservation window of a run, nor all workers
\* together more than the global cap, whatever the number of workers and requests.
THEOREM HoldsStayBounded == Spec => []HoldsAreBounded
<1>1. Init => HoldsAreBounded
  <2> SUFFICES ASSUME Init, NEW r \in Runs
               PROVE  /\ Cardinality(Held(item[r])) <= GlobalCap
                      /\ \A w \in Workers : Cardinality(HeldBy(item[r], w)) <= ClaimLimit
    BY DEF HoldsAreBounded
  <2>1. Held(item[r]) = {} /\ \A w \in Workers : HeldBy(item[r], w) = {}
    BY DEF Init, Held, HeldBy, Absent, NewItem
  <2> QED
    BY <2>1, FS_EmptySet, SizesAssumption
<1>2. IInv /\ HoldsAreBounded /\ [Next]_vars => HoldsAreBounded'
  BY HoldsPreserved
<1> QED
  BY <1>1, <1>2, Invariance, PTL DEF Spec

----------------------------------------------------------------------------
\* What a response tells of the item

\* A result is stored with the completion and not before.
ResultsAreLast ==
  \A r \in Runs, n \in Notices :
    item[r][n].status # "completed" => item[r][n].result = NoResult

\* As long as the token of a response that was served once holds the item, the basis of
\* the item is the one the response has shown.
BasisIsTold ==
  \A t \in tickets : LET i == item[t.run][t.notice] IN
    t.kind = "claim" /\ i.status = "claimed" /\ i.token = t.token => i.basis = t.sem

\* A response that is about after a slice was given out.
ToldBefore(r, jts, slice) ==
  \A t \in tickets :
    (/\ t.run = r /\ t.kind = "claim" /\ t.notice \notin slice
     /\ jts[t.notice].status = "claimed" /\ jts[t.notice].token = t.token)
      => jts[t.notice].basis = t.sem

\* A response tells the basis that was captured with it.
LEMMA RespondTells ==
  ASSUME IInv, NEW r \in Runs, NEW jts, SoundItems(jts, active), NEW status,
         NEW slice, \A n \in slice : n \in Notices /\ jts[n].status = "claimed",
         Commit(r, status, Captured(jts, slice)), Respond(r, jts, slice), BasisIsTold,
         ToldBefore(r, jts, slice)
  PROVE  BasisIsTold'
<1> SUFFICES ASSUME NEW u \in tickets', u.kind = "claim",
                    item'[u.run][u.notice].status = "claimed",
                    item'[u.run][u.notice].token = u.token
             PROVE  item'[u.run][u.notice].basis = u.sem
  BY DEF BasisIsTold
<1> DEFINE n == u.notice
           shown == [run |-> r, notice |-> n, token |-> jts[n].token, hash |-> jts[n].hash,
                     ctx |-> active, sem |-> content[n].sem, kind |-> "claim"]
<1>1. \/ u \in tickets /\ ~(u.run = r /\ n \in slice /\ u.token = jts[n].token)
      \/ \E t \in tickets : u = [t EXCEPT !.kind = "reissued"]
      \/ n \in slice /\ u = shown
  BY DEF Respond
<1>2. ~ \E t \in tickets : u = [t EXCEPT !.kind = "reissued"]
  BY DEF IInv, TypeOK, Tickets
<1>3. ASSUME NEW q \in Runs
      PROVE  item'[q] = IF q = r THEN Captured(jts, slice) ELSE item[q]
  BY DEF Commit, IInv, TypeOK
<1>4. CASE n \in slice /\ u = shown
  <2> DEFINE i == jts[n]
             j == [i EXCEPT !.basis = content[n].sem]
  <2>1. u.run = r /\ u.sem = content[n].sem /\ n \in Notices
    BY <1>4
  <2>2. i \in Items /\ item'[r][n] = j
    BY <1>3, <1>4, <2>1 DEF SoundItems, Sound, Captured
  <2> HIDE DEF i
  <2>3. j.basis = content[n].sem
    BY <2>2 DEF Items
  <2> QED
    BY <2>1, <2>2, <2>3
<1>5. CASE u \in tickets /\ ~(u.run = r /\ n \in slice /\ u.token = jts[n].token)
  <2>1. u.run \in Runs /\ n \in Notices
    BY <1>5 DEF IInv, TypeOK, Tickets
  <2>2. CASE u.run # r
    <3>1. item'[u.run][n] = item[u.run][n]
      BY <1>3, <2>1, <2>2
    <3> QED
      BY <1>5, <3>1 DEF BasisIsTold
  <2>3. CASE u.run = r
    <3>1. IF n \in slice THEN Shown(jts[n], item'[r][n]) ELSE item'[r][n] = jts[n]
      BY <1>3, <2>1, CapturedMoves
    <3>2. CASE n \in slice
      BY <1>5, <2>3, <3>1, <3>2 DEF Shown
    <3>3. CASE n \notin slice
      BY <1>5, <2>3, <3>1, <3>3 DEF ToldBefore
    <3> QED
      BY <3>2, <3>3
  <2> QED
    BY <2>2, <2>3
<1> QED
  BY <1>1, <1>2, <1>4, <1>5

\* The items a claim request looks at still have the basis the responses told.
LEMMA PreparedTold ==
  ASSUME IInv, BasisIsTold, NEW r \in Runs, NEW due \in BOOLEAN, NEW t \in tickets,
         t.run = r, t.kind = "claim", Prepared(r, due)[t.notice].status = "claimed",
         Prepared(r, due)[t.notice].token = t.token
  PROVE  Prepared(r, due)[t.notice].basis = t.sem
<1> DEFINE n == t.notice
<1>1. n \in Notices
  BY DEF IInv, TypeOK, Tickets
<1>2. Alike(item[r][n], Prepared(r, due)[n]) /\ item[r][n].status = "claimed"
  BY <1>1, PreparedMoves, MovedHeld
<1> QED
  BY <1>2 DEF Alike, BasisIsTold

\* Every step keeps the basis told to the holder of the latest response.
LEMMA BasisTold ==
  ASSUME IInv, BasisIsTold, [Next]_vars
  PROVE  BasisIsTold'
<1>1. ASSUME NEW r \in Runs, NEW w \in Workers, NEW due \in BOOLEAN,
             ClaimHeldSlice(r, w, due)
      PROVE  BasisIsTold'
  <2> DEFINE its == Prepared(r, due)
  <2>1. PICK status : \E slice \in SUBSET HeldBy(its, w) :
                        Commit(r, status, Captured(its, slice)) /\ Respond(r, its, slice)
    BY <1>1, HeldSlice
  <2>2. PICK slice \in SUBSET HeldBy(its, w) :
          Commit(r, status, Captured(its, slice)) /\ Respond(r, its, slice)
    BY <2>1
  <2>3. SoundItems(its, active)
    BY PreparedSound DEF IInv
  <2>4. \A n \in slice : n \in Notices /\ its[n].status = "claimed"
    BY DEF HeldBy
  <2>5. ToldBefore(r, its, slice)
    <3> SUFFICES ASSUME NEW t \in tickets, t.run = r, t.kind = "claim",
                        its[t.notice].status = "claimed", its[t.notice].token = t.token
                 PROVE  its[t.notice].basis = t.sem
      BY DEF ToldBefore
    <3> QED
      BY PreparedTold
  <2> HIDE DEF its
  <2> QED
    BY <2>2, <2>3, <2>4, <2>5, RespondTells
<1>2. ASSUME NEW r \in Runs, NEW w \in Workers, NEW due \in BOOLEAN,
             NEW limit \in 1 .. ClaimLimit, NEW lease \in 1 .. LeaseTicks,
             ClaimNewReservation(r, w, limit, lease, due)
      PROVE  BasisIsTold'
  <2> DEFINE its == Prepared(r, due)
             end(S, jts, slice) == /\ Reserves(r, w, its, S, jts)
                                   /\ Commit(r, "waiting_for_results", Captured(jts, slice))
                                   /\ Respond(r, jts, slice)
  <2>0. TakesNew(r, w, limit, its)
    BY <1>2, NewReservation
  <2> HIDE DEF its
  <2>1. PICK S \in SUBSET Notices : \E jts : \E slice \in SUBSET S : end(S, jts, slice)
    BY <2>0 DEF TakesNew, AtMost
  <2>2. PICK jts : \E slice \in SUBSET S : end(S, jts, slice)
    BY <2>1
  <2>3. PICK slice \in SUBSET S : end(S, jts, slice)
    BY <2>2
  <2>5. \A n \in slice : n \in Notices /\ jts[n].status = "claimed"
    BY <2>3 DEF Reserves, Taken
  <2>7. ToldBefore(r, jts, slice)
    <3> SUFFICES ASSUME NEW t \in tickets, t.run = r, t.kind = "claim",
                        jts[t.notice].status = "claimed", jts[t.notice].token = t.token
                 PROVE  jts[t.notice].basis = t.sem
      BY DEF ToldBefore
    <3>1. t.notice \in Notices
      BY DEF IInv, TypeOK, Tickets
    <3>2. t.notice \notin S /\ jts[t.notice] = its[t.notice]
      BY <2>3, <3>1 DEF Reserves
    <3> QED
      BY <3>2, PreparedTold DEF its
  <2> QED
    BY <2>3, <2>5, <2>7, RespondTells DEF Reserves
<1>3. CASE ~Gives
  <2> SUFFICES ASSUME NEW t \in tickets', t.kind = "claim",
                      item'[t.run][t.notice].status = "claimed",
                      item'[t.run][t.notice].token = t.token
               PROVE  item'[t.run][t.notice].basis = t.sem
    BY DEF BasisIsTold
  <2>1. QuietSteps /\ t \in tickets
    BY <1>3, OtherStepIsQuiet
  <2>2. t.run \in Runs /\ t.notice \in Notices
    BY <2>1 DEF IInv, TypeOK, Tickets
  <2>3. /\ item[t.run][t.notice].status = "claimed"
        /\ item[t.run][t.notice].token = t.token
        /\ item'[t.run][t.notice].basis = item[t.run][t.notice].basis
    BY <2>1, <2>2, QuietClaimed DEF QuietSteps
  <2> QED
    BY <2>1, <2>3 DEF BasisIsTold
<1> QED
  BY <1>1, <1>2, <1>3 DEF Gives

\* Every step keeps results the last word on their item.
LEMMA ResultsStayLast ==
  ASSUME IInv, ResultsAreLast, [Next]_vars
  PROVE  ResultsAreLast'
<1> SUFFICES ASSUME NEW r \in Runs, NEW n \in Notices, item'[r][n].status # "completed"
             PROVE  item'[r][n].result = NoResult
  BY DEF ResultsAreLast
<1> DEFINE i == item[r][n]
           j == item'[r][n]
<1>1. ItemStep(i, j, r, n, drafts')
  BY EveryStep DEF StepsOk
<1>2. i.status # "completed" => i.result = NoResult
  BY DEF ResultsAreLast
<1> HIDE DEF i
<1>3. CASE Moved(i, j, n)
  BY <1>2, <1>3 DEF Moved, Alike, Freed, Closed, OpenStatuses
<1>4. CASE Added(i, j) \/ GivenBack(i, j) \/ Lapsed(i, j) \/ TakenOver(i, j) \/ Shown(i, j)
  BY <1>2, <1>4 DEF Added, GivenBack, Lapsed, TakenOver, Shown, OpenStatuses
<1> QED
  BY <1>1, <1>3, <1>4 DEF ItemStep, Quiet, Settled

\* A completed item was completed in this step by an answer, or is what it was.
LEMMA NewlyCompleted ==
  ASSUME IInv, [Next]_vars, NEW r \in Runs, NEW n \in Notices,
         item'[r][n].status = "completed"
  PROVE  \/ item[r][n].status = "completed" /\ item'[r][n] = item[r][n]
         \/ Settled(item[r][n], item'[r][n], r, n, drafts')
<1>1. ItemStep(item[r][n], item'[r][n], r, n, drafts')
  BY EveryStep DEF StepsOk
<1>2. CASE Moved(item[r][n], item'[r][n], n)
  BY <1>2 DEF Moved, Alike, Freed, Closed, OpenStatuses
<1> QED
  BY <1>1, <1>2 DEF ItemStep, Quiet, Added, GivenBack, TakenOver, Lapsed, Shown

\* Every step keeps results fresh, or known to be reissued.
LEMMA FreshPreserved ==
  ASSUME IInv, BasisIsTold, ResultsAreLast, FreshUnlessReissued, [Next]_vars
  PROVE  FreshUnlessReissued'
<1> SUFFICES ASSUME NEW r \in Runs, NEW n \in Notices,
                    item'[r][n].status = "completed", item'[r][n].result # NoResult,
                    item'[r][n].result.kind = "claim"
             PROVE  item'[r][n].result.sem = item'[r][n].hash.sem
  BY DEF FreshUnlessReissued
<1> DEFINE i == item[r][n]
           j == item'[r][n]
<1>1. CASE i.status = "completed" /\ j = i
  BY <1>1 DEF FreshUnlessReissued
<1>2. CASE Settled(i, j, r, n, drafts')
  <2>1. i.status = "claimed" /\ i.result = NoResult
    BY <1>2 DEF Settled, ResultsAreLast
  <2>2. Answers(i, j, r, n)
    BY <1>2, <2>1 DEF Settled
  <2>3. PICK t \in tickets :
          /\ t.run = r /\ t.notice = n /\ t.token = i.token
          /\ j.result.sem = t.sem /\ j.result.kind = t.kind
          /\ i.basis # NoBasis => j.hash.sem = i.basis
    BY <2>2 DEF Answers
  <2>4. i.basis = t.sem
    BY <2>1, <2>3 DEF BasisIsTold
  <2>5. t.sem # NoBasis
    BY NullsAssumption DEF IInv, TypeOK, Tickets
  <2> QED
    BY <2>3, <2>4, <2>5
<1> QED
  BY <1>1, <1>2, NewlyCompleted

\* A result that is not an answer to a reissued response is stored only for a content
\* with the semantics its worker has read: rebasing a result never loses that.
THEOREM ResultsAreFresh == Spec => []FreshUnlessReissued
<1>1. Init => BasisIsTold /\ ResultsAreLast /\ FreshUnlessReissued
  BY DEF Init, BasisIsTold, ResultsAreLast, FreshUnlessReissued, Absent, NewItem
<1>2. IInv /\ BasisIsTold /\ ResultsAreLast /\ FreshUnlessReissued /\ [Next]_vars
        => BasisIsTold' /\ ResultsAreLast' /\ FreshUnlessReissued'
  BY BasisTold, ResultsStayLast, FreshPreserved
<1> QED
  BY <1>1, <1>2, Invariance, PTL DEF Spec

----------------------------------------------------------------------------
\* What is skipped

LEMMA StoredStays ==
  ASSUME IInv, [Next]_vars, NEW n \in Notices, NEW ctx, NEW hash, Stored(n, ctx, hash)
  PROVE  Stored(n, ctx, hash)'
<1>1. drafts \subseteq drafts'
  BY DraftsStay
<1>2. ASSUME NEW q \in Runs, item[q][n].status = "completed"
      PROVE  item'[q][n] = item[q][n]
  <2>1. ItemStep(item[q][n], item'[q][n], q, n, drafts')
    BY EveryStep DEF StepsOk
  <2> QED
    BY <1>2, <2>1 DEF ItemStep, Quiet, Moved, Alike, Freed, Closed, Added, GivenBack,
       Lapsed, Settled, TakenOver, Shown, OpenStatuses
<1> QED
  BY <1>1, <1>2 DEF Stored, ExactDraft, ExactCompact

\* Every step keeps the evidence of what was skipped.
LEMMA SkippedPreserved ==
  ASSUME IInv, SkippedHasEvidence, [Next]_vars
  PROVE  SkippedHasEvidence'
<1> SUFFICES ASSUME NEW r \in Runs, NEW n \in Notices, item'[r][n].status = "skipped"
             PROVE  Stored(n, item[r][n].ctx, item[r][n].hash)'
  BY DEF SkippedHasEvidence, Stored
<1> DEFINE i == item[r][n]
           j == item'[r][n]
<1>1. ItemStep(i, j, r, n, drafts')
  BY EveryStep DEF StepsOk
<1>2. Stored(n, j.ctx, j.hash)
  <2>1. CASE Alike(i, j)
    <3>1. i.status = "skipped" /\ j = i
      BY <2>1 DEF Alike, OpenStatuses
    <3> QED
      BY <3>1 DEF SkippedHasEvidence, Stored
  <2>2. CASE Closed(i, j, n)
    BY <2>2 DEF Closed
  <2> QED
    BY <1>1, <2>1, <2>2 DEF ItemStep, Quiet, Moved, Freed, Added, GivenBack, Lapsed, Settled,
       TakenOver, Shown
<1>3. \A ctx, hash : Stored(n, ctx, hash) => Stored(n, ctx, hash)'
  BY StoredStays
<1> QED
  BY <1>2, <1>3 DEF Stored, ExactDraft, ExactCompact

\* What is skipped as already analysed has, and keeps, a stored analysis of its content
\* under its context, be it of another run.
THEOREM SkippingLosesNothing == Spec => []SkippedHasEvidence
<1>1. Init => SkippedHasEvidence
  BY DEF Init, SkippedHasEvidence, Absent, NewItem
<1>2. IInv /\ SkippedHasEvidence /\ [Next]_vars => SkippedHasEvidence'
  BY SkippedPreserved
<1> QED
  BY <1>1, <1>2, Invariance, PTL DEF Spec

====
