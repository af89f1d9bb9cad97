---- MODULE AnalysisRepairProofs ----
(***************************************************************************)
(* The repair beside the engine: the types are kept, and no notice is left  *)
(* without an analysis or open work.                                        *)
(*                                                                          *)
(* A repair writes whole rows it decided on before, so that the invariant   *)
(* of the engine does not hold beside it: a finished run may get open work, *)
(* and an item a context that is not that of its run.  QueueInv is what is  *)
(* left of it.  EngineStep says what every step of the engine does then     *)
(* for each run; from it follows how what a repair has read (ReadHolds) or  *)
(* decided (PlanHolds) still relates to the tables when it writes.          *)
(***************************************************************************)
EXTENDS AnalysisRunLedgerProofs, AnalysisRepair

----------------------------------------------------------------------------
\* The repair
\*
\* A repair writes open items into a run that may have been finished or bound to
\* another context since it looked.  Beside it an item is proper: what Sound says but
\* for the context of the run.

Proper(i) == Sound(i, i.ctx)

\* Every item is, in every run, a finished one too.
AllProper == \A r \in Runs, n \in Notices : Proper(item[r][n])

\* What the engine keeps while a repair writes beside it.
QueueInv == TypeOK /\ AllProper /\ TicketsBearTokens

\* Notice n is taken care of by item i, by a draft in D or by a compact result.
Backed(i, n, D) ==
  \/ /\ i.status \in OpenStatuses \/ (i.status = "completed" /\ i.result # NoResult)
     /\ i.hash = content[n] /\ i.ctx = active
  \/ ExactDraft(n, active, content[n]) \in D
  \/ ExactCompact(n, active, content[n])

\* What a transformation of item i of notice n into j never does: touch a completed or
\* a missing item, open work that was closed, or leave the notice without care.
Follows(i, j, n, D) ==
  /\ i.status \in {"completed", "absent"} => j = i
  /\ j.status \in OpenStatuses => i.status \in OpenStatuses
  /\ Backed(i, n, D) => Backed(j, n, D)

\* What is sound for some context is proper.
LEMMA ProperFrom ==
  ASSUME NEW i, NEW ctx, Sound(i, ctx)
  PROVE  Proper(i)
  BY DEF Proper, Sound

\* Two transformations, one after the other.
LEMMA FollowsTransitive ==
  ASSUME NEW i, NEW j, NEW k, NEW n, NEW D, Follows(i, j, n, D), Follows(j, k, n, D)
  PROVE  Follows(i, k, n, D)
  BY DEF Follows

\* A transformation that keeps what matters.
LEMMA SameFollows ==
  ASSUME NEW i, NEW j, NEW n, NEW D, i.status \notin {"completed", "absent"},
         i.status \in OpenStatuses, j.status \in OpenStatuses,
         j.hash = i.hash, j.ctx = i.ctx
  PROVE  Follows(i, j, n, D)
  BY DEF Follows, Backed

\* The items as if they were all the one of notice n: what is sound about these is
\* proper about that one.
Only(its, n) == [m \in Notices |-> its[n]]

\* What is proper about one item is sound about its constant family.
LEMMA OnlySound ==
  ASSUME NEW its, NEW n \in Notices, Proper(its[n])
  PROVE  SoundItems(Only(its, n), its[n].ctx) /\ its[n] \in Items
  BY DEF Proper, Sound, SoundItems, Only

\* An item that expires stays taken care of.
LEMMA ExpiredFollows ==
  ASSUME NEW its, NEW n \in Notices, Proper(its[n]), NEW D
  PROVE  Proper(Expired(its)[n]) /\ Follows(its[n], Expired(its)[n], n, D)
<1> DEFINE o == Only(its, n)
<1>1. SoundItems(o, its[n].ctx) /\ its[n] \in Items /\ o[n] = its[n]
  BY OnlySound DEF Only
<1>2. Expired(o)[n] = Expired(its)[n]
  BY DEF Expired, Only
<1> HIDE DEF o
<1>3. SoundItems(Expired(o), its[n].ctx)
  BY <1>1, ExpiredSound
<1>4. Proper(Expired(its)[n])
  BY <1>2, <1>3, ProperFrom DEF SoundItems
<1>5. CASE its[n].status = "claimed" /\ its[n].left = 0
  <2>1. Expired(its)[n] = Released(its[n], "retry")
    BY <1>5 DEF Expired
  <2>2. /\ Released(its[n], "retry").status = "retry"
        /\ Released(its[n], "retry").hash = its[n].hash
        /\ Released(its[n], "retry").ctx = its[n].ctx
    BY <1>1, ReleasedFields DEF ItemStatuses, OpenStatuses
  <2> QED
    BY <1>4, <1>5, <2>1, <2>2, SameFollows DEF OpenStatuses
<1>6. CASE ~(its[n].status = "claimed" /\ its[n].left = 0)
  <2>1. Expired(its)[n] = its[n]
    BY <1>6 DEF Expired
  <2> QED
    BY <1>4, <2>1 DEF Follows
<1> QED
  BY <1>5, <1>6

\* So does one that is reconciled with what has been stored meanwhile.
LEMMA ReconciledFollows ==
  ASSUME NEW r, NEW its, NEW n \in Notices, Proper(its[n]), NEW D, drafts \subseteq D
  PROVE  Proper(Reconciled(r, its)[n]) /\ Follows(its[n], Reconciled(r, its)[n], n, D)
<1> DEFINE o == Only(its, n)
           j == Reconciled(r, its)[n]
<1>1. SoundItems(o, its[n].ctx) /\ its[n] \in Items /\ o[n] = its[n]
  BY OnlySound DEF Only
<1>2. Reconciled(r, o)[n] = j
  BY DEF Reconciled, Redundant, Only
<1> HIDE DEF o
<1>3. SoundItems(Reconciled(r, o), its[n].ctx)
  BY <1>1, ReconciledSound
<1>4. Proper(j)
  BY <1>2, <1>3, ProperFrom DEF SoundItems
<1>5. CASE Redundant(r, its, n)
  <2>1. ExactDraft(n, active, its[n].hash) \in D \/ ExactCompact(n, active, its[n].hash)
    BY <1>5 DEF Redundant, ExactCompact
  <2>2. its[n].status \in {"pending", "retry"}
    BY <1>5 DEF Redundant
  <2>3. j.status = "skipped"
    <3> DEFINE x == Released(its[n], "skipped")
    <3>1. j = [x EXCEPT !.reason = "already_valid_current_analysis"]
      BY <1>5 DEF Reconciled
    <3>2. x \in Items /\ x.status = "skipped"
      BY <1>1, ReleasedItem, ReleasedFields DEF ItemStatuses
    <3> HIDE DEF x, j
    <3> QED
      BY <3>1, <3>2 DEF Items
  <2> HIDE DEF j
  <2>4. Backed(its[n], n, D) => Backed(j, n, D)
    BY <2>1, <2>2 DEF Backed, OpenStatuses
  <2> QED
    BY <1>4, <2>2, <2>3, <2>4 DEF Follows, OpenStatuses, j
<1>6. CASE ~Redundant(r, its, n)
  <2>1. j = its[n]
    BY <1>6 DEF Reconciled
  <2> QED
    BY <1>4, <2>1 DEF Follows
<1> QED
  BY <1>5, <1>6

\* So does one whose basis is captured for a response.
LEMMA CapturedFollows ==
  ASSUME TypeOK, NEW its, NEW n \in Notices, Proper(its[n]), NEW slice, NEW D,
         n \in slice => its[n].status = "claimed"
  PROVE  Proper(Captured(its, slice)[n]) /\ Follows(its[n], Captured(its, slice)[n], n, D)
<1> DEFINE o == Only(its, n)
           j == Captured(its, slice)[n]
<1>1. SoundItems(o, its[n].ctx) /\ its[n] \in Items /\ o[n] = its[n]
  BY OnlySound DEF Only
<1>2. Captured(o, slice)[n] = j
  BY DEF Captured, Only
<1> HIDE DEF o
<1>3. SoundItems(Captured(o, slice), its[n].ctx)
  BY <1>1, CapturedSound DEF TypeOK
<1>4. Proper(j)
  BY <1>2, <1>3, ProperFrom DEF SoundItems
<1>5. CASE n \in slice
  <2>1. j = [its[n] EXCEPT !.basis = content[n].sem]
    BY <1>5 DEF Captured
  <2> HIDE DEF j
  <2>2. j.status = its[n].status /\ j.hash = its[n].hash /\ j.ctx = its[n].ctx
    BY <1>1, <2>1 DEF Items
  <2> QED
    BY <1>4, <1>5, <2>2, SameFollows DEF OpenStatuses, j
<1>6. CASE n \notin slice
  <2>1. j = its[n]
    BY <1>6 DEF Captured
  <2> QED
    BY <1>4, <2>1 DEF Follows
<1> QED
  BY <1>5, <1>6

\* So does one that is reserved.
LEMMA ReservedFollows ==
  ASSUME NEW its, NEW n \in Notices, Proper(its[n]), NEW w \in Workers, NEW D,
         NEW lease \in 1 .. LeaseTicks,
         NEW S \in SUBSET {m \in Notices : its[m].status \in {"pending", "retry"}},
         NEW token \in [S -> Tokens]
  PROVE  /\ Proper(Reserved(its, S, w, token, lease)[n])
         /\ Follows(its[n], Reserved(its, S, w, token, lease)[n], n, D)
<1> DEFINE j == Reserved(its, S, w, token, lease)[n]
<1>1. CASE n \in S
  <2> DEFINE o == Only(its, n)
             one == {n}
             tok == [m \in {n} |-> token[n]]
  <2>1. SoundItems(o, its[n].ctx) /\ its[n] \in Items /\ o[n] = its[n]
    BY OnlySound DEF Only
  <2>2. Reserved(o, one, w, tok, lease)[n] = j
    BY <1>1 DEF Reserved, Only
  <2>3. one \in SUBSET {m \in Notices : o[m].status \in {"pending", "retry"}}
        /\ tok \in [one -> Tokens]
    BY <1>1 DEF Only
  <2> HIDE DEF o, one, tok
  <2>4. SoundItems(Reserved(o, one, w, tok, lease), its[n].ctx)
    BY <2>1, <2>3, ReservedSound
  <2>5. Proper(j)
    BY <2>2, <2>4, ProperFrom DEF SoundItems
  <2>6. j = [its[n] EXCEPT !.status = "claimed", !.token = token[n], !.by = w,
                           !.left = lease, !.age = 0]
    BY <1>1 DEF Reserved
  <2> HIDE DEF j
  <2>7. j.status = "claimed" /\ j.hash = its[n].hash /\ j.ctx = its[n].ctx
    BY <2>1, <2>6 DEF Items
  <2>8. its[n].status \in {"pending", "retry"}
    BY <1>1
  <2> QED
    BY <2>5, <2>7, <2>8, SameFollows DEF OpenStatuses, j
<1>2. CASE n \notin S
  <2>1. j = its[n]
    BY <1>2 DEF Reserved
  <2> QED
    BY <2>1 DEF Follows
<1> QED
  BY <1>1, <1>2

\* So does one whose lease is renewed.
LEMMA RenewedFollows ==
  ASSUME NEW its, NEW n \in Notices, Proper(its[n]), NEW ws, NEW D,
         NEW lease \in 1 .. LeaseTicks
  PROVE  /\ Proper(Renewed(its, ws, lease)[n])
         /\ Follows(its[n], Renewed(its, ws, lease)[n], n, D)
         /\ Renewed(its, ws, lease)[n].status = its[n].status
<1> DEFINE o == Only(its, n)
           j == Renewed(its, ws, lease)[n]
<1>1. SoundItems(o, its[n].ctx) /\ its[n] \in Items /\ o[n] = its[n]
  BY OnlySound DEF Only
<1>2. Renewed(o, ws, lease)[n] = j
  BY DEF Renewed, HeldBy, Only
<1> HIDE DEF o
<1>3. SoundItems(Renewed(o, ws, lease), its[n].ctx)
  BY <1>1, RenewedSound
<1>4. Proper(j)
  BY <1>2, <1>3, ProperFrom DEF SoundItems
<1>5. CASE \E w \in ws : n \in HeldBy(its, w) /\ its[n].age <= HardAge
  <2>1. j = [its[n] EXCEPT !.left = lease] /\ its[n].status = "claimed"
    BY <1>5 DEF Renewed, HeldBy
  <2> HIDE DEF j
  <2>2. j.status = its[n].status /\ j.hash = its[n].hash /\ j.ctx = its[n].ctx
    BY <1>1, <2>1 DEF Items
  <2> QED
    BY <1>4, <2>1, <2>2, SameFollows DEF OpenStatuses, j
<1>6. CASE ~(\E w \in ws : n \in HeldBy(its, w) /\ its[n].age <= HardAge)
  <2>1. j = its[n]
    BY <1>6 DEF Renewed
  <2> QED
    BY <1>4, <2>1 DEF Follows
<1> QED
  BY <1>5, <1>6

\* What a result makes of an item that is taken care of.
LEMMA JudgedFollows ==
  ASSUME TypeOK, TicketsBearTokens, NEW its, NEW n \in Notices, Proper(its[n]),
         NEW B \in SUBSET tickets, NEW material, NEW D, drafts \subseteq D
  PROVE  /\ Proper(JudgedItems(its, B, material)[n])
         /\ Follows(its[n], JudgedItems(its, B, material)[n], n, D)
<1> DEFINE i == its[n]
           j == JudgedItems(its, B, material)[n]
           t == CHOOSE t \in B : t.notice = n
           m == t \in material
<1>1. CASE ~(\E u \in B : u.notice = n)
  BY <1>1 DEF JudgedItems, Follows
<1>2. CASE \E u \in B : u.notice = n
  <2>1. t \in Tickets /\ t.notice = n /\ t.token \in Tokens
    BY <1>2 DEF TicketsBearTokens, TypeOK
  <2>2. j = Judged(i, t, m) /\ m \in BOOLEAN
    BY <1>2 DEF JudgedItems
  <2>3. i \in Items /\ content \in [Notices -> Contents] /\ drafts \subseteq D
    BY DEF Proper, Sound, TypeOK
  <2> HIDE DEF t, m, j, i
  <2>4. Proper(j) /\ (j.status \in OpenStatuses => i.status \in OpenStatuses)
    BY <2>1, <2>2, <2>3, JudgedSound, ProperFrom DEF Proper, i
  <2>5. CASE t.token # i.token
    <3>1. j = i
      BY <2>2, <2>5, JudgedForeign
    <3> QED
      BY <2>4, <3>1 DEF Follows, i, j
  <2>6. CASE t.token = i.token
    <3>1. i.status = "claimed"
      BY <2>1, <2>6 DEF Proper, Sound, i
    <3>2. \/ j = i
          \/ j = [i EXCEPT !.hash = HashNow(i, t)]
          \/ j \in {Released(i, "retry"), Unlocked(i, "retry")}
          \/ j \in Items /\ Completes(i, j, t, m)
      BY <2>1, <2>2, <2>3, JudgedOwn
    <3>3. HashNow(i, t) \in Contents /\ (i.hash = content[n] => HashNow(i, t) = content[n])
      BY <2>1, <2>3 DEF HashNow, Items
    <3>4. ASSUME Backed(i, n, D)
          PROVE  Backed(j, n, D)
      <4>1. CASE ExactDraft(n, active, content[n]) \in D \/ ExactCompact(n, active, content[n])
        BY <4>1 DEF Backed
      <4>2. CASE i.hash = content[n] /\ i.ctx = active
        <5>1. CASE j = i
          BY <3>1, <4>2, <5>1 DEF Backed, OpenStatuses
        <5>2. CASE j = [i EXCEPT !.hash = HashNow(i, t)]
          BY <2>3, <3>1, <3>3, <4>2, <5>2, RebasedFields DEF Backed, OpenStatuses
        <5>3. CASE j \in {Released(i, "retry"), Unlocked(i, "retry")}
          <6>1. j.status = "retry" /\ j.hash = i.hash /\ j.ctx = i.ctx
            BY <2>3, <5>3, ReleasedFields, UnlockedItem DEF ItemStatuses, OpenStatuses
          <6> QED
            BY <4>2, <6>1 DEF Backed, OpenStatuses
        <5>4. CASE Completes(i, j, t, m) /\ Verdict(i, t) = "duplicate"
          BY <2>1, <2>3, <3>3, <4>2, <5>4 DEF Completes, Backed
        <5>5. CASE Completes(i, j, t, m) /\ Verdict(i, t) = "imported"
          <6>1. [sem |-> t.sem, ctx |-> t.ctx, kind |-> t.kind, compact |-> ~m] \in Results
            BY <2>1, <2>2 DEF Tickets, Results
          <6>2. j.result # NoResult
            BY <5>5, <6>1, NullsAssumption DEF Completes
          <6> QED
            BY <3>3, <4>2, <5>5, <6>2 DEF Completes, Backed
        <5> QED
          BY <3>2, <5>1, <5>2, <5>3, <5>4, <5>5 DEF Completes
      <4> QED
        BY <3>4, <4>1, <4>2 DEF Backed
    <3> QED
      BY <2>4, <3>1, <3>4 DEF Follows, OpenStatuses, i, j
  <2> QED
    BY <2>5, <2>6
<1> QED
  BY <1>1, <1>2

\* What is queued anew is open work about the content of now.
LEMMA QueuedJoins ==
  ASSUME TypeOK, NEW its, NEW n \in Notices, Proper(its[n]), NEW ctx \in Contexts,
         NEW r, NEW S
  PROVE  LET j == Queued(r, its, S, ctx)[n] IN
         /\ Proper(j)
         /\ \/ j = its[n]
            \/ /\ its[n].status = "absent" /\ j.status = "pending"
               /\ j.hash = content[n] /\ j.ctx = ctx
<1> DEFINE j == Queued(r, its, S, ctx)[n]
           new == /\ n \in S /\ its[n].status = "absent" /\ Candidate(r, n)
                  /\ AnalysisReasons(r, n, ctx) # {}
           reason == CHOOSE x \in AnalysisReasons(r, n, ctx) : TRUE
<1>1. CASE new
  <2>1. reason \in Reasons
    BY <1>1, ReasonsTyped
  <2>2. j = NewItem(n, ctx, reason)
    BY <1>1 DEF Queued
  <2> HIDE DEF reason
  <2>3. Proper(j)
    BY <2>1, <2>2, NewItemSound, ProperFrom DEF TypeOK
  <2> QED
    BY <1>1, <2>2, <2>3 DEF NewItem
<1>2. CASE ~new
  BY <1>2 DEF Queued
<1> QED
  BY <1>1, <1>2

\* Time takes nothing from an item but its lease.
LEMMA AgedFollows ==
  ASSUME NEW i, Proper(i), NEW n, NEW D
  PROVE  Proper(Aged(i)) /\ Follows(i, Aged(i), n, D)
<1>1. Proper(Aged(i))
  BY AgedSound, ProperFrom DEF Proper
<1>2. CASE i.status = "claimed"
  <2>1. i \in Items
    BY DEF Proper, Sound
  <2>2. Aged(i).status = i.status /\ Aged(i).hash = i.hash /\ Aged(i).ctx = i.ctx
    BY <1>2, <2>1 DEF Aged, Items
  <2> QED
    BY <1>1, <1>2, <2>2, SameFollows DEF OpenStatuses
<1>3. CASE i.status # "claimed"
  BY <1>1, <1>3 DEF Aged, Follows
<1> QED
  BY <1>2, <1>3

\* Rebinding a run takes its open work along, whatever context that had before.
LEMMA ReboundFollows ==
  ASSUME QueueInv, NEW r \in Runs, NEW n \in Notices
  PROVE  LET i == item[r][n]
             j == Rebound(r)[n] IN
         /\ Proper(j)
         /\ i.status \in {"completed", "absent"} => j = i
         /\ j.status \in OpenStatuses => i.status \in OpenStatuses
         /\ Covered(r, n) => Backed(j, n, drafts)
<1> DEFINE i == item[r][n]
           j == Rebound(r)[n]
<1>1. i \in Items /\ Proper(i) /\ active \in Contexts
  BY DEF QueueInv, TypeOK, AllProper
<1>2. CASE run[r].ctx # active /\ i.status = "claimed"
  <2> DEFINE x == Released(i, "retry")
             k == [x EXCEPT !.ctx = active, !.basis = NoBasis]
  <2>1. j = k
    BY <1>2 DEF Rebound
  <2>2. x \in Items /\ x.status = "retry" /\ x.token = NoToken /\ x.left = 0
        /\ x.hash = i.hash
    BY <1>1, ReleasedItem, ReleasedFields DEF ItemStatuses, OpenStatuses
  <2> HIDE DEF x
  <2>3. k \in Items /\ k.status = "retry" /\ k.token = NoToken /\ k.left = 0
        /\ k.hash = i.hash /\ k.ctx = active
    BY <1>1, <2>2 DEF Items
  <2> HIDE DEF k
  <2>4. Proper(k)
    BY <2>3, IdleSound DEF Proper
  <2>5. Covered(r, n) => Backed(k, n, drafts)
    BY <2>3 DEF Covered, Backed, OpenStatuses
  <2> QED
    BY <1>2, <2>1, <2>3, <2>4, <2>5 DEF OpenStatuses
<1>3. CASE run[r].ctx # active /\ i.status \in {"pending", "retry"}
  <2> DEFINE k == [i EXCEPT !.ctx = active]
  <2>1. j = k
    BY <1>3 DEF Rebound
  <2>2. k \in Items /\ k.status = i.status /\ k.token = i.token /\ k.left = i.left
        /\ k.hash = i.hash /\ k.ctx = active
    BY <1>1 DEF Items
  <2> HIDE DEF k
  <2>3. k.token = NoToken /\ k.left = 0
    BY <1>1, <1>3, <2>2 DEF Proper, Sound, Items
  <2>4. Proper(k)
    BY <1>3, <2>2, <2>3, IdleSound DEF Proper
  <2>5. Covered(r, n) => Backed(k, n, drafts)
    BY <1>3, <2>2 DEF Covered, Backed, OpenStatuses
  <2> QED
    BY <1>3, <2>1, <2>2, <2>4, <2>5 DEF OpenStatuses
<1>4. CASE run[r].ctx = active \/ i.status \notin OpenStatuses
  <2>1. j = i
    BY <1>4 DEF Rebound, OpenStatuses
  <2>2. Covered(r, n) => Backed(i, n, drafts)
    BY <1>4 DEF Covered, Backed
  <2> QED
    BY <1>1, <2>1, <2>2
<1> QED
  BY <1>2, <1>3, <1>4 DEF OpenStatuses

----------------------------------------------------------------------------
\* A step of the engine beside a repair

\* Run q is finished and holds no open work.
Done(q) == run[q].status \in FinishedStatuses /\ Open(item[q]) = {}

\* Notice n is taken care of by item i of a run bound to ctx.
Cares(i, ctx, n, D) ==
  Backed(i, n, D) \/ (i.status \in OpenStatuses /\ i.hash = content[n] /\ i.ctx = ctx)

\* What every step does for run q and its items: a completed item stays; a run is active
\* until it is done, and then stays done; and, while run, content and context stay, a
\* notice that is covered stays covered, and one that has no item comes to be covered
\* if it is given one.
KeepsItems(q) ==
  \A n \in Notices : item[q][n].status = "completed" => item'[q][n] = item[q][n]

KeepsEnd(q) ==
  /\ run[q].status \in ActiveStatuses => run'[q].status \in ActiveStatuses \/ Done(q)'
  /\ Done(q) => Done(q)'

KeepsCover(q) ==
  content' = content /\ active' = active
    /\ run[q].status \in ActiveStatuses /\ run'[q].status \in ActiveStatuses
  => \A n \in Notices :
       /\ Covered(q, n) => Covered(q, n)'
       /\ item[q][n].status = "absent" => item'[q][n].status = "absent" \/ Covered(q, n)'

\* The engine's step as a whole.
EngineStep ==
  /\ run' \in [Runs -> RunRows] /\ item' \in [Runs -> [Notices -> Items]] /\ AllProper'
  /\ \A q \in Runs : KeepsItems(q) /\ KeepsEnd(q) /\ KeepsCover(q)

\* A covered notice is cared for, and the other way round.
LEMMA CoveredCares ==
  ASSUME NEW r \in Runs, NEW n \in Notices
  PROVE  Covered(r, n) <=> Cares(item[r][n], run[r].ctx, n, drafts)
  BY DEF Covered, Cares, Backed, ExactCompact

\* When completed items stay, care in the new item is cover in the new state.
LEMMA CaresCovers ==
  ASSUME content' = content, active' = active, drafts \subseteq drafts',
         \A q \in Runs : KeepsItems(q), NEW r \in Runs, NEW n \in Notices,
         Cares(item'[r][n], run'[r].ctx, n, drafts')
  PROVE  Covered(r, n)'
<1> DEFINE j == item'[r][n]
<1>1. CASE /\ j.status \in OpenStatuses /\ j.hash = content[n]
           /\ j.ctx = active \/ j.ctx = run'[r].ctx
  BY <1>1 DEF Covered
<1>2. CASE /\ j.status = "completed" /\ j.result # NoResult
           /\ j.hash = content[n] /\ j.ctx = active
  BY <1>2 DEF Covered, ExactCompact
<1>3. CASE ExactDraft(n, active, content[n]) \in drafts'
  BY <1>3 DEF Covered, ExactDraft
<1>4. CASE ExactCompact(n, active, content[n])
  <2>1. PICK q \in Runs : LET i == item[q][n] IN
               /\ i.status = "completed" /\ i.result # NoResult
               /\ i.hash = content[n] /\ i.ctx = active
    BY <1>4 DEF ExactCompact
  <2>2. item'[q][n] = item[q][n]
    BY <2>1 DEF KeepsItems
  <2> QED
    BY <2>1, <2>2 DEF Covered, ExactCompact
<1> QED
  BY <1>1, <1>2, <1>3, <1>4 DEF Cares, Backed

\* A run that is not touched keeps what it has.
LEMMA Untouched ==
  ASSUME drafts \subseteq drafts', \A q \in Runs : KeepsItems(q),
         NEW r \in Runs, run'[r] = run[r], item'[r] = item[r]
  PROVE  KeepsEnd(r) /\ KeepsCover(r)
<1>1. Open(item[r])' = Open(item'[r]) /\ Done(r) => Done(r)'
  BY DEF Done, Open
<1>2. KeepsEnd(r)
  BY <1>1 DEF KeepsEnd
<1>3. ASSUME content' = content, active' = active, NEW n \in Notices, Covered(r, n)
      PROVE  Covered(r, n)'
  <2>1. Cares(item[r][n], run[r].ctx, n, drafts)
    BY <1>3, CoveredCares
  <2>2. Cares(item'[r][n], run'[r].ctx, n, drafts')
    BY <2>1 DEF Cares, Backed
  <2> QED
    BY <1>3, <2>2, CaresCovers
<1> QED
  BY <1>2, <1>3 DEF KeepsCover

\* A request that writes the row and the items of one run.
LEMMA TouchesOne ==
  ASSUME QueueInv, NEW r \in Runs, NEW row \in RunRows,
         NEW its \in [Notices -> Items],
         run' = [run EXCEPT ![r] = row], item' = [item EXCEPT ![r] = its],
         drafts \subseteq drafts', content' = content, active' = active,
         \A n \in Notices : Proper(its[n]),
         \A n \in Notices : item[r][n].status = "completed" => its[n] = item[r][n],
         run[r].status \in ActiveStatuses
           => row.status \in ActiveStatuses
                \/ (row.status \in FinishedStatuses /\ Open(its) = {}),
         Done(r) => row.status \in FinishedStatuses /\ Open(its) = {},
         run[r].status \in ActiveStatuses /\ row.status \in ActiveStatuses
           => \A n \in Notices :
                /\ Covered(r, n) => Cares(its[n], row.ctx, n, drafts')
                /\ item[r][n].status = "absent"
                     => its[n].status = "absent" \/ Cares(its[n], row.ctx, n, drafts')
  PROVE  EngineStep
<1>1. /\ run'[r] = row /\ item'[r] = its
      /\ \A q \in Runs \ {r} : run'[q] = run[q] /\ item'[q] = item[q]
  BY DEF QueueInv, TypeOK
<1>2. run' \in [Runs -> RunRows] /\ item' \in [Runs -> [Notices -> Items]]
  BY DEF QueueInv, TypeOK
<1>3. AllProper'
  BY <1>1 DEF QueueInv, AllProper
<1>4. \A q \in Runs : KeepsItems(q)
  BY <1>1 DEF KeepsItems
<1>5. \A q \in Runs \ {r} : KeepsEnd(q) /\ KeepsCover(q)
  BY <1>1, <1>4, Untouched
<1>6. KeepsEnd(r)
  BY <1>1 DEF KeepsEnd, Done, Open
<1>7. KeepsCover(r)
  <2>1. ASSUME NEW n \in Notices, Cares(its[n], row.ctx, n, drafts')
        PROVE  Covered(r, n)'
    BY <1>1, <1>4, <2>1, CaresCovers
  <2> QED
    BY <1>1, <2>1 DEF KeepsCover
<1> QED
  BY <1>2, <1>3, <1>4, <1>5, <1>6, <1>7 DEF EngineStep

\* What becomes of item n of run r in a request that rebinds the run.
Tends(r, n, j, D) ==
  /\ Proper(j)
  /\ item[r][n].status \in {"completed", "absent"} => j = item[r][n]
  /\ j.status \in OpenStatuses => item[r][n].status \in OpenStatuses
  /\ Covered(r, n) => Backed(j, n, D)

\* A rebinding, and then a transformation.
LEMMA TendsOn ==
  ASSUME NEW r, NEW n, NEW j, NEW k, NEW D,
         Tends(r, n, j, D), Proper(k), Follows(j, k, n, D)
  PROVE  Tends(r, n, k, D)
  BY DEF Tends, Follows

\* The rebinding alone.
LEMMA ReboundTends ==
  ASSUME QueueInv, NEW r \in Runs, NEW n \in Notices, NEW D, drafts \subseteq D
  PROVE  Tends(r, n, Rebound(r)[n], D)
<1>1. Backed(Rebound(r)[n], n, drafts) => Backed(Rebound(r)[n], n, D)
  BY DEF Backed
<1> QED
  BY <1>1, ReboundFollows DEF Tends

\* All that comes before a reservation: rebinding, expiry, reconciliation.
LEMMA PreparedTends ==
  ASSUME QueueInv, NEW r \in Runs, NEW due \in BOOLEAN, NEW n \in Notices, NEW D,
         drafts \subseteq D
  PROVE  Tends(r, n, Prepared(r, due)[n], D)
<1> DEFINE a == Rebound(r)
           b == Expired(a)
           c == Reconciled(r, b)
<1>1. Tends(r, n, a[n], D)
  BY ReboundTends
<1> HIDE DEF a
<1>2. Tends(r, n, b[n], D)
  BY <1>1, ExpiredFollows, TendsOn DEF Tends
<1> HIDE DEF b
<1>3. Tends(r, n, c[n], D)
  BY <1>2, ReconciledFollows, TendsOn DEF Tends
<1> QED
  BY <1>2, <1>3 DEF Prepared, a, b, c

\* When every item of the run tends to what is committed, no item is open that was not,
\* and a run that is done stays so.
LEMMA TendsDone ==
  ASSUME NEW r \in Runs, NEW its, NEW D, \A n \in Notices : Tends(r, n, its[n], D),
         Open(item[r]) = {}
  PROVE  Open(its) = {}
  BY DEF Tends, Open

\* A commit in which every item tends to what is written.
LEMMA CommitTends ==
  ASSUME QueueInv, NEW r \in Runs, NEW status \in RunStatuses, NEW its,
         its = [n \in Notices |-> its[n]], Commit(r, status, its),
         drafts \subseteq drafts', content' = content, active' = active,
         \A n \in Notices : Tends(r, n, its[n], drafts'),
         run[r].status \in ActiveStatuses
           => status \in ActiveStatuses
                \/ (status \in FinishedStatuses /\ Open(its) = {}),
         run[r].status \in FinishedStatuses /\ Open(its) = {}
           => status \in FinishedStatuses
  PROVE  EngineStep
<1> DEFINE row == [run[r] EXCEPT !.status = status, !.ctx = active]
<1>1. /\ row \in RunRows /\ row.status = status
      /\ run' = [run EXCEPT ![r] = row] /\ item' = [item EXCEPT ![r] = its]
  BY DEF Commit, QueueInv, TypeOK, RunRows
<1> HIDE DEF row
<1>2. Done(r) => row.status \in FinishedStatuses /\ Open(its) = {}
  BY <1>1, TendsDone DEF Done
<1>3. /\ \A n \in Notices : Proper(its[n])
      /\ \A n \in Notices : item[r][n].status = "completed" => its[n] = item[r][n]
  BY DEF Tends
<1>4. \A n \in Notices :
        /\ Covered(r, n) => Cares(its[n], row.ctx, n, drafts')
        /\ item[r][n].status = "absent"
             => its[n].status = "absent" \/ Cares(its[n], row.ctx, n, drafts')
  BY DEF Tends, Cares
<1>5. its \in [Notices -> Items]
  BY <1>3 DEF Proper, Sound
<1>6. run[r].status \in ActiveStatuses
        => row.status \in ActiveStatuses
             \/ (row.status \in FinishedStatuses /\ Open(its) = {})
  BY <1>1
<1>7. row \in RunRows /\ run' = [run EXCEPT ![r] = row] /\ item' = [item EXCEPT ![r] = its]
  BY <1>1
<1> HIDE DEF row
<1> QED
  BY ONLY <1>7, <1>2, <1>3, <1>4, <1>5, <1>6, TouchesOne, QueueInv, r \in Runs,
     drafts \subseteq drafts', content' = content, active' = active

----------------------------------------------------------------------------
\* The actions of the engine

\* A run that is created had no row, and comes without items.
LEMMA CreateEngine ==
  ASSUME QueueInv, NEW r \in Runs, NEW scope \in Scopes, NEW again \in BOOLEAN,
         Create(r, scope, again)
  PROVE  EngineStep
<1> DEFINE row == [status |-> "pending", ctx |-> active, scope |-> scope,
                   include_previously_analyzed |-> again]
<1>1. row \in RunRows /\ run[r].status \notin ActiveStatuses \cup FinishedStatuses
  BY DEF Create, QueueInv, TypeOK, RunRows, RunStatuses, ActiveStatuses, FinishedStatuses
<1>2. run' = [run EXCEPT ![r] = row]
  BY DEF Create
<1> HIDE DEF row
<1>3. /\ item[r] \in [Notices -> Items]
      /\ item' = [item EXCEPT ![r] = item[r]]
      /\ drafts' = drafts /\ content' = content /\ active' = active
  BY DEF Create, QueueInv, TypeOK
<1>4. \A n \in Notices : Proper(item[r][n])
  BY DEF QueueInv, AllProper
<1> QED
  BY <1>1, <1>2, <1>3, <1>4, TouchesOne DEF Done

\* Pause and Resume: another active status.
LEMMA PauseEngine ==
  ASSUME QueueInv, NEW r \in Runs, Pause(r) \/ Resume(r)
  PROVE  EngineStep
<1>1. PICK status \in ActiveStatuses : run' = [run EXCEPT ![r].status = status]
  BY DEF Pause, Resume, ActiveStatuses
<1> DEFINE row == [run[r] EXCEPT !.status = status]
<1>2. /\ row \in RunRows /\ row.status = status /\ row.ctx = run[r].ctx
      /\ run' = [run EXCEPT ![r] = row]
      /\ run[r].status \in ActiveStatuses
  BY <1>1 DEF Pause, Resume, QueueInv, TypeOK, RunRows, RunStatuses, ActiveStatuses
<1> HIDE DEF row
<1>3. /\ item[r] \in [Notices -> Items]
      /\ item' = [item EXCEPT ![r] = item[r]]
      /\ drafts' = drafts /\ content' = content /\ active' = active
  BY DEF Pause, Resume, QueueInv, TypeOK
<1>4. \A n \in Notices : Proper(item[r][n])
  BY DEF QueueInv, AllProper
<1>5. \A n \in Notices : Covered(r, n) => Cares(item[r][n], row.ctx, n, drafts')
  BY <1>2, <1>3, CoveredCares
<1>6. ~Done(r)
  BY <1>2 DEF Done, ActiveStatuses, FinishedStatuses
<1> QED
  BY <1>2, <1>3, <1>4, <1>5, <1>6, TouchesOne

\* A cancellation leaves no open work.
LEMMA CancelEngine ==
  ASSUME QueueInv, NEW r \in Runs, Cancel(r)
  PROVE  EngineStep
<1> DEFINE its == [n \in Notices |-> IF item[r][n].status \in OpenStatuses
                     THEN Released(item[r][n], "cancelled") ELSE item[r][n]]
           row == [run[r] EXCEPT !.status = "cancelled"]
<1>1. ASSUME NEW n \in Notices
      PROVE  /\ Proper(its[n]) /\ its[n].status \notin OpenStatuses
             /\ item[r][n].status = "completed" => its[n] = item[r][n]
  <2>1. item[r][n] \in Items /\ Proper(item[r][n])
    BY DEF QueueInv, TypeOK, AllProper
  <2>2. CASE item[r][n].status \in OpenStatuses
    <3>1. /\ its[n] = Released(item[r][n], "cancelled")
          /\ Sound(its[n], 1) /\ its[n].status = "cancelled"
      BY <2>1, <2>2, ReleasedSound, ReleasedFields DEF ItemStatuses, OpenStatuses
    <3> QED
      BY <2>2, <3>1, ProperFrom DEF OpenStatuses
  <2>3. CASE item[r][n].status \notin OpenStatuses
    BY <2>1, <2>3
  <2> QED
    BY <2>2, <2>3
<1>2. /\ row \in RunRows /\ row.status = "cancelled"
      /\ run' = [run EXCEPT ![r] = row] /\ item' = [item EXCEPT ![r] = its]
      /\ drafts' = drafts /\ content' = content /\ active' = active
  BY DEF Cancel, QueueInv, TypeOK, RunRows, RunStatuses, FinishedStatuses
<1>3. its \in [Notices -> Items] /\ Open(its) = {}
  BY <1>1 DEF Open, Proper, Sound
<1> HIDE DEF its, row
<1>4. "cancelled" \in FinishedStatuses /\ "cancelled" \notin ActiveStatuses
  BY DEF FinishedStatuses, ActiveStatuses
<1>5. /\ row.status \notin ActiveStatuses
      /\ row.status \in FinishedStatuses /\ Open(its) = {}
  BY <1>2, <1>3, <1>4
<1>6. /\ \A n \in Notices : Proper(its[n])
      /\ \A n \in Notices : item[r][n].status = "completed" => its[n] = item[r][n]
      /\ drafts \subseteq drafts'
  BY <1>1, <1>2
<1> QED
  BY <1>2, <1>3, <1>5, <1>6, TouchesOne

\* What a scan queues is missing and about the content of now.
LEMMA InitializeEngine ==
  ASSUME QueueInv, NEW r \in Runs, Initialize(r)
  PROVE  EngineStep
<1> DEFINE its == Queued(r, item[r], Notices, run[r].ctx)
           status == IF \E n \in Notices : its[n].status # "absent"
                       THEN "running" ELSE "no_changes"
           row == [run[r] EXCEPT !.status = status]
<1>1. run[r].ctx \in Contexts
  BY DEF QueueInv, TypeOK, RunRows
<1>2. ASSUME NEW n \in Notices
      PROVE  /\ Proper(its[n])
             /\ \/ its[n] = item[r][n]
                \/ /\ item[r][n].status = "absent" /\ its[n].status = "pending"
                   /\ its[n].hash = content[n] /\ its[n].ctx = run[r].ctx
  <2>1. Proper(item[r][n])
    BY DEF QueueInv, AllProper
  <2> QED
    BY <1>1, <2>1, QueuedJoins DEF QueueInv
<1>3. its \in [Notices -> Items]
  <2>1. its = [n \in Notices |-> its[n]]
    BY DEF Queued
  <2> HIDE DEF its
  <2> QED
    BY <1>2, <2>1 DEF Proper, Sound
<1>4. /\ status \in ActiveStatuses \/ (status \in FinishedStatuses /\ Open(its) = {})
      /\ status \in RunStatuses
  BY DEF ActiveStatuses, FinishedStatuses, RunStatuses, Open, OpenStatuses
<1>5. /\ run' = [run EXCEPT ![r].status = status] /\ item' = [item EXCEPT ![r] = its]
      /\ drafts' = drafts /\ content' = content /\ active' = active
      /\ run[r].status = "pending"
  BY DEF Initialize
<1> HIDE DEF status, its
<1>6. /\ row \in RunRows /\ row.status = status /\ row.ctx = run[r].ctx
      /\ run' = [run EXCEPT ![r] = row]
  BY <1>4, <1>5 DEF QueueInv, TypeOK, RunRows
<1> HIDE DEF row
<1>7. ASSUME NEW n \in Notices
      PROVE  /\ Covered(r, n) => Cares(its[n], row.ctx, n, drafts')
             /\ item[r][n].status = "absent"
                  => its[n].status = "absent" \/ Cares(its[n], row.ctx, n, drafts')
  <2>1. CASE its[n] = item[r][n]
    BY <1>5, <1>6, <2>1, CoveredCares
  <2>2. CASE /\ item[r][n].status = "absent" /\ its[n].status = "pending"
             /\ its[n].hash = content[n] /\ its[n].ctx = run[r].ctx
    BY <1>6, <2>2 DEF Cares, OpenStatuses
  <2> QED
    BY <1>2, <2>1, <2>2
<1>8. ~Done(r) /\ drafts \subseteq drafts'
  BY <1>5 DEF Done, FinishedStatuses
<1>9. /\ \A n \in Notices : Proper(its[n])
      /\ \A n \in Notices : item[r][n].status = "completed" => its[n] = item[r][n]
  BY <1>2
<1>10. \A n \in Notices :
         /\ Covered(r, n) => Cares(its[n], row.ctx, n, drafts')
         /\ item[r][n].status = "absent"
              => its[n].status = "absent" \/ Cares(its[n], row.ctx, n, drafts')
  BY <1>7
<1>11. row.status \in ActiveStatuses \/ (row.status \in FinishedStatuses /\ Open(its) = {})
  BY <1>4, <1>6
<1>12. /\ row \in RunRows /\ run' = [run EXCEPT ![r] = row] /\ item' = [item EXCEPT ![r] = its]
       /\ content' = content /\ active' = active
  BY <1>5, <1>6
<1> QED
  BY ONLY <1>3, <1>8, <1>9, <1>10, <1>11, <1>12, TouchesOne, QueueInv, r \in Runs

\* Items that are admitted on top of a rebinding.
LEMMA AdmitEngine ==
  ASSUME QueueInv, NEW r \in Runs, NEW recent \in SUBSET Notices, Admit(r, recent)
  PROVE  EngineStep
<1> DEFINE a == Rebound(r)
           its == Queued(r, a, recent, active)
<1>1. /\ run[r].status \in RunStatuses /\ run[r].status # "absent"
      /\ drafts' = drafts /\ content' = content /\ active' = active /\ active \in Contexts
  BY DEF Admit, Exists, QueueInv, TypeOK, RunRows
<1>2. \A n \in Notices : Tends(r, n, a[n], drafts')
  BY <1>1, ReboundTends
<1>3. a = [n \in Notices |-> a[n]]
  BY DEF Rebound
<1>4. CASE run[r].status \in FinishedStatuses \cup {"paused"}
  <2>1. Commit(r, run[r].status, a)
    BY <1>4 DEF Admit
  <2> HIDE DEF a
  <2> QED
    BY <1>1, <1>2, <1>3, <2>1, CommitTends DEF ActiveStatuses
<1>5. CASE run[r].status \notin FinishedStatuses \cup {"paused"}
  <2> DEFINE row == [run[r] EXCEPT !.status = run[r].status, !.ctx = active]
  <2>1. Commit(r, run[r].status, its)
    BY <1>5 DEF Admit
  <2>2. /\ row \in RunRows /\ row.status = run[r].status /\ row.ctx = active
        /\ run' = [run EXCEPT ![r] = row] /\ item' = [item EXCEPT ![r] = its]
    BY <1>1, <2>1 DEF Commit, QueueInv, TypeOK, RunRows
  <2> HIDE DEF row, a
  <2>3. ASSUME NEW n \in Notices
        PROVE  /\ Proper(its[n])
               /\ \/ its[n] = a[n]
                  \/ /\ a[n].status = "absent" /\ its[n].status = "pending"
                     /\ its[n].hash = content[n] /\ its[n].ctx = active
    BY <1>1, <1>2, QueuedJoins DEF QueueInv, Tends
  <2>4. its \in [Notices -> Items]
    <3>1. its = [n \in Notices |-> its[n]]
      BY DEF Queued
    <3> HIDE DEF its
    <3> QED
      BY <2>3, <3>1 DEF Proper, Sound
  <2> HIDE DEF its
  <2>5. ASSUME NEW n \in Notices
        PROVE  /\ item[r][n].status = "completed" => its[n] = item[r][n]
               /\ Covered(r, n) => Cares(its[n], row.ctx, n, drafts')
               /\ item[r][n].status = "absent"
                    => its[n].status = "absent" \/ Cares(its[n], row.ctx, n, drafts')
    <3>1. Tends(r, n, a[n], drafts')
      BY <1>2
    <3>2. CASE its[n] = a[n]
      BY <3>1, <3>2 DEF Tends, Cares
    <3>3. CASE /\ a[n].status = "absent" /\ its[n].status = "pending"
               /\ its[n].hash = content[n] /\ its[n].ctx = active
      BY <2>2, <3>1, <3>3 DEF Tends, Cares, OpenStatuses
    <3> QED
      BY <2>3, <3>2, <3>3
  <2>6. /\ run[r].status \in ActiveStatuses /\ ~Done(r)
        /\ drafts \subseteq drafts'
    BY <1>1, <1>5 DEF Done, RunStatuses
  <2>7. /\ \A n \in Notices : Proper(its[n])
        /\ \A n \in Notices : item[r][n].status = "completed" => its[n] = item[r][n]
    BY <2>3, <2>5
  <2>8. \A n \in Notices :
          /\ Covered(r, n) => Cares(its[n], row.ctx, n, drafts')
          /\ item[r][n].status = "absent"
               => its[n].status = "absent" \/ Cares(its[n], row.ctx, n, drafts')
    BY <2>5
  <2> QED
    BY ONLY <1>1, <2>2, <2>4, <2>6, <2>7, <2>8, TouchesOne, QueueInv, r \in Runs
<1> QED
  BY <1>4, <1>5

\* The status a claim gives its run.
LEMMA PreparedGoes ==
  ASSUME QueueInv, NEW r \in Runs, NEW due \in BOOLEAN, Claimable(r)
  PROVE  /\ run[r].status \in ActiveStatuses /\ run[r].status \notin FinishedStatuses
         /\ PreparedStatus(r, due) \in RunStatuses
         /\ \/ PreparedStatus(r, due) \in ActiveStatuses
            \/ PreparedStatus(r, due) \in FinishedStatuses /\ Open(Prepared(r, due)) = {}
<1>1. run[r].status \in ActiveStatuses /\ run[r].status \notin FinishedStatuses
  BY DEF Claimable, ActiveStatuses, FinishedStatuses
<1> QED
  BY <1>1 DEF PreparedStatus, Finalized, RunStatuses, ActiveStatuses, FinishedStatuses

\* A slice given out once more.
LEMMA ClaimHeldSliceEngine ==
  ASSUME QueueInv, NEW r \in Runs, NEW w \in Workers, NEW due \in BOOLEAN,
         ClaimHeldSlice(r, w, due)
  PROVE  EngineStep /\ tickets' \in SUBSET Tickets /\ TicketsBearTokens'
<1> DEFINE its == Prepared(r, due)
           status == PreparedStatus(r, due)
<1>1. PICK slice \in AtMost(HeldBy(its, w), SliceSize) :
        Commit(r, status, Captured(its, slice)) /\ Respond(r, its, slice)
  BY DEF ClaimHeldSlice
<1> DEFINE end == Captured(its, slice)
<1>2. slice \subseteq Notices /\ \A n \in slice : its[n].status = "claimed"
  BY DEF AtMost, HeldBy
<1>3. /\ drafts' = drafts /\ content' = content /\ active' = active
      /\ status \notin FinishedStatuses /\ Claimable(r)
  BY DEF ClaimHeldSlice
<1>4. \A n \in Notices : Tends(r, n, its[n], drafts')
  BY <1>3, PreparedTends
<1>5. /\ run[r].status \in ActiveStatuses /\ run[r].status \notin FinishedStatuses
      /\ status \in RunStatuses /\ status \in ActiveStatuses
  BY <1>3, PreparedGoes
<1>6. end = [n \in Notices |-> end[n]]
  BY DEF Captured
<1> HIDE DEF its, status
<1>7. \A n \in Notices : Tends(r, n, end[n], drafts')
  BY <1>2, <1>4, CapturedFollows, TendsOn DEF Tends, QueueInv
<1>8. Commit(r, status, end)
  BY <1>1
<1> HIDE DEF end
<1>9. EngineStep
  BY <1>3, <1>5, <1>6, <1>7, <1>8, CommitTends
<1>10. \A n \in slice : its[n] \in Items /\ its[n].token \in Tokens
  BY <1>2, <1>4 DEF Tends, Proper, Sound
<1> QED
  BY <1>1, <1>2, <1>9, <1>10, RespondSound DEF QueueInv

\* A new reservation; its response bears a token.
LEMMA ClaimNewReservationEngine ==
  ASSUME QueueInv, NEW r \in Runs, NEW w \in Workers, NEW limit \in 1 .. ClaimLimit,
         NEW lease \in 1 .. LeaseTicks, NEW due \in BOOLEAN,
         ClaimNewReservation(r, w, limit, lease, due)
  PROVE  EngineStep /\ tickets' \in SUBSET Tickets /\ TicketsBearTokens'
<1> DEFINE its == Prepared(r, due)
           free == {n \in Notices : its[n].status \in {"pending", "retry"}}
           size == Window(its, limit)
<1>a. PICK S \in AtMost(free, size) :
        \E token \in [S -> Tokens] : \E slice \in AtMost(S, SliceSize) :
          /\ Commit(r, "waiting_for_results",
                    Captured(Reserved(its, S, w, token, lease), slice))
          /\ Respond(r, Reserved(its, S, w, token, lease), slice)
  BY DEF ClaimNewReservation
<1>b. PICK token \in [S -> Tokens] :
        \E slice \in AtMost(S, SliceSize) :
          /\ Commit(r, "waiting_for_results",
                    Captured(Reserved(its, S, w, token, lease), slice))
          /\ Respond(r, Reserved(its, S, w, token, lease), slice)
  BY <1>a
<1>c. PICK slice \in AtMost(S, SliceSize) :
        /\ Commit(r, "waiting_for_results",
                  Captured(Reserved(its, S, w, token, lease), slice))
        /\ Respond(r, Reserved(its, S, w, token, lease), slice)
  BY <1>b
<1> DEFINE held == Reserved(its, S, w, token, lease)
           end == Captured(held, slice)
<1>1. S \in SUBSET free /\ slice \in SUBSET S
  BY DEF AtMost
<1>2. /\ drafts' = drafts /\ content' = content /\ active' = active /\ Claimable(r)
  BY DEF ClaimNewReservation
<1>3. \A n \in Notices : Tends(r, n, its[n], drafts')
  BY <1>2, PreparedTends
<1>4. run[r].status \in ActiveStatuses /\ run[r].status \notin FinishedStatuses
  BY <1>2, PreparedGoes
<1>5. "waiting_for_results" \in RunStatuses /\ "waiting_for_results" \in ActiveStatuses
  BY DEF RunStatuses, ActiveStatuses
<1>6. end = [n \in Notices |-> end[n]]
  BY DEF Captured
<1>7. ASSUME NEW n \in Notices
      PROVE  /\ Tends(r, n, held[n], drafts')
             /\ n \in slice => held[n].status = "claimed"
  <2>1. Tends(r, n, its[n], drafts') /\ its[n] \in Items
    BY <1>3 DEF Tends, Proper, Sound
  <2> HIDE DEF its
  <2>2. Proper(held[n]) /\ Follows(its[n], held[n], n, drafts')
    BY <1>1, <2>1, ReservedFollows DEF Tends
  <2>3. n \in slice => held[n].status = "claimed"
    BY <1>1, <2>1 DEF Reserved, Items
  <2> HIDE DEF held
  <2> QED
    BY <2>1, <2>2, <2>3, TendsOn
<1>8. Commit(r, "waiting_for_results", end) /\ Respond(r, held, slice)
  BY <1>c
<1> HIDE DEF held
<1>9. \A n \in Notices : Tends(r, n, end[n], drafts')
  BY <1>7, CapturedFollows, TendsOn DEF Tends, QueueInv
<1> HIDE DEF end
<1>10. EngineStep
  BY <1>2, <1>4, <1>5, <1>6, <1>8, <1>9, CommitTends
<1>11. slice \in SUBSET Notices /\ \A n \in slice : held[n] \in Items /\ held[n].token \in Tokens
  BY <1>1, <1>7 DEF Tends, Proper, Sound
<1> QED
  BY <1>8, <1>10, <1>11, RespondSound DEF QueueInv

\* A claim that gives nothing out still rebinds, expires and reconciles.
LEMMA ClaimNothingEngine ==
  ASSUME QueueInv, NEW r \in Runs, NEW w \in Workers, NEW due \in BOOLEAN,
         ClaimNothing(r, w, due)
  PROVE  EngineStep
<1> DEFINE its == Prepared(r, due)
           status == PreparedStatus(r, due)
<1>1. /\ drafts' = drafts /\ content' = content /\ active' = active
      /\ Claimable(r) /\ Commit(r, status, its)
  BY DEF ClaimNothing
<1>2. \A n \in Notices : Tends(r, n, its[n], drafts')
  BY <1>1, PreparedTends
<1>3. /\ run[r].status \in ActiveStatuses /\ run[r].status \notin FinishedStatuses
      /\ status \in RunStatuses
      /\ status \in ActiveStatuses \/ (status \in FinishedStatuses /\ Open(its) = {})
  BY <1>1, PreparedGoes
<1>4. its = [n \in Notices |-> its[n]]
  BY DEF Prepared, Expired, Reconciled
<1> HIDE DEF its, status
<1> QED
  BY <1>1, <1>2, <1>3, <1>4, CommitTends

\* A rebinding without a claim.
LEMMA RebindOnlyEngine ==
  ASSUME QueueInv, NEW r \in Runs, RebindOnly(r)
  PROVE  EngineStep
<1> DEFINE its == Rebound(r)
<1>1. /\ drafts' = drafts /\ content' = content /\ active' = active
      /\ run[r].status \in RunStatuses /\ run[r].status # "absent"
      /\ Commit(r, run[r].status, its)
  BY DEF RebindOnly, Exists, QueueInv, TypeOK, RunRows
<1>2. \A n \in Notices : Tends(r, n, its[n], drafts')
  BY <1>1, ReboundTends
<1>3. its = [n \in Notices |-> its[n]]
  BY DEF Rebound
<1> HIDE DEF its
<1> QED
  BY <1>1, <1>2, <1>3, CommitTends

\* A renewal of the leases of a worker.
LEMMA RenewEngine ==
  ASSUME QueueInv, NEW r \in Runs, NEW w \in Workers, NEW lease \in 1 .. LeaseTicks,
         Renew(r, w, lease)
  PROVE  EngineStep
<1> DEFINE a == Rebound(r)
           its == Renewed(a, {w}, lease)
<1>1. /\ drafts' = drafts /\ content' = content /\ active' = active
      /\ run[r].status \in RunStatuses /\ run[r].status # "absent"
      /\ Commit(r, run[r].status, its)
  BY DEF Renew, Exists, QueueInv, TypeOK, RunRows
<1>2. \A n \in Notices : Tends(r, n, a[n], drafts')
  BY <1>1, ReboundTends
<1> HIDE DEF a
<1>3. ASSUME NEW n \in Notices
      PROVE  Tends(r, n, its[n], drafts')
  <2>1. Tends(r, n, a[n], drafts') /\ Proper(a[n])
    BY <1>2 DEF Tends
  <2>2. Proper(its[n]) /\ Follows(a[n], its[n], n, drafts')
    BY <2>1, RenewedFollows
  <2> HIDE DEF its
  <2> QED
    BY <2>1, <2>2, TendsOn
<1>4. its = [n \in Notices |-> its[n]]
  BY DEF Renewed
<1> HIDE DEF its
<1> QED
  BY <1>1, <1>3, <1>4, CommitTends

\* An import: what it judges, what it queues anew, and the run it may finish.
LEMMA ImportEngine ==
  ASSUME QueueInv, NEW r \in Runs, NEW B \in SUBSET TicketsOf(r), NEW material \in SUBSET B,
         Import(r, B, material)
  PROVE  EngineStep /\ drafts' \in SUBSET DraftKeys
<1> DEFINE a == Rebound(r)
           judged == JudgedItems(a, B, material)
           ws == Renewers(a, B)
           status == Finalized(run[r].status, judged)
           its == Renewed(judged, ws, LeaseTicks)
<1>1. /\ B \in SUBSET tickets /\ material \in SUBSET tickets
      /\ Commit(r, status, its) /\ drafts' = drafts \cup Drafted(a, material)
      /\ content' = content /\ active' = active
      /\ LeaseTicks \in 1 .. LeaseTicks /\ run[r].status \in RunStatuses
  BY SizesAssumption DEF Import, TicketsOf, QueueInv, TypeOK, RunRows
<1>2. \A n \in Notices : Tends(r, n, a[n], drafts')
  BY <1>1, ReboundTends
<1>3. a = [n \in Notices |-> a[n]]
  BY DEF Rebound
<1> HIDE DEF a, ws
<1>4. drafts' \in SUBSET DraftKeys
  <2>1. a \in [Notices -> Items]
    BY <1>2, <1>3 DEF Tends, Proper, Sound
  <2> QED
    BY <1>1, <2>1, DraftedTyped DEF QueueInv, TypeOK
<1>5. \A n \in Notices : Tends(r, n, judged[n], drafts')
  <2>1. ASSUME NEW n \in Notices
        PROVE  Tends(r, n, judged[n], drafts')
    <3>1. Tends(r, n, a[n], drafts') /\ Proper(a[n]) /\ drafts \subseteq drafts'
      BY <1>1, <1>2 DEF Tends
    <3> DEFINE D == drafts'
    <3>2. Tends(r, n, a[n], D) /\ drafts \subseteq D
      BY <3>1
    <3> HIDE DEF D
    <3>3. Proper(judged[n]) /\ Follows(a[n], judged[n], n, D)
      BY <1>1, <3>1, <3>2, JudgedFollows DEF QueueInv
    <3> HIDE DEF judged
    <3>4. Tends(r, n, judged[n], D)
      BY <3>2, <3>3, TendsOn
    <3> QED
      BY <3>4 DEF D
  <2> QED
    BY <2>1
<1> HIDE DEF judged
<1>6. ASSUME NEW n \in Notices
      PROVE  Tends(r, n, its[n], drafts') /\ its[n].status = judged[n].status
  <2>1. Tends(r, n, judged[n], drafts') /\ Proper(judged[n])
    BY <1>5 DEF Tends
  <2>2. /\ Proper(its[n]) /\ Follows(judged[n], its[n], n, drafts')
        /\ its[n].status = judged[n].status
    BY <1>1, <2>1, RenewedFollows
  <2> HIDE DEF its
  <2> QED
    BY <2>1, <2>2, TendsOn
<1>7. its = [n \in Notices |-> its[n]]
  BY DEF Renewed
<1> HIDE DEF its
<1>8. Open(its) = Open(judged)
  BY <1>6 DEF Open
<1>9. /\ status \in RunStatuses
      /\ status \in ActiveStatuses \/ (status \in FinishedStatuses /\ Open(its) = {})
      /\ Open(its) = {} => status \in FinishedStatuses
  BY <1>8 DEF Finalized, RunStatuses, ActiveStatuses, FinishedStatuses
<1>10. drafts \subseteq drafts'
  BY <1>1
<1> HIDE DEF status
<1>11. EngineStep
  BY <1>1, <1>6, <1>7, <1>9, <1>10, CommitTends
<1> QED
  BY <1>4, <1>11

\* Time passes over the items of every run.
LEMMA TickEngine ==
  ASSUME QueueInv, Tick
  PROVE  EngineStep
<1>1. /\ item' = [q \in Runs |-> [n \in Notices |-> Aged(item[q][n])]]
      /\ run' = run /\ drafts' = drafts /\ content' = content /\ active' = active
  BY DEF Tick
<1>2. ASSUME NEW q \in Runs, NEW n \in Notices
      PROVE  /\ Proper(item'[q][n]) /\ item'[q][n].status = item[q][n].status
             /\ item'[q][n].hash = item[q][n].hash /\ item'[q][n].ctx = item[q][n].ctx
             /\ item[q][n].status = "completed" => item'[q][n] = item[q][n]
  <2>1. item'[q][n] = Aged(item[q][n]) /\ Proper(item[q][n]) /\ item[q][n] \in Items
    BY <1>1 DEF QueueInv, TypeOK, AllProper
  <2>2. Proper(Aged(item[q][n]))
    BY <2>1, AgedFollows
  <2> QED
    BY <2>1, <2>2 DEF Aged, Items
<1>3. item' \in [Runs -> [Notices -> Items]]
  <2>1. \A q \in Runs : item'[q] \in [Notices -> Items]
    BY <1>1, <1>2 DEF Proper, Sound
  <2> QED
    BY <1>1, <2>1
<1>4. AllProper' /\ \A q \in Runs : KeepsItems(q)
  BY <1>2 DEF AllProper, KeepsItems
<1>5. ASSUME NEW q \in Runs
      PROVE  KeepsEnd(q)
  BY <1>1, <1>2 DEF KeepsEnd, Done, Open
<1>6. ASSUME NEW q \in Runs, NEW n \in Notices, Covered(q, n)
      PROVE  Covered(q, n)'
  <2>1. Cares(item[q][n], run[q].ctx, n, drafts)
    BY <1>6, CoveredCares
  <2>2. Cares(item'[q][n], run'[q].ctx, n, drafts')
    BY <1>1, <1>2, <2>1 DEF Cares, Backed, OpenStatuses
  <2> QED
    BY <1>1, <1>4, <2>2, CaresCovers
<1>7. run' \in [Runs -> RunRows]
  BY <1>1 DEF QueueInv, TypeOK
<1> QED
  BY <1>2, <1>3, <1>4, <1>5, <1>6, <1>7 DEF EngineStep, KeepsCover

\* A step that leaves the runs and their items as they are.
LEMMA QuietEngine ==
  ASSUME QueueInv, run' = run, item' = item, drafts' = drafts
  PROVE  EngineStep
<1>1. \A q \in Runs : KeepsItems(q)
  BY DEF KeepsItems
<1>2. \A q \in Runs : KeepsEnd(q) /\ KeepsCover(q)
  BY <1>1, Untouched
<1> QED
  BY <1>1, <1>2 DEF EngineStep, QueueInv, TypeOK, AllProper

\* Every step of the engine does.
LEMMA EveryEngineStep ==
  ASSUME QueueInv, [Next]_vars
  PROVE  EngineStep
<1>1. CASE UNCHANGED vars
  BY <1>1, QuietEngine DEF vars
<1>2. ASSUME NEW r \in Runs, Start(r)
      PROVE  EngineStep
  BY <1>2, CreateEngine DEF Start
<1>3. ASSUME NEW r \in Runs, Initialize(r)
      PROVE  EngineStep
  BY <1>3, InitializeEngine
<1>4. ASSUME NEW r \in Runs, Claim(r)
      PROVE  EngineStep
  BY <1>4, ClaimHeldSliceEngine, ClaimNewReservationEngine, ClaimNothingEngine DEF Claim
<1>5. ASSUME NEW r \in Runs, Operate(r)
      PROVE  EngineStep
  BY <1>4, <1>5, AdmitEngine, PauseEngine, CancelEngine, RebindOnlyEngine, RenewEngine,
     ImportEngine DEF Operate
<1>6. CASE Environment
  BY <1>6, TickEngine, QuietEngine
     DEF Environment, EditNotice, ToggleNotice, ActivateContext, ReviewDraft, Drop
<1> QED
  BY <1>1, <1>2, <1>3, <1>5, <1>6 DEF Next

\* The types of what is neither a run nor an item, and the order of the contexts.
Rest ==
  /\ content \in [Notices -> Contents] /\ visible \in SUBSET Notices /\ active \in Contexts
  /\ drafts \in SUBSET DraftKeys /\ returned \in SUBSET DraftKeys
  /\ tickets \in SUBSET Tickets /\ TicketsBearTokens

\* The contexts go forward.
LEMMA RestPreserved ==
  ASSUME QueueInv, [Next]_vars
  PROVE  Rest' /\ active <= active'
<1> USE DEF QueueInv, TypeOK, Rest
<1>0. active <= active
  BY SizesAssumption DEF Contexts
<1>1. CASE UNCHANGED vars
  BY <1>0, <1>1 DEF vars, TicketsBearTokens
<1>2. ASSUME NEW r \in Runs, Start(r) \/ Initialize(r)
      PROVE  Rest' /\ active <= active'
  BY <1>0, <1>2 DEF Start, Create, Initialize, TicketsBearTokens
<1>3. ASSUME NEW r \in Runs, Claim(r)
      PROVE  Rest' /\ active <= active'
  <2>1. ASSUME NEW w \in Workers, NEW due \in BOOLEAN, ClaimHeldSlice(r, w, due)
        PROVE  Rest' /\ active <= active'
    BY <1>0, <2>1, ClaimHeldSliceEngine DEF ClaimHeldSlice
  <2>2. ASSUME NEW w \in Workers, NEW due \in BOOLEAN, NEW limit \in 1 .. ClaimLimit,
               NEW lease \in 1 .. LeaseTicks, ClaimNewReservation(r, w, limit, lease, due)
        PROVE  Rest' /\ active <= active'
    <3>1. tickets' \in SUBSET Tickets /\ TicketsBearTokens'
      BY <2>2, ClaimNewReservationEngine
    <3>2. UNCHANGED <<content, visible, active, drafts, returned>>
      BY <2>2 DEF ClaimNewReservation
    <3> QED
      BY <1>0, <3>1, <3>2
  <2>3. ASSUME NEW w \in Workers, NEW due \in BOOLEAN, ClaimNothing(r, w, due)
        PROVE  Rest' /\ active <= active'
    BY <1>0, <2>3 DEF ClaimNothing, TicketsBearTokens
  <2> QED
    BY <1>3, <2>1, <2>2, <2>3 DEF Claim
<1>4. ASSUME NEW r \in Runs, NEW B \in SUBSET TicketsOf(r), NEW material \in SUBSET B,
             Import(r, B, material)
      PROVE  Rest' /\ active <= active'
  BY <1>0, <1>4, ImportEngine DEF Import, TicketsBearTokens
<1>5. ASSUME NEW r \in Runs, Operate(r)
      PROVE  Rest' /\ active <= active'
  BY <1>0, <1>3, <1>4, <1>5
     DEF Operate, Admit, Pause, Resume, Cancel, RebindOnly, Renew, TicketsBearTokens
<1>6. CASE ActivateContext
  <2>1. active' \in Contexts /\ active <= active'
    BY <1>6, SizesAssumption DEF ActivateContext, Contexts
  <2> QED
    BY <1>6, <2>1 DEF ActivateContext, TicketsBearTokens
<1>7. CASE Environment
  BY <1>0, <1>6, <1>7
     DEF Environment, EditNotice, ToggleNotice, ReviewDraft, Tick, Drop, TicketsBearTokens
<1> QED
  BY <1>1, <1>2, <1>5, <1>7 DEF Next

\* Every step of the engine keeps QueueInv, with no more than QueueInv to begin with.
LEMMA QueueInvPreserved ==
  ASSUME QueueInv, [Next]_vars
  PROVE  QueueInv'
  BY EveryEngineStep, RestPreserved DEF QueueInv, TypeOK, EngineStep, Rest

----------------------------------------------------------------------------
\* The steps of the repair

\* While it has only read: the drafts and the completed items it has seen are still
\* there; and as long as it is up to date, what it has seen as missing is missing or
\* covered, and what it has seen as open work is covered.
ReadHolds(r) ==
  /\ copy.drafts \subseteq drafts
  /\ \A n \in Notices : copy.items[n].status = "completed" /\ copy.items[n].done =>
       /\ item[r][n].status = "completed" /\ item[r][n].result # NoResult
       /\ item[r][n].hash = copy.items[n].hash /\ item[r][n].ctx = copy.items[n].ctx
  /\ copy.steady /\ copy.ctx = active /\ run[r].status \in ActiveStatuses =>
       \A n \in Notices :
         /\ copy.items[n].status = "absent"
              => item[r][n].status = "absent" \/ Covered(r, n)
         /\ QueuedIn(copy, n) => Covered(r, n)

\* When it has decided: as long as it is up to date, each notice it has settled is to be
\* written, is to be added and still missing, or is covered.
PlanHolds(r) ==
  /\ copy.steady => copy.content = content
  /\ copy.steady /\ copy.ctx = active /\ run[r].status \in ActiveStatuses =>
       \A n \in copy.settled :
         \/ n \in copy.stale
         \/ n \in copy.missing /\ item[r][n].status = "absent"
         \/ Covered(r, n)

\* What a repair under way knows: its run was active when it read, and its context
\* was the active one; and what it has read or decided.
CopyHolds ==
  copy # NoCopy =>
    \A r \in Runs : copy.run = r =>
      /\ run[r].status \in ActiveStatuses \/ Done(r)
      /\ copy.ctx <= active
      /\ copy.at = "read" => ReadHolds(r)
      /\ copy.at = "decided" => PlanHolds(r)

\* The copy is that of a repair that has read, or has decided, or of none.
CopyTyped == copy \in Copies \cup Plans \cup {NoCopy}

\* The inductive invariant of engine and repair together.
RepairInv == QueueInv /\ CopyTyped /\ CopyHolds

\* In a state with the same engine, what QueueInv says is the same.
LEMMA QueueInvStays ==
  ASSUME QueueInv, UNCHANGED vars
  PROVE  QueueInv'
  BY DEF QueueInv, TypeOK, AllProper, TicketsBearTokens, vars

\* What the repair reads is so.
LEMMA RepairReadHolds ==
  ASSUME RepairInv, NEW r \in Runs, RepairRead(r)
  PROVE  RepairInv'
<1> DEFINE c == [at |-> "read", run |-> r, ctx |-> active,
                 items |-> [n \in Notices |-> Row(item[r][n])],
                 drafts |-> {d \in drafts : d.notice \in visible /\ d.ctx = active},
                 steady |-> TRUE]
<1>1. copy' = c /\ UNCHANGED vars /\ run[r].status \in ActiveStatuses
  BY DEF RepairRead
<1>2. ASSUME NEW n \in Notices
      PROVE  Row(item[r][n]) \in Rows
  BY SizesAssumption DEF RepairInv, QueueInv, TypeOK, Items, Row, Rows
<1>3. c \in Copies
  BY <1>2 DEF Copies, RepairInv, QueueInv, TypeOK
<1>4. /\ c.at = "read" /\ c.run = r /\ c.ctx = active /\ c.drafts \subseteq drafts
      /\ \A n \in Notices : c.items[n] = Row(item[r][n])
  OBVIOUS
<1> HIDE DEF c
<1>5. c # NoCopy /\ active <= active
  BY <1>3, NoCopyAssumption, SizesAssumption DEF RepairInv, QueueInv, TypeOK, Contexts
<1>6. ASSUME NEW n \in Notices
      PROVE  /\ Row(item[r][n]).status = item[r][n].status
             /\ Row(item[r][n]).hash = item[r][n].hash
             /\ Row(item[r][n]).ctx = item[r][n].ctx
             /\ Row(item[r][n]).done => item[r][n].result # NoResult
  BY DEF Row
<1>7. /\ UNCHANGED <<content, active, run, item, drafts>>
      /\ \A q \in Runs, n \in Notices : Covered(q, n) => Covered(q, n)'
  BY <1>1 DEF vars, Covered, ExactDraft, ExactCompact
<1>8. ReadHolds(r)'
  BY <1>1, <1>4, <1>6, <1>7 DEF ReadHolds, QueuedIn, Covered
<1>9. CopyHolds'
  BY <1>1, <1>4, <1>5, <1>7, <1>8 DEF CopyHolds
<1> QED
  BY <1>1, <1>3, <1>9, QueueInvStays DEF RepairInv, CopyTyped

\* What it decides follows from what it has read.
LEMMA RepairDecideHolds ==
  ASSUME RepairInv, RepairDecide
  PROVE  RepairInv'
<1> DEFINE p == [at |-> "decided", run |-> copy.run, ctx |-> copy.ctx,
                 stale |-> Stale(copy), missing |-> Missing(copy),
                 settled |-> {n \in visible : ~DeferredIn(copy, n)},
                 content |-> content, steady |-> copy.steady]
<1>1. copy' = p /\ UNCHANGED vars /\ copy # NoCopy /\ copy.at = "read"
  BY DEF RepairDecide
<1>2. copy \in Copies
  BY <1>1 DEF RepairInv, CopyTyped, Plans
<1>3. PICK r \in Runs : r = copy.run
  BY <1>2 DEF Copies
<1>4. /\ run[r].status \in ActiveStatuses \/ Done(r)
      /\ copy.ctx <= active /\ ReadHolds(r)
  BY <1>1, <1>3 DEF RepairInv, CopyHolds
<1>5. p \in Plans
  BY <1>2 DEF Plans, Copies, Stale, Missing, RepairInv, QueueInv, TypeOK
<1>6. /\ p.at = "decided" /\ p.run = r /\ p.ctx = copy.ctx /\ p.steady = copy.steady
      /\ p.content = content /\ p.stale = Stale(copy) /\ p.missing = Missing(copy)
      /\ p.settled = {n \in visible : ~DeferredIn(copy, n)}
  BY <1>3
<1> HIDE DEF p
<1>7. p # NoCopy
  BY <1>5, NoCopyAssumption
<1>8. /\ UNCHANGED <<content, visible, active, run, item, drafts>>
      /\ \A q \in Runs, n \in Notices : Covered(q, n) => Covered(q, n)'
      /\ Done(r) => Done(r)'
  BY <1>1 DEF vars, Covered, ExactDraft, ExactCompact, Done, Open
<1>9. ASSUME copy.steady, copy.ctx = active, run[r].status \in ActiveStatuses,
             NEW n \in p.settled
      PROVE  \/ n \in Stale(copy)
             \/ n \in Missing(copy) /\ item[r][n].status = "absent"
             \/ Covered(r, n)
  <2>1. n \in visible /\ n \in Notices /\ ~DeferredIn(copy, n)
    BY <1>6, <1>9 DEF RepairInv, QueueInv, TypeOK
  <2>2. CASE ExactDraft(n, copy.ctx, content[n]) \in copy.drafts
    BY <1>4, <1>9, <2>2 DEF ReadHolds, Covered
  <2>3. CASE /\ copy.items[n].status = "completed" /\ copy.items[n].done
             /\ copy.items[n].hash = content[n] /\ copy.items[n].ctx = copy.ctx
    BY <1>4, <1>9, <2>1, <2>3 DEF ReadHolds, Covered, ExactCompact
  <2>4. CASE QueuedIn(copy, n)
    BY <1>4, <1>9, <2>1, <2>4 DEF ReadHolds
  <2>5. CASE ~ValidIn(copy, n) /\ ~QueuedIn(copy, n)
    <3>1. CASE copy.items[n].status # "absent"
      BY <2>1, <2>5, <3>1 DEF Stale
    <3>2. CASE copy.items[n].status = "absent"
      <4>1. n \in Missing(copy)
        BY <2>1, <2>5, <3>2 DEF Missing
      <4>2. item[r][n].status = "absent" \/ Covered(r, n)
        BY <1>4, <1>9, <2>1, <3>2 DEF ReadHolds
      <4> QED
        BY <4>1, <4>2
    <3> QED
      BY <3>1, <3>2
  <2> QED
    BY <2>2, <2>3, <2>4, <2>5 DEF ValidIn
<1>10. PlanHolds(r)'
  <2>1. p.settled \subseteq Notices
    BY <1>5 DEF Plans
  <2> QED
    BY <1>1, <1>6, <1>8, <1>9, <2>1 DEF PlanHolds
<1>11. CopyHolds'
  BY <1>1, <1>4, <1>6, <1>7, <1>8, <1>10 DEF CopyHolds
<1> QED
  BY <1>1, <1>5, <1>11, QueueInvStays DEF RepairInv, CopyTyped

\* What the repair writes into the items of its run.
Written(c, r, n) ==
  n \in c.stale \/ (n \in c.missing /\ item[r][n].status = "absent")

\* What a repair writes, item by item.
LEMMA RepairWriteItems ==
  ASSUME RepairInv, RepairWrite
  PROVE  /\ copy \in Plans /\ copy.run \in Runs /\ copy' = NoCopy
         /\ UNCHANGED <<content, visible, active, run, drafts, returned, tickets>>
         /\ \A q \in Runs \ {copy.run} : item'[q] = item[q]
         /\ item' \in [Runs -> [Notices -> Items]]
         /\ \A n \in Notices :
              IF Written(copy, copy.run, n)
                THEN /\ Proper(item'[copy.run][n])
                     /\ item'[copy.run][n].status = "pending"
                     /\ item'[copy.run][n].hash = copy.content[n]
                     /\ item'[copy.run][n].ctx = copy.ctx
                ELSE item'[copy.run][n] = item[copy.run][n]
<1> DEFINE c == copy
           r == copy.run
           new(n) == [NewItem(n, c.ctx, "eligible") EXCEPT !.hash = c.content[n]]
           its == [n \in Notices |-> IF Written(c, r, n) THEN new(n) ELSE item[r][n]]
<1>1. c \in Plans /\ r \in Runs
  BY DEF RepairWrite, RepairInv, CopyTyped, Copies, Plans
<1>2. /\ item' = [item EXCEPT ![r] = its] /\ copy' = NoCopy
      /\ UNCHANGED <<content, visible, active, run, drafts, returned, tickets>>
  BY DEF RepairWrite, Written
<1>3. ASSUME NEW n \in Notices
      PROVE  /\ Proper(new(n)) /\ new(n).status = "pending"
             /\ new(n).hash = c.content[n] /\ new(n).ctx = c.ctx
  <2> DEFINE x == NewItem(n, c.ctx, "eligible")
             y == [x EXCEPT !.hash = c.content[n]]
  <2>1. c.ctx \in Contexts /\ c.content[n] \in Contents
    BY <1>1 DEF Plans
  <2>2. x \in Items /\ x.status = "pending" /\ x.token = NoToken /\ x.left = 0 /\ x.ctx = c.ctx
    BY <2>1, NewItemSound DEF RepairInv, QueueInv, TypeOK, Reasons, Sound, NewItem
  <2> HIDE DEF x
  <2>3. y \in Items /\ y.status = "pending" /\ y.token = NoToken /\ y.left = 0
        /\ y.ctx = c.ctx /\ y.hash = c.content[n]
    BY <2>1, <2>2 DEF Items
  <2>4. Proper(y)
    <3> HIDE DEF y
    <3> QED
      BY <2>3, IdleSound DEF Proper
  <2> QED
    BY <2>3, <2>4 DEF x
<1> HIDE DEF new
<1>4. \A n \in Notices : item[r][n] \in Items
  BY <1>1 DEF RepairInv, QueueInv, TypeOK
<1>5. its \in [Notices -> Items]
  BY <1>3, <1>4 DEF Proper, Sound
<1>6. \A n \in Notices : its[n] = IF Written(c, r, n) THEN new(n) ELSE item[r][n]
  OBVIOUS
<1> HIDE DEF its
<1>7. /\ item'[r] = its /\ \A q \in Runs \ {r} : item'[q] = item[q]
      /\ item' \in [Runs -> [Notices -> Items]]
  BY <1>1, <1>2, <1>5 DEF RepairInv, QueueInv, TypeOK
<1> QED
  BY <1>1, <1>2, <1>3, <1>6, <1>7

\* What it writes is proper, whatever was there.
LEMMA RepairWriteHolds ==
  ASSUME RepairInv, RepairWrite
  PROVE  RepairInv'
<1>1. PICK r \in Runs : r = copy.run
  BY RepairWriteItems
<1>2. ASSUME NEW q \in Runs, NEW n \in Notices
      PROVE  Proper(item'[q][n])
  <2>1. Proper(item[q][n])
    BY DEF RepairInv, QueueInv, AllProper
  <2> QED
    BY <1>1, <2>1, RepairWriteItems
<1>3. QueueInv'
  BY <1>2, RepairWriteItems
     DEF RepairInv, QueueInv, TypeOK, AllProper, TicketsBearTokens
<1> QED
  BY <1>3, RepairWriteItems DEF RepairInv, CopyTyped, CopyHolds

\* A request that commits meanwhile.
LEMMA MeanwhileHolds ==
  ASSUME RepairInv, Meanwhile
  PROVE  RepairInv'
<1>1. EngineStep /\ drafts \subseteq drafts' /\ active <= active' /\ QueueInv'
  BY EveryEngineStep, DraftsStay, RestPreserved, QueueInvPreserved DEF Meanwhile, RepairInv
<1>2. CASE copy = NoCopy
  BY <1>1, <1>2 DEF Meanwhile, RepairInv, CopyTyped, CopyHolds
<1>3. CASE copy # NoCopy
  <2> DEFINE steady == copy.steady /\ content' = content
  <2>1. copy \in Copies \/ copy \in Plans
    BY <1>3 DEF RepairInv, CopyTyped
  <2>2. copy' = [copy EXCEPT !.steady = steady] /\ steady \in BOOLEAN
    BY <1>3 DEF Meanwhile
  <2>3. steady => copy.steady /\ content' = content
    OBVIOUS
  <2> HIDE DEF steady
  <2>4. PICK r \in Runs : r = copy.run
    BY <2>1 DEF Copies, Plans
  <2>5. /\ run[r].status \in ActiveStatuses \/ Done(r)
        /\ copy.ctx <= active
        /\ copy.at = "read" => ReadHolds(r)
        /\ copy.at = "decided" => PlanHolds(r)
    BY <1>3, <2>4 DEF RepairInv, CopyHolds
  <2>6. /\ active \in Nat /\ active' \in Nat /\ copy.ctx \in Nat
    BY <1>1, <2>1, SizesAssumption DEF RepairInv, QueueInv, TypeOK, Contexts, Copies, Plans
  <2>7. copy.ctx <= active' /\ (copy.ctx = active' => active' = active)
    BY <1>1, <2>5, <2>6
  <2>8. run'[r].status \in ActiveStatuses \/ Done(r)'
    BY <1>1, <2>5 DEF EngineStep, KeepsEnd
  <2>9. run'[r].status \in ActiveStatuses => run[r].status \in ActiveStatuses
    <3>1. Done(r) => run'[r].status \notin ActiveStatuses
      BY <1>1 DEF EngineStep, KeepsEnd, Done, ActiveStatuses, FinishedStatuses
    <3> QED
      BY <2>5, <3>1
  <2>10. ASSUME steady, copy.ctx = active', run'[r].status \in ActiveStatuses
         PROVE  /\ copy.steady /\ copy.ctx = active /\ run[r].status \in ActiveStatuses
                /\ \A n \in Notices :
                     /\ Covered(r, n) => Covered(r, n)'
                     /\ item[r][n].status = "absent"
                          => item'[r][n].status = "absent" \/ Covered(r, n)'
    BY <1>1, <2>3, <2>7, <2>9, <2>10 DEF EngineStep, KeepsCover
  <2>11. CASE copy \in Copies
    <3>1. /\ copy' \in Copies /\ copy'.at = "read" /\ copy'.run = r /\ copy'.ctx = copy.ctx
          /\ copy'.items = copy.items /\ copy'.drafts = copy.drafts /\ copy'.steady = steady
      BY <2>2, <2>4, <2>11 DEF Copies
    <3>2. ReadHolds(r)
      BY <2>5, <2>11 DEF Copies
    <3>3. copy'.drafts \subseteq drafts'
      BY <1>1, <3>1, <3>2 DEF ReadHolds
    <3>4. ASSUME NEW n \in Notices, copy.items[n].status = "completed", copy.items[n].done
          PROVE  item'[r][n] = item[r][n]
      BY <1>1, <3>2, <3>4 DEF ReadHolds, EngineStep, KeepsItems
    <3>5. ASSUME steady, copy.ctx = active', run'[r].status \in ActiveStatuses,
                 NEW n \in Notices
          PROVE  /\ copy.items[n].status = "absent"
                      => item'[r][n].status = "absent" \/ Covered(r, n)'
                 /\ QueuedIn(copy, n)' => Covered(r, n)'
      <4>1. QueuedIn(copy, n)' => QueuedIn(copy, n)
        BY <2>3, <3>1, <3>5 DEF QueuedIn
      <4> QED
        BY <2>10, <3>2, <3>5, <4>1 DEF ReadHolds
    <3>6. ReadHolds(r)'
      BY <3>1, <3>2, <3>3, <3>4, <3>5 DEF ReadHolds
    <3>7. CopyHolds'
      BY <2>7, <2>8, <3>1, <3>6 DEF CopyHolds
    <3> QED
      BY <1>1, <3>1, <3>7 DEF RepairInv, CopyTyped
  <2>12. CASE copy \in Plans
    <3>1. /\ copy' \in Plans /\ copy'.at = "decided" /\ copy'.run = r /\ copy'.ctx = copy.ctx
          /\ copy'.stale = copy.stale /\ copy'.missing = copy.missing
          /\ copy'.settled = copy.settled /\ copy'.content = copy.content
          /\ copy'.steady = steady
      BY <2>2, <2>4, <2>12 DEF Plans
    <3>2. PlanHolds(r) /\ copy.settled \subseteq Notices
      BY <2>5, <2>12 DEF Plans
    <3>3. ASSUME steady, copy.ctx = active', run'[r].status \in ActiveStatuses,
                 NEW n \in copy.settled
          PROVE  \/ n \in copy.stale
                 \/ n \in copy.missing /\ item'[r][n].status = "absent"
                 \/ Covered(r, n)'
      BY <2>10, <3>2, <3>3 DEF PlanHolds
    <3>4. PlanHolds(r)'
      BY <2>3, <3>1, <3>2, <3>3 DEF PlanHolds
    <3>5. CopyHolds'
      BY <2>7, <2>8, <3>1, <3>4 DEF CopyHolds
    <3> QED
      BY <1>1, <3>1, <3>5 DEF RepairInv, CopyTyped
  <2> QED
    BY <2>1, <2>11, <2>12
<1> QED
  BY <1>2, <1>3

\* Every step of the engine or the repair keeps the invariant.
LEMMA RepairStepHolds ==
  ASSUME RepairInv, [RepairNext]_repairVars
  PROVE  RepairInv'
<1>1. CASE UNCHANGED repairVars
  <2>1. copy' = copy /\ UNCHANGED vars
    BY <1>1 DEF repairVars
  <2>2. UNCHANGED <<content, active, run, item, drafts>>
    BY <2>1 DEF vars
  <2>3. /\ \A q \in Runs, n \in Notices : Covered(q, n) => Covered(q, n)'
        /\ \A q \in Runs : Done(q) => Done(q)'
    BY <2>2 DEF Covered, ExactDraft, ExactCompact, Done, Open
  <2>4. copy # NoCopy => copy \in Copies \/ copy \in Plans
    BY DEF RepairInv, CopyTyped
  <2>5. ASSUME NEW q \in Runs, ReadHolds(q)
        PROVE  ReadHolds(q)'
    BY <2>1, <2>2, <2>3, <2>5 DEF ReadHolds, QueuedIn
  <2>6. ASSUME NEW q \in Runs, PlanHolds(q), copy \in Plans
        PROVE  PlanHolds(q)'
    <3>1. copy.settled \subseteq Notices
      BY <2>6 DEF Plans
    <3> QED
      BY <2>1, <2>2, <2>3, <2>6, <3>1 DEF PlanHolds
  <2>7. CopyHolds'
    BY <2>1, <2>2, <2>3, <2>4, <2>5, <2>6 DEF RepairInv, CopyHolds, Copies
  <2> QED
    BY <2>1, <2>7, QueueInvStays DEF RepairInv, CopyTyped
<1>2. CASE RepairDies
  <2>1. copy' = NoCopy /\ UNCHANGED vars
    BY <1>2 DEF RepairDies
  <2> QED
    BY <2>1, QueueInvStays DEF RepairInv, CopyTyped, CopyHolds
<1> QED
  BY <1>1, <1>2, RepairReadHolds, RepairDecideHolds, RepairWriteHolds, MeanwhileHolds
     DEF RepairNext

\* What the repair does not write is covered, and stays so; what it writes is covered by it.
LEMMA RepairCovers ==
  ASSUME RepairInv, RepairWrite, copy.steady, copy.ctx = active,
         run[copy.run].status \in ActiveStatuses,
         NEW r \in {copy.run}, NEW n \in copy.settled
  PROVE  Covered(r, n)'
<1>1. /\ copy \in Plans /\ r \in Runs /\ copy.run = r /\ n \in Notices
      /\ copy.at = "decided" /\ copy # NoCopy
  BY RepairWriteItems, NoCopyAssumption DEF Plans
<1>2. /\ copy.content = content
      /\ \/ n \in copy.stale
         \/ n \in copy.missing /\ item[r][n].status = "absent"
         \/ Covered(r, n)
  BY <1>1 DEF RepairInv, CopyHolds, PlanHolds
<1>3. UNCHANGED <<content, active, run, drafts>>
  BY RepairWriteItems
<1>4. CASE Written(copy, r, n)
  <2>1. /\ item'[r][n].status = "pending" /\ item'[r][n].hash = content[n]
        /\ item'[r][n].ctx = active
    BY <1>1, <1>2, <1>4, RepairWriteItems
  <2> QED
    BY <1>3, <2>1 DEF Covered, OpenStatuses
<1>5. CASE ~Written(copy, r, n)
  <2>1. item'[r][n] = item[r][n]
    BY <1>1, <1>5, RepairWriteItems
  <2>2. \A q \in Runs : item'[q][n] = item[q][n]
    BY <1>1, <2>1, RepairWriteItems
  <2>3. Covered(r, n)
    BY <1>2, <1>5 DEF Written
  <2> QED
    BY <1>3, <2>1, <2>2, <2>3 DEF Covered, ExactDraft, ExactCompact
<1> QED
  BY <1>4, <1>5

\* Beside the requests of the engine, the steps of a repair keep its invariant.
THEOREM RepairInvariance == RepairSpec => []RepairInv
<1>1. RepairInit => RepairInv
  BY InitEstablishes
     DEF RepairInit, RepairInv, QueueInv, CopyTyped, CopyHolds, AllProper, IInv,
         ItemsAreSound, SoundItems, Proper, Sound
<1>2. RepairInv /\ [RepairNext]_repairVars => RepairInv'
  BY RepairStepHolds
<1> QED
  BY <1>1, <1>2, PTL DEF RepairSpec

\* Every variable of the engine and of the repair keeps its type, although the repair
\* writes whole rows it decided on before.
THEOREM RepairIsTyped == RepairSpec => []RepairTypeOK
<1>1. RepairInv => RepairTypeOK
  BY DEF RepairInv, QueueInv, CopyTyped, RepairTypeOK
<1> QED
  BY <1>1, RepairInvariance, PTL

\* A repair leaves every notice it has settled covered, whatever was claimed, imported,
\* admitted, cancelled or expired while it ran.
THEOREM RepairsLoseNothing == RepairSpec => RepairLosesNothing
<1>1. RepairInv /\ [RepairNext]_repairVars =>
        [RepairWrite /\ copy.steady /\ copy.ctx = active
           /\ run[copy.run].status \in ActiveStatuses =>
           \A r \in {copy.run}, n \in copy.settled : Covered(r, n)']_repairVars
  BY RepairCovers
<1> QED
  BY <1>1, RepairInvariance, PTL DEF RepairSpec, RepairLosesNothing
====
