---- MODULE AnalysisRunProofs ----
(***************************************************************************)
(* Proofs about AnalysisRun and AnalysisRunTasks: types, the inductive      *)
(* invariant behind the safety properties of the run, and that the tasks    *)
(* around it keep that invariant.                                           *)
(***************************************************************************)
EXTENDS AnalysisRunTasks, TLAPS

----------------------------------------------------------------------------
\* The inductive invariant

\* An item of a run bound to ctx.
Sound(i, ctx) ==
  /\ i \in Items
  /\ i.status = "claimed" <=> i.token \in Tokens
  /\ i.status = "claimed" => i.by \in Workers
  /\ i.status # "claimed" => i.left = 0
  /\ i.status \in OpenStatuses => i.ctx = ctx
  /\ i.left > 0 => i.age + i.left <= HardAge + LeaseTicks

SoundItems(its, ctx) ==
  its \in [Notices -> Items] /\ \A n \in Notices : Sound(its[n], ctx)

\* Every response outstanding bears a token: no other result of this module's
\* workers can match an item nobody has claimed.
TicketsBearTokens == \A t \in tickets : t.token \in Tokens

ItemsAreSound == \A r \in Runs : SoundItems(item[r], run[r].ctx)

OnlyActiveRunsHaveWork ==
  \A r \in Runs : run[r].status \notin ActiveStatuses => Open(item[r]) = {}

\* A run is bound to the active context or to an earlier one.
BoundToThePast == \A r \in Runs : run[r].ctx <= active

IInv ==
  /\ TypeOK /\ ItemsAreSound /\ OnlyActiveRunsHaveWork /\ TicketsBearTokens
  /\ BoundToThePast

----------------------------------------------------------------------------
\* Lemmas about single items

LEMMA Zeros == 0 \in 0 .. LeaseTicks /\ 0 \in 0 .. HardAge + 1
  BY SizesAssumption

LEMMA UnlockedItem ==
  ASSUME NEW i \in Items, NEW s \in ItemStatuses
  PROVE  /\ Unlocked(i, s) \in Items
         /\ Unlocked(i, s).status = s /\ Unlocked(i, s).token = NoToken
         /\ Unlocked(i, s).left = 0
         /\ Unlocked(i, s).hash = i.hash /\ Unlocked(i, s).ctx = i.ctx
         /\ Unlocked(i, s).result = i.result /\ Unlocked(i, s).settled = i.settled
         /\ Unlocked(i, s).basis = i.basis /\ Unlocked(i, s).reason = i.reason
<1>1. Unlocked(i, s) \in Items
  BY Zeros DEF Items, Unlocked
<1>2. /\ Unlocked(i, s).status = s /\ Unlocked(i, s).token = NoToken
      /\ Unlocked(i, s).left = 0
      /\ Unlocked(i, s).hash = i.hash /\ Unlocked(i, s).ctx = i.ctx
      /\ Unlocked(i, s).result = i.result /\ Unlocked(i, s).settled = i.settled
      /\ Unlocked(i, s).basis = i.basis /\ Unlocked(i, s).reason = i.reason
  BY DEF Items, Unlocked
<1> QED
  BY <1>1, <1>2

LEMMA ReleasedItem ==
  ASSUME NEW i \in Items, NEW s \in ItemStatuses
  PROVE  Released(i, s) \in Items
<1>1. Unlocked(i, s) \in Items
  BY UnlockedItem
<1> QED
  BY <1>1 DEF Items, Released

LEMMA ReleasedFields ==
  ASSUME NEW i \in Items, NEW s \in ItemStatuses
  PROVE  /\ Released(i, s).status = s /\ Released(i, s).token = NoToken
         /\ Released(i, s).by = NoWorker /\ Released(i, s).left = 0
         /\ Released(i, s).hash = i.hash /\ Released(i, s).ctx = i.ctx
         /\ Released(i, s).result = i.result /\ Released(i, s).settled = i.settled
         /\ Released(i, s).basis = i.basis /\ Released(i, s).reason = i.reason
<1> DEFINE u == Unlocked(i, s)
<1>1. /\ u \in Items /\ u.status = s /\ u.token = NoToken /\ u.left = 0
      /\ u.hash = i.hash /\ u.ctx = i.ctx /\ u.result = i.result
      /\ u.settled = i.settled /\ u.basis = i.basis /\ u.reason = i.reason
  BY UnlockedItem
<1>2. Released(i, s) = [u EXCEPT !.by = NoWorker]
  BY DEF Released
<1> HIDE DEF u
<1> QED
  BY <1>1, <1>2 DEF Items

\* An item out of work, whatever released it, is sound.
LEMMA IdleSound ==
  ASSUME NEW i \in Items, NEW ctx, i.status # "claimed", i.token = NoToken,
         i.left = 0, i.status \in OpenStatuses => i.ctx = ctx
  PROVE  Sound(i, ctx)
  BY NullsAssumption, SizesAssumption DEF Sound

LEMMA ReleasedSound ==
  ASSUME NEW i \in Items, NEW s \in ItemStatuses \ {"claimed"}, NEW ctx,
         s \in OpenStatuses => i.ctx = ctx
  PROVE  Sound(Released(i, s), ctx)
  BY ReleasedItem, ReleasedFields, IdleSound

LEMMA UnlockedSound ==
  ASSUME NEW i \in Items, NEW s \in ItemStatuses \ {"claimed"}, NEW ctx,
         s \in OpenStatuses => i.ctx = ctx
  PROVE  Sound(Unlocked(i, s), ctx)
  BY UnlockedItem, IdleSound

LEMMA NewItemSound ==
  ASSUME NEW n \in Notices, content \in [Notices -> Contents], NEW ctx \in Contexts,
         NEW reason \in Reasons
  PROVE  Sound(NewItem(n, ctx, reason), ctx)
<1>1. NewItem(n, ctx, reason) \in Items
  BY Zeros DEF NewItem, Items, ItemStatuses, OpenStatuses
<1>2. /\ NewItem(n, ctx, reason).status = "pending"
      /\ NewItem(n, ctx, reason).ctx = ctx
      /\ NewItem(n, ctx, reason).token = NoToken
      /\ NewItem(n, ctx, reason).by = NoWorker
      /\ NewItem(n, ctx, reason).left = 0
  BY DEF NewItem
<1> QED
  BY <1>1, <1>2, IdleSound

LEMMA AgedSound ==
  ASSUME NEW i, NEW ctx, Sound(i, ctx)
  PROVE  Sound(Aged(i), ctx) /\ Aged(i).status = i.status
<1>1. CASE i.status # "claimed"
  BY <1>1 DEF Aged
<1>2. CASE i.status = "claimed"
  <2>1. i \in Items /\ i.left \in 0 .. LeaseTicks /\ i.age \in 0 .. HardAge + 1
    BY DEF Sound, Items
  <2>2. PICK left \in 0 .. LeaseTicks, age \in 0 .. HardAge + 1 :
          /\ left = (IF i.left = 0 THEN 0 ELSE i.left - 1)
          /\ age = (IF i.age > HardAge THEN i.age ELSE i.age + 1)
    BY <2>1, SizesAssumption
  <2>3. Aged(i) = [i EXCEPT !.left = left, !.age = age]
    BY <1>2, <2>2 DEF Aged
  <2>4. Aged(i) \in Items
    BY <2>1, <2>2, <2>3 DEF Items
  <2>5. /\ Aged(i).status = i.status /\ Aged(i).ctx = i.ctx /\ Aged(i).token = i.token
        /\ Aged(i).by = i.by /\ Aged(i).left = left /\ Aged(i).age = age
    BY <2>1, <2>3 DEF Items
  <2>6. left > 0 => age + left <= HardAge + LeaseTicks
    BY <2>1, <2>2, SizesAssumption DEF Sound
  <2> QED
    BY <1>2, <2>4, <2>5, <2>6 DEF Sound
<1> QED
  BY <1>1, <1>2

----------------------------------------------------------------------------
\* Lemmas about the items of a run

\* What is sound item by item is sound as a whole.
LEMMA Everywhere ==
  ASSUME NEW jts, NEW ctx, jts = [n \in Notices |-> jts[n]],
         \A n \in Notices : Sound(jts[n], ctx)
  PROVE  SoundItems(jts, ctx)
<1>1. \A n \in Notices : jts[n] \in Items
  BY DEF Sound
<1>2. jts \in [Notices -> Items]
  BY <1>1
<1> QED
  BY <1>2 DEF SoundItems

LEMMA Itemwise ==
  ASSUME NEW its, NEW jts, NEW ctx, jts = [n \in Notices |-> jts[n]],
         \A n \in Notices :
           /\ Sound(jts[n], ctx)
           /\ jts[n].status \in OpenStatuses => its[n].status \in OpenStatuses
  PROVE  SoundItems(jts, ctx) /\ Open(jts) \subseteq Open(its)
<1>1. SoundItems(jts, ctx)
  BY Everywhere
<1>2. Open(jts) \subseteq Open(its)
  BY DEF Open
<1> QED
  BY <1>1, <1>2

LEMMA ReboundSound ==
  ASSUME TypeOK, ItemsAreSound, NEW r \in Runs
  PROVE  SoundItems(Rebound(r), active) /\ Open(Rebound(r)) \subseteq Open(item[r])
<1> DEFINE f == Rebound(r)
<1>1. ASSUME NEW n \in Notices
      PROVE  /\ Sound(f[n], active)
             /\ f[n].status \in OpenStatuses => item[r][n].status \in OpenStatuses
  <2> DEFINE i == item[r][n]
  <2>1. i \in Items /\ Sound(i, run[r].ctx) /\ active \in Contexts
    BY DEF TypeOK, ItemsAreSound, SoundItems
  <2>2. CASE run[r].ctx = active
    BY <2>1, <2>2 DEF Rebound
  <2>3. CASE run[r].ctx # active /\ i.status = "claimed"
    <3> DEFINE x == Released(i, "retry")
               j == [x EXCEPT !.ctx = active, !.basis = NoBasis]
    <3>1. f[n] = j
      BY <2>3 DEF Rebound
    <3>2. x \in Items
      BY <2>1, ReleasedItem DEF ItemStatuses, OpenStatuses
    <3>3. x.status = "retry" /\ x.token = NoToken /\ x.by = NoWorker /\ x.left = 0
      BY <2>1, ReleasedFields DEF ItemStatuses, OpenStatuses
    <3> HIDE DEF x
    <3>4. j \in Items /\ j.ctx = active /\ j.status = x.status /\ j.token = x.token
          /\ j.by = x.by /\ j.left = x.left
      BY <2>1, <3>2 DEF Items
    <3>5. Sound(j, active)
      BY <3>3, <3>4, IdleSound
    <3> QED
      BY <2>3, <3>1, <3>5 DEF OpenStatuses
  <2>4. CASE run[r].ctx # active /\ i.status \in {"pending", "retry"}
    <3> DEFINE j == [i EXCEPT !.ctx = active]
    <3>1. f[n] = j
      BY <2>4 DEF Rebound
    <3>2. j \in Items /\ j.ctx = active /\ j.status = i.status /\ j.token = i.token
          /\ j.left = i.left
      BY <2>1 DEF Items
    <3>3. i.status # "claimed" /\ i.token = NoToken /\ i.left = 0
      BY <2>1, <2>4 DEF Sound, Items
    <3> HIDE DEF j
    <3>4. Sound(j, active)
      BY <3>2, <3>3, IdleSound
    <3> QED
      BY <3>1, <3>2, <3>4
  <2>5. CASE run[r].ctx # active /\ i.status \notin OpenStatuses
    <3>1. f[n] = i
      BY <2>5 DEF Rebound, OpenStatuses
    <3> QED
      BY <2>1, <2>5, <3>1 DEF Sound
  <2> QED
    BY <2>2, <2>3, <2>4, <2>5 DEF OpenStatuses
<1>2. f = [n \in Notices |-> f[n]]
  BY DEF Rebound
<1> HIDE DEF f
<1>3. SoundItems(f, active) /\ Open(f) \subseteq Open(item[r])
  BY <1>1, <1>2, Itemwise
<1> QED
  BY <1>3 DEF f

LEMMA ExpiredSound ==
  ASSUME NEW its, NEW ctx, SoundItems(its, ctx)
  PROVE  SoundItems(Expired(its), ctx) /\ Open(Expired(its)) \subseteq Open(its)
<1> DEFINE f == Expired(its)
<1>1. ASSUME NEW n \in Notices
      PROVE  /\ Sound(f[n], ctx)
             /\ f[n].status \in OpenStatuses => its[n].status \in OpenStatuses
  <2>1. Sound(its[n], ctx) /\ its[n] \in Items
    BY DEF SoundItems, Sound
  <2>2. CASE its[n].status = "claimed" /\ its[n].left = 0
    <3>1. f[n] = Released(its[n], "retry")
      BY <2>2 DEF Expired
    <3>2. its[n].ctx = ctx
      BY <2>1, <2>2 DEF Sound, OpenStatuses
    <3> QED
      BY <2>1, <2>2, <3>1, <3>2, ReleasedSound, ReleasedFields DEF ItemStatuses, OpenStatuses
  <2>3. CASE ~(its[n].status = "claimed" /\ its[n].left = 0)
    BY <2>1, <2>3 DEF Expired
  <2> QED
    BY <2>2, <2>3
<1>2. f = [n \in Notices |-> f[n]]
  BY DEF Expired
<1> HIDE DEF f
<1>3. SoundItems(f, ctx) /\ Open(f) \subseteq Open(its)
  BY <1>1, <1>2, Itemwise
<1> QED
  BY <1>3 DEF f

LEMMA ReconciledSound ==
  ASSUME NEW r, NEW its, NEW ctx, SoundItems(its, ctx)
  PROVE  SoundItems(Reconciled(r, its), ctx) /\ Open(Reconciled(r, its)) \subseteq Open(its)
<1> DEFINE f == Reconciled(r, its)
<1>1. ASSUME NEW n \in Notices
      PROVE  /\ Sound(f[n], ctx)
             /\ f[n].status \in OpenStatuses => its[n].status \in OpenStatuses
  <2>1. Sound(its[n], ctx) /\ its[n] \in Items
    BY DEF SoundItems, Sound
  <2>2. CASE Redundant(r, its, n)
    <3> DEFINE x == Released(its[n], "skipped")
               j == [x EXCEPT !.reason = "already_valid_current_analysis"]
    <3>1. f[n] = j
      BY <2>2 DEF Reconciled
    <3>2. x \in Items /\ x.status = "skipped" /\ x.token = NoToken /\ x.by = NoWorker
          /\ x.left = 0
      BY <2>1, ReleasedItem, ReleasedFields DEF ItemStatuses
    <3> HIDE DEF x
    <3>3. j \in Items /\ j.status = "skipped" /\ j.token = NoToken /\ j.by = NoWorker
          /\ j.left = 0
      BY <3>2 DEF Items, Reasons
    <3> HIDE DEF j
    <3>4. Sound(j, ctx)
      BY <3>3, IdleSound DEF OpenStatuses
    <3> QED
      BY <3>1, <3>3, <3>4 DEF OpenStatuses
  <2>3. CASE ~Redundant(r, its, n)
    BY <2>1, <2>3 DEF Reconciled
  <2> QED
    BY <2>2, <2>3
<1>2. f = [n \in Notices |-> f[n]]
  BY DEF Reconciled
<1> HIDE DEF f
<1>3. SoundItems(f, ctx) /\ Open(f) \subseteq Open(its)
  BY <1>1, <1>2, Itemwise
<1> QED
  BY <1>3 DEF f

LEMMA PreparedSound ==
  ASSUME TypeOK, ItemsAreSound, NEW r \in Runs, NEW due \in BOOLEAN
  PROVE  SoundItems(Prepared(r, due), active) /\ Open(Prepared(r, due)) \subseteq Open(item[r])
<1>1. SoundItems(Rebound(r), active) /\ Open(Rebound(r)) \subseteq Open(item[r])
  BY ReboundSound
<1> DEFINE its == Expired(Rebound(r))
<1>2. SoundItems(its, active) /\ Open(its) \subseteq Open(item[r])
  BY <1>1, ExpiredSound
<1>3. Prepared(r, due) = IF due THEN Reconciled(r, its) ELSE its
  BY DEF Prepared
<1> HIDE DEF its
<1>4. SoundItems(Reconciled(r, its), active) /\ Open(Reconciled(r, its)) \subseteq Open(its)
  BY <1>2, ReconciledSound
<1> QED
  BY <1>2, <1>3, <1>4

LEMMA CapturedSound ==
  ASSUME NEW its, NEW ctx, SoundItems(its, ctx), NEW slice, content \in [Notices -> Contents]
  PROVE  SoundItems(Captured(its, slice), ctx) /\ Open(Captured(its, slice)) \subseteq Open(its)
<1> DEFINE f == Captured(its, slice)
<1>1. ASSUME NEW n \in Notices
      PROVE  /\ Sound(f[n], ctx)
             /\ f[n].status \in OpenStatuses => its[n].status \in OpenStatuses
  <2>1. Sound(its[n], ctx) /\ its[n] \in Items /\ content[n].sem \in Semantics
    BY DEF SoundItems, Sound, Contents
  <2>2. CASE n \in slice
    <3> DEFINE j == [its[n] EXCEPT !.basis = content[n].sem]
    <3>1. f[n] = j
      BY <2>2 DEF Captured
    <3>2. j \in Items /\ j.status = its[n].status /\ j.token = its[n].token
          /\ j.by = its[n].by /\ j.left = its[n].left /\ j.age = its[n].age
          /\ j.ctx = its[n].ctx
      BY <2>1 DEF Items
    <3> HIDE DEF j
    <3> QED
      BY <2>1, <3>1, <3>2 DEF Sound
  <2>3. CASE n \notin slice
    BY <2>1, <2>3 DEF Captured
  <2> QED
    BY <2>2, <2>3
<1>2. f = [n \in Notices |-> f[n]]
  BY DEF Captured
<1> HIDE DEF f
<1>3. SoundItems(f, ctx) /\ Open(f) \subseteq Open(its)
  BY <1>1, <1>2, Itemwise
<1> QED
  BY <1>3 DEF f

LEMMA ReservedSound ==
  ASSUME NEW its, NEW ctx, SoundItems(its, ctx), NEW w \in Workers,
         NEW lease \in 1 .. LeaseTicks,
         NEW S \in SUBSET {n \in Notices : its[n].status \in {"pending", "retry"}},
         NEW token \in [S -> Tokens]
  PROVE  /\ SoundItems(Reserved(its, S, w, token, lease), ctx)
         /\ Open(Reserved(its, S, w, token, lease)) \subseteq Open(its)
<1> DEFINE f == Reserved(its, S, w, token, lease)
<1>1. ASSUME NEW n \in Notices
      PROVE  /\ Sound(f[n], ctx)
             /\ f[n].status \in OpenStatuses => its[n].status \in OpenStatuses
  <2>1. Sound(its[n], ctx) /\ its[n] \in Items
    BY DEF SoundItems, Sound
  <2>2. CASE n \in S
    <3> DEFINE j == [its[n] EXCEPT !.status = "claimed", !.token = token[n], !.by = w,
                                   !.left = lease, !.age = 0]
    <3>1. f[n] = j
      BY <2>2 DEF Reserved
    <3>2. /\ token[n] \in Tokens /\ lease \in 0 .. LeaseTicks /\ lease > 0
          /\ 0 \in 0 .. HardAge + 1 /\ 0 + lease <= HardAge + LeaseTicks
      BY <2>2, SizesAssumption
    <3>3. j \in Items
      BY <2>1, <3>2 DEF Items, ItemStatuses, OpenStatuses
    <3>4. /\ j.status = "claimed" /\ j.token = token[n] /\ j.by = w
          /\ j.left = lease /\ j.age = 0 /\ j.ctx = its[n].ctx
      BY <2>1 DEF Items
    <3>5. its[n].status \in OpenStatuses /\ its[n].ctx = ctx
      BY <2>1, <2>2 DEF OpenStatuses, Sound
    <3> HIDE DEF j
    <3> QED
      BY <3>1, <3>2, <3>3, <3>4, <3>5 DEF Sound
  <2>3. CASE n \notin S
    BY <2>1, <2>3 DEF Reserved
  <2> QED
    BY <2>2, <2>3
<1>2. f = [n \in Notices |-> f[n]]
  BY DEF Reserved
<1> HIDE DEF f
<1>3. SoundItems(f, ctx) /\ Open(f) \subseteq Open(its)
  BY <1>1, <1>2, Itemwise
<1> QED
  BY <1>3 DEF f

LEMMA RenewedSound ==
  ASSUME NEW its, NEW ctx, SoundItems(its, ctx), NEW ws, NEW lease \in 1 .. LeaseTicks
  PROVE  /\ SoundItems(Renewed(its, ws, lease), ctx)
         /\ Open(Renewed(its, ws, lease)) \subseteq Open(its)
<1> DEFINE f == Renewed(its, ws, lease)
<1>1. ASSUME NEW n \in Notices
      PROVE  /\ Sound(f[n], ctx)
             /\ f[n].status \in OpenStatuses => its[n].status \in OpenStatuses
  <2>1. Sound(its[n], ctx) /\ its[n] \in Items
    BY DEF SoundItems, Sound
  <2>2. CASE \E w \in ws : n \in HeldBy(its, w) /\ its[n].age <= HardAge
    <3> DEFINE j == [its[n] EXCEPT !.left = lease]
    <3>1. f[n] = j
      BY <2>2 DEF Renewed
    <3>2. its[n].status = "claimed" /\ its[n].age <= HardAge /\ its[n].age \in Nat
      BY <2>1, <2>2, SizesAssumption DEF HeldBy, Items
    <3>3. lease \in 0 .. LeaseTicks /\ its[n].age + lease <= HardAge + LeaseTicks
      BY <3>2, SizesAssumption
    <3>4. /\ j \in Items /\ j.status = its[n].status /\ j.token = its[n].token
          /\ j.by = its[n].by /\ j.left = lease /\ j.age = its[n].age /\ j.ctx = its[n].ctx
      BY <2>1, <3>3 DEF Items
    <3> HIDE DEF j
    <3> QED
      BY <2>1, <3>1, <3>2, <3>3, <3>4 DEF Sound
  <2>3. CASE ~(\E w \in ws : n \in HeldBy(its, w) /\ its[n].age <= HardAge)
    BY <2>1, <2>3 DEF Renewed
  <2> QED
    BY <2>2, <2>3
<1>2. f = [n \in Notices |-> f[n]]
  BY DEF Renewed
<1> HIDE DEF f
<1>3. SoundItems(f, ctx) /\ Open(f) \subseteq Open(its)
  BY <1>1, <1>2, Itemwise
<1> QED
  BY <1>3 DEF f

LEMMA ReasonsTyped ==
  ASSUME NEW r, NEW n, NEW ctx
  PROVE  AnalysisReasons(r, n, ctx) \subseteq Reasons
  BY DEF AnalysisReasons, Reasons

LEMMA QueuedSound ==
  ASSUME TypeOK, NEW its, NEW ctx \in Contexts, SoundItems(its, ctx), NEW r, NEW S
  PROVE  SoundItems(Queued(r, its, S, ctx), ctx)
<1> DEFINE f == Queued(r, its, S, ctx)
<1>1. ASSUME NEW n \in Notices
      PROVE  Sound(f[n], ctx)
  <2>1. Sound(its[n], ctx)
    BY DEF SoundItems
  <2> DEFINE new == /\ n \in S /\ its[n].status = "absent" /\ Candidate(r, n)
                    /\ AnalysisReasons(r, n, ctx) # {}
             reason == CHOOSE x \in AnalysisReasons(r, n, ctx) : TRUE
  <2>2. CASE new
    <3>1. reason \in Reasons
      BY <2>2, ReasonsTyped
    <3>2. f[n] = NewItem(n, ctx, reason)
      BY <2>2 DEF Queued
    <3> HIDE DEF reason
    <3> QED
      BY <3>1, <3>2, NewItemSound DEF TypeOK
  <2>3. CASE ~new
    BY <2>1, <2>3 DEF Queued
  <2> QED
    BY <2>2, <2>3
<1>2. f = [n \in Notices |-> f[n]]
  BY DEF Queued
<1> HIDE DEF f
<1>3. SoundItems(f, ctx)
  BY <1>1, <1>2, Everywhere
<1> QED
  BY <1>3 DEF f

----------------------------------------------------------------------------
\* Lemmas about imports

\* A result that does not bear the token of the item changes nothing.
LEMMA JudgedForeign ==
  ASSUME NEW i, NEW t, NEW material, t.token # i.token
  PROVE  Judged(i, t, material) = i
<1>1. Verdict(i, t) = "rejected"
  BY DEF Verdict, Examined
<1> QED
  BY <1>1 DEF Judged

\* The outcomes of a result that does.
Completes(i, j, t, material) ==
  /\ j.status = "completed" /\ j.token = NoToken /\ j.left = 0
  /\ j.settled = t.token /\ j.ctx = i.ctx /\ j.hash = HashNow(i, t)
  /\ \/ /\ Verdict(i, t) = "duplicate" /\ j.result = i.result
        /\ ExactDraft(t.notice, active, HashNow(i, t)) \in drafts
     \/ /\ Verdict(i, t) = "imported" /\ t.ctx = active
        /\ i.basis # NoBasis => HashNow(i, t).sem = i.basis
        /\ j.result = [sem |-> t.sem, ctx |-> t.ctx, kind |-> t.kind,
                       compact |-> ~material]

LEMMA JudgedOwn ==
  ASSUME content \in [Notices -> Contents], NEW i \in Items, NEW t \in Tickets,
         t.token \in Tokens, NEW material \in BOOLEAN
  PROVE  \/ Judged(i, t, material) = i
         \/ Judged(i, t, material) = [i EXCEPT !.hash = HashNow(i, t)]
         \/ Judged(i, t, material) \in {Released(i, "retry"), Unlocked(i, "retry")}
         \/ /\ Judged(i, t, material) \in Items
            /\ Completes(i, Judged(i, t, material), t, material)
<1> DEFINE h == HashNow(i, t)
           rebased == [i EXCEPT !.hash = h]
           x == Unlocked(rebased, "completed")
<1>1. h \in Contents /\ t.notice \in Notices /\ t.sem \in Semantics /\ t.ctx \in Contexts
      /\ t.kind \in Kinds
  BY DEF HashNow, Tickets, Items
<1>2. rebased \in Items /\ rebased.hash = h /\ rebased.ctx = i.ctx /\ rebased.result = i.result
  BY <1>1 DEF Items
<1>3. /\ x \in Items /\ x.status = "completed" /\ x.token = NoToken
      /\ x.left = 0 /\ x.hash = h /\ x.ctx = i.ctx /\ x.result = i.result
  <2> HIDE DEF rebased
  <2> QED
    BY <1>2, UnlockedItem DEF ItemStatuses
<1>4. CASE Verdict(i, t) = "duplicate"
  <2> DEFINE j == [x EXCEPT !.settled = t.token]
  <2>1. Judged(i, t, material) = j
    BY <1>4 DEF Judged
  <2>2. ExactDraft(t.notice, active, h) \in drafts
    BY <1>4 DEF Verdict
  <2> HIDE DEF x
  <2>3. /\ j \in Items /\ j.status = x.status /\ j.token = x.token
        /\ j.left = x.left /\ j.hash = x.hash /\ j.ctx = x.ctx /\ j.settled = t.token
        /\ j.result = x.result
    BY <1>3 DEF Items
  <2> HIDE DEF j, h
  <2> QED
    BY <1>3, <1>4, <2>1, <2>2, <2>3 DEF Completes, h
<1>5. CASE Verdict(i, t) = "imported"
  <2> DEFINE res == [sem |-> t.sem, ctx |-> t.ctx, kind |-> t.kind, compact |-> ~material]
             j == [x EXCEPT !.settled = t.token, !.result = res]
  <2>1. Judged(i, t, material) = j
    BY <1>5 DEF Judged
  <2>2. t.ctx = active /\ (i.basis # NoBasis => h.sem = i.basis)
    BY <1>5 DEF Verdict, HashNow, Examined
  <2>3. res \in Results
    BY <1>1 DEF Results
  <2> HIDE DEF x, res
  <2>4. /\ j \in Items /\ j.status = x.status /\ j.token = x.token
        /\ j.left = x.left /\ j.hash = x.hash /\ j.ctx = x.ctx /\ j.settled = t.token
        /\ j.result = res
    BY <1>3, <2>3 DEF Items
  <2> HIDE DEF j, h
  <2> QED
    BY <1>3, <1>5, <2>1, <2>2, <2>4 DEF Completes, h, res
<1>6. CASE Verdict(i, t) \notin {"duplicate", "imported"}
  <2>1. Verdict(i, t) \in {"basis_changed", "rejected", "invalid_hash", "invalid_context",
                          "changed"}
    BY <1>6 DEF Verdict
  <2> QED
    BY <2>1 DEF Judged
<1> QED
  BY <1>4, <1>5, <1>6

LEMMA RebasedFields ==
  ASSUME NEW i \in Items, NEW h \in Contents
  PROVE  LET j == [i EXCEPT !.hash = h] IN
         /\ j \in Items /\ j.status = i.status /\ j.token = i.token /\ j.by = i.by
         /\ j.left = i.left /\ j.age = i.age /\ j.ctx = i.ctx /\ j.settled = i.settled
         /\ j.hash = h /\ j.result = i.result /\ j.basis = i.basis
  BY DEF Items

LEMMA JudgedSound ==
  ASSUME content \in [Notices -> Contents], NEW i, NEW ctx, Sound(i, ctx),
         NEW t \in Tickets, t.token \in Tokens, NEW material \in BOOLEAN
  PROVE  /\ Sound(Judged(i, t, material), ctx)
         /\ Judged(i, t, material).status \in OpenStatuses => i.status \in OpenStatuses
<1> DEFINE j == Judged(i, t, material)
<1>1. CASE t.token # i.token
  BY <1>1, JudgedForeign
<1>2. CASE t.token = i.token
  <2>1. i \in Items /\ i.status = "claimed" /\ i.ctx = ctx
    BY <1>2 DEF Sound, OpenStatuses
  <2>2. \/ j = i
        \/ j = [i EXCEPT !.hash = HashNow(i, t)]
        \/ j \in {Released(i, "retry"), Unlocked(i, "retry")}
        \/ j \in Items /\ Completes(i, j, t, material)
    BY <2>1, JudgedOwn
  <2> HIDE DEF j
  <2>3. CASE j = [i EXCEPT !.hash = HashNow(i, t)]
    <3>1. HashNow(i, t) \in Contents
      BY <2>1 DEF HashNow, Tickets, Items
    <3> QED
      BY <2>1, <2>3, <3>1, RebasedFields DEF Sound, OpenStatuses, j
  <2>4. CASE j \in {Released(i, "retry"), Unlocked(i, "retry")}
    BY <2>1, <2>4, ReleasedSound, UnlockedSound DEF ItemStatuses, OpenStatuses, j
  <2>5. CASE j \in Items /\ Completes(i, j, t, material)
    BY <2>5, IdleSound DEF Completes, OpenStatuses, j
  <2> QED
    BY <2>1, <2>2, <2>3, <2>4, <2>5 DEF OpenStatuses, j
<1> QED
  BY <1>1, <1>2

----------------------------------------------------------------------------
\* Commits

LEMMA FinalizedOutcome ==
  ASSUME NEW status \in RunStatuses, NEW its
  PROVE  /\ Finalized(status, its) \in RunStatuses
         /\ Finalized(status, its) \notin ActiveStatuses => Open(its) = {}
  BY DEF Finalized, RunStatuses, ActiveStatuses, FinishedStatuses

LEMMA CommitSound ==
  ASSUME IInv, NEW r \in Runs, NEW status \in RunStatuses, NEW its,
         SoundItems(its, active), status \notin ActiveStatuses => Open(its) = {},
         Commit(r, status, its),
         active' = active
  PROVE  /\ run' \in [Runs -> RunRows] /\ item' \in [Runs -> [Notices -> Items]]
         /\ ItemsAreSound' /\ OnlyActiveRunsHaveWork' /\ BoundToThePast'
         /\ active' = active => BoundToThePast'
<1> USE DEF IInv, TypeOK
<1>1. run' = [run EXCEPT ![r] = [run[r] EXCEPT !.status = status, !.ctx = active]]
  BY DEF Commit
<1>2. item' = [item EXCEPT ![r] = its] /\ its \in [Notices -> Items]
  BY DEF Commit, SoundItems
<1>3. /\ [run[r] EXCEPT !.status = status, !.ctx = active] \in RunRows
      /\ [run[r] EXCEPT !.status = status, !.ctx = active].status = status
      /\ [run[r] EXCEPT !.status = status, !.ctx = active].ctx = active
  BY DEF RunRows
<1>4. run' \in [Runs -> RunRows] /\ item' \in [Runs -> [Notices -> Items]]
  BY <1>1, <1>2, <1>3
<1>5. ASSUME NEW q \in Runs
      PROVE  /\ SoundItems(item'[q], run'[q].ctx)
             /\ run'[q].status \notin ActiveStatuses => Open(item'[q]) = {}
             /\ run'[q].ctx <= active
  <2>1. active <= active
    BY SizesAssumption DEF Contexts
  <2> QED
    BY <1>1, <1>2, <1>3, <2>1 DEF ItemsAreSound, OnlyActiveRunsHaveWork, BoundToThePast
<1> QED
  BY <1>4, <1>5 DEF ItemsAreSound, OnlyActiveRunsHaveWork, BoundToThePast

LEMMA RespondSound ==
  ASSUME TypeOK, TicketsBearTokens, NEW r \in Runs, NEW its, NEW slice \in SUBSET Notices,
         \A n \in slice : its[n] \in Items /\ its[n].token \in Tokens,
         Respond(r, its, slice)
  PROVE  tickets' \in SUBSET Tickets /\ TicketsBearTokens'
<1> USE DEF TypeOK
<1>1. ASSUME NEW t \in tickets
      PROVE  /\ [t EXCEPT !.kind = "reissued"] \in Tickets
             /\ [t EXCEPT !.kind = "reissued"].token \in Tokens
  BY DEF Tickets, Kinds, TicketsBearTokens
<1>2. ASSUME NEW n \in slice
      PROVE  [run |-> r, notice |-> n, token |-> its[n].token, hash |-> its[n].hash,
              ctx |-> active, sem |-> content[n].sem, kind |-> "claim"]
               \in {t \in Tickets : t.token \in Tokens}
  <2>1. its[n] \in Items /\ its[n].token \in Tokens /\ n \in Notices
    OBVIOUS
  <2>2. its[n].hash \in Contents /\ content[n].sem \in Semantics /\ "claim" \in Kinds
    BY <2>1 DEF Items, Contents, Kinds
  <2> QED
    BY <2>1, <2>2 DEF Tickets
<1>3. ASSUME NEW u \in tickets'
      PROVE  u \in Tickets /\ u.token \in Tokens
  <2>1. CASE \E n \in slice :
               u = [run |-> r, notice |-> n, token |-> its[n].token, hash |-> its[n].hash,
                    ctx |-> active, sem |-> content[n].sem, kind |-> "claim"]
    BY <1>2, <2>1
  <2>2. CASE \E t \in tickets : u = t \/ u = [t EXCEPT !.kind = "reissued"]
    BY <1>1, <2>2 DEF TicketsBearTokens
  <2> QED
    BY <2>1, <2>2 DEF Respond
<1> QED
  BY <1>3 DEF TicketsBearTokens

----------------------------------------------------------------------------
\* Every step preserves the invariant

LEMMA InitEstablishes == Init => IInv
<1> SUFFICES ASSUME Init PROVE IInv
  OBVIOUS
<1> USE DEF Init
<1>1. 1 \in Contexts
  BY SizesAssumption DEF Contexts
<1>2. ASSUME NEW n \in Notices
      PROVE  Sound(Absent(n), 1) /\ Absent(n).status = "absent"
  <2> DEFINE new == NewItem(n, 1, "eligible")
  <2>1. Sound(new, 1) /\ new \in Items /\ new.status = "pending"
    BY <1>1, NewItemSound DEF Reasons, Sound, NewItem
  <2>2. /\ new.token = NoToken /\ new.by = NoWorker /\ new.left = 0
    BY DEF NewItem
  <2>3. Absent(n) = [new EXCEPT !.status = "absent"]
    BY DEF Absent
  <2> HIDE DEF new
  <2>4. /\ Absent(n) \in Items /\ Absent(n).status = "absent" /\ Absent(n).token = NoToken
        /\ Absent(n).by = NoWorker /\ Absent(n).left = 0
    BY <2>1, <2>2, <2>3 DEF Items, ItemStatuses
  <2> QED
    BY <2>4, IdleSound DEF OpenStatuses
<1>3. ASSUME NEW r \in Runs
      PROVE  SoundItems(item[r], 1) /\ Open(item[r]) = {}
  <2>1. item[r] = [n \in Notices |-> item[r][n]] /\ \A n \in Notices : item[r][n] = Absent(n)
    OBVIOUS
  <2> QED
    BY <1>2, <2>1, Everywhere DEF Open, OpenStatuses
<1>4. /\ run \in [Runs -> RunRows] /\ \A r \in Runs : run[r].ctx = 1
  <2>1. (CHOOSE s \in Scopes : TRUE) \in Scopes
    BY SizesAssumption
  <2> QED
    BY <1>1, <2>1 DEF RunRows, RunStatuses
<1>5. item \in [Runs -> [Notices -> Items]]
  BY <1>3 DEF SoundItems
<1>6. TypeOK
  BY <1>1, <1>4, <1>5 DEF TypeOK
<1> QED
  BY <1>3, <1>4, <1>6
     DEF IInv, ItemsAreSound, OnlyActiveRunsHaveWork, TicketsBearTokens, BoundToThePast

LEMMA CreatePreserves ==
  ASSUME IInv, NEW r \in Runs, NEW scope \in Scopes, NEW again \in BOOLEAN,
         Create(r, scope, again)
  PROVE  IInv'
<1> USE DEF IInv, TypeOK, Create
<1> DEFINE row == [status |-> "pending", ctx |-> active, scope |-> scope,
                   include_previously_analyzed |-> again]
<1>1. run' = [run EXCEPT ![r] = row] /\ row \in RunRows
      /\ row.status = "pending" /\ row.ctx = active
  BY DEF RunRows, RunStatuses, ActiveStatuses
<1> HIDE DEF row
<1>2. Open(item[r]) = {}
  BY DEF OnlyActiveRunsHaveWork, ActiveStatuses
<1>3. SoundItems(item[r], active)
  BY <1>2 DEF ItemsAreSound, SoundItems, Sound, Open
<1>4. ItemsAreSound' /\ OnlyActiveRunsHaveWork'
  BY <1>1, <1>3 DEF ItemsAreSound, OnlyActiveRunsHaveWork, ActiveStatuses
<1>5. active <= active
  BY SizesAssumption DEF Contexts
<1>6. BoundToThePast'
  BY <1>1, <1>5 DEF BoundToThePast
<1> QED
  BY <1>1, <1>4, <1>6 DEF TicketsBearTokens

LEMMA InitializePreserves ==
  ASSUME IInv, NEW r \in Runs, Initialize(r)
  PROVE  IInv'
<1> USE DEF IInv, TypeOK, Initialize
<1> DEFINE its == Queued(r, item[r], Notices, run[r].ctx)
           status == IF \E n \in Notices : its[n].status # "absent"
                       THEN "running" ELSE "no_changes"
<1>1. run[r].ctx \in Contexts /\ SoundItems(item[r], run[r].ctx)
  BY DEF RunRows, ItemsAreSound
<1>2. SoundItems(its, run[r].ctx) /\ its \in [Notices -> Items]
  BY <1>1, QueuedSound DEF SoundItems
<1>3. status \in RunStatuses /\ (status \notin ActiveStatuses => Open(its) = {})
  BY DEF RunStatuses, ActiveStatuses, FinishedStatuses, Open, OpenStatuses
<1>4. item' = [item EXCEPT ![r] = its] /\ run' = [run EXCEPT ![r].status = status]
  OBVIOUS
<1> HIDE DEF its, status
<1>5. run' \in [Runs -> RunRows] /\ run'[r].status = status
      /\ \A q \in Runs : run'[q].ctx = run[q].ctx /\ (q # r => run'[q] = run[q])
  BY <1>3, <1>4 DEF RunRows
<1>6. item' \in [Runs -> [Notices -> Items]]
      /\ \A q \in Runs : item'[q] = IF q = r THEN its ELSE item[q]
  BY <1>2, <1>4
<1>7. ItemsAreSound' /\ OnlyActiveRunsHaveWork'
  BY <1>2, <1>3, <1>5, <1>6 DEF ItemsAreSound, OnlyActiveRunsHaveWork
<1> QED
  BY <1>5, <1>6, <1>7 DEF TicketsBearTokens, BoundToThePast

LEMMA AdmitPreserves ==
  ASSUME IInv, NEW r \in Runs, NEW recent \in SUBSET Notices, Admit(r, recent)
  PROVE  IInv'
<1> USE DEF IInv
<1>1. SoundItems(Rebound(r), active) /\ Open(Rebound(r)) \subseteq Open(item[r])
      /\ active \in Contexts /\ run[r].status \in RunStatuses
  BY ReboundSound DEF TypeOK, RunRows
<1>2. SoundItems(Queued(r, Rebound(r), recent, active), active)
  BY <1>1, QueuedSound
<1> DEFINE its == IF run[r].status \in FinishedStatuses \cup {"paused"} THEN Rebound(r)
                  ELSE Queued(r, Rebound(r), recent, active)
<1>3. SoundItems(its, active) /\ (run[r].status \notin ActiveStatuses => Open(its) = {})
  BY <1>1, <1>2 DEF OnlyActiveRunsHaveWork, Admit, Exists, RunStatuses
<1>4. Commit(r, run[r].status, its) /\ active' = active
  BY DEF Admit
<1> HIDE DEF its
<1>5. /\ run' \in [Runs -> RunRows] /\ item' \in [Runs -> [Notices -> Items]]
      /\ ItemsAreSound' /\ OnlyActiveRunsHaveWork' /\ BoundToThePast'
  BY <1>1, <1>3, <1>4, CommitSound
<1> QED
  BY <1>5 DEF Admit, TypeOK, TicketsBearTokens

\* Pause and Resume: another active status.
LEMMA PausePreserves ==
  ASSUME IInv, NEW r \in Runs, Pause(r) \/ Resume(r)
  PROVE  IInv'
<1> USE DEF IInv, TypeOK
<1>1. PICK status \in ActiveStatuses : run' = [run EXCEPT ![r].status = status]
  BY DEF Pause, Resume, ActiveStatuses
<1>2. run[r].status \in ActiveStatuses
  BY DEF Pause, Resume, ActiveStatuses
<1>3. run' \in [Runs -> RunRows] /\ run'[r].status = status
      /\ \A q \in Runs : run'[q].ctx = run[q].ctx /\ (q # r => run'[q] = run[q])
  BY <1>1 DEF RunRows, RunStatuses
<1>4. UNCHANGED <<content, visible, active, item, drafts, returned, tickets>>
  BY DEF Pause, Resume
<1>5. ItemsAreSound' /\ OnlyActiveRunsHaveWork'
  BY <1>3, <1>4 DEF ItemsAreSound, OnlyActiveRunsHaveWork
<1> QED
  BY <1>3, <1>4, <1>5 DEF TicketsBearTokens, BoundToThePast

LEMMA CancelPreserves ==
  ASSUME IInv, NEW r \in Runs, Cancel(r)
  PROVE  IInv'
<1> USE DEF IInv, TypeOK
<1> DEFINE its == [n \in Notices |-> IF item[r][n].status \in OpenStatuses
                     THEN Released(item[r][n], "cancelled") ELSE item[r][n]]
<1>1. ASSUME NEW n \in Notices
      PROVE  Sound(its[n], run[r].ctx) /\ its[n].status \notin OpenStatuses
  <2>1. item[r][n] \in Items /\ Sound(item[r][n], run[r].ctx)
    BY DEF ItemsAreSound, SoundItems
  <2> QED
    BY <2>1, ReleasedSound, ReleasedFields DEF ItemStatuses, OpenStatuses
<1>2. its = [n \in Notices |-> its[n]]
  OBVIOUS
<1>3. item' = [item EXCEPT ![r] = its] /\ run' = [run EXCEPT ![r].status = "cancelled"]
      /\ UNCHANGED <<content, visible, active, drafts, returned, tickets>>
  BY DEF Cancel
<1> HIDE DEF its
<1>4. SoundItems(its, run[r].ctx) /\ its \in [Notices -> Items] /\ Open(its) = {}
  BY <1>1, <1>2, Everywhere DEF SoundItems, Open
<1>5. run' \in [Runs -> RunRows]
      /\ \A q \in Runs : run'[q].ctx = run[q].ctx /\ (q # r => run'[q] = run[q])
  BY <1>3 DEF RunRows, RunStatuses, FinishedStatuses
<1>6. item' \in [Runs -> [Notices -> Items]]
      /\ \A q \in Runs : item'[q] = IF q = r THEN its ELSE item[q]
  BY <1>3, <1>4
<1>7. ItemsAreSound' /\ OnlyActiveRunsHaveWork'
  BY <1>4, <1>5, <1>6 DEF ItemsAreSound, OnlyActiveRunsHaveWork
<1> QED
  BY <1>3, <1>5, <1>6, <1>7 DEF TicketsBearTokens, BoundToThePast

LEMMA PreparedStatusOutcome ==
  ASSUME IInv, NEW r \in Runs, NEW due \in BOOLEAN, Claimable(r)
  PROVE  /\ PreparedStatus(r, due) \in RunStatuses
         /\ PreparedStatus(r, due) \notin ActiveStatuses => Open(Prepared(r, due)) = {}
         /\ PreparedStatus(r, due) \in ActiveStatuses \cup FinishedStatuses
<1>1. run[r].status \in ActiveStatuses /\ run[r].status \in RunStatuses
  BY DEF Claimable, ActiveStatuses, IInv, TypeOK, RunRows
<1>2. /\ Finalized(run[r].status, Prepared(r, due)) \in ActiveStatuses \cup FinishedStatuses
      /\ Finalized(run[r].status, Prepared(r, due)) \notin ActiveStatuses
           => Open(Prepared(r, due)) = {}
  BY <1>1 DEF Finalized, ActiveStatuses, FinishedStatuses
<1> QED
  BY <1>1, <1>2 DEF PreparedStatus, RunStatuses

LEMMA ClaimHeldSlicePreserves ==
  ASSUME IInv, NEW r \in Runs, NEW w \in Workers, NEW due \in BOOLEAN,
         ClaimHeldSlice(r, w, due)
  PROVE  IInv'
<1> USE DEF IInv
<1> DEFINE its == Prepared(r, due)
           status == PreparedStatus(r, due)
<1>1. PICK slice \in AtMost(HeldBy(its, w), SliceSize) :
        Commit(r, status, Captured(its, slice)) /\ Respond(r, its, slice)
  BY DEF ClaimHeldSlice
<1>2. slice \in SUBSET {n \in Notices : its[n].status = "claimed"}
  BY DEF AtMost, HeldBy
<1>3. SoundItems(its, active)
  BY PreparedSound
<1>4. status \in RunStatuses /\ (status \notin ActiveStatuses => Open(its) = {})
  BY PreparedStatusOutcome DEF ClaimHeldSlice
<1>5. UNCHANGED <<content, visible, active, drafts, returned>>
  BY DEF ClaimHeldSlice
<1> HIDE DEF its, status
<1>6. SoundItems(Captured(its, slice), active) /\ Open(Captured(its, slice)) \subseteq Open(its)
  BY <1>3, CapturedSound DEF TypeOK
<1>7. tickets' \in SUBSET Tickets /\ TicketsBearTokens'
  <2>1. slice \in SUBSET Notices /\ \A n \in slice : its[n] \in Items /\ its[n].token \in Tokens
    BY <1>2, <1>3 DEF SoundItems, Sound
  <2> QED
    BY <1>1, <2>1, RespondSound
<1>8. /\ run' \in [Runs -> RunRows] /\ item' \in [Runs -> [Notices -> Items]]
      /\ ItemsAreSound' /\ OnlyActiveRunsHaveWork' /\ BoundToThePast'
  BY <1>1, <1>4, <1>5, <1>6, CommitSound
<1> QED
  BY <1>5, <1>7, <1>8 DEF TypeOK

LEMMA ClaimNewReservationPreserves ==
  ASSUME IInv, NEW r \in Runs, NEW w \in Workers, NEW limit \in 1 .. ClaimLimit,
         NEW lease \in 1 .. LeaseTicks, NEW due \in BOOLEAN,
         ClaimNewReservation(r, w, limit, lease, due)
  PROVE  IInv'
<1> USE DEF IInv
<1> DEFINE its == Prepared(r, due)
           free == {n \in Notices : its[n].status \in {"pending", "retry"}}
           size == Window(its, limit)
<1>a. PICK S \in AtMost(free, size) :
        \E token \in [S -> Tokens] : \E slice \in AtMost(S, SliceSize) :
          /\ Commit(r, "waiting_for_results",
                    Captured(Reserved(its, S, w, token, lease), slice))
          /\ Respond(r, Reserved(its, S, w, token, lease), slice)
  BY DEF ClaimNewReservation
<1>b. PICK token \in [S -> Tokens] :
        \E slice \in AtMost(S, SliceSize) :
          /\ Commit(r, "waiting_for_results",
                    Captured(Reserved(its, S, w, token, lease), slice))
          /\ Respond(r, Reserved(its, S, w, token, lease), slice)
  BY <1>a
<1>1. PICK slice \in AtMost(S, SliceSize) :
        /\ Commit(r, "waiting_for_results", Captured(Reserved(its, S, w, token, lease), slice))
        /\ Respond(r, Reserved(its, S, w, token, lease), slice)
  BY <1>b
<1>2. S \in SUBSET free /\ slice \in SUBSET S
  BY DEF AtMost
<1>3. SoundItems(its, active)
  BY PreparedSound
<1>4. UNCHANGED <<content, visible, active, drafts, returned>>
  BY DEF ClaimNewReservation
<1> DEFINE held == Reserved(its, S, w, token, lease)
<1>5. SoundItems(held, active)
  <2> HIDE DEF its
  <2> QED
    BY <1>2, <1>3, ReservedSound
<1>6. ASSUME NEW n \in slice
      PROVE  n \in Notices /\ held[n].status = "claimed"
  <2>1. n \in S /\ n \in Notices /\ its[n] \in Items
    BY <1>2, <1>3 DEF SoundItems
  <2> HIDE DEF its
  <2> QED
    BY <2>1 DEF Reserved, Items
<1> HIDE DEF held
<1>7. SoundItems(Captured(held, slice), active)
  BY <1>5, CapturedSound DEF TypeOK
<1>8. tickets' \in SUBSET Tickets /\ TicketsBearTokens'
  <2>1. /\ slice \in SUBSET Notices
        /\ \A n \in slice : held[n] \in Items /\ held[n].token \in Tokens
    BY <1>5, <1>6 DEF SoundItems, Sound
  <2>2. Respond(r, held, slice)
    BY <1>1 DEF held
  <2> QED
    BY <2>1, <2>2, RespondSound
<1>9. /\ run' \in [Runs -> RunRows] /\ item' \in [Runs -> [Notices -> Items]]
      /\ ItemsAreSound' /\ OnlyActiveRunsHaveWork' /\ BoundToThePast'
  <2>1. Commit(r, "waiting_for_results", Captured(held, slice))
    BY <1>1 DEF held
  <2>2. "waiting_for_results" \in RunStatuses /\ "waiting_for_results" \in ActiveStatuses
    BY DEF RunStatuses, ActiveStatuses
  <2> QED
    BY <1>4, <1>7, <2>1, <2>2, CommitSound
<1> QED
  BY <1>4, <1>8, <1>9 DEF TypeOK

LEMMA ClaimNothingPreserves ==
  ASSUME IInv, NEW r \in Runs, NEW w \in Workers, NEW due \in BOOLEAN,
         ClaimNothing(r, w, due)
  PROVE  IInv'
<1> USE DEF IInv
<1>1. SoundItems(Prepared(r, due), active)
  BY PreparedSound
<1>2. /\ PreparedStatus(r, due) \in RunStatuses
      /\ PreparedStatus(r, due) \notin ActiveStatuses => Open(Prepared(r, due)) = {}
  BY PreparedStatusOutcome DEF ClaimNothing
<1>3. Commit(r, PreparedStatus(r, due), Prepared(r, due))
      /\ UNCHANGED <<content, visible, active, drafts, returned, tickets>>
  BY DEF ClaimNothing
<1>4. /\ run' \in [Runs -> RunRows] /\ item' \in [Runs -> [Notices -> Items]]
      /\ ItemsAreSound' /\ OnlyActiveRunsHaveWork' /\ BoundToThePast'
  BY <1>1, <1>2, <1>3, CommitSound
<1> QED
  BY <1>3, <1>4 DEF TypeOK, TicketsBearTokens

LEMMA RebindOnlyPreserves ==
  ASSUME IInv, NEW r \in Runs, RebindOnly(r)
  PROVE  IInv'
<1> USE DEF IInv
<1>1. SoundItems(Rebound(r), active) /\ Open(Rebound(r)) \subseteq Open(item[r])
      /\ run[r].status \in RunStatuses
  BY ReboundSound DEF TypeOK, RunRows
<1>2. run[r].status \notin ActiveStatuses => Open(Rebound(r)) = {}
  BY <1>1 DEF OnlyActiveRunsHaveWork
<1>3. Commit(r, run[r].status, Rebound(r))
      /\ UNCHANGED <<content, visible, active, drafts, returned, tickets>>
  BY DEF RebindOnly
<1>4. /\ run' \in [Runs -> RunRows] /\ item' \in [Runs -> [Notices -> Items]]
      /\ ItemsAreSound' /\ OnlyActiveRunsHaveWork' /\ BoundToThePast'
  BY <1>1, <1>2, <1>3, CommitSound
<1> QED
  BY <1>3, <1>4 DEF TypeOK, TicketsBearTokens

LEMMA RenewPreserves ==
  ASSUME IInv, NEW r \in Runs, NEW w \in Workers, NEW lease \in 1 .. LeaseTicks,
         Renew(r, w, lease)
  PROVE  IInv'
<1> USE DEF IInv
<1> DEFINE its == Renewed(Rebound(r), {w}, lease)
<1>1. SoundItems(Rebound(r), active) /\ Open(Rebound(r)) \subseteq Open(item[r])
      /\ run[r].status \in RunStatuses
  BY ReboundSound DEF TypeOK, RunRows
<1>2. SoundItems(its, active) /\ Open(its) \subseteq Open(item[r])
  BY <1>1, RenewedSound
<1>3. Commit(r, run[r].status, its)
      /\ UNCHANGED <<content, visible, active, drafts, returned, tickets>>
  BY DEF Renew
<1> HIDE DEF its
<1>4. run[r].status \notin ActiveStatuses => Open(its) = {}
  BY <1>2 DEF OnlyActiveRunsHaveWork
<1>5. /\ run' \in [Runs -> RunRows] /\ item' \in [Runs -> [Notices -> Items]]
      /\ ItemsAreSound' /\ OnlyActiveRunsHaveWork' /\ BoundToThePast'
  BY <1>1, <1>2, <1>3, <1>4, CommitSound
<1> QED
  BY <1>3, <1>5 DEF TypeOK, TicketsBearTokens

LEMMA JudgedItemsSound ==
  ASSUME IInv, NEW its, NEW ctx, SoundItems(its, ctx), NEW B \in SUBSET tickets,
         NEW material
  PROVE  /\ SoundItems(JudgedItems(its, B, material), ctx)
         /\ Open(JudgedItems(its, B, material)) \subseteq Open(its)
<1> USE DEF IInv, TypeOK
<1> DEFINE f == JudgedItems(its, B, material)
<1>1. ASSUME NEW n \in Notices
      PROVE  /\ Sound(f[n], ctx)
             /\ f[n].status \in OpenStatuses => its[n].status \in OpenStatuses
  <2>1. Sound(its[n], ctx)
    BY DEF SoundItems
  <2>2. CASE \E t \in B : t.notice = n
    <3> DEFINE t == CHOOSE t \in B : t.notice = n
               m == t \in material
    <3>1. t \in Tickets /\ t.token \in Tokens
      BY <2>2 DEF TicketsBearTokens
    <3>2. f[n] = Judged(its[n], t, m)
      BY <2>2 DEF JudgedItems
    <3>3. m \in BOOLEAN
      OBVIOUS
    <3> HIDE DEF t, m, f
    <3>4. /\ Sound(Judged(its[n], t, m), ctx)
          /\ Judged(its[n], t, m).status \in OpenStatuses => its[n].status \in OpenStatuses
      BY <2>1, <3>1, <3>3, JudgedSound
    <3> QED
      BY <3>2, <3>4
  <2>3. CASE ~(\E t \in B : t.notice = n)
    BY <2>1, <2>3 DEF JudgedItems
  <2> QED
    BY <2>2, <2>3
<1>2. f = [n \in Notices |-> f[n]]
  BY DEF JudgedItems
<1> HIDE DEF f
<1>3. SoundItems(f, ctx) /\ Open(f) \subseteq Open(its)
  BY <1>1, <1>2, Itemwise
<1> QED
  BY <1>3 DEF f

LEMMA DraftedTyped ==
  ASSUME TypeOK, NEW its \in [Notices -> Items], NEW material \in SUBSET tickets
  PROVE  Drafted(its, material) \subseteq DraftKeys
<1> USE DEF TypeOK
<1>1. ASSUME NEW t \in material
      PROVE  ExactDraft(t.notice, active, HashNow(its[t.notice], t)) \in DraftKeys
  <2>1. t.notice \in Notices /\ its[t.notice] \in Items
    BY DEF Tickets
  <2>2. HashNow(its[t.notice], t) \in Contents
    BY <2>1 DEF HashNow, Items
  <2> QED
    BY <2>1, <2>2 DEF ExactDraft, DraftKeys
<1> QED
  BY <1>1 DEF Drafted

LEMMA ImportPreserves ==
  ASSUME IInv, NEW r \in Runs, NEW B \in SUBSET TicketsOf(r), NEW material \in SUBSET B,
         Import(r, B, material)
  PROVE  IInv'
<1> USE DEF IInv
<1> DEFINE its == Rebound(r)
           judged == JudgedItems(its, B, material)
           status == Finalized(run[r].status, judged)
           ws == Renewers(its, B)
<1>1. B \in SUBSET tickets /\ material \in SUBSET tickets
  BY DEF TicketsOf
<1>2. SoundItems(its, active)
  BY ReboundSound
<1>3. Commit(r, status, Renewed(judged, ws, LeaseTicks)) /\ drafts' = drafts \cup Drafted(its, material)
      /\ UNCHANGED <<content, visible, active, returned, tickets>>
  BY DEF Import
<1>4. Drafted(its, material) \subseteq DraftKeys
  BY <1>1, <1>2, DraftedTyped DEF SoundItems
<1> HIDE DEF its, ws
<1>5. SoundItems(judged, active)
  BY <1>1, <1>2, JudgedItemsSound
<1> HIDE DEF judged
<1>6. status \in RunStatuses /\ (status \notin ActiveStatuses => Open(judged) = {})
  <2>1. run[r].status \in RunStatuses
    BY DEF TypeOK, RunRows
  <2> QED
    BY <2>1, FinalizedOutcome
<1> HIDE DEF status
<1>7. LeaseTicks \in 1 .. LeaseTicks
  BY SizesAssumption
<1>8. /\ SoundItems(Renewed(judged, ws, LeaseTicks), active)
      /\ Open(Renewed(judged, ws, LeaseTicks)) \subseteq Open(judged)
  BY <1>5, <1>7, RenewedSound
<1>9. /\ run' \in [Runs -> RunRows] /\ item' \in [Runs -> [Notices -> Items]]
      /\ ItemsAreSound' /\ OnlyActiveRunsHaveWork' /\ BoundToThePast'
  BY <1>3, <1>6, <1>8, CommitSound
<1> QED
  BY <1>3, <1>4, <1>9 DEF TypeOK, TicketsBearTokens

LEMMA EnvironmentPreserves ==
  ASSUME IInv, Environment
  PROVE  IInv'
<1> USE DEF IInv, TypeOK
<1>1. CASE Tick
  <2> USE <1>1 DEF Tick
  <2>1. ASSUME NEW r \in Runs
        PROVE  /\ SoundItems(item'[r], run[r].ctx)
               /\ Open(item'[r]) = Open(item[r])
    <3>1. ASSUME NEW n \in Notices
          PROVE  Sound(item'[r][n], run[r].ctx) /\ item'[r][n].status = item[r][n].status
      <4>1. Sound(item[r][n], run[r].ctx)
        BY DEF ItemsAreSound, SoundItems
      <4>2. item'[r][n] = Aged(item[r][n])
        OBVIOUS
      <4> QED
        BY <4>1, <4>2, AgedSound
    <3>2. item'[r] = [n \in Notices |-> item'[r][n]]
      OBVIOUS
    <3> QED
      BY <3>1, <3>2, Everywhere DEF Open
  <2>2. item' \in [Runs -> [Notices -> Items]]
    <3>1. \A r \in Runs : item'[r] \in [Notices -> Items]
      BY <2>1 DEF SoundItems
    <3> QED
      BY <3>1
  <2> QED
    BY <2>1, <2>2 DEF ItemsAreSound, OnlyActiveRunsHaveWork, TicketsBearTokens,
       BoundToThePast
<1>2. CASE \E n \in Notices, c \in Contents : EditNotice(n, c)
  BY <1>2 DEF EditNotice, ItemsAreSound, OnlyActiveRunsHaveWork, TicketsBearTokens,
       BoundToThePast
<1>3. CASE \E n \in Notices : ToggleNotice(n)
  BY <1>3 DEF ToggleNotice, ItemsAreSound, OnlyActiveRunsHaveWork, TicketsBearTokens,
       BoundToThePast
<1>4. CASE ActivateContext
  <2>1. active' \in Contexts /\ \A c \in Contexts : c <= active => c <= active'
    BY <1>4, SizesAssumption DEF ActivateContext, Contexts
  <2>2. \A r \in Runs : run[r].ctx \in Contexts
    BY DEF RunRows
  <2> QED
    BY <1>4, <2>1, <2>2
       DEF ActivateContext, ItemsAreSound, OnlyActiveRunsHaveWork, TicketsBearTokens,
       BoundToThePast
<1>5. CASE \E d \in drafts : ReviewDraft(d)
  BY <1>5 DEF ReviewDraft, ItemsAreSound, OnlyActiveRunsHaveWork, TicketsBearTokens,
       BoundToThePast
<1>6. CASE \E t \in tickets : Drop(t)
  BY <1>6 DEF Drop, ItemsAreSound, OnlyActiveRunsHaveWork, TicketsBearTokens,
       BoundToThePast
<1> QED
  BY <1>1, <1>2, <1>3, <1>4, <1>5, <1>6 DEF Environment

LEMMA StepPreserves == IInv /\ [Next]_vars => IInv'
<1> SUFFICES ASSUME IInv, [Next]_vars
             PROVE  IInv'
  OBVIOUS
<1>1. CASE UNCHANGED vars
  BY <1>1 DEF vars, IInv, TypeOK, ItemsAreSound, OnlyActiveRunsHaveWork, TicketsBearTokens,
                 BoundToThePast
<1>2. ASSUME NEW r \in Runs, Start(r)
      PROVE  IInv'
  BY <1>2, CreatePreserves DEF Start
<1>3. ASSUME NEW r \in Runs, Initialize(r)
      PROVE  IInv'
  BY <1>3, InitializePreserves
<1>4. ASSUME NEW r \in Runs, Claim(r)
      PROVE  IInv'
  BY <1>4, ClaimHeldSlicePreserves, ClaimNewReservationPreserves, ClaimNothingPreserves
     DEF Claim
<1>5. ASSUME NEW r \in Runs, Operate(r)
      PROVE  IInv'
  BY <1>4, <1>5, AdmitPreserves, PausePreserves, CancelPreserves, RebindOnlyPreserves,
     RenewPreserves, ImportPreserves DEF Operate
<1>6. CASE Environment
  BY <1>6, EnvironmentPreserves
<1> QED
  BY <1>1, <1>2, <1>3, <1>5, <1>6 DEF Next

\* Every reachable state satisfies the inductive invariant.
THEOREM Invariance == Spec => []IInv
<1>1. Init => IInv
  BY InitEstablishes
<1>2. IInv /\ [Next]_vars => IInv'
  BY StepPreserves
<1> QED
  BY <1>1, <1>2, PTL DEF Spec

----------------------------------------------------------------------------
\* The safety properties

\* Every variable keeps its type, for runs, notices, workers and sizes of any number.
THEOREM TypeCorrectness == Spec => []TypeOK
<1>1. IInv => TypeOK
  BY DEF IInv
<1> QED
  BY <1>1, Invariance, PTL

\* Claim columns and status agree (see ClaimColumns): no exit from CLAIMED forgets
\* the token or the lease.
THEOREM ClaimColumnsAgree == Spec => []ClaimColumns
<1>1. IInv => ClaimColumns
  BY DEF IInv, ItemsAreSound, SoundItems, Sound, ClaimColumns
<1> QED
  BY <1>1, Invariance, PTL

\* Open work is always bound to the context of its run.
THEOREM OpenWorkStaysBound == Spec => []OpenWorkIsBound
<1>1. IInv => OpenWorkIsBound
  BY DEF IInv, ItemsAreSound, SoundItems, Sound, OpenWorkIsBound
<1> QED
  BY <1>1, Invariance, PTL

\* A finished run holds no open work, whatever is imported into it afterwards.
THEOREM FinishedRunsStayDone == Spec => []FinishedRunsAreDone
<1>1. IInv => FinishedRunsAreDone
  BY DEF IInv, OnlyActiveRunsHaveWork, FinishedRunsAreDone, FinishedStatuses, ActiveStatuses
<1> QED
  BY <1>1, Invariance, PTL

\* No sequence of renewals, explicit or rolling, outlives the hard age by more than
\* one lease.
THEOREM ReservationsEnd == Spec => []ReservationsAge
<1>1. IInv => ReservationsAge
  BY DEF IInv, ItemsAreSound, SoundItems, Sound, ReservationsAge
<1> QED
  BY <1>1, Invariance, PTL

----------------------------------------------------------------------------
\* The Celery tasks around the run, which look without a lock and write what they have
\* decided, keep the invariant all the same.

\* Together with the types of the broker and of the continuations in progress.
TasksInv == IInv /\ queue \in SUBSET Messages /\ cont \in [Runs -> Continuations]

\* The messages that are sent are messages.
LEMMA MessagesTyped ==
  ASSUME NEW r \in Runs
  PROVE  Message("initialize", r) \in Messages /\ Message("continue", r) \in Messages
  BY DEF Message, Messages

\* No continuation is one.
LEMMA IdleTyped == Idle \in Continuations
  BY DEF Idle, Continuations, RunStatuses

\* A status written over the one of run r keeps the invariant if it does not finish
\* a run that has open work.
LEMMA StatusPreserves ==
  ASSUME IInv, NEW r \in Runs, NEW status \in RunStatuses,
         status \notin ActiveStatuses => Open(item[r]) = {},
         run' = [run EXCEPT ![r].status = status],
         UNCHANGED <<content, visible, active, item, drafts, returned, tickets>>
  PROVE  IInv'
<1>1. run \in [Runs -> RunRows]
  BY DEF IInv, TypeOK
<1>2. /\ run' \in [Runs -> RunRows]
      /\ \A q \in Runs : run'[q].ctx = run[q].ctx
      /\ \A q \in Runs : run'[q].status = IF q = r THEN status ELSE run[q].status
  BY <1>1 DEF RunRows
<1>3. TypeOK'
  BY <1>2 DEF IInv, TypeOK
<1>4. ItemsAreSound' /\ BoundToThePast' /\ TicketsBearTokens'
  BY <1>2 DEF IInv, ItemsAreSound, BoundToThePast, TicketsBearTokens
<1>5. OnlyActiveRunsHaveWork'
  BY <1>2 DEF IInv, OnlyActiveRunsHaveWork
<1> QED
  BY <1>3, <1>4, <1>5 DEF IInv

\* finalize_run_if_exhausted, as the continuation calls it: the items are counted
\* again under the lock, so a run with open work is not closed.
LEMMA ContinueFinalizePreserves ==
  ASSUME TasksInv, NEW r \in Runs, ContinueFinalize(r)
  PROVE  TasksInv'
<1> DEFINE status == Finalized(run[r].status, item[r])
<1>1. status \in RunStatuses /\ (status \notin ActiveStatuses => Open(item[r]) = {})
  BY FinalizedOutcome DEF TasksInv, IInv, TypeOK, RunRows, Finalized, RunStatuses, ActiveStatuses,
     FinishedStatuses
<1>2. IInv'
  <2> HIDE DEF status
  <2>1. CASE run' = [run EXCEPT ![r].status = status]
    BY <1>1, <2>1, StatusPreserves DEF ContinueFinalize, TasksInv
  <2>2. CASE run' = run
    BY <2>2, StepPreserves DEF ContinueFinalize, TasksInv, vars
  <2> QED
    BY <2>1, <2>2 DEF ContinueFinalize, status
<1>3. queue' \in SUBSET Messages /\ cont' \in [Runs -> Continuations]
  BY IdleTyped DEF TasksInv, ContinueFinalize
<1> QED
  BY <1>2, <1>3 DEF TasksInv

\* The continuation overwrites the status it finds, but only by RUNNING.
LEMMA ContinueSavePreserves ==
  ASSUME TasksInv, NEW r \in Runs, ContinueSave(r)
  PROVE  TasksInv'
<1>1. "running" \in RunStatuses /\ "running" \in ActiveStatuses
  BY DEF RunStatuses, ActiveStatuses
<1>2. IInv'
  <2>1. CASE run' = [run EXCEPT ![r].status = "running"]
    BY <1>1, <2>1, StatusPreserves DEF ContinueSave, TasksInv
  <2>2. CASE run' = run
    BY <2>2, StepPreserves DEF ContinueSave, TasksInv, vars
  <2> QED
    BY <2>1, <2>2 DEF ContinueSave
<1>3. queue' \in SUBSET Messages /\ cont' \in [Runs -> Continuations]
  BY IdleTyped DEF TasksInv, ContinueSave
<1> QED
  BY <1>2, <1>3 DEF TasksInv

\* The other steps of the tasks are requests of AnalysisRun, or leave its tables.
LEMMA TaskStepPreserves ==
  ASSUME TasksInv, NEW r \in Runs, TaskStep(r)
  PROVE  TasksInv'
<1>1. CASE StartAndSend(r) \/ StartAndDie(r)
  <2>1. IInv'
    BY <1>1, StepPreserves DEF StartAndSend, StartAndDie, Next, TasksInv
  <2>2. queue' \in SUBSET Messages /\ cont' = cont
    BY <1>1, MessagesTyped DEF StartAndSend, StartAndDie, taskVars, TasksInv
  <2> QED
    BY <2>1, <2>2 DEF TasksInv
<1>2. CASE ReceiveInitialize(r)
  <2>1. IInv'
    BY <1>2, StepPreserves DEF ReceiveInitialize, Next, TasksInv
  <2>2. queue' \in SUBSET Messages /\ cont' = cont
    BY <1>2 DEF ReceiveInitialize, TasksInv
  <2> QED
    BY <2>1, <2>2 DEF TasksInv
<1>3. CASE Dispatch(r) \/ ReceiveContinue(r) \/ CountOpen(r) \/ ContinueDies(r)
  <2>1. IInv'
    BY <1>3, StepPreserves
       DEF Dispatch, ReceiveContinue, CountOpen, ContinueDies, TasksInv
  <2>2. queue' \in SUBSET Messages
    BY <1>3, MessagesTyped DEF Dispatch, ReceiveContinue, CountOpen, ContinueDies, TasksInv
  <2>3. cont' \in [Runs -> Continuations]
    <3>1. CASE Dispatch(r)
      BY <3>1 DEF Dispatch, TasksInv
    <3>2. CASE ReceiveContinue(r)
      <4>1. [at |-> "read", read |-> run[r].status, open |-> FALSE] \in Continuations
        BY DEF TasksInv, IInv, TypeOK, RunRows, Continuations
      <4> QED
        BY <3>2, <4>1 DEF ReceiveContinue, TasksInv
    <3>3. CASE CountOpen(r)
      <4> DEFINE open == Open(item[r]) # {}
      <4>1. open \in BOOLEAN
        OBVIOUS
      <4>2. cont' = [cont EXCEPT ![r] = [cont[r] EXCEPT !.at = "counted", !.open = open]]
        BY <3>3 DEF CountOpen
      <4> HIDE DEF open
      <4>3. cont[r] \in Continuations
        BY DEF TasksInv
      <4>4. [cont[r] EXCEPT !.at = "counted", !.open = open] \in Continuations
        BY <4>1, <4>3 DEF Continuations
      <4> QED
        BY <4>2, <4>4 DEF TasksInv
    <3>4. CASE ContinueDies(r)
      BY <3>4, IdleTyped DEF ContinueDies, TasksInv
    <3> QED
      BY <1>3, <3>1, <3>2, <3>3, <3>4
  <2> QED
    BY <2>1, <2>2, <2>3 DEF TasksInv
<1>4. CASE ContinueFinalize(r) \/ ContinueSave(r)
  BY <1>4, ContinueFinalizePreserves, ContinueSavePreserves
<1> QED
  BY <1>1, <1>2, <1>3, <1>4 DEF TaskStep

\* Every step of engine or tasks keeps the invariant of both.
LEMMA TasksStepPreserves == TasksInv /\ [TasksNext]_allVars => TasksInv'
<1> SUFFICES ASSUME TasksInv, [TasksNext]_allVars PROVE TasksInv'
  OBVIOUS
<1>1. CASE \E r \in Runs : TaskStep(r)
  BY <1>1, TaskStepPreserves
<1>2. CASE \/ \E r \in Runs : Operate(r) /\ UNCHANGED taskVars
           \/ Environment /\ UNCHANGED taskVars
  <2>1. [Next]_vars
    BY <1>2 DEF Next
  <2> QED
    BY <1>2, <2>1, StepPreserves DEF TasksInv, taskVars
<1>3. CASE UNCHANGED allVars
  BY <1>3, StepPreserves DEF allVars, taskVars, TasksInv
<1> QED
  BY <1>1, <1>2, <1>3 DEF TasksNext

----------------------------------------------------------------------------
\* The theorems

\* Whatever the tasks do between the requests, the invariant of the run holds.
THEOREM TasksInvariance == TasksSpec => []TasksInv
<1>1. TasksInit => TasksInv
  BY InitEstablishes, IdleTyped DEF TasksInit, TasksInv
<1>2. TasksInv /\ [TasksNext]_allVars => TasksInv'
  BY TasksStepPreserves
<1> QED
  BY <1>1, <1>2, PTL DEF TasksSpec

\* Every variable keeps its type, the broker and the continuations included.
THEOREM TasksAreTyped == TasksSpec => []TasksTypeOK
<1>1. TasksInv => TasksTypeOK
  BY DEF TasksInv, IInv, TasksTypeOK
<1> QED
  BY <1>1, TasksInvariance, PTL

\* A continuation that decides by an old count never leaves a finished run with open
\* work: it closes a run under the lock, and otherwise writes RUNNING only
\* (continue_analysis_run_task, finalize_run_if_exhausted).
THEOREM TasksFinishNothingOpen ==
  TasksSpec => [](FinishedRunsAreDone /\ ClaimColumns /\ OpenWorkIsBound /\ ReservationsAge)
<1>1. TasksInv => FinishedRunsAreDone
  BY DEF TasksInv, IInv, OnlyActiveRunsHaveWork, FinishedRunsAreDone, FinishedStatuses,
     ActiveStatuses
<1>2. TasksInv => ClaimColumns /\ OpenWorkIsBound /\ ReservationsAge
  BY DEF TasksInv, IInv, ItemsAreSound, SoundItems, Sound, ClaimColumns, OpenWorkIsBound,
     ReservationsAge
<1> QED
  BY <1>1, <1>2, TasksInvariance, PTL
====
