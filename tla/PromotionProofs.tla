--------------------------- MODULE PromotionProofs ---------------------------
(* Proofs about the promotion system: the coordinator's workstreams and        *)
(* deployment records beside the lane of PromotionLaneProofs.                  *)
EXTENDS PromotionLaneProofs, FiniteSetTheorems

(* What the coordinator's files, the lease and the queue may hold.             *)
CoStates == [ws : [Workstreams -> WsRecords], deps : Seq(DeployRecords), lease : Leases,
             incoming : SUBSET AgentIds]

CandRecords == [state : {"none", "stale"} \cup WsStates, ev : {"none", "passed", "failed"},
                req : BOOLEAN]

(* The lane has deployed commit c and checked its health.                      *)
LaneEarned(c, D) == /\ \E a \in D : a.of = "ticket" /\ a.head = c
                    /\ \E a \in D : a.of = "health" /\ a.head = c

(* Commit c of workstream w has been deployed, here or in the lane.            *)
Earned(ds, w, c, D) ==
  \/ \E d \in DOMAIN ds : /\ ds[d].ws = w /\ ds[d].head = c
                          /\ Request("coord", d, "deploy", c) \in D
  \/ LaneEarned(c, D)

(* A record copied from the lane is of a commit the lane has deployed, and     *)
(* waits for nothing.                                                          *)
CopiesEarned(ds, D) ==
  \A d \in DOMAIN ds : ds[d].lane # 0 => LaneEarned(ds[d].head, D) /\ ~ds[d].pend

(* Agent request x is the one of deployment record d.                          *)
SentAs(ds, d, x) == ds[d].lane = 0 /\ x = Request("coord", d, "deploy", ds[d].head)

(* Every request of the coordinator in X is of a record.                       *)
AllSent(ds, X) == \A x \in X : x.of = "coord" => \E d \in DOMAIN ds : SentAs(ds, d, x)

(* A second record of one head and key that is no redeployment stands behind   *)
(* records that have failed for good.                                          *)
SecondAfterFailure(ds) ==
  \A d, e \in DOMAIN ds :
    (/\ d < e /\ ds[d].head = ds[e].head /\ ds[d].key = ds[e].key
     /\ ~ds[e].again /\ ds[d].lane = 0 /\ ds[e].lane = 0)
      => (ds[d].hist = "failed" /\ ~ds[d].pend)

(* Histories of success are true, accepted candidates are earned, and every    *)
(* deployment is of a candidate its workstream knows.                          *)
CoGood(co, D) ==
  /\ co \in CoStates
  /\ \A d \in DOMAIN co.deps :
       /\ co.deps[d].hist = "succeeded" =>
            \/ Request("coord", d, "deploy", co.deps[d].head) \in D
            \/ LaneEarned(co.deps[d].head, D)
       /\ co.ws[co.deps[d].ws].cands[co.deps[d].head].state # "none"
  /\ \A w \in Workstreams, c \in Commits :
       co.ws[w].cands[c].state = "pre_merge" => Earned(co.deps, w, c, D)
  /\ CopiesEarned(co.deps, D) /\ SecondAfterFailure(co.deps) /\ AllSent(co.deps, co.incoming)

(* No write of the coordinator touches a lease of the lane, or makes one.      *)
LaneLeaseKept(l, k) == l.by = "lane" \/ k.by = "lane" => k = l

(* The coordinator's own records go on deploying what they deploy.             *)
Retained(ds, es) ==
  /\ DOMAIN ds \subseteq DOMAIN es
  /\ \A d \in DOMAIN ds : ds[d].lane = 0 => es[d].lane = 0 /\ es[d].head = ds[d].head

(* A write of the coordinator publishes its own requests only.                 *)
CoSound(co, g, D) ==
  /\ CoGood(g, D)
  /\ \A x \in g.incoming : x \in co.incoming \/ x.of = "coord"
  /\ LaneLeaseKept(co.lease, g.lease) /\ Retained(co.deps, g.deps)

(* A candidate never vanishes, and only the commits of E come to be accepted.  *)
Advances(old, new, E) ==
  /\ new \in WsRecords
  /\ \A c \in Commits :
       /\ old.cands[c].state # "none" => new.cands[c].state # "none"
       /\ new.cands[c].state = "pre_merge" => old.cands[c].state = "pre_merge" \/ c \in E

CoordInv ==
  /\ CoGood(Co, done)
  /\ AllSent(deps, done \cup {working})
  /\ test \in [ws : Workstreams \cup {0}, live : BOOLEAN] /\ calls \in Nat

(* A lease of the lane is the active ticket's; a thread that has found the     *)
(* lane free still finds no ticket; and without a crash the active ticket has  *)
(* its lease.                                                                  *)
LeaseInv ==
  /\ lease.by = "lane" => active # NoTicket /\ lease.owner = active.ticket
  /\ \A a \in Threads : thread[a].pc = "activate" => active = NoTicket
  /\ crashes = 0 /\ active # NoTicket => lease.by = "lane"

(* The inductive invariant of the promotion system.                            *)
PromotionInv == LaneInv /\ CoordInv /\ LeaseInv

-----------------------------------------------------------------------------
(* Single writes of the coordinator.                                           *)

LEMMA AdvancesIsPreorder ==
  /\ \A i \in WsRecords : \A E : Advances(i, i, E)
  /\ \A i, j, k, E : Advances(i, j, E) /\ Advances(j, k, E) => Advances(i, k, E)
BY DEF Advances

(* A workstream record is its fields.                                          *)
LEMMA WsFields ==
  ASSUME NEW i \in WsRecords
  PROVE  /\ i.reg \in BOOLEAN /\ i.live \in BOOLEAN /\ i.state \in WsStates
         /\ i.head \in Commits \cup {0} /\ i.cands \in [Commits -> CandRecords]
BY DEF WsRecords, CandRecords

(* One candidate of a workstream is written.                                   *)
LEMMA CandAdvances ==
  ASSUME NEW i \in WsRecords, NEW c \in Commits, NEW cand \in CandRecords, NEW E,
         cand.state # "none",
         cand.state = "pre_merge" => i.cands[c].state = "pre_merge" \/ c \in E
  PROVE  /\ Advances(i, WithCand(i, c, cand), E)
         /\ WithCand(i, c, cand).cands[c] = cand
         /\ WithCand(i, c, cand).state = i.state /\ WithCand(i, c, cand).head = i.head
<1> DEFINE j == WithCand(i, c, cand)
<1>1. /\ j.cands = [i.cands EXCEPT ![c] = cand] /\ j.reg = i.reg /\ j.live = i.live
      /\ j.state = i.state /\ j.head = i.head
  BY DEF WithCand, WsRecords
<1>2. i.cands \in [Commits -> CandRecords]
  BY WsFields
<1>3. j.cands \in [Commits -> CandRecords]
  BY <1>1, <1>2
<1>4. j \in WsRecords
  BY <1>1, <1>3 DEF WithCand, WsRecords, CandRecords
<1>5. \A d \in Commits : j.cands[d] = IF d = c THEN cand ELSE i.cands[d]
  BY <1>1, <1>2
<1> HIDE DEF j
<1>6. Advances(i, j, E)
  BY <1>4, <1>5 DEF Advances
<1> QED
  BY <1>1, <1>5, <1>6 DEF j

(* The other fields of a workstream do not matter to its candidates.           *)
LEMMA FieldsAdvance ==
  ASSUME NEW i \in WsRecords, NEW s \in WsStates, NEW b \in BOOLEAN, NEW r \in BOOLEAN,
         NEW h \in Commits \cup {0}, NEW E
  PROVE  /\ Advances(i, [i EXCEPT !.state = s], E)
         /\ Advances(i, [i EXCEPT !.live = b], E)
         /\ Advances(i, [i EXCEPT !.state = s, !.live = b], E)
         /\ Advances(i, [i EXCEPT !.reg = r, !.live = b], E)
         /\ Advances(i, [i EXCEPT !.head = h], E)
         /\ [i EXCEPT !.head = h].head = h
BY DEF Advances, WsRecords

(* A registration adds a candidate, or finds it.                              *)
LEMMA UpsertAdvances ==
  ASSUME NEW i \in WsRecords, NEW c \in Commits, NEW asked \in Asked, NEW E
  PROVE  /\ Advances(i, Upsert(i, c, asked), E)
         /\ Upsert(i, c, asked).cands[c].state # "none" /\ Upsert(i, c, asked).head = c
<1> DEFINE old == i.head
           aged == IF old \notin {0, c} /\ i.cands[old].state \notin FinalWs
                   THEN WithCand(i, old, [i.cands[old] EXCEPT !.state = "stale"]) ELSE i
           found == aged.cands[c]
           cand == [found EXCEPT !.req = (asked = "some" \/ (asked = "nothing" /\ @))]
           next == IF cand.state \in {"none", "stale"}
                   THEN [cand EXCEPT !.state = "developing"] ELSE cand
           mid == WithCand(aged, c, next)
<1>1. Advances(i, aged, E)
  <2>1. CASE old \notin {0, c} /\ i.cands[old].state \notin FinalWs
    <3>1. old \in Commits /\ i.cands[old] \in CandRecords
      BY <2>1, WsFields
    <3>2. /\ [i.cands[old] EXCEPT !.state = "stale"] \in CandRecords
          /\ [i.cands[old] EXCEPT !.state = "stale"].state = "stale"
      BY <3>1 DEF CandRecords
    <3> DEFINE k == [i.cands[old] EXCEPT !.state = "stale"]
    <3>3. k \in CandRecords /\ k.state # "none" /\ k.state # "pre_merge"
      BY <3>2
    <3> HIDE DEF k
    <3>4. Advances(i, WithCand(i, old, k), E)
      BY <3>1, <3>3, CandAdvances
    <3> QED
      BY <2>1, <3>4 DEF k
  <2>2. CASE ~(old \notin {0, c} /\ i.cands[old].state \notin FinalWs)
    BY <2>2, AdvancesIsPreorder
  <2> QED
    BY <2>1, <2>2
<1>2. aged \in WsRecords /\ found \in CandRecords
  <2>1. aged \in WsRecords
    BY <1>1 DEF Advances
  <2> HIDE DEF aged
  <2> QED
    BY <2>1, WsFields
<1> HIDE DEF aged, found
<1> DEFINE b == asked = "some" \/ (asked = "nothing" /\ found.req)
<1>9. cand \in CandRecords /\ cand.state = found.state
  <2>1. b \in BOOLEAN /\ cand = [found EXCEPT !.req = b]
    BY <1>2 DEF CandRecords
  <2> HIDE DEF b, cand
  <2> QED
    BY <1>2, <2>1 DEF CandRecords
<1> HIDE DEF cand
<1>3. next \in CandRecords /\ next.state # "none" /\ (next.state = "pre_merge" => found.state = "pre_merge")
  BY <1>9 DEF CandRecords, WsStates
<1> HIDE DEF next
<1>4. Advances(aged, mid, E) /\ mid.cands[c] = next
  BY <1>2, <1>3, CandAdvances DEF found
<1>5. mid \in WsRecords
  BY <1>4 DEF Advances
<1> HIDE DEF mid
<1>6. /\ Advances(mid, [mid EXCEPT !.head = c], E)
      /\ [mid EXCEPT !.head = c].head = c /\ [mid EXCEPT !.head = c].cands = mid.cands
  BY <1>5, FieldsAdvance DEF WsRecords
<1>7. Upsert(i, c, asked) = [mid EXCEPT !.head = c]
  BY DEF Upsert, mid, next, cand, found, aged
<1>8. Advances(i, mid, E)
  BY <1>1, <1>4, AdvancesIsPreorder
<1> QED
  BY <1>3, <1>4, <1>6, <1>7, <1>8, AdvancesIsPreorder

(* The fields of the coordinator's files.                                      *)
LEMMA CoFields ==
  ASSUME NEW co \in CoStates
  PROVE  /\ co.ws \in [Workstreams -> WsRecords] /\ co.deps \in Seq(DeployRecords)
         /\ co.lease \in Leases /\ co.incoming \subseteq AgentIds
         /\ DOMAIN co.deps \subseteq Nat
         /\ \A d \in DOMAIN co.deps : /\ co.deps[d] \in DeployRecords
                                      /\ co.deps[d].ws \in Workstreams
                                      /\ co.deps[d].head \in Commits
<1>1. co.deps \in Seq(DeployRecords)
  BY DEF CoStates
<1>2. \A d \in DOMAIN co.deps : co.deps[d] \in DeployRecords
  BY <1>1, ElementOfSeq, LenProperties
<1> QED
  BY <1>1, <1>2, LenProperties DEF CoStates, DeployRecords

(* Sound writes compose.                                                      *)
LEMMA CoSoundIsPreorder ==
  /\ \A co, D : CoGood(co, D) => CoSound(co, co, D)
  /\ \A f, g, h, D : CoSound(f, g, D) /\ CoSound(g, h, D) => CoSound(f, h, D)
BY DEF CoSound, LaneLeaseKept, Retained

(* A write that leaves the records, the queue and the lease alone.             *)
LEMMA RecordsAreKept ==
  /\ \A ds : Retained(ds, ds)
  /\ \A l : LaneLeaseKept(l, l)
BY DEF LaneLeaseKept, Retained

(* A workstream is written: what comes to be accepted is earned.               *)
LEMMA WithWsIsSound ==
  ASSUME NEW D, NEW co, CoGood(co, D), NEW w \in Workstreams, NEW item,
         Advances(co.ws[w], item, {c \in Commits : Earned(co.deps, w, c, D)})
  PROVE  /\ CoSound(co, WithWs(co, w, item), D)
         /\ WithWs(co, w, item).deps = co.deps
         /\ WithWs(co, w, item).lease = co.lease
         /\ WithWs(co, w, item).incoming = co.incoming
         /\ \A v \in Workstreams : WithWs(co, w, item).ws[v] = IF v = w THEN item ELSE co.ws[v]
<1> DEFINE g == WithWs(co, w, item)
<1>1. co \in CoStates /\ item \in WsRecords /\ co.ws \in [Workstreams -> WsRecords]
  BY CoFields DEF CoGood, Advances
<1>2. /\ g.ws = [co.ws EXCEPT ![w] = item] /\ g.deps = co.deps /\ g.lease = co.lease
      /\ g.incoming = co.incoming /\ g \in CoStates
  BY <1>1 DEF WithWs, CoStates
<1>3. \A v \in Workstreams : g.ws[v] = IF v = w THEN item ELSE co.ws[v]
  BY <1>1, <1>2
<1>4. \A d \in DOMAIN co.deps : co.deps[d].ws \in Workstreams /\ co.deps[d].head \in Commits
  BY <1>1, CoFields
<1> HIDE DEF g
<1>5. \A d \in DOMAIN g.deps :
        /\ g.deps[d].hist = "succeeded" =>
             \/ Request("coord", d, "deploy", g.deps[d].head) \in D
             \/ LaneEarned(g.deps[d].head, D)
        /\ g.ws[g.deps[d].ws].cands[g.deps[d].head].state # "none"
  <2> TAKE d \in DOMAIN g.deps
  <2>1. /\ g.deps[d].hist = "succeeded" =>
             \/ Request("coord", d, "deploy", g.deps[d].head) \in D
             \/ LaneEarned(g.deps[d].head, D)
        /\ co.ws[g.deps[d].ws].cands[g.deps[d].head].state # "none"
        /\ g.deps[d].ws \in Workstreams /\ g.deps[d].head \in Commits
    BY <1>2, <1>4 DEF CoGood
  <2>2. g.ws[g.deps[d].ws].cands[g.deps[d].head].state # "none"
    BY <1>3, <2>1 DEF Advances
  <2> QED
    BY <2>1, <2>2
<1>6. \A v \in Workstreams, c \in Commits :
        g.ws[v].cands[c].state = "pre_merge" => Earned(g.deps, v, c, D)
  <2> TAKE v \in Workstreams, c \in Commits
  <2>1. CASE v = w
    BY <1>2, <1>3, <2>1 DEF CoGood, Advances
  <2>2. CASE v # w
    BY <1>2, <1>3, <2>2 DEF CoGood
  <2> QED
    BY <2>1, <2>2
<1>7. CoSound(co, g, D)
  <2>1. CoGood(g, D)
    BY <1>2, <1>5, <1>6 DEF CoGood
  <2> QED
    BY <1>2, <2>1, RecordsAreKept DEF CoSound
<1> QED
  BY <1>2, <1>3, <1>7 DEF g

(* The lease is written: no candidate moves.                                  *)
LEMMA LeaseWriteIsSound ==
  ASSUME NEW D, NEW co, CoGood(co, D), NEW l \in Leases, LaneLeaseKept(co.lease, l)
  PROVE  /\ CoSound(co, [co EXCEPT !.lease = l], D)
         /\ [co EXCEPT !.lease = l].deps = co.deps /\ [co EXCEPT !.lease = l].ws = co.ws
         /\ [co EXCEPT !.lease = l].lease = l
         /\ [co EXCEPT !.lease = l].incoming = co.incoming
<1> DEFINE g == [co EXCEPT !.lease = l]
<1>1. co \in CoStates
  BY DEF CoGood
<1>2. /\ g.deps = co.deps /\ g.ws = co.ws /\ g.lease = l /\ g.incoming = co.incoming
      /\ g \in CoStates
  BY <1>1 DEF CoStates
<1> HIDE DEF g
<1>3. CoGood(g, D)
  BY <1>2 DEF CoGood
<1>4. CoSound(co, g, D)
  BY <1>2, <1>3, RecordsAreKept DEF CoSound
<1> QED
  BY <1>2, <1>4 DEF g

(* What a release leaves is a lease, or none, and never another lane lease.    *)
LEMMA ReleasedIsLease ==
  ASSUME NEW l \in Leases, NEW w
  PROVE  /\ Released(l, w) \in Leases
         /\ LaneLeaseKept(l, Released(l, w)) /\ LaneLeaseKept(l, l)
BY DEF Released, Leases, LaneLeaseKept, NoLease

(* Renewed locks change no candidate.                                          *)
LEMMA RenewIsSound ==
  ASSUME NEW D, NEW co, CoGood(co, D)
  PROVE  /\ CoSound(co, [co EXCEPT !.ws = Renewed(co.ws)], D)
         /\ [co EXCEPT !.ws = Renewed(co.ws)].deps = co.deps
         /\ [co EXCEPT !.ws = Renewed(co.ws)].lease = co.lease
         /\ [co EXCEPT !.ws = Renewed(co.ws)].incoming = co.incoming
         /\ \A v \in Workstreams :
              LET new == [co EXCEPT !.ws = Renewed(co.ws)].ws[v]
              IN new.cands = co.ws[v].cands /\ new.state = co.ws[v].state
                 /\ new.head = co.ws[v].head /\ new.reg = co.ws[v].reg
<1> DEFINE g == [co EXCEPT !.ws = Renewed(co.ws)]
<1>1. co \in CoStates /\ co.ws \in [Workstreams -> WsRecords]
  BY CoFields DEF CoGood
<1>2. \A w \in Workstreams : [co.ws[w] EXCEPT !.live = TRUE] \in WsRecords
  BY <1>1 DEF WsRecords
<1>3. Renewed(co.ws) \in [Workstreams -> WsRecords]
  BY <1>1, <1>2 DEF Renewed
<1>4. \A w \in Workstreams :
        /\ Renewed(co.ws)[w].cands = co.ws[w].cands /\ Renewed(co.ws)[w].state = co.ws[w].state
        /\ Renewed(co.ws)[w].head = co.ws[w].head /\ Renewed(co.ws)[w].reg = co.ws[w].reg
  BY <1>1 DEF Renewed, WsRecords
<1>5. /\ g.ws = Renewed(co.ws) /\ g.deps = co.deps /\ g.lease = co.lease
      /\ g.incoming = co.incoming /\ g \in CoStates
  BY <1>1, <1>3 DEF CoStates
<1>6. \A d \in DOMAIN co.deps : co.deps[d].ws \in Workstreams
  BY <1>1, CoFields
<1> HIDE DEF g
<1>7. CoSound(co, g, D)
  <2>1. ASSUME NEW d \in DOMAIN g.deps
        PROVE  /\ g.deps[d].hist = "succeeded" =>
                    \/ Request("coord", d, "deploy", g.deps[d].head) \in D
                    \/ LaneEarned(g.deps[d].head, D)
               /\ g.ws[g.deps[d].ws].cands[g.deps[d].head].state # "none"
    <3>1. /\ co.deps[d].hist = "succeeded" =>
               \/ Request("coord", d, "deploy", co.deps[d].head) \in D
               \/ LaneEarned(co.deps[d].head, D)
          /\ co.ws[co.deps[d].ws].cands[co.deps[d].head].state # "none"
      BY <1>5 DEF CoGood
    <3>2. Renewed(co.ws)[co.deps[d].ws].cands = co.ws[co.deps[d].ws].cands
      BY <1>4, <1>5, <1>6
    <3> QED
      BY <1>5, <3>1, <3>2
  <2>2. ASSUME NEW w \in Workstreams, NEW c \in Commits,
               g.ws[w].cands[c].state = "pre_merge"
        PROVE  Earned(g.deps, w, c, D)
    BY <1>4, <1>5, <2>2 DEF CoGood
  <2>3. CoGood(g, D)
    BY <1>5, <2>1, <2>2 DEF CoGood
  <2> QED
    BY <1>5, <2>3, RecordsAreKept DEF CoSound
<1> QED
  BY <1>4, <1>5, <1>7 DEF g

(* A deployment record changes its files, not what it deploys; a success is    *)
(* one that was carried out.                                                   *)
LEMMA WithDepIsSound ==
  ASSUME NEW D, NEW co, CoGood(co, D), NEW d \in DOMAIN co.deps, NEW dep \in DeployRecords,
         dep.ws = co.deps[d].ws, dep.head = co.deps[d].head, dep.lane = co.deps[d].lane,
         dep.key = co.deps[d].key, dep.again = co.deps[d].again, dep.pend => co.deps[d].pend,
         co.deps[d].hist = "failed" /\ ~co.deps[d].pend => dep.hist = "failed",
         dep.hist = "succeeded" => \/ co.deps[d].hist = "succeeded"
                                   \/ Request("coord", d, "deploy", dep.head) \in D
  PROVE  /\ CoSound(co, WithDep(co, d, dep), D)
         /\ WithDep(co, d, dep).ws = co.ws /\ WithDep(co, d, dep).lease = co.lease
         /\ WithDep(co, d, dep).incoming = co.incoming
         /\ DOMAIN WithDep(co, d, dep).deps = DOMAIN co.deps
         /\ \A e \in DOMAIN co.deps :
              WithDep(co, d, dep).deps[e] = IF e = d THEN dep ELSE co.deps[e]
<1> DEFINE g == WithDep(co, d, dep)
<1>1. co \in CoStates /\ co.deps \in Seq(DeployRecords) /\ d \in 1 .. Len(co.deps)
  BY CoFields, LenProperties DEF CoGood
<1>2. /\ g.deps = [co.deps EXCEPT ![d] = dep] /\ g.ws = co.ws /\ g.lease = co.lease
      /\ g.incoming = co.incoming
  BY <1>1 DEF WithDep, CoStates
<1>3. /\ g.deps \in Seq(DeployRecords) /\ DOMAIN g.deps = DOMAIN co.deps
      /\ \A e \in DOMAIN co.deps : g.deps[e] = IF e = d THEN dep ELSE co.deps[e]
  BY <1>1, <1>2, ExceptSeq, LenProperties
<1>4. g \in CoStates
  BY <1>1, <1>2, <1>3 DEF WithDep, CoStates
<1> HIDE DEF g
<1>5. \A w, c : Earned(co.deps, w, c, D) => Earned(g.deps, w, c, D)
  BY <1>3 DEF Earned
<1>6. \A e \in DOMAIN g.deps :
        /\ g.deps[e].ws = co.deps[e].ws /\ g.deps[e].head = co.deps[e].head
        /\ g.deps[e].hist = "succeeded" =>
             \/ Request("coord", e, "deploy", g.deps[e].head) \in D
             \/ LaneEarned(g.deps[e].head, D)
  BY <1>3 DEF CoGood
<1>7. \A e \in DOMAIN g.deps : g.ws[g.deps[e].ws].cands[g.deps[e].head].state # "none"
  BY <1>2, <1>3, <1>6 DEF CoGood
<1>9. CopiesEarned(g.deps, D) /\ Retained(co.deps, g.deps) /\ AllSent(g.deps, g.incoming)
  <2>1. CopiesEarned(co.deps, D) /\ AllSent(co.deps, co.incoming)
    BY DEF CoGood
  <2>2. CopiesEarned(g.deps, D) /\ Retained(co.deps, g.deps)
    BY <1>3, <2>1 DEF CopiesEarned, Retained
  <2>3. AllSent(g.deps, g.incoming)
    BY <1>2, <1>3, <2>1 DEF AllSent, SentAs
  <2> QED
    BY <2>2, <2>3
<1>10. SecondAfterFailure(g.deps)
  <2>1. SecondAfterFailure(co.deps)
    BY DEF CoGood
  <2>2. \A e \in DOMAIN g.deps :
          /\ g.deps[e].lane = co.deps[e].lane /\ g.deps[e].key = co.deps[e].key
          /\ g.deps[e].again = co.deps[e].again /\ g.deps[e].head = co.deps[e].head
          /\ (co.deps[e].hist = "failed" /\ ~co.deps[e].pend)
               => (g.deps[e].hist = "failed" /\ ~g.deps[e].pend)
    BY <1>3
  <2> QED
    BY <1>3, <2>1, <2>2 DEF SecondAfterFailure
<1>8. CoSound(co, g, D)
  <2>1. CoGood(g, D)
    BY <1>4, <1>5, <1>6, <1>7, <1>2, <1>9, <1>10 DEF CoGood
  <2> QED
    BY <1>2, <1>9, <2>1, RecordsAreKept DEF CoSound
<1> QED
  BY <1>2, <1>3, <1>8 DEF g

(* A new deployment record.                                                    *)
LEMMA NewDepIsSound ==
  ASSUME NEW D, NEW co, CoGood(co, D), NEW dep \in DeployRecords,
         co.ws[dep.ws].cands[dep.head].state # "none",
         dep.hist = "succeeded" => LaneEarned(dep.head, D),
         dep.lane # 0 => LaneEarned(dep.head, D) /\ ~dep.pend,
         \/ dep.lane # 0 \/ dep.again
         \/ \A d \in DOMAIN co.deps :
              (co.deps[d].lane = 0 /\ co.deps[d].head = dep.head /\ co.deps[d].key = dep.key)
                => (co.deps[d].hist = "failed" /\ ~co.deps[d].pend)
  PROVE  /\ CoSound(co, [co EXCEPT !.deps = Append(@, dep)], D)
         /\ [co EXCEPT !.deps = Append(@, dep)].ws = co.ws
         /\ [co EXCEPT !.deps = Append(@, dep)].lease = co.lease
         /\ [co EXCEPT !.deps = Append(@, dep)].incoming = co.incoming
         /\ [co EXCEPT !.deps = Append(@, dep)].deps = Append(co.deps, dep)
<1> DEFINE g == [co EXCEPT !.deps = Append(@, dep)]
           n == Len(co.deps) + 1
<1>1. co \in CoStates /\ co.deps \in Seq(DeployRecords)
  BY CoFields DEF CoGood
<1>2. /\ g.deps = Append(co.deps, dep) /\ g.ws = co.ws /\ g.lease = co.lease
      /\ g.incoming = co.incoming
  BY <1>1 DEF CoStates
<1>3. /\ g.deps \in Seq(DeployRecords) /\ DOMAIN g.deps = DOMAIN co.deps \cup {n}
      /\ g.deps[n] = dep /\ \A e \in DOMAIN co.deps : g.deps[e] = co.deps[e]
  BY <1>1, <1>2, AppendProperties, LenProperties
<1>4. g \in CoStates
  BY <1>1, <1>2, <1>3 DEF CoStates
<1> HIDE DEF g
<1>5. \A w, c : Earned(co.deps, w, c, D) => Earned(g.deps, w, c, D)
  BY <1>3 DEF Earned
<1>7. n \in Nat /\ \A e \in DOMAIN co.deps : e \in Nat /\ e < n
  BY <1>1, LenProperties
<1> HIDE DEF n
<1>8. CopiesEarned(g.deps, D) /\ Retained(co.deps, g.deps) /\ AllSent(g.deps, g.incoming)
  <2>1. CopiesEarned(co.deps, D) /\ AllSent(co.deps, co.incoming)
    BY DEF CoGood
  <2>2. CopiesEarned(g.deps, D) /\ Retained(co.deps, g.deps)
    BY <1>3, <2>1 DEF CopiesEarned, Retained
  <2>3. AllSent(g.deps, g.incoming)
    BY <1>2, <1>3, <2>1 DEF AllSent, SentAs
  <2> QED
    BY <2>2, <2>3
<1>9. SecondAfterFailure(g.deps)
  <2>1. SecondAfterFailure(co.deps)
    BY DEF CoGood
  <2>2. ASSUME NEW d \in DOMAIN g.deps, NEW e \in DOMAIN g.deps, d < e,
               g.deps[d].head = g.deps[e].head, g.deps[d].key = g.deps[e].key,
               ~g.deps[e].again, g.deps[d].lane = 0, g.deps[e].lane = 0
        PROVE  g.deps[d].hist = "failed" /\ ~g.deps[d].pend
    <3>1. d \in DOMAIN co.deps
      BY <1>3, <1>7, <2>2
    <3>2. CASE e \in DOMAIN co.deps
      BY <1>3, <2>1, <2>2, <3>1, <3>2 DEF SecondAfterFailure
    <3>3. CASE e = n
      BY <1>3, <2>2, <3>1, <3>3
    <3> QED
      BY <1>3, <3>2, <3>3
  <2> QED
    BY <2>2 DEF SecondAfterFailure
<1>6. CoSound(co, g, D)
  <2>1. CoGood(g, D)
    BY <1>2, <1>3, <1>4, <1>5, <1>8, <1>9 DEF CoGood
  <2> QED
    BY <1>2, <1>8, <2>1, RecordsAreKept DEF CoSound
<1> QED
  BY <1>2, <1>6 DEF g

(* A record copied from the lane is written again from another evidence.       *)
LEMMA CopyDepIsSound ==
  ASSUME NEW D, NEW co, CoGood(co, D), NEW d \in DOMAIN co.deps, NEW dep \in DeployRecords,
         co.deps[d].lane # 0, dep.lane # 0, ~dep.pend, LaneEarned(dep.head, D),
         co.ws[dep.ws].cands[dep.head].state # "none"
  PROVE  CoSound(co, [co EXCEPT !.deps = [co.deps EXCEPT ![d] = dep]], D)
<1> DEFINE g == [co EXCEPT !.deps = [co.deps EXCEPT ![d] = dep]]
<1>1. co \in CoStates /\ co.deps \in Seq(DeployRecords) /\ d \in 1 .. Len(co.deps)
  BY CoFields, LenProperties DEF CoGood
<1>2. /\ g.deps = [co.deps EXCEPT ![d] = dep] /\ g.ws = co.ws /\ g.lease = co.lease
      /\ g.incoming = co.incoming
  BY <1>1 DEF CoStates
<1>3. /\ g.deps \in Seq(DeployRecords) /\ DOMAIN g.deps = DOMAIN co.deps
      /\ \A e \in DOMAIN co.deps : g.deps[e] = IF e = d THEN dep ELSE co.deps[e]
  BY <1>1, <1>2, ExceptSeq, LenProperties
<1>4. g \in CoStates
  BY <1>1, <1>2, <1>3 DEF CoStates
<1> HIDE DEF g
<1>5. /\ CopiesEarned(co.deps, D) /\ AllSent(co.deps, co.incoming)
      /\ SecondAfterFailure(co.deps)
  BY DEF CoGood
<1>6. \A w, c : Earned(co.deps, w, c, D) => Earned(g.deps, w, c, D)
  BY <1>3, <1>5 DEF Earned, CopiesEarned
<1>7. CopiesEarned(g.deps, D) /\ Retained(co.deps, g.deps)
  BY <1>3, <1>5 DEF CopiesEarned, Retained
<1>8. AllSent(g.deps, g.incoming)
  BY <1>2, <1>3, <1>5 DEF AllSent, SentAs
<1>9. SecondAfterFailure(g.deps)
  BY <1>3, <1>5 DEF SecondAfterFailure
<1>10. CoGood(g, D)
  BY <1>2, <1>3, <1>4, <1>6, <1>7, <1>8, <1>9 DEF CoGood
<1>11. CoSound(co, g, D)
  BY <1>2, <1>7, <1>10, RecordsAreKept DEF CoSound
<1> QED
  BY <1>11 DEF g

(* A signed request of the coordinator becomes visible to the agent.           *)
LEMMA SendIsSound ==
  ASSUME NEW D, NEW co, CoGood(co, D), NEW d \in DOMAIN co.deps, co.deps[d].lane = 0
  PROVE  LET g == [co EXCEPT !.incoming = @ \cup {CoordRequest(co, d)}]
         IN /\ CoSound(co, g, D)
            /\ g.ws = co.ws /\ g.lease = co.lease /\ g.deps = co.deps
<1> DEFINE g == [co EXCEPT !.incoming = @ \cup {CoordRequest(co, d)}]
<1>1. co \in CoStates
  BY DEF CoGood
<1>2. /\ CoordRequest(co, d) \in AgentIds /\ CoordRequest(co, d).of = "coord"
      /\ SentAs(co.deps, d, CoordRequest(co, d))
  BY <1>1, CoFields DEF CoordRequest, Request, AgentIds, SentAs
<1>3. /\ g.ws = co.ws /\ g.lease = co.lease /\ g.deps = co.deps
      /\ g.incoming = co.incoming \cup {CoordRequest(co, d)} /\ g \in CoStates
  BY <1>1, <1>2 DEF CoStates
<1> HIDE DEF g
<1>4. AllSent(g.deps, g.incoming)
  BY <1>2, <1>3 DEF CoGood, AllSent
<1>5. CoGood(g, D)
  BY <1>3, <1>4 DEF CoGood
<1>6. CoSound(co, g, D)
  BY <1>2, <1>3, <1>5, RecordsAreKept DEF CoSound
<1> QED
  BY <1>3, <1>6 DEF g

-----------------------------------------------------------------------------
(* Sections of the coordinator.                                                *)

(* Every state the writes leave behind is sound.                               *)
AllCo(steps, co, D) ==
  /\ steps \in Seq(CoStates) /\ steps # <<>>
  /\ \A g \in Range(steps) : CoSound(co, g, D)

(* One sound write is a sound sequence.                                       *)
LEMMA OneCo ==
  ASSUME NEW D, NEW co, NEW g, CoSound(co, g, D)
  PROVE  AllCo(<< g >>, co, D)
<1>1. g \in CoStates
  BY DEF CoSound, CoGood
<1> QED
  BY <1>1, RangeOfTuples DEF AllCo

(* So are two, each sound after the one before.                               *)
LEMMA TwoCo ==
  ASSUME NEW D, NEW co, NEW g, NEW h, CoSound(co, g, D), CoSound(g, h, D)
  PROVE  AllCo(<< g, h >>, co, D)
<1>1. g \in CoStates /\ h \in CoStates /\ CoSound(co, h, D)
  BY CoSoundIsPreorder DEF CoSound, CoGood
<1> QED
  BY <1>1, RangeOfTuples DEF AllCo

(* One write before two others.                                                *)
LEMMA OneThenTwo ==
  ASSUME NEW f, NEW g, NEW h
  PROVE  << f >> \o << g, h >> = << f, g, h >>
<1> DEFINE S == {f, g, h}
           a == << f >>
           b == << g, h >>
           c == << f, g, h >>
<1>1. a \in Seq(S) /\ b \in Seq(S) /\ c \in Seq(S) /\ Len(a) = 1 /\ Len(b) = 2 /\ Len(c) = 3
  OBVIOUS
<1>2. a[1] = f /\ b[1] = g /\ b[2] = h /\ c[1] = f /\ c[2] = g /\ c[3] = h
  OBVIOUS
<1> HIDE DEF a, b, c
<1>3. /\ a \o b \in Seq(S) /\ Len(a \o b) = Len(a) + Len(b)
      /\ \A i \in 1 .. Len(a) + Len(b) : (a \o b)[i] = IF i <= Len(a) THEN a[i] ELSE b[i - Len(a)]
  BY <1>1, ConcatProperties
<1>4. \A i \in 1 .. Len(c) : i = 1 \/ i = 2 \/ i = 3
  BY <1>1
<1>5. \A i \in 1 .. Len(c) : (a \o b)[i] = c[i]
  <2>1. (a \o b)[1] = a[1] /\ (a \o b)[2] = b[1] /\ (a \o b)[3] = b[2]
    BY <1>1, <1>3
  <2> QED
    BY <1>2, <1>4, <2>1
<1>6. a \o b = c
  BY <1>1, <1>3, <1>5, SeqEqual
<1> QED
  BY <1>6 DEF a, b, c

(* A sequence of sound writes goes on after one sound write.                  *)
LEMMA JoinedCo ==
  ASSUME NEW D, NEW co, NEW s, NEW t, NEW g, AllCo(s, co, D), CoSound(co, g, D),
         t = <<>> \/ AllCo(t, g, D)
  PROVE  AllCo(s \o t, co, D)
<1>1. CASE t = <<>>
  BY <1>1, ConcatEmptySeq DEF AllCo
<1>2. CASE AllCo(t, g, D)
  <2>1. s \o t \in Seq(CoStates) /\ Range(s \o t) = Range(s) \cup Range(t)
    BY <1>2, JoinedWrites DEF AllCo
  <2>2. s \o t # <<>>
    BY <1>2, ConcatProperties, EmptySeq, LenProperties DEF AllCo
  <2>3. \A h \in Range(t) : CoSound(co, h, D)
    BY <1>2, CoSoundIsPreorder DEF AllCo
  <2> QED
    BY <2>1, <2>2, <2>3 DEF AllCo
<1> QED
  BY <1>1, <1>2

(* What a section of the coordinator leaves behind.                            *)
LEMMA MutateResult ==
  ASSUME NEW steps \in Seq(CoStates), steps # <<>>, Mutate(steps)
  PROVE  /\ Co' \in Range(steps)
         /\ UNCHANGED <<laneFiles, github, cache, plan, others, agentVars>>
         /\ \/ thread' = thread /\ crashes' = crashes /\ Co' = steps[Len(steps)]
            \/ thread' = NoThreads /\ crashes' = crashes + 1
<1>1. Len(steps) \in Nat \ {0} /\ DOMAIN steps = 1 .. Len(steps)
  BY EmptySeq, LenProperties
<1>2. \A i \in 1 .. Len(steps) :
        /\ steps[i] \in CoStates /\ steps[i] \in Range(steps)
        /\ (ws' = steps[i].ws /\ deps' = steps[i].deps /\ lease' = steps[i].lease
            /\ incoming' = steps[i].incoming) => Co' = steps[i]
  <2> TAKE i \in 1 .. Len(steps)
  <2>1. steps[i] \in CoStates /\ steps[i] \in Range(steps)
    BY <1>1, ElementOfSeq DEF Range
  <2> QED
    BY <2>1 DEF Co, CoStates
<1> QED
  BY <1>1, <1>2 DEF Mutate, ServerDies

(* A section of the coordinator keeps the invariant; uninterrupted, it leaves  *)
(* its last write behind.                                                      *)
LEMMA MutateKeeps ==
  ASSUME PromotionInv, NEW steps, AllCo(steps, Co, done), Mutate(steps),
         test' = test, calls' \in Nat
  PROVE  PromotionInv' /\ (crashes' = crashes => Co' = After(steps, Co))
<1>1. /\ Co' \in Range(steps)
      /\ UNCHANGED <<laneFiles, github, cache, plan, others, agentVars>>
      /\ \/ thread' = thread /\ crashes' = crashes /\ Co' = steps[Len(steps)]
         \/ thread' = NoThreads /\ crashes' = crashes + 1
  BY MutateResult DEF AllCo
<1>2. CoSound(Co, Co', done)
  BY <1>1 DEF AllCo
<1>3. CoGood(Co', done')
  BY <1>1, <1>2 DEF CoSound, agentVars
<1>4. /\ lease' \in Leases /\ incoming' \subseteq AgentIds
      /\ \A x \in incoming' : x \in incoming \/ x.of \notin {"ticket", "health"}
  <2>1. Co' \in CoStates
    BY <1>3 DEF CoGood
  <2> QED
    BY <1>2, <2>1 DEF CoSound, Co, CoStates
<1>5. LaneInv'
  BY <1>1, <1>4, LeaseKeepsLane DEF PromotionInv
<1>6. CoGood(Co, done)'
  BY <1>3
<1>7. crashes' = crashes => Co' = After(steps, Co)
  <2>1. crashes \in Nat
    BY DEF PromotionInv, LaneInv, GitHubTypes
  <2>2. crashes + 1 # crashes
    BY <2>1
  <2> QED
    BY <1>1, <2>2 DEF AllCo, After
<1>8. LeaseInv'
  <2>1. LaneLeaseKept(lease, lease') /\ active' = active
    BY <1>1, <1>2 DEF CoSound, Co, laneFiles
  <2>2. crashes \in Nat /\ LeaseInv
    BY DEF PromotionInv, LaneInv, GitHubTypes
  <2>3. \A a \in Threads : thread'[a].pc = "activate" => thread[a].pc = "activate"
    BY <1>1 DEF NoThreads, Idle, Stopped
  <2>4. crashes' = 0 => crashes = 0
    BY <1>1, <2>2
  <2> QED
    BY <2>1, <2>2, <2>3, <2>4 DEF LeaseInv, LaneLeaseKept
<1>9. AllSent(deps, done \cup {working})'
  <2>1. /\ AllSent(deps, done \cup {working}) /\ Retained(deps, deps')
        /\ done' = done /\ working' = working
    BY <1>1, <1>2 DEF CoSound, Co, agentVars, PromotionInv, CoordInv
  <2> QED
    BY <2>1 DEF AllSent, Retained, SentAs
<1> QED
  BY <1>5, <1>6, <1>7, <1>8, <1>9 DEF PromotionInv, CoordInv

(* What the invariant says of each file.                                      *)
LEMMA CoFacts ==
  ASSUME PromotionInv
  PROVE  /\ CoGood(Co, done) /\ Co \in CoStates
         /\ Co.ws = ws /\ Co.deps = deps /\ Co.lease = lease /\ Co.incoming = incoming
         /\ lease \in Leases /\ calls \in Nat
         /\ test \in [ws : Workstreams \cup {0}, live : BOOLEAN]
         /\ \A w \in Workstreams : /\ ws[w] \in WsRecords
                                   /\ \A c \in Commits : ws[w].cands[c] \in CandRecords
         /\ \A d \in DOMAIN deps : /\ deps[d] \in DeployRecords /\ deps[d].ws \in Workstreams
                                   /\ deps[d].head \in Commits
<1>1. CoGood(Co, done) /\ Co \in CoStates
  BY DEF PromotionInv, CoordInv, CoGood
<1>2. Co.ws = ws /\ Co.deps = deps /\ Co.lease = lease /\ Co.incoming = incoming
  BY DEF Co
<1>3. /\ ws \in [Workstreams -> WsRecords] /\ lease \in Leases
      /\ \A d \in DOMAIN deps : /\ deps[d] \in DeployRecords /\ deps[d].ws \in Workstreams
                                /\ deps[d].head \in Commits
  BY <1>1, <1>2, CoFields
<1>4. \A w \in Workstreams : ws[w] \in WsRecords
  BY <1>3
<1>5. \A w \in Workstreams : \A c \in Commits : ws[w].cands[c] \in CandRecords
  BY <1>4, WsFields
<1> QED
  BY <1>1, <1>2, <1>3, <1>4, <1>5 DEF PromotionInv, CoordInv

(* Only the candidates of the record before matter.                            *)
LEMMA AdvancesFromCands ==
  ASSUME NEW i, NEW j, NEW k, NEW E, Advances(i, j, E), k.cands = i.cands
  PROVE  Advances(k, j, E)
BY DEF Advances

(* Less is earned by fewer.                                                    *)
LEMMA AdvancesMore ==
  ASSUME NEW i, NEW j, NEW E, Advances(i, j, {})
  PROVE  Advances(i, j, E)
BY DEF Advances

(* The lease file, and then the workstream.                                    *)
LEMMA LeaseThenWs ==
  ASSUME NEW D, NEW co, CoGood(co, D), NEW l \in Leases, LaneLeaseKept(co.lease, l),
         NEW w \in Workstreams, NEW item,
         Advances(co.ws[w], item, {c \in Commits : Earned(co.deps, w, c, D)})
  PROVE  LET freed == [co EXCEPT !.lease = l]
         IN /\ AllCo(<< freed, WithWs(freed, w, item) >>, co, D)
            /\ CoSound(co, freed, D) /\ CoSound(freed, WithWs(freed, w, item), D)
<1> DEFINE freed == [co EXCEPT !.lease = l]
<1>1. CoSound(co, freed, D) /\ freed.ws = co.ws /\ freed.deps = co.deps
  BY LeaseWriteIsSound
<1> HIDE DEF freed
<1>2. CoGood(freed, D)
  BY <1>1 DEF CoSound
<1>3. Advances(freed.ws[w], item, {c \in Commits : Earned(freed.deps, w, c, D)})
  BY <1>1
<1>4. CoSound(freed, WithWs(freed, w, item), D)
  BY <1>2, <1>3, WithWsIsSound
<1>5. AllCo(<< freed, WithWs(freed, w, item) >>, co, D)
  BY <1>1, <1>4, TwoCo
<1> QED
  BY <1>1, <1>4, <1>5 DEF freed

-----------------------------------------------------------------------------
(* Workstreams, candidates and evidence.                                       *)

LEMMA RegisterKeeps ==
  ASSUME PromotionInv, NEW w \in Workstreams, NEW c \in Commits, NEW asked \in Asked,
         Register(w, c, asked)
  PROVE  PromotionInv'
<1> DEFINE renewed == [Co EXCEPT !.ws = Renewed(ws)]
           up == Upsert(renewed.ws[w], c, asked)
           item == [up EXCEPT !.reg = TRUE, !.live = TRUE]
           state == IF Conflicted(renewed.ws, w) THEN "conflict"
                    ELSE IF Blocked(w) /\ item.state \in
                              {"developing", "ci_ready", "ready", "waiting_dependency"}
                    THEN "waiting_dependency"
                    ELSE IF item.state = "conflict" THEN "developing" ELSE item.state
           next == [item EXCEPT !.state = state]
<1>1. Mutate(<< renewed, WithWs(renewed, w, next) >>) /\ test' = test /\ calls' \in Nat
  <2>1. Mutate(<< renewed, WithWs(renewed, w, next) >>) /\ Call
    BY DEF Register
  <2> HIDE DEF renewed, next
  <2> QED
    BY <2>1, CoFacts DEF Call
<1>2. /\ CoSound(Co, renewed, done) /\ renewed.ws[w] \in WsRecords
  <2>1. CoGood(Co, done) /\ Co.ws = ws
    BY CoFacts
  <2> HIDE DEF renewed
  <2>2. renewed = [Co EXCEPT !.ws = Renewed(Co.ws)]
    BY <2>1 DEF renewed
  <2>3. CoSound(Co, renewed, done)
    BY <2>1, <2>2, RenewIsSound
  <2> QED
    BY <2>3, CoFields DEF CoSound, CoGood
<1> HIDE DEF renewed
<1>3. Advances(renewed.ws[w], up, {}) /\ up \in WsRecords
  <2>1. Advances(renewed.ws[w], up, {})
    BY <1>2, UpsertAdvances
  <2> QED
    BY <2>1 DEF Advances
<1> HIDE DEF up
<1>4. Advances(up, item, {}) /\ item \in WsRecords
  <2>1. Advances(up, item, {})
    BY <1>3 DEF Advances, WsRecords
  <2> QED
    BY <2>1 DEF Advances
<1> HIDE DEF item
<1>5. state \in WsStates
  BY <1>4, WsFields DEF WsStates, AutoRenew
<1> HIDE DEF state
<1>6. Advances(item, next, {})
  BY <1>4, <1>5, FieldsAdvance
<1> HIDE DEF next
<1>7. Advances(renewed.ws[w], next, {d \in Commits : Earned(renewed.deps, w, d, done)})
  BY <1>3, <1>4, <1>6, AdvancesIsPreorder, AdvancesMore
<1>8. CoGood(renewed, done)
  BY <1>2 DEF CoSound
<1>9. AllCo(<< renewed, WithWs(renewed, w, next) >>, Co, done)
  BY <1>2, <1>7, <1>8, WithWsIsSound, TwoCo
<1> QED
  BY <1>1, <1>9, MutateKeeps

\* A heartbeat keeps the invariant.
LEMMA HeartbeatKeeps ==
  ASSUME PromotionInv, NEW w \in Workstreams, NEW state \in Heartbeats, Heartbeat(w, state)
  PROVE  PromotionInv'
<1> DEFINE item == [ws[w] EXCEPT !.state = state, !.live = TRUE]
           l == IF state \in FinalWs THEN Released(Co.lease, w) ELSE Co.lease
           freed == [Co EXCEPT !.lease = l]
<1>1. Mutate(<< freed, WithWs(freed, w, item) >>) /\ test' = test /\ calls' \in Nat
  BY CoFacts DEF Heartbeat, Call
<1>2. Advances(Co.ws[w], item, {}) /\ l \in Leases /\ LaneLeaseKept(Co.lease, l)
  BY CoFacts, FieldsAdvance, CallerAssumption, ReleasedIsLease
<1> HIDE DEF item, l
<1>3. AllCo(<< freed, WithWs(freed, w, item) >>, Co, done)
  BY <1>2, CoFacts, AdvancesMore, LeaseThenWs
<1> QED
  BY <1>1, <1>3, MutateKeeps

(* One write of a workstream, and no more.                                     *)
LEMMA WsWriteKeeps ==
  ASSUME PromotionInv, NEW w \in Workstreams, NEW item, Advances(ws[w], item, {}),
         Mutate(<< WithWs(Co, w, item) >>), test' = test, calls' \in Nat
  PROVE  PromotionInv'
<1>1. CoSound(Co, WithWs(Co, w, item), done)
  BY CoFacts, AdvancesMore, WithWsIsSound
<1> QED
  BY <1>1, OneCo, MutateKeeps

\* A candidate registered or superseded keeps the invariant.
LEMMA RegisterCandidateKeeps ==
  ASSUME PromotionInv, NEW w \in Workstreams, NEW c \in Commits, NEW asked \in Asked,
         RegisterCandidate(w, c, asked)
  PROVE  PromotionInv'
<1> DEFINE up == Upsert(ws[w], c, asked)
           item == [up EXCEPT !.state = "developing"]
<1>1. Mutate(<< WithWs(Co, w, item) >>) /\ test' = test /\ calls' \in Nat
  BY CoFacts DEF RegisterCandidate, Call
<1>2. Advances(ws[w], up, {}) /\ up \in WsRecords
  <2>1. Advances(ws[w], up, {})
    BY CoFacts, UpsertAdvances
  <2> QED
    BY <2>1 DEF Advances
<1> HIDE DEF up
<1>3. Advances(up, item, {})
  BY <1>2, FieldsAdvance DEF WsStates
<1>4. Advances(ws[w], item, {})
  BY <1>2, <1>3, AdvancesIsPreorder
<1> HIDE DEF item
<1> QED
  BY <1>1, <1>4, WsWriteKeeps

\* Evidence recorded for a candidate keeps the invariant.
LEMMA RecordEvidenceKeeps ==
  ASSUME PromotionInv, NEW w \in Workstreams, NEW c \in Commits,
         NEW result \in {"passed", "failed"}, RecordEvidence(w, c, result)
  PROVE  PromotionInv'
<1> DEFINE old == ws[w].cands[c]
           cand == [old EXCEPT !.ev = result]
           ripe == EvidenceState(cand) = "ready" /\ cand.state \in {"developing", "verifying"}
           next == IF ws[w].head # c THEN [cand EXCEPT !.state = "stale"]
                   ELSE IF ripe THEN [cand EXCEPT !.state = "ready"] ELSE cand
           item == WithCand(ws[w], c, next)
           new == IF ws[w].head = c /\ ripe THEN [item EXCEPT !.state = "ready"] ELSE item
<1>1. /\ Mutate(<< WithWs(Co, w, new) >>) /\ test' = test /\ calls' \in Nat
      /\ old.state # "none"
  BY CoFacts DEF RecordEvidence, Call
<1>2. old \in CandRecords
  BY CoFacts
<1>3. next \in CandRecords /\ next.state # "none" /\ (next.state = "pre_merge" => old.state = "pre_merge")
  BY <1>1, <1>2 DEF CandRecords, WsStates, AutoRenew
<1>4. ws[w] \in WsRecords
  BY CoFacts
<1> HIDE DEF next, ripe
<1>5. Advances(ws[w], item, {})
  BY <1>3, <1>4, CandAdvances
<1>6. item \in WsRecords
  BY <1>5 DEF Advances
<1> HIDE DEF item
<1>7. Advances(item, new, {})
  BY <1>6, FieldsAdvance, AdvancesIsPreorder DEF WsStates, AutoRenew
<1>8. Advances(ws[w], new, {})
  BY <1>5, <1>7, AdvancesIsPreorder
<1> HIDE DEF new
<1> QED
  BY <1>1, <1>8, WsWriteKeeps

\* A reservation granted, queued or refused keeps the invariant.
LEMMA ReserveKeeps ==
  ASSUME PromotionInv, NEW w \in Workstreams, NEW c \in Commits, Reserve(w, c)
  PROVE  PromotionInv'
<1> DEFINE renewed == [Co EXCEPT !.ws = Renewed(ws)]
           l == [by |-> "ws", owner |-> w, head |-> c]
           leased == [renewed EXCEPT !.lease = l]
           item == renewed.ws[w]
           cand == [item.cands[c] EXCEPT !.state = "promotion_reserved"]
           held == WithCand(item, c, cand)
           taken == [held EXCEPT !.state = "promotion_reserved", !.live = TRUE]
<1>1. /\ Mutate(<< renewed, leased, WithWs(leased, w, taken) >>) /\ test' = test /\ calls' \in Nat
      /\ renewed.lease = lease /\ lease.by # "lane"
  BY CoFacts DEF Reserve, Call, NoLease, Co
<1>2. CoSound(Co, renewed, done)
  BY CoFacts, RenewIsSound
<1>3. CoGood(renewed, done) /\ item \in WsRecords
  BY <1>2, CoFields DEF CoSound, CoGood
<1>4. l \in Leases /\ LaneLeaseKept(renewed.lease, l)
  BY <1>1 DEF Leases, LaneLeaseKept
<1> HIDE DEF renewed, l
<1>5. item.cands[c] \in CandRecords
  BY <1>3, WsFields
<1>6. cand \in CandRecords /\ cand.state # "none" /\ cand.state # "pre_merge"
  BY <1>5 DEF CandRecords, WsStates, AutoRenew
<1> HIDE DEF cand, item
<1>7. Advances(item, held, {})
  BY <1>3, <1>6, CandAdvances
<1>8. held \in WsRecords
  BY <1>7 DEF Advances
<1> HIDE DEF held
<1>9. Advances(held, taken, {})
  BY <1>8, FieldsAdvance DEF WsStates, AutoRenew
<1>10. Advances(renewed.ws[w], taken, {d \in Commits : Earned(renewed.deps, w, d, done)})
  BY <1>7, <1>9, AdvancesIsPreorder, AdvancesMore DEF item
<1> HIDE DEF taken
<1>11. /\ AllCo(<< leased, WithWs(leased, w, taken) >>, renewed, done)
  BY <1>3, <1>4, <1>10, LeaseThenWs
<1> HIDE DEF leased
<1>12. AllCo(<< renewed >> \o << leased, WithWs(leased, w, taken) >>, Co, done)
  BY <1>2, <1>11, OneCo, JoinedCo
<1>13. << renewed >> \o << leased, WithWs(leased, w, taken) >>
         = << renewed, leased, WithWs(leased, w, taken) >>
  BY OneThenTwo
<1> QED
  BY <1>1, <1>12, <1>13, MutateKeeps

-----------------------------------------------------------------------------
(* Deployments.                                                                *)

(* A dispatch: the signed file, the history, the pending file, the workstream. *)
LEMMA SendStepsAreSound ==
  ASSUME NEW D, NEW co, CoGood(co, D), NEW d \in DOMAIN co.deps, co.deps[d].pend
  PROVE  AllCo(SendSteps(co, d), co, D)
<1> DEFINE dep == co.deps[d]
           item == co.ws[dep.ws]
           cand == [item.cands[dep.head] EXCEPT !.state = "deploying"]
           next == WithCand(item, dep.head, cand)
           noted == [next EXCEPT !.state = "deploying", !.live = TRUE]
           sent == [co EXCEPT !.incoming = @ \cup {CoordRequest(co, d)}]
           depk == [dep EXCEPT !.hist = "deploying"]
           depm == [dep EXCEPT !.hist = "deploying", !.pend = FALSE]
           kept == WithDep(sent, d, depk)
           moved == WithDep(sent, d, depm)
           last == WithWs(moved, dep.ws, noted)
<1>1. /\ dep \in DeployRecords /\ dep.ws \in Workstreams /\ dep.head \in Commits
      /\ item \in WsRecords /\ item.cands[dep.head] \in CandRecords
      /\ item.cands[dep.head].state # "none" /\ dep.lane = 0
  <2>1. dep \in DeployRecords /\ dep.ws \in Workstreams /\ dep.head \in Commits
    BY CoFields DEF CoGood
  <2>2. item \in WsRecords /\ item.cands[dep.head].state # "none"
    BY <2>1, CoFields DEF CoGood
  <2>3. dep.lane = 0
    BY DEF CoGood, CopiesEarned
  <2> HIDE DEF item
  <2> QED
    BY <2>1, <2>2, <2>3, WsFields
<1>2. SendSteps(co, d) = << sent, kept, moved, last >>
  BY <1>1 DEF SendSteps
<1>3. /\ depk \in DeployRecords /\ depk.ws = dep.ws /\ depk.head = dep.head
      /\ depk.lane = dep.lane /\ depk.key = dep.key /\ depk.again = dep.again
      /\ depk.hist # "succeeded"
      /\ depm \in DeployRecords /\ depm.ws = dep.ws /\ depm.head = dep.head
      /\ depm.lane = dep.lane /\ depm.key = dep.key /\ depm.again = dep.again
      /\ depm.hist # "succeeded" /\ ~depm.pend
  BY <1>1 DEF DeployRecords
<1>4. cand \in CandRecords /\ cand.state # "none" /\ cand.state # "pre_merge"
  BY <1>1 DEF CandRecords, WsStates, AutoRenew
<1> HIDE DEF cand, depk, depm
<1>5. CoSound(co, sent, D) /\ sent.ws = co.ws /\ sent.deps = co.deps
  BY <1>1, SendIsSound
<1> HIDE DEF sent
<1>6. CoGood(sent, D)
  BY <1>5 DEF CoSound
<1>7. CoSound(sent, kept, D)
  BY <1>1, <1>3, <1>5, <1>6, WithDepIsSound
<1>8. CoSound(sent, moved, D) /\ moved.ws = sent.ws
  BY <1>1, <1>3, <1>5, <1>6, WithDepIsSound
<1> HIDE DEF kept, moved
<1>9. CoGood(moved, D) /\ moved.ws[dep.ws] = item
  BY <1>5, <1>8 DEF CoSound
<1>10. CoSound(moved, last, D)
  <2> HIDE DEF item, dep
  <2>1. Advances(item, next, {}) /\ next \in WsRecords
    <3>1. Advances(item, next, {})
      BY <1>1, <1>4, CandAdvances
    <3> QED
      BY <3>1 DEF Advances
  <2> HIDE DEF next
  <2>2. Advances(next, noted, {})
    BY <2>1, FieldsAdvance DEF WsStates, AutoRenew
  <2> HIDE DEF noted
  <2>3. Advances(moved.ws[dep.ws], noted, {c \in Commits : Earned(moved.deps, dep.ws, c, D)})
    BY <1>9, <2>1, <2>2, AdvancesIsPreorder, AdvancesMore
  <2> QED
    BY <1>1, <1>9, <2>3, WithWsIsSound
<1> HIDE DEF last
<1>11. CoSound(co, kept, D) /\ CoSound(co, moved, D) /\ CoSound(co, last, D)
  BY <1>5, <1>7, <1>8, <1>10, CoSoundIsPreorder
<1>12. sent \in CoStates /\ kept \in CoStates /\ moved \in CoStates /\ last \in CoStates
  BY <1>5, <1>11 DEF CoSound, CoGood
<1>13. Range(<< sent, kept, moved, last >>) = {sent, kept, moved, last}
  BY DEF Range
<1>14. << sent, kept, moved, last >> \in Seq(CoStates) /\ << sent, kept, moved, last >> # <<>>
  BY <1>12
<1> QED
  BY <1>2, <1>5, <1>11, <1>13, <1>14 DEF AllCo

(* So is a dispatch that may find nothing to send.                             *)
LEMMA DispatchesAreSound ==
  ASSUME NEW D, NEW co, CoGood(co, D), NEW sent \in Dispatches(co)
  PROVE  sent = <<>> \/ AllCo(sent, co, D)
<1>1. CASE \E d \in DOMAIN co.deps : NextPending(co.deps, d) /\ sent = SendSteps(co, d)
  BY <1>1, SendStepsAreSound DEF NextPending
<1>2. CASE sent = <<>>
  BY <1>2
<1> QED
  BY <1>1, <1>2 DEF Dispatches

\* A deployment queued, a duplicate or a refusal keeps the invariant.
LEMMA QueueDeploymentKeeps ==
  ASSUME PromotionInv, NEW w \in Workstreams, NEW c \in Commits, NEW rank \in Priorities,
         NEW id \in DeployIds, NEW key \in Keys, NEW again \in BOOLEAN,
         QueueDeployment(w, c, rank, id, key, again)
  PROVE  /\ PromotionInv'
         /\ crashes' = crashes =>
              \E noted : \E sent \in Dispatches(noted) :
                /\ CoGood(noted, done) /\ Co' = After(sent, noted)
                /\ noted.deps = Append(deps, NewDeploy(w, c, rank, id, key, again))
                /\ noted.incoming = incoming /\ noted.lease = lease
<1> DEFINE dep == NewDeploy(w, c, rank, id, key, again)
           queued == [Co EXCEPT !.deps = Append(@, dep)]
           cand == [ws[w].cands[c] EXCEPT !.state = "queued"]
           held == WithCand(ws[w], c, cand)
           item == [held EXCEPT !.state = "queued", !.live = TRUE]
           noted == WithWs(queued, w, item)
<1>1. PICK sent \in Dispatches(noted) : Mutate(<< queued, noted >> \o sent)
  BY DEF QueueDeployment
<1>17. test' = test /\ calls' \in Nat /\ ws[w].cands[c].state # "none"
       /\ ~Duplicate(w, c, id, key, again)
  <2>1. Call /\ ws[w].cands[c].state # "none" /\ ~Duplicate(w, c, id, key, again)
    BY DEF QueueDeployment
  <2> QED
    BY <2>1, CoFacts DEF Call
<1>2. /\ dep \in DeployRecords /\ dep.ws = w /\ dep.head = c /\ dep.hist # "succeeded"
      /\ dep.lane = 0 /\ dep.key = key /\ dep.again = again
  BY CallerAssumption, IdsAssumption DEF NewDeploy, DeployRecords
<1>18. \/ dep.again
       \/ \A d \in DOMAIN deps :
            (deps[d].lane = 0 /\ deps[d].head = dep.head /\ deps[d].key = dep.key)
              => (deps[d].hist = "failed" /\ ~deps[d].pend)
  BY <1>2, <1>17 DEF Duplicate
<1> HIDE DEF dep
<1>3. /\ CoSound(Co, queued, done) /\ queued.ws = ws /\ queued.deps = Append(deps, dep)
      /\ queued.incoming = incoming /\ queued.lease = lease
  <2>1. /\ CoGood(Co, done) /\ Co.ws[dep.ws].cands[dep.head].state # "none"
        /\ Co.ws = ws /\ Co.deps = deps /\ Co.incoming = incoming /\ Co.lease = lease
    BY <1>2, <1>17, CoFacts
  <2>2. /\ CoSound(Co, queued, done) /\ queued.ws = Co.ws /\ queued.deps = Append(Co.deps, dep)
        /\ queued.incoming = Co.incoming /\ queued.lease = Co.lease
    BY <1>2, <1>18, <2>1, NewDepIsSound
  <2> QED
    BY <2>1, <2>2
<1>4. CoGood(queued, done)
  BY <1>3 DEF CoSound
<1> HIDE DEF queued
<1>5. cand \in CandRecords /\ cand.state # "none" /\ cand.state # "pre_merge" /\ ws[w] \in WsRecords
  BY CoFacts DEF CandRecords, WsStates, AutoRenew
<1> HIDE DEF cand
<1>6. Advances(ws[w], held, {})
  BY <1>5, CandAdvances
<1>7. held \in WsRecords
  BY <1>6 DEF Advances
<1> HIDE DEF held
<1>8. Advances(held, item, {})
  BY <1>7, FieldsAdvance DEF WsStates, AutoRenew
<1>9. Advances(queued.ws[w], item, {x \in Commits : Earned(queued.deps, w, x, done)})
  BY <1>3, <1>6, <1>8, AdvancesIsPreorder, AdvancesMore
<1> HIDE DEF item
<1>10. /\ CoSound(queued, noted, done) /\ noted.deps = queued.deps
       /\ noted.incoming = queued.incoming /\ noted.lease = queued.lease
  BY SMTT(30), <1>4, <1>9, WithWsIsSound
<1> HIDE DEF noted
<1>11. AllCo(<< queued, noted >>, Co, done) /\ CoSound(Co, noted, done) /\ CoGood(noted, done)
  BY <1>3, <1>10, TwoCo, CoSoundIsPreorder DEF CoSound
<1>12. sent = <<>> \/ AllCo(sent, noted, done)
  BY <1>1, <1>11, DispatchesAreSound
<1>13. AllCo(<< queued, noted >> \o sent, Co, done)
  BY <1>11, <1>12, JoinedCo
<1>14. After(<< queued, noted >> \o sent, Co) = After(sent, noted)
  <2> DEFINE s == << queued, noted >>
  <2>1. s \in Seq(CoStates) /\ sent \in Seq(CoStates)
    BY <1>11, <1>12, EmptySeq DEF AllCo
  <2>2. After(s, Co) = noted
    BY DEF After
  <2> HIDE DEF s
  <2>3. After(s \o sent, Co) = After(sent, noted)
    BY <2>1, <2>2, JoinedWrites
  <2> QED
    BY <2>3 DEF s
<1>15. PromotionInv' /\ (crashes' = crashes => Co' = After(sent, noted))
  BY <1>1, <1>13, <1>14, <1>17, MutateKeeps
<1>16. /\ CoGood(noted, done) /\ noted.deps = Append(deps, dep)
       /\ noted.incoming = incoming /\ noted.lease = lease
  BY <1>3, <1>10, <1>11
<1> QED
  BY <1>1, <1>15, <1>16 DEF dep

(* The agent id of a request is never the one of nobody.                       *)
LEMMA NobodyIsNoAgent == Nobody \notin AgentIds
BY DEF Nobody, AgentIds

(* What the reconciliation of one record leaves of its workstream.             *)
LEMMA ReconcileStepsAreSound ==
  ASSUME PromotionInv, NEW d \in DOMAIN deps, deps[d].hist = "deploying"
  PROVE  AllCo(ReconcileSteps(Co, d), Co, done)
<1> DEFINE dep == Co.deps[d]
           ok == Succeeded(CoordRequest(Co, d))
           item == Co.ws[dep.ws]
           known == item.cands[dep.head].state # "none"
           state == IF ok THEN "acceptance" ELSE "decision_required"
           depn == [dep EXCEPT !.hist = IF ok THEN "succeeded" ELSE "failed"]
           settled == WithDep(Co, d, depn)
           freed == IF ok /\ known THEN settled
                    ELSE [settled EXCEPT !.lease = Released(settled.lease, dep.ws)]
           cand == [item.cands[dep.head] EXCEPT !.state = state]
           held == WithCand(item, dep.head, cand)
           noted == [held EXCEPT !.state = state, !.live = @ \/ ok]
<1>1. /\ Co.deps = deps /\ CoGood(Co, done) /\ Co \in CoStates
      /\ dep \in DeployRecords /\ dep.ws \in Workstreams /\ dep.head \in Commits
      /\ item \in WsRecords /\ item.cands[dep.head] \in CandRecords
  BY CoFacts
<1>2. known => ReconcileSteps(Co, d) = << settled, freed, WithWs(freed, dep.ws, noted) >>
  BY DEF ReconcileSteps
<1>3. known /\ ok \in BOOLEAN /\ state \in WsStates
      /\ (state = "acceptance" \/ state = "decision_required")
  BY <1>1 DEF CoGood, Succeeded, WsStates, AutoRenew
<1>4. /\ depn \in DeployRecords /\ depn.ws = dep.ws /\ depn.head = dep.head
      /\ depn.lane = dep.lane /\ depn.key = dep.key /\ depn.again = dep.again
      /\ depn.pend = dep.pend /\ (depn.hist = "succeeded" => ok) /\ dep.hist = "deploying"
  BY <1>1 DEF DeployRecords
<1>5. ok => Request("coord", d, "deploy", dep.head) \in done
  BY DEF Succeeded, PromotionInv, LaneInv, AnswersAreTrue, CoordRequest
<1> HIDE DEF depn, ok
<1>6. CoSound(Co, settled, done) /\ settled.ws = Co.ws
  BY <1>1, <1>4, <1>5, WithDepIsSound
<1> HIDE DEF settled
<1>7. CoGood(settled, done) /\ settled.lease \in Leases
  BY <1>6, CoFields DEF CoSound, CoGood
<1>8. CoSound(settled, freed, done) /\ freed.ws = settled.ws
  <2> DEFINE l == Released(settled.lease, dep.ws)
  <2>1. l \in Leases /\ LaneLeaseKept(settled.lease, l)
    BY <1>7, ReleasedIsLease
  <2>2. CoSound(settled, settled, done)
    BY <1>7, CoSoundIsPreorder
  <2>3. freed = settled \/ freed = [settled EXCEPT !.lease = l]
    OBVIOUS
  <2> HIDE DEF freed, l
  <2>4. /\ CoSound(settled, [settled EXCEPT !.lease = l], done)
        /\ [settled EXCEPT !.lease = l].ws = settled.ws
    BY ONLY <1>7, <2>1, LeaseWriteIsSound
  <2> QED
    BY <2>2, <2>3, <2>4
<1>9. CoGood(freed, done)
  BY <1>8 DEF CoSound
<1> HIDE DEF freed
<1>10. cand \in CandRecords /\ cand.state # "none" /\ cand.state # "pre_merge"
  BY <1>1, <1>3 DEF CandRecords
<1>11. item = freed.ws[dep.ws]
  BY <1>6, <1>8
<1> HIDE DEF cand, dep, item, state
<1>12. Advances(item, held, {}) /\ held \in WsRecords
  <2>1. Advances(item, held, {})
    BY <1>1, <1>10, CandAdvances
  <2> QED
    BY <2>1 DEF Advances
<1>13. Advances(held, noted, {})
  <2> DEFINE b == held.live \/ ok
  <2>1. b \in BOOLEAN
    BY <1>3, <1>12, WsFields
  <2>2. noted = [held EXCEPT !.state = state, !.live = b]
    BY <1>3
  <2> HIDE DEF b, held, noted
  <2>3. Advances(held, [held EXCEPT !.state = state, !.live = b], {})
    BY <1>3, <1>12, <2>1, FieldsAdvance
  <2> QED
    BY <2>2, <2>3
<1> HIDE DEF noted, held
<1>14. Advances(freed.ws[dep.ws], noted, {c \in Commits : Earned(freed.deps, dep.ws, c, done)})
  BY <1>11, <1>12, <1>13, AdvancesIsPreorder, AdvancesMore
<1>15. CoSound(freed, WithWs(freed, dep.ws, noted), done)
  BY <1>1, <1>9, <1>14, WithWsIsSound
<1>16. AllCo(<< freed, WithWs(freed, dep.ws, noted) >>, settled, done)
  BY <1>8, <1>15, TwoCo
<1>17. AllCo(<< settled >> \o << freed, WithWs(freed, dep.ws, noted) >>, Co, done)
  BY <1>6, <1>16, OneCo, JoinedCo
<1> QED
  BY <1>2, <1>3, <1>17, OneThenTwo

(* The last of sound writes is sound.                                         *)
LEMMA LastCo ==
  ASSUME NEW D, NEW co, NEW s, s = <<>> \/ AllCo(s, co, D), CoGood(co, D)
  PROVE  CoSound(co, After(s, co), D)
<1>1. CASE s = <<>>
  BY <1>1, CoSoundIsPreorder DEF After
<1>2. CASE AllCo(s, co, D)
  <2>1. Len(s) \in 1 .. Len(s) /\ DOMAIN s = 1 .. Len(s)
    BY <1>2, EmptySeq, LenProperties DEF AllCo
  <2> QED
    BY <1>2, <2>1 DEF After, AllCo, Range
<1> QED
  BY <1>1, <1>2

(* A pass of the coordinator: one reconciliation, the renewal, one dispatch.  *)
LEMMA PassKeeps ==
  ASSUME PromotionInv, Pass
  PROVE  /\ PromotionInv'
         /\ crashes' = crashes =>
              \E before \in {<<>>} \cup {ReconcileSteps(Co, d) : d \in {e \in DOMAIN deps : Settled(e)}} :
              \E renewed : \E sent \in Dispatches(renewed) :
                /\ CoGood(renewed, done) /\ Co' = After(sent, renewed)
                /\ renewed.deps = After(before, Co).deps
                /\ renewed.incoming = After(before, Co).incoming
                /\ renewed.lease = After(before, Co).lease
<1>1. PICK before \in {<<>>} \cup {ReconcileSteps(Co, d) : d \in {e \in DOMAIN deps : Settled(e)}} :
        LET co == After(before, Co)
            renewed == [co EXCEPT !.ws = Renewed(@)]
        IN \E sent \in Dispatches(renewed) : Mutate(before \o << renewed >> \o sent)
  BY DEF Pass
<1> DEFINE co == After(before, Co)
           renewed == [co EXCEPT !.ws = Renewed(co.ws)]
<1>2. PICK sent \in Dispatches(renewed) : Mutate(before \o << renewed >> \o sent)
  BY <1>1
<1>12. test' = test /\ calls' \in Nat
  BY CoFacts DEF Pass
<1>3. before = <<>> \/ AllCo(before, Co, done)
  BY ReconcileStepsAreSound DEF Settled
<1>4. CoSound(Co, co, done)
  BY <1>3, CoFacts, LastCo
<1> HIDE DEF co
<1>5. /\ CoSound(co, renewed, done) /\ renewed.deps = co.deps
      /\ renewed.incoming = co.incoming /\ renewed.lease = co.lease
  BY <1>4, RenewIsSound DEF CoSound
<1> HIDE DEF renewed
<1>6. AllCo(<< renewed >>, co, done) /\ CoGood(renewed, done) /\ CoSound(Co, renewed, done)
  BY <1>4, <1>5, OneCo, CoSoundIsPreorder DEF CoSound
<1>7. AllCo(before \o << renewed >>, Co, done)
  <2>1. CASE before = <<>>
    <3>1. << renewed >> \in Seq(CoStates) /\ AllCo(<< renewed >>, Co, done)
      BY <1>6, OneCo DEF CoGood
    <3> QED
      BY <2>1, <3>1, ConcatEmptySeq
  <2>2. CASE AllCo(before, Co, done)
    BY <1>4, <1>6, <2>2, JoinedCo
  <2> QED
    BY <1>3, <2>1, <2>2
<1>8. sent = <<>> \/ AllCo(sent, renewed, done)
  BY <1>2, <1>6, DispatchesAreSound
<1>9. AllCo(before \o << renewed >> \o sent, Co, done)
  BY <1>6, <1>7, <1>8, JoinedCo
<1>10. After(before \o << renewed >> \o sent, Co) = After(sent, renewed)
  <2> DEFINE r == << renewed >>
             s == before \o r
  <2>1. /\ before \in Seq(CoStates) /\ r \in Seq(CoStates)
        /\ sent \in Seq(CoStates)
    BY <1>3, <1>6, <1>8, EmptySeq DEF AllCo
  <2>2. \A f : After(r, f) = renewed
    BY DEF After
  <2> HIDE DEF r
  <2>3. s \in Seq(CoStates) /\ After(s, Co) = renewed
    BY <2>1, <2>2, JoinedWrites
  <2> HIDE DEF s
  <2>4. After(s \o sent, Co) = After(sent, renewed)
    BY <2>1, <2>3, JoinedWrites
  <2> QED
    BY <2>4 DEF s, r
<1>11. PromotionInv' /\ (crashes' = crashes => Co' = After(sent, renewed))
  BY <1>2, <1>9, <1>10, <1>12, MutateKeeps
<1> QED
  BY <1>2, <1>5, <1>6, <1>11 DEF co

-----------------------------------------------------------------------------
(* Acceptance and completion.                                                  *)

LEMMA AcceptStepsAreSound ==
  ASSUME NEW D, NEW co, CoGood(co, D), NEW w \in Workstreams, NEW c \in Commits,
         NEW ok \in BOOLEAN, Earned(co.deps, w, c, D)
  PROVE  AllCo(AcceptSteps(co, w, c, ok), co, D)
<1> DEFINE state == IF ok THEN "pre_merge" ELSE "decision_required"
           l == IF ok THEN co.lease ELSE Released(co.lease, w)
           freed == [co EXCEPT !.lease = l]
           item == co.ws[w]
           cand == [item.cands[c] EXCEPT !.state = state]
           held == WithCand(item, c, cand)
           b == held.live \/ ok
           noted == [held EXCEPT !.state = state, !.live = b]
           E == {x \in Commits : Earned(co.deps, w, x, D)}
<1>1. AcceptSteps(co, w, c, ok) = << freed, WithWs(freed, w, noted) >>
  BY DEF AcceptSteps
<1>2. item \in WsRecords /\ item.cands[c] \in CandRecords /\ co.lease \in Leases
  <2>1. item \in WsRecords /\ co.lease \in Leases
    BY CoFields DEF CoGood
  <2> QED
    BY <2>1, WsFields
<1>3. state \in WsStates /\ state # "none" /\ l \in Leases /\ c \in E /\ LaneLeaseKept(co.lease, l)
  BY <1>2, ReleasedIsLease DEF WsStates, AutoRenew
<1>4. cand \in CandRecords /\ cand.state # "none"
  BY <1>2, <1>3 DEF CandRecords
<1> HIDE DEF cand, item, state, l
<1>5. Advances(item, held, E) /\ held \in WsRecords
  <2>1. Advances(item, held, E)
    BY <1>2, <1>3, <1>4, CandAdvances
  <2> QED
    BY <2>1 DEF Advances
<1> HIDE DEF held
<1>6. b \in BOOLEAN
  BY <1>5, WsFields
<1> HIDE DEF b
<1>7. Advances(held, noted, E)
  BY <1>3, <1>5, <1>6, FieldsAdvance
<1>8. Advances(co.ws[w], noted, E)
  BY <1>5, <1>7, AdvancesIsPreorder DEF item
<1> HIDE DEF noted
<1>9. AllCo(<< freed, WithWs(freed, w, noted) >>, co, D)
  BY <1>3, <1>8, LeaseThenWs
<1> QED
  BY <1>1, <1>9

\* A verdict given by hand keeps the invariant.
LEMMA RecordAcceptanceKeeps ==
  ASSUME PromotionInv, NEW w \in Workstreams, NEW c \in Commits, NEW d \in DOMAIN deps,
         NEW ok \in BOOLEAN, RecordAcceptance(w, c, d, ok)
  PROVE  PromotionInv'
<1>1. /\ Mutate(AcceptSteps(Co, w, c, ok)) /\ test' = test /\ calls' \in Nat
      /\ deps[d].hist = "succeeded" /\ deps[d].ws = w /\ deps[d].head = c
  BY CoFacts DEF RecordAcceptance, Call, DeploymentEvidence
<1>2. Earned(Co.deps, w, c, done)
  BY <1>1, CoFacts DEF CoGood, Earned
<1> QED
  BY <1>1, <1>2, CoFacts, AcceptStepsAreSound, MutateKeeps

(* The evidence of the lane is that the agent has done both.                   *)
LEMMA LaneEvidenceIsEarned ==
  ASSUME PromotionInv, NEW q \in DOMAIN reqs, NEW h \in DOMAIN reqs, NEW c,
         LaneEvidence(q, h, c)
  PROVE  LaneEarned(c, done)
<1>1. \A p \in DOMAIN reqs : RequestSound(reqs[p], done)
  BY LaneFacts DEF PromotionInv
<1>2. /\ reqs[q].kind = "deploy" /\ reqs[q].head = c /\ reqs[q].term = "succeeded"
      /\ reqs[h].kind = "health" /\ reqs[h].head = c /\ reqs[h].term = "succeeded"
  BY DEF LaneEvidence
<1>3. reqs[q].agent \in done /\ reqs[h].agent \in done
  BY <1>1, <1>2 DEF RequestSound
<1>4. done \subseteq AgentIds
  BY DEF PromotionInv, LaneInv, AgentTypes
<1>5. reqs[q].agent # Nobody /\ reqs[h].agent # Nobody
  BY <1>3, <1>4, NobodyIsNoAgent
<1>6. /\ reqs[q].agent.of = "ticket" /\ reqs[q].agent.head = c
      /\ reqs[h].agent.of = "health" /\ reqs[h].agent.head = c
  BY <1>1, <1>2, <1>5 DEF RequestSound
<1> QED
  BY <1>3, <1>6 DEF LaneEarned

\* A verdict copied from the agent's answers keeps the invariant.
LEMMA BridgeAcceptanceKeeps ==
  ASSUME PromotionInv, NEW w \in Workstreams, NEW c \in Commits, NEW q \in DOMAIN reqs,
         NEW h \in DOMAIN reqs, NEW ok \in BOOLEAN, BridgeAcceptance(w, c, q, h, ok)
  PROVE  PromotionInv'
<1> DEFINE record == [NewDeploy(w, c, 0, reqs[q].id, 0, FALSE)
                      EXCEPT !.lane = q, !.pend = FALSE, !.hist = "succeeded"]
           old == {d \in DOMAIN deps : deps[d].lane = q}
<1>1. PICK copies \in IF old = {} THEN {Append(deps, record)}
                       ELSE {[deps EXCEPT ![d] = record] : d \in old} :
        LET copied == [Co EXCEPT !.deps = copies]
        IN Mutate(<< copied >> \o AcceptSteps(copied, w, c, ok))
  BY DEF BridgeAcceptance
<1> DEFINE copied == [Co EXCEPT !.deps = copies]
<1>2. /\ test' = test /\ calls' \in Nat
      /\ ws[w].cands[c].state # "none" /\ LaneEvidence(q, h, c)
  <2>1. Call /\ ws[w].cands[c].state # "none" /\ LaneEvidence(q, h, c)
    BY DEF BridgeAcceptance
  <2> QED
    BY <2>1, CoFacts DEF Call
<1>3. q \in Nat \ {0} /\ reqs[q].id \in Nat
  <2>1. reqs \in Seq(RequestRecords)
    BY LaneFacts DEF PromotionInv, FileStates
  <2>2. reqs[q] \in RequestRecords
    BY <2>1, ElementOfSeq, LenProperties
  <2> QED
    BY SMTT(30), <2>1, <2>2, LenProperties DEF RequestRecords
<1>4. /\ record \in DeployRecords /\ record.ws = w /\ record.head = c
      /\ record.lane # 0 /\ ~record.pend
  BY <1>3 DEF NewDeploy, DeployRecords
<1>5. LaneEarned(c, done)
  BY <1>2, LaneEvidenceIsEarned
<1> HIDE DEF record
<1>6. CoSound(Co, copied, done)
  <2>1. /\ CoGood(Co, done) /\ Co.deps = deps /\ Co.ws = ws
        /\ Co.ws[record.ws].cands[record.head].state # "none"
    BY <1>2, <1>4, CoFacts
  <2>2. CASE old = {}
    <3>1. copied = [Co EXCEPT !.deps = Append(@, record)]
      BY <1>1, <2>1, <2>2
    <3> HIDE DEF copied
    <3>2. CoSound(Co, [Co EXCEPT !.deps = Append(@, record)], done)
      BY <1>4, <1>5, <2>1, NewDepIsSound
    <3> QED
      BY <3>1, <3>2
  <2>3. CASE old # {}
    <3>1. PICK d \in old : copies = [deps EXCEPT ![d] = record]
      BY <1>1, <2>3
    <3>2. copied = [Co EXCEPT !.deps = [Co.deps EXCEPT ![d] = record]]
      BY <2>1, <3>1
    <3>3. d \in DOMAIN Co.deps /\ Co.deps[d].lane # 0
      BY <1>3, <2>1, <3>1
    <3> HIDE DEF copied, old
    <3>4. CoSound(Co, [Co EXCEPT !.deps = [Co.deps EXCEPT ![d] = record]], done)
      BY <1>4, <1>5, <2>1, <3>3, CopyDepIsSound
    <3> QED
      BY <3>2, <3>4
  <2> QED
    BY <2>2, <2>3
<1>7. Mutate(<< copied >> \o AcceptSteps(copied, w, c, ok))
  BY <1>1
<1> HIDE DEF copied
<1>8. CoGood(copied, done) /\ Earned(copied.deps, w, c, done)
  BY <1>5, <1>6 DEF CoSound, Earned
<1>9. AllCo(AcceptSteps(copied, w, c, ok), copied, done)
  BY <1>8, AcceptStepsAreSound
<1>10. AllCo(<< copied >> \o AcceptSteps(copied, w, c, ok), Co, done)
  BY <1>6, <1>9, OneCo, JoinedCo
<1> QED
  BY <1>2, <1>7, <1>10, MutateKeeps

\* Completing a workstream keeps the invariant.
LEMMA CompleteKeeps ==
  ASSUME PromotionInv, NEW w \in Workstreams, NEW c \in Commits, NEW outcome \in Outcomes,
         Complete(w, outcome, c)
  PROVE  PromotionInv'
<1> DEFINE cand == [ws[w].cands[c] EXCEPT !.state = "merged"]
           item == IF outcome = "merged" THEN WithCand(ws[w], c, cand) ELSE ws[w]
           l == Released(Co.lease, w)
           freed == [Co EXCEPT !.lease = l]
           next == [item EXCEPT !.state = outcome]
<1>1. /\ Mutate(<< freed, WithWs(freed, w, next) >>) /\ test' = test /\ calls' \in Nat
  BY CoFacts DEF Complete, Call
<1>2. /\ cand \in CandRecords /\ cand.state # "none" /\ cand.state # "pre_merge"
      /\ ws[w] \in WsRecords /\ outcome \in WsStates
      /\ l \in Leases /\ LaneLeaseKept(Co.lease, l)
  BY CoFacts, CallerAssumption, ReleasedIsLease DEF CandRecords, WsStates, FinalWs
<1> HIDE DEF cand, l
<1>3. Advances(ws[w], item, {}) /\ item \in WsRecords
  <2>1. Advances(ws[w], item, {})
    BY <1>2, CandAdvances, AdvancesIsPreorder
  <2> QED
    BY <2>1 DEF Advances
<1> HIDE DEF item
<1>4. Advances(item, next, {})
  BY <1>2, <1>3, FieldsAdvance
<1>5. Advances(Co.ws[w], next, {x \in Commits : Earned(Co.deps, w, x, done)})
  BY <1>3, <1>4, CoFacts, AdvancesIsPreorder, AdvancesMore
<1> HIDE DEF next
<1>6. AllCo(<< freed, WithWs(freed, w, next) >>, Co, done)
  BY <1>2, <1>5, CoFacts, LeaseThenWs
<1> QED
  BY <1>1, <1>6, MutateKeeps

(* Whatever a closed or merged pull request asks for, it is written in one go. *)
LEMMA ReconcileExternalWrites ==
  ASSUME NEW w, NEW c, ReconcileExternal(w, c)
  PROVE  Call /\ \E steps : Mutate(steps)
BY ZenonT(30) DEF ReconcileExternal

\* A workstream settled from outside keeps the invariant.
LEMMA ReconcileExternalKeeps ==
  ASSUME PromotionInv, NEW w \in Workstreams, NEW c \in Commits, ReconcileExternal(w, c)
  PROVE  PromotionInv'
<1> DEFINE seen == pr[c]
           up == Upsert(ws[w], c, "nothing")
           fresh == [up.cands[c] EXCEPT !.state = "developing"]
           item == IF ws[w].head = c THEN ws[w] ELSE WithCand(up, c, fresh)
           shut == seen = "closed" /\ item.state \notin FinalWs
           wins == seen = "merged" /\ item.state = "pre_merge"
           cand == [item.cands[c] EXCEPT !.state = "merged"]
           held == WithCand(item, c, cand)
           next == IF shut THEN [item EXCEPT !.state = "decision_required"]
                   ELSE IF wins THEN [held EXCEPT !.state = "merged"]
                   ELSE item
           l == IF shut \/ wins THEN Released(Co.lease, w) ELSE Co.lease
           freed == [Co EXCEPT !.lease = l]
<1>1. /\ Mutate(<< freed, WithWs(freed, w, next) >>) /\ test' = test /\ calls' \in Nat
  <2>1. Mutate(<< freed, WithWs(freed, w, next) >>)
    BY ZenonT(30) DEF ReconcileExternal
  <2> HIDE DEF freed, next
  <2> QED
    BY <2>1, CoFacts, ReconcileExternalWrites DEF Call
<1>2. ws[w] \in WsRecords /\ l \in Leases /\ LaneLeaseKept(Co.lease, l)
  BY CoFacts, ReleasedIsLease
<1> HIDE DEF l
<1>3. Advances(ws[w], up, {}) /\ up \in WsRecords
  <2>1. Advances(ws[w], up, {})
    BY <1>2, UpsertAdvances DEF Asked
  <2> QED
    BY <2>1 DEF Advances
<1> HIDE DEF up
<1>4. fresh \in CandRecords /\ fresh.state # "none" /\ fresh.state # "pre_merge"
  <2>1. up.cands[c] \in CandRecords
    BY <1>3, WsFields
  <2> QED
    BY <2>1 DEF CandRecords, WsStates
<1> HIDE DEF fresh
<1>5. Advances(ws[w], item, {}) /\ item \in WsRecords
  <2>1. Advances(ws[w], item, {})
    <3>1. Advances(up, WithCand(up, c, fresh), {})
      BY <1>3, <1>4, CandAdvances
    <3> QED
      BY <1>2, <1>3, <3>1, AdvancesIsPreorder
  <2> QED
    BY <2>1 DEF Advances
<1> HIDE DEF item
<1>6. cand \in CandRecords /\ cand.state # "none" /\ cand.state # "pre_merge"
  <2>1. item.cands[c] \in CandRecords
    BY <1>5, WsFields
  <2> QED
    BY <2>1 DEF CandRecords, WsStates, FinalWs
<1> HIDE DEF cand
<1>7. Advances(item, held, {}) /\ held \in WsRecords
  <2>1. Advances(item, held, {})
    BY <1>5, <1>6, CandAdvances
  <2> QED
    BY <2>1 DEF Advances
<1> HIDE DEF held
<1>8. Advances(item, next, {})
  <2>1. "decision_required" \in WsStates /\ "merged" \in WsStates
    BY DEF WsStates, FinalWs
  <2>2. /\ Advances(item, [item EXCEPT !.state = "decision_required"], {})
        /\ Advances(held, [held EXCEPT !.state = "merged"], {})
    BY <1>5, <1>7, <2>1, FieldsAdvance
  <2>3. Advances(item, [held EXCEPT !.state = "merged"], {})
    BY <1>7, <2>2, AdvancesIsPreorder
  <2> QED
    BY <1>5, <2>2, <2>3, AdvancesIsPreorder
<1> HIDE DEF next
<1>9. Advances(Co.ws[w], next, {x \in Commits : Earned(Co.deps, w, x, done)})
  BY <1>5, <1>8, CoFacts, AdvancesIsPreorder, AdvancesMore
<1>10. AllCo(<< freed, WithWs(freed, w, next) >>, Co, done)
  BY <1>2, <1>9, CoFacts, LeaseThenWs
<1> QED
  BY <1>1, <1>10, MutateKeeps

-----------------------------------------------------------------------------
(* Leases and time, the lane, the agent.                                       *)

(* The lease or a lock runs out, or the test environment is taken or given     *)
(* back.                                                                       *)
LEMMA TimeKeeps ==
  ASSUME PromotionInv,
         \/ ExpireTest \/ ExpireReservation
         \/ \E w \in Workstreams : AcquireTest(w) \/ ReleaseTest(w) \/ ExpireLock(w)
  PROVE  PromotionInv'
<1>1. /\ UNCHANGED laneVars /\ UNCHANGED queueVars /\ deps' = deps
      /\ lease' = lease \/ (lease.by = "ws" /\ lease' = NoLease)
      /\ \/ ws' = ws
         \/ \E w \in Workstreams : ws' = [ws EXCEPT ![w].live = FALSE]
  BY DEF ExpireTest, ExpireReservation, AcquireTest, ReleaseTest, ExpireLock, coordVars
<1>2. test' \in [ws : Workstreams \cup {0}, live : BOOLEAN] /\ calls' \in Nat
  <2> DEFINE T == [ws : Workstreams \cup {0}, live : BOOLEAN]
  <2>1. NoTest \in T /\ test \in T /\ calls \in Nat /\ calls + 1 \in Nat
        /\ \A w \in Workstreams : [ws |-> w, live |-> TRUE] \in T
    BY CoFacts DEF NoTest
  <2>2. [test EXCEPT !.live = FALSE] \in T
    BY <2>1
  <2>3. CASE ExpireTest
    BY <2>1, <2>2, <2>3 DEF ExpireTest
  <2>4. CASE ExpireReservation \/ \E w \in Workstreams : ExpireLock(w)
    BY <2>1, <2>4 DEF ExpireReservation, ExpireLock, coordVars
  <2>5. CASE \E w \in Workstreams : AcquireTest(w) \/ ReleaseTest(w)
    BY <2>1, <2>5 DEF AcquireTest, ReleaseTest
  <2> QED
    BY <2>3, <2>4, <2>5
<1>3. lease' \in Leases /\ LaneLeaseKept(lease, lease')
  BY <1>1, CoFacts DEF Leases, LaneLeaseKept, NoLease
<1>4. LaneInv'
  <2>1. /\ UNCHANGED <<laneFiles, github, cache, plan, others>> /\ UNCHANGED agentVars
        /\ thread' = thread /\ crashes' = crashes /\ incoming' = incoming
    BY <1>1 DEF laneVars, queueVars
  <2> QED
    BY <1>3, <2>1, LeaseKeepsLane DEF PromotionInv, LaneInv, AgentTypes
<1> DEFINE l == lease'
           freed == [Co EXCEPT !.lease = l]
<1>5. CoSound(Co, freed, done) /\ freed.ws = ws /\ freed.deps = deps /\ freed.incoming = incoming
  <2>1. /\ CoGood(Co, done) /\ l \in Leases /\ Co.ws = ws /\ Co.deps = deps
        /\ Co.incoming = incoming /\ LaneLeaseKept(Co.lease, l)
    BY <1>3, CoFacts
  <2> HIDE DEF l
  <2> QED
    BY <2>1, LeaseWriteIsSound
<1>6. freed \in CoStates /\ CoGood(freed, done)
  BY <1>5 DEF CoSound, CoGood
<1>7. CoGood(Co', done')
  <2>1. CASE ws' = ws
    <3>1. Co' = freed /\ done' = done
      BY <1>1, <2>1 DEF Co, queueVars, agentVars
    <3> QED
      BY <1>6, <3>1
  <2>2. CASE \E w \in Workstreams : ws' = [ws EXCEPT ![w].live = FALSE]
    <3>1. PICK w \in Workstreams : ws' = [ws EXCEPT ![w].live = FALSE]
      BY <2>2
    <3> DEFINE item == [ws[w] EXCEPT !.live = FALSE]
    <3>2. Advances(freed.ws[w], item, {})
      <4>1. ws[w] \in WsRecords
        BY CoFacts
      <4>2. Advances(ws[w], item, {})
        BY <4>1 DEF Advances, WsRecords
      <4> QED
        BY <1>5, <4>2
    <3>3. ws' = [ws EXCEPT ![w] = item]
      BY <3>1
    <3> HIDE DEF item, freed
    <3>4. CoSound(freed, WithWs(freed, w, item), done)
      BY <1>6, <3>2, AdvancesMore, WithWsIsSound
    <3>5. Co' = WithWs(freed, w, item) /\ done' = done
      <4>1. freed = [ws |-> ws, deps |-> deps, lease |-> lease', incoming |-> incoming]
        BY DEF freed, Co
      <4>2. WithWs(freed, w, item) = [ws |-> [ws EXCEPT ![w] = item], deps |-> deps,
                                      lease |-> lease', incoming |-> incoming]
        BY <4>1 DEF WithWs
      <4> QED
        BY <1>1, <3>3, <4>2 DEF Co, queueVars, agentVars
    <3> QED
      BY <3>4, <3>5 DEF CoSound
  <2> QED
    BY <1>1, <2>1, <2>2
<1>8. CoGood(Co, done)'
  BY <1>7
<1>9. AllSent(deps, done \cup {working})'
  BY <1>1 DEF PromotionInv, CoordInv, queueVars, agentVars
<1>10. LeaseInv'
  <2>1. UNCHANGED <<active, thread, crashes>>
    BY <1>1 DEF laneVars, laneFiles
  <2> QED
    BY <1>3, <2>1 DEF PromotionInv, LeaseInv, LaneLeaseKept
<1> QED
  BY <1>2, <1>4, <1>8, <1>9, <1>10 DEF PromotionInv, CoordInv

(* The lane and the agent write no workstream and no deployment record; what   *)
(* was carried out stays carried out, and no request of the coordinator comes  *)
(* from nowhere.                                                               *)
LEMMA OthersKeepCoord ==
  ASSUME CoordInv, LaneInv', UNCHANGED coordVars, done \subseteq done',
         \A x \in incoming' : x.of = "coord" => x \in incoming,
         \A x \in done' \cup {working'} :
           x.of = "coord" => x \in done \cup {working} \cup incoming
  PROVE  CoordInv'
<1>1. /\ CoGood(Co, done) /\ Co \in CoStates /\ AllSent(deps, done \cup {working})
      /\ test \in [ws : Workstreams \cup {0}, live : BOOLEAN] /\ calls \in Nat
  BY DEF CoordInv, CoGood
<1>2. Co'.ws = Co.ws /\ Co'.deps = Co.deps /\ Co'.incoming = incoming' /\ Co.incoming = incoming
  BY DEF Co, coordVars
<1>3. Co' \in CoStates
  <2>1. lease' \in Leases /\ incoming' \subseteq AgentIds
    BY DEF LaneInv, Good, FileStates, Files, AgentTypes
  <2> QED
    BY <1>1, <2>1 DEF CoStates, Co, coordVars
<1>4. \A w, c : Earned(Co.deps, w, c, done) => Earned(Co.deps, w, c, done')
  BY DEF Earned, LaneEarned
<1>5. \A c : LaneEarned(c, done) => LaneEarned(c, done')
  BY DEF LaneEarned
<1>6. /\ CopiesEarned(Co'.deps, done') /\ SecondAfterFailure(Co'.deps)
      /\ AllSent(Co'.deps, Co'.incoming)
  <2>1. CopiesEarned(Co.deps, done) /\ SecondAfterFailure(Co.deps) /\ AllSent(Co.deps, incoming)
    BY <1>1, <1>2 DEF CoGood
  <2>2. CopiesEarned(Co.deps, done')
    BY <1>5, <2>1 DEF CopiesEarned
  <2>3. AllSent(Co.deps, incoming')
    BY <2>1 DEF AllSent
  <2> QED
    BY <1>2, <2>1, <2>2, <2>3
<1>7. CoGood(Co', done')
  BY <1>1, <1>2, <1>3, <1>4, <1>5, <1>6 DEF CoGood
<1>8. CoGood(Co, done)'
  BY <1>7
<1>9. AllSent(deps, done \cup {working})'
  <2>1. AllSent(deps, incoming) /\ deps' = deps
    BY <1>1, <1>2 DEF CoGood, Co, coordVars
  <2> QED
    BY <1>1, <2>1 DEF AllSent
<1> QED
  BY <1>1, <1>8, <1>9 DEF CoordInv, coordVars

(* The lane carries nothing out itself, and sends its own requests only.       *)
LEMMA LaneCarriesNothingOut ==
  ASSUME LaneMove
  PROVE  /\ done' = done /\ working' = working
         /\ \A x \in incoming' : x.of = "coord" => x \in incoming
<1>1. CASE \E a \in Threads : Publish(a)
  <2>1. \A a \in Threads : AgentId(a).of # "coord"
    BY DEF AgentId, Request
  <2> QED
    BY <1>1, <2>1 DEF Publish, agentVars
<1>2. CASE ToolStep /\ ~Publish("tool")
  BY <1>2 DEF ToolStep, EnqueueDeployment, Admit, EnqueueHealth, TouchLane, Activate, Bind,
     BindFails, PublishFails, Observe, OrphanStatus, queueVars, agentVars
<1>3. CASE LoopStep /\ ~Publish("loop")
  BY <1>3 DEF LoopStep, ReconcileStart, ReconcileReadPR, ReconcileApply, ReconcileUnreachable,
     DispatchSelect, DispatchAttested, DispatchRefused, DispatchClaim, Activate, Bind,
     BindFails, PublishFails, queueVars, agentVars
<1>4. CASE GitHubStep \/ Crash
  BY <1>4 DEF GitHubStep, MergePullRequest, ClosePullRequest, Crash, queueVars, agentVars
<1> QED
  BY <1>1, <1>2, <1>3, <1>4 DEF LaneMove, Threads

(* The agent carries out what it has taken, and takes what was sent.           *)
LEMMA AgentCarriesOut ==
  ASSUME AgentMove
  PROVE  /\ done \subseteq done'
         /\ \A x \in incoming' : x.of = "coord" => x \in incoming
         /\ \A x \in done' \cup {working'} :
              x.of = "coord" => x \in done \cup {working} \cup incoming
<1>1. Nobody.of # "coord" /\ \A n : Request("other", n, "other", 0).of # "coord"
  BY DEF Nobody, Request
<1> QED
  BY <1>1 DEF AgentMove, AgentStep, AgentTake, AgentSucceed, AgentFinish, AgentFail, AgentSlip,
     AgentStop, EnqueueUnmanaged, Dropped, agentVars

(* Every step of the coordinator keeps the invariant.                         *)
LEMMA CoordKeeps ==
  ASSUME PromotionInv, CoordStep
  PROVE  PromotionInv'
<1>1. /\ Teams \subseteq Workstreams /\ Candidates \subseteq Commits
      /\ CallerRanks \subseteq Priorities /\ CallerIds \subseteq DeployIds
      /\ CallerKeys \subseteq Keys
  BY DEF Teams, Candidates, CallerRanks, CallerIds, CallerKeys
<1>2. CASE Pass \/ ExpireTest \/ ExpireReservation
  BY <1>2, PassKeeps, TimeKeeps
<1>3. CASE \E w \in Teams : AcquireTest(w) \/ ReleaseTest(w) \/ ExpireLock(w)
  BY <1>1, <1>3, TimeKeeps
<1>4. CASE \E w \in Teams, s \in Heartbeats : Heartbeat(w, s)
  BY <1>1, <1>4, HeartbeatKeeps
<1>5. CASE \E w \in Teams, c \in Candidates :
             \/ Reserve(w, c) \/ ReconcileExternal(w, c)
             \/ \E asked \in Asked : Register(w, c, asked) \/ RegisterCandidate(w, c, asked)
  BY <1>1, <1>5, RegisterKeeps, RegisterCandidateKeeps, ReserveKeeps, ReconcileExternalKeeps
<1>6. CASE \E w \in Teams, c \in Candidates, result \in {"passed", "failed"} :
             RecordEvidence(w, c, result)
  BY <1>1, <1>6, RecordEvidenceKeeps
<1>7. CASE \E w \in Teams, c \in Candidates, rank \in CallerRanks, id \in CallerIds,
             key \in CallerKeys, again \in BOOLEAN : QueueDeployment(w, c, rank, id, key, again)
  BY <1>1, <1>7, QueueDeploymentKeeps
<1>8. CASE \E w \in Teams, c \in Candidates, d \in DOMAIN deps, ok \in BOOLEAN :
             RecordAcceptance(w, c, d, ok)
  BY <1>1, <1>8, RecordAcceptanceKeeps
<1>9. CASE \E w \in Teams, c \in Candidates, q \in DOMAIN reqs, h \in DOMAIN reqs,
             ok \in BOOLEAN : BridgeAcceptance(w, c, q, h, ok)
  BY <1>1, <1>9, BridgeAcceptanceKeeps
<1>10. CASE \E w \in Teams, c \in Candidates, outcome \in Outcomes : Complete(w, outcome, c)
  BY <1>1, <1>10, CompleteKeeps
<1> QED
  BY <1>2, <1>3, <1>4, <1>5, <1>6, <1>7, <1>8, <1>9, <1>10 DEF CoordStep

-----------------------------------------------------------------------------
(* What the lane's writes do to its lease and to the requests that wait.       *)

(* The five files, as a record.                                                *)
Five(f) == f = [reqs |-> f.reqs, ready |-> f.ready, active |-> f.active, archive |-> f.archive,
                lease |-> f.lease]

(* The requests that wait without a waiting file.                              *)
Lost(f) == {q \in DOMAIN f.reqs : f.reqs[q].state = "waiting_promotion" /\ q \notin f.ready}

(* A lease of the lane is the active ticket's.                                 *)
Held(f) == f.lease.by = "lane" => f.active # NoTicket /\ f.lease.owner = f.active.ticket

(* A section leaves the lease with its ticket, gives it to the active ticket   *)
(* or to a new one, or takes it from a ticket it has archived.                 *)
Turns(f, g) ==
  \/ g.lease = f.lease /\ (g.active = f.active \/ (g.active = NoTicket /\ f.lease.by # "lane"))
  \/ /\ g.lease.by = "lane" /\ g.active # NoTicket /\ g.lease.owner = g.active.ticket
     /\ \/ f.active # NoTicket /\ f.active.ticket = g.active.ticket
        \/ f.lease.by # "lane" /\ \E a \in Threads : thread[a].pc = "activate"
  \/ /\ g.lease = NoLease /\ g.active = NoTicket /\ f.lease.by = "lane"
     /\ \E t \in g.archive : t.ticket = f.lease.owner

(* Write g of a section over f where a crash may leave it, and where it ends.  *)
Cut(f, g) == Held(g) /\ \E q : Lost(g) \subseteq Lost(f) \cup {q}
Ends(f, g) == Held(g) /\ Lost(g) \subseteq Lost(f) /\ Turns(f, g)

AllFit(f, steps) ==
  /\ Len(steps) \in Nat /\ \A i \in 1 .. Len(steps) : Cut(f, steps[i])
  /\ Ends(f, After(steps, f))

(* A write that touches neither the lease nor the ticket, and loses nothing.   *)
Still(f, g) ==
  Five(g) /\ g.lease = f.lease /\ g.active = f.active /\ Lost(g) \subseteq Lost(f)

(* Three writes after one are four.                                            *)
LEMMA OneThenThree ==
  ASSUME NEW f, NEW g, NEW h, NEW k
  PROVE  << f >> \o << g, h, k >> = << f, g, h, k >>
<1> DEFINE S == {f, g, h, k}
           a == << f >>
           b == << g, h, k >>
           c == << f, g, h, k >>
<1>1. a \in Seq(S) /\ b \in Seq(S) /\ c \in Seq(S) /\ Len(a) = 1 /\ Len(b) = 3 /\ Len(c) = 4
  OBVIOUS
<1>2. /\ a[1] = f /\ b[1] = g /\ b[2] = h /\ b[3] = k
      /\ c[1] = f /\ c[2] = g /\ c[3] = h /\ c[4] = k
  OBVIOUS
<1> HIDE DEF a, b, c
<1>3. /\ a \o b \in Seq(S) /\ Len(a \o b) = Len(a) + Len(b)
      /\ \A i \in 1 .. Len(a) + Len(b) : (a \o b)[i] = IF i <= Len(a) THEN a[i] ELSE b[i - Len(a)]
  BY <1>1, ConcatProperties
<1>4. \A i \in 1 .. Len(c) : i = 1 \/ i = 2 \/ i = 3 \/ i = 4
  BY <1>1
<1>5. \A i \in 1 .. Len(c) : (a \o b)[i] = c[i]
  <2>1. (a \o b)[1] = a[1] /\ (a \o b)[2] = b[1] /\ (a \o b)[3] = b[2] /\ (a \o b)[4] = b[3]
    BY <1>1, <1>3
  <2> QED
    BY <1>2, <1>4, <2>1
<1>6. a \o b = c
  BY <1>1, <1>3, <1>5, SeqEqual
<1> QED
  BY <1>6 DEF a, b, c

(* A write after three others is the fourth.                                   *)
LEMMA ThreeThenOne ==
  ASSUME NEW f, NEW g, NEW h, NEW k
  PROVE  Append(<< f, g, h >>, k) = << f, g, h, k >>
<1> DEFINE S == {f, g, h, k}
           a == << f, g, h >>
           c == << f, g, h, k >>
<1>1. a \in Seq(S) /\ c \in Seq(S) /\ Len(a) = 3 /\ Len(c) = 4 /\ k \in S
  OBVIOUS
<1>2. a[1] = f /\ a[2] = g /\ a[3] = h /\ c[1] = f /\ c[2] = g /\ c[3] = h /\ c[4] = k
  OBVIOUS
<1> HIDE DEF a, c, S
<1>3. /\ Append(a, k) \in Seq(S) /\ Len(Append(a, k)) = Len(a) + 1
      /\ \A i \in 1 .. Len(a) : Append(a, k)[i] = a[i]
      /\ Append(a, k)[Len(a) + 1] = k
  <2>1. \A s \in Seq(S) : \A x \in S :
          /\ Append(s, x) \in Seq(S) /\ Len(Append(s, x)) = Len(s) + 1
          /\ \A i \in 1 .. Len(s) : Append(s, x)[i] = s[i]
          /\ Append(s, x)[Len(s) + 1] = x
    BY AppendProperties
  <2> QED
    BY <1>1, <2>1, Zenon
<1>4. \A i \in 1 .. Len(c) : i = 1 \/ i = 2 \/ i = 3 \/ i = 4
  BY <1>1
<1>5. \A i \in 1 .. Len(c) : Append(a, k)[i] = c[i]
  <2>1. /\ Append(a, k)[1] = a[1] /\ Append(a, k)[2] = a[2] /\ Append(a, k)[3] = a[3]
        /\ Append(a, k)[4] = k
    BY <1>1, <1>3
  <2> QED
    BY <1>2, <1>4, <2>1
<1>6. Append(a, k) = c
  BY <1>1, <1>3, <1>5, SeqEqual
<1> QED
  BY <1>6 DEF a, c

(* Short lists of writes.                                                      *)
LEMMA ShortFits ==
  ASSUME NEW f, NEW a, NEW b, NEW c, NEW d
  PROVE  /\ Ends(f, f) => AllFit(f, <<>>)
         /\ Ends(f, a) => AllFit(f, << a >>) /\ AllFit(f, << a >> \o <<>>)
         /\ Cut(f, a) /\ Ends(f, b) => AllFit(f, << a, b >>)
         /\ Cut(f, a) /\ Cut(f, b) /\ Ends(f, c) => AllFit(f, << a, b, c >>)
         /\ Cut(f, a) /\ Cut(f, b) /\ Cut(f, c) /\ Ends(f, d) => AllFit(f, << a, b, c, d >>)
<1>1. \A x : Ends(f, x) => Cut(f, x)
  BY DEF Ends, Cut
<1>2. /\ After(<<>>, f) = f /\ After(<< a >>, f) = a /\ After(<< a, b >>, f) = b
      /\ After(<< a, b, c >>, f) = c /\ After(<< a, b, c, d >>, f) = d
  BY DEF After
<1>3. << a >> \o <<>> = << a >>
  OBVIOUS
<1> HIDE DEF Ends, Cut
<1>4. Ends(f, f) => AllFit(f, <<>>)
  BY <1>2 DEF AllFit
<1>5. Ends(f, a) => AllFit(f, << a >>)
  BY <1>1, <1>2 DEF AllFit
<1>6. Cut(f, a) /\ Ends(f, b) => AllFit(f, << a, b >>)
  BY <1>1, <1>2 DEF AllFit
<1>7. Cut(f, a) /\ Cut(f, b) /\ Ends(f, c) => AllFit(f, << a, b, c >>)
  BY <1>1, <1>2 DEF AllFit
<1>8. Cut(f, a) /\ Cut(f, b) /\ Cut(f, c) /\ Ends(f, d) => AllFit(f, << a, b, c, d >>)
  BY <1>1, <1>2 DEF AllFit
<1> QED
  BY <1>3, <1>4, <1>5, <1>6, <1>7, <1>8

(* A still write may end a section.                                            *)
LEMMA StillEnds ==
  ASSUME NEW f, Held(f), NEW g, Still(f, g)
  PROVE  Ends(f, g) /\ Cut(f, g)
BY DEF Still, Ends, Cut, Held, Turns

(* One request file is written, in no waiting state.                           *)
LEMMA NoteIsStill ==
  ASSUME NEW f, Five(f), NEW q, NEW r, r.state # "waiting_promotion", NEW g, g = WithReq(f, q, r)
  PROVE  Still(f, g)
<1> DEFINE rs == [f.reqs EXCEPT ![q] = r]
<1>1. g = [reqs |-> rs, ready |-> f.ready, active |-> f.active, archive |-> f.archive,
           lease |-> f.lease]
  BY DEF Five, WithReq
<1>2. DOMAIN rs = DOMAIN f.reqs /\ \A p \in DOMAIN rs : rs[p] = IF p = q THEN r ELSE f.reqs[p]
  OBVIOUS
<1> HIDE DEF rs
<1>3. g.reqs = rs /\ g.ready = f.ready /\ g.active = f.active /\ g.lease = f.lease
      /\ g.archive = f.archive
  BY <1>1
<1>4. Lost(g) \subseteq Lost(f)
  BY <1>2, <1>3 DEF Lost
<1> QED
  BY <1>1, <1>3, <1>4 DEF Five, Still

(* The ticket and then the lease are written.                                  *)
LEMMA TicketFits ==
  ASSUME NEW f, Held(f), f.active # NoTicket, NEW g, Still(f, g), NEW t,
         t.ticket = f.active.ticket, t.ticket # 0
  PROVE  AllFit(f, TicketSteps(g, t)) /\ AllFit(f, << g >> \o TicketSteps(g, t))
<1> DEFINE a == WithActive(g, t)
           b == WithLease(a, t)
           l == [by |-> "lane", owner |-> t.ticket, head |-> t.head]
<1>1. TicketSteps(g, t) = << a, b >>
  BY DEF TicketSteps
<1>2. a = [reqs |-> g.reqs, ready |-> g.ready, active |-> t, archive |-> g.archive,
           lease |-> g.lease]
  BY DEF Five, Still, WithActive
<1>3. l.by = "lane" /\ l.owner = t.ticket /\ t # NoTicket
  BY DEF NoTicket
<1> HIDE DEF a, l
<1>4. b = [reqs |-> g.reqs, ready |-> g.ready, active |-> t, archive |-> g.archive, lease |-> l]
  BY <1>2 DEF WithLease, l
<1> HIDE DEF b
<1>5. Lost(a) = Lost(g) /\ Lost(b) = Lost(g)
  BY <1>2, <1>4 DEF Lost
<1>6. a.lease = f.lease /\ a.active = t /\ b.lease = l /\ b.active = t
  BY <1>2, <1>4 DEF Still
<1>7. Cut(f, a)
  BY <1>3, <1>5, <1>6 DEF Cut, Held, Still
<1>8. Ends(f, b)
  BY <1>3, <1>5, <1>6 DEF Ends, Held, Still, Turns
<1>9. << g >> \o << a, b >> = << g, a, b >>
  BY OneThenTwo
<1> QED
  BY <1>1, <1>7, <1>8, <1>9, StillEnds, ShortFits

(* The ticket is archived: history, lease, active file.                        *)
LEMMA ArchiveFits ==
  ASSUME NEW f, Held(f), f.active \in TicketRecords, f.active # NoTicket, NEW g, Still(f, g),
         NEW state
  PROVE  /\ AllFit(f, ArchiveSteps(g, f.active, state))
         /\ AllFit(f, << g >> \o ArchiveSteps(g, f.active, state))
<1> DEFINE t == f.active
           u == [t EXCEPT !.state = state]
           A == {v \in g.archive : v.ticket # t.ticket} \cup {u}
           l == IF g.lease.by = "lane" /\ g.lease.owner = t.ticket THEN NoLease ELSE g.lease
           kept == [g EXCEPT !.archive =
                      {v \in g.archive : v.ticket # t.ticket} \cup {[t EXCEPT !.state = state]}]
           freed == IF g.lease.by = "lane" /\ g.lease.owner = t.ticket
                    THEN [kept EXCEPT !.lease = NoLease] ELSE kept
           last == WithActive(freed, NoTicket)
<1>1. ArchiveSteps(g, f.active, state) = << kept, freed, last >>
  BY DEF ArchiveSteps
<1>2. u.ticket = t.ticket /\ u \in A
  BY DEF TicketRecords
<1> HIDE DEF u
<1>3. kept = [g EXCEPT !.archive = A]
  BY DEF u
<1> HIDE DEF A, kept, t
<1>4. kept = [reqs |-> g.reqs, ready |-> g.ready, active |-> g.active, archive |-> A,
              lease |-> g.lease]
  BY <1>3 DEF Five, Still
<1>5. freed = [reqs |-> g.reqs, ready |-> g.ready, active |-> g.active, archive |-> A, lease |-> l]
  BY <1>4
<1>6. \/ l = f.lease /\ f.lease.by # "lane"
      \/ l = NoLease /\ f.lease.by = "lane" /\ f.lease.owner = t.ticket
  BY DEF Held, Still, t
<1>7. l.by # "lane"
  BY <1>6 DEF NoLease
<1> HIDE DEF freed, l
<1>8. last = [reqs |-> g.reqs, ready |-> g.ready, active |-> NoTicket, archive |-> A, lease |-> l]
  BY <1>5 DEF WithActive
<1> HIDE DEF last
<1>9. Lost(kept) = Lost(g) /\ Lost(freed) = Lost(g) /\ Lost(last) = Lost(g)
  BY <1>4, <1>5, <1>8 DEF Lost
<1>10. /\ kept.lease = f.lease /\ kept.active = f.active
       /\ freed.lease = l /\ last.lease = l /\ last.active = NoTicket /\ last.archive = A
  BY <1>4, <1>5, <1>8 DEF Still
<1>11. Cut(f, kept) /\ Cut(f, freed)
  BY <1>7, <1>9, <1>10 DEF Cut, Held, Still
<1>12. Ends(f, last)
  BY <1>2, <1>6, <1>7, <1>9, <1>10 DEF Ends, Held, Still, Turns
<1>13. << g >> \o << kept, freed, last >> = << g, kept, freed, last >>
  BY OneThenThree
<1> QED
  BY <1>1, <1>11, <1>12, <1>13, StillEnds, ShortFits

(* A request is noted, and then the ticket is written, archived or left alone; *)
(* or the ticket alone is.                                                     *)
LEMMA NotedThenFits ==
  ASSUME LaneInv, LeaseInv, NEW g, Still(Files, g), NEW more,
         \/ more = <<>>
         \/ active # NoTicket /\ \E t : t.ticket = active.ticket /\ more = TicketSteps(g, t)
         \/ active # NoTicket /\ \E state : more = ArchiveSteps(g, active, state)
  PROVE  AllFit(Files, << g >> \o more) /\ (g = Files => AllFit(Files, more))
<1> DEFINE f == Files
<1>1. Held(f) /\ f.active = active /\ active \in TicketRecords
  BY LaneFacts DEF LeaseInv, Held, Files
<1>2. active # NoTicket => active.ticket # 0
  BY LaneFacts DEF Good, TicketSound
<1>3. Still(f, g)
  OBVIOUS
<1> HIDE DEF f
<1>4. Ends(f, g) /\ (g = f => Ends(f, f))
  BY <1>1, <1>3, StillEnds
<1>5. CASE more = <<>>
  BY <1>4, <1>5, ShortFits DEF f
<1>6. CASE active # NoTicket /\ \E t : t.ticket = active.ticket /\ more = TicketSteps(g, t)
  BY <1>1, <1>2, <1>3, <1>6, TicketFits DEF f
<1>7. CASE active # NoTicket /\ \E state : more = ArchiveSteps(g, active, state)
  BY <1>1, <1>3, <1>7, ArchiveFits DEF f
<1> QED
  BY <1>5, <1>6, <1>7

(* What a step of the lane leaves behind: the files of one of its writes, the  *)
(* last one unless the server crashed.                                         *)
LaneEnds ==
  /\ \E g : /\ Install(g) /\ Cut(Files, g)
            /\ \/ crashes' = crashes /\ Ends(Files, g)
               \/ crashes' = crashes + 1 /\ thread' = NoThreads
  /\ \A a \in Threads : thread'[a].pc = "activate" => active' = NoTicket

(* A section leaves what its writes say.                                       *)
LEMMA SectionEnds ==
  ASSUME LaneInv, LeaseInv, NEW a \in Threads, NEW steps, NEW next, Section(a, steps, next),
         AllFit(Files, steps), next.pc = "activate" => After(steps, Files).active = NoTicket
  PROVE  LaneEnds
<1>1. CASE /\ Install(After(steps, Files)) /\ thread' = StartLoop([thread EXCEPT ![a] = next])
           /\ UNCHANGED crashes
  <2> DEFINE g == After(steps, Files)
  <2>1. Ends(Files, g) /\ Cut(Files, g)
    BY DEF AllFit, Ends, Cut
  <2>2. active' = g.active
    BY <1>1 DEF Install
  <2>3. \A b \in Threads : thread'[b].pc = "activate" => b = a /\ next.pc = "activate"
    <3>1. thread \in [Threads -> ThreadRecords] /\ \A b \in Threads \ {a} : thread[b].pc # "activate"
      BY DEF LaneInv, Section, Unlocked
    <3> DEFINE th == [thread EXCEPT ![a] = next]
    <3>2. DOMAIN th = Threads /\ \A b \in Threads : th[b] = IF b = a THEN next ELSE thread[b]
      BY <3>1
    <3> HIDE DEF th
    <3>3. \A b \in Threads : thread'[b] = th[b] \/ thread'[b] = Idle
      BY <1>1, <3>2 DEF StartLoop, th
    <3>4. Idle.pc # "activate"
      BY DEF Idle
    <3> QED
      BY <3>1, <3>2, <3>3, <3>4
  <2> HIDE DEF g
  <2>4. \A b \in Threads : thread'[b].pc = "activate" => active' = NoTicket
    BY <2>2, <2>3 DEF g
  <2> QED
    BY <1>1, <2>1, <2>4 DEF LaneEnds, g
<1>2. CASE (\E i \in 1..(Len(steps) - 1) : Install(steps[i])) /\ ServerDies
  <2>1. PICK i \in 1..(Len(steps) - 1) : Install(steps[i])
    BY <1>2
  <2>2. Cut(Files, steps[i])
    <3>1. Len(steps) \in Nat /\ i \in 1 .. Len(steps)
      BY <2>1 DEF AllFit
    <3> QED
      BY <3>1 DEF AllFit
  <2>3. crashes' = crashes + 1 /\ thread' = NoThreads
    BY <1>2 DEF ServerDies
  <2>4. \A b \in Threads : thread'[b].pc # "activate"
    BY <2>3 DEF NoThreads, Idle, Stopped
  <2> QED
    BY <2>1, <2>2, <2>3, <2>4 DEF LaneEnds
<1> QED
  BY <1>1, <1>2 DEF Section

(* The files of the lane, as a record, are sound and still.                    *)
LEMMA FilesAreStill ==
  ASSUME LaneInv, LeaseInv
  PROVE  /\ Five(Files) /\ Held(Files) /\ Still(Files, Files) /\ Ends(Files, Files)
         /\ AllFit(Files, <<>>)
<1>1. Five(Files)
  BY DEF Five, Files
<1>2. Held(Files)
  BY DEF LeaseInv, Held, Files
<1>3. Still(Files, Files)
  BY <1>1 DEF Still
<1> DEFINE f == Files
<1> HIDE DEF f
<1>4. Ends(f, f)
  BY <1>2, <1>3, StillEnds DEF f
<1>5. AllFit(f, <<>>)
  BY <1>4, ShortFits
<1> QED
  BY <1>1, <1>2, <1>3, <1>4, <1>5 DEF f

(* No file of the lane is written, and no thread finds the lane free.          *)
LEMMA UnwrittenEnds ==
  ASSUME LaneInv, LeaseInv, UNCHANGED <<laneFiles, lease, crashes>>,
         \A a \in Threads : thread'[a].pc = "activate" => thread[a].pc = "activate"
  PROVE  LaneEnds
<1>1. Install(Files)
  BY DEF Install, Files, laneFiles
<1>2. Ends(Files, Files) /\ Cut(Files, Files)
  BY FilesAreStill DEF Ends, Cut
<1>3. \A a \in Threads : thread'[a].pc = "activate" => active' = NoTicket
  BY DEF LeaseInv, laneFiles
<1> QED
  BY <1>1, <1>2, <1>3 DEF LaneEnds

(* A new request file.                                                         *)
LEMMA AppendIsStill ==
  ASSUME LaneInv, LeaseInv, NEW r \in RequestRecords, r.state # "waiting_promotion",
         NEW g, g = [Files EXCEPT !.reqs = Append(@, r)]
  PROVE  /\ Still(Files, g) /\ g.ready = ready /\ g.reqs = Append(reqs, r)
         /\ DOMAIN g.reqs = DOMAIN reqs \cup {Len(reqs) + 1}
         /\ \A p \in DOMAIN reqs : g.reqs[p] = reqs[p]
<1> DEFINE rs == Append(reqs, r)
           n == Len(reqs) + 1
<1>1. g = [reqs |-> rs, ready |-> ready, active |-> active, archive |-> archive, lease |-> lease]
  BY DEF Files
<1>2. reqs \in Seq(RequestRecords)
  BY LaneFacts DEF FileStates
<1>3. /\ DOMAIN rs = DOMAIN reqs \cup {n} /\ rs[n] = r
      /\ \A p \in DOMAIN reqs : rs[p] = reqs[p]
  <2>1. rs \in Seq(RequestRecords) /\ Len(rs) = n /\ rs[n] = r
        /\ \A p \in 1 .. Len(reqs) : rs[p] = reqs[p]
    BY <1>2, AppendProperties
  <2>2. DOMAIN rs = 1 .. n /\ DOMAIN reqs = 1 .. Len(reqs) /\ Len(reqs) \in Nat
    BY <1>2, <2>1, LenProperties
  <2> QED
    BY <2>1, <2>2
<1> HIDE DEF rs, n
<1>4. Lost(g) \subseteq Lost(Files)
  BY <1>1, <1>3 DEF Lost, Files
<1>5. /\ g.lease = lease /\ g.ready = ready /\ g.reqs = rs /\ g.active = active
      /\ Files.lease = lease /\ Files.active = active
  BY <1>1 DEF Files
<1>6. Five([reqs |-> rs, ready |-> ready, active |-> active, archive |-> archive, lease |-> lease])
  BY DEF Five
<1>7. Five(g)
  BY <1>1, <1>6
<1> QED
  BY <1>3, <1>4, <1>5, <1>7 DEF rs, n, Still

(* A status read of an old request.                                            *)
LEMMA StatusFits ==
  ASSUME LaneInv, LeaseInv, NEW q \in DOMAIN reqs
  PROVE  AllFit(Files, StatusSteps(Files, q))
<1> DEFINE r == [reqs[q] EXCEPT !.state = "decision_required"]
           lost == WithReq(Files, q, r)
           t == [active EXCEPT !.state = "decision_required"]
           more == IF active.ticket = reqs[q].ticket /\ active # NoTicket
                   THEN TicketSteps(lost, t) ELSE <<>>
<1>1. StatusSteps(Files, q) = <<>> \/ StatusSteps(Files, q) = << lost >> \o more
  BY DEF StatusSteps, Files
<1>2. r.state # "waiting_promotion" /\ t.ticket = active.ticket
  BY LaneFacts DEF RequestRecords, TicketRecords
<1> HIDE DEF r
<1>3. Still(Files, lost)
  BY <1>2, FilesAreStill, NoteIsStill
<1> HIDE DEF lost, t
<1>4. \/ more = <<>>
      \/ active # NoTicket /\ \E u : u.ticket = active.ticket /\ more = TicketSteps(lost, u)
  BY <1>2
<1> HIDE DEF more
<1>5. AllFit(Files, << lost >> \o more) /\ AllFit(Files, <<>>)
  BY <1>3, <1>4, NotedThenFits, FilesAreStill
<1> QED
  BY <1>1, <1>5

\* Admission keeps the lane's tickets and touches no lease.
LEMMA AdmitEnds ==
  ASSUME LaneInv, LeaseInv, Admit
  PROVE  LaneEnds
<1> DEFINE c == thread.tool.req
           id == thread.tool.id
           q == Len(reqs) + 1
           new == NewRequest("deploy", c, id, thread.tool.main, 0, "ready")
           written == [Files EXCEPT !.reqs = Append(@, new)]
           r == [new EXCEPT !.state = "waiting_promotion"]
           parked == WithReq(written, q, r)
           waits == [parked EXCEPT !.ready = @ \cup {q}]
           next == [Idle EXCEPT !.pc = "activate", !.req = q, !.main = thread.tool.main]
<1>1. \/ \E p \in Existing(c, id), late \in BOOLEAN :
           Section("tool", IF late THEN StatusSteps(Files, p) ELSE <<>>, Idle)
      \/ LaneFree /\ Section("tool", << written >>, next)
      \/ Section("tool", << written, parked, waits >>, Idle)
  BY DEF Admit
<1>2. new \in RequestRecords /\ new.state = "ready"
  <2>1. c \in Commits /\ id \in Nat /\ thread.tool.main \in Nat
    BY LaneFacts, IdleThread DEF Admit, ThreadSound, ThreadRecords
  <2> QED
    BY <2>1 DEF NewRequest, RequestRecords, RequestStates
<1>3. Idle.pc # "activate" /\ "tool" \in Threads
  BY DEF Idle, Threads
<1> HIDE DEF new, next
<1>4. CASE \E p \in Existing(c, id), late \in BOOLEAN :
             Section("tool", IF late THEN StatusSteps(Files, p) ELSE <<>>, Idle)
  <2>1. PICK p \in Existing(c, id), late \in BOOLEAN :
             Section("tool", IF late THEN StatusSteps(Files, p) ELSE <<>>, Idle)
    BY <1>4
  <2>2. p \in DOMAIN reqs
    BY <2>1, LaneFacts DEF Existing, Good
  <2> DEFINE steps == IF late THEN StatusSteps(Files, p) ELSE <<>>
  <2>3. AllFit(Files, steps)
    BY <2>2, StatusFits, FilesAreStill
  <2>4. Section("tool", steps, Idle)
    BY <2>1
  <2> HIDE DEF steps
  <2> QED
    BY <1>3, <2>3, <2>4, SectionEnds
<1>5. /\ Still(Files, written) /\ written.ready = ready
      /\ DOMAIN written.reqs = DOMAIN reqs \cup {q}
      /\ \A p \in DOMAIN reqs : written.reqs[p] = reqs[p]
  BY <1>2, AppendIsStill
<1> HIDE DEF written
<1>6. Ends(Files, written) /\ Cut(Files, written)
  BY <1>5, FilesAreStill, StillEnds
<1>7. CASE LaneFree /\ Section("tool", << written >>, next)
  <2>1. AllFit(Files, << written >>)
    BY <1>6, ShortFits
  <2>2. After(<< written >>, Files).active = NoTicket
    BY <1>5, <1>7 DEF After, LaneFree, Still, Files
  <2> QED
    BY <1>3, <1>7, <2>1, <2>2, SectionEnds
<1>8. CASE Section("tool", << written, parked, waits >>, Idle)
  <2> DEFINE rs == [written.reqs EXCEPT ![q] = r]
  <2>1. parked = [reqs |-> rs, ready |-> ready, active |-> written.active,
                  archive |-> written.archive, lease |-> written.lease]
    BY <1>5 DEF WithReq, Five, Still
  <2>2. /\ DOMAIN rs = DOMAIN reqs \cup {q}
        /\ \A p \in DOMAIN reqs : p # q => rs[p] = reqs[p]
    BY <1>5
  <2> HIDE DEF rs, parked
  <2>3. waits = [reqs |-> rs, ready |-> ready \cup {q}, active |-> written.active,
                 archive |-> written.archive, lease |-> written.lease]
    <3> DEFINE S == parked.ready \cup {q}
    <3>1. S = ready \cup {q} /\ waits = [parked EXCEPT !.ready = S]
      BY <2>1
    <3> HIDE DEF S, waits
    <3>2. waits = [reqs |-> rs, ready |-> S, active |-> written.active,
                   archive |-> written.archive, lease |-> written.lease]
      BY <2>1, <3>1
    <3> QED
      BY <3>1, <3>2
  <2> HIDE DEF waits
  <2>4. Lost(parked) \subseteq Lost(Files) \cup {q} /\ Lost(waits) \subseteq Lost(Files)
    BY <2>1, <2>2, <2>3 DEF Lost, Files
  <2>5. /\ parked.lease = written.lease /\ parked.active = written.active
        /\ waits.lease = written.lease /\ waits.active = written.active
    BY <2>1, <2>3
  <2>6. Cut(Files, parked) /\ Ends(Files, waits)
    BY <1>5, <2>4, <2>5, FilesAreStill DEF Cut, Ends, Held, Turns, Still
  <2>7. AllFit(Files, << written, parked, waits >>)
    BY <1>6, <2>6, ShortFits
  <2> QED
    BY <1>3, <1>8, <2>7, SectionEnds
<1> QED
  BY <1>1, <1>4, <1>7, <1>8

\* Activation takes the lease for its own ticket.
LEMMA ActivateEnds ==
  ASSUME LaneInv, LeaseInv, NEW a \in Threads, Activate(a)
  PROVE  LaneEnds
<1> DEFINE f == Files
           q == thread[a].req
           base == thread[a].main
           t == [ticket |-> Max(Tickets(f)) + 1, req |-> q, head |-> f.reqs[q].head, main |-> base,
                 state |-> "dispatching", agent |-> f.reqs[q].agent, health |-> 0,
                 hagent |-> Nobody, accepted |-> FALSE]
           taken == WithActive(f, t)
           r == [f.reqs[q] EXCEPT !.state = "dispatching", !.ticket = t.ticket, !.main = base]
           noted == WithReq(taken, q, r)
           leased == WithLease(noted, t)
           freed == [leased EXCEPT !.ready = @ \ {q}]
           l == [by |-> "lane", owner |-> t.ticket, head |-> t.head]
           rs == [reqs EXCEPT ![q] = r]
<1>1. ActivateSteps(f, q, base) = << taken, noted, leased >>
  BY DEF ActivateSteps
<1>2. thread[a].pc = "activate" /\ q \in DOMAIN reqs /\ reqs[q].agent = Nobody /\ base \in Nat
  BY LaneFacts, IdleThread DEF Activate, ThreadSound, HoldsRequest, ThreadRecords, Good, Threads
<1>3. r.state = "dispatching"
  BY <1>2, LaneFacts DEF RequestRecords
<1>4. l.by = "lane" /\ l.owner = t.ticket
  OBVIOUS
<1>5. t # NoTicket
  <2>1. \A g \in Range(ActivateSteps(f, q, base)) : g.active.ticket \in Nat \ {0}
    BY <1>2, LaneFacts, ActivateStepsAreSound
  <2>2. taken \in Range(ActivateSteps(f, q, base))
    <3> HIDE DEF taken, noted, leased
    <3> QED
      BY <1>1, RangeOfTuples
  <2>3. taken.active = t
    <3> HIDE DEF t
    <3> QED
      BY DEF WithActive, Files
  <2> HIDE DEF t, taken
  <2> QED
    BY <2>1, <2>2, <2>3 DEF NoTicket
<1>6. active = NoTicket /\ lease.by # "lane"
  BY <1>2 DEF LeaseInv
<1> HIDE DEF t, r, l
<1>7. taken = [reqs |-> reqs, ready |-> ready, active |-> t, archive |-> archive, lease |-> lease]
  BY DEF WithActive, Files
<1> HIDE DEF taken
<1>8. noted = [reqs |-> rs, ready |-> ready, active |-> t, archive |-> archive, lease |-> lease]
  BY <1>7 DEF WithReq
<1>9. /\ DOMAIN rs = DOMAIN reqs /\ \A p \in DOMAIN rs : rs[p] = IF p = q THEN r ELSE reqs[p]
  OBVIOUS
<1> HIDE DEF rs, noted
<1>10. leased = [reqs |-> rs, ready |-> ready, active |-> t, archive |-> archive, lease |-> l]
  BY <1>8 DEF WithLease, l
<1> HIDE DEF leased
<1>11. freed = [reqs |-> rs, ready |-> ready \ {q}, active |-> t, archive |-> archive, lease |-> l]
  BY <1>10
<1> HIDE DEF freed
<1>12. f.reqs = reqs /\ f.ready = ready /\ f.lease = lease /\ f.active = active
  BY DEF Files
<1> HIDE DEF f
<1>13. /\ Lost(taken) \subseteq Lost(f) /\ Lost(noted) \subseteq Lost(f)
       /\ Lost(leased) \subseteq Lost(f) /\ Lost(freed) \subseteq Lost(f)
  BY <1>3, <1>7, <1>8, <1>9, <1>10, <1>11, <1>12 DEF Lost
<1>14. /\ taken.lease = lease /\ taken.active = t /\ noted.lease = lease /\ noted.active = t
       /\ leased.lease = l /\ leased.active = t /\ freed.lease = l /\ freed.active = t
  BY <1>7, <1>8, <1>10, <1>11
<1>15. Cut(f, taken) /\ Cut(f, noted) /\ Cut(f, leased)
  BY <1>4, <1>5, <1>6, <1>13, <1>14 DEF Cut, Held
<1>16. Ends(f, leased) /\ Ends(f, freed)
  BY <1>2, <1>4, <1>5, <1>6, <1>12, <1>13, <1>14 DEF Ends, Held, Turns
<1>17. AllFit(f, << taken, noted, leased >>) /\ AllFit(f, << taken, noted, leased, freed >>)
  BY <1>15, <1>16, ShortFits
<1>18. After(<< taken, noted, leased >>, f) = leased
  BY DEF After
<1> DEFINE steps == IF a = "loop" THEN Append(<< taken, noted, leased >>, freed)
                                  ELSE << taken, noted, leased >>
           next == [Idle EXCEPT !.pc = "bind", !.req = q, !.ticket = leased.active.ticket]
<1>19. Section(a, steps, next) /\ next.pc = "bind"
  BY <1>1, <1>18 DEF Activate, freed, f, Idle
<1>20. AllFit(f, steps)
  BY <1>17, ThreeThenOne
<1> HIDE DEF steps, next
<1> QED
  BY <1>19, <1>20, SectionEnds DEF f

\* The health request leaves tickets and leases alone.
LEMMA EnqueueHealthEnds ==
  ASSUME LaneInv, LeaseInv, EnqueueHealth
  PROVE  LaneEnds
<1> DEFINE q == Len(reqs) + 1
           new == NewRequest("health", active.head, reqs[active.req].id, active.main,
                             active.ticket, "dispatching")
           written == [Files EXCEPT !.reqs = Append(@, new)]
           t == [active EXCEPT !.state = "health_pending", !.health = q]
           steps == << written >> \o TicketSteps(written, t)
           next == [Idle EXCEPT !.pc = "bind", !.req = q, !.ticket = active.ticket]
<1>1. Section("tool", steps, next) /\ next.pc = "bind" /\ "tool" \in Threads
  BY DEF EnqueueHealth, Idle, Threads
<1>2. new \in RequestRecords /\ new.state = "dispatching" /\ t.ticket = active.ticket
  BY LaneFacts DEF EnqueueHealth, NewRequest, RequestRecords, RequestStates, TicketRecords
<1> HIDE DEF new, next
<1>3. Still(Files, written)
  BY <1>2, AppendIsStill
<1> HIDE DEF written, t
<1>4. AllFit(Files, steps)
  BY <1>2, <1>3, NotedThenFits DEF EnqueueHealth
<1> HIDE DEF steps
<1> QED
  BY <1>1, <1>4, SectionEnds

\* Binding leaves the lease with its ticket.
LEMMA BindEnds ==
  ASSUME LaneInv, LeaseInv, NEW a \in Threads, Bind(a)
  PROVE  LaneEnds
<1> DEFINE q == thread[a].req
           r == Bound(reqs[q], a)
           bound == WithReq(Files, q, r)
           t == IF reqs[q].kind = "deploy"
                THEN [active EXCEPT !.agent = AgentId(a), !.state = "deploying"]
                ELSE [active EXCEPT !.hagent = AgentId(a), !.state = "health_pending"]
           more == IF active # NoTicket /\ active.ticket = reqs[q].ticket
                   THEN TicketSteps(bound, t) ELSE <<>>
           steps == << bound >> \o more
           next == [thread[a] EXCEPT !.pc = "publish"]
<1>1. thread[a].pc = "bind" /\ Section(a, steps, next)
  BY DEF Bind
<1>2. q \in DOMAIN reqs /\ next.pc = "publish"
  BY <1>1, LaneFacts DEF ThreadSound, HoldsRequest, ThreadRecords
<1>3. r.state # "waiting_promotion" /\ t.ticket = active.ticket
  BY <1>2, LaneFacts DEF Bound, RequestRecords, TicketRecords
<1> HIDE DEF r, next
<1>4. Still(Files, bound)
  BY <1>3, FilesAreStill, NoteIsStill
<1> HIDE DEF t, bound
<1>5. \/ more = <<>>
      \/ active # NoTicket /\ \E u : u.ticket = active.ticket /\ more = TicketSteps(bound, u)
  BY <1>3
<1> HIDE DEF more
<1>6. AllFit(Files, steps)
  BY <1>4, <1>5, NotedThenFits
<1> HIDE DEF steps
<1> QED
  BY <1>1, <1>2, <1>6, SectionEnds

\* A failed binding gives back only its own ticket's lease.
LEMMA BindFailsEnds ==
  ASSUME LaneInv, LeaseInv, NEW a \in Threads, BindFails(a)
  PROVE  LaneEnds
<1> DEFINE t == [active EXCEPT !.state = "decision_required"]
           steps == IF a = "loop" /\ active.ticket = thread[a].ticket
                    THEN TicketSteps(Files, t) ELSE <<>>
<1>1. Section(a, steps, Idle) /\ Idle.pc = "idle"
  BY DEF BindFails, Idle
<1>2. t.ticket = active.ticket /\ thread[a].ticket > 0 /\ thread[a].ticket \in Nat
  BY LaneFacts DEF TicketRecords, BindFails, ThreadSound, ThreadRecords
<1>3. active.ticket = thread[a].ticket => active # NoTicket
  BY <1>2 DEF NoTicket
<1> HIDE DEF t
<1>4. \/ steps = <<>>
      \/ active # NoTicket /\ \E u : u.ticket = active.ticket /\ steps = TicketSteps(Files, u)
  BY <1>2, <1>3
<1> HIDE DEF steps
<1>5. AllFit(Files, steps)
  BY <1>4, FilesAreStill, NotedThenFits
<1> QED
  BY <1>1, <1>5, SectionEnds

\* A failed publication gives back only its own ticket's lease.
LEMMA PublishFailsEnds ==
  ASSUME LaneInv, LeaseInv, NEW a \in Threads, PublishFails(a)
  PROVE  LaneEnds
<1> DEFINE q == thread[a].req
           r == [reqs[q] EXCEPT !.agent = AgentId(a), !.state = "failed", !.term = "not_published"]
           failed == WithReq(Files, q, r)
           more == IF active # NoTicket /\ active.ticket = reqs[q].ticket
                   THEN ArchiveSteps(failed, active, "failed") ELSE <<>>
           steps == << failed >> \o more
<1>1. thread[a].pc = "publish" /\ Section(a, steps, Idle) /\ Idle.pc = "idle"
  BY DEF PublishFails, Idle
<1>2. q \in DOMAIN reqs
  BY <1>1, LaneFacts DEF ThreadSound, HoldsRequest
<1>3. r.state # "waiting_promotion"
  BY <1>2, LaneFacts DEF RequestRecords
<1> HIDE DEF r
<1>4. Still(Files, failed)
  BY <1>3, FilesAreStill, NoteIsStill
<1> HIDE DEF failed
<1>5. more = <<>> \/ (active # NoTicket /\ \E state : more = ArchiveSteps(failed, active, state))
  OBVIOUS
<1> HIDE DEF more
<1>6. AllFit(Files, steps)
  BY <1>4, <1>5, NotedThenFits
<1> HIDE DEF steps
<1> QED
  BY <1>1, <1>6, SectionEnds

\* An observed answer gives back only its own ticket's lease.
LEMMA ObserveEnds ==
  ASSUME LaneInv, LeaseInv, NEW q \in DOMAIN reqs, Observe(q)
  PROVE  LaneEnds
<1>1. PICK ans \in responses :
        Section("tool", IF reqs[q].kind = "deploy" THEN DeployAnswerSteps(q, ans)
                                                   ELSE HealthAnswerSteps(q, ans), Idle)
  BY DEF Observe
<1>2. /\ reqs[q] \in RequestRecords /\ active \in TicketRecords
      /\ Idle.pc = "idle" /\ "tool" \in Threads
  BY LaneFacts DEF Idle, Threads
<1>3. CASE reqs[q].kind = "deploy"
  <2> DEFINE state == IF ~ans.ok THEN "failed" ELSE IF ans.accepted THEN "pre_merge" ELSE "acceptance"
             r == [reqs[q] EXCEPT !.state = state, !.term = IF ans.ok THEN "succeeded" ELSE "failed"]
             noted == WithReq(Files, q, r)
             mine == active # NoTicket /\ active.ticket = reqs[q].ticket
             t == [active EXCEPT !.state = state, !.accepted = @ \/ ans.accepted]
             more == IF ~ans.ok THEN IF mine THEN ArchiveSteps(noted, active, "failed") ELSE <<>>
                     ELSE IF mine /\ active.state # "pre_merge" THEN TicketSteps(noted, t)
                     ELSE <<>>
             steps == DeployAnswerSteps(q, ans)
  <2>1. steps = <<>> \/ steps = << noted >> \o more
    BY DEF DeployAnswerSteps
  <2>2. r.state # "waiting_promotion" /\ t.ticket = active.ticket
    BY <1>2 DEF RequestRecords, TicketRecords
  <2> HIDE DEF r
  <2>3. Still(Files, noted)
    BY <2>2, FilesAreStill, NoteIsStill
  <2>4. \/ more = <<>>
        \/ active # NoTicket /\ \E u : u.ticket = active.ticket /\ more = TicketSteps(noted, u)
        \/ active # NoTicket /\ \E s : more = ArchiveSteps(noted, active, s)
    <3> HIDE DEF noted, t
    <3> QED
      BY <2>2
  <2> HIDE DEF noted, more
  <2>5. AllFit(Files, << noted >> \o more) /\ AllFit(Files, <<>>)
    BY <2>3, <2>4, NotedThenFits, FilesAreStill
  <2>6. AllFit(Files, steps) /\ Section("tool", steps, Idle)
    BY <1>1, <1>3, <2>1, <2>5
  <2> HIDE DEF steps
  <2> QED
    BY <1>2, <2>6, SectionEnds
<1>4. CASE reqs[q].kind # "deploy"
  <2> DEFINE r == [reqs[q] EXCEPT !.state = IF ans.ok THEN "succeeded" ELSE "failed",
                                  !.term = IF ans.ok THEN "succeeded" ELSE "failed"]
             noted == WithReq(Files, q, r)
             t == HealthVerdict(active, reqs[q].agent, ans.ok)
             more == IF active = NoTicket \/ active.ticket # reqs[q].ticket THEN <<>>
                     ELSE TicketSteps(noted, t)
             steps == HealthAnswerSteps(q, ans)
  <2>1. steps = << noted >> \o more
    BY DEF HealthAnswerSteps
  <2>2. r.state # "waiting_promotion" /\ t.ticket = active.ticket
    BY <1>2 DEF RequestRecords, TicketRecords, HealthVerdict
  <2> HIDE DEF r
  <2>3. Still(Files, noted)
    BY <2>2, FilesAreStill, NoteIsStill
  <2> HIDE DEF noted, t
  <2>4. \/ more = <<>>
        \/ active # NoTicket /\ \E u : u.ticket = active.ticket /\ more = TicketSteps(noted, u)
    BY <2>2
  <2> HIDE DEF more
  <2>5. AllFit(Files, steps) /\ Section("tool", steps, Idle)
    BY <1>1, <1>4, <2>1, <2>3, <2>4, NotedThenFits
  <2> HIDE DEF steps
  <2> QED
    BY <1>2, <2>5, SectionEnds
<1> QED
  BY <1>3, <1>4

\* Reconciliation gives back only the finished ticket's lease.
LEMMA ReconcileApplyEnds ==
  ASSUME LaneInv, LeaseInv, ReconcileApply
  PROVE  LaneEnds
<1> DEFINE q == active.req
           r == [reqs[q] EXCEPT !.state = "merged"]
           merged == WithReq(Files, q, r)
           seen == thread.loop.pr
           steps == IF active = NoTicket \/ active.ticket # thread.loop.ticket THEN <<>>
                    ELSE IF seen = "merged" THEN << merged >> \o ArchiveSteps(merged, active, "merged")
                    ELSE IF seen = "closed" THEN ArchiveSteps(Files, active, "cancelled")
                    ELSE IF main # active.main THEN ArchiveSteps(Files, active, "stale_main")
                    ELSE <<>>
<1>1. Section("loop", steps, Idle) /\ Idle.pc = "idle" /\ "loop" \in Threads
  BY DEF ReconcileApply, Idle, Threads
<1>2. active # NoTicket => r.state # "waiting_promotion"
  BY LaneFacts DEF RequestRecords
<1> HIDE DEF r
<1>3. active # NoTicket => Still(Files, merged)
  BY <1>2, FilesAreStill, NoteIsStill
<1> HIDE DEF merged
<1>4. active # NoTicket => AllFit(Files, << merged >> \o ArchiveSteps(merged, active, "merged"))
  <2> DEFINE more == ArchiveSteps(merged, active, "merged")
  <2>1. \E state : more = ArchiveSteps(merged, active, state)
    OBVIOUS
  <2> HIDE DEF more
  <2>2. active # NoTicket => AllFit(Files, << merged >> \o more)
    BY <1>3, <2>1, NotedThenFits
  <2> QED
    BY <2>2 DEF more
<1>5. active # NoTicket => \A state : AllFit(Files, ArchiveSteps(Files, active, state))
  <2> SUFFICES ASSUME active # NoTicket, NEW state
               PROVE  AllFit(Files, ArchiveSteps(Files, active, state))
    OBVIOUS
  <2> DEFINE more == ArchiveSteps(Files, active, state)
  <2>1. \E s : more = ArchiveSteps(Files, active, s)
    OBVIOUS
  <2> HIDE DEF more
  <2>2. AllFit(Files, more)
    BY <2>1, FilesAreStill, NotedThenFits
  <2> QED
    BY <2>2 DEF more
<1>6. AllFit(Files, steps)
  BY <1>4, <1>5, FilesAreStill
<1> HIDE DEF steps
<1> QED
  BY <1>1, <1>6, SectionEnds

\* A refused dispatch leaves tickets and leases alone.
LEMMA DispatchRefusedEnds ==
  ASSUME LaneInv, LeaseInv, DispatchRefused
  PROVE  LaneEnds
<1> DEFINE q == thread.loop.req
           r == [reqs[q] EXCEPT !.state = "waiting_refresh"]
           noted == WithReq(Files, q, r)
           rs == [reqs EXCEPT ![q] = r]
           last == [noted EXCEPT !.ready = @ \ {q}]
           steps == << noted, last >>
<1>1. Section("loop", steps, Idle) /\ Idle.pc = "idle" /\ "loop" \in Threads
  BY DEF DispatchRefused, RefusedSteps, Idle, Threads
<1>2. r.state = "waiting_refresh"
  <2>1. q \in ready /\ ready \subseteq DOMAIN reqs
    BY LaneFacts, IdleThread DEF DispatchRefused, ThreadSound, Good
  <2> QED
    BY <2>1, LaneFacts DEF RequestRecords
<1> HIDE DEF r
<1>3. noted = [reqs |-> rs, ready |-> ready, active |-> active, archive |-> archive,
               lease |-> lease]
  BY DEF WithReq, Files
<1>4. /\ DOMAIN rs = DOMAIN reqs /\ \A p \in DOMAIN rs : rs[p] = IF p = q THEN r ELSE reqs[p]
  OBVIOUS
<1>5. Still(Files, noted)
  BY <1>2, FilesAreStill, NoteIsStill
<1> HIDE DEF rs, noted
<1>6. last = [reqs |-> rs, ready |-> ready \ {q}, active |-> active, archive |-> archive,
              lease |-> lease]
  BY ONLY <1>3
<1> HIDE DEF last
<1>7. Lost(last) \subseteq Lost(Files)
  BY <1>2, <1>4, <1>6 DEF Lost, Files
<1>8. Five([reqs |-> rs, ready |-> ready \ {q}, active |-> active, archive |-> archive,
            lease |-> lease])
  BY DEF Five
<1>9. Still(Files, last)
  BY <1>6, <1>7, <1>8 DEF Still, Files
<1>10. Cut(Files, noted) /\ Ends(Files, last)
  BY <1>5, <1>9, FilesAreStill, StillEnds
<1>11. AllFit(Files, steps)
  BY <1>10, ShortFits
<1> HIDE DEF steps
<1> QED
  BY <1>1, <1>11, SectionEnds

\* Reading the history leaves tickets and leases alone.
LEMMA ReconcileStartEnds ==
  ASSUME LaneInv, LeaseInv, ReconcileStart
  PROVE  LaneEnds
<1> DEFINE g == WithLease(Files, active)
           l == [by |-> "lane", owner |-> active.ticket, head |-> active.head]
           next == [Idle EXCEPT !.pc = "read_pr", !.ticket = active.ticket, !.req = active.head]
<1>1. /\ Section("loop", << g >>, next) /\ next.pc = "read_pr" /\ "loop" \in Threads
      /\ active # NoTicket
  BY DEF ReconcileStart, Idle, Threads
<1> HIDE DEF next
<1>2. l.by = "lane" /\ l.owner = active.ticket
  OBVIOUS
<1> HIDE DEF l
<1>3. g = [reqs |-> reqs, ready |-> ready, active |-> active, archive |-> archive, lease |-> l]
  BY DEF WithLease, Files, l
<1> HIDE DEF g
<1>4. Lost(g) = Lost(Files) /\ g.lease = l /\ g.active = active /\ Files.active = active
  BY <1>3 DEF Lost, Files
<1>5. Ends(Files, g)
  BY <1>1, <1>2, <1>4 DEF Ends, Held, Turns
<1>6. AllFit(Files, << g >>)
  BY <1>5, ShortFits
<1> QED
  BY <1>1, <1>6, SectionEnds

\* Claiming a waiting deployment leaves tickets and leases alone.
LEMMA DispatchClaimEnds ==
  ASSUME LaneInv, LeaseInv, DispatchClaim
  PROVE  LaneEnds
<1> DEFINE next == IF LaneFree THEN [thread.loop EXCEPT !.pc = "activate"] ELSE Idle
<1>1. Section("loop", <<>>, next) /\ "loop" \in Threads
  BY DEF DispatchClaim, Threads
<1>2. next.pc = "activate" => After(<<>>, Files).active = NoTicket
  BY DEF LaneFree, Idle, After, Files
<1> HIDE DEF next
<1> QED
  BY <1>1, <1>2, FilesAreStill, SectionEnds

(* The server dies between two sections.                                       *)
LEMMA CrashEnds ==
  ASSUME LaneInv, LeaseInv, Crash
  PROVE  LaneEnds
<1> DEFINE g == [reqs |-> reqs, ready |-> ready, active |-> active, archive |-> archive,
                 lease |-> lease']
<1>1. /\ lease' = lease \/ lease' = NoLease
      /\ UNCHANGED laneFiles /\ thread' = NoThreads /\ crashes' = crashes + 1
  BY DEF Crash, ServerDies
<1>2. Install(g)
  BY <1>1 DEF Install, laneFiles
<1>3. Lost(g) = Lost(Files)
  BY DEF Lost, Files
<1>4. g.lease = lease' /\ g.active = active
  OBVIOUS
<1> HIDE DEF g
<1>5. Held(g)
  BY <1>1, <1>4 DEF LeaseInv, Held, NoLease
<1>6. \A a \in Threads : thread'[a].pc # "activate"
  BY <1>1 DEF NoThreads, Idle, Stopped
<1> QED
  BY <1>1, <1>2, <1>3, <1>5, <1>6 DEF LaneEnds, Cut

(* The steps that write none of the lane's files.                              *)
LEMMA OtherMoveEnds ==
  ASSUME LaneInv, LeaseInv,
         \/ \E c \in Candidates, id \in CallerIds : EnqueueDeployment(c, id)
         \/ TouchLane \/ GitHubStep \/ ReconcileReadPR \/ ReconcileUnreachable \/ DispatchSelect
         \/ DispatchAttested \/ \E a \in Threads : Publish(a)
  PROVE  LaneEnds
<1>1. thread \in [Threads -> ThreadRecords] /\ "tool" \in Threads /\ "loop" \in Threads
      /\ Idle.pc = "idle"
  BY DEF LaneInv, Threads, Idle
<1>2. ASSUME NEW x \in Threads, NEW r, r.pc # "activate", UNCHANGED <<laneFiles, lease, crashes>>,
             \/ thread' = [thread EXCEPT ![x] = r]
             \/ thread' = StartLoop([thread EXCEPT ![x] = r])
      PROVE  LaneEnds
  <2> DEFINE th == [thread EXCEPT ![x] = r]
  <2>1. DOMAIN th = Threads /\ \A b \in Threads : th[b] = IF b = x THEN r ELSE thread[b]
    BY <1>1
  <2> HIDE DEF th
  <2>2. \A b \in Threads : thread'[b] = th[b] \/ thread'[b] = Idle
    BY <1>1, <1>2, <2>1 DEF StartLoop, th
  <2> QED
    BY <1>1, <1>2, <2>1, <2>2, UnwrittenEnds
<1>3. CASE \E c \in Candidates, id \in CallerIds : EnqueueDeployment(c, id)
  <2>1. PICK c \in Candidates, id \in CallerIds : EnqueueDeployment(c, id)
    BY <1>3
  <2> DEFINE r == [Idle EXCEPT !.pc = "admit", !.req = c, !.id = id, !.main = main]
  <2>2. /\ r.pc = "admit" /\ thread' = StartLoop([thread EXCEPT !["tool"] = r])
        /\ UNCHANGED <<laneFiles, lease, crashes>>
    BY <2>1 DEF EnqueueDeployment, Idle
  <2> HIDE DEF r
  <2> QED
    BY <1>1, <1>2, <2>2
<1>4. CASE TouchLane
  <2>1. /\ thread.tool.pc = "idle" /\ thread' = StartLoop(thread)
        /\ UNCHANGED <<laneFiles, lease, crashes>>
    BY <1>4 DEF TouchLane, ToolIdle
  <2>2. thread = [thread EXCEPT !["tool"] = thread.tool]
    BY <1>1
  <2> QED
    BY <1>1, <1>2, <2>1, <2>2
<1>5. CASE GitHubStep
  <2>1. UNCHANGED <<laneFiles, lease, crashes>> /\ thread' = thread
    BY <1>5 DEF GitHubStep, MergePullRequest, ClosePullRequest
  <2> QED
    BY <2>1, UnwrittenEnds
<1>6. CASE ReconcileReadPR \/ ReconcileUnreachable \/ DispatchSelect \/ DispatchAttested
  <2>1. \E r : /\ r.pc # "activate" /\ thread' = [thread EXCEPT !["loop"] = r]
               /\ UNCHANGED <<laneFiles, lease, crashes>>
    <3> DEFINE read == [thread.loop EXCEPT !.pc = "read_main", !.pr = pr[thread.loop.req]]
               attested == [thread.loop EXCEPT !.pc = "claim", !.main = main]
    <3>1. thread.loop \in ThreadRecords
      BY <1>1
    <3>2. read.pc = "read_main" /\ attested.pc = "claim"
      BY <3>1 DEF ThreadRecords
    <3>3. ReconcileReadPR => /\ thread' = [thread EXCEPT !["loop"] = read]
                             /\ UNCHANGED <<laneFiles, lease, crashes>>
      BY <1>1 DEF ReconcileReadPR
    <3>4. DispatchAttested => /\ thread' = [thread EXCEPT !["loop"] = attested]
                              /\ UNCHANGED <<laneFiles, lease, crashes>>
      BY <1>1 DEF DispatchAttested
    <3> HIDE DEF read, attested
    <3>5. CASE ReconcileReadPR \/ DispatchAttested
      BY <3>2, <3>3, <3>4, <3>5
    <3>6. CASE ReconcileUnreachable
      BY <1>1, <3>6 DEF ReconcileUnreachable
    <3>7. CASE DispatchSelect
      <4>1. PICK q \in ready : /\ thread' = [thread EXCEPT !.loop = [Idle EXCEPT !.pc = "attest", !.req = q]]
                               /\ UNCHANGED <<laneFiles, lease, crashes>>
        BY <3>7 DEF DispatchSelect
      <4> DEFINE r == [Idle EXCEPT !.pc = "attest", !.req = q]
      <4>2. r.pc = "attest" /\ thread' = [thread EXCEPT !["loop"] = r]
        BY <4>1 DEF Idle
      <4> QED
        BY <4>1, <4>2
    <3> QED
      BY <1>6, <3>5, <3>6, <3>7
  <2> QED
    BY <1>1, <1>2, <2>1
<1>7. CASE \E a \in Threads : Publish(a)
  <2>1. PICK a \in Threads : /\ thread' = [thread EXCEPT ![a] = Idle]
                             /\ UNCHANGED <<laneFiles, lease, crashes>>
    BY <1>7 DEF Publish
  <2> QED
    BY <1>1, <1>2, <2>1
<1> QED
  BY <1>3, <1>4, <1>5, <1>6, <1>7

(* Every step of the lane.                                                     *)
LEMMA LaneMoveEnds ==
  ASSUME LaneInv, LeaseInv, LaneMove
  PROVE  LaneEnds
<1>1. CASE \E a \in Threads : Activate(a) \/ Bind(a) \/ BindFails(a) \/ PublishFails(a)
  BY <1>1, ActivateEnds, BindEnds, BindFailsEnds, PublishFailsEnds
<1>2. CASE \/ \E c \in Candidates, id \in CallerIds : EnqueueDeployment(c, id)
           \/ TouchLane \/ GitHubStep \/ ReconcileReadPR \/ ReconcileUnreachable
           \/ DispatchSelect \/ DispatchAttested \/ \E a \in Threads : Publish(a)
  BY <1>2, OtherMoveEnds
<1>3. CASE \E q \in DOMAIN reqs : Observe(q)
  BY <1>3, ObserveEnds
<1>4. CASE \E q \in DOMAIN reqs : OrphanStatus(q)
  <2>1. PICK q \in DOMAIN reqs : OrphanStatus(q)
    BY <1>4
  <2>2. Section("tool", StatusSteps(Files, q), Idle) /\ Idle.pc = "idle" /\ "tool" \in Threads
    BY <2>1 DEF OrphanStatus, Idle, Threads
  <2> QED
    BY <2>2, StatusFits, SectionEnds
<1>5. CASE Admit \/ EnqueueHealth \/ ReconcileApply \/ DispatchRefused
  BY <1>5, AdmitEnds, EnqueueHealthEnds, ReconcileApplyEnds, DispatchRefusedEnds
<1>6. CASE ReconcileStart \/ DispatchClaim \/ Crash
  BY <1>6, ReconcileStartEnds, DispatchClaimEnds, CrashEnds
<1>7. "tool" \in Threads /\ "loop" \in Threads
  BY DEF Threads
<1> QED
  BY <1>1, <1>2, <1>3, <1>4, <1>5, <1>6, <1>7 DEF LaneMove, ToolStep, LoopStep

(* Every step of the lane keeps the lease with its ticket.                     *)
LEMMA LaneKeepsLease ==
  ASSUME LaneInv, LeaseInv, LaneMove
  PROVE  LeaseInv'
<1>1. PICK g : /\ Install(g) /\ Cut(Files, g)
               /\ \/ crashes' = crashes /\ Ends(Files, g)
                  \/ crashes' = crashes + 1 /\ thread' = NoThreads
  BY LaneMoveEnds DEF LaneEnds
<1>2. \A a \in Threads : thread'[a].pc = "activate" => active' = NoTicket
  BY LaneMoveEnds DEF LaneEnds
<1>3. lease' = g.lease /\ active' = g.active
  BY <1>1 DEF Install
<1>4. lease'.by = "lane" => active' # NoTicket /\ lease'.owner = active'.ticket
  BY <1>1, <1>3 DEF Cut, Held
<1>5. crashes' = 0 /\ active' # NoTicket => lease'.by = "lane"
  <2>1. crashes \in Nat
    BY DEF LaneInv, GitHubTypes
  <2>2. CASE crashes' = crashes /\ Ends(Files, g)
    BY <1>3, <2>2 DEF LeaseInv, Ends, Turns, Files
  <2> QED
    BY <1>1, <2>1, <2>2
<1> QED
  BY <1>2, <1>4, <1>5 DEF LeaseInv

-----------------------------------------------------------------------------
(* The steps of the coordinator, by what they write.                           *)

(* The steps that change a workstream or the lease and nothing of the queue.   *)
QuietCall ==
  \/ ExpireTest \/ ExpireReservation
  \/ \E w \in Workstreams :
       \/ AcquireTest(w) \/ ReleaseTest(w) \/ ExpireLock(w)
       \/ \E s \in Heartbeats : Heartbeat(w, s)
       \/ \E c \in Commits :
            \/ Reserve(w, c) \/ ReconcileExternal(w, c)
            \/ \E asked \in Asked : Register(w, c, asked) \/ RegisterCandidate(w, c, asked)
            \/ \E result \in {"passed", "failed"} : RecordEvidence(w, c, result)
            \/ \E d \in DOMAIN deps, ok \in BOOLEAN : RecordAcceptance(w, c, d, ok)
            \/ \E outcome \in Outcomes : Complete(w, outcome, c)

(* Some deployment is queued; some acceptance of the lane is bridged.          *)
Queues == \E w \in Workstreams, c \in Commits, rank \in Priorities, id \in DeployIds, key \in Keys,
             again \in BOOLEAN : QueueDeployment(w, c, rank, id, key, again)
Bridges == \E w \in Workstreams, c \in Commits, q \in DOMAIN reqs, h \in DOMAIN reqs,
              ok \in BOOLEAN : BridgeAcceptance(w, c, q, h, ok)

(* Every step of the coordinator is one of the four kinds.                     *)
LEMMA CoordSplits ==
  ASSUME CoordStep
  PROVE  Pass \/ QuietCall \/ Queues \/ Bridges
<1>1. /\ Teams \subseteq Workstreams /\ Candidates \subseteq Commits
      /\ CallerRanks \subseteq Priorities /\ CallerIds \subseteq DeployIds
      /\ CallerKeys \subseteq Keys
  BY DEF Teams, Candidates, CallerRanks, CallerIds, CallerKeys
<1> QED
  BY <1>1 DEF CoordStep, QuietCall, Queues, Bridges

(* A step of the coordinator is one section, or writes its own files only.     *)
LEMMA CoordWrites ==
  ASSUME CoordStep
  PROVE  (\E steps : Mutate(steps)) \/ (UNCHANGED laneVars /\ UNCHANGED queueVars)
<1>1. CASE Pass
  BY <1>1 DEF Pass
<1>2. CASE QuietCall
  <2>1. CASE \/ ExpireTest \/ ExpireReservation
             \/ \E w \in Workstreams : AcquireTest(w) \/ ReleaseTest(w) \/ ExpireLock(w)
    BY <2>1 DEF ExpireTest, ExpireReservation, AcquireTest, ReleaseTest, ExpireLock
  <2>2. CASE \E w \in Workstreams, s \in Heartbeats : Heartbeat(w, s)
    BY <2>2 DEF Heartbeat
  <2>3. CASE \E w \in Workstreams, c \in Commits, asked \in Asked :
               Register(w, c, asked) \/ RegisterCandidate(w, c, asked)
    BY <2>3 DEF Register, RegisterCandidate
  <2>4. CASE \E w \in Workstreams, c \in Commits : Reserve(w, c) \/ ReconcileExternal(w, c)
    BY <2>4, ReconcileExternalWrites DEF Reserve
  <2>5. CASE \E w \in Workstreams, c \in Commits, result \in {"passed", "failed"} :
               RecordEvidence(w, c, result)
    BY <2>5 DEF RecordEvidence
  <2>6. CASE \E w \in Workstreams, c \in Commits, d \in DOMAIN deps, ok \in BOOLEAN :
               RecordAcceptance(w, c, d, ok)
    BY <2>6 DEF RecordAcceptance
  <2>7. CASE \E w \in Workstreams, c \in Commits, outcome \in Outcomes : Complete(w, outcome, c)
    BY <2>7 DEF Complete
  <2> QED
    BY <1>2, <2>1, <2>2, <2>3, <2>4, <2>5, <2>6, <2>7 DEF QuietCall
<1>3. CASE Queues
  BY <1>3 DEF Queues, QueueDeployment
<1>4. CASE Bridges
  BY <1>4 DEF Bridges, BridgeAcceptance
<1> QED
  BY <1>1, <1>2, <1>3, <1>4, CoordSplits

(* The coordinator leaves the lane's files and the agent alone, and counts     *)
(* crashes only up.                                                            *)
LEMMA CoordLeaves ==
  ASSUME PromotionInv, CoordStep
  PROVE  /\ UNCHANGED laneFiles /\ UNCHANGED agentVars
         /\ \/ crashes' = crashes /\ thread' = thread
            \/ crashes' = crashes + 1
<1>1. \A steps : Mutate(steps) => /\ UNCHANGED laneFiles /\ UNCHANGED agentVars
                                  /\ \/ crashes' = crashes /\ thread' = thread
                                     \/ crashes' = crashes + 1
  BY DEF Mutate, ServerDies
<1>2. (UNCHANGED laneVars /\ UNCHANGED queueVars) =>
         UNCHANGED laneFiles /\ UNCHANGED agentVars /\ crashes' = crashes /\ thread' = thread
  BY DEF laneVars, queueVars
<1> QED
  BY <1>1, <1>2, CoordWrites

-----------------------------------------------------------------------------
(* The theorems.                                                               *)

LEMMA PromotionInitially ==
  ASSUME Init
  PROVE  PromotionInv
<1>1. /\ plan \in Plans /\ incoming = {} /\ processing = {} /\ working = Nobody /\ told = FALSE
      /\ responses = {} /\ done = {} /\ marked = {} /\ others = 0 /\ stops = 0 /\ slips = 0
      /\ lease = NoLease
      /\ reqs = <<>> /\ ready = {} /\ active = NoTicket /\ archive = {} /\ thread = NoThreads
      /\ main = 0 /\ pr = [c \in Commits |-> "open"] /\ cache = {} /\ crashes = 0
      /\ ws = [w \in Workstreams |-> NoWorkstream] /\ deps = <<>> /\ test = NoTest /\ calls = 0
  BY DEF Init, AgentInit, LaneInit, CoordInit
<1>2. AgentTypes /\ GitHubTypes /\ AnswersAreTrue /\ PublishedIsBound
  BY <1>1 DEF AgentTypes, GitHubTypes, AnswersAreTrue, PublishedIsBound
<1>3. NoTicket \in TicketRecords
  BY DEF NoTicket, TicketRecords
<1>4. Files \in FileStates /\ Files.reqs = <<>> /\ Files.ready = {} /\ Files.active = NoTicket
      /\ Files.archive = {}
  BY <1>1, <1>3 DEF Files, FileStates, Leases
<1>5. DOMAIN Files.reqs = {}
  BY <1>4
<1>6. Tickets(Files) = {0}
  BY <1>4, <1>5 DEF Tickets, NoTicket
<1>7. Good(Files, done)
  BY <1>4, <1>5, <1>6 DEF Good, ActiveIsOne
<1>8. thread \in [Threads -> ThreadRecords] /\ ThreadsSound(Files, thread)
  BY <1>1 DEF NoThreads, ThreadRecords, Idle, Stopped, ThreadsSound, ThreadSound, HoldsRequest,
     Threads
<1>9. NoWorkstream \in WsRecords /\ \A c \in Commits : NoWorkstream.cands[c].state = "none"
  BY DEF NoWorkstream, WsRecords, NoCandidate, WsStates
<1>10. Co \in CoStates /\ Co.deps = <<>> /\ \A w \in Workstreams : Co.ws[w] = NoWorkstream
  BY <1>1, <1>9 DEF Co, CoStates, Leases
<1>11. DOMAIN Co.deps = {}
  BY <1>10
<1>12. CoGood(Co, done) /\ AllSent(deps, done \cup {working})
  <2>1. CopiesEarned(Co.deps, done) /\ SecondAfterFailure(Co.deps)
    BY <1>11 DEF CopiesEarned, SecondAfterFailure
  <2>2. AllSent(Co.deps, Co.incoming) /\ AllSent(deps, done \cup {working})
    BY <1>1 DEF AllSent, Co, Nobody
  <2> QED
    BY <1>9, <1>10, <1>11, <2>1, <2>2 DEF CoGood
<1>13. LeaseInv
  BY <1>1 DEF LeaseInv, NoLease, NoThreads, Idle, Stopped
<1>14. test \in [ws : Workstreams \cup {0}, live : BOOLEAN] /\ calls \in Nat
  BY <1>1 DEF NoTest
<1> QED
  BY <1>2, <1>7, <1>8, <1>12, <1>13, <1>14 DEF PromotionInv, LaneInv, CoordInv

(* Every step of the system keeps the invariant.                              *)
LEMMA PromotionKeeps ==
  ASSUME PromotionInv, [Next]_vars
  PROVE  PromotionInv'
<1>1. CASE AgentMove
  <2>1. LaneInv' /\ UNCHANGED coordVars /\ UNCHANGED laneVars
    BY <1>1, AgentMoveKeeps DEF AgentMove, PromotionInv
  <2>2. CoordInv'
    BY <1>1, <2>1, AgentCarriesOut, OthersKeepCoord DEF PromotionInv
  <2>3. lease' = lease
    BY <1>1 DEF AgentMove, AgentStep, AgentTake, AgentSucceed, AgentFinish, AgentFail, AgentSlip,
       AgentStop, EnqueueUnmanaged
  <2>4. LeaseInv'
    BY <2>1, <2>3 DEF PromotionInv, LeaseInv, laneVars, laneFiles
  <2> QED
    BY <2>1, <2>2, <2>4 DEF PromotionInv
<1>2. CASE LaneMove
  <2>1. LaneInv' /\ UNCHANGED coordVars
    BY <1>2, LaneMoveKeeps DEF LaneMove, PromotionInv
  <2>2. CoordInv'
    <3>1. /\ done' = done /\ working' = working
          /\ \A x \in incoming' : x.of = "coord" => x \in incoming
      BY <1>2, LaneCarriesNothingOut
    <3> QED
      BY <2>1, <3>1, OthersKeepCoord DEF PromotionInv
  <2>3. LeaseInv'
    BY <1>2, LaneKeepsLease DEF PromotionInv
  <2> QED
    BY <2>1, <2>2, <2>3 DEF PromotionInv
<1>3. CASE CoordStep
  BY <1>3, CoordKeeps
<1>4. CASE UNCHANGED vars
  <2>1. UNCHANGED laneVars /\ UNCHANGED queueVars /\ UNCHANGED coordVars /\ lease' = lease
    BY <1>4 DEF vars
  <2>2. UNCHANGED agentVars /\ UNCHANGED <<plan, incoming, others>>
    BY <2>1 DEF queueVars
  <2>3. LaneInv'
    <3>1. lease \in Leases /\ incoming \subseteq AgentIds
      BY CoFacts DEF PromotionInv, LaneInv, AgentTypes
    <3> QED
      BY <2>1, <2>2, <3>1, LeaseKeepsLane DEF PromotionInv, laneVars
  <2>4. done' = done /\ working' = working /\ incoming' = incoming
    BY <2>2 DEF agentVars
  <2>5. CoordInv'
    BY <2>1, <2>3, <2>4, OthersKeepCoord DEF PromotionInv
  <2>6. LeaseInv'
    BY <2>1 DEF PromotionInv, LeaseInv, laneVars, laneFiles
  <2> QED
    BY <2>3, <2>5, <2>6 DEF PromotionInv
<1> QED
  BY <1>1, <1>2, <1>3, <1>4 DEF Next

(* PromotionInv is invariant.                                                  *)
THEOREM PromotionInvariant == Spec => []PromotionInv
<1>1. Init => PromotionInv
  BY PromotionInitially
<1>2. PromotionInv /\ [Next]_vars => PromotionInv'
  BY PromotionKeeps
<1> QED
  BY <1>1, <1>2, PTL DEF Spec

(* Every variable of the lane, the agent queue and the coordinator keeps its   *)
(* type, whatever threads, callers, GitHub and crashes do.                     *)
THEOREM PromotionIsTyped == Spec => []PromotionTypeOK
<1>1. PromotionInv => PromotionTypeOK
  <2> SUFFICES ASSUME PromotionInv PROVE PromotionTypeOK
    OBVIOUS
  <2>1. AgentTypes /\ GitHubTypes /\ thread \in [Threads -> ThreadRecords]
    BY DEF PromotionInv, LaneInv
  <2>2. /\ reqs \in Seq(RequestRecords) /\ ready \subseteq DOMAIN reqs
        /\ active \in TicketRecords /\ archive \subseteq TicketRecords
    BY LaneFacts DEF PromotionInv, Good, FileStates
  <2>3. /\ ws \in [Workstreams -> WsRecords] /\ deps \in Seq(DeployRecords)
        /\ test \in [ws : Workstreams \cup {0}, live : BOOLEAN] /\ calls \in Nat
        /\ lease \in Leases
    BY CoFacts, CoFields
  <2> QED
    BY <2>1, <2>2, <2>3 DEF PromotionTypeOK, AgentTypes, GitHubTypes, Leases
<1> QED
  BY <1>1, PromotionInvariant, PTL

(* A signed request of the lane that the agent can still find is bound to a    *)
(* durable request file, whatever crashes (deployment_queue.enqueue).          *)
THEOREM PublishedStaysBound == Spec => []PublishedIsBound
<1>1. PromotionInv => PublishedIsBound
  BY DEF PromotionInv, LaneInv
<1> QED
  BY <1>1, PromotionInvariant, PTL

(* A ticket counts as accepted only if the agent has carried out a deployment  *)
(* or a health check of its very commit (observe_response).                    *)
THEOREM AcceptanceStaysEarned == Spec => []AcceptanceIsEarned
<1>1. PromotionInv => AcceptanceIsEarned
  <2> SUFFICES ASSUME PromotionInv, NEW t \in archive \cup {active}, t.accepted
               PROVE  \E a \in done : a.head = t.head /\ a.kind \in {"deploy", "health"}
    BY DEF AcceptanceIsEarned
  <2>1. t # NoTicket
    BY DEF NoTicket
  <2>2. TicketSound(t, done)
    BY <2>1, LaneFacts DEF PromotionInv, Good
  <2> QED
    BY <2>2 DEF TicketSound, CarriedOut
<1> QED
  BY <1>1, PromotionInvariant, PTL

(* A candidate is in pre_merge only if the agent has deployed its exact head,  *)
(* in the lane together with a health check of it                              *)
(* (record_candidate_acceptance and its bridge).                               *)
THEOREM PreMergeStaysEarned == Spec => []PreMergeIsEarned
<1>1. PromotionInv => PreMergeIsEarned
  BY CoFacts DEF CoGood, PreMergeIsEarned, Earned, LaneEarned
<1> QED
  BY <1>1, PromotionInvariant, PTL

-----------------------------------------------------------------------------
(* The waiting files, over all the steps.                                      *)

(* One more is lost at most.                                                   *)
LEMMA OneMoreLost ==
  ASSUME NEW S, NEW T, NEW q, IsFiniteSet(S), T \subseteq S \cup {q},
         NEW n \in Nat, Cardinality(S) <= n
  PROVE  IsFiniteSet(T) /\ Cardinality(T) <= n + 1
<1> DEFINE R == S \cup {q}
<1>1. IsFiniteSet(R) /\ Cardinality(R) = IF q \in S THEN Cardinality(S) ELSE Cardinality(S) + 1
  BY FS_AddElement
<1>2. T \in SUBSET R
  OBVIOUS
<1> HIDE DEF R
<1>3. IsFiniteSet(T) /\ Cardinality(T) <= Cardinality(R)
  BY <1>1, <1>2, FS_Subset
<1>4. Cardinality(S) \in Nat /\ Cardinality(T) \in Nat
  BY <1>3, FS_CardinalityType
<1> QED
  BY <1>1, <1>3, <1>4

(* Fewer requests lost are no more.                                            *)
LEMMA FewerLost ==
  ASSUME NEW S, NEW T, IsFiniteSet(S), T \subseteq S, NEW n \in Nat, Cardinality(S) <= n
  PROVE  IsFiniteSet(T) /\ Cardinality(T) <= n
<1>1. IsFiniteSet(T) /\ Cardinality(T) <= Cardinality(S)
  BY FS_Subset
<1>2. Cardinality(S) \in Nat /\ Cardinality(T) \in Nat
  BY <1>1, FS_CardinalityType
<1> QED
  BY <1>1, <1>2

(* The requests without their file are no more than the crashes.               *)
WaitingInv == PromotionInv /\ IsFiniteSet(Lost(Files)) /\ Cardinality(Lost(Files)) <= crashes

(* A request that waits for the lane has its file in ready/, so the loop will  *)
(* find it, whatever the order of parking, dispatch, refusal and recovery; a   *)
(* crash of the server loses one request at most (before_enqueue,              *)
(* _activate_unlocked and the refusals of the dispatch loop).                  *)
THEOREM WaitingStaysStored == Spec => []WaitingIsStored
<1>1. Init => WaitingInv
  <2> SUFFICES ASSUME Init PROVE WaitingInv
    OBVIOUS
  <2>1. Files.reqs = <<>> /\ crashes = 0
    BY DEF Init, LaneInit, Files
  <2>2. Lost(Files) = {}
    BY <2>1 DEF Lost
  <2>3. IsFiniteSet(Lost(Files)) /\ Cardinality(Lost(Files)) = 0
    BY <2>2, FS_EmptySet
  <2> QED
    BY <2>1, <2>3, PromotionInitially DEF WaitingInv
<1>2. WaitingInv /\ [Next]_vars => WaitingInv'
  <2> SUFFICES ASSUME WaitingInv, [Next]_vars
               PROVE  WaitingInv'
    OBVIOUS
  <2>1. PromotionInv /\ IsFiniteSet(Lost(Files)) /\ Cardinality(Lost(Files)) <= crashes
    BY DEF WaitingInv
  <2>2. PromotionInv' /\ crashes \in Nat
    BY <2>1, PromotionKeeps DEF PromotionInv, LaneInv, GitHubTypes
  <2>3. SUFFICES \/ crashes' \in {crashes, crashes + 1} /\ Lost(Files)' \subseteq Lost(Files)
                 \/ crashes' = crashes + 1 /\ \E q : Lost(Files)' \subseteq Lost(Files) \cup {q}
    <3> DEFINE S == Lost(Files)
               T == Lost(Files)'
    <3>1. IsFiniteSet(T) /\ Cardinality(T) <= crashes'
      <4>1. ASSUME crashes' \in {crashes, crashes + 1}, T \subseteq S
            PROVE  IsFiniteSet(T) /\ Cardinality(T) <= crashes'
        <5>1. crashes' \in Nat /\ Cardinality(S) <= crashes'
          BY <2>1, <2>2, <4>1, FS_CardinalityType
        <5> HIDE DEF S, T
        <5> QED
          BY ONLY <5>1, <4>1, <2>1, FewerLost DEF S
      <4>2. ASSUME NEW q, crashes' = crashes + 1, T \subseteq S \cup {q}
            PROVE  IsFiniteSet(T) /\ Cardinality(T) <= crashes'
        <5> HIDE DEF T
        <5> QED
          BY <2>1, <2>2, <4>2, OneMoreLost
      <4> QED
        BY <2>3, <4>1, <4>2
    <3> QED
      BY <2>2, <3>1 DEF WaitingInv
  <2>4. CASE AgentMove \/ UNCHANGED vars
    <3>1. crashes' = crashes /\ Files' = Files
      <4>1. UNCHANGED laneVars /\ lease' = lease
        BY <2>4 DEF AgentMove, AgentStep, AgentTake, AgentSucceed, AgentFinish, AgentFail,
           AgentSlip, AgentStop, EnqueueUnmanaged, vars
      <4> QED
        BY <4>1 DEF laneVars, laneFiles, Files
    <3> QED
      BY <3>1 DEF Lost
  <2>5. CASE CoordStep
    <3>1. crashes' \in {crashes, crashes + 1} /\ reqs' = reqs /\ ready' = ready
      BY <2>1, <2>5, CoordLeaves DEF laneFiles
    <3> QED
      BY <3>1 DEF Lost, Files
  <2>6. CASE LaneMove
    <3>1. PICK g : /\ Install(g) /\ Cut(Files, g)
                   /\ \/ crashes' = crashes /\ Ends(Files, g)
                      \/ crashes' = crashes + 1
      BY <2>1, <2>6, LaneMoveEnds DEF LaneEnds, PromotionInv
    <3>2. Lost(Files)' = Lost(g)
      BY <3>1 DEF Install, Lost, Files
    <3> QED
      BY <3>1, <3>2 DEF Cut, Ends
  <2> QED
    BY <2>4, <2>5, <2>6 DEF Next
<1>3. WaitingInv => WaitingIsStored
  BY DEF WaitingInv, WaitingIsStored, Lost, Files
<1> QED
  BY <1>1, <1>2, <1>3, PTL DEF Spec

-----------------------------------------------------------------------------
(* Steps of the coordinator that are not interrupted.                          *)

(* What may become of the lease.                                               *)
LeaseEnds ==
  \/ lease' = lease \/ lease = NoLease
  \/ lease.by = "ws" /\ Holder(lease') = Holder(lease)
  \/ /\ lease.by = "ws" /\ lease' = NoLease
     /\ UNCHANGED <<laneVars, coordVars, queueVars>> \/ GivenBack(lease.owner)

(* No deployment record and no file of the agent queue is written.             *)
QueueKept == deps' = deps /\ incoming' = incoming

(* What a change leaves that is not interrupted.                              *)
LEMMA MutateEnds ==
  ASSUME PromotionInv, NEW steps, steps # <<>>, Mutate(steps), crashes' = crashes,
         NEW g, g = After(steps, Co)
  PROVE  ws' = g.ws /\ deps' = g.deps /\ lease' = g.lease /\ incoming' = g.incoming
<1>1. crashes \in Nat /\ crashes + 1 # crashes
  BY DEF PromotionInv, LaneInv, GitHubTypes
<1>2. g = steps[Len(steps)]
  BY DEF After
<1> QED
  BY <1>1, <1>2 DEF Mutate, ServerDies

(* The lease and then a workstream are written.                                *)
LEMMA PairEnds ==
  ASSUME PromotionInv, NEW w \in Workstreams, NEW item, NEW freed, NEW l, NEW items,
         freed = [ws |-> items, deps |-> deps, lease |-> l, incoming |-> incoming],
         items \in [Workstreams -> WsRecords],
         Mutate(<< freed, WithWs(freed, w, item) >>), crashes' = crashes
  PROVE  QueueKept /\ lease' = l /\ ws'[w] = item
<1> DEFINE g == WithWs(freed, w, item)
           steps == << freed, g >>
<1>1. g = [ws |-> [items EXCEPT ![w] = item], deps |-> deps, lease |-> l, incoming |-> incoming]
  BY DEF WithWs
<1>2. g = After(steps, Co) /\ steps # <<>> /\ Mutate(steps)
  BY DEF After
<1> HIDE DEF g, steps
<1>3. /\ ws' = g.ws /\ deps' = g.deps /\ lease' = g.lease /\ incoming' = g.incoming
  BY <1>2, MutateEnds
<1> QED
  BY <1>1, <1>3 DEF QueueKept

(* A lease released for workstream w was that workstream's, or stays.          *)
LEMMA ReleasedWasOwned ==
  ASSUME NEW w
  PROVE  \/ Released(lease, w) = lease
         \/ lease.by = "ws" /\ lease.owner = w /\ Released(lease, w) = NoLease
BY DEF Released

(* The lease that a section releases for a workstream w that ends or needs a   *)
(* decision is given back.                                                     *)
LEMMA OwnedEnds ==
  ASSUME NEW w \in Workstreams, lease' \in {lease, Released(lease, w)},
         lease' = lease \/ ws'[w].state \in FinalWs \cup {"decision_required"}
  PROVE  LeaseEnds
BY ReleasedWasOwned DEF LeaseEnds, GivenBack

\* Registering writes the caller's leases only.
LEMMA RegisterEnds ==
  ASSUME PromotionInv, NEW w \in Workstreams, NEW c \in Commits, NEW asked \in Asked,
         crashes' = crashes, Register(w, c, asked)
  PROVE  QueueKept /\ lease' = lease
<1>1. PICK item : LET renewed == [Co EXCEPT !.ws = Renewed(ws)]
                  IN Mutate(<< renewed, WithWs(renewed, w, item) >>)
  BY DEF Register
<1> DEFINE renewed == [Co EXCEPT !.ws = Renewed(ws)]
           items == Renewed(ws)
<1>2. renewed = [ws |-> items, deps |-> deps, lease |-> lease, incoming |-> incoming]
  BY DEF Co
<1>3. items \in [Workstreams -> WsRecords]
  <2>1. CoGood(Co, done) /\ Co.ws = ws
    BY CoFacts
  <2>2. CoSound(Co, [Co EXCEPT !.ws = Renewed(Co.ws)], done)
    BY <2>1, RenewIsSound
  <2>3. renewed \in CoStates
    BY <2>1, <2>2 DEF CoSound, CoGood
  <2> HIDE DEF renewed
  <2> QED
    BY <1>2, <2>3 DEF CoStates
<1> HIDE DEF items
<1> QED
  BY <1>1, <1>2, <1>3, PairEnds

\* A heartbeat writes the caller's leases only.
LEMMA HeartbeatEnds ==
  ASSUME PromotionInv, NEW w \in Workstreams, NEW state, crashes' = crashes,
         Heartbeat(w, state)
  PROVE  QueueKept /\ LeaseEnds
<1> DEFINE item == [ws[w] EXCEPT !.state = state, !.live = TRUE]
           l == IF state \in FinalWs THEN Released(lease, w) ELSE lease
           freed == [Co EXCEPT !.lease = l]
<1>1. Mutate(<< freed, WithWs(freed, w, item) >>)
  BY DEF Heartbeat, Co
<1>2. freed = [ws |-> ws, deps |-> deps, lease |-> l, incoming |-> incoming]
  BY DEF Co
<1>3. ws \in [Workstreams -> WsRecords]
  BY CoFacts DEF CoStates
<1>4. item.state = state
  BY <1>3 DEF WsRecords
<1> HIDE DEF item, freed
<1>5. QueueKept /\ lease' = l /\ ws'[w] = item
  <2> HIDE DEF l
  <2> QED
    BY <1>1, <1>2, <1>3, PairEnds
<1> QED
  BY <1>4, <1>5, OwnedEnds

\* A write of a workstream's row alone moves no lease.
LEMMA WsWriteEnds ==
  ASSUME PromotionInv, NEW w \in Workstreams, NEW item, crashes' = crashes,
         Mutate(<< WithWs(Co, w, item) >>)
  PROVE  QueueKept /\ lease' = lease
<1> DEFINE g == WithWs(Co, w, item)
           steps == << g >>
<1>1. g = [ws |-> [ws EXCEPT ![w] = item], deps |-> deps, lease |-> lease, incoming |-> incoming]
  BY DEF WithWs, Co
<1>2. g = After(steps, Co) /\ steps # <<>> /\ Mutate(steps)
  BY DEF After
<1> HIDE DEF g, steps
<1>3. /\ deps' = g.deps /\ lease' = g.lease /\ incoming' = g.incoming
  BY <1>2, MutateEnds
<1> QED
  BY <1>1, <1>3 DEF QueueKept

\* A reservation takes the lane only when it is free, or renews it.
LEMMA ReserveEnds ==
  ASSUME PromotionInv, NEW w \in Workstreams, NEW c \in Commits, crashes' = crashes,
         Reserve(w, c)
  PROVE  QueueKept /\ LeaseEnds
<1> DEFINE renewed == [Co EXCEPT !.ws = Renewed(ws)]
           l == [by |-> "ws", owner |-> w, head |-> c]
           leased == [renewed EXCEPT !.lease = l]
<1>1. PICK item : Mutate(<< renewed, leased, WithWs(leased, w, item) >>)
  BY DEF Reserve
<1>5. lease = NoLease \/ (lease.by = "ws" /\ lease.owner = w)
  BY DEF Reserve
<1> DEFINE g == WithWs(leased, w, item)
           steps == << renewed, leased, g >>
<1>2. g.deps = deps /\ g.incoming = incoming /\ g.lease = l
  BY DEF WithWs, Co
<1>3. g = After(steps, Co) /\ steps # <<>> /\ Mutate(steps)
  BY <1>1 DEF After
<1> HIDE DEF g, steps, l
<1>4. /\ deps' = g.deps /\ lease' = g.lease /\ incoming' = g.incoming
  BY <1>3, MutateEnds
<1> QED
  BY <1>2, <1>4, <1>5 DEF QueueKept, l, LeaseEnds, Holder

\* A verdict given by hand moves no lease of another.
LEMMA RecordAcceptanceEnds ==
  ASSUME PromotionInv, NEW w \in Workstreams, NEW c \in Commits, NEW d, NEW ok \in BOOLEAN,
         crashes' = crashes, RecordAcceptance(w, c, d, ok)
  PROVE  QueueKept /\ LeaseEnds
<1> DEFINE state == IF ok THEN "pre_merge" ELSE "decision_required"
           l == IF ok THEN lease ELSE Released(lease, w)
           freed == [Co EXCEPT !.lease = l]
           held == WithCand(ws[w], c, [ws[w].cands[c] EXCEPT !.state = state])
           item == [held EXCEPT !.state = state, !.live = @ \/ ok]
<1>1. Mutate(<< freed, WithWs(freed, w, item) >>)
  BY DEF RecordAcceptance, AcceptSteps, Co
<1>2. freed = [ws |-> ws, deps |-> deps, lease |-> l, incoming |-> incoming]
  BY DEF Co
<1>3. ws \in [Workstreams -> WsRecords]
  BY CoFacts DEF CoStates
<1>4. item.state = state
  BY <1>3 DEF WsRecords, WithCand
<1> HIDE DEF item, freed
<1>5. QueueKept /\ lease' = l /\ ws'[w] = item
  <2> HIDE DEF l
  <2> QED
    BY <1>1, <1>2, <1>3, PairEnds
<1> QED
  BY <1>4, <1>5, OwnedEnds

\* Completing gives back the caller's leases only.
LEMMA CompleteEnds ==
  ASSUME PromotionInv, NEW w \in Workstreams, NEW c \in Commits, NEW outcome \in Outcomes,
         crashes' = crashes, Complete(w, outcome, c)
  PROVE  QueueKept /\ LeaseEnds
<1> DEFINE held == IF outcome = "merged"
                   THEN WithCand(ws[w], c, [ws[w].cands[c] EXCEPT !.state = "merged"]) ELSE ws[w]
           l == Released(lease, w)
           freed == [Co EXCEPT !.lease = l]
           item == [held EXCEPT !.state = outcome]
<1>1. Mutate(<< freed, WithWs(freed, w, item) >>)
  BY DEF Complete, Co
<1>2. freed = [ws |-> ws, deps |-> deps, lease |-> l, incoming |-> incoming]
  BY DEF Co
<1>3. ws \in [Workstreams -> WsRecords]
  BY CoFacts DEF CoStates
<1>4. item.state = outcome
  BY <1>3 DEF WsRecords, WithCand
<1> HIDE DEF item, freed
<1>5. QueueKept /\ lease' = l /\ ws'[w] = item
  <2> HIDE DEF l
  <2> QED
    BY <1>1, <1>2, <1>3, PairEnds
<1> QED
  BY <1>4, <1>5, OwnedEnds, CallerAssumption

\* Settling from outside gives back the caller's leases only.
LEMMA ReconcileExternalEnds ==
  ASSUME PromotionInv, NEW w \in Workstreams, NEW c \in Commits, crashes' = crashes,
         ReconcileExternal(w, c)
  PROVE  QueueKept /\ LeaseEnds
<1> DEFINE up == Upsert(ws[w], c, "nothing")
           item == IF ws[w].head = c THEN ws[w]
                   ELSE WithCand(up, c, [up.cands[c] EXCEPT !.state = "developing"])
           shut == pr[c] = "closed" /\ item.state \notin FinalWs
           wins == pr[c] = "merged" /\ item.state = "pre_merge"
           held == WithCand(item, c, [item.cands[c] EXCEPT !.state = "merged"])
           next == IF shut THEN [item EXCEPT !.state = "decision_required"]
                   ELSE IF wins THEN [held EXCEPT !.state = "merged"]
                   ELSE item
           l == IF shut \/ wins THEN Released(lease, w) ELSE lease
           freed == [Co EXCEPT !.lease = l]
<1>1. Mutate(<< freed, WithWs(freed, w, next) >>)
  <2>1. Co.lease = lease
    BY DEF Co
  <2> QED
    BY <2>1 DEF ReconcileExternal
<1>2. freed = [ws |-> ws, deps |-> deps, lease |-> l, incoming |-> incoming]
  BY DEF Co
<1>3. ws \in [Workstreams -> WsRecords] /\ ws[w] \in WsRecords
  BY CoFacts DEF CoStates
<1>4. item \in WsRecords
  <2>1. Advances(ws[w], up, {})
    BY <1>3, UpsertAdvances DEF Asked
  <2>2. up \in WsRecords
    BY <2>1 DEF Advances
  <2> HIDE DEF up
  <2>3. WithCand(up, c, [up.cands[c] EXCEPT !.state = "developing"]) \in WsRecords
    BY <2>2 DEF WithCand, WsRecords, WsStates
  <2> QED
    BY <1>3, <2>3
<1> HIDE DEF item
<1>5. shut \/ wins => next.state \in FinalWs \cup {"decision_required"}
  BY <1>4 DEF WsRecords, WithCand, FinalWs
<1> HIDE DEF next, freed, shut, wins
<1>6. QueueKept /\ lease' = l /\ ws'[w] = next
  <2> HIDE DEF l
  <2> QED
    BY <1>1, <1>2, <1>3, PairEnds
<1> QED
  BY <1>5, <1>6, OwnedEnds

\* Registering a candidate moves no lease of another.
LEMMA RegisterCandidateEnds ==
  ASSUME PromotionInv, NEW w \in Workstreams, NEW c \in Commits, NEW asked, crashes' = crashes,
         RegisterCandidate(w, c, asked)
  PROVE  QueueKept /\ lease' = lease
<1>1. PICK item : Mutate(<< WithWs(Co, w, item) >>)
  BY DEF RegisterCandidate
<1> QED
  BY <1>1, WsWriteEnds

\* Recording evidence moves no lease of another.
LEMMA RecordEvidenceEnds ==
  ASSUME PromotionInv, NEW w \in Workstreams, NEW c \in Commits, NEW result, crashes' = crashes,
         RecordEvidence(w, c, result)
  PROVE  QueueKept /\ lease' = lease
<1>1. PICK item : Mutate(<< WithWs(Co, w, item) >>)
  BY DEF RecordEvidence
<1> QED
  BY <1>1, WsWriteEnds

\* The test lock and the clock's expiries move leases as they may.
LEMMA TimeEnds ==
  ASSUME \/ ExpireTest \/ ExpireReservation
         \/ \E w \in Workstreams : AcquireTest(w) \/ ReleaseTest(w) \/ ExpireLock(w)
  PROVE  QueueKept /\ LeaseEnds
BY DEF ExpireTest, ExpireReservation, AcquireTest, ReleaseTest, ExpireLock, coordVars, queueVars,
   QueueKept, LeaseEnds

(* Record d, which waits, goes out.                                            *)
Sends(co, d, g) ==
  /\ co.deps[d].pend
  /\ g.deps = [co.deps EXCEPT ![d] = [co.deps[d] EXCEPT !.hist = "deploying", !.pend = FALSE]]
  /\ g.incoming = {CoordRequest(co, d)}

(* What a dispatch leaves behind.                                              *)
LEMMA DispatchEndFacts ==
  ASSUME NEW D, NEW co, CoGood(co, D), NEW sent \in Dispatches(co), NEW g, g = After(sent, co)
  PROVE  /\ g.lease = co.lease
         /\ \/ g.deps = co.deps /\ g.incoming = co.incoming
            \/ co.incoming = {} /\ \E d \in DOMAIN co.deps : Sends(co, d, g)
<1>1. CASE sent = <<>>
  BY <1>1 DEF After
<1>2. CASE sent # <<>>
  <2>1. PICK d \in DOMAIN co.deps : /\ co.incoming \cup processing = {}
                                    /\ NextPending(co.deps, d) /\ sent = SendSteps(co, d)
    BY <1>2 DEF Dispatches
  <2> DEFINE dep == co.deps[d]
             first == [co EXCEPT !.incoming = @ \cup {CoordRequest(co, d)}]
             depm == [dep EXCEPT !.hist = "deploying", !.pend = FALSE]
             kept == WithDep(first, d, [dep EXCEPT !.hist = "deploying"])
             moved == WithDep(first, d, depm)
             item == co.ws[dep.ws]
             noted == [(IF item.cands[dep.head].state = "none" THEN item
                        ELSE WithCand(item, dep.head, [item.cands[dep.head] EXCEPT !.state = "deploying"]))
                       EXCEPT !.state = "deploying", !.live = TRUE]
             last == WithWs(moved, dep.ws, noted)
  <2>2. SendSteps(co, d) = << first, kept, moved, last >>
    BY DEF SendSteps
  <2> HIDE DEF noted
  <2>3. g = last
    <3> HIDE DEF first, kept, moved, last
    <3> QED
      BY <2>1, <2>2 DEF After
  <2>4. co \in CoStates
    BY DEF CoGood
  <2> HIDE DEF depm, dep
  <2>5. /\ last.deps = [co.deps EXCEPT ![d] = depm] /\ last.lease = co.lease
        /\ last.incoming = co.incoming \cup {CoordRequest(co, d)}
    BY <2>4 DEF WithWs, WithDep, CoStates
  <2>6. co.incoming = {} /\ co.deps[d].pend
    BY <2>1 DEF NextPending
  <2> HIDE DEF last
  <2>7. Sends(co, d, g)
    BY <2>3, <2>5, <2>6 DEF depm, dep, Sends
  <2> QED
    BY <2>3, <2>5, <2>6, <2>7
<1> QED
  BY <1>1, <1>2

(* What the reconciliation of a record leaves behind.                          *)
LEMMA ReconcileEndFacts ==
  ASSUME PromotionInv, NEW d \in DOMAIN deps, Settled(d), NEW g, g = After(ReconcileSteps(Co, d), Co)
  PROVE  /\ g.deps = [deps EXCEPT ![d] =
                        [deps[d] EXCEPT !.hist = IF Succeeded(CoordRequest(Co, d)) THEN "succeeded"
                                                 ELSE "failed"]]
         /\ g.incoming = incoming
         /\ \/ g.lease = lease
            \/ g.lease = Released(lease, deps[d].ws) /\ ~Succeeded(CoordRequest(Co, d))
<1> DEFINE dep == Co.deps[d]
           ok == Succeeded(CoordRequest(Co, d))
           item == Co.ws[dep.ws]
           known == item.cands[dep.head].state # "none"
           state == IF ok THEN "acceptance" ELSE "decision_required"
           depn == [dep EXCEPT !.hist = IF ok THEN "succeeded" ELSE "failed"]
           settled == WithDep(Co, d, depn)
           freed == IF ok /\ known THEN settled
                    ELSE [settled EXCEPT !.lease = Released(@, dep.ws)]
           noted == [WithCand(item, dep.head, [item.cands[dep.head] EXCEPT !.state = state])
                     EXCEPT !.state = state, !.live = @ \/ ok]
           last == WithWs(freed, dep.ws, noted)
<1>1. ReconcileSteps(Co, d) = IF known THEN << settled, freed, last >> ELSE << settled, freed >>
  BY DEF ReconcileSteps
<1>3. known
  BY CoFacts DEF CoGood
<1> HIDE DEF noted
<1>2. g = last
  <2> HIDE DEF settled, freed, last, known
  <2> QED
    BY <1>1, <1>3 DEF After
<1>4. Co = [ws |-> ws, deps |-> deps, lease |-> lease, incoming |-> incoming] /\ Co.deps = deps
  BY DEF Co
<1> HIDE DEF noted, known, depn, ok
<1>5. freed = [ws |-> ws, deps |-> [deps EXCEPT ![d] = depn],
               lease |-> IF ok THEN lease ELSE Released(lease, dep.ws), incoming |-> incoming]
  BY <1>3, <1>4 DEF WithDep
<1> HIDE DEF freed
<1>6. /\ last.deps = [deps EXCEPT ![d] = depn] /\ last.incoming = incoming
      /\ last.lease = IF ok THEN lease ELSE Released(lease, dep.ws)
  BY <1>5 DEF WithWs
<1> HIDE DEF last
<1> QED
  BY <1>2, <1>4, <1>6 DEF depn, dep, ok

(* What a bridged acceptance leaves behind: a copy, new or over an older one.  *)
LEMMA BridgeAcceptanceEnds ==
  ASSUME PromotionInv, crashes' = crashes, Bridges
  PROVE  /\ \E record \in DeployRecords :
              /\ record.lane # 0 /\ ~record.pend /\ record.hist = "succeeded"
              /\ \/ deps' = Append(deps, record)
                 \/ \E d \in DOMAIN deps : /\ deps[d].lane = record.lane
                                           /\ deps' = [deps EXCEPT ![d] = record]
         /\ incoming' = incoming /\ LeaseEnds
<1>1. PICK w \in Workstreams, c \in Commits, q \in DOMAIN reqs, h \in DOMAIN reqs,
           ok \in BOOLEAN : BridgeAcceptance(w, c, q, h, ok)
  BY DEF Bridges
<1> DEFINE record == [NewDeploy(w, c, 0, reqs[q].id, 0, FALSE)
                      EXCEPT !.lane = q, !.pend = FALSE, !.hist = "succeeded"]
           old == {d \in DOMAIN deps : deps[d].lane = q}
<1>2. PICK ds \in IF old = {} THEN {Append(deps, record)}
                   ELSE {[deps EXCEPT ![d] = record] : d \in old} :
        LET copied == [Co EXCEPT !.deps = ds]
        IN Mutate(<< copied >> \o AcceptSteps(copied, w, c, ok))
  BY <1>1 DEF BridgeAcceptance
<1> DEFINE copied == [Co EXCEPT !.deps = ds]
           state == IF ok THEN "pre_merge" ELSE "decision_required"
           l == IF ok THEN lease ELSE Released(lease, w)
           freed == [copied EXCEPT !.lease = l]
           held == WithCand(ws[w], c, [ws[w].cands[c] EXCEPT !.state = state])
           item == [held EXCEPT !.state = state, !.live = @ \/ ok]
           last == WithWs(freed, w, item)
<1>3. Mutate(<< copied >> \o << freed, last >>)
  BY <1>2 DEF AcceptSteps, Co
<1>4. record \in DeployRecords /\ record.lane = q /\ ~record.pend /\ record.hist = "succeeded"
  <2>1. reqs \in Seq(RequestRecords)
    BY LaneFacts DEF PromotionInv, FileStates
  <2>2. reqs[q] \in RequestRecords
    BY <2>1, ElementOfSeq, LenProperties
  <2>3. q \in Nat /\ reqs[q].id \in Nat
    BY <2>1, <2>2, LenProperties DEF RequestRecords
  <2> QED
    BY <2>3 DEF NewDeploy, DeployRecords
<1>5. q # 0
  <2>1. reqs \in Seq(RequestRecords)
    BY LaneFacts DEF PromotionInv, FileStates
  <2> QED
    BY <2>1, LenProperties
<1>6. ws \in [Workstreams -> WsRecords]
  BY CoFacts DEF CoStates
<1>7. item.state = state
  BY <1>6 DEF WsRecords, WithCand
<1> HIDE DEF record, item, l
<1>8. copied = [ws |-> ws, deps |-> ds, lease |-> lease, incoming |-> incoming]
  BY DEF Co
<1> HIDE DEF copied
<1>9. freed = [ws |-> ws, deps |-> ds, lease |-> l, incoming |-> incoming]
  BY <1>8
<1> HIDE DEF freed
<1>10. last = [ws |-> [ws EXCEPT ![w] = item], deps |-> ds, lease |-> l, incoming |-> incoming]
  BY <1>9 DEF WithWs
<1> HIDE DEF last
<1> DEFINE steps == << copied, freed, last >>
<1>11. Mutate(steps) /\ steps # <<>> /\ last = After(steps, Co)
  BY <1>3, OneThenTwo DEF After
<1> HIDE DEF steps
<1>12. ws' = last.ws /\ deps' = last.deps /\ lease' = last.lease /\ incoming' = last.incoming
  BY <1>11, MutateEnds
<1>13. ws'[w] = item /\ lease' = l /\ deps' = ds /\ incoming' = incoming
  BY <1>6, <1>10, <1>12
<1>14. LeaseEnds
  BY <1>7, <1>13, OwnedEnds DEF l
<1>15. \/ deps' = Append(deps, record)
       \/ \E d \in DOMAIN deps : deps[d].lane = q /\ deps' = [deps EXCEPT ![d] = record]
  BY <1>2, <1>13
<1> QED
  BY <1>4, <1>5, <1>13, <1>14, <1>15

(* Calls that publish nothing leave the queue and other owners' leases alone.  *)
LEMMA QuietCallEnds ==
  ASSUME PromotionInv, QuietCall, crashes' = crashes
  PROVE  QueueKept /\ LeaseEnds
<1>1. CASE \/ ExpireTest \/ ExpireReservation
           \/ \E w \in Workstreams : AcquireTest(w) \/ ReleaseTest(w) \/ ExpireLock(w)
  BY <1>1, TimeEnds
<1>2. CASE \E w \in Workstreams, s \in Heartbeats : Heartbeat(w, s)
  BY <1>2, HeartbeatEnds
<1>3. CASE \E w \in Workstreams, c \in Commits, asked \in Asked :
             Register(w, c, asked) \/ RegisterCandidate(w, c, asked)
  BY <1>3, RegisterEnds, RegisterCandidateEnds DEF LeaseEnds
<1>4. CASE \E w \in Workstreams, c \in Commits : Reserve(w, c) \/ ReconcileExternal(w, c)
  BY <1>4, ReserveEnds, ReconcileExternalEnds
<1>5. CASE \E w \in Workstreams, c \in Commits, result \in {"passed", "failed"} :
             RecordEvidence(w, c, result)
  BY <1>5, RecordEvidenceEnds DEF LeaseEnds
<1>6. CASE \E w \in Workstreams, c \in Commits, d \in DOMAIN deps, ok \in BOOLEAN :
             RecordAcceptance(w, c, d, ok)
  BY <1>6, RecordAcceptanceEnds
<1>7. CASE \E w \in Workstreams, c \in Commits, outcome \in Outcomes : Complete(w, outcome, c)
  BY <1>7, CompleteEnds
<1> QED
  BY <1>1, <1>2, <1>3, <1>4, <1>5, <1>6, <1>7 DEF QuietCall

-----------------------------------------------------------------------------
(* The lease, over all the steps.                                              *)

(* A pass gives up the lease of a deployment that failed, and no other.        *)
LEMMA PassEnds ==
  ASSUME PromotionInv, Pass, crashes' = crashes
  PROVE  LeaseEnds
<1>1. PICK before \in {<<>>} \cup {ReconcileSteps(Co, d) : d \in {e \in DOMAIN deps : Settled(e)}} :
        \E renewed : \E sent \in Dispatches(renewed) :
          /\ CoGood(renewed, done) /\ Co' = After(sent, renewed)
          /\ renewed.lease = After(before, Co).lease
  BY PassKeeps
<1>2. PICK renewed : \E sent \in Dispatches(renewed) :
        /\ CoGood(renewed, done) /\ Co' = After(sent, renewed)
        /\ renewed.lease = After(before, Co).lease
  BY <1>1
<1> DEFINE g == After(before, Co)
<1>3. lease' = g.lease
  <2>1. \A sent \in Dispatches(renewed) : After(sent, renewed).lease = renewed.lease
    BY <1>2, DispatchEndFacts
  <2>2. (Co').lease = lease'
    BY DEF Co
  <2> QED
    BY <1>2, <2>1, <2>2
<1>4. CASE before = <<>>
  <2>1. g.lease = lease
    BY <1>4 DEF After, Co
  <2> QED
    BY <1>3, <2>1 DEF LeaseEnds
<1>5. CASE before # <<>>
  <2>1. PICK d \in DOMAIN deps : Settled(d) /\ before = ReconcileSteps(Co, d)
    BY <1>5
  <2>2. g = After(ReconcileSteps(Co, d), Co)
    BY <2>1
  <2> HIDE DEF g
  <2>3. Answered(CoordRequest(Co, d)) /\ deps[d].hist = "deploying"
    BY <2>1 DEF Settled
  <2>4. \/ g.lease = lease
        \/ g.lease = Released(lease, deps[d].ws) /\ ~Succeeded(CoordRequest(Co, d))
    BY <2>1, <2>2, ReconcileEndFacts
  <2> QED
    BY <1>3, <2>3, <2>4, ReleasedWasOwned DEF LeaseEnds, GivenBack
<1> QED
  BY <1>4, <1>5

(* A step of the coordinator that is not interrupted respects leases.          *)
LEMMA CoordEnds ==
  ASSUME PromotionInv, CoordStep, crashes' = crashes
  PROVE  LeaseEnds
<1>1. CASE Queues
  <2>1. PICK noted : \E sent \in Dispatches(noted) :
          CoGood(noted, done) /\ Co' = After(sent, noted) /\ noted.lease = lease
    BY <1>1, QueueDeploymentKeeps DEF Queues
  <2>2. \A sent \in Dispatches(noted) : After(sent, noted).lease = noted.lease
    BY <2>1, DispatchEndFacts
  <2>3. (Co').lease = lease'
    BY DEF Co
  <2> QED
    BY <2>1, <2>2, <2>3 DEF LeaseEnds
<1>2. CASE Bridges
  BY <1>2, BridgeAcceptanceEnds
<1> QED
  BY <1>1, <1>2, PassEnds, QuietCallEnds, CoordSplits

(* The lease changes hands in known ways only: a ticket's goes to nobody, when *)
(* the ticket is archived; a workstream's goes to nobody when its time is      *)
(* over, when that workstream ends or needs a decision, or when its deployment *)
(* fails; or it is overruled by the lane, by an activation that had found the  *)
(* lane free before the reservation or after a crash.  No workstream takes     *)
(* another's (_release_lane_lease_locked, _release_promotion_lease_unlocked,   *)
(* reserve_promotion, _activate_unlocked).                                     *)
THEOREM LeasesChangeHandsLawfully == Spec => LeaseChangesHands
<1>1. PromotionInv /\ [Next]_vars =>
        ((lease # NoLease /\ Holder(lease') # Holder(lease) /\ crashes' = crashes) =>
          IF lease.by = "lane" THEN lease' = NoLease /\ \E t \in archive' : t.ticket = lease.owner
          ELSE \/ lease' = NoLease /\ UNCHANGED <<laneVars, coordVars, queueVars>>
               \/ lease' = NoLease /\ UNCHANGED laneFiles /\ GivenBack(lease.owner)
               \/ Overruled)
  <2> SUFFICES ASSUME PromotionInv, [Next]_vars, lease # NoLease, Holder(lease') # Holder(lease),
                      crashes' = crashes
               PROVE  IF lease.by = "lane"
                      THEN lease' = NoLease /\ \E t \in archive' : t.ticket = lease.owner
                      ELSE \/ lease' = NoLease /\ UNCHANGED <<laneVars, coordVars, queueVars>>
                           \/ lease' = NoLease /\ UNCHANGED laneFiles /\ GivenBack(lease.owner)
                           \/ Overruled
    OBVIOUS
  <2>1. CASE AgentMove \/ UNCHANGED vars
    <3>1. lease' = lease
      BY <2>1 DEF AgentMove, AgentStep, AgentTake, AgentSucceed, AgentFinish, AgentFail,
         AgentSlip, AgentStop, EnqueueUnmanaged, vars
    <3> QED
      BY <3>1
  <2>2. CASE CoordStep
    <3>1. LeaseEnds /\ UNCHANGED laneFiles
      BY <2>2, CoordEnds, CoordLeaves
    <3>2. \/ /\ lease.by = "ws" /\ lease' = NoLease
             /\ UNCHANGED <<laneVars, coordVars, queueVars>> \/ GivenBack(lease.owner)
      BY <3>1 DEF LeaseEnds
    <3> QED
      BY <3>1, <3>2
  <2>3. CASE LaneMove
    <3>1. PICK g : Install(g) /\ Ends(Files, g)
      <4>1. crashes \in Nat /\ crashes + 1 # crashes
        BY DEF PromotionInv, LaneInv, GitHubTypes
      <4> QED
        BY <2>3, <4>1, LaneMoveEnds DEF LaneEnds, PromotionInv
    <3>2. lease' = g.lease /\ active' = g.active /\ archive' = g.archive /\ Turns(Files, g)
          /\ Files.lease = lease /\ Files.active = active
      BY <3>1 DEF Install, Ends, Files
    <3>3. CASE /\ g.lease.by = "lane" /\ g.active # NoTicket /\ g.lease.owner = g.active.ticket
               /\ active # NoTicket /\ active.ticket = g.active.ticket
      <4>1. lease.by # "lane"
        BY <3>2, <3>3 DEF PromotionInv, LeaseInv, Holder
      <4>2. crashes # 0 /\ crashes \in Nat
        BY <3>3, <4>1 DEF PromotionInv, LeaseInv, LaneInv, GitHubTypes
      <4>3. crashes > 0
        BY <4>2
      <4> QED
        BY <3>2, <3>3, <4>1, <4>3 DEF Overruled
    <3>4. CASE /\ g.lease.by = "lane" /\ g.lease.owner = g.active.ticket
               /\ lease.by # "lane" /\ \E a \in Threads : thread[a].pc = "activate"
      BY <3>2, <3>4 DEF Overruled
    <3>5. CASE /\ g.lease = NoLease /\ lease.by = "lane"
               /\ \E t \in g.archive : t.ticket = lease.owner
      BY <3>2, <3>5
    <3>6. g.lease # lease
      BY <3>2
    <3> QED
      BY <3>2, <3>3, <3>4, <3>5, <3>6 DEF Turns
  <2> QED
    BY <2>1, <2>2, <2>3 DEF Next
<1>2. PromotionInv /\ [Next]_vars =>
        [(lease # NoLease /\ Holder(lease') # Holder(lease) /\ crashes' = crashes) =>
          IF lease.by = "lane" THEN lease' = NoLease /\ \E t \in archive' : t.ticket = lease.owner
          ELSE \/ lease' = NoLease /\ UNCHANGED <<laneVars, coordVars, queueVars>>
               \/ lease' = NoLease /\ UNCHANGED laneFiles /\ GivenBack(lease.owner)
               \/ Overruled]_vars
  BY <1>1
<1> QED
  BY <1>2, PromotionInvariant, PTL DEF Spec, LeaseChangesHands

-----------------------------------------------------------------------------
(* No deployment is made twice.                                                *)

(* Record d has been sent to the agent as the request x.                       *)
Went(ds, d, x) == SentAs(ds, d, x) /\ ds[d].hist # "none"

(* The agent sees the coordinator's requests once: sent, at work, answered.    *)
OnceQueue(ds, inc) ==
  /\ \A x : (x.of = "coord" /\ (x \in inc \cup {working} \cup done \/ Answered(x)))
              => \E d \in DOMAIN ds : Went(ds, d, x)
  /\ \A x \in inc : x.of = "coord" => x \notin done \cup {working} /\ ~Answered(x)
  /\ ~told => \A x : x = working /\ x.of = "coord" => x \notin done /\ ~Answered(x)
  /\ \A x \in done : x.of = "coord" => Succeeded(x)

(* A pending record has not been sent, a failed one was answered by a failure. *)
OnceRecords(ds) ==
  /\ \A d \in DOMAIN ds : ds[d].pend => ds[d].hist = "none"
  /\ \A d \in DOMAIN ds : ds[d].hist = "failed" /\ ds[d].lane = 0 =>
       LET x == Request("coord", d, "deploy", ds[d].head) IN Answered(x) /\ ~Succeeded(x)

(* As long as the server has not crashed and the agent has not slipped ...     *)
Once == crashes = 0 /\ slips = 0 => OnceQueue(deps, incoming) /\ OnceRecords(deps)

(* Together with it, the inductive invariant of DeployedOnce.                  *)
OnceInv == PromotionInv /\ Once

(* A request tells its record.                                                 *)
LEMMA RequestsDiffer ==
  /\ \A n, h : Request("coord", n, "deploy", h).of = "coord" /\ Request("coord", n, "deploy", h).n = n
  /\ \A n, m, h, k : Request("coord", n, "deploy", h) = Request("coord", m, "deploy", k) => n = m
<1>1. \A n, h : Request("coord", n, "deploy", h).of = "coord" /\ Request("coord", n, "deploy", h).n = n
  BY DEF Request
<1> QED
  BY <1>1

(* Only the answer of the request at work changes.                             *)
LEMMA AnswerChangesOne ==
  ASSUME NEW a, NEW ok, NEW accepted, responses' = Answer(a, ok, accepted)
  PROVE  /\ \A x : x # a => (Answered(x)' <=> Answered(x)) /\ (Succeeded(x)' <=> Succeeded(x))
         /\ Answered(a)' /\ (Succeeded(a)' <=> ok)
<1> DEFINE new == [req |-> a, ok |-> ok, accepted |-> accepted]
<1>1. \A r : r \in responses' <=> (r \in responses /\ r.req # a) \/ r = new
  BY DEF Answer
<1>2. new.req = a /\ (new.ok <=> ok)
  OBVIOUS
<1> HIDE DEF new
<1>3. \A x : x # a => (Answered(x)' <=> Answered(x)) /\ (Succeeded(x)' <=> Succeeded(x))
  BY <1>1, <1>2 DEF Answered, Succeeded
<1>4. Answered(a)'
  BY <1>1, <1>2 DEF Answered
<1>5. Succeeded(a)' <=> ok
  BY <1>1, <1>2 DEF Succeeded
<1> QED
  BY <1>3, <1>4, <1>5

(* The agent takes, answers or drops one request at a time.                    *)
LEMMA AgentKeepsOnce ==
  ASSUME OnceInv, AgentMove
  PROVE  Once'
<1>1. /\ deps' = deps /\ crashes' = crashes /\ Nobody.of # "coord"
      /\ slips \in Nat /\ told \in BOOLEAN
  BY DEF AgentMove, coordVars, laneVars, OnceInv, PromotionInv, LaneInv, AgentTypes, Nobody
<1>2. slips' = slips \/ slips' = slips + 1
  BY DEF AgentMove, AgentStep, AgentTake, AgentSucceed, AgentFinish, AgentFail, AgentSlip,
     AgentStop, EnqueueUnmanaged, agentVars
<1>3. SUFFICES ASSUME crashes' = 0, slips' = 0 PROVE (OnceQueue(deps, incoming) /\ OnceRecords(deps))'
  BY DEF Once
<1>4. OnceQueue(deps, incoming) /\ OnceRecords(deps) /\ slips' = slips
  <2>1. slips' # slips + 1
    BY <1>1, <1>3
  <2> QED
    BY <1>1, <1>2, <1>3, <2>1 DEF OnceInv, Once
<1>5. \A d, x : Went(deps, d, x) <=> Went(deps', d, x)
  BY <1>1
<1>6. CASE EnqueueUnmanaged \/ AgentTake
  <2>1. /\ responses' = responses /\ done' = done /\ told' = told
        /\ \A x \in incoming' : x.of = "coord" => x \in incoming
        /\ \/ working' = working
           \/ working' \in incoming /\ incoming' = incoming \ {working'}
    BY <1>6 DEF EnqueueUnmanaged, AgentTake, Request, agentVars
  <2>2. \A x : (Answered(x)' <=> Answered(x)) /\ (Succeeded(x)' <=> Succeeded(x))
    BY <2>1 DEF Answered, Succeeded
  <2>3. OnceRecords(deps)'
    BY <1>1, <1>4, <2>2 DEF OnceRecords
  <2>4. \A x : (x.of = "coord" /\ (x \in incoming' \cup {working'} \cup done' \/ Answered(x)'))
                 => \E d \in DOMAIN deps' : Went(deps', d, x)
    BY <1>1, <1>4, <2>1, <2>2 DEF OnceQueue
  <2>5. \A x \in incoming' : x.of = "coord" => x \notin done' \cup {working'} /\ ~Answered(x)'
    BY <1>4, <2>1, <2>2 DEF OnceQueue
  <2>6. ~told' => \A x : x = working' /\ x.of = "coord" => x \notin done' /\ ~Answered(x)'
    <3>1. ~told => \A x : x = working /\ x.of = "coord" => x \notin done /\ ~Answered(x)
      BY <1>4 DEF OnceQueue
    <3>2. \A x \in incoming : x.of = "coord" => x \notin done \cup {working} /\ ~Answered(x)
      BY <1>4 DEF OnceQueue
    <3> QED
      BY <2>1, <2>2, <3>1, <3>2, Zenon
  <2>7. \A x \in done' : x.of = "coord" => Succeeded(x)'
    BY <1>4, <2>1, <2>2 DEF OnceQueue
  <2> QED
    BY <2>3, <2>4, <2>5, <2>6, <2>7 DEF OnceQueue
<1>7. CASE AgentSucceed
  <2>1. /\ \E accepted : responses' = Answer(working, TRUE, accepted)
        /\ ~told /\ told' = TRUE
        /\ done' = done \cup {working} /\ working' = working /\ incoming' = incoming
    BY <1>7 DEF AgentSucceed
  <2>2. /\ \A x : x # working => (Answered(x)' <=> Answered(x)) /\ (Succeeded(x)' <=> Succeeded(x))
        /\ \A x : x = working => Answered(x)' /\ Succeeded(x)'
    BY <2>1, AnswerChangesOne, Zenon
  <2>3. \A x : x = working /\ x.of = "coord" => x \notin done /\ ~Answered(x)
    BY <1>4, <2>1 DEF OnceQueue
  <2>4. OnceRecords(deps)'
    BY <1>1, <1>4, <2>2, <2>3, RequestsDiffer DEF OnceRecords
  <2>5. \A x : (x.of = "coord" /\ (x \in incoming' \cup {working'} \cup done' \/ Answered(x)'))
                 => \E d \in DOMAIN deps' : Went(deps', d, x)
    BY <1>1, <1>4, <2>1, <2>2 DEF OnceQueue
  <2>6. \A x \in incoming' : x.of = "coord" => x \notin done' \cup {working'} /\ ~Answered(x)'
    BY <1>4, <2>1, <2>2 DEF OnceQueue
  <2>7. \A x \in done' : x.of = "coord" => Succeeded(x)'
    BY <1>4, <2>1, <2>2 DEF OnceQueue
  <2> QED
    BY <2>1, <2>4, <2>5, <2>6, <2>7 DEF OnceQueue
<1>8. CASE AgentFail
  <2>1. /\ responses' = Answer(working, FALSE, FALSE)
        /\ ~told /\ working' = Nobody
        /\ done' = done /\ incoming' = incoming
    BY <1>8 DEF AgentFail, Dropped
  <2>2. /\ \A x : x # working => (Answered(x)' <=> Answered(x)) /\ (Succeeded(x)' <=> Succeeded(x))
        /\ \A x : x = working => Answered(x)' /\ ~Succeeded(x)'
    BY <2>1, AnswerChangesOne, Zenon
  <2>3. \A x : x = working /\ x.of = "coord" => x \notin done /\ ~Answered(x)
    BY <1>4, <2>1 DEF OnceQueue
  <2>4. OnceRecords(deps)'
    BY <1>1, <1>4, <2>2, <2>3, RequestsDiffer DEF OnceRecords
  <2>5. \A x : (x.of = "coord" /\ (x \in incoming' \cup {working'} \cup done' \/ Answered(x)'))
                 => \E d \in DOMAIN deps' : Went(deps', d, x)
    BY <1>1, <1>4, <2>1, <2>2 DEF OnceQueue
  <2>6. \A x \in incoming' : x.of = "coord" => x \notin done' \cup {working'} /\ ~Answered(x)'
    BY <1>1, <1>4, <2>1, <2>2 DEF OnceQueue
  <2>7. \A x \in done' : x.of = "coord" => Succeeded(x)'
    BY <1>4, <2>1, <2>2, <2>3 DEF OnceQueue
  <2>8. \A x : ~(x = working' /\ x.of = "coord")
    BY <1>1, <2>1
  <2> QED
    BY <2>4, <2>5, <2>6, <2>7, <2>8 DEF OnceQueue
<1>9. CASE AgentFinish \/ AgentStop
  <2>1. /\ responses' = responses /\ done' = done /\ incoming' = incoming /\ working' = Nobody
    BY <1>9 DEF AgentFinish, AgentStop, Dropped
  <2>2. \A x : (Answered(x)' <=> Answered(x)) /\ (Succeeded(x)' <=> Succeeded(x))
    BY <2>1 DEF Answered, Succeeded
  <2>3. OnceRecords(deps)'
    BY <1>1, <1>4, <2>2 DEF OnceRecords
  <2>4. \A x : (x.of = "coord" /\ (x \in incoming' \cup {working'} \cup done' \/ Answered(x)'))
                 => \E d \in DOMAIN deps' : Went(deps', d, x)
    BY <1>1, <1>4, <2>1, <2>2 DEF OnceQueue
  <2>5. \A x \in incoming' : x.of = "coord" => x \notin done' \cup {working'} /\ ~Answered(x)'
    BY <1>1, <1>4, <2>1, <2>2 DEF OnceQueue
  <2>6. \A x \in done' : x.of = "coord" => Succeeded(x)'
    BY <1>4, <2>1, <2>2 DEF OnceQueue
  <2>7. \A x : ~(x = working' /\ x.of = "coord")
    BY <1>1, <2>1
  <2> QED
    BY <2>3, <2>4, <2>5, <2>6, <2>7 DEF OnceQueue
<1>10. ~AgentSlip
  <2>1. slips' # slips + 1
    BY <1>1, <1>4
  <2> QED
    BY <2>1 DEF AgentSlip
<1> QED
  BY <1>6, <1>7, <1>8, <1>9, <1>10 DEF AgentMove, AgentStep

(* A record that goes on, or a copy written over a copy.                       *)
LEMMA ChangedRecordKeepsOnce ==
  ASSUME NEW ds, NEW inc, OnceQueue(ds, inc), OnceRecords(ds), NEW d \in DOMAIN ds, NEW dep,
         dep.hist # "none", ~dep.pend,
         \/ dep.lane = ds[d].lane /\ dep.head = ds[d].head
         \/ dep.lane # 0 /\ ds[d].lane # 0,
         dep.hist = "failed" /\ dep.lane = 0 =>
           LET x == Request("coord", d, "deploy", dep.head) IN Answered(x) /\ ~Succeeded(x),
         NEW g, g = [ds EXCEPT ![d] = dep]
  PROVE  OnceQueue(g, inc) /\ OnceRecords(g)
<1>1. DOMAIN g = DOMAIN ds /\ g[d] = dep /\ \A e \in DOMAIN ds : e # d => g[e] = ds[e]
  OBVIOUS
<1>2. \A e \in DOMAIN ds : \A x : Went(ds, e, x) => Went(g, e, x)
  BY <1>1 DEF Went, SentAs
<1>3. OnceQueue(g, inc)
  BY <1>1, <1>2 DEF OnceQueue
<1>4. OnceRecords(g)
  BY <1>1 DEF OnceRecords
<1> QED
  BY <1>3, <1>4

(* A new record, which waits or is a copy.                                     *)
LEMMA NewRecordKeepsOnce ==
  ASSUME NEW ds \in Seq(DeployRecords), NEW inc, OnceQueue(ds, inc), OnceRecords(ds),
         NEW dep \in DeployRecords, dep.hist # "failed", dep.pend => dep.hist = "none",
         NEW g, g = Append(ds, dep)
  PROVE  OnceQueue(g, inc) /\ OnceRecords(g)
<1>1. /\ DOMAIN ds \subseteq DOMAIN g
      /\ \A e \in DOMAIN ds : g[e] = ds[e]
      /\ \A e \in DOMAIN g : e \in DOMAIN ds \/ g[e] = dep
  <2>1. \A s \in Seq(DeployRecords) : \A x \in DeployRecords :
          /\ Append(s, x) \in Seq(DeployRecords) /\ Len(Append(s, x)) = Len(s) + 1
          /\ \A i \in 1 .. Len(s) : Append(s, x)[i] = s[i]
          /\ Append(s, x)[Len(s) + 1] = x
    BY AppendProperties
  <2>2. /\ g \in Seq(DeployRecords) /\ Len(g) = Len(ds) + 1
        /\ \A i \in 1 .. Len(ds) : g[i] = ds[i]
        /\ g[Len(ds) + 1] = dep
    BY <2>1, Zenon
  <2>3. DOMAIN ds = 1 .. Len(ds) /\ DOMAIN g = 1 .. Len(g) /\ Len(ds) \in Nat
    BY <2>2, LenProperties
  <2> QED
    BY <2>2, <2>3
<1>2. \A e \in DOMAIN ds : \A x : Went(ds, e, x) => Went(g, e, x)
  BY <1>1 DEF Went, SentAs
<1>3. OnceQueue(g, inc)
  BY <1>1, <1>2 DEF OnceQueue
<1>4. OnceRecords(g)
  BY <1>1 DEF OnceRecords
<1> QED
  BY <1>3, <1>4

(* A dispatch sends a record that was not sent before.                         *)
LEMMA DispatchKeepsOnce ==
  ASSUME OnceInv, NEW co, CoGood(co, done), OnceQueue(co.deps, co.incoming), OnceRecords(co.deps),
         NEW sent \in Dispatches(co), NEW g, g = After(sent, co)
  PROVE  OnceQueue(g.deps, g.incoming) /\ OnceRecords(g.deps)
<1>1. CASE g.deps = co.deps /\ g.incoming = co.incoming
  BY <1>1
<1>2. CASE co.incoming = {} /\ \E d \in DOMAIN co.deps : Sends(co, d, g)
  <2>1. PICK d \in DOMAIN co.deps :
          /\ co.deps[d].pend
          /\ g.deps = [co.deps EXCEPT ![d] =
                         [co.deps[d] EXCEPT !.hist = "deploying", !.pend = FALSE]]
          /\ g.incoming = {CoordRequest(co, d)}
    BY <1>2 DEF Sends
  <2> DEFINE ds == co.deps
             dep == [ds[d] EXCEPT !.hist = "deploying", !.pend = FALSE]
             x == CoordRequest(co, d)
  <2>2. ds[d] \in DeployRecords /\ ds[d].lane = 0 /\ ds[d].hist = "none"
    BY <2>1, CoFields DEF CoGood, CopiesEarned, OnceRecords
  <2>3. /\ dep.hist = "deploying" /\ ~dep.pend /\ dep.lane = ds[d].lane /\ dep.head = ds[d].head
    BY <2>2 DEF DeployRecords
  <2>4. x = Request("coord", d, "deploy", ds[d].head) /\ x.of = "coord"
    BY RequestsDiffer DEF CoordRequest
  <2> HIDE DEF dep, x
  <2>5. OnceQueue(g.deps, co.incoming) /\ OnceRecords(g.deps)
    <3>1. g.deps = [ds EXCEPT ![d] = dep] /\ OnceQueue(ds, co.incoming) /\ OnceRecords(ds)
      BY <2>1 DEF dep
    <3> HIDE DEF ds
    <3>2. d \in DOMAIN ds
      BY <2>1 DEF ds
    <3> QED
      BY <2>3, <3>1, <3>2, ChangedRecordKeepsOnce
  <2>6. \A e \in DOMAIN ds : ~Went(ds, e, x)
    BY <2>2, <2>4, RequestsDiffer DEF Went, SentAs
  <2>7. x \notin done \cup {working} /\ ~Answered(x)
    BY <2>4, <2>6 DEF OnceQueue
  <2>8. d \in DOMAIN g.deps /\ Went(g.deps, d, x)
    BY <2>1, <2>2, <2>3, <2>4 DEF Went, SentAs, dep
  <2>9. g.incoming = {x}
    BY <2>1 DEF x
  <2> QED
    BY <2>5, <2>7, <2>8, <2>9 DEF OnceQueue
<1> QED
  BY <1>1, <1>2, DispatchEndFacts

(* Reconciliation notes the answer that is there.                              *)
LEMMA ReconcileKeepsOnce ==
  ASSUME OnceInv, OnceQueue(deps, incoming), OnceRecords(deps), NEW d \in DOMAIN deps, Settled(d),
         NEW g, g = After(ReconcileSteps(Co, d), Co)
  PROVE  OnceQueue(g.deps, g.incoming) /\ OnceRecords(g.deps)
<1> DEFINE x == Request("coord", d, "deploy", deps[d].head)
           dep == [deps[d] EXCEPT !.hist = IF Succeeded(x) THEN "succeeded" ELSE "failed"]
<1>1. PromotionInv /\ CoordRequest(Co, d) = x
  BY DEF OnceInv, CoordRequest, Co
<1>2. g.deps = [deps EXCEPT ![d] = dep] /\ g.incoming = incoming
  BY <1>1, ReconcileEndFacts
<1>3. deps[d] \in DeployRecords /\ deps[d].hist = "deploying" /\ Answered(x)
  BY <1>1, CoFacts DEF Settled
<1>4. ~deps[d].pend
  BY <1>3 DEF OnceRecords
<1>5. /\ dep.hist # "none" /\ (dep.hist = "failed" => ~Succeeded(x)) /\ ~dep.pend
      /\ dep.head = deps[d].head /\ dep.lane = deps[d].lane
  BY <1>3, <1>4 DEF DeployRecords
<1>6. Request("coord", d, "deploy", dep.head) = x
  BY <1>5
<1> HIDE DEF dep, x
<1> QED
  BY <1>2, <1>3, <1>5, <1>6, ChangedRecordKeepsOnce

(* The steps of the coordinator send no record twice.                          *)
LEMMA CoordKeepsOnce ==
  ASSUME OnceInv, CoordStep
  PROVE  Once'
<1>1. /\ PromotionInv /\ crashes \in Nat /\ UNCHANGED <<working, told, responses, done, slips>>
      /\ crashes' \in {crashes, crashes + 1}
  <2>1. PromotionInv /\ crashes \in Nat
    BY DEF OnceInv, PromotionInv, LaneInv, GitHubTypes
  <2>2. UNCHANGED agentVars /\ crashes' \in {crashes, crashes + 1}
    BY <2>1, CoordLeaves
  <2> QED
    BY <2>1, <2>2 DEF agentVars
<1>2. SUFFICES ASSUME crashes' = 0, slips' = 0
               PROVE  OnceQueue(deps', incoming') /\ OnceRecords(deps')
  <2>1. \A ds, inc : (OnceQueue(ds, inc) /\ OnceRecords(ds) /\ ds = deps' /\ inc = incoming')
          => (OnceQueue(deps, incoming) /\ OnceRecords(deps))'
    BY <1>1 DEF OnceQueue, OnceRecords, Answered, Succeeded
  <2> QED
    BY <1>2, <2>1 DEF Once
<1>3. crashes' = crashes /\ OnceQueue(deps, incoming) /\ OnceRecords(deps)
  <2>1. crashes' # crashes + 1
    BY <1>1, <1>2
  <2> QED
    BY <1>1, <1>2, <2>1 DEF OnceInv, Once
<1>4. CASE QuietCall
  BY <1>1, <1>3, <1>4, QuietCallEnds DEF QueueKept
<1>5. CASE Bridges
  <2>1. PICK record \in DeployRecords :
          /\ record.lane # 0 /\ ~record.pend /\ record.hist = "succeeded"
          /\ \/ deps' = Append(deps, record)
             \/ \E d \in DOMAIN deps : /\ deps[d].lane = record.lane
                                       /\ deps' = [deps EXCEPT ![d] = record]
    BY <1>1, <1>3, <1>5, BridgeAcceptanceEnds
  <2>2. incoming' = incoming
    BY <1>1, <1>3, <1>5, BridgeAcceptanceEnds
  <2>3. CASE deps' = Append(deps, record)
    <3>1. deps \in Seq(DeployRecords)
      BY <1>1, CoFacts DEF CoStates
    <3> QED
      BY <1>3, <2>1, <2>2, <2>3, <3>1, NewRecordKeepsOnce
  <2>4. CASE \E d \in DOMAIN deps : deps[d].lane = record.lane /\ deps' = [deps EXCEPT ![d] = record]
    BY <1>3, <2>1, <2>2, <2>4, ChangedRecordKeepsOnce
  <2> QED
    BY <2>1, <2>3, <2>4
<1>6. CASE Queues
  <2>1. PICK w \in Workstreams, c \in Commits, rank \in Priorities, id \in DeployIds, key \in Keys,
             again \in BOOLEAN : QueueDeployment(w, c, rank, id, key, again)
    BY <1>6 DEF Queues
  <2> DEFINE dep == NewDeploy(w, c, rank, id, key, again)
  <2>2. PICK noted : \E sent \in Dispatches(noted) :
          /\ CoGood(noted, done) /\ Co' = After(sent, noted)
          /\ noted.deps = Append(deps, dep) /\ noted.incoming = incoming
    BY <1>1, <1>3, <2>1, QueueDeploymentKeeps
  <2>3. dep \in DeployRecords /\ dep.hist = "none"
    BY CallerAssumption, IdsAssumption DEF NewDeploy, DeployRecords
  <2>4. deps \in Seq(DeployRecords)
    BY <1>1, CoFacts DEF CoStates
  <2> HIDE DEF dep
  <2>5. OnceQueue(noted.deps, noted.incoming) /\ OnceRecords(noted.deps)
    BY <1>3, <2>2, <2>3, <2>4, NewRecordKeepsOnce
  <2>6. OnceQueue((Co').deps, (Co').incoming) /\ OnceRecords((Co').deps)
    BY <2>2, <2>5, DispatchKeepsOnce
  <2> QED
    BY <2>6 DEF Co
<1>7. CASE Pass
  <2>1. PICK before \in {<<>>} \cup {ReconcileSteps(Co, d) : d \in {e \in DOMAIN deps : Settled(e)}} :
          \E renewed : \E sent \in Dispatches(renewed) :
            /\ CoGood(renewed, done) /\ Co' = After(sent, renewed)
            /\ renewed.deps = After(before, Co).deps
            /\ renewed.incoming = After(before, Co).incoming
    BY <1>1, <1>3, <1>7, PassKeeps
  <2>2. PICK renewed : \E sent \in Dispatches(renewed) :
          /\ CoGood(renewed, done) /\ Co' = After(sent, renewed)
          /\ renewed.deps = After(before, Co).deps
          /\ renewed.incoming = After(before, Co).incoming
    BY <2>1
  <2> DEFINE g == After(before, Co)
  <2>3. OnceQueue(g.deps, g.incoming) /\ OnceRecords(g.deps)
    <3>1. CASE before = <<>>
      <4>1. g.deps = deps /\ g.incoming = incoming
        BY <3>1 DEF After, Co
      <4> QED
        BY <1>3, <4>1
    <3>2. CASE before # <<>>
      <4>1. PICK d \in DOMAIN deps : Settled(d) /\ before = ReconcileSteps(Co, d)
        BY <3>2
      <4>2. g = After(ReconcileSteps(Co, d), Co)
        BY <4>1
      <4> HIDE DEF g
      <4> QED
        BY <1>3, <4>1, <4>2, ReconcileKeepsOnce
    <3> QED
      BY <3>1, <3>2
  <2> HIDE DEF g
  <2>4. OnceQueue(renewed.deps, renewed.incoming) /\ OnceRecords(renewed.deps)
    BY <2>2, <2>3 DEF g
  <2>5. OnceQueue((Co').deps, (Co').incoming) /\ OnceRecords((Co').deps)
    BY <2>2, <2>4, DispatchKeepsOnce
  <2> QED
    BY <2>5 DEF Co
<1> QED
  BY <1>4, <1>5, <1>6, <1>7, CoordSplits

(* The lane sends its own requests only, and touches no record.                *)
LEMMA LaneKeepsOnce ==
  ASSUME OnceInv, LaneMove
  PROVE  Once'
<1>1. UNCHANGED <<deps, working, told, responses, done, slips>>
  <2>1. UNCHANGED coordVars
    BY DEF LaneMove
  <2>2. CASE ToolStep
    BY <2>1, <2>2 DEF ToolStep, EnqueueDeployment, Admit, EnqueueHealth, TouchLane, Activate, Bind,
       BindFails, Publish, PublishFails, Observe, OrphanStatus, queueVars, coordVars, agentVars
  <2>3. CASE LoopStep
    BY <2>1, <2>3 DEF LoopStep, ReconcileStart, ReconcileReadPR, ReconcileApply,
       ReconcileUnreachable, DispatchSelect, DispatchAttested, DispatchRefused, DispatchClaim,
       Activate, Bind, BindFails, Publish, PublishFails, queueVars, coordVars, agentVars
  <2>4. CASE GitHubStep \/ Crash
    BY <2>1, <2>4 DEF GitHubStep, MergePullRequest, ClosePullRequest, Crash, queueVars, coordVars,
       agentVars
  <2> QED
    BY <2>2, <2>3, <2>4 DEF LaneMove
<1>2. \A x \in incoming' : x.of = "coord" => x \in incoming
  BY LaneCarriesNothingOut
<1>3. crashes \in Nat /\ crashes' \in {crashes, crashes + 1}
  <2>1. LaneInv /\ LeaseInv /\ crashes \in Nat
    BY DEF OnceInv, PromotionInv, LaneInv, GitHubTypes
  <2> QED
    BY <2>1, LaneMoveEnds DEF LaneEnds
<1>4. SUFFICES ASSUME crashes' = 0, slips' = 0 PROVE (OnceQueue(deps, incoming) /\ OnceRecords(deps))'
  BY DEF Once
<1>5. OnceQueue(deps, incoming) /\ OnceRecords(deps)
  BY <1>1, <1>3, <1>4 DEF OnceInv, Once
<1>6. \A x : (Answered(x)' <=> Answered(x)) /\ (Succeeded(x)' <=> Succeeded(x))
  BY <1>1 DEF Answered, Succeeded
<1>7. OnceRecords(deps)'
  BY <1>1, <1>5, <1>6 DEF OnceRecords
<1>8. \A x : (x.of = "coord" /\ (x \in incoming' \cup {working'} \cup done' \/ Answered(x)'))
               => \E d \in DOMAIN deps' : Went(deps', d, x)
  BY <1>1, <1>2, <1>5, <1>6 DEF OnceQueue
<1>9. \A x \in incoming' : x.of = "coord" => x \notin done' \cup {working'} /\ ~Answered(x)'
  BY <1>1, <1>2, <1>5, <1>6 DEF OnceQueue
<1>10. ~told' => \A x : x = working' /\ x.of = "coord" => x \notin done' /\ ~Answered(x)'
  <2>1. ~told => \A x : x = working /\ x.of = "coord" => x \notin done /\ ~Answered(x)
    BY <1>5 DEF OnceQueue
  <2> QED
    BY <1>1, <1>6, <2>1, Zenon
<1>11. \A x \in done' : x.of = "coord" => Succeeded(x)'
  BY <1>1, <1>5, <1>6 DEF OnceQueue
<1> QED
  BY <1>7, <1>8, <1>9, <1>10, <1>11 DEF OnceQueue

(* Of two deployments of one head under one compatibility key, the later not   *)
(* asked for as a redeployment, the agent carries out both only if the history *)
(* has the earlier one as failed, and only if the server has crashed or the    *)
(* agent has failed after it had answered: whoever queues it again, in         *)
(* whatever order, a plain second call never deploys again                     *)
(* (queue_exact_deployment, the dispatch and the reconciliation).              *)
THEOREM HeadsAreDeployedOnce == Spec => []DeployedOnce
<1>1. Init => OnceInv
  <2> SUFFICES ASSUME Init PROVE OnceInv
    OBVIOUS
  <2>1. /\ deps = <<>> /\ incoming = {} /\ done = {} /\ responses = {} /\ working = Nobody
    BY DEF Init, AgentInit, CoordInit
  <2>2. DOMAIN deps = {} /\ Nobody.of # "coord" /\ \A x : ~Answered(x)
    BY <2>1 DEF Nobody, Answered
  <2>3. OnceQueue(deps, incoming) /\ OnceRecords(deps)
    BY <2>1, <2>2 DEF OnceQueue, OnceRecords
  <2> QED
    BY <2>3, PromotionInitially DEF OnceInv, Once
<1>2. OnceInv /\ [Next]_vars => OnceInv'
  <2> SUFFICES ASSUME OnceInv, [Next]_vars PROVE OnceInv'
    OBVIOUS
  <2>1. PromotionInv'
    BY PromotionKeeps DEF OnceInv
  <2>2. CASE UNCHANGED vars
    <3>1. UNCHANGED <<deps, incoming, working, told, responses, done, crashes, slips>>
      BY <2>2 DEF vars, queueVars, laneVars, coordVars, agentVars
    <3>2. Once'
      BY <3>1 DEF OnceInv, Once, OnceQueue, OnceRecords, Answered, Succeeded
    <3> QED
      BY <2>1, <3>2 DEF OnceInv
  <2>3. CASE Next
    BY <2>1, <2>3, AgentKeepsOnce, CoordKeepsOnce, LaneKeepsOnce DEF Next, OnceInv
  <2> QED
    BY <2>2, <2>3
<1>3. OnceInv => DeployedOnce
  <2> SUFFICES ASSUME OnceInv, NEW d \in DOMAIN deps, NEW e \in DOMAIN deps,
                      d < e, deps[d].head = deps[e].head, deps[d].key = deps[e].key,
                      ~deps[e].again,
                      Request("coord", d, "deploy", deps[d].head) \in done,
                      Request("coord", e, "deploy", deps[e].head) \in done
               PROVE  deps[d].hist = "failed" /\ crashes + slips > 0
    BY DEF DeployedOnce
  <2> DEFINE x == Request("coord", d, "deploy", deps[d].head)
  <2>1. \A f \in DOMAIN deps : Request("coord", f, "deploy", deps[f].head) \in done => deps[f].lane = 0
    <3>1. AllSent(deps, done \cup {working})
      BY DEF OnceInv, PromotionInv, CoordInv
    <3> QED
      BY <3>1, RequestsDiffer DEF AllSent, SentAs
  <2>2. deps[d].hist = "failed"
    <3>1. SecondAfterFailure(deps)
      BY CoFacts DEF OnceInv, CoGood
    <3> QED
      BY <2>1, <3>1 DEF SecondAfterFailure
  <2>3. crashes \in Nat /\ slips \in Nat
    BY DEF OnceInv, PromotionInv, LaneInv, GitHubTypes, AgentTypes
  <2>4. ~(crashes = 0 /\ slips = 0)
    <3> SUFFICES ASSUME crashes = 0 /\ slips = 0 PROVE FALSE
      OBVIOUS
    <3>1. OnceQueue(deps, incoming) /\ OnceRecords(deps)
      BY DEF OnceInv, Once
    <3>2. x.of = "coord"
      BY RequestsDiffer
    <3>3. Succeeded(x)
      BY <3>1, <3>2 DEF OnceQueue
    <3> QED
      BY <2>1, <2>2, <3>1, <3>3 DEF OnceRecords
  <2> QED
    BY <2>2, <2>3, <2>4
<1> QED
  BY <1>1, <1>2, <1>3, PTL DEF Spec
==============================================================================
