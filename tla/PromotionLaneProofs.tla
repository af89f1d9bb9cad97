------------------------- MODULE PromotionLaneProofs -------------------------
(* Proofs about the promotion lane: what the files of the lane hold after      *)
(* every write of every section, a crash between two of them included, and     *)
(* that what its two threads remember still fits the files.  The theorems of   *)
(* the whole system, with the coordinator, are in PromotionProofs.             *)
EXTENDS PromotionSystem, SequenceTheorems, WellFoundedInduction, TLAPS

(* What the lane's files may hold, whoever has written last.                   *)
Leases == {NoLease} \cup [by : {"lane"}, owner : Nat, head : Commits]
                    \cup [by : {"ws"}, owner : Workstreams, head : Commits]

FileStates == [reqs : Seq(RequestRecords), ready : SUBSET Nat, active : TicketRecords,
               archive : SUBSET TicketRecords, lease : Leases]

(* The agent id of a request is its own, and a success was carried out.        *)
RequestSound(r, D) ==
  /\ r.agent # Nobody => /\ r.agent.of = (IF r.kind = "deploy" THEN "ticket" ELSE "health")
                         /\ r.agent.kind = r.kind /\ r.agent.head = r.head
  /\ r.term = "succeeded" => r.agent \in D

CarriedOut(head, D) == \E a \in D : a.head = head /\ a.kind \in {"deploy", "health"}

TicketSound(t, D) == /\ t.ticket > 0 /\ t.head \in Commits
                     /\ t.accepted => CarriedOut(t.head, D)

(* A ticket in the lane names a request; all requests of it are for its head.  *)
IsOne(f, t) ==
  /\ t.req \in DOMAIN f.reqs
  /\ \A q \in DOMAIN f.reqs : f.reqs[q].ticket = t.ticket => f.reqs[q].head = t.head

ActiveIsOne(f) == f.active # NoTicket => IsOne(f, f.active)

Good(f, D) ==
  /\ f \in FileStates
  /\ f.ready \subseteq DOMAIN f.reqs
  /\ \E n \in Nat : \A m \in Tickets(f) : m <= n
  /\ \A q \in DOMAIN f.reqs : RequestSound(f.reqs[q], D)
  /\ \A q \in f.ready : f.reqs[q].agent = Nobody
  /\ f.active # NoTicket => TicketSound(f.active, D)
  /\ \A t \in f.archive : TicketSound(t, D)
  /\ ActiveIsOne(f)

(* What no write of a section undoes: only request q, if it has no agent id    *)
(* yet, may get one, and no old request starts to wait again.                  *)
Kept(f, g, q) ==
  /\ DOMAIN f.reqs \subseteq DOMAIN g.reqs
  /\ \A p \in DOMAIN f.reqs :
       /\ g.reqs[p].kind = f.reqs[p].kind /\ g.reqs[p].head = f.reqs[p].head
       /\ p # q \/ f.reqs[p].agent # Nobody => g.reqs[p].agent = f.reqs[p].agent
  /\ \A p \in g.ready : p \in DOMAIN f.reqs => p \in f.ready

(* A write is sound if both hold after it.                                     *)
Sound(f, g, q, D) == Good(g, D) /\ Kept(f, g, q)

(* The agent id under which thread record t publishes its request.             *)
IdOf(f, t) == LET r == f.reqs[t.req] IN
  IF r.kind = "health" THEN Request("health", t.req, "health", r.head)
                       ELSE Request("ticket", t.ticket, "deploy", r.head)

HoldsRequest == {"activate", "bind", "publish"}

(* What thread b, in the middle of something, still finds in the files.        *)
ThreadSound(f, th, b) ==
  /\ th.pc \in {"admit", "read_pr"} => th.req \in Commits
  /\ th.pc \in HoldsRequest => th.req \in DOMAIN f.reqs
  /\ b = "loop" /\ th.pc \in {"attest", "claim", "activate"} => th.req \in f.ready
  /\ b = "tool" /\ th.pc = "activate" =>
       th.req \notin f.ready /\ f.reqs[th.req].agent = Nobody
  /\ th.pc = "bind" =>
       th.req \notin f.ready /\ f.reqs[th.req].agent = Nobody /\ th.ticket > 0
  /\ th.pc = "publish" => f.reqs[th.req].agent = IdOf(f, th)

ThreadsSound(f, th) ==
  /\ \A b \in Threads : ThreadSound(f, th[b], b)
  /\ th.tool.pc \in HoldsRequest /\ th.loop.pc \in HoldsRequest =>
       th.tool.req # th.loop.req

-----------------------------------------------------------------------------
(* Sequences of writes.                                                        *)

(* The largest element of a bounded set of numbers (the next ticket number is  *)
(* one more).                                                                  *)
LEMMA MaxIsLargest ==
  ASSUME NEW S \in SUBSET Nat, S # {}, NEW n \in Nat, \A m \in S : m <= n
  PROVE  Max(S) \in S /\ \A m \in S : m <= Max(S)
<1> DEFINE U == {m \in Nat : \A k \in S : k <= m}
<1>1. n \in U
  OBVIOUS
<1>2. PICK u \in U : \A v \in U : ~(<<v, u>> \in OpToRel(<, Nat))
  BY <1>1, NatLessThanWellFounded, WFMin
<1>3. \A v \in U : ~(v < u)
  BY <1>2 DEF OpToRel
<1>4. u \in S
  <2>1. SUFFICES ASSUME u \notin S PROVE FALSE
    OBVIOUS
  <2>2. PICK k \in S : TRUE
    OBVIOUS
  <2>3. k < u
    BY <2>1, <2>2
  <2>4. u - 1 \in Nat /\ u - 1 < u
    BY <2>3
  <2>5. \A m \in S : m <= u - 1
    BY <2>1
  <2> QED
    BY <2>4, <2>5, <1>3
<1> QED
  BY <1>4 DEF Max

(* A section leaves its last write, or a crash leaves one of its writes.       *)
LEMMA LastWrite ==
  ASSUME NEW S, NEW steps \in Seq(S), NEW f
  PROVE  After(steps, f) \in {f} \cup Range(steps)
<1>1. CASE steps = <<>>
  BY <1>1 DEF After
<1>2. CASE steps # <<>>
  BY <1>2, EmptySeq, LenProperties, RangeEquality DEF After
<1> QED
  BY <1>1, <1>2

(* Two sequences of writes, one after the other.                              *)
LEMMA JoinedWrites ==
  ASSUME NEW S, NEW s \in Seq(S), NEW t \in Seq(S), NEW f
  PROVE  /\ s \o t \in Seq(S)
         /\ Range(s \o t) = Range(s) \cup Range(t)
         /\ After(s \o t, f) = After(t, After(s, f))
<1>1. /\ s \o t \in Seq(S) /\ Len(s \o t) = Len(s) + Len(t)
      /\ \A i \in 1 .. Len(s) + Len(t) :
           (s \o t)[i] = IF i <= Len(s) THEN s[i] ELSE t[i - Len(s)]
  BY ConcatProperties
<1>2. Range(s \o t) = Range(s) \cup Range(t)
  BY RangeConcatenation
<1>3. CASE t = <<>>
  <2>1. s \o t = s
    BY <1>3, ConcatEmptySeq
  <2> QED
    BY <1>1, <1>2, <1>3, <2>1 DEF After
<1>4. CASE t # <<>>
  <2>1. Len(t) \in Nat \ {0} /\ Len(s) \in Nat
    BY <1>4, EmptySeq, LenProperties
  <2>2. Len(s \o t) > 0 /\ s \o t # <<>>
    BY <1>1, <2>1, EmptySeq
  <2>3. (s \o t)[Len(s \o t)] = t[Len(t)]
    BY <1>1, <2>1
  <2> QED
    BY <1>1, <1>2, <1>4, <2>2, <2>3 DEF After
<1> QED
  BY <1>3, <1>4

(* A section ends with all of its writes, or crashes after some of them.      *)
LEMMA SectionResult ==
  ASSUME NEW a, NEW steps \in Seq(FileStates), NEW next, Section(a, steps, next)
  PROVE  \/ /\ Files \in FileStates => Files' = After(steps, Files)
            /\ thread' = StartLoop([thread EXCEPT ![a] = next])
            /\ crashes' = crashes
         \/ Files' \in Range(steps) /\ thread' = NoThreads /\ crashes' = crashes + 1
<1>1. \A f \in FileStates : Install(f) => Files' = f
  BY DEF Install, Files, FileStates
<1>2. CASE /\ Install(After(steps, Files))
           /\ thread' = StartLoop([thread EXCEPT ![a] = next])
           /\ UNCHANGED crashes
  <2>1. Files \in FileStates => After(steps, Files) \in FileStates
    BY LastWrite, RangeOfSeq
  <2> QED
    BY <1>1, <1>2, <2>1
<1>3. CASE (\E i \in 1..(Len(steps) - 1) : Install(steps[i])) /\ ServerDies
  <2>1. PICK i \in 1..(Len(steps) - 1) : Install(steps[i])
    BY <1>3
  <2>2. Len(steps) \in Nat /\ DOMAIN steps = 1 .. Len(steps)
    BY LenProperties
  <2>3. i \in DOMAIN steps /\ steps[i] \in FileStates
    BY <2>1, <2>2, ElementOfSeq
  <2>4. Files' = steps[i]
    BY <1>1, <2>1, <2>3
  <2> QED
    BY <1>3, <2>3, <2>4 DEF ServerDies, Range
<1> QED
  BY <1>2, <1>3 DEF Section

-----------------------------------------------------------------------------
(* Single writes.                                                              *)

LEMMA KeptIsPreorder ==
  /\ \A f, q : Kept(f, f, q)
  /\ \A f, g, h, q : Kept(f, g, q) /\ Kept(g, h, q) => Kept(f, h, q)
  /\ \A f \in FileStates : \A g, q : Kept(f, g, 0) => Kept(f, g, q)
<1>1. \A f, q : Kept(f, f, q)
  BY DEF Kept
<1>2. \A f, g, h, q : Kept(f, g, q) /\ Kept(g, h, q) => Kept(f, h, q)
  BY DEF Kept
<1>3. \A f \in FileStates : \A g, q : Kept(f, g, 0) => Kept(f, g, q)
  BY DEF Kept, FileStates
<1> QED
  BY <1>1, <1>2, <1>3

(* A write to a request changes its state, its term, its ticket to the active  *)
(* one, and, for the one request b that may be bound, its agent id.            *)
LEMMA WithReqIsSound ==
  ASSUME NEW D, NEW f, Good(f, D), NEW q \in DOMAIN f.reqs, NEW b,
         NEW r \in RequestRecords, RequestSound(r, D),
         r.kind = f.reqs[q].kind, r.head = f.reqs[q].head,
         \/ r.agent = f.reqs[q].agent
         \/ b = q /\ f.reqs[q].agent = Nobody /\ q \notin f.ready,
         \/ r.ticket = f.reqs[q].ticket
         \/ f.active # NoTicket /\ r.ticket = f.active.ticket /\ r.head = f.active.head
  PROVE  LET g == WithReq(f, q, r)
         IN /\ Sound(f, g, b, D)
            /\ g.ready = f.ready /\ g.active = f.active
            /\ DOMAIN g.reqs = DOMAIN f.reqs /\ g.reqs[q] = r
<1> DEFINE g == WithReq(f, q, r)
<1>1. f \in FileStates /\ f.reqs \in Seq(RequestRecords) /\ q \in 1 .. Len(f.reqs)
  BY LenProperties DEF Good, FileStates
<1>2. /\ g.reqs \in Seq(RequestRecords) /\ DOMAIN g.reqs = DOMAIN f.reqs
      /\ \A p \in DOMAIN f.reqs : g.reqs[p] = IF p = q THEN r ELSE f.reqs[p]
  BY <1>1, ExceptSeq, LenProperties DEF WithReq, FileStates
<1>3. /\ g \in FileStates /\ g.ready = f.ready /\ g.active = f.active
      /\ g.archive = f.archive /\ g.lease = f.lease
  BY <1>1, <1>2 DEF WithReq, FileStates
<1>4. Tickets(g) \subseteq Tickets(f)
  BY <1>2, <1>3 DEF Tickets
<1>5. Good(g, D)
  <2>1. \A p \in DOMAIN g.reqs : RequestSound(g.reqs[p], D)
    BY <1>2 DEF Good
  <2>2. \A p \in g.ready : g.reqs[p].agent = Nobody
    BY <1>2, <1>3 DEF Good
  <2>3. ActiveIsOne(g)
    BY <1>2, <1>3 DEF ActiveIsOne, IsOne, Good
  <2> QED
    BY <1>2, <1>3, <1>4, <2>1, <2>2, <2>3 DEF Good
<1>6. Kept(f, g, b)
  BY <1>2, <1>3 DEF Kept
<1> QED
  BY <1>2, <1>3, <1>5, <1>6 DEF Sound

(* A new request has no agent id, and the active ticket or none.               *)
LEMMA AppendIsSound ==
  ASSUME NEW D, NEW f, Good(f, D), NEW b,
         NEW r \in RequestRecords, r.agent = Nobody, r.term # "succeeded",
         \/ r.ticket = 0
         \/ f.active # NoTicket /\ r.ticket = f.active.ticket /\ r.head = f.active.head
  PROVE  LET g == [f EXCEPT !.reqs = Append(@, r)]
         IN /\ Sound(f, g, b, D)
            /\ g.reqs[Len(f.reqs) + 1] = r /\ g.ready = f.ready /\ g.active = f.active
            /\ DOMAIN g.reqs = DOMAIN f.reqs \cup {Len(f.reqs) + 1}
            /\ Len(f.reqs) + 1 \in Nat \ DOMAIN f.reqs
<1> DEFINE g == [f EXCEPT !.reqs = Append(@, r)]
           q == Len(f.reqs) + 1
<1>1. f \in FileStates /\ f.reqs \in Seq(RequestRecords) /\ Len(f.reqs) \in Nat
      /\ DOMAIN f.reqs = 1 .. Len(f.reqs)
  BY LenProperties DEF Good, FileStates
<1>2. g.reqs = Append(f.reqs, r)
  BY <1>1 DEF FileStates
<1>3. /\ g.reqs \in Seq(RequestRecords) /\ DOMAIN g.reqs = DOMAIN f.reqs \cup {q}
      /\ q \in Nat \ DOMAIN f.reqs
      /\ g.reqs[q] = r /\ \A p \in DOMAIN f.reqs : g.reqs[p] = f.reqs[p]
  BY <1>1, <1>2, AppendProperties, LenProperties
<1>4. /\ g \in FileStates /\ g.ready = f.ready /\ g.active = f.active
      /\ g.archive = f.archive /\ g.lease = f.lease
  BY <1>1, <1>3 DEF FileStates
<1>5. Tickets(g) \subseteq Tickets(f) \cup {0}
  BY <1>3, <1>4 DEF Tickets
<1>6. Good(g, D)
  <2>1. \A p \in DOMAIN g.reqs : RequestSound(g.reqs[p], D)
    BY <1>3 DEF Good, RequestSound
  <2>2. \A p \in g.ready : g.reqs[p].agent = Nobody
    BY <1>3, <1>4 DEF Good
  <2>3. ActiveIsOne(g)
    <3>1. f.active # NoTicket => f.active.ticket > 0
      BY DEF Good, TicketSound
    <3> QED
      BY <1>3, <1>4, <3>1 DEF ActiveIsOne, IsOne, Good
  <2>4. \E n \in Nat : \A m \in Tickets(g) : m <= n
    BY <1>5 DEF Good
  <2> QED
    BY <1>3, <1>4, <2>1, <2>2, <2>3, <2>4 DEF Good
<1>7. Kept(f, g, b)
  BY <1>3, <1>4 DEF Kept
<1> QED
  BY <1>3, <1>4, <1>6, <1>7 DEF Sound

(* Any change of the waiting files that only lets a request wait which has no  *)
(* agent id, a new one if it did not wait before.                              *)
LEMMA ReadyIsSound ==
  ASSUME NEW D, NEW f, Good(f, D), NEW b, NEW S \in SUBSET DOMAIN f.reqs,
         \A q \in S : f.reqs[q].agent = Nobody
  PROVE  LET g == [f EXCEPT !.ready = S]
         IN /\ Good(g, D) /\ (S \subseteq f.ready => Sound(f, g, b, D))
            /\ g.reqs = f.reqs /\ g.ready = S /\ g.active = f.active
<1> DEFINE g == [f EXCEPT !.ready = S]
<1>1. f \in FileStates /\ f.reqs \in Seq(RequestRecords) /\ DOMAIN f.reqs \subseteq Nat
  BY LenProperties DEF Good, FileStates
<1>2. /\ g \in FileStates /\ g.reqs = f.reqs /\ g.ready = S /\ g.active = f.active
      /\ g.archive = f.archive /\ g.lease = f.lease
  BY <1>1 DEF FileStates
<1>3. Tickets(g) = Tickets(f)
  BY <1>2 DEF Tickets
<1>4. Good(g, D)
  BY <1>2, <1>3 DEF Good, ActiveIsOne, IsOne
<1> QED
  BY <1>2, <1>4 DEF Sound, Kept

(* Tickets are known by their request, a number.                              *)
LEMMA TicketsAreNumbers ==
  ASSUME NEW f \in FileStates
  PROVE  Tickets(f) \subseteq Nat
<1>1. f.active.ticket \in Nat
  BY DEF FileStates, TicketRecords
<1>2. \A t \in f.archive : t.ticket \in Nat
  BY DEF FileStates, TicketRecords
<1>3. \A q \in DOMAIN f.reqs : f.reqs[q].ticket \in Nat
  <2>1. f.reqs \in Seq(RequestRecords)
    BY DEF FileStates
  <2>2. \A q \in DOMAIN f.reqs : f.reqs[q] \in RequestRecords
    BY <2>1, ElementOfSeq, LenProperties
  <2> QED
    BY <2>2 DEF RequestRecords
<1> QED
  BY <1>1, <1>2, <1>3 DEF Tickets

(* The active ticket is written: one that is there, or none.                  *)
LEMMA WithActiveIsSound ==
  ASSUME NEW D, NEW f, Good(f, D), NEW b, NEW t \in TicketRecords,
         t = NoTicket \/ (TicketSound(t, D) /\ IsOne(f, t))
  PROVE  /\ Sound(f, WithActive(f, t), b, D)
         /\ WithActive(f, t).reqs = f.reqs /\ WithActive(f, t).ready = f.ready
         /\ WithActive(f, t).active = t
<1> DEFINE g == WithActive(f, t)
<1>1. f \in FileStates /\ t.ticket \in Nat
  BY DEF Good, TicketRecords
<1>2. /\ g \in FileStates /\ g.reqs = f.reqs /\ g.ready = f.ready /\ g.active = t
      /\ g.archive = f.archive /\ g.lease = f.lease
  BY <1>1 DEF FileStates, WithActive
<1>3. Tickets(g) \subseteq Tickets(f) \cup {t.ticket}
  BY <1>2 DEF Tickets
<1>4. \E n \in Nat : \A m \in Tickets(g) : m <= n
  <2>1. PICK n \in Nat : \A m \in Tickets(f) : m <= n
    BY DEF Good
  <2>2. Tickets(f) \subseteq Nat
    BY <1>1, TicketsAreNumbers
  <2>3. \A m \in Tickets(g) : m <= n + t.ticket
    BY <1>1, <1>3, <2>1, <2>2
  <2> QED
    BY <1>1, <2>3
<1>5. Good(g, D)
  BY <1>2, <1>4 DEF Good, ActiveIsOne, IsOne
<1> QED
  BY <1>2, <1>5 DEF Sound, Kept

(* The lease is written for a ticket.                                         *)
LEMMA WithLeaseIsSound ==
  ASSUME NEW D, NEW f, Good(f, D), NEW b, NEW t \in TicketRecords, t.head \in Commits
  PROVE  /\ Sound(f, WithLease(f, t), b, D)
         /\ WithLease(f, t).reqs = f.reqs /\ WithLease(f, t).ready = f.ready
         /\ WithLease(f, t).active = f.active
<1> DEFINE g == WithLease(f, t)
<1>1. f \in FileStates /\ t.ticket \in Nat
  BY DEF Good, TicketRecords
<1>2. /\ g \in FileStates /\ g.reqs = f.reqs /\ g.ready = f.ready /\ g.active = f.active
      /\ g.archive = f.archive
  BY <1>1 DEF FileStates, WithLease, Leases
<1>3. Tickets(g) = Tickets(f)
  BY <1>2 DEF Tickets
<1>4. Good(g, D)
  BY <1>2, <1>3 DEF Good, ActiveIsOne, IsOne
<1> QED
  BY <1>2, <1>4 DEF Sound, Kept

(* A ticket goes into the archive, in place of any record of the same number.  *)
LEMMA ArchivedIsSound ==
  ASSUME NEW D, NEW f, Good(f, D), NEW b, NEW t \in TicketRecords, TicketSound(t, D),
         NEW g, g = [f EXCEPT !.archive = {u \in f.archive : u.ticket # t.ticket} \cup {t}],
         t.ticket \in Tickets(f)
  PROVE  /\ Sound(f, g, b, D) /\ g.reqs = f.reqs /\ g.ready = f.ready /\ g.active = f.active
<1>1. f \in FileStates
  BY DEF Good
<1>2. /\ g \in FileStates /\ g.reqs = f.reqs /\ g.ready = f.ready /\ g.active = f.active
      /\ g.archive = {u \in f.archive : u.ticket # t.ticket} \cup {t}
  BY <1>1 DEF FileStates
<1>3. Tickets(g) \subseteq Tickets(f)
  BY <1>2 DEF Tickets
<1>4. Good(g, D)
  BY <1>2, <1>3 DEF Good, ActiveIsOne, IsOne
<1> QED
  BY <1>2, <1>4 DEF Sound, Kept

-----------------------------------------------------------------------------
(* Whole lists of writes.                                                      *)

(* What a list of writes that begins at f does, whichever of them is the last. *)
AllSound(steps, f, b, D) ==
  steps \in Seq(FileStates) /\ \A g \in Range(steps) : Sound(f, g, b, D)

(* The elements of short sequences.                                           *)
LEMMA RangeOfTuples ==
  /\ Range(<<>>) = {}
  /\ \A v : Range(<<v>>) = {v}
  /\ \A v, w : Range(<<v, w>>) = {v, w}
  /\ \A v, w, x : Range(<<v, w, x>>) = {v, w, x}
BY DEF Range

(* Sound writes compose.                                                      *)
LEMMA SoundIsPreorder ==
  ASSUME NEW D, NEW f, NEW g, NEW b
  PROVE  /\ Good(f, D) => Sound(f, f, b, D)
         /\ Sound(f, g, b, D) => \A h : Sound(g, h, b, D) => Sound(f, h, b, D)
         /\ Sound(f, g, b, D) => g \in FileStates
BY KeptIsPreorder DEF Sound, Good

(* A ticket is written with its lease.                                        *)
LEMMA TicketStepsAreSound ==
  ASSUME NEW D, NEW f, Good(f, D), NEW b, NEW t \in TicketRecords, TicketSound(t, D), IsOne(f, t)
  PROVE  /\ AllSound(TicketSteps(f, t), f, b, D)
         /\ \A g \in Range(TicketSteps(f, t)) : g.reqs = f.reqs /\ g.ready = f.ready
         /\ \A h : After(TicketSteps(f, t), h) \in Range(TicketSteps(f, t))
<1> DEFINE g == WithActive(f, t)
           k == WithLease(g, t)
<1>1. Sound(f, g, b, D) /\ g.reqs = f.reqs /\ g.ready = f.ready
  BY WithActiveIsSound
<1>2. Sound(g, k, b, D) /\ k.reqs = f.reqs /\ k.ready = f.ready
  BY <1>1, WithLeaseIsSound DEF Sound, TicketSound
<1>3. Sound(f, k, b, D)
  BY <1>1, <1>2, SoundIsPreorder
<1>4. TicketSteps(f, t) = <<g, k>> /\ g \in FileStates /\ k \in FileStates
  BY <1>1, <1>2, SoundIsPreorder DEF TicketSteps
<1> HIDE DEF g, k
<1>5. TicketSteps(f, t) \in Seq(FileStates) /\ Range(TicketSteps(f, t)) = {g, k}
  BY <1>4, RangeOfTuples
<1>6. \A h : After(TicketSteps(f, t), h) = k
  BY <1>4 DEF After
<1> QED
  BY <1>1, <1>2, <1>3, <1>5, <1>6 DEF AllSound

(* The active ticket goes to the archive, in steps.                           *)
LEMMA ArchiveStepsAreSound ==
  ASSUME NEW D, NEW f, Good(f, D), NEW b, f.active # NoTicket,
         NEW state \in Blocking \cup FinalTicket
  PROVE  /\ AllSound(ArchiveSteps(f, f.active, state), f, b, D)
         /\ \A g \in Range(ArchiveSteps(f, f.active, state)) : g.reqs = f.reqs /\ g.ready = f.ready
         /\ \A h : After(ArchiveSteps(f, f.active, state), h)
                     \in Range(ArchiveSteps(f, f.active, state))
<1> DEFINE t == f.active
           u == [t EXCEPT !.state = state]
           kept == [f EXCEPT !.archive =
                      {v \in f.archive : v.ticket # t.ticket} \cup {u}]
           freed == IF f.lease.by = "lane" /\ f.lease.owner = t.ticket
                    THEN [kept EXCEPT !.lease = NoLease] ELSE kept
           last == WithActive(freed, NoTicket)
<1>1. t \in TicketRecords /\ TicketSound(t, D)
  BY DEF Good, FileStates
<1>2. u \in TicketRecords /\ TicketSound(u, D) /\ u.ticket = t.ticket /\ u.ticket \in Tickets(f)
  BY <1>1 DEF TicketRecords, TicketSound, Tickets
<1>3. Sound(f, kept, b, D) /\ kept.reqs = f.reqs /\ kept.ready = f.ready
  <2>1. kept = [f EXCEPT !.archive = {v \in f.archive : v.ticket # u.ticket} \cup {u}]
    BY <1>2
  <2> HIDE DEF u, kept
  <2> QED
    BY <1>2, <2>1, ArchivedIsSound
<1>4. Sound(kept, freed, b, D) /\ freed.reqs = f.reqs /\ freed.ready = f.ready
  <2>1. Good(kept, D) /\ kept \in FileStates
    BY <1>3 DEF Sound, Good
  <2>2. CASE freed = kept
    BY <1>3, <2>1, <2>2, SoundIsPreorder
  <2>3. CASE freed = [kept EXCEPT !.lease = NoLease]
    <3> DEFINE k == kept
    <3> HIDE DEF kept
    <3>1. /\ freed \in FileStates /\ freed.reqs = k.reqs /\ freed.ready = k.ready
          /\ freed.active = k.active /\ freed.archive = k.archive
      BY <2>1, <2>3 DEF FileStates, Leases
    <3>2. Tickets(freed) = Tickets(k)
      BY <3>1 DEF Tickets
    <3>3. Good(freed, D)
      BY <2>1, <3>1, <3>2 DEF Good, ActiveIsOne, IsOne
    <3> QED
      BY <1>3, <3>1, <3>3 DEF Sound, Kept
  <2> QED
    BY <2>2, <2>3
<1>5. Sound(freed, last, b, D) /\ last.reqs = f.reqs /\ last.ready = f.ready
  <2>1. NoTicket \in TicketRecords
    BY DEF NoTicket, TicketRecords
  <2>2. Good(freed, D)
    BY <1>4 DEF Sound
  <2> HIDE DEF freed
  <2> QED
    BY <1>4, <2>1, <2>2, WithActiveIsSound
<1>6. ArchiveSteps(f, f.active, state) = <<kept, freed, last>>
  BY DEF ArchiveSteps
<1> HIDE DEF kept, freed, last
<1>7. Sound(f, freed, b, D)
  BY <1>3, <1>4, SoundIsPreorder
<1>8. Sound(f, last, b, D)
  BY <1>5, <1>7, SoundIsPreorder
<1>9. kept \in FileStates /\ freed \in FileStates /\ last \in FileStates
  BY <1>3, <1>7, <1>8, SoundIsPreorder
<1>10. /\ ArchiveSteps(f, f.active, state) \in Seq(FileStates)
       /\ Range(ArchiveSteps(f, f.active, state)) = {kept, freed, last}
       /\ \A h : After(ArchiveSteps(f, f.active, state), h) = last
  BY <1>6, <1>9, RangeOfTuples DEF After
<1> QED
  BY <1>3, <1>4, <1>5, <1>7, <1>8, <1>10 DEF AllSound

(* The new ticket has a number no request has yet.                             *)
LEMMA ActivateStepsAreSound ==
  ASSUME NEW D, NEW f, Good(f, D), NEW q \in DOMAIN f.reqs, f.reqs[q].agent = Nobody,
         NEW base \in Nat
  PROVE  /\ AllSound(ActivateSteps(f, q, base), f, 0, D)
         /\ \A g \in Range(ActivateSteps(f, q, base)) :
              g.ready = f.ready /\ g.active.ticket \in Nat \ {0}
         /\ \A h : After(ActivateSteps(f, q, base), h) \in Range(ActivateSteps(f, q, base))
<1> DEFINE n == Max(Tickets(f)) + 1
           t == [ticket |-> n, req |-> q, head |-> f.reqs[q].head, main |-> base,
                 state |-> "dispatching", agent |-> f.reqs[q].agent, health |-> 0,
                 hagent |-> Nobody, accepted |-> FALSE]
           r == [f.reqs[q] EXCEPT !.state = "dispatching", !.ticket = n, !.main = base]
           taken == WithActive(f, t)
           noted == WithReq(taken, q, r)
           last == WithLease(noted, t)
<1>1. /\ f \in FileStates /\ q \in Nat
      /\ f.reqs[q] \in RequestRecords /\ RequestSound(f.reqs[q], D)
  <2>1. f \in FileStates /\ f.reqs \in Seq(RequestRecords)
    BY DEF Good, FileStates
  <2> QED
    BY <2>1, ElementOfSeq, LenProperties DEF Good
<1>2. n \in Nat \ {0} /\ \A m \in Tickets(f) : m < n
  <2>1. Tickets(f) \in SUBSET Nat
    BY <1>1, TicketsAreNumbers
  <2>2. Tickets(f) # {}
    BY DEF Tickets
  <2>3. PICK k \in Nat : \A m \in Tickets(f) : m <= k
    BY DEF Good
  <2>4. Max(Tickets(f)) \in Tickets(f) /\ \A m \in Tickets(f) : m <= Max(Tickets(f))
    BY <2>1, <2>2, <2>3, MaxIsLargest
  <2> QED
    BY <2>1, <2>4
<1> HIDE DEF n
<1>3. t \in TicketRecords /\ TicketSound(t, D) /\ t.ticket = n /\ t.head = f.reqs[q].head
      /\ t.req = q
  BY <1>1, <1>2 DEF TicketRecords, RequestRecords, Blocking, TicketSound
<1>4. IsOne(f, t)
  <2>1. \A p \in DOMAIN f.reqs : f.reqs[p].ticket # n
    BY <1>2 DEF Tickets
  <2> QED
    BY <1>3, <2>1 DEF IsOne
<1>5. /\ r \in RequestRecords /\ RequestSound(r, D) /\ r.kind = f.reqs[q].kind
      /\ r.head = f.reqs[q].head /\ r.agent = f.reqs[q].agent /\ r.ticket = n
  BY <1>1, <1>2 DEF RequestRecords, RequestSound, RequestStates
<1> HIDE DEF t, r
<1>6. Sound(f, taken, 0, D) /\ taken.reqs = f.reqs /\ taken.ready = f.ready /\ taken.active = t
  BY <1>3, <1>4, WithActiveIsSound
<1> HIDE DEF taken
<1>7. Sound(taken, noted, 0, D) /\ noted.ready = f.ready /\ noted.active = t
  <2>1. taken.active # NoTicket
    BY <1>2, <1>3, <1>6 DEF NoTicket
  <2>2. Sound(taken, noted, 0, D)
    BY <1>3, <1>5, <1>6, <2>1, WithReqIsSound DEF Sound
  <2>3. taken \in FileStates
    BY <1>6, SoundIsPreorder
  <2> QED
    BY <1>6, <2>2, <2>3 DEF WithReq, FileStates
<1> HIDE DEF noted
<1>8. Sound(noted, last, 0, D) /\ last.ready = f.ready /\ last.active = t
  BY <1>3, <1>7, WithLeaseIsSound DEF Sound, TicketSound
<1> HIDE DEF last
<1>9. ActivateSteps(f, q, base) = <<taken, noted, last>>
  BY DEF ActivateSteps, taken, noted, last, t, r, n
<1>10. Sound(f, noted, 0, D)
  BY <1>6, <1>7, SoundIsPreorder
<1>11. Sound(f, last, 0, D)
  BY <1>8, <1>10, SoundIsPreorder
<1>12. taken \in FileStates /\ noted \in FileStates /\ last \in FileStates
  BY <1>6, <1>10, <1>11, SoundIsPreorder
<1>13. /\ ActivateSteps(f, q, base) \in Seq(FileStates)
       /\ Range(ActivateSteps(f, q, base)) = {taken, noted, last}
       /\ \A h : After(ActivateSteps(f, q, base), h) = last
  BY <1>9, <1>12, RangeOfTuples DEF After
<1> QED
  BY <1>2, <1>3, <1>6, <1>7, <1>8, <1>10, <1>11, <1>13 DEF AllSound

(* One write, and then a list that begins after it.                            *)
LEMMA AfterWriteIsSound ==
  ASSUME NEW D, NEW f, NEW g, NEW b, Sound(f, g, b, D), NEW steps, AllSound(steps, g, b, D)
  PROVE  /\ AllSound(<<g>> \o steps, f, b, D)
         /\ Range(<<g>> \o steps) = {g} \cup Range(steps)
         /\ \A h : After(<<g>> \o steps, h) = After(steps, g)
<1>1. g \in FileStates /\ steps \in Seq(FileStates) /\ <<g>> \in Seq(FileStates)
  BY SoundIsPreorder DEF AllSound
<1>2. /\ <<g>> \o steps \in Seq(FileStates)
      /\ Range(<<g>> \o steps) = Range(<<g>>) \cup Range(steps)
      /\ \A h : After(<<g>> \o steps, h) = After(steps, After(<<g>>, h))
  <2> DEFINE s == <<g>>
  <2>1. s \in Seq(FileStates) /\ steps \in Seq(FileStates)
    BY <1>1
  <2> HIDE DEF s
  <2>2. \A h : /\ s \o steps \in Seq(FileStates)
               /\ Range(s \o steps) = Range(s) \cup Range(steps)
               /\ After(s \o steps, h) = After(steps, After(s, h))
    BY <2>1, JoinedWrites
  <2>3. /\ s \o steps \in Seq(FileStates)
        /\ Range(s \o steps) = Range(s) \cup Range(steps)
        /\ \A h : After(s \o steps, h) = After(steps, After(s, h))
    BY <2>2
  <2> QED
    BY <2>3 DEF s
<1>3. Range(<<g>>) = {g} /\ \A h : After(<<g>>, h) = g
  BY RangeOfTuples DEF After
<1>4. \A k \in Range(steps) : Sound(f, k, b, D)
  BY SoundIsPreorder DEF AllSound
<1> QED
  BY <1>2, <1>3, <1>4 DEF AllSound

(* No write is sound.                                                         *)
LEMMA NoWriteIsSound ==
  ASSUME NEW D, NEW f, NEW b
  PROVE  AllSound(<<>>, f, b, D) /\ \A h : After(<<>>, h) = h
BY EmptySeq, RangeOfTuples DEF AllSound, After

(* One sound write is a sound sequence.                                       *)
LEMMA OneWriteIsSound ==
  ASSUME NEW D, NEW f, NEW g, NEW b, Sound(f, g, b, D)
  PROVE  AllSound(<<g>>, f, b, D) /\ Range(<<g>>) = {g} /\ \A h : After(<<g>>, h) = g
<1>1. g \in FileStates
  BY SoundIsPreorder
<1> QED
  BY <1>1, RangeOfTuples DEF AllSound, After

(* The state and the term of a request change, and nothing else of it.         *)
InState(r, state) == [r EXCEPT !.state = state]
Ended(r, state, term) == [r EXCEPT !.state = state, !.term = term]

(* A request moves to another state, or gets its result.                      *)
LEMMA NotedIsSound ==
  ASSUME NEW D, NEW f, Good(f, D), NEW q \in DOMAIN f.reqs, NEW state \in RequestStates,
         NEW term \in {"none", "succeeded", "failed", "not_published"},
         term = "succeeded" => f.reqs[q].agent \in D,
         NEW r, r = InState(f.reqs[q], state) \/ r = Ended(f.reqs[q], state, term)
  PROVE  /\ Sound(f, WithReq(f, q, r), 0, D)
         /\ WithReq(f, q, r).ready = f.ready /\ WithReq(f, q, r).active = f.active
<1>1. f.reqs[q] \in RequestRecords /\ RequestSound(f.reqs[q], D)
  BY ElementOfSeq, LenProperties DEF Good, FileStates
<1>2. /\ r \in RequestRecords /\ r.kind = f.reqs[q].kind /\ r.head = f.reqs[q].head
      /\ r.agent = f.reqs[q].agent /\ r.ticket = f.reqs[q].ticket
      /\ r.term \in {f.reqs[q].term, term}
  BY <1>1 DEF RequestRecords, InState, Ended
<1>3. RequestSound(r, D)
  BY <1>1, <1>2 DEF RequestSound
<1> QED
  BY <1>2, <1>3, WithReqIsSound

(* The ticket of the lane changes its state, its agent id or its health check, *)
(* or is accepted for what the agent has carried out.                          *)
LEMMA TouchedIsSound ==
  ASSUME NEW D, NEW f, Good(f, D), NEW b, f.active # NoTicket, NEW t \in TicketRecords,
         t.ticket = f.active.ticket, t.head = f.active.head, t.req = f.active.req,
         t.accepted => f.active.accepted \/ CarriedOut(t.head, D)
  PROVE  /\ AllSound(TicketSteps(f, t), f, b, D)
         /\ \A g \in Range(TicketSteps(f, t)) : g.reqs = f.reqs /\ g.ready = f.ready
         /\ \A h : After(TicketSteps(f, t), h) \in Range(TicketSteps(f, t))
<1>1. TicketSound(t, D) /\ IsOne(f, t)
  BY DEF Good, TicketSound, ActiveIsOne, IsOne
<1> QED
  BY <1>1, TicketStepsAreSound

(* An answer that is found is written into request and ticket.                *)
LEMMA StatusStepsAreSound ==
  ASSUME NEW D, NEW f, Good(f, D), NEW q \in DOMAIN f.reqs
  PROVE  /\ AllSound(StatusSteps(f, q), f, 0, D)
         /\ \A g \in Range(StatusSteps(f, q)) : g.ready = f.ready
<1> DEFINE r == [f.reqs[q] EXCEPT !.state = "decision_required"]
           lost == WithReq(f, q, r)
           t == [f.active EXCEPT !.state = "decision_required"]
           more == IF f.active.ticket = f.reqs[q].ticket /\ f.active # NoTicket
                   THEN TicketSteps(lost, t) ELSE <<>>
<1>1. CASE StatusSteps(f, q) = <<>>
  BY <1>1, NoWriteIsSound, RangeOfTuples
<1>2. CASE StatusSteps(f, q) # <<>>
  <2>1. StatusSteps(f, q) = <<lost>> \o more
    BY <1>2 DEF StatusSteps
  <2>2. Sound(f, lost, 0, D) /\ lost.ready = f.ready /\ lost.active = f.active
    <3>1. "decision_required" \in RequestStates
      BY DEF RequestStates
    <3>2. r = InState(f.reqs[q], "decision_required")
      BY DEF InState
    <3> HIDE DEF r
    <3> QED
      BY <3>1, <3>2, NotedIsSound
  <2> HIDE DEF lost
  <2>3. AllSound(more, lost, 0, D) /\ \A g \in Range(more) : g.ready = f.ready
    <3>1. CASE more = <<>>
      BY <3>1, NoWriteIsSound, RangeOfTuples
    <3>2. CASE f.active.ticket = f.reqs[q].ticket /\ f.active # NoTicket
      <4>1. Good(lost, D) /\ lost.active # NoTicket /\ lost.active \in TicketRecords
        BY <2>2, <3>2 DEF Sound, Good, FileStates
      <4>2. /\ t \in TicketRecords /\ t.ticket = lost.active.ticket
            /\ t.head = lost.active.head /\ t.req = lost.active.req
            /\ t.accepted = lost.active.accepted
        BY <2>2, <4>1 DEF TicketRecords, Blocking
      <4> HIDE DEF t
      <4> QED
        BY <2>2, <3>2, <4>1, <4>2, TouchedIsSound
    <3> QED
      BY <3>1, <3>2
  <2> HIDE DEF more
  <2>4. /\ AllSound(<<lost>> \o more, f, 0, D)
        /\ Range(<<lost>> \o more) = {lost} \cup Range(more)
    BY <2>2, <2>3, AfterWriteIsSound
  <2>5. \A g \in Range(<<lost>> \o more) : g.ready = f.ready
    BY <2>2, <2>3, <2>4
  <2> QED
    BY <2>1, <2>4, <2>5
<1> QED
  BY <1>1, <1>2

-----------------------------------------------------------------------------
(* The threads.                                                                *)

(* A sound write by thread a leaves true what the other thread remembers.      *)
LEMMA OtherThreadSound ==
  ASSUME NEW D, NEW f, NEW h, NEW b, Good(f, D), Sound(f, h, b, D),
         NEW a \in Threads, NEW c \in Threads, a # c,
         NEW t, ThreadSound(f, t, c),
         t.pc \in HoldsRequest => b # t.req,
         a = "tool" => f.ready \subseteq h.ready
  PROVE  ThreadSound(h, t, c)
<1>1. Kept(f, h, b)
  BY DEF Sound
<1>2. t.pc \in HoldsRequest => t.req \in DOMAIN f.reqs /\ t.req \in DOMAIN h.reqs
  BY <1>1 DEF Kept, ThreadSound
<1>3. c = "loop" /\ t.pc \in {"attest", "claim", "activate"} => t.req \in h.ready
  BY DEF ThreadSound, Threads
<1>4. t.pc \in HoldsRequest => h.reqs[t.req].agent = f.reqs[t.req].agent
  BY <1>1, <1>2 DEF Kept
<1>5. t.pc \in HoldsRequest /\ t.req \notin f.ready => t.req \notin h.ready
  BY <1>1, <1>2 DEF Kept
<1>6. t.pc \in HoldsRequest => IdOf(h, t) = IdOf(f, t)
  BY <1>1, <1>2 DEF Kept, IdOf
<1> QED
  BY <1>2, <1>3, <1>4, <1>5, <1>6 DEF ThreadSound, HoldsRequest

(* One thread moves on while the other keeps what it rests on.                *)
LEMMA ThreadsStaySound ==
  ASSUME NEW D, NEW f, NEW h, NEW b, Good(f, D), Sound(f, h, b, D),
         NEW th \in [Threads -> ThreadRecords], ThreadsSound(f, th),
         NEW a \in Threads, NEW next \in ThreadRecords, ThreadSound(h, next, a),
         b = 0 \/ (th[a].pc = "bind" /\ b = th[a].req),
         a = "tool" => f.ready \subseteq h.ready,
         next.pc \in HoldsRequest =>
           \/ th[a].pc \in HoldsRequest /\ next.req = th[a].req
           \/ next.req \notin DOMAIN f.reqs
           \/ a = "loop" /\ next.req \in f.ready
  PROVE  LET new == StartLoop([th EXCEPT ![a] = next])
         IN new \in [Threads -> ThreadRecords] /\ ThreadsSound(h, new)
<1> DEFINE new == StartLoop([th EXCEPT ![a] = next])
<1>1. Idle \in ThreadRecords /\ \A c : ThreadSound(h, Idle, c)
  BY DEF Idle, ThreadRecords, ThreadSound, HoldsRequest
<1>2. PICK c \in Threads : c # a
  BY DEF Threads
<1>3. /\ new \in [Threads -> ThreadRecords]
      /\ new[a] = next \/ new[a] = Idle
      /\ new[c] = th[c] \/ new[c] = Idle
  BY <1>1, <1>2 DEF StartLoop, Threads
<1>4. \A p \in DOMAIN f.reqs : p \in Nat \ {0}
  BY LenProperties DEF Good, FileStates
<1>5. th[c].pc \in HoldsRequest => th[c].req \in DOMAIN f.reqs
  BY <1>2 DEF ThreadsSound, ThreadSound
<1>6. th[a].pc \in HoldsRequest /\ th[c].pc \in HoldsRequest => th[a].req # th[c].req
  BY <1>2 DEF ThreadsSound, Threads
<1>7. th[c].pc \in HoldsRequest => b # th[c].req
  BY <1>4, <1>5, <1>6 DEF HoldsRequest
<1>8. ThreadSound(h, th[c], c)
  BY <1>2, <1>7, OtherThreadSound DEF ThreadsSound
<1>9. next.pc \in HoldsRequest /\ th[c].pc \in HoldsRequest => next.req # th[c].req
  <2>1. SUFFICES ASSUME next.pc \in HoldsRequest, th[c].pc \in HoldsRequest,
                        a = "loop", next.req \in f.ready
                 PROVE  next.req # th[c].req
    BY <1>5, <1>6
  <2>2. c = "tool" /\ ThreadSound(f, th[c], c)
    BY <1>2, <2>1 DEF Threads, ThreadsSound
  <2>3. f.reqs[next.req].agent = Nobody
    BY <2>1 DEF Good
  <2>4. th[c].pc = "publish" => f.reqs[th[c].req].agent # Nobody
    BY <2>2 DEF ThreadSound, IdOf, Request, Nobody
  <2> QED
    BY <2>1, <2>2, <2>3, <2>4 DEF ThreadSound, HoldsRequest
<1>10. \A d \in Threads : ThreadSound(h, new[d], d)
  BY <1>1, <1>2, <1>3, <1>8 DEF Threads
<1>11. new.tool.pc \in HoldsRequest /\ new.loop.pc \in HoldsRequest => new.tool.req # new.loop.req
  <2>1. Idle.pc \notin HoldsRequest
    BY DEF Idle, HoldsRequest
  <2> HIDE DEF new
  <2> QED
    BY <1>2, <1>3, <1>9, <2>1 DEF Threads
<1> QED
  BY <1>3, <1>10, <1>11 DEF ThreadsSound

-----------------------------------------------------------------------------
(* The inductive invariant of the lane.                                        *)

AgentTypes ==
  /\ plan \in Plans
  /\ incoming \subseteq AgentIds /\ processing \subseteq AgentIds
  /\ working \in AgentIds \cup {Nobody} /\ told \in BOOLEAN
  /\ done \subseteq AgentIds /\ marked \subseteq done /\ (told => working \in done)
  /\ responses \subseteq [req : AgentIds, ok : BOOLEAN, accepted : BOOLEAN]
  /\ others \in Nat /\ stops \in Nat /\ slips \in Nat

GitHubTypes ==
  /\ main \in Nat /\ pr \in [Commits -> {"open", "closed", "merged"}]
  /\ cache \subseteq Commits /\ crashes \in Nat

(* An answer of success is the answer to a request that was carried out.       *)
AnswersAreTrue == \A r \in responses : r.ok => r.req \in done

LaneInv ==
  /\ AgentTypes /\ GitHubTypes /\ AnswersAreTrue
  /\ Good(Files, done)
  /\ thread \in [Threads -> ThreadRecords] /\ ThreadsSound(Files, thread)
  /\ PublishedIsBound

(* A lane file state that keeps the bound requests keeps the published ones.   *)
LEMMA BoundStaysBound ==
  ASSUME LaneInv, NEW b, NEW g, Kept(Files, g, b)
  PROVE  \A a \in incoming \cup processing : a.of \in {"ticket", "health"} =>
           \E q \in DOMAIN g.reqs : g.reqs[q].agent = a
<1> TAKE a \in incoming \cup processing
<1> HAVE a.of \in {"ticket", "health"}
<1>1. PICK q \in DOMAIN reqs : reqs[q].agent = a
  BY DEF LaneInv, PublishedIsBound
<1>2. reqs[q].agent # Nobody
  BY <1>1 DEF Nobody
<1>3. q \in DOMAIN g.reqs /\ g.reqs[q].agent = a
  BY <1>1, <1>2 DEF Kept, Files
<1> QED
  BY <1>3

(* A section of sound writes keeps the invariant of the lane, crash or not.   *)
LEMMA SectionKeepsLane ==
  ASSUME LaneInv, NEW a \in Threads, NEW steps, NEW next \in ThreadRecords, NEW b,
         AllSound(steps, Files, b, done), Section(a, steps, next),
         UNCHANGED <<github, cache, queueVars>>,
         b = 0 \/ (thread[a].pc = "bind" /\ b = thread[a].req),
         a = "tool" => \A g \in Range(steps) : ready \subseteq g.ready,
         ThreadSound(After(steps, Files), next, a),
         next.pc \in HoldsRequest =>
           \/ thread[a].pc \in HoldsRequest /\ next.req = thread[a].req
           \/ next.req \notin DOMAIN reqs
           \/ a = "loop" /\ next.req \in ready
  PROVE  LaneInv'
<1>1. /\ Good(Files, done) /\ Files \in FileStates /\ steps \in Seq(FileStates)
      /\ Files.ready = ready /\ Files.reqs = reqs
  BY DEF LaneInv, Good, AllSound, Files
<1>2. \A g \in {Files} \cup Range(steps) : Sound(Files, g, b, done)
  BY <1>1, SoundIsPreorder DEF AllSound
<1>3. AgentTypes' /\ AnswersAreTrue' /\ done' = done
  BY DEF LaneInv, queueVars, agentVars, AgentTypes, AnswersAreTrue
<1>4. /\ Files' \in {Files} \cup Range(steps)
      /\ thread' \in [Threads -> ThreadRecords] /\ ThreadsSound(Files', thread')
      /\ crashes' \in Nat
  <2>1. CASE /\ Files' = After(steps, Files) /\ crashes' = crashes
             /\ thread' = StartLoop([thread EXCEPT ![a] = next])
    <3> DEFINE h == After(steps, Files)
    <3>1. h \in {Files} \cup Range(steps)
      BY <1>1, LastWrite
    <3>2. Sound(Files, h, b, done)
      BY <1>2, <3>1
    <3>3. a = "tool" => Files.ready \subseteq h.ready
      BY <1>1, <3>1
    <3>4. ThreadSound(h, next, a)
      OBVIOUS
    <3> HIDE DEF h
    <3> DEFINE new == StartLoop([thread EXCEPT ![a] = next])
    <3>5. thread \in [Threads -> ThreadRecords] /\ ThreadsSound(Files, thread)
      BY DEF LaneInv
    <3>6. next.pc \in HoldsRequest =>
            \/ thread[a].pc \in HoldsRequest /\ next.req = thread[a].req
            \/ next.req \notin DOMAIN Files.reqs
            \/ a = "loop" /\ next.req \in Files.ready
      BY <1>1
    <3>7. new \in [Threads -> ThreadRecords] /\ ThreadsSound(h, new)
      BY <1>1, <3>2, <3>3, <3>4, <3>5, <3>6, ThreadsStaySound
    <3> QED
      BY <2>1, <3>1, <3>7 DEF LaneInv, GitHubTypes, h
  <2>2. CASE Files' \in Range(steps) /\ thread' = NoThreads /\ crashes' = crashes + 1
    <3>1. NoThreads \in [Threads -> ThreadRecords]
      BY DEF NoThreads, ThreadRecords, Idle, Stopped
    <3>2. ThreadsSound(Files', NoThreads)
      BY DEF NoThreads, ThreadsSound, ThreadSound, HoldsRequest, Idle, Stopped, Threads
    <3> QED
      BY <2>2, <3>1, <3>2 DEF LaneInv, GitHubTypes
  <2> QED
    BY <1>1, <2>1, <2>2, SectionResult
<1>5. Good(Files', done') /\ Kept(Files, Files', b)
  BY <1>2, <1>3, <1>4 DEF Sound
<1>6. PublishedIsBound'
  <2>1. \A x \in incoming \cup processing : x.of \in {"ticket", "health"} =>
          \E q \in DOMAIN (Files').reqs : (Files').reqs[q].agent = x
    BY <1>5, BoundStaysBound
  <2>2. (Files').reqs = reqs' /\ incoming' = incoming /\ processing' = processing
    BY DEF Files, queueVars, agentVars
  <2> QED
    BY <2>1, <2>2 DEF PublishedIsBound
<1>7. GitHubTypes'
  BY <1>4 DEF LaneInv, GitHubTypes, github
<1>8. Good(Files, done)' /\ ThreadsSound(Files, thread)'
  BY <1>4, <1>5
<1> QED
  BY <1>3, <1>4, <1>6, <1>7, <1>8 DEF LaneInv

(* A thread that only goes on leaves the files as they are.                    *)
LEMMA ThreadKeepsLane ==
  ASSUME LaneInv, NEW a \in Threads, NEW next \in ThreadRecords,
         thread' = StartLoop([thread EXCEPT ![a] = next]),
         UNCHANGED <<laneFiles, lease, github, crashes, queueVars>>, cache' \subseteq Commits,
         ThreadSound(Files, next, a), next.pc \notin HoldsRequest
  PROVE  LaneInv'
<1>1. Files' = Files /\ done' = done
  BY DEF Files, laneFiles, queueVars, agentVars
<1>2. Good(Files, done) /\ Sound(Files, Files, 0, done)
  BY SoundIsPreorder DEF LaneInv
<1>3. thread' \in [Threads -> ThreadRecords] /\ ThreadsSound(Files, thread')
  <2>1. thread \in [Threads -> ThreadRecords] /\ ThreadsSound(Files, thread)
    BY DEF LaneInv
  <2> DEFINE new == StartLoop([thread EXCEPT ![a] = next])
             f == Files
  <2>2. Good(f, done) /\ Sound(f, f, 0, done) /\ ThreadsSound(f, thread)
        /\ ThreadSound(f, next, a)
    BY <1>2, <2>1
  <2> HIDE DEF f
  <2>3. new \in [Threads -> ThreadRecords] /\ ThreadsSound(f, new)
    BY <2>1, <2>2, ThreadsStaySound
  <2> QED
    BY <2>3 DEF f
<1>4. AgentTypes' /\ GitHubTypes' /\ AnswersAreTrue' /\ PublishedIsBound'
  BY DEF LaneInv, AgentTypes, GitHubTypes, AnswersAreTrue, PublishedIsBound, laneFiles,
         github, queueVars, agentVars
<1> QED
  BY <1>1, <1>2, <1>3, <1>4 DEF LaneInv

-----------------------------------------------------------------------------
(* One lemma per operation of the lane.                                        *)

LEMMA IdleThread ==
  /\ Idle \in ThreadRecords /\ Idle.pc \notin HoldsRequest
  /\ \A f, c : ThreadSound(f, Idle, c)
  /\ "tool" \in Threads /\ "loop" \in Threads
BY DEF Idle, ThreadRecords, ThreadSound, HoldsRequest, Threads

(* What the invariant says of each file and thread.                           *)
LEMMA LaneFacts ==
  ASSUME LaneInv
  PROVE  /\ Good(Files, done) /\ Files \in FileStates
         /\ Files.reqs = reqs /\ Files.ready = ready /\ Files.active = active
         /\ Files.archive = archive /\ Files.lease = lease
         /\ \A a \in Threads : thread[a] \in ThreadRecords /\ ThreadSound(Files, thread[a], a)
         /\ \A q \in DOMAIN reqs : reqs[q] \in RequestRecords /\ RequestSound(reqs[q], done)
         /\ active \in TicketRecords
         /\ active # NoTicket => active.req \in DOMAIN reqs /\ active.head \in Commits
<1>1. Good(Files, done) /\ Files \in FileStates
  BY DEF LaneInv, Good
<1>2. /\ Files.reqs = reqs /\ Files.ready = ready /\ Files.active = active
      /\ Files.archive = archive /\ Files.lease = lease
  BY DEF Files
<1>3. \A a \in Threads : thread[a] \in ThreadRecords /\ ThreadSound(Files, thread[a], a)
  BY DEF LaneInv, ThreadsSound
<1>4. \A q \in DOMAIN reqs : reqs[q] \in RequestRecords /\ RequestSound(reqs[q], done)
  BY <1>1, <1>2, ElementOfSeq, LenProperties DEF Good, FileStates
<1>5. active \in TicketRecords
  BY <1>1, <1>2 DEF FileStates
<1>6. active # NoTicket => active.req \in DOMAIN reqs /\ active.head \in Commits
  BY <1>1, <1>2 DEF Good, ActiveIsOne, IsOne, TicketSound
<1> QED
  BY <1>1, <1>2, <1>3, <1>4, <1>5, <1>6

(* A section after which its thread holds no request.                          *)
LEMMA SectionThenIdle ==
  ASSUME LaneInv, NEW a \in Threads, NEW steps, AllSound(steps, Files, 0, done),
         Section(a, steps, Idle), UNCHANGED <<github, cache, queueVars>>,
         a = "tool" => \A g \in Range(steps) : ready \subseteq g.ready
  PROVE  LaneInv'
BY IdleThread, SectionKeepsLane

LEMMA EnqueueDeploymentKeeps ==
  ASSUME LaneInv, NEW c \in Candidates, NEW id \in CallerIds, EnqueueDeployment(c, id)
  PROVE  LaneInv'
<1> DEFINE next == [Idle EXCEPT !.pc = "admit", !.req = c, !.id = id, !.main = main]
<1>1. c \in Commits /\ c \in Nat /\ id \in Nat /\ main \in Nat
  BY CommitsAssumption, IdsAssumption DEF Candidates, CallerIds, LaneInv, GitHubTypes
<1>2. next \in ThreadRecords /\ next.pc = "admit" /\ next.req = c
  BY <1>1 DEF Idle, ThreadRecords
<1>3. ThreadSound(Files, next, "tool") /\ next.pc \notin HoldsRequest
  BY <1>1, <1>2 DEF ThreadSound, HoldsRequest
<1>4. /\ thread' = StartLoop([thread EXCEPT !["tool"] = next])
      /\ UNCHANGED <<laneFiles, lease, github, crashes, queueVars>> /\ cache' \subseteq Commits
  BY <1>1 DEF EnqueueDeployment, LaneInv, GitHubTypes
<1> HIDE DEF next
<1> QED
  BY <1>2, <1>3, <1>4, IdleThread, ThreadKeepsLane

(* The section of before_enqueue: an existing request answers, or a new one is *)
(* written; it waits, or the tool thread goes on with it.                      *)
LEMMA AdmitKeeps ==
  ASSUME LaneInv, Admit
  PROVE  LaneInv'
<1> DEFINE c == thread.tool.req
           id == thread.tool.id
           f == Files
           q == Len(reqs) + 1
           new == NewRequest("deploy", c, id, thread.tool.main, 0, "ready")
           written == [f EXCEPT !.reqs = Append(@, new)]
           r == [new EXCEPT !.state = "waiting_promotion"]
           parked == WithReq(written, q, r)
           waits == [parked EXCEPT !.ready = @ \cup {q}]
           next == [Idle EXCEPT !.pc = "activate", !.req = q, !.main = thread.tool.main]
<1>1. /\ c \in Commits /\ id \in Nat /\ thread.tool.main \in Nat
      /\ UNCHANGED <<github, cache, queueVars>>
  BY LaneFacts, IdleThread DEF Admit, ThreadSound, ThreadRecords
<1>2. CASE \E p \in Existing(c, id), late \in BOOLEAN :
             Section("tool", IF late THEN StatusSteps(f, p) ELSE <<>>, Idle)
  <2>1. PICK p \in Existing(c, id), late \in BOOLEAN :
             Section("tool", IF late THEN StatusSteps(f, p) ELSE <<>>, Idle)
    BY <1>2
  <2> DEFINE steps == IF late THEN StatusSteps(f, p) ELSE <<>>
  <2>2. p \in DOMAIN reqs
    BY LaneFacts DEF Existing, Good
  <2>3. AllSound(steps, f, 0, done) /\ \A g \in Range(steps) : g.ready = ready
    <3>1. CASE late
      BY <2>2, <3>1, LaneFacts, StatusStepsAreSound
    <3>2. CASE ~late
      BY <3>2, NoWriteIsSound, RangeOfTuples
    <3> QED
      BY <3>1, <3>2
  <2> HIDE DEF steps, f
  <2> QED
    BY <1>1, <2>1, <2>3, IdleThread, SectionThenIdle DEF steps, f
<1>3. /\ new \in RequestRecords /\ new.agent = Nobody /\ new.term # "succeeded"
      /\ new.ticket = 0 /\ new.head = c /\ new.kind = "deploy"
  BY <1>1 DEF NewRequest, RequestRecords, RequestStates
<1> HIDE DEF new
<1>4. /\ Sound(f, written, 0, done) /\ written.reqs[q] = new /\ written.ready = ready
      /\ written.active = active /\ DOMAIN written.reqs = DOMAIN reqs \cup {q}
      /\ q \in Nat \ DOMAIN reqs
  BY <1>3, LaneFacts, AppendIsSound
<1> HIDE DEF f, q, written
<1>5. CASE Section("tool", <<written>>, next)
  <2>1. AllSound(<<written>>, f, 0, done) /\ Range(<<written>>) = {written}
        /\ After(<<written>>, f) = written
    BY <1>4, OneWriteIsSound
  <2>2. next \in ThreadRecords /\ next.pc = "activate" /\ next.req = q
    BY <1>1, <1>4 DEF Idle, ThreadRecords
  <2>3. q \notin ready
    BY <1>4, LaneFacts DEF Good
  <2>4. ThreadSound(written, next, "tool")
    BY <1>3, <1>4, <2>2, <2>3 DEF ThreadSound
  <2> HIDE DEF next
  <2> QED
    BY <1>1, <1>4, <1>5, <2>1, <2>2, <2>4, IdleThread, SectionKeepsLane DEF f
<1>6. CASE Section("tool", <<written, parked, waits>>, Idle)
  <2>1. Good(written, done) /\ q \in DOMAIN written.reqs
    BY <1>4 DEF Sound
  <2>2. /\ Sound(written, parked, 0, done) /\ parked.ready = ready
        /\ DOMAIN parked.reqs = DOMAIN written.reqs /\ parked.reqs[q] = r
    <3>1. /\ r \in RequestRecords /\ r.kind = new.kind /\ r.head = new.head
          /\ r.agent = new.agent /\ r.ticket = new.ticket /\ r.term = new.term
      BY <1>3 DEF RequestRecords, RequestStates
    <3>2. RequestSound(r, done)
      BY <1>3, <3>1 DEF RequestSound
    <3> HIDE DEF r
    <3> QED
      BY <1>4, <2>1, <3>1, <3>2, WithReqIsSound
  <2>3. Sound(f, parked, 0, done)
    BY <1>4, <2>2, SoundIsPreorder
  <2>4. r.agent = Nobody
    BY <1>3 DEF RequestRecords
  <2>5. Sound(f, waits, 0, done) /\ ready \subseteq waits.ready
    <3> DEFINE S == parked.ready \cup {q}
    <3>1. Good(parked, done) /\ parked.ready \subseteq DOMAIN parked.reqs
          /\ \A p \in parked.ready : parked.reqs[p].agent = Nobody
      BY <2>3 DEF Sound, Good
    <3>2. S \in SUBSET DOMAIN parked.reqs /\ \A p \in S : parked.reqs[p].agent = Nobody
      BY <1>4, <2>2, <2>4, <3>1
    <3> HIDE DEF S, parked
    <3>3. Good([parked EXCEPT !.ready = S], done)
          /\ [parked EXCEPT !.ready = S].reqs = parked.reqs
          /\ [parked EXCEPT !.ready = S].ready = S
      BY <3>1, <3>2, ReadyIsSound
    <3>4. waits = [parked EXCEPT !.ready = S]
      BY DEF S
    <3>5. Kept(f, waits, 0)
      <4>1. Kept(f, parked, 0) /\ DOMAIN f.reqs = DOMAIN reqs
        BY <2>3 DEF Sound, f, Files
      <4>2. \A p \in S : p \in DOMAIN f.reqs => p \in parked.ready
        BY <1>4, <4>1 DEF S
      <4> QED
        BY <3>3, <3>4, <4>1, <4>2 DEF Kept
    <3> QED
      BY <2>2, <3>3, <3>4, <3>5 DEF Sound, S
  <2> HIDE DEF parked, waits
  <2>6. written \in FileStates /\ parked \in FileStates /\ waits \in FileStates
    BY <1>4, <2>3, <2>5, SoundIsPreorder
  <2>7. AllSound(<<written, parked, waits>>, f, 0, done)
        /\ Range(<<written, parked, waits>>) = {written, parked, waits}
    BY <1>4, <2>3, <2>5, <2>6, RangeOfTuples DEF AllSound
  <2>8. \A g \in Range(<<written, parked, waits>>) : ready \subseteq g.ready
    BY <1>4, <2>2, <2>5, <2>7
  <2> QED
    BY <1>1, <1>6, <2>7, <2>8, IdleThread, SectionThenIdle DEF f
<1> QED
  BY <1>2, <1>5, <1>6 DEF Admit, f, q, new, written

(* One more write at the end of a list.                                        *)
LEMMA AppendedWriteIsSound ==
  ASSUME NEW D, NEW f, NEW b, NEW steps, AllSound(steps, f, b, D), NEW g, Sound(f, g, b, D)
  PROVE  /\ AllSound(Append(steps, g), f, b, D)
         /\ Range(Append(steps, g)) = Range(steps) \cup {g}
         /\ \A h : After(Append(steps, g), h) = g
<1>1. g \in FileStates /\ steps \in Seq(FileStates) /\ <<g>> \in Seq(FileStates)
  BY SoundIsPreorder DEF AllSound
<1> DEFINE s == <<g>>
<1>2. Range(s) = {g} /\ \A h : After(s, h) = g
  BY RangeOfTuples DEF After
<1>3. Append(steps, g) = steps \o s /\ s \in Seq(FileStates)
  BY <1>1, AppendIsConcat
<1> HIDE DEF s
<1>4. \A h : /\ steps \o s \in Seq(FileStates)
             /\ Range(steps \o s) = Range(steps) \cup Range(s)
             /\ After(steps \o s, h) = After(s, After(steps, h))
  BY <1>1, <1>3, JoinedWrites
<1> QED
  BY <1>2, <1>3, <1>4 DEF AllSound

LEMMA ActivateKeeps ==
  ASSUME LaneInv, NEW a \in Threads, Activate(a)
  PROVE  LaneInv'
<1> DEFINE f == Files
           q == thread[a].req
           steps == ActivateSteps(f, q, thread[a].main)
           last == After(steps, f)
           taken == [last EXCEPT !.ready = @ \ {q}]
           all == IF a = "loop" THEN Append(steps, taken) ELSE steps
           next == [Idle EXCEPT !.pc = "bind", !.req = q, !.ticket = last.active.ticket]
<1>1. /\ thread[a].pc = "activate" /\ Section(a, all, next)
      /\ UNCHANGED <<github, cache, queueVars>>
  BY DEF Activate
<1>2. /\ q \in DOMAIN reqs /\ thread[a].main \in Nat /\ q \in Nat
      /\ a = "loop" => q \in ready
      /\ a = "tool" => q \notin ready
      /\ reqs[q].agent = Nobody
  <2>1. thread[a] \in ThreadRecords /\ ThreadSound(Files, thread[a], a)
    BY LaneFacts
  <2>2. q \in DOMAIN reqs /\ thread[a].main \in Nat /\ q \in Nat
    BY <1>1, <2>1, LaneFacts DEF ThreadSound, HoldsRequest, ThreadRecords
  <2>3. (a = "loop" => q \in ready) /\ (a = "tool" => q \notin ready /\ reqs[q].agent = Nobody)
    BY <1>1, <2>1, LaneFacts DEF ThreadSound
  <2>4. q \in ready => reqs[q].agent = Nobody
    BY LaneFacts DEF Good
  <2> QED
    BY <2>2, <2>3, <2>4 DEF Threads
<1>3. /\ AllSound(steps, f, 0, done)
      /\ \A g \in Range(steps) : g.ready = ready /\ g.active.ticket \in Nat \ {0}
      /\ last \in Range(steps)
  BY <1>2, LaneFacts, ActivateStepsAreSound
<1> HIDE DEF steps
<1>4. /\ Sound(f, last, 0, done) /\ last.ready = ready /\ last.active.ticket \in Nat \ {0}
      /\ last.reqs[q].agent = Nobody
  <2>1. Sound(f, last, 0, done)
    BY <1>3 DEF AllSound
  <2>2. last.reqs[q].agent = reqs[q].agent
    <3>1. f.reqs = reqs /\ q \in DOMAIN f.reqs /\ f.reqs \in Seq(RequestRecords)
      BY <1>2, LaneFacts DEF FileStates
    <3>2. q # 0
      BY ONLY <3>1, LenProperties
    <3> QED
      BY ONLY <2>1, <3>1, <3>2 DEF Sound, Kept
  <2> QED
    BY <1>2, <1>3, <2>1, <2>2
<1> HIDE DEF last
<1>5. /\ Sound(f, taken, 0, done) /\ taken.ready = ready \ {q}
      /\ taken.reqs = last.reqs /\ taken.active = last.active
  <2> DEFINE S == last.ready \ {q}
  <2>1. /\ Good(last, done) /\ S \in SUBSET DOMAIN last.reqs /\ S \subseteq last.ready
        /\ \A p \in S : last.reqs[p].agent = Nobody
    BY <1>4 DEF Sound, Good
  <2>2. taken = [last EXCEPT !.ready = S] /\ S = ready \ {q}
    BY <1>4
  <2> HIDE DEF S, taken
  <2>3. /\ Sound(last, taken, 0, done) /\ taken.ready = S
        /\ taken.reqs = last.reqs /\ taken.active = last.active
    BY <2>1, <2>2, ReadyIsSound
  <2> QED
    BY <1>4, <2>2, <2>3, SoundIsPreorder
<1> HIDE DEF taken
<1>6. /\ AllSound(all, f, 0, done)
      /\ a = "tool" => \A g \in Range(all) : ready \subseteq g.ready
      /\ After(all, f) = IF a = "loop" THEN taken ELSE last
  <2>1. CASE a = "loop"
    BY <1>3, <1>5, <2>1, AppendedWriteIsSound
  <2>2. CASE a = "tool"
    BY <1>3, <2>2 DEF last
  <2> QED
    BY <2>1, <2>2 DEF Threads
<1> HIDE DEF all
<1>7. /\ next \in ThreadRecords /\ next.pc = "bind" /\ next.req = q
      /\ next.ticket = last.active.ticket
  BY <1>2, <1>4 DEF Idle, ThreadRecords
<1> HIDE DEF next
<1>8. ThreadSound(After(all, f), next, a)
  <2>1. q \in DOMAIN last.reqs
    BY <1>2, <1>4, LaneFacts DEF Sound, Kept
  <2>2. q \notin After(all, f).ready /\ After(all, f).reqs = last.reqs
    BY <1>2, <1>4, <1>5, <1>6 DEF Threads
  <2> QED
    BY <1>4, <1>7, <2>1, <2>2 DEF ThreadSound, HoldsRequest
<1>9. thread[a].pc \in HoldsRequest /\ next.req = thread[a].req
  BY <1>1, <1>7 DEF HoldsRequest
<1> QED
  BY <1>1, <1>6, <1>7, <1>8, <1>9, SectionKeepsLane DEF f

LEMMA EnqueueHealthKeeps ==
  ASSUME LaneInv, EnqueueHealth
  PROVE  LaneInv'
<1> DEFINE f == Files
           q == Len(reqs) + 1
           new == NewRequest("health", active.head, reqs[active.req].id, active.main, active.ticket,
                             "dispatching")
           written == [f EXCEPT !.reqs = Append(@, new)]
           t == [active EXCEPT !.state = "health_pending", !.health = q]
           more == TicketSteps(written, t)
           steps == <<written>> \o more
           next == [Idle EXCEPT !.pc = "bind", !.req = q, !.ticket = active.ticket]
<1>1. /\ active # NoTicket /\ Section("tool", steps, next)
      /\ UNCHANGED <<github, cache, queueVars>>
  BY DEF EnqueueHealth
<1>2. /\ active \in TicketRecords /\ active.head \in Commits /\ active.ticket \in Nat \ {0}
      /\ reqs[active.req].id \in Nat
  BY <1>1, LaneFacts DEF Good, TicketSound, TicketRecords, RequestRecords
<1>3. /\ new \in RequestRecords /\ new.agent = Nobody /\ new.term # "succeeded"
      /\ new.ticket = active.ticket /\ new.head = active.head
  BY <1>2 DEF NewRequest, RequestRecords, RequestStates, TicketRecords
<1> HIDE DEF new
<1>4. /\ Sound(f, written, 0, done) /\ written.reqs[q] = new /\ written.ready = ready
      /\ written.active = active /\ DOMAIN written.reqs = DOMAIN reqs \cup {q}
      /\ q \in Nat \ DOMAIN reqs
  <2>1. /\ Good(f, done) /\ f.active # NoTicket /\ new.ticket = f.active.ticket
        /\ new.head = f.active.head
        /\ f.reqs = reqs /\ f.ready = ready /\ f.active = active
    BY <1>1, <1>3, LaneFacts
  <2> HIDE DEF f
  <2> QED
    BY <1>3, <2>1, AppendIsSound
<1> HIDE DEF f, q, written
<1>5. /\ t \in TicketRecords /\ t.ticket = active.ticket /\ t.head = active.head
      /\ t.req = active.req /\ t.accepted = active.accepted
  BY <1>2, <1>4 DEF TicketRecords, Blocking
<1> HIDE DEF t
<1>6. /\ AllSound(more, written, 0, done)
      /\ \A g \in Range(more) : g.reqs = written.reqs /\ g.ready = written.ready
      /\ \A h : After(more, h) \in Range(more)
  BY <1>1, <1>4, <1>5, TouchedIsSound DEF Sound
<1> HIDE DEF more
<1>7. /\ AllSound(steps, f, 0, done) /\ Range(steps) = {written} \cup Range(more)
      /\ After(steps, f) = After(more, written)
  BY <1>4, <1>6, AfterWriteIsSound
<1> HIDE DEF steps
<1>8. /\ \A g \in Range(steps) : ready \subseteq g.ready
      /\ After(steps, f).reqs = written.reqs /\ After(steps, f).ready = ready
  BY <1>4, <1>6, <1>7
<1>9. /\ next \in ThreadRecords /\ next.pc = "bind" /\ next.req = q
      /\ next.ticket = active.ticket
  BY <1>2, <1>4 DEF Idle, ThreadRecords
<1> HIDE DEF next
<1>10. q \notin ready
  BY <1>4, LaneFacts DEF Good
<1>11. ThreadSound(After(steps, f), next, "tool")
  BY <1>2, <1>3, <1>4, <1>8, <1>9, <1>10 DEF ThreadSound, HoldsRequest
<1>12. /\ next.req \notin DOMAIN reqs /\ AllSound(steps, Files, 0, done)
       /\ ThreadSound(After(steps, Files), next, "tool")
       /\ \A g \in Range(steps) : ready \subseteq g.ready
  BY <1>4, <1>7, <1>8, <1>9, <1>11 DEF f
<1> QED
  BY <1>1, <1>9, <1>12, IdleThread, SectionKeepsLane

(* The agent id of a thread that holds a request is an id for that request.    *)
LEMMA AgentIdIsSound ==
  ASSUME LaneInv, NEW a \in Threads, thread[a].pc \in HoldsRequest
  PROVE  /\ AgentId(a) = IdOf(Files, thread[a]) /\ AgentId(a) \in AgentIds
         /\ LET r == reqs[thread[a].req] IN
              /\ AgentId(a).of = (IF r.kind = "deploy" THEN "ticket" ELSE "health")
              /\ AgentId(a).kind = r.kind /\ AgentId(a).head = r.head
<1>1. thread[a].req \in DOMAIN reqs /\ thread[a] \in ThreadRecords
  BY LaneFacts DEF ThreadSound
<1>2. reqs[thread[a].req] \in RequestRecords
  BY <1>1, LaneFacts
<1>3. AgentId(a) = IdOf(Files, thread[a])
  BY LaneFacts DEF AgentId, IdOf
<1> QED
  BY <1>1, <1>2, <1>3 DEF AgentId, Request, AgentIds, RequestRecords, ThreadRecords

LEMMA BindKeeps ==
  ASSUME LaneInv, NEW a \in Threads, Bind(a)
  PROVE  LaneInv'
<1> DEFINE f == Files
           q == thread[a].req
           r == Bound(reqs[q], a)
           bound == WithReq(f, q, r)
           t == IF reqs[q].kind = "deploy"
                THEN [active EXCEPT !.agent = AgentId(a), !.state = "deploying"]
                ELSE [active EXCEPT !.hagent = AgentId(a), !.state = "health_pending"]
           more == IF active # NoTicket /\ active.ticket = reqs[q].ticket
                   THEN TicketSteps(bound, t) ELSE <<>>
           steps == <<bound>> \o more
           next == [thread[a] EXCEPT !.pc = "publish"]
<1>1. /\ thread[a].pc = "bind" /\ Section(a, steps, next)
      /\ UNCHANGED <<github, cache, queueVars>>
  BY DEF Bind
<1>2. /\ q \in DOMAIN reqs /\ reqs[q].agent = Nobody /\ q \notin ready
      /\ thread[a] \in ThreadRecords
  <2>1. thread[a] \in ThreadRecords /\ ThreadSound(Files, thread[a], a)
    BY LaneFacts
  <2> QED
    BY <1>1, <2>1, LaneFacts DEF ThreadSound, HoldsRequest
<1>3. /\ AgentId(a) = IdOf(f, thread[a]) /\ AgentId(a) \in AgentIds
      /\ AgentId(a).of = (IF reqs[q].kind = "deploy" THEN "ticket" ELSE "health")
      /\ AgentId(a).kind = reqs[q].kind /\ AgentId(a).head = reqs[q].head
  BY <1>1, AgentIdIsSound DEF HoldsRequest
<1>4. /\ r \in RequestRecords /\ r.agent = AgentId(a) /\ r.kind = reqs[q].kind
      /\ r.head = reqs[q].head /\ r.ticket = reqs[q].ticket /\ r.term = reqs[q].term
  BY <1>2, <1>3, LaneFacts DEF Bound, RequestRecords, RequestStates
<1>5. RequestSound(r, done)
  <2>1. reqs[q].term # "succeeded"
    <3>1. Nobody \notin done
      BY DEF LaneInv, AgentTypes, AgentIds, Nobody
    <3> QED
      BY <1>2, <3>1, LaneFacts DEF RequestSound
  <2> QED
    BY <1>3, <1>4, <2>1 DEF RequestSound
<1> HIDE DEF r
<1>6. /\ Sound(f, bound, q, done) /\ bound.ready = ready /\ bound.active = active
      /\ bound.reqs[q] = r /\ DOMAIN bound.reqs = DOMAIN reqs
  BY <1>2, <1>4, <1>5, LaneFacts, WithReqIsSound
<1> HIDE DEF bound
<1>7. /\ AllSound(more, bound, q, done)
      /\ \A g \in Range(more) : g.reqs = bound.reqs /\ g.ready = bound.ready
  <2>1. CASE more = <<>>
    BY <2>1, NoWriteIsSound, RangeOfTuples
  <2>2. CASE active # NoTicket /\ active.ticket = reqs[q].ticket
    <3>1. /\ t \in TicketRecords /\ t.ticket = active.ticket /\ t.head = active.head
          /\ t.req = active.req /\ t.accepted = active.accepted
      BY <1>3, LaneFacts DEF TicketRecords, Blocking
    <3>2. Good(bound, done)
      BY <1>6 DEF Sound
    <3> HIDE DEF t
    <3> QED
      BY <1>6, <2>2, <3>1, <3>2, TouchedIsSound
  <2> QED
    BY <2>1, <2>2
<1> HIDE DEF more
<1>8. /\ AllSound(steps, f, q, done) /\ Range(steps) = {bound} \cup Range(more)
      /\ After(steps, f) = After(more, bound)
  BY <1>6, <1>7, AfterWriteIsSound
<1>9. After(more, bound) \in {bound} \cup Range(more)
  BY <1>7, LastWrite DEF AllSound
<1> HIDE DEF steps
<1>10. /\ \A g \in Range(steps) : ready \subseteq g.ready
       /\ After(steps, f).reqs = bound.reqs
  BY <1>6, <1>7, <1>8, <1>9
<1>11. /\ next \in ThreadRecords /\ next.pc = "publish" /\ next.req = q
       /\ next.ticket = thread[a].ticket
  BY <1>2 DEF ThreadRecords
<1>12. IdOf(After(steps, f), next) = IdOf(f, thread[a])
  BY <1>4, <1>6, <1>10, <1>11, LaneFacts DEF IdOf
<1> HIDE DEF next, f
<1>13. ThreadSound(After(steps, f), next, a)
  BY <1>2, <1>3, <1>4, <1>6, <1>10, <1>11, <1>12 DEF ThreadSound, HoldsRequest
<1>14. thread[a].pc \in HoldsRequest /\ next.req = thread[a].req
  BY <1>1, <1>11 DEF HoldsRequest
<1>15. q = 0 \/ (thread[a].pc = "bind" /\ q = thread[a].req)
  BY <1>1
<1> HIDE DEF q
<1> QED
  BY <1>1, <1>8, <1>10, <1>11, <1>13, <1>14, <1>15, SectionKeepsLane DEF f

LEMMA BindFailsKeeps ==
  ASSUME LaneInv, NEW a \in Threads, BindFails(a)
  PROVE  LaneInv'
<1> DEFINE t == [active EXCEPT !.state = "decision_required"]
           steps == IF a = "loop" /\ active.ticket = thread[a].ticket
                    THEN TicketSteps(Files, t) ELSE <<>>
<1>1. /\ thread[a].pc = "bind" /\ Section(a, steps, Idle)
      /\ UNCHANGED <<github, cache, queueVars>>
  BY DEF BindFails
<1>2. AllSound(steps, Files, 0, done) /\ \A g \in Range(steps) : g.ready = ready
  <2>1. CASE steps = <<>>
    BY <2>1, NoWriteIsSound, RangeOfTuples
  <2>2. CASE active.ticket = thread[a].ticket
    <3>1. active # NoTicket
      BY <1>1, <2>2, LaneFacts DEF ThreadSound, NoTicket
    <3>2. /\ t \in TicketRecords /\ t.ticket = active.ticket /\ t.head = active.head
          /\ t.req = active.req /\ t.accepted = active.accepted
      BY LaneFacts DEF TicketRecords, Blocking
    <3> HIDE DEF t
    <3>3. AllSound(TicketSteps(Files, t), Files, 0, done)
          /\ \A g \in Range(TicketSteps(Files, t)) : g.ready = ready
      BY <3>1, <3>2, LaneFacts, TouchedIsSound
    <3> QED
      BY <2>1, <3>3
  <2> QED
    BY <2>1, <2>2
<1> HIDE DEF steps
<1> QED
  BY <1>1, <1>2, SectionThenIdle

(* The signed file becomes visible only when its id is in the request file.    *)
LEMMA PublishKeeps ==
  ASSUME LaneInv, NEW a \in Threads, Publish(a)
  PROVE  LaneInv'
<1>1. /\ thread[a].pc = "publish" /\ incoming' = incoming \cup {AgentId(a)}
      /\ thread' = [thread EXCEPT ![a] = Idle]
      /\ UNCHANGED <<laneFiles, lease, github, cache, crashes, plan, others>> /\ UNCHANGED agentVars
  BY DEF Publish
<1>2. /\ AgentId(a) \in AgentIds /\ thread[a].req \in DOMAIN reqs
      /\ reqs[thread[a].req].agent = AgentId(a)
  <2>1. ThreadSound(Files, thread[a], a) /\ Files.reqs = reqs
    BY LaneFacts
  <2>2. thread[a].pc \in HoldsRequest
    BY <1>1 DEF HoldsRequest
  <2> QED
    BY <1>1, <2>1, <2>2, AgentIdIsSound DEF ThreadSound
<1>3. Files' = Files
  BY <1>1 DEF Files, laneFiles
<1>4. thread' \in [Threads -> ThreadRecords] /\ ThreadsSound(Files, thread')
  BY <1>1, IdleThread DEF LaneInv, ThreadsSound, Threads
<1>5. PublishedIsBound'
  BY <1>1, <1>2 DEF LaneInv, PublishedIsBound, laneFiles, agentVars
<1>6. AgentTypes' /\ GitHubTypes' /\ AnswersAreTrue'
  BY <1>1, <1>2 DEF LaneInv, AgentTypes, GitHubTypes, AnswersAreTrue, github, agentVars
<1>7. Good(Files', done')
  BY <1>1, <1>3 DEF LaneInv, agentVars
<1> QED
  BY <1>3, <1>4, <1>5, <1>6, <1>7 DEF LaneInv

LEMMA PublishFailsKeeps ==
  ASSUME LaneInv, NEW a \in Threads, PublishFails(a)
  PROVE  LaneInv'
<1> DEFINE f == Files
           q == thread[a].req
           r == [reqs[q] EXCEPT !.agent = AgentId(a), !.state = "failed",
                                !.term = "not_published"]
           failed == WithReq(f, q, r)
           more == IF active # NoTicket /\ active.ticket = reqs[q].ticket
                   THEN ArchiveSteps(failed, active, "failed") ELSE <<>>
           steps == <<failed>> \o more
<1>1. /\ thread[a].pc = "publish" /\ Section(a, steps, Idle)
      /\ UNCHANGED <<github, cache, queueVars>>
  BY DEF PublishFails
<1>2. q \in DOMAIN reqs /\ reqs[q].agent = AgentId(a)
  <2>1. ThreadSound(Files, thread[a], a) /\ Files.reqs = reqs
    BY LaneFacts
  <2>2. thread[a].pc \in HoldsRequest
    BY <1>1 DEF HoldsRequest
  <2> QED
    BY <1>1, <2>1, <2>2, AgentIdIsSound DEF ThreadSound
<1>3. /\ r \in RequestRecords /\ r.agent = reqs[q].agent /\ r.kind = reqs[q].kind
      /\ r.head = reqs[q].head /\ r.ticket = reqs[q].ticket /\ RequestSound(r, done)
  <2>1. reqs[q] \in RequestRecords /\ RequestSound(reqs[q], done)
    BY <1>2, LaneFacts
  <2>2. /\ r \in RequestRecords /\ r.agent = reqs[q].agent /\ r.kind = reqs[q].kind
        /\ r.head = reqs[q].head /\ r.ticket = reqs[q].ticket /\ r.term # "succeeded"
    BY <1>2, <2>1 DEF RequestRecords, RequestStates
  <2> HIDE DEF r
  <2> QED
    BY <2>1, <2>2 DEF RequestSound
<1> HIDE DEF r
<1>4. Sound(f, failed, 0, done) /\ failed.ready = ready /\ failed.active = active
  <2>1. Good(f, done) /\ f.reqs = reqs /\ f.ready = ready /\ f.active = active
    BY LaneFacts
  <2> HIDE DEF f
  <2> QED
    BY <1>2, <1>3, <2>1, WithReqIsSound
<1> HIDE DEF failed
<1>5. /\ AllSound(more, failed, 0, done)
      /\ \A g \in Range(more) : g.ready = ready
  <2>1. CASE more = <<>>
    BY <2>1, NoWriteIsSound, RangeOfTuples
  <2>2. CASE active # NoTicket
    <3>1. Good(failed, done) /\ "failed" \in Blocking \cup FinalTicket
      BY <1>4 DEF Sound, FinalTicket
    <3>2. AllSound(ArchiveSteps(failed, active, "failed"), failed, 0, done)
          /\ \A g \in Range(ArchiveSteps(failed, active, "failed")) : g.ready = ready
      BY <1>4, <2>2, <3>1, ArchiveStepsAreSound
    <3> QED
      BY <2>1, <3>2
  <2> QED
    BY <2>1, <2>2
<1> HIDE DEF more
<1>6. AllSound(steps, f, 0, done) /\ \A g \in Range(steps) : g.ready = ready
  <2>1. AllSound(steps, f, 0, done) /\ Range(steps) = {failed} \cup Range(more)
    BY <1>4, <1>5, AfterWriteIsSound
  <2> QED
    BY <1>4, <1>5, <2>1
<1> HIDE DEF steps
<1> QED
  BY <1>1, <1>6, SectionThenIdle

(* What an answer proves about the request it is read for.                     *)
LEMMA AnswerIsEarned ==
  ASSUME LaneInv, NEW q \in DOMAIN reqs, NEW ans \in responses, ans.req = reqs[q].agent, ans.ok
  PROVE  /\ reqs[q].agent \in done /\ CarriedOut(reqs[q].head, done)
         /\ active # NoTicket /\ active.ticket = reqs[q].ticket => CarriedOut(active.head, done)
<1>1. reqs[q].agent \in done
  BY DEF LaneInv, AnswersAreTrue
<1>2. reqs[q].agent # Nobody
  BY <1>1 DEF LaneInv, AgentTypes, AgentIds, Nobody
<1>3. reqs[q].agent.head = reqs[q].head /\ reqs[q].agent.kind = reqs[q].kind
      /\ reqs[q].kind \in {"deploy", "health"}
  BY <1>2, LaneFacts DEF RequestSound, RequestRecords
<1>4. CarriedOut(reqs[q].head, done)
  BY <1>1, <1>3 DEF CarriedOut
<1>5. active # NoTicket /\ active.ticket = reqs[q].ticket => active.head = reqs[q].head
  BY LaneFacts DEF Good, ActiveIsOne, IsOne
<1> QED
  BY <1>1, <1>4, <1>5

(* An answer is noted in its request, and then in the ticket, if it is in the  *)
(* lane: nothing, a new state, or its end.                                     *)
LEMMA AnswerStepsAreSound ==
  ASSUME LaneInv, NEW q \in DOMAIN reqs, NEW state \in RequestStates,
         NEW term \in {"succeeded", "failed"}, term = "succeeded" => reqs[q].agent \in done,
         NEW noted, noted = WithReq(Files, q, [reqs[q] EXCEPT !.state = state, !.term = term]),
         NEW more,
         \/ more = <<>>
         \/ active # NoTicket /\ more = ArchiveSteps(noted, active, "failed")
         \/ /\ active # NoTicket
            /\ \E t \in TicketRecords :
                 /\ more = TicketSteps(noted, t)
                 /\ t.ticket = active.ticket /\ t.head = active.head /\ t.req = active.req
                 /\ t.accepted => active.accepted \/ CarriedOut(t.head, done)
  PROVE  /\ AllSound(<<noted>> \o more, Files, 0, done)
         /\ \A g \in Range(<<noted>> \o more) : g.ready = ready
<1>1. Sound(Files, noted, 0, done) /\ noted.ready = ready /\ noted.active = active
  <2> DEFINE f == Files
             r == [f.reqs[q] EXCEPT !.state = state, !.term = term]
  <2>1. /\ Good(f, done) /\ f.reqs = reqs /\ f.ready = ready /\ f.active = active
        /\ noted = WithReq(f, q, r) /\ f = Files
    BY LaneFacts
  <2>2. r = Ended(f.reqs[q], state, term)
    BY DEF Ended
  <2> HIDE DEF f, r
  <2>3. /\ Sound(f, WithReq(f, q, r), 0, done)
        /\ WithReq(f, q, r).ready = f.ready /\ WithReq(f, q, r).active = f.active
    <3>1. /\ term \in {"none", "succeeded", "failed", "not_published"}
          /\ q \in DOMAIN f.reqs
          /\ term = "succeeded" => f.reqs[q].agent \in done
      BY <2>1
    <3> QED
      BY <2>1, <2>2, <3>1, NotedIsSound
  <2> QED
    BY <2>1, <2>3
<1>2. Good(noted, done)
  BY <1>1 DEF Sound
<1>3. AllSound(more, noted, 0, done) /\ \A g \in Range(more) : g.ready = ready
  <2>1. CASE more = <<>>
    BY <2>1, NoWriteIsSound, RangeOfTuples
  <2>2. CASE active # NoTicket /\ more = ArchiveSteps(noted, active, "failed")
    <3>1. "failed" \in Blocking \cup FinalTicket
      BY DEF FinalTicket
    <3>2. noted.active = active /\ noted.ready = ready /\ noted.active # NoTicket
      BY <1>1, <2>2
    <3>3. /\ AllSound(ArchiveSteps(noted, noted.active, "failed"), noted, 0, done)
          /\ \A g \in Range(ArchiveSteps(noted, noted.active, "failed")) : g.ready = noted.ready
      BY ONLY <1>2, <3>1, <3>2, ArchiveStepsAreSound
    <3> QED
      BY <2>2, <3>2, <3>3
  <2>3. CASE /\ active # NoTicket
             /\ \E t \in TicketRecords :
                  /\ more = TicketSteps(noted, t)
                  /\ t.ticket = active.ticket /\ t.head = active.head /\ t.req = active.req
                  /\ t.accepted => active.accepted \/ CarriedOut(t.head, done)
    BY <1>1, <1>2, <2>3, TouchedIsSound
  <2> QED
    BY <2>1, <2>2, <2>3
<1>4. /\ AllSound(<<noted>> \o more, Files, 0, done)
      /\ Range(<<noted>> \o more) = {noted} \cup Range(more)
  BY <1>1, <1>3, AfterWriteIsSound
<1> QED
  BY <1>1, <1>3, <1>4

LEMMA ObserveKeeps ==
  ASSUME LaneInv, NEW q \in DOMAIN reqs, Observe(q)
  PROVE  LaneInv'
<1>1. PICK ans \in responses :
        /\ ans.req = reqs[q].agent
        /\ Section("tool", IF reqs[q].kind = "deploy" THEN DeployAnswerSteps(q, ans)
                                                      ELSE HealthAnswerSteps(q, ans), Idle)
  BY DEF Observe
<1>2. UNCHANGED <<github, cache, queueVars>> /\ active \in TicketRecords
      /\ ans.ok \in BOOLEAN /\ ans.accepted \in BOOLEAN
  BY LaneFacts DEF Observe, LaneInv, AgentTypes
<1>3. CASE reqs[q].kind = "deploy"
  <2> DEFINE state == IF ~ans.ok THEN "failed" ELSE IF ans.accepted THEN "pre_merge" ELSE "acceptance"
             term == IF ans.ok THEN "succeeded" ELSE "failed"
             noted == WithReq(Files, q, [reqs[q] EXCEPT !.state = state, !.term = term])
             mine == active # NoTicket /\ active.ticket = reqs[q].ticket
             t == [active EXCEPT !.state = state, !.accepted = @ \/ ans.accepted]
             more == IF ~ans.ok THEN IF mine THEN ArchiveSteps(noted, active, "failed") ELSE <<>>
                     ELSE IF mine /\ active.state # "pre_merge" THEN TicketSteps(noted, t)
                     ELSE <<>>
             steps == DeployAnswerSteps(q, ans)
  <2>1. AllSound(steps, Files, 0, done) /\ \A g \in Range(steps) : g.ready = ready
    <3>1. CASE ans.ok /\ reqs[q].state \in ForwardSuccess
      <4>1. steps = <<>>
        BY <3>1 DEF DeployAnswerSteps
      <4> QED
        BY <4>1, NoWriteIsSound, RangeOfTuples
    <3>2. CASE ~(ans.ok /\ reqs[q].state \in ForwardSuccess)
      <4>1. steps = <<noted>> \o more
        BY <3>2 DEF DeployAnswerSteps
      <4>2. state \in RequestStates /\ term \in {"succeeded", "failed"}
            /\ (term = "succeeded" => ans.ok) /\ (ans.ok => state \in Blocking)
        BY <1>2 DEF RequestStates, Blocking
      <4>3. term = "succeeded" => reqs[q].agent \in done
        BY <1>1, <4>2, AnswerIsEarned
      <4>4. ans.ok /\ mine => /\ t \in TicketRecords /\ t.ticket = active.ticket
                              /\ t.head = active.head /\ t.req = active.req
                              /\ CarriedOut(t.head, done)
        BY <1>1, <1>2, <4>2, AnswerIsEarned DEF TicketRecords
      <4> HIDE DEF state, term, noted, t
      <4>5. \/ more = <<>>
            \/ active # NoTicket /\ more = ArchiveSteps(noted, active, "failed")
            \/ /\ active # NoTicket
               /\ \E u \in TicketRecords :
                    /\ more = TicketSteps(noted, u)
                    /\ u.ticket = active.ticket /\ u.head = active.head /\ u.req = active.req
                    /\ u.accepted => active.accepted \/ CarriedOut(u.head, done)
        BY <4>4
      <4> HIDE DEF more, steps
      <4>6. noted = WithReq(Files, q, [reqs[q] EXCEPT !.state = state, !.term = term])
        BY DEF noted
      <4>7. /\ AllSound(<<noted>> \o more, Files, 0, done)
            /\ \A g \in Range(<<noted>> \o more) : g.ready = ready
        BY <4>2, <4>3, <4>5, <4>6, AnswerStepsAreSound
      <4> QED
        BY <4>1, <4>7
    <3> QED
      BY <3>1, <3>2
  <2> HIDE DEF steps
  <2>2. Section("tool", steps, Idle)
    BY <1>1, <1>3 DEF steps
  <2> QED
    BY <1>2, <2>1, <2>2, IdleThread, SectionThenIdle
<1>4. CASE reqs[q].kind # "deploy"
  <2> DEFINE state == IF ans.ok THEN "succeeded" ELSE "failed"
             noted == WithReq(Files, q, [reqs[q] EXCEPT !.state = state, !.term = state])
             t == HealthVerdict(active, reqs[q].agent, ans.ok)
             more == IF active = NoTicket \/ active.ticket # reqs[q].ticket THEN <<>>
                     ELSE TicketSteps(noted, t)
             steps == HealthAnswerSteps(q, ans)
  <2>1. AllSound(steps, Files, 0, done) /\ \A g \in Range(steps) : g.ready = ready
    <3>1. steps = <<noted>> \o more
      BY DEF HealthAnswerSteps
    <3>2. state \in RequestStates /\ state \in {"succeeded", "failed"}
          /\ (state = "succeeded" => ans.ok)
      BY <1>2 DEF RequestStates
    <3>3. state = "succeeded" => reqs[q].agent \in done
      BY <1>1, <3>2, AnswerIsEarned
    <3>4. active # NoTicket /\ active.ticket = reqs[q].ticket =>
            /\ t \in TicketRecords /\ t.ticket = active.ticket
            /\ t.head = active.head /\ t.req = active.req
            /\ t.accepted => active.accepted \/ CarriedOut(t.head, done)
      <4>1. /\ t \in TicketRecords /\ t.ticket = active.ticket
            /\ t.head = active.head /\ t.req = active.req
            /\ ~ans.ok => t.accepted = active.accepted
        <5>1. reqs[q].agent \in AgentIds \cup {Nobody}
          BY <1>1, LaneFacts DEF RequestRecords
        <5> QED
          BY <1>2, <5>1 DEF HealthVerdict, TicketRecords, Blocking
      <4> QED
        BY <1>1, <4>1, AnswerIsEarned
    <3> HIDE DEF state, noted, t
    <3>5. \/ more = <<>>
          \/ active # NoTicket /\ more = ArchiveSteps(noted, active, "failed")
          \/ /\ active # NoTicket
             /\ \E u \in TicketRecords :
                  /\ more = TicketSteps(noted, u)
                  /\ u.ticket = active.ticket /\ u.head = active.head /\ u.req = active.req
                  /\ u.accepted => active.accepted \/ CarriedOut(u.head, done)
      BY <3>4
    <3> HIDE DEF more, steps
    <3>6. noted = WithReq(Files, q, [reqs[q] EXCEPT !.state = state, !.term = state])
      BY DEF noted
    <3>7. /\ AllSound(<<noted>> \o more, Files, 0, done)
          /\ \A g \in Range(<<noted>> \o more) : g.ready = ready
      BY <3>2, <3>3, <3>5, <3>6, AnswerStepsAreSound
    <3> QED
      BY <3>1, <3>7
  <2> HIDE DEF steps
  <2>2. Section("tool", steps, Idle)
    BY <1>1, <1>4 DEF steps
  <2> QED
    BY <1>2, <2>1, <2>2, IdleThread, SectionThenIdle
<1> QED
  BY <1>3, <1>4

LEMMA OrphanStatusKeeps ==
  ASSUME LaneInv, NEW q \in DOMAIN reqs, OrphanStatus(q)
  PROVE  LaneInv'
<1>1. Section("tool", StatusSteps(Files, q), Idle) /\ UNCHANGED <<github, cache, queueVars>>
  BY DEF OrphanStatus
<1>2. /\ AllSound(StatusSteps(Files, q), Files, 0, done)
      /\ \A g \in Range(StatusSteps(Files, q)) : g.ready = ready
  BY LaneFacts, StatusStepsAreSound
<1> QED
  BY <1>1, <1>2, IdleThread, SectionThenIdle

LEMMA TouchLaneKeeps ==
  ASSUME LaneInv, TouchLane
  PROVE  LaneInv'
<1>1. /\ thread.tool.pc = "idle" /\ thread' = StartLoop(thread)
      /\ UNCHANGED <<laneFiles, lease, github, cache, crashes, queueVars>>
  BY DEF TouchLane, ToolIdle
<1>2. thread' = StartLoop([thread EXCEPT !["tool"] = thread.tool])
  BY <1>1 DEF LaneInv
<1>3. thread.tool \in ThreadRecords /\ ThreadSound(Files, thread.tool, "tool")
      /\ thread.tool.pc \notin HoldsRequest /\ cache' \subseteq Commits
  BY <1>1, LaneFacts, IdleThread DEF LaneInv, GitHubTypes, HoldsRequest
<1> QED
  BY <1>1, <1>2, <1>3, IdleThread, ThreadKeepsLane

(* The loop goes from one reading to the next.                                 *)
LEMMA LoopMoves ==
  ASSUME LaneInv, NEW next \in ThreadRecords, thread' = [thread EXCEPT !.loop = next],
         next.pc \notin HoldsRequest, next.pc \notin {"stopped", "admit", "read_pr"},
         next.pc \in {"attest", "claim"} => next.req \in ready,
         UNCHANGED <<laneFiles, lease, github, crashes, queueVars>>, cache' \subseteq Commits
  PROVE  LaneInv'
<1>1. thread' = StartLoop([thread EXCEPT !["loop"] = next])
  BY DEF LaneInv, StartLoop, Threads
<1>2. ThreadSound(Files, next, "loop")
  BY LaneFacts DEF ThreadSound, HoldsRequest
<1> QED
  BY <1>1, <1>2, IdleThread, ThreadKeepsLane

LEMMA ReconcileStartKeeps ==
  ASSUME LaneInv, ReconcileStart
  PROVE  LaneInv'
<1> DEFINE f == Files
           g == WithLease(f, active)
           next == [Idle EXCEPT !.pc = "read_pr", !.ticket = active.ticket, !.req = active.head]
<1>1. /\ active # NoTicket /\ Section("loop", <<g>>, next)
      /\ UNCHANGED <<github, cache, queueVars>>
  BY DEF ReconcileStart
<1>2. active \in TicketRecords /\ active.head \in Commits /\ active.head \in Nat
  BY <1>1, LaneFacts, CommitsAssumption
<1>3. Sound(f, g, 0, done)
  BY <1>2, LaneFacts, WithLeaseIsSound
<1>4. next \in ThreadRecords /\ next.pc = "read_pr" /\ next.req = active.head
  BY <1>2 DEF Idle, ThreadRecords, TicketRecords
<1> HIDE DEF g, next
<1>5. AllSound(<<g>>, f, 0, done)
  BY <1>3, OneWriteIsSound
<1>6. ThreadSound(After(<<g>>, f), next, "loop") /\ next.pc \notin HoldsRequest
  BY <1>2, <1>4 DEF ThreadSound, HoldsRequest
<1> QED
  BY <1>1, <1>4, <1>5, <1>6, IdleThread, SectionKeepsLane

LEMMA ReconcileReadingKeeps ==
  ASSUME LaneInv, ReconcileReadPR \/ ReconcileUnreachable
  PROVE  LaneInv'
<1>1. /\ UNCHANGED <<laneFiles, lease, github, crashes, queueVars>> /\ cache' \subseteq Commits
      /\ thread.loop \in ThreadRecords
  BY LaneFacts, IdleThread DEF ReconcileReadPR, ReconcileUnreachable, LaneInv, GitHubTypes
<1>2. CASE ReconcileReadPR
  <2> DEFINE next == [thread.loop EXCEPT !.pc = "read_main", !.pr = pr[thread.loop.req]]
  <2>1. thread' = [thread EXCEPT !.loop = next]
    BY <1>2 DEF ReconcileReadPR
  <2>2. next \in ThreadRecords /\ next.pc = "read_main"
    <3>1. pr[thread.loop.req] \in {"open", "closed", "merged"}
      <4>1. thread.loop.pc = "read_pr" /\ ThreadSound(Files, thread.loop, "loop")
        BY <1>2, LaneFacts, IdleThread DEF ReconcileReadPR
      <4> QED
        BY <4>1 DEF ThreadSound, LaneInv, GitHubTypes
    <3> QED
      BY <1>1, <3>1 DEF ThreadRecords
  <2> HIDE DEF next
  <2> QED
    BY <1>1, <2>1, <2>2, LoopMoves DEF HoldsRequest
<1>3. CASE ReconcileUnreachable
  BY <1>1, <1>3, IdleThread, LoopMoves DEF ReconcileUnreachable, Idle
<1> QED
  BY <1>2, <1>3

(* A ticket whose pull request is over, or whose main is not the main any more, *)
(* leaves the lane.                                                            *)
LEMMA ReconcileApplyKeeps ==
  ASSUME LaneInv, ReconcileApply
  PROVE  LaneInv'
<1> DEFINE f == Files
           q == active.req
           r == [reqs[q] EXCEPT !.state = "merged"]
           merged == WithReq(f, q, r)
           seen == thread.loop.pr
           Ends(g, state) == ArchiveSteps(g, active, state)
           steps == IF active = NoTicket \/ active.ticket # thread.loop.ticket THEN <<>>
                    ELSE IF seen = "merged" THEN <<merged>> \o Ends(merged, "merged")
                    ELSE IF seen = "closed" THEN Ends(f, "cancelled")
                    ELSE IF main # active.main THEN Ends(f, "stale_main")
                    ELSE <<>>
<1>1. Section("loop", steps, Idle) /\ UNCHANGED <<github, cache, queueVars>>
  BY DEF ReconcileApply
<1>2. AllSound(<<>>, f, 0, done)
  BY NoWriteIsSound
<1>3. ASSUME active # NoTicket, NEW state \in {"cancelled", "stale_main"}
      PROVE  AllSound(Ends(f, state), f, 0, done)
  BY <1>3, LaneFacts, ArchiveStepsAreSound DEF FinalTicket
<1>4. ASSUME active # NoTicket
      PROVE  AllSound(<<merged>> \o Ends(merged, "merged"), f, 0, done)
  <2>1. /\ Good(f, done) /\ q \in DOMAIN f.reqs /\ f.active = active
        /\ r = InState(f.reqs[q], "merged") /\ "merged" \in RequestStates
        /\ "merged" \in Blocking \cup FinalTicket
    BY <1>4, LaneFacts DEF InState, RequestStates, FinalTicket
  <2> HIDE DEF f, r, q
  <2>2. Sound(f, merged, 0, done) /\ merged.active = active
    BY <2>1, NotedIsSound
  <2> HIDE DEF merged
  <2>3. Good(merged, done)
    BY <2>2 DEF Sound
  <2>4. AllSound(Ends(merged, "merged"), merged, 0, done)
    BY <1>4, <2>1, <2>2, <2>3, ArchiveStepsAreSound
  <2> HIDE DEF Ends
  <2> QED
    BY <2>2, <2>4, AfterWriteIsSound
<1>5. AllSound(steps, f, 0, done)
  BY <1>2, <1>3, <1>4
<1> HIDE DEF steps
<1> QED
  BY <1>1, <1>5, IdleThread, SectionThenIdle

LEMMA DispatchSelectKeeps ==
  ASSUME LaneInv, DispatchSelect
  PROVE  LaneInv'
<1>1. PICK q \in ready : /\ thread' = [thread EXCEPT !.loop = [Idle EXCEPT !.pc = "attest", !.req = q]]
                         /\ UNCHANGED <<laneFiles, lease, github, cache, crashes, queueVars>>
  BY DEF DispatchSelect, First
<1> DEFINE next == [Idle EXCEPT !.pc = "attest", !.req = q]
<1>2. q \in Nat
  BY LaneFacts DEF FileStates
<1>3. next \in ThreadRecords /\ next.pc = "attest" /\ next.req = q
  BY <1>2 DEF Idle, ThreadRecords
<1> HIDE DEF next
<1>4. thread' = [thread EXCEPT !.loop = next] /\ cache' \subseteq Commits
  BY <1>1 DEF next, LaneInv, GitHubTypes
<1> QED
  BY <1>1, <1>3, <1>4, LoopMoves DEF HoldsRequest

LEMMA DispatchAttestedKeeps ==
  ASSUME LaneInv, DispatchAttested
  PROVE  LaneInv'
<1> DEFINE next == [thread.loop EXCEPT !.pc = "claim", !.main = main]
<1>1. /\ thread.loop.pc = "attest" /\ cache' = cache \cup {reqs[thread.loop.req].head}
      /\ thread' = [thread EXCEPT !.loop = next]
      /\ UNCHANGED <<laneFiles, lease, github, crashes, queueVars>>
  BY DEF DispatchAttested
<1>2. thread.loop \in ThreadRecords /\ ThreadSound(Files, thread.loop, "loop") /\ main \in Nat
  BY LaneFacts, IdleThread DEF LaneInv, GitHubTypes
<1>3. next \in ThreadRecords /\ next.pc = "claim" /\ next.req = thread.loop.req
  BY <1>2 DEF ThreadRecords
<1> HIDE DEF next
<1>4. next.req \in ready /\ next.req \in DOMAIN reqs
  BY <1>1, <1>2, <1>3, LaneFacts DEF ThreadSound, Good
<1>5. cache' \subseteq Commits
  BY <1>1, <1>3, <1>4, LaneFacts DEF LaneInv, GitHubTypes, RequestRecords
<1> QED
  BY <1>1, <1>3, <1>4, <1>5, LoopMoves DEF HoldsRequest

LEMMA DispatchRefusedKeeps ==
  ASSUME LaneInv, DispatchRefused
  PROVE  LaneInv'
<1> DEFINE f == Files
           q == thread.loop.req
           r == [reqs[q] EXCEPT !.state = "waiting_refresh"]
           noted == WithReq(f, q, r)
           gone == [noted EXCEPT !.ready = @ \ {q}]
<1>1. /\ Section("loop", <<noted, gone>>, Idle) /\ thread.loop.pc = "attest"
      /\ UNCHANGED <<github, cache, queueVars>>
  BY DEF DispatchRefused, RefusedSteps
<1>2. /\ Good(f, done) /\ q \in DOMAIN f.reqs /\ f.ready = ready
      /\ r = InState(f.reqs[q], "waiting_refresh") /\ "waiting_refresh" \in RequestStates
  <2>1. ThreadSound(f, thread.loop, "loop")
    BY LaneFacts, IdleThread
  <2> QED
    BY <1>1, <2>1, LaneFacts DEF ThreadSound, Good, InState, RequestStates
<1> HIDE DEF f, q, r
<1>3. Sound(f, noted, 0, done) /\ noted.ready = ready
  BY <1>2, NotedIsSound
<1> HIDE DEF noted
<1>4. Sound(f, gone, 0, done)
  <2> DEFINE S == noted.ready \ {q}
  <2>1. /\ Good(noted, done) /\ S \in SUBSET DOMAIN noted.reqs /\ S \subseteq noted.ready
        /\ \A p \in S : noted.reqs[p].agent = Nobody
    BY <1>3 DEF Sound, Good
  <2>2. gone = [noted EXCEPT !.ready = S]
    OBVIOUS
  <2> HIDE DEF S, gone
  <2>3. Sound(noted, gone, 0, done)
    BY <2>1, <2>2, ReadyIsSound
  <2> QED
    BY <1>3, <2>3, SoundIsPreorder
<1> HIDE DEF gone
<1>5. AllSound(<<noted, gone>>, f, 0, done)
  <2>1. noted \in FileStates /\ gone \in FileStates
    BY <1>3, <1>4, SoundIsPreorder
  <2> QED
    BY <1>3, <1>4, <2>1, RangeOfTuples DEF AllSound
<1> QED
  BY <1>1, <1>5, IdleThread, SectionThenIdle DEF f

LEMMA DispatchClaimKeeps ==
  ASSUME LaneInv, DispatchClaim
  PROVE  LaneInv'
<1> DEFINE next == IF LaneFree THEN [thread.loop EXCEPT !.pc = "activate"] ELSE Idle
<1>1. /\ Section("loop", <<>>, next) /\ thread.loop.pc = "claim"
      /\ UNCHANGED <<github, cache, queueVars>>
  BY DEF DispatchClaim
<1>2. thread.loop \in ThreadRecords /\ thread.loop.req \in ready /\ ready \subseteq DOMAIN reqs
  <2>1. thread.loop \in ThreadRecords /\ ThreadSound(Files, thread.loop, "loop")
    BY LaneFacts, IdleThread
  <2> QED
    BY <1>1, <2>1, LaneFacts DEF ThreadSound, Good
<1>3. /\ next \in ThreadRecords
      /\ next = Idle \/ (next.pc = "activate" /\ next.req = thread.loop.req)
  BY <1>2, IdleThread DEF ThreadRecords
<1> HIDE DEF next
<1>4. AllSound(<<>>, Files, 0, done) /\ After(<<>>, Files) = Files
  BY NoWriteIsSound
<1>5. ThreadSound(Files, next, "loop")
  BY <1>2, <1>3, LaneFacts, IdleThread DEF ThreadSound, HoldsRequest
<1>6. next.pc \in HoldsRequest => next.req \in ready
  BY <1>2, <1>3, IdleThread
<1> QED
  BY <1>1, <1>3, <1>4, <1>5, <1>6, IdleThread, SectionKeepsLane

LEMMA GitHubKeeps ==
  ASSUME LaneInv, GitHubStep
  PROVE  LaneInv'
<1>1. /\ UNCHANGED <<laneFiles, thread, crashes, lease, queueVars>>
      /\ main' \in Nat /\ pr' \in [Commits -> {"open", "closed", "merged"}]
      /\ cache' \subseteq Commits
  BY DEF GitHubStep, MergePullRequest, ClosePullRequest, LaneInv, GitHubTypes
<1>2. Files' = Files /\ done' = done
  BY <1>1 DEF Files, laneFiles, queueVars, agentVars
<1> QED
  BY <1>1, <1>2 DEF LaneInv, AgentTypes, GitHubTypes, AnswersAreTrue, PublishedIsBound,
                    laneFiles, queueVars, agentVars

(* The lease file changes under the lane, and the coordinator sends requests   *)
(* of its own; the server may die.                                             *)
LEMMA LeaseKeepsLane ==
  ASSUME LaneInv, lease' \in Leases, incoming' \subseteq AgentIds,
         \A x \in incoming' : x \in incoming \/ x.of \notin {"ticket", "health"},
         UNCHANGED <<laneFiles, github, cache, plan, others>>, UNCHANGED agentVars,
         \/ thread' = thread /\ crashes' = crashes
         \/ thread' = NoThreads /\ crashes' = crashes + 1
  PROVE  LaneInv'
<1>1. Good(Files', done') /\ (Files').reqs = Files.reqs /\ (Files').ready = Files.ready
  <2> DEFINE f == Files
             g == Files'
  <2>1. /\ Good(f, done) /\ done' = done
        /\ f.reqs = g.reqs /\ f.ready = g.ready /\ f.active = g.active /\ f.archive = g.archive
    BY DEF LaneInv, Files, laneFiles, agentVars
  <2>2. g \in FileStates
    BY <2>1 DEF Good, FileStates, Files
  <2> HIDE DEF f, g
  <2>3. Tickets(g) = Tickets(f)
    BY <2>1 DEF Tickets
  <2>4. Good(g, done)
    BY <2>1, <2>2, <2>3 DEF Good, ActiveIsOne, IsOne
  <2>5. g = Files' /\ f = Files
    BY DEF f, g
  <2> QED
    BY <2>1, <2>4, <2>5
<1>2. thread' \in [Threads -> ThreadRecords] /\ ThreadsSound(Files', thread')
  <2>1. NoThreads \in [Threads -> ThreadRecords]
    BY DEF NoThreads, ThreadRecords, Idle, Stopped
  <2>2. ThreadsSound(Files', NoThreads)
    BY DEF NoThreads, ThreadsSound, ThreadSound, HoldsRequest, Idle, Stopped, Threads
  <2>3. ThreadsSound(Files', thread)
    BY <1>1 DEF LaneInv, ThreadsSound, ThreadSound, IdOf
  <2> QED
    BY <2>1, <2>2, <2>3 DEF LaneInv
<1>3. PublishedIsBound'
  BY DEF LaneInv, PublishedIsBound, laneFiles, agentVars
<1>4. AgentTypes' /\ GitHubTypes' /\ AnswersAreTrue'
  BY DEF LaneInv, AgentTypes, GitHubTypes, AnswersAreTrue, github, agentVars
<1>5. Good(Files, done)' /\ ThreadsSound(Files, thread)'
  BY <1>1, <1>2
<1> QED
  BY <1>2, <1>3, <1>4, <1>5 DEF LaneInv

(* The server dies between two sections; a lease file may have expired.        *)
LEMMA CrashKeeps ==
  ASSUME LaneInv, Crash
  PROVE  LaneInv'
<1>1. /\ UNCHANGED <<laneFiles, github, cache, queueVars>> /\ thread' = NoThreads
      /\ crashes' = crashes + 1 /\ lease' \in {lease, NoLease}
  BY DEF Crash, ServerDies
<1>2. lease \in Leases /\ NoLease \in Leases
  BY LaneFacts DEF FileStates, Leases
<1> QED
  BY <1>1, <1>2, LeaseKeepsLane DEF queueVars, agentVars, LaneInv, AgentTypes

LEMMA LaneMoveKeeps ==
  ASSUME LaneInv, LaneMove
  PROVE  LaneInv'
<1>1. CASE ToolStep
  BY <1>1, IdleThread, EnqueueDeploymentKeeps, AdmitKeeps, EnqueueHealthKeeps, TouchLaneKeeps,
     ActivateKeeps, BindKeeps, BindFailsKeeps, PublishKeeps, PublishFailsKeeps, ObserveKeeps,
     OrphanStatusKeeps DEF ToolStep
<1>2. CASE LoopStep
  BY <1>2, IdleThread, ReconcileStartKeeps, ReconcileReadingKeeps, ReconcileApplyKeeps,
     DispatchSelectKeeps, DispatchAttestedKeeps, DispatchRefusedKeeps, DispatchClaimKeeps,
     ActivateKeeps, BindKeeps, BindFailsKeeps, PublishKeeps, PublishFailsKeeps DEF LoopStep
<1> QED
  BY <1>1, <1>2, GitHubKeeps, CrashKeeps DEF LaneMove

-----------------------------------------------------------------------------
(* The agent.                                                                  *)

(* What was carried out stays carried out.                                     *)
LEMMA GoodGrows ==
  ASSUME NEW D, NEW E, D \subseteq E, NEW f, Good(f, D)
  PROVE  Good(f, E)
<1>1. \A r : RequestSound(r, D) => RequestSound(r, E)
  BY DEF RequestSound
<1>2. \A t : TicketSound(t, D) => TicketSound(t, E)
  BY DEF TicketSound, CarriedOut
<1> QED
  BY <1>1, <1>2 DEF Good

(* The answer that is written is one the agent queue may hold.                 *)
LEMMA AnswerIsTyped ==
  ASSUME LaneInv, working # Nobody, NEW ok \in BOOLEAN, NEW accepted \in BOOLEAN
  PROVE  /\ working \in AgentIds
         /\ Answer(working, ok, accepted) \subseteq [req : AgentIds, ok : BOOLEAN, accepted : BOOLEAN]
         /\ \A r \in Answer(working, ok, accepted) :
              \/ r \in responses
              \/ r.req = working /\ r.ok = ok
<1>1. working \in AgentIds /\ responses \subseteq [req : AgentIds, ok : BOOLEAN, accepted : BOOLEAN]
  BY DEF LaneInv, AgentTypes
<1>2. [req |-> working, ok |-> ok, accepted |-> accepted]
        \in [req : AgentIds, ok : BOOLEAN, accepted : BOOLEAN]
  BY <1>1
<1> QED
  BY <1>1, <1>2 DEF Answer

(* The agent takes, carries out, finishes, fails, replaces its answer or dies; *)
(* somebody enqueues an action outside the lane.                               *)
LEMMA AgentMoveKeeps ==
  ASSUME LaneInv, AgentStep \/ AgentSlip \/ AgentStop \/ EnqueueUnmanaged, UNCHANGED laneVars
  PROVE  LaneInv'
<1>1. UNCHANGED <<laneFiles, lease, thread, github, cache, crashes>>
  BY DEF laneVars, AgentStep, AgentTake, AgentSucceed, AgentFinish, AgentFail, AgentSlip, AgentStop,
         EnqueueUnmanaged
<1>2. Files' = Files /\ GitHubTypes'
  BY <1>1 DEF Files, laneFiles, github, LaneInv, GitHubTypes
<1>3. PublishedIsBound'
  <2>1. \A x \in incoming' \cup processing' : x \in incoming \cup processing \/ x.of = "other"
    <3>1. CASE AgentStep
      BY <3>1 DEF AgentStep, AgentTake, AgentSucceed, AgentFinish, AgentFail, Dropped
    <3>2. CASE AgentSlip \/ AgentStop
      BY <3>2 DEF AgentSlip, AgentStop, Dropped
    <3>3. CASE EnqueueUnmanaged
      BY <3>3 DEF EnqueueUnmanaged, agentVars, Request
    <3> QED
      BY <3>1, <3>2, <3>3
  <2> QED
    BY <1>1, <2>1 DEF LaneInv, PublishedIsBound, laneFiles
<1>4. Good(Files', done')
  <2>1. Good(Files, done) /\ done \subseteq done'
    BY DEF LaneInv, AgentStep, AgentTake, AgentSucceed, AgentFinish, AgentFail, AgentSlip, AgentStop,
           EnqueueUnmanaged, agentVars
  <2>2. Good(Files, done')
    BY <2>1, GoodGrows
  <2> QED
    BY <1>2, <2>2
<1>5. CASE EnqueueUnmanaged
  <2>1. Request("other", others + 1, "other", 0) \in AgentIds /\ others + 1 \in Nat
    BY DEF LaneInv, AgentTypes, Request, AgentIds
  <2>2. AgentTypes' /\ AnswersAreTrue'
    BY <1>5, <2>1 DEF EnqueueUnmanaged, LaneInv, AgentTypes, AnswersAreTrue, agentVars
  <2> QED
    BY <1>1, <1>2, <1>3, <1>4, <2>2 DEF LaneInv
<1>6. CASE AgentTake \/ AgentFinish \/ AgentStop
  <2>1. told => working \in done
    BY DEF LaneInv, AgentTypes
  <2>2. /\ marked' \subseteq marked \cup done /\ (told' => working' \in done)
        /\ incoming' \subseteq incoming /\ processing' \subseteq processing \cup incoming
        /\ working' \in incoming \cup {Nobody} /\ told' \in BOOLEAN
        /\ UNCHANGED <<plan, responses, done, others, slips>> /\ stops' \in {stops, stops + 1}
    <3>1. CASE AgentTake
      <4>1. ~told
        BY <2>1, <3>1 DEF AgentTake, LaneInv, AgentTypes, AgentIds, Nobody
      <4>2. ~told' /\ told' \in BOOLEAN
        <5>1. told' = told /\ told \in BOOLEAN
          BY <3>1 DEF AgentTake, LaneInv, AgentTypes
        <5> QED
          BY <4>1, <5>1, Zenon
      <4>3. /\ incoming' \subseteq incoming /\ processing' \subseteq processing \cup incoming
            /\ working' \in incoming /\ marked' = marked
            /\ UNCHANGED <<plan, responses, done, others, slips>> /\ stops' = stops
        BY <3>1 DEF AgentTake
      <4> QED
        BY <4>2, <4>3
    <3>2. CASE AgentFinish
      BY <2>1, <3>2 DEF AgentFinish, Dropped
    <3>3. CASE AgentStop
      BY <2>1, <3>3 DEF AgentStop
    <3> QED
      BY <1>6, <3>1, <3>2, <3>3
  <2>3. AgentTypes' /\ AnswersAreTrue'
    BY <2>2 DEF LaneInv, AgentTypes, AnswersAreTrue
  <2> QED
    BY <1>1, <1>2, <1>3, <1>4, <2>3 DEF LaneInv
<1>7. CASE AgentSucceed
  <2>1. PICK accepted \in BOOLEAN : responses' = Answer(working, TRUE, accepted)
    BY <1>7 DEF AgentSucceed
  <2>2. /\ working # Nobody /\ done' = done \cup {working} /\ told' = TRUE
        /\ UNCHANGED <<plan, incoming, processing, working, marked, others, stops, slips>>
    BY <1>7 DEF AgentSucceed
  <2>3. /\ working \in AgentIds
        /\ Answer(working, TRUE, accepted) \subseteq [req : AgentIds, ok : BOOLEAN, accepted : BOOLEAN]
        /\ \A r \in Answer(working, TRUE, accepted) :
             \/ r \in responses
             \/ r.req = working /\ r.ok = TRUE
    BY <2>2, AnswerIsTyped
  <2>4. AgentTypes'
    BY <2>1, <2>2, <2>3 DEF LaneInv, AgentTypes
  <2>5. AnswersAreTrue'
    BY <2>1, <2>2, <2>3 DEF LaneInv, AnswersAreTrue
  <2> QED
    BY <1>1, <1>2, <1>3, <1>4, <2>4, <2>5 DEF LaneInv
<1>8. CASE AgentFail \/ AgentSlip
  <2>1. /\ working # Nobody /\ responses' = Answer(working, FALSE, FALSE)
        /\ incoming' = incoming /\ processing' \subseteq processing /\ working' = Nobody /\ told' = FALSE
        /\ marked' \subseteq marked \cup done
        /\ slips' \in {slips, slips + 1} /\ UNCHANGED <<plan, done, others, stops>>
    <3>1. told => working # Nobody /\ working \in done
      BY DEF LaneInv, AgentTypes, AgentIds, Nobody
    <3>2. CASE AgentFail
      BY <3>2 DEF AgentFail, Dropped
    <3>3. CASE AgentSlip
      BY <3>1, <3>3 DEF AgentSlip, Dropped
    <3> QED
      BY <1>8, <3>2, <3>3
  <2>2. /\ Answer(working, FALSE, FALSE) \subseteq [req : AgentIds, ok : BOOLEAN, accepted : BOOLEAN]
        /\ \A r \in Answer(working, FALSE, FALSE) :
             \/ r \in responses
             \/ r.req = working /\ r.ok = FALSE
    BY <2>1, AnswerIsTyped
  <2>3. AgentTypes'
    <3>1. told' \in BOOLEAN /\ (told' => working' \in done')
      BY <2>1, Zenon
    <3>2. slips' \in Nat
      BY <2>1 DEF LaneInv, AgentTypes
    <3>3. /\ working' \in AgentIds \cup {Nobody} /\ marked' \subseteq done'
          /\ responses' \subseteq [req : AgentIds, ok : BOOLEAN, accepted : BOOLEAN]
      BY <2>1, <2>2 DEF LaneInv, AgentTypes
    <3>4. plan' \in Plans /\ incoming' \subseteq AgentIds /\ processing' \subseteq AgentIds
          /\ done' \subseteq AgentIds /\ others' \in Nat /\ stops' \in Nat
      BY <2>1 DEF LaneInv, AgentTypes
    <3> QED
      BY <3>1, <3>2, <3>3, <3>4 DEF AgentTypes
  <2>4. AnswersAreTrue'
    BY <2>1, <2>2 DEF LaneInv, AnswersAreTrue
  <2> QED
    BY <1>1, <1>2, <1>3, <1>4, <2>3, <2>4 DEF LaneInv
<1> QED
  BY <1>5, <1>6, <1>7, <1>8 DEF AgentStep
=============================================================================
