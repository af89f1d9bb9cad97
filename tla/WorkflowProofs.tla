---------------------------- MODULE WorkflowProofs ----------------------------
(* The desks, for every number of users, notices, contexts, requests, leases   *)
(* and opportunities and every interleaving of their calls: a call that has    *)
(* met no other still knows what it read, a call that has is recorded in the   *)
(* history variables when it writes over what it did not see.                  *)
EXTENDS WorkflowSystem, FiniteSetTheorems, WellFoundedInduction, TLAPS

-----------------------------------------------------------------------------
(* Calls.                                                                      *)

(* Every call is a record of this shape.                                       *)
Words == {call[p].op : p \in Users} \cup {call[p].at : p \in Users}
CallRows == [op : Words, at : Words, met : BOOLEAN, read : {Seen(p) : p \in Users}]
(* Of two calls under way each has met another.                                *)
Overlaps ==
  \A p, q \in Users : p # q /\ call[p].op # "none" /\ call[q].op # "none" => call[p].met

(* What call c has read, by its kind.                                          *)
DeskRead(c) ==
  /\ c.op \in {"edit", "attach", "detach"} \/ (c.op = "activate" /\ c.at = "read")
       => c.read \in [v : Versions, saw : ContextRows]
  /\ c.op = "activate" /\ c.at = "retired"
       => c.read \in [v : Versions, saw : ContextRows, old : SUBSET Versions]
  /\ c.op = "newdraft" => c.read \in [from : SUBSET Versions]
  /\ c.op = "start" => c.read \in [v : Versions, open : SUBSET Requests, cand : SUBSET Notices]
  /\ c.op = "finish" => c.read \in [q : Requests, drafted : SUBSET Notices, cand : SUBSET Notices,
                                   supplied : SUBSET Notices]
  /\ c.op \in {"complete", "addbatch"} => c.read \in [q : Requests, saw : RequestRows]
  /\ c.op = "draft" => c.read \in [q : Requests, b : Nat, n : Notices, saw : NoticeRows]
  /\ c.op = "review" => c.read \in [k : Nat, decision : Decisions, saw : BOOLEAN]
  /\ c.op = "dismiss" => c.read \in [n : Notices, k : Nat]
  /\ c.op = "bulk" => c.read \in [ns : SUBSET Notices, ks : SUBSET Nat]
  /\ c.op = "ingest" => c.read \in [n : Notices, saw : NoticeRows]
CaseRead(c) ==
  /\ c.op = "case" => c.read \in [n : Notices, st : CaseStages]
  /\ c.op \in {"destroy", "upload", "contract", "followup"} => c.read \in [n : Notices, saw : CaseRows]
  /\ c.op = "patch" => c.read \in [n : Notices, st : CaseStages, saw : CaseRows]
  /\ c.op = "remove" => DOMAIN c.read.ids \subseteq Notices
  /\ c.op = "select" => c.read \in [n : Notices]
ContractRead(c) ==
  /\ c.op = "arm" => c.read \in [old : SUBSET Leases]
  /\ c.op = "prepare" => c.read \in [l : Leases, cand : SUBSET Notices]
  /\ c.op = "command" => c.read \in [l : Leases, n : Notices]
  /\ c.op = "confirm" => c.read \in [l : Leases, k : Pendings, n : Notices]
DirectRead(c) ==
  /\ c.op \in {"update", "hide", "contact"} => /\ c.read \in [o : Opps, saw : OpportunityRows]
                                              /\ c.read.saw.st # "none"
  /\ c.op = "result" => c.read \in [o : Opps, out : Outcomes, r : Opps \cup {0}]
  /\ c.op = "revise" => c.read \in [r : Opps, o : Opps, out : Outcomes, was : Opps]
  /\ c.op = "trial" => c.read \in [k : Nat, found : BOOLEAN]
  /\ c.op = "advance" => c.read \in [o : Opps, st : {"preparing", "submitted", "won"}]
  /\ c.op = "convert" => c.read \in [o : Opps]

(* What it names is there, also when its row has changed meanwhile.            *)
Refers(c) ==
  /\ c.op \in {"finish", "complete", "addbatch", "draft"} => areq[c.read.q].st # "none"
  /\ c.op = "review" => c.read.k \in DOMAIN drafts
  /\ c.op = "dismiss" => c.read.k \in DOMAIN drafts /\ drafts[c.read.k].n = c.read.n
  /\ c.op = "bulk" => \A k \in c.read.ks : k \in DOMAIN drafts /\ drafts[k].n \in c.read.ns
  /\ c.op \in {"destroy", "upload", "contract", "followup", "patch"} => c.read.saw.id \in 1..made

(* What a call that has met no other still knows.                              *)
DeskFresh(c) ==
  /\ c.op = "activate" /\ c.at = "retired" => c.read.old = ActiveContexts \ {c.read.v}
  /\ c.op = "dismiss" /\ c.at = "read" => c.read.k = Latest(drafts, c.read.n)
  /\ c.op = "dismiss" /\ c.at = "rejected" => ~Effective(drafts, c.read.n)
  /\ c.op = "bulk" => c.read.ks = {Latest(drafts, n) : n \in c.read.ns}
  /\ c.op = "ingest" => /\ c.read.saw.rec = notice[c.read.n].rec
                        /\ c.read.saw.kept = notice[c.read.n].kept
CaseFresh(c) ==
  /\ c.op = "destroy" /\ c.at \in {"read", "checked"} => case[c.read.n].id = c.read.saw.id
  /\ c.op = "destroy" /\ c.at = "deleted" => case[c.read.n].id = 0
  /\ c.op = "remove" => \A n \in DOMAIN c.read.ids : case[n].id = c.read.ids[n]
ContractFresh(c) ==
  c.op \in {"command", "confirm"} => lease[c.read.l] \in {"live", "lapsed"}
DirectFresh(c) ==
  /\ c.op \in {"update", "contact"} => c.read.saw = opp[c.read.o]
  /\ c.op = "revise" /\ c.at = "read" => result[c.read.r].of = c.read.was
  /\ c.op = "advance" => opp[c.read.o].trial # 0

Reads(c) == DeskRead(c) /\ CaseRead(c) /\ ContractRead(c) /\ DirectRead(c)
Fresh(c) == DeskFresh(c) /\ CaseFresh(c) /\ ContractFresh(c) /\ DirectFresh(c)
CallOK(p) == Reads(call[p]) /\ Refers(call[p]) /\ (~call[p].met => Fresh(call[p]))
CallsInv == call \in [Users -> CallRows] /\ Overlaps /\ \A p \in Users : CallOK(p)

-----------------------------------------------------------------------------
(* The rows of the desks.                                                      *)

(* A request is made under a context; where there is none, there is no batch.  *)
Used(row) == IF row.st = "none" THEN Len(row.batches) = 0 ELSE row.ctx \in Versions
DeskRows ==
  /\ notice \in [Notices -> NoticeRows] /\ ctx \in [Versions -> ContextRows]
  /\ areq \in [Requests -> RequestRows] /\ drafts \in Seq(DraftRows)
  /\ mixed \subseteq Notices \X {"flag", "kept"}
  /\ \A q \in Requests : Used(areq[q])
CaseTables ==
  /\ case \in [Notices -> CaseRows] /\ made \in Nat /\ contracts \subseteq 1..made
  /\ \A n \in Notices : case[n].id <= made
ContractTables ==
  /\ lease \in [Leases -> LeaseStates] /\ pending \in [Pendings -> PendingRows]
  /\ journal \in Seq(JournalRows) /\ revision = Len(journal)
  /\ \A i \in DOMAIN journal : journal[i].id <= made
DirectTables ==
  /\ opp \in [Opps -> OpportunityRows] /\ result \in [Opps -> ResultRows]
  /\ tangled \subseteq Opps \cup {0}
  /\ \A r, s \in Opps : result[r].of = result[s].of /\ result[r].of # 0 => r = s

(* A case without protection has somebody about to protect it.                 *)
Protecting(n) ==
  \E p \in Users : call[p].op \in {"case", "patch"} /\ call[p].at = "stored" /\ Seen(p).n = n
KeptInv ==
  \A n \in Notices : case[n].id # 0 /\ <<n, "kept">> \notin mixed => notice[n].kept \/ Protecting(n)

(* Only one confirmation at a time has a pending action locked, still awaiting.*)
Checked(p) == call[p].op = "confirm" /\ call[p].at = "checked"
LockInv ==
  /\ \A p \in Users : Checked(p) => pending[Seen(p).k].st = "awaiting"
  /\ \A p, q \in Users : Checked(p) /\ Checked(q) /\ Seen(p).k = Seen(q).k => p = q

(* An outcome without its result has somebody about to tell another; who is    *)
(* about to tell one has stored it.                                            *)
Results == {result[r] : r \in Opps}
Telling(p) == call[p].op \in {"result", "revise"} /\ call[p].at = "stored"
Final(row) == row.st \in Outcomes /\ ~(row.trial # 0 /\ row.st = "won")
ToldInv ==
  /\ \A o \in Opps : o \notin tangled /\ Final(opp[o])
       => \/ [of |-> o, out |-> opp[o].st] \in Results
          \/ \E p \in Users : Telling(p) /\ Seen(p).o = o
  /\ \A p \in Users : Telling(p) /\ Seen(p).o \notin tangled
       => [of |-> Seen(p).o, out |-> Seen(p).out] \in Results

DesksInv ==
  /\ CallsInv /\ DeskRows /\ FlagFollowsReview /\ CaseTables /\ ContractTables /\ DirectTables
  /\ KeptInv /\ LockInv /\ ToldInv

-----------------------------------------------------------------------------
(* What the steps of a call do to the calls.                                   *)

(* The call of p goes on or ends; the others are left alone.                   *)
Acts(p) ==
  /\ call[p].op # "none"
  /\ \A q \in Users \ {p} : call'[q] = call[q]
  /\ call'[p] = NoCall \/ (call'[p].op = call[p].op /\ call'[p].met = call[p].met)
  /\ (call \in [Users -> CallRows])'

(* Requests, drafts and numbers of cases stay once they are there.             *)
Grows ==
  /\ \A q \in Requests : areq[q].st # "none" => areq'[q].st # "none"
  /\ \A k \in DOMAIN drafts : k \in DOMAIN drafts' /\ drafts'[k].n = drafts[k].n
  /\ made \in Nat /\ made' \in Nat /\ made <= made'

(* A call is the record of its four fields.                                    *)
LEMMA CallShape ==
  ASSUME call \in [Users -> CallRows]
  PROVE  \A q \in Users :
           /\ call[q].met \in BOOLEAN
           /\ call[q] = [op |-> call[q].op, at |-> call[q].at, met |-> call[q].met, read |-> call[q].read]
  BY DEF CallRows

(* When every call of the next state has the four fields, they are calls.      *)
LEMMA ShapedCalls ==
  ASSUME DOMAIN call' = Users, call' = [q \in Users |-> call'[q]],
         \A q \in Users :
           /\ call'[q].met \in BOOLEAN
           /\ call'[q] = [op |-> call'[q].op, at |-> call'[q].at, met |-> call'[q].met, read |-> call'[q].read]
  PROVE  (call \in [Users -> CallRows])'
<1>1. ASSUME NEW q \in Users PROVE call'[q] \in CallRows'
  <2>1. call'[q].op \in Words' /\ call'[q].at \in Words'
    BY DEF Words
  <2>2. call'[q].read \in {Seen(p) : p \in Users}'
    BY DEF Seen
  <2> QED
    BY <2>1, <2>2 DEF CallRows
<1> QED
  BY <1>1

(* Ending a call is a step of it, which leaves nothing under way.              *)
LEMMA EndsActs ==
  ASSUME call \in [Users -> CallRows], NEW p \in Users, call[p].op # "none", Ends(p)
  PROVE  Acts(p) /\ call'[p] = NoCall
<1>1. call' = [call EXCEPT ![p] = [op |-> "none", at |-> "none", met |-> FALSE, read |-> <<>>]]
  BY DEF Ends, NoCall
<1>2. \A q \in Users :
        /\ call'[q].met \in BOOLEAN
        /\ call'[q] = [op |-> call'[q].op, at |-> call'[q].at, met |-> call'[q].met, read |-> call'[q].read]
  BY <1>1, CallShape
<1>3. (call \in [Users -> CallRows])'
  BY <1>1, <1>2, ShapedCalls
<1>4. call'[p] = NoCall /\ \A q \in Users \ {p} : call'[q] = call[q]
  BY <1>1 DEF NoCall
<1> QED
  BY <1>3, <1>4 DEF Acts

(* Going on is a step of the call, with another stage and other knowledge.     *)
LEMMA ContinuesActs ==
  ASSUME call \in [Users -> CallRows], NEW p \in Users, call[p].op # "none",
         NEW at, NEW read, Continues(p, at, read)
  PROVE  /\ Acts(p)
         /\ call'[p] = [op |-> call[p].op, at |-> at, met |-> call[p].met, read |-> read]
<1>1. call' = [call EXCEPT ![p] = [call[p] EXCEPT !.at = at, !.read = read]]
  BY DEF Continues
<1>2. call'[p] = [op |-> call[p].op, at |-> at, met |-> call[p].met, read |-> read]
  <2>1. PICK c : c = call[p]
    OBVIOUS
  <2>2. PICK op, was, met, had : /\ c = [op |-> op, at |-> was, met |-> met, read |-> had]
                                 /\ op = call[p].op /\ met = call[p].met
    BY <2>1, CallShape
  <2>3. [c EXCEPT !.at = at, !.read = read] = [op |-> op, at |-> at, met |-> met, read |-> read]
    <3>1. PICK d : d = [c EXCEPT !.at = at]
      OBVIOUS
    <3>2. d = [op |-> op, at |-> at, met |-> met, read |-> had]
      BY <2>2, <3>1
    <3>3. [d EXCEPT !.read = read] = [op |-> op, at |-> at, met |-> met, read |-> read]
      BY ONLY <3>2
    <3>4. [c EXCEPT !.at = at, !.read = read] = [d EXCEPT !.read = read]
      BY <3>1, Zenon
    <3> QED
      BY <3>3, <3>4, Zenon
  <2>4. call'[p] = [c EXCEPT !.at = at, !.read = read]
    BY <1>1, <2>1
  <2> QED
    BY <2>2, <2>3, <2>4
<1>3. \A q \in Users \ {p} : call'[q] = call[q]
  BY <1>1
<1>4. \A q \in Users :
        /\ call'[q].met \in BOOLEAN
        /\ call'[q] = [op |-> call'[q].op, at |-> call'[q].at, met |-> call'[q].met, read |-> call'[q].read]
  BY <1>2, <1>3, CallShape
<1>5. (call \in [Users -> CallRows])'
  BY <1>1, <1>4, ShapedCalls
<1> QED
  BY <1>2, <1>3, <1>5 DEF Acts

(* What a call refers to stays there while the tables grow.                    *)
LEMMA RefersGrows ==
  ASSUME NEW p \in Users, Grows, Reads(call[p]), Refers(call[p]),
         call'[p].op = call[p].op, call'[p].at = call[p].at, call'[p].read = call[p].read
  PROVE  Reads(call[p])' /\ Refers(call[p])'
<1> PICK c, d : c = call[p] /\ d = call'[p]
  OBVIOUS
<1> USE DEF Reads, Refers
<1>1. Reads(d)
  BY DEF DeskRead, CaseRead, ContractRead, DirectRead
<1>2. Reads(d)' <=> Reads(d)
  BY DEF DeskRead, CaseRead, ContractRead, DirectRead
<1>3. Refers(d)
  BY Zenon
<1> HIDE DEF Reads
<1>4. Refers(d)'
  <2>1. d.op \in {"finish", "complete", "addbatch", "draft"} => areq'[d.read.q].st # "none"
    BY <1>1, <1>3 DEF Reads, DeskRead, Grows
  <2>2. d.op \in {"destroy", "upload", "contract", "followup", "patch"} => d.read.saw.id \in 1..made'
    BY <1>3 DEF Grows
  <2>3. /\ d.op = "review" => d.read.k \in DOMAIN drafts'
        /\ d.op = "dismiss" => d.read.k \in DOMAIN drafts' /\ drafts'[d.read.k].n = d.read.n
        /\ d.op = "bulk" => \A k \in d.read.ks : k \in DOMAIN drafts' /\ drafts'[k].n \in d.read.ns
    BY <1>3 DEF Grows
  <2> QED
    BY <2>1, <2>2, <2>3
<1> QED
  BY <1>1, <1>2, <1>4

(* A step of the call of p leaves the calls in order when p knows what it      *)
(* should and the tables grow: the other calls have met that of p.             *)
LEMMA ActsKeepCalls ==
  ASSUME CallsInv, NEW p \in Users, Acts(p), Grows, CallOK(p)'
  PROVE  CallsInv'
<1>1. ASSUME NEW q \in Users PROVE CallOK(q)'
  <2>1. CASE q = p
    BY <2>1
  <2>2. CASE q # p
    <3>1. call'[q] = call[q]
      BY <2>2 DEF Acts
    <3>2. Reads(call[q])' /\ Refers(call[q])'
      BY <3>1, RefersGrows DEF CallsInv, CallOK
    <3>3. call[q].op = "none" \/ call[q].met
      BY <2>2 DEF CallsInv, Overlaps, Acts
    <3>4. call[q].op = "none" => Fresh(call[q])'
      BY <3>1 DEF Fresh, DeskFresh, CaseFresh, ContractFresh, DirectFresh
    <3> QED
      BY <3>1, <3>2, <3>3, <3>4 DEF CallOK
  <2> QED
    BY <2>1, <2>2
<1>2. Overlaps'
  BY DEF CallsInv, Overlaps, Acts, NoCall
<1> QED
  BY <1>1, <1>2 DEF CallsInv, Acts

(* A call that ends leaves nothing to be asked of it.                          *)
LEMMA EndsInOrder ==
  ASSUME CallsInv, NEW p \in Users, call[p].op # "none", Ends(p)
  PROVE  Acts(p) /\ call'[p] = NoCall /\ CallOK(p)'
<1>1. Acts(p) /\ call'[p] = NoCall
  BY EndsActs DEF CallsInv
<1>2. call'[p].op = "none"
  BY <1>1 DEF NoCall
<1>3. CallOK(p)'
  BY <1>2 DEF CallOK, Reads, DeskRead, CaseRead, ContractRead, DirectRead, Refers,
              Fresh, DeskFresh, CaseFresh, ContractFresh, DirectFresh
<1> QED
  BY <1>1, <1>3

(* A step that leaves the calls alone keeps them in order when the tables grow *)
(* and what is known stays true.                                               *)
LEMMA IdleKeepsCalls ==
  ASSUME CallsInv, UNCHANGED call, Grows,
         \A p \in Users : Reads(call[p]) /\ Refers(call[p]) /\ Fresh(call[p]) => Fresh(call[p])'
  PROVE  CallsInv'
<1>1. ASSUME NEW q \in Users PROVE CallOK(q)'
  <2>1. Reads(call[q])' /\ Refers(call[q])'
    BY RefersGrows DEF CallsInv, CallOK
  <2> QED
    BY <2>1 DEF CallsInv, CallOK
<1>2. call' = call /\ Overlaps' /\ (call \in [Users -> CallRows])'
  BY DEF CallsInv, Overlaps, CallRows, Words, Seen
<1> QED
  BY <1>1, <1>2 DEF CallsInv

(* A beginning call is one more, which has met those under way; they met it.   *)
LEMMA BeginsCall ==
  ASSUME call \in [Users -> CallRows], NEW p \in Users, NEW op, NEW read, Begins(p, op, read)
  PROVE  /\ call[p].op = "none"
         /\ call'[p].op = op /\ call'[p].at = "read" /\ call'[p].read = read
         /\ call'[p].met = (Others(p) # {})
         /\ \A q \in Users \ {p} : /\ call'[q].op = call[q].op /\ call'[q].at = call[q].at
                                   /\ call'[q].met = (call[q].op # "none") /\ call'[q].read = call[q].read
         /\ (call \in [Users -> CallRows])'
<1> DEFINE met(q) == call[q].op # "none"
           other(q) == [call[q] EXCEPT !.met = met(q)]
           some == Others(p) # {}
           begun == [op |-> op, at |-> "read", met |-> some, read |-> read]
<1>1. call[p].op = "none" /\ call' = [q \in Users |-> IF q = p THEN begun ELSE other(q)]
  BY DEF Begins
<1>2. \A q \in Users : met(q) \in BOOLEAN
  OBVIOUS
<1>3. some \in BOOLEAN
  OBVIOUS
<1> HIDE DEF met, some
<1>4. \A q \in Users : other(q) = [op |-> call[q].op, at |-> call[q].at, met |-> met(q), read |-> call[q].read]
  BY CallShape
<1> HIDE DEF other, begun
<1>5. call'[p] = begun /\ \A q \in Users \ {p} : call'[q] = other(q)
  BY <1>1
<1>6. \A q \in Users \ {p} : /\ call'[q].op = call[q].op /\ call'[q].at = call[q].at
                             /\ call'[q].met = met(q) /\ call'[q].read = call[q].read
  BY <1>4, <1>5
<1>7. \A q \in Users :
        /\ call'[q].met \in BOOLEAN
        /\ call'[q] = [op |-> call'[q].op, at |-> call'[q].at, met |-> call'[q].met, read |-> call'[q].read]
  <2>1. call'[p] = [op |-> call'[p].op, at |-> call'[p].at, met |-> call'[p].met, read |-> call'[p].read]
    BY <1>5 DEF begun
  <2>2. call'[p].met \in BOOLEAN
    BY <1>3, <1>5 DEF begun
  <2> QED
    BY <1>2, <1>4, <1>5, <1>6, <2>1, <2>2
<1>8. (call \in [Users -> CallRows])'
  BY <1>1, <1>5, <1>7, ShapedCalls
<1>9. call'[p].op = op /\ call'[p].at = "read" /\ call'[p].read = read /\ call'[p].met = some
  BY <1>5 DEF begun
<1> QED
  BY <1>1, <1>6, <1>8, <1>9 DEF met, some

(* A beginning call leaves the calls in order when it has read what is there.  *)
LEMMA BeginsKeepCalls ==
  ASSUME CallsInv, NEW p \in Users, NEW op, NEW read, Begins(p, op, read), op # "none", Grows, CallOK(p)'
  PROVE  CallsInv'
<1>1. /\ call[p].op = "none" /\ call'[p].op = op
      /\ call'[p].met = (Others(p) # {})
      /\ \A q \in Users \ {p} : /\ call'[q].op = call[q].op /\ call'[q].at = call[q].at
                                /\ call'[q].met = (call[q].op # "none") /\ call'[q].read = call[q].read
      /\ (call \in [Users -> CallRows])'
  BY BeginsCall DEF CallsInv
<1>2. ASSUME NEW q \in Users PROVE CallOK(q)'
  <2>1. CASE q = p
    BY <2>1
  <2>2. CASE q # p
    <3>1. Reads(call[q])' /\ Refers(call[q])'
      BY <1>1, <2>2, RefersGrows DEF CallsInv, CallOK
    <3>2. call'[q].op = "none" => Fresh(call[q])'
      BY DEF Fresh, DeskFresh, CaseFresh, ContractFresh, DirectFresh
    <3> QED
      BY <1>1, <2>2, <3>1, <3>2 DEF CallOK
  <2> QED
    BY <2>1, <2>2
<1>3. Overlaps'
  <2>1. ASSUME NEW q \in Users, NEW u \in Users, q # u, call'[q].op # "none", call'[u].op # "none" PROVE call'[q].met
    <3>1. CASE q = p
      BY <1>1, <2>1, <3>1 DEF Others
    <3>2. CASE q # p
      BY <1>1, <2>1, <3>2
    <3> QED
      BY <3>1, <3>2
  <2> QED
    BY <2>1 DEF Overlaps
<1> QED
  BY <1>1, <1>2, <1>3 DEF CallsInv

-----------------------------------------------------------------------------
(* What a step leaves of the rest.                                             *)

(* Who is about to protect a notice stays so until it does.                    *)
LEMMA ProtectingStays ==
  ASSUME NEW p \in Users, Acts(p), ~(call[p].op \in {"case", "patch"} /\ call[p].at = "stored"),
         NEW n, Protecting(n)
  PROVE  Protecting(n)'
<1>1. PICK q \in Users : call[q].op \in {"case", "patch"} /\ call[q].at = "stored" /\ Seen(q).n = n
  BY DEF Protecting
<1>2. call'[q] = call[q]
  BY <1>1 DEF Acts
<1> QED
  BY <1>1, <1>2 DEF Protecting, Seen

(* Protection is kept by a step of a call that protects nothing when a case    *)
(* with its notice kept stays so.                                              *)
LEMMA ActsKeepProtection ==
  ASSUME KeptInv, NEW p \in Users, Acts(p), ~(call[p].op \in {"case", "patch"} /\ call[p].at = "stored"),
         \A n \in Notices : case'[n].id # 0 /\ <<n, "kept">> \notin mixed'
           => notice'[n].kept \/ Protecting(n)'
              \/ (case[n].id # 0 /\ <<n, "kept">> \notin mixed /\ (notice[n].kept => notice'[n].kept))
  PROVE  KeptInv'
  BY ProtectingStays DEF KeptInv

(* The locks on pending actions are kept by a step of a call that has none.    *)
LEMMA ActsKeepLocks ==
  ASSUME LockInv, NEW p \in Users, Acts(p), call'[p] = NoCall \/ call[p].op # "confirm",
         \A q \in Users \ {p} : Checked(q) => pending'[Seen(q).k].st = "awaiting"
  PROVE  LockInv'
<1>1. ~Checked(p)'
  BY DEF Checked, NoCall, Acts
<1>2. \A q \in Users \ {p} : (Checked(q)' <=> Checked(q)) /\ Seen(q)' = Seen(q)
  BY DEF Acts, Checked, Seen
<1> QED
  BY <1>1, <1>2 DEF LockInv

(* What is told of outcomes is kept by a step that tells nothing.              *)
LEMMA ActsKeepTold ==
  ASSUME ToldInv, NEW p \in Users, Acts(p), call[p].op \notin {"result", "revise"},
         \A row \in Results : row \in Results', tangled \subseteq tangled',
         \A o \in Opps : o \notin tangled' /\ Final(opp'[o])
           => \/ Final(opp[o]) /\ opp'[o].st = opp[o].st
              \/ [of |-> o, out |-> opp'[o].st] \in Results'
  PROVE  ToldInv'
<1>1. ~Telling(p)' /\ ~Telling(p)
  BY DEF Telling, NoCall, Acts
<1>2. \A q \in Users \ {p} : (Telling(q)' <=> Telling(q)) /\ Seen(q)' = Seen(q)
  BY DEF Acts, Telling, Seen
<1>3. ASSUME NEW o \in Opps, o \notin tangled', Final(opp'[o])
      PROVE  \/ [of |-> o, out |-> opp'[o].st] \in Results'
             \/ \E q \in Users : Telling(q)' /\ Seen(q)'.o = o
  <2>1. CASE Final(opp[o]) /\ opp'[o].st = opp[o].st
    <3>1. \/ [of |-> o, out |-> opp[o].st] \in Results
          \/ \E q \in Users : Telling(q) /\ Seen(q).o = o
      BY <1>3, <2>1 DEF ToldInv
    <3> QED
      BY <1>1, <1>2, <2>1, <3>1
  <2> QED
    BY <1>3, <2>1
<1>4. ASSUME NEW q \in Users, Telling(q)', Seen(q)'.o \notin tangled'
      PROVE  [of |-> Seen(q)'.o, out |-> Seen(q)'.out] \in Results'
  <2>1. q # p /\ Telling(q) /\ Seen(q)' = Seen(q)
    BY <1>1, <1>2, <1>4
  <2> QED
    BY <1>4, <2>1 DEF ToldInv
<1>5. (\A o \in Opps : o \notin tangled /\ Final(opp[o])
         => \/ [of |-> o, out |-> opp[o].st] \in Results
            \/ \E q \in Users : Telling(q) /\ Seen(q).o = o)'
  BY <1>3
<1> QED
  BY <1>4, <1>5 DEF ToldInv

(* A call begins with what is there: every part stays as it was.               *)
LEMMA BeginsKeep ==
  ASSUME DesksInv, NEW p \in Users, NEW op, NEW read, Begins(p, op, read), op # "none",
         UNCHANGED <<deskVars, caseVars, pending, revision, journal, directVars>>,
         lease' = lease \/ (op = "disarm" /\ lease' \in [Leases -> LeaseStates]),
         \A c : c.op = op /\ c.at = "read" /\ c.read = read => Reads(c) /\ Refers(c) /\ Fresh(c)
  PROVE  DesksInv'
<1>0. /\ notice' = notice /\ ctx' = ctx /\ areq' = areq /\ drafts' = drafts /\ mixed' = mixed
      /\ case' = case /\ made' = made /\ contracts' = contracts
      /\ pending' = pending /\ revision' = revision /\ journal' = journal
      /\ opp' = opp /\ result' = result /\ tangled' = tangled
  BY DEF deskVars, caseVars, directVars
<1>1. /\ call[p].op = "none" /\ call'[p].op = op /\ call'[p].at = "read" /\ call'[p].read = read
      /\ \A q \in Users \ {p} : call'[q].op = call[q].op /\ call'[q].at = call[q].at /\ call'[q].read = call[q].read
  BY BeginsCall DEF DesksInv, CallsInv
<1>2. Grows
  BY <1>0 DEF Grows, DesksInv, CaseTables
<1>3. CallOK(p)'
  <2>1. PICK c : c = call'[p]
    OBVIOUS
  <2>2. c.op = op /\ Reads(c) /\ Refers(c) /\ Fresh(c)
    BY <1>1, <2>1
  <2>3. Reads(c)'
    BY <2>2 DEF Reads, DeskRead, CaseRead, ContractRead, DirectRead
  <2>4. Refers(c)'
    BY <1>0, <2>2 DEF Refers
  <2>5. DeskFresh(c)'
    BY <1>0, <2>2 DEF Fresh, DeskFresh, ActiveContexts
  <2>6. CaseFresh(c)' /\ DirectFresh(c)'
    BY <1>0, <2>2 DEF Fresh, CaseFresh, DirectFresh
  <2>7. ContractFresh(c)'
    BY <2>2 DEF Fresh, ContractFresh
  <2> QED
    BY <2>1, <2>3, <2>4, <2>5, <2>6, <2>7 DEF CallOK, Fresh
<1>4. CallsInv'
  BY <1>2, <1>3, BeginsKeepCalls DEF DesksInv
<1>5. DeskRows' /\ FlagFollowsReview' /\ CaseTables' /\ ContractTables' /\ DirectTables'
  <2>1. DeskRows' /\ FlagFollowsReview'
    BY <1>0 DEF DesksInv, DeskRows, FlagFollowsReview
  <2>2. CaseTables' /\ ContractTables'
    BY <1>0 DEF DesksInv, CaseTables, ContractTables
  <2>3. DirectTables'
    BY <1>0 DEF DesksInv, DirectTables
  <2> QED
    BY <2>1, <2>2, <2>3
<1>6. KeptInv'
  <2>1. ASSUME NEW n \in Notices, Protecting(n) PROVE Protecting(n)'
    <3>1. PICK q \in Users : call[q].op \in {"case", "patch"} /\ call[q].at = "stored" /\ Seen(q).n = n
      BY <2>1 DEF Protecting
    <3> QED
      BY <1>1, <3>1 DEF Protecting, Seen
  <2> QED
    BY <1>0, <2>1 DEF DesksInv, KeptInv
<1>7. LockInv'
  <2>1. \A q \in Users : Checked(q)' => Checked(q) /\ Seen(q)' = Seen(q)
    BY <1>1 DEF Checked, Seen
  <2> QED
    BY <1>0, <2>1 DEF DesksInv, LockInv
<1>8. ToldInv'
  <2>1. \A q \in Users : (Telling(q)' <=> Telling(q)) /\ (Telling(q) => Seen(q)' = Seen(q))
    BY <1>1 DEF Telling, Seen
  <2>2. Results' = Results
    BY <1>0 DEF Results
  <2> QED
    BY <1>0, <2>1, <2>2 DEF DesksInv, ToldInv
<1> QED
  BY <1>4, <1>5, <1>6, <1>7, <1>8 DEF DesksInv

(* A write at the desk of analysis leaves the other desks alone.               *)
LEMMA DeskActs ==
  ASSUME DesksInv, NEW p \in Users, Acts(p), CallOK(p)', Grows, DeskRows', FlagFollowsReview',
         call[p].op \notin {"case", "patch", "confirm", "result", "revise"},
         \A n \in Notices : <<n, "kept">> \notin mixed'
           => <<n, "kept">> \notin mixed /\ (notice[n].kept => notice'[n].kept),
         UNCHANGED <<caseVars, contractVars, directVars>>
  PROVE  DesksInv'
<1>1. CallsInv'
  BY ActsKeepCalls DEF DesksInv
<1>2. /\ case' = case /\ made' = made /\ contracts' = contracts
      /\ lease' = lease /\ pending' = pending /\ revision' = revision /\ journal' = journal
      /\ opp' = opp /\ result' = result /\ tangled' = tangled
  BY DEF caseVars, contractVars, directVars
<1>3. CaseTables' /\ ContractTables' /\ DirectTables'
  BY <1>2 DEF DesksInv, CaseTables, ContractTables, DirectTables
<1>4. KeptInv'
  BY <1>2, ActsKeepProtection DEF DesksInv
<1>5. LockInv'
  BY <1>2, ActsKeepLocks DEF DesksInv, LockInv
<1>6. ToldInv'
  <2>1. Results' = Results
    BY <1>2 DEF Results
  <2> QED
    BY <1>2, <2>1, ActsKeepTold DEF DesksInv
<1> QED
  BY <1>1, <1>3, <1>4, <1>5, <1>6 DEF DesksInv

-----------------------------------------------------------------------------
(* Least and largest members, and what is in a sequence.                       *)

(* Every nonempty set of naturals has a smallest member.                       *)
LEMMA SmallestOf ==
  ASSUME NEW T, T \subseteq Nat, T # {}
  PROVE  \E x \in T : \A y \in T : x <= y
<1> DEFINE R == OpToRel(<, Nat)
<1>1. \A x, y \in Nat : <<y, x>> \in R <=> y < x
  BY DEF OpToRel
<1>2. \E x \in T : \A y \in T : ~(<<y, x>> \in R)
  <2>1. IsWellFoundedOn(R, Nat)
    BY NatLessThanWellFounded
  <2> HIDE DEF R
  <2> QED
    BY <2>1, WFMin
<1> HIDE DEF R
<1>3. PICK x \in T : \A y \in T : ~(y < x)
  BY <1>1, <1>2
<1> QED
  BY <1>3

(* Every nonempty set of naturals up to a bound has a largest member.          *)
LEMMA LargestOf ==
  ASSUME NEW m \in Nat, NEW T, T \subseteq 0..m, T # {}
  PROVE  \E x \in T : \A y \in T : y <= x
<1> DEFINE D == {m - x : x \in T}
<1>1. D \subseteq Nat /\ D # {}
  <2>1. \A x \in T : x \in 0..m
    OBVIOUS
  <2>2. \A x \in T : m - x \in Nat
    BY <2>1
  <2> QED
    BY <2>2
<1>2. PICK d \in D : \A e \in D : d <= e
  <2> HIDE DEF D
  <2> QED
    BY <1>1, SmallestOf
<1>3. PICK x \in T : d = m - x
  BY <1>2
<1>4. ASSUME NEW y \in T PROVE y <= x
  <2>1. m - y \in D
    OBVIOUS
  <2>2. d <= m - y
    BY <1>2, <2>1
  <2> QED
    BY <1>3, <2>2
<1> QED
  BY <1>4

(* The newest of some versions is one of them.                                 *)
LEMMA NewestIsOne ==
  ASSUME NEW vs \in SUBSET Versions, vs # {}
  PROVE  Newest(vs) \in vs
<1>1. Cardinality(Versions) \in Nat
  BY VersionsAssumption, FS_CardinalityType
<1>2. vs \subseteq 0..Cardinality(Versions)
  BY <1>1, VersionsAssumption
<1>3. \E v \in vs : \A u \in vs : u <= v
  BY <1>1, <1>2, LargestOf
<1> QED
  BY <1>3, Zenon DEF Newest

(* A member of a sequence may be replaced, if it is there.                     *)
LEMMA Replaced ==
  ASSUME NEW S, NEW s \in Seq(S), NEW i, NEW x \in S
  PROVE  [s EXCEPT ![i] = x] \in Seq(S)
<1>1. s \in [1..Len(s) -> S] /\ Len(s) \in Nat
  OBVIOUS
<1>2. [s EXCEPT ![i] = x] \in [1..Len(s) -> S]
  BY <1>1
<1> QED
  BY <1>1, <1>2

(* A function over the domain of a sequence is a sequence.                     *)
LEMMA Mapped ==
  ASSUME NEW S, NEW R, NEW s \in Seq(R), NEW f, f = [k \in DOMAIN s |-> f[k]], \A k \in DOMAIN s : f[k] \in S
  PROVE  f \in Seq(S) /\ Len(f) = Len(s)
<1>1. f \in [1..Len(s) -> S] /\ Len(s) \in Nat
  OBVIOUS
<1> QED
  BY <1>1

-----------------------------------------------------------------------------
(* The latest draft of a notice and what it says.                              *)

(* The latest draft is the last of the notice, if there is any.                *)
LEMMA LatestIsLast ==
  ASSUME NEW ds \in Seq(DraftRows), NEW n
  PROVE  /\ Latest(ds, n) = 0 => \A k \in DOMAIN ds : ds[k].n # n
         /\ Latest(ds, n) # 0 => /\ Latest(ds, n) \in DOMAIN ds /\ ds[Latest(ds, n)].n = n
                                 /\ \A k \in DOMAIN ds : ds[k].n = n => k <= Latest(ds, n)
         /\ Latest(ds, n) \in Nat
<1> DEFINE own == {k \in DOMAIN ds : ds[k].n = n}
<1>1. Len(ds) \in Nat /\ DOMAIN ds = 1..Len(ds)
  OBVIOUS
<1>2. own = {} => Latest(ds, n) = 0
  BY DEF Latest
<1>3. own # {} => Latest(ds, n) \in own /\ \A k \in own : k <= Latest(ds, n)
  <2>1. own \subseteq 0..Len(ds)
    BY <1>1
  <2>2. own # {} => \E k \in own : \A j \in own : j <= k
    <3> HIDE DEF own
    <3> QED
      BY <1>1, <2>1, LargestOf
  <2>3. own # {} => Latest(ds, n) = CHOOSE k \in own : \A j \in own : j <= k
    BY DEF Latest
  <2> HIDE DEF own
  <2> QED
    BY <2>2, <2>3
<1> QED
  BY <1>1, <1>2, <1>3

(* It is known by being the last.                                              *)
LEMMA LatestIsUnique ==
  ASSUME NEW ds \in Seq(DraftRows), NEW n, NEW k \in DOMAIN ds, ds[k].n = n,
         \A j \in DOMAIN ds : ds[j].n = n => j <= k
  PROVE  Latest(ds, n) = k
<1>1. k \in Nat /\ k # 0
  OBVIOUS
<1>2. Latest(ds, n) # 0
  BY LatestIsLast
<1>3. Latest(ds, n) \in Nat /\ k <= Latest(ds, n) /\ Latest(ds, n) <= k
  BY <1>2, LatestIsLast
<1> QED
  BY <1>1, <1>3

(* Drafts of the same notices have the same latest ones.                       *)
LEMMA SameLatest ==
  ASSUME NEW ds \in Seq(DraftRows), NEW es \in Seq(DraftRows), Len(es) = Len(ds), NEW n,
         \A k \in DOMAIN ds : es[k].n = ds[k].n
  PROVE  Latest(es, n) = Latest(ds, n)
<1>1. DOMAIN es = DOMAIN ds
  OBVIOUS
<1>2. CASE Latest(ds, n) = 0
  BY <1>1, <1>2, LatestIsLast
<1>3. CASE Latest(ds, n) # 0
  BY <1>1, <1>3, LatestIsLast, LatestIsUnique
<1> QED
  BY <1>2, <1>3

(* A new draft is the latest of its notice, and of no other.                   *)
LEMMA LatestOfMore ==
  ASSUME NEW ds \in Seq(DraftRows), NEW d \in DraftRows, NEW n
  PROVE  /\ d.n = n => Latest(Append(ds, d), n) = Len(ds) + 1
         /\ d.n # n => Latest(Append(ds, d), n) = Latest(ds, n)
<1> DEFINE es == Append(ds, d)
<1>1. /\ es \in Seq(DraftRows) /\ Len(ds) \in Nat /\ DOMAIN ds = 1..Len(ds)
      /\ DOMAIN es = 1..(Len(ds) + 1) /\ es[Len(ds) + 1] = d
      /\ \A k \in DOMAIN ds : es[k] = ds[k]
  OBVIOUS
<1> HIDE DEF es
<1>2. CASE d.n = n
  <2>1. Latest(es, n) = Len(ds) + 1
    BY <1>1, <1>2, LatestIsUnique
  <2> QED
    BY <1>2, <2>1 DEF es
<1>3. CASE d.n # n
  <2>1. \A k \in DOMAIN es : es[k].n = n => k \in DOMAIN ds /\ ds[k].n = n
    BY <1>1, <1>3
  <2>2. CASE Latest(ds, n) = 0
    <3>1. Latest(es, n) = 0
      BY <1>1, <2>1, <2>2, LatestIsLast
    <3> QED
      BY <1>3, <2>2, <3>1 DEF es
  <2>3. CASE Latest(ds, n) # 0
    <3>1. Latest(ds, n) \in DOMAIN es /\ es[Latest(ds, n)].n = n
          /\ \A k \in DOMAIN es : es[k].n = n => k <= Latest(ds, n)
      BY <1>1, <2>1, <2>3, LatestIsLast
    <3>2. Latest(es, n) = Latest(ds, n)
      BY <1>1, <3>1, LatestIsUnique
    <3> QED
      BY <1>3, <3>2 DEF es
  <2> QED
    BY <2>2, <2>3
<1> QED
  BY <1>2, <1>3

-----------------------------------------------------------------------------
(* The context.                                                                *)

(* A step that writes the context leaves everything else as it was.            *)
LEMMA ContextActs ==
  ASSUME DesksInv, NEW p \in Users, Acts(p), CallOK(p)', ctx' \in [Versions -> ContextRows],
         call[p].op \in {"edit", "attach", "detach", "newdraft", "activate"},
         UNCHANGED <<notice, areq, drafts, mixed>>, UNCHANGED <<caseVars, contractVars, directVars>>
  PROVE  DesksInv'
<1>1. Grows
  BY DEF Grows, DesksInv, CaseTables, caseVars
<1>2. DeskRows' /\ FlagFollowsReview'
  BY DEF DesksInv, DeskRows, FlagFollowsReview
<1> QED
  BY <1>1, <1>2, DeskActs

(* A PATCH writes a context of the right shape.                                *)
LEMMA SaveContextKeeps ==
  ASSUME DesksInv, NEW p \in Users, SaveContext(p), UNCHANGED <<caseVars, contractVars, directVars>>
  PROVE  DesksInv'
<1>1. call[p].op = "edit" /\ Ends(p) /\ UNCHANGED <<notice, areq, drafts, mixed>>
  BY DEF SaveContext, At
<1>2. PICK st \in {"draft", "retired"} :
        ctx' = [ctx EXCEPT ![Seen(p).v].st = st, ![Seen(p).v].text = Seen(p).saw.text + 1]
  BY DEF SaveContext
<1>3. PICK v, text : v = Seen(p).v /\ text = Seen(p).saw.text + 1
  OBVIOUS
<1>4. Seen(p) \in [v : Versions, saw : ContextRows]
  BY <1>1 DEF DesksInv, CallsInv, CallOK, Reads, DeskRead, Seen
<1>5. v \in Versions /\ text \in Nat
  BY <1>3, <1>4 DEF ContextRows
<1>6. ctx' \in [Versions -> ContextRows]
  <2>1. PICK c : c = [ctx EXCEPT ![v].st = st]
    OBVIOUS
  <2>2. c \in [Versions -> ContextRows]
    BY <1>5, <2>1 DEF DesksInv, DeskRows, ContextRows
  <2>3. ctx' = [c EXCEPT ![v].text = text]
    BY <1>2, <1>3, <2>1, Zenon
  <2> QED
    BY <1>5, <2>2, <2>3 DEF ContextRows
<1> QED
  BY <1>1, <1>6, EndsInOrder, ContextActs DEF DesksInv

(* A file more or less.                                                        *)
LEMMA FilesKeep ==
  ASSUME DesksInv, NEW p \in Users, AttachFile(p) \/ DetachFile(p), UNCHANGED <<caseVars, contractVars, directVars>>
  PROVE  DesksInv'
<1>1. call[p].op \in {"attach", "detach"} /\ Ends(p) /\ UNCHANGED <<notice, areq, drafts, mixed>>
  BY DEF AttachFile, DetachFile, At
<1>2. Seen(p) \in [v : Versions, saw : ContextRows]
  BY <1>1 DEF DesksInv, CallsInv, CallOK, Reads, DeskRead, Seen
<1>3. PICK v \in Versions : v = Seen(p).v
  BY <1>2
<1>4. ctx \in [Versions -> ContextRows] /\ ctx[v].files \in Nat
  BY DEF DesksInv, DeskRows, ContextRows
<1>5. \E files \in Nat : ctx' = [ctx EXCEPT ![v].files = files]
  <2>1. CASE AttachFile(p)
    <3>1. ctx' = [ctx EXCEPT ![v].files = ctx[v].files + 1]
      BY <1>3, <1>4, <2>1 DEF AttachFile
    <3>2. ctx[v].files + 1 \in Nat
      BY <1>4, <3>1
    <3> QED
      BY <3>1, <3>2, Zenon
  <2>2. CASE DetachFile(p)
    <3>1. ctx' = [ctx EXCEPT ![v].files = ctx[v].files - 1] /\ ctx[v].files > 0
      BY <1>3, <1>4, <2>2 DEF DetachFile
    <3>2. ctx[v].files - 1 \in Nat
      BY <1>4, <3>1
    <3> QED
      BY <3>1, <3>2, Zenon
  <2> QED
    BY <2>1, <2>2
<1>6. ctx' \in [Versions -> ContextRows]
  BY <1>5 DEF DesksInv, DeskRows, ContextRows
<1> QED
  BY <1>1, <1>6, EndsInOrder, ContextActs DEF DesksInv

(* A new draft of the context is a copy of a version there is.                 *)
LEMMA CreateContextDraftKeeps ==
  ASSUME DesksInv, NEW p \in Users, CreateContextDraft(p), UNCHANGED <<caseVars, contractVars, directVars>>
  PROVE  DesksInv'
<1> DEFINE used == {v \in Versions : ctx[v].st # "none"}
<1>1. call[p].op = "newdraft" /\ Ends(p) /\ UNCHANGED <<notice, areq, drafts, mixed>> /\ used # {}
  BY DEF CreateContextDraft, At
<1>2. PICK source, v : /\ source = (IF Seen(p).from # {} THEN Newest(Seen(p).from) ELSE Newest(used))
                       /\ v \in Versions /\ ctx' = [ctx EXCEPT ![v] = [ctx[source] EXCEPT !.st = "draft"]]
  BY DEF CreateContextDraft
<1>3. Seen(p) \in [from : SUBSET Versions]
  BY <1>1 DEF DesksInv, CallsInv, CallOK, Reads, DeskRead, Seen
<1>4. source \in Versions
  <2>1. used \in SUBSET Versions /\ Seen(p).from \in SUBSET Versions
    BY <1>3
  <2> HIDE DEF used
  <2>2. Newest(used) \in Versions /\ (Seen(p).from # {} => Newest(Seen(p).from) \in Versions)
    BY <1>1, <2>1, NewestIsOne
  <2> QED
    BY <1>2, <2>2
<1>5. ctx' \in [Versions -> ContextRows]
  <2>1. PICK row : row = [ctx[source] EXCEPT !.st = "draft"]
    OBVIOUS
  <2>2. row \in ContextRows
    BY <1>4, <2>1 DEF DesksInv, DeskRows, ContextRows
  <2>3. ctx' = [ctx EXCEPT ![v] = row]
    BY <1>2, <2>1
  <2> QED
    BY <2>2, <2>3 DEF DesksInv, DeskRows
<1> QED
  BY <1>1, <1>5, EndsInOrder, ContextActs DEF DesksInv

(* Activation retires first: what it is going to retire is all that is active. *)
LEMMA RetireOthersKeeps ==
  ASSUME DesksInv, NEW p \in Users, RetireOthers(p), UNCHANGED <<caseVars, contractVars, directVars>>
  PROVE  DesksInv'
<1> PICK v, saw, old : v = Seen(p).v /\ saw = Seen(p).saw /\ old = ToRetire(v)
  OBVIOUS
<1>1. call[p].op = "activate" /\ call[p].at = "read"
      /\ Continues(p, "retired", [v |-> v, saw |-> saw, old |-> old])
      /\ UNCHANGED <<notice, ctx, areq, drafts, mixed>>
  BY DEF RetireOthers, At, deskVars
<1>2. Acts(p) /\ call'[p] = [op |-> "activate", at |-> "retired", met |-> call[p].met,
                             read |-> [v |-> v, saw |-> saw, old |-> old]]
  BY <1>1, ContinuesActs DEF DesksInv, CallsInv
<1>3. Seen(p) \in [v : Versions, saw : ContextRows]
  BY <1>1 DEF DesksInv, CallsInv, CallOK, Reads, DeskRead, Seen
<1>4. v \in Versions /\ saw \in ContextRows /\ old \in SUBSET Versions /\ old = ActiveContexts' \ {v}
  BY <1>1, <1>3 DEF ToRetire, ActiveContexts
<1>5. call'[p].read \in [v : Versions, saw : ContextRows, old : SUBSET Versions]
      /\ call'[p].read.old = ActiveContexts' \ {call'[p].read.v}
      /\ call'[p].op = "activate" /\ call'[p].at = "retired"
  BY <1>2, <1>4
<1>6. CallOK(p)'
  BY <1>5 DEF CallOK, Reads, DeskRead, CaseRead, ContractRead, DirectRead, Refers,
              Fresh, DeskFresh, CaseFresh, ContractFresh, DirectFresh
<1>7. ctx' \in [Versions -> ContextRows]
  BY <1>1 DEF DesksInv, DeskRows
<1> QED
  BY <1>1, <1>2, <1>6, <1>7, ContextActs

(* ... and activates the version as it was read.                               *)
LEMMA CommitActivationKeeps ==
  ASSUME DesksInv, NEW p \in Users, CommitActivation(p), UNCHANGED <<caseVars, contractVars, directVars>>
  PROVE  DesksInv'
<1>1. call[p].op = "activate" /\ call[p].at = "retired" /\ Ends(p) /\ UNCHANGED <<notice, areq, drafts, mixed>>
  BY DEF CommitActivation, At
<1>2. Seen(p) \in [v : Versions, saw : ContextRows, old : SUBSET Versions]
  BY <1>1 DEF DesksInv, CallsInv, CallOK, Reads, DeskRead, Seen
<1>3. ctx \in [Versions -> ContextRows]
  BY DEF DesksInv, DeskRows
<1> DEFINE kept(u) == IF u \in Seen(p).old /\ ctx[u].st = "active" THEN [ctx[u] EXCEPT !.st = "retired"] ELSE ctx[u]
           new(v) == [Seen(p).saw EXCEPT !.st = "active", !.files = ctx[v].files]
<1>4. ASSUME NEW u \in Versions PROVE kept(u) \in ContextRows
  BY <1>3 DEF ContextRows
<1>5. ASSUME NEW v \in Versions PROVE new(v) \in ContextRows
  <2>1. PICK row : row = [Seen(p).saw EXCEPT !.st = "active"]
    OBVIOUS
  <2>2. row \in ContextRows
    BY <1>2, <2>1 DEF ContextRows
  <2>3. PICK files : files = ctx[v].files
    OBVIOUS
  <2>4. new(v) = [row EXCEPT !.files = files]
    BY <2>1, <2>3, Zenon
  <2>5. files \in Nat
    BY <1>3, <2>3 DEF ContextRows
  <2> QED
    BY <2>2, <2>4, <2>5 DEF ContextRows
<1>6. ctx' = [u \in Versions |-> IF u = Seen(p).v THEN new(Seen(p).v) ELSE kept(u)]
  BY Zenon DEF CommitActivation
<1>7. Seen(p).v \in Versions
  BY <1>2
<1> HIDE DEF new, kept
<1>8. ctx' \in [Versions -> ContextRows]
  BY <1>4, <1>5, <1>6, <1>7
<1> QED
  BY <1>1, <1>8, EndsInOrder, ContextActs DEF DesksInv

-----------------------------------------------------------------------------
(* Requests and batches.                                                       *)
RequestStatus == Open \cup {"none", "completed", "failed", "no_changes"}

(* A step that writes requests and work states leaves everything else.         *)
LEMMA RequestActs ==
  ASSUME DesksInv, NEW p \in Users, Acts(p), CallOK(p)',
         call[p].op \in {"start", "finish", "complete", "addbatch"},
         areq' \in [Requests -> RequestRows],
         \A q \in Requests : Used(areq'[q]),
         \A q \in Requests : areq[q].st # "none" => areq'[q].st # "none",
         notice' \in [Notices -> NoticeRows],
         \A n \in Notices : notice'[n].rec = notice[n].rec /\ notice'[n].kept = notice[n].kept,
         UNCHANGED <<ctx, drafts, mixed>>, UNCHANGED <<caseVars, contractVars, directVars>>
  PROVE  DesksInv'
<1>1. Grows
  BY DEF Grows, DesksInv, CaseTables, caseVars
<1>2. DeskRows'
  BY DEF DesksInv, DeskRows
<1>3. FlagFollowsReview'
  BY DEF DesksInv, FlagFollowsReview
<1> QED
  BY <1>1, <1>2, <1>3, DeskActs

(* The row of a request there is may be replaced by one of the same context.   *)
LEMMA RequestWritten ==
  ASSUME DesksInv, NEW q \in Requests, NEW row \in RequestRows,
         areq' = [areq EXCEPT ![q] = row], areq[q].st # "none", row.st # "none", row.ctx = areq[q].ctx
  PROVE  /\ areq' \in [Requests -> RequestRows]
         /\ \A x \in Requests : Used(areq'[x])
         /\ \A x \in Requests : areq[x].st # "none" => areq'[x].st # "none"
<1>1. /\ areq \in [Requests -> RequestRows]
      /\ \A x \in Requests : Used(areq[x])
  BY DEF DesksInv, DeskRows
<1>2. areq' \in [Requests -> RequestRows] /\ areq'[q] = row /\ \A x \in Requests \ {q} : areq'[x] = areq[x]
  BY <1>1
<1> QED
  BY <1>1, <1>2 DEF Used

(* Completing a request writes its status and its sets.                        *)
LEMMA CompleteRequestKeeps ==
  ASSUME DesksInv, NEW p \in Users, CompleteRequest(p), UNCHANGED <<caseVars, contractVars, directVars>>
  PROVE  DesksInv'
<1>1. call[p].op = "complete" /\ Ends(p) /\ UNCHANGED <<notice, ctx, drafts, mixed>>
  BY DEF CompleteRequest, At
<1>2. Seen(p) \in [q : Requests, saw : RequestRows]
  BY <1>1 DEF DesksInv, CallsInv, CallOK, Reads, DeskRead, Seen
<1> PICK q, cand, failed, row :
      q = Seen(p).q /\ cand = Seen(p).saw.cand /\ failed = Seen(p).saw.failed /\ row = areq[q]
  OBVIOUS
<1>3. PICK st \in {"completed", "no_changes", "failed"} :
        areq' = [areq EXCEPT ![q] = [@ EXCEPT !.st = st, !.cand = cand, !.failed = failed]]
  BY DEF CompleteRequest
<1>4. /\ q \in Requests /\ cand \in SUBSET Notices /\ failed \in SUBSET Notices
      /\ st \in RequestStatus /\ st # "none"
  BY <1>2, <1>3 DEF RequestRows, RequestStatus
<1>5. areq \in [Requests -> RequestRows] /\ row \in RequestRows
      /\ \A x \in Requests : Used(areq[x])
  BY <1>3, <1>4 DEF DesksInv, DeskRows
<1>6. areq[q].st # "none"
  BY <1>1, <1>3 DEF DesksInv, CallsInv, CallOK, Refers, Seen
<1>7. PICK r1 : r1 = [row EXCEPT !.st = st]
  OBVIOUS
<1>8. PICK r2 : r2 = [r1 EXCEPT !.cand = cand]
  OBVIOUS
<1>9. PICK r3 : r3 = [r2 EXCEPT !.failed = failed]
  OBVIOUS
<1>10. r3 \in RequestRows /\ r3.st = st /\ r3.ctx = row.ctx
  <2>1. r1 \in RequestRows /\ r1.st = st /\ r1.ctx = row.ctx
    BY <1>4, <1>5, <1>7 DEF RequestRows, RequestStatus
  <2>2. r2 \in RequestRows /\ r2.st = st /\ r2.ctx = row.ctx
    BY <1>4, <1>8, <2>1 DEF RequestRows
  <2> QED
    BY <1>4, <1>9, <2>2 DEF RequestRows
<1>11. areq' = [areq EXCEPT ![q] = r3]
  <2>1. [row EXCEPT !.st = st, !.cand = cand, !.failed = failed] = r3
    BY <1>7, <1>8, <1>9, Zenon
  <2> QED
    BY <1>3, <1>4, <1>5, <2>1
<1>12. st # "none"
  OBVIOUS
<1>13. /\ areq' \in [Requests -> RequestRows]
       /\ \A x \in Requests : Used(areq'[x])
       /\ \A x \in Requests : areq[x].st # "none" => areq'[x].st # "none"
  BY <1>4, <1>6, <1>10, <1>11, <1>12, RequestWritten
<1>14. notice' \in [Notices -> NoticeRows]
  BY <1>1 DEF DesksInv, DeskRows
<1> QED
  BY <1>1, <1>13, <1>14, EndsInOrder, RequestActs DEF DesksInv

(* A batch more.                                                               *)
LEMMA AddBatchKeeps ==
  ASSUME DesksInv, NEW p \in Users, AddBatch(p), UNCHANGED <<caseVars, contractVars, directVars>>
  PROVE  DesksInv'
<1>1. call[p].op = "addbatch" /\ Ends(p) /\ UNCHANGED <<notice, ctx, drafts, mixed>>
  BY DEF AddBatch, At
<1>2. Seen(p) \in [q : Requests, saw : RequestRows]
  BY <1>1 DEF DesksInv, CallsInv, CallOK, Reads, DeskRead, Seen
<1> PICK q : q = Seen(p).q
  OBVIOUS
<1>3. q \in Requests /\ areq[q].st # "none"
  BY <1>1, <1>2 DEF DesksInv, CallsInv, CallOK, Refers, Seen
<1>4. areq \in [Requests -> RequestRows]
  BY DEF DesksInv, DeskRows
<1> PICK row, batches : row = areq[q] /\ batches = Append(areq[q].batches, "processing")
  OBVIOUS
<1>5. row \in RequestRows /\ batches \in Seq(BatchStates)
  <2>1. row \in RequestRows /\ row.batches \in Seq(BatchStates)
    BY <1>3, <1>4 DEF RequestRows
  <2>2. "processing" \in BatchStates
    BY DEF BatchStates
  <2> HIDE DEF BatchStates
  <2>3. Append(row.batches, "processing") \in Seq(BatchStates)
    BY <2>1, <2>2
  <2> QED
    BY <2>1, <2>3
<1> PICK r1 : r1 = [row EXCEPT !.st = "processing"]
  OBVIOUS
<1> PICK r2 : r2 = [r1 EXCEPT !.batches = batches]
  OBVIOUS
<1>6. r1 \in RequestRows /\ r1.ctx = row.ctx /\ r1.st = "processing" /\ r1.batches = row.batches
  BY <1>5 DEF RequestRows, Open
<1>7. r2 \in RequestRows /\ r2.ctx = row.ctx /\ r2.st = "processing"
  BY <1>5, <1>6 DEF RequestRows, Open
<1>8. areq' = [areq EXCEPT ![q] = r2]
  <2>1. areq' = [areq EXCEPT ![q] = [@ EXCEPT !.st = "processing", !.batches = batches]]
    BY DEF AddBatch
  <2>2. [row EXCEPT !.st = "processing", !.batches = batches] = r2
    BY Zenon
  <2> QED
    BY <1>3, <1>4, <2>1, <2>2
<1>9. /\ areq' \in [Requests -> RequestRows]
      /\ \A x \in Requests : Used(areq'[x])
      /\ \A x \in Requests : areq[x].st # "none" => areq'[x].st # "none"
  BY <1>3, <1>7, <1>8, RequestWritten
<1>10. notice' \in [Notices -> NoticeRows]
  BY <1>1 DEF DesksInv, DeskRows
<1> QED
  BY <1>1, <1>9, <1>10, EndsInOrder, RequestActs DEF DesksInv

(* Finishing writes the request with its last batch, and the failed notices.   *)
LEMMA FinishWriteKeeps ==
  ASSUME DesksInv, NEW p \in Users, FinishWrite(p), UNCHANGED <<caseVars, contractVars, directVars>>
  PROVE  DesksInv'
<1>1. call[p].op = "finish" /\ Ends(p) /\ UNCHANGED <<ctx, drafts, mixed>>
  BY DEF FinishWrite, At
<1>2. Seen(p) \in [q : Requests, drafted : SUBSET Notices, cand : SUBSET Notices, supplied : SUBSET Notices]
  BY <1>1 DEF DesksInv, CallsInv, CallOK, Reads, DeskRead, Seen
<1> PICK q, row, failed, cand, last, st, batch :
      /\ q = Seen(p).q /\ row = areq[q] /\ failed = AllFailed(Seen(p)) /\ cand = Seen(p).cand
      /\ last = Len(areq[q].batches) /\ st = FinishStatus(Seen(p))
      /\ batch = (IF failed = {} THEN "completed" ELSE IF Seen(p).drafted # {} THEN "partial" ELSE "failed")
  OBVIOUS
<1>3. q \in Requests /\ areq[q].st # "none"
  BY <1>1, <1>2 DEF DesksInv, CallsInv, CallOK, Refers, Seen
<1>4. areq \in [Requests -> RequestRows] /\ row \in RequestRows
  BY <1>3 DEF DesksInv, DeskRows
<1>5. /\ failed \in SUBSET Notices /\ cand \in SUBSET Notices /\ batch \in {"completed", "partial", "failed"}
      /\ st \in {"completed", "failed", "no_changes"}
  <2>1. failed \in SUBSET Notices /\ cand \in SUBSET Notices
    BY <1>2 DEF AllFailed
  <2> QED
    BY <2>1 DEF FinishStatus
<1> PICK r1 : r1 = [row EXCEPT !.st = st]
  OBVIOUS
<1> PICK r2 : r2 = [r1 EXCEPT !.failed = failed]
  OBVIOUS
<1> PICK r3 : r3 = [r2 EXCEPT !.cand = cand]
  OBVIOUS
<1> PICK batches : batches = [row.batches EXCEPT ![last] = batch]
  OBVIOUS
<1> PICK r4 : r4 = [r3 EXCEPT !.batches = batches]
  OBVIOUS
<1>6. r3 \in RequestRows /\ r3.ctx = row.ctx /\ r3.st = st /\ r3.batches = row.batches
  <2>1. r1 \in RequestRows /\ r1.ctx = row.ctx /\ r1.st = st /\ r1.batches = row.batches
    BY <1>4, <1>5 DEF RequestRows
  <2>2. r2 \in RequestRows /\ r2.ctx = row.ctx /\ r2.st = st /\ r2.batches = row.batches
    BY <1>5, <2>1 DEF RequestRows
  <2> QED
    BY <1>5, <2>2 DEF RequestRows
<1>7. batches \in Seq(BatchStates)
  <2>1. row.batches \in Seq(BatchStates) /\ batch \in BatchStates
    BY <1>4, <1>5 DEF RequestRows, BatchStates
  <2> HIDE DEF BatchStates
  <2> QED
    BY <2>1, Replaced
<1>8. r4 \in RequestRows /\ r4.ctx = row.ctx /\ r4.st = st
  BY <1>6, <1>7 DEF RequestRows
<1>9. areq' = [areq EXCEPT ![q] = r4]
  <2> PICK new : new = [row EXCEPT !.st = st, !.failed = failed, !.cand = cand, !.batches[last] = batch]
    OBVIOUS
  <2>1. areq' = [areq EXCEPT ![q] = new]
    <3>1. areq' = [areq EXCEPT ![q] = [@ EXCEPT !.st = st, !.failed = failed, !.cand = cand, !.batches[last] = batch]]
      BY DEF FinishWrite
    <3> QED
      BY <1>3, <1>4, <3>1
  <2>2. new = [r3 EXCEPT !.batches[last] = batch]
    BY Zenon
  <2>3. [r3 EXCEPT !.batches[last] = batch] = r4
    BY <1>6 DEF RequestRows
  <2>4. new = r4
    BY <2>2, <2>3, Zenon
  <2> QED
    BY ONLY <2>1, <2>4
<1>10. /\ areq' \in [Requests -> RequestRows]
       /\ \A x \in Requests : Used(areq'[x])
       /\ \A x \in Requests : areq[x].st # "none" => areq'[x].st # "none"
  <2>1. /\ q \in Requests /\ r4 \in RequestRows /\ areq' = [areq EXCEPT ![q] = r4]
        /\ areq[q].st # "none" /\ r4.st # "none" /\ r4.ctx = areq[q].ctx
    BY <1>3, <1>5, <1>8, <1>9
  <2> QED
    BY <2>1, RequestWritten
<1>11. /\ notice' \in [Notices -> NoticeRows]
       /\ \A n \in Notices : notice'[n].rec = notice[n].rec /\ notice'[n].kept = notice[n].kept
  <2>1. notice' = [n \in Notices |-> IF n \in failed THEN [notice[n] EXCEPT !.work = "failed"] ELSE notice[n]]
    BY DEF FinishWrite
  <2>2. notice \in [Notices -> NoticeRows]
    BY DEF DesksInv, DeskRows
  <2> QED
    BY <2>1, <2>2 DEF NoticeRows
<1> QED
  BY <1>1, <1>10, <1>11, EndsInOrder, RequestActs DEF DesksInv

(* What was left open fails with its batches in work, and is there still.      *)
LEMMA RecoveryIsTyped ==
  ASSUME areq \in [Requests -> RequestRows], NEW qs
  PROVE  /\ Recovery(qs) \in [Requests -> RequestRows]
         /\ \A q \in Requests : /\ Recovery(qs)[q].ctx = areq[q].ctx
                                /\ Recovery(qs)[q].st \in {"failed", areq[q].st}
                                /\ q \notin qs => Recovery(qs)[q] = areq[q]
<1> DEFINE mapped(q) == [b \in DOMAIN areq[q].batches |->
                           IF areq[q].batches[b] = "processing" THEN "failed" ELSE areq[q].batches[b]]
           changed(q) == [areq[q] EXCEPT !.st = "failed", !.batches = mapped(q)]
<1>1. Recovery(qs) = [q \in Requests |-> IF q \in qs THEN changed(q) ELSE areq[q]]
  BY Zenon DEF Recovery
<1>2. ASSUME NEW q \in Requests
      PROVE  changed(q) \in RequestRows /\ changed(q).ctx = areq[q].ctx /\ changed(q).st = "failed"
  <2> PICK row, m : row = areq[q] /\ m = mapped(q)
    OBVIOUS
  <2>1. row \in RequestRows /\ row.batches \in Seq(BatchStates)
    BY DEF RequestRows
  <2>2. m \in Seq(BatchStates)
    <3>1. /\ m = [b \in DOMAIN row.batches |-> m[b]]
          /\ \A b \in DOMAIN row.batches : m[b] = IF row.batches[b] = "processing" THEN "failed" ELSE row.batches[b]
      OBVIOUS
    <3>2. \A b \in DOMAIN row.batches : row.batches[b] \in BatchStates
      BY <2>1
    <3>3. "failed" \in BatchStates
      BY DEF BatchStates
    <3> HIDE DEF BatchStates, mapped
    <3> PICK s : s = row.batches
      OBVIOUS
    <3>4. s \in Seq(BatchStates) /\ m = [b \in DOMAIN s |-> m[b]]
      BY <2>1, <3>1
    <3>5. \A b \in DOMAIN s : m[b] \in BatchStates
      BY <3>1, <3>2, <3>3
    <3> QED
      BY ONLY <3>4, <3>5, Mapped
  <2> PICK r1 : r1 = [row EXCEPT !.st = "failed"]
    OBVIOUS
  <2> PICK r2 : r2 = [r1 EXCEPT !.batches = m]
    OBVIOUS
  <2>3. r1 \in RequestRows /\ r1.ctx = row.ctx /\ r1.st = "failed"
    BY <2>1 DEF RequestRows
  <2>4. r2 \in RequestRows /\ r2.ctx = row.ctx /\ r2.st = "failed"
    BY <2>2, <2>3 DEF RequestRows
  <2> HIDE DEF mapped
  <2>5. changed(q) = r2
    BY Zenon
  <2> QED
    BY <2>4, <2>5
<1> HIDE DEF changed
<1> QED
  BY <1>1, <1>2

(* An empty row of a request is one.                                           *)
LEMMA NoRequestIsTyped == NoRequest \in RequestRows
<1> PICK no, nothing, batches : no = FALSE /\ nothing = {} /\ batches = <<>>
  OBVIOUS
<1>1. no \in BOOLEAN /\ nothing \in SUBSET Notices /\ batches \in Seq(BatchStates)
  <2>1. <<>> \in Seq(BatchStates)
    OBVIOUS
  <2> QED
    BY <2>1
<1>2. NoRequest = [st |-> "none", ctx |-> 0, guarded |-> no, cand |-> nothing, failed |-> nothing, batches |-> batches]
  BY Zenon DEF NoRequest
<1>3. [st |-> "none", ctx |-> 0, guarded |-> no, cand |-> nothing, failed |-> nothing, batches |-> batches] \in RequestRows
  BY <1>1 DEF RequestRows
<1> QED
  BY <1>2, <1>3

(* A start opens a request under the active context it read, and resets what   *)
(* was left open.                                                              *)
LEMMA StartWriteKeeps ==
  ASSUME DesksInv, NEW p \in Users, StartWrite(p), UNCHANGED <<caseVars, contractVars, directVars>>
  PROVE  DesksInv'
<1>1. call[p].op = "start" /\ Ends(p) /\ UNCHANGED <<ctx, drafts, mixed>>
  BY DEF StartWrite, At
<1>2. Seen(p) \in [v : Versions, open : SUBSET Requests, cand : SUBSET Notices]
  BY <1>1 DEF DesksInv, CallsInv, CallOK, Reads, DeskRead, Seen
<1> PICK st, v, cand, batches, left, yes :
      /\ cand = Seen(p).cand /\ v = Seen(p).v /\ left = {q \in Seen(p).open : areq[q].st \in Open}
      /\ st = (IF cand = {} THEN "no_changes" ELSE "processing")
      /\ batches = (IF cand = {} THEN <<>> ELSE <<"processing">>) /\ yes = TRUE
  OBVIOUS
<1>3. /\ cand \in SUBSET Notices /\ v \in Versions /\ st \in {"no_changes", "processing"} /\ yes \in BOOLEAN
      /\ batches \in Seq(BatchStates)
  <2>1. cand \in SUBSET Notices /\ v \in Versions /\ st \in {"no_changes", "processing"} /\ yes \in BOOLEAN
    BY <1>2
  <2>2. <<"processing">> \in Seq(BatchStates) /\ <<>> \in Seq(BatchStates)
    <3>1. "processing" \in BatchStates
      BY DEF BatchStates
    <3> HIDE DEF BatchStates
    <3> QED
      BY <3>1
  <2> QED
    BY <2>1, <2>2
<1> PICK r1 : r1 = [NoRequest EXCEPT !.st = st]
  OBVIOUS
<1> PICK r2 : r2 = [r1 EXCEPT !.ctx = v]
  OBVIOUS
<1> PICK r3 : r3 = [r2 EXCEPT !.guarded = yes]
  OBVIOUS
<1> PICK r4 : r4 = [r3 EXCEPT !.cand = cand]
  OBVIOUS
<1> PICK new : new = [r4 EXCEPT !.batches = batches]
  OBVIOUS
<1>4. new \in RequestRows /\ new.st = st /\ new.ctx = v
  <2>1. r1 \in RequestRows /\ r1.st = st
    BY <1>3, NoRequestIsTyped DEF RequestRows, Open
  <2>2. r2 \in RequestRows /\ r2.st = st /\ r2.ctx = v
    BY <1>3, <2>1 DEF RequestRows
  <2>3. r3 \in RequestRows /\ r3.st = st /\ r3.ctx = v
    BY <1>3, <2>2 DEF RequestRows
  <2>4. r4 \in RequestRows /\ r4.st = st /\ r4.ctx = v
    BY <1>3, <2>3 DEF RequestRows
  <2>5. new = [r4 EXCEPT !.batches = batches] /\ batches \in Seq(BatchStates)
    BY <1>3
  <2> QED
    BY ONLY <2>4, <2>5 DEF RequestRows
<1>5. areq' = [Recovery(left) EXCEPT ![FreeRequest] = new]
  <2>1. areq' = [Recovery(left) EXCEPT ![FreeRequest] =
                   [NoRequest EXCEPT !.st = st, !.ctx = v, !.guarded = yes, !.cand = cand, !.batches = batches]]
    <3>1. areq' = [Recovery({q \in Seen(p).open : areq[q].st \in Open}) EXCEPT ![FreeRequest] =
            [NoRequest EXCEPT !.st = IF Seen(p).cand = {} THEN "no_changes" ELSE "processing", !.ctx = Seen(p).v,
               !.guarded = TRUE, !.cand = Seen(p).cand,
               !.batches = IF Seen(p).cand = {} THEN <<>> ELSE <<"processing">>]]
      BY Zenon DEF StartWrite
    <3> QED
      BY <3>1, Zenon
  <2>2. [NoRequest EXCEPT !.st = st, !.ctx = v, !.guarded = yes, !.cand = cand, !.batches = batches] = new
    BY Zenon
  <2> QED
    BY <2>1, <2>2
<1>6. areq \in [Requests -> RequestRows] /\ \A q \in Requests : Used(areq[q])
  BY DEF DesksInv, DeskRows
<1>7. /\ areq' \in [Requests -> RequestRows]
      /\ \A x \in Requests : Used(areq'[x])
      /\ \A x \in Requests : areq[x].st # "none" => areq'[x].st # "none"
  <2> PICK rec : rec = Recovery(left)
    OBVIOUS
  <2>1. /\ rec \in [Requests -> RequestRows]
        /\ \A q \in Requests : /\ rec[q].ctx = areq[q].ctx /\ rec[q].st \in {"failed", areq[q].st}
                               /\ q \notin left => rec[q] = areq[q]
    BY <1>6, RecoveryIsTyped
  <2>2. \A q \in left : areq[q].st # "none"
    BY DEF Open
  <2>3. PICK free : free = FreeRequest
    OBVIOUS
  <2>4. areq' = [rec EXCEPT ![free] = new]
    BY <1>5, <2>3
  <2>5. \A x \in Requests : areq'[x] = IF x = free THEN new ELSE rec[x]
    BY <2>1, <2>4
  <2>6. areq' \in [Requests -> RequestRows]
    BY <1>4, <2>1, <2>4
  <2>7. ASSUME NEW x \in Requests
        PROVE  Used(areq'[x]) /\ (areq[x].st # "none" => areq'[x].st # "none")
    <3>1. Used(rec[x])
      BY <1>6, <2>1, <2>2 DEF Used
    <3>2. areq[x].st # "none" => rec[x].st # "none"
      BY <2>1
    <3> QED
      BY <1>3, <1>4, <2>5, <3>1, <3>2 DEF Used
  <2> QED
    BY <2>6, <2>7
<1>8. /\ notice' \in [Notices -> NoticeRows]
      /\ \A n \in Notices : notice'[n].rec = notice[n].rec /\ notice'[n].kept = notice[n].kept
  <2> DEFINE work(n) == IF n \in Seen(p).cand /\ notice[n].work # "analyzed" THEN "queued"
                        ELSE IF n \in Reset({q \in Seen(p).open : areq[q].st \in Open}) /\ notice[n].work = "queued"
                        THEN "ready" ELSE notice[n].work
  <2>1. notice' = [n \in Notices |-> [notice[n] EXCEPT !.work = work(n)]]
    BY Zenon DEF StartWrite
  <2>2. notice \in [Notices -> NoticeRows]
    BY DEF DesksInv, DeskRows
  <2>3. \A n \in Notices : work(n) \in {"ready", "queued", "analyzed", "failed"}
    BY <2>2 DEF NoticeRows
  <2> HIDE DEF work
  <2> QED
    BY <2>1, <2>2, <2>3 DEF NoticeRows
<1> QED
  BY <1>1, <1>7, <1>8, EndsInOrder, RequestActs DEF DesksInv

(* What one statement writes at the desk of analysis, with no call of its own, *)
(* is nothing that a call knows.                                               *)
LEMMA DeskIdles ==
  ASSUME DesksInv, UNCHANGED call, DeskRows',
         \A q \in Requests : areq[q].st # "none" => areq'[q].st # "none",
         \A n \in Notices : notice'[n].rec = notice[n].rec /\ notice'[n].kept = notice[n].kept,
         UNCHANGED <<ctx, drafts, mixed>>, UNCHANGED <<caseVars, contractVars, directVars>>
  PROVE  DesksInv'
<1>1. Grows
  BY DEF Grows, DesksInv, CaseTables, caseVars
<1>2. /\ case' = case /\ made' = made /\ contracts' = contracts
      /\ lease' = lease /\ pending' = pending /\ revision' = revision /\ journal' = journal
      /\ opp' = opp /\ result' = result /\ tangled' = tangled /\ Results' = Results
  BY DEF caseVars, contractVars, directVars, Results
<1>3. ASSUME NEW p \in Users, Reads(call[p]), Fresh(call[p]) PROVE Fresh(call[p])'
  <2> PICK c : c = call[p] /\ c = call'[p]
    OBVIOUS
  <2>1. DeskFresh(c)'
    BY <1>3 DEF Reads, DeskRead, Fresh, DeskFresh, ActiveContexts
  <2>2. CaseFresh(c)' /\ ContractFresh(c)' /\ DirectFresh(c)'
    BY <1>2, <1>3 DEF Fresh, CaseFresh, ContractFresh, DirectFresh
  <2> QED
    BY <2>1, <2>2 DEF Fresh
<1>4. CallsInv'
  BY <1>1, <1>3, IdleKeepsCalls DEF DesksInv
<1>5. FlagFollowsReview'
  BY DEF DesksInv, FlagFollowsReview
<1>6. CaseTables' /\ ContractTables' /\ DirectTables'
  BY <1>2 DEF DesksInv, CaseTables, ContractTables, DirectTables
<1>7. KeptInv'
  BY <1>2 DEF DesksInv, KeptInv, Protecting, Seen
<1>8. LockInv'
  BY <1>2 DEF DesksInv, LockInv, Checked, Seen
<1>9. ToldInv'
  BY <1>2 DEF DesksInv, ToldInv, Telling, Seen
<1> QED
  BY <1>4, <1>5, <1>6, <1>7, <1>8, <1>9 DEF DesksInv

(* A request of the views, or of a start that PostgreSQL refused.              *)
LEMMA CreateRequestKeeps ==
  ASSUME DesksInv, NEW op, CreateRequest(op), UNCHANGED <<caseVars, contractVars, directVars>>
  PROVE  DesksInv'
<1>1. UNCHANGED <<call, notice, ctx, drafts, mixed>> /\ ActiveContexts # {}
  BY DEF CreateRequest
<1> PICK v, free : v = Newest(ActiveContexts) /\ free = FreeRequest
  OBVIOUS
<1>2. v \in Versions
  BY <1>1, NewestIsOne DEF ActiveContexts
<1> PICK r1 : r1 = [NoRequest EXCEPT !.st = "pending"]
  OBVIOUS
<1> PICK new : new = [r1 EXCEPT !.ctx = v]
  OBVIOUS
<1>3. new \in RequestRows /\ new.st = "pending" /\ new.ctx = v
  <2>1. r1 \in RequestRows /\ r1.st = "pending"
    BY NoRequestIsTyped DEF RequestRows, Open
  <2> QED
    BY <1>2, <2>1 DEF RequestRows
<1>4. areq' = [areq EXCEPT ![free] = new]
  <2>1. areq' = [areq EXCEPT ![FreeRequest] = [NoRequest EXCEPT !.st = "pending", !.ctx = Newest(ActiveContexts)]]
    BY Zenon DEF CreateRequest
  <2>2. [NoRequest EXCEPT !.st = "pending", !.ctx = Newest(ActiveContexts)] = new
    BY Zenon
  <2> QED
    BY <2>1, <2>2
<1>5. areq \in [Requests -> RequestRows] /\ \A q \in Requests : Used(areq[q])
  BY DEF DesksInv, DeskRows
<1>6. areq' \in [Requests -> RequestRows]
      /\ \A x \in Requests : areq'[x] = IF x = free THEN new ELSE areq[x]
  BY <1>3, <1>4, <1>5
<1>7. DeskRows'
  BY <1>1, <1>2, <1>3, <1>5, <1>6 DEF DesksInv, DeskRows, Used
<1> QED
  BY <1>1, <1>3, <1>6, <1>7, DeskIdles

(* A batch completed.                                                          *)
LEMMA CompleteBatchKeeps ==
  ASSUME DesksInv, CompleteBatch, UNCHANGED <<caseVars, contractVars, directVars>>
  PROVE  DesksInv'
<1>1. UNCHANGED <<call, notice, ctx, drafts, mixed>>
  BY DEF CompleteBatch
<1>2. PICK q \in Requests, st \in {"completed", "partial", "failed"} :
        \E b \in DOMAIN areq[q].batches : areq' = [areq EXCEPT ![q].batches[b] = st]
  BY Zenon DEF CompleteBatch
<1>3. PICK b \in DOMAIN areq[q].batches : areq' = [areq EXCEPT ![q].batches[b] = st]
  BY <1>2
<1> PICK row, batches : row = areq[q] /\ batches = [row.batches EXCEPT ![b] = st]
  OBVIOUS
<1>4. areq \in [Requests -> RequestRows] /\ row \in RequestRows
      /\ \A x \in Requests : Used(areq[x])
  BY DEF DesksInv, DeskRows
<1>5. areq' = [areq EXCEPT ![q].batches = batches]
  BY <1>3, <1>4 DEF RequestRows
<1>6. batches \in Seq(BatchStates)
  <2>1. row.batches \in Seq(BatchStates) /\ st \in BatchStates
    BY <1>4 DEF RequestRows, BatchStates
  <2> HIDE DEF BatchStates
  <2> QED
    BY <2>1, Replaced
<1>7. areq' \in [Requests -> RequestRows]
      /\ \A x \in Requests : areq'[x].st = areq[x].st /\ areq'[x].ctx = areq[x].ctx
  BY <1>4, <1>5, <1>6 DEF RequestRows
<1>8. \A x \in Requests : Used(areq'[x])
  <2>1. areq[q].st # "none"
    BY <1>3, <1>4 DEF RequestRows, Used
  <2>2. \A x \in Requests \ {q} : areq'[x] = areq[x]
    BY <1>4, <1>5
  <2> QED
    BY <1>4, <1>7, <2>1, <2>2 DEF Used
<1>9. DeskRows'
  BY <1>1, <1>4, <1>7, <1>8 DEF DesksInv, DeskRows
<1> QED
  BY <1>1, <1>7, <1>9, DeskIdles

(* A type set by people.                                                       *)
LEMMA SetTypeKeeps ==
  ASSUME DesksInv, SetType, UNCHANGED <<caseVars, contractVars, directVars>>
  PROVE  DesksInv'
<1>1. PICK n \in Notices : notice' = [notice EXCEPT ![n].type = "human"] /\ UNCHANGED <<call, ctx, areq, drafts, mixed>>
  BY DEF SetType
<1>2. /\ notice' \in [Notices -> NoticeRows]
      /\ \A m \in Notices : notice'[m].rec = notice[m].rec /\ notice'[m].kept = notice[m].kept
  BY <1>1 DEF DesksInv, DeskRows, NoticeRows
<1>3. DeskRows'
  BY <1>1, <1>2 DEF DesksInv, DeskRows
<1> QED
  BY <1>1, <1>2, <1>3, DeskIdles

-----------------------------------------------------------------------------
(* Drafts, reviews and the flag.                                               *)

(* A step that writes drafts, notices and what was mixed leaves the rest.      *)
LEMMA NoticeActs ==
  ASSUME DesksInv, NEW p \in Users, Acts(p), CallOK(p)',
         call[p].op \in {"draft", "review", "dismiss", "bulk", "ingest"},
         notice' \in [Notices -> NoticeRows], drafts' \in Seq(DraftRows),
         \A k \in DOMAIN drafts : k \in DOMAIN drafts' /\ drafts'[k].n = drafts[k].n,
         mixed \subseteq mixed', mixed' \subseteq Notices \X {"flag", "kept"},
         \A n \in Notices : <<n, "kept">> \notin mixed' => (notice[n].kept => notice'[n].kept),
         \A n \in Notices : <<n, "flag">> \notin mixed' => notice'[n].rec = Effective(drafts', n),
         UNCHANGED <<ctx, areq>>, UNCHANGED <<caseVars, contractVars, directVars>>
  PROVE  DesksInv'
<1>1. Grows
  BY DEF Grows, DesksInv, CaseTables, caseVars
<1>2. DeskRows'
  BY DEF DesksInv, DeskRows
<1>3. FlagFollowsReview'
  BY DEF FlagFollowsReview, Effective, Latest
<1> QED
  BY <1>1, <1>2, <1>3, DeskActs

(* What a draft says of its notice hangs on the latest one only.               *)
LEMMA EffectiveIs ==
  ASSUME NEW ds \in Seq(DraftRows), NEW n
  PROVE  /\ Effective(ds, n) <=>
              Latest(ds, n) # 0 /\ ds[Latest(ds, n)].rec /\ ds[Latest(ds, n)].rev # "rejected"
         /\ Effective(ds, n) \in BOOLEAN
         /\ Latest(ds, n) # 0 => /\ Latest(ds, n) \in DOMAIN ds /\ ds[Latest(ds, n)].n = n
                                 /\ ds[Latest(ds, n)].rec \in BOOLEAN
<1>1. Effective(ds, n) <=> Latest(ds, n) # 0 /\ ds[Latest(ds, n)].rec /\ ds[Latest(ds, n)].rev # "rejected"
  BY Zenon DEF Effective
<1>2. Latest(ds, n) # 0 => Latest(ds, n) \in DOMAIN ds /\ ds[Latest(ds, n)].n = n
  BY LatestIsLast
<1>3. Latest(ds, n) # 0 => ds[Latest(ds, n)].rec \in BOOLEAN
  <2>1. Latest(ds, n) # 0 => ds[Latest(ds, n)] \in DraftRows
    BY <1>2
  <2> QED
    BY <2>1 DEF DraftRows
<1>4. Effective(ds, n) \in BOOLEAN
  BY Zenon DEF Effective
<1> QED
  BY <1>1, <1>2, <1>3, <1>4

(* Drafts reviewed anew say the same of every notice whose own are as before.  *)
LEMMA OthersReviewed ==
  ASSUME NEW ds \in Seq(DraftRows), NEW es \in Seq(DraftRows), Len(es) = Len(ds),
         \A k \in DOMAIN ds : es[k].n = ds[k].n, NEW n,
         \A k \in DOMAIN ds : ds[k].n = n => es[k] = ds[k]
  PROVE  Effective(es, n) = Effective(ds, n)
<1>1. Latest(es, n) = Latest(ds, n)
  BY SameLatest
<1> PICK k : k = Latest(ds, n)
  OBVIOUS
<1>2. k # 0 => es[k] = ds[k]
  BY LatestIsLast
<1>3. Effective(es, n) <=> k # 0 /\ es[k].rec /\ es[k].rev # "rejected"
  BY <1>1, EffectiveIs
<1>4. Effective(ds, n) <=> k # 0 /\ ds[k].rec /\ ds[k].rev # "rejected"
  BY EffectiveIs
<1>5. Effective(es, n) \in BOOLEAN /\ Effective(ds, n) \in BOOLEAN
  BY EffectiveIs
<1> QED
  BY <1>2, <1>3, <1>4, <1>5

(* A draft stored is the latest of its notice, whose flag is set by it.        *)
LEMMA StoreDraftKeeps ==
  ASSUME DesksInv, NEW p \in Users, StoreDraft(p), UNCHANGED <<caseVars, contractVars, directVars>>
  PROVE  DesksInv'
<1>1. call[p].op = "draft" /\ Ends(p) /\ UNCHANGED <<ctx, areq>>
  BY DEF StoreDraft, At
<1> PICK c : c = Seen(p)
  OBVIOUS
<1>2. c \in [q : Requests, b : Nat, n : Notices, saw : NoticeRows] /\ areq[c.q].st # "none"
  BY <1>1 DEF DesksInv, CallsInv, CallOK, Reads, DeskRead, Refers, Seen
<1>3. PICK rec \in BOOLEAN, type \in {"none", "machine"} :
        IF Analysed(c.n, c.saw.content, areq[c.q].ctx) THEN UNCHANGED <<drafts, notice, mixed>>
        ELSE /\ drafts' = Append(drafts, Drafted(c, rec))
             /\ notice' = [notice EXCEPT ![c.n] = Noted(@, c.saw, rec, type)]
             /\ Stained(p, {c.n}, {"flag"})
  BY DEF StoreDraft, Drafted
<1>4. /\ notice \in [Notices -> NoticeRows] /\ drafts \in Seq(DraftRows)
      /\ mixed \subseteq Notices \X {"flag", "kept"} /\ areq[c.q].ctx \in Versions
      /\ \A n \in Notices : <<n, "flag">> \notin mixed => notice[n].rec = Effective(drafts, n)
  BY <1>2 DEF DesksInv, DeskRows, FlagFollowsReview, Used
<1>5. CASE UNCHANGED <<drafts, notice, mixed>>
  BY <1>1, <1>4, <1>5, EndsInOrder, NoticeActs DEF DesksInv
<1>6. CASE /\ drafts' = Append(drafts, Drafted(c, rec))
           /\ notice' = [notice EXCEPT ![c.n] = Noted(@, c.saw, rec, type)]
           /\ Stained(p, {c.n}, {"flag"})
  <2> PICK d, row : d = Drafted(c, rec) /\ row = Noted(notice[c.n], c.saw, rec, type)
    OBVIOUS
  <2>1. d \in DraftRows /\ d.n = c.n /\ d.rec = rec /\ d.rev = "ai_draft"
    BY <1>2, <1>4 DEF Drafted, DraftRows, NoticeRows
  <2>2. row \in NoticeRows /\ row.rec = rec /\ row.kept = notice[c.n].kept
    <3> PICK old, kind : old = notice[c.n] /\ kind = (IF c.saw.type = "human" THEN old.type ELSE type)
      OBVIOUS
    <3>1. old \in NoticeRows /\ kind \in {"none", "machine", "human"}
      BY <1>2, <1>4 DEF NoticeRows
    <3> PICK r1 : r1 = [old EXCEPT !.rec = rec]
      OBVIOUS
    <3> PICK r2 : r2 = [r1 EXCEPT !.work = "analyzed"]
      OBVIOUS
    <3> PICK r3 : r3 = [r2 EXCEPT !.type = kind]
      OBVIOUS
    <3>2. row = r3
      <4>1. row = [old EXCEPT !.rec = rec, !.work = "analyzed", !.type = kind]
        BY DEF Noted
      <4>2. [old EXCEPT !.rec = rec, !.work = "analyzed", !.type = kind] = r3
        BY Zenon
      <4> QED
        BY <4>1, <4>2
    <3>3. r1 \in NoticeRows /\ r1.rec = rec /\ r1.kept = old.kept
      BY <3>1 DEF NoticeRows
    <3>4. r2 \in NoticeRows /\ r2.rec = rec /\ r2.kept = old.kept
      BY <3>3 DEF NoticeRows
    <3>5. r3 \in NoticeRows /\ r3.rec = rec /\ r3.kept = old.kept
      <4>1. r3 = [r2 EXCEPT !.type = kind] /\ kind \in {"none", "machine", "human"}
        BY <3>1
      <4> QED
        BY ONLY <3>4, <4>1 DEF NoticeRows
    <3> QED
      BY <3>2, <3>5
  <2>3. drafts' = Append(drafts, d) /\ notice' = [notice EXCEPT ![c.n] = row]
    BY <1>2, <1>4, <1>6
  <2>4. notice' \in [Notices -> NoticeRows] /\ notice'[c.n] = row /\ \A n \in Notices \ {c.n} : notice'[n] = notice[n]
    BY <1>2, <1>4, <2>2, <2>3
  <2>5. /\ drafts' \in Seq(DraftRows) /\ Len(drafts) \in Nat /\ drafts'[Len(drafts) + 1] = d
        /\ \A k \in DOMAIN drafts : k \in DOMAIN drafts' /\ drafts'[k] = drafts[k]
    BY <1>4, <2>1, <2>3
  <2>6. mixed \subseteq mixed' /\ mixed' \subseteq Notices \X {"flag", "kept"}
    BY <1>2, <1>4, <1>6 DEF Stained
  <2>7. ASSUME NEW n \in Notices, <<n, "flag">> \notin mixed' PROVE notice'[n].rec = Effective(drafts', n)
    <3>1. CASE n = c.n
      <4>1. Latest(drafts', n) = Len(drafts) + 1
        BY <1>4, <2>1, <2>3, <3>1, LatestOfMore
      <4>2. Effective(drafts', n) <=> rec
        BY <2>1, <2>5, <4>1, EffectiveIs
      <4>3. Effective(drafts', n) \in BOOLEAN
        BY <2>5, EffectiveIs
      <4> QED
        BY <2>2, <2>4, <3>1, <4>2, <4>3
    <3>2. CASE n # c.n
      <4>1. Latest(drafts', n) = Latest(drafts, n)
        BY <1>4, <2>1, <2>3, <3>2, LatestOfMore
      <4>2. Effective(drafts', n) <=> Effective(drafts, n)
        BY <1>4, <2>5, <4>1, EffectiveIs
      <4>3. Effective(drafts', n) \in BOOLEAN /\ Effective(drafts, n) \in BOOLEAN
        BY <1>4, <2>5, EffectiveIs
      <4>4. notice[n].rec = Effective(drafts, n) /\ notice'[n] = notice[n]
        BY <1>4, <2>4, <2>6, <2>7, <3>2
      <4> QED
        BY <4>2, <4>3, <4>4
    <3> QED
      BY <3>1, <3>2
  <2>8. \A n \in Notices : notice'[n].kept = notice[n].kept
    BY <2>2, <2>4
  <2> QED
    BY <1>1, <2>4, <2>5, <2>6, <2>7, <2>8, EndsInOrder, NoticeActs DEF DesksInv
<1> QED
  BY <1>3, <1>5, <1>6

Revs == {"ai_draft", "reviewed", "published", "rejected"}

(* One draft reviewed: nothing else of the drafts is another.                  *)
LEMMA OneReviewed ==
  ASSUME NEW ds \in Seq(DraftRows), NEW k \in DOMAIN ds, NEW rev \in Revs,
         NEW es, es = [ds EXCEPT ![k].rev = rev]
  PROVE  /\ es \in Seq(DraftRows) /\ Len(es) = Len(ds) /\ DOMAIN es = DOMAIN ds
         /\ \A j \in DOMAIN ds : es[j].n = ds[j].n /\ (j # k => es[j] = ds[j])
         /\ es[k].rev = rev /\ es[k].rec = ds[k].rec
<1>1. ds \in [1..Len(ds) -> DraftRows] /\ Len(ds) \in Nat /\ DOMAIN ds = 1..Len(ds)
  OBVIOUS
<1> PICK row : row = [ds[k] EXCEPT !.rev = rev]
  OBVIOUS
<1>2. ds[k] \in DraftRows
  BY <1>1
<1>3. row \in DraftRows /\ row.n = ds[k].n /\ row.rec = ds[k].rec /\ row.rev = rev
  BY <1>2 DEF DraftRows, Revs
<1>4. es = [ds EXCEPT ![k] = row]
  BY <1>1
<1>5. es \in Seq(DraftRows)
  BY <1>3, <1>4, Replaced
<1>6. DOMAIN es = DOMAIN ds /\ es[k] = row /\ \A j \in DOMAIN ds : j # k => es[j] = ds[j]
  BY <1>1, <1>4
<1>7. Len(es) = Len(ds)
  BY <1>1, <1>5, <1>6
<1> QED
  BY <1>3, <1>5, <1>6, <1>7

(* A flag set: nothing else of the notices is another.                         *)
LEMMA FlagSet ==
  ASSUME NEW ns \in [Notices -> NoticeRows], NEW n \in Notices, NEW flag \in BOOLEAN,
         NEW ms, ms = [ns EXCEPT ![n].rec = flag]
  PROVE  /\ ms \in [Notices -> NoticeRows] /\ ms[n].rec = flag
         /\ \A m \in Notices : ms[m].kept = ns[m].kept /\ (m # n => ms[m].rec = ns[m].rec)
<1> PICK row : row = [ns[n] EXCEPT !.rec = flag]
  OBVIOUS
<1>1. row \in NoticeRows /\ row.rec = flag /\ row.kept = ns[n].kept
  BY DEF NoticeRows
<1>2. ms = [ns EXCEPT ![n] = row]
  OBVIOUS
<1> QED
  BY <1>1, <1>2

(* A review sets the flag by the latest draft, or is told of in mixed.         *)
LEMMA ReviewKeeps ==
  ASSUME DesksInv, NEW p \in Users, Review(p), UNCHANGED <<caseVars, contractVars, directVars>>
  PROVE  DesksInv'
<1>1. call[p].op = "review" /\ Ends(p) /\ UNCHANGED <<ctx, areq>>
  BY DEF Review, At
<1> PICK c : c = Seen(p)
  OBVIOUS
<1> PICK k, n, rev, flag : /\ k = c.k /\ n = drafts[k].n /\ rev = ReviewOf(c.decision)
                           /\ flag = FlagAfter(drafts[k], c.decision, c.saw)
  OBVIOUS
<1>2. c \in [k : Nat, decision : Decisions, saw : BOOLEAN] /\ k \in DOMAIN drafts
  BY <1>1 DEF DesksInv, CallsInv, CallOK, Reads, DeskRead, Refers, Seen
<1>3. /\ notice \in [Notices -> NoticeRows] /\ drafts \in Seq(DraftRows)
      /\ mixed \subseteq Notices \X {"flag", "kept"}
      /\ \A m \in Notices : <<m, "flag">> \notin mixed => notice[m].rec = Effective(drafts, m)
  BY DEF DesksInv, DeskRows, FlagFollowsReview
<1>4. drafts[k] \in DraftRows
  BY <1>2, <1>3
<1>5. n \in Notices /\ drafts[k].rec \in BOOLEAN
  BY <1>4 DEF DraftRows
<1>6. rev \in Revs /\ flag \in BOOLEAN
  <2>1. rev \in Revs
    BY DEF ReviewOf, Revs
  <2>2. flag \in BOOLEAN
    BY <1>2, <1>5 DEF FlagAfter
  <2> QED
    BY <2>1, <2>2
<1>7. drafts' = [drafts EXCEPT ![k].rev = rev] /\ notice' = [notice EXCEPT ![n].rec = flag]
  BY DEF Review
<1>8. mixed' = IF call[p].met \/ c.decision = "needs_revision" \/ c.k # Latest(drafts, n)
               THEN mixed \cup {<<n, "flag">>} ELSE mixed
  BY DEF Review
<1>9. /\ drafts' \in Seq(DraftRows) /\ Len(drafts') = Len(drafts) /\ DOMAIN drafts' = DOMAIN drafts
      /\ \A j \in DOMAIN drafts : drafts'[j].n = drafts[j].n /\ (j # k => drafts'[j] = drafts[j])
      /\ drafts'[k].rev = rev /\ drafts'[k].rec = drafts[k].rec
  BY <1>2, <1>3, <1>6, <1>7, OneReviewed
<1>10. /\ notice' \in [Notices -> NoticeRows]
       /\ (\A m \in Notices : notice'[m].kept = notice[m].kept /\ (m # n => notice'[m].rec = notice[m].rec))
       /\ notice'[n].rec = flag
  BY <1>3, <1>5, <1>6, <1>7, FlagSet
<1>11. mixed \subseteq mixed' /\ mixed' \subseteq Notices \X {"flag", "kept"}
  BY <1>3, <1>5, <1>8
<1>12. ASSUME NEW m \in Notices, <<m, "flag">> \notin mixed' PROVE notice'[m].rec = Effective(drafts', m)
  <2>1. CASE m = n
    <3>1. k = Latest(drafts, n) /\ c.decision \in {"approved", "published", "rejected"}
      BY <1>2, <1>8, <1>12, <2>1 DEF Decisions
    <3>2. Latest(drafts', n) = k
      BY <1>3, <1>9, <3>1, SameLatest
    <3>3. k # 0
      BY <1>2, <1>3
    <3>4. Effective(drafts', n) <=> drafts[k].rec /\ rev # "rejected"
      BY <1>9, <3>2, <3>3, EffectiveIs
    <3>5. Effective(drafts', n) \in BOOLEAN
      BY <1>9, EffectiveIs
    <3>6. flag <=> drafts[k].rec /\ rev # "rejected"
      BY <1>5, <3>1 DEF FlagAfter, ReviewOf
    <3> QED
      BY <1>6, <1>10, <2>1, <3>4, <3>5, <3>6
  <2>2. CASE m # n
    <3>1. Effective(drafts', m) = Effective(drafts, m)
      <4> PICK es : es = drafts'
        OBVIOUS
      <4>1. \A j \in DOMAIN drafts : es[j].n = drafts[j].n /\ (drafts[j].n = m => es[j] = drafts[j])
        BY <1>9, <2>2
      <4>2. Effective(es, m) = Effective(drafts, m)
        BY <1>3, <1>9, <4>1, OthersReviewed
      <4> QED
        BY <4>2
    <3> QED
      BY <1>3, <1>10, <1>11, <1>12, <2>2, <3>1
  <2> QED
    BY <2>1, <2>2
<1> QED
  BY <1>1, <1>9, <1>10, <1>11, <1>12, EndsInOrder, NoticeActs DEF DesksInv

(* A dismissal rejects the draft it read, and the signal sets the flag.        *)
LEMMA DismissDraftKeeps ==
  ASSUME DesksInv, NEW p \in Users, DismissDraft(p), UNCHANGED <<caseVars, contractVars, directVars>>
  PROVE  DesksInv'
<1> PICK c : c = Seen(p)
  OBVIOUS
<1> PICK k, n, flag : k = c.k /\ n = c.n /\ flag = Effective(drafts', n)
  OBVIOUS
<1>1. /\ call[p].op = "dismiss" /\ call[p].at = "read" /\ Continues(p, "rejected", c)
      /\ UNCHANGED <<ctx, areq, mixed>>
      /\ drafts' = [drafts EXCEPT ![k].rev = "rejected"] /\ notice' = [notice EXCEPT ![n].rec = flag]
  BY DEF DismissDraft, At
<1>2. /\ c \in [n : Notices, k : Nat] /\ k \in DOMAIN drafts /\ drafts[k].n = n
      /\ ~call[p].met => k = Latest(drafts, n)
  BY <1>1 DEF DesksInv, CallsInv, CallOK, Reads, DeskRead, Refers, Fresh, DeskFresh, Seen
<1>3. /\ notice \in [Notices -> NoticeRows] /\ drafts \in Seq(DraftRows)
      /\ mixed \subseteq Notices \X {"flag", "kept"}
      /\ \A m \in Notices : <<m, "flag">> \notin mixed => notice[m].rec = Effective(drafts, m)
  BY DEF DesksInv, DeskRows, FlagFollowsReview
<1>4. /\ drafts' \in Seq(DraftRows) /\ Len(drafts') = Len(drafts) /\ DOMAIN drafts' = DOMAIN drafts
      /\ \A j \in DOMAIN drafts : drafts'[j].n = drafts[j].n /\ (j # k => drafts'[j] = drafts[j])
      /\ drafts'[k].rev = "rejected"
  <2>1. "rejected" \in Revs
    BY DEF Revs
  <2> QED
    <3> PICK rev, es : rev = "rejected" /\ es = drafts'
      OBVIOUS
    <3>1. k \in DOMAIN drafts /\ rev \in Revs /\ es = [drafts EXCEPT ![k].rev = rev]
      BY <1>1, <1>2, <2>1
    <3>2. /\ es \in Seq(DraftRows) /\ Len(es) = Len(drafts) /\ DOMAIN es = DOMAIN drafts
          /\ \A j \in DOMAIN drafts : es[j].n = drafts[j].n /\ (j # k => es[j] = drafts[j])
          /\ es[k].rev = rev
      BY <1>3, <3>1, OneReviewed
    <3> QED
      BY <3>2
<1>5. flag \in BOOLEAN /\ n \in Notices
  BY <1>2, <1>4, EffectiveIs
<1>6. /\ notice' \in [Notices -> NoticeRows]
      /\ (\A m \in Notices : notice'[m].kept = notice[m].kept /\ (m # n => notice'[m].rec = notice[m].rec))
      /\ notice'[n].rec = flag
  <2> PICK ms : ms = notice'
    OBVIOUS
  <2>1. ms = [notice EXCEPT ![n].rec = flag]
    BY <1>1
  <2>2. /\ ms \in [Notices -> NoticeRows] /\ ms[n].rec = flag
        /\ \A m \in Notices : ms[m].kept = notice[m].kept /\ (m # n => ms[m].rec = notice[m].rec)
    BY <1>3, <1>5, <2>1, FlagSet
  <2> QED
    BY <2>2
<1>7. ASSUME NEW m \in Notices, <<m, "flag">> \notin mixed PROVE notice'[m].rec = Effective(drafts', m)
  <2>1. CASE m # n
    <3>1. Effective(drafts', m) = Effective(drafts, m)
      <4> PICK es : es = drafts'
        OBVIOUS
      <4>1. \A j \in DOMAIN drafts : es[j].n = drafts[j].n /\ (drafts[j].n = m => es[j] = drafts[j])
        BY <1>2, <1>4, <2>1
      <4>2. Effective(es, m) = Effective(drafts, m)
        BY <1>3, <1>4, <4>1, OthersReviewed
      <4> QED
        BY <4>2
    <3> QED
      BY <1>3, <1>6, <1>7, <2>1, <3>1
  <2> QED
    BY <1>6, <2>1
<1>8. Acts(p) /\ call'[p] = [op |-> call[p].op, at |-> "rejected", met |-> call[p].met, read |-> c]
  BY <1>1, ContinuesActs DEF DesksInv, CallsInv
<1>9. CallOK(p)'
  <2> PICK d : d = call'[p]
    OBVIOUS
  <2>1. d.op = "dismiss" /\ d.at = "rejected" /\ d.read = c /\ d.met = call[p].met
    BY <1>1, <1>8
  <2>2. Reads(d)
    BY <1>2, <2>1 DEF Reads, DeskRead, CaseRead, ContractRead, DirectRead
  <2>3. Reads(d)' /\ Refers(d)'
    BY <1>2, <1>4, <2>1, <2>2 DEF Reads, DeskRead, CaseRead, ContractRead, DirectRead, Refers
  <2>4. ~d.met => ~Effective(drafts', n)
    <3>1. SUFFICES ASSUME ~call[p].met PROVE ~Effective(drafts', n)
      BY <2>1
    <3> PICK es : es = drafts'
      OBVIOUS
    <3>2. es \in Seq(DraftRows) /\ Len(es) = Len(drafts) /\ \A j \in DOMAIN drafts : es[j].n = drafts[j].n
      BY <1>4
    <3>3. Latest(es, n) = k
      BY <1>2, <1>3, <3>1, <3>2, SameLatest
    <3>4. es[k].rev = "rejected"
      BY <1>4
    <3>5. ~Effective(es, n)
      BY <3>2, <3>3, <3>4, EffectiveIs
    <3> QED
      BY <3>5
  <2>5. ~d.met => Fresh(d)'
    BY <2>1, <2>4 DEF Fresh, DeskFresh, CaseFresh, ContractFresh, DirectFresh, Effective, Latest
  <2> QED
    BY <2>3, <2>5 DEF CallOK
<1> QED
  BY <1>1, <1>3, <1>4, <1>6, <1>7, <1>8, <1>9, NoticeActs

(* The dismissal ends with the flag off: the draft it rejected was the latest. *)
LEMMA DismissFlagKeeps ==
  ASSUME DesksInv, NEW p \in Users, DismissFlag(p), UNCHANGED <<caseVars, contractVars, directVars>>
  PROVE  DesksInv'
<1> PICK c, flag : c = Seen(p) /\ flag = FALSE
  OBVIOUS
<1> PICK n, ms : n = c.n /\ ms = notice'
  OBVIOUS
<1>1. /\ call[p].op = "dismiss" /\ call[p].at = "rejected" /\ Ends(p) /\ UNCHANGED <<ctx, areq, drafts>>
      /\ mixed' = IF call[p].met THEN mixed \cup ({n} \X {"flag"}) ELSE mixed
  BY DEF DismissFlag, At, Stained
<1>2. ms = [notice EXCEPT ![n].rec = flag]
  BY DEF DismissFlag
<1>3. c \in [n : Notices, k : Nat] /\ (~call[p].met => ~Effective(drafts, n))
  BY <1>1 DEF DesksInv, CallsInv, CallOK, Reads, DeskRead, Fresh, DeskFresh, Seen
<1>4. /\ notice \in [Notices -> NoticeRows] /\ drafts \in Seq(DraftRows)
      /\ mixed \subseteq Notices \X {"flag", "kept"}
      /\ \A m \in Notices : <<m, "flag">> \notin mixed => notice[m].rec = Effective(drafts, m)
  BY DEF DesksInv, DeskRows, FlagFollowsReview
<1>5. n \in Notices /\ flag \in BOOLEAN
  BY <1>3
<1>6. /\ ms \in [Notices -> NoticeRows] /\ ms[n].rec = flag
      /\ \A m \in Notices : ms[m].kept = notice[m].kept /\ (m # n => ms[m].rec = notice[m].rec)
  <2> PICK ns : ns = notice
    OBVIOUS
  <2>1. ns \in [Notices -> NoticeRows] /\ n \in Notices /\ flag \in BOOLEAN /\ ms = [ns EXCEPT ![n].rec = flag]
    BY <1>2, <1>4, <1>5
  <2>2. /\ ms \in [Notices -> NoticeRows] /\ ms[n].rec = flag
        /\ \A m \in Notices : ms[m].kept = ns[m].kept /\ (m # n => ms[m].rec = ns[m].rec)
    BY ONLY <2>1, FlagSet
  <2> QED
    BY <2>2
<1>7. mixed \subseteq mixed' /\ mixed' \subseteq Notices \X {"flag", "kept"}
  BY <1>1, <1>4, <1>5
<1>8. ASSUME NEW m \in Notices, <<m, "flag">> \notin mixed' PROVE ms[m].rec = Effective(drafts, m)
  <2>1. CASE m = n
    <3>1. ~Effective(drafts, n)
      BY <1>1, <1>3, <1>8, <2>1
    <3>2. Effective(drafts, n) \in BOOLEAN
      BY <1>4, EffectiveIs
    <3> QED
      BY <1>6, <2>1, <3>1, <3>2
  <2>2. CASE m # n
    BY <1>4, <1>6, <1>7, <1>8, <2>2
  <2> QED
    BY <2>1, <2>2
<1>9. \A m \in Notices : <<m, "flag">> \notin mixed' => notice'[m].rec = Effective(drafts', m)
  <2> PICK es : es = drafts
    OBVIOUS
  <2>1. drafts' = es /\ \A m \in Notices : <<m, "flag">> \notin mixed' => ms[m].rec = Effective(es, m)
    BY <1>1, <1>8
  <2> QED
    BY <2>1
<1> QED
  BY <1>1, <1>4, <1>6, <1>7, <1>9, EndsInOrder, NoticeActs DEF DesksInv

(* In bulk the latest drafts of the notices are rejected and the flags go off. *)
LEMMA BulkDismissKeeps ==
  ASSUME DesksInv, NEW p \in Users, BulkDismiss(p), UNCHANGED <<caseVars, contractVars, directVars>>
  PROVE  DesksInv'
<1> PICK c, no, rev : c = Seen(p) /\ no = FALSE /\ rev = "rejected"
  OBVIOUS
<1> PICK ns, ks, ms, es : ns = c.ns /\ ks = c.ks /\ ms = notice' /\ es = drafts'
  OBVIOUS
<1>1. /\ call[p].op = "bulk" /\ Ends(p) /\ UNCHANGED <<ctx, areq>>
      /\ mixed' = IF call[p].met THEN mixed \cup (ns \X {"flag"}) ELSE mixed
  BY DEF BulkDismiss, At, Stained
<1>2. /\ ms = [n \in Notices |-> IF n \in ns THEN [notice[n] EXCEPT !.rec = no] ELSE notice[n]]
      /\ es = [k \in DOMAIN drafts |-> IF k \in ks THEN [drafts[k] EXCEPT !.rev = rev] ELSE drafts[k]]
  BY DEF BulkDismiss
<1>3. /\ c \in [ns : SUBSET Notices, ks : SUBSET Nat]
      /\ \A k \in ks : k \in DOMAIN drafts /\ drafts[k].n \in ns
      /\ ~call[p].met => ks = {Latest(drafts, n) : n \in ns}
  BY <1>1 DEF DesksInv, CallsInv, CallOK, Reads, DeskRead, Refers, Fresh, DeskFresh, Seen
<1>4. /\ notice \in [Notices -> NoticeRows] /\ drafts \in Seq(DraftRows)
      /\ mixed \subseteq Notices \X {"flag", "kept"}
      /\ \A m \in Notices : <<m, "flag">> \notin mixed => notice[m].rec = Effective(drafts, m)
  BY DEF DesksInv, DeskRows, FlagFollowsReview
<1>5. ns \subseteq Notices
  BY <1>3
<1>6. /\ ms \in [Notices -> NoticeRows]
      /\ \A m \in Notices : ms[m].kept = notice[m].kept /\ (m \in ns => ms[m].rec = no)
                            /\ (m \notin ns => ms[m].rec = notice[m].rec)
  <2>1. \A m \in Notices : /\ [notice[m] EXCEPT !.rec = no] \in NoticeRows
                           /\ [notice[m] EXCEPT !.rec = no].rec = no
                           /\ [notice[m] EXCEPT !.rec = no].kept = notice[m].kept
    BY <1>4 DEF NoticeRows
  <2> QED
    BY <1>2, <1>4, <2>1
<1>7. /\ es \in Seq(DraftRows) /\ Len(es) = Len(drafts) /\ DOMAIN es = DOMAIN drafts
      /\ \A k \in DOMAIN drafts : es[k].n = drafts[k].n /\ (k \notin ks => es[k] = drafts[k])
                                  /\ (k \in ks => es[k].rev = rev)
  <2>1. \A k \in DOMAIN drafts : drafts[k] \in DraftRows
    BY <1>4
  <2>2. \A k \in DOMAIN drafts : /\ [drafts[k] EXCEPT !.rev = rev] \in DraftRows
                                 /\ [drafts[k] EXCEPT !.rev = rev].rev = rev
                                 /\ [drafts[k] EXCEPT !.rev = rev].n = drafts[k].n
    BY <2>1 DEF DraftRows
  <2>3. \A k \in DOMAIN drafts : es[k] = IF k \in ks THEN [drafts[k] EXCEPT !.rev = rev] ELSE drafts[k]
    BY <1>2
  <2>4. \A k \in DOMAIN drafts : es[k] \in DraftRows
    BY <2>1, <2>2, <2>3
  <2>5. es = [k \in DOMAIN drafts |-> es[k]]
    BY <1>2
  <2>6. es \in Seq(DraftRows) /\ Len(es) = Len(drafts) /\ DOMAIN es = DOMAIN drafts
    BY <1>4, <2>4, <2>5, Mapped
  <2> QED
    BY <2>2, <2>3, <2>6
<1>8. mixed \subseteq mixed' /\ mixed' \subseteq Notices \X {"flag", "kept"}
  BY <1>1, <1>4, <1>5
<1>9. ASSUME NEW m \in Notices, <<m, "flag">> \notin mixed' PROVE ms[m].rec = Effective(es, m)
  <2>1. CASE m \in ns
    <3>1. Latest(drafts, m) \in ks
      BY <1>1, <1>3, <1>9, <2>1
    <3>2. Latest(es, m) = Latest(drafts, m)
      BY <1>4, <1>7, SameLatest
    <3>3. es[Latest(es, m)].rev = "rejected"
      BY <1>3, <1>7, <3>1, <3>2
    <3>4. ~Effective(es, m) /\ Effective(es, m) \in BOOLEAN
      BY <1>7, <3>3, EffectiveIs
    <3> QED
      BY <1>6, <2>1, <3>4
  <2>2. CASE m \notin ns
    <3>1. \A k \in DOMAIN drafts : es[k].n = drafts[k].n /\ (drafts[k].n = m => es[k] = drafts[k])
      BY <1>3, <1>7, <2>2
    <3>2. Effective(es, m) = Effective(drafts, m)
      BY <1>4, <1>7, <3>1, OthersReviewed
    <3> QED
      BY <1>4, <1>6, <1>8, <1>9, <2>2, <3>2
  <2> QED
    BY <2>1, <2>2
<1> QED
  BY <1>1, <1>4, <1>6, <1>7, <1>8, <1>9, EndsInOrder, NoticeActs DEF DesksInv

(* The ingestion saves the row as it was loaded: flag and protection with it.  *)
LEMMA IngestKeeps ==
  ASSUME DesksInv, NEW p \in Users, Ingest(p), UNCHANGED <<caseVars, contractVars, directVars>>
  PROVE  DesksInv'
<1> PICK c : c = Seen(p)
  OBVIOUS
<1> PICK n, saw, ms : n = c.n /\ saw = c.saw /\ ms = notice'
  OBVIOUS
<1>1. /\ call[p].op = "ingest" /\ Ends(p) /\ UNCHANGED <<ctx, areq, drafts>>
      /\ mixed' = IF call[p].met THEN mixed \cup ({n} \X {"flag", "kept"}) ELSE mixed
  BY DEF Ingest, At, Stained
<1>2. PICK new \in {0, 1} :
        ms = [notice EXCEPT ![n] = [saw EXCEPT !.content = saw.content + new, !.work = "ready"]]
  BY DEF Ingest
<1>3. /\ c \in [n : Notices, saw : NoticeRows]
      /\ ~call[p].met => saw.rec = notice[n].rec /\ saw.kept = notice[n].kept
  BY <1>1 DEF DesksInv, CallsInv, CallOK, Reads, DeskRead, Fresh, DeskFresh, Seen
<1>4. /\ notice \in [Notices -> NoticeRows] /\ drafts \in Seq(DraftRows)
      /\ mixed \subseteq Notices \X {"flag", "kept"}
      /\ \A m \in Notices : <<m, "flag">> \notin mixed => notice[m].rec = Effective(drafts, m)
  BY DEF DesksInv, DeskRows, FlagFollowsReview
<1>5. n \in Notices /\ saw \in NoticeRows
  BY <1>3
<1> PICK content, work : content = saw.content + new /\ work = "ready"
  OBVIOUS
<1> PICK r1 : r1 = [saw EXCEPT !.content = content]
  OBVIOUS
<1> PICK r2 : r2 = [r1 EXCEPT !.work = work]
  OBVIOUS
<1>6. r2 \in NoticeRows /\ r2.rec = saw.rec /\ r2.kept = saw.kept
  <2>1. content \in Nat
    BY <1>5 DEF NoticeRows
  <2>2. r1 \in NoticeRows /\ r1.rec = saw.rec /\ r1.kept = saw.kept
    BY <1>5, <2>1 DEF NoticeRows
  <2>3. r1 \in NoticeRows /\ work \in {"ready", "queued", "analyzed", "failed"} /\ r2 = [r1 EXCEPT !.work = work]
    BY <2>2
  <2>4. r2 \in NoticeRows /\ r2.rec = r1.rec /\ r2.kept = r1.kept
    BY ONLY <2>3 DEF NoticeRows
  <2> QED
    BY <2>2, <2>4
<1>7. ms = [notice EXCEPT ![n] = r2]
  <2>1. [saw EXCEPT !.content = content, !.work = work] = r2
    BY Zenon
  <2>2. ms = [notice EXCEPT ![n] = [saw EXCEPT !.content = content, !.work = work]]
    BY <1>2, Zenon
  <2> QED
    BY <2>1, <2>2
<1>8. ms \in [Notices -> NoticeRows] /\ ms[n] = r2 /\ \A m \in Notices \ {n} : ms[m] = notice[m]
  BY <1>4, <1>5, <1>6, <1>7
<1>9. mixed \subseteq mixed' /\ mixed' \subseteq Notices \X {"flag", "kept"}
  BY <1>1, <1>4, <1>5
<1>10. \A m \in Notices : <<m, "flag">> \notin mixed' => ms[m].rec = Effective(drafts, m)
  <2>1. ASSUME NEW m \in Notices, <<m, "flag">> \notin mixed' PROVE ms[m].rec = notice[m].rec
    <3>1. m = n => ~call[p].met
      BY <1>1, <2>1
    <3> QED
      BY <1>3, <1>6, <1>8, <3>1
  <2> QED
    BY <1>4, <1>9, <2>1
<1>11. ASSUME NEW m \in Notices, <<m, "kept">> \notin mixed' PROVE notice[m].kept => ms[m].kept
  <2>1. m = n => ~call[p].met
    BY <1>1, <1>11
  <2> QED
    BY <1>3, <1>6, <1>8, <2>1
<1>12. \A m \in Notices : <<m, "flag">> \notin mixed' => notice'[m].rec = Effective(drafts', m)
  <2> PICK es : es = drafts
    OBVIOUS
  <2>1. drafts' = es /\ \A m \in Notices : <<m, "flag">> \notin mixed' => ms[m].rec = Effective(es, m)
    BY <1>1, <1>10
  <2> QED
    BY <2>1
<1> QED
  BY <1>1, <1>4, <1>8, <1>9, <1>11, <1>12, EndsInOrder, NoticeActs DEF DesksInv

-----------------------------------------------------------------------------
(* The calls of the desk of analysis begin.                                    *)

(* A call that only reads as it begins leaves every part as it was.            *)
LEMMA ReadsKeep ==
  ASSUME DesksInv, NEW p \in Users, NEW op, NEW read, Begins(p, op, read), op # "none",
         UNCHANGED <<deskVars, caseVars, contractVars, directVars>>,
         \A c : c.op = op /\ c.at = "read" /\ c.read = read => Reads(c) /\ Refers(c) /\ Fresh(c)
  PROVE  DesksInv'
<1>1. lease' = lease /\ UNCHANGED <<deskVars, caseVars, pending, revision, journal, directVars>>
  BY DEF contractVars
<1> QED
  BY <1>1, BeginsKeep

(* The calls on contexts have read the context, or those that are active.      *)
LEMMA ContextReadersKeep ==
  ASSUME DesksInv, NEW p \in Users, ReadContext(p) \/ NoDraftYet(p),
         UNCHANGED <<caseVars, contractVars, directVars>>
  PROVE  DesksInv'
<1>1. CASE ReadContext(p)
  <2>1. PICK op \in {"edit", "attach", "detach", "activate"}, v \in Versions :
          Begins(p, op, [v |-> v, saw |-> ctx[v]]) /\ UNCHANGED deskVars
    BY <1>1 DEF ReadContext
  <2> PICK read : read = [v |-> v, saw |-> ctx[v]]
    OBVIOUS
  <2>2. read \in [v : Versions, saw : ContextRows]
    BY DEF DesksInv, DeskRows
  <2>3. ASSUME NEW c, c.op = op, c.at = "read", c.read = read PROVE Reads(c) /\ Refers(c) /\ Fresh(c)
    BY <2>2, <2>3 DEF Reads, DeskRead, CaseRead, ContractRead, DirectRead, Refers,
                      Fresh, DeskFresh, CaseFresh, ContractFresh, DirectFresh
  <2> QED
    BY <2>1, <2>3, ReadsKeep
<1>2. CASE NoDraftYet(p)
  <2>1. Begins(p, "newdraft", [from |-> ActiveContexts]) /\ UNCHANGED deskVars
    BY <1>2 DEF NoDraftYet
  <2> PICK op, read : op = "newdraft" /\ read = [from |-> ActiveContexts]
    OBVIOUS
  <2>2. read \in [from : SUBSET Versions]
    BY DEF ActiveContexts
  <2>3. ASSUME NEW c, c.op = op, c.at = "read", c.read = read PROVE Reads(c) /\ Refers(c) /\ Fresh(c)
    BY <2>2, <2>3 DEF Reads, DeskRead, CaseRead, ContractRead, DirectRead, Refers,
                      Fresh, DeskFresh, CaseFresh, ContractFresh, DirectFresh
  <2>4. Begins(p, op, read) /\ op # "none"
    BY <2>1
  <2> QED
    BY <2>1, <2>3, <2>4, ReadsKeep
<1> QED
  BY <1>1, <1>2

(* The calls on requests have read a request that is there.                    *)
LEMMA RequestReadersKeep ==
  ASSUME DesksInv, NEW p \in Users, StartRead(p) \/ FinishRead(p) \/ ReadRequest(p) \/ ReadForDraft(p),
         UNCHANGED <<caseVars, contractVars, directVars>>
  PROVE  DesksInv'
<1>0. /\ notice \in [Notices -> NoticeRows] /\ areq \in [Requests -> RequestRows]
      /\ \A q \in Requests : \A b \in DOMAIN areq[q].batches : areq[q].st # "none"
  <2>1. /\ notice \in [Notices -> NoticeRows] /\ areq \in [Requests -> RequestRows]
        /\ \A q \in Requests : Used(areq[q])
    BY DEF DesksInv, DeskRows
  <2>2. ASSUME NEW q \in Requests, NEW b \in DOMAIN areq[q].batches PROVE areq[q].st # "none"
    <3> PICK batches : batches = areq[q].batches
      OBVIOUS
    <3>1. batches \in Seq(BatchStates)
      BY <2>1 DEF RequestRows
    <3> HIDE DEF BatchStates
    <3>2. Len(batches) # 0
      BY <2>2, <3>1
    <3> QED
      BY <2>1, <3>2 DEF Used
  <2> QED
    BY <2>1, <2>2
<1>1. CASE StartRead(p)
  <2> PICK v, open, cand : /\ v = Newest(ActiveContexts)
                           /\ open = {q \in Requests : areq[q].st \in Open /\ areq[q].guarded}
                           /\ cand = {n \in Notices : ~Analysed(n, notice[n].content, v)}
    OBVIOUS
  <2> PICK op, read : op = "start" /\ read = [v |-> v, open |-> open, cand |-> cand]
    OBVIOUS
  <2>1. Begins(p, op, read) /\ ActiveContexts # {} /\ UNCHANGED deskVars
    BY <1>1 DEF StartRead
  <2>2. v \in Versions
    BY <2>1, NewestIsOne DEF ActiveContexts
  <2>3. read \in [v : Versions, open : SUBSET Requests, cand : SUBSET Notices]
    BY <2>2
  <2>4. ASSUME NEW c, c.op = op, c.at = "read", c.read = read PROVE Reads(c) /\ Refers(c) /\ Fresh(c)
    BY <2>3, <2>4 DEF Reads, DeskRead, CaseRead, ContractRead, DirectRead, Refers,
                      Fresh, DeskFresh, CaseFresh, ContractFresh, DirectFresh
  <2> QED
    BY <2>1, <2>4, ReadsKeep
<1>2. CASE FinishRead(p)
  <2>1. PICK q \in Requests, failed \in SUBSET Notices :
          /\ areq[q].st \in Open
          /\ Begins(p, "finish", [q |-> q, drafted |-> DraftedIn(q, Len(areq[q].batches)), cand |-> areq[q].cand,
                                  supplied |-> failed])
          /\ UNCHANGED deskVars
    <3>1. PICK q \in Requests : \E failed \in SUBSET areq[q].cand :
            /\ areq[q].st \in Open
            /\ Begins(p, "finish", [q |-> q, drafted |-> DraftedIn(q, Len(areq[q].batches)), cand |-> areq[q].cand,
                                    supplied |-> failed])
            /\ UNCHANGED deskVars
      BY <1>2 DEF FinishRead
    <3>2. areq[q].cand \subseteq Notices
      BY <1>0 DEF RequestRows
    <3> QED
      BY <3>1, <3>2
  <2> PICK op, drafted, cand :
        op = "finish" /\ drafted = DraftedIn(q, Len(areq[q].batches)) /\ cand = areq[q].cand
    OBVIOUS
  <2> PICK read : read = [q |-> q, drafted |-> drafted, cand |-> cand, supplied |-> failed]
    OBVIOUS
  <2>2. drafted \subseteq Notices /\ cand \subseteq Notices
    <3>1. \A k \in DOMAIN drafts : drafts[k] \in DraftRows
      BY DEF DesksInv, DeskRows
    <3>2. \A k \in DOMAIN drafts : drafts[k].n \in Notices
      BY <3>1 DEF DraftRows
    <3> QED
      BY <1>0, <3>2 DEF DraftedIn, RequestRows
  <2>3. read \in [q : Requests, drafted : SUBSET Notices, cand : SUBSET Notices, supplied : SUBSET Notices]
    BY <2>2
  <2>4. areq[q].st # "none" /\ read.q = q
    BY <2>1 DEF Open
  <2>5. ASSUME NEW c, c.op = op, c.at = "read", c.read = read PROVE Reads(c) /\ Refers(c) /\ Fresh(c)
    BY <2>3, <2>4, <2>5 DEF Reads, DeskRead, CaseRead, ContractRead, DirectRead, Refers,
                            Fresh, DeskFresh, CaseFresh, ContractFresh, DirectFresh
  <2>6. Begins(p, op, read) /\ op # "none"
    BY <2>1
  <2> QED
    BY <2>1, <2>5, <2>6, ReadsKeep
<1>3. CASE ReadRequest(p)
  <2>1. PICK op \in {"complete", "addbatch"}, q \in Requests :
          areq[q].st # "none" /\ Begins(p, op, [q |-> q, saw |-> areq[q]]) /\ UNCHANGED deskVars
    BY <1>3 DEF ReadRequest
  <2> PICK read : read = [q |-> q, saw |-> areq[q]]
    OBVIOUS
  <2>2. read \in [q : Requests, saw : RequestRows] /\ read.q = q
    BY <1>0
  <2>3. ASSUME NEW c, c.op = op, c.at = "read", c.read = read PROVE Reads(c) /\ Refers(c) /\ Fresh(c)
    BY <2>1, <2>2, <2>3 DEF Reads, DeskRead, CaseRead, ContractRead, DirectRead, Refers,
                            Fresh, DeskFresh, CaseFresh, ContractFresh, DirectFresh
  <2> QED
    BY <2>1, <2>3, ReadsKeep
<1>4. CASE ReadForDraft(p)
  <2>1. PICK q \in Requests, n \in Notices : \E b \in DOMAIN areq[q].batches :
          Begins(p, "draft", [q |-> q, b |-> b, n |-> n, saw |-> notice[n]]) /\ UNCHANGED deskVars
    BY <1>4 DEF ReadForDraft
  <2>2. PICK b \in DOMAIN areq[q].batches :
          Begins(p, "draft", [q |-> q, b |-> b, n |-> n, saw |-> notice[n]]) /\ UNCHANGED deskVars
    BY <2>1
  <2> PICK op, read : op = "draft" /\ read = [q |-> q, b |-> b, n |-> n, saw |-> notice[n]]
    OBVIOUS
  <2>3. b \in Nat
    <3> PICK batches : batches = areq[q].batches
      OBVIOUS
    <3>1. batches \in Seq(BatchStates)
      BY <1>0 DEF RequestRows
    <3> HIDE DEF BatchStates
    <3> QED
      BY <3>1
  <2>4. read \in [q : Requests, b : Nat, n : Notices, saw : NoticeRows] /\ read.q = q /\ areq[q].st # "none"
    BY <1>0, <2>3
  <2>5. ASSUME NEW c, c.op = op, c.at = "read", c.read = read PROVE Reads(c) /\ Refers(c) /\ Fresh(c)
    BY <2>4, <2>5 DEF Reads, DeskRead, CaseRead, ContractRead, DirectRead, Refers,
                      Fresh, DeskFresh, CaseFresh, ContractFresh, DirectFresh
  <2>6. Begins(p, op, read) /\ op # "none"
    BY <2>2
  <2> QED
    BY <2>2, <2>5, <2>6, ReadsKeep
<1> QED
  BY <1>1, <1>2, <1>3, <1>4

(* The calls on drafts and notices have read a draft, the latest, or the row.  *)
LEMMA NoticeReadersKeep ==
  ASSUME DesksInv, NEW p \in Users,
         ReadForReview(p) \/ ReadForDismissal(p) \/ ReadForBulk(p) \/ ReadForIngest(p),
         UNCHANGED <<caseVars, contractVars, directVars>>
  PROVE  DesksInv'
<1>0. /\ notice \in [Notices -> NoticeRows] /\ drafts \in Seq(DraftRows)
      /\ \A k \in DOMAIN drafts : k \in Nat /\ drafts[k] \in DraftRows
  BY DEF DesksInv, DeskRows
<1>1. CASE ReadForReview(p)
  <2>1. PICK k \in DOMAIN drafts, decision \in Decisions :
          Begins(p, "review", [k |-> k, decision |-> decision, saw |-> notice[drafts[k].n].rec]) /\ UNCHANGED deskVars
    BY <1>1 DEF ReadForReview
  <2> PICK op, saw : op = "review" /\ saw = notice[drafts[k].n].rec
    OBVIOUS
  <2> PICK read : read = [k |-> k, decision |-> decision, saw |-> saw]
    OBVIOUS
  <2>2. saw \in BOOLEAN
    <3>1. drafts[k].n \in Notices
      BY <1>0 DEF DraftRows
    <3> QED
      BY <1>0, <3>1 DEF NoticeRows
  <2>3. read \in [k : Nat, decision : Decisions, saw : BOOLEAN] /\ read.k = k
    BY <1>0, <2>2
  <2>4. ASSUME NEW c, c.op = op, c.at = "read", c.read = read PROVE Reads(c) /\ Refers(c) /\ Fresh(c)
    BY <2>3, <2>4 DEF Reads, DeskRead, CaseRead, ContractRead, DirectRead, Refers,
                      Fresh, DeskFresh, CaseFresh, ContractFresh, DirectFresh
  <2>5. Begins(p, op, read) /\ op # "none"
    BY <2>1
  <2> QED
    BY <2>1, <2>4, <2>5, ReadsKeep
<1>2. CASE ReadForDismissal(p)
  <2>1. PICK n \in Notices :
          Effective(drafts, n) /\ Begins(p, "dismiss", [n |-> n, k |-> Latest(drafts, n)]) /\ UNCHANGED deskVars
    BY <1>2 DEF ReadForDismissal
  <2> PICK op, k : op = "dismiss" /\ k = Latest(drafts, n)
    OBVIOUS
  <2> PICK read : read = [n |-> n, k |-> k]
    OBVIOUS
  <2>2. k \in DOMAIN drafts /\ drafts[k].n = n
    BY <1>0, <2>1, EffectiveIs
  <2>3. read \in [n : Notices, k : Nat] /\ read.k = k /\ read.n = n
    BY <1>0, <2>2
  <2>4. ASSUME NEW c, c.op = op, c.at = "read", c.read = read PROVE Reads(c) /\ Refers(c) /\ Fresh(c)
    BY <2>2, <2>3, <2>4 DEF Reads, DeskRead, CaseRead, ContractRead, DirectRead, Refers,
                            Fresh, DeskFresh, CaseFresh, ContractFresh, DirectFresh
  <2>5. Begins(p, op, read) /\ op # "none"
    BY <2>1
  <2> QED
    BY <2>1, <2>4, <2>5, ReadsKeep
<1>3. CASE ReadForBulk(p)
  <2>1. PICK ns \in SUBSET {n \in Notices : Effective(drafts, n)} :
          Begins(p, "bulk", [ns |-> ns, ks |-> {Latest(drafts, n) : n \in ns}]) /\ UNCHANGED deskVars
    BY <1>3 DEF ReadForBulk
  <2> PICK op, ks : op = "bulk" /\ ks = {Latest(drafts, n) : n \in ns}
    OBVIOUS
  <2> PICK read : read = [ns |-> ns, ks |-> ks]
    OBVIOUS
  <2>2. \A k \in ks : k \in DOMAIN drafts /\ drafts[k].n \in ns
    <3>1. ASSUME NEW n \in ns PROVE Latest(drafts, n) \in DOMAIN drafts /\ drafts[Latest(drafts, n)].n = n
      <4>1. Effective(drafts, n)
        OBVIOUS
      <4> QED
        BY <1>0, <4>1, EffectiveIs
    <3> QED
      BY <3>1
  <2>3. read \in [ns : SUBSET Notices, ks : SUBSET Nat] /\ read.ks = ks /\ read.ns = ns
    BY <1>0, <2>2
  <2>4. ASSUME NEW c, c.op = op, c.at = "read", c.read = read PROVE Reads(c) /\ Refers(c) /\ Fresh(c)
    BY <2>2, <2>3, <2>4 DEF Reads, DeskRead, CaseRead, ContractRead, DirectRead, Refers,
                            Fresh, DeskFresh, CaseFresh, ContractFresh, DirectFresh
  <2>5. Begins(p, op, read) /\ op # "none"
    BY <2>1
  <2> QED
    BY <2>1, <2>4, <2>5, ReadsKeep
<1>4. CASE ReadForIngest(p)
  <2>1. PICK n \in Notices : Begins(p, "ingest", [n |-> n, saw |-> notice[n]]) /\ UNCHANGED deskVars
    BY <1>4 DEF ReadForIngest
  <2> PICK op, read : op = "ingest" /\ read = [n |-> n, saw |-> notice[n]]
    OBVIOUS
  <2>2. read \in [n : Notices, saw : NoticeRows] /\ read.n = n /\ read.saw = notice[n]
    BY <1>0
  <2>3. ASSUME NEW c, c.op = op, c.at = "read", c.read = read PROVE Reads(c) /\ Refers(c) /\ Fresh(c)
    BY <2>2, <2>3 DEF Reads, DeskRead, CaseRead, ContractRead, DirectRead, Refers,
                      Fresh, DeskFresh, CaseFresh, ContractFresh, DirectFresh
  <2>4. Begins(p, op, read) /\ op # "none"
    BY <2>1
  <2> QED
    BY <2>1, <2>3, <2>4, ReadsKeep
<1> QED
  BY <1>1, <1>2, <1>3, <1>4

(* Every step of the desk of analysis keeps the invariant.                     *)
LEMMA DeskStepKeeps ==
  ASSUME DesksInv, DeskStep, UNCHANGED <<caseVars, contractVars, directVars>>
  PROVE  DesksInv'
<1>1. CASE PostRequest \/ StartOnWeb \/ CompleteBatch \/ SetType
  BY <1>1, CreateRequestKeeps, CompleteBatchKeeps, SetTypeKeeps DEF PostRequest, StartOnWeb
<1>2. ASSUME NEW p \in Users,
             \/ ReadContext(p) \/ SaveContext(p) \/ AttachFile(p) \/ DetachFile(p) \/ NoDraftYet(p)
             \/ CreateContextDraft(p) \/ RetireOthers(p) \/ CommitActivation(p)
      PROVE  DesksInv'
  BY <1>2, ContextReadersKeep, SaveContextKeeps, FilesKeep, CreateContextDraftKeeps, RetireOthersKeeps,
     CommitActivationKeeps
<1>3. ASSUME NEW p \in Users,
             \/ StartRead(p) \/ StartWrite(p) \/ FinishRead(p) \/ FinishWrite(p)
             \/ ReadRequest(p) \/ CompleteRequest(p) \/ AddBatch(p) \/ ReadForDraft(p) \/ StoreDraft(p)
      PROVE  DesksInv'
  BY <1>3, RequestReadersKeep, StartWriteKeeps, FinishWriteKeeps, CompleteRequestKeeps, AddBatchKeeps, StoreDraftKeeps
<1>4. ASSUME NEW p \in Users,
             \/ ReadForReview(p) \/ Review(p) \/ ReadForDismissal(p) \/ DismissDraft(p) \/ DismissFlag(p)
             \/ ReadForBulk(p) \/ BulkDismiss(p) \/ ReadForIngest(p) \/ Ingest(p)
      PROVE  DesksInv'
  BY <1>4, NoticeReadersKeep, ReviewKeeps, DismissDraftKeeps, DismissFlagKeeps, BulkDismissKeeps, IngestKeeps
<1> QED
  BY <1>1, <1>2, <1>3, <1>4 DEF DeskStep

-----------------------------------------------------------------------------
(* Cases and the protection of their notices.                                  *)

(* A step that writes cases and the protection of notices leaves the rest.     *)
LEMMA CaseActs ==
  ASSUME DesksInv, NEW p \in Users, Acts(p), CallOK(p)', CaseTables', made <= made', KeptInv',
         call[p].op \in {"case", "destroy", "upload", "contract", "followup", "patch", "remove", "select"},
         notice' \in [Notices -> NoticeRows], \A n \in Notices : notice'[n].rec = notice[n].rec,
         mixed \subseteq mixed', mixed' \subseteq Notices \X {"flag", "kept"},
         UNCHANGED <<ctx, areq, drafts>>, UNCHANGED <<contractVars, directVars>>
  PROVE  DesksInv'
<1>1. Grows
  BY DEF Grows, DesksInv, CaseTables
<1>2. CallsInv'
  BY <1>1, ActsKeepCalls DEF DesksInv
<1>3. /\ lease' = lease /\ pending' = pending /\ revision' = revision /\ journal' = journal
      /\ opp' = opp /\ result' = result /\ tangled' = tangled
  BY DEF contractVars, directVars
<1>4. DeskRows' /\ FlagFollowsReview' /\ DirectTables'
  BY <1>3 DEF DesksInv, DeskRows, FlagFollowsReview, DirectTables
<1>5. ContractTables'
  <2>1. \A i \in DOMAIN journal : journal[i] \in JournalRows /\ journal[i].id <= made
    BY DEF DesksInv, ContractTables
  <2>2. \A i \in DOMAIN journal : journal[i].id <= made'
    BY <2>1 DEF DesksInv, CaseTables, JournalRows
  <2> QED
    BY <1>3, <2>2 DEF DesksInv, ContractTables
<1>6. LockInv'
  BY <1>3, ActsKeepLocks DEF DesksInv, LockInv
<1>7. ToldInv'
  <2>1. Results' = Results
    BY <1>3 DEF Results
  <2> QED
    BY <1>3, <2>1, ActsKeepTold DEF DesksInv
<1> QED
  BY <1>2, <1>4, <1>5, <1>6, <1>7 DEF DesksInv

(* The row of a new case, and of none.                                         *)
LEMMA NewCaseIs ==
  ASSUME made \in Nat, NEW st \in CaseStages
  PROVE  NewCase(st) \in CaseRows /\ NewCase(st).id = made + 1 /\ NoCase \in CaseRows /\ NoCase.id = 0
<1> PICK no, id : no = FALSE /\ id = made + 1
  OBVIOUS
<1>1. NoCase = [id |-> 0, st |-> "selected", docs |-> no, next |-> 0]
  BY Zenon DEF NoCase
<1>2. [id |-> 0, st |-> "selected", docs |-> no, next |-> 0] \in CaseRows
  BY DEF CaseRows, CaseStages
<1>3. NoCase \in CaseRows /\ NoCase.id = 0
  BY <1>1, <1>2
<1> PICK r1 : r1 = [NoCase EXCEPT !.id = id]
  OBVIOUS
<1> PICK r2 : r2 = [r1 EXCEPT !.st = st]
  OBVIOUS
<1>4. r1 \in CaseRows /\ r1.id = id
  BY <1>3 DEF CaseRows
<1>5. r2 \in CaseRows /\ r2.id = id
  BY <1>4 DEF CaseRows
<1>6. NewCase(st) = r2
  <2>1. NewCase(st) = [NoCase EXCEPT !.id = id, !.st = st]
    BY DEF NewCase
  <2>2. [NoCase EXCEPT !.id = id, !.st = st] = r2
    BY Zenon
  <2> QED
    BY <2>1, <2>2
<1> QED
  BY <1>3, <1>5, <1>6

(* A case is one more, under the next number; the call is about to protect.    *)
LEMMA InsertCaseKeeps ==
  ASSUME DesksInv, NEW p \in Users, InsertCase(p), UNCHANGED <<contractVars, directVars>>
  PROVE  DesksInv'
<1> PICK c : c = Seen(p)
  OBVIOUS
<1> PICK n, st, stored : n = c.n /\ st = c.st /\ stored = "stored"
  OBVIOUS
<1>1. call[p].op = "case" /\ call[p].at = "read" /\ UNCHANGED <<notice, ctx, areq, drafts, mixed>>
  BY DEF InsertCase, At, deskVars
<1>2. c \in [n : Notices, st : CaseStages]
  BY <1>1 DEF DesksInv, CallsInv, CallOK, Reads, CaseRead, Seen
<1>3. /\ notice \in [Notices -> NoticeRows] /\ mixed \subseteq Notices \X {"flag", "kept"}
      /\ case \in [Notices -> CaseRows] /\ made \in Nat /\ contracts \subseteq 1..made
      /\ \A m \in Notices : case[m].id <= made /\ case[m].id \in Nat
  BY DEF DesksInv, DeskRows, CaseTables, CaseRows
<1>4. CASE case[n].id # 0
  <2>1. Ends(p) /\ UNCHANGED <<case, made, contracts>>
    BY <1>4 DEF InsertCase, caseVars
  <2>2. Acts(p) /\ CallOK(p)'
    BY <1>1, <2>1, EndsInOrder DEF DesksInv
  <2>3. KeptInv'
    BY <1>1, <2>1, <2>2, ActsKeepProtection DEF DesksInv
  <2> QED
    BY <1>1, <1>3, <2>1, <2>2, <2>3, CaseActs DEF DesksInv, CaseTables
<1>5. CASE case[n].id = 0
  <2>1. /\ Continues(p, stored, c) /\ made' = made + 1 /\ contracts' = contracts
        /\ case' = [case EXCEPT ![n] = NewCase(st)]
    BY <1>5 DEF InsertCase
  <2>2. Acts(p) /\ call'[p] = [op |-> call[p].op, at |-> stored, met |-> call[p].met, read |-> c]
    BY <1>1, <2>1, ContinuesActs DEF DesksInv, CallsInv
  <2>3. CallOK(p)'
    <3> PICK d : d = call'[p]
      OBVIOUS
    <3>1. d.op = "case" /\ d.at = "stored" /\ d.read = c
      BY <1>1, <2>2
    <3>2. Reads(d)' /\ Refers(d)' /\ Fresh(d)'
      BY <1>2, <3>1 DEF Reads, DeskRead, CaseRead, ContractRead, DirectRead, Refers,
                        Fresh, DeskFresh, CaseFresh, ContractFresh, DirectFresh
    <3> QED
      BY <3>2 DEF CallOK
  <2>4. case' \in [Notices -> CaseRows] /\ case'[n].id = made + 1 /\ \A m \in Notices \ {n} : case'[m] = case[m]
    BY <1>2, <1>3, <2>1, NewCaseIs
  <2>5. CaseTables'
    BY <1>3, <2>1, <2>4 DEF CaseTables
  <2>6. KeptInv'
    <3>1. Protecting(n)'
      BY <1>1, <2>2 DEF Protecting, Seen
    <3>2. ASSUME NEW m \in Notices, case'[m].id # 0 /\ <<m, "kept">> \notin mixed'
          PROVE  \/ notice'[m].kept \/ Protecting(m)'
                 \/ (case[m].id # 0 /\ <<m, "kept">> \notin mixed /\ (notice[m].kept => notice'[m].kept))
      BY <1>1, <2>4, <3>1, <3>2
    <3> QED
      BY <1>1, <2>2, <3>2, ActsKeepProtection DEF DesksInv
  <2> QED
    BY <1>1, <1>3, <2>1, <2>2, <2>3, <2>5, <2>6, CaseActs
<1> QED
  BY <1>4, <1>5

(* What a call on a case has read, and what is there of cases and notices.     *)
LEMMA CasesThere ==
  ASSUME DesksInv
  PROVE  /\ notice \in [Notices -> NoticeRows] /\ mixed \subseteq Notices \X {"flag", "kept"}
         /\ case \in [Notices -> CaseRows] /\ made \in Nat /\ contracts \subseteq 1..made
         /\ \A m \in Notices : case[m].id <= made /\ case[m].id \in Nat
         /\ NoCase \in CaseRows /\ NoCase.id = 0
  BY NewCaseIs DEF DesksInv, DeskRows, CaseTables, CaseRows, CaseStages

(* A step that rewrites rows of cases, each in its place, keeps what is known. *)
LEMMA CasesWritten ==
  ASSUME DesksInv, NEW p \in Users, Acts(p), CallOK(p)',
         call[p].op \in {"destroy", "upload", "contract", "followup", "patch", "remove"},
         ~(call[p].op = "patch" /\ call[p].at = "stored"),
         case' \in [Notices -> CaseRows], \A n \in Notices : case'[n].id \in {0, case[n].id},
         made' = made, contracts' \subseteq 1..made, UNCHANGED deskVars, UNCHANGED <<contractVars, directVars>>
  PROVE  DesksInv'
<1>1. notice' = notice /\ ctx' = ctx /\ areq' = areq /\ drafts' = drafts /\ mixed' = mixed
  BY DEF deskVars
<1>2. CaseTables'
  BY CasesThere DEF CaseTables
<1>3. KeptInv'
  BY <1>1, ActsKeepProtection DEF DesksInv
<1> QED
  BY <1>1, <1>2, <1>3, CasesThere, CaseActs

(* The row of a case saved again, or inserted again when it was gone: the call *)
(* is about to protect.                                                        *)
LEMMA SaveCaseKeeps ==
  ASSUME DesksInv, NEW p \in Users, SaveCase(p), UNCHANGED <<contractVars, directVars>>
  PROVE  DesksInv'
<1> PICK c : c = Seen(p)
  OBVIOUS
<1> PICK n, st, saw, stored : n = c.n /\ st = c.st /\ saw = c.saw /\ stored = "stored"
  OBVIOUS
<1>1. /\ call[p].op = "patch" /\ call[p].at = "read" /\ UNCHANGED <<made, contracts>>
      /\ UNCHANGED deskVars /\ UNCHANGED <<notice, ctx, areq, drafts, mixed>>
  BY DEF SaveCase, At, deskVars
<1>2. c \in [n : Notices, st : CaseStages, saw : CaseRows] /\ saw.id \in 1..made
  BY <1>1 DEF DesksInv, CallsInv, CallOK, Reads, CaseRead, Refers, Seen
<1>3. CASE case[n].id \notin {0, saw.id}
  <2>1. Ends(p) /\ UNCHANGED case
    BY <1>3 DEF SaveCase
  <2>2. Acts(p) /\ CallOK(p)'
    BY <1>1, <2>1, EndsInOrder DEF DesksInv
  <2> QED
    BY <1>1, <2>1, <2>2, CasesThere, CasesWritten
<1>4. CASE case[n].id \in {0, saw.id}
  <2> PICK docs : docs = \E m \in Where(saw.id) : case[m].docs
    OBVIOUS
  <2>0. docs \in BOOLEAN
    OBVIOUS
  <2> PICK r1 : r1 = [saw EXCEPT !.st = st]
    OBVIOUS
  <2> PICK row : row = [r1 EXCEPT !.docs = docs]
    OBVIOUS
  <2>1. Continues(p, stored, c)
    BY <1>4 DEF SaveCase
  <2>2. Acts(p) /\ call'[p] = [op |-> call[p].op, at |-> stored, met |-> call[p].met, read |-> c]
    BY <1>1, <2>1, ContinuesActs DEF DesksInv, CallsInv
  <2>3. CallOK(p)'
    <3> PICK d : d = call'[p]
      OBVIOUS
    <3>1. d.op = "patch" /\ d.at = "stored" /\ d.read = c
      BY <1>1, <2>2
    <3>2. Reads(d)' /\ Refers(d)' /\ Fresh(d)'
      BY <1>1, <1>2, <3>1 DEF Reads, DeskRead, CaseRead, ContractRead, DirectRead, Refers,
                              Fresh, DeskFresh, CaseFresh, ContractFresh, DirectFresh
    <3> QED
      BY <3>2 DEF CallOK
  <2>4. row \in CaseRows /\ row.id = saw.id
    <3>1. saw \in CaseRows /\ st \in CaseStages
      BY <1>2
    <3>2. r1 \in CaseRows /\ r1.id = saw.id
      BY <3>1 DEF CaseRows
    <3> QED
      BY ONLY <2>0, <3>2, row = [r1 EXCEPT !.docs = docs] DEF CaseRows
  <2>5. case' = [m \in Notices |-> IF m = n THEN row ELSE IF case[m].id = saw.id THEN NoCase ELSE case[m]]
    <3>1. case' = [m \in Notices |-> IF m = n THEN [saw EXCEPT !.st = st, !.docs = docs]
                                     ELSE IF case[m].id = saw.id THEN NoCase ELSE case[m]]
      BY <1>4 DEF SaveCase
    <3>2. [saw EXCEPT !.st = st, !.docs = docs] = row
      BY Zenon
    <3> QED
      BY <3>1, <3>2
  <2>6. /\ case' \in [Notices -> CaseRows] /\ case'[n].id = saw.id
        /\ \A m \in Notices \ {n} : case'[m].id \in {0, case[m].id}
    BY <1>2, <2>4, <2>5, CasesThere
  <2>7. CaseTables'
    BY <1>1, <1>2, <2>6, CasesThere DEF CaseTables
  <2>8. KeptInv'
    <3>1. Protecting(n)'
      BY <1>1, <2>2 DEF Protecting, Seen
    <3>2. ASSUME NEW m \in Notices, case'[m].id # 0 /\ <<m, "kept">> \notin mixed'
          PROVE  \/ notice'[m].kept \/ Protecting(m)'
                 \/ (case[m].id # 0 /\ <<m, "kept">> \notin mixed /\ (notice[m].kept => notice'[m].kept))
      BY <1>1, <2>6, <3>1, <3>2
    <3> QED
      BY <1>1, <2>2, <3>2, ActsKeepProtection DEF DesksInv
  <2> QED
    BY <1>1, <2>2, <2>3, <2>7, <2>8, CasesThere, CaseActs
<1> QED
  BY <1>3, <1>4

(* A protection set: nothing else of the notices is another.                   *)
LEMMA KeptSet ==
  ASSUME NEW ns \in [Notices -> NoticeRows], NEW n \in Notices, NEW kept \in BOOLEAN,
         NEW ms, ms = [ns EXCEPT ![n].kept = kept]
  PROVE  /\ ms \in [Notices -> NoticeRows] /\ ms[n].kept = kept
         /\ \A m \in Notices : ms[m].rec = ns[m].rec /\ (m # n => ms[m] = ns[m])
<1> PICK row : row = [ns[n] EXCEPT !.kept = kept]
  OBVIOUS
<1>1. row \in NoticeRows /\ row.kept = kept /\ row.rec = ns[n].rec
  BY DEF NoticeRows
<1>2. ms = [ns EXCEPT ![n] = row]
  OBVIOUS
<1> QED
  BY <1>1, <1>2

(* The protection of a notice, which nobody else was about to give it.         *)
LEMMA ProtectNoticeKeeps ==
  ASSUME DesksInv, NEW p \in Users, ProtectNotice(p), UNCHANGED <<contractVars, directVars>>
  PROVE  DesksInv'
<1> PICK n, yes, ns, ms : n = Seen(p).n /\ yes = TRUE /\ ns = notice /\ ms = notice'
  OBVIOUS
<1>1. /\ call[p].op \in {"case", "patch"} /\ call[p].at = "stored" /\ Ends(p)
      /\ UNCHANGED <<ctx, areq, drafts, mixed>> /\ UNCHANGED <<case, made, contracts>>
  BY DEF ProtectNotice, At, caseVars
<1>2. n \in Notices
  BY <1>1 DEF DesksInv, CallsInv, CallOK, Reads, CaseRead, Seen
<1>3. ms = [ns EXCEPT ![n].kept = yes]
  BY <1>2, CasesThere DEF ProtectNotice, Protected
<1>4. /\ ms \in [Notices -> NoticeRows] /\ ms[n].kept
      /\ \A m \in Notices : ms[m].rec = ns[m].rec /\ (m # n => ms[m] = ns[m])
  <2>1. ns \in [Notices -> NoticeRows] /\ n \in Notices /\ yes \in BOOLEAN /\ ms = [ns EXCEPT ![n].kept = yes]
    BY <1>2, <1>3, CasesThere
  <2>2. /\ ms \in [Notices -> NoticeRows] /\ ms[n].kept = yes
        /\ \A m \in Notices : ms[m].rec = ns[m].rec /\ (m # n => ms[m] = ns[m])
    BY ONLY <2>1, KeptSet
  <2> QED
    BY <2>2
<1>5. Acts(p) /\ call'[p] = NoCall /\ CallOK(p)'
  BY <1>1, EndsInOrder DEF DesksInv
<1>6. KeptInv'
  <2>1. ASSUME NEW m \in Notices, case'[m].id # 0, <<m, "kept">> \notin mixed'
        PROVE  notice'[m].kept \/ Protecting(m)'
    <3>1. CASE m = n
      BY <1>4, <3>1
    <3>2. CASE m # n
      <4>1. notice[m].kept \/ Protecting(m)
        BY <1>1, <2>1 DEF DesksInv, KeptInv
      <4>2. ASSUME Protecting(m) PROVE Protecting(m)'
        <5>1. PICK q \in Users : call[q].op \in {"case", "patch"} /\ call[q].at = "stored" /\ Seen(q).n = m
          BY <4>2 DEF Protecting
        <5>2. call'[q] = call[q]
          BY <1>5, <3>2, <5>1 DEF Acts
        <5> QED
          BY <5>1, <5>2 DEF Protecting, Seen
      <4> QED
        BY <1>4, <3>2, <4>1, <4>2
    <3> QED
      BY <3>1, <3>2
  <2> QED
    BY <2>1 DEF KeptInv
<1>7. CaseTables'
  BY <1>1, CasesThere DEF CaseTables
<1> QED
  BY <1>1, <1>4, <1>5, <1>6, <1>7, CasesThere, CaseActs

(* The look at its documents before a case is removed.                         *)
LEMMA CheckDocumentsKeeps ==
  ASSUME DesksInv, NEW p \in Users, CheckDocuments(p), UNCHANGED <<contractVars, directVars>>
  PROVE  DesksInv'
<1> PICK c, on : c = Seen(p) /\ on = "checked"
  OBVIOUS
<1>1. /\ call[p].op = "destroy" /\ call[p].at = "read" /\ UNCHANGED deskVars
      /\ case' = case /\ made' = made /\ contracts' = contracts
  BY DEF CheckDocuments, At, caseVars
<1>2. /\ c \in [n : Notices, saw : CaseRows] /\ c.saw.id \in 1..made
      /\ ~call[p].met => case[c.n].id = c.saw.id
  BY <1>1 DEF DesksInv, CallsInv, CallOK, Reads, CaseRead, Refers, Fresh, CaseFresh, Seen
<1>3. Ends(p) \/ Continues(p, on, c)
  BY DEF CheckDocuments
<1>4. Acts(p) /\ CallOK(p)'
  <2>1. CASE Ends(p)
    BY <1>1, <2>1, EndsInOrder DEF DesksInv
  <2>2. CASE Continues(p, on, c)
    <3>1. Acts(p) /\ call'[p] = [op |-> call[p].op, at |-> on, met |-> call[p].met, read |-> c]
      BY <1>1, <2>2, ContinuesActs DEF DesksInv, CallsInv
    <3> PICK d : d = call'[p]
      OBVIOUS
    <3>2. d.op = "destroy" /\ d.at = "checked" /\ d.read = c /\ d.met = call[p].met
      BY <1>1, <3>1
    <3>3. Reads(d)' /\ Refers(d)'
      BY <1>1, <1>2, <3>2 DEF Reads, DeskRead, CaseRead, ContractRead, DirectRead, Refers
    <3>4. ~d.met => Fresh(d)'
      BY <1>1, <1>2, <3>2 DEF Fresh, DeskFresh, CaseFresh, ContractFresh, DirectFresh
    <3> QED
      BY <3>1, <3>3, <3>4 DEF CallOK
  <2> QED
    BY <1>3, <2>1, <2>2
<1> QED
  BY <1>1, <1>4, CasesThere, CasesWritten

(* The removal of a case by its number.                                        *)
LEMMA DeleteCaseKeeps ==
  ASSUME DesksInv, NEW p \in Users, DeleteCase(p), UNCHANGED <<contractVars, directVars>>
  PROVE  DesksInv'
<1> PICK c : c = Seen(p)
  OBVIOUS
<1> PICK n, saw, gone : n = c.n /\ saw = c.saw /\ gone = "deleted"
  OBVIOUS
<1>1. call[p].op = "destroy" /\ call[p].at = "checked" /\ UNCHANGED <<made, contracts>> /\ UNCHANGED deskVars
  BY DEF DeleteCase, At
<1>2. /\ c \in [n : Notices, saw : CaseRows] /\ saw.id \in 1..made
      /\ ~call[p].met => case[n].id = saw.id
  BY <1>1 DEF DesksInv, CallsInv, CallOK, Reads, CaseRead, Refers, Fresh, CaseFresh, Seen
<1>3. \/ Ends(p) /\ UNCHANGED case
      \/ /\ Continues(p, gone, c)
         /\ case' = [m \in Notices |-> IF m \in Where(saw.id) THEN NoCase ELSE case[m]]
  BY DEF DeleteCase
<1>4. CASE Ends(p) /\ UNCHANGED case
  <2>1. Acts(p) /\ CallOK(p)'
    BY <1>1, <1>4, EndsInOrder DEF DesksInv
  <2> QED
    BY <1>1, <1>4, <2>1, CasesThere, CasesWritten
<1>5. CASE /\ Continues(p, gone, c)
           /\ case' = [m \in Notices |-> IF m \in Where(saw.id) THEN NoCase ELSE case[m]]
  <2>1. Acts(p) /\ call'[p] = [op |-> call[p].op, at |-> gone, met |-> call[p].met, read |-> c]
    BY <1>1, <1>5, ContinuesActs DEF DesksInv, CallsInv
  <2>2. case' \in [Notices -> CaseRows] /\ \A m \in Notices : case'[m].id = IF case[m].id = saw.id THEN 0 ELSE case[m].id
    BY <1>5, CasesThere DEF Where
  <2>3. CallOK(p)'
    <3> PICK d : d = call'[p]
      OBVIOUS
    <3>1. d.op = "destroy" /\ d.at = "deleted" /\ d.read = c /\ d.met = call[p].met
      BY <1>1, <2>1
    <3>2. n \in Notices
      BY <1>2
    <3>3. Reads(d)' /\ Refers(d)'
      BY <1>1, <1>2, <3>1 DEF Reads, DeskRead, CaseRead, ContractRead, DirectRead, Refers
    <3>4. ~d.met => case'[n].id = 0
      BY <1>2, <2>2, <3>1, <3>2
    <3>5. ~d.met => Fresh(d)'
      BY <3>1, <3>4 DEF Fresh, DeskFresh, CaseFresh, ContractFresh, DirectFresh
    <3> QED
      BY <3>3, <3>5 DEF CallOK
  <2> QED
    BY <1>1, <2>1, <2>2, <2>3, CasesThere, CasesWritten
<1> QED
  BY <1>3, <1>4, <1>5

(* The notice of a removed case is released: nobody has opened one meanwhile,  *)
(* or mixed tells.                                                             *)
LEMMA UnprotectNoticeKeeps ==
  ASSUME DesksInv, NEW p \in Users, UnprotectNotice(p), UNCHANGED <<contractVars, directVars>>
  PROVE  DesksInv'
<1> PICK n, no, ns, ms : n = Seen(p).n /\ no = FALSE /\ ns = notice /\ ms = notice'
  OBVIOUS
<1>1. /\ call[p].op = "destroy" /\ call[p].at = "deleted" /\ Ends(p)
      /\ UNCHANGED <<ctx, areq, drafts>> /\ UNCHANGED <<case, made, contracts>>
      /\ mixed' = IF call[p].met THEN mixed \cup ({n} \X {"kept"}) ELSE mixed
  BY DEF UnprotectNotice, At, Stained, caseVars
<1>2. n \in Notices /\ (~call[p].met => case[n].id = 0)
  BY <1>1 DEF DesksInv, CallsInv, CallOK, Reads, CaseRead, Fresh, CaseFresh, Seen
<1>3. ms = [ns EXCEPT ![n].kept = no]
  BY DEF UnprotectNotice
<1>4. /\ ms \in [Notices -> NoticeRows]
      /\ \A m \in Notices : ms[m].rec = ns[m].rec /\ (m # n => ms[m] = ns[m])
  <2>1. ns \in [Notices -> NoticeRows] /\ n \in Notices /\ no \in BOOLEAN /\ ms = [ns EXCEPT ![n].kept = no]
    BY <1>2, <1>3, CasesThere
  <2> QED
    BY ONLY <2>1, KeptSet
<1>5. Acts(p) /\ call'[p] = NoCall /\ CallOK(p)'
  BY <1>1, EndsInOrder DEF DesksInv
<1>6. mixed \subseteq mixed' /\ mixed' \subseteq Notices \X {"flag", "kept"}
  BY <1>1, <1>2, CasesThere
<1>7. KeptInv'
  <2>1. ASSUME NEW m \in Notices, case'[m].id # 0 /\ <<m, "kept">> \notin mixed'
        PROVE  case[m].id # 0 /\ <<m, "kept">> \notin mixed /\ (notice[m].kept => notice'[m].kept)
    <3>1. m # n
      BY <1>1, <1>2, <2>1
    <3> QED
      BY <1>1, <1>4, <1>6, <2>1, <3>1
  <2> QED
    BY <1>1, <1>5, <2>1, ActsKeepProtection DEF DesksInv
<1>8. CaseTables'
  BY <1>1, CasesThere DEF CaseTables
<1> QED
  BY <1>1, <1>4, <1>5, <1>6, <1>7, <1>8, CasesThere, CaseActs

(* Several cases removed at once, and their notices released.                  *)
LEMMA RemoveCasesKeeps ==
  ASSUME DesksInv, NEW p \in Users, RemoveCases(p), UNCHANGED <<contractVars, directVars>>
  PROVE  DesksInv'
<1> PICK ids, no, ns, ms : ids = Seen(p).ids /\ no = FALSE /\ ns = notice /\ ms = notice'
  OBVIOUS
<1> PICK gone : gone = DOMAIN ids
  OBVIOUS
<1>1. /\ call[p].op = "remove" /\ call[p].at = "read" /\ Ends(p)
      /\ UNCHANGED <<ctx, areq, drafts>> /\ UNCHANGED <<made, contracts>>
  BY DEF RemoveCases, At
<1>2. Acts(p) /\ call'[p] = NoCall /\ CallOK(p)'
  BY <1>1, EndsInOrder DEF DesksInv
<1>3. \/ UNCHANGED <<case, notice, mixed>>
      \/ /\ mixed' = IF call[p].met THEN mixed \cup (gone \X {"kept"}) ELSE mixed
         /\ case' = [m \in Notices |-> IF \E n \in gone : case[m].id = ids[n] THEN NoCase ELSE case[m]]
         /\ ms = [n \in Notices |-> IF n \in gone THEN [ns[n] EXCEPT !.kept = no] ELSE ns[n]]
  BY DEF RemoveCases, Stained
<1>4. CASE UNCHANGED <<case, notice, mixed>>
  BY <1>1, <1>2, <1>4, CasesThere, CasesWritten DEF deskVars
<1>5. CASE /\ mixed' = IF call[p].met THEN mixed \cup (gone \X {"kept"}) ELSE mixed
           /\ case' = [m \in Notices |-> IF \E n \in gone : case[m].id = ids[n] THEN NoCase ELSE case[m]]
           /\ ms = [n \in Notices |-> IF n \in gone THEN [ns[n] EXCEPT !.kept = no] ELSE ns[n]]
  <2>1. gone \subseteq Notices /\ (~call[p].met => \A n \in gone : case[n].id = ids[n])
    BY <1>1 DEF DesksInv, CallsInv, CallOK, Reads, CaseRead, Fresh, CaseFresh, Seen
  <2>2. /\ ms \in [Notices -> NoticeRows]
        /\ \A m \in Notices : ms[m].rec = ns[m].rec /\ (m \notin gone => ms[m] = ns[m])
    <3>1. ns \in [Notices -> NoticeRows] /\ no \in BOOLEAN
      BY CasesThere
    <3>2. \A n \in Notices : [ns[n] EXCEPT !.kept = no] \in NoticeRows /\ [ns[n] EXCEPT !.kept = no].rec = ns[n].rec
      BY ONLY <3>1 DEF NoticeRows
    <3> QED
      BY ONLY <1>5, <3>1, <3>2
  <2>3. mixed \subseteq mixed' /\ mixed' \subseteq Notices \X {"flag", "kept"}
    BY <1>5, <2>1, CasesThere
  <2>4. /\ case' \in [Notices -> CaseRows]
        /\ \A m \in Notices : /\ case'[m].id \in {0, case[m].id}
                              /\ (\E n \in gone : case[m].id = ids[n]) => case'[m].id = 0
    BY <1>5, CasesThere
  <2>5. KeptInv'
    <3>1. ASSUME NEW m \in Notices, case'[m].id # 0 /\ <<m, "kept">> \notin mixed'
          PROVE  case[m].id # 0 /\ <<m, "kept">> \notin mixed /\ (notice[m].kept => notice'[m].kept)
      <4>1. m \notin gone
        BY <1>5, <2>1, <2>4, <3>1
      <4> QED
        BY <2>2, <2>3, <2>4, <3>1, <4>1
    <3> QED
      BY <1>1, <1>2, <3>1, ActsKeepProtection DEF DesksInv
  <2>6. CaseTables'
    BY <1>1, <2>4, CasesThere DEF CaseTables
  <2> QED
    BY <1>1, <1>2, <2>2, <2>3, <2>5, <2>6, CasesThere, CaseActs
<1> QED
  BY <1>3, <1>4, <1>5

(* Follow-ups, documents and contract drafts of a case, if it is still there.  *)
LEMMA CaseDetailsKeep ==
  ASSUME DesksInv, NEW p \in Users, WriteFollowUp(p) \/ StoreDocument(p) \/ DraftContract(p),
         UNCHANGED <<contractVars, directVars>>
  PROVE  DesksInv'
<1> PICK c, yes : c = Seen(p) /\ yes = TRUE
  OBVIOUS
<1>1. /\ call[p].op \in {"followup", "upload", "contract"} /\ call[p].at = "read" /\ Ends(p)
      /\ UNCHANGED made /\ UNCHANGED deskVars
  BY DEF WriteFollowUp, StoreDocument, DraftContract, At
<1>2. c \in [n : Notices, saw : CaseRows] /\ c.saw.id \in 1..made
  BY <1>1 DEF DesksInv, CallsInv, CallOK, Reads, CaseRead, Refers, Seen
<1>3. Acts(p) /\ CallOK(p)'
  BY <1>1, EndsInOrder DEF DesksInv
<1>4. case' \in [Notices -> CaseRows] /\ \A n \in Notices : case'[n].id \in {0, case[n].id}
  <2>0. case \in [Notices -> CaseRows] /\ yes \in BOOLEAN
    BY CasesThere
  <2>1. CASE WriteFollowUp(p)
    <3>1. PICK next \in {c.saw.next, 1} :
            case' = [n \in Notices |-> IF n \in Where(c.saw.id) THEN [case[n] EXCEPT !.next = next] ELSE case[n]]
      BY <2>1 DEF WriteFollowUp
    <3>2. next \in {0, 1}
      BY <1>2 DEF CaseRows
    <3>3. \A n \in Notices : [case[n] EXCEPT !.next = next] \in CaseRows /\ [case[n] EXCEPT !.next = next].id = case[n].id
      BY ONLY <2>0, <3>2 DEF CaseRows
    <3> QED
      BY <2>0, <3>1, <3>3
  <2>2. CASE StoreDocument(p)
    <3>1. case' = [n \in Notices |-> IF n \in Where(c.saw.id) THEN [case[n] EXCEPT !.docs = yes] ELSE case[n]]
      BY <2>2 DEF StoreDocument
    <3>2. \A n \in Notices : [case[n] EXCEPT !.docs = yes] \in CaseRows /\ [case[n] EXCEPT !.docs = yes].id = case[n].id
      BY ONLY <2>0 DEF CaseRows
    <3> QED
      BY <2>0, <3>1, <3>2
  <2>3. CASE DraftContract(p)
    BY <2>0, <2>3 DEF DraftContract
  <2> QED
    BY <2>1, <2>2, <2>3
<1>5. contracts' \subseteq 1..made
  BY <1>2, CasesThere DEF WriteFollowUp, StoreDocument, DraftContract
<1> QED
  BY <1>1, <1>3, <1>4, <1>5, CasesWritten

(* A draft selected: its notice has a case, and is protected at once.          *)
LEMMA SelectDraftKeeps ==
  ASSUME DesksInv, NEW p \in Users, SelectDraft(p), UNCHANGED <<contractVars, directVars>>
  PROVE  DesksInv'
<1> PICK n, yes, ns, ms, st : n = Seen(p).n /\ yes = TRUE /\ ns = notice /\ ms = notice' /\ st = "selected"
  OBVIOUS
<1>1. /\ call[p].op = "select" /\ call[p].at = "read" /\ Ends(p) /\ UNCHANGED <<ctx, areq, drafts, mixed, contracts>>
      /\ \/ case[n].id # 0 /\ UNCHANGED <<case, made>>
         \/ case' = [case EXCEPT ![n] = NewCase(st)] /\ made' = made + 1
  BY DEF SelectDraft, At
<1>2. n \in Notices
  BY <1>1 DEF DesksInv, CallsInv, CallOK, Reads, CaseRead, Seen
<1>3. ms = [ns EXCEPT ![n].kept = yes]
  BY DEF SelectDraft
<1>4. /\ ms \in [Notices -> NoticeRows] /\ ms[n].kept
      /\ \A m \in Notices : ms[m].rec = ns[m].rec /\ (m # n => ms[m] = ns[m])
  <2>1. ns \in [Notices -> NoticeRows] /\ n \in Notices /\ yes \in BOOLEAN /\ ms = [ns EXCEPT ![n].kept = yes]
    BY <1>2, <1>3, CasesThere
  <2>2. /\ ms \in [Notices -> NoticeRows] /\ ms[n].kept = yes
        /\ \A m \in Notices : ms[m].rec = ns[m].rec /\ (m # n => ms[m] = ns[m])
    BY ONLY <2>1, KeptSet
  <2> QED
    BY <2>2
<1>5. Acts(p) /\ call'[p] = NoCall /\ CallOK(p)'
  BY <1>1, EndsInOrder DEF DesksInv
<1>6. CaseTables' /\ made <= made' /\ \A m \in Notices \ {n} : case'[m] = case[m]
  <2>1. CASE UNCHANGED <<case, made>>
    BY <1>1, <2>1, CasesThere DEF CaseTables
  <2>2. CASE case' = [case EXCEPT ![n] = NewCase(st)] /\ made' = made + 1
    <3>1. NewCase(st) \in CaseRows /\ NewCase(st).id = made + 1
      BY CasesThere, NewCaseIs DEF CaseStages
    <3> QED
      BY <1>1, <1>2, <2>2, <3>1, CasesThere DEF CaseTables
  <2> QED
    BY <1>1, <2>1, <2>2
<1>7. KeptInv'
  <2>1. ASSUME NEW m \in Notices, case'[m].id # 0 /\ <<m, "kept">> \notin mixed'
        PROVE  \/ notice'[m].kept
               \/ (case[m].id # 0 /\ <<m, "kept">> \notin mixed /\ (notice[m].kept => notice'[m].kept))
    BY <1>1, <1>4, <1>6, <2>1
  <2> QED
    BY <1>1, <1>5, <2>1, ActsKeepProtection DEF DesksInv
<1> QED
  BY <1>1, <1>4, <1>5, <1>6, <1>7, CasesThere, CaseActs

(* The calls on cases have read a case, the want of one, or a draft.           *)
LEMMA CaseReadersKeep ==
  ASSUME DesksInv, NEW p \in Users,
         ReadForCase(p) \/ ReadCase(p) \/ ReadForPatch(p) \/ ReadForRemoval(p) \/ ReadForSelection(p),
         UNCHANGED <<contractVars, directVars>>
  PROVE  DesksInv'
<1>0. /\ case \in [Notices -> CaseRows] /\ made \in Nat
      /\ \A n \in Notices : case[n].id \in Nat /\ (case[n].id # 0 => case[n].id \in 1..made)
  BY CasesThere
<1>1. CASE ReadForCase(p)
  <2>1. PICK n \in Notices, st \in CaseStages :
          Begins(p, "case", [n |-> n, st |-> st]) /\ UNCHANGED <<deskVars, caseVars>>
    BY <1>1 DEF ReadForCase
  <2> PICK op, read : op = "case" /\ read = [n |-> n, st |-> st]
    OBVIOUS
  <2>2. read \in [n : Notices, st : CaseStages]
    OBVIOUS
  <2>3. ASSUME NEW c, c.op = op, c.at = "read", c.read = read PROVE Reads(c) /\ Refers(c) /\ Fresh(c)
    BY <2>2, <2>3 DEF Reads, DeskRead, CaseRead, ContractRead, DirectRead, Refers,
                      Fresh, DeskFresh, CaseFresh, ContractFresh, DirectFresh
  <2>4. Begins(p, op, read) /\ op # "none"
    BY <2>1
  <2> QED
    BY <2>1, <2>3, <2>4, ReadsKeep
<1>2. CASE ReadCase(p)
  <2>1. PICK op \in {"destroy", "upload", "contract", "followup"}, n \in Notices :
          case[n].id # 0 /\ Begins(p, op, [n |-> n, saw |-> case[n]]) /\ UNCHANGED <<deskVars, caseVars>>
    BY <1>2 DEF ReadCase
  <2> PICK read : read = [n |-> n, saw |-> case[n]]
    OBVIOUS
  <2>2. read \in [n : Notices, saw : CaseRows] /\ read.saw.id \in 1..made /\ read.saw.id = case[n].id /\ read.n = n
    BY <1>0, <2>1
  <2>3. ASSUME NEW c, c.op = op, c.at = "read", c.read = read PROVE Reads(c) /\ Refers(c) /\ Fresh(c)
    BY <2>1, <2>2, <2>3 DEF Reads, DeskRead, CaseRead, ContractRead, DirectRead, Refers,
                            Fresh, DeskFresh, CaseFresh, ContractFresh, DirectFresh
  <2> QED
    BY <2>1, <2>3, ReadsKeep
<1>3. CASE ReadForPatch(p)
  <2>1. PICK n, m \in Notices, st \in CaseStages :
          case[n].id # 0 /\ Begins(p, "patch", [n |-> m, st |-> st, saw |-> case[n]]) /\ UNCHANGED <<deskVars, caseVars>>
    BY <1>3 DEF ReadForPatch
  <2> PICK op, read : op = "patch" /\ read = [n |-> m, st |-> st, saw |-> case[n]]
    OBVIOUS
  <2>2. read \in [n : Notices, st : CaseStages, saw : CaseRows] /\ read.saw.id \in 1..made
    BY <1>0, <2>1
  <2>3. ASSUME NEW c, c.op = op, c.at = "read", c.read = read PROVE Reads(c) /\ Refers(c) /\ Fresh(c)
    BY <2>2, <2>3 DEF Reads, DeskRead, CaseRead, ContractRead, DirectRead, Refers,
                      Fresh, DeskFresh, CaseFresh, ContractFresh, DirectFresh
  <2>4. Begins(p, op, read) /\ op # "none"
    BY <2>1
  <2> QED
    BY <2>1, <2>3, <2>4, ReadsKeep
<1>4. CASE ReadForRemoval(p)
  <2>1. PICK ns \in SUBSET {n \in Notices : case[n].id # 0 /\ case[n].st \in Removable} :
          Begins(p, "remove", [ids |-> [n \in ns |-> case[n].id]]) /\ UNCHANGED <<deskVars, caseVars>>
    BY <1>4 DEF ReadForRemoval
  <2> PICK op, ids : op = "remove" /\ ids = [n \in ns |-> case[n].id]
    OBVIOUS
  <2> PICK read : read = [ids |-> ids]
    OBVIOUS
  <2>2. read.ids = ids /\ DOMAIN ids \subseteq Notices /\ \A n \in DOMAIN ids : case[n].id = ids[n]
    OBVIOUS
  <2>3. ASSUME NEW c, c.op = op, c.at = "read", c.read = read PROVE Reads(c) /\ Refers(c) /\ Fresh(c)
    BY <2>2, <2>3 DEF Reads, DeskRead, CaseRead, ContractRead, DirectRead, Refers,
                      Fresh, DeskFresh, CaseFresh, ContractFresh, DirectFresh
  <2>4. Begins(p, op, read) /\ op # "none"
    BY <2>1
  <2> QED
    BY <2>1, <2>3, <2>4, ReadsKeep
<1>5. CASE ReadForSelection(p)
  <2>1. PICK k \in DOMAIN drafts : Begins(p, "select", [n |-> drafts[k].n]) /\ UNCHANGED <<deskVars, caseVars>>
    BY <1>5 DEF ReadForSelection
  <2> PICK op, n : op = "select" /\ n = drafts[k].n
    OBVIOUS
  <2> PICK read : read = [n |-> n]
    OBVIOUS
  <2>2. read \in [n : Notices]
    <3>1. drafts[k] \in DraftRows
      BY DEF DesksInv, DeskRows
    <3> QED
      BY <3>1 DEF DraftRows
  <2>3. ASSUME NEW c, c.op = op, c.at = "read", c.read = read PROVE Reads(c) /\ Refers(c) /\ Fresh(c)
    BY <2>2, <2>3 DEF Reads, DeskRead, CaseRead, ContractRead, DirectRead, Refers,
                      Fresh, DeskFresh, CaseFresh, ContractFresh, DirectFresh
  <2>4. Begins(p, op, read) /\ op # "none"
    BY <2>1
  <2> QED
    BY <2>1, <2>3, <2>4, ReadsKeep
<1> QED
  BY <1>1, <1>2, <1>3, <1>4, <1>5

(* Every step of the desk of cases keeps the invariant.                        *)
LEMMA CaseStepKeeps ==
  ASSUME DesksInv, CaseStep, UNCHANGED <<contractVars, directVars>>
  PROVE  DesksInv'
<1>1. ASSUME NEW p \in Users,
             \/ ReadForCase(p) \/ InsertCase(p) \/ ReadCase(p) \/ ReadForPatch(p) \/ SaveCase(p)
             \/ ProtectNotice(p) \/ CheckDocuments(p) \/ DeleteCase(p) \/ UnprotectNotice(p)
             \/ ReadForRemoval(p) \/ RemoveCases(p)
             \/ WriteFollowUp(p) \/ StoreDocument(p) \/ DraftContract(p) \/ ReadForSelection(p) \/ SelectDraft(p)
      PROVE  DesksInv'
  BY <1>1, CaseReadersKeep, InsertCaseKeeps, SaveCaseKeeps, ProtectNoticeKeeps,
     CheckDocumentsKeeps, DeleteCaseKeeps, UnprotectNoticeKeeps, RemoveCasesKeeps, CaseDetailsKeep, SelectDraftKeeps
<1> QED
  BY <1>1 DEF CaseStep

-----------------------------------------------------------------------------
(* Leases, pending actions and commands.                                       *)

(* What is there of leases and pending actions.                                *)
LEMMA ContractsThere ==
  ASSUME DesksInv
  PROVE  /\ lease \in [Leases -> LeaseStates] /\ pending \in [Pendings -> PendingRows]
         /\ journal \in Seq(JournalRows) /\ revision = Len(journal)
         /\ \A i \in DOMAIN journal : journal[i].id <= made
  BY DEF DesksInv, ContractTables

(* A step that writes leases and pending actions leaves the rest.              *)
LEMMA ContractActs ==
  ASSUME DesksInv, NEW p \in Users, Acts(p), CallOK(p)', LockInv',
         call[p].op \in {"arm", "disarm", "prepare", "confirm"},
         lease' \in [Leases -> LeaseStates], pending' \in [Pendings -> PendingRows],
         UNCHANGED <<revision, journal>>, UNCHANGED <<deskVars, caseVars, directVars>>
  PROVE  DesksInv'
<1>1. /\ notice' = notice /\ ctx' = ctx /\ areq' = areq /\ drafts' = drafts /\ mixed' = mixed
      /\ case' = case /\ made' = made /\ contracts' = contracts
      /\ opp' = opp /\ result' = result /\ tangled' = tangled
  BY DEF deskVars, caseVars, directVars
<1>2. Grows
  BY <1>1 DEF Grows, DesksInv, CaseTables
<1>3. CallsInv'
  BY <1>2, ActsKeepCalls DEF DesksInv
<1>4. DeskRows' /\ FlagFollowsReview' /\ CaseTables' /\ ContractTables' /\ DirectTables'
  BY <1>1 DEF DesksInv, DeskRows, FlagFollowsReview, CaseTables, ContractTables, DirectTables
<1>5. KeptInv'
  BY <1>1, ActsKeepProtection DEF DesksInv
<1>6. ToldInv'
  <2>1. Results' = Results
    BY <1>1 DEF Results
  <2> QED
    BY <1>1, <2>1, ActsKeepTold DEF DesksInv
<1> QED
  BY <1>3, <1>4, <1>5, <1>6 DEF DesksInv

(* A lease armed, others revoked.                                              *)
LEMMA ArmLeaseKeeps ==
  ASSUME DesksInv, NEW p \in Users, ArmLease(p), UNCHANGED directVars
  PROVE  DesksInv'
<1>1. call[p].op = "arm" /\ Ends(p) /\ UNCHANGED <<deskVars, caseVars, pending, revision, journal>>
  BY DEF ArmLease, At
<1> PICK old, new : /\ old = [l \in Leases |-> IF l \in Seen(p).old /\ lease[l] = "live" THEN "revoked" ELSE lease[l]]
                    /\ new = Min(FreeLeases)
  OBVIOUS
<1>2. lease' = [old EXCEPT ![new] = "live"]
  BY DEF ArmLease
<1>3. lease' \in [Leases -> LeaseStates]
  <2>1. old \in [Leases -> LeaseStates]
    BY ContractsThere DEF LeaseStates
  <2> QED
    BY <1>2, <2>1 DEF LeaseStates
<1>4. Acts(p) /\ call'[p] = NoCall /\ CallOK(p)'
  BY <1>1, EndsInOrder DEF DesksInv
<1>5. LockInv'
  BY <1>1, <1>4, ActsKeepLocks DEF DesksInv, LockInv
<1> QED
  BY <1>1, <1>3, <1>4, <1>5, ContractsThere, ContractActs

(* Whose confirmation has its action locked has it in the table.               *)
LEMMA CheckedIsLocked ==
  ASSUME DesksInv, NEW q \in Users, Checked(q)
  PROVE  Seen(q).k \in Pendings /\ Locked(Seen(q).k)
<1>1. call[q].op = "confirm" /\ At(q, "confirm", "checked")
  BY DEF Checked, At
<1>2. Seen(q).k \in Pendings
  BY <1>1 DEF DesksInv, CallsInv, CallOK, Reads, ContractRead, Seen
<1> QED
  BY <1>1, <1>2 DEF Locked

(* The cancellation waits for whoever holds a lock.                            *)
LEMMA CancelPendingsKeeps ==
  ASSUME DesksInv, NEW p \in Users, CancelPendings(p), UNCHANGED directVars
  PROVE  DesksInv'
<1>1. /\ call[p].op = "disarm" /\ Ends(p) /\ UNCHANGED <<deskVars, caseVars, lease, revision, journal>>
      /\ \A k \in Pendings : ~Locked(k)
  BY DEF CancelPendings, At
<1>2. pending' = [k \in Pendings |-> IF pending[k].st = "awaiting" THEN [pending[k] EXCEPT !.st = "cancelled"]
                                     ELSE pending[k]]
  BY DEF CancelPendings
<1>3. pending' \in [Pendings -> PendingRows]
  <2>1. pending \in [Pendings -> PendingRows]
    BY ContractsThere
  <2>2. \A k \in Pendings : [pending[k] EXCEPT !.st = "cancelled"] \in PendingRows
    BY <2>1 DEF PendingRows
  <2> QED
    BY <1>2, <2>1, <2>2
<1>4. Acts(p) /\ call'[p] = NoCall /\ CallOK(p)'
  BY <1>1, EndsInOrder DEF DesksInv
<1>5. LockInv'
  <2>1. \A q \in Users : ~Checked(q)
    BY <1>1, CheckedIsLocked
  <2> QED
    BY <1>4, <2>1, ActsKeepLocks DEF DesksInv
<1> QED
  BY <1>1, <1>3, <1>4, <1>5, ContractsThere, ContractActs

(* An action that waits is stored where there was none.                        *)
LEMMA StorePendingKeeps ==
  ASSUME DesksInv, NEW p \in Users, StorePending(p), UNCHANGED directVars
  PROVE  DesksInv'
<1> PICK cand, free : cand = Seen(p).cand /\ free = Min(FreePendings)
  OBVIOUS
<1>1. call[p].op = "prepare" /\ Ends(p) /\ UNCHANGED <<deskVars, caseVars, lease, revision, journal>>
  BY DEF StorePending, At
<1>2. cand \in SUBSET Notices
  BY <1>1 DEF DesksInv, CallsInv, CallOK, Reads, ContractRead, Seen
<1>3. pending \in [Pendings -> PendingRows]
  BY ContractsThere
<1> PICK r1 : r1 = [pending[free] EXCEPT !.st = "awaiting"]
  OBVIOUS
<1> PICK r2 : r2 = [r1 EXCEPT !.cand = cand]
  OBVIOUS
<1>4. free \in Pendings => r2 \in PendingRows /\ r2.st = "awaiting"
  <2>1. free \in Pendings => r1 \in PendingRows /\ r1.st = "awaiting"
    BY <1>3 DEF PendingRows
  <2> QED
    BY <1>2, <2>1 DEF PendingRows
<1>5. pending' = [pending EXCEPT ![free] = r2]
  <2>1. pending' = [pending EXCEPT ![free] = [@ EXCEPT !.st = "awaiting", !.cand = cand]]
    BY DEF StorePending
  <2>2. [pending[free] EXCEPT !.st = "awaiting", !.cand = cand] = r2
    BY Zenon
  <2> QED
    BY <1>3, <2>1, <2>2
<1>6. /\ pending' \in [Pendings -> PendingRows]
      /\ \A k \in Pendings : pending'[k] = IF k = free THEN r2 ELSE pending[k]
  BY <1>3, <1>4, <1>5
<1>7. Acts(p) /\ call'[p] = NoCall /\ CallOK(p)'
  BY <1>1, EndsInOrder DEF DesksInv
<1>8. LockInv'
  <2>1. ASSUME NEW q \in Users \ {p}, Checked(q) PROVE pending'[Seen(q).k].st = "awaiting"
    <3>1. Seen(q).k \in Pendings /\ pending[Seen(q).k].st = "awaiting"
      BY <2>1, CheckedIsLocked DEF DesksInv, LockInv
    <3> QED
      BY <1>4, <1>6, <3>1
  <2> QED
    BY <1>7, <2>1, ActsKeepLocks DEF DesksInv
<1> QED
  BY <1>1, <1>6, <1>7, <1>8, ContractsThere, ContractActs

(* A confirmation locks an action that nobody has locked.                      *)
LEMMA CheckPendingKeeps ==
  ASSUME DesksInv, NEW p \in Users, CheckPending(p), UNCHANGED directVars
  PROVE  DesksInv'
<1> PICK c, checked : c = Seen(p) /\ checked = "checked"
  OBVIOUS
<1>1. /\ call[p].op = "confirm" /\ call[p].at = "read" /\ ~Locked(c.k)
      /\ UNCHANGED <<deskVars, caseVars>> /\ UNCHANGED <<lease, pending, revision, journal>>
      /\ Ends(p) \/ (Confirmable(c) /\ Continues(p, checked, c))
  BY DEF CheckPending, At, contractVars
<1>2. c \in [l : Leases, k : Pendings, n : Notices] /\ (~call[p].met => lease[c.l] \in {"live", "lapsed"})
  BY <1>1 DEF DesksInv, CallsInv, CallOK, Reads, ContractRead, Fresh, ContractFresh, Seen
<1>3. CASE Ends(p)
  <2>1. Acts(p) /\ call'[p] = NoCall /\ CallOK(p)'
    BY <1>1, <1>3, EndsInOrder DEF DesksInv
  <2>2. LockInv'
    BY <1>1, <2>1, ActsKeepLocks DEF DesksInv, LockInv
  <2> QED
    BY <1>1, <2>1, <2>2, ContractsThere, ContractActs
<1>4. CASE Confirmable(c) /\ Continues(p, checked, c)
  <2>1. Acts(p) /\ call'[p] = [op |-> call[p].op, at |-> checked, met |-> call[p].met, read |-> c]
    BY <1>1, <1>4, ContinuesActs DEF DesksInv, CallsInv
  <2>2. CallOK(p)'
    <3> PICK d : d = call'[p]
      OBVIOUS
    <3>1. d.op = "confirm" /\ d.read = c /\ d.met = call[p].met
      BY <1>1, <2>1
    <3>2. Reads(d)' /\ Refers(d)'
      BY <1>2, <3>1 DEF Reads, DeskRead, CaseRead, ContractRead, DirectRead, Refers
    <3>3. ~d.met => Fresh(d)'
      BY <1>1, <1>2, <3>1 DEF Fresh, DeskFresh, CaseFresh, ContractFresh, DirectFresh
    <3> QED
      BY <3>2, <3>3 DEF CallOK
  <2>3. LockInv'
    <3>1. /\ Seen(p)' = c /\ pending[c.k].st = "awaiting"
          /\ \A q \in Users \ {p} : (Checked(q)' <=> Checked(q)) /\ Seen(q)' = Seen(q)
      BY <1>4, <2>1 DEF Acts, Checked, Seen, Confirmable
    <3>2. \A q \in Users \ {p} : Checked(q) => Seen(q).k # c.k /\ pending[Seen(q).k].st = "awaiting"
      BY <1>1, CheckedIsLocked DEF DesksInv, LockInv
    <3> QED
      BY <1>1, <3>1, <3>2 DEF DesksInv, LockInv
  <2> QED
    BY <1>1, <2>1, <2>2, <2>3, ContractsThere, ContractActs
<1> QED
  BY <1>1, <1>3, <1>4

(* A command opens the case, protects the notice, journals both under the next *)
(* revision and uses its pending action up.                                    *)
LEMMA SelectNoticeKeeps ==
  ASSUME DesksInv, NEW p \in Users, SelectNotice(p), UNCHANGED directVars
  PROVE  DesksInv'
<1> PICK n, k, yes, ns, ms, st :
      n = Seen(p).n /\ k = Seen(p).k /\ yes = TRUE /\ ns = notice /\ ms = notice' /\ st = "selected"
  OBVIOUS
<1>1. /\ At(p, "command", "read") \/ At(p, "confirm", "checked")
      /\ call[p].op \in {"command", "confirm"} /\ Ends(p) /\ UNCHANGED <<ctx, areq, drafts, mixed, contracts, lease>>
  BY DEF SelectNotice, At
<1>2. pending' = IF call[p].op = "confirm" THEN [pending EXCEPT ![k].st = "executed"] ELSE pending
  BY DEF SelectNotice
<1>3. \/ case[n].id # 0 /\ UNCHANGED <<case, made, notice, revision, journal>>
      \/ /\ case[n].id = 0 /\ case' = [case EXCEPT ![n] = NewCase(st)] /\ made' = made + 1
         /\ ms = [ns EXCEPT ![n].kept = yes]
         /\ revision' = revision + 1
         /\ journal' = Append(journal, [rev |-> revision + 1, n |-> n, id |-> made + 1])
  BY DEF SelectNotice
<1>4. n \in Notices
  BY <1>1 DEF DesksInv, CallsInv, CallOK, Reads, ContractRead, Seen
<1>5. Acts(p) /\ call'[p] = NoCall /\ CallOK(p)'
  BY <1>1, EndsInOrder DEF DesksInv
<1>6. /\ pending' \in [Pendings -> PendingRows]
      /\ \A j \in Pendings : pending'[j] = pending[j] \/ (call[p].op = "confirm" /\ j = k)
  <2>1. pending \in [Pendings -> PendingRows]
    BY ContractsThere
  <2> PICK row : row = [pending[k] EXCEPT !.st = "executed"]
    OBVIOUS
  <2>2. k \in Pendings => row \in PendingRows
    BY <2>1 DEF PendingRows
  <2>3. pending' = IF call[p].op = "confirm" THEN [pending EXCEPT ![k] = row] ELSE pending
    BY <1>2
  <2> QED
    BY ONLY <2>1, <2>2, <2>3
<1>7. /\ made \in Nat /\ made' \in Nat /\ made <= made'
      /\ case' \in [Notices -> CaseRows] /\ \A m \in Notices : case'[m].id <= made' /\ (m # n => case'[m] = case[m])
      /\ ms \in [Notices -> NoticeRows]
      /\ \A m \in Notices : /\ ms[m].rec = ns[m].rec /\ (ns[m].kept => ms[m].kept)
                            /\ case'[m].id # 0 => case[m].id # 0 \/ ms[m].kept
      /\ journal' \in Seq(JournalRows) /\ revision' = Len(journal') /\ \A i \in DOMAIN journal' : journal'[i].id <= made'
  <2>1. CASE case[n].id # 0 /\ UNCHANGED <<case, made, notice, revision, journal>>
    BY <2>1, CasesThere, ContractsThere
  <2>2. CASE /\ case[n].id = 0 /\ case' = [case EXCEPT ![n] = NewCase(st)] /\ made' = made + 1
             /\ ms = [ns EXCEPT ![n].kept = yes]
             /\ revision' = revision + 1
             /\ journal' = Append(journal, [rev |-> revision + 1, n |-> n, id |-> made + 1])
    <3>1. NewCase(st) \in CaseRows /\ NewCase(st).id = made + 1 /\ made \in Nat
      BY CasesThere, NewCaseIs DEF CaseStages
    <3>2. /\ made' \in Nat /\ made <= made' /\ case' \in [Notices -> CaseRows]
          /\ \A m \in Notices : case'[m].id <= made' /\ (m # n => case'[m] = case[m])
      BY <1>4, <2>2, <3>1, CasesThere
    <3>3. ns \in [Notices -> NoticeRows] /\ n \in Notices /\ yes \in BOOLEAN /\ ms = [ns EXCEPT ![n].kept = yes]
      BY <1>4, <2>2, CasesThere
    <3>4. /\ ms \in [Notices -> NoticeRows] /\ ms[n].kept = yes
          /\ \A m \in Notices : ms[m].rec = ns[m].rec /\ (m # n => ms[m] = ns[m])
      BY ONLY <3>3, KeptSet
    <3>5. \A m \in Notices : (ns[m].kept => ms[m].kept) /\ (case'[m].id # 0 => case[m].id # 0 \/ ms[m].kept)
      BY <3>2, <3>4
    <3> PICK e, js : e = [rev |-> revision + 1, n |-> n, id |-> made + 1] /\ js = journal
      OBVIOUS
    <3>6. js \in Seq(JournalRows) /\ revision = Len(js) /\ \A i \in DOMAIN js : js[i].id <= made
      BY ContractsThere
    <3>7. e \in JournalRows /\ e.id = made + 1
      BY <1>4, <3>1, <3>6 DEF JournalRows
    <3>8. journal' = Append(js, e) /\ revision' = revision + 1
      BY <2>2
    <3>9. journal' \in Seq(JournalRows) /\ Len(journal') = Len(js) + 1
          /\ \A i \in DOMAIN journal' : journal'[i] = e \/ (i \in DOMAIN js /\ journal'[i] = js[i])
      BY <3>6, <3>7, <3>8
    <3>10. \A i \in DOMAIN journal' : journal'[i].id <= made'
      <4>1. \A i \in DOMAIN js : js[i] \in JournalRows
        BY <3>6
      <4>2. \A i \in DOMAIN js : js[i].id \in Nat
        BY <4>1 DEF JournalRows
      <4> QED
        BY <2>2, <3>1, <3>6, <3>7, <3>9, <4>2
    <3> QED
      BY <3>1, <3>2, <3>4, <3>5, <3>6, <3>8, <3>9, <3>10
  <2> QED
    BY <1>3, <2>1, <2>2
<1>8. /\ ctx' = ctx /\ areq' = areq /\ drafts' = drafts /\ mixed' = mixed /\ contracts' = contracts /\ lease' = lease
      /\ opp' = opp /\ result' = result /\ tangled' = tangled
  BY <1>1 DEF directVars
<1>9. Grows
  BY <1>7, <1>8 DEF Grows
<1>10. CallsInv'
  BY <1>5, <1>9, ActsKeepCalls DEF DesksInv
<1>11. DeskRows' /\ FlagFollowsReview' /\ DirectTables'
  BY <1>7, <1>8 DEF DesksInv, DeskRows, FlagFollowsReview, DirectTables
<1>12. CaseTables' /\ ContractTables'
  BY <1>6, <1>7, <1>8, CasesThere, ContractsThere DEF CaseTables, ContractTables
<1>13. KeptInv'
  <2>1. ASSUME NEW m \in Notices, case'[m].id # 0 /\ <<m, "kept">> \notin mixed'
        PROVE  \/ notice'[m].kept
               \/ (case[m].id # 0 /\ <<m, "kept">> \notin mixed /\ (notice[m].kept => notice'[m].kept))
    BY <1>7, <1>8, <2>1
  <2> QED
    BY <1>1, <1>5, <2>1, ActsKeepProtection DEF DesksInv
<1>14. LockInv'
  <2>1. ASSUME NEW q \in Users \ {p}, Checked(q) PROVE pending'[Seen(q).k].st = "awaiting"
    <3>1. Seen(q).k \in Pendings /\ pending[Seen(q).k].st = "awaiting"
      BY <2>1, CheckedIsLocked DEF DesksInv, LockInv
    <3>2. call[p].op = "confirm" => Checked(p)
      BY <1>1 DEF At, Checked
    <3>3. call[p].op = "confirm" => Seen(q).k # k
      BY <2>1, <3>2 DEF DesksInv, LockInv
    <3> QED
      BY <1>6, <3>1, <3>3
  <2> QED
    BY <1>5, <2>1, ActsKeepLocks DEF DesksInv
<1>15. ToldInv'
  <2>1. Results' = Results
    BY <1>8 DEF Results
  <2> QED
    BY <1>1, <1>5, <1>8, <2>1, ActsKeepTold DEF DesksInv
<1> QED
  BY <1>10, <1>11, <1>12, <1>13, <1>14, <1>15 DEF DesksInv

(* Time runs out of a lease or of a pending action: both keep what matters.    *)
LEMMA TimeIsUpKeeps ==
  ASSUME DesksInv, TimeIsUp, UNCHANGED directVars
  PROVE  DesksInv'
<1>1. /\ call' = call /\ UNCHANGED <<revision, journal>>
      /\ notice' = notice /\ ctx' = ctx /\ areq' = areq /\ drafts' = drafts /\ mixed' = mixed
      /\ case' = case /\ made' = made /\ contracts' = contracts
      /\ opp' = opp /\ result' = result /\ tangled' = tangled
  BY DEF TimeIsUp, deskVars, caseVars, directVars
<1>2. \/ \E l \in Leases : lease[l] = "live" /\ lease' = [lease EXCEPT ![l] = "lapsed"] /\ pending' = pending
      \/ \E k \in Pendings : pending' = [pending EXCEPT ![k].late = TRUE] /\ lease' = lease
  BY DEF TimeIsUp
<1>3. /\ lease' \in [Leases -> LeaseStates]
      /\ \A l \in Leases : lease[l] \in {"live", "lapsed"} => lease'[l] \in {"live", "lapsed"}
  BY <1>2, ContractsThere DEF LeaseStates
<1>4. pending' \in [Pendings -> PendingRows] /\ \A k \in Pendings : pending'[k].st = pending[k].st
  <2>1. ASSUME NEW k \in Pendings, pending' = [pending EXCEPT ![k].late = TRUE]
        PROVE  pending' \in [Pendings -> PendingRows] /\ \A j \in Pendings : pending'[j].st = pending[j].st
    BY <2>1, ContractsThere DEF PendingRows
  <2> QED
    BY <1>2, <2>1, ContractsThere
<1>5. CallsInv'
  <2>1. Grows
    BY <1>1 DEF Grows, DesksInv, CaseTables
  <2>2. ASSUME NEW p \in Users, Reads(call[p]), Fresh(call[p]) PROVE Fresh(call[p])'
    <3> PICK c : c = call[p] /\ c = call'[p]
      BY <1>1
    <3>1. DeskFresh(c)' /\ CaseFresh(c)' /\ DirectFresh(c)'
      BY <1>1, <2>2 DEF Fresh, DeskFresh, CaseFresh, DirectFresh, ActiveContexts
    <3>2. ContractFresh(c)'
      BY <1>3, <2>2 DEF Reads, ContractRead, Fresh, ContractFresh
    <3> QED
      BY <3>1, <3>2 DEF Fresh
  <2> QED
    BY <1>1, <2>1, <2>2, IdleKeepsCalls DEF DesksInv
<1>6. DeskRows' /\ FlagFollowsReview' /\ CaseTables' /\ ContractTables' /\ DirectTables'
  BY <1>1, <1>3, <1>4 DEF DesksInv, DeskRows, FlagFollowsReview, CaseTables, ContractTables, DirectTables
<1>7. KeptInv'
  BY <1>1 DEF DesksInv, KeptInv, Protecting, Seen
<1>8. LockInv'
  <2>1. \A q \in Users : Checked(q) => pending'[Seen(q).k].st = "awaiting"
    BY <1>4, CheckedIsLocked DEF DesksInv, LockInv
  <2>2. \A q \in Users : (Checked(q)' <=> Checked(q)) /\ Seen(q)' = Seen(q)
    BY <1>1 DEF Checked, Seen
  <2> QED
    BY <2>1, <2>2 DEF DesksInv, LockInv
<1>9. ToldInv'
  <2>1. Results' = Results
    BY <1>1 DEF Results
  <2> QED
    BY <1>1, <2>1 DEF DesksInv, ToldInv, Telling, Seen
<1> QED
  BY <1>5, <1>6, <1>7, <1>8, <1>9 DEF DesksInv

(* The calls on leases have asked for one that is live; disarming revokes as   *)
(* it begins.                                                                  *)
LEMMA ContractReadersKeep ==
  ASSUME DesksInv, NEW p \in Users,
         \/ ReadForArming(p) \/ RevokeLeases(p) \/ ReadForPending(p) \/ ReadForCommand(p) \/ ReadForConfirmation(p),
         UNCHANGED directVars
  PROVE  DesksInv'
<1>1. CASE ReadForArming(p)
  <2> PICK op, old : op = "arm" /\ old = {l \in Leases : lease[l] = "live"}
    OBVIOUS
  <2> PICK read : read = [old |-> old]
    OBVIOUS
  <2>1. Begins(p, op, read) /\ op # "none" /\ UNCHANGED <<deskVars, caseVars, contractVars>>
    BY <1>1 DEF ReadForArming
  <2>2. read \in [old : SUBSET Leases]
    OBVIOUS
  <2>3. ASSUME NEW c, c.op = op, c.at = "read", c.read = read PROVE Reads(c) /\ Refers(c) /\ Fresh(c)
    BY <2>2, <2>3 DEF Reads, DeskRead, CaseRead, ContractRead, DirectRead, Refers,
                      Fresh, DeskFresh, CaseFresh, ContractFresh, DirectFresh
  <2> QED
    BY <2>1, <2>3, ReadsKeep
<1>2. CASE RevokeLeases(p)
  <2> PICK op, read : op = "disarm" /\ read = <<>>
    OBVIOUS
  <2>1. /\ Begins(p, op, read) /\ op # "none" /\ UNCHANGED <<deskVars, caseVars, pending, revision, journal>>
        /\ lease' = [l \in Leases |-> IF lease[l] = "live" THEN "revoked" ELSE lease[l]]
    BY <1>2 DEF RevokeLeases
  <2>2. lease' \in [Leases -> LeaseStates]
    BY <2>1, ContractsThere DEF LeaseStates
  <2>3. ASSUME NEW c, c.op = op, c.at = "read", c.read = read PROVE Reads(c) /\ Refers(c) /\ Fresh(c)
    BY <2>3 DEF Reads, DeskRead, CaseRead, ContractRead, DirectRead, Refers,
                Fresh, DeskFresh, CaseFresh, ContractFresh, DirectFresh
  <2> QED
    BY <2>1, <2>2, <2>3, BeginsKeep
<1>3. CASE ReadForPending(p)
  <2>1. PICK l \in Leases, cand \in SUBSET Notices :
          Begins(p, "prepare", [l |-> l, cand |-> cand]) /\ UNCHANGED <<deskVars, caseVars, contractVars>>
    BY <1>3 DEF ReadForPending
  <2> PICK op, read : op = "prepare" /\ read = [l |-> l, cand |-> cand]
    OBVIOUS
  <2>2. read \in [l : Leases, cand : SUBSET Notices]
    OBVIOUS
  <2>3. ASSUME NEW c, c.op = op, c.at = "read", c.read = read PROVE Reads(c) /\ Refers(c) /\ Fresh(c)
    BY <2>2, <2>3 DEF Reads, DeskRead, CaseRead, ContractRead, DirectRead, Refers,
                      Fresh, DeskFresh, CaseFresh, ContractFresh, DirectFresh
  <2>4. Begins(p, op, read) /\ op # "none"
    BY <2>1
  <2> QED
    BY <2>1, <2>3, <2>4, ReadsKeep
<1>4. CASE ReadForCommand(p)
  <2>1. PICK l \in Leases, n \in Notices :
          Armed(l) /\ Begins(p, "command", [l |-> l, n |-> n]) /\ UNCHANGED <<deskVars, caseVars, contractVars>>
    BY <1>4 DEF ReadForCommand
  <2> PICK op, read : op = "command" /\ read = [l |-> l, n |-> n]
    OBVIOUS
  <2>2. read \in [l : Leases, n : Notices] /\ lease[read.l] = "live"
    BY <2>1 DEF Armed
  <2>3. ASSUME NEW c, c.op = op, c.at = "read", c.read = read PROVE Reads(c) /\ Refers(c) /\ Fresh(c)
    BY <2>2, <2>3 DEF Reads, DeskRead, CaseRead, ContractRead, DirectRead, Refers,
                      Fresh, DeskFresh, CaseFresh, ContractFresh, DirectFresh
  <2>4. Begins(p, op, read) /\ op # "none"
    BY <2>1
  <2> QED
    BY <2>1, <2>3, <2>4, ReadsKeep
<1>5. CASE ReadForConfirmation(p)
  <2>1. PICK l \in Leases, k \in Pendings, n \in Notices :
          Armed(l) /\ Begins(p, "confirm", [l |-> l, k |-> k, n |-> n]) /\ UNCHANGED <<deskVars, caseVars, contractVars>>
    BY <1>5 DEF ReadForConfirmation
  <2> PICK op, read : op = "confirm" /\ read = [l |-> l, k |-> k, n |-> n]
    OBVIOUS
  <2>2. read \in [l : Leases, k : Pendings, n : Notices] /\ lease[read.l] = "live"
    BY <2>1 DEF Armed
  <2>3. ASSUME NEW c, c.op = op, c.at = "read", c.read = read PROVE Reads(c) /\ Refers(c) /\ Fresh(c)
    BY <2>2, <2>3 DEF Reads, DeskRead, CaseRead, ContractRead, DirectRead, Refers,
                      Fresh, DeskFresh, CaseFresh, ContractFresh, DirectFresh
  <2>4. Begins(p, op, read) /\ op # "none"
    BY <2>1
  <2> QED
    BY <2>1, <2>3, <2>4, ReadsKeep
<1> QED
  BY <1>1, <1>2, <1>3, <1>4, <1>5

(* Every step of the interaction contract keeps the invariant.                 *)
LEMMA ContractStepKeeps ==
  ASSUME DesksInv, ContractStep, UNCHANGED directVars
  PROVE  DesksInv'
<1>1. ASSUME NEW p \in Users,
             \/ ReadForArming(p) \/ ArmLease(p) \/ RevokeLeases(p) \/ CancelPendings(p)
             \/ ReadForPending(p) \/ StorePending(p) \/ ReadForCommand(p)
             \/ ReadForConfirmation(p) \/ CheckPending(p) \/ SelectNotice(p)
      PROVE  DesksInv'
  BY <1>1, ContractReadersKeep, ArmLeaseKeeps, CancelPendingsKeeps, StorePendingKeeps, CheckPendingKeeps, SelectNoticeKeeps
<1> QED
  BY <1>1, TimeIsUpKeeps DEF ContractStep

-----------------------------------------------------------------------------
(* Opportunities and their results.                                            *)

(* What is there of opportunities.                                             *)
LEMMA OppsThere ==
  ASSUME DesksInv
  PROVE  /\ opp \in [Opps -> OpportunityRows] /\ result \in [Opps -> ResultRows] /\ tangled \subseteq Opps \cup {0}
         /\ \A r, s \in Opps : result[r].of = result[s].of /\ result[r].of # 0 => r = s
         /\ IsFiniteSet(Opps) /\ 0 \notin Opps /\ Opps \subseteq Nat
<1>1. Cardinality(Opps) \in Nat
  BY OppsAssumption, FS_CardinalityType
<1>2. 0 \notin 1..Cardinality(Opps) /\ 1..Cardinality(Opps) \subseteq Nat
  BY <1>1
<1> QED
  BY <1>2, OppsAssumption DEF DesksInv, DirectTables

(* A step that writes opportunities and results leaves the rest.               *)
LEMMA DirectActs ==
  ASSUME DesksInv, NEW p \in Users, Acts(p), CallOK(p)', DirectTables', ToldInv',
         call[p].op \in {"update", "hide", "contact", "result", "revise", "trial", "advance", "convert"},
         UNCHANGED <<deskVars, caseVars, contractVars>>
  PROVE  DesksInv'
<1>1. /\ notice' = notice /\ ctx' = ctx /\ areq' = areq /\ drafts' = drafts /\ mixed' = mixed
      /\ case' = case /\ made' = made /\ contracts' = contracts
      /\ lease' = lease /\ pending' = pending /\ revision' = revision /\ journal' = journal
  BY DEF deskVars, caseVars, contractVars
<1>2. Grows
  BY <1>1 DEF Grows, DesksInv, CaseTables
<1>3. CallsInv'
  BY <1>2, ActsKeepCalls DEF DesksInv
<1>4. DeskRows' /\ FlagFollowsReview' /\ CaseTables' /\ ContractTables'
  BY <1>1 DEF DesksInv, DeskRows, FlagFollowsReview, CaseTables, ContractTables
<1>5. KeptInv'
  BY <1>1, ActsKeepProtection DEF DesksInv
<1>6. LockInv'
  BY <1>1, ActsKeepLocks DEF DesksInv, LockInv
<1> QED
  BY <1>3, <1>4, <1>5, <1>6 DEF DesksInv

(* What is told of outcomes is kept by a step that loses no result it does not *)
(* tell anew, and leaves no outcome without one.                               *)
LEMMA ToldKept ==
  ASSUME DesksInv, NEW p \in Users, Acts(p), tangled \subseteq tangled',
         \A o \in Opps : \A out : o \notin tangled' /\ [of |-> o, out |-> out] \in Results
           => \/ [of |-> o, out |-> out] \in Results'
              \/ Telling(p)' /\ Seen(p)'.o = o /\ ~call[p].met,
         \A o \in Opps : o \notin tangled' /\ Final(opp'[o])
           => \/ Final(opp[o]) /\ opp'[o].st = opp[o].st /\ ~(Telling(p) /\ Seen(p).o = o)
              \/ [of |-> o, out |-> opp'[o].st] \in Results'
              \/ Telling(p)' /\ Seen(p)'.o = o,
         Telling(p)' /\ Seen(p)'.o \notin tangled' => [of |-> Seen(p)'.o, out |-> Seen(p)'.out] \in Results'
  PROVE  ToldInv'
<1>1. \A q \in Users \ {p} : (Telling(q)' <=> Telling(q)) /\ Seen(q)' = Seen(q)
  BY DEF Acts, Telling, Seen
<1>2. ASSUME NEW o \in Opps, o \notin tangled', Final(opp'[o])
      PROVE  \/ [of |-> o, out |-> opp'[o].st] \in Results'
             \/ \E q \in Users : Telling(q)' /\ Seen(q)'.o = o
  <2>1. CASE Final(opp[o]) /\ opp'[o].st = opp[o].st /\ ~(Telling(p) /\ Seen(p).o = o)
    <3>1. \/ [of |-> o, out |-> opp[o].st] \in Results
          \/ \E q \in Users : Telling(q) /\ Seen(q).o = o
      BY <1>2, <2>1 DEF DesksInv, ToldInv
    <3>2. CASE [of |-> o, out |-> opp[o].st] \in Results
      BY <1>2, <2>1, <3>2
    <3>3. CASE \E q \in Users : Telling(q) /\ Seen(q).o = o
      BY <1>1, <2>1, <3>3
    <3> QED
      BY <3>1, <3>2, <3>3
  <2> QED
    BY <1>2, <2>1
<1>3. ASSUME NEW q \in Users, Telling(q)', Seen(q)'.o \notin tangled'
      PROVE  [of |-> Seen(q)'.o, out |-> Seen(q)'.out] \in Results'
  <2>1. CASE q = p
    BY <1>3, <2>1
  <2>2. CASE q # p
    <3> PICK o, out : o = Seen(q).o /\ out = Seen(q).out
      OBVIOUS
    <3>1. Telling(q) /\ Seen(q)' = Seen(q)
      BY <1>1, <1>3, <2>2
    <3>2. [of |-> o, out |-> out] \in Results
      BY <1>3, <3>1 DEF DesksInv, ToldInv
    <3>3. o \in Opps
      BY <3>1 DEF DesksInv, CallsInv, CallOK, Reads, DirectRead, Telling, Seen
    <3>4. call[p].met
      BY <2>2, <3>1 DEF DesksInv, CallsInv, Overlaps, Acts, Telling
    <3> QED
      BY <1>3, <3>1, <3>2, <3>3, <3>4
  <2> QED
    BY <2>1, <2>2
<1>4. (\A o \in Opps : o \notin tangled /\ Final(opp[o])
         => \/ [of |-> o, out |-> opp[o].st] \in Results
            \/ \E q \in Users : Telling(q) /\ Seen(q).o = o)'
  BY <1>2
<1> QED
  BY <1>3, <1>4 DEF ToldInv

(* An opportunity without a result leaves a row of results free.               *)
LEMMA ResultsHaveRoom ==
  ASSUME DesksInv, NEW o \in Opps, ~HasResult(o)
  PROVE  FreeResult \in Opps /\ result[FreeResult].of = 0
<1>1. \E r \in Opps : result[r].of = 0
  <2> SUFFICES ASSUME \A r \in Opps : result[r].of # 0 PROVE FALSE
    OBVIOUS
  <2> PICK f, T : f = [r \in Opps |-> result[r].of] /\ T = Opps \ {o}
    OBVIOUS
  <2>1. f \in [Opps -> T]
    BY OppsThere DEF HasResult, ResultRows
  <2>2. IsFiniteSet(Opps) /\ IsFiniteSet(T) /\ Cardinality(T) < Cardinality(Opps)
    <3>1. IsFiniteSet(T) /\ Cardinality(T) = Cardinality(Opps) - 1
      BY OppsThere, FS_RemoveElement
    <3>2. Cardinality(Opps) \in Nat
      BY OppsThere, FS_CardinalityType
    <3> QED
      BY OppsThere, <3>1, <3>2
  <2>3. PICK r, s \in Opps : r # s /\ f[r] = f[s]
    BY <2>1, <2>2, FS_PigeonHole
  <2> QED
    BY <2>3, OppsThere
<1> QED
  BY <1>1, Zenon DEF FreeResult

(* A result stored for an opportunity that had none is one more.               *)
LEMMA ResultInserted ==
  ASSUME DesksInv, NEW o \in Opps, ~HasResult(o), NEW out \in Outcomes,
         result' = [result EXCEPT ![FreeResult] = [of |-> o, out |-> out]]
  PROVE  /\ result' \in [Opps -> ResultRows] /\ FreeResult \in Opps
         /\ \A r, s \in Opps : result'[r].of = result'[s].of /\ result'[r].of # 0 => r = s
         /\ [of |-> o, out |-> out] \in Results'
         /\ \A x \in Opps : \A y : [of |-> x, out |-> y] \in Results => [of |-> x, out |-> y] \in Results'
<1> PICK free, row : free = FreeResult /\ row = [of |-> o, out |-> out]
  OBVIOUS
<1>1. free \in Opps /\ result[free].of = 0
  BY ResultsHaveRoom
<1>2. row \in ResultRows /\ row.of = o
  BY DEF ResultRows
<1>3. result' \in [Opps -> ResultRows] /\ result'[free] = row /\ \A r \in Opps \ {free} : result'[r] = result[r]
  BY <1>1, <1>2, OppsThere
<1>4. row \in Results'
  BY <1>1, <1>3 DEF Results
<1>5. ASSUME NEW x \in Opps, NEW y, [of |-> x, out |-> y] \in Results
      PROVE  [of |-> x, out |-> y] \in Results'
  <2> PICK told : told = [of |-> x, out |-> y]
    OBVIOUS
  <2>1. told.of # 0
    BY OppsThere
  <2>2. PICK r \in Opps : result[r] = told
    BY <1>5 DEF Results
  <2>3. r # free
    BY <1>1, <2>1, <2>2
  <2>4. result'[r] = told
    BY <1>3, <2>2, <2>3
  <2> QED
    BY <2>4 DEF Results
<1>6. \A r, s \in Opps : result'[r].of = result'[s].of /\ result'[r].of # 0 => r = s
  BY <1>1, <1>2, <1>3, OppsThere DEF HasResult
<1> QED
  BY <1>1, <1>3, <1>4, <1>5, <1>6

(* A step that rewrites one opportunity as it was read, or is told of in       *)
(* tangled, tells of no outcome.                                               *)
LEMMA OppWritten ==
  ASSUME DesksInv, NEW p \in Users, Acts(p), call'[p] = NoCall, CallOK(p)',
         call[p].op \in {"update", "hide", "contact", "trial", "advance"},
         NEW o, NEW row, o \in Opps => row \in OpportunityRows, opp' = [opp EXCEPT ![o] = row], result' = result,
         tangled' = tangled \/ tangled' = tangled \cup ({o} \cap Opps),
         o \in Opps /\ o \notin tangled' /\ Final(row) => Final(opp[o]) /\ row.st = opp[o].st,
         UNCHANGED <<deskVars, caseVars, contractVars>>
  PROVE  DesksInv'
<1>1. opp' \in [Opps -> OpportunityRows] /\ \A x \in Opps : opp'[x] = IF x = o THEN row ELSE opp[x]
  BY OppsThere
<1>2. DirectTables'
  BY <1>1, OppsThere DEF DirectTables
<1>3. ~Telling(p) /\ ~Telling(p)' /\ Results' = Results /\ tangled \subseteq tangled'
  BY DEF Telling, NoCall, Results
<1>4. \A x \in Opps : x \notin tangled' /\ Final(opp'[x]) => Final(opp[x]) /\ opp'[x].st = opp[x].st
  BY <1>1
<1>5. ToldInv'
  BY <1>3, <1>4, ToldKept
<1> QED
  BY <1>2, <1>5, DirectActs

(* A PATCH, which writes the row it read with a stage that is open or its own. *)
LEMMA UpdateOpportunityKeeps ==
  ASSUME DesksInv, NEW p \in Users, UpdateOpportunity(p), UNCHANGED <<caseVars, contractVars>>
  PROVE  DesksInv'
<1> PICK c : c = Seen(p)
  OBVIOUS
<1> PICK o, saw : o = c.o /\ saw = c.saw
  OBVIOUS
<1>1. /\ call[p].op = "update" /\ Ends(p) /\ UNCHANGED <<deskVars, result>>
      /\ tangled' = IF call[p].met THEN tangled \cup {o} ELSE tangled
  BY DEF UpdateOpportunity, At, Tangles
<1>2. PICK st \in OpenStages \cup {saw.st} : opp' = [opp EXCEPT ![o] = [saw EXCEPT !.st = st]]
  BY DEF UpdateOpportunity, ValidStage
<1>3. /\ c \in [o : Opps, saw : OpportunityRows]
      /\ ~call[p].met => saw = opp[o]
  BY <1>1 DEF DesksInv, CallsInv, CallOK, Reads, DirectRead, Fresh, DirectFresh, Seen
<1>4. o \in Opps /\ saw \in OpportunityRows
  BY <1>3
<1> PICK row : row = [saw EXCEPT !.st = st]
  OBVIOUS
<1>5. row \in OpportunityRows /\ row.st = st /\ row.trial = saw.trial
  BY <1>4 DEF OpportunityRows
<1>6. opp' = [opp EXCEPT ![o] = row]
  BY <1>2
<1>7. o \notin tangled' /\ Final(row) => Final(opp[o]) /\ row.st = opp[o].st
  BY <1>1, <1>3, <1>5 DEF Final, OpenStages, Outcomes
<1>8. Acts(p) /\ call'[p] = NoCall /\ CallOK(p)'
  BY <1>1, EndsInOrder DEF DesksInv
<1>9. tangled' = tangled \/ tangled' = tangled \cup ({o} \cap Opps)
  BY <1>1, <1>4
<1> QED
  BY <1>1, <1>5, <1>6, <1>7, <1>8, <1>9, OppWritten

(* A follow-up, which writes the stage it read or the first step on.           *)
LEMMA FollowUpKeeps ==
  ASSUME DesksInv, NEW p \in Users, FollowUp(p), UNCHANGED <<caseVars, contractVars>>
  PROVE  DesksInv'
<1> PICK c : c = Seen(p)
  OBVIOUS
<1> PICK o, st : o = c.o /\ st = IF c.saw.st = "new" THEN "following" ELSE c.saw.st
  OBVIOUS
<1>1. /\ call[p].op = "contact" /\ Ends(p) /\ UNCHANGED <<deskVars, result>>
      /\ tangled' = IF call[p].met THEN tangled \cup {o} ELSE tangled
  BY DEF FollowUp, At, Tangles
<1>2. opp' = [opp EXCEPT ![o].st = st]
  BY DEF FollowUp
<1>3. /\ c \in [o : Opps, saw : OpportunityRows]
      /\ ~call[p].met => c.saw = opp[o]
  BY <1>1 DEF DesksInv, CallsInv, CallOK, Reads, DirectRead, Fresh, DirectFresh, Seen
<1>4. o \in Opps /\ st \in OpenStages \cup Outcomes \cup {"none"} /\ opp[o] \in OpportunityRows
  BY <1>3, OppsThere DEF OpportunityRows, OpenStages
<1> PICK old, row : old = opp[o] /\ row = [old EXCEPT !.st = st]
  OBVIOUS
<1>5. row \in OpportunityRows /\ row.st = st /\ row.trial = old.trial
  BY <1>4 DEF OpportunityRows
<1>6. opp' = [opp EXCEPT ![o] = row]
  BY <1>2, <1>4, OppsThere
<1>7. o \notin tangled' /\ Final(row) => Final(opp[o]) /\ row.st = opp[o].st
  BY <1>1, <1>3, <1>5 DEF Final, Outcomes
<1>8. Acts(p) /\ call'[p] = NoCall /\ CallOK(p)'
  BY <1>1, EndsInOrder DEF DesksInv
<1>9. tangled' = tangled \/ tangled' = tangled \cup ({o} \cap Opps)
  BY <1>1, <1>4
<1> QED
  BY <1>1, <1>5, <1>6, <1>7, <1>8, <1>9, OppWritten

(* A soft deletion, which leaves the stage alone.                              *)
LEMMA SoftDeleteKeeps ==
  ASSUME DesksInv, NEW p \in Users, SoftDelete(p), UNCHANGED <<caseVars, contractVars>>
  PROVE  DesksInv'
<1> PICK o, yes : o = Seen(p).o /\ yes = TRUE
  OBVIOUS
<1>1. /\ call[p].op = "hide" /\ Ends(p) /\ UNCHANGED <<deskVars, result, tangled>>
  BY DEF SoftDelete, At
<1>2. opp' = [opp EXCEPT ![o].gone = yes]
  BY DEF SoftDelete
<1>3. o \in Opps
  BY <1>1 DEF DesksInv, CallsInv, CallOK, Reads, DirectRead, Seen
<1>4. opp[o] \in OpportunityRows /\ yes \in BOOLEAN
  BY <1>3, OppsThere
<1> PICK old, row : old = opp[o] /\ row = [old EXCEPT !.gone = yes]
  OBVIOUS
<1>5. row \in OpportunityRows /\ row.st = old.st /\ row.trial = old.trial
  BY <1>4 DEF OpportunityRows
<1>6. opp' = [opp EXCEPT ![o] = row]
  BY <1>2, <1>3, OppsThere
<1>7. Final(row) => Final(opp[o]) /\ row.st = opp[o].st
  BY <1>5 DEF Final
<1>8. Acts(p) /\ call'[p] = NoCall /\ CallOK(p)'
  BY <1>1, EndsInOrder DEF DesksInv
<1> QED
  BY <1>1, <1>5, <1>6, <1>7, <1>8, OppWritten

(* A trial begins with a stage that is open.                                   *)
LEMMA StartTrialKeeps ==
  ASSUME DesksInv, NEW p \in Users, StartTrial(p), UNCHANGED <<caseVars, contractVars>>
  PROVE  DesksInv'
<1> PICK k, free : k = Seen(p).k /\ free = FreeOpp
  OBVIOUS
<1>1. /\ call[p].op = "trial" /\ Ends(p) /\ UNCHANGED <<deskVars, result, tangled>>
      /\ opp' = opp \/ opp' = [opp EXCEPT ![free] = [@ EXCEPT !.st = "selected", !.trial = k]]
  BY DEF StartTrial, At
<1>2. k \in Nat
  BY <1>1 DEF DesksInv, CallsInv, CallOK, Reads, DirectRead, Seen
<1>3. Acts(p) /\ call'[p] = NoCall /\ CallOK(p)'
  BY <1>1, EndsInOrder DEF DesksInv
<1> PICK r1 : r1 = [opp[free] EXCEPT !.st = "selected"]
  OBVIOUS
<1> PICK r2 : r2 = [r1 EXCEPT !.trial = k]
  OBVIOUS
<1>4. free \in Opps => r2 \in OpportunityRows /\ r2.st = "selected"
  <2>1. free \in Opps => r1 \in OpportunityRows /\ r1.st = "selected"
    BY OppsThere DEF OpportunityRows, OpenStages
  <2> QED
    BY <1>2, <2>1 DEF OpportunityRows
<1>5. CASE opp' = opp
  <2> PICK row : row = opp[free]
    OBVIOUS
  <2>1. opp' = [opp EXCEPT ![free] = row] /\ (free \in Opps => row \in OpportunityRows)
    BY <1>5, OppsThere
  <2> QED
    BY <1>1, <1>3, <2>1, OppWritten
<1>6. CASE opp' = [opp EXCEPT ![free] = [@ EXCEPT !.st = "selected", !.trial = k]]
  <2>1. [opp[free] EXCEPT !.st = "selected", !.trial = k] = r2
    BY Zenon
  <2>2. opp' = [opp EXCEPT ![free] = r2]
    BY <1>6, <2>1, OppsThere
  <2>3. free \in Opps => ~Final(r2)
    BY <1>4 DEF Final, Outcomes
  <2> QED
    BY <1>1, <1>3, <1>4, <2>2, <2>3, OppWritten
<1> QED
  BY <1>1, <1>5, <1>6

(* A trial goes on; won, it has yet to have a result.                          *)
LEMMA AdvanceTrialKeeps ==
  ASSUME DesksInv, NEW p \in Users, AdvanceTrial(p), UNCHANGED <<caseVars, contractVars>>
  PROVE  DesksInv'
<1> PICK c : c = Seen(p)
  OBVIOUS
<1> PICK o, st : o = c.o /\ st = c.st
  OBVIOUS
<1>1. /\ call[p].op = "advance" /\ Ends(p) /\ UNCHANGED <<deskVars, result>>
      /\ tangled' = IF call[p].met THEN tangled \cup {o} ELSE tangled
  BY DEF AdvanceTrial, At, Tangles
<1>2. opp' = [opp EXCEPT ![o].st = st]
  BY DEF AdvanceTrial
<1>3. /\ o \in Opps /\ st \in {"preparing", "submitted", "won"}
      /\ ~call[p].met => opp[o].trial # 0
  BY <1>1 DEF DesksInv, CallsInv, CallOK, Reads, DirectRead, Fresh, DirectFresh, Seen
<1> PICK old, row : old = opp[o] /\ row = [old EXCEPT !.st = st]
  OBVIOUS
<1>4. row \in OpportunityRows /\ row.st = st /\ row.trial = old.trial
  <2>1. old \in OpportunityRows /\ st \in OpenStages \cup Outcomes \cup {"none"}
    BY <1>3, OppsThere DEF OpenStages, Outcomes
  <2> QED
    BY <2>1 DEF OpportunityRows
<1>5. opp' = [opp EXCEPT ![o] = row]
  BY <1>2, <1>3, OppsThere
<1>6. o \notin tangled' => ~Final(row)
  BY <1>1, <1>3, <1>4 DEF Final, Outcomes
<1>7. Acts(p) /\ call'[p] = NoCall /\ CallOK(p)'
  BY <1>1, EndsInOrder DEF DesksInv
<1>8. tangled' = tangled \/ tangled' = tangled \cup ({o} \cap Opps)
  BY <1>1, <1>3
<1> QED
  BY <1>1, <1>4, <1>5, <1>6, <1>7, <1>8, OppWritten

(* A result is stored for an opportunity that has none, and is then told.      *)
LEMMA InsertResultKeeps ==
  ASSUME DesksInv, NEW p \in Users, InsertResult(p), UNCHANGED <<caseVars, contractVars>>
  PROVE  DesksInv'
<1> PICK c : c = Seen(p)
  OBVIOUS
<1> PICK o, out, free : o = c.o /\ out = c.out /\ free = FreeResult
  OBVIOUS
<1>1. call[p].op = "result" /\ call[p].at = "read" /\ UNCHANGED <<deskVars, opp, tangled>>
  BY DEF InsertResult, At
<1>2. \/ HasResult(o) /\ Ends(p) /\ UNCHANGED result
      \/ /\ ~HasResult(o) /\ Continues(p, "stored", [c EXCEPT !.r = free])
         /\ result' = [result EXCEPT ![free] = [of |-> o, out |-> out]]
  BY DEF InsertResult
<1>3. c \in [o : Opps, out : Outcomes, r : Opps \cup {0}]
  BY <1>1 DEF DesksInv, CallsInv, CallOK, Reads, DirectRead, Seen
<1>4. o \in Opps /\ out \in Outcomes /\ ~Telling(p)
  BY <1>1, <1>3 DEF Telling
<1>5. CASE HasResult(o) /\ Ends(p) /\ UNCHANGED result
  <2>1. Acts(p) /\ call'[p] = NoCall /\ CallOK(p)'
    BY <1>1, <1>5, EndsInOrder DEF DesksInv
  <2>2. ~Telling(p)' /\ Results' = Results /\ DirectTables'
    BY <1>1, <1>5, <2>1, OppsThere DEF Telling, NoCall, Results, DirectTables
  <2>3. ToldInv'
    BY <1>1, <1>4, <2>1, <2>2, ToldKept
  <2> QED
    BY <1>1, <2>1, <2>2, <2>3, DirectActs
<1>6. CASE /\ ~HasResult(o) /\ Continues(p, "stored", [c EXCEPT !.r = free])
           /\ result' = [result EXCEPT ![free] = [of |-> o, out |-> out]]
  <2>1. /\ result' \in [Opps -> ResultRows] /\ free \in Opps
        /\ \A r, s \in Opps : result'[r].of = result'[s].of /\ result'[r].of # 0 => r = s
        /\ [of |-> o, out |-> out] \in Results'
        /\ \A x \in Opps : \A y : [of |-> x, out |-> y] \in Results => [of |-> x, out |-> y] \in Results'
    BY <1>4, <1>6, ResultInserted
  <2> PICK read, stored : read = [c EXCEPT !.r = free] /\ stored = "stored"
    OBVIOUS
  <2>2. read \in [o : Opps, out : Outcomes, r : Opps \cup {0}] /\ read.o = o /\ read.out = out
    BY <1>3, <2>1
  <2>3. Continues(p, stored, read)
    BY <1>6
  <2>4. /\ Acts(p)
        /\ call'[p] = [op |-> call[p].op, at |-> stored, met |-> call[p].met, read |-> read]
    BY <1>1, <2>3, ContinuesActs DEF DesksInv, CallsInv
  <2>5. CallOK(p)'
    <3> PICK d : d = call'[p]
      OBVIOUS
    <3>1. d.op = "result" /\ d.at = "stored" /\ d.read \in [o : Opps, out : Outcomes, r : Opps \cup {0}]
      BY <1>1, <2>2, <2>4
    <3>2. Reads(d)' /\ Refers(d)' /\ Fresh(d)'
      BY <3>1 DEF Reads, DeskRead, CaseRead, ContractRead, DirectRead, Refers,
                  Fresh, DeskFresh, CaseFresh, ContractFresh, DirectFresh
    <3> QED
      BY <3>2 DEF CallOK
  <2>6. DirectTables'
    BY <1>1, <2>1, OppsThere DEF DirectTables
  <2>7. Seen(p)'.o = o /\ Seen(p)'.out = out
    BY <2>2, <2>4 DEF Seen
  <2>8. ToldInv'
    BY <1>1, <1>4, <2>1, <2>4, <2>7, ToldKept
  <2> QED
    BY <1>1, <2>4, <2>5, <2>6, <2>8, DirectActs
<1> QED
  BY <1>2, <1>5, <1>6

(* A revised result is told of the opportunity it is given to; moved, those it *)
(* leaves and comes to are in tangled, as when it was read before it changed.  *)
LEMMA ReviseResultKeeps ==
  ASSUME DesksInv, NEW p \in Users, ReviseResult(p), UNCHANGED <<caseVars, contractVars>>
  PROVE  DesksInv'
<1> PICK c : c = Seen(p)
  OBVIOUS
<1> PICK z, o, out, was, old : z = c.r /\ o = c.o /\ out = c.out /\ was = c.was /\ old = result[z].of
  OBVIOUS
<1>1. call[p].op = "revise" /\ call[p].at = "read" /\ UNCHANGED <<deskVars, opp>>
  BY DEF ReviseResult, At
<1>2. \/ Ends(p) /\ UNCHANGED <<result, tangled>>
      \/ /\ \A r \in Opps \ {z} : result[r].of # o
         /\ Continues(p, "stored", c)
         /\ result' = [result EXCEPT ![z] = [of |-> o, out |-> out]]
         /\ tangled' = IF call[p].met \/ o # was THEN tangled \cup {o, was, old} ELSE tangled
  BY DEF ReviseResult
<1>3. /\ c \in [r : Opps, o : Opps, out : Outcomes, was : Opps]
      /\ ~call[p].met => old = was
  BY <1>1 DEF DesksInv, CallsInv, CallOK, Reads, DirectRead, Fresh, DirectFresh, Seen
<1>4. z \in Opps /\ o \in Opps /\ out \in Outcomes /\ was \in Opps /\ old \in Opps \cup {0} /\ ~Telling(p)
  BY <1>1, <1>3, OppsThere DEF Telling, ResultRows
<1>5. CASE Ends(p) /\ UNCHANGED <<result, tangled>>
  <2>1. Acts(p) /\ call'[p] = NoCall /\ CallOK(p)'
    BY <1>1, <1>5, EndsInOrder DEF DesksInv
  <2>2. ~Telling(p)' /\ Results' = Results /\ DirectTables'
    BY <1>1, <1>5, <2>1, OppsThere DEF Telling, NoCall, Results, DirectTables
  <2>3. ToldInv'
    BY <1>1, <1>4, <1>5, <2>1, <2>2, ToldKept
  <2> QED
    BY <1>1, <2>1, <2>2, <2>3, DirectActs
<1>6. CASE /\ \A r \in Opps \ {z} : result[r].of # o
           /\ Continues(p, "stored", c)
           /\ result' = [result EXCEPT ![z] = [of |-> o, out |-> out]]
           /\ tangled' = IF call[p].met \/ o # was THEN tangled \cup {o, was, old} ELSE tangled
  <2> PICK stored, row : stored = "stored" /\ row = [of |-> o, out |-> out]
    OBVIOUS
  <2>1. row \in ResultRows /\ row.of = o
    BY <1>4 DEF ResultRows
  <2>2. result' \in [Opps -> ResultRows] /\ result'[z] = row /\ \A r \in Opps \ {z} : result'[r] = result[r]
    BY <1>4, <1>6, <2>1, OppsThere
  <2>3. \A r, s \in Opps : result'[r].of = result'[s].of /\ result'[r].of # 0 => r = s
    BY <1>6, <2>1, <2>2, OppsThere
  <2>4. tangled \subseteq tangled' /\ tangled' \subseteq Opps \cup {0}
    BY <1>4, <1>6, OppsThere
  <2>5. Continues(p, stored, c)
    BY <1>6
  <2>6. /\ Acts(p)
        /\ call'[p] = [op |-> call[p].op, at |-> stored, met |-> call[p].met, read |-> c]
    BY <1>1, <2>5, ContinuesActs DEF DesksInv, CallsInv
  <2>7. CallOK(p)'
    <3> PICK d : d = call'[p]
      OBVIOUS
    <3>1. d.op = "revise" /\ d.at = "stored" /\ d.read \in [r : Opps, o : Opps, out : Outcomes, was : Opps]
      BY <1>1, <1>3, <2>6
    <3>2. Reads(d)' /\ Refers(d)' /\ Fresh(d)'
      BY <3>1 DEF Reads, DeskRead, CaseRead, ContractRead, DirectRead, Refers,
                  Fresh, DeskFresh, CaseFresh, ContractFresh, DirectFresh
    <3> QED
      BY <3>2 DEF CallOK
  <2>8. DirectTables'
    BY <1>1, <2>2, <2>3, <2>4, OppsThere DEF DirectTables
  <2>9. row \in Results' /\ Telling(p)' /\ Seen(p)'.o = o /\ Seen(p)'.out = out
    BY <1>1, <1>4, <2>2, <2>6 DEF Results, Telling, Seen
  <2>10. ASSUME NEW x \in Opps, NEW y, x \notin tangled', [of |-> x, out |-> y] \in Results
         PROVE  \/ [of |-> x, out |-> y] \in Results'
                \/ Telling(p)' /\ Seen(p)'.o = x /\ ~call[p].met
    <3> PICK told : told = [of |-> x, out |-> y]
      OBVIOUS
    <3>1. PICK r \in Opps : result[r] = told
      BY <2>10 DEF Results
    <3>2. CASE r # z
      BY <2>2, <3>1, <3>2 DEF Results
    <3>3. CASE r = z
      <4>1. old = x
        BY <3>1, <3>3
      <4>2. ~call[p].met /\ o = was
        BY <1>6, <2>10, <4>1
      <4> QED
        BY <1>3, <2>9, <4>1, <4>2
    <3> QED
      BY <3>2, <3>3
  <2>11. ToldInv'
    BY <1>1, <1>4, <2>4, <2>6, <2>9, <2>10, ToldKept
  <2> QED
    BY <1>1, <2>6, <2>7, <2>8, <2>11, DirectActs
<1> QED
  BY <1>2, <1>5, <1>6

(* A stored result is told by the stage.                                       *)
LEMMA ApplyOutcomeKeeps ==
  ASSUME DesksInv, NEW p \in Users, ApplyOutcome(p), UNCHANGED <<caseVars, contractVars>>
  PROVE  DesksInv'
<1> PICK o, out : o = Seen(p).o /\ out = Seen(p).out
  OBVIOUS
<1>1. /\ Telling(p) /\ Ends(p) /\ UNCHANGED <<deskVars, result, tangled>>
      /\ opp' = [opp EXCEPT ![o].st = out]
  BY DEF ApplyOutcome, At, Telling, StageTold
<1>2. o \in Opps /\ out \in Outcomes
  BY <1>1 DEF Telling, DesksInv, CallsInv, CallOK, Reads, DirectRead, Seen
<1> PICK old, row : old = opp[o] /\ row = [old EXCEPT !.st = out]
  OBVIOUS
<1>3. row \in OpportunityRows /\ row.st = out
  <2>1. old \in OpportunityRows /\ out \in OpenStages \cup Outcomes \cup {"none"}
    BY <1>2, OppsThere
  <2> QED
    BY <2>1 DEF OpportunityRows
<1>4. opp' = [opp EXCEPT ![o] = row]
  BY <1>1, <1>2, OppsThere
<1>5. opp' \in [Opps -> OpportunityRows] /\ opp'[o] = row /\ \A x \in Opps \ {o} : opp'[x] = opp[x]
  BY <1>2, <1>3, <1>4, OppsThere
<1>6. DirectTables'
  BY <1>1, <1>5, OppsThere DEF DirectTables
<1>7. Acts(p) /\ call'[p] = NoCall /\ CallOK(p)'
  BY <1>1, EndsInOrder DEF DesksInv, Telling
<1>8. ~Telling(p)' /\ Results' = Results /\ tangled' = tangled
  BY <1>1, <1>7 DEF Telling, NoCall, Results
<1>9. o \notin tangled => [of |-> o, out |-> out] \in Results
  BY <1>1 DEF DesksInv, ToldInv
<1>10. ASSUME NEW x \in Opps, x \notin tangled', Final(opp'[x])
       PROVE  \/ Final(opp[x]) /\ opp'[x].st = opp[x].st /\ ~(Telling(p) /\ Seen(p).o = x)
              \/ [of |-> x, out |-> opp'[x].st] \in Results'
  BY <1>3, <1>5, <1>8, <1>9, <1>10
<1>11. ToldInv'
  BY <1>7, <1>8, <1>10, ToldKept
<1> QED
  BY <1>1, <1>6, <1>7, <1>11, DirectActs DEF Telling

(* The conversion of a trial tells of a contract with the result it stores or  *)
(* finds.                                                                      *)
LEMMA ConvertTrialKeeps ==
  ASSUME DesksInv, NEW p \in Users, ConvertTrial(p), UNCHANGED <<caseVars, contractVars>>
  PROVE  DesksInv'
<1> PICK o, out : o = Seen(p).o /\ out = "contract"
  OBVIOUS
<1>1. call[p].op = "convert" /\ Ends(p) /\ UNCHANGED <<deskVars, tangled>>
  BY DEF ConvertTrial, At
<1>2. \/ UNCHANGED <<result, opp>>
      \/ /\ [of |-> o, out |-> out] \in Results /\ UNCHANGED result
         /\ opp' = [opp EXCEPT ![o].st = out]
      \/ /\ ~HasResult(o) /\ result' = [result EXCEPT ![FreeResult] = [of |-> o, out |-> out]]
         /\ opp' = [opp EXCEPT ![o].st = out]
  BY DEF ConvertTrial, Results
<1>3. o \in Opps /\ out \in Outcomes
  BY <1>1 DEF DesksInv, CallsInv, CallOK, Reads, DirectRead, Seen, Outcomes
<1>4. Acts(p) /\ call'[p] = NoCall /\ CallOK(p)'
  BY <1>1, EndsInOrder DEF DesksInv
<1>5. ~Telling(p) /\ ~Telling(p)' /\ tangled' = tangled
  BY <1>1, <1>4 DEF Telling, NoCall
<1>6. CASE UNCHANGED <<result, opp>>
  <2>1. DirectTables' /\ Results' = Results
    BY <1>1, <1>6, OppsThere DEF DirectTables, Results
  <2>2. ToldInv'
    BY <1>4, <1>5, <1>6, <2>1, ToldKept
  <2> QED
    BY <1>1, <1>4, <2>1, <2>2, DirectActs
<1>7. CASE /\ opp' = [opp EXCEPT ![o].st = out]
           /\ \/ [of |-> o, out |-> out] \in Results /\ UNCHANGED result
              \/ ~HasResult(o) /\ result' = [result EXCEPT ![FreeResult] = [of |-> o, out |-> out]]
  <2>1. /\ result' \in [Opps -> ResultRows]
        /\ \A r, s \in Opps : result'[r].of = result'[s].of /\ result'[r].of # 0 => r = s
        /\ [of |-> o, out |-> out] \in Results'
        /\ \A x \in Opps : \A y : [of |-> x, out |-> y] \in Results => [of |-> x, out |-> y] \in Results'
    <3>1. CASE [of |-> o, out |-> out] \in Results /\ UNCHANGED result
      BY <3>1, OppsThere DEF Results
    <3>2. CASE ~HasResult(o) /\ result' = [result EXCEPT ![FreeResult] = [of |-> o, out |-> out]]
      BY <1>3, <3>2, ResultInserted
    <3> QED
      BY <1>7, <3>1, <3>2
  <2> PICK old, row : old = opp[o] /\ row = [old EXCEPT !.st = out]
    OBVIOUS
  <2>2. row \in OpportunityRows /\ row.st = out
    <3>1. old \in OpportunityRows /\ out \in OpenStages \cup Outcomes \cup {"none"}
      BY <1>3, OppsThere
    <3> QED
      BY <3>1 DEF OpportunityRows
  <2>3. opp' = [opp EXCEPT ![o] = row]
    BY <1>3, <1>7, OppsThere
  <2>4. opp' \in [Opps -> OpportunityRows] /\ opp'[o] = row /\ \A x \in Opps \ {o} : opp'[x] = opp[x]
    BY <1>3, <2>2, <2>3, OppsThere
  <2>5. DirectTables'
    BY <1>5, <2>1, <2>4, OppsThere DEF DirectTables
  <2>6. \A x \in Opps : x \notin tangled' /\ Final(opp'[x])
          => \/ Final(opp[x]) /\ opp'[x].st = opp[x].st
             \/ [of |-> x, out |-> opp'[x].st] \in Results'
    BY <2>1, <2>2, <2>4
  <2>7. ToldInv'
    BY <1>4, <1>5, <2>1, <2>6, ToldKept
  <2> QED
    BY <1>1, <1>4, <2>5, <2>7, DirectActs
<1> QED
  BY <1>2, <1>6, <1>7

(* An opportunity comes in with an open stage, on a row no call has read.      *)
LEMMA CreateOpportunityKeeps ==
  ASSUME DesksInv, CreateOpportunity, UNCHANGED <<caseVars, contractVars>>
  PROVE  DesksInv'
<1>1. /\ call' = call /\ result' = result /\ tangled' = tangled /\ HasFreeOpp
      /\ notice' = notice /\ ctx' = ctx /\ areq' = areq /\ drafts' = drafts /\ mixed' = mixed
      /\ case' = case /\ made' = made /\ contracts' = contracts
      /\ lease' = lease /\ pending' = pending /\ revision' = revision /\ journal' = journal
  BY DEF CreateOpportunity, deskVars, caseVars, contractVars
<1> PICK free : free = FreeOpp
  OBVIOUS
<1>2. free \in Opps /\ opp[free].st = "none"
  <2> PICK T : T = {o \in Opps : opp[o].st = "none"}
    OBVIOUS
  <2>1. PICK o \in T : \A x \in T : o <= x
    BY <1>1, OppsThere, SmallestOf DEF HasFreeOpp
  <2>2. \A x \in 1..(o - 1) : x \in Opps /\ x \notin T
    <3>1. o \in 1..Cardinality(Opps) /\ Cardinality(Opps) \in Nat
      BY <2>1, OppsAssumption, OppsThere, FS_CardinalityType
    <3>2. \A x \in 1..(o - 1) : x \in 1..Cardinality(Opps) /\ ~(o <= x)
      BY <3>1
    <3> QED
      BY <2>1, <3>2, OppsAssumption
  <2>3. o \in Opps /\ opp[o].st = "none" /\ \A x \in 1..(o - 1) : opp[x].st # "none"
    BY <2>1, <2>2
  <2> QED
    BY <2>3, Zenon DEF FreeOpp
<1>3. PICK st \in OpenStages : opp' = [opp EXCEPT ![free].st = st]
  BY DEF CreateOpportunity
<1> PICK old, row : old = opp[free] /\ row = [old EXCEPT !.st = st]
  OBVIOUS
<1>4. row \in OpportunityRows /\ row.st = st /\ row.trial = old.trial
  <2>1. old \in OpportunityRows /\ st \in OpenStages \cup Outcomes \cup {"none"}
    BY <1>2, OppsThere DEF OpenStages
  <2> QED
    BY <2>1 DEF OpportunityRows
<1>5. opp' = [opp EXCEPT ![free] = row]
  BY <1>2, <1>3, OppsThere
<1>6. opp' \in [Opps -> OpportunityRows] /\ opp'[free] = row /\ \A x \in Opps \ {free} : opp'[x] = opp[x]
  BY <1>2, <1>4, <1>5, OppsThere
<1>7. CallsInv'
  <2>1. Grows
    BY <1>1 DEF Grows, DesksInv, CaseTables
  <2>2. ASSUME NEW p \in Users, Reads(call[p]), Fresh(call[p]) PROVE Fresh(call[p])'
    <3> PICK c : c = call[p] /\ c = call'[p]
      BY <1>1
    <3>1. DeskFresh(c)' /\ CaseFresh(c)' /\ ContractFresh(c)'
      BY <1>1, <2>2 DEF Fresh, DeskFresh, CaseFresh, ContractFresh, ActiveContexts
    <3>2. c.op \in {"update", "contact"} => c.read.saw = opp'[c.read.o]
      BY <1>2, <1>6, <2>2 DEF Reads, DirectRead, Fresh, DirectFresh
    <3>3. c.op = "advance" => opp'[c.read.o].trial # 0
      <4>1. c.op = "advance" => c.read.o \in Opps /\ opp[c.read.o].trial # 0
        BY <2>2 DEF Reads, DirectRead, Fresh, DirectFresh
      <4>2. \A x \in Opps : opp'[x].trial = opp[x].trial
        BY <1>4, <1>6
      <4> QED
        BY <4>1, <4>2
    <3>4. DirectFresh(c)'
      BY <1>1, <2>2, <3>2, <3>3 DEF Fresh, DirectFresh
    <3> QED
      BY <3>1, <3>4 DEF Fresh
  <2> QED
    BY <1>1, <2>1, <2>2, IdleKeepsCalls DEF DesksInv
<1>8. DeskRows' /\ FlagFollowsReview' /\ CaseTables' /\ ContractTables'
  BY <1>1 DEF DesksInv, DeskRows, FlagFollowsReview, CaseTables, ContractTables
<1>9. DirectTables'
  BY <1>1, <1>6, OppsThere DEF DirectTables
<1>10. KeptInv'
  BY <1>1 DEF DesksInv, KeptInv, Protecting, Seen
<1>11. LockInv'
  BY <1>1 DEF DesksInv, LockInv, Checked, Seen
<1>12. ToldInv'
  <2>1. Results' = Results /\ \A q \in Users : (Telling(q)' <=> Telling(q)) /\ Seen(q)' = Seen(q)
    BY <1>1 DEF Results, Telling, Seen
  <2>2. \A x \in Opps : Final(opp'[x]) => Final(opp[x]) /\ opp'[x] = opp[x]
    <3>1. row.st \notin Outcomes
      BY <1>3, <1>4 DEF OpenStages, Outcomes
    <3> QED
      BY <1>6, <3>1 DEF Final
  <2> QED
    BY <1>1, <2>1, <2>2 DEF DesksInv, ToldInv
<1> QED
  BY <1>7, <1>8, <1>9, <1>10, <1>11, <1>12 DEF DesksInv

(* The calls on opportunities have read one that is there.                     *)
LEMMA DirectReadersKeep ==
  ASSUME DesksInv, NEW p \in Users,
         \/ ReadOpportunity(p) \/ ReadForResult(p) \/ ReadForRevision(p)
         \/ ReadForTrial(p) \/ ReadForAdvance(p) \/ ReadForConversion(p),
         UNCHANGED <<caseVars, contractVars>>
  PROVE  DesksInv'
<1>1. CASE ReadOpportunity(p)
  <2>1. PICK op \in {"update", "hide", "contact"}, o \in Opps :
          /\ opp[o].st # "none" /\ Begins(p, op, [o |-> o, saw |-> opp[o]]) /\ UNCHANGED <<deskVars, directVars>>
    BY <1>1 DEF ReadOpportunity, Visible
  <2> PICK read : read = [o |-> o, saw |-> opp[o]]
    OBVIOUS
  <2>2. read \in [o : Opps, saw : OpportunityRows] /\ read.saw.st # "none" /\ read.saw = opp[read.o]
    BY <2>1, OppsThere
  <2>3. ASSUME NEW c, c.op = op, c.at = "read", c.read = read PROVE Reads(c) /\ Refers(c) /\ Fresh(c)
    BY <2>2, <2>3 DEF Reads, DeskRead, CaseRead, ContractRead, DirectRead, Refers,
                      Fresh, DeskFresh, CaseFresh, ContractFresh, DirectFresh
  <2> QED
    BY <2>1, <2>3, ReadsKeep
<1>2. CASE ReadForResult(p)
  <2>1. PICK o \in Opps, out \in Outcomes :
          Begins(p, "result", [o |-> o, out |-> out, r |-> 0]) /\ UNCHANGED <<deskVars, directVars>>
    BY <1>2 DEF ReadForResult
  <2> PICK op, read : op = "result" /\ read = [o |-> o, out |-> out, r |-> 0]
    OBVIOUS
  <2>2. read \in [o : Opps, out : Outcomes, r : Opps \cup {0}]
    OBVIOUS
  <2>3. ASSUME NEW c, c.op = op, c.at = "read", c.read = read PROVE Reads(c) /\ Refers(c) /\ Fresh(c)
    BY <2>2, <2>3 DEF Reads, DeskRead, CaseRead, ContractRead, DirectRead, Refers,
                      Fresh, DeskFresh, CaseFresh, ContractFresh, DirectFresh
  <2>4. Begins(p, op, read) /\ op # "none"
    BY <2>1
  <2> QED
    BY <2>1, <2>3, <2>4, ReadsKeep
<1>3. CASE ReadForRevision(p)
  <2>1. PICK r \in Opps, o \in Opps, out \in Outcomes :
          /\ result[r].of # 0 /\ Begins(p, "revise", [r |-> r, o |-> o, out |-> out, was |-> result[r].of])
          /\ UNCHANGED <<deskVars, directVars>>
    BY <1>3 DEF ReadForRevision
  <2> PICK op, read : op = "revise" /\ read = [r |-> r, o |-> o, out |-> out, was |-> result[r].of]
    OBVIOUS
  <2>2. read \in [r : Opps, o : Opps, out : Outcomes, was : Opps] /\ result[read.r].of = read.was
    BY <2>1, OppsThere DEF ResultRows
  <2>3. ASSUME NEW c, c.op = op, c.at = "read", c.read = read PROVE Reads(c) /\ Refers(c) /\ Fresh(c)
    BY <2>2, <2>3 DEF Reads, DeskRead, CaseRead, ContractRead, DirectRead, Refers,
                      Fresh, DeskFresh, CaseFresh, ContractFresh, DirectFresh
  <2>4. Begins(p, op, read) /\ op # "none"
    BY <2>1
  <2> QED
    BY <2>1, <2>3, <2>4, ReadsKeep
<1>4. CASE ReadForTrial(p)
  <2>1. PICK k \in DOMAIN drafts :
          Begins(p, "trial", [k |-> k, found |-> TrialOf(k) # {}]) /\ UNCHANGED <<deskVars, directVars>>
    BY <1>4 DEF ReadForTrial
  <2> PICK op, read : op = "trial" /\ read = [k |-> k, found |-> TrialOf(k) # {}]
    OBVIOUS
  <2>2. read \in [k : Nat, found : BOOLEAN]
    <3>1. k \in Nat
      BY DEF DesksInv, DeskRows
    <3> QED
      BY <3>1
  <2>3. ASSUME NEW c, c.op = op, c.at = "read", c.read = read PROVE Reads(c) /\ Refers(c) /\ Fresh(c)
    BY <2>2, <2>3 DEF Reads, DeskRead, CaseRead, ContractRead, DirectRead, Refers,
                      Fresh, DeskFresh, CaseFresh, ContractFresh, DirectFresh
  <2>4. Begins(p, op, read) /\ op # "none"
    BY <2>1
  <2> QED
    BY <2>1, <2>3, <2>4, ReadsKeep
<1>5. CASE ReadForAdvance(p)
  <2>1. PICK o \in Opps :
          /\ opp[o].trial # 0 /\ opp[o].st \in DOMAIN NextStage
          /\ Begins(p, "advance", [o |-> o, st |-> NextStage[opp[o].st]]) /\ UNCHANGED <<deskVars, directVars>>
    BY <1>5 DEF ReadForAdvance
  <2> PICK op, read : op = "advance" /\ read = [o |-> o, st |-> NextStage[opp[o].st]]
    OBVIOUS
  <2>2. read \in [o : Opps, st : {"preparing", "submitted", "won"}] /\ opp[read.o].trial # 0
    BY <2>1 DEF NextStage
  <2>3. ASSUME NEW c, c.op = op, c.at = "read", c.read = read PROVE Reads(c) /\ Refers(c) /\ Fresh(c)
    BY <2>2, <2>3 DEF Reads, DeskRead, CaseRead, ContractRead, DirectRead, Refers,
                      Fresh, DeskFresh, CaseFresh, ContractFresh, DirectFresh
  <2>4. Begins(p, op, read) /\ op # "none"
    BY <2>1
  <2> QED
    BY <2>1, <2>3, <2>4, ReadsKeep
<1>6. CASE ReadForConversion(p)
  <2>1. PICK o \in Opps : Begins(p, "convert", [o |-> o]) /\ UNCHANGED <<deskVars, directVars>>
    BY <1>6 DEF ReadForConversion
  <2> PICK op, read : op = "convert" /\ read = [o |-> o]
    OBVIOUS
  <2>2. read \in [o : Opps]
    OBVIOUS
  <2>3. ASSUME NEW c, c.op = op, c.at = "read", c.read = read PROVE Reads(c) /\ Refers(c) /\ Fresh(c)
    BY <2>2, <2>3 DEF Reads, DeskRead, CaseRead, ContractRead, DirectRead, Refers,
                      Fresh, DeskFresh, CaseFresh, ContractFresh, DirectFresh
  <2>4. Begins(p, op, read) /\ op # "none"
    BY <2>1
  <2> QED
    BY <2>1, <2>3, <2>4, ReadsKeep
<1> QED
  BY <1>1, <1>2, <1>3, <1>4, <1>5, <1>6

(* Every step on opportunities keeps the invariant.                            *)
LEMMA DirectStepKeeps ==
  ASSUME DesksInv, DirectStep, UNCHANGED <<caseVars, contractVars>>
  PROVE  DesksInv'
<1>1. ASSUME NEW p \in Users,
             \/ ReadOpportunity(p) \/ UpdateOpportunity(p) \/ SoftDelete(p) \/ FollowUp(p)
             \/ ReadForResult(p) \/ InsertResult(p) \/ ReadForRevision(p) \/ ReviseResult(p) \/ ApplyOutcome(p)
             \/ ReadForTrial(p) \/ StartTrial(p) \/ ReadForAdvance(p) \/ AdvanceTrial(p)
             \/ ReadForConversion(p) \/ ConvertTrial(p)
      PROVE  DesksInv'
  BY <1>1, DirectReadersKeep, UpdateOpportunityKeeps, SoftDeleteKeeps, FollowUpKeeps, InsertResultKeeps,
     ReviseResultKeeps, ApplyOutcomeKeeps, StartTrialKeeps, AdvanceTrialKeeps, ConvertTrialKeeps
<1> QED
  BY <1>1, CreateOpportunityKeeps DEF DirectStep

-----------------------------------------------------------------------------
(* The desks begin in order, and every step keeps them so.                     *)

(* The rows a scene begins with are in order, with nothing under way.          *)
LEMMA WfInitKeeps ==
  ASSUME WfInit
  PROVE  DesksInv
<1>1. /\ scene \in Scenes /\ call = [p \in Users |-> NoCall]
      /\ notice = scene.notice /\ ctx = scene.ctx /\ areq = scene.areq /\ drafts = scene.drafts
      /\ mixed = {} /\ case = scene.case /\ made = Cardinality({n \in Notices : case[n].id # 0})
      /\ contracts = {} /\ lease = [l \in Leases |-> "none"]
      /\ pending = [k \in Pendings |-> [st |-> "none", cand |-> {}, late |-> FALSE]]
      /\ revision = 0 /\ journal = <<>>
      /\ opp = scene.opp /\ result = [r \in Opps |-> [of |-> 0, out |-> "won"]] /\ tangled = {}
  BY DEF WfInit
<1>2. Begun(scene)
  BY <1>1, ScenesAssumption
<1>3. \A p \in Users : call[p] = NoCall
  BY <1>1
<1>4. CallsInv
  <2>1. ASSUME NEW p \in Users
        PROVE  /\ call[p].op = "none" /\ call[p].at = "none" /\ call[p].met = FALSE /\ call[p].read = Seen(p)
               /\ call[p] = [op |-> call[p].op, at |-> call[p].at, met |-> call[p].met, read |-> call[p].read]
    BY <1>3 DEF NoCall, Seen
  <2>2. \A p \in Users : call[p] \in CallRows
    <3>1. ASSUME NEW p \in Users PROVE call[p].op \in Words /\ call[p].at \in Words
      BY DEF Words
    <3>2. ASSUME NEW p \in Users PROVE call[p].read \in {Seen(q) : q \in Users}
      BY <2>1
    <3>3. ASSUME NEW p \in Users PROVE call[p] \in CallRows
      <4> PICK c : c = call[p]
        OBVIOUS
      <4>1. /\ c.op \in Words /\ c.at \in Words /\ c.met \in BOOLEAN /\ c.read \in {Seen(q) : q \in Users}
            /\ c = [op |-> c.op, at |-> c.at, met |-> c.met, read |-> c.read]
        BY <2>1, <3>1, <3>2
      <4>2. c \in CallRows
        BY <4>1 DEF CallRows
      <4> QED
        BY <4>2
    <3> QED
      BY <3>3
  <2>3. call \in [Users -> CallRows]
    BY <1>1, <2>2
  <2>4. ASSUME NEW p \in Users PROVE CallOK(p)
    BY <2>1 DEF CallOK, Reads, DeskRead, CaseRead, ContractRead, DirectRead, Refers,
                Fresh, DeskFresh, CaseFresh, ContractFresh, DirectFresh
  <2> QED
    BY <2>1, <2>3, <2>4 DEF CallsInv, Overlaps
<1>5. DeskRows
  BY <1>1, <1>2 DEF Begun, DeskRows, Used
<1>6. FlagFollowsReview
  BY <1>1, <1>2 DEF Begun, FlagFollowsReview
<1>7. CaseTables
  <2>1. made \in Nat
    <3>1. IsFiniteSet({n \in Notices : case[n].id # 0})
      BY NoticesAssumption, FS_Subset
    <3> QED
      BY <1>1, <3>1, FS_CardinalityType
  <2> QED
    BY <1>1, <1>2, <2>1 DEF Begun, CaseTables
<1>8. ContractTables
  <2>1. lease \in [Leases -> LeaseStates]
    BY <1>1 DEF LeaseStates
  <2>2. pending \in [Pendings -> PendingRows]
    BY <1>1 DEF PendingRows
  <2>3. journal \in Seq(JournalRows) /\ Len(journal) = 0 /\ DOMAIN journal = {}
    BY <1>1
  <2> QED
    BY <1>1, <2>1, <2>2, <2>3 DEF ContractTables
<1>9. DirectTables
  <2>1. result \in [Opps -> ResultRows] /\ \A r \in Opps : result[r].of = 0
    BY <1>1 DEF ResultRows, Outcomes
  <2> QED
    BY <1>1, <1>2, <2>1 DEF Begun, DirectTables
<1>10. KeptInv
  BY <1>1, <1>2 DEF Begun, KeptInv
<1>11. LockInv
  BY <1>3 DEF LockInv, Checked, NoCall
<1>12. ToldInv
  BY <1>1, <1>2, <1>3 DEF Begun, ToldInv, Final, Telling, NoCall
<1> QED
  BY <1>4, <1>5, <1>6, <1>7, <1>8, <1>9, <1>10, <1>11, <1>12 DEF DesksInv

(* What the desks keep, a step of nobody's keeps.                              *)
LEMMA WfStutterKeeps ==
  ASSUME DesksInv, UNCHANGED wfVars
  PROVE  DesksInv'
<1>1. /\ call' = call
      /\ notice' = notice /\ ctx' = ctx /\ areq' = areq /\ drafts' = drafts /\ mixed' = mixed
      /\ case' = case /\ made' = made /\ contracts' = contracts
      /\ lease' = lease /\ pending' = pending /\ revision' = revision /\ journal' = journal
      /\ opp' = opp /\ result' = result /\ tangled' = tangled
  BY DEF wfVars, callVars, deskVars, caseVars, contractVars, directVars
<1>2. UNCHANGED <<caseVars, contractVars, directVars>>
  BY DEF wfVars
<1>3. \A n \in Notices : notice'[n].rec = notice[n].rec /\ notice'[n].kept = notice[n].kept
  BY <1>1
<1>4. DeskRows'
  BY <1>1 DEF DesksInv, DeskRows
<1> QED
  BY <1>1, <1>2, <1>3, <1>4, DeskIdles

(* Every step of the desks keeps the invariant.                                *)
LEMMA WfStepKeeps ==
  ASSUME DesksInv, [WfNext]_wfVars
  PROVE  DesksInv'
<1>1. CASE DeskStep /\ UNCHANGED <<caseVars, contractVars, directVars>>
  BY <1>1, DeskStepKeeps
<1>2. CASE CaseStep /\ UNCHANGED <<contractVars, directVars>>
  BY <1>2, CaseStepKeeps
<1>3. CASE ContractStep /\ UNCHANGED directVars
  BY <1>3, ContractStepKeeps
<1>4. CASE DirectStep /\ UNCHANGED <<caseVars, contractVars>>
  BY <1>4, DirectStepKeeps
<1> QED
  BY <1>1, <1>2, <1>3, <1>4, WfStutterKeeps DEF WfNext

(* The rows of the desks keep their types.                                     *)
LEMMA DesksAreTyped ==
  ASSUME DesksInv
  PROVE  WfTypeOK
<1>1. revision \in Nat
  BY DEF DesksInv, ContractTables
<1> QED
  BY <1>1 DEF DesksInv, DeskRows, CaseTables, ContractTables, DirectTables, WfTypeOK

(* With nothing under way, nobody is about to protect a case or to tell of an  *)
(* outcome.                                                                    *)
LEMMA QuietDesks ==
  ASSUME DesksInv
  PROVE  CasesAreProtected /\ OutcomeIsTold
<1>1. CasesAreProtected
  BY DEF DesksInv, KeptInv, Protecting, Quiet, CasesAreProtected
<1>2. OutcomeIsTold
  BY DEF DesksInv, ToldInv, Telling, Quiet, Final, Results, OutcomeIsTold
<1> QED
  BY <1>1, <1>2

-----------------------------------------------------------------------------
(* What a step may never do.                                                   *)

(* A step that does not touch the versions leaves the context alone.           *)
LEMMA ContextStays ==
  ASSUME DeskStep,
         \A p \in Users : ~SaveContext(p) /\ ~AttachFile(p) /\ ~DetachFile(p) /\ ~CreateContextDraft(p)
                          /\ ~CommitActivation(p)
  PROVE  ctx' = ctx
<1>1. CASE PostRequest \/ StartOnWeb \/ CompleteBatch \/ SetType
  BY <1>1 DEF PostRequest, StartOnWeb, CreateRequest, CompleteBatch, SetType
<1>2. ASSUME NEW p \in Users, ReadContext(p) \/ NoDraftYet(p) \/ RetireOthers(p) PROVE ctx' = ctx
  BY <1>2 DEF ReadContext, NoDraftYet, RetireOthers, deskVars
<1>3. ASSUME NEW p \in Users, StartRead(p) \/ FinishRead(p) \/ ReadRequest(p) \/ ReadForDraft(p)
      PROVE  ctx' = ctx
  BY <1>3 DEF StartRead, FinishRead, ReadRequest, ReadForDraft, deskVars
<1>4. ASSUME NEW p \in Users, StartWrite(p) \/ FinishWrite(p) PROVE ctx' = ctx
  BY <1>4 DEF StartWrite, FinishWrite
<1>5. ASSUME NEW p \in Users, CompleteRequest(p) \/ AddBatch(p) \/ StoreDraft(p) PROVE ctx' = ctx
  BY <1>5 DEF CompleteRequest, AddBatch, StoreDraft
<1>6. ASSUME NEW p \in Users, ReadForReview(p) \/ ReadForDismissal(p) \/ ReadForBulk(p) \/ ReadForIngest(p)
      PROVE  ctx' = ctx
  BY <1>6 DEF ReadForReview, ReadForDismissal, ReadForBulk, ReadForIngest, deskVars
<1>7. ASSUME NEW p \in Users, Review(p) \/ DismissDraft(p) \/ DismissFlag(p) \/ BulkDismiss(p) \/ Ingest(p)
      PROVE  ctx' = ctx
  BY <1>7 DEF Review, DismissDraft, DismissFlag, BulkDismiss, Ingest
<1> QED
  BY <1>1, <1>2, <1>3, <1>4, <1>5, <1>6, <1>7 DEF DeskStep

(* The other desks leave the context alone.                                    *)
LEMMA OthersLeaveContext ==
  ASSUME CaseStep \/ ContractStep \/ DirectStep
  PROVE  ctx' = ctx
<1> USE DEF deskVars
<1>1. ASSUME NEW p \in Users,
             \/ ReadForCase(p) \/ InsertCase(p) \/ ReadCase(p) \/ ReadForPatch(p) \/ SaveCase(p)
             \/ ProtectNotice(p) \/ CheckDocuments(p) \/ DeleteCase(p) \/ UnprotectNotice(p) \/ ReadForRemoval(p)
      PROVE  ctx' = ctx
  BY <1>1 DEF ReadForCase, InsertCase, ReadCase, ReadForPatch, SaveCase, ProtectNotice,
              CheckDocuments, DeleteCase, UnprotectNotice, ReadForRemoval
<1>2. ASSUME NEW p \in Users,
             \/ RemoveCases(p) \/ WriteFollowUp(p) \/ StoreDocument(p) \/ DraftContract(p)
             \/ ReadForSelection(p) \/ SelectDraft(p)
      PROVE  ctx' = ctx
  BY <1>2 DEF RemoveCases, WriteFollowUp, StoreDocument, DraftContract, ReadForSelection, SelectDraft
<1>3. ASSUME NEW p \in Users,
             \/ ReadForArming(p) \/ ArmLease(p) \/ RevokeLeases(p) \/ CancelPendings(p)
             \/ ReadForPending(p) \/ StorePending(p) \/ ReadForCommand(p)
             \/ ReadForConfirmation(p) \/ CheckPending(p) \/ SelectNotice(p)
      PROVE  ctx' = ctx
  BY <1>3 DEF ReadForArming, ArmLease, RevokeLeases, CancelPendings, ReadForPending, StorePending, ReadForCommand,
              ReadForConfirmation, CheckPending, SelectNotice
<1>4. ASSUME NEW p \in Users,
             \/ ReadOpportunity(p) \/ UpdateOpportunity(p) \/ SoftDelete(p) \/ FollowUp(p)
             \/ ReadForResult(p) \/ InsertResult(p) \/ ReadForRevision(p) \/ ReviseResult(p) \/ ApplyOutcome(p)
      PROVE  ctx' = ctx
  BY <1>4 DEF ReadOpportunity, UpdateOpportunity, SoftDelete, FollowUp, ReadForResult, InsertResult,
              ReadForRevision, ReviseResult, ApplyOutcome
<1>5. ASSUME NEW p \in Users,
             \/ ReadForTrial(p) \/ StartTrial(p) \/ ReadForAdvance(p) \/ AdvanceTrial(p)
             \/ ReadForConversion(p) \/ ConvertTrial(p)
      PROVE  ctx' = ctx
  BY <1>5 DEF ReadForTrial, StartTrial, ReadForAdvance, AdvanceTrial, ReadForConversion, ConvertTrial
<1>6. CASE TimeIsUp \/ CreateOpportunity
  BY <1>6 DEF TimeIsUp, CreateOpportunity
<1> QED
  BY <1>1, <1>2, <1>3, <1>4, <1>5, <1>6 DEF CaseStep, ContractStep, DirectStep

(* No write of a version but the activation makes one active.                  *)
LEMMA OnlyActivationActivates ==
  ASSUME DesksInv, NEW p \in Users,
         SaveContext(p) \/ AttachFile(p) \/ DetachFile(p) \/ CreateContextDraft(p)
  PROVE  ActiveContexts' \subseteq ActiveContexts
<1>0. ctx \in [Versions -> ContextRows]
  BY DEF DesksInv, DeskRows
<1>1. CASE SaveContext(p)
  <2>1. PICK st \in {"draft", "retired"} :
          ctx' = [ctx EXCEPT ![Seen(p).v].st = st, ![Seen(p).v].text = Seen(p).saw.text + 1]
    BY <1>1 DEF SaveContext
  <2> PICK v, text : v = Seen(p).v /\ text = Seen(p).saw.text + 1
    OBVIOUS
  <2> PICK c : c = [ctx EXCEPT ![v].st = st]
    OBVIOUS
  <2>2. ctx' = [c EXCEPT ![v].text = text]
    BY <2>1, Zenon
  <2>3. DOMAIN c = Versions /\ \A u \in Versions : c[u].st = (IF u = v THEN st ELSE ctx[u].st)
    BY <1>0 DEF ContextRows
  <2>4. \A u \in Versions : ctx'[u].st = c[u].st
    <3>1. v \in Versions => c[v] = [ctx[v] EXCEPT !.st = st]
      BY <1>0
    <3>2. v \in Versions => c[v] \in ContextRows
      BY <1>0, <3>1 DEF ContextRows
    <3>3. \A u \in Versions : ctx'[u] = IF u = v THEN [c[v] EXCEPT !.text = text] ELSE c[u]
      BY <2>2, <2>3
    <3> QED
      BY <3>2, <3>3 DEF ContextRows
  <2> QED
    BY <2>3, <2>4 DEF ActiveContexts
<1>2. CASE AttachFile(p) \/ DetachFile(p)
  <2>1. \E files : ctx' = [ctx EXCEPT ![Seen(p).v].files = files]
    BY <1>2, Zenon DEF AttachFile, DetachFile
  <2>2. \A u \in Versions : ctx'[u].st = ctx[u].st
    BY <1>0, <2>1 DEF ContextRows
  <2> QED
    BY <2>2 DEF ActiveContexts
<1>3. CASE CreateContextDraft(p)
  <2>1. PICK source, v : ctx' = [ctx EXCEPT ![v] = [ctx[source] EXCEPT !.st = "draft"]] /\ source \in Versions
    <3> PICK used : used = {v \in Versions : ctx[v].st # "none"}
      OBVIOUS
    <3> PICK source : source = (IF Seen(p).from # {} THEN Newest(Seen(p).from) ELSE Newest(used))
      OBVIOUS
    <3>1. call[p].op = "newdraft" /\ used # {} /\ \E v : ctx' = [ctx EXCEPT ![v] = [ctx[source] EXCEPT !.st = "draft"]]
      BY <1>3, Zenon DEF CreateContextDraft, At
    <3>2. Seen(p) \in [from : SUBSET Versions]
      BY <3>1 DEF DesksInv, CallsInv, CallOK, Reads, DeskRead, Seen
    <3>3. used \in SUBSET Versions /\ Seen(p).from \in SUBSET Versions
      BY <3>2
    <3>4. source \in Versions
      BY <3>1, <3>3, NewestIsOne
    <3> QED
      BY <3>1, <3>4
  <2> PICK row : row = [ctx[source] EXCEPT !.st = "draft"]
    OBVIOUS
  <2>2. row.st = "draft"
    BY <1>0, <2>1 DEF ContextRows
  <2>3. \A u \in Versions : ctx'[u].st = "active" => ctx[u].st = "active"
    BY <1>0, <2>1, <2>2
  <2> QED
    BY <2>3 DEF ActiveContexts
<1> QED
  BY <1>1, <1>2, <1>3

(* A second active context comes of an activation that met another call: one   *)
(* that has met none retires all the others.                                   *)
LEMMA SecondContextIsOfOverlap ==
  ASSUME DesksInv, [WfNext]_wfVars, Cardinality(ActiveContexts) <= 1, Cardinality(ActiveContexts') > 1
  PROVE  \E p \in Users : At(p, "activate", "retired") /\ call[p].met
<1>1. IsFiniteSet(ActiveContexts)
  <2>1. ActiveContexts \subseteq Versions
    BY DEF ActiveContexts
  <2> QED
    BY <2>1, VersionsAssumption, FS_Subset
<1>2. ~(ActiveContexts' \subseteq ActiveContexts)
  <2> SUFFICES ASSUME ActiveContexts' \subseteq ActiveContexts PROVE FALSE
    OBVIOUS
  <2>1. /\ IsFiniteSet(ActiveContexts') /\ Cardinality(ActiveContexts') <= Cardinality(ActiveContexts)
    BY <1>1, FS_Subset
  <2>2. Cardinality(ActiveContexts') \in Nat /\ Cardinality(ActiveContexts) \in Nat
    BY <1>1, <2>1, FS_CardinalityType
  <2> QED
    BY <2>1, <2>2
<1>3. ctx' # ctx
  BY <1>2 DEF ActiveContexts
<1>4. DeskStep
  BY <1>3, OthersLeaveContext DEF WfNext, wfVars, deskVars
<1>5. PICK p \in Users : CommitActivation(p)
  BY <1>2, <1>3, <1>4, ContextStays, OnlyActivationActivates
<1>6. At(p, "activate", "retired")
  BY <1>5 DEF CommitActivation
<1>7. call[p].met
  <2> SUFFICES ASSUME ~call[p].met PROVE FALSE
    BY DEF DesksInv, CallsInv, CallRows
  <2> PICK v : v = Seen(p).v
    OBVIOUS
  <2>1. Seen(p).old = ActiveContexts \ {v} /\ Seen(p) \in [v : Versions, saw : ContextRows, old : SUBSET Versions]
    BY <1>6 DEF DesksInv, CallsInv, CallOK, Reads, DeskRead, Fresh, DeskFresh, At, Seen
  <2>2. \A u \in Versions \ {v} :
          ctx'[u] = IF u \in Seen(p).old /\ ctx[u].st = "active" THEN [ctx[u] EXCEPT !.st = "retired"] ELSE ctx[u]
    BY <1>5 DEF CommitActivation
  <2>3. ctx \in [Versions -> ContextRows]
    BY DEF DesksInv, DeskRows
  <2>4. \A u \in Versions \ {v} : ctx'[u].st # "active"
    <3> SUFFICES ASSUME NEW u \in Versions \ {v} PROVE ctx'[u].st # "active"
      OBVIOUS
    <3>1. CASE ctx[u].st = "active"
      <4>1. u \in Seen(p).old
        BY <2>1, <3>1 DEF ActiveContexts
      <4>2. ctx'[u] = [ctx[u] EXCEPT !.st = "retired"]
        BY <2>2, <3>1, <4>1
      <4> QED
        BY <2>3, <4>2 DEF ContextRows
    <3>2. CASE ctx[u].st # "active"
      BY <2>2, <3>2
    <3> QED
      BY <3>1, <3>2
  <2>5. ActiveContexts' \subseteq {v}
    BY <2>4 DEF ActiveContexts
  <2>6. IsFiniteSet({v}) /\ Cardinality({v}) = 1
    BY FS_Singleton
  <2>7. Cardinality(ActiveContexts') <= 1
    BY <2>5, <2>6, FS_Subset
  <2>8. Cardinality(ActiveContexts') \in Nat
    BY <2>5, <2>6, FS_Subset, FS_CardinalityType
  <2> QED
    BY <2>7, <2>8
<1> QED
  BY <1>6, <1>7

(* Only the command that opens a case writes the journal: under the next       *)
(* revision, a number no entry has, and a lease that was not revoked before    *)
(* the command began, or by a call that it met.                                *)
LEMMA SelectionIsJournaled ==
  ASSUME DesksInv, NEW p \in Users, SelectNotice(p), journal' # journal
  PROVE  LET e == journal'[Len(journal')] IN
         /\ journal' = Append(journal, e) /\ e.rev = revision' /\ revision' = Len(journal')
         /\ case[e.n].id = 0 /\ case'[e.n].id = e.id
         /\ \A i \in DOMAIN journal : journal[i].id # e.id
         /\ call[p].op \in {"command", "confirm"} /\ call'[p] = NoCall
         /\ lease[Seen(p).l] \in {"live", "lapsed"} \/ call[p].met
<1> PICK n, st, js : n = Seen(p).n /\ st = "selected" /\ js = journal
  OBVIOUS
<1>1. call[p].op \in {"command", "confirm"} /\ Ends(p)
  BY DEF SelectNotice, At
<1>2. /\ case[n].id = 0 /\ case' = [case EXCEPT ![n] = NewCase(st)]
      /\ revision' = revision + 1
      /\ journal' = Append(journal, [rev |-> revision + 1, n |-> n, id |-> made + 1])
  BY DEF SelectNotice
<1> PICK e : e = [rev |-> revision + 1, n |-> n, id |-> made + 1]
  OBVIOUS
<1>3. n \in Notices
  BY <1>1 DEF DesksInv, CallsInv, CallOK, Reads, ContractRead, Seen
<1>4. NewCase(st).id = made + 1 /\ made \in Nat
  BY CasesThere, NewCaseIs DEF CaseStages
<1>5. case'[n].id = made + 1
  BY <1>2, <1>3, <1>4, CasesThere
<1>6. js \in Seq(JournalRows) /\ revision = Len(js) /\ \A i \in DOMAIN js : js[i].id <= made
  BY ContractsThere
<1>7. e \in JournalRows /\ e.id = made + 1 /\ e.n = n /\ e.rev = revision + 1
  BY <1>3, <1>4, <1>6 DEF JournalRows
<1>8. journal' = Append(js, e)
  BY <1>2
<1>9. Len(journal') = Len(js) + 1 /\ journal'[Len(journal')] = e
  BY <1>6, <1>7, <1>8
<1>10. \A i \in DOMAIN js : js[i].id # e.id
  <2>1. \A i \in DOMAIN js : js[i] \in JournalRows
    BY <1>6
  <2>2. \A i \in DOMAIN js : js[i].id \in Nat
    BY <2>1 DEF JournalRows
  <2> QED
    BY <1>4, <1>6, <1>7, <2>2
<1>11. call'[p] = NoCall
  BY <1>1, EndsInOrder DEF DesksInv
<1>12. lease[Seen(p).l] \in {"live", "lapsed"} \/ call[p].met
  BY <1>1 DEF DesksInv, CallsInv, CallOK, Fresh, ContractFresh, Seen
<1> QED
  BY <1>1, <1>2, <1>5, <1>6, <1>7, <1>8, <1>9, <1>10, <1>11, <1>12

(* A pending action that was used up or cancelled stays so: a new one takes a  *)
(* free row, a confirmation the one it holds the lock of.                      *)
LEMMA PendingsStayUsed ==
  ASSUME DesksInv, ContractStep, NEW k \in Pendings, pending[k].st \in {"cancelled", "executed"}
  PROVE  pending'[k].st = pending[k].st
<1>0. pending \in [Pendings -> PendingRows]
  BY ContractsThere
<1>1. CASE TimeIsUp
  <2>1. ASSUME NEW j \in Pendings, pending' = [pending EXCEPT ![j].late = TRUE]
        PROVE  \A i \in Pendings : pending'[i].st = pending[i].st
    BY <1>0, <2>1 DEF PendingRows
  <2> QED
    BY <1>1, <2>1 DEF TimeIsUp
<1>2. ASSUME NEW p \in Users,
             \/ ReadForArming(p) \/ ArmLease(p) \/ RevokeLeases(p) \/ ReadForPending(p)
             \/ ReadForCommand(p) \/ ReadForConfirmation(p) \/ CheckPending(p)
      PROVE  pending'[k].st = pending[k].st
  BY <1>2 DEF ReadForArming, ArmLease, RevokeLeases, ReadForPending, ReadForCommand, ReadForConfirmation,
              CheckPending, contractVars
<1>3. ASSUME NEW p \in Users, CancelPendings(p) PROVE pending'[k].st = pending[k].st
  <2>1. pending' = [j \in Pendings |-> IF pending[j].st = "awaiting" THEN [pending[j] EXCEPT !.st = "cancelled"]
                                       ELSE pending[j]]
    BY <1>3 DEF CancelPendings
  <2> QED
    BY <2>1
<1>4. ASSUME NEW p \in Users, StorePending(p) PROVE pending'[k].st = pending[k].st
  <2> PICK cand, free : cand = Seen(p).cand /\ free = Min(FreePendings)
    OBVIOUS
  <2>1. FreePendings # {} /\ pending' = [pending EXCEPT ![free] = [@ EXCEPT !.st = "awaiting", !.cand = cand]]
    BY <1>4 DEF StorePending
  <2>2. free \in FreePendings
    <3>1. FreePendings \subseteq Nat
      BY PendingsAssumption DEF FreePendings
    <3>2. \E x \in FreePendings : \A y \in FreePendings : x <= y
      BY <2>1, <3>1, SmallestOf
    <3> QED
      BY <3>2 DEF Min
  <2>3. free # k
    BY <2>2 DEF FreePendings
  <2> QED
    BY <1>0, <2>1, <2>3
<1>5. ASSUME NEW p \in Users, SelectNotice(p) PROVE pending'[k].st = pending[k].st
  <2>1. /\ At(p, "command", "read") \/ At(p, "confirm", "checked")
        /\ pending' = IF call[p].op = "confirm" THEN [pending EXCEPT ![Seen(p).k].st = "executed"] ELSE pending
    BY <1>5 DEF SelectNotice
  <2>2. CASE call[p].op = "confirm"
    <3>1. Checked(p)
      BY <2>1, <2>2 DEF At, Checked
    <3>2. pending[Seen(p).k].st = "awaiting"
      BY <3>1 DEF DesksInv, LockInv
    <3> QED
      BY <1>0, <2>1, <2>2, <3>2
  <2>3. CASE call[p].op # "confirm"
    BY <2>1, <2>3
  <2> QED
    BY <2>2, <2>3
<1> QED
  BY <1>1, <1>2, <1>3, <1>4, <1>5 DEF ContractStep

(* The steps of the contract but the selection leave the journal alone.        *)
LEMMA OnlySelectionJournals ==
  ASSUME ContractStep, journal' # journal
  PROVE  \E p \in Users : SelectNotice(p)
  BY DEF ContractStep, TimeIsUp, ReadForArming, ArmLease, RevokeLeases, CancelPendings, ReadForPending, StorePending,
         ReadForCommand, ReadForConfirmation, CheckPending, contractVars

(* What CommandsAreAccounted says of a step.                                   *)
LEMMA CommandsStep ==
  ASSUME DesksInv, [WfNext]_wfVars
  PROVE  /\ journal' # journal =>
              LET e == journal'[Len(journal')] IN
              /\ journal' = Append(journal, e) /\ e.rev = revision' /\ revision' = Len(journal')
              /\ case[e.n].id = 0 /\ case'[e.n].id = e.id
              /\ \A i \in DOMAIN journal : journal[i].id # e.id
              /\ \E p \in Users : /\ call[p].op \in {"command", "confirm"} /\ call'[p] = NoCall
                                  /\ lease[Seen(p).l] \in {"live", "lapsed"} \/ call[p].met
         /\ \A k \in Pendings : pending[k].st \in {"cancelled", "executed"} => pending'[k].st = pending[k].st
<1>1. CASE ContractStep
  <2>1. \A k \in Pendings : pending[k].st \in {"cancelled", "executed"} => pending'[k].st = pending[k].st
    BY <1>1, PendingsStayUsed
  <2>2. CASE journal' = journal
    BY <2>1, <2>2
  <2>3. CASE journal' # journal
    <3>1. PICK p \in Users : SelectNotice(p)
      BY <1>1, <2>3, OnlySelectionJournals
    <3> PICK e : e = journal'[Len(journal')]
      OBVIOUS
    <3>2. /\ journal' = Append(journal, e) /\ e.rev = revision' /\ revision' = Len(journal')
          /\ case[e.n].id = 0 /\ case'[e.n].id = e.id
          /\ \A i \in DOMAIN journal : journal[i].id # e.id
          /\ call[p].op \in {"command", "confirm"} /\ call'[p] = NoCall
          /\ lease[Seen(p).l] \in {"live", "lapsed"} \/ call[p].met
      BY <2>3, <3>1, SelectionIsJournaled
    <3>3. \E q \in Users : /\ call[q].op \in {"command", "confirm"} /\ call'[q] = NoCall
                           /\ lease[Seen(q).l] \in {"live", "lapsed"} \/ call[q].met
      BY <3>2
    <3> QED
      BY <2>1, <3>2, <3>3
  <2> QED
    BY <2>2, <2>3
<1>2. CASE ~ContractStep
  <2>1. journal' = journal /\ pending' = pending
    BY <1>2 DEF WfNext, wfVars, contractVars
  <2> QED
    BY <2>1
<1> QED
  BY <1>1, <1>2
==============================================================================
