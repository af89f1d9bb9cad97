------------------------------ MODULE CaseDesk ------------------------------
(* The cases people open on notices: created by hand or from a reviewed draft, *)
(* updated, moved, removed, with documents and contract drafts.  A notice with *)
(* a case is protected from retention by a statement of its own.               *)
EXTENDS AnalysisDesk

VARIABLES case,       \* per notice: its case (the identity 0: none)
          made,       \* cases made so far, which names the next one
          contracts   \* the cases a contract draft has been made of
caseVars == <<case, made, contracts>>

\* "selected" stands for every stage before submission, "submitted" also for
\* awaiting_result, lost and cancelled, "declined" also for renewed.
CaseStages == {"selected", "submitted", "won", "declined"}
Removable == {"selected"}
NoCase == [id |-> 0, st |-> "selected", docs |-> FALSE, next |-> 0]
Where(id) == {n \in Notices : case[n].id = id}   \* where a case is now: at most one notice
NewCase(st) == [NoCase EXCEPT !.id = made + 1, !.st = st]

(* A case is posted with its stage; the notice is protected after that.        *)
ReadForCase(p) == \E n \in Notices, st \in CaseStages :
  /\ case[n].id = 0
  /\ Begins(p, "case", [n |-> n, st |-> st])
  /\ UNCHANGED <<deskVars, caseVars>>
InsertCase(p) ==
  LET n == Seen(p).n IN
  /\ At(p, "case", "read")
  /\ IF case[n].id # 0 THEN Ends(p) /\ UNCHANGED caseVars
     ELSE /\ Continues(p, "stored", Seen(p))
          /\ case' = [case EXCEPT ![n] = NewCase(Seen(p).st)] /\ made' = made + 1
          /\ UNCHANGED contracts
  /\ UNCHANGED deskVars

(* What is done with a case begins with its row as it is loaded.               *)
Admits(op, c) ==
  CASE op = "destroy" -> c.st \in Removable
    [] op = "upload" -> c.st # "declined"
    [] op = "contract" -> c.st = "won"
    [] OTHER -> TRUE
ReadCase(p) == \E op \in {"destroy", "upload", "contract", "followup"}, n \in Notices :
  /\ case[n].id # 0 /\ Admits(op, case[n])
  /\ Begins(p, op, [n |-> n, saw |-> case[n]])
  /\ UNCHANGED <<deskVars, caseVars>>

(* A PATCH saves the whole row, which is inserted again when it is gone; it    *)
(* may name another notice that had no case.                                   *)
ReadForPatch(p) == \E n, m \in Notices, st \in CaseStages :
  /\ case[n].id # 0 /\ m \in {n} \cup Where(0)
  /\ Begins(p, "patch", [n |-> m, st |-> st, saw |-> case[n]])
  /\ UNCHANGED <<deskVars, caseVars>>
SaveCase(p) ==
  LET c == Seen(p)
      docs == \E n \in Where(c.saw.id) : case[n].docs
  IN
  /\ At(p, "patch", "read")
  /\ IF case[c.n].id \notin {0, c.saw.id} THEN Ends(p) /\ UNCHANGED case
     ELSE /\ Continues(p, "stored", Seen(p))
          /\ case' = [n \in Notices |->
               IF n = c.n THEN [c.saw EXCEPT !.st = c.st, !.docs = docs]
               ELSE IF case[n].id = c.saw.id THEN NoCase ELSE case[n]]
  /\ UNCHANGED <<deskVars, made, contracts>>

Unprotected(kept) == kept
Protected(kept) == TRUE
ProtectNotice(p) == \E op \in {"case", "patch"} :
  /\ At(p, op, "stored") /\ Ends(p)
  /\ notice' = [notice EXCEPT ![Seen(p).n].kept = Protected(@)]
  /\ UNCHANGED <<ctx, areq, drafts, mixed, caseVars>>

(* Removal: by the key that was read, then the notice that was read.  The     *)
(* documents are asked for first; one stored after that makes the delete fail. *)
HasDocuments(id) == \E n \in Where(id) : case[n].docs
CheckDocuments(p) ==
  /\ At(p, "destroy", "read")
  /\ IF HasDocuments(Seen(p).saw.id) THEN Ends(p) ELSE Continues(p, "checked", Seen(p))
  /\ UNCHANGED <<deskVars, caseVars>>
DeleteCase(p) ==
  LET at == Where(Seen(p).saw.id) IN
  /\ At(p, "destroy", "checked")
  /\ IF HasDocuments(Seen(p).saw.id) THEN Ends(p) /\ UNCHANGED case
     ELSE /\ Continues(p, "deleted", Seen(p))
          /\ case' = [n \in Notices |-> IF n \in at THEN NoCase ELSE case[n]]
  /\ UNCHANGED <<deskVars, made, contracts>>
UnprotectNotice(p) ==
  /\ At(p, "destroy", "deleted") /\ Ends(p)
  /\ notice' = [notice EXCEPT ![Seen(p).n].kept = FALSE]
  /\ Stained(p, {Seen(p).n}, {"kept"})
  /\ UNCHANGED <<ctx, areq, drafts, caseVars>>

(* A removal in bulk works through a list of cases and their documents, read   *)
(* before its transaction; a document stored meanwhile rolls it all back.      *)
ReadForRemoval(p) ==
  \E ns \in SUBSET {n \in Notices : case[n].id # 0 /\ case[n].st \in Removable /\ ~case[n].docs} :
    /\ ns # {}
    /\ Begins(p, "remove", [ids |-> [n \in ns |-> case[n].id]])
    /\ UNCHANGED <<deskVars, caseVars>>
RemoveCases(p) ==
  LET ids == Seen(p).ids
      ns == DOMAIN ids
  IN
  /\ At(p, "remove", "read") /\ Ends(p)
  /\ IF \E n \in ns : HasDocuments(ids[n]) THEN UNCHANGED <<case, notice, mixed>>
     ELSE /\ case' = [m \in Notices |-> IF \E n \in ns : case[m].id = ids[n] THEN NoCase ELSE case[m]]
          /\ notice' = [n \in Notices |-> IF n \in ns THEN [notice[n] EXCEPT !.kept = FALSE] ELSE notice[n]]
          /\ Stained(p, ns, {"kept"})
  /\ UNCHANGED <<ctx, areq, drafts, made, contracts>>

(* A follow-up writes its fields as loaded or as given; it fails, like a       *)
(* document, when the case is gone.                                            *)
WriteFollowUp(p) ==
  /\ At(p, "followup", "read") /\ Ends(p)
  /\ \E next \in {Seen(p).saw.next, 1} : case' =
       [n \in Notices |-> IF n \in Where(Seen(p).saw.id) THEN [case[n] EXCEPT !.next = next] ELSE case[n]]
  /\ UNCHANGED <<deskVars, made, contracts>>
StoreDocument(p) ==
  /\ At(p, "upload", "read") /\ Ends(p)
  /\ case' = [n \in Notices |-> IF n \in Where(Seen(p).saw.id) THEN [case[n] EXCEPT !.docs = TRUE] ELSE case[n]]
  /\ UNCHANGED <<deskVars, made, contracts>>
(* The contract's code is made of the case's key: a second one is refused.     *)
DraftContract(p) ==
  /\ At(p, "contract", "read") /\ Ends(p)
  /\ contracts' = contracts \cup {Seen(p).saw.id}
  /\ UNCHANGED <<deskVars, case, made>>

(* A reviewed, recommended draft is selected: the case is opened, or found.    *)
ReadForSelection(p) == \E k \in DOMAIN drafts :
  /\ drafts[k].rec /\ drafts[k].rev \in {"reviewed", "published"}
  /\ Begins(p, "select", [n |-> drafts[k].n])
  /\ UNCHANGED <<deskVars, caseVars>>
SelectDraft(p) ==
  LET n == Seen(p).n IN
  /\ At(p, "select", "read") /\ Ends(p)
  /\ IF case[n].id # 0 THEN UNCHANGED <<case, made>>
     ELSE case' = [case EXCEPT ![n] = NewCase("selected")] /\ made' = made + 1
  /\ notice' = [notice EXCEPT ![n].kept = TRUE]
  /\ UNCHANGED <<ctx, areq, drafts, mixed, contracts>>

CaseStep == \E p \in Users :
  \/ ReadForCase(p) \/ InsertCase(p) \/ ReadCase(p) \/ ReadForPatch(p) \/ SaveCase(p)
  \/ ProtectNotice(p) \/ CheckDocuments(p) \/ DeleteCase(p) \/ UnprotectNotice(p)
  \/ ReadForRemoval(p) \/ RemoveCases(p)
  \/ WriteFollowUp(p) \/ StoreDocument(p) \/ DraftContract(p) \/ ReadForSelection(p) \/ SelectDraft(p)
==============================================================================
