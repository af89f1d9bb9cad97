------------------------- MODULE InteractionContract -------------------------
(* Selection by the connected assistant: a write lease the user arms and       *)
(* disarms, the command that opens a case under it, and choices that wait for  *)
(* a confirmation.  What the command changes is journaled under a revision.    *)
EXTENDS CaseDesk, FiniteSetsExt

CONSTANTS Leases, Pendings   \* 1..n
ASSUME PendingsAssumption == Pendings \subseteq Nat

VARIABLES lease,    \* per lease: "none", "live", "revoked" or "lapsed"
          pending,  \* per pending action: status, candidates, whether its time is over
          revision, \* of the procurement domain
          journal   \* the changes, with the revision of each
contractVars == <<lease, pending, revision, journal>>

FreeLeases == {l \in Leases : lease[l] = "none"}
FreePendings == {k \in Pendings : pending[k].st = "none"}

(* Arming revokes the leases that are live as it looks, and makes one.         *)
ReadForArming(p) ==
  /\ FreeLeases # {}
  /\ Begins(p, "arm", [old |-> {l \in Leases : lease[l] = "live"}])
  /\ UNCHANGED <<deskVars, caseVars, contractVars>>
ArmLease(p) ==
  /\ At(p, "arm", "read") /\ Ends(p) /\ FreeLeases # {}
  /\ lease' = [[l \in Leases |-> IF l \in Seen(p).old /\ lease[l] = "live" THEN "revoked" ELSE lease[l]]
                 EXCEPT ![Min(FreeLeases)] = "live"]
  /\ UNCHANGED <<deskVars, caseVars, pending, revision, journal>>

(* Disarming revokes, and cancels what waits in a statement of its own.        *)
RevokeLeases(p) ==
  /\ Begins(p, "disarm", <<>>)
  /\ lease' = [l \in Leases |-> IF lease[l] = "live" THEN "revoked" ELSE lease[l]]
  /\ UNCHANGED <<deskVars, caseVars, pending, revision, journal>>
Locked(k) == \E q \in Users : At(q, "confirm", "checked") /\ Seen(q).k = k
CancelPendings(p) ==
  /\ At(p, "disarm", "read") /\ Ends(p)
  /\ \A k \in Pendings : ~Locked(k)
  /\ pending' = [k \in Pendings |-> IF pending[k].st = "awaiting" THEN [pending[k] EXCEPT !.st = "cancelled"]
                                    ELSE pending[k]]
  /\ UNCHANGED <<deskVars, caseVars, lease, revision, journal>>

(* The time of a lease or of a pending action runs out; no row is written.     *)
TimeIsUp ==
  /\ Spends("lapse") /\ UNCHANGED <<call, deskVars, caseVars, revision, journal>>
  /\ \/ \E l \in Leases : lease[l] = "live" /\ lease' = [lease EXCEPT ![l] = "lapsed"] /\ UNCHANGED pending
     \/ \E k \in Pendings : /\ pending[k].st # "none" /\ ~pending[k].late
                            /\ pending' = [pending EXCEPT ![k].late = TRUE] /\ UNCHANGED lease

-----------------------------------------------------------------------------
EvenRevoked(l) == lease[l] \in {"live", "revoked"}
Armed(l) == lease[l] = "live"

(* Two candidates or more wait for the user to name one.                       *)
ReadForPending(p) == \E l \in Leases, cand \in SUBSET Notices :
  /\ Armed(l) /\ Cardinality(cand) > 1 /\ FreePendings # {}
  /\ Begins(p, "prepare", [l |-> l, cand |-> cand])
  /\ UNCHANGED <<deskVars, caseVars, contractVars>>
StorePending(p) ==
  /\ At(p, "prepare", "read") /\ Ends(p) /\ FreePendings # {}
  /\ pending' = [pending EXCEPT ![Min(FreePendings)] = [@ EXCEPT !.st = "awaiting", !.cand = Seen(p).cand]]
  /\ UNCHANGED <<deskVars, caseVars, lease, revision, journal>>

(* The command asks for the lease, then works in a transaction of its own.     *)
ReadForCommand(p) == \E l \in Leases, n \in Notices :
  /\ Armed(l)
  /\ Begins(p, "command", [l |-> l, n |-> n])
  /\ UNCHANGED <<deskVars, caseVars, contractVars>>

(* A confirmation asks for the lease, locks the pending action, checks it and  *)
(* asks for the lease again; an expiry it would note is rolled back with it.   *)
ReadForConfirmation(p) == \E l \in Leases, k \in Pendings, n \in Notices :
  /\ Armed(l) /\ pending[k].st # "none"
  /\ Begins(p, "confirm", [l |-> l, k |-> k, n |-> n])
  /\ UNCHANGED <<deskVars, caseVars, contractVars>>
Confirmable(c) ==
  /\ ~pending[c.k].late /\ pending[c.k].st = "awaiting"
  /\ c.n \in pending[c.k].cand /\ Armed(c.l)
CheckPending(p) ==
  /\ At(p, "confirm", "read") /\ ~Locked(Seen(p).k)
  /\ IF Confirmable(Seen(p)) THEN Continues(p, "checked", Seen(p)) ELSE Ends(p)
  /\ UNCHANGED <<deskVars, caseVars, contractVars>>

(* The notice is locked: a case it has is left alone; a new one is journaled   *)
(* under the next revision, whose row stays locked to the commit.              *)
SelectNotice(p) ==
  LET c == Seen(p)
      new == case[c.n].id = 0
  IN
  /\ At(p, "command", "read") \/ At(p, "confirm", "checked")
  /\ Ends(p)
  /\ pending' = IF call[p].op = "confirm" THEN [pending EXCEPT ![c.k].st = "executed"] ELSE pending
  /\ IF new THEN /\ case' = [case EXCEPT ![c.n] = NewCase("selected")] /\ made' = made + 1
                 /\ notice' = [notice EXCEPT ![c.n].kept = TRUE]
                 /\ revision' = revision + 1
                 /\ journal' = Append(journal, [rev |-> revision + 1, n |-> c.n, id |-> made + 1])
     ELSE UNCHANGED <<case, made, notice, revision, journal>>
  /\ UNCHANGED <<ctx, areq, drafts, mixed, contracts, lease>>

ContractStep == TimeIsUp \/ \E p \in Users :
  \/ ReadForArming(p) \/ ArmLease(p) \/ RevokeLeases(p) \/ CancelPendings(p)
  \/ ReadForPending(p) \/ StorePending(p) \/ ReadForCommand(p)
  \/ ReadForConfirmation(p) \/ CheckPending(p) \/ SelectNotice(p)
==============================================================================
