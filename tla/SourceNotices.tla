---------------------------- MODULE SourceNotices ----------------------------
(* What the ingestion of a listed record stores (procurement/ingestion.py):    *)
(* the source row with its semantic hash, the revisions, and the deadline of   *)
(* the normalised notice.  A record's content is three counters: v, everything *)
(* but the deadline; dl, the true deadline; tick, how much of a countdown the  *)
(* source still shows (SETAD eProc).  A detail page is named by the v it was   *)
(* fetched at, 0 being no detail.                                              *)
EXTENDS Integers, Sequences, SequencesExt

CONSTANTS Records, Countdown     \* Countdown: the records shown as a countdown

Contents == [v : Nat, dl : Nat, tick : Nat]
Hashes == [v : Nat, dl : Nat, tick : Nat, d : Nat]
NoHash == [v |-> 0, dl |-> 0, tick |-> 0, d |-> 0]
Absent == [revs |-> <<>>, hash |-> NoHash, raw |-> NoHash, due |-> <<0, 0>>]
RowType == [revs : Seq(Hashes), hash : Hashes, raw : Hashes, due : Nat \X Nat]

Stored(row) == row.revs # <<>>

Payload(content, d) == [v |-> content.v, dl |-> content.dl, tick |-> content.tick, d |-> d]

(* Two observations of one countdown: the same true deadline, still running.   *)
Natural(r, row, p) ==
  r \in Countdown /\ Stored(row) /\ row.raw.dl = p.dl /\ row.raw.tick <= p.tick

(* A countdown that only went on keeps the hash of the last real change.       *)
EffectiveHash(r, row, p) ==
  IF Natural(r, row, p) /\ [row.raw EXCEPT !.tick = p.tick] = p THEN row.hash ELSE p

(* The deadline is materialised from the text, except that a countdown keeps   *)
(* the one it was first seen with.                                             *)
DeadlineEachTime(r, row, p) == <<p.dl, p.tick>>
Deadline(r, row, p) == IF Natural(r, row, p) THEN row.due ELSE <<p.dl, p.tick>>

ItemStatus(r, row, p) ==
  IF ~Stored(row) THEN "new"
  ELSE IF EffectiveHash(r, row, p) # row.hash THEN "updated" ELSE "duplicate"

RevisionOnRawChange(r, row, p) ==
  LET hash == EffectiveHash(r, row, p) IN
  [ revs |-> IF Stored(row) /\ row.raw = p THEN row.revs ELSE Append(row.revs, hash),
    hash |-> hash, raw |-> p, due |-> Deadline(r, row, p) ]
Recorded(r, row, p) ==
  LET hash == EffectiveHash(r, row, p) IN
  [ revs |-> IF ItemStatus(r, row, p) = "duplicate" THEN row.revs ELSE Append(row.revs, hash),
    hash |-> hash, raw |-> p, due |-> Deadline(r, row, p) ]
==============================================================================
