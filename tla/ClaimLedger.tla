---- MODULE ClaimLedger ----
(***************************************************************************)
(* What the work queue promises about each entry, whatever the requests,    *)
(* the leases and the reconciliations that move it.                         *)
(*                                                                          *)
(*   - A live hold is taken over by nobody: it ends when its own result     *)
(*     settles it, when it is released or closed, when it lapses, or when a *)
(*     newer epoch (the Analysis Context) makes every hold void.            *)
(*   - An entry is settled once, and by the token that holds it then.       *)
(*   - A settled or closed entry never changes again.                       *)
(***************************************************************************)
EXTENDS Naturals

CONSTANTS Keys, Tokens, Workers, NoToken, NoWorker

VARIABLE entry  \* [Keys -> Entries]

States == {"none", "free", "held", "lapsed", "settled", "closed"}

Entries == [state : States, token : Tokens \cup {NoToken},
            by : Workers \cup {NoWorker}, epoch : Nat]

\* An entry is offered for work.
Offer(e, f) ==
  /\ e.state = "none" /\ f.state = "free"

\* A worker takes an entry nobody holds, under a token of its own.
Take(e, f) ==
  /\ e.state \in {"free", "lapsed"} /\ f.state = "held"
  /\ f.token \in Tokens /\ f.by \in Workers
  /\ e.epoch <= f.epoch

\* A hold passes to another token only with a newer epoch.
Revoke(e, f) ==
  /\ e.state = "held" /\ f.state = "held"
  /\ f.token \in Tokens /\ f.by \in Workers
  /\ e.epoch < f.epoch

Lapse(e, f) ==
  /\ e.state = "held" /\ f = [e EXCEPT !.state = "lapsed"]

\* A hold goes back, or a free entry is bound to a newer epoch.
Release(e, f) ==
  /\ e.state \in {"free", "held", "lapsed"} /\ f.state = "free"
  /\ e.epoch <= f.epoch

Settle(e, f) ==
  /\ e.state \in {"held", "lapsed"} /\ f.state = "settled"
  /\ f.token = e.token

Close(e, f) ==
  /\ e.state \in {"free", "held", "lapsed"} /\ f.state = "closed"

Step(e, f) ==
  \/ e = f
  \/ Offer(e, f) \/ Take(e, f) \/ Revoke(e, f) \/ Lapse(e, f)
  \/ Release(e, f) \/ Settle(e, f) \/ Close(e, f)

Init == \A k \in Keys : entry[k].state = "none"

\* One request may move any number of entries.
Next == \A k \in Keys : Step(entry[k], entry'[k])

Spec == Init /\ [][Next]_entry
====
