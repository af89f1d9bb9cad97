------------------------------- MODULE WebCalls -------------------------------
(* A request to the backend is a few statements, each of which other requests  *)
(* can come between (Django in autocommit, PostgreSQL in READ COMMITTED).      *)
(* call[p] is the request user p has under way, with what it has read so far.  *)
EXTENDS Integers, Sequences, FiniteSets

CONSTANTS Users,   \* 1..n: who may have a request under way
          Scenes   \* per behaviour: the first rows and how many calls of each kind

VARIABLES scene, may, call
callVars == <<scene, may, call>>

NoCall == [op |-> "none", at |-> "none", met |-> FALSE, read |-> <<>>]
Others(p) == {q \in Users \ {p} : call[q].op # "none"}
Quiet == \A p \in Users : call[p].op = "none"
Seen(p) == call[p].read

(* Calls of a kind the scene still has; idle users are alike, the first acts.  *)
Spends(op) == may[op] > 0 /\ may' = [may EXCEPT ![op] = @ - 1] /\ UNCHANGED scene

(* A call begins with what it reads; it met the calls that were under way.     *)
Begins(p, op, read) ==
  /\ Spends(op)
  /\ call[p].op = "none" /\ \A q \in 1..(p - 1) : call[q].op # "none"
  /\ call' = [q \in Users |->
       IF q = p THEN [op |-> op, at |-> "read", met |-> Others(p) # {}, read |-> read]
       ELSE [call[q] EXCEPT !.met = call[q].op # "none"]]

At(p, op, at) == call[p].op = op /\ call[p].at = at
Continues(p, at, read) ==
  /\ call' = [call EXCEPT ![p] = [@ EXCEPT !.at = at, !.read = read]]
  /\ UNCHANGED <<scene, may>>
Ends(p) == call' = [call EXCEPT ![p] = NoCall] /\ UNCHANGED <<scene, may>>
==============================================================================
