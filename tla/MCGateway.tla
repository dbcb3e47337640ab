----------------------------- MODULE MCGateway -----------------------------
(* Instances of Gateway for TLC.                                           *)
EXTENDS Gateway, TLC

CONSTANTS w1, w2, k1, k2

OneSlot == [n \in Node |-> 1]
TwoSlots == [n \in Node |-> 2]
AnyWorker == {Node}

\* The users' requests belong to conversations; at most one request is Genie's, which
\* names none (genie.mjs modelAnswer).
TurnsInit ==
  /\ Init
  /\ \A i, j \in Job :
       /\ req[i].class # {} <=> req[i].key = NoKey
       /\ req[i].class # {} /\ req[j].class # {} => i = j
TurnsSpec == TurnsInit /\ [][Next]_vars

Symmetry == Permutations(Node) \cup Permutations(Key)
============================================================================
