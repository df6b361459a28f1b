----------------------------- MODULE MCProducer -----------------------------
(* Producer for TLC: see the .cfg files for the instances.                 *)
EXTENDS Producer, TLC

Symmetry == Permutations(Msgs)

(* Liveness on two instances at once: as many messages as Msgs has while no *)
(* connection is lost, one message when one is; the first send() is that of *)
(* First.  Only calls of send() and faults are restricted, of which no      *)
(* fairness is assumed.                                                     *)
First == CHOOSE m \in Msgs : TRUE

OneAtAFault ==
    \A m \in Msgs \ {First} : pc[m] # "new" => faults = 0 /\ pc[First] # "new"

LiveSpec == Init /\ [][Steps \/ (Inputs /\ OneAtAFault')]_vars /\ Fairness
=============================================================================
