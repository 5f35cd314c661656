--------------------------- MODULE StatefulStage ---------------------------
(***************************************************************************)
(* What a stage that keeps state promises its readers, whatever happens to *)
(* its processes: as if one process that never fails had handled the input *)
(* partition from the beginning, every record once and in order, each      *)
(* downstream partition's reader gets that process's outputs, in order.    *)
(***************************************************************************)
EXTENDS Integers, Sequences, FiniteSets

CONSTANTS Dest, None

VARIABLES input,    \* the input partition
          delivered \* per downstream partition, what its reader has accepted

vars == <<input, delivered>>

(* The output the uninterrupted process emits for record i of the input. *)
Emitted(i) == {j \in 1..i : input[j].dest # None}
OutputAt(i) == [seq |-> Cardinality(Emitted(i)), state |-> SubSeq(input, 1, i)]

(* The records whose output goes to d. *)
Bound(d, i) == {j \in 1..i : input[j].dest = d}

Init == input = << >> /\ delivered = [d \in Dest |-> {}]

Produce(d) ==
    /\ input' = Append(input, [life |-> 0, offset |-> Len(input) + 1, dest |-> d])
    /\ UNCHANGED delivered

(* The reader of d accepts the first output it has not. *)
Deliver(d) ==
    /\ \E i \in DOMAIN input :
        /\ input[i].dest = d
        /\ Cardinality(Bound(d, i)) = Cardinality(delivered[d]) + 1
        /\ delivered' = [delivered EXCEPT ![d] = @ \cup {OutputAt(i)}]
    /\ UNCHANGED input

Next ==
    \/ \E d \in Dest \cup {None} : Produce(d)
    \/ \E d \in Dest : Deliver(d)

Spec == Init /\ [][Next]_vars
=============================================================================
