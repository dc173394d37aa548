------------------------------ MODULE TsStream ------------------------------
(***************************************************************************)
(* What the DMA acquisition promises to the reader of an input: the        *)
(* timestamps the gateware has taken from the input reach the reader, in   *)
(* batches, in the order in which they were taken, each exactly once.      *)
(***************************************************************************)
EXTENDS Integers, Sequences

CONSTANTS Chan, MaxTs

VARIABLES taken,   \* how many timestamps each input has produced
          given    \* what its reader has received

Stamps(c, n) == [i \in 1 .. n |-> <<c, i>>]

Init == /\ taken = [c \in Chan |-> 0]
        /\ given = [c \in Chan |-> <<>>]

Take(c) == /\ taken[c] < MaxTs
           /\ taken' = [taken EXCEPT ![c] = @ + 1]
           /\ UNCHANGED given

Deliver(c) == /\ \E n \in Len(given[c]) + 1 .. taken[c] :
                   given' = [given EXCEPT ![c] = Stamps(c, n)]
              /\ UNCHANGED taken

Next == \E c \in Chan : Take(c) \/ Deliver(c)

Spec == Init /\ [][Next]_<<taken, given>>

\* Whatever was taken is delivered in the end.
FairSpec == Spec /\ \A c \in Chan : WF_<<taken, given>>(Deliver(c))
=============================================================================
