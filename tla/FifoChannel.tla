----------------------------- MODULE FifoChannel -----------------------------
(***************************************************************************)
(* What a queue between threads promises, whatever it is made of: items    *)
(* are accepted in some order, none twice, and are delivered in exactly    *)
(* that order, with nothing invented, repeated, skipped or overtaken.      *)
(***************************************************************************)
EXTENDS Naturals, Sequences

CONSTANT Items              \* the items that may ever be accepted

VARIABLES accepted,         \* the items put in, in order
          delivered         \* the items that have come out, in order

vars == <<accepted, delivered>>

Init == accepted = <<>> /\ delivered = <<>>

Accept(x) ==
    /\ \A i \in 1..Len(accepted) : accepted[i] # x
    /\ accepted' = Append(accepted, x)
    /\ UNCHANGED delivered

Deliver ==
    /\ Len(delivered) < Len(accepted)
    /\ delivered' = Append(delivered, accepted[Len(delivered) + 1])
    /\ UNCHANGED accepted

Next == Deliver \/ \E x \in Items : Accept(x)

Spec == Init /\ [][Next]_vars
=============================================================================
