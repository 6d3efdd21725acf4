------------------------------ MODULE AtLeastOnce ------------------------------
(***************************************************************************)
(* What the log collector promises for each item: its content is delivered *)
(* first and recorded as done afterwards, so what is recorded was          *)
(* delivered.  Forgetting a record is allowed and leads to a redelivery.   *)
(***************************************************************************)
EXTENDS Naturals

CONSTANT Items

VARIABLES current,    \* the newest version of each item
          delivered,  \* the newest version the destination holds
          recorded    \* the newest version noted as delivered

avars == <<current, delivered, recorded>>

NothingYet == [i \in Items |-> 0]

Init ==
    /\ current = NothingYet
    /\ delivered = NothingYet
    /\ recorded = NothingYet

Grow(i) ==
    /\ current' = [current EXCEPT ![i] = @ + 1]
    /\ UNCHANGED <<delivered, recorded>>

\* Any number of items at a time; DOMAIN and bounds say what the new value is.
Deliver ==
    /\ DOMAIN delivered' = Items
    /\ \A i \in Items : delivered'[i] \in delivered[i] .. current[i]
    /\ UNCHANGED <<current, recorded>>

Record ==
    /\ DOMAIN recorded' = Items
    /\ \A i \in Items : recorded'[i] \in recorded[i] .. delivered[i]
    /\ UNCHANGED <<current, delivered>>

Forget ==
    /\ recorded' = NothingYet
    /\ UNCHANGED <<current, delivered>>

Next ==
    \/ \E i \in Items : Grow(i)
    \/ Deliver \/ Record \/ Forget

Spec == Init /\ [][Next]_avars
=============================================================================
