------------------------- MODULE MCCommerceCheckout -------------------------
(***************************************************************************)
(* Instances of CommerceCheckout for TLC: which order belongs to which     *)
(* cart, and which payment to which order and provider.                    *)
(***************************************************************************)
EXTENDS CommerceCheckout, TLC

CONSTANTS c1, o1, o2, i1, i2, m1, paynow, ecocash

\* Two providers and the staff are asked for the money of one order.
OneCartOf     == [o \in Order |-> c1]
OneOrderOf    == [p \in Payment |-> o1]

\* A cart that is checked out again after its first order.
AgainOrderOf  == (i1 :> o1) @@ (i2 :> o2) @@ (m1 :> o2)

EachProvider  == (i1 :> paynow) @@ (i2 :> ecocash)
SameProvider  == [i \in Intent |-> paynow]
=============================================================================
