------------------------------ MODULE MCDelivery ------------------------------
(* A delivery package on a small instance. *)
EXTENDS Delivery, TLC

CONSTANTS u1, u2

\* Two units under one grant, one of which may be tried again; and one unit that
\* is approved twice.
TwoUnitsOrTwoGrants ==
    {<<(u1 :> 2 @@ u2 :> 1)>>, <<(u1 :> 1), (u1 :> 1)>>}
=============================================================================
