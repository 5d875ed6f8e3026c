------------------------------ MODULE MCSessions ------------------------------
(***************************************************************************)
(* Two rows of one customer on two outlets.  Row 2's cabinet session comes *)
(* under the new contract (erp_ref, no customer) and is measured only      *)
(* approximately; row 1's comes under today's contract (customer and       *)
(* outlet) and is measured by the register.                                *)
(***************************************************************************)
EXTENDS SessionReconciliation, TLC

CONSTANTS ca, cb, q1, q2

MCErpInfo == 1 :> [customer |-> 7, outlet |-> q1] @@ 2 :> [customer |-> 7, outlet |-> q2]

MCCabInfo == ca :> [erp_ref |-> None, customer |-> 7, outlet |-> q1]
          @@ cb :> [erp_ref |-> 2, customer |-> None, outlet |-> q2]

MCMeasure == ca :> "register" @@ cb :> "integrated_legacy"

MCMaxRegister == ca :> 1 @@ cb :> 0

MCStartedFor == ca :> 1 @@ cb :> 2
-----------------------------------------------------------------------------
\* One row and its one session under the new contract.
OneErpInfo     == 1 :> [customer |-> 7, outlet |-> q1]
OneCabInfo     == ca :> [erp_ref |-> 1, customer |-> None, outlet |-> q1]
OneMeasure     == ca :> "register"
OneMaxRegister == ca :> 1
OneStartedFor  == ca :> 1

\* Both rows wait for the same outlet: the customer stopped and started again.
TwiceErpInfo == 1 :> [customer |-> 7, outlet |-> q1] @@ 2 :> [customer |-> 7, outlet |-> q1]
TwiceCabInfo == ca :> [erp_ref |-> None, customer |-> 7, outlet |-> q1]
             @@ cb :> [erp_ref |-> 2, customer |-> None, outlet |-> q1]
TwiceMaxRegister == ca :> 0 @@ cb :> 0
=============================================================================
