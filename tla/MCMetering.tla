------------------------------ MODULE MCMetering ------------------------------
(***************************************************************************)
(* One metered outlet with a session, and an idle one of a demo cabinet.   *)
(***************************************************************************)
EXTENDS Metering, TLC

CONSTANTS q1, sim

MCOutletOf == 1 :> q1
MCMaxUsed  == q1 :> 2 @@ sim :> 0
MCMaxSwaps == q1 :> 1 @@ sim :> 0
=============================================================================
