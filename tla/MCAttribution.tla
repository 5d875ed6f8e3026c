----------------------------- MODULE MCAttribution ---------------------------
(***************************************************************************)
(* One outlet with a session, its meter never replaced.                    *)
(***************************************************************************)
EXTENDS MeteringAttribution, TLC

CONSTANT q1

MCOutletOf == 1 :> q1
MCMaxUsed  == q1 :> 2
MCMaxSwaps == q1 :> 0
=============================================================================
