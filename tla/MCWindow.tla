------------------------------ MODULE MCWindow ------------------------------
(***************************************************************************)
(* Two sessions on a clock of eight instants, 0 to 7: an overlap of one, a *)
(* nightly lookback of four, runs kept for three.                          *)
(***************************************************************************)
EXTENDS ReconcileWindow
CONSTANTS ca, cb
=============================================================================
