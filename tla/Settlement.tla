----------------------------- MODULE Settlement -----------------------------
(***************************************************************************)
(* What session reconciliation promises to whoever bills, with nothing of  *)
(* webhooks, windows, transactions or failures: an ERP session ends at the *)
(* cabinet, is then settled, may then be billed, and only then is it       *)
(* confirmed to the cabinet.  No step is ever taken back.                  *)
(***************************************************************************)
CONSTANT Sessions

VARIABLES
  ended,      \* a cabinet session that may be this row's has ended
  settled,    \* the pull stored it: reconciled_at is set
  billed,
  confirmed   \* the cabinet was told it is billed

vars == <<ended, settled, billed, confirmed>>

Init == ended = {} /\ settled = {} /\ billed = {} /\ confirmed = {}

End(S) ==
  /\ ended' = ended \union S
  /\ UNCHANGED <<settled, billed, confirmed>>

Settle(S) ==
  /\ S \subseteq ended
  /\ settled' = settled \union S
  /\ UNCHANGED <<ended, billed, confirmed>>

Bill(s) ==
  /\ s \in settled
  /\ billed' = billed \union {s}
  /\ UNCHANGED <<ended, settled, confirmed>>

Confirm(S) ==
  /\ S \subseteq billed
  /\ confirmed' = confirmed \union S
  /\ UNCHANGED <<ended, settled, billed>>

Next ==
  \/ \E S \in SUBSET Sessions : End(S) \/ Settle(S) \/ Confirm(S)
  \/ \E s \in Sessions : Bill(s)

Spec == Init /\ [][Next]_vars
=============================================================================
