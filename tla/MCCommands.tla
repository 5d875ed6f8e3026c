------------------------------ MODULE MCCommands ------------------------------
(***************************************************************************)
(* A marina with a real cabinet; a demo marina with a simulated and a real *)
(* one.  One process, a client per cabinet, a request of every kind, those *)
(* together that share a client, a session or a cache.                     *)
(***************************************************************************)
EXTENDS Commands, TLC

CONSTANTS krk, sim, shown, p1

MCOp == [stop |-> "stop", allow |-> "allow", on |-> "activate", health |-> "health",
         ack |-> "acknowledge", nfc |-> "nfc_stop", photo |-> "push_photo",
         look |-> "health", forbidden |-> "switch_off"]

MCRequests == DOMAIN MCOp
MCClientOf == [r \in MCRequests |-> CASE r \in {"photo", "look"} -> <<p1, sim>>
                                      [] r = "forbidden" -> <<p1, shown>>
                                      [] OTHER -> <<p1, krk>>]
MCTogether == {{"stop", "health"}, {"health", "look"}, {"photo"}, {"on"}, {"ack"}, {"nfc"},
               {"allow"}, {"forbidden"}}
MCClients   == {p1} \X {krk, sim, shown}
MCServerOf  == [c \in MCClients |-> c[2]]
MCProcessOf == [c \in MCClients |-> c[1]]
MCMarinaOf  == krk :> "own" @@ sim :> "demo" @@ shown :> "demo"
=============================================================================
