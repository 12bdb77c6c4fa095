---------------------------- MODULE AlertRounds ----------------------------
(***************************************************************************)
(* What the deadline alert task promises, with runs, settings, history    *)
(* rows and dispatch left out.  A project in the 24-hour window is        *)
(* alerted in rounds: a round opens, alerts some of the project's         *)
(* contributors, each once, and ends.  A round that alerted nobody leaves *)
(* the project open for a later round; a round that alerted anyone closes *)
(* it for good, so a project's alerts all come from one round.            *)
(***************************************************************************)
CONSTANTS Users, Projects

VARIABLES round,    \* Projects -> "open", "alerting" or "closed"
          alerted   \* Projects -> the users alerted for it

avars == <<round, alerted>>

AInit ==
    /\ round = [p \in Projects |-> "open"]
    /\ alerted = [p \in Projects |-> {}]

Begin(p) ==
    /\ round[p] = "open"
    /\ round'[p] = "alerting"
    /\ round' = [round EXCEPT ![p] = "alerting"]
    /\ UNCHANGED alerted

Alert(p, u) ==
    /\ round[p] = "alerting"
    /\ u \notin alerted[p]
    /\ u \in alerted'[p]
    /\ alerted' = [alerted EXCEPT ![p] = @ \cup {u}]
    /\ UNCHANGED round

Finish(p) ==
    /\ round[p] = "alerting"
    /\ round'[p] # "alerting"
    /\ round' = [round EXCEPT ![p] = IF alerted[p] = {} THEN "open" ELSE "closed"]
    /\ UNCHANGED alerted

(* Each action first tests the one entry it changes, then states the whole *)
(* new function.                                                          *)
ANext == \E p \in Projects : Begin(p) \/ Finish(p) \/ \E u \in Users : Alert(p, u)

ASpec == AInit /\ [][ANext]_avars

=============================================================================
