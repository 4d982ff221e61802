--------------------------- MODULE GatewayMishaps ---------------------------
(***************************************************************************)
(* The gateway processes, and the mishaps they share: crashes, restarts,   *)
(* lost answers and failing calls, counted to bound them and to say what   *)
(* each of them costs.                                                     *)
(***************************************************************************)
EXTENDS Naturals

CONSTANTS
    Slots,         \* pids at which a gateway may run
    MaxMishaps     \* bound on mishaps

ASSUME MishapAssumption == MaxMishaps \in Nat

VARIABLE mishaps     \* mishaps so far

Mishap == mishaps < MaxMishaps /\ mishaps' = mishaps + 1
=============================================================================
