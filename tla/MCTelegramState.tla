-------------------------- MODULE MCTelegramState ---------------------------
(* Two channels, one of them also read by the collector.                   *)
EXTENDS TelegramState, TLC

CONSTANTS a, b

OneHasTwo == 1 :> a @@ 2 :> a @@ 3 :> b

JobSymmetry == Permutations(Jobs)
=============================================================================
