----------------------------- MODULE MCRecovery -----------------------------
(* Two archives of two records each for RecoveryChannel: a record is a     *)
(* header of flags and length, and its payload.                            *)
EXTENDS RecoveryChannel, TLC

CONSTANTS a1, a2

MCStream == a1 :> <<0, 1, 7, 1, 0>> @@ a2 :> <<1, 0, 0, 1, 9>>
=============================================================================
