--------------------------- MODULE MCWaveDelivery ---------------------------
(* The instance TLC checks WaveDelivery on. *)
EXTENDS WaveDelivery, TLC

CONSTANTS m1, m2, m3

=============================================================================
