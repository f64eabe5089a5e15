--------------------------- MODULE FirmwareUpdate ---------------------------
(***************************************************************************)
(* What the boot loader promises, without connections, pbufs or blocks:    *)
(* it stores an image from its first byte on, never disturbing what it has *)
(* stored, and hands over to it only when all of it is stored. A power     *)
(* failure loses everything that was not handed over.                      *)
(***************************************************************************)
EXTENDS Integers

CONSTANTS
    Lengths,  \* the lengths an image may have
    Chunk     \* most units that are stored at a time

VARIABLES
    run,      \* "off", "loader", "image" (an uploaded one) or "cold"
    stored,   \* how many units of the image are stored
    size      \* the length of the image that was handed over to

fuVars == <<run, stored, size>>

Init == run = "off" /\ stored = 0 /\ size = 0

\* Power-up with the boot pin low; with the pin high the image of an earlier life
\* runs, about which nothing is promised.
PowerUp == run = "off" /\ run' = "loader" /\ stored' = 0 /\ size' = 0

PowerUpCold == run = "off" /\ run' = "cold" /\ stored' = 0 /\ size' = 0

Store ==
    /\ run = "loader"
    /\ stored' - stored \in 1 .. Chunk
    /\ UNCHANGED <<run, size>>

HandOver ==
    /\ run = "loader"
    /\ size' \in {n \in Lengths : n <= stored}
    /\ run' = "image"
    /\ UNCHANGED stored

PowerDown == run # "off" /\ run' = "off" /\ stored' = 0 /\ size' = 0

Next == PowerUp \/ PowerUpCold \/ Store \/ HandOver \/ PowerDown

Spec == Init /\ [][Next]_fuVars
=============================================================================
