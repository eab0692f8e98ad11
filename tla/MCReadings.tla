------------------------------ MODULE MCReadings ------------------------------
(* An instance of Readings for TLC, with negative numbers among the values.*)
EXTENDS Readings, TLC

CONSTANTS s1, s2

MCNumbers == -2..2
=============================================================================
