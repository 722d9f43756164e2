-------------------------------- MODULE MCBot --------------------------------
(* Values of Bot's constants for TLC.                                      *)
EXTENDS BotProperties

CONSTANTS c1, c2, p1, p2

TwoProviders == <<p1, p2>>
OneProvider == <<p1>>
=============================================================================
