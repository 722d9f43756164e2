--------------------------- MODULE MCSecretRegistry ---------------------------
(* Values of SecretRegistry's constants for TLC: one value inside another, *)
(* and a third one on its own.                                             *)
EXTENDS SecretRegistry

CONSTANTS part, whole, other

Lengths == [v \in Values |-> IF v = part THEN 1 ELSE IF v = whole THEN 2 ELSE 1]
Inside == {<<part, whole>>}
=============================================================================
