----------------------------- MODULE MCDerivation -----------------------------
(* Instances of Derivation for TLC.                                        *)
EXTENDS Derivation

MCTools == {0, 1, 2}
MCAlternating(req) == {1 + (req % 2)}
MCUnit == {1}
MCEveryKind == RowKinds
MCAnyResponse == {TRUE, FALSE}
=============================================================================
