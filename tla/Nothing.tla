------------------------------ MODULE Nothing ------------------------------
(* What the code writes null or undefined: it is no number.                    *)
EXTENDS Naturals

CONSTANT None

ASSUME NoneAssumption == None \notin Nat
=============================================================================
