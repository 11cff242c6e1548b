---------------------------- MODULE MCUnixLocks -----------------------------
(***************************************************************************)
(* The application with three handles and an extension with one.           *)
(***************************************************************************)
EXTENDS UnixLocks, TLC

CONSTANTS a, b, c, d

MCOwner == [f \in Files |-> IF f = d THEN "extension" ELSE "app"]

\* a and b are both writers of the application, used by threads of the same kind.
MCSymmetry == Permutations({a, b})
=============================================================================
