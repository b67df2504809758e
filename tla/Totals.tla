------------------------------- MODULE Totals -------------------------------
(* What a function into the naturals adds up to over a finite set: one unit  *)
(* for each of the values it takes there, counted.  The definition recurses  *)
(* nowhere, so that sums may be reasoned about as sets.                      *)
EXTENDS Integers, FiniteSets

Tallies(f, S) == UNION {{x} \X (1 .. f[x]) : x \in S}
Total(f, S) == Cardinality(Tallies(f, S))
=============================================================================
