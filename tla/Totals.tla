-------------------------------- MODULE Totals --------------------------------
(***************************************************************************)
(* The sum of a function into the naturals, counted in units: a set with   *)
(* f[x] elements for every x.  The sum of a function into the integers is  *)
(* what is above zero less what is below.                                  *)
(***************************************************************************)
EXTENDS Integers, FiniteSets

Units(f) == UNION {{x} \X (1 .. f[x]) : x \in DOMAIN f}
Total(f) == Cardinality(Units(f))

Above(n) == IF n > 0 THEN n ELSE 0
Below(n) == IF n < 0 THEN -n ELSE 0
IntTotal(f) ==
  Total([x \in DOMAIN f |-> Above(f[x])]) - Total([x \in DOMAIN f |-> Below(f[x])])
===============================================================================
