----------------------------- MODULE FiniteSums -----------------------------
(* The sum of a function from a finite set to the naturals, counted: f[x]  *)
(* units for each x. (A fold computes the same; of a cardinality one can   *)
(* prove what the sum is when an argument joins or leaves.)                *)
EXTENDS Naturals, FiniteSets

Units(f) == UNION {{x} \X (1..f[x]) : x \in DOMAIN f}

Sum(f) == Cardinality(Units(f))
=============================================================================
