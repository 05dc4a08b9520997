-------------------------------- MODULE Sums --------------------------------
(***************************************************************************)
(* Sums of natural-valued functions over finite sets, as the cardinality   *)
(* of a disjoint union of intervals: the form that needs no recursion, so  *)
(* that the lemmas below follow from the theory of finite sets.            *)
(***************************************************************************)
EXTENDS Integers, Sequences, FiniteSets

Blocks(S, f) == UNION {{x} \X (1..f[x]) : x \in S}

\* The sum of f[x] for x in S.
SumOf(S, f) == Cardinality(Blocks(S, f))

====
