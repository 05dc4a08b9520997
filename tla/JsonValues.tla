----------------------------- MODULE JsonValues -----------------------------
(***************************************************************************)
(* JSON values as the two parsers of the IPC see them: a kind and a value. *)
(* An object is a function from its field names to values, an array a      *)
(* sequence of values.  Floats are counted in units, One of which is 1.0;  *)
(* MaxDouble is the largest finite double.  MaxI32, MaxU32 and MaxU64 are  *)
(* the limits of the integer types: only their order matters.              *)
(***************************************************************************)
EXTENDS Integers, Sequences

CONSTANTS MaxI32, MaxU32, MaxU64, One, MaxDouble

ASSUME WidthsOrdered ==
    /\ MaxI32 \in Nat /\ MaxU32 \in Nat /\ MaxU64 \in Nat
    /\ 1 <= MaxI32 /\ MaxI32 < MaxU32 /\ MaxU32 < MaxU64
    /\ One \in Nat \ {0} /\ MaxDouble \in Nat /\ 2 * One <= MaxDouble

Num(n) == [kind |-> "int", val |-> n]
Flt(u) == [kind |-> "float", val |-> u]
Str(s) == [kind |-> "string", val |-> s]
Bool(b) == [kind |-> "bool", val |-> b]
Null == [kind |-> "null", val |-> 0]
Arr(s) == [kind |-> "array", val |-> s]
Obj(f) == [kind |-> "object", val |-> f]

\* Values are made of a kind and a value, objects are functions, of values.
IsValue(x) ==
    /\ x = [kind |-> x.kind, val |-> x.val]
    /\ x.kind = "object" => x.val = [f \in DOMAIN x.val |-> x.val[f]]
IsObject(x) == IsValue(x) /\ x.kind = "object" /\ \A f \in DOMAIN x.val : IsValue(x.val[f])

IsInt(x) == x.kind = "int" /\ x.val \in Int
IsNumber(x) == IsInt(x) \/ (x.kind = "float" /\ x.val \in Int)

\* A number as a double, in units.
Units(x) == IF x.kind = "int" THEN x.val * One ELSE x.val
IsFinite(x) == -MaxDouble <= Units(x) /\ Units(x) <= MaxDouble

====
