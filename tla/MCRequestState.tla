--------------------------- MODULE MCRequestState ---------------------------
(* An instance of RequestState for TLC: a request that ends well and one    *)
(* that is cancelled are enough to tell two Terminals apart.                *)
EXTENDS RequestState

MCStatuses == {"Ok", "Cancelled"}

====
