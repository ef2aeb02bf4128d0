--------------------------- MODULE MCSymcachePlan ---------------------------
(* Declarations for the model checking of SymcachePlan.                    *)
EXTENDS SymcachePlan

(* Two prefilters of different priorities, a filter, a postfilter and,     *)
(* registered later, a composite; validate raises the priority of 1.       *)
HoistSym == 1..5
HoistLate == {5}
HoistType == <<"PREFILTER", "PREFILTER", "FILTER", "POSTFILTER", "COMPOSITE">>
HoistPriority == <<0, 1, 0, 0, 0>>
HoistNegative == {1}
=============================================================================
