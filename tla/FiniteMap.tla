------------------------------ MODULE FiniteMap ------------------------------
(***************************************************************************)
(* What hmap.h promises: a finite map, one operation per function, and the  *)
(* result each call gives its caller.                                       *)
(***************************************************************************)
CONSTANTS Keys, Values, None, AllocMayFail

VARIABLES map, ret

Init == map = [k \in Keys |-> None] /\ ret = <<>>

\* A key that is there keeps its value.
Add(k, v) ==
    \/ map[k] # None /\ ret' = <<"add", k, "found">> /\ UNCHANGED map
    \/ map[k] = None /\ ret' = <<"add", k, "ok">> /\ map' = [map EXCEPT ![k] = v]
    \/ map[k] = None /\ AllocMayFail /\ ret' = <<"add", k, "err">> /\ UNCHANGED map

Get(k) == ret' = <<"get", k, map[k]>> /\ UNCHANGED map

Contains(k) ==
    /\ ret' = <<"contains", k, IF map[k] # None THEN "found" ELSE "none">>
    /\ UNCHANGED map

Delete(k) == ret' = <<"delete", k, map[k]>> /\ map' = [map EXCEPT ![k] = None]

Clear == map' = [k \in Keys |-> None] /\ ret' = <<>>

Next ==
    \/ \E k \in Keys : Get(k) \/ Contains(k) \/ Delete(k) \/ \E v \in Values : Add(k, v)
    \/ Clear

Spec == Init /\ [][Next]_<<map, ret>>

=============================================================================
