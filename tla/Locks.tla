------------------------------- MODULE Locks -------------------------------
(* The four locks the threads of the cell controller meet: the mutexes of   *)
(* ControlState, of the MQTT client and of pull_slot, and the lock the MQTT *)
(* library takes for every call and holds while it runs the callback        *)
(* (external).                                                              *)

CONSTANT None   \* Option::None, and a lock that nobody holds

VARIABLE holder

Lock == {"control", "client", "slot", "library"}
Thread == {"logic", "emergency", "mqtt"}

Free(l) == holder[l] = None
Take(l, t) == Free(l) /\ holder' = [holder EXCEPT ![l] = t]
Release(ls) == holder' = [l \in Lock |-> IF l \in ls THEN None ELSE holder[l]]
=============================================================================
