---------------------------- MODULE WriterMutex ----------------------------
(***************************************************************************)
(* What the writers of the event store are promised by their lock: at most *)
(* one of them is inside it, and it passes from one to the next only by    *)
(* becoming free.  EventLock implements it; EventStore relies on it.       *)
(***************************************************************************)
CONSTANTS Writers, Nobody

VARIABLE holder

Init == holder = Nobody

Acquire(w) == holder = Nobody /\ holder' = w

\* __exit__, or the death of the holder.
Release(w) == holder = w /\ holder' = Nobody

Next == \E w \in Writers : Acquire(w) \/ Release(w)

Spec == Init /\ [][Next]_holder
=============================================================================
