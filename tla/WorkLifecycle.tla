--------------------------- MODULE WorkLifecycle ---------------------------
(***************************************************************************)
(* What the work kernel promises of a WorkItem, without leases, fences,    *)
(* versions or rows: it runs once, a wait suspends the run and resumes it  *)
(* (a resumed run can only finish), a finished item stays finished, and a  *)
(* resource has one holder, which holds no other.                          *)
(***************************************************************************)
CONSTANTS Works, Resources, Nobody

VARIABLES
    phase,          \* phase[k]: where WorkItem k is
    holder          \* holder[r]: the WorkItem that holds resource r, or Nobody

lifecycle == <<phase, holder>>

Init ==
    /\ phase = [k \in Works |-> "absent"]
    /\ holder = [r \in Resources |-> Nobody]

Move(k, from, to) ==
    /\ phase[k] = from
    /\ phase' = [phase EXCEPT ![k] = to]
    /\ UNCHANGED holder

Take(k, r) ==
    /\ phase[k] \notin {"absent", "finished"}
    /\ holder[r] = Nobody
    /\ \A s \in Resources : holder[s] # k
    /\ holder' = [holder EXCEPT ![r] = k]
    /\ UNCHANGED phase

Drop(r) ==
    /\ holder[r] # Nobody
    /\ holder' = [holder EXCEPT ![r] = Nobody]
    /\ UNCHANGED phase

Next ==
    \/ \E k \in Works :
          \/ Move(k, "absent", "ready")
          \/ Move(k, "ready", "running")
          \/ Move(k, "running", "waiting")
          \/ Move(k, "waiting", "resumed")
          \/ Move(k, "running", "finished")
          \/ Move(k, "resumed", "finished")
          \/ \E r \in Resources : Take(k, r)
    \/ \E r \in Resources : Drop(r)

Spec == Init /\ [][Next]_lifecycle
=============================================================================
