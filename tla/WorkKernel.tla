----------------------------- MODULE WorkKernel -----------------------------
(***************************************************************************)
(* WorkKernelStore (m4a_work_kernel.py): WorkItems, their runs, waits,     *)
(* leases, resource claims and transition facts in one SQLite database.    *)
(* Every operation is one immediate transaction (_write), so it is one     *)
(* action here; a crash before or inside it leaves the rows as they were,  *)
(* and a lost answer is a Restart of the caller.                           *)
(*                                                                         *)
(* What a caller passes is what it was told earlier: the lease of its last *)
(* acquire_lease and the state_version of its last query.  Both may be     *)
(* stale.  A call that is refused, or that the code answers as a replay of *)
(* an earlier one, changes no row and is a stuttering step.                *)
(***************************************************************************)
EXTENDS Naturals, Sequences

CONSTANTS
    Workers,        \* processes that call the kernel
    Faulty,         \* workers that may lose what they know and stop calling
    Works,          \* work_ids
    Resources,      \* resource_keys
    Runs,           \* run_ids
    Waits,          \* wait_ids
    LeaseIds,       \* lease_ids
    Owners,         \* owner_ids
    Owner,          \* [Workers -> Owners]
    LeaseIdsOf,     \* [Workers -> SUBSET LeaseIds]: the ids a worker asks for
    Outcomes,       \* outcomes of a run
    MaxFence,       \* model bound on the fence of a lease
    None            \* no row, no value

ASSUME KernelAssumption ==
    /\ Faulty \subseteq Workers
    /\ Owner \in [Workers -> Owners]
    /\ LeaseIdsOf \in [Workers -> SUBSET LeaseIds]
    /\ MaxFence \in Nat
    /\ None \notin Works /\ None \notin LeaseIds /\ None \notin Owners /\ None \notin Outcomes

VARIABLES
    work,           \* m4a_work_items
    lease,          \* m4a_leases, one row for a WorkItem
    claim,          \* m4a_resource_claims, one row for a resource
    run,            \* m4a_runs
    wait,           \* m4a_waits
    facts,          \* m4a_transition_facts; the state_version is the index minus one
    mine,           \* mine[p][k]: the lease of k that p was last given
    seen            \* seen[p][k]: the state_version of k that p last read

rows == <<work, lease, claim, run, wait, facts>>
vars == <<work, lease, claim, run, wait, facts, mine, seen>>

Dispositions == {"ABSENT", "READY", "RUNNING", "WAITING", "FINISHED"}
WorkRow == [disposition : Dispositions, version : Nat]
LeaseRow == [id : LeaseIds \cup {None}, owner : Owners \cup {None}, fence : Nat,
             state : {"NONE", "ACTIVE", "EXPIRED", "RELEASED"}]
ClaimRow == [work : Works \cup {None}, id : LeaseIds \cup {None}, fence : Nat,
             state : {"NONE", "HELD", "RELEASED"}]
RunRow == [work : Works \cup {None}, id : LeaseIds \cup {None}, fence : Nat,
           status : {"NONE", "ACTIVE", "FINISHED"}, outcome : Outcomes \cup {None}]
WaitRow == [work : Works \cup {None}, status : {"NONE", "OPEN", "RESOLVED"}]
Fact == [from : Dispositions, to : Dispositions]
Credential == [id : LeaseIds \cup {None}, fence : Nat]

TypeOK ==
    /\ work \in [Works -> WorkRow]
    /\ lease \in [Works -> LeaseRow]
    /\ claim \in [Resources -> ClaimRow]
    /\ run \in [Runs -> RunRow]
    /\ wait \in [Waits -> WaitRow]
    /\ facts \in [Works -> Seq(Fact)]
    /\ mine \in [Workers -> [Works -> Credential]]
    /\ seen \in [Workers -> [Works -> Nat]]

Init ==
    /\ work = [k \in Works |-> [disposition |-> "ABSENT", version |-> 0]]
    /\ lease = [k \in Works |-> [id |-> None, owner |-> None, fence |-> 0, state |-> "NONE"]]
    /\ claim = [r \in Resources |-> [work |-> None, id |-> None, fence |-> 0, state |-> "NONE"]]
    /\ run = [x \in Runs |-> [work |-> None, id |-> None, fence |-> 0,
                              status |-> "NONE", outcome |-> None]]
    /\ wait = [y \in Waits |-> [work |-> None, status |-> "NONE"]]
    /\ facts = [k \in Works |-> <<>>]
    /\ mine = [p \in Workers |-> [k \in Works |-> [id |-> None, fence |-> 0]]]
    /\ seen = [p \in Workers |-> [k \in Works |-> 0]]

-----------------------------------------------------------------------------
(* What the operations read and write *)

Exists(k) == work[k].disposition # "ABSENT"
Active(x, k) == run[x].work = k /\ run[x].status = "ACTIVE"
Open(y, k) == wait[y].work = k /\ wait[y].status = "OPEN"
Holds(r, k) == claim[r].work = k /\ claim[r].state = "HELD"

(* assert_current_lease and _require_lease: the lease row is the one the   *)
(* caller names and has not been released or expired.                      *)
CurrentLease(p, k) ==
    /\ lease[k].state = "ACTIVE"
    /\ lease[k].id = mine[p][k].id
    /\ lease[k].fence = mine[p][k].fence

(* _expect_version *)
CurrentVersion(p, k) == seen[p][k] = work[k].version

(* The row was written under the lease the caller names. *)
Owned(row, p, k) == row.id = mine[p][k].id /\ row.fence = mine[p][k].fence

(* _bump_work and _append_fact, in the same transaction. *)
Transition(k, to) ==
    /\ work' = [work EXCEPT ![k] = [disposition |-> to, version |-> @.version + 1]]
    /\ facts' = [facts EXCEPT ![k] = Append(@, [from |-> work[k].disposition, to |-> to])]

-----------------------------------------------------------------------------
(* WorkItems and leases *)

(* create_work_item *)
CreateWork(k) ==
    /\ ~Exists(k)
    /\ work' = [work EXCEPT ![k] = [disposition |-> "READY", version |-> 0]]
    /\ facts' = [facts EXCEPT ![k] = <<[from |-> "ABSENT", to |-> "READY"]>>]
    /\ UNCHANGED <<lease, claim, run, wait, mine, seen>>

(* acquire_lease by the owner of a valid lease, with its id: the expiry is *)
(* extended and the caller, perhaps another process of the same owner,     *)
(* gets the lease as it is.                                                *)
RenewLease(p, k, id) ==
    /\ Exists(k)
    /\ lease[k].state = "ACTIVE" /\ lease[k].id = id /\ lease[k].owner = Owner[p]
    /\ mine' = [mine EXCEPT ![p][k] = [id |-> id, fence |-> lease[k].fence]]
    /\ UNCHANGED <<work, lease, claim, run, wait, facts, seen>>

(* Mutant: the claims of the WorkItem keep the lease they were made under. *)
AcquireWithoutHandoff(p, k, id) ==
    /\ Exists(k)
    /\ lease[k].state # "ACTIVE"
    /\ \A j \in Works \ {k} : lease[j].id # id
    /\ lease[k].fence + 1 < MaxFence \/ (lease[k].fence < MaxFence /\ p \notin Faulty)
    /\ LET fence == lease[k].fence + 1 IN
          /\ lease' = [lease EXCEPT ![k] = [id |-> id, owner |-> Owner[p], fence |-> fence,
                                            state |-> "ACTIVE"]]
          /\ mine' = [mine EXCEPT ![p][k] = [id |-> id, fence |-> fence]]
    /\ UNCHANGED <<work, claim, run, wait, facts, seen>>

(* Mutant: the fence of a lease that was released starts again. *)
AcquireReusedFence(p, k, id) ==
    /\ Exists(k)
    /\ lease[k].state # "ACTIVE"
    /\ \A j \in Works \ {k} : lease[j].id # id
    /\ LET fence == IF lease[k].state = "EXPIRED" THEN lease[k].fence + 1 ELSE 1 IN
          /\ fence < MaxFence \/ (fence = MaxFence /\ p \notin Faulty)
          /\ lease' = [lease EXCEPT ![k] = [id |-> id, owner |-> Owner[p], fence |-> fence,
                                            state |-> "ACTIVE"]]
          /\ claim' = [r \in Resources |->
                          IF Holds(r, k) THEN [claim[r] EXCEPT !.id = id, !.fence = fence]
                          ELSE claim[r]]
          /\ mine' = [mine EXCEPT ![p][k] = [id |-> id, fence |-> fence]]
    /\ UNCHANGED <<work, run, wait, facts, seen>>

(* acquire_lease of a WorkItem that has no valid lease: the next fence, and*)
(* the claims of the WorkItem go over to it.  The last lease the bound     *)
(* allows goes to a worker that does not stop.                             *)
AcquireLease(p, k, id) ==
    /\ Exists(k)
    /\ lease[k].state # "ACTIVE"
    /\ \A j \in Works \ {k} : lease[j].id # id
    /\ lease[k].fence + 1 < MaxFence \/ (lease[k].fence < MaxFence /\ p \notin Faulty)
    /\ LET fence == lease[k].fence + 1 IN
          /\ lease' = [lease EXCEPT ![k] = [id |-> id, owner |-> Owner[p], fence |-> fence,
                                            state |-> "ACTIVE"]]
          /\ claim' = [r \in Resources |->
                          IF Holds(r, k) THEN [claim[r] EXCEPT !.id = id, !.fence = fence]
                          ELSE claim[r]]
          /\ mine' = [mine EXCEPT ![p][k] = [id |-> id, fence |-> fence]]
    /\ UNCHANGED <<work, run, wait, facts, seen>>

(* Mutant: the released row is cleared, and its fence with it. *)
ReleaseClearsRow(p, k) ==
    /\ CurrentLease(p, k)
    /\ \A r \in Resources : ~Holds(r, k)
    /\ lease[k].fence < MaxFence
    /\ lease' = [lease EXCEPT ![k] = [id |-> None, owner |-> None, fence |-> None,
                                      state |-> "RELEASED"]]
    /\ UNCHANGED <<work, claim, run, wait, facts, mine, seen>>

(* release_lease, refused while the WorkItem holds a resource. *)
ReleaseLease(p, k) ==
    /\ CurrentLease(p, k)
    /\ \A r \in Resources : ~Holds(r, k)
    /\ lease[k].fence < MaxFence
    /\ lease' = [lease EXCEPT ![k].state = "RELEASED"]
    /\ UNCHANGED <<work, claim, run, wait, facts, mine, seen>>

(* expires_at passes.  The last lease the bound allows does not expire. *)
Expire(k) ==
    /\ lease[k].state = "ACTIVE"
    /\ lease[k].fence < MaxFence
    /\ lease' = [lease EXCEPT ![k].state = "EXPIRED"]
    /\ UNCHANGED <<work, claim, run, wait, facts, mine, seen>>

-----------------------------------------------------------------------------
(* Resource claims *)

(* claim_resource with the lease c *)
ClaimResource(c, k, r) ==
    /\ work[k].disposition \notin {"ABSENT", "FINISHED"}
    /\ lease[k].state = "ACTIVE" /\ lease[k].id = c.id /\ lease[k].fence = c.fence
    /\ \A s \in Resources : ~Holds(s, k)
    /\ claim[r].state # "HELD"
    /\ claim' = [claim EXCEPT ![r] = [work |-> k, id |-> c.id, fence |-> c.fence,
                                      state |-> "HELD"]]
    /\ UNCHANGED <<work, lease, run, wait, facts, mine, seen>>

(* An adapter that works for the active run, whoever calls it, claims with *)
(* the lease of that run.                                                  *)
ClaimForRun(k, x, r) ==
    /\ Active(x, k)
    /\ ClaimResource([id |-> run[x].id, fence |-> run[x].fence], k, r)

(* release_resource, refused while the active run of the WorkItem belongs  *)
(* to an older lease.                                                      *)
ReleaseResource(p, k, r) ==
    /\ CurrentLease(p, k)
    /\ Holds(r, k) /\ Owned(claim[r], p, k)
    /\ \A x \in Runs : Active(x, k) => Owned(run[x], p, k)
    /\ claim' = [claim EXCEPT ![r].state = "RELEASED"]
    /\ UNCHANGED <<work, lease, run, wait, facts, mine, seen>>

-----------------------------------------------------------------------------
(* Runs and waits *)

(* start_run.  A run_id that exists is a replay or a conflict. *)
StartRun(p, k, x) ==
    /\ run[x].status = "NONE"
    /\ Exists(k) /\ CurrentVersion(p, k)
    /\ work[k].disposition = "READY"
    /\ CurrentLease(p, k)
    /\ \A z \in Runs : ~Active(z, k)
    /\ run' = [run EXCEPT ![x] = [work |-> k, id |-> mine[p][k].id, fence |-> mine[p][k].fence,
                                  status |-> "ACTIVE", outcome |-> None]]
    /\ Transition(k, "RUNNING")
    /\ UNCHANGED <<lease, claim, wait, mine, seen>>

(* enter_wait, by the owner of the active run. *)
EnterWait(p, k, y) ==
    /\ wait[y].status = "NONE"
    /\ CurrentVersion(p, k)
    /\ work[k].disposition = "RUNNING"
    /\ CurrentLease(p, k)
    /\ \E x \in Runs : Active(x, k) /\ Owned(run[x], p, k)
    /\ wait' = [wait EXCEPT ![y] = [work |-> k, status |-> "OPEN"]]
    /\ Transition(k, "WAITING")
    /\ UNCHANGED <<lease, claim, run, mine, seen>>

(* Mutant: a run stays with the lease id it was started under. *)
AdoptSameLease(p, k, x) ==
    /\ CurrentVersion(p, k)
    /\ work[k].disposition = "RUNNING"
    /\ CurrentLease(p, k)
    /\ Active(x, k)
    /\ run[x].id = mine[p][k].id
    /\ run[x].fence < mine[p][k].fence
    /\ run' = [run EXCEPT ![x].id = mine[p][k].id, ![x].fence = mine[p][k].fence]
    /\ Transition(k, "RUNNING")
    /\ UNCHANGED <<lease, claim, wait, mine, seen>>

(* adopt_active_run: the run of an older lease goes over to the current    *)
(* one.  Only a RUNNING WorkItem can adopt.                                *)
AdoptActiveRun(p, k, x) ==
    /\ CurrentVersion(p, k)
    /\ work[k].disposition = "RUNNING"
    /\ CurrentLease(p, k)
    /\ Active(x, k)
    /\ run[x].fence < mine[p][k].fence
    /\ run' = [run EXCEPT ![x].id = mine[p][k].id, ![x].fence = mine[p][k].fence]
    /\ Transition(k, "RUNNING")
    /\ UNCHANGED <<lease, claim, wait, mine, seen>>

(* Mutant: the WorkItem runs again and its wait stays open. *)
ResolveNothing(p, k, y) ==
    /\ Open(y, k)
    /\ CurrentVersion(p, k)
    /\ work[k].disposition = "WAITING"
    /\ CurrentLease(p, k)
    /\ Transition(k, "READY")
    /\ UNCHANGED <<lease, claim, run, wait, mine, seen>>

(* resolve_wait.  It does not ask who owns the run. *)
ResolveWait(p, k, y) ==
    /\ Open(y, k)
    /\ CurrentVersion(p, k)
    /\ work[k].disposition = "WAITING"
    /\ CurrentLease(p, k)
    /\ wait' = [wait EXCEPT ![y].status = "RESOLVED"]
    /\ Transition(k, "READY")
    /\ UNCHANGED <<lease, claim, run, mine, seen>>

(* Mutant: a waiting WorkItem may be finished. *)
FinishAnyDisposition(p, k, x, outcome) ==
    /\ Active(x, k)
    /\ CurrentVersion(p, k)
    /\ CurrentLease(p, k)
    /\ Owned(run[x], p, k)
    /\ run' = [run EXCEPT ![x].status = "FINISHED", ![x].outcome = outcome]
    /\ Transition(k, "FINISHED")
    /\ UNCHANGED <<lease, claim, wait, mine, seen>>

(* Mutant: the current row is changed and no fact is appended. *)
FinishWithoutFact(p, k, x, outcome) ==
    /\ Active(x, k)
    /\ CurrentVersion(p, k)
    /\ work[k].disposition \in {"RUNNING", "READY"}
    /\ CurrentLease(p, k)
    /\ Owned(run[x], p, k)
    /\ run' = [run EXCEPT ![x].status = "FINISHED", ![x].outcome = outcome]
    /\ work' = [work EXCEPT ![k] = [disposition |-> "FINISHED", version |-> @.version + 1]]
    /\ UNCHANGED <<lease, claim, wait, facts, mine, seen>>

(* finish_run, by the owner of the active run. *)
FinishRun(p, k, x, outcome) ==
    /\ Active(x, k)
    /\ CurrentVersion(p, k)
    /\ work[k].disposition \in {"RUNNING", "READY"}
    /\ CurrentLease(p, k)
    /\ Owned(run[x], p, k)
    /\ run' = [run EXCEPT ![x].status = "FINISHED", ![x].outcome = outcome]
    /\ Transition(k, "FINISHED")
    /\ UNCHANGED <<lease, claim, wait, mine, seen>>

-----------------------------------------------------------------------------
(* The callers *)

(* query *)
Query(p, k) ==
    /\ Exists(k)
    /\ seen' = [seen EXCEPT ![p][k] = work[k].version]
    /\ UNCHANGED <<work, lease, claim, run, wait, facts, mine>>

(* A worker crashes, or the answer to its call is lost. *)
Restart(p) ==
    /\ p \in Faulty
    /\ mine' = [mine EXCEPT ![p] = [k \in Works |-> [id |-> None, fence |-> 0]]]
    /\ seen' = [seen EXCEPT ![p] = [k \in Works |-> 0]]
    /\ UNCHANGED rows

Call(p, k) ==
    \/ \E id \in LeaseIdsOf[p] : RenewLease(p, k, id) \/ AcquireLease(p, k, id)
    \/ ReleaseLease(p, k)
    \/ \E r \in Resources : ClaimResource(mine[p][k], k, r) \/ ReleaseResource(p, k, r)
    \/ \E x \in Runs : StartRun(p, k, x) \/ AdoptActiveRun(p, k, x)
    \/ \E x \in Runs, outcome \in Outcomes : FinishRun(p, k, x, outcome)
    \/ \E y \in Waits : EnterWait(p, k, y) \/ ResolveWait(p, k, y)
    \/ Query(p, k)

Next ==
    \/ \E k \in Works : CreateWork(k) \/ Expire(k)
    \/ \E k \in Works, x \in Runs, r \in Resources : ClaimForRun(k, x, r)
    \/ \E p \in Workers, k \in Works : Call(p, k)
    \/ \E p \in Workers : Restart(p)

Spec == Init /\ [][Next]_vars

(* A lease that nobody releases expires; a worker that does not stop comes *)
(* back to the WorkItem and takes the recovery steps open to it.  Whether  *)
(* a wait is entered, a run is started or a resource released is nobody's  *)
(* duty.                                                                   *)
Fairness ==
    /\ \A k \in Works : WF_vars(Expire(k))
    /\ \A p \in Workers \ Faulty, k \in Works :
          /\ WF_vars(\E id \in LeaseIdsOf[p] : AcquireLease(p, k, id))
          /\ WF_vars(Query(p, k))
          /\ WF_vars(\E x \in Runs : AdoptActiveRun(p, k, x))
          /\ WF_vars(\E y \in Waits : ResolveWait(p, k, y))
          /\ WF_vars(\E x \in Runs, outcome \in Outcomes : FinishRun(p, k, x, outcome))

FairSpec == Spec /\ Fairness

-----------------------------------------------------------------------------
(* Properties *)

(* The disposition of a WorkItem, its runs and its waits tell one story:   *)
(* it has one active run from start_run to finish_run and none outside,    *)
(* and one open wait exactly while it is WAITING, whoever held the lease in *)
(* the steps between.                                                      *)
RunsMatchDisposition ==
    /\ \A x \in Runs : run[x].status = "ACTIVE" =>
          work[run[x].work].disposition \in {"READY", "RUNNING", "WAITING"}
    /\ \A k \in Works : work[k].disposition \in {"RUNNING", "WAITING"} =>
          \E x \in Runs : Active(x, k)
    /\ \A x, z \in Runs : run[x].status = "ACTIVE" /\ Active(z, run[x].work) => x = z
    /\ \A y \in Waits : wait[y].status = "OPEN" => work[wait[y].work].disposition = "WAITING"
    /\ \A k \in Works : work[k].disposition = "WAITING" =>
          \E y \in Waits : Open(y, k)
    /\ \A y, z \in Waits : wait[y].status = "OPEN" /\ Open(z, wait[y].work) => y = z

(* A held resource belongs to the lease its WorkItem has now: a handoff    *)
(* takes the claim along (acquire_lease), and no lease is given back under *)
(* a held claim.  A WorkItem holds one resource.                           *)
ClaimFollowsLease ==
    \A r \in Resources : claim[r].state = "HELD" =>
        LET k == claim[r].work IN
        /\ claim[r].id = lease[k].id /\ claim[r].fence = lease[k].fence
        /\ lease[k].state \in {"ACTIVE", "EXPIRED"}
        /\ \A s \in Resources : Holds(s, k) => s = r

(* The fence alone tells the owners of a WorkItem apart: whoever knows the *)
(* current fence was given it under the lease id and the owner of the row, *)
(* so a worker that was replaced never passes for the current one, and the *)
(* active run is never ahead of the lease.                                 *)
FenceNamesOwner ==
    /\ \A p \in Workers, k \in Works : mine[p][k].fence > 0 =>
          /\ mine[p][k].fence <= lease[k].fence
          /\ mine[p][k].fence = lease[k].fence =>
                mine[p][k].id = lease[k].id /\ Owner[p] = lease[k].owner
    /\ \A x \in Runs : run[x].status = "ACTIVE" => run[x].fence <= lease[run[x].work].fence

(* The facts of a WorkItem are a complete account of its state_version:    *)
(* one for each version, each beginning where the one before it ended, the *)
(* last one at the current disposition.                                    *)
FactsTellState ==
    \A k \in Works : Exists(k) =>
        /\ Len(facts[k]) = work[k].version + 1
        /\ facts[k][Len(facts[k])].to = work[k].disposition
        /\ \A i \in 1..(Len(facts[k]) - 1) : facts[k][i].to = facts[k][i + 1].from

(* The kernel implements WorkLifecycle: leases, fences, versions and       *)
(* replays are invisible in what a WorkItem goes through.                  *)
Phase(k) ==
    CASE work[k].disposition = "ABSENT" -> "absent"
      [] work[k].disposition = "READY" ->
            IF \E x \in Runs : Active(x, k) THEN "resumed" ELSE "ready"
      [] work[k].disposition = "RUNNING" -> "running"
      [] work[k].disposition = "WAITING" -> "waiting"
      [] work[k].disposition = "FINISHED" -> "finished"

Lifecycle == INSTANCE WorkLifecycle WITH
    Nobody <- None,
    phase <- [k \in Works |-> Phase(k)],
    holder <- [r \in Resources |-> IF claim[r].state = "HELD" THEN claim[r].work ELSE None]

LifecycleKept == Lifecycle!Spec

(* The run was resumed under a newer lease than the one that owns it: no   *)
(* operation of the kernel can finish it or hand it over any more.         *)
Orphaned(x) ==
    /\ run[x].status = "ACTIVE"
    /\ work[run[x].work].disposition = "READY"
    /\ run[x].fence < lease[run[x].work].fence

(* A started run finishes although its worker stops and its lease changes  *)
(* hands, by way of adopt_active_run, unless a handoff met it in a wait.   *)
RunsFinish ==
    \A x \in Runs :
        run[x].status = "ACTIVE" ~> (run[x].status = "FINISHED" \/ Orphaned(x))

(* adopt_active_run says that it transfers an interrupted active Run to    *)
(* the current fenced owner: a run finishes wherever the handoff met it.   *)
EveryRunFinishes ==
    \A x \in Runs : run[x].status = "ACTIVE" ~> run[x].status = "FINISHED"
=============================================================================
