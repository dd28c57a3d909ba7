-------------------------- MODULE WorkKernelProofs --------------------------
(***************************************************************************)
(* Theorems about WorkKernel for any sets of workers, WorkItems, runs,     *)
(* waits and resources and any bound on the fences.                        *)
(***************************************************************************)
EXTENDS WorkKernel, TLAPS, SequenceTheorems

(* A row that says it is in use names a WorkItem. *)
RowsBound ==
    /\ \A r \in Resources : claim[r].state = "HELD" => claim[r].work \in Works
    /\ \A x \in Runs : run[x].status = "ACTIVE" => run[x].work \in Works
    /\ \A y \in Waits : wait[y].status = "OPEN" => wait[y].work \in Works

IInv ==
    /\ TypeOK
    /\ RowsBound
    /\ RunsMatchDisposition
    /\ ClaimFollowsLease
    /\ FenceNamesOwner
    /\ FactsTellState

-----------------------------------------------------------------------------
(* Types *)

LEMMA InitIInv == Init => IInv
<1> SUFFICES ASSUME Init PROVE IInv
  OBVIOUS
<1>1. TypeOK
  BY KernelAssumption, EmptySeq
  DEF Init, TypeOK, WorkRow, LeaseRow, ClaimRow, RunRow, WaitRow, Credential, Dispositions
<1>2. RowsBound /\ RunsMatchDisposition
  BY DEF Init, RowsBound, RunsMatchDisposition, Active
<1>3. ClaimFollowsLease /\ FenceNamesOwner /\ FactsTellState
  BY DEF Init, ClaimFollowsLease, FenceNamesOwner, FactsTellState, Exists
<1> QED
  BY <1>1, <1>2, <1>3 DEF IInv

LEMMA TransitionType ==
  ASSUME TypeOK, NEW k \in Works, NEW to \in Dispositions, Transition(k, to)
  PROVE  /\ work' \in [Works -> WorkRow]
         /\ facts' \in [Works -> Seq(Fact)]
<1>1. work[k] \in WorkRow
  BY DEF TypeOK
<1>2. [from |-> work[k].disposition, to |-> to] \in Fact
  BY <1>1 DEF WorkRow, Fact
<1>3. Append(facts[k], [from |-> work[k].disposition, to |-> to]) \in Seq(Fact)
  BY <1>2, AppendProperties DEF TypeOK
<1> QED
  BY <1>1, <1>3 DEF Transition, TypeOK, WorkRow

LEMMA TypeStep ==
  ASSUME TypeOK, [Next]_vars
  PROVE  TypeOK'
<1> USE DEF TypeOK
<1>1. ASSUME NEW k \in Works, CreateWork(k) PROVE TypeOK'
  <2>1. <<[from |-> "ABSENT", to |-> "READY"]>> \in Seq(Fact)
    BY DEF Fact, Dispositions
  <2> QED
    BY <1>1, <2>1 DEF CreateWork, WorkRow, Dispositions
<1>2. ASSUME NEW k \in Works, Expire(k) PROVE TypeOK'
  BY <1>2 DEF Expire, LeaseRow
<1>3. ASSUME NEW p \in Workers, NEW k \in Works, NEW id \in LeaseIdsOf[p], RenewLease(p, k, id)
      PROVE  TypeOK'
  BY <1>3, KernelAssumption DEF RenewLease, Credential, LeaseRow
<1>4. ASSUME NEW p \in Workers, NEW k \in Works, NEW id \in LeaseIdsOf[p], AcquireLease(p, k, id)
      PROVE  TypeOK'
  <2>1. id \in LeaseIds /\ Owner[p] \in Owners /\ lease[k].fence + 1 \in Nat
    BY KernelAssumption DEF LeaseRow
  <2>2. lease' \in [Works -> LeaseRow]
    BY <1>4, <2>1 DEF AcquireLease, LeaseRow
  <2>3. claim' \in [Resources -> ClaimRow]
    <3>1. ASSUME NEW r \in Resources
          PROVE  /\ claim[r] \in ClaimRow
                 /\ [claim[r] EXCEPT !.id = id, !.fence = lease[k].fence + 1] \in ClaimRow
      BY <2>1 DEF ClaimRow
    <3> QED
      BY <1>4, <3>1 DEF AcquireLease
  <2>4. mine' \in [Workers -> [Works -> Credential]]
    BY <1>4, <2>1 DEF AcquireLease, Credential
  <2> QED
    BY <1>4, <2>2, <2>3, <2>4 DEF AcquireLease
<1>5. ASSUME NEW p \in Workers, NEW k \in Works, ReleaseLease(p, k) PROVE TypeOK'
  BY <1>5 DEF ReleaseLease, LeaseRow
<1>6. ASSUME NEW c, NEW k \in Works, NEW r \in Resources, ClaimResource(c, k, r)
      PROVE  TypeOK'
  BY <1>6 DEF ClaimResource, ClaimRow, LeaseRow
<1>7. ASSUME NEW p \in Workers, NEW k \in Works, NEW r \in Resources, ReleaseResource(p, k, r)
      PROVE  TypeOK'
  BY <1>7 DEF ReleaseResource, ClaimRow
<1>8. ASSUME NEW p \in Workers, NEW k \in Works, NEW x \in Runs, StartRun(p, k, x)
      PROVE  TypeOK'
  <2>1. work' \in [Works -> WorkRow] /\ facts' \in [Works -> Seq(Fact)]
    BY <1>8, TransitionType DEF StartRun, Dispositions
  <2>2. run' \in [Runs -> RunRow]
    BY <1>8 DEF StartRun, RunRow, Credential
  <2> QED
    BY <1>8, <2>1, <2>2 DEF StartRun
<1>9. ASSUME NEW p \in Workers, NEW k \in Works, NEW x \in Runs, AdoptActiveRun(p, k, x)
      PROVE  TypeOK'
  <2>1. work' \in [Works -> WorkRow] /\ facts' \in [Works -> Seq(Fact)]
    BY <1>9, TransitionType DEF AdoptActiveRun, Dispositions
  <2>2. run[x] \in RunRow /\ mine[p][k] \in Credential
    OBVIOUS
  <2>3. [run[x] EXCEPT !.id = mine[p][k].id, !.fence = mine[p][k].fence] \in RunRow
    BY <2>2 DEF RunRow, Credential
  <2>4. run' \in [Runs -> RunRow]
    BY <1>9, <2>3 DEF AdoptActiveRun
  <2> QED
    BY <1>9, <2>1, <2>4 DEF AdoptActiveRun
<1>10. ASSUME NEW p \in Workers, NEW k \in Works, NEW x \in Runs, NEW outcome \in Outcomes,
              FinishRun(p, k, x, outcome)
       PROVE  TypeOK'
  <2>1. work' \in [Works -> WorkRow] /\ facts' \in [Works -> Seq(Fact)]
    BY <1>10, TransitionType DEF FinishRun, Dispositions
  <2>2. run[x] \in RunRow
    OBVIOUS
  <2>3. [run[x] EXCEPT !.status = "FINISHED", !.outcome = outcome] \in RunRow
    BY <2>2 DEF RunRow
  <2>4. run' \in [Runs -> RunRow]
    BY <1>10, <2>3 DEF FinishRun
  <2> QED
    BY <1>10, <2>1, <2>4 DEF FinishRun
<1>11. ASSUME NEW p \in Workers, NEW k \in Works, NEW y \in Waits, EnterWait(p, k, y)
       PROVE  TypeOK'
  <2>1. work' \in [Works -> WorkRow] /\ facts' \in [Works -> Seq(Fact)]
    BY <1>11, TransitionType DEF EnterWait, Dispositions
  <2> QED
    BY <1>11, <2>1 DEF EnterWait, WaitRow
<1>12. ASSUME NEW p \in Workers, NEW k \in Works, NEW y \in Waits, ResolveWait(p, k, y)
       PROVE  TypeOK'
  <2>1. work' \in [Works -> WorkRow] /\ facts' \in [Works -> Seq(Fact)]
    BY <1>12, TransitionType DEF ResolveWait, Dispositions
  <2> QED
    BY <1>12, <2>1 DEF ResolveWait, WaitRow
<1>13. ASSUME NEW p \in Workers, NEW k \in Works, Query(p, k) PROVE TypeOK'
  BY <1>13 DEF Query, WorkRow
<1>14. ASSUME NEW p \in Workers, Restart(p) PROVE TypeOK'
  BY <1>14 DEF Restart, rows, Credential
<1>15. CASE UNCHANGED vars
  BY <1>15 DEF vars
<1> QED
  BY <1>1, <1>2, <1>3, <1>4, <1>5, <1>6, <1>7, <1>8, <1>9, <1>10, <1>11, <1>12, <1>13, <1>14,
     <1>15 DEF Next, Call, ClaimForRun

-----------------------------------------------------------------------------
(* Which rows a step can touch *)

LEMMA WorkSteps ==
  ASSUME [Next]_vars
  PROVE  \/ UNCHANGED <<work, run, wait, facts>>
         \/ \E k \in Works : CreateWork(k)
         \/ \E p \in Workers, k \in Works, x \in Runs : StartRun(p, k, x) \/ AdoptActiveRun(p, k, x)
         \/ \E p \in Workers, k \in Works, x \in Runs, outcome \in Outcomes :
               FinishRun(p, k, x, outcome)
         \/ \E p \in Workers, k \in Works, y \in Waits : EnterWait(p, k, y) \/ ResolveWait(p, k, y)
<1>1. ASSUME NEW k \in Works, Expire(k)
      PROVE  UNCHANGED <<work, run, wait, facts>>
  BY <1>1 DEF Expire
<1>2. ASSUME NEW p \in Workers, NEW k \in Works, NEW id \in LeaseIdsOf[p], RenewLease(p, k, id)
      PROVE  UNCHANGED <<work, run, wait, facts>>
  BY <1>2 DEF RenewLease
<1>3. ASSUME NEW p \in Workers, NEW k \in Works, NEW id \in LeaseIdsOf[p], AcquireLease(p, k, id)
      PROVE  UNCHANGED <<work, run, wait, facts>>
  BY <1>3 DEF AcquireLease
<1>4. ASSUME NEW p \in Workers, NEW k \in Works, ReleaseLease(p, k)
      PROVE  UNCHANGED <<work, run, wait, facts>>
  BY <1>4 DEF ReleaseLease
<1>5. ASSUME NEW c, NEW k \in Works, NEW r \in Resources, ClaimResource(c, k, r)
      PROVE  UNCHANGED <<work, run, wait, facts>>
  BY <1>5 DEF ClaimResource
<1>6. ASSUME NEW p \in Workers, NEW k \in Works, NEW r \in Resources, ReleaseResource(p, k, r)
      PROVE  UNCHANGED <<work, run, wait, facts>>
  BY <1>6 DEF ReleaseResource
<1>7. ASSUME NEW p \in Workers, NEW k \in Works, Query(p, k)
      PROVE  UNCHANGED <<work, run, wait, facts>>
  BY <1>7 DEF Query
<1>8. ASSUME NEW p \in Workers, Restart(p)
      PROVE  UNCHANGED <<work, run, wait, facts>>
  BY <1>8 DEF Restart, rows
<1>9. CASE UNCHANGED vars
  BY <1>9 DEF vars
<1> QED
  BY <1>1, <1>2, <1>3, <1>4, <1>5, <1>6, <1>7, <1>8, <1>9 DEF Next, Call, ClaimForRun

LEMMA LeaseSteps ==
  ASSUME [Next]_vars
  PROVE  \/ UNCHANGED <<lease, claim, mine>>
         \/ \E k \in Works : Expire(k)
         \/ \E p \in Workers, k \in Works : \E id \in LeaseIdsOf[p] :
               RenewLease(p, k, id) \/ AcquireLease(p, k, id)
         \/ \E p \in Workers, k \in Works : ReleaseLease(p, k)
         \/ \E k \in Works, r \in Resources : \E c : ClaimResource(c, k, r)
         \/ \E p \in Workers, k \in Works, r \in Resources : ReleaseResource(p, k, r)
         \/ \E p \in Workers : Restart(p)
<1>1. ASSUME NEW k \in Works, CreateWork(k)
      PROVE  UNCHANGED <<lease, claim, mine>>
  BY <1>1 DEF CreateWork
<1>2. ASSUME NEW p \in Workers, NEW k \in Works, NEW x \in Runs, StartRun(p, k, x)
      PROVE  UNCHANGED <<lease, claim, mine>>
  BY <1>2 DEF StartRun
<1>3. ASSUME NEW p \in Workers, NEW k \in Works, NEW x \in Runs, AdoptActiveRun(p, k, x)
      PROVE  UNCHANGED <<lease, claim, mine>>
  BY <1>3 DEF AdoptActiveRun
<1>4. ASSUME NEW p \in Workers, NEW k \in Works, NEW x \in Runs, NEW outcome \in Outcomes,
             FinishRun(p, k, x, outcome)
      PROVE  UNCHANGED <<lease, claim, mine>>
  BY <1>4 DEF FinishRun
<1>5. ASSUME NEW p \in Workers, NEW k \in Works, NEW y \in Waits, EnterWait(p, k, y)
      PROVE  UNCHANGED <<lease, claim, mine>>
  BY <1>5 DEF EnterWait
<1>6. ASSUME NEW p \in Workers, NEW k \in Works, NEW y \in Waits, ResolveWait(p, k, y)
      PROVE  UNCHANGED <<lease, claim, mine>>
  BY <1>6 DEF ResolveWait
<1>7. ASSUME NEW p \in Workers, NEW k \in Works, Query(p, k)
      PROVE  UNCHANGED <<lease, claim, mine>>
  BY <1>7 DEF Query
<1>8. CASE UNCHANGED vars
  BY <1>8 DEF vars
<1> QED
  BY <1>1, <1>2, <1>3, <1>4, <1>5, <1>6, <1>7, <1>8 DEF Next, Call, ClaimForRun

-----------------------------------------------------------------------------
(* Runs, waits and dispositions *)

(* The parts of RunsMatchDisposition, by name. *)
ActiveRunAlive == \A x \in Runs : run[x].status = "ACTIVE" =>
    work[run[x].work].disposition \in {"READY", "RUNNING", "WAITING"}
StartedHasRun == \A k \in Works : work[k].disposition \in {"RUNNING", "WAITING"} =>
    \E x \in Runs : Active(x, k)
OneActiveRun == \A x, z \in Runs : run[x].status = "ACTIVE" /\ Active(z, run[x].work) => x = z
OpenWaitWaits == \A y \in Waits : wait[y].status = "OPEN" =>
    work[wait[y].work].disposition = "WAITING"
WaitingHasWait == \A k \in Works : work[k].disposition = "WAITING" => \E y \in Waits : Open(y, k)
OneOpenWait == \A y, z \in Waits : wait[y].status = "OPEN" /\ Open(z, wait[y].work) => y = z

LEMMA RunsParts ==
  RunsMatchDisposition <=> /\ ActiveRunAlive /\ StartedHasRun /\ OneActiveRun
                           /\ OpenWaitWaits /\ WaitingHasWait /\ OneOpenWait
  BY DEF RunsMatchDisposition, ActiveRunAlive, StartedHasRun, OneActiveRun, OpenWaitWaits,
         WaitingHasWait, OneOpenWait

(* A transition of k changes no other disposition. *)
LEMMA TransitionWork ==
  ASSUME TypeOK, NEW k \in Works, NEW to \in Dispositions, Transition(k, to)
  PROVE  /\ work'[k].disposition = to
         /\ \A j \in Works \ {k} : work'[j] = work[j]
  BY DEF Transition, TypeOK, WorkRow

LEMMA RunsStep ==
  ASSUME IInv, [Next]_vars
  PROVE  RunsMatchDisposition'
<1>t. TypeOK
  BY DEF IInv
<1>b. /\ \A x \in Runs : run[x].status = "ACTIVE" => run[x].work \in Works
      /\ \A y \in Waits : wait[y].status = "OPEN" => wait[y].work \in Works
  BY DEF IInv, RowsBound
<1>i. /\ ActiveRunAlive /\ StartedHasRun /\ OneActiveRun
      /\ OpenWaitWaits /\ WaitingHasWait /\ OneOpenWait
  BY RunsParts DEF IInv
<1>1. CASE UNCHANGED <<work, run, wait, facts>>
  BY <1>1, <1>b DEF IInv, RunsMatchDisposition, Active, Open
<1>2. ASSUME NEW k \in Works, CreateWork(k) PROVE RunsMatchDisposition'
  BY <1>2, <1>b, <1>t
     DEF IInv, TypeOK, WorkRow, RunsMatchDisposition, Active, Open, CreateWork, Exists
<1>3. ASSUME NEW p \in Workers, NEW k \in Works, NEW x \in Runs, StartRun(p, k, x)
      PROVE  RunsMatchDisposition'
  <2>1. /\ work'[k].disposition = "RUNNING"
        /\ \A j \in Works \ {k} : work'[j] = work[j]
    BY <1>3, <1>t, TransitionWork DEF StartRun, Dispositions
  <2>2. /\ run'[x].work = k /\ run'[x].status = "ACTIVE"
        /\ \A z \in Runs \ {x} : run'[z] = run[z] /\ ~ Active(z, k)
        /\ wait' = wait /\ work[k].disposition = "READY"
    BY <1>3, <1>t DEF StartRun, RunRow, TypeOK
  <2>3. ActiveRunAlive' /\ StartedHasRun' /\ OneActiveRun'
    <3>1. ActiveRunAlive'
      BY <2>1, <2>2, <1>i, <1>b DEF ActiveRunAlive, Active
    <3>2. StartedHasRun'
      <4> SUFFICES ASSUME NEW j \in Works, work'[j].disposition \in {"RUNNING", "WAITING"}
                   PROVE  \E z \in Runs : Active(z, j)'
        BY DEF StartedHasRun
      <4>1. CASE j = k
        BY <4>1, <2>2 DEF Active
      <4>2. CASE j # k
        <5>1. PICK z \in Runs : Active(z, j)
          BY <4>2, <2>1, <1>i DEF StartedHasRun
        <5>2. z # x
          BY <5>1, <1>3, <4>2 DEF StartRun, Active
        <5> QED
          BY <5>1, <5>2, <2>2 DEF Active
      <4> QED
        BY <4>1, <4>2
    <3>3. OneActiveRun'
      BY <2>1, <2>2, <1>i, <1>b DEF OneActiveRun, Active
    <3> QED
      BY <3>1, <3>2, <3>3
  <2>4. OpenWaitWaits' /\ WaitingHasWait' /\ OneOpenWait'
    BY <2>1, <2>2, <1>i, <1>b DEF OpenWaitWaits, WaitingHasWait, OneOpenWait, Open
  <2> QED
    BY <2>3, <2>4 DEF RunsMatchDisposition, ActiveRunAlive, StartedHasRun, OneActiveRun,
        OpenWaitWaits, WaitingHasWait, OneOpenWait
<1>4. ASSUME NEW p \in Workers, NEW k \in Works, NEW x \in Runs, AdoptActiveRun(p, k, x)
      PROVE  RunsMatchDisposition'
  <2>1. /\ work'[k].disposition = "RUNNING"
        /\ \A j \in Works \ {k} : work'[j] = work[j]
    BY <1>4, <1>t, TransitionWork DEF AdoptActiveRun, Dispositions
  <2>2. /\ \A z \in Runs : run'[z].work = run[z].work /\ run'[z].status = run[z].status
        /\ wait' = wait /\ work[k].disposition = "RUNNING"
    BY <1>4, <1>t DEF AdoptActiveRun, RunRow, TypeOK
  <2>3. ActiveRunAlive' /\ StartedHasRun' /\ OneActiveRun'
    BY <2>1, <2>2, <1>i, <1>b DEF ActiveRunAlive, StartedHasRun, OneActiveRun, Active
  <2>4. OpenWaitWaits' /\ WaitingHasWait' /\ OneOpenWait'
    BY <2>1, <2>2, <1>i, <1>b DEF OpenWaitWaits, WaitingHasWait, OneOpenWait, Open
  <2> QED
    BY <2>3, <2>4 DEF RunsMatchDisposition, ActiveRunAlive, StartedHasRun, OneActiveRun,
        OpenWaitWaits, WaitingHasWait, OneOpenWait
<1>5. ASSUME NEW p \in Workers, NEW k \in Works, NEW x \in Runs, NEW outcome \in Outcomes,
             FinishRun(p, k, x, outcome)
      PROVE  RunsMatchDisposition'
  <2>1. /\ work'[k].disposition = "FINISHED"
        /\ \A j \in Works \ {k} : work'[j] = work[j]
    BY <1>5, <1>t, TransitionWork DEF FinishRun, Dispositions
  <2>2. /\ run'[x].status = "FINISHED" /\ Active(x, k)
        /\ \A z \in Runs \ {x} : run'[z] = run[z]
        /\ wait' = wait /\ work[k].disposition \in {"RUNNING", "READY"}
    BY <1>5, <1>t DEF FinishRun, RunRow, TypeOK
  <2>3. \A z \in Runs \ {x} : ~ Active(z, k)
    BY <2>2, <1>i DEF OneActiveRun, Active
  <2>4. ActiveRunAlive' /\ StartedHasRun' /\ OneActiveRun'
    BY <2>1, <2>2, <2>3, <1>i, <1>b DEF ActiveRunAlive, StartedHasRun, OneActiveRun, Active
  <2>5. OpenWaitWaits' /\ WaitingHasWait' /\ OneOpenWait'
    BY <2>1, <2>2, <1>i, <1>b DEF OpenWaitWaits, WaitingHasWait, OneOpenWait, Open
  <2> QED
    BY <2>4, <2>5 DEF RunsMatchDisposition, ActiveRunAlive, StartedHasRun, OneActiveRun,
        OpenWaitWaits, WaitingHasWait, OneOpenWait
<1>6. ASSUME NEW p \in Workers, NEW k \in Works, NEW y \in Waits, EnterWait(p, k, y)
      PROVE  RunsMatchDisposition'
  <2>1. /\ work'[k].disposition = "WAITING"
        /\ \A j \in Works \ {k} : work'[j] = work[j]
    BY <1>6, <1>t, TransitionWork DEF EnterWait, Dispositions
  <2>2. /\ wait'[y].work = k /\ wait'[y].status = "OPEN"
        /\ \A z \in Waits \ {y} : wait'[z] = wait[z]
        /\ run' = run /\ work[k].disposition = "RUNNING"
    BY <1>6, <1>t DEF EnterWait, WaitRow, TypeOK
  <2>3. ActiveRunAlive' /\ StartedHasRun' /\ OneActiveRun'
    BY <2>1, <2>2, <1>i, <1>b DEF ActiveRunAlive, StartedHasRun, OneActiveRun, Active
  <2>4. \A z \in Waits : ~ Open(z, k)
    BY <2>2, <1>i DEF OpenWaitWaits, Open
  <2>5. OpenWaitWaits' /\ WaitingHasWait' /\ OneOpenWait'
    <3>1. OpenWaitWaits'
      BY <2>1, <2>2, <1>i, <1>b DEF OpenWaitWaits, Open
    <3>2. WaitingHasWait'
      <4> SUFFICES ASSUME NEW j \in Works, work'[j].disposition = "WAITING"
                   PROVE  \E z \in Waits : Open(z, j)'
        BY DEF WaitingHasWait
      <4>1. CASE j = k
        BY <4>1, <2>2 DEF Open
      <4>2. CASE j # k
        <5>1. PICK z \in Waits : Open(z, j)
          BY <4>2, <2>1, <1>i DEF WaitingHasWait
        <5>2. z # y
          BY <5>1, <1>6, <4>2 DEF EnterWait, Open
        <5> QED
          BY <5>1, <5>2, <2>2 DEF Open
      <4> QED
        BY <4>1, <4>2
    <3>3. OneOpenWait'
      BY <2>1, <2>2, <2>4, <1>i, <1>b DEF OneOpenWait, Open
    <3> QED
      BY <3>1, <3>2, <3>3
  <2> QED
    BY <2>3, <2>5 DEF RunsMatchDisposition, ActiveRunAlive, StartedHasRun, OneActiveRun,
        OpenWaitWaits, WaitingHasWait, OneOpenWait
<1>7. ASSUME NEW p \in Workers, NEW k \in Works, NEW y \in Waits, ResolveWait(p, k, y)
      PROVE  RunsMatchDisposition'
  <2>1. /\ work'[k].disposition = "READY"
        /\ \A j \in Works \ {k} : work'[j] = work[j]
    BY <1>7, <1>t, TransitionWork DEF ResolveWait, Dispositions
  <2>2. /\ wait'[y].status = "RESOLVED" /\ Open(y, k)
        /\ \A z \in Waits \ {y} : wait'[z] = wait[z]
        /\ run' = run /\ work[k].disposition = "WAITING"
    BY <1>7, <1>t DEF ResolveWait, WaitRow, TypeOK
  <2>3. ActiveRunAlive' /\ StartedHasRun' /\ OneActiveRun'
    BY <2>1, <2>2, <1>i, <1>b DEF ActiveRunAlive, StartedHasRun, OneActiveRun, Active
  <2>4. \A z \in Waits \ {y} : ~ Open(z, k)
    BY <2>2, <1>i DEF OneOpenWait, Open
  <2>5. OpenWaitWaits' /\ WaitingHasWait' /\ OneOpenWait'
    BY <2>1, <2>2, <2>4, <1>i, <1>b DEF OpenWaitWaits, WaitingHasWait, OneOpenWait, Open
  <2> QED
    BY <2>3, <2>5 DEF RunsMatchDisposition, ActiveRunAlive, StartedHasRun, OneActiveRun,
        OpenWaitWaits, WaitingHasWait, OneOpenWait
<1> QED
  BY <1>1, <1>2, <1>3, <1>4, <1>5, <1>6, <1>7, WorkSteps

-----------------------------------------------------------------------------
(* Claims *)

LEMMA BoundStep ==
  ASSUME IInv, [Next]_vars
  PROVE  RowsBound'
<1>t. TypeOK /\ RowsBound
  BY DEF IInv
<1>1. \A r \in Resources : claim'[r].state = "HELD" => claim'[r].work \in Works
  <2>1. CASE UNCHANGED <<lease, claim, mine>>
    BY <2>1, <1>t DEF RowsBound
  <2>2. ASSUME NEW k \in Works, Expire(k) PROVE claim' = claim
    BY <2>2 DEF Expire
  <2>3. ASSUME NEW p \in Workers, NEW k \in Works, NEW id \in LeaseIdsOf[p],
               RenewLease(p, k, id)
        PROVE  claim' = claim
    BY <2>3 DEF RenewLease
  <2>4. ASSUME NEW p \in Workers, NEW k \in Works, NEW id \in LeaseIdsOf[p],
               AcquireLease(p, k, id)
        PROVE  \A r \in Resources : /\ claim'[r].state = claim[r].state
                                    /\ claim'[r].work = claim[r].work
    BY <2>4, <1>t DEF AcquireLease, TypeOK, ClaimRow
  <2>5. ASSUME NEW p \in Workers, NEW k \in Works, ReleaseLease(p, k) PROVE claim' = claim
    BY <2>5 DEF ReleaseLease
  <2>6. ASSUME NEW c, NEW k \in Works, NEW r \in Resources, ClaimResource(c, k, r)
        PROVE  claim'[r].work = k /\ \A s \in Resources \ {r} : claim'[s] = claim[s]
    BY <2>6, <1>t DEF ClaimResource, TypeOK
  <2>7. ASSUME NEW p \in Workers, NEW k \in Works, NEW r \in Resources,
               ReleaseResource(p, k, r)
        PROVE  \A s \in Resources : /\ claim'[s].work = claim[s].work
                                    /\ claim'[s].state = "HELD" => claim[s].state = "HELD"
    BY <2>7, <1>t DEF ReleaseResource, TypeOK, ClaimRow
  <2>8. ASSUME NEW p \in Workers, Restart(p) PROVE claim' = claim
    BY <2>8 DEF Restart, rows
  <2> QED
    BY <1>t, <2>1, <2>2, <2>3, <2>4, <2>5, <2>6, <2>7, <2>8, LeaseSteps DEF RowsBound
<1>2. \A x \in Runs : run'[x].status = "ACTIVE" => run'[x].work \in Works
  <2>1. ASSUME NEW p \in Workers, NEW k \in Works, NEW x \in Runs, StartRun(p, k, x)
        PROVE  run'[x].work = k /\ \A z \in Runs \ {x} : run'[z] = run[z]
    BY <2>1, <1>t DEF StartRun, TypeOK
  <2>2. ASSUME NEW p \in Workers, NEW k \in Works, NEW x \in Runs, AdoptActiveRun(p, k, x)
        PROVE  \A z \in Runs : run'[z].work = run[z].work /\ run'[z].status = run[z].status
    BY <2>2, <1>t DEF AdoptActiveRun, TypeOK, RunRow
  <2>3. ASSUME NEW p \in Workers, NEW k \in Works, NEW x \in Runs, NEW outcome \in Outcomes,
               FinishRun(p, k, x, outcome)
        PROVE  run'[x].status = "FINISHED" /\ \A z \in Runs \ {x} : run'[z] = run[z]
    BY <2>3, <1>t DEF FinishRun, TypeOK, RunRow
  <2>4. ASSUME NEW p \in Workers, NEW k \in Works, NEW y \in Waits,
               EnterWait(p, k, y) \/ ResolveWait(p, k, y)
        PROVE  run' = run
    BY <2>4 DEF EnterWait, ResolveWait
  <2>5. ASSUME NEW k \in Works, CreateWork(k) PROVE run' = run
    BY <2>5 DEF CreateWork
  <2> QED
    BY <1>t, <2>1, <2>2, <2>3, <2>4, <2>5, WorkSteps DEF RowsBound
<1>3. \A y \in Waits : wait'[y].status = "OPEN" => wait'[y].work \in Works
  <2>1. ASSUME NEW p \in Workers, NEW k \in Works, NEW x \in Runs,
               StartRun(p, k, x) \/ AdoptActiveRun(p, k, x)
        PROVE  wait' = wait
    BY <2>1 DEF StartRun, AdoptActiveRun
  <2>2. ASSUME NEW p \in Workers, NEW k \in Works, NEW x \in Runs, NEW outcome \in Outcomes,
               FinishRun(p, k, x, outcome)
        PROVE  wait' = wait
    BY <2>2 DEF FinishRun
  <2>3. ASSUME NEW p \in Workers, NEW k \in Works, NEW y \in Waits, EnterWait(p, k, y)
        PROVE  wait'[y].work = k /\ \A z \in Waits \ {y} : wait'[z] = wait[z]
    BY <2>3, <1>t DEF EnterWait, TypeOK
  <2>4. ASSUME NEW p \in Workers, NEW k \in Works, NEW y \in Waits, ResolveWait(p, k, y)
        PROVE  wait'[y].status = "RESOLVED" /\ \A z \in Waits \ {y} : wait'[z] = wait[z]
    BY <2>4, <1>t DEF ResolveWait, TypeOK, WaitRow
  <2>5. ASSUME NEW k \in Works, CreateWork(k) PROVE wait' = wait
    BY <2>5 DEF CreateWork
  <2> QED
    BY <1>t, <2>1, <2>2, <2>3, <2>4, <2>5, WorkSteps DEF RowsBound
<1> QED
  BY <1>1, <1>2, <1>3 DEF RowsBound

LEMMA ClaimStep ==
  ASSUME IInv, [Next]_vars
  PROVE  ClaimFollowsLease'
<1>t. TypeOK /\ ClaimFollowsLease
  BY DEF IInv
<1>b. \A r \in Resources : claim[r].state = "HELD" => claim[r].work \in Works
  BY DEF IInv, RowsBound
<1>1. CASE UNCHANGED <<lease, claim, mine>>
  BY <1>1, <1>t DEF ClaimFollowsLease, Holds
<1>2. ASSUME NEW k \in Works, Expire(k) PROVE ClaimFollowsLease'
  BY <1>2, <1>t, <1>b DEF Expire, TypeOK, LeaseRow, ClaimFollowsLease, Holds
<1>3. ASSUME NEW p \in Workers, NEW k \in Works, NEW id \in LeaseIdsOf[p],
             RenewLease(p, k, id)
      PROVE  ClaimFollowsLease'
  BY <1>3, <1>t DEF RenewLease, ClaimFollowsLease, Holds
<1>4. ASSUME NEW p \in Workers, NEW k \in Works, NEW id \in LeaseIdsOf[p],
             AcquireLease(p, k, id)
      PROVE  ClaimFollowsLease'
  <2>1. /\ lease'[k].id = id /\ lease'[k].fence = lease[k].fence + 1
        /\ lease'[k].state = "ACTIVE"
        /\ \A j \in Works \ {k} : lease'[j] = lease[j]
    BY <1>4, <1>t DEF AcquireLease, TypeOK
  <2>2. \A r \in Resources : /\ claim'[r].state = claim[r].state
                             /\ claim'[r].work = claim[r].work
    BY <1>4, <1>t DEF AcquireLease, TypeOK, ClaimRow
  <2>3. \A r \in Resources : Holds(r, k) =>
           claim'[r].id = id /\ claim'[r].fence = lease[k].fence + 1
    BY <1>4, <1>t DEF AcquireLease, TypeOK, ClaimRow
  <2>4. \A r \in Resources : ~ Holds(r, k) => claim'[r] = claim[r]
    BY <1>4 DEF AcquireLease
  <2> SUFFICES ASSUME NEW r \in Resources, claim'[r].state = "HELD"
               PROVE  /\ claim'[r].id = lease'[claim'[r].work].id
                      /\ claim'[r].fence = lease'[claim'[r].work].fence
                      /\ lease'[claim'[r].work].state \in {"ACTIVE", "EXPIRED"}
                      /\ \A s \in Resources : claim'[s].work = claim'[r].work
                                               /\ claim'[s].state = "HELD" => s = r
    BY DEF ClaimFollowsLease, Holds
  <2>5. CASE claim[r].work = k
    BY <2>5, <2>1, <2>2, <2>3, <1>t DEF ClaimFollowsLease, Holds
  <2>6. CASE claim[r].work # k
    BY <2>6, <2>1, <2>2, <2>4, <1>t, <1>b DEF ClaimFollowsLease, Holds
  <2> QED
    BY <2>5, <2>6
<1>5. ASSUME NEW p \in Workers, NEW k \in Works, ReleaseLease(p, k) PROVE ClaimFollowsLease'
  <2>1. claim' = claim /\ \A j \in Works \ {k} : lease'[j] = lease[j]
    BY <1>5, <1>t DEF ReleaseLease, TypeOK
  <2>2. \A r \in Resources : claim[r].state = "HELD" => claim[r].work # k
    BY <1>5 DEF ReleaseLease, Holds
  <2> QED
    BY <2>1, <2>2, <1>t, <1>b DEF ClaimFollowsLease, Holds
<1>6. ASSUME NEW c, NEW k \in Works, NEW r \in Resources, ClaimResource(c, k, r)
      PROVE  ClaimFollowsLease'
  <2>1. /\ lease' = lease /\ lease[k].state = "ACTIVE"
        /\ claim'[r].work = k /\ claim'[r].state = "HELD"
        /\ claim'[r].id = lease[k].id /\ claim'[r].fence = lease[k].fence
        /\ \A s \in Resources \ {r} : claim'[s] = claim[s]
        /\ \A s \in Resources : ~ Holds(s, k)
    BY <1>6, <1>t DEF ClaimResource, TypeOK
  <2> QED
    BY <2>1, <1>t, <1>b DEF ClaimFollowsLease, Holds
<1>7. ASSUME NEW p \in Workers, NEW k \in Works, NEW r \in Resources,
             ReleaseResource(p, k, r)
      PROVE  ClaimFollowsLease'
  <2>1. /\ lease' = lease /\ claim'[r].state = "RELEASED"
        /\ \A s \in Resources \ {r} : claim'[s] = claim[s]
    BY <1>7, <1>t DEF ReleaseResource, TypeOK, ClaimRow
  <2> QED
    BY <2>1, <1>t DEF ClaimFollowsLease, Holds
<1>8. ASSUME NEW p \in Workers, Restart(p) PROVE ClaimFollowsLease'
  BY <1>8, <1>t DEF Restart, rows, ClaimFollowsLease, Holds
<1> QED
  BY <1>1, <1>2, <1>3, <1>4, <1>5, <1>6, <1>7, <1>8, LeaseSteps

-----------------------------------------------------------------------------
(* Fences *)

KnownFence == \A p \in Workers, k \in Works : mine[p][k].fence > 0 =>
    /\ mine[p][k].fence <= lease[k].fence
    /\ mine[p][k].fence = lease[k].fence =>
          mine[p][k].id = lease[k].id /\ Owner[p] = lease[k].owner
RunFence == \A x \in Runs : run[x].status = "ACTIVE" =>
    run[x].fence <= lease[run[x].work].fence

LEMMA FenceParts == FenceNamesOwner <=> KnownFence /\ RunFence
  BY DEF FenceNamesOwner, KnownFence, RunFence

(* No step takes a fence back, and one that keeps it keeps the owner and   *)
(* revives no lease.                                                       *)
LEMMA LeaseOrder ==
  ASSUME TypeOK, [Next]_vars, NEW k \in Works
  PROVE  \/ lease'[k].fence > lease[k].fence
         \/ /\ lease'[k].fence = lease[k].fence
            /\ lease'[k].id = lease[k].id /\ lease'[k].owner = lease[k].owner
            /\ lease'[k].state = "ACTIVE" => lease[k].state = "ACTIVE"
<1>1. ASSUME NEW j \in Works, Expire(j)
      PROVE  /\ lease'[k].fence = lease[k].fence
             /\ lease'[k].id = lease[k].id /\ lease'[k].owner = lease[k].owner
             /\ lease'[k].state = "ACTIVE" => lease[k].state = "ACTIVE"
  BY <1>1 DEF Expire, TypeOK, LeaseRow
<1>2. ASSUME NEW p \in Workers, NEW j \in Works, NEW id \in LeaseIdsOf[p],
             RenewLease(p, j, id)
      PROVE  lease' = lease
  BY <1>2 DEF RenewLease
<1>3. ASSUME NEW p \in Workers, NEW j \in Works, NEW id \in LeaseIdsOf[p],
             AcquireLease(p, j, id)
      PROVE  lease'[k].fence > lease[k].fence \/ lease'[k] = lease[k]
  <2>1. CASE j = k
    <3>1. lease'[k].fence = lease[k].fence + 1 /\ lease[k].fence \in Nat
      BY <1>3, <2>1 DEF AcquireLease, TypeOK, LeaseRow
    <3> QED
      BY <3>1
  <2>2. CASE j # k
    BY <1>3, <2>2 DEF AcquireLease, TypeOK
  <2> QED
    BY <2>1, <2>2
<1>4. ASSUME NEW p \in Workers, NEW j \in Works, ReleaseLease(p, j)
      PROVE  /\ lease'[k].fence = lease[k].fence
             /\ lease'[k].id = lease[k].id /\ lease'[k].owner = lease[k].owner
             /\ lease'[k].state = "ACTIVE" => lease[k].state = "ACTIVE"
  <2>1. lease[j] \in LeaseRow
    BY DEF TypeOK
  <2>2. lease'[j] = [lease[j] EXCEPT !.state = "RELEASED"]
    BY <1>4 DEF ReleaseLease, TypeOK
  <2>3. CASE j = k
    BY <2>1, <2>2, <2>3 DEF LeaseRow
  <2>4. CASE j # k
    BY <1>4, <2>4 DEF ReleaseLease, TypeOK
  <2> QED
    BY <2>3, <2>4
<1>5. ASSUME NEW c, NEW j \in Works, NEW r \in Resources,
             ClaimResource(c, j, r) \/ ReleaseResource(c, j, r)
      PROVE  lease' = lease
  BY <1>5 DEF ClaimResource, ReleaseResource
<1>6. ASSUME NEW p \in Workers, Restart(p) PROVE lease' = lease
  BY <1>6 DEF Restart, rows
<1> QED
  BY <1>1, <1>2, <1>3, <1>4, <1>5, <1>6, LeaseSteps

LEMMA FenceStep ==
  ASSUME IInv, [Next]_vars
  PROVE  FenceNamesOwner'
<1>t. TypeOK /\ KnownFence /\ RunFence
  BY FenceParts DEF IInv
<1>n. \A k \in Works : lease[k].fence \in Nat /\ lease'[k].fence \in Nat
  BY <1>t, TypeStep DEF TypeOK, LeaseRow
<1>m. \A p \in Workers, k \in Works : mine[p][k].fence \in Nat
  BY <1>t DEF TypeOK, Credential
<1>1. KnownFence'
  <2>1. ASSUME mine' = mine PROVE KnownFence'
    BY <2>1, <1>t, <1>n, <1>m, LeaseOrder DEF KnownFence
  <2>2. ASSUME NEW k \in Works, Expire(k) PROVE mine' = mine
    BY <2>2 DEF Expire
  <2>3. ASSUME NEW p \in Workers, NEW k \in Works, NEW id \in LeaseIdsOf[p],
               RenewLease(p, k, id)
        PROVE  KnownFence'
    <3>1. /\ lease' = lease
          /\ mine'[p][k].id = lease[k].id /\ mine'[p][k].fence = lease[k].fence
          /\ Owner[p] = lease[k].owner
          /\ \A q \in Workers, j \in Works : q # p \/ j # k => mine'[q][j] = mine[q][j]
      BY <2>3, <1>t DEF RenewLease, TypeOK
    <3> QED
      BY <3>1, <1>t, <1>n DEF KnownFence
  <2>4. ASSUME NEW p \in Workers, NEW k \in Works, NEW id \in LeaseIdsOf[p],
               AcquireLease(p, k, id)
        PROVE  KnownFence'
    <3>1. /\ lease'[k].fence = lease[k].fence + 1 /\ lease'[k].id = id
          /\ lease'[k].owner = Owner[p]
          /\ \A j \in Works \ {k} : lease'[j] = lease[j]
      BY <2>4, <1>t DEF AcquireLease, TypeOK
    <3>2. /\ mine'[p][k].id = id /\ mine'[p][k].fence = lease[k].fence + 1
          /\ \A q \in Workers, j \in Works : q # p \/ j # k => mine'[q][j] = mine[q][j]
      BY <2>4, <1>t DEF AcquireLease, TypeOK
    <3> SUFFICES ASSUME NEW q \in Workers, NEW j \in Works, mine'[q][j].fence > 0
                 PROVE  /\ mine'[q][j].fence <= lease'[j].fence
                        /\ mine'[q][j].fence = lease'[j].fence =>
                              mine'[q][j].id = lease'[j].id /\ Owner[q] = lease'[j].owner
      BY DEF KnownFence
    <3>3. CASE q = p /\ j = k
      BY <3>1, <3>2, <3>3, <1>n
    <3>4. CASE q # p /\ j = k
      BY <3>1, <3>2, <3>4, <1>n, <1>m, <1>t DEF KnownFence
    <3>5. CASE j # k
      BY <3>1, <3>2, <3>5, <1>n, <1>m, <1>t DEF KnownFence
    <3> QED
      BY <3>3, <3>4, <3>5
  <2>5. ASSUME NEW p \in Workers, NEW k \in Works, ReleaseLease(p, k) PROVE mine' = mine
    BY <2>5 DEF ReleaseLease
  <2>6. ASSUME NEW c, NEW k \in Works, NEW r \in Resources,
               ClaimResource(c, k, r) \/ ReleaseResource(c, k, r)
        PROVE  mine' = mine
    BY <2>6 DEF ClaimResource, ReleaseResource
  <2>7. ASSUME NEW p \in Workers, Restart(p) PROVE KnownFence'
    <3>1. /\ lease' = lease
          /\ \A k \in Works : mine'[p][k].fence = 0
          /\ \A q \in Workers \ {p} : mine'[q] = mine[q]
      BY <2>7, <1>t DEF Restart, rows, TypeOK
    <3> QED
      BY <3>1, <1>t DEF KnownFence
  <2> QED
    BY <2>1, <2>2, <2>3, <2>4, <2>5, <2>6, <2>7, LeaseSteps
<1>2. RunFence'
  <2>b. \A x \in Runs : run[x].status = "ACTIVE" => run[x].work \in Works
    BY DEF IInv, RowsBound
  <2>n. \A x \in Runs : run[x].fence \in Nat
    BY <1>t DEF TypeOK, RunRow
  <2>1. ASSUME run' = run PROVE RunFence'
    BY <2>1, <2>b, <2>n, <1>t, <1>n, LeaseOrder DEF RunFence
  <2>2. ASSUME NEW p \in Workers, NEW k \in Works, NEW x \in Runs, StartRun(p, k, x)
        PROVE  RunFence'
    <3>1. /\ lease' = lease /\ run'[x].work = k /\ run'[x].fence = lease[k].fence
          /\ \A z \in Runs \ {x} : run'[z] = run[z]
      BY <2>2, <1>t DEF StartRun, CurrentLease, TypeOK
    <3> QED
      BY <3>1, <1>t, <1>n DEF RunFence
  <2>3. ASSUME NEW p \in Workers, NEW k \in Works, NEW x \in Runs, AdoptActiveRun(p, k, x)
        PROVE  RunFence'
    <3>1. /\ lease' = lease /\ run'[x].work = k /\ run'[x].fence = lease[k].fence
          /\ \A z \in Runs \ {x} : run'[z] = run[z]
      <4>1. run[x] \in RunRow /\ run[x].work = k
        BY <2>3, <1>t DEF AdoptActiveRun, Active, TypeOK
      <4> QED
        BY <2>3, <1>t, <4>1 DEF AdoptActiveRun, CurrentLease, TypeOK, RunRow
    <3> QED
      BY <3>1, <1>t, <1>n DEF RunFence
  <2>4. ASSUME NEW p \in Workers, NEW k \in Works, NEW x \in Runs, NEW outcome \in Outcomes,
               FinishRun(p, k, x, outcome)
        PROVE  RunFence'
    <3>1. /\ lease' = lease /\ run'[x].status = "FINISHED"
          /\ \A z \in Runs \ {x} : run'[z] = run[z]
      BY <2>4, <1>t DEF FinishRun, TypeOK, RunRow
    <3> QED
      BY <3>1, <1>t DEF RunFence
  <2>5. ASSUME NEW p \in Workers, NEW k \in Works, NEW y \in Waits,
               EnterWait(p, k, y) \/ ResolveWait(p, k, y)
        PROVE  run' = run
    BY <2>5 DEF EnterWait, ResolveWait
  <2>6. ASSUME NEW k \in Works, CreateWork(k) PROVE run' = run
    BY <2>6 DEF CreateWork
  <2> QED
    BY <2>1, <2>2, <2>3, <2>4, <2>5, <2>6, WorkSteps
<1> QED
  BY <1>1, <1>2 DEF FenceNamesOwner, KnownFence, RunFence

-----------------------------------------------------------------------------
(* Facts *)

(* A transition appends the fact of its WorkItem and no other. *)
LEMMA TransitionFacts ==
  ASSUME TypeOK, FactsTellState, NEW k \in Works, Exists(k), NEW to \in Dispositions,
         Transition(k, to)
  PROVE  FactsTellState'
<1> DEFINE fact == [from |-> work[k].disposition, to |-> to]
           f == facts[k]
<1>1. /\ work'[k].disposition = to /\ work'[k].version = work[k].version + 1
      /\ facts'[k] = Append(f, fact)
      /\ \A j \in Works \ {k} : work'[j] = work[j] /\ facts'[j] = facts[j]
  BY DEF Transition, TypeOK, WorkRow
<1>2. f \in Seq(Fact) /\ work[k] \in WorkRow
  BY DEF TypeOK
<1>3. fact \in Fact
  BY <1>2 DEF Fact, WorkRow
<1>4. /\ Len(f) = work[k].version + 1 /\ f[Len(f)].to = work[k].disposition
      /\ \A i \in 1..(Len(f) - 1) : f[i].to = f[i + 1].from
  BY DEF FactsTellState
<1>5. /\ Len(Append(f, fact)) = Len(f) + 1
      /\ \A i \in 1..Len(f) : Append(f, fact)[i] = f[i]
      /\ Append(f, fact)[Len(f) + 1] = fact
  BY <1>2, <1>3, AppendProperties
<1>6. Len(f) \in Nat /\ work[k].version \in Nat
  BY <1>2 DEF WorkRow
<1>7. /\ Len(facts'[k]) = work'[k].version + 1
      /\ facts'[k][Len(facts'[k])].to = work'[k].disposition
  BY <1>1, <1>4, <1>5, <1>6
<1>8. ASSUME NEW i \in 1..(Len(facts'[k]) - 1)
      PROVE  facts'[k][i].to = facts'[k][i + 1].from
  <2>1. i \in 1..Len(f)
    BY <1>1, <1>5, <1>6
  <2>2. CASE i = Len(f)
    BY <2>1, <2>2, <1>1, <1>4, <1>5, <1>6
  <2>3. CASE i # Len(f)
    <3>1. i \in 1..(Len(f) - 1) /\ i + 1 \in 1..Len(f)
      BY <2>1, <2>3, <1>6
    <3> QED
      BY <3>1, <2>1, <1>1, <1>4, <1>5
  <2> QED
    BY <2>2, <2>3
<1> SUFFICES ASSUME NEW j \in Works, Exists(j)'
             PROVE  /\ Len(facts'[j]) = work'[j].version + 1
                    /\ facts'[j][Len(facts'[j])].to = work'[j].disposition
                    /\ \A i \in 1..(Len(facts'[j]) - 1) :
                          facts'[j][i].to = facts'[j][i + 1].from
  BY DEF FactsTellState
<1>9. CASE j = k
  BY <1>7, <1>8, <1>9
<1>10. CASE j # k
  <2>1. work'[j] = work[j] /\ facts'[j] = facts[j]
    BY <1>1, <1>10
  <2>2. Exists(j)
    BY <2>1 DEF Exists
  <2> HIDE DEF f, fact
  <2> QED
    BY <2>1, <2>2 DEF FactsTellState
<1> QED
  BY <1>9, <1>10

LEMMA FactsStep ==
  ASSUME IInv, [Next]_vars
  PROVE  FactsTellState'
<1>t. TypeOK /\ FactsTellState
  BY DEF IInv
<1>1. CASE UNCHANGED <<work, run, wait, facts>>
  BY <1>1, <1>t DEF FactsTellState, Exists
<1>2. ASSUME NEW k \in Works, CreateWork(k) PROVE FactsTellState'
  <2>1. /\ work'[k].disposition = "READY" /\ work'[k].version = 0
        /\ facts'[k] = <<[from |-> "ABSENT", to |-> "READY"]>>
        /\ \A j \in Works \ {k} : work'[j] = work[j] /\ facts'[j] = facts[j]
    BY <1>2, <1>t DEF CreateWork, TypeOK
  <2>2. /\ Len(facts'[k]) = 1 /\ facts'[k][1].to = "READY"
    BY <2>1
  <2>3. ASSUME NEW j \in Works, Exists(j)'
        PROVE  /\ Len(facts'[j]) = work'[j].version + 1
               /\ facts'[j][Len(facts'[j])].to = work'[j].disposition
               /\ \A i \in 1..(Len(facts'[j]) - 1) : facts'[j][i].to = facts'[j][i + 1].from
    <3>1. CASE j = k
      <4>1. Len(facts'[j]) = 1 /\ facts'[j][1].to = "READY"
        BY <2>2, <3>1
      <4>2. work'[j].version = 0 /\ work'[j].disposition = "READY"
        BY <2>1, <3>1
      <4> QED
        BY <4>1, <4>2
    <3>2. CASE j # k
      <4>1. work'[j] = work[j] /\ facts'[j] = facts[j]
        BY <2>1, <3>2
      <4>2. Exists(j)
        BY <2>3, <4>1 DEF Exists
      <4> QED
        BY <4>1, <4>2, <1>t DEF FactsTellState
    <3> QED
      BY <3>1, <3>2
  <2> QED
    BY <2>3 DEF FactsTellState
<1>3. ASSUME NEW p \in Workers, NEW k \in Works, NEW x \in Runs,
             StartRun(p, k, x) \/ AdoptActiveRun(p, k, x)
      PROVE  FactsTellState'
  BY <1>3, <1>t, TransitionFacts DEF StartRun, AdoptActiveRun, Exists, Dispositions
<1>4. ASSUME NEW p \in Workers, NEW k \in Works, NEW x \in Runs, NEW outcome \in Outcomes,
             FinishRun(p, k, x, outcome)
      PROVE  FactsTellState'
  BY <1>4, <1>t, TransitionFacts DEF FinishRun, Exists, Dispositions
<1>5. ASSUME NEW p \in Workers, NEW k \in Works, NEW y \in Waits,
             EnterWait(p, k, y) \/ ResolveWait(p, k, y)
      PROVE  FactsTellState'
  BY <1>5, <1>t, TransitionFacts DEF EnterWait, ResolveWait, Exists, Dispositions
<1> QED
  BY <1>1, <1>2, <1>3, <1>4, <1>5, WorkSteps

-----------------------------------------------------------------------------
(* The invariant of the kernel *)

LEMMA NextIInv == IInv /\ [Next]_vars => IInv'
<1> SUFFICES ASSUME IInv, [Next]_vars PROVE IInv'
  OBVIOUS
<1>1. TypeOK'
  BY TypeStep DEF IInv
<1> QED
  BY <1>1, BoundStep, RunsStep, ClaimStep, FenceStep, FactsStep DEF IInv

LEMMA KernelInvariant == Spec => []IInv
  BY InitIInv, NextIInv, PTL DEF Spec

(* The rows of the kernel and what its callers remember keep their types,  *)
(* for any number of WorkItems, runs, waits, resources and callers.        *)
THEOREM KernelTyped == Spec => []TypeOK
<1>1. IInv => TypeOK
  BY DEF IInv
<1> QED
  BY <1>1, KernelInvariant, PTL

(* Dispositions, runs and waits agree whatever order leases expire, change *)
(* hands and come back in, for any number of callers with stale knowledge. *)
THEOREM KernelRuns == Spec => []RunsMatchDisposition
<1>1. IInv => RunsMatchDisposition
  BY DEF IInv
<1> QED
  BY <1>1, KernelInvariant, PTL

(* A held resource always belongs to the present lease of its WorkItem.    *)
THEOREM KernelClaims == Spec => []ClaimFollowsLease
<1>1. IInv => ClaimFollowsLease
  BY DEF IInv
<1> QED
  BY <1>1, KernelInvariant, PTL

(* A caller that was replaced never knows the current fence, for any       *)
(* number of handoffs.                                                     *)
THEOREM KernelFences == Spec => []FenceNamesOwner
<1>1. IInv => FenceNamesOwner
  BY DEF IInv
<1> QED
  BY <1>1, KernelInvariant, PTL

(* The transition facts of a WorkItem never miss or repeat a version.      *)
THEOREM KernelFacts == Spec => []FactsTellState
<1>1. IInv => FactsTellState
  BY DEF IInv
<1> QED
  BY <1>1, KernelInvariant, PTL

-----------------------------------------------------------------------------
(* The kernel implements WorkLifecycle *)

HasRun(k) == \E x \in Runs : Active(x, k)
Holder(r) == IF claim[r].state = "HELD" THEN claim[r].work ELSE None

LEMMA PhaseIs ==
  ASSUME NEW k
  PROVE  /\ work[k].disposition = "ABSENT" => Phase(k) = "absent"
         /\ work[k].disposition = "READY" /\ ~HasRun(k) => Phase(k) = "ready"
         /\ work[k].disposition = "READY" /\ HasRun(k) => Phase(k) = "resumed"
         /\ work[k].disposition = "RUNNING" => Phase(k) = "running"
         /\ work[k].disposition = "WAITING" => Phase(k) = "waiting"
         /\ work[k].disposition = "FINISHED" => Phase(k) = "finished"
  BY DEF Phase, HasRun

LEMMA PhaseNext ==
  ASSUME NEW k
  PROVE  /\ work'[k].disposition = "READY" /\ ~HasRun(k)' => Phase(k)' = "ready"
         /\ work'[k].disposition = "READY" /\ HasRun(k)' => Phase(k)' = "resumed"
         /\ work'[k].disposition = "RUNNING" => Phase(k)' = "running"
         /\ work'[k].disposition = "WAITING" => Phase(k)' = "waiting"
         /\ work'[k].disposition = "FINISHED" => Phase(k)' = "finished"
  BY DEF Phase, HasRun

LEMMA PhaseKept ==
  ASSUME NEW k, work'[k].disposition = work[k].disposition, HasRun(k)' <=> HasRun(k)
  PROVE  Phase(k)' = Phase(k)
  BY DEF Phase, HasRun

(* A step that moves one WorkItem and leaves the claims alone is a Move.   *)
LEMMA MoveStep ==
  ASSUME NEW k \in Works, NEW from, NEW to, Phase(k) = from, Phase(k)' = to,
         \A j \in Works \ {k} : Phase(j)' = Phase(j), UNCHANGED claim
  PROVE  Lifecycle!Move(k, from, to)
  BY DEF Lifecycle!Move

LEMMA LifecycleStep ==
  ASSUME IInv, IInv', [Next]_vars
  PROVE  [Lifecycle!Next]_(Lifecycle!lifecycle)
<1>t. TypeOK /\ RowsBound /\ StartedHasRun /\ OneActiveRun
  BY RunsParts DEF IInv
<1>1. ASSUME NEW k \in Works, CreateWork(k) PROVE Lifecycle!Next
  <2>1. /\ work[k].disposition = "ABSENT" /\ work'[k].disposition = "READY"
        /\ \A j \in Works \ {k} : work'[j] = work[j]
        /\ run' = run /\ claim' = claim
    BY <1>1, <1>t DEF CreateWork, Exists, TypeOK
  <2>2. ~ HasRun(k)
    BY <2>1 DEF HasRun, Active, IInv, RunsMatchDisposition
  <2>3. \A j \in Works : HasRun(j)' <=> HasRun(j)
    BY <2>1 DEF HasRun, Active
  <2>4. Phase(k) = "absent" /\ Phase(k)' = "ready"
    BY <2>1, <2>2, <2>3, PhaseIs, PhaseNext
  <2>5. \A j \in Works \ {k} : Phase(j)' = Phase(j)
    BY <2>1, <2>3, PhaseKept
  <2>6. Lifecycle!Move(k, "absent", "ready")
    BY <2>1, <2>4, <2>5, MoveStep
  <2> QED
    BY <2>6 DEF Lifecycle!Next
<1>2. ASSUME NEW p \in Workers, NEW k \in Works, NEW x \in Runs, StartRun(p, k, x)
      PROVE  Lifecycle!Next
  <2>1. /\ work[k].disposition = "READY" /\ work'[k].disposition = "RUNNING"
        /\ \A j \in Works \ {k} : work'[j] = work[j]
    BY <1>2, <1>t, TransitionWork DEF StartRun, Dispositions
  <2>2. /\ ~ HasRun(k) /\ claim' = claim /\ run[x].status = "NONE"
        /\ run'[x].work = k /\ \A z \in Runs \ {x} : run'[z] = run[z]
    BY <1>2, <1>t DEF StartRun, HasRun, TypeOK
  <2>3. \A j \in Works \ {k} : HasRun(j)' <=> HasRun(j)
    <3> SUFFICES ASSUME NEW j \in Works \ {k}, NEW z \in Runs
                 PROVE  Active(z, j)' <=> Active(z, j)
      BY DEF HasRun
    <3> QED
      BY <2>2 DEF Active
  <2>4. Phase(k) = "ready" /\ Phase(k)' = "running"
    BY <2>1, <2>2, PhaseIs, PhaseNext
  <2>5. \A j \in Works \ {k} : Phase(j)' = Phase(j)
    BY <2>1, <2>3, PhaseKept
  <2>6. Lifecycle!Move(k, "ready", "running")
    BY <2>2, <2>4, <2>5, MoveStep
  <2> QED
    BY <2>6 DEF Lifecycle!Next
<1>3. ASSUME NEW p \in Workers, NEW k \in Works, NEW x \in Runs, AdoptActiveRun(p, k, x)
      PROVE  UNCHANGED Lifecycle!lifecycle
  <2>1. /\ work[k].disposition = "RUNNING" /\ work'[k].disposition = "RUNNING"
        /\ \A j \in Works \ {k} : work'[j] = work[j]
    BY <1>3, <1>t, TransitionWork DEF AdoptActiveRun, Dispositions
  <2>2. /\ claim' = claim
        /\ \A z \in Runs : run'[z].work = run[z].work /\ run'[z].status = run[z].status
    BY <1>3, <1>t DEF AdoptActiveRun, TypeOK, RunRow
  <2>3. \A j \in Works : HasRun(j)' <=> HasRun(j)
    BY <2>2 DEF HasRun, Active
  <2>4. \A j \in Works : Phase(j)' = Phase(j)
    BY <2>1, <2>3, PhaseKept
  <2> QED
    BY <2>2, <2>4 DEF Lifecycle!lifecycle
<1>4. ASSUME NEW p \in Workers, NEW k \in Works, NEW x \in Runs, NEW outcome \in Outcomes,
             FinishRun(p, k, x, outcome)
      PROVE  Lifecycle!Next
  <2>1. /\ work[k].disposition \in {"RUNNING", "READY"} /\ work'[k].disposition = "FINISHED"
        /\ \A j \in Works \ {k} : work'[j] = work[j]
    BY <1>4, <1>t, TransitionWork DEF FinishRun, Dispositions
  <2>2. /\ Active(x, k) /\ HasRun(k) /\ claim' = claim /\ run'[x].work = k
        /\ \A z \in Runs \ {x} : run'[z] = run[z]
    BY <1>4, <1>t DEF FinishRun, HasRun, Active, TypeOK, RunRow
  <2>3. \A j \in Works \ {k} : HasRun(j)' <=> HasRun(j)
    <3> SUFFICES ASSUME NEW j \in Works \ {k}, NEW z \in Runs
                 PROVE  Active(z, j)' <=> Active(z, j)
      BY DEF HasRun
    <3> QED
      BY <2>2 DEF Active
  <2>4. Phase(k) \in {"running", "resumed"} /\ Phase(k)' = "finished"
    BY <2>1, <2>2, PhaseIs, PhaseNext
  <2>5. \A j \in Works \ {k} : Phase(j)' = Phase(j)
    BY <2>1, <2>3, PhaseKept
  <2>6. Lifecycle!Move(k, Phase(k), "finished")
    BY <2>2, <2>4, <2>5, MoveStep
  <2> QED
    BY <2>4, <2>6 DEF Lifecycle!Next
<1>5. ASSUME NEW p \in Workers, NEW k \in Works, NEW y \in Waits, EnterWait(p, k, y)
      PROVE  Lifecycle!Next
  <2>1. /\ work[k].disposition = "RUNNING" /\ work'[k].disposition = "WAITING"
        /\ \A j \in Works \ {k} : work'[j] = work[j]
    BY <1>5, <1>t, TransitionWork DEF EnterWait, Dispositions
  <2>2. /\ claim' = claim /\ \A j \in Works : HasRun(j)' <=> HasRun(j)
    BY <1>5 DEF EnterWait, HasRun, Active
  <2>3. Phase(k) = "running" /\ Phase(k)' = "waiting"
    BY <2>1, PhaseIs, PhaseNext
  <2>4. \A j \in Works \ {k} : Phase(j)' = Phase(j)
    BY <2>1, <2>2, PhaseKept
  <2>5. Lifecycle!Move(k, "running", "waiting")
    BY <2>2, <2>3, <2>4, MoveStep
  <2> QED
    BY <2>5 DEF Lifecycle!Next
<1>6. ASSUME NEW p \in Workers, NEW k \in Works, NEW y \in Waits, ResolveWait(p, k, y)
      PROVE  Lifecycle!Next
  <2>1. /\ work[k].disposition = "WAITING" /\ work'[k].disposition = "READY"
        /\ \A j \in Works \ {k} : work'[j] = work[j]
    BY <1>6, <1>t, TransitionWork DEF ResolveWait, Dispositions
  <2>2. /\ claim' = claim /\ \A j \in Works : HasRun(j)' <=> HasRun(j)
    BY <1>6 DEF ResolveWait, HasRun, Active
  <2>3. HasRun(k)
    BY <2>1, <1>t DEF StartedHasRun, HasRun
  <2>4. Phase(k) = "waiting" /\ Phase(k)' = "resumed"
    BY <2>1, <2>2, <2>3, PhaseIs, PhaseNext
  <2>5. \A j \in Works \ {k} : Phase(j)' = Phase(j)
    BY <2>1, <2>2, PhaseKept
  <2>6. Lifecycle!Move(k, "waiting", "resumed")
    BY <2>2, <2>4, <2>5, MoveStep
  <2> QED
    BY <2>6 DEF Lifecycle!Next
<1>7. ASSUME NEW c, NEW k \in Works, NEW r \in Resources, ClaimResource(c, k, r)
      PROVE  Lifecycle!Next
  <2>1. work' = work /\ run' = run
    BY <1>7 DEF ClaimResource
  <2>2. \A j \in Works : Phase(j)' = Phase(j)
    BY <2>1, PhaseKept DEF HasRun, Active
  <2>3. /\ claim[r].state # "HELD" /\ claim'[r].work = k /\ claim'[r].state = "HELD"
        /\ \A s \in Resources \ {r} : claim'[s] = claim[s]
        /\ \A s \in Resources : ~ Holds(s, k)
    BY <1>7, <1>t DEF ClaimResource, TypeOK
  <2>4. Phase(k) \notin {"absent", "finished"}
    <3>1. work[k].disposition \in {"READY", "RUNNING", "WAITING"}
      BY <1>7, <1>t DEF ClaimResource, TypeOK, WorkRow, Dispositions
    <3> QED
      BY <3>1, PhaseIs
  <2>5. Lifecycle!Take(k, r)
    <3>1. \A s \in Resources : Holder(s) # k
      BY <2>3, KernelAssumption DEF Holder, Holds
    <3>2. Holder(r) = None /\ Holder(r)' = k
      BY <2>3 DEF Holder
    <3>3. \A s \in Resources \ {r} : Holder(s)' = Holder(s)
      BY <2>3 DEF Holder
    <3> QED
      BY <2>2, <2>4, <3>1, <3>2, <3>3 DEF Lifecycle!Take, Holder
  <2> QED
    BY <2>5 DEF Lifecycle!Next
<1>8. ASSUME NEW p \in Workers, NEW k \in Works, NEW r \in Resources, ReleaseResource(p, k, r)
      PROVE  Lifecycle!Next
  <2>1. work' = work /\ run' = run
    BY <1>8 DEF ReleaseResource
  <2>2. \A j \in Works : Phase(j)' = Phase(j)
    BY <2>1, PhaseKept DEF HasRun, Active
  <2>3. /\ claim[r].state = "HELD" /\ claim[r].work = k /\ claim'[r].state = "RELEASED"
        /\ \A s \in Resources \ {r} : claim'[s] = claim[s]
    BY <1>8, <1>t DEF ReleaseResource, Holds, TypeOK, ClaimRow
  <2>4. Lifecycle!Drop(r)
    <3>1. Holder(r) # None /\ Holder(r)' = None
      BY <2>3, KernelAssumption DEF Holder
    <3>2. \A s \in Resources \ {r} : Holder(s)' = Holder(s)
      BY <2>3 DEF Holder
    <3> QED
      BY <2>2, <3>1, <3>2 DEF Lifecycle!Drop, Holder
  <2> QED
    BY <2>4 DEF Lifecycle!Next
<1>9. ASSUME NEW p \in Workers, NEW k \in Works, NEW id \in LeaseIdsOf[p],
             AcquireLease(p, k, id)
      PROVE  UNCHANGED Lifecycle!lifecycle
  <2>1. work' = work /\ run' = run
    BY <1>9 DEF AcquireLease
  <2>2. \A j \in Works : Phase(j)' = Phase(j)
    BY <2>1, PhaseKept DEF HasRun, Active
  <2>3. \A r \in Resources : /\ claim'[r].state = claim[r].state
                             /\ claim'[r].work = claim[r].work
    BY <1>9, <1>t DEF AcquireLease, TypeOK, ClaimRow
  <2> QED
    BY <2>2, <2>3 DEF Lifecycle!lifecycle
<1>10. ASSUME UNCHANGED <<work, run, claim>>
       PROVE  UNCHANGED Lifecycle!lifecycle
  <2>1. \A j \in Works : Phase(j)' = Phase(j)
    BY <1>10, PhaseKept DEF HasRun, Active
  <2> QED
    BY <1>10, <2>1 DEF Lifecycle!lifecycle
<1>11. ASSUME NEW k \in Works, Expire(k) PROVE UNCHANGED <<work, run, claim>>
  BY <1>11 DEF Expire
<1>12. ASSUME NEW p \in Workers, NEW k \in Works, NEW id \in LeaseIdsOf[p],
              RenewLease(p, k, id)
       PROVE  UNCHANGED <<work, run, claim>>
  BY <1>12 DEF RenewLease
<1>13. ASSUME NEW p \in Workers, NEW k \in Works, ReleaseLease(p, k) \/ Query(p, k)
       PROVE  UNCHANGED <<work, run, claim>>
  BY <1>13 DEF ReleaseLease, Query
<1>14. ASSUME NEW p \in Workers, Restart(p) PROVE UNCHANGED <<work, run, claim>>
  BY <1>14 DEF Restart, rows
<1>15. CASE UNCHANGED vars
  BY <1>15, <1>10 DEF vars
<1> QED
  BY <1>1, <1>2, <1>3, <1>4, <1>5, <1>6, <1>7, <1>8, <1>9, <1>10, <1>11, <1>12, <1>13, <1>14,
     <1>15 DEF Next, Call, ClaimForRun

LEMMA LifecycleInit == Init => Lifecycle!Init
<1> SUFFICES ASSUME Init PROVE Lifecycle!Init
  OBVIOUS
<1>1. \A k \in Works : Phase(k) = "absent"
  BY PhaseIs DEF Init
<1>2. \A r \in Resources : claim[r].state # "HELD"
  BY DEF Init
<1> QED
  BY <1>1, <1>2 DEF Lifecycle!Init

(* The kernel implements WorkLifecycle: for any number of callers, leases  *)
(* and handoffs a WorkItem runs once, a resource has one holder, and what  *)
(* is finished stays finished.                                             *)
THEOREM KernelLifecycle == Spec => LifecycleKept
<1>1. IInv /\ IInv' /\ [Next]_vars => [Lifecycle!Next]_(Lifecycle!lifecycle)
  BY LifecycleStep
<1> QED
  BY <1>1, LifecycleInit, KernelInvariant, PTL DEF Spec, LifecycleKept, Lifecycle!Spec
=============================================================================
