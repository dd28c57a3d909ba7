------------------------- MODULE GitPromotionProofs -------------------------
(***************************************************************************)
(* What TLAPS proves of GitPromotion, for any number of WorkItems, refs,   *)
(* processes, handoffs and revisions.  A promotion only takes steps of the *)
(* kernel, so the invariant of WorkKernelProofs is carried along and gives *)
(* the fact the argument turns on: ownership that is lost stays lost.      *)
(***************************************************************************)
EXTENDS GitPromotion, WorkKernelProofs

-----------------------------------------------------------------------------
(* The inductive invariant *)

(* The run and the lease are at least as new as what c remembers of them. *)
RunKept(k, c) ==
    /\ c.run \in Runs
    /\ run[c.run].work = k /\ run[c.run].status # "NONE"
    /\ run[c.run].fence >= c.fence
    /\ lease[k].fence >= c.fence

Owns(k, e) ==
    /\ e.run \in Runs /\ Active(e.run, k) /\ SameLease(run[e.run], e)
    /\ lease[k].state = "ACTIVE" /\ SameLease(lease[k], e)

AfterPrepare == {"observe", "persist", "check", "authorize", "mark", "recheck", "cas"}

(* What a call knows is true although others moved on. *)
CallKnows(p) ==
    LET c == call[p]
        k == c.work
    IN  /\ c.pc # "idle" => k \in Works
        /\ c.pc \in AfterPrepare => Prepared(k)
        /\ c.pc \in {"precheck", "insert"} => RunKept(k, c)
        /\ c.pc = "persist" /\ c.obs = Commit[k] => landed[k] > 0
        /\ c.pc \in {"mark", "recheck", "cas"} /\ c.rev > 0 =>
              binding[k] = c.rev /\ effect[k].policy = c.rev
        /\ c.pc = "recheck" /\ Owns(k, effect[k]) => c.held
        /\ c.pc = "cas" => c.held

(* A row, its ref and the updates that happened. *)
EffectKnows(k) ==
    /\ Prepared(k) => RunKept(k, effect[k])
    /\ effect[k].certainty = "AFTER" => landed[k] > 0
    /\ ref[Target[k]] = Commit[k] => landed[k] > 0
    /\ landed[k] > 0 => Prepared(k)
    /\ warrant[k] > 0 => landed[k] > 0 /\ warrant[k] = binding[k] /\ warrant[k] = effect[k].policy

(* resource_key is unique *)
OneEffect == \A j, k \in Works : Prepared(j) /\ Prepared(k) /\ Target[j] = Target[k] => j = k

PInv ==
    /\ IInv
    /\ PromotionTypeOK
    /\ \A p \in Processes : CallKnows(p)
    /\ \A k \in Works : EffectKnows(k)
    /\ OneEffect
    /\ cutover.state = "NONE" => cutover.rev = 0

-----------------------------------------------------------------------------
(* Steps *)

LEMMA ProcessSets == Preparers \subseteq Processes /\ Callers \subseteq Processes
  BY DEF Processes

(* A promotion changes the rows of the kernel only as the kernel does. *)
LEMMA KernelMoves ==
  ASSUME PInv, [PromotionNext]_pvars
  PROVE  [Next]_vars
<1>1. ASSUME NEW p \in Processes, NEW x \in Runs, Claim(p, x) PROVE [Next]_vars
  <2>1. call[p].work \in Works
    BY <1>1 DEF PInv, CallKnows, Claim, At
  <2>2. Target[call[p].work] \in Resources
    BY <2>1, PromotionAssumption
  <2> QED
    BY <1>1, <2>1, <2>2 DEF Claim, Next
<1>2. ASSUME NEW p \in Processes, Prepare(p) PROVE [Next]_vars
  BY <1>1, <1>2 DEF Prepare, StartPrepare, ReplayPrepare, Precheck, Insert, Bind
<1>3. ASSUME NEW p \in Processes, Reconcile(p) PROVE [Next]_vars
  BY <1>3 DEF Reconcile, StartReconcile, ObserveExact, ObserveNothing, PersistObservation
<1>4. ASSUME NEW p \in Processes, ApplyIfSafe(p) PROVE [Next]_vars
  BY <1>4 DEF ApplyIfSafe, StartApply, StartPromotion, Check, Authorize, MarkPossible, Recheck,
              CasUpdate
<1>5. ASSUME NEW p \in Processes, Abandon(p) PROVE [Next]_vars
  BY <1>5 DEF Abandon
<1>6. ASSUME Others PROVE [Next]_vars
  BY <1>6 DEF Others, ActivateFlow, ReadActiveFlow, ActivateCutover,
              PauseCutover, MoveRef
<1>7. ASSUME KernelStep PROVE [Next]_vars
  BY <1>7 DEF KernelStep
<1>8. ASSUME UNCHANGED pvars PROVE [Next]_vars
  BY <1>8 DEF pvars
<1> QED
  BY <1>2, <1>3, <1>4, <1>5, <1>6, <1>7, <1>8, ProcessSets DEF PromotionNext

(* The steps that change a ref, a row or the account of what landed. *)
LEMMA RowSteps ==
  ASSUME [PromotionNext]_pvars
  PROVE  \/ UNCHANGED <<ref, effect, binding, landed, warrant>>
         \/ \E p \in Processes : Insert(p) \/ Bind(p) \/ PersistObservation(p)
                                 \/ MarkPossible(p) \/ CasUpdate(p)
         \/ \E r \in Resources, oid \in Foreign : MoveRef(r, oid)
<1> DEFINE Same == UNCHANGED <<ref, effect, binding, landed, warrant>>
<1>2. ASSUME NEW p \in Processes, Prepare(p) PROVE Same \/ Insert(p) \/ Bind(p)
  BY <1>2 DEF Prepare, StartPrepare, ReplayPrepare, Precheck, Claim
<1>3. ASSUME NEW p \in Processes, Reconcile(p) PROVE Same \/ PersistObservation(p)
  BY <1>3 DEF Reconcile, StartReconcile, ObserveExact, ObserveNothing
<1>4. ASSUME NEW p \in Processes, ApplyIfSafe(p) PROVE Same \/ MarkPossible(p) \/ CasUpdate(p)
  BY <1>4 DEF ApplyIfSafe, StartApply, StartPromotion, Check, Authorize, Recheck
<1>5. ASSUME NEW p \in Processes, Abandon(p) PROVE Same
  BY <1>5 DEF Abandon
<1>6. ASSUME Others PROVE Same \/ \E r \in Resources, oid \in Foreign : MoveRef(r, oid)
  BY <1>6 DEF Others, ActivateFlow, ReadActiveFlow, ActivateCutover,
              PauseCutover
<1>7. ASSUME KernelStep PROVE Same
  BY <1>7 DEF KernelStep, promotion
<1>8. ASSUME UNCHANGED pvars PROVE Same
  BY <1>8 DEF pvars, promotion
<1> QED
  BY <1>2, <1>3, <1>4, <1>5, <1>6, <1>7, <1>8, ProcessSets DEF PromotionNext

-----------------------------------------------------------------------------
(* Ownership *)

(* No step of the kernel rewrites a run but to hand it to a newer lease or *)
(* to finish it.                                                           *)
LEMMA RunOrder ==
  ASSUME TypeOK, [Next]_vars, NEW x \in Runs, run[x].status # "NONE"
  PROVE  /\ run'[x].work = run[x].work /\ run'[x].status # "NONE"
         /\ \/ run'[x] = run[x]
            \/ run'[x].fence > run[x].fence
            \/ run'[x].fence = run[x].fence /\ run'[x].status = "FINISHED"
<1>1. CASE run' = run
  BY <1>1
<1>2. ASSUME NEW p \in Workers, NEW k \in Works, NEW z \in Runs, StartRun(p, k, z)
      PROVE  run'[x] = run[x]
  BY <1>2 DEF StartRun, TypeOK
<1>3. ASSUME NEW p \in Workers, NEW k \in Works, NEW z \in Runs, AdoptActiveRun(p, k, z)
      PROVE  /\ run'[x].work = run[x].work /\ run'[x].status = run[x].status
             /\ run'[x] = run[x] \/ run'[x].fence > run[x].fence
  BY <1>3 DEF AdoptActiveRun, TypeOK, RunRow, Credential
<1>4. ASSUME NEW p \in Workers, NEW k \in Works, NEW z \in Runs, NEW outcome \in Outcomes,
             FinishRun(p, k, z, outcome)
      PROVE  \/ run'[x] = run[x]
             \/ /\ run'[x].work = run[x].work /\ run'[x].fence = run[x].fence
                /\ run'[x].status = "FINISHED"
  BY <1>4 DEF FinishRun, TypeOK, RunRow
<1>5. ASSUME NEW k \in Works, CreateWork(k) PROVE run' = run
  BY <1>5 DEF CreateWork
<1>6. ASSUME NEW p \in Workers, NEW k \in Works, NEW y \in Waits,
             EnterWait(p, k, y) \/ ResolveWait(p, k, y)
      PROVE  run' = run
  BY <1>6 DEF EnterWait, ResolveWait
<1> QED
  BY <1>1, <1>2, <1>3, <1>4, <1>5, <1>6, WorkSteps

LEMMA RunKeptStep ==
  ASSUME TypeOK, [Next]_vars, NEW k \in Works, NEW c, c.fence \in Nat, RunKept(k, c)
  PROVE  RunKept(k, c)'
<1>1. TypeOK'
  BY TypeStep
<1>2. /\ run[c.run].fence \in Nat /\ run'[c.run].fence \in Nat
      /\ lease[k].fence \in Nat /\ lease'[k].fence \in Nat
  BY <1>1 DEF TypeOK, RunRow, LeaseRow, RunKept
<1>3. lease'[k].fence >= lease[k].fence
  BY <1>2, LeaseOrder
<1>4. /\ run'[c.run].work = run[c.run].work /\ run'[c.run].status # "NONE"
      /\ run'[c.run].fence >= run[c.run].fence
  BY <1>2, RunOrder DEF RunKept
<1> QED
  BY <1>2, <1>3, <1>4 DEF RunKept

(* A run or a lease that was lost never comes back: fences only grow. *)
LEMMA OwnsBefore ==
  ASSUME TypeOK, [Next]_vars, NEW k \in Works, NEW e, e.fence \in Nat, RunKept(k, e),
         Owns(k, e)'
  PROVE  Owns(k, e)
<1>1. TypeOK'
  BY TypeStep
<1>2. /\ run[e.run].fence \in Nat /\ run'[e.run].fence \in Nat
      /\ lease[k].fence \in Nat /\ lease'[k].fence \in Nat
  BY <1>1 DEF TypeOK, RunRow, LeaseRow, RunKept
<1>3. /\ e.run \in Runs /\ run'[e.run].status = "ACTIVE" /\ run'[e.run].fence = e.fence
      /\ run'[e.run].work = k /\ run'[e.run].id = e.id
      /\ lease'[k].state = "ACTIVE" /\ lease'[k].fence = e.fence /\ lease'[k].id = e.id
  BY DEF Owns, Active, SameLease
<1>4. run'[e.run] = run[e.run]
  BY <1>2, <1>3, RunOrder DEF RunKept
<1>5. lease[k].state = "ACTIVE" /\ lease[k].fence = e.fence /\ lease[k].id = e.id
  BY <1>2, <1>3, LeaseOrder DEF RunKept
<1> QED
  BY <1>3, <1>4, <1>5 DEF Owns, Active, SameLease

-----------------------------------------------------------------------------
(* Rows *)

LEMMA ClassificationIs ==
  ASSUME NEW k, NEW obs
  PROVE  /\ Classification(k, obs) \in Certainties \ {"NONE", "POSSIBLE"}
         /\ Classification(k, obs) = "AFTER" => obs = Commit[k]
  BY DEF Classification, Certainties

(* A row is never removed and never bound anew; what landed stays so. *)
LEMMA RowsGrow ==
  ASSUME PInv, [PromotionNext]_pvars, NEW k \in Works
  PROVE  /\ Prepared(k) => /\ Prepared(k)'
                           /\ effect'[k].policy = effect[k].policy
                           /\ effect'[k].run = effect[k].run
                           /\ effect'[k].id = effect[k].id
                           /\ effect'[k].fence = effect[k].fence
         /\ landed[k] > 0 => landed'[k] > 0
         /\ binding[k] > 0 => binding'[k] = binding[k]
<1> USE DEF Prepared, At
<1>t. PromotionTypeOK /\ \A p \in Processes : CallKnows(p)
  BY DEF PInv
<1>1. CASE UNCHANGED <<ref, effect, binding, landed, warrant>>
  BY <1>1
<1>2. ASSUME NEW p \in Processes, Insert(p)
      PROVE  /\ Prepared(k) => effect'[k] = effect[k]
             /\ landed' = landed /\ binding' = binding
  <2>1. call[p].work \in Works
    BY <1>2, <1>t DEF CallKnows, Insert
  <2> QED
    BY <1>2, <1>t, <2>1 DEF Insert, PromotionTypeOK
<1>3. ASSUME NEW p \in Processes, Bind(p)
      PROVE  /\ effect' = effect /\ landed' = landed
             /\ binding[k] > 0 => binding'[k] = binding[k]
  <2>1. call[p].work \in Works /\ binding[k] \in Nat
    BY <1>3, <1>t DEF CallKnows, Bind, PromotionTypeOK
  <2> QED
    BY <1>3, <1>t, <2>1 DEF Bind, PromotionTypeOK
<1>4. ASSUME NEW p \in Processes, PersistObservation(p) \/ MarkPossible(p)
      PROVE  /\ landed' = landed /\ binding' = binding
             /\ \E c \in Certainties \ {"NONE"} : \E j \in Works :
                   effect' = [effect EXCEPT ![j].certainty = c]
  <2>1. call[p].work \in Works
    BY <1>4, <1>t DEF CallKnows, PersistObservation, MarkPossible
  <2>2. CASE PersistObservation(p)
    BY <2>1, <2>2, ClassificationIs DEF PersistObservation
  <2>3. CASE MarkPossible(p)
    BY <2>1, <2>3 DEF MarkPossible, Certainties
  <2> QED
    BY <1>4, <2>2, <2>3
<1>5. ASSUME NEW c \in Certainties \ {"NONE"}, NEW j \in Works,
             effect' = [effect EXCEPT ![j].certainty = c]
      PROVE  /\ Prepared(k) => Prepared(k)'
             /\ effect'[k].policy = effect[k].policy
             /\ effect'[k].run = effect[k].run
             /\ effect'[k].id = effect[k].id
             /\ effect'[k].fence = effect[k].fence
  BY <1>5, <1>t DEF PromotionTypeOK, EffectRow
<1>6. ASSUME NEW p \in Processes, CasUpdate(p)
      PROVE  effect' = effect /\ binding' = binding /\ (landed[k] > 0 => landed'[k] > 0)
  <2>1. call[p].work \in Works /\ landed[k] \in Nat
    BY <1>6, <1>t DEF CallKnows, CasUpdate, PromotionTypeOK
  <2> QED
    BY <1>6, <1>t, <2>1 DEF CasUpdate, PromotionTypeOK
<1>7. ASSUME NEW r \in Resources, NEW oid \in Foreign, MoveRef(r, oid)
      PROVE  effect' = effect /\ binding' = binding /\ landed' = landed
  BY <1>7 DEF MoveRef
<1>8. ASSUME NEW p \in Processes, PersistObservation(p) \/ MarkPossible(p)
      PROVE  /\ landed' = landed /\ binding' = binding
             /\ Prepared(k) => Prepared(k)'
             /\ effect'[k].policy = effect[k].policy
             /\ effect'[k].run = effect[k].run
             /\ effect'[k].id = effect[k].id
             /\ effect'[k].fence = effect[k].fence
  BY <1>4, <1>5, <1>8
<1> QED
  BY <1>1, <1>2, <1>3, <1>6, <1>7, <1>8, RowSteps

-----------------------------------------------------------------------------
(* Types *)

LEMMA RowTypes ==
  ASSUME PInv, [PromotionNext]_pvars
  PROVE  /\ ref' \in [Resources -> Oids]
         /\ effect' \in [Works -> EffectRow]
         /\ binding' \in [Works -> Nat]
         /\ landed' \in [Works -> Nat]
         /\ warrant' \in [Works -> Nat]
<1> DEFINE Typed == /\ ref' \in [Resources -> Oids]
                    /\ effect' \in [Works -> EffectRow]
                    /\ binding' \in [Works -> Nat]
                    /\ landed' \in [Works -> Nat]
                    /\ warrant' \in [Works -> Nat]
<1>t. PromotionTypeOK /\ \A p \in Processes : CallKnows(p)
  BY DEF PInv
<1>c. ASSUME NEW p \in Processes, ~At(p, "idle")
      PROVE  call[p] \in CallRecord /\ call[p].work \in Works
  BY <1>c, <1>t DEF At, CallKnows, PromotionTypeOK
<1>1. CASE UNCHANGED <<ref, effect, binding, landed, warrant>>
  BY <1>1, <1>t DEF PromotionTypeOK
<1>2. ASSUME NEW p \in Processes, Insert(p) PROVE Typed
  <2>1. call[p] \in CallRecord /\ call[p].work \in Works
    BY <1>2, <1>c DEF Insert, At
  <2>2. [certainty |-> "BEFORE", policy |-> call[p].rev, run |-> call[p].run, id |-> call[p].id,
         fence |-> call[p].fence] \in EffectRow
    BY <2>1 DEF CallRecord, EffectRow, Certainties
  <2> QED
    BY <1>2, <1>t, <2>1, <2>2 DEF Insert, PromotionTypeOK
<1>3. ASSUME NEW p \in Processes, Bind(p) PROVE Typed
  <2>1. call[p].rev \in Nat /\ call[p].work \in Works
    BY <1>3, <1>c DEF Bind, At, CallRecord
  <2> QED
    BY <1>3, <1>t, <2>1 DEF Bind, PromotionTypeOK
<1>4. ASSUME NEW p \in Processes, PersistObservation(p) PROVE Typed
  <2>1. call[p].work \in Works
    BY <1>4, <1>c DEF PersistObservation, At
  <2> QED
    BY <1>4, <1>t, <2>1, ClassificationIs DEF PersistObservation, PromotionTypeOK, EffectRow
<1>5. ASSUME NEW p \in Processes, MarkPossible(p) PROVE Typed
  <2>1. call[p].work \in Works
    BY <1>5, <1>c DEF MarkPossible, At
  <2>2. /\ effect' = [effect EXCEPT ![call[p].work].certainty = "POSSIBLE"]
        /\ UNCHANGED <<ref, binding, landed, warrant>>
    BY <1>5 DEF MarkPossible
  <2>3. effect \in [Works -> EffectRow] /\ "POSSIBLE" \in Certainties
    BY <1>t DEF PromotionTypeOK, Certainties
  <2>4. effect' \in [Works -> EffectRow]
    BY <2>1, <2>2, <2>3 DEF EffectRow
  <2> QED
    BY <1>t, <2>2, <2>4 DEF PromotionTypeOK
<1>6. ASSUME NEW p \in Processes, CasUpdate(p) PROVE Typed
  <2>1. call[p].work \in Works /\ call[p].rev \in Nat
    BY <1>6, <1>c DEF CasUpdate, At, CallRecord
  <2>2. Commit[call[p].work] \in Oids /\ Target[call[p].work] \in Resources
    BY <2>1, PromotionAssumption DEF Oids
  <2> QED
    BY <1>6, <1>t, <2>1, <2>2 DEF CasUpdate, PromotionTypeOK
<1>7. ASSUME NEW r \in Resources, NEW oid \in Foreign, MoveRef(r, oid) PROVE Typed
  BY <1>7, <1>t DEF MoveRef, PromotionTypeOK, Oids
<1> QED
  BY <1>1, <1>2, <1>3, <1>4, <1>5, <1>6, <1>7, RowSteps

(* The cutover and the flow. *)
LEMMA AuthorityStep ==
  ASSUME PInv, [PromotionNext]_pvars
  PROVE  /\ cutover' \in CutoverRow /\ flow' \in Nat /\ activating' \in Nat
         /\ cutover'.state = "NONE" => cutover'.rev = 0
<1> DEFINE Same == UNCHANGED authority
<1>t. /\ cutover \in CutoverRow /\ flow \in Nat /\ activating \in Nat
      /\ cutover.state = "NONE" => cutover.rev = 0
  BY DEF PInv, PromotionTypeOK
<1>1. ASSUME NEW p \in Processes, Prepare(p) PROVE Same
  BY <1>1 DEF Prepare, StartPrepare, ReplayPrepare, Precheck, Claim, Insert, Bind
<1>2. ASSUME NEW p \in Processes, Reconcile(p) PROVE Same
  BY <1>2 DEF Reconcile, StartReconcile, ObserveExact, ObserveNothing, PersistObservation
<1>3. ASSUME NEW p \in Processes, ApplyIfSafe(p) PROVE Same
  BY <1>3 DEF ApplyIfSafe, StartApply, StartPromotion, Check, Authorize, Recheck, MarkPossible,
              CasUpdate
<1>4. ASSUME NEW p \in Processes, Abandon(p) PROVE Same
  BY <1>4 DEF Abandon
<1>5. ASSUME KernelStep \/ UNCHANGED pvars PROVE Same
  BY <1>5 DEF KernelStep, promotion, pvars, authority
<1>6. ASSUME NEW r \in Resources, NEW oid \in Foreign, MoveRef(r, oid) PROVE Same
  BY <1>6 DEF MoveRef
<1>7. CASE Same
  BY <1>7, <1>t DEF authority
<1>8. CASE ActivateCutover
  BY <1>8, <1>t DEF ActivateCutover, CutoverRow
<1>9. CASE PauseCutover
  BY <1>9, <1>t DEF PauseCutover, CutoverRow
<1>10. ASSUME NEW rev \in 1..MaxRevision, ActivateFlow(rev)
       PROVE  UNCHANGED <<cutover, activating>> /\ flow' \in Nat
  BY <1>10 DEF ActivateFlow
<1>11. CASE ReadActiveFlow
  BY <1>11, <1>t DEF ReadActiveFlow
<1> QED
  BY <1>1, <1>2, <1>3, <1>4, <1>5, <1>6, <1>7, <1>8, <1>9, <1>10, <1>11, <1>t, ProcessSets
  DEF PromotionNext, Others

-----------------------------------------------------------------------------
(* What the rows say *)

(* A new row is of a run and a lease that the call saw, and the first of   *)
(* its ref.                                                                *)
LEMMA InsertStep ==
  ASSUME PInv, [PromotionNext]_pvars, NEW p \in Processes, Insert(p)
  PROVE  (\A k \in Works : EffectKnows(k)') /\ OneEffect'
<1>t. PromotionTypeOK /\ TypeOK /\ CallKnows(p) /\ OneEffect /\ \A k \in Works : EffectKnows(k)
  BY DEF PInv, IInv
<1>1. PICK c \in CallRecord, j \in Works : c = call[p] /\ j = c.work /\ RunKept(j, c)
  BY <1>t DEF CallKnows, Insert, At, PromotionTypeOK
<1>2. UNCHANGED <<run, lease, ref, binding, landed, warrant>>
  BY DEF Insert, vars
<1>3. CASE effect' = effect
  BY <1>2, <1>3, <1>t DEF EffectKnows, OneEffect, Prepared, RunKept
<1>4. CASE /\ \A k \in Works : Target[k] = Target[j] => ~Prepared(k)
           /\ effect' = [effect EXCEPT ![j] =
                  [certainty |-> "BEFORE", policy |-> c.rev, run |-> c.run,
                   id |-> c.id, fence |-> c.fence]]
  <2>1. \A k \in Works \ {j} : effect'[k] = effect[k]
    BY <1>4, <1>1, <1>t DEF PromotionTypeOK
  <2>2. /\ effect'[j].certainty = "BEFORE" /\ effect'[j].run = c.run
        /\ effect'[j].fence = c.fence
    BY <1>4, <1>1, <1>t DEF PromotionTypeOK
  <2>3. ~Prepared(j)
    BY <1>1, <1>4
  <2>4. OneEffect'
    BY <1>1, <1>4, <1>t, <2>1, <2>2 DEF OneEffect, Prepared
  <2>5. EffectKnows(j)'
    <3>1. ~(landed[j] > 0)
      BY <1>1, <1>t, <2>3 DEF EffectKnows
    <3>2. ~(warrant[j] > 0)
      BY <1>1, <1>t, <3>1 DEF EffectKnows
    <3>3. RunKept(j, effect[j])'
      BY <1>1, <1>2, <2>2 DEF RunKept
    <3> QED
      BY <1>1, <1>2, <1>t, <2>2, <3>1, <3>2, <3>3 DEF EffectKnows, Prepared
  <2>6. ASSUME NEW k \in Works \ {j} PROVE EffectKnows(k)'
    <3>1. EffectKnows(k) /\ effect'[k] = effect[k]
      BY <1>t, <2>1
    <3> QED
      BY <1>2, <3>1 DEF EffectKnows, Prepared, RunKept
  <2> QED
    BY <2>4, <2>5, <2>6
<1> QED
  BY <1>1, <1>3, <1>4 DEF Insert

(* The rows stay prepared for the same run, whatever else changes. *)
LEMMA RowsKeep ==
  ASSUME PInv, [PromotionNext]_pvars, NEW k \in Works
  PROVE  Prepared(k) => RunKept(k, effect[k])'
<1>1. TypeOK /\ PromotionTypeOK /\ EffectKnows(k)
  BY DEF PInv, IInv
<1>2. SUFFICES ASSUME Prepared(k) PROVE RunKept(k, effect[k])'
  OBVIOUS
<1>3. PICK e \in EffectRow : e = effect[k]
  BY <1>1 DEF PromotionTypeOK
<1>4. RunKept(k, e) /\ e.fence \in Nat
  BY <1>1, <1>2, <1>3 DEF EffectKnows, EffectRow
<1>5. RunKept(k, e)'
  BY <1>1, <1>4, KernelMoves, RunKeptStep
<1>6. effect'[k].run = e.run /\ effect'[k].fence = e.fence
  BY <1>2, <1>3, RowsGrow
<1> QED
  BY <1>5, <1>6 DEF RunKept

LEMMA EffectStep ==
  ASSUME PInv, [PromotionNext]_pvars
  PROVE  (\A k \in Works : EffectKnows(k)') /\ OneEffect'
<1> DEFINE Kept == (\A k \in Works : EffectKnows(k)') /\ OneEffect'
<1>t. PromotionTypeOK /\ OneEffect /\ (\A k \in Works : EffectKnows(k))
      /\ \A p \in Processes : CallKnows(p)
  BY DEF PInv
<1>r. \A k \in Works : Prepared(k) => RunKept(k, effect[k])'
  BY RowsKeep
<1>1. CASE UNCHANGED <<ref, effect, binding, landed, warrant>>
  BY <1>1, <1>t, <1>r DEF EffectKnows, OneEffect, Prepared
<1>2. ASSUME NEW p \in Processes, Insert(p) PROVE Kept
  BY <1>2, InsertStep
<1>3. ASSUME NEW p \in Processes, Bind(p) PROVE Kept
  <2>1. UNCHANGED <<ref, effect, landed, warrant>>
    BY <1>3 DEF Bind
  <2>2. \A k \in Works : warrant[k] > 0 => binding'[k] = binding[k]
    BY <1>t, RowsGrow DEF EffectKnows
  <2>3. ASSUME NEW k \in Works PROVE EffectKnows(k)'
    <3>1. EffectKnows(k) /\ (Prepared(k) => RunKept(k, effect[k])')
      BY <1>t, <1>r
    <3> QED
      BY <2>1, <2>2, <3>1 DEF EffectKnows, Prepared
  <2> QED
    BY <1>t, <2>1, <2>3 DEF OneEffect, Prepared
<1>4. ASSUME NEW p \in Processes, PersistObservation(p) PROVE Kept
  <2>1. PICK j \in Works : /\ j = call[p].work /\ Prepared(j)
                           /\ call[p].obs = Commit[j] => landed[j] > 0
    BY <1>4, <1>t DEF PersistObservation, At, CallKnows, AfterPrepare
  <2>2. UNCHANGED <<ref, binding, landed, warrant>>
    BY <1>4 DEF PersistObservation
  <2>3. PICK c \in Certainties \ {"NONE"} :
           /\ effect' = [effect EXCEPT ![j].certainty = c]
           /\ c = "AFTER" => landed[j] > 0
    <3>1. effect' = [effect EXCEPT ![j].certainty = Classification(j, call[p].obs)]
      BY <1>4, <2>1 DEF PersistObservation
    <3>2. /\ Classification(j, call[p].obs) \in Certainties \ {"NONE"}
          /\ Classification(j, call[p].obs) = "AFTER" => landed[j] > 0
      BY <2>1, ClassificationIs
    <3> QED
      BY <3>1, <3>2
  <2>4. /\ \A k \in Works \ {j} : effect'[k] = effect[k]
        /\ effect'[j].certainty = c /\ effect'[j].policy = effect[j].policy
    BY <1>t, <2>3 DEF PromotionTypeOK, EffectRow
  <2>5. EffectKnows(j)'
    BY <1>t, <1>r, <2>1, <2>2, <2>3, <2>4 DEF EffectKnows, Prepared
  <2>6. \A k \in Works \ {j} : EffectKnows(k)'
    BY <1>t, <1>r, <2>2, <2>4 DEF EffectKnows, Prepared
  <2>7. OneEffect'
    BY <1>t, <2>1, <2>4 DEF OneEffect, Prepared
  <2> QED
    BY <2>5, <2>6, <2>7
<1>5. ASSUME NEW p \in Processes, MarkPossible(p) PROVE Kept
  <2>1. PICK j \in Works : j = call[p].work /\ Prepared(j)
    BY <1>5, <1>t DEF MarkPossible, At, CallKnows, AfterPrepare
  <2>2. UNCHANGED <<ref, binding, landed, warrant>>
    BY <1>5 DEF MarkPossible
  <2>3. effect' = [effect EXCEPT ![j].certainty = "POSSIBLE"]
    BY <1>5, <2>1 DEF MarkPossible
  <2>4. /\ \A k \in Works \ {j} : effect'[k] = effect[k]
        /\ effect'[j].certainty = "POSSIBLE" /\ effect'[j].policy = effect[j].policy
    BY <1>t, <2>3 DEF PromotionTypeOK, EffectRow
  <2>5. EffectKnows(j)'
    BY <1>t, <1>r, <2>1, <2>2, <2>4 DEF EffectKnows, Prepared
  <2>6. \A k \in Works \ {j} : EffectKnows(k)'
    BY <1>t, <1>r, <2>2, <2>4 DEF EffectKnows, Prepared
  <2>7. OneEffect'
    BY <1>t, <2>1, <2>4 DEF OneEffect, Prepared
  <2> QED
    BY <2>5, <2>6, <2>7
<1>6. ASSUME NEW p \in Processes, CasUpdate(p) PROVE Kept
  <2>1. PICK j \in Works, v \in Nat :
           /\ j = call[p].work /\ v = call[p].rev /\ Prepared(j)
           /\ v > 0 => binding[j] = v /\ effect[j].policy = v
    BY <1>6, <1>t DEF CasUpdate, At, CallKnows, AfterPrepare, PromotionTypeOK, CallRecord
  <2>2. UNCHANGED <<effect, binding>>
    BY <1>6 DEF CasUpdate
  <2>3. OneEffect'
    BY <1>t, <2>2 DEF OneEffect, Prepared
  <2>4. CASE UNCHANGED <<ref, landed, warrant>>
    BY <1>t, <1>r, <2>2, <2>3, <2>4 DEF EffectKnows, Prepared
  <2>5. CASE /\ ref' = [ref EXCEPT ![Target[j]] = Commit[j]]
             /\ landed' = [landed EXCEPT ![j] = @ + 1]
             /\ warrant' = [warrant EXCEPT ![j] = v]
    <3>1. /\ landed'[j] > 0 /\ warrant'[j] = v
          /\ \A k \in Works \ {j} : landed'[k] = landed[k] /\ warrant'[k] = warrant[k]
      BY <1>t, <2>5 DEF PromotionTypeOK
    <3>2. \A k \in Works \ {j} : ref'[Target[k]] = Commit[k] => ref[Target[k]] = Commit[k]
      BY <1>t, <2>5, PromotionAssumption DEF PromotionTypeOK
    <3>3. EffectKnows(j)'
      BY <1>t, <1>r, <2>1, <2>2, <3>1 DEF EffectKnows, Prepared
    <3>4. \A k \in Works \ {j} : EffectKnows(k)'
      BY <1>t, <1>r, <2>2, <3>1, <3>2 DEF EffectKnows, Prepared
    <3> QED
      BY <2>3, <3>3, <3>4
  <2> QED
    BY <1>6, <2>1, <2>4, <2>5 DEF CasUpdate
<1>7. ASSUME NEW r \in Resources, NEW oid \in Foreign, MoveRef(r, oid) PROVE Kept
  <2>1. UNCHANGED <<effect, binding, landed, warrant>>
    BY <1>7 DEF MoveRef
  <2>2. \A k \in Works : ref'[Target[k]] = Commit[k] => ref[Target[k]] = Commit[k]
    BY <1>7, <1>t, PromotionAssumption DEF MoveRef, PromotionTypeOK
  <2> QED
    BY <1>t, <1>r, <2>1, <2>2 DEF EffectKnows, OneEffect, Prepared
<1> QED
  BY <1>1, <1>2, <1>3, <1>4, <1>5, <1>6, <1>7, RowSteps

-----------------------------------------------------------------------------
(* What the calls know *)

LEMMA IdleType == Idle \in CallRecord /\ Idle.pc = "idle"
  BY DEF Idle, CallRecord, Steps

(* The steps of others take nothing from what a call knows. *)
LEMMA CallFrame ==
  ASSUME PInv, [PromotionNext]_pvars, NEW q \in Processes, call'[q] = call[q]
  PROVE  CallKnows(q)'
<1>1. TypeOK /\ PromotionTypeOK /\ CallKnows(q) /\ [Next]_vars
  BY KernelMoves DEF PInv, IInv
<1>2. PICK c \in CallRecord : c = call[q]
  BY <1>1 DEF PromotionTypeOK
<1>3. CASE c.pc = "idle"
  BY <1>2, <1>3 DEF CallKnows, AfterPrepare
<1>4. CASE c.pc # "idle"
  <2>1. PICK k \in Works : k = c.work
    BY <1>1, <1>2, <1>4 DEF CallKnows
  <2>2. c.pc \in {"precheck", "insert"} => RunKept(k, c)'
    BY <1>1, <1>2, <2>1, RunKeptStep DEF CallKnows, CallRecord
  <2>3. /\ Prepared(k) => Prepared(k)' /\ effect'[k].policy = effect[k].policy
        /\ landed[k] > 0 => landed'[k] > 0
        /\ binding[k] > 0 => binding'[k] = binding[k]
    BY RowsGrow
  <2>4. ASSUME c.pc = "recheck", Owns(k, effect[k])' PROVE c.held
    <3>1. EffectKnows(k) /\ Prepared(k)
      BY <1>1, <1>2, <2>1, <2>4 DEF PInv, CallKnows, AfterPrepare
    <3>2. PICK e \in EffectRow : e = effect[k]
      BY <1>1 DEF PromotionTypeOK
    <3>3. RunKept(k, e) /\ e.fence \in Nat
      BY <3>1, <3>2 DEF EffectKnows, EffectRow
    <3>4. effect'[k].run = e.run /\ effect'[k].id = e.id /\ effect'[k].fence = e.fence
      BY <3>1, <3>2, RowsGrow
    <3>5. Owns(k, e)'
      BY <2>4, <3>4 DEF Owns, SameLease
    <3>6. Owns(k, e)
      BY <1>1, <3>3, <3>5, OwnsBefore
    <3> QED
      BY <1>1, <1>2, <2>1, <2>4, <3>2, <3>6 DEF CallKnows
  <2>5. c.pc \in {"mark", "recheck", "cas"} /\ c.rev > 0 =>
           binding'[k] = c.rev /\ effect'[k].policy = c.rev
    BY <1>1, <1>2, <2>1, <2>3 DEF CallKnows, AfterPrepare
  <2>6. /\ c.pc \in AfterPrepare => Prepared(k)'
        /\ c.pc = "persist" /\ c.obs = Commit[k] => landed'[k] > 0
        /\ c.pc = "cas" => c.held
    BY <1>1, <1>2, <2>1, <2>3 DEF CallKnows
  <2> QED
    BY <1>2, <1>4, <2>1, <2>2, <2>4, <2>5, <2>6 DEF CallKnows
<1> QED
  BY <1>3, <1>4

(* The call of p goes on, knowing what it has to; the others stay. *)
Moved(p) ==
    /\ call' \in [Processes -> CallRecord]
    /\ CallKnows(p)'
    /\ \A q \in Processes \ {p} : call'[q] = call[q]

LEMMA MovedTo ==
  ASSUME PromotionTypeOK, NEW p \in Processes, NEW c \in CallRecord,
         call' = [call EXCEPT ![p] = c]
  PROVE  /\ call' \in [Processes -> CallRecord] /\ call'[p] = c
         /\ \A q \in Processes \ {p} : call'[q] = call[q]
  BY DEF PromotionTypeOK

LEMMA MovedToIdle ==
  ASSUME PromotionTypeOK, NEW p \in Processes, call' = [call EXCEPT ![p] = Idle]
  PROVE  Moved(p)
  BY MovedTo, IdleType DEF Moved, CallKnows, AfterPrepare

LEMMA PrepareMoves ==
  ASSUME PInv, [PromotionNext]_pvars, NEW p \in Processes, Prepare(p)
  PROVE  Moved(p)
<1>t. PromotionTypeOK /\ CallKnows(p) /\ TypeOK /\ RowsBound
  BY DEF PInv, IInv
<1>f. flow \in Nat /\ call[p] \in CallRecord /\ call[p].rev \in Nat
  BY <1>t DEF PromotionTypeOK, CallRecord
<1>1. ASSUME NEW k \in Works, NEW mode \in {"prepare", "promote"}, StartPrepare(p, k, mode)
      PROVE  Moved(p)
  <2>1. PICK c : c = [Idle EXCEPT !.pc = "claim", !.mode = mode, !.work = k, !.rev = flow]
    OBVIOUS
  <2>2. c \in CallRecord /\ c.pc = "claim" /\ c.work = k
    BY <2>1, <1>f DEF Idle, CallRecord, Steps
  <2>3. call' = [call EXCEPT ![p] = c]
    BY <1>1, <2>1 DEF StartPrepare, Begin
  <2> QED
    BY <1>t, <2>2, <2>3, MovedTo DEF Moved, CallKnows, AfterPrepare
<1>2. ASSUME NEW k \in Works, ReplayPrepare(p, k) PROVE Moved(p)
  <2>1. PICK c : c = [Idle EXCEPT !.pc = "bind", !.mode = "promote", !.work = k, !.rev = flow]
    OBVIOUS
  <2>2. c \in CallRecord /\ c.pc = "bind" /\ c.work = k
    BY <2>1, <1>f DEF Idle, CallRecord, Steps
  <2>3. call' = [call EXCEPT ![p] = c]
    BY <1>2, <2>1 DEF ReplayPrepare, Begin
  <2> QED
    BY <1>t, <2>2, <2>3, MovedTo DEF Moved, CallKnows, AfterPrepare
<1>3. ASSUME NEW x \in Runs, Claim(p, x) PROVE Moved(p)
  <2>1. PICK k \in Works : k = call[p].work
    BY <1>3, <1>t DEF CallKnows, Claim, At
  <2>2. PICK c \in CallRecord :
           /\ call' = [call EXCEPT ![p] = c]
           /\ c.pc = "precheck" /\ c.work = k /\ c.run = x /\ c.fence = run[x].fence
    <3> DEFINE c == [call[p] EXCEPT !.pc = "precheck", !.run = x, !.id = run[x].id,
                                    !.fence = run[x].fence]
    <3>1. c \in CallRecord
      BY <1>f, <1>t DEF TypeOK, RunRow, CallRecord, Steps
    <3>2. call' = [call EXCEPT ![p] = c]
      BY <1>3, <1>t DEF Claim, PromotionTypeOK
    <3>3. c.pc = "precheck" /\ c.work = k /\ c.run = x /\ c.fence = run[x].fence
      BY <1>f, <2>1 DEF CallRecord
    <3> QED
      BY <3>1, <3>2, <3>3
  <2>3. Active(x, k) /\ lease[k].fence = run[x].fence /\ run[x].fence \in Nat
    BY <1>3, <2>1, <1>t DEF Claim, ClaimForRun, ClaimResource, TypeOK, RunRow
  <2>4. RunKept(k, c)
    BY <2>2, <2>3 DEF RunKept, Active
  <2>5. RunKept(k, c)'
    BY <1>t, <2>2, <2>3, <2>4, RunKeptStep, KernelMoves
  <2> QED
    BY <1>t, <2>2, <2>5, MovedTo DEF Moved, CallKnows, AfterPrepare
<1>4. ASSUME Precheck(p) PROVE Moved(p)
  <2>1. PICK k \in Works : k = call[p].work /\ RunKept(k, call[p])
    BY <1>4, <1>t DEF CallKnows, Precheck, At
  <2>2. PICK c \in CallRecord :
           /\ call' = [call EXCEPT ![p] = c]
           /\ c.pc = "insert" /\ c.work = k /\ c.run = call[p].run /\ c.fence = call[p].fence
    <3> DEFINE c == [call[p] EXCEPT !.pc = "insert"]
    <3>1. /\ c \in CallRecord /\ c.pc = "insert"
          /\ c.work = k /\ c.run = call[p].run /\ c.fence = call[p].fence
      BY <1>f, <2>1 DEF CallRecord, Steps
    <3>2. call' = [call EXCEPT ![p] = c]
      BY <1>4, <1>t DEF Precheck, Goto, PromotionTypeOK
    <3> QED
      BY <3>1, <3>2
  <2>3. RunKept(k, c)
    BY <2>1, <2>2 DEF RunKept
  <2>4. RunKept(k, c)'
    BY <1>t, <2>2, <2>3, RunKeptStep, KernelMoves DEF CallRecord
  <2> QED
    BY <1>t, <2>2, <2>4, MovedTo DEF Moved, CallKnows, AfterPrepare
<1>5. ASSUME Insert(p) PROVE Moved(p)
  <2>1. PICK k \in Works : k = call[p].work
    BY <1>5, <1>t DEF CallKnows, Insert, At
  <2>2. CASE call' = [call EXCEPT ![p] = Idle]
    BY <2>2, <1>t, MovedToIdle
  <2>3. CASE call' = [call EXCEPT ![p] = [Idle EXCEPT !.pc = "bind", !.mode = "promote",
                                                      !.work = k, !.rev = call[p].rev]]
    <3>1. PICK c : c = [Idle EXCEPT !.pc = "bind", !.mode = "promote", !.work = k,
                                    !.rev = call[p].rev]
      OBVIOUS
    <3>2. c \in CallRecord /\ c.pc = "bind" /\ c.work = k
      BY <3>1, <1>f DEF Idle, CallRecord, Steps
    <3>3. call' = [call EXCEPT ![p] = c]
      BY <2>3, <3>1
    <3> QED
      BY <1>t, <3>2, <3>3, MovedTo DEF Moved, CallKnows, AfterPrepare
  <2> QED
    BY <1>5, <2>1, <2>2, <2>3 DEF Insert
<1>6. ASSUME Bind(p) PROVE Moved(p)
  BY <1>6, <1>t, MovedToIdle DEF Bind
<1> QED
  BY <1>1, <1>2, <1>3, <1>4, <1>5, <1>6 DEF Prepare

(* A call that begins to observe the ref of a prepared effect. *)
LEMMA ObservesNext ==
  ASSUME PInv, [PromotionNext]_pvars, NEW p \in Processes, NEW k \in Works, Prepared(k),
         NEW pc \in {"observe", "check"}, NEW mode \in {"reconcile", "apply"},
         call' = [call EXCEPT ![p] = [Idle EXCEPT !.pc = pc, !.mode = mode, !.work = k]]
  PROVE  Moved(p)
<1>1. PICK c : c = [Idle EXCEPT !.pc = pc, !.mode = mode, !.work = k]
  OBVIOUS
<1>2. c \in CallRecord /\ c.pc = pc /\ c.work = k
  BY <1>1 DEF Idle, CallRecord, Steps
<1>3. call' = [call EXCEPT ![p] = c] /\ Prepared(k)' /\ PromotionTypeOK
  BY <1>1, RowsGrow DEF PInv
<1> QED
  BY <1>2, <1>3, MovedTo DEF Moved, CallKnows

LEMMA ReconcileMoves ==
  ASSUME PInv, [PromotionNext]_pvars, NEW p \in Processes, Reconcile(p)
  PROVE  Moved(p)
<1>t. PromotionTypeOK /\ CallKnows(p) /\ \A k \in Works : EffectKnows(k)
  BY DEF PInv
<1>f. call[p] \in CallRecord
  BY <1>t DEF PromotionTypeOK
<1>1. ASSUME NEW k \in Works, StartReconcile(p, k) PROVE Moved(p)
  BY <1>1, ObservesNext DEF StartReconcile, Begin
<1>2. ASSUME NEW obs \in Oids \cup {Unseen}, At(p, "observe"),
             obs \in {ref[Target[call[p].work]], Unseen},
             call' = [call EXCEPT ![p].pc = "persist", ![p].obs = obs]
      PROVE  Moved(p)
  <2>1. PICK k \in Works : k = call[p].work /\ Prepared(k)
    BY <1>2, <1>t DEF CallKnows, At, AfterPrepare
  <2>2. PICK c : c = [call[p] EXCEPT !.pc = "persist", !.obs = obs]
    OBVIOUS
  <2>3. c \in CallRecord /\ c.pc = "persist" /\ c.work = k /\ c.obs = obs
    BY <1>f, <2>1, <2>2 DEF CallRecord, Steps
  <2>4. call' = [call EXCEPT ![p] = c]
    BY <1>2, <1>t, <2>2 DEF PromotionTypeOK
  <2>5. obs = Commit[k] => landed[k] > 0
    BY <1>2, <1>t, <2>1, PromotionAssumption DEF EffectKnows
  <2>6. Prepared(k)' /\ (obs = Commit[k] => landed'[k] > 0)
    BY <2>1, <2>5, RowsGrow
  <2> QED
    BY <1>t, <2>3, <2>4, <2>6, MovedTo DEF Moved, CallKnows
<1>3. ASSUME ObserveExact(p) PROVE Moved(p)
  <2>1. call[p].work \in Works
    BY <1>3, <1>t DEF CallKnows, ObserveExact, At
  <2>2. ref[Target[call[p].work]] \in Oids
    BY <1>t, <2>1, PromotionAssumption DEF PromotionTypeOK
  <2> QED
    BY <1>2, <1>3, <2>2 DEF ObserveExact
<1>4. ASSUME ObserveNothing(p) PROVE Moved(p)
  BY <1>2, <1>4 DEF ObserveNothing
<1>5. ASSUME PersistObservation(p) PROVE Moved(p)
  <2>1. PICK k \in Works : k = call[p].work /\ Prepared(k)
    BY <1>5, <1>t DEF CallKnows, PersistObservation, At, AfterPrepare
  <2>2. CASE call' = [call EXCEPT ![p] = Idle]
    BY <2>2, <1>t, MovedToIdle
  <2>3. CASE call' = [call EXCEPT ![p] =
                        [Idle EXCEPT !.pc = "check", !.mode = "apply", !.work = k]]
    BY <2>1, <2>3, ObservesNext
  <2> QED
    BY <1>5, <2>1, <2>2, <2>3 DEF PersistObservation
<1> QED
  BY <1>1, <1>3, <1>4, <1>5 DEF Reconcile

LEMMA ApplyMoves ==
  ASSUME PInv, [PromotionNext]_pvars, NEW p \in Processes, ApplyIfSafe(p)
  PROVE  Moved(p)
<1>t. PromotionTypeOK /\ CallKnows(p) /\ TypeOK
  BY DEF PInv, IInv
<1>f. call[p] \in CallRecord
  BY <1>t DEF PromotionTypeOK
<1>1. ASSUME NEW k \in Works, StartApply(p, k) \/ StartPromotion(p, k) PROVE Moved(p)
  BY <1>1, ObservesNext DEF StartApply, StartPromotion, Begin
<1>2. ASSUME ~At(p, "idle"), call[p].pc \in AfterPrepare
      PROVE  \E k \in Works : k = call[p].work /\ Prepared(k)
  BY <1>2, <1>t DEF CallKnows, At
<1>3. ASSUME Check(p) PROVE Moved(p)
  <2>1. PICK k \in Works : k = call[p].work /\ Prepared(k)
    BY <1>2, <1>3 DEF Check, At, AfterPrepare
  <2>2. PICK c : c = [call[p] EXCEPT !.pc = "authorize"]
    OBVIOUS
  <2>3. c \in CallRecord /\ c.pc = "authorize" /\ c.work = k
    BY <1>f, <2>1, <2>2 DEF CallRecord, Steps
  <2>4. call' = [call EXCEPT ![p] = c] /\ Prepared(k)'
    BY <1>3, <1>t, <2>1, <2>2, RowsGrow DEF Check, Goto, PromotionTypeOK
  <2> QED
    BY <1>t, <2>3, <2>4, MovedTo DEF Moved, CallKnows
<1>4. ASSUME Authorize(p) PROVE Moved(p)
  <2>1. PICK k \in Works : k = call[p].work /\ Prepared(k)
    BY <1>2, <1>4 DEF Authorize, At, AfterPrepare
  <2>2. PICK c : c = [call[p] EXCEPT !.pc = "mark", !.rev = cutover.rev]
    OBVIOUS
  <2>3. c \in CallRecord /\ c.pc = "mark" /\ c.work = k /\ c.rev = cutover.rev
    BY <1>f, <1>t, <2>1, <2>2 DEF CallRecord, Steps, PromotionTypeOK, CutoverRow
  <2>4. call' = [call EXCEPT ![p] = c] /\ Prepared(k)'
    BY <1>4, <1>t, <2>1, <2>2, RowsGrow DEF Authorize, PromotionTypeOK
  <2>5. /\ cutover.rev > 0 => binding[k] = cutover.rev /\ effect[k].policy = cutover.rev
        /\ UNCHANGED <<effect, binding>>
    <3>1. cutover.state = "NONE" => cutover.rev = 0
      BY DEF PInv
    <3>2. cutover.rev \in Nat
      BY <1>t DEF PromotionTypeOK, CutoverRow
    <3> QED
      BY <1>4, <2>1, <3>1, <3>2 DEF Authorize
  <2> QED
    BY <1>t, <2>3, <2>4, <2>5, MovedTo DEF Moved, CallKnows
<1>5. ASSUME MarkPossible(p) PROVE Moved(p)
  <2>1. PICK k \in Works : k = call[p].work /\ Prepared(k)
    BY <1>2, <1>5 DEF MarkPossible, At, AfterPrepare
  <2>2. PICK c : c = [call[p] EXCEPT !.pc = "recheck", !.held = OwnsRun(k)]
    OBVIOUS
  <2>3. /\ c \in CallRecord /\ c.pc = "recheck" /\ c.work = k /\ c.rev = call[p].rev
        /\ c.held = OwnsRun(k)
    <3>1. OwnsRun(k) \in BOOLEAN
      BY DEF OwnsRun
    <3> QED
      BY <1>f, <2>1, <2>2, <3>1 DEF CallRecord, Steps
  <2>4. call' = [call EXCEPT ![p] = c] /\ Prepared(k)'
    BY <1>5, <1>t, <2>1, <2>2, RowsGrow DEF MarkPossible, PromotionTypeOK
  <2>5. c.rev > 0 => binding'[k] = c.rev /\ effect'[k].policy = c.rev
    <3>1. c.rev > 0 => binding[k] = c.rev /\ effect[k].policy = c.rev
      BY <1>5, <1>t, <2>1, <2>3 DEF MarkPossible, At, CallKnows
    <3> QED
      BY <2>1, <3>1, RowsGrow
  <2>6. Owns(k, effect[k])' => c.held
    <3>1. /\ effect'[k].run = effect[k].run /\ effect'[k].id = effect[k].id
          /\ effect'[k].fence = effect[k].fence
      BY <2>1, RowsGrow
    <3>2. UNCHANGED <<run, lease>>
      BY <1>5 DEF MarkPossible, vars
    <3> QED
      BY <2>3, <3>1, <3>2 DEF Owns, OwnsRun, SameLease, Active
  <2> QED
    BY <1>t, <2>3, <2>4, <2>5, <2>6, MovedTo DEF Moved, CallKnows
<1>6. ASSUME Recheck(p) PROVE Moved(p)
  <2>1. PICK k \in Works : k = call[p].work /\ Prepared(k)
    BY <1>2, <1>6 DEF Recheck, At, AfterPrepare
  <2>2. PICK c : c = [call[p] EXCEPT !.pc = "cas"]
    OBVIOUS
  <2>3. /\ c \in CallRecord /\ c.pc = "cas" /\ c.work = k /\ c.rev = call[p].rev
        /\ c.held = call[p].held
    BY <1>f, <2>1, <2>2 DEF CallRecord, Steps
  <2>4. call' = [call EXCEPT ![p] = c] /\ Prepared(k)'
    BY <1>6, <1>t, <2>1, <2>2, RowsGrow DEF Recheck, Goto, PromotionTypeOK
  <2>5. /\ c.rev > 0 => binding[k] = c.rev /\ effect[k].policy = c.rev
        /\ UNCHANGED <<effect, binding>>
    BY <1>6, <1>t, <2>1, <2>3 DEF Recheck, At, CallKnows
  <2>6. c.held
    BY <1>6, <1>t, <2>1, <2>3 DEF Recheck, At, CallKnows, OwnsRun, Owns
  <2> QED
    BY <1>t, <2>3, <2>4, <2>5, <2>6, MovedTo DEF Moved, CallKnows
<1>7. ASSUME CasUpdate(p) PROVE Moved(p)
  <2>1. PICK k \in Works : k = call[p].work /\ Prepared(k)
    BY <1>2, <1>7 DEF CasUpdate, At, AfterPrepare
  <2> QED
    BY <1>7, <2>1, ObservesNext DEF CasUpdate
<1> QED
  BY <1>1, <1>3, <1>4, <1>5, <1>6, <1>7 DEF ApplyIfSafe

LEMMA CallStep ==
  ASSUME PInv, [PromotionNext]_pvars
  PROVE  call' \in [Processes -> CallRecord] /\ \A p \in Processes : CallKnows(p)'
<1>1. ASSUME NEW p \in Processes, Moved(p)
      PROVE  call' \in [Processes -> CallRecord] /\ \A q \in Processes : CallKnows(q)'
  BY <1>1, CallFrame DEF Moved
<1>2. CASE call' = call
  BY <1>2, CallFrame DEF PInv, PromotionTypeOK
<1>3. ASSUME NEW p \in Processes, Abandon(p) PROVE Moved(p)
  BY <1>3, MovedToIdle DEF Abandon, PInv
<1>4. ASSUME KernelStep \/ Others \/ UNCHANGED pvars PROVE call' = call
  BY <1>4 DEF KernelStep, Others, ActivateFlow, ReadActiveFlow, ActivateCutover,
              PauseCutover, MoveRef, promotion, pvars
<1> QED
  BY <1>1, <1>2, <1>3, <1>4, PrepareMoves, ReconcileMoves, ApplyMoves, ProcessSets
  DEF PromotionNext

-----------------------------------------------------------------------------
(* The theorems *)

LEMMA InitPInv == PromotionInit => PInv
<1> SUFFICES ASSUME PromotionInit PROVE PInv
  OBVIOUS
<1>1. IInv
  BY InitIInv DEF PromotionInit
<1>2. PromotionTypeOK
  <2>1. ref \in [Resources -> Oids]
    BY DEF PromotionInit, Oids
  <2> QED
    BY <2>1, IdleType DEF PromotionInit, PromotionTypeOK, EffectRow, Certainties, CutoverRow
<1>3. \A p \in Processes : CallKnows(p)
  BY IdleType DEF PromotionInit, CallKnows, AfterPrepare
<1>4. (\A k \in Works : EffectKnows(k)) /\ OneEffect
  BY DEF PromotionInit, EffectKnows, OneEffect, Prepared
<1>5. cutover.state = "NONE" => cutover.rev = 0
  BY DEF PromotionInit
<1> QED
  BY <1>1, <1>2, <1>3, <1>4, <1>5 DEF PInv

LEMMA NextPInv == PInv /\ [PromotionNext]_pvars => PInv'
<1> SUFFICES ASSUME PInv, [PromotionNext]_pvars PROVE PInv'
  OBVIOUS
<1>1. IInv'
  BY KernelMoves, NextIInv DEF PInv
<1>2. PromotionTypeOK'
  BY RowTypes, CallStep, AuthorityStep DEF PromotionTypeOK
<1> QED
  BY <1>1, <1>2, CallStep, EffectStep, AuthorityStep DEF PInv

LEMMA PromotionInvariant == PromotionSpec => []PInv
  BY InitPInv, NextPInv, PTL DEF PromotionSpec

(* The rows, the refs and the calls of a promotion keep their types.       *)
THEOREM PromotionTyped == PromotionSpec => []PromotionTypeOK
<1>1. PInv => PromotionTypeOK
  BY DEF PInv
<1> QED
  BY <1>1, PromotionInvariant, PTL

(* A promotion is a use of the work kernel: everything WorkKernelProofs    *)
(* says of the kernel holds under it.                                      *)
THEOREM PromotionUsesKernel == PromotionSpec => Spec
<1>1. PromotionInit => Init
  BY DEF PromotionInit
<1>2. PInv /\ [PromotionNext]_pvars => [Next]_vars
  BY KernelMoves
<1> QED
  BY <1>1, <1>2, PromotionInvariant, PTL DEF PromotionSpec, Spec

(* AFTER is never recorded of a ref update that did not happen, with any   *)
(* number of processes that reconcile and apply at once.                   *)
THEOREM PromotionIsReal == PromotionSpec => []AfterIsReal
<1>1. PInv => AfterIsReal
  BY DEF PInv, EffectKnows, AfterIsReal
<1> QED
  BY <1>1, PromotionInvariant, PTL

(* A ref is moved only behind a boundary written under the lease, for any  *)
(* number of handoffs between the steps of a call.                         *)
THEOREM PromotionUnderLease == PromotionSpec => []BoundaryUnderLease
<1>1. PInv => BoundaryUnderLease
  BY DEF PInv, CallKnows, BoundaryUnderLease, At
<1> QED
  BY <1>1, PromotionInvariant, PTL

(* One revision of the policy covers preparation, binding and landing, for *)
(* any number of revisions.                                                *)
THEOREM PromotionAsBound == PromotionSpec => []LandedAsBound
<1>1. PInv => LandedAsBound
  BY DEF PInv, EffectKnows, LandedAsBound
<1> QED
  BY <1>1, PromotionInvariant, PTL

(* Who moves a ref, from what and to what. *)
LEMMA RefMoves ==
  ASSUME PInv, [PromotionNext]_pvars
  PROVE  \/ UNCHANGED <<ref, landed>>
         \/ \E j \in Works : /\ Prepared(j) /\ ref[Target[j]] = Expected[j]
                             /\ ref' = [ref EXCEPT ![Target[j]] = Commit[j]]
                             /\ landed' = [landed EXCEPT ![j] = @ + 1]
         \/ /\ landed' = landed
            /\ \E r \in Resources, oid \in Foreign : ref' = [ref EXCEPT ![r] = oid]
<1>1. ASSUME NEW p \in Processes, Insert(p) \/ Bind(p) \/ PersistObservation(p) \/ MarkPossible(p)
      PROVE  UNCHANGED <<ref, landed>>
  BY <1>1 DEF Insert, Bind, PersistObservation, MarkPossible
<1>2. ASSUME NEW p \in Processes, CasUpdate(p)
      PROVE  \/ UNCHANGED <<ref, landed>>
             \/ \E j \in Works : /\ Prepared(j) /\ ref[Target[j]] = Expected[j]
                                 /\ ref' = [ref EXCEPT ![Target[j]] = Commit[j]]
                                 /\ landed' = [landed EXCEPT ![j] = @ + 1]
  <2>1. PICK j \in Works : j = call[p].work /\ Prepared(j)
    BY <1>2 DEF PInv, CallKnows, CasUpdate, At, AfterPrepare
  <2> QED
    BY <1>2, <2>1 DEF CasUpdate
<1>3. ASSUME NEW r \in Resources, NEW oid \in Foreign, MoveRef(r, oid)
      PROVE  landed' = landed /\ ref' = [ref EXCEPT ![r] = oid]
  BY <1>3 DEF MoveRef
<1> QED
  BY <1>1, <1>2, <1>3, RowSteps

(* A landed effect finds its expected old value no more. *)
Spent == \A k \in Works : landed[k] <= 1 /\ (landed[k] > 0 => ref[Target[k]] # Expected[k])

(* However many processes apply an effect, it moves its ref once, if       *)
(* nobody else ever sets the ref back to the value the Candidate was made  *)
(* from.                                                                   *)
THEOREM PromotionOnce ==
  ASSUME \A k \in Works : Expected[k] \notin Foreign
  PROVE  PromotionSpec => []LandsOnce
<1>1. PromotionInit => Spent
  BY DEF PromotionInit, Spent
<1>2. ASSUME PInv, [PromotionNext]_pvars, Spent PROVE Spent'
  <2>t. /\ ref \in [Resources -> Oids] /\ landed \in [Works -> Nat] /\ OneEffect
        /\ \A k \in Works : landed[k] > 0 => Prepared(k)
    BY <1>2 DEF PInv, PromotionTypeOK, EffectKnows
  <2>1. CASE UNCHANGED <<ref, landed>>
    BY <1>2, <2>1 DEF Spent
  <2>2. ASSUME NEW j \in Works, Prepared(j), ref[Target[j]] = Expected[j],
               ref' = [ref EXCEPT ![Target[j]] = Commit[j]],
               landed' = [landed EXCEPT ![j] = @ + 1]
        PROVE  Spent'
    <3>1. landed[j] = 0 /\ landed'[j] = 1 /\ ref'[Target[j]] = Commit[j]
      BY <1>2, <2>2, <2>t, PromotionAssumption DEF Spent
    <3>2. ASSUME NEW k \in Works \ {j}
          PROVE  landed'[k] = landed[k] /\ (landed[k] > 0 => ref'[Target[k]] = ref[Target[k]])
      BY <2>2, <2>t, <3>2, PromotionAssumption DEF OneEffect
    <3> QED
      BY <1>2, <3>1, <3>2, PromotionAssumption DEF Spent
  <2>3. ASSUME NEW r \in Resources, NEW oid \in Foreign, ref' = [ref EXCEPT ![r] = oid],
               landed' = landed
        PROVE  Spent'
    BY <1>2, <2>3, <2>t, PromotionAssumption DEF Spent
  <2> QED
    BY <1>2, <2>1, <2>2, <2>3, RefMoves
<1>3. Spent => LandsOnce
  BY DEF Spent, LandsOnce
<1> QED
  BY <1>1, <1>2, <1>3, PromotionInvariant, PTL DEF PromotionSpec
=============================================================================
