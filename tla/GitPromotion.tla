---------------------------- MODULE GitPromotion ----------------------------
(***************************************************************************)
(* Promotion of a sealed Candidate to a Git ref: PreparedGitCasAdapter     *)
(* (m7a_git_cas.py) under the cutover of M7cPromotionAuthority             *)
(* (m7c_promotion_authority.py), beside the work kernel whose run, lease   *)
(* and claim it relies on.                                                 *)
(*                                                                         *)
(* A call is a sequence of transactions and Git commands: every one of     *)
(* them is an action, and anything may happen between two of them.  The    *)
(* adapters take the lease from the active run and not from their caller,  *)
(* so any process may call.  A call that a check refuses, that raises or   *)
(* that dies with its process ends in Abandon; so does one for a Candidate *)
(* that candidate.py no longer answers for (_assert_candidate).            *)
(*                                                                         *)
(* One cutover covers the refs of the model; a resource of the kernel is   *)
(* the ref of that name.                                                   *)
(***************************************************************************)
EXTENDS WorkKernel

CONSTANTS
    Preparers,      \* processes that call prepare
    Callers,        \* processes that call reconcile and apply_if_safe
    Target,         \* Target[k]: the ref that WorkItem k promotes to
    Expected,       \* Expected[k]: the value the ref has before, the base of the
                    \* Candidate or absence
    Commit,         \* Commit[k]: the commit prepare makes of the Candidate
    Foreign,        \* what others may set a ref to
    Absent,         \* the ref does not exist
    Unseen,         \* the ref could not be observed
    MaxRevision     \* model bound on the revisions of the validation flow

Processes == Preparers \cup Callers

Oids == {Expected[k] : k \in Works} \cup {Commit[k] : k \in Works} \cup Foreign \cup {Absent}

ASSUME PromotionAssumption ==
    /\ Target \in [Works -> Resources]
    /\ Unseen \notin Oids /\ None \notin Runs
    /\ \A k \in Works : /\ Commit[k] \notin Foreign \cup {Expected[k], Absent, Unseen}
                        /\ \A j \in Works \ {k} : Commit[j] # Commit[k]
    /\ MaxRevision \in Nat

VARIABLES
    ref,            \* the Git refs
    effect,         \* m7a_git_effects, one row for a WorkItem
    binding,        \* m7c_promotion_bindings: the revision, 0 without a row
    cutover,        \* the row of m7c_promotion_cutovers
    flow,           \* the active revision of the M6c validation flow
    activating,     \* the revision an activate_cutover under way has read, or 0
    call,           \* what each process is doing
    landed,         \* landed[k]: how often the ref update of k succeeded
    warrant         \* warrant[k]: the cutover revision it was authorized under

promotion == <<ref, effect, binding, cutover, flow, activating, call, landed, warrant>>
pvars == <<vars, promotion>>
authority == <<cutover, flow, activating>>

Certainties == {"NONE", "BEFORE", "POSSIBLE", "AFTER", "DIVERGED", "AMBIGUOUS"}
EffectRow == [certainty : Certainties, policy : Nat, run : Runs \cup {None},
              id : LeaseIds \cup {None}, fence : Nat]
Steps == {"idle", "claim", "precheck", "insert", "bind", "observe", "persist", "check",
          "authorize", "mark", "recheck", "cas"}
CallRecord == [pc : Steps, mode : {"none", "prepare", "promote", "reconcile", "apply"},
               work : Works \cup {None}, rev : Nat, run : Runs \cup {None},
               id : LeaseIds \cup {None}, fence : Nat,
               obs : Oids \cup {Unseen}, held : BOOLEAN]
CutoverRow == [state : {"NONE", "ACTIVE", "PAUSED"}, rev : Nat]

PromotionTypeOK ==
    /\ ref \in [Resources -> Oids]
    /\ effect \in [Works -> EffectRow]
    /\ binding \in [Works -> Nat]
    /\ cutover \in CutoverRow
    /\ flow \in Nat /\ activating \in Nat
    /\ call \in [Processes -> CallRecord]
    /\ landed \in [Works -> Nat]
    /\ warrant \in [Works -> Nat]

Idle == [pc |-> "idle", mode |-> "none", work |-> None, rev |-> 0, run |-> None,
         id |-> None, fence |-> 0, obs |-> Unseen, held |-> FALSE]

PromotionInit ==
    /\ Init
    /\ ref \in [Resources -> {Absent} \cup {Expected[k] : k \in Works}]
    /\ \A k \in Works : ref[Target[k]] # Commit[k]
    /\ effect = [k \in Works |-> [certainty |-> "NONE", policy |-> 0, run |-> None,
                                  id |-> None, fence |-> 0]]
    /\ binding = [k \in Works |-> 0]
    /\ cutover = [state |-> "NONE", rev |-> 0]
    /\ flow = 1 /\ activating = 0
    /\ call = [p \in Processes |-> Idle]
    /\ landed = [k \in Works |-> 0]
    /\ warrant = [k \in Works |-> 0]

Prepared(k) == effect[k].certainty # "NONE"
At(p, pc) == call[p].pc = pc
Goto(p, pc) == call' = [call EXCEPT ![p].pc = pc]
Begin(p, c) == At(p, "idle") /\ call' = [call EXCEPT ![p] = c]

-----------------------------------------------------------------------------
(* Authority: the M6c flow and the M7c cutover *)

(* activate_flow of M6c: a revision that is new, or one that was active    *)
(* before and becomes the head of the flow again.                          *)
ActivateFlow(rev) ==
    /\ rev # flow
    /\ flow' = rev
    /\ UNCHANGED <<vars, ref, effect, binding, cutover, activating, call, landed, warrant>>

(* activate_cutover reads the active flow ...; one that died is replaced   *)
(* by the next.                                                            *)
ReadActiveFlow ==
    /\ activating' = flow
    /\ UNCHANGED <<vars, ref, effect, binding, cutover, flow, call, landed, warrant>>

(* ... and installs what it read, whatever M6c has activated since.        *)
ActivateCutover ==
    /\ activating # 0
    /\ cutover' = [state |-> "ACTIVE", rev |-> activating]
    /\ activating' = 0
    /\ UNCHANGED <<vars, ref, effect, binding, flow, call, landed, warrant>>

(* pause_cutover *)
PauseCutover ==
    /\ cutover.state # "NONE"
    /\ cutover' = [cutover EXCEPT !.state = "PAUSED"]
    /\ UNCHANGED <<vars, ref, effect, binding, flow, activating, call, landed, warrant>>

-----------------------------------------------------------------------------
(* prepare: m7a's alone, or m7c's around it ("promote") *)

(* No row of the WorkItem exists yet. *)
StartPrepare(p, k, mode) ==
    /\ ~Prepared(k)
    /\ mode = "promote" => cutover = [state |-> "ACTIVE", rev |-> flow]
    /\ Begin(p, [Idle EXCEPT !.pc = "claim", !.mode = mode, !.work = k, !.rev = flow])
    /\ UNCHANGED <<vars, ref, effect, binding, authority, landed, warrant>>

(* The row exists and is the one asked for: m7c goes on to its binding. *)
ReplayPrepare(p, k) ==
    /\ Prepared(k) /\ effect[k].policy = flow
    /\ cutover = [state |-> "ACTIVE", rev |-> flow]
    /\ Begin(p, [Idle EXCEPT !.pc = "bind", !.mode = "promote", !.work = k, !.rev = flow])
    /\ UNCHANGED <<vars, ref, effect, binding, authority, landed, warrant>>

(* The active run holds the lease; the ref is claimed with that lease, or  *)
(* was already.                                                            *)
Claim(p, x) ==
    LET k == call[p].work
        r == Target[k]
    IN  /\ At(p, "claim")
        /\ Active(x, k)
        /\ \/ ClaimForRun(k, x, r)
           \/ /\ Holds(r, k) /\ claim[r].id = run[x].id /\ claim[r].fence = run[x].fence
              /\ lease[k].state = "ACTIVE"
              /\ lease[k].id = run[x].id /\ lease[k].fence = run[x].fence
              /\ UNCHANGED vars
        /\ call' = [call EXCEPT ![p].pc = "precheck", ![p].run = x, ![p].id = run[x].id,
                                ![p].fence = run[x].fence]
        /\ UNCHANGED <<ref, effect, binding, authority, landed, warrant>>

(* The ref still has the expected old value. *)
Precheck(p) ==
    /\ At(p, "precheck")
    /\ ref[Target[call[p].work]] = Expected[call[p].work]
    /\ Goto(p, "insert")
    /\ UNCHANGED <<vars, ref, effect, binding, authority, landed, warrant>>

(* Mutant: two of the 34 columns of the row are swapped. *)
InsertSwapped(p) ==
    LET c == call[p]
        k == c.work
    IN  /\ At(p, "insert")
        /\ \/ /\ \A j \in Works : Target[j] = Target[k] => ~Prepared(j)
              /\ effect' = [effect EXCEPT ![k] =
                    [certainty |-> "PREPARED", policy |-> c.rev, run |-> c.run,
                     id |-> c.id, fence |-> c.fence]]
           \/ /\ Prepared(k) /\ effect[k].policy = c.rev /\ effect[k].run = c.run
              /\ UNCHANGED effect
        /\ call' = [call EXCEPT ![p] = IF c.mode = "promote"
                        THEN [Idle EXCEPT !.pc = "bind", !.mode = "promote", !.work = k,
                                          !.rev = c.rev]
                        ELSE Idle]
        /\ UNCHANGED <<vars, ref, binding, authority, landed, warrant>>

(* The objects are written, then the row; work_id and resource_key are     *)
(* unique.  Whoever finds the same effect takes it as its own.             *)
Insert(p) ==
    LET c == call[p]
        k == c.work
    IN  /\ At(p, "insert")
        /\ \/ /\ \A j \in Works : Target[j] = Target[k] => ~Prepared(j)
              /\ effect' = [effect EXCEPT ![k] =
                    [certainty |-> "BEFORE", policy |-> c.rev, run |-> c.run,
                     id |-> c.id, fence |-> c.fence]]
           \/ /\ Prepared(k) /\ effect[k].policy = c.rev /\ effect[k].run = c.run
              /\ UNCHANGED effect
        /\ call' = [call EXCEPT ![p] = IF c.mode = "promote"
                        THEN [Idle EXCEPT !.pc = "bind", !.mode = "promote", !.work = k,
                                          !.rev = c.rev]
                        ELSE Idle]
        /\ UNCHANGED <<vars, ref, binding, authority, landed, warrant>>

(* m7c records the revision the effect was prepared under, once. *)
Bind(p) ==
    LET c == call[p] IN
    /\ At(p, "bind")
    /\ binding[c.work] \in {0, c.rev}
    /\ binding' = [binding EXCEPT ![c.work] = c.rev]
    /\ call' = [call EXCEPT ![p] = Idle]
    /\ UNCHANGED <<vars, ref, effect, authority, landed, warrant>>

-----------------------------------------------------------------------------
(* reconcile *)

(* _classification *)
Classification(k, obs) ==
    CASE obs = Unseen -> "AMBIGUOUS"
      [] obs = Commit[k] -> "AFTER"
      [] obs = Expected[k] -> "BEFORE"
      [] OTHER -> "DIVERGED"

(* reconcile begins with the record. *)
StartReconcile(p, k) ==
    /\ Prepared(k)
    /\ Begin(p, [Idle EXCEPT !.pc = "observe", !.mode = "reconcile", !.work = k])
    /\ UNCHANGED <<vars, ref, effect, binding, authority, landed, warrant>>

(* The ref is observed, or the observation fails. *)
ObserveExact(p) ==
    /\ At(p, "observe")
    /\ call' = [call EXCEPT ![p].pc = "persist", ![p].obs = ref[Target[call[p].work]]]
    /\ UNCHANGED <<vars, ref, effect, binding, authority, landed, warrant>>

ObserveNothing(p) ==
    /\ At(p, "observe")
    /\ call' = [call EXCEPT ![p].pc = "persist", ![p].obs = Unseen]
    /\ UNCHANGED <<vars, ref, effect, binding, authority, landed, warrant>>

(* Mutant: a ref that is not at the expected value any more was moved by   *)
(* the effect.                                                             *)
PersistMovedIsAfter(p) ==
    LET c == call[p]
        k == c.work
        certainty == IF Classification(k, c.obs) = "DIVERGED" THEN "AFTER"
                     ELSE Classification(k, c.obs)
    IN  /\ At(p, "persist")
        /\ effect' = [effect EXCEPT ![k].certainty = certainty]
        /\ call' = [call EXCEPT ![p] = IF c.mode = "apply"
                        THEN [Idle EXCEPT !.pc = "check", !.mode = "apply", !.work = k]
                        ELSE Idle]
        /\ UNCHANGED <<vars, ref, binding, authority, landed, warrant>>

(* _persist_observation: the row is overwritten whatever it says by now.   *)
PersistObservation(p) ==
    LET c == call[p]
        k == c.work
        certainty == Classification(k, c.obs)
    IN  /\ At(p, "persist")
        /\ effect' = [effect EXCEPT ![k].certainty = certainty]
        /\ call' = [call EXCEPT ![p] = IF c.mode = "apply"
                        THEN [Idle EXCEPT !.pc = "check", !.mode = "apply", !.work = k]
                        ELSE Idle]
        /\ UNCHANGED <<vars, ref, binding, authority, landed, warrant>>

-----------------------------------------------------------------------------
(* apply_if_safe *)

(* m7a's, which begins with a reconcile. *)
StartApply(p, k) ==
    /\ Prepared(k)
    /\ Begin(p, [Idle EXCEPT !.pc = "observe", !.mode = "apply", !.work = k])
    /\ UNCHANGED <<vars, ref, effect, binding, authority, landed, warrant>>

(* m7c's, which looks at the cutover, the flow and the binding first. *)
StartPromotion(p, k) ==
    /\ binding[k] = flow
    /\ cutover = [state |-> "ACTIVE", rev |-> flow]
    /\ StartApply(p, k)

(* _assert_active_run: the run of the effect is active, still has the lease*)
(* of the effect, the lease is current and so is the claim.  A lease that  *)
(* is lost never comes back, so the two reads of the code are one.         *)
SameLease(row, e) == row.id = e.id /\ row.fence = e.fence

OwnsRun(k) ==
    LET e == effect[k] IN
    /\ e.run \in Runs /\ Active(e.run, k) /\ SameLease(run[e.run], e)
    /\ lease[k].state = "ACTIVE" /\ SameLease(lease[k], e)

OwnsRef(k) == Holds(Target[k], k) /\ SameLease(claim[Target[k]], effect[k])

(* The row, read back, is proven BEFORE, and the run is current. *)
Check(p) ==
    LET k == call[p].work IN
    /\ At(p, "check")
    /\ effect[k].certainty = "BEFORE"
    /\ OwnsRun(k) /\ OwnsRef(k)
    /\ Goto(p, "authorize")
    /\ UNCHANGED <<vars, ref, effect, binding, authority, landed, warrant>>

(* Mutant: the binding is not compared with the cutover. *)
AuthorizeUnbound(p) ==
    LET k == call[p].work IN
    /\ At(p, "authorize")
    /\ cutover.state # "NONE" =>
          /\ cutover.state = "ACTIVE"
          /\ flow = cutover.rev /\ effect[k].policy = flow
    /\ call' = [call EXCEPT ![p].pc = "mark", ![p].rev = cutover.rev]
    /\ UNCHANGED <<vars, ref, effect, binding, authority, landed, warrant>>

(* _authorize: under a cutover, the flow, the effect and its binding are of*)
(* the revision of the cutover; without one, the M6a gate decides.         *)
Authorize(p) ==
    LET k == call[p].work IN
    /\ At(p, "authorize")
    /\ cutover.state # "NONE" =>
          /\ cutover.state = "ACTIVE"
          /\ flow = cutover.rev /\ effect[k].policy = flow
          /\ binding[k] = cutover.rev
    /\ call' = [call EXCEPT ![p].pc = "mark", ![p].rev = cutover.rev]
    /\ UNCHANGED <<vars, ref, effect, binding, authority, landed, warrant>>

(* _mark_possible, unless the certainty changed.  held remembers whether   *)
(* the effect still owned its run at this moment.                          *)
MarkPossible(p) ==
    LET k == call[p].work IN
    /\ At(p, "mark")
    /\ effect[k].certainty = "BEFORE"
    /\ effect' = [effect EXCEPT ![k].certainty = "POSSIBLE"]
    /\ call' = [call EXCEPT ![p].pc = "recheck", ![p].held = OwnsRun(k)]
    /\ UNCHANGED <<vars, ref, binding, authority, landed, warrant>>

(* Mutant: the run is not looked at again behind the boundary. *)
RecheckNothing(p) ==
    /\ At(p, "recheck")
    /\ Goto(p, "cas")
    /\ UNCHANGED <<vars, ref, effect, binding, authority, landed, warrant>>

Recheck(p) ==
    /\ At(p, "recheck")
    /\ OwnsRun(call[p].work) /\ OwnsRef(call[p].work)
    /\ Goto(p, "cas")
    /\ UNCHANGED <<vars, ref, effect, binding, authority, landed, warrant>>

(* _cas_update: git update-ref <ref> <commit> <expected old>.  Whether it  *)
(* succeeds or not, a reconcile follows.                                   *)
CasUpdate(p) ==
    LET c == call[p]
        k == c.work
        r == Target[k]
    IN  /\ At(p, "cas")
        /\ IF ref[r] = Expected[k]
           THEN /\ ref' = [ref EXCEPT ![r] = Commit[k]]
                /\ landed' = [landed EXCEPT ![k] = @ + 1]
                /\ warrant' = [warrant EXCEPT ![k] = c.rev]
           ELSE UNCHANGED <<ref, landed, warrant>>
        /\ call' = [call EXCEPT ![p] = [Idle EXCEPT !.pc = "observe", !.mode = "reconcile",
                                                    !.work = k]]
        /\ UNCHANGED <<vars, effect, binding, authority>>

-----------------------------------------------------------------------------
(* The rest of the world *)

(* A check refuses, Git or SQLite raises, or the process dies. *)
Abandon(p) ==
    /\ ~At(p, "idle")
    /\ call' = [call EXCEPT ![p] = Idle]
    /\ UNCHANGED <<vars, ref, effect, binding, authority, landed, warrant>>

(* Somebody else moves or deletes the ref. *)
MoveRef(r, oid) ==
    /\ ref[r] # oid
    /\ ref' = [ref EXCEPT ![r] = oid]
    /\ UNCHANGED <<vars, effect, binding, authority, call, landed, warrant>>

(* An operation of the kernel. *)
KernelStep == Next /\ UNCHANGED promotion

Prepare(p) ==
    \/ \E k \in Works : \/ \E mode \in {"prepare", "promote"} : StartPrepare(p, k, mode)
                       \/ ReplayPrepare(p, k)
    \/ \E x \in Runs : Claim(p, x)
    \/ Precheck(p) \/ Insert(p) \/ Bind(p)

Reconcile(p) ==
    \/ \E k \in Works : StartReconcile(p, k)
    \/ ObserveExact(p) \/ ObserveNothing(p) \/ PersistObservation(p)

ApplyIfSafe(p) ==
    \/ \E k \in Works : StartApply(p, k) \/ StartPromotion(p, k)
    \/ Check(p) \/ Authorize(p) \/ MarkPossible(p) \/ Recheck(p) \/ CasUpdate(p)

Others ==
    \/ \E rev \in 1..MaxRevision : ActivateFlow(rev)
    \/ ReadActiveFlow \/ ActivateCutover \/ PauseCutover
    \/ \E r \in Resources, oid \in Foreign : MoveRef(r, oid)

PromotionNext ==
    \/ KernelStep
    \/ \E p \in Preparers : Prepare(p)
    \/ \E p \in Callers : Reconcile(p) \/ ApplyIfSafe(p)
    \/ \E p \in Processes : Abandon(p)
    \/ Others

PromotionSpec == PromotionInit /\ [][PromotionNext]_pvars

-----------------------------------------------------------------------------
(* Properties *)

(* A row says AFTER only if the ref update of this effect succeeded, and   *)
(* the ref has the prepared commit only then: no crash, lost answer or     *)
(* late observation of another call makes a promotion out of nothing.      *)
AfterIsReal ==
    \A k \in Works :
        effect[k].certainty = "AFTER" \/ ref[Target[k]] = Commit[k] => landed[k] > 0

(* An effect moves its ref at most once, however many processes apply it,  *)
(* retry it after a crash or overwrite its row with a late observation, as *)
(* long as nobody sets the ref back.                                       *)
LandsOnce == \A k \in Works : landed[k] <= 1

(* The ref is updated only behind a boundary that was recorded while the   *)
(* effect owned its run and its lease: a WorkItem that was taken over      *)
(* before POSSIBLE was written never has its ref moved by the old effect.  *)
BoundaryUnderLease == \A p \in Processes : At(p, "cas") => call[p].held

(* What landed under a cutover was prepared for, bound to and authorized   *)
(* under one revision of the validation policy, although the cutover may   *)
(* have been paused or moved to another revision at any step between.      *)
LandedAsBound ==
    \A k \in Works : warrant[k] > 0 => warrant[k] = binding[k] /\ warrant[k] = effect[k].policy
=============================================================================
