# Verification of the BDB vNext project workflow

Bartosz Dev Bridge (BDB) vNext drives a ChatGPT conversation through a project plan: it
selects a task, writes a prompt, hands it to a browser tab, receives the result, judges it
and goes on with the next task of the milestone. Beside that loop it has a kernel of work
items with fenced leases, a promotion of sealed candidates to Git refs that relies on it, and
a successor of the loop's continuation on SQLite (stop fence, continuation lease, send
intent, session re-entry). This directory models these parts in TLA+, model-checks them with
TLC and proves the central invariants with TLAPS.

    tlc -workers 2 -config MCProjectExecution.cfg MCProjectExecution     a run
    tlapm ProjectExecutionProofs.tla                                     the proofs

`PROJECT.json` lists the runs, the source lines of every definition, the mutants, the
findings, the hazards and the theorems.

## 1. Inventory

| part | state | operations | how it interacts |
|---|---|---|---|
| ProjectExecutionCoordinator (`project_execution.py`) | execution document: bindings, attempts, task statuses, cursor, milestone run, outbox, handoffs | start, prepare_launch, bind_conversation, record_result, reviews, reconcile, milestone AUTO | every change is a transaction of Project Memory; GUI, workflow and native host run it in separate processes |
| Project Memory (`project_memory.py`) | one JSON document per project, plan versions, current-plan pointer | write_transaction, plan preview/apply, gate statuses | lock file with a 120 s lease, atomic replace |
| ProjectWorkflow (`project_workflow.py`) | none of its own | queue prompts, publish/reconcile the outbox, submit results | calls coordinator, queue and catalog |
| Launch queue (`project_launch.py`) | one pending launch and its 30 s claim | enqueue, peek, claim, acknowledge | own lock file, read by the native host |
| Native host (`m9b_native_host.py`) | none | project_launch_peek / claim / ack | messages of the extension become queue and coordinator calls |
| Extension (`content_adapter.js`) | launch records in chrome.storage, page state, AUTO phase and epoch | projectHandleLaunch, auto send, STOP | asynchronous; every `await` lets others in |
| Project catalog (`project_catalog.py`) | project records | upsert, sync, rebuild | same lock file protocol as Project Memory |
| Work kernel (`m4a_work_kernel.py`) | work items, runs, waits, leases with a fence, resource claims, transition facts | one immediate SQLite transaction each | workers call with the lease and the version they remember |
| Git promotion (`m7a_git_cas.py`, `m7c_promotion_authority.py`, activate_flow of `m6c_validation_authority.py`) | effect rows, cutovers, bindings, the head of the validation flow; the refs are Git's | prepare, reconcile, apply_if_safe, activate and pause cutover, activate flow | takes run, lease and claim from the kernel; several transactions and Git commands per call |
| Stop fence, continuation lease, send intent (`stop_fence.py`, `continuation_lease.py`, `send_intent.py`) | scope epoch and fences, one lease for a continuation, one intent for a send | stop, resume, claim, release, complete; prepare, allow, begin, confirm, reconcile, ack | every effect asks the fence and the lease in its own transaction |
| Session re-entry (`session_reentry.py`), startup recovery (`startup_recovery.py`) | one row for an ended turn | reenter, operator checkpoint; recovery only reads | the controller claims the lease and drives the send intent |
| Checkout sync (`m7b_checkout_sync.py`), bootstrap slots (`bootstrap.py`), effects and admission (`m5a_effects.py`, `m3a_submission.py`, `m3c_admission.py`), rest of the V2 store | trees, slots, effects, rows | | not modelled yet |
| GUI, environment and inventory tools, legacy bridge, experiments | none, or superseded | | not modelled |

What is hard here: operations read the document before the transaction that changes it;
processes crash with the lock file in place; a prompt sent to a web page cannot be recalled
and its effect is only visible on the page; pages reload while the host still works for
them; claims, launches and leases expire under whoever holds them; an operation that is
several transactions can be taken over, overtaken or killed between two of them; the user
stops, reviews, retries and updates the plan at any moment. What must hold: one active binding per task with
growing generations, one verdict per binding, completion only on evidence, no lost
transaction, each AUTO prompt sent at most once and only in the conversation that owns it,
a handoff that tells the truth and eventually happens; in the kernel, one run and one owner
for a work item whoever crashed; in the promotion, a ref that moves once, under its lease and
the policy it was bound to; in the re-entry, no blind resend, no confirmation of what nobody
saw and one message for one continuation. `hazards` in PROJECT.json places
each at its line.

## 2. Modules

| module | models | notes |
|---|---|---|
| `Acceptance` | `_evaluate_acceptance` and the status derived from a result | pure operators |
| `ProjectPlan` | prerequisite blockers, available tasks, `milestone_auto_progress` | pure operators; plan versions are constants |
| `ProjectExecution` | the coordinator and plan updates | EXTENDS the two above |
| `ProjectExecutionProofs` | theorems about it | |
| `AtomicDocument` | what a transaction promises | abstract specification |
| `ExecutionLock` | `write_transaction` and the lock file, by file system step | implements `AtomicDocument` |
| `ExecutionLockProofs` | theorems about it | |
| `LaunchDelivery` | outbox, publisher, queue, native host, content script | |
| `LaunchDeliveryProofs` | theorems about it | |
| `WorkLifecycle` | what the kernel promises of a work item | abstract specification |
| `WorkKernel` | `WorkKernelStore`, one action per transaction | implements `WorkLifecycle` |
| `WorkKernelProofs` | theorems about it | |
| `GitPromotion` | `PreparedGitCasAdapter` and `CanonicalGitPromotionAuthority` | EXTENDS `WorkKernel`: the two are composed |
| `GitPromotionProofs` | theorems about it | uses those of the kernel |
| `SessionReentry` | stop fence, continuation lease, send intent and re-entry controller | |
| `SessionReentryProofs` | theorems about it | |
| `ReentryEffectProofs` | one effect of all calls | EXTENDS the proofs above |
| `StartupRecovery` | what recovery answers for the state of `SessionReentry` | EXTENDS it, adds no state |
| `MC...` | instances for TLC | |

They compose by assumption and guarantee: `ExecutionLock` shows that a transaction is one
atomic step, and `ProjectExecution` and `LaunchDelivery` take each transaction as one
action. The bindings of `ProjectExecution` appear in `LaunchDelivery` as the launches that
are active and the one that is current. `GitPromotion` is composed with `WorkKernel` in one
state space: its next-state relation has every step of the kernel beside its own, and its own
claim of the ref is a step of the kernel.

### ProjectExecution

One variable per field of the execution document, `plan` for the current-plan pointer and
`call[a]` for what process `a` has read before its transaction. Operations that read more
than the plan first are two actions: `NewBinding`/`PersistBinding` (start and the binding
half of prepare_launch), `BeginMilestoneAuto`/`CommitMilestoneAuto`,
`EnsureAutoNextLaunch`/`RestoreCurrentBinding`, `PreviewUpdate`/`ApplyUpdate`,
`Reconcile`/`SetPointer`. The reconcile call that ends a result or a review is not optional:
the action leaves the process at the step "reconcile", and only `Abandon` (an exception or
a crash) skips it. An operation may hold any earlier plan version, because `_project` reads
the plan before the transaction. `RecordStaleResult`, `ReplayResult` and `RecordVerdict` are
the three outcomes of record_result.

Left out: checkpoints and the watchdog (no other field depends on them), earlier entries of
`milestone_runs`, the status "skipped" (treated like completed everywhere), task statuses
written in the plan document (taken as pending), events and summaries, the catalog record
written at the end of reconcile. Milestones and gates are the same in all plan versions, so
the prerequisite synchronisation of apply_update changes nothing. `DocumentLimit` stands
for the 512 entries `_execution_document` accepts: the check is made when the document is
read, so an append can exceed it and every later operation is refused (`Readable`). Two cases of
begin_milestone_auto are left out: a caller that passes its own `milestone_run_id`
(`project_execution.py:1156`; the model inherits the id of the active run or makes a new one),
and MILESTONE_REQUIRED (`project_memory.py:976`), a milestone the plan does not have, which
refuses the call.

### ExecutionLock

The steps of one call: create with O_EXCL, write the token, or stat / unlink an old file /
give up; read, transition, replace; read the token back, unlink. Only writers in `Faulty`
crash or meet I/O errors, only writers in `SlowWriters` outlive the 120 s lease.

The lock has one flaw, in two forms, and the module separates it from the rest. A waiter
finds a file old by `stat` and removes it by name later; when it is slow, the file it removes
is the fresh lock of another waiter. A transaction longer than the lease loses its lock in
the same way. Both are steps that break `LiveLockKept`, the docstring's "A live lock is never
overwritten", and with a third writer the first breaks exclusion, the expected-revision check
and atomicity as well: the run `lock_lost` goes all the way to the lost commit. `KeptSpec`,
the behaviours without such a step, allows every writer to crash, fail, be slow and reclaim:
the run `lock` and the theorems say that there nothing else goes wrong.

### LaunchDelivery

A launch is one binding with its outbox record, handoff and prompt; `AutoSend` are the
launches AUTO sends by itself. A handler is one run of
projectHandleLaunch; its steps are the stretches between awaits (`PageSteps`) and the locked
operations of the native host on its behalf (`HostSteps`). A reload ends the page's part and
lets the host's part go on. `record` is chrome.storage, `page` what a reload loses,
`messages` what the conversation really holds. `Click` may have no effect; `Render` shows
messages some time later; `VerifySend` gives up when it sees nothing in time. A write to
chrome.storage is two steps, as in projectWriteBinding: `ReadStorage` takes all records,
`WriteRecord` puts them back with one changed, and what another tab wrote in between is gone.
`page.inserting` is projectInsertionActive, one flag for the page that the `finally` of any
run clears. A tab outside `Shown` may be hidden whenever its visibility is looked at (the
start of a run, after the claim, after the insertion). `Fail` is a lost message, a host crash
or a page that gives up (composer edited, Send button never enabled, other page state); a
missing status or an error in the run of a receipt also latches AUTO off (projectAutoStop).
The AUTO gate is reduced to what changes here: the launch is current and owned by the
conversation; the milestone stays RUNNABLE. A manual launch is taken by any tab (the popup
acts in the tab the user chose).

Left out: navigation. A tab keeps its conversation, so the comparisons of sameSelection and
finalSelection (`content_adapter.js:859-862`, `902-905`) never fail other than as `Fail`, and
the blank new chat, which has no conversation id yet, does not occur. The queue lock is taken
as atomic, chrome.storage never fails to read and never drops its oldest record.

### WorkKernel

One variable per table (`work`, `lease`, `claim`, `run`, `wait`, `facts`), and for each worker
what it was last told: `mine`, its lease, and `seen`, the state_version. Both go stale, and
`Restart` loses them. A call that is refused or answered as a replay changes no row, so it is
no action. `RenewLease` gives a second process with the same owner and lease id the same
fence, as the code does. `Expire` is the clock: the code compares expires_at in each
transaction. Left out: order counters, reasons, effect_certainty (stored, never read here),
the migration of an old schema.

### GitPromotion

A call is a sequence of transactions and Git commands (`Steps`), and other calls, the kernel
and other writers of the repository step between them. m7a's prepare and apply run alone or
inside m7c's ("promote"; `StartPromotion`). The effect row keeps its certainty; the second
column, state, follows from it and is not read. `flow` is the active revision of the M6c
validation flow; activate_flow makes a new revision the head or goes back to an old one.
activate_cutover reads the head (`ReadActiveFlow`) and installs it in a later transaction
(`ActivateCutover`), when it may be the head no more. The evidence behind a gate is data, and
a gate that refuses is `Abandon`, as is every exception, timeout and crash. `landed`, `warrant` and `held` are history: how often
the ref update succeeded, under which cutover, and whether the effect owned its run when
POSSIBLE was recorded. The two reads of `_assert_active_run` are one step: a lease that is
lost is never valid again. So are the reads of cutover, flow and binding in `_authorize`: all
three are compared with one another, an effect and its binding never change their revision,
and the properties speak of that revision only. One cutover covers the refs of the model.

### SessionReentry and StartupRecovery

Each transaction of the four modules is a step of a call. The owner token of a lease is
known by the generation it was made with and dies with its process. Controllers run reenter
and the operator checkpoint and pass one `now` to all their calls, so that they never see
their own lease expire; clients use the lease and the intents directly, as the recovery
actions ask for, and read the clock. `PhysicalSend` shows the message or not, and answers
with evidence, with evidence confirm will not take, or with an exception, in every
combination except evidence of a message that was not shown; what the adapter's
visible_send_count says is independent of that. `Recover` takes any intent of the
continuation for the one with the highest state_revision. `RecoveryAction` is the order of
rules in `_candidate` on this state. As in the code, a call goes on past its two writes of
the row when the row is in the state it wanted, whoever put it there (`RowPrepared`,
`RowStarted`); and what a failed flow says it has shown (visible_send_count, which counts
older messages too) decides whether the lease is released. Assumed of the caller: a
no-delivery proof that reconcile is given is true at that moment; the code ties it to the
intent and not to the attempt (`send_intent.py:257`, `1197`), so an old proof, or a message
that is shown late, is outside the model. Left out: renew and authorize_effect, several
intents of one generation, what STOP does to runs, bindings and outbox rows.

## 3. Runs

| run | instance | shows | states |
|---|---|---|---|
| `exec_core` | 2 processes, 2 dependent tasks behind a gate, 2 plan versions, 4 kinds of result, 3 bindings, 2 attempts | bindings, verdicts, completion, cursor and milestone run | 938 k |
| `lock` | 3 writers that are faulty and slow, one with 2 calls; no live lock is removed (`KeptSpec`) | exclusion, atomicity, expected revision with any reclaims | 326 k |
| `delivery` | 1 AUTO launch, 2 tabs in 2 conversations, one sure to be visible, 1 handler each; 2 losses or crashes, 1 expiry of the claim under its run, 1 of the launch | send once, in the owner, truthful handoff; the queue keeps the launch; it is handed off | 580 k |
| `delivery_two` | an AUTO and a manual launch, 1 tab with 1 handler; 1 republication, 1 reload, 1 launch expiry, 1 STOP | send once across launches and page loads; what chrome.storage says of a launch never goes back | 1.2 M |
| `kernel` | 1 work item, 2 resources, 2 runs, 1 wait, 3 fences; a worker that may stop beside one that does not | rows, fences, claims and facts agree; `WorkLifecycle` is implemented; started runs finish | 263 k |
| `promotion` | 1 work item and ref, 1 process that prepares and 1 that reconciles and applies, 1 handoff of the lease, 2 revisions of the flow in any order, a foreign writer | landing is recorded truthfully, happens behind a boundary under the lease, and is of one revision | 945 k |
| `reentry` | 2 controllers and 1 client on 1 continuation, 2 generations of the lease, 2 epochs | no blind resend, truthful confirmation, ack and lease agree, one effect of all calls | 1.8 M |

The other runs exhibit where the code and what is written about it disagree (`findings`):

- `exec_late_result`: a result of a binding that is not current is judged.
- `lock_lost`: a live lock file is removed by a process that saw the expired one; with a third
  writer two transactions then run at once and a commit is lost.
- `send_overlap`: two overlapping runs of projectHandleLaunch send one prompt twice.
- `kernel_wait`: a run whose lease changes hands during a wait can never be finished.
- `reentry_resume`: after a crash in REENTRY_PREPARED or REENTRY_IN_PROGRESS, recovery asks to
  resume a re-entry that every call of reenter refuses.

More deviations are in the models without a run of their own; no property contradicts them:

- Two calls of reenter can have one continuation underway: a row that another call made
  PREPARED or IN_PROGRESS is taken for one's own (`session_reentry.py:1030`, `1054`). It takes
  three generations: a call stalls before its row, a client reclaims the expired lease and
  releases it, a second call claims it and writes PREPARED, and both go on; one can then write
  REENTRY_FAILED under the other. `OneEffect` is what holds nevertheless.
- A PUBLISHED launch that expires in the queue is not rebuilt by reconcile_launch_outbox, which
  publishes the PENDING ones (`project_workflow.py:623`); only Start/Continue publishes it
  again. The NX006 contract (line 82) says the queue "can be fully rebuilt from
  `launch_outbox`".
- A ref moves under a cutover that was paused after the authorization: apply_if_safe does not
  read the cutover again (`m7a_git_cas.py:1277`). The m7c document (line 33) says "M7a itself
  reads this marker immediately before CAS."
- request_changes sets a milestone run that the user stopped back to running
  (`project_execution.py:1581`), a plan update drops a task completed between its preview and
  its activation (`project_memory.py:791`), and a STOP during the storage write before the
  click does not cancel the Send (`content_adapter.js:776`).

Bounds. Two processes are enough for a stale read, three bindings for a retry of a retry,
two attempts for a result after a verdict. Results range
over the classes `Acceptance` distinguishes: `exec_core` takes one that passes, one to review,
one that is unclear and one that is broken, `exec_late_result` also a crash and a foreign
result; the theorems hold for any set of submissions. `DocumentLimit` 2 below `MaxBindings` 3 lets the
document become unreadable. `MaxSends` 2 lets a duplicate Send happen. The budgets
(`Disturbances`) bound how often something goes wrong, never when; `"continue"` bounds how
often a launch is published again. One run at a time is at work in a page of `delivery` and
`delivery_two`, and each tab is of its own conversation. Outside that the extension has three
races, each stated as the states without it (`RaceFree`): two live runs in one page (`OneRun`;
the guard is read before the awaits and set after them, which is `send_overlap`), a run past
its gate whose launch has a record of another tab (`OwnRecords`; projectBindingFor ignores
it), and a write to chrome.storage from a read that is stale for an AUTO launch
(`FreshReads`). With any of the three `SendOnce` or `RecordAdvances` fails; what holds away
from them, with overlapping host runs of an old page and with several tabs of one
conversation, is the matter of the proofs. In `kernel` three fences are two handoffs, so that the
first owner comes back with what it remembers; the last lease the bound allows goes to a
worker that does not stop and does not expire, or every lease would be lost at the bound. In
`promotion` the handoff falls before, between and after every step of the apply, and two
revisions are enough to go forward, back, and to install a cutover at the one that is not
active. Calls of two applying processes on one effect are too many states beside that: what
they must not do, land twice, is a theorem (`PromotionOnce`). In `reentry` the second
generation is a lease released or reclaimed under a call of the first, and the second epoch a
STOP and a resume between any two steps. Two calls at work at once need a third generation,
so the run says less about `OneEffect` than the theorem, which has no such bound.

Deadlock is checked in the `exec` runs. The other modules have bounded work, after which they
stop.

Fairness (`FairSpec`, used by `delivery`): a run that has started goes on, pages render, an
unowned claim expires in time, and the pollers of the tabs in `Shown` keep starting runs for
AUTO launches (`projectPoll` is a timer). A tab outside `Shown` may stay hidden for good, and
no run starts in it. Nothing is assumed of users, publishers, losses, of the cursor or of
launch expiry, and the last is in the run: `EventuallyHandedOff` is about a launch as long as
it stays in the queue, because one that expired there does not come back by itself. It
further excuses a launch whose cursor moved, whose conversation has no tab that stays visible,
whose tab latched AUTO off, and one blocked by a Send attempt without effect: the code prefers
no Send to a second one. `QueueKeepsLaunch` is the other half: nothing but a handoff, expiry
and the clearing of a publisher takes a launch out of the queue.

Fairness of `kernel` (`Fairness` in `WorkKernel`): expires_at passes, and a worker outside
`Faulty` goes on acquiring, querying, adopting, resolving and finishing where the kernel lets
it: the reconciler loop of a worker. Starting, waiting, claiming and releasing are nobody's
duty. `RunsFinish` excuses a run that was resumed under a newer lease than its own
(`Orphaned`), which is what `kernel_wait` exhibits.

Every property of a passing run has a mutant, an operator that changes one mapped definition
the way a bug would (an unconditional supersede, a missing stale check, a file opened without
O_EXCL, an uncertain Send tried again); TLC finds the property violated with it.

## 4. Proofs

`ProjectExecutionProofs` proves, for every plan, set of processes, set of submissions and
bound allowed by `PlanAssumption` and `ExecutionAssumption`, that

    IInv == TypeOK /\ GenerationsIncrease /\ MaxOneActive /\ CurrentBindingActive
            /\ AttemptsAreVerdicts /\ JudgedOnce /\ ReviewIsEarned /\ CompletedIsJustified
            /\ BegunRunIsReal /\ RunPauseIsReal /\ RunCompletionIsReal

is inductive, one step per action and under it one per conjunct the action can disturb, and
derives from it the theorems `TypeCorrect`, `OneActiveBinding`, `GenerationsGrow`,
`CursorIsLive`, `OneVerdict`, `CompletionNeedsEvidence`, `PausesAreReal`,
`CompletionsAreReal` and the action properties `BindingsOnlyEnd` and `CompletionOwned`. Three
conjuncts are there for induction only: `AttemptsAreVerdicts` (an attempt names an existing
binding and carries the verdict of its result), `ReviewIsEarned` (a task in review owes it to
its last verdict), without which approve_review could complete a task on no evidence, and
`BegunRunIsReal` (the run a call of begin_milestone_auto has computed and not yet installed
is running, or completed with its tasks). `JudgedOnce` is not inductive without
`AttemptsAreVerdicts`, `CompletedIsJustified` not without `ReviewIsEarned`, and
`RunCompletionIsReal` not without `BegunRunIsReal` and `CompletionIsOwned`: what was complete
at the read is complete at the commit because no task leaves "completed".

`ExecutionLockProofs` proves `LockIsExclusive`, `TransactionsAreAtomic` (the refinement of
`AtomicDocument`) and `RevisionsAreExpected` for any number of writers and calls, each of
which may crash, meet I/O errors, outlive the lease and reclaim, in the form
`Spec /\ LiveLockKept => ...`. The hypothesis is the docstring's promise, "A live lock is
never overwritten", and it is the promise the code breaks: the theorems do not say that the
lock is safe, they say that this one step is all that is wrong with it, and that a reclaim
which keeps the promise would make the transactions atomic. The invariant `Owned` says that a
call past its O_EXCL create owns the lock file and that a call about to write still sees the
current document at the revision it asked for.

`LaunchDeliveryProofs` proves for any launches, tabs, conversations, runs, publishers and
budgets, overlapping runs included, that

    IInv == TypeOK /\ LoadsBounded /\ Prepared /\ RunOK(x) /\ PageOK(t) /\ RecordOK(l)
            /\ SnapOK(x) /\ SentInOwner /\ SentIsTrue

is inductive. `RunOK` says what a run may rely on at its step although everything around it
moves between its awaits: past the gate its conversation owns the binding, past the
confirmation the message is there, past mark_handoff_sent the handoff is SENT. It holds
because a binding that has a conversation keeps it and messages are never taken back.
`PageOK` says the same of the composer and of what a page shows, `RecordOK` of chrome.storage;
without them an old page could type a prompt into, or confirm it in, the wrong conversation.
`SnapOK` says it of the records a run has read and will write back: they may be old, and are
true all the same. `DeliveryTyped`, `DeliveryInOwner`, `DeliveryTruth` and the action property
`DeliveryKeepsQueue` follow without a hypothesis, overlapping runs, stale writes and two tabs
of one conversation included.

`DeliveryOnce` and the action property `DeliveryRecordAdvances` have the hypothesis
`[]RaceFree`: the behaviour passes through none of the three races described under the runs.
The code does not guarantee it, and each part is needed: two runs of one page are
`send_overlap`; a second tab of the conversation that ignores the record of the first
(`content_adapter.js:638`) sends again when the claim has expired; a stale write brings back
an older record. The hypothesis does not restrict tabs, conversations, launches, runs or
disturbances. The theorems say that these three are the only ways to a second Send, so they
are what a repair has to close. Under it

    OInv == MessagesRecorded /\ SendOnce /\ SendOK(x)

is inductive relative to `IInv`: a message leaves its record behind, and `SendOK` follows a
live run to the click: the record it read at the start is still the tab's own, nothing was
attempted before it records the attempt, nothing sent before it clicks.

`WorkKernelProofs` proves for every set of workers, works, resources and lease ids that

    IInv == TypeOK /\ RowsBound /\ RunsMatchDisposition /\ ClaimFollowsLease
            /\ FenceNamesOwner /\ FactsTellState

is inductive (`RowsBound` is there for induction only: a run, wait or claim in use names its
work item), and from it `KernelTyped`,
`KernelRuns`, `KernelClaims`, `KernelFences`, `KernelFacts` and `KernelLifecycle`, the
refinement of `WorkLifecycle`: a step of the kernel is a step of the lifecycle or changes
nothing of it, and for that the invariant is needed, because a READY item is "resumed" or
"ready" by whether it has an active run.

`GitPromotionProofs` first shows that every promotion behaviour is a kernel behaviour
(`PromotionUsesKernel`), so the kernel's invariant may be used, and then an inductive
invariant

    PInv == IInv /\ PromotionTypeOK /\ CallKnows(p) /\ EffectKnows(k) /\ OneEffect
            /\ (no cutover => its revision is 0)

where `CallKnows` says for each step of a call what it has established (one past its check
works for a prepared effect, one at the ref update has `held`, one past its authorization
carries the revision of effect and binding). The key is that ownership that is lost stays
lost: run and lease carry fences at least as new as the ones an effect remembers, and the
kernel only raises them (`RunKept`). From it follow `PromotionTyped`,
`PromotionIsReal`, `PromotionUnderLease` and `PromotionAsBound`. `PromotionOnce` needs the assumption it states: nobody else sets a
ref to a value some effect expects; without it a second landing is what compare-and-swap
allows.

`SessionReentryProofs` proves

    RInv == TypeOK /\ Bounded /\ OwnTokens /\ Unborn /\ StatusTells /\ Knows(p)
            /\ ConfirmedIsAcked /\ AckCompletesLease /\ CompletedIsDelivered

inductive: each process holds a token of its own, nothing exists of a generation that was not
made, the status of an intent tells whether its message was shown (`StatusTells`), and each
step of a call knows what it has done (`Knows`). `NoBlindResend` is not inductive without
`StatusTells` and `Knows`: at the send the message has not been shown and the intent is not
sendable by anybody else. `ReentryTyped`, `ReentryNoBlindResend`, `ReentryConfirmed`,
`ReentryAckCompletes` and `ReentryCompleted` follow; none of them needs that one call at a
time is at work, which is not so.

`ReentryEffectProofs` proves `ReentryOneEffect` for any number of generations, relative to
`RInv`, from

    EInv == Origin(p) /\ RowPast(p) /\ OwnKind(p) /\ DirectBounded
            /\ TriedShutsLater /\ TriedOnce

A generation is tried when its message was shown or a call is about to send it.
`TriedShutsLater` carries the argument: once a generation is tried, the row is past
REENTRY_PREPARED for good, so no call with a later token gets past its own row, and none with
a later token was there, because begin_physical_send found the lease at this generation. A
call with an earlier token is refused by the same check. `Origin` (what a call remembers of
the row it read) is what keeps a late `_transition` from taking the row back. The generations
a client claimed are excepted, because a client that reclaims the lease of a send of unknown
outcome prepares a new intent (`send_intent.py:648`) and may send the continuation again.

Only model-checked: the liveness properties `EventuallyHandedOff` and `RunsFinish`, and the
properties of the violation runs, which fail. Every other invariant and action property of a
passing run is a theorem, those of the lock, `SendOnce` and `RecordAdvances` under the
hypotheses above. `PromotionOnce` is a theorem without a run. Before each
proof TLC checked the inductive invariant on the instances of the runs, that of
`LaunchDelivery` also with overlapping runs and with two tabs of one conversation. Liveness
under fairness, facts about recursive definitions and induction over data are out of the
prover's reach.

## 5. What is not modelled, and the plan

1. `BindingLifecycle`: reconcile_execution_bindings (repair of old documents, whose
   normalisation sorts by created_at) against the NX-003 invariants.
2. Outbox and queue: two publishers (the orphan check and the clearing are two steps), tabs
   that navigate, chrome.storage that fails or drops records, the PID-aware queue lock as an
   instance beside `ExecutionLock`.
3. Proofs: that a reclaim which renames instead of unlinking keeps `LiveLockKept`, and a
   guard that a page holds over its awaits keeps `OneRun`.
4. `CatalogProjection`: upsert, sync_projection, rebuild and import_plan against the document.
5. The rest of the V2 track: the scope loop (`until_stopped.py`, `scope_orchestrator.py`) and
   the failure budget; several intents of one generation; no-delivery proofs as objects that
   outlive an attempt.
6. `CheckoutSync` (m7b) behind `GitPromotion`; two cutovers activated at once; bootstrap slots
   with rollback; effects and admission as clients of `WorkKernel`.

Code beside the models that was read and not modelled: `stop_fence.py:277` sets outbox rows
to CANCELLED, which the CHECK of `project_memory_v2_contract.py:470` does not allow (PENDING,
PUBLISHED, ACKNOWLEDGED).

Never: GUI layout, prompt wording, environment and machine inventory, rehearsal and candidate
tooling, the legacy bridge and its extension, experiments, schemas and benchmarks: they hold
no protocol state, or are superseded.
