--------------------------- MODULE SessionReentry ---------------------------
(***************************************************************************)
(* The continuation of an ended turn under Project Memory V2: the stop     *)
(* fence (stop_fence.py), the continuation lease (continuation_lease.py),  *)
(* the durable send intent (send_intent.py) and the controller that uses   *)
(* them to re-enter a conversation (session_reentry.py).                   *)
(*                                                                         *)
(* Every method is one or two immediate transactions on one database: each *)
(* is an action.  A controller runs reenter; a client drives the lease and *)
(* the send intent itself, as the recovery actions ask for.  The owner     *)
(* token of a claim is a secret that only the caller of claim has: it is   *)
(* known here by the generation of the lease, which no other claim shares, *)
(* and dies with the caller.  The calls of a controller share one value of *)
(* now, so it never sees its own lease expire; a client reads the clock.   *)
(*                                                                         *)
(* Left out: renew and authorize_effect, which change nothing here, and    *)
(* several intents of one generation.  A no-delivery proof is taken to be  *)
(* true when reconcile uses it: the code ties it to the intent and not to  *)
(* the attempt (send_intent.py:257), so that nobody keeps a proof over a   *)
(* later attempt is an assumption on the caller.                           *)
(***************************************************************************)
EXTENDS Naturals, FiniteSets

CONSTANTS
    Controllers,    \* processes that call reenter or approve a checkpoint
    Clients,        \* processes that use the lease and the intents directly
    Packets,        \* continuation packets, one for a continuation_id
    EpochOf,        \* EpochOf[c]: the scope_epoch of the packet
    MaxGeneration,  \* model bound on the generations of a lease
    MaxEpoch,       \* model bound on scope_epoch
    None            \* no packet

Processes == Controllers \cup Clients
Generations == 1..MaxGeneration

ASSUME ReentryAssumption ==
    /\ Controllers \cap Clients = {}
    /\ EpochOf \in [Packets -> Nat \ {0}]
    /\ MaxGeneration \in Nat /\ MaxEpoch \in Nat
    /\ None \notin Packets

VARIABLES
    cursor,         \* the row of scope_cursors
    fences,         \* the epochs in stop_fences
    lease,          \* lease[c]: the CONTINUATION row of leases
    intent,         \* intent[c][g]: the status in send_intents of generation g
    reentry,        \* reentry[c]: the liveness_state in session_reentries
    call,           \* what each process is doing
    delivered       \* delivered[c][g]: how often the message of an intent was shown

vars == <<cursor, fences, lease, intent, reentry, call, delivered>>

Sendable == {"PREPARED", "SEND_ALLOWED"}
Unresolved == {"PHYSICAL_SEND_ATTEMPTED", "UNCERTAIN", "RECONCILIATION_REQUIRED"}
Statuses == Sendable \cup Unresolved
              \cup {"NONE", "SEND_CONFIRMED", "ACKNOWLEDGED", "CANCELLED", "FENCED"}
Terminal == {"REENTRY_CONFIRMED", "REENTRY_FAILED", "REENTRY_BLOCKED"}
Underway == {"REENTRY_PREPARED", "REENTRY_IN_PROGRESS"}
LivenessStates == Terminal \cup Underway
    \cup {"NONE", "CONTINUATION_PENDING", "SESSION_UNAVAILABLE", "OPERATOR_CHECKPOINT"}
LeaseStates == {"NONE", "AVAILABLE", "CLAIMED", "COMPLETED", "ABANDONED"}
FlowSteps == {"prepare", "allow", "begin", "send", "confirm", "doubt", "complete", "ack"}
Steps == FlowSteps \cup {"idle", "resolve", "claim", "recover", "checkpoint", "approve",
                         "row", "start", "failed", "done", "release", "settle"}

CallRecord == [pc : Steps, packet : Packets \cup {None}, from : LivenessStates,
               token : Nat, into : LivenessStates]

(* The row of a lease, and from its audit events the generations that were *)
(* claimed by a client.                                                    *)
LeaseRow == [status : LeaseStates, generation : Nat, late : BOOLEAN, direct : SUBSET Nat]

TypeOK ==
    /\ cursor \in [epoch : Nat, stopped : BOOLEAN]
    /\ fences \subseteq Nat
    /\ lease \in [Packets -> LeaseRow]
    /\ intent \in [Packets -> [Generations -> Statuses]]
    /\ reentry \in [Packets -> LivenessStates]
    /\ call \in [Processes -> CallRecord]
    /\ delivered \in [Packets -> [Generations -> Nat]]

Idle == [pc |-> "idle", packet |-> None, from |-> "NONE", token |-> 0, into |-> "NONE"]

Init ==
    /\ cursor = [epoch |-> 1, stopped |-> FALSE]
    /\ fences = {}
    /\ lease = [c \in Packets |-> [status |-> "NONE", generation |-> 0, late |-> FALSE,
                               direct |-> {}]]
    /\ intent = [c \in Packets |-> [g \in Generations |-> "NONE"]]
    /\ reentry = [c \in Packets |-> "NONE"]
    /\ call = [p \in Processes |-> Idle]
    /\ delivered = [c \in Packets |-> [g \in Generations |-> 0]]

-----------------------------------------------------------------------------
(* What the operations read and write *)

At(p, pc) == call[p].pc = pc
Goto(p, pc) == call' = [call EXCEPT ![p].pc = pc]
Finish(p) == call' = [call EXCEPT ![p] = Idle]

(* EffectBoundaryGuard.check *)
BoundaryAllowed(c) ==
    ~cursor.stopped /\ EpochOf[c] = cursor.epoch /\ EpochOf[c] \notin fences

(* The caller holds the token of the lease, and it has not expired by its  *)
(* clock.                                                                  *)
HoldsLease(p) ==
    LET row == lease[call[p].packet] IN
    /\ row.status = "CLAIMED" /\ row.generation = call[p].token
    /\ p \in Clients => ~row.late

(* _live_lease_check *)
LiveLease(p) == HoldsLease(p) /\ BoundaryAllowed(call[p].packet)

Status(p) == intent[call[p].packet][call[p].token]
SetStatus(p, status) ==
    intent' = [intent EXCEPT ![call[p].packet][call[p].token] = status]

(* _transition: nothing happens unless the row is in the expected state.   *)
Transition(c, from, to) ==
    reentry' = IF reentry[c] = from THEN [reentry EXCEPT ![c] = to] ELSE reentry

-----------------------------------------------------------------------------
(* Stop and resume *)

(* execute_stop_transaction; a second STOP of the epoch is a replay. *)
Stop ==
    /\ ~cursor.stopped
    /\ cursor' = [cursor EXCEPT !.stopped = TRUE]
    /\ fences' = fences \cup {cursor.epoch}
    /\ intent' = [c \in Packets |-> [g \in Generations |->
                     IF intent[c][g] \in Sendable THEN "FENCED" ELSE intent[c][g]]]
    /\ UNCHANGED <<lease, reentry, call, delivered>>

(* execute_resume_transaction, which does not ask for a STOP. *)
Resume ==
    /\ cursor.epoch < MaxEpoch
    /\ cursor' = [epoch |-> cursor.epoch + 1, stopped |-> FALSE]
    /\ UNCHANGED <<fences, lease, intent, reentry, call, delivered>>

-----------------------------------------------------------------------------
(* The continuation lease *)

Claimed(row, direct) ==
    [status |-> "CLAIMED", generation |-> row.generation + 1, late |-> FALSE,
     direct |-> direct]

(* claim: the lease is free, or was released. *)
CanClaim(c) ==
    /\ BoundaryAllowed(c)
    /\ lease[c].status \in {"NONE", "AVAILABLE"}

(* expires_at passes. *)
Expire(c) ==
    /\ lease[c].status = "CLAIMED" /\ ~lease[c].late
    /\ lease' = [lease EXCEPT ![c].late = TRUE]
    /\ UNCHANGED <<cursor, fences, intent, reentry, call, delivered>>

(* claim or reclaim by a client, with a packet that was valid once. *)
StartClient(p, c) ==
    /\ p \in Clients /\ At(p, "idle")
    /\ BoundaryAllowed(c) /\ lease[c].generation < MaxGeneration
    /\ \/ lease[c].status \in {"NONE", "AVAILABLE"}
       \/ lease[c].status = "CLAIMED" /\ lease[c].late
    /\ lease' = [lease EXCEPT ![c] =
                    Claimed(@, @.direct \cup {@.generation + 1})]
    /\ call' = [call EXCEPT ![p] = [Idle EXCEPT !.pc = "prepare", !.packet = c,
                                                !.token = lease[c].generation + 1]]
    /\ UNCHANGED <<cursor, fences, intent, reentry, delivered>>

(* release or abandon by a client; complete is a part of ack. *)
EndLease(p, status) ==
    /\ p \in Clients /\ call[p].pc \in {"failed", "done"}
    /\ HoldsLease(p)
    /\ lease' = [lease EXCEPT ![call[p].packet].status = status]
    /\ Finish(p)
    /\ UNCHANGED <<cursor, fences, intent, reentry, delivered>>

-----------------------------------------------------------------------------
(* The controller before the effect: one step per transaction *)

(* mark_turn_ended: the row is created once. *)
EndTurn(c) ==
    /\ EpochOf[c] <= cursor.epoch /\ reentry[c] = "NONE"
    /\ reentry' = [reentry EXCEPT ![c] = "CONTINUATION_PENDING"]
    /\ UNCHANGED <<cursor, fences, lease, intent, call, delivered>>

(* reenter up to _idempotent_or_in_progress, which ends the call for every *)
(* other state of the row.  The packet was valid for the snapshot of the   *)
(* authority that the caller took, which may be an old one.                *)
StartReenter(p, c) ==
    LET state == IF reentry[c] = "NONE" THEN "CONTINUATION_PENDING" ELSE reentry[c] IN
    /\ p \in Controllers /\ At(p, "idle")
    /\ EpochOf[c] <= cursor.epoch
    /\ state \in Underway \cup {"CONTINUATION_PENDING", "SESSION_UNAVAILABLE"}
    /\ reentry' = [reentry EXCEPT ![c] = state]
    /\ call' = [call EXCEPT ![p] = [Idle EXCEPT
                    !.pc = IF state \in Underway THEN "recover" ELSE "resolve",
                    !.packet = c, !.from = state]]
    /\ UNCHANGED <<cursor, fences, lease, intent, delivered>>

(* The rest of _idempotent_or_in_progress for a row that is underway.  The *)
(* intent with the highest state_revision is read: here any of them.       *)
Recover(p) ==
    LET c == call[p].packet IN
    /\ At(p, "recover")
    /\ \E g \in Generations :
          IF intent[c][g] = "ACKNOWLEDGED"
          THEN Transition(c, call[p].from, "REENTRY_CONFIRMED")
          ELSE UNCHANGED reentry
    /\ Finish(p)
    /\ UNCHANGED <<cursor, fences, lease, intent, delivered>>

(* The packet is validated again with the authority of the call: it may    *)
(* have gone out of date.                                                  *)
PacketStale(p) ==
    /\ At(p, "resolve")
    /\ call' = [call EXCEPT ![p].pc = "settle", ![p].into = "REENTRY_BLOCKED"]
    /\ UNCHANGED <<cursor, fences, lease, intent, reentry, delivered>>

(* reenter without a verified channel: two transitions. *)
NoChannel(p) ==
    /\ At(p, "resolve")
    /\ Transition(call[p].packet, call[p].from, "SESSION_UNAVAILABLE")
    /\ Goto(p, "checkpoint")
    /\ UNCHANGED <<cursor, fences, lease, intent, delivered>>

Checkpoint(p) ==
    /\ At(p, "checkpoint")
    /\ Transition(call[p].packet, "SESSION_UNAVAILABLE", "OPERATOR_CHECKPOINT")
    /\ Finish(p)
    /\ UNCHANGED <<cursor, fences, lease, intent, delivered>>

(* continue_from_operator_checkpoint reads the row and then reopens it; it *)
(* goes on whoever made the row CONTINUATION_PENDING.                      *)
StartApproval(p, c) ==
    /\ p \in Controllers /\ At(p, "idle")
    /\ reentry[c] = "OPERATOR_CHECKPOINT"
    /\ call' = [call EXCEPT ![p] = [Idle EXCEPT !.pc = "approve", !.packet = c]]
    /\ UNCHANGED <<cursor, fences, lease, intent, reentry, delivered>>

Reopen(p) ==
    LET c == call[p].packet IN
    /\ At(p, "approve")
    /\ Transition(c, "OPERATOR_CHECKPOINT", "CONTINUATION_PENDING")
    /\ IF reentry'[c] = "CONTINUATION_PENDING"
       THEN call' = [call EXCEPT ![p].pc = "claim", ![p].from = "CONTINUATION_PENDING"]
       ELSE Finish(p)
    /\ UNCHANGED <<cursor, fences, lease, intent, delivered>>

(* The execution binding names another conversation. *)
ReopenConflict(p) ==
    /\ At(p, "approve")
    /\ reentry[call[p].packet] = "OPERATOR_CHECKPOINT"
    /\ call' = [call EXCEPT ![p].pc = "settle", ![p].from = "OPERATOR_CHECKPOINT",
                            ![p].into = "REENTRY_BLOCKED"]
    /\ UNCHANGED <<cursor, fences, lease, intent, reentry, delivered>>

(* _execute_automated: the lease is claimed, or the row will be blocked. *)
ClaimLease(p) ==
    LET c == call[p].packet IN
    /\ call[p].pc \in {"resolve", "claim"}
    /\ CanClaim(c) /\ lease[c].generation < MaxGeneration
    /\ lease' = [lease EXCEPT ![c] = Claimed(@, @.direct)]
    /\ call' = [call EXCEPT ![p].pc = "row", ![p].token = lease[c].generation + 1]
    /\ UNCHANGED <<cursor, fences, intent, reentry, delivered>>

ClaimRefused(p) ==
    /\ call[p].pc \in {"resolve", "claim"}
    /\ ~CanClaim(call[p].packet)
    /\ call' = [call EXCEPT ![p].pc = "settle", ![p].into = "REENTRY_BLOCKED"]
    /\ UNCHANGED <<cursor, fences, lease, intent, reentry, delivered>>

(* A mutant of RowPrepared: the row is written without a look at it. *)
RowPreparedAnyway(p) ==
    /\ At(p, "row")
    /\ reentry' = [reentry EXCEPT ![call[p].packet] = "REENTRY_PREPARED"]
    /\ Goto(p, "start")
    /\ UNCHANGED <<cursor, fences, lease, intent, delivered>>

(* The call goes on with a row that is REENTRY_PREPARED, whoever made it   *)
(* so, and gives the lease back otherwise.                                 *)
RowPrepared(p) ==
    LET c == call[p].packet IN
    /\ At(p, "row")
    /\ Transition(c, call[p].from, "REENTRY_PREPARED")
    /\ Goto(p, IF reentry'[c] = "REENTRY_PREPARED" THEN "start" ELSE "release")
    /\ UNCHANGED <<cursor, fences, lease, intent, delivered>>

RowConflict(p) ==
    /\ At(p, "row") /\ reentry[call[p].packet] = call[p].from
    /\ call' = [call EXCEPT ![p].pc = "release", ![p].into = "REENTRY_BLOCKED"]
    /\ UNCHANGED <<cursor, fences, lease, intent, reentry, delivered>>

(* The same with REENTRY_IN_PROGRESS. *)
RowStarted(p) ==
    LET c == call[p].packet IN
    /\ At(p, "start")
    /\ Transition(c, "REENTRY_PREPARED", "REENTRY_IN_PROGRESS")
    /\ IF reentry'[c] = "REENTRY_IN_PROGRESS"
       THEN call' = [call EXCEPT ![p].pc = "prepare", ![p].from = "REENTRY_IN_PROGRESS"]
       ELSE Goto(p, "release")
    /\ UNCHANGED <<cursor, fences, lease, intent, delivered>>

(* A mutant of Release: the status is one that claim would take and no     *)
(* other operation writes.                                                 *)
ReleaseOldName(p) ==
    /\ At(p, "release")
    /\ lease' = IF HoldsLease(p) THEN [lease EXCEPT ![call[p].packet].status = "RELEASED"]
                                 ELSE lease
    /\ IF call[p].into = "NONE" THEN Finish(p) ELSE Goto(p, "settle")
    /\ UNCHANGED <<cursor, fences, intent, reentry, delivered>>

(* lease.release, whose refusal is ignored *)
Release(p) ==
    LET c == call[p].packet IN
    /\ At(p, "release")
    /\ lease' = IF HoldsLease(p) THEN [lease EXCEPT ![c].status = "AVAILABLE"] ELSE lease
    /\ IF call[p].into = "NONE" THEN Finish(p) ELSE Goto(p, "settle")
    /\ UNCHANGED <<cursor, fences, intent, reentry, delivered>>

(* The last transition of a call *)
Settle(p) ==
    /\ At(p, "settle")
    /\ Transition(call[p].packet, call[p].from, call[p].into)
    /\ Finish(p)
    /\ UNCHANGED <<cursor, fences, lease, intent, delivered>>

-----------------------------------------------------------------------------
(* continue_same_chat: prepare, allow_send, begin_physical_send, the       *)
(* adapter, confirm or mark_uncertain, and ack in two transactions         *)

Prepare(p) ==
    /\ At(p, "prepare")
    /\ IF LiveLease(p)
       THEN SetStatus(p, "PREPARED") /\ Goto(p, "allow")
       ELSE UNCHANGED intent /\ Goto(p, "failed")
    /\ UNCHANGED <<cursor, fences, lease, reentry, delivered>>

(* An intent that is allowed already is not checked again. *)
AllowSend(p) ==
    /\ At(p, "allow")
    /\ CASE Status(p) = "SEND_ALLOWED" -> UNCHANGED intent /\ Goto(p, "begin")
         [] Status(p) = "PREPARED" /\ LiveLease(p) ->
              SetStatus(p, "SEND_ALLOWED") /\ Goto(p, "begin")
         [] Status(p) = "PREPARED" /\ ~LiveLease(p) ->
              SetStatus(p, "FENCED") /\ Goto(p, "failed")
         [] OTHER -> UNCHANGED intent /\ Goto(p, "failed")
    /\ UNCHANGED <<cursor, fences, lease, reentry, delivered>>

(* The page does not show the conversation or the composer. *)
DomFails(p) ==
    /\ At(p, "allow")
    /\ Goto(p, "failed")
    /\ UNCHANGED <<cursor, fences, lease, intent, reentry, delivered>>

(* The adapter raises outside send_once's handlers: the controller settles *)
(* without a release.                                                      *)
FlowRaises(p) ==
    /\ p \in Controllers /\ At(p, "allow")
    /\ call' = [call EXCEPT ![p].pc = "settle", ![p].into = "REENTRY_FAILED"]
    /\ UNCHANGED <<cursor, fences, lease, intent, reentry, delivered>>

BeginPhysicalSend(p) ==
    /\ At(p, "begin")
    /\ CASE Status(p) = "SEND_ALLOWED" /\ LiveLease(p) ->
              SetStatus(p, "PHYSICAL_SEND_ATTEMPTED") /\ Goto(p, "send")
         [] Status(p) = "SEND_ALLOWED" /\ ~LiveLease(p) ->
              SetStatus(p, "FENCED") /\ Goto(p, "failed")
         [] OTHER -> UNCHANGED intent /\ Goto(p, "failed")
    /\ UNCHANGED <<cursor, fences, lease, reentry, delivered>>

(* adapter.physical_send: the message is shown or not, and the answer is   *)
(* evidence of it, evidence that confirm will not take, or an exception.   *)
PhysicalSend(p) ==
    LET c == call[p].packet IN
    /\ At(p, "send")
    /\ \E shown \in BOOLEAN, answer \in {"confirm", "doubt", "failed"} :
          /\ answer = "confirm" => shown
          /\ delivered' = IF shown THEN [delivered EXCEPT ![c][call[p].token] = @ + 1]
                                   ELSE delivered
          /\ Goto(p, answer)
    /\ UNCHANGED <<cursor, fences, lease, intent, reentry>>

Confirm(p) ==
    /\ At(p, "confirm")
    /\ IF Status(p) \in Unresolved
       THEN SetStatus(p, "SEND_CONFIRMED") /\ Goto(p, "complete")
       ELSE UNCHANGED intent /\ Goto(p, "failed")
    /\ UNCHANGED <<cursor, fences, lease, reentry, delivered>>

MarkUncertain(p) ==
    /\ At(p, "doubt")
    /\ IF Status(p) = "PHYSICAL_SEND_ATTEMPTED"
       THEN SetStatus(p, "UNCERTAIN")
       ELSE UNCHANGED intent
    /\ Goto(p, "failed")
    /\ UNCHANGED <<cursor, fences, lease, reentry, delivered>>

(* A mutant of Complete: a refused completion does not end ack. *)
CompleteAnyway(p) ==
    /\ At(p, "complete")
    /\ IF HoldsLease(p)
       THEN lease' = [lease EXCEPT ![call[p].packet].status = "COMPLETED"]
       ELSE UNCHANGED lease
    /\ Goto(p, "ack")
    /\ UNCHANGED <<cursor, fences, intent, reentry, delivered>>

(* ack: lease.complete, which a second ack finds done *)
Complete(p) ==
    LET row == lease[call[p].packet] IN
    /\ At(p, "complete")
    /\ IF HoldsLease(p)
       THEN lease' = [lease EXCEPT ![call[p].packet].status = "COMPLETED"]
       ELSE UNCHANGED lease
    /\ Goto(p, IF \/ HoldsLease(p)
                  \/ row.status = "COMPLETED" /\ row.generation = call[p].token
               THEN "ack" ELSE "failed")
    /\ UNCHANGED <<cursor, fences, intent, reentry, delivered>>

Acknowledge(p) ==
    /\ At(p, "ack")
    /\ IF Status(p) \in {"SEND_CONFIRMED", "ACKNOWLEDGED"}
       THEN SetStatus(p, "ACKNOWLEDGED") /\ Goto(p, "done")
       ELSE UNCHANGED intent /\ Goto(p, "failed")
    /\ UNCHANGED <<cursor, fences, lease, reentry, delivered>>

(* A mutant of FlowEnds: the visible send alone is taken for success. *)
FlowEndsOnSight(p) ==
    /\ p \in Controllers /\ call[p].pc \in {"failed", "done"}
    /\ \E seen \in {0, 1, 2} :
          call' = [call EXCEPT
             ![p].pc = IF seen = 0 THEN "release" ELSE "settle",
             ![p].into = IF seen = 1 THEN "REENTRY_CONFIRMED" ELSE "REENTRY_FAILED"]
    /\ UNCHANGED <<cursor, fences, lease, intent, reentry, delivered>>

(* The controller after the flow: one visible send and an accepted ack are *)
(* a confirmation; the lease goes back when nothing was seen.  What the    *)
(* adapter has seen (visible_send_count) may lag behind the page, or count *)
(* messages of earlier continuations.                                      *)
FlowEnds(p) ==
    /\ p \in Controllers /\ call[p].pc \in {"failed", "done"}
    /\ \E seen \in {0, 1, 2} :
          call' = [call EXCEPT
             ![p].pc = IF seen = 0 THEN "release" ELSE "settle",
             ![p].into = IF At(p, "done") /\ seen = 1 THEN "REENTRY_CONFIRMED"
                                                      ELSE "REENTRY_FAILED"]
    /\ UNCHANGED <<cursor, fences, lease, intent, reentry, delivered>>

-----------------------------------------------------------------------------
(* What a client does with the token it holds when a send did not end well *)

Holding(p) == p \in Clients /\ call[p].pc \in {"failed", "done"}

(* A mutant of Reconcile: a retry is allowed without the proof. *)
ReconcileBlindly(p) ==
    /\ Holding(p) /\ Status(p) \in Unresolved
    /\ SetStatus(p, "SEND_ALLOWED")
    /\ UNCHANGED <<cursor, fences, lease, reentry, call, delivered>>

(* reconcile: evidence of the message, a proof that there is none, or      *)
(* neither.  None of the three looks at the lease or at the stop fence.    *)
Reconcile(p) ==
    LET shown == delivered[call[p].packet][call[p].token] > 0 IN
    /\ Holding(p)
    /\ \/ shown /\ Status(p) \in Unresolved /\ SetStatus(p, "SEND_CONFIRMED")
       \/ ~shown /\ Status(p) \in Unresolved /\ SetStatus(p, "SEND_ALLOWED")
       \/ /\ Status(p) \in {"PHYSICAL_SEND_ATTEMPTED", "UNCERTAIN"}
          /\ SetStatus(p, "RECONCILIATION_REQUIRED")
    /\ UNCHANGED <<cursor, fences, lease, reentry, call, delivered>>

Cancel(p) ==
    /\ Holding(p)
    /\ Status(p) \in Sendable \cup {"UNCERTAIN", "RECONCILIATION_REQUIRED"}
    /\ SetStatus(p, "CANCELLED")
    /\ UNCHANGED <<cursor, fences, lease, reentry, call, delivered>>

(* A mutant of TryAgain: the acknowledgement does not ask for a            *)
(* confirmation.                                                           *)
TryAgainAnyway(p) ==
    /\ Holding(p)
    /\ \/ Status(p) \in Sendable /\ Goto(p, "allow")
       \/ Status(p) \in Unresolved \cup {"SEND_CONFIRMED"} /\ Goto(p, "complete")
    /\ UNCHANGED <<cursor, fences, lease, intent, reentry, delivered>>

(* send_once or ack again, by what the intent says *)
TryAgain(p) ==
    /\ Holding(p)
    /\ \/ Status(p) \in Sendable /\ Goto(p, "allow")
       \/ Status(p) = "SEND_CONFIRMED" /\ Goto(p, "complete")
    /\ UNCHANGED <<cursor, fences, lease, intent, reentry, delivered>>

(* allow_send with a packet that its authority has left behind: the intent *)
(* is fenced, whoever asks.                                                *)
FenceStale(c, g) ==
    /\ intent[c][g] \in Sendable \cup {"UNCERTAIN", "RECONCILIATION_REQUIRED"}
    /\ intent' = [intent EXCEPT ![c][g] = "FENCED"]
    /\ UNCHANGED <<cursor, fences, lease, reentry, call, delivered>>

(* The process dies, and its token with it. *)
Crash(p) ==
    /\ ~At(p, "idle")
    /\ Finish(p)
    /\ UNCHANGED <<cursor, fences, lease, intent, reentry, delivered>>

-----------------------------------------------------------------------------
Flow(p) ==
    \/ Prepare(p) \/ AllowSend(p) \/ DomFails(p) \/ FlowRaises(p) \/ BeginPhysicalSend(p)
    \/ PhysicalSend(p) \/ Confirm(p) \/ MarkUncertain(p) \/ Complete(p) \/ Acknowledge(p)

ControllerStep(p) ==
    \/ Recover(p) \/ PacketStale(p) \/ NoChannel(p) \/ Checkpoint(p)
    \/ Reopen(p) \/ ReopenConflict(p)
    \/ ClaimLease(p) \/ ClaimRefused(p) \/ RowPrepared(p) \/ RowConflict(p)
    \/ RowStarted(p) \/ FlowEnds(p) \/ Release(p) \/ Settle(p)

ClientStep(p) ==
    \/ Reconcile(p) \/ Cancel(p) \/ TryAgain(p)
    \/ EndLease(p, "AVAILABLE") \/ EndLease(p, "ABANDONED")

Next ==
    \/ Stop \/ Resume
    \/ \E c \in Packets :
          \/ Expire(c) \/ EndTurn(c)
          \/ \E g \in Generations : FenceStale(c, g)
          \/ \E p \in Processes : StartClient(p, c) \/ StartReenter(p, c) \/ StartApproval(p, c)
    \/ \E p \in Processes : Flow(p) \/ ControllerStep(p) \/ ClientStep(p) \/ Crash(p)

Spec == Init /\ [][Next]_vars

-----------------------------------------------------------------------------
(* Properties *)

AtWork(p) == call[p].pc \in FlowSteps \cup {"start", "failed", "done"}

(* No blind resend: a message is shown at most once for an intent, and an  *)
(* intent whose message was shown never becomes sendable again, whatever   *)
(* is retried, reconciled, fenced or stopped.                              *)
NoBlindResend ==
    \A c \in Packets, g \in Generations :
      /\ delivered[c][g] <= 1
      /\ delivered[c][g] = 1 => intent[c][g] \notin Sendable

(* What the records call done was shown to the user: an intent confirmed   *)
(* from evidence, and a re-entry confirmed by its own call or recovered    *)
(* from an acknowledgement by a later one.                                 *)
ConfirmedIsDelivered ==
    \A c \in Packets :
      /\ \A g \in Generations :
            intent[c][g] \in {"SEND_CONFIRMED", "ACKNOWLEDGED"} => delivered[c][g] = 1
      /\ reentry[c] = "REENTRY_CONFIRMED" =>
            \E g \in Generations : intent[c][g] = "ACKNOWLEDGED"

(* ack is two transactions: an acknowledged intent has completed the lease *)
(* of its own generation, so one intent of a continuation is acknowledged. *)
AckCompletesLease ==
    \A c \in Packets, g \in Generations :
      intent[c][g] = "ACKNOWLEDGED" =>
        lease[c].status = "COMPLETED" /\ lease[c].generation = g

(* The other half, when ack dies between its transactions or loses its     *)
(* token: a lease is only completed for a message that was shown, and the  *)
(* intent still says so, so that nothing a later call does can send again. *)
CompletedIsDelivered ==
    \A c \in Packets : lease[c].status = "COMPLETED" =>
      \E g \in Generations :
        /\ g = lease[c].generation /\ delivered[c][g] = 1
        /\ intent[c][g] \in {"SEND_CONFIRMED", "ACKNOWLEDGED"}

(* Any number of calls of reenter and of operator approvals, some of them  *)
(* dead or overtaken, have one effect on a continuation: over all the      *)
(* generations of the lease its message is shown for one of them.  A client*)
(* in between does not change that, although it may send by itself: with   *)
(* the lease of a send of unknown outcome it gets a new intent.            *)
OneEffect ==
    \A c \in Packets : \A g, h \in Generations \ lease[c].direct :
      delivered[c][g] > 0 /\ delivered[c][h] > 0 => g = h
=============================================================================
