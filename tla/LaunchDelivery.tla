--------------------------- MODULE LaunchDelivery ---------------------------
(***************************************************************************)
(* How one prepared launch reaches a ChatGPT conversation: the outbox and  *)
(* handoff records of Project Memory (project_execution.py), the publisher *)
(* (project_workflow.py), the one-slot launch queue (project_launch.py),   *)
(* the native host (m9b_native_host.py) and the content script of a tab    *)
(* (content_adapter.js).                                                   *)
(*                                                                         *)
(* A launch is its binding, outbox record, handoff and prompt, which all   *)
(* carry its id.  A handler is one run of projectHandleLaunch; its steps   *)
(* are what happens between two awaits, or one locked operation of the     *)
(* native host working for it, which goes on when the page is gone.  Each  *)
(* transaction and each queue operation is atomic under its lock.  AUTO is *)
(* RUNNABLE throughout; a gate that refuses for another reason, a lost     *)
(* message and an edited composer are Fail.  So is a run that finds itself *)
(* in another conversation (sameSelection, finalSelection): a tab keeps    *)
(* its conversation, and the new chat without one is left out.             *)
(***************************************************************************)
EXTENDS Naturals

CONSTANTS
    Launches,
    AutoSend,       \* launches with auto_send
    NoLaunch,       \* None
    Conversations,
    NoConversation,
    Tabs,           \* browser tabs, each a tab_instance_id
    ConversationOf, \* [Tabs -> Conversations]
    Handlers,       \* slots for runs of projectHandleLaunch
    TabOf,          \* [Handlers -> Tabs]
    Shown,          \* tabs that stay visible; others may be hidden at any time
    Publishers,     \* processes running ProjectWorkflow
    Budget,         \* how often each disturbance may happen
    MaxSends        \* model bound on the messages of one launch

Disturbances == {"continue", "reload", "fail", "ttl", "lease", "stop"}

ASSUME DeliveryAssumption ==
    /\ AutoSend \subseteq Launches /\ NoLaunch \notin Launches
    /\ NoConversation \notin Conversations
    /\ ConversationOf \in [Tabs -> Conversations]
    /\ TabOf \in [Handlers -> Tabs]
    /\ Shown \subseteq Tabs
    /\ Budget \in [Disturbances -> Nat]
    /\ MaxSends \in Nat

VARIABLES
    current,        \* launch of current_binding_id
    active,         \* launches whose binding is ACTIVE
    bound,          \* bound[l]: conversation_id of the binding
    outbox,         \* outbox[l]: status of the outbox record
    handoff,        \* handoff[l]: status of the handoff record
    queue,          \* pending launch and its claim
    record,         \* record[l]: what chrome.storage holds for the launch
    messages,       \* messages[c][l]: times the prompt of l was sent in c
    page,           \* page[t]: what a reload of the tab loses
    run,            \* run[x]: the handler
    pub,            \* pub[p]: the publisher
    left            \* left[d]: disturbances still to come

memory == <<current, active, bound, outbox, handoff>>
vars == <<memory, queue, record, messages, page, run, pub, left>>

-----------------------------------------------------------------------------
(* Shapes *)

Loads == 0..Budget["reload"]
NoClaim == <<>>
Claims == Tabs \X Loads         \* projectClaimId: one per launch and page load

EmptyQueue == [launch |-> NoLaunch, claim |-> NoClaim]

RecordStates == {"CLAIMED", "SEND_ATTEMPTED", "SEND_CONFIRMED", "ACKED"}
NoRecord == [state |-> "NONE"]
Record == [state : RecordStates, tab : Tabs, claim : Claims, baseline : 0..MaxSends]

(* load: number of the page load; shown[l]: messages with the prompt of l  *)
(* the page displays; composer: the launch whose prompt it holds; stopped: *)
(* projectAutoState.phase is "stopped"; inserting: projectInsertionActive. *)
Page == [load : Loads, shown : [Launches -> 0..MaxSends],
         composer : Launches \cup {NoLaunch}, stopped : BOOLEAN, inserting : BOOLEAN]

HostSteps == {"host_peek", "bind", "claim", "ack_read", "ack_owns",
              "mark_sent", "mark_acknowledged", "queue_ack"}
WriteSteps == {"write_claimed", "write_attempted", "write_confirmed", "write_acked"}
BeforeClaim == {"read", "host_peek", "bind", "claim"}
PageSteps == {"read", "status", "insert", "gate", "click", "verify"} \cup WriteSteps

(* What projectWriteBinding read of the records of the other launches. *)
Storage == [Launches -> Record \cup {NoRecord}]
NoSnapshot == <<>>

(* existing: the tab's own record as read at the start; sent: the handoff  *)
(* was SENT when last read; inserting: in the try block that set           *)
(* projectInsertionActive and whose finally clears it; cancelled: the      *)
(* epoch moved on; live: its page still waits; snap: see Storage.          *)
IdleRun == [step |-> "idle"]
Run == [step : HostSteps \cup PageSteps, launch : Launches, claim : Claims,
        existing : Record \cup {NoRecord}, baseline : 0..MaxSends, sent : BOOLEAN,
        inserting : BOOLEAN, cancelled : BOOLEAN, live : BOOLEAN,
        snap : Storage \cup {NoSnapshot}]

IdlePublisher == [step |-> "idle"]
Publisher == [step : {"peek", "clear", "enqueue", "mark"}, launch : Launches]

TypeOK ==
    /\ current \in active \cup {NoLaunch} /\ active \subseteq Launches
    /\ bound \in [Launches -> Conversations \cup {NoConversation}]
    /\ outbox \in [Launches -> {"NONE", "PENDING", "PUBLISHED", "ACKNOWLEDGED"}]
    /\ handoff \in [Launches -> {"NONE", "PENDING", "SENT"}]
    /\ queue \in {EmptyQueue} \cup [launch : Launches, claim : Claims \cup {NoClaim}]
    /\ record \in Storage
    /\ messages \in [Conversations -> [Launches -> 0..MaxSends]]
    /\ page \in [Tabs -> Page]
    /\ run \in [Handlers -> Run \cup {IdleRun}]
    /\ pub \in [Publishers -> Publisher \cup {IdlePublisher}]
    /\ left \in [Disturbances -> Nat]

FreshPage(n) == [load |-> n, shown |-> [l \in Launches |-> 0],
                 composer |-> NoLaunch, stopped |-> FALSE, inserting |-> FALSE]

Init ==
    /\ current = NoLaunch /\ active = {}
    /\ bound = [l \in Launches |-> NoConversation]
    /\ outbox = [l \in Launches |-> "NONE"]
    /\ handoff = [l \in Launches |-> "NONE"]
    /\ queue = EmptyQueue
    /\ record = [l \in Launches |-> NoRecord]
    /\ messages = [c \in Conversations |-> [l \in Launches |-> 0]]
    /\ page = [t \in Tabs |-> FreshPage(0)]
    /\ run = [x \in Handlers |-> IdleRun]
    /\ pub = [p \in Publishers |-> IdlePublisher]
    /\ left = Budget

Spend(d) == left[d] > 0 /\ left' = [left EXCEPT ![d] = @ - 1]

-----------------------------------------------------------------------------
(* Project Memory and the publisher *)

PublishFrom(p, l) == pub' = [pub EXCEPT ![p] = [step |-> "peek", launch |-> l]]
Publishing(p, step) == pub[p].step = step
PublisherAt(p, step) == pub' = [pub EXCEPT ![p].step = step]
PublisherReturns(p) == pub' = [pub EXCEPT ![p] = IdlePublisher]

(* prepare_launch with a new binding: binding, outbox record and handoff   *)
(* in one transaction.  A binding of the same task is superseded, one of   *)
(* another task stays ACTIVE and is only no longer current.                *)
PrepareLaunch(p, l) ==
    /\ Publishing(p, "idle") /\ outbox[l] = "NONE"
    /\ current' = l
    /\ active' \in {active \cup {l}, (active \ {current}) \cup {l}}
    /\ outbox' = [outbox EXCEPT ![l] = "PENDING"]
    /\ handoff' = [handoff EXCEPT ![l] = IF l \in AutoSend THEN "PENDING" ELSE "NONE"]
    /\ PublishFrom(p, l)
    /\ UNCHANGED <<bound, queue, record, messages, page, run, left>>

(* Start/Continue and _ensure_auto_next_launch with a binding that exists: *)
(* it becomes current again, prepare_launch changes nothing else and the   *)
(* launch is published again.                                              *)
ContinueLaunch(p, l) ==
    /\ Publishing(p, "idle") /\ l \in active /\ current \in {NoLaunch, l}
    /\ Spend("continue") /\ PublishFrom(p, l)
    /\ current' = l
    /\ UNCHANGED <<active, bound, outbox, handoff, queue, record, messages, page, run>>

(* reconcile_launch_outbox, for one PENDING record: published when the     *)
(* slot is free, only marked when it is there already.                     *)
ReconcileOutbox(p, l) ==
    /\ Publishing(p, "idle") /\ outbox[l] = "PENDING" /\ queue.launch \in {NoLaunch, l}
    /\ pub' = [pub EXCEPT ![p] =
                 [step |-> IF queue = EmptyQueue THEN "peek" ELSE "mark", launch |-> l]]
    /\ UNCHANGED <<memory, queue, record, messages, page, run, left>>

(* publish_outbox_launch: the slot is free, holds this launch already, or  *)
(* holds an orphan; any other launch is left alone.                        *)
PublishPeek(p) ==
    /\ Publishing(p, "peek")
    /\ CASE queue.launch = NoLaunch -> PublisherAt(p, "enqueue")
         [] queue.launch = pub[p].launch -> PublisherAt(p, "mark")
         [] OTHER -> IF outbox[queue.launch] = "ACKNOWLEDGED"
                       THEN PublisherAt(p, "clear") ELSE PublisherReturns(p)
    /\ UNCHANGED <<memory, queue, record, messages, page, run, left>>

ClearOrphan(p) ==
    /\ Publishing(p, "clear")
    /\ queue' = EmptyQueue
    /\ PublisherAt(p, "enqueue")
    /\ UNCHANGED <<memory, record, messages, page, run, left>>

Enqueue(p) ==
    /\ Publishing(p, "enqueue")
    /\ IF queue = EmptyQueue
         THEN /\ queue' = [launch |-> pub[p].launch, claim |-> NoClaim]
              /\ PublisherAt(p, "mark")
         ELSE PublisherReturns(p) /\ UNCHANGED queue
    /\ UNCHANGED <<memory, record, messages, page, run, left>>

MarkOutboxPublished(p) ==
    LET l == pub[p].launch
    IN /\ Publishing(p, "mark")
       /\ outbox' = [outbox EXCEPT ![l] = IF @ = "PENDING" THEN "PUBLISHED" ELSE @]
       /\ PublisherReturns(p)
       /\ UNCHANGED <<current, active, bound, handoff, queue, record, messages, page,
                      run, left>>

PublisherFails(p) ==
    /\ pub[p] # IdlePublisher /\ Spend("fail")
    /\ PublisherReturns(p)
    /\ UNCHANGED <<memory, queue, record, messages, page, run>>

(* Mutant: current_binding_id survives its binding. *)
BindingEndsAlone ==
    /\ current # NoLaunch
    /\ active' = active \ {current}
    /\ UNCHANGED <<current, bound, outbox, handoff, queue, record, messages, page, run, pub,
                   left>>

(* record_result makes the current binding terminal; request_changes and a *)
(* new milestone run only take the cursor off it.                          *)
BindingEnds ==
    /\ current # NoLaunch
    /\ active' \in {active, active \ {current}} /\ current' = NoLaunch
    /\ UNCHANGED <<bound, outbox, handoff, queue, record, messages, page, run, pub, left>>

-----------------------------------------------------------------------------
(* The handler of a tab *)

At(x, step) == run[x].step = step
Conversation(x) == ConversationOf[TabOf[x]]
Alive(x) == run[x] # IdleRun /\ run[x].live

(* The next step; an answer of the host to a page that is gone is lost. *)
After(r, step) == IF r.live \/ step \in HostSteps THEN [r EXCEPT !.step = step] ELSE IdleRun
Goto(x, step) == run' = [run EXCEPT ![x] = After(@, step)] /\ UNCHANGED page

(* The finally of any run clears the flag of the page. *)
Released(x) == page[TabOf[x]].inserting /\ ~ run[x].inserting
Return(x) ==
    /\ run' = [run EXCEPT ![x] = IdleRun]
    /\ page' = [page EXCEPT ![TabOf[x]].inserting = Released(x)]
Owns(x) == queue = [launch |-> run[x].launch, claim |-> run[x].claim]

(* projectAutoStop: every run of the page is cancelled, this one returns. *)
Cancelled(t, y) == run[y] # IdleRun /\ run[y].live /\ TabOf[y] = t
AutoStop(t, x) ==
    /\ page' = [page EXCEPT ![t].stopped = TRUE, ![t].inserting = Released(x)]
    /\ run' = [y \in Handlers |-> IF y = x THEN IdleRun
                                  ELSE IF Cancelled(t, y) THEN [run[y] EXCEPT !.cancelled = TRUE]
                                  ELSE run[y]]

(* What document.visibilityState may say. *)
Visible(x) == {TRUE, TabOf[x] \in Shown}

(* projectPoll, a next_launch receipt or the popup: a run starts with the  *)
(* pending launch unless one is inserting.                                 *)
HandleLaunch(x) ==
    /\ run[x] = IdleRun /\ queue # EmptyQueue /\ ~ page[TabOf[x]].inserting
    /\ run' = [run EXCEPT ![x] =
                 [step |-> "read", launch |-> queue.launch,
                  claim |-> <<TabOf[x], page[TabOf[x]].load>>, existing |-> NoRecord,
                  baseline |-> 0, sent |-> FALSE, inserting |-> FALSE,
                  cancelled |-> FALSE, live |-> TRUE, snap |-> NoSnapshot]]
    /\ UNCHANGED <<memory, queue, record, messages, page, pub, left>>

(* Mutant: the record of an earlier run is not found again. *)
ForgottenRecord(x) == NoRecord

(* projectBindingFor: only the record this tab wrote. *)
OwnRecord(x) ==
    LET r == record[run[x].launch]
    IN IF r # NoRecord /\ r.tab = TabOf[x] THEN r ELSE NoRecord

(* A displayed message with this prompt, or a foreign text in the composer *)
(* of a page that has no record of the launch.                             *)
Suspicious(x) ==
    LET l == run[x].launch
        p == page[TabOf[x]]
    IN \/ l \in AutoSend /\ p.shown[l] > 0 /\ p.composer = NoLaunch
       \/ p.composer \notin {NoLaunch, l}

ReadBindings(x) ==
    LET e == OwnRecord(x)
    IN /\ At(x, "read")
       /\ IF e = NoRecord /\ Suspicious(x)
            THEN Return(x)
            ELSE /\ run' = [run EXCEPT ![x].step = "host_peek", ![x].existing = e,
                                       ![x].claim = IF e = NoRecord THEN @ ELSE e.claim]
                 /\ UNCHANGED page
       /\ UNCHANGED <<memory, queue, record, messages, pub, left>>

(* project_launch_claim: peek, bind_conversation, queue.claim. *)
HostPeek(x) ==
    /\ At(x, "host_peek")
    /\ Goto(x, IF queue.launch = run[x].launch THEN "bind" ELSE "claim")
    /\ UNCHANGED <<memory, queue, record, messages, pub, left>>

(* Mutant: the binding follows whoever asked last. *)
RebindConversation(x) ==
    LET l == run[x].launch
    IN /\ At(x, "bind")
       /\ IF l \in active
            THEN bound' = [bound EXCEPT ![l] = Conversation(x)] /\ Goto(x, "claim")
            ELSE Return(x) /\ UNCHANGED bound
       /\ UNCHANGED <<current, active, outbox, handoff, queue, record, messages, pub, left>>

BindConversation(x) ==
    LET l == run[x].launch
    IN /\ At(x, "bind")
       /\ IF l \in active /\ bound[l] \in {NoConversation, Conversation(x)}
            THEN bound' = [bound EXCEPT ![l] = Conversation(x)] /\ Goto(x, "claim")
            ELSE Return(x) /\ UNCHANGED bound
       /\ UNCHANGED <<current, active, outbox, handoff, queue, record, messages, pub, left>>

QueueClaim(x) ==
    /\ At(x, "claim")
    /\ IF queue.launch = run[x].launch /\ queue.claim \in {NoClaim, run[x].claim}
         THEN queue' = [queue EXCEPT !.claim = run[x].claim] /\ Goto(x, "status")
         ELSE Return(x) /\ UNCHANGED queue
    /\ UNCHANGED <<memory, record, messages, pub, left>>

(* The canonical gate of an AUTO launch. *)
GateOpen(x) == current = run[x].launch /\ bound[run[x].launch] = Conversation(x)

EffectObserved(x, baseline) ==
    LET p == page[TabOf[x]]
    IN p.composer = NoLaunch /\ p.shown[run[x].launch] > baseline

(* Mutant: an uncertain Send is tried again. *)
RetryUncertain(x) ==
    LET e == run[x].existing
    IN CASE e.state = "ACKED" -> "idle"
         [] e.state = "SEND_CONFIRMED" /\ run[x].launch \in AutoSend -> "ack_read"
         [] e.state = "SEND_ATTEMPTED" /\ run[x].launch \in AutoSend
            /\ EffectObserved(x, e.baseline) -> "write_confirmed"
         [] OTHER -> "write_claimed"

(* Mutant: a confirmed Send counts as done before the host knows of it. *)
ForgetAck(x) ==
    LET e == run[x].existing
    IN CASE e.state \in {"ACKED", "SEND_CONFIRMED"} -> "idle"
         [] e.state = "SEND_ATTEMPTED" /\ run[x].launch \in AutoSend ->
               IF EffectObserved(x, e.baseline) THEN "write_confirmed" ELSE "idle"
         [] OTHER -> "write_claimed"

(* Where the run goes on: an earlier run of the tab may have come further. *)
Resume(x) ==
    LET e == run[x].existing
    IN CASE e.state = "ACKED" -> "idle"
         [] e.state = "SEND_CONFIRMED" /\ run[x].launch \in AutoSend -> "ack_read"
         [] e.state = "SEND_ATTEMPTED" /\ run[x].launch \in AutoSend ->
               IF EffectObserved(x, e.baseline) THEN "write_confirmed" ELSE "idle"
         [] OTHER -> "write_claimed"

(* The page is still eligible, and the status it asks for opens the gate.  *)
ReadStatus(x) ==
    LET l == run[x].launch
        e == run[x].existing
    IN /\ At(x, "status")
       /\ \E visible \in Visible(x) :
            IF ~ visible THEN Return(x)
            ELSE IF l \in AutoSend /\ ~ GateOpen(x) THEN AutoStop(TabOf[x], x)
            ELSE IF Resume(x) = "idle" THEN Return(x)
            ELSE /\ run' = [run EXCEPT ![x].step = Resume(x), ![x].sent = (handoff[l] = "SENT"),
                                       ![x].baseline = IF e = NoRecord THEN 0 ELSE e.baseline]
                 /\ UNCHANGED page
       /\ UNCHANGED <<memory, queue, record, messages, pub, left>>

(* projectWriteBinding reads all records, and writes them back with its    *)
(* own one changed.                                                        *)
ReadStorage(x) ==
    /\ run[x].step \in WriteSteps /\ run[x].snap = NoSnapshot
    /\ run' = [run EXCEPT ![x].snap = [record EXCEPT ![run[x].launch] = NoRecord]]
    /\ UNCHANGED <<memory, queue, record, messages, page, pub, left>>

WriteRecord(x, state) ==
    /\ run[x].snap # NoSnapshot
    /\ record' = [run[x].snap EXCEPT ![run[x].launch] =
                    [state |-> state, tab |-> TabOf[x], claim |-> run[x].claim,
                     baseline |-> run[x].baseline]]
Write(x, step, state, next) ==
    /\ At(x, step)
    /\ WriteRecord(x, state)
    /\ IF next = "idle" THEN Return(x)
       ELSE run' = [run EXCEPT ![x].step = next, ![x].snap = NoSnapshot] /\ UNCHANGED page
    /\ UNCHANGED <<memory, queue, messages, pub, left>>

WriteClaimed(x) == Write(x, "write_claimed", "CLAIMED", "insert")
WriteAttempted(x) == Write(x, "write_attempted", "SEND_ATTEMPTED", "click")
WriteConfirmed(x) == Write(x, "write_confirmed", "SEND_CONFIRMED", "ack_read")
WriteAcked(x) == Write(x, "write_acked", "ACKED", "idle")

(* The prompt goes into the composer.  A handoff that was SENT is only     *)
(* acknowledged, a manual launch is acknowledged without being sent.       *)
AfterInsert(x, visible) ==
    IF ~ visible THEN "idle"
    ELSE IF run[x].launch \notin AutoSend THEN "queue_ack"
    ELSE IF run[x].sent THEN "ack_read"
    ELSE IF page[TabOf[x]].stopped THEN "idle" ELSE "gate"

Insert(x) ==
    LET t == TabOf[x]
        l == run[x].launch
    IN /\ At(x, "insert")
       /\ \E visible \in Visible(x) :
            LET next == IF page[t].composer \in {NoLaunch, l} THEN AfterInsert(x, visible)
                        ELSE "idle"
            IN /\ page' = [page EXCEPT ![t].composer = IF @ = NoLaunch THEN l ELSE @,
                                       ![t].inserting = (next # "idle")]
               /\ run' = [run EXCEPT ![x] = IF next = "idle" THEN IdleRun
                            ELSE [@ EXCEPT !.step = next, !.inserting = TRUE, !.cancelled = FALSE]]
       /\ UNCHANGED <<memory, queue, record, messages, pub, left>>

(* projectAutoSendInserted up to the decision to send. *)
SendGate(x) ==
    LET t == TabOf[x]
        l == run[x].launch
    IN /\ At(x, "gate")
       /\ IF run[x].cancelled THEN Return(x)
          ELSE IF page[t].composer # l \/ ~ GateOpen(x) THEN AutoStop(t, x)
          ELSE /\ run' = [run EXCEPT ![x].step = "write_attempted",
                                     ![x].baseline = page[t].shown[l]]
               /\ UNCHANGED page
       /\ UNCHANGED <<memory, queue, record, messages, pub, left>>

(* send.click(): the page sends what the composer holds, or nothing        *)
(* happens; the phase is overwritten whatever it was.                      *)
Click(x) ==
    LET t == TabOf[x]
        c == Conversation(x)
        m == page[t].composer
    IN /\ At(x, "click")
       /\ run' = [run EXCEPT ![x].step = "verify"]
       /\ \/ /\ m # NoLaunch /\ messages[c][m] < MaxSends
             /\ messages' = [messages EXCEPT ![c][m] = @ + 1]
             /\ page' = [page EXCEPT ![t].composer = NoLaunch, ![t].stopped = FALSE]
             /\ UNCHANGED left
          \/ /\ IF m = NoLaunch THEN UNCHANGED left ELSE Spend("fail")
             /\ page' = [page EXCEPT ![t].stopped = FALSE]
             /\ UNCHANGED messages
       /\ UNCHANGED <<memory, queue, record, pub>>

(* Mutant: a click counts as a Send. *)
TrustClick(x) ==
    /\ At(x, "verify")
    /\ Goto(x, "write_confirmed")
    /\ UNCHANGED <<memory, queue, record, messages, pub, left>>

(* The effect is seen, or STOP or five seconds end the run. *)
VerifySend(x) ==
    /\ At(x, "verify")
    /\ IF ~ run[x].cancelled /\ EffectObserved(x, run[x].baseline)
         THEN Goto(x, "write_confirmed") ELSE Return(x)
    /\ UNCHANGED <<memory, queue, record, messages, pub, left>>

-----------------------------------------------------------------------------
(* project_launch_ack in the native host *)

AckRead(x) ==
    LET l == run[x].launch
    IN /\ At(x, "ack_read")
       /\ IF bound[l] \in {NoConversation, Conversation(x)}
            THEN /\ run' = [run EXCEPT ![x].step = "ack_owns", ![x].sent = (handoff[l] = "SENT")]
                 /\ UNCHANGED page
            ELSE Return(x)
       /\ UNCHANGED <<memory, queue, record, messages, pub, left>>

(* Mutant: the queue is cleared before the handoff is SENT. *)
ClearFirst(x) ==
    /\ At(x, "ack_owns")
    /\ IF queue = EmptyQueue \/ Owns(x)
         THEN queue' = EmptyQueue /\ Goto(x, IF run[x].sent THEN "write_acked" ELSE "mark_sent")
         ELSE Return(x) /\ UNCHANGED queue
    /\ UNCHANGED <<memory, record, messages, pub, left>>

(* claim_matches, and for a SENT handoff peek or acknowledge. *)
AckOwns(x) ==
    /\ At(x, "ack_owns")
    /\ \/ /\ run[x].sent /\ (queue = EmptyQueue \/ Owns(x))
          /\ queue' = EmptyQueue /\ Goto(x, "write_acked")
       \/ /\ ~ run[x].sent /\ Owns(x)
          /\ Goto(x, "mark_sent") /\ UNCHANGED queue
       \/ /\ ~ Owns(x) /\ (run[x].sent => queue # EmptyQueue)
          /\ Return(x) /\ UNCHANGED queue
    /\ UNCHANGED <<memory, record, messages, pub, left>>

MarkHandoffSent(x) ==
    LET l == run[x].launch
    IN /\ At(x, "mark_sent")
       /\ IF \/ handoff[l] = "SENT"
             \/ l = current /\ bound[l] \in {NoConversation, Conversation(x)}
            THEN handoff' = [handoff EXCEPT ![l] = "SENT"] /\ Goto(x, "mark_acknowledged")
            ELSE Return(x) /\ UNCHANGED handoff
       /\ UNCHANGED <<current, active, bound, outbox, queue, record, messages, pub, left>>

MarkOutboxAcknowledged(x) ==
    /\ At(x, "mark_acknowledged")
    /\ outbox' = [outbox EXCEPT ![run[x].launch] = "ACKNOWLEDGED"]
    /\ Goto(x, "queue_ack")
    /\ UNCHANGED <<current, active, bound, handoff, queue, record, messages, pub, left>>

QueueAcknowledge(x) ==
    /\ At(x, "queue_ack")
    /\ IF Owns(x) THEN queue' = EmptyQueue /\ Goto(x, "write_acked")
       ELSE Return(x) /\ UNCHANGED queue
    /\ UNCHANGED <<memory, record, messages, pub, left>>

-----------------------------------------------------------------------------
(* Disturbances *)

(* _normalize_expiry: the launch after ten minutes, the claim after 30 s,  *)
(* seldom under the run that made it and is still at work.                 *)
LaunchExpires ==
    /\ queue # EmptyQueue /\ Spend("ttl")
    /\ queue' = EmptyQueue
    /\ UNCHANGED <<memory, record, messages, page, run, pub>>
ClaimExpires ==
    /\ queue.claim # NoClaim
    /\ queue' = [queue EXCEPT !.claim = NoClaim]
    /\ IF \E x \in Handlers : run[x] # IdleRun /\ run[x].step \notin BeforeClaim /\ Owns(x)
         THEN Spend("lease") ELSE UNCHANGED left
    /\ UNCHANGED <<memory, record, messages, page, run, pub>>

(* The page is reloaded or crashes.  sessionStorage keeps the tab id, the  *)
(* claim ids are lost, and what the host has begun it finishes.            *)
Reload(t) ==
    /\ Spend("reload")
    /\ page' = [page EXCEPT ![t] = FreshPage(@.load + 1)]
    /\ run' = [x \in Handlers |->
                 IF TabOf[x] # t \/ run[x] = IdleRun THEN run[x]
                 ELSE IF run[x].step \in HostSteps
                        THEN [run[x] EXCEPT !.live = FALSE, !.inserting = FALSE]
                 ELSE IdleRun]
    /\ UNCHANGED <<memory, queue, record, messages, pub>>

(* A message to or from the host is lost, the host crashes, or the page    *)
(* gives up.  A status that is missing, and an error in the run of a       *)
(* next_launch receipt, stop AUTO as well.                                 *)
Fail(x) ==
    /\ run[x] # IdleRun /\ Spend("fail")
    /\ Return(x) \/ (Alive(x) /\ run[x].launch \in AutoSend /\ AutoStop(TabOf[x], x))
    /\ UNCHANGED <<memory, queue, record, messages, pub>>

(* The page displays the messages its conversation has. *)
Render(t) ==
    /\ page[t].shown # messages[ConversationOf[t]]
    /\ page' = [page EXCEPT ![t].shown = messages[ConversationOf[t]]]
    /\ UNCHANGED <<memory, queue, record, messages, run, pub, left>>

(* STOP AUTO in the popup; the next result block found in the page lifts   *)
(* it again.                                                               *)
UserStop(t) ==
    /\ Spend("stop")
    /\ page' = [page EXCEPT ![t].stopped = TRUE]
    /\ run' = [y \in Handlers |->
                 IF Cancelled(t, y) THEN [run[y] EXCEPT !.cancelled = TRUE] ELSE run[y]]
    /\ UNCHANGED <<memory, queue, record, messages, pub>>
ResultDetected(t) ==
    /\ page[t].stopped
    /\ page' = [page EXCEPT ![t].stopped = FALSE]
    /\ UNCHANGED <<memory, queue, record, messages, run, pub, left>>

-----------------------------------------------------------------------------
Publish(p) == PublishPeek(p) \/ ClearOrphan(p) \/ Enqueue(p) \/ MarkOutboxPublished(p)

Proceed(x) ==
    \/ ReadBindings(x)
    \/ HostPeek(x) \/ BindConversation(x) \/ QueueClaim(x)
    \/ ReadStatus(x) \/ ReadStorage(x) \/ WriteClaimed(x) \/ Insert(x) \/ SendGate(x)
    \/ WriteAttempted(x) \/ Click(x) \/ VerifySend(x) \/ WriteConfirmed(x)
    \/ AckRead(x) \/ AckOwns(x) \/ MarkHandoffSent(x)
    \/ MarkOutboxAcknowledged(x) \/ QueueAcknowledge(x) \/ WriteAcked(x)

Work(x) == HandleLaunch(x) \/ Proceed(x)

Next ==
    \/ \E p \in Publishers, l \in Launches :
            PrepareLaunch(p, l) \/ ContinueLaunch(p, l) \/ ReconcileOutbox(p, l)
    \/ \E p \in Publishers : Publish(p) \/ PublisherFails(p)
    \/ BindingEnds
    \/ \E x \in Handlers : Work(x) \/ Fail(x)
    \/ LaunchExpires \/ ClaimExpires
    \/ \E t \in Tabs : Reload(t) \/ Render(t) \/ UserStop(t) \/ ResultDetected(t)

Spec == Init /\ [][Next]_vars

(* The runs finish what they began, pages render, claims run out, and AUTO *)
(* launches are polled for in the tabs that stay visible: a hidden tab     *)
(* starts no run.  Nothing is assumed of the publishers.                   *)
Poll(x) == TabOf[x] \in Shown /\ queue.launch \in AutoSend /\ HandleLaunch(x)

Fairness ==
    /\ \A x \in Handlers : WF_vars(Proceed(x)) /\ WF_vars(Poll(x))
    /\ \A t \in Tabs : WF_vars(Render(t))
    /\ WF_vars(ClaimExpires)

FairSpec == Spec /\ Fairness

(* Three races the code is open to, each as the states without it.  The    *)
(* guard of a page is read and set with awaits in between: two runs.       *)
OneRun ==
    \A x, y \in Handlers : Alive(x) /\ Alive(y) /\ TabOf[x] = TabOf[y] => x = y

(* projectBindingFor ignores what another tab of the conversation wrote.   *)
OwnRecords ==
    \A x \in Handlers :
        LET l == run[x].launch
        IN Alive(x) /\ l \in AutoSend /\ run[x].step \in PageSteps \ {"read", "status"} =>
             record[l] = NoRecord \/ record[l].tab = TabOf[x]

(* projectWriteBinding writes the other records back as it has read them.  *)
FreshReads ==
    \A x \in Handlers : Alive(x) /\ run[x].snap # NoSnapshot =>
        \A m \in AutoSend \ {run[x].launch} : run[x].snap[m] = record[m]

RaceFree == OneRun /\ OwnRecords /\ FreshReads

-----------------------------------------------------------------------------
(* Properties *)

(* An AUTO prompt is sent at most once, whatever is lost, reloaded, expired*)
(* or published again between the click and the SENT handoff.              *)
SendOnce ==
    \A l \in AutoSend, c, d \in Conversations :
        messages[c][l] + (IF c = d THEN 0 ELSE messages[d][l]) <= 1

(* AUTO sends a prompt only in the conversation that owns its binding. *)
SentInOwner ==
    \A l \in AutoSend, c \in Conversations : messages[c][l] > 0 => bound[l] = c

(* A handoff is SENT only when the prompt really is in the conversation,   *)
(* and the outbox record is ACKNOWLEDGED only after that.                  *)
SentIsTrue ==
    \A l \in AutoSend :
        /\ handoff[l] = "SENT" => bound[l] # NoConversation /\ messages[bound[l]][l] > 0
        /\ outbox[l] = "ACKNOWLEDGED" => handoff[l] = "SENT"

(* How far a record in chrome.storage has come. *)
Stage(state) ==
    CASE state = "NONE" -> 0 [] state = "CLAIMED" -> 1 [] state = "SEND_ATTEMPTED" -> 2
      [] state = "SEND_CONFIRMED" -> 3 [] state = "ACKED" -> 4

(* What chrome.storage says of an AUTO launch never goes back: a later run *)
(* neither forgets an attempt nor takes a confirmed Send for an open one.  *)
RecordAdvances ==
    [][\A l \in AutoSend : Stage(record[l].state) <= Stage(record'[l].state)]_vars

(* A click whose effect no page will ever see: the run ended between the   *)
(* record of the attempt and the click.  The launch stays blocked.         *)
Uncertain(l) ==
    record[l].state = "SEND_ATTEMPTED" /\ \A c \in Conversations : messages[c][l] = 0

(* The gate was once closed when the owner's tab asked: projectAutoStop    *)
(* latches AUTO off in that page, also when the gate opens again.          *)
StoppedInTab(l) == \E t \in Tabs : ConversationOf[t] = bound[l] /\ page[t].stopped

(* Its owner is a conversation that no tab is sure to show. *)
OwnerHidden(l) ==
    bound[l] # NoConversation /\ \A t \in Shown : ConversationOf[t] # bound[l]

(* An AUTO launch in the queue is handed off, unless it expires there, the *)
(* cursor leaves it, its tab is hidden or has stopped AUTO, or an          *)
(* interrupted Send blocks it for good.                                    *)
EventuallyHandedOff ==
    \A l \in AutoSend :
        queue.launch = l ~>
            \/ handoff[l] = "SENT" \/ queue.launch # l \/ current # l
            \/ OwnerHidden(l) \/ StoppedInTab(l) \/ []Uncertain(l)

(* An AUTO launch that is not handed off leaves the queue only by expiring *)
(* or as the orphan of a publisher: no answer that was lost or came late   *)
(* takes it out.                                                           *)
QueueKeepsLaunch ==
    [][\A l \in AutoSend : queue.launch = l /\ queue'.launch # l =>
          handoff[l] = "SENT" \/ LaunchExpires \/ \E p \in Publishers : ClearOrphan(p)]_vars
=============================================================================
