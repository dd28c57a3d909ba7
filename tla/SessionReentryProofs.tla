------------------------ MODULE SessionReentryProofs ------------------------
(***************************************************************************)
(* The safety of the continuation flow for any number of controllers,      *)
(* clients, packets, generations and epochs.                               *)
(*                                                                         *)
(* The inductive invariant says whose an intent is: a token belongs to one *)
(* process (OwnTokens), an intent above the generation of its lease is not *)
(* there yet (Unborn), what a process does tells the status of its intent  *)
(* (KnowsStatus), the status tells what was shown (StatusTells), and a row *)
(* is only confirmed for an intent that was acknowledged.  Nothing is said *)
(* about who may write the row: several calls can.                         *)
(***************************************************************************)
EXTENDS SessionReentry, TLAPS

(* A token that was given out is one process's own. *)
HasToken(p) ==
    /\ call[p].pc # "idle" => call[p].packet \in Packets
    /\ call[p].token # 0 =>
         call[p].packet \in Packets /\ call[p].token <= lease[call[p].packet].generation
    /\ AtWork(p) \/ call[p].pc = "row" => call[p].token # 0

OwnTokens ==
    \A p, q \in Processes :
      /\ call[p].token # 0 /\ call[p].token = call[q].token
      /\ call[p].packet = call[q].packet
      => p = q

Bounded == \A c \in Packets : lease[c].generation <= MaxGeneration

Unborn ==
    \A c \in Packets, g \in Generations : g > lease[c].generation => intent[c][g] = "NONE"

StatusTells ==
    \A c \in Packets, g \in Generations :
      /\ delivered[c][g] <= 1
      /\ intent[c][g] \in Sendable \cup {"NONE"} => delivered[c][g] = 0
      /\ intent[c][g] \in {"SEND_CONFIRMED", "ACKNOWLEDGED"} => delivered[c][g] = 1

Acked(c) == \E g \in Generations : intent[c][g] = "ACKNOWLEDGED"

KnowsStatus(p) ==
    /\ call[p].pc \in {"row", "start", "prepare"} => Status(p) = "NONE"
    /\ call[p].pc = "send" =>
         /\ Status(p) = "PHYSICAL_SEND_ATTEMPTED"
         /\ delivered[call[p].packet][call[p].token] = 0
    /\ call[p].pc = "confirm" => delivered[call[p].packet][call[p].token] = 1
    /\ call[p].pc = "complete" => Status(p) = "SEND_CONFIRMED"
    /\ call[p].pc = "ack" =>
         /\ Status(p) = "SEND_CONFIRMED"
         /\ lease[call[p].packet].status = "COMPLETED"
         /\ lease[call[p].packet].generation = call[p].token
    /\ call[p].pc = "done" => Status(p) = "ACKNOWLEDGED"
    /\ call[p].into = "REENTRY_CONFIRMED" => Acked(call[p].packet)

NoEndYet(p) == call[p].pc \notin {"release", "settle"} => call[p].into = "NONE"

ConfirmedIsAcked ==
    \A c \in Packets : reentry[c] = "REENTRY_CONFIRMED" => Acked(c)

Knows(p) == HasToken(p) /\ KnowsStatus(p) /\ NoEndYet(p)

RInv ==
    /\ TypeOK /\ Bounded /\ OwnTokens /\ Unborn /\ StatusTells
    /\ \A p \in Processes : Knows(p)
    /\ ConfirmedIsAcked /\ AckCompletesLease /\ CompletedIsDelivered

-----------------------------------------------------------------------------
LEMMA Setting ==
    ASSUME TypeOK, NEW p \in Processes, call[p].packet \in Packets,
           call[p].token \in Generations, NEW s \in Statuses, SetStatus(p, s)
    PROVE  /\ intent' \in [Packets -> [Generations -> Statuses]]
           /\ \A c \in Packets, g \in Generations :
                intent'[c][g] = IF c = call[p].packet /\ g = call[p].token
                                THEN s ELSE intent[c][g]
BY DEF TypeOK, SetStatus

LEMMA Moving ==
    ASSUME TypeOK, NEW p \in Processes, NEW to \in Steps, Goto(p, to)
    PROVE  /\ call' \in [Processes -> CallRecord]
           /\ \A q \in Processes : q # p => call'[q] = call[q]
           /\ call'[p].pc = to /\ call'[p].packet = call[p].packet
           /\ call'[p].token = call[p].token /\ call'[p].from = call[p].from
           /\ call'[p].into = call[p].into
BY DEF TypeOK, Goto, CallRecord

(* At work, a process has a packet and the token of one of its generations. *)
LEMMA AtWorkHolds ==
    ASSUME ReentryAssumption, RInv, NEW p \in Processes, AtWork(p) \/ call[p].pc = "row"
    PROVE  /\ call[p].packet \in Packets
           /\ call[p].token \in Generations
           /\ call[p].token <= lease[call[p].packet].generation
           /\ \A q \in Processes : q # p =>
                ~(call[q].packet = call[p].packet /\ call[q].token = call[p].token)
<1>1. call[p].token # 0 /\ call[p].packet \in Packets
      /\ call[p].token <= lease[call[p].packet].generation
  BY DEF RInv, Knows, HasToken
<1>2. call[p].token \in Nat /\ lease[call[p].packet].generation \in Nat
  BY <1>1 DEF RInv, TypeOK, CallRecord, LeaseRow
<1>3. lease[call[p].packet].generation <= MaxGeneration
  BY <1>1 DEF RInv, Bounded
<1>4. call[p].token \in Generations
  BY <1>1, <1>2, <1>3 DEF Generations, ReentryAssumption
<1> QED BY <1>1, <1>4 DEF RInv, OwnTokens

LeasesGrow ==
    \A c \in Packets :
      /\ \/ lease'[c].generation = lease[c].generation
         \/ /\ lease[c].status # "COMPLETED"
            /\ lease'[c].generation = lease[c].generation + 1
      /\ lease[c].status = "COMPLETED" => lease'[c].status = "COMPLETED"

AcksStay == \A c \in Packets : Acked(c) => Acked(c)'

IntentKept(q) ==
    AtWork(q) \/ call[q].pc = "row" =>
      /\ Status(q)' = Status(q)
      /\ delivered'[call[q].packet][call[q].token] = delivered[call[q].packet][call[q].token]

(* What a process knows survives the steps of the others, if they leave    *)
(* its intent alone and no lease loses a generation or a completion.       *)
LEMMA OthersKeep ==
    ASSUME ReentryAssumption, RInv, NEW q \in Processes, call'[q] = call[q],
           LeasesGrow, AcksStay, IntentKept(q)
    PROVE  Knows(q)'
<1>1. Knows(q)
  BY DEF RInv
<1>2. call[q].pc # "idle" => call[q].packet \in Packets
  BY <1>1 DEF Knows, HasToken
<1>3. ASSUME NEW c \in Packets, NEW n \in Nat, n <= lease[c].generation
      PROVE  n <= lease'[c].generation
  <2>1. lease[c].generation \in Nat
    BY DEF RInv, TypeOK, LeaseRow
  <2> QED BY <1>3, <2>1 DEF LeasesGrow
<1>4. call[q].token \in Nat
  BY DEF RInv, TypeOK, CallRecord
<1>5. HasToken(q)'
  BY <1>1, <1>3, <1>4 DEF Knows, HasToken, AtWork
<1>6. call[q].into = "REENTRY_CONFIRMED" => call[q].packet \in Packets
  BY <1>1, <1>2 DEF Knows, NoEndYet
<1>7. KnowsStatus(q)'
  <2>1. AtWork(q) \/ call[q].pc = "row" =>
          /\ Status(q)' = Status(q)
          /\ delivered'[call[q].packet][call[q].token]
                = delivered[call[q].packet][call[q].token]
    BY DEF IntentKept
  <2>2. call[q].into = "REENTRY_CONFIRMED" => Acked(call[q].packet)'
    BY <1>1, <1>6 DEF Knows, KnowsStatus, AcksStay
  <2>3. call[q].pc = "ack" =>
          /\ lease'[call[q].packet].status = "COMPLETED"
          /\ lease'[call[q].packet].generation = call[q].token
    BY <1>1, <1>2 DEF Knows, KnowsStatus, LeasesGrow
  <2> QED BY <1>1, <2>1, <2>2, <2>3 DEF Knows, KnowsStatus, AtWork, FlowSteps
<1>8. NoEndYet(q)'
  BY <1>1 DEF Knows, NoEndYet
<1> QED BY <1>5, <1>7, <1>8 DEF Knows

(* A step of the flow writes the status of the intent of its own token.    *)
LEMMA FlowMove ==
    ASSUME ReentryAssumption, RInv, NEW p \in Processes, AtWork(p), call[p].pc # "start",
           NEW s \in Statuses, SetStatus(p, s),
           NEW to \in FlowSteps \cup {"failed", "done"}, Goto(p, to),
           UNCHANGED <<cursor, fences, lease, reentry, delivered>>,
           s = "ACKNOWLEDGED" \/ Status(p) # "ACKNOWLEDGED",
           Status(p) = "SEND_CONFIRMED" => s \in {"SEND_CONFIRMED", "ACKNOWLEDGED"},
           s = "ACKNOWLEDGED" =>
             /\ lease[call[p].packet].status = "COMPLETED"
             /\ lease[call[p].packet].generation = call[p].token,
           s \in Sendable \cup {"NONE"} => delivered[call[p].packet][call[p].token] = 0,
           s \in {"SEND_CONFIRMED", "ACKNOWLEDGED"} =>
             delivered[call[p].packet][call[p].token] = 1,
           to # "prepare",
           to = "send" => /\ s = "PHYSICAL_SEND_ATTEMPTED"
                          /\ delivered[call[p].packet][call[p].token] = 0,
           to = "confirm" => delivered[call[p].packet][call[p].token] = 1,
           to = "complete" => s = "SEND_CONFIRMED",
           to # "ack",
           to = "done" => s = "ACKNOWLEDGED"
    PROVE  RInv'
<1>1. PICK c \in Packets : c = call[p].packet
  BY AtWorkHolds
<1>2. PICK g \in Generations : g = call[p].token
  BY AtWorkHolds
<1>3. /\ intent' \in [Packets -> [Generations -> Statuses]]
      /\ \A d \in Packets, h \in Generations :
            intent'[d][h] = IF d = c /\ h = g THEN s ELSE intent[d][h]
  BY <1>1, <1>2, Setting DEF RInv
<1>4. to \in Steps
  BY DEF Steps
<1>5. /\ call' \in [Processes -> CallRecord]
      /\ \A q \in Processes : q # p => call'[q] = call[q]
      /\ call'[p].pc = to /\ call'[p].packet = c /\ call'[p].token = g
      /\ call'[p].from = call[p].from /\ call'[p].into = call[p].into
  BY <1>1, <1>2, <1>4, Moving DEF RInv
<1>6. /\ g <= lease[c].generation
      /\ \A q \in Processes : q # p => ~(call[q].packet = c /\ call[q].token = g)
  BY <1>1, <1>2, AtWorkHolds
<1>7. LeasesGrow /\ AcksStay
  BY <1>1, <1>2, <1>3 DEF LeasesGrow, AcksStay, Acked, Status
<1>8. TypeOK' /\ Bounded'
  BY <1>3, <1>5 DEF RInv, TypeOK, Bounded
<1>9. OwnTokens'
  BY <1>1, <1>2, <1>5 DEF RInv, OwnTokens
<1>10. Unborn'
  <2> SUFFICES ASSUME NEW d \in Packets, NEW h \in Generations, h > lease[d].generation
               PROVE  intent'[d][h] = "NONE"
    BY DEF Unborn
  <2>1. ~(d = c /\ h = g)
    BY <1>6 DEF RInv, TypeOK, LeaseRow, Generations, ReentryAssumption
  <2> QED BY <1>3, <2>1 DEF RInv, Unborn
<1>11. StatusTells'
  BY <1>1, <1>2, <1>3 DEF RInv, StatusTells
<1>12. ASSUME NEW q \in Processes, q # p
       PROVE  Knows(q)'
  <2>1. IntentKept(q)
    BY <1>3, <1>5, <1>6, <1>12, AtWorkHolds DEF Status, IntentKept
  <2> QED BY <1>5, <1>7, <1>12, <2>1, OthersKeep
<1>13. Knows(p)'
  <2>1. Knows(p)
    BY DEF RInv
  <2>2. HasToken(p)'
    BY <1>1, <1>2, <1>5, <1>6, <2>1 DEF Knows, HasToken, Generations
  <2>3. Status(p)' = s
    BY <1>3, <1>5 DEF Status
  <2>4. call[p].into = "NONE"
    BY <2>1 DEF Knows, NoEndYet, AtWork, FlowSteps
  <2>5. KnowsStatus(p)'
    BY <1>1, <1>2, <1>5, <2>3, <2>4 DEF KnowsStatus, FlowSteps
  <2>6. NoEndYet(p)'
    BY <1>5, <2>4 DEF NoEndYet
  <2> QED BY <2>2, <2>5, <2>6 DEF Knows
<1>14. ConfirmedIsAcked'
  BY <1>7 DEF RInv, ConfirmedIsAcked, AcksStay
<1>15. CompletedIsDelivered'
  BY <1>1, <1>2, <1>3 DEF RInv, CompletedIsDelivered, Status
<1>16. AckCompletesLease'
  BY <1>1, <1>2, <1>3 DEF RInv, AckCompletesLease
<1> QED
  BY <1>8, <1>9, <1>10, <1>11, <1>12, <1>13, <1>14, <1>15, <1>16 DEF RInv

(* A step that leaves the intents, or the calls, writes what was there. *)
LEMMA SameStatus ==
    ASSUME ReentryAssumption, RInv, NEW p \in Processes, AtWork(p)
    PROVE  /\ Status(p) \in Statuses
           /\ UNCHANGED intent => SetStatus(p, Status(p))
<1>1. call[p].packet \in Packets /\ call[p].token \in Generations
  BY AtWorkHolds
<1>2. intent \in [Packets -> [Generations -> Statuses]]
  BY DEF RInv, TypeOK
<1>3. Status(p) \in Statuses
  BY <1>1, <1>2 DEF Status
<1>4. [intent EXCEPT ![call[p].packet][call[p].token] = Status(p)] = intent
  BY <1>1, <1>2 DEF Status
<1> QED BY <1>3, <1>4 DEF SetStatus

LEMMA SameCall ==
    ASSUME RInv, NEW p \in Processes, UNCHANGED call
    PROVE  Goto(p, call[p].pc)
BY DEF RInv, TypeOK, CallRecord, Goto

(* What the status and the step of a process say about the message. *)
LEMMA Shown ==
    ASSUME ReentryAssumption, RInv, NEW p \in Processes, AtWork(p)
    PROVE  /\ Status(p) \in Sendable \cup {"NONE"} =>
                delivered[call[p].packet][call[p].token] = 0
           /\ Status(p) \in {"SEND_CONFIRMED", "ACKNOWLEDGED"} =>
                delivered[call[p].packet][call[p].token] = 1
           /\ delivered[call[p].packet][call[p].token] \in {0, 1}
           /\ Status(p) = "ACKNOWLEDGED" =>
                /\ lease[call[p].packet].status = "COMPLETED"
                /\ lease[call[p].packet].generation = call[p].token
           /\ KnowsStatus(p)
<1>1. call[p].packet \in Packets /\ call[p].token \in Generations
  BY AtWorkHolds
<1>2. delivered[call[p].packet][call[p].token] \in Nat
  BY <1>1 DEF RInv, TypeOK
<1> QED BY <1>1, <1>2 DEF RInv, StatusTells, AckCompletesLease, Status, Knows

LEMMA PreparePreserves ==
    ASSUME ReentryAssumption, RInv, NEW p \in Processes, Prepare(p)
    PROVE  RInv'
<1>1. AtWork(p) /\ call[p].pc = "prepare"
  BY DEF Prepare, At, AtWork, FlowSteps
<1>2. Status(p) = "NONE" /\ delivered[call[p].packet][call[p].token] = 0
  BY <1>1, Shown DEF KnowsStatus
<1>3. UNCHANGED <<cursor, fences, lease, reentry, delivered>>
  BY DEF Prepare
<1>4. CASE LiveLease(p)
  <2>1. SetStatus(p, "PREPARED") /\ Goto(p, "allow")
    BY <1>4 DEF Prepare
  <2>2. "PREPARED" \in Statuses /\ "allow" \in FlowSteps \cup {"failed", "done"}
    BY DEF Statuses, Sendable, FlowSteps
  <2> QED BY <1>1, <1>2, <1>3, <2>1, <2>2, FlowMove
<1>5. CASE ~LiveLease(p)
  <2>1. SetStatus(p, "NONE") /\ Goto(p, "failed")
    BY <1>1, <1>2, <1>5, SameStatus DEF Prepare
  <2>2. "NONE" \in Statuses /\ "failed" \in FlowSteps \cup {"failed", "done"}
    BY DEF Statuses
  <2> QED BY <1>1, <1>2, <1>3, <2>1, <2>2, FlowMove
<1> QED BY <1>4, <1>5

LEMMA AllowSendPreserves ==
    ASSUME ReentryAssumption, RInv, NEW p \in Processes, AllowSend(p) \/ DomFails(p)
    PROVE  RInv'
<1>1. AtWork(p) /\ call[p].pc = "allow"
  BY DEF AllowSend, DomFails, At, AtWork, FlowSteps
<1>2. UNCHANGED <<cursor, fences, lease, reentry, delivered>>
  BY DEF AllowSend, DomFails
<1>3. ASSUME NEW s \in Statuses, SetStatus(p, s),
             NEW to \in {"begin", "failed"}, Goto(p, to),
             \/ s = Status(p)
             \/ s = "FENCED" /\ Status(p) = "PREPARED"
             \/ s = "SEND_ALLOWED" /\ Status(p) = "PREPARED"
      PROVE  RInv'
  <2>1. /\ s \in Sendable \cup {"NONE"} => Status(p) \in Sendable \cup {"NONE"}
        /\ s \in {"SEND_CONFIRMED", "ACKNOWLEDGED"} => s = Status(p)
        /\ s = "ACKNOWLEDGED" \/ Status(p) # "ACKNOWLEDGED"
    BY <1>3 DEF Sendable
  <2>2. to \in FlowSteps \cup {"failed", "done"}
    BY DEF FlowSteps
  <2> QED BY <1>1, <1>2, <1>3, <2>1, <2>2, Shown, FlowMove
<1>4. CASE AllowSend(p) /\ Status(p) = "PREPARED" /\ LiveLease(p)
  <2>1. SetStatus(p, "SEND_ALLOWED") /\ Goto(p, "begin")
    BY <1>4 DEF AllowSend
  <2> QED BY <1>3, <1>4, <2>1 DEF Statuses, Sendable
<1>5. CASE AllowSend(p) /\ Status(p) = "PREPARED" /\ ~LiveLease(p)
  <2>1. SetStatus(p, "FENCED") /\ Goto(p, "failed")
    BY <1>5 DEF AllowSend
  <2> QED BY <1>3, <1>5, <2>1 DEF Statuses
<1>6. CASE DomFails(p) \/ (AllowSend(p) /\ Status(p) # "PREPARED")
  <2>1. UNCHANGED intent
    BY <1>6 DEF AllowSend, DomFails
  <2>2. PICK to \in {"begin", "failed"} : Goto(p, to)
    BY <1>6 DEF AllowSend, DomFails
  <2>3. PICK s \in Statuses : s = Status(p)
    BY <1>1, SameStatus
  <2>4. SetStatus(p, s)
    BY <1>1, <2>1, <2>3, SameStatus
  <2> QED BY <1>3, <2>2, <2>3, <2>4
<1> QED BY <1>4, <1>5, <1>6

LEMMA BeginPreserves ==
    ASSUME ReentryAssumption, RInv, NEW p \in Processes, BeginPhysicalSend(p)
    PROVE  RInv'
<1>1. AtWork(p) /\ call[p].pc = "begin"
  BY DEF BeginPhysicalSend, At, AtWork, FlowSteps
<1>2. UNCHANGED <<cursor, fences, lease, reentry, delivered>>
  BY DEF BeginPhysicalSend
<1>3. CASE Status(p) = "SEND_ALLOWED" /\ LiveLease(p)
  <2>1. SetStatus(p, "PHYSICAL_SEND_ATTEMPTED") /\ Goto(p, "send")
    BY <1>3 DEF BeginPhysicalSend
  <2>2. delivered[call[p].packet][call[p].token] = 0
    BY <1>1, <1>3, Shown DEF Sendable
  <2>3. /\ "PHYSICAL_SEND_ATTEMPTED" \in Statuses
        /\ "send" \in FlowSteps \cup {"failed", "done"}
    BY DEF Statuses, Unresolved, FlowSteps
  <2> QED BY <1>1, <1>2, <1>3, <2>1, <2>2, <2>3, FlowMove
<1>4. CASE Status(p) = "SEND_ALLOWED" /\ ~LiveLease(p)
  <2>1. SetStatus(p, "FENCED") /\ Goto(p, "failed")
    BY <1>4 DEF BeginPhysicalSend
  <2>2. /\ "FENCED" \in Statuses \ (Sendable \cup {"NONE"})
        /\ "failed" \in FlowSteps \cup {"failed", "done"}
    BY DEF Statuses, Sendable
  <2> QED BY <1>1, <1>2, <1>4, <2>1, <2>2, FlowMove
<1>5. CASE Status(p) # "SEND_ALLOWED"
  <2>1. UNCHANGED intent /\ Goto(p, "failed")
    BY <1>5 DEF BeginPhysicalSend
  <2>2. Status(p) \in Statuses /\ SetStatus(p, Status(p))
    BY <1>1, <2>1, SameStatus
  <2> QED BY <1>1, <1>2, <2>1, <2>2, Shown, FlowMove DEF FlowSteps
<1> QED BY <1>3, <1>4, <1>5

LEMMA AnswerPreserves ==
    ASSUME ReentryAssumption, RInv, NEW p \in Processes, Confirm(p) \/ MarkUncertain(p)
    PROVE  RInv'
<1>1. AtWork(p) /\ call[p].pc \in {"confirm", "doubt"}
  BY DEF Confirm, MarkUncertain, At, AtWork, FlowSteps
<1>2. UNCHANGED <<cursor, fences, lease, reentry, delivered>>
  BY DEF Confirm, MarkUncertain
<1>3. CASE Confirm(p) /\ Status(p) \in Unresolved
  <2>1. SetStatus(p, "SEND_CONFIRMED") /\ Goto(p, "complete")
    BY <1>3 DEF Confirm
  <2>2. delivered[call[p].packet][call[p].token] = 1
    BY <1>1, <1>3, Shown DEF KnowsStatus, Confirm, At
  <2>3. /\ "SEND_CONFIRMED" \in Statuses \ (Sendable \cup {"NONE"})
        /\ "complete" \in FlowSteps \cup {"failed", "done"}
        /\ "ACKNOWLEDGED" \notin Unresolved
    BY DEF Statuses, Sendable, Unresolved, FlowSteps
  <2> QED BY <1>1, <1>2, <1>3, <2>1, <2>2, <2>3, FlowMove
<1>4. CASE MarkUncertain(p) /\ Status(p) = "PHYSICAL_SEND_ATTEMPTED"
  <2>1. SetStatus(p, "UNCERTAIN") /\ Goto(p, "failed")
    BY <1>4 DEF MarkUncertain
  <2>2. /\ "UNCERTAIN" \in Statuses \ (Sendable \cup {"NONE"})
        /\ "failed" \in FlowSteps \cup {"failed", "done"}
    BY DEF Statuses, Sendable, Unresolved
  <2> QED BY <1>1, <1>2, <1>4, <2>1, <2>2, FlowMove
<1>5. CASE \/ Confirm(p) /\ Status(p) \notin Unresolved
           \/ MarkUncertain(p) /\ Status(p) # "PHYSICAL_SEND_ATTEMPTED"
  <2>1. UNCHANGED intent /\ Goto(p, "failed")
    BY <1>5 DEF Confirm, MarkUncertain
  <2>2. Status(p) \in Statuses /\ SetStatus(p, Status(p))
    BY <1>1, <2>1, SameStatus
  <2> QED BY <1>1, <1>2, <2>1, <2>2, Shown, FlowMove DEF FlowSteps
<1> QED BY <1>3, <1>4, <1>5

LEMMA AcknowledgePreserves ==
    ASSUME ReentryAssumption, RInv, NEW p \in Processes, Acknowledge(p)
    PROVE  RInv'
<1>1. AtWork(p) /\ call[p].pc = "ack"
  BY DEF Acknowledge, At, AtWork, FlowSteps
<1>2. UNCHANGED <<cursor, fences, lease, reentry, delivered>>
  BY DEF Acknowledge
<1>3. /\ Status(p) = "SEND_CONFIRMED"
      /\ lease[call[p].packet].status = "COMPLETED"
      /\ lease[call[p].packet].generation = call[p].token
      /\ delivered[call[p].packet][call[p].token] = 1
  BY <1>1, Shown DEF KnowsStatus
<1>4. SetStatus(p, "ACKNOWLEDGED") /\ Goto(p, "done")
  BY <1>3 DEF Acknowledge
<1> QED BY <1>1, <1>2, <1>3, <1>4, FlowMove DEF FlowSteps, Statuses, Sendable

LEMMA ClientPreserves ==
    ASSUME ReentryAssumption, RInv, NEW p \in Processes,
           Reconcile(p) \/ Cancel(p) \/ TryAgain(p)
    PROVE  RInv'
<1>1. AtWork(p) /\ call[p].pc \in {"failed", "done"}
  BY DEF Reconcile, Cancel, TryAgain, Holding, AtWork
<1>2. UNCHANGED <<cursor, fences, lease, reentry, delivered>>
  BY DEF Reconcile, Cancel, TryAgain
<1>3. call[p].pc = "done" => Status(p) = "ACKNOWLEDGED"
  BY <1>1, Shown DEF KnowsStatus
<1>4. CASE TryAgain(p)
  <2>1. Status(p) \in Statuses /\ SetStatus(p, Status(p))
    BY <1>1, <1>4, SameStatus DEF TryAgain
  <2>2. PICK to \in {"allow", "complete"} :
           Goto(p, to) /\ (to = "complete" => Status(p) = "SEND_CONFIRMED")
    BY <1>4 DEF TryAgain
  <2>3. to \in FlowSteps \cup {"failed", "done"}
    BY DEF FlowSteps
  <2> QED BY <1>1, <1>2, <2>1, <2>2, <2>3, Shown, FlowMove
<1>5. CASE Reconcile(p) \/ Cancel(p)
  <2>1. Status(p) \notin {"ACKNOWLEDGED", "SEND_CONFIRMED"} /\ call[p].pc = "failed"
    BY <1>1, <1>3, <1>5 DEF Reconcile, Cancel, Unresolved, Sendable
  <2>2. Goto(p, "failed")
    BY <1>5, <2>1, SameCall DEF Reconcile, Cancel
  <2>3. PICK s \in Statuses \ {"ACKNOWLEDGED", "NONE"} :
           /\ SetStatus(p, s)
           /\ s \in Sendable => ~(delivered[call[p].packet][call[p].token] > 0)
           /\ s = "SEND_CONFIRMED" => delivered[call[p].packet][call[p].token] > 0
    BY <1>5 DEF Reconcile, Cancel, Statuses, Sendable, Unresolved
  <2>4. delivered[call[p].packet][call[p].token] \in {0, 1}
    BY <1>1, Shown
  <2> QED BY <1>1, <1>2, <2>1, <2>2, <2>3, <2>4, FlowMove
<1> QED BY <1>4, <1>5

-----------------------------------------------------------------------------
(* Steps that leave the intents alone *)

OnlyMoves(p) == \A q \in Processes : q # p => call'[q] = call[q]
AcksConfirm ==
    \A c \in Packets : reentry'[c] = "REENTRY_CONFIRMED" =>
                         reentry[c] = "REENTRY_CONFIRMED" \/ Acked(c)
NewToken(p) ==
    call'[p].token # 0 =>
      \A q \in Processes : q # p =>
        ~(call[q].token = call'[p].token /\ call[q].packet = call'[p].packet)
TokenKept(p) ==
    \/ call'[p].token = 0
    \/ call'[p].token = call[p].token /\ call'[p].packet = call[p].packet
NoCompletion ==
    \A c \in Packets : lease'[c].status = "COMPLETED" => lease[c].status = "COMPLETED"

LEMMA CompletionsStay ==
    ASSUME RInv, LeasesGrow, NoCompletion, UNCHANGED <<intent, delivered>>
    PROVE  CompletedIsDelivered'
BY DEF RInv, LeasesGrow, NoCompletion, CompletedIsDelivered

LEMMA ProcessMove ==
    ASSUME ReentryAssumption, RInv, NEW p \in Processes,
           TypeOK', Bounded', LeasesGrow, AcksConfirm, UNCHANGED <<intent, delivered>>,
           OnlyMoves(p), NewToken(p), Knows(p)', CompletedIsDelivered'
    PROVE  RInv'
<1>1. OwnTokens'
  BY DEF RInv, OwnTokens, OnlyMoves, NewToken
<1>2. Unborn'
  <2> SUFFICES ASSUME NEW d \in Packets, NEW h \in Generations, h > lease'[d].generation
               PROVE  intent[d][h] = "NONE"
    BY DEF Unborn
  <2>1. lease[d].generation \in Nat /\ h \in Nat
    BY DEF RInv, TypeOK, LeaseRow, Generations, ReentryAssumption
  <2>2. lease'[d].generation \in {lease[d].generation, lease[d].generation + 1}
    BY DEF LeasesGrow
  <2>3. h > lease[d].generation
    BY <2>1, <2>2
  <2> QED BY <2>3 DEF RInv, Unborn
<1>3. StatusTells'
  BY DEF RInv, StatusTells
<1>4. \A c \in Packets : Acked(c)' <=> Acked(c)
  BY DEF Acked
<1>5. AcksStay
  BY <1>4 DEF AcksStay
<1>6. ASSUME NEW q \in Processes, q # p
      PROVE  Knows(q)'
  <2>1. call'[q] = call[q]
    BY <1>6 DEF OnlyMoves
  <2>2. IntentKept(q)
    BY <2>1 DEF IntentKept, Status
  <2> QED BY <1>5, <2>1, <2>2, OthersKeep
<1>7. ConfirmedIsAcked'
  BY <1>4 DEF RInv, ConfirmedIsAcked, AcksConfirm
<1>8. AckCompletesLease'
  BY DEF RInv, AckCompletesLease, LeasesGrow
<1> QED BY <1>1, <1>2, <1>3, <1>6, <1>7, <1>8 DEF RInv

LEMMA KeptTokenIsNew ==
    ASSUME RInv, NEW p \in Processes, TokenKept(p)
    PROVE  NewToken(p)
BY DEF RInv, OwnTokens, TokenKept, NewToken

LEMMA TransitionIsSafe ==
    ASSUME RInv, NEW c \in Packets,
           NEW from \in LivenessStates, NEW to \in LivenessStates,
           Transition(c, from, to), to = "REENTRY_CONFIRMED" => Acked(c)
    PROVE  reentry' \in [Packets -> LivenessStates] /\ AcksConfirm
<1>1. reentry \in [Packets -> LivenessStates]
  BY DEF RInv, TypeOK
<1>2. /\ reentry' \in [Packets -> LivenessStates]
      /\ \A d \in Packets : d # c \/ reentry[c] # from => reentry'[d] = reentry[d]
      /\ reentry[c] = from => reentry'[c] = to
  BY <1>1 DEF Transition
<1>3. AcksConfirm
  BY <1>2 DEF AcksConfirm
<1> QED BY <1>2, <1>3

LEMMA SameRow ==
    ASSUME RInv, UNCHANGED reentry
    PROVE  reentry' \in [Packets -> LivenessStates] /\ AcksConfirm
BY DEF RInv, TypeOK, AcksConfirm

(* A step of a call that writes the row at most. *)
LEMMA RowMove ==
    ASSUME ReentryAssumption, RInv, NEW p \in Processes,
           UNCHANGED <<cursor, fences, lease, intent, delivered>>,
           call' \in [Processes -> CallRecord], reentry' \in [Packets -> LivenessStates],
           AcksConfirm, OnlyMoves(p), TokenKept(p), Knows(p)'
    PROVE  RInv'
<1>1. TypeOK' /\ Bounded' /\ LeasesGrow /\ NoCompletion
  BY DEF RInv, TypeOK, Bounded, LeasesGrow, NoCompletion
<1> QED BY <1>1, KeptTokenIsNew, CompletionsStay, ProcessMove

(* A call that ends *)
LEMMA Finished ==
    ASSUME ReentryAssumption, RInv, NEW p \in Processes, Finish(p)
    PROVE  /\ call' \in [Processes -> CallRecord]
           /\ OnlyMoves(p) /\ TokenKept(p) /\ Knows(p)'
<1>1. Idle \in CallRecord
  BY DEF Idle, CallRecord, Steps, LivenessStates
<1>2. /\ call' \in [Processes -> CallRecord]
      /\ \A q \in Processes : q # p => call'[q] = call[q]
      /\ call'[p] = Idle
  BY <1>1 DEF RInv, TypeOK, Finish
<1>3. call'[p].pc = "idle" /\ call'[p].token = 0 /\ call'[p].into = "NONE"
  BY <1>2 DEF Idle
<1>4. ~AtWork(p)'
  BY <1>3 DEF AtWork, FlowSteps
<1>5. HasToken(p)'
  BY <1>3, <1>4 DEF HasToken
<1>6. KnowsStatus(p)'
  BY <1>3 DEF KnowsStatus
<1>7. NoEndYet(p)'
  BY <1>3, <1>4 DEF NoEndYet, FlowSteps
<1> QED BY <1>2, <1>3, <1>4, <1>5, <1>6, <1>7 DEF OnlyMoves, TokenKept, Knows

(* A step of a call says something about one packet. *)
LEMMA CallHasPacket ==
    ASSUME RInv, NEW p \in Processes, call[p].pc # "idle"
    PROVE  /\ call[p].packet \in Packets
           /\ call[p] \in CallRecord
           /\ Knows(p)
BY DEF RInv, Knows, HasToken, TypeOK

LEMMA CallsThatEnd ==
    ASSUME ReentryAssumption, RInv, NEW p \in Processes,
           Recover(p) \/ Checkpoint(p) \/ Settle(p) \/ Crash(p)
    PROVE  RInv'
<1>1. /\ Finish(p) /\ UNCHANGED <<cursor, fences, lease, intent, delivered>>
      /\ call[p].pc # "idle"
  BY DEF Recover, Checkpoint, Settle, Crash, At
<1>2. call[p].packet \in Packets /\ call[p] \in CallRecord /\ Knows(p)
  BY <1>1, CallHasPacket
<1>3. reentry' \in [Packets -> LivenessStates] /\ AcksConfirm
  <2>1. CASE Recover(p)
    <3>1. \/ UNCHANGED reentry
          \/ /\ Acked(call[p].packet)
             /\ Transition(call[p].packet, call[p].from, "REENTRY_CONFIRMED")
      BY <2>1 DEF Recover, Acked
    <3>2. call[p].from \in LivenessStates /\ "REENTRY_CONFIRMED" \in LivenessStates
      BY <1>2 DEF CallRecord, LivenessStates, Terminal
    <3>3. CASE UNCHANGED reentry
      BY <3>3, SameRow
    <3>4. CASE /\ Acked(call[p].packet)
               /\ Transition(call[p].packet, call[p].from, "REENTRY_CONFIRMED")
      BY <1>2, <3>2, <3>4, TransitionIsSafe
    <3> QED BY <3>1, <3>3, <3>4
  <2>2. CASE Checkpoint(p)
    BY <1>2, <2>2, TransitionIsSafe DEF Checkpoint, LivenessStates
  <2>3. CASE Settle(p)
    <3>1. call[p].into = "REENTRY_CONFIRMED" => Acked(call[p].packet)
      BY <1>2 DEF Knows, KnowsStatus
    <3> QED BY <1>2, <2>3, <3>1, TransitionIsSafe DEF Settle, CallRecord
  <2>4. CASE Crash(p)
    BY <2>4, SameRow DEF Crash
  <2> QED BY <2>1, <2>2, <2>3, <2>4
<1> QED BY <1>1, <1>3, Finished, RowMove

LEMMA NoChannelPreserves ==
    ASSUME ReentryAssumption, RInv, NEW p \in Processes, NoChannel(p)
    PROVE  RInv'
<1>1. /\ Goto(p, "checkpoint") /\ call[p].pc = "resolve"
      /\ UNCHANGED <<cursor, fences, lease, intent, delivered>>
  BY DEF NoChannel, At
<1>2. call[p].packet \in Packets /\ call[p] \in CallRecord /\ Knows(p)
  BY <1>1, CallHasPacket
<1>3. call[p].into = "NONE"
  BY <1>1, <1>2 DEF Knows, NoEndYet
<1>4. reentry' \in [Packets -> LivenessStates] /\ AcksConfirm
  <2>1. Transition(call[p].packet, call[p].from, "SESSION_UNAVAILABLE")
    BY DEF NoChannel
  <2>2. call[p].from \in LivenessStates /\ "SESSION_UNAVAILABLE" \in LivenessStates
    BY <1>2 DEF CallRecord, LivenessStates
  <2> QED BY <1>2, <2>1, <2>2, TransitionIsSafe
<1>5. /\ call' \in [Processes -> CallRecord]
      /\ OnlyMoves(p)
      /\ call'[p].pc = "checkpoint" /\ call'[p].packet = call[p].packet
      /\ call'[p].token = call[p].token /\ call'[p].into = "NONE"
  BY <1>1, <1>3, Moving DEF RInv, OnlyMoves, Steps
<1>6. ~AtWork(p)'
  BY <1>5 DEF AtWork, FlowSteps
<1>7. HasToken(p)'
  BY <1>1, <1>2, <1>5, <1>6 DEF Knows, HasToken
<1>8. KnowsStatus(p)' /\ NoEndYet(p)'
  BY <1>3, <1>5, <1>6 DEF KnowsStatus, NoEndYet
<1> QED BY <1>1, <1>4, <1>5, <1>6, <1>7, <1>8, RowMove DEF Knows, TokenKept

LEMMA StartPreserves ==
    ASSUME ReentryAssumption, RInv, NEW p \in Processes, NEW c \in Packets,
           StartReenter(p, c) \/ StartApproval(p, c)
    PROVE  RInv'
<1>1. p \in Controllers /\ UNCHANGED <<cursor, fences, lease, intent, delivered>>
  BY DEF StartReenter, StartApproval
<1>2. reentry' \in [Packets -> LivenessStates] /\ AcksConfirm
  <2>1. CASE StartApproval(p, c)
    BY <2>1, SameRow DEF StartApproval
  <2>2. CASE StartReenter(p, c) /\ reentry[c] # "NONE"
    <3>1. UNCHANGED reentry
      BY <2>2 DEF StartReenter, RInv, TypeOK
    <3> QED BY <3>1, SameRow
  <2>3. CASE StartReenter(p, c) /\ reentry[c] = "NONE"
    <3>1. Transition(c, "NONE", "CONTINUATION_PENDING")
      BY <2>3 DEF StartReenter, Transition
    <3> QED BY <3>1, TransitionIsSafe DEF LivenessStates
  <2> QED BY <2>1, <2>2, <2>3
<1>3. PICK r \in CallRecord :
         /\ call' = [call EXCEPT ![p] = r]
         /\ r.pc \in {"recover", "resolve", "approve"} /\ r.packet = c
         /\ r.token = 0 /\ r.into = "NONE"
  <2>1. CASE StartApproval(p, c)
    <3> DEFINE r == [Idle EXCEPT !.pc = "approve", !.packet = c]
    <3>1. r \in CallRecord /\ r.pc = "approve" /\ r.packet = c /\ r.token = 0 /\ r.into = "NONE"
      BY DEF Idle, CallRecord, Steps, LivenessStates
    <3> QED BY <2>1, <3>1 DEF StartApproval
  <2>2. CASE StartReenter(p, c)
    <3>1. PICK state : state = IF reentry[c] = "NONE" THEN "CONTINUATION_PENDING" ELSE reentry[c]
      OBVIOUS
    <3>2. /\ state \in LivenessStates
          /\ state \in Underway \cup {"CONTINUATION_PENDING", "SESSION_UNAVAILABLE"}
      BY <2>2, <3>1 DEF StartReenter, LivenessStates
    <3> DEFINE r == [Idle EXCEPT !.pc = IF state \in Underway THEN "recover" ELSE "resolve",
                                 !.packet = c, !.from = state]
    <3>3. /\ r \in CallRecord /\ r.pc \in {"recover", "resolve"} /\ r.packet = c
          /\ r.token = 0 /\ r.into = "NONE"
      BY <3>2 DEF Idle, CallRecord, Steps, LivenessStates
    <3>4. call' = [call EXCEPT ![p] = r]
      BY <2>2, <3>1 DEF StartReenter
    <3> QED BY <3>2, <3>3, <3>4
  <2> QED BY <2>1, <2>2
<1>4. /\ call' \in [Processes -> CallRecord] /\ OnlyMoves(p) /\ call'[p] = r
  BY <1>3 DEF RInv, TypeOK, OnlyMoves
<1>5. ~AtWork(p)'
  BY <1>3, <1>4 DEF AtWork, FlowSteps
<1>6. HasToken(p)' /\ KnowsStatus(p)'
  BY <1>3, <1>4, <1>5 DEF HasToken, KnowsStatus
<1>7. NoEndYet(p)'
  BY <1>3, <1>4 DEF NoEndYet
<1> QED BY <1>1, <1>2, <1>3, <1>4, <1>5, <1>6, <1>7, RowMove DEF Knows, TokenKept

(* The other ways a step rewrites a call *)
Rewrites(p, to, from, into) ==
    call' = [call EXCEPT ![p] = [call[p] EXCEPT !.pc = to, !.from = from, !.into = into]]

LEMMA Rewriting ==
    ASSUME TypeOK, NEW p \in Processes, NEW to \in Steps,
           NEW from \in LivenessStates, NEW into \in LivenessStates,
           Rewrites(p, to, from, into)
    PROVE  /\ call' \in [Processes -> CallRecord]
           /\ OnlyMoves(p)
           /\ call'[p].pc = to /\ call'[p].packet = call[p].packet
           /\ call'[p].token = call[p].token /\ call'[p].from = from
           /\ call'[p].into = into
<1>1. call \in [Processes -> CallRecord] /\ call[p] \in CallRecord
  BY DEF TypeOK
<1>2. PICK r : r = [call[p] EXCEPT !.pc = to, !.from = from, !.into = into]
  OBVIOUS
<1>3. /\ r \in CallRecord /\ r.pc = to /\ r.packet = call[p].packet
      /\ r.token = call[p].token /\ r.from = from /\ r.into = into
  BY <1>1, <1>2 DEF CallRecord
<1>4. call' = [call EXCEPT ![p] = r]
  BY <1>2 DEF Rewrites
<1> QED BY <1>1, <1>3, <1>4 DEF OnlyMoves

LEMMA ApprovalPreserves ==
    ASSUME ReentryAssumption, RInv, NEW p \in Processes, Reopen(p) \/ ReopenConflict(p)
    PROVE  RInv'
<1>1. call[p].pc = "approve" /\ UNCHANGED <<cursor, fences, lease, intent, delivered>>
  BY DEF Reopen, ReopenConflict, At
<1>2. call[p].packet \in Packets /\ call[p] \in CallRecord /\ Knows(p)
  BY <1>1, CallHasPacket
<1>3. call[p].into = "NONE"
  BY <1>1, <1>2 DEF Knows, NoEndYet
<1>4. reentry' \in [Packets -> LivenessStates] /\ AcksConfirm
  <2>1. CASE Reopen(p)
    BY <1>2, <2>1, TransitionIsSafe DEF Reopen, LivenessStates
  <2>2. CASE ReopenConflict(p)
    BY <2>2, SameRow DEF ReopenConflict
  <2> QED BY <2>1, <2>2
<1>5. CASE Reopen(p) /\ reentry'[call[p].packet] # "CONTINUATION_PENDING"
  <2>1. Finish(p)
    BY <1>5 DEF Reopen
  <2> QED BY <1>1, <1>4, <2>1, Finished, RowMove
<1>6. ASSUME NEW pc \in {"claim", "settle"},
             NEW from \in {"CONTINUATION_PENDING", "OPERATOR_CHECKPOINT"},
             NEW into \in {"NONE", "REENTRY_BLOCKED"},
             call' \in [Processes -> CallRecord], OnlyMoves(p),
             call'[p].pc = pc, call'[p].from = from, call'[p].into = into,
             call'[p].packet = call[p].packet, call'[p].token = call[p].token,
             pc = "claim" => from = "CONTINUATION_PENDING" /\ into = "NONE"
      PROVE  RInv'
  <2>1. ~AtWork(p)'
    BY <1>6 DEF AtWork, FlowSteps
  <2>2. HasToken(p)'
    BY <1>1, <1>2, <1>6, <2>1 DEF Knows, HasToken
  <2>3. KnowsStatus(p)'
    BY <1>6 DEF KnowsStatus
  <2>4. NoEndYet(p)'
    BY <1>6 DEF NoEndYet
  <2> QED BY <1>1, <1>4, <1>6, <2>1, <2>2, <2>3, <2>4, RowMove DEF Knows, TokenKept
<1>7. CASE Reopen(p) /\ reentry'[call[p].packet] = "CONTINUATION_PENDING"
  <2>1. call' = [call EXCEPT ![p].pc = "claim", ![p].from = "CONTINUATION_PENDING"]
    BY <1>7 DEF Reopen
  <2>2. /\ call' \in [Processes -> CallRecord] /\ OnlyMoves(p)
        /\ call'[p].pc = "claim" /\ call'[p].from = "CONTINUATION_PENDING"
        /\ call'[p].into = "NONE"
        /\ call'[p].packet = call[p].packet /\ call'[p].token = call[p].token
    <3>1. PICK r : r = [call[p] EXCEPT !.pc = "claim", !.from = "CONTINUATION_PENDING"]
      OBVIOUS
    <3>2. r = [call[p] EXCEPT !.pc = "claim", !.from = "CONTINUATION_PENDING", !.into = "NONE"]
      BY <1>2, <1>3, <3>1 DEF CallRecord
    <3>3. call' = [call EXCEPT ![p] = r]
      BY <2>1, <3>1
    <3>4. /\ "claim" \in Steps
          /\ "CONTINUATION_PENDING" \in LivenessStates /\ "NONE" \in LivenessStates
      BY DEF Steps, LivenessStates
    <3>5. Rewrites(p, "claim", "CONTINUATION_PENDING", "NONE")
      BY <3>2, <3>3 DEF Rewrites
    <3> QED BY <3>4, <3>5, Rewriting DEF RInv
  <2> QED BY <1>6, <2>2
<1>8. CASE ReopenConflict(p)
  <2>1. call' = [call EXCEPT ![p].pc = "settle", ![p].from = "OPERATOR_CHECKPOINT",
                             ![p].into = "REENTRY_BLOCKED"]
    BY <1>8 DEF ReopenConflict
  <2>2. /\ call' \in [Processes -> CallRecord] /\ OnlyMoves(p)
        /\ call'[p].pc = "settle" /\ call'[p].from = "OPERATOR_CHECKPOINT"
        /\ call'[p].into = "REENTRY_BLOCKED"
        /\ call'[p].packet = call[p].packet /\ call'[p].token = call[p].token
    <3>1. PICK r : r = [call[p] EXCEPT !.pc = "settle", !.from = "OPERATOR_CHECKPOINT",
                                       !.into = "REENTRY_BLOCKED"]
      OBVIOUS
    <3>3. call' = [call EXCEPT ![p] = r]
      BY <2>1, <3>1
    <3>4. /\ "settle" \in Steps /\ "OPERATOR_CHECKPOINT" \in LivenessStates
          /\ "REENTRY_BLOCKED" \in LivenessStates
      BY DEF Steps, LivenessStates, Terminal
    <3>5. Rewrites(p, "settle", "OPERATOR_CHECKPOINT", "REENTRY_BLOCKED")
      BY <3>1, <3>3 DEF Rewrites
    <3> QED BY <3>4, <3>5, Rewriting DEF RInv
  <2> QED BY <1>6, <2>2
<1> QED BY <1>5, <1>7, <1>8

(* The calls that go to their last transition, or give the lease back *)
LEMMA EndingPreserves ==
    ASSUME ReentryAssumption, RInv, NEW p \in Processes,
           PacketStale(p) \/ ClaimRefused(p) \/ RowConflict(p) \/ FlowRaises(p) \/ FlowEnds(p)
    PROVE  RInv'
<1>1. /\ UNCHANGED <<cursor, fences, lease, intent, reentry, delivered>>
      /\ call[p].pc \in {"resolve", "claim", "row", "allow", "failed", "done"}
  BY DEF PacketStale, ClaimRefused, RowConflict, FlowRaises, FlowEnds, At
<1>2. call[p].packet \in Packets /\ call[p] \in CallRecord /\ Knows(p)
  BY <1>1, CallHasPacket
<1>3. reentry' \in [Packets -> LivenessStates] /\ AcksConfirm
  BY <1>1, SameRow
<1>4. PICK to \in {"release", "settle"},
           into \in {"REENTRY_BLOCKED", "REENTRY_FAILED", "REENTRY_CONFIRMED"} :
         /\ call' = [call EXCEPT ![p].pc = to, ![p].into = into]
         /\ into = "REENTRY_CONFIRMED" => call[p].pc = "done"
  BY DEF PacketStale, ClaimRefused, RowConflict, FlowRaises, FlowEnds, At
<1>5. /\ call' \in [Processes -> CallRecord] /\ OnlyMoves(p)
      /\ call'[p].pc = to /\ call'[p].into = into
      /\ call'[p].packet = call[p].packet /\ call'[p].token = call[p].token
      /\ call'[p].from = call[p].from
  <2>1. to \in Steps /\ into \in LivenessStates
    BY DEF Steps, LivenessStates, Terminal
  <2>2. PICK from \in LivenessStates : from = call[p].from
    BY <1>2 DEF CallRecord
  <2>3. PICK r : r = [call[p] EXCEPT !.pc = to, !.into = into]
    OBVIOUS
  <2>4. r = [call[p] EXCEPT !.pc = to, !.from = from, !.into = into]
    BY <1>2, <2>2, <2>3 DEF CallRecord
  <2>5. call' = [call EXCEPT ![p] = r]
    BY <1>4, <2>3
  <2>6. Rewrites(p, to, from, into)
    BY <2>4, <2>5 DEF Rewrites
  <2> QED BY <2>1, <2>2, <2>6, Rewriting DEF RInv
<1>6. HasToken(p)'
  BY <1>1, <1>2, <1>5 DEF Knows, HasToken, AtWork, FlowSteps
<1>7. KnowsStatus(p)'
  <2>1. into = "REENTRY_CONFIRMED" => Acked(call[p].packet)'
    <3> SUFFICES ASSUME into = "REENTRY_CONFIRMED"
                 PROVE  Acked(call[p].packet)'
      OBVIOUS
    <3>1. AtWork(p) /\ Status(p) = "ACKNOWLEDGED"
      BY <1>2, <1>4 DEF Knows, KnowsStatus, AtWork
    <3>2. call[p].token \in Generations
      BY <3>1, AtWorkHolds
    <3>3. Acked(call[p].packet)
      BY <3>1, <3>2 DEF Acked, Status
    <3> QED BY <1>1, <1>5, <3>3 DEF Acked
  <2> QED BY <1>4, <1>5, <2>1 DEF KnowsStatus
<1>8. NoEndYet(p)'
  BY <1>4, <1>5 DEF NoEndYet
<1> QED BY <1>1, <1>3, <1>5, <1>6, <1>7, <1>8, RowMove DEF Knows, TokenKept

LEMMA RowPreparedPreserves ==
    ASSUME ReentryAssumption, RInv, NEW p \in Processes, RowPrepared(p)
    PROVE  RInv'
<1>1. call[p].pc = "row" /\ UNCHANGED <<cursor, fences, lease, intent, delivered>>
  BY DEF RowPrepared, At
<1>2. call[p].packet \in Packets /\ call[p] \in CallRecord /\ Knows(p)
  BY <1>1, CallHasPacket
<1>3. call[p].into = "NONE"
  BY <1>1, <1>2 DEF Knows, NoEndYet
<1>4. reentry' \in [Packets -> LivenessStates] /\ AcksConfirm
  BY <1>2, TransitionIsSafe DEF RowPrepared, LivenessStates, Underway, CallRecord
<1>5. PICK to \in {"start", "release"} : Goto(p, to)
  BY DEF RowPrepared
<1>6. /\ call' \in [Processes -> CallRecord] /\ OnlyMoves(p)
      /\ call'[p].pc = to /\ call'[p].packet = call[p].packet
      /\ call'[p].token = call[p].token /\ call'[p].into = "NONE"
  BY <1>3, <1>5, Moving DEF RInv, OnlyMoves, Steps
<1>7. HasToken(p)'
  BY <1>1, <1>2, <1>6 DEF Knows, HasToken
<1>8. KnowsStatus(p)'
  <2>1. Status(p)' = "NONE"
    BY <1>1, <1>2, <1>6 DEF Knows, KnowsStatus, Status
  <2> QED BY <1>6, <2>1 DEF KnowsStatus
<1>9. NoEndYet(p)'
  BY <1>6 DEF NoEndYet
<1> QED BY <1>1, <1>4, <1>6, <1>7, <1>8, <1>9, RowMove DEF Knows, TokenKept

LEMMA RowStartedPreserves ==
    ASSUME ReentryAssumption, RInv, NEW p \in Processes, RowStarted(p)
    PROVE  RInv'
<1>1. call[p].pc = "start" /\ UNCHANGED <<cursor, fences, lease, intent, delivered>>
  BY DEF RowStarted, At
<1>2. call[p].packet \in Packets /\ call[p] \in CallRecord /\ Knows(p)
  BY <1>1, CallHasPacket
<1>3. call[p].into = "NONE"
  BY <1>1, <1>2 DEF Knows, NoEndYet
<1>4. reentry' \in [Packets -> LivenessStates] /\ AcksConfirm
  BY <1>2, TransitionIsSafe DEF RowStarted, LivenessStates, Underway
<1>5. PICK to \in {"prepare", "release"}, from \in LivenessStates :
         call' = [call EXCEPT ![p].pc = to, ![p].from = from]
  <2>1. CASE reentry'[call[p].packet] = "REENTRY_IN_PROGRESS"
    BY <2>1 DEF RowStarted, LivenessStates, Underway
  <2>2. CASE reentry'[call[p].packet] # "REENTRY_IN_PROGRESS"
    <3>1. Goto(p, "release")
      BY <2>2 DEF RowStarted
    <3>2. call' = [call EXCEPT ![p].pc = "release", ![p].from = call[p].from]
      BY <3>1 DEF Goto, RInv, TypeOK, CallRecord
    <3>3. call[p].from \in LivenessStates
      BY <1>2 DEF CallRecord
    <3> QED BY <3>2, <3>3
  <2> QED BY <2>1, <2>2
<1>6. /\ call' \in [Processes -> CallRecord] /\ OnlyMoves(p)
      /\ call'[p].pc = to /\ call'[p].packet = call[p].packet
      /\ call'[p].token = call[p].token /\ call'[p].into = "NONE"
  <2>1. to \in Steps
    BY DEF Steps, FlowSteps
  <2>2. PICK into \in LivenessStates : into = call[p].into
    BY <1>3 DEF LivenessStates
  <2>3. PICK r : r = [call[p] EXCEPT !.pc = to, !.from = from]
    OBVIOUS
  <2>4. r = [call[p] EXCEPT !.pc = to, !.from = from, !.into = into]
    BY <1>2, <2>2, <2>3 DEF CallRecord
  <2>5. call' = [call EXCEPT ![p] = r]
    BY <1>5, <2>3
  <2>6. Rewrites(p, to, from, into)
    BY <2>4, <2>5 DEF Rewrites
  <2> QED BY <1>3, <2>1, <2>2, <2>6, Rewriting DEF RInv
<1>7. HasToken(p)'
  BY <1>1, <1>2, <1>6 DEF Knows, HasToken, AtWork
<1>8. KnowsStatus(p)'
  <2>1. Status(p)' = "NONE"
    BY <1>1, <1>2, <1>6 DEF Knows, KnowsStatus, Status
  <2> QED BY <1>6, <2>1 DEF KnowsStatus
<1>9. NoEndYet(p)'
  BY <1>6 DEF NoEndYet
<1> QED BY <1>1, <1>4, <1>6, <1>7, <1>8, <1>9, RowMove DEF Knows, TokenKept

-----------------------------------------------------------------------------
(* Steps on the lease *)

LEMMA CompletePreserves ==
    ASSUME ReentryAssumption, RInv, NEW p \in Processes, Complete(p)
    PROVE  RInv'
<1>1. /\ call[p].pc = "complete" /\ AtWork(p)
      /\ UNCHANGED <<cursor, fences, intent, reentry, delivered>>
  BY DEF Complete, At, AtWork, FlowSteps
<1>2. call[p].packet \in Packets /\ call[p] \in CallRecord /\ Knows(p)
  BY <1>1, CallHasPacket
<1>3. PICK c \in Packets : c = call[p].packet
  BY <1>2
<1>4. PICK n \in Nat : n = call[p].token
  BY <1>2 DEF CallRecord
<1> DEFINE Completes ==
      \/ HoldsLease(p)
      \/ lease[c].status = "COMPLETED" /\ lease[c].generation = n
<1>5. PICK to \in {"ack", "failed"} :
         /\ Goto(p, to)
         /\ to = "ack" => Completes
  <2>1. CASE Completes
    <3>1. Goto(p, "ack")
      BY <1>3, <1>4, <2>1 DEF Complete
    <3> HIDE DEF Completes
    <3> QED BY <2>1, <3>1
  <2>2. CASE ~Completes
    <3>1. Goto(p, "failed")
      BY <1>3, <1>4, <2>2 DEF Complete
    <3> QED BY <3>1
  <2> QED BY <2>1, <2>2
<1>6. /\ lease' \in [Packets -> LeaseRow]
      /\ \A d \in Packets : lease'[d].generation = lease[d].generation
      /\ \A d \in Packets : lease'[d].status = lease[d].status \/ lease'[d].status = "COMPLETED"
      /\ to = "ack" => lease'[c].status = "COMPLETED" /\ lease[c].generation = n
  <2>1. lease \in [Packets -> LeaseRow]
    BY DEF RInv, TypeOK
  <2>2. CASE HoldsLease(p)
    <3>1. lease' = [lease EXCEPT ![c].status = "COMPLETED"]
      BY <1>3, <2>2 DEF Complete
    <3>2. lease[c].generation = n
      BY <1>3, <1>4, <2>2 DEF HoldsLease
    <3> QED BY <2>1, <3>1, <3>2 DEF LeaseRow, LeaseStates
  <2>3. CASE ~HoldsLease(p)
    BY <1>5, <2>1, <2>3 DEF Complete
  <2> QED BY <2>2, <2>3
<1>7. TypeOK' /\ Bounded' /\ LeasesGrow
  <2>1. call' \in [Processes -> CallRecord]
    BY <1>5, Moving DEF RInv, Steps, FlowSteps
  <2> QED BY <1>1, <1>6, <2>1 DEF RInv, TypeOK, Bounded, LeasesGrow
<1>8. /\ OnlyMoves(p)
      /\ call'[p].pc = to /\ call'[p].packet = c /\ call'[p].token = n
      /\ call'[p].into = call[p].into /\ call'[p].from = call[p].from
  BY <1>3, <1>4, <1>5, Moving DEF RInv, OnlyMoves, Steps, FlowSteps
<1>9. NewToken(p)
  BY <1>3, <1>4, <1>8, KeptTokenIsNew DEF TokenKept
<1>10. CompletedIsDelivered'
  <2>1. /\ n \in Generations /\ delivered[c][n] = 1 /\ intent[c][n] = "SEND_CONFIRMED"
    BY <1>1, <1>2, <1>3, <1>4, AtWorkHolds DEF RInv, StatusTells, Knows, KnowsStatus, Status
  <2>2. ASSUME NEW d \in Packets, lease'[d].status = "COMPLETED"
        PROVE  \/ lease[d].status = "COMPLETED"
               \/ d = c /\ lease[c].generation = n
    <3>1. lease[d].status # "COMPLETED" => HoldsLease(p) /\ d = c
      BY <1>3, <2>2 DEF Complete, RInv, TypeOK
    <3> QED BY <1>3, <1>4, <3>1 DEF HoldsLease
  <2> QED BY <1>1, <1>6, <2>1, <2>2 DEF RInv, CompletedIsDelivered
<1>11. AcksConfirm
  BY <1>1, SameRow
<1>12. HasToken(p)'
  BY <1>1, <1>2, <1>3, <1>4, <1>6, <1>8 DEF Knows, HasToken
<1>13. KnowsStatus(p)'
  <2>1. Status(p)' = "SEND_CONFIRMED"
    BY <1>1, <1>2, <1>3, <1>4, <1>8 DEF Knows, KnowsStatus, Status
  <2>2. call[p].into = "NONE"
    BY <1>1, <1>2 DEF Knows, NoEndYet
  <2> QED BY <1>6, <1>8, <2>1, <2>2 DEF KnowsStatus
<1>14. NoEndYet(p)'
  BY <1>1, <1>2, <1>8 DEF Knows, NoEndYet
<1> QED BY <1>1, <1>7, <1>8, <1>9, <1>10, <1>11, <1>12, <1>13, <1>14, ProcessMove DEF Knows

(* A lease that is held takes another status. *)
LEMMA HeldLease ==
    ASSUME ReentryAssumption, RInv, NEW p \in Processes, call[p].packet \in Packets,
           NEW status \in {"AVAILABLE", "ABANDONED"},
           \/ UNCHANGED lease
           \/ HoldsLease(p) /\ lease' = [lease EXCEPT ![call[p].packet].status = status]
    PROVE  lease' \in [Packets -> LeaseRow] /\ Bounded' /\ LeasesGrow /\ NoCompletion
           /\ \A d \in Packets : lease'[d].generation = lease[d].generation
<1>1. lease \in [Packets -> LeaseRow]
  BY DEF RInv, TypeOK
<1>2. /\ lease' \in [Packets -> LeaseRow]
      /\ \A d \in Packets : lease'[d].generation = lease[d].generation
      /\ \A d \in Packets : lease'[d].status = lease[d].status \/ lease[d].status = "CLAIMED"
      /\ NoCompletion
  <2>1. CASE UNCHANGED lease
    BY <1>1, <2>1 DEF NoCompletion
  <2>2. CASE HoldsLease(p) /\ lease' = [lease EXCEPT ![call[p].packet].status = status]
    <3>1. lease[call[p].packet].status = "CLAIMED"
      BY <2>2 DEF HoldsLease
    <3> QED BY <1>1, <2>2, <3>1 DEF LeaseRow, LeaseStates, NoCompletion
  <2> QED BY <2>1, <2>2
<1> QED BY <1>2 DEF RInv, Bounded, LeasesGrow

LEMMA EndLeasePreserves ==
    ASSUME ReentryAssumption, RInv, NEW p \in Processes,
           NEW status \in {"AVAILABLE", "ABANDONED"}, EndLease(p, status)
    PROVE  RInv'
<1>1. /\ call[p].pc # "idle" /\ Finish(p) /\ HoldsLease(p)
      /\ UNCHANGED <<cursor, fences, intent, reentry, delivered>>
      /\ lease' = [lease EXCEPT ![call[p].packet].status = status]
  BY DEF EndLease
<1>2. call[p].packet \in Packets
  BY <1>1, CallHasPacket
<1>3. lease' \in [Packets -> LeaseRow] /\ Bounded' /\ LeasesGrow /\ NoCompletion
  BY <1>1, <1>2, HeldLease
<1>4. /\ call' \in [Processes -> CallRecord]
      /\ OnlyMoves(p) /\ TokenKept(p) /\ Knows(p)'
  BY <1>1, Finished
<1>5. TypeOK'
  BY <1>1, <1>3, <1>4 DEF RInv, TypeOK
<1> QED BY <1>1, <1>3, <1>4, <1>5, KeptTokenIsNew, SameRow, CompletionsStay, ProcessMove

LEMMA ReleasePreserves ==
    ASSUME ReentryAssumption, RInv, NEW p \in Processes, Release(p)
    PROVE  RInv'
<1>1. call[p].pc = "release" /\ UNCHANGED <<cursor, fences, intent, reentry, delivered>>
  BY DEF Release, At
<1>2. call[p].packet \in Packets /\ call[p] \in CallRecord /\ Knows(p)
  BY <1>1, CallHasPacket
<1>3. /\ lease' \in [Packets -> LeaseRow] /\ Bounded' /\ LeasesGrow /\ NoCompletion
      /\ \A d \in Packets : lease'[d].generation = lease[d].generation
  <2>1. \/ UNCHANGED lease
        \/ HoldsLease(p) /\ lease' = [lease EXCEPT ![call[p].packet].status = "AVAILABLE"]
    BY DEF Release
  <2> QED BY <1>2, <2>1, HeldLease
<1>4. AcksConfirm
  BY <1>1, SameRow
<1>5. CASE call[p].into = "NONE"
  <2>1. /\ call' \in [Processes -> CallRecord]
        /\ OnlyMoves(p) /\ TokenKept(p) /\ Knows(p)'
    BY <1>5, Finished DEF Release
  <2>2. TypeOK'
    BY <1>1, <1>3, <2>1 DEF RInv, TypeOK
  <2> QED BY <1>1, <1>3, <1>4, <2>1, <2>2, KeptTokenIsNew, CompletionsStay, ProcessMove
<1>6. CASE call[p].into # "NONE"
  <2>1. Goto(p, "settle")
    BY <1>6 DEF Release
  <2>2. /\ call' \in [Processes -> CallRecord] /\ OnlyMoves(p)
        /\ call'[p].pc = "settle" /\ call'[p].packet = call[p].packet
        /\ call'[p].token = call[p].token /\ call'[p].into = call[p].into
        /\ call'[p].from = call[p].from
    BY <2>1, Moving DEF RInv, OnlyMoves, Steps
  <2>3. TypeOK'
    BY <1>1, <1>3, <2>2 DEF RInv, TypeOK
  <2>4. ~AtWork(p)'
    BY <2>2 DEF AtWork, FlowSteps
  <2>6. HasToken(p)'
    BY <1>1, <1>2, <1>3, <2>2, <2>4 DEF Knows, HasToken
  <2>7. KnowsStatus(p)'
    BY <1>1, <1>2, <2>2 DEF Knows, KnowsStatus, Acked
  <2>8. NoEndYet(p)'
    BY <2>2 DEF NoEndYet
  <2> QED BY <1>1, <1>3, <1>4, <2>2, <2>3, <2>6, <2>7, <2>8, KeptTokenIsNew, CompletionsStay,
             ProcessMove DEF Knows, TokenKept
<1> QED BY <1>5, <1>6

(* A claim: the generation after the last one, whose token nobody has and  *)
(* whose intent is not there yet.                                          *)
LEMMA Claiming ==
    ASSUME ReentryAssumption, RInv, NEW p \in Processes, NEW c \in Packets,
           lease[c].status # "COMPLETED", lease[c].generation < MaxGeneration,
           NEW direct \in SUBSET Nat, lease' = [lease EXCEPT ![c] = Claimed(@, direct)],
           UNCHANGED <<intent, delivered>>,
           call'[p].packet = c, call'[p].token = lease[c].generation + 1
    PROVE  /\ lease' \in [Packets -> LeaseRow] /\ Bounded' /\ LeasesGrow /\ NewToken(p)
           /\ CompletedIsDelivered'
           /\ HasToken(p)' /\ Status(p)' = "NONE"
<1>1. lease \in [Packets -> LeaseRow] /\ lease[c].generation \in Nat
  BY DEF RInv, TypeOK, LeaseRow
<1>2. lease[c].generation + 1 \in Generations
  BY <1>1 DEF Generations, ReentryAssumption
<1>3. /\ lease' \in [Packets -> LeaseRow]
      /\ \A d \in Packets : d # c => lease'[d] = lease[d]
      /\ lease'[c].generation = lease[c].generation + 1 /\ lease'[c].status = "CLAIMED"
  BY <1>1 DEF Claimed, LeaseRow, LeaseStates
<1>4. Bounded'
  BY <1>1, <1>3 DEF RInv, Bounded, ReentryAssumption
<1>5. LeasesGrow
  BY <1>3 DEF LeasesGrow
<1>6. NewToken(p)
  <2> SUFFICES ASSUME NEW q \in Processes, call[q].token = lease[c].generation + 1,
                      call[q].packet = c
               PROVE  FALSE
    BY DEF NewToken
  <2>1. call[q].token # 0 => call[q].token <= lease[c].generation
    BY DEF RInv, Knows, HasToken
  <2> QED BY <1>1, <2>1
<1>7. HasToken(p)'
  BY <1>1, <1>3 DEF HasToken
<1>8. intent[c][lease[c].generation + 1] = "NONE"
  BY <1>1, <1>2 DEF RInv, Unborn
<1>9. CompletedIsDelivered'
  BY <1>3, <1>5, CompletionsStay DEF NoCompletion
<1> QED BY <1>3, <1>4, <1>5, <1>6, <1>7, <1>8, <1>9 DEF Status

LEMMA ClaimLeasePreserves ==
    ASSUME ReentryAssumption, RInv, NEW p \in Processes, ClaimLease(p)
    PROVE  RInv'
<1>1. /\ call[p].pc \in {"resolve", "claim"}
      /\ UNCHANGED <<cursor, fences, intent, reentry, delivered>>
  BY DEF ClaimLease
<1>2. call[p].packet \in Packets /\ call[p] \in CallRecord /\ Knows(p)
  BY <1>1, CallHasPacket
<1>3. PICK c \in Packets : c = call[p].packet
  BY <1>2
<1>4. /\ lease[c].status # "COMPLETED" /\ lease[c].generation < MaxGeneration
      /\ lease' = [lease EXCEPT ![c] = Claimed(@, lease[c].direct)]
      /\ call' = [call EXCEPT ![p].pc = "row", ![p].token = lease[c].generation + 1]
  BY <1>3 DEF ClaimLease, CanClaim
<1>5. PICK n \in Nat : n = lease[c].generation + 1
  BY DEF RInv, TypeOK, LeaseRow
<1>6. PICK r : r = [call[p] EXCEPT !.pc = "row", !.token = n]
  OBVIOUS
<1>7. /\ r \in CallRecord /\ r.pc = "row" /\ r.packet = c /\ r.token = n
      /\ r.from = call[p].from /\ r.into = call[p].into
  <2>1. "row" \in Steps
    BY DEF Steps
  <2> QED BY <1>2, <1>3, <1>6, <2>1 DEF CallRecord
<1>8. call' = [call EXCEPT ![p] = r]
  BY <1>4, <1>5, <1>6
<1>9. call' \in [Processes -> CallRecord] /\ OnlyMoves(p) /\ call'[p] = r
  BY <1>7, <1>8 DEF RInv, TypeOK, OnlyMoves
<1>10. /\ lease' \in [Packets -> LeaseRow] /\ Bounded' /\ LeasesGrow /\ NewToken(p)
       /\ CompletedIsDelivered' /\ HasToken(p)' /\ Status(p)' = "NONE"
  <2>1. lease[c].direct \in SUBSET Nat
    BY DEF RInv, TypeOK, LeaseRow
  <2> QED BY <1>1, <1>4, <1>5, <1>7, <1>9, <2>1, Claiming
<1>11. TypeOK'
  BY <1>1, <1>9, <1>10 DEF RInv, TypeOK
<1>12. ~AtWork(p)'
  BY <1>7, <1>9 DEF AtWork, FlowSteps
<1>13. call[p].into = "NONE"
  BY <1>1, <1>2 DEF Knows, NoEndYet
<1>14. KnowsStatus(p)'
  BY <1>7, <1>9, <1>10, <1>13 DEF KnowsStatus
<1>15. NoEndYet(p)'
  BY <1>7, <1>9, <1>13 DEF NoEndYet
<1> QED BY <1>1, <1>9, <1>10, <1>11, <1>12, <1>14, <1>15, SameRow, ProcessMove
           DEF Knows

LEMMA StartClientPreserves ==
    ASSUME ReentryAssumption, RInv, NEW p \in Processes, NEW c \in Packets, StartClient(p, c)
    PROVE  RInv'
<1>1. /\ p \in Clients /\ p \notin Controllers
      /\ UNCHANGED <<cursor, fences, intent, reentry, delivered>>
      /\ lease[c].status # "COMPLETED" /\ lease[c].generation < MaxGeneration
      /\ lease' = [lease EXCEPT ![c] =
                     Claimed(@, lease[c].direct \cup {lease[c].generation + 1})]
  BY DEF StartClient, ReentryAssumption
<1>2. PICK n \in Nat : n = lease[c].generation + 1
  BY DEF RInv, TypeOK, LeaseRow
<1>3. PICK r : r = [Idle EXCEPT !.pc = "prepare", !.packet = c, !.token = n]
  OBVIOUS
<1>4. /\ r \in CallRecord /\ r.pc = "prepare" /\ r.packet = c /\ r.token = n
      /\ r.into = "NONE"
  BY <1>3 DEF Idle, CallRecord, Steps, FlowSteps, LivenessStates
<1>5. call' = [call EXCEPT ![p] = r]
  BY <1>2, <1>3 DEF StartClient
<1>6. call' \in [Processes -> CallRecord] /\ OnlyMoves(p) /\ call'[p] = r
  BY <1>4, <1>5 DEF RInv, TypeOK, OnlyMoves
<1>7. /\ lease' \in [Packets -> LeaseRow] /\ Bounded' /\ LeasesGrow /\ NewToken(p)
      /\ CompletedIsDelivered' /\ HasToken(p)' /\ Status(p)' = "NONE"
  <2>1. lease[c].generation \in Nat /\ lease[c].direct \in SUBSET Nat
    BY DEF RInv, TypeOK, LeaseRow
  <2>2. PICK direct \in SUBSET Nat : direct = lease[c].direct \cup {lease[c].generation + 1}
    <3>1. lease[c].direct \cup {lease[c].generation + 1} \in SUBSET Nat
      BY <2>1
    <3> QED BY <3>1, Zenon
  <2>3. lease' = [lease EXCEPT ![c] = Claimed(@, direct)]
    BY <1>1, <2>2
  <2>4. call'[p].packet = c /\ call'[p].token = lease[c].generation + 1
    BY <1>2, <1>4, <1>6
  <2> QED BY <1>1, <2>3, <2>4, Claiming
<1>8. TypeOK'
  BY <1>1, <1>6, <1>7 DEF RInv, TypeOK
<1>9. KnowsStatus(p)'
  BY <1>4, <1>6, <1>7 DEF KnowsStatus
<1>10. NoEndYet(p)'
  BY <1>4, <1>6 DEF NoEndYet
<1> QED BY <1>1, <1>6, <1>7, <1>8, <1>9, <1>10, SameRow, ProcessMove DEF Knows

-----------------------------------------------------------------------------
(* Steps of nobody's call *)

LEMMA EnvironmentMove ==
    ASSUME ReentryAssumption, RInv, TypeOK', Bounded', LeasesGrow, AcksConfirm,
           UNCHANGED <<intent, call, delivered>>, NoCompletion
    PROVE  RInv'
<1>1. OwnTokens'
  BY DEF RInv, OwnTokens
<1>2. Unborn'
  <2> SUFFICES ASSUME NEW d \in Packets, NEW h \in Generations, h > lease'[d].generation
               PROVE  intent[d][h] = "NONE"
    BY DEF Unborn
  <2>1. lease[d].generation \in Nat /\ h \in Nat
    BY DEF RInv, TypeOK, LeaseRow, Generations, ReentryAssumption
  <2>2. lease'[d].generation \in {lease[d].generation, lease[d].generation + 1}
    BY DEF LeasesGrow
  <2>3. h > lease[d].generation
    BY <2>1, <2>2
  <2> QED BY <2>3 DEF RInv, Unborn
<1>3. StatusTells'
  BY DEF RInv, StatusTells
<1>4. \A c \in Packets : Acked(c)' <=> Acked(c)
  BY DEF Acked
<1>5. AcksStay
  BY <1>4 DEF AcksStay
<1>6. ASSUME NEW q \in Processes
      PROVE  Knows(q)'
  <2>1. IntentKept(q)
    BY DEF IntentKept, Status
  <2> QED BY <1>5, <2>1, OthersKeep
<1>7. ConfirmedIsAcked'
  BY <1>4 DEF RInv, ConfirmedIsAcked, AcksConfirm
<1>8. CompletedIsDelivered'
  BY CompletionsStay
<1>9. AckCompletesLease'
  BY DEF RInv, AckCompletesLease, LeasesGrow
<1> QED BY <1>1, <1>2, <1>3, <1>6, <1>7, <1>8, <1>9 DEF RInv

LEMMA ResumePreserves ==
    ASSUME ReentryAssumption, RInv, Resume
    PROVE  RInv'
<1>1. TypeOK' /\ Bounded' /\ LeasesGrow /\ NoCompletion
  BY DEF Resume, RInv, TypeOK, Bounded, LeasesGrow, NoCompletion
<1> QED BY <1>1, SameRow, EnvironmentMove DEF Resume

LEMMA ExpirePreserves ==
    ASSUME ReentryAssumption, RInv, NEW c \in Packets, Expire(c)
    PROVE  RInv'
<1>1. lease \in [Packets -> LeaseRow]
  BY DEF RInv, TypeOK
<1>2. /\ lease' \in [Packets -> LeaseRow]
      /\ \A d \in Packets : /\ lease'[d].generation = lease[d].generation
                             /\ lease'[d].status = lease[d].status
  BY <1>1 DEF Expire, LeaseRow
<1>3. TypeOK' /\ Bounded' /\ LeasesGrow /\ NoCompletion
  BY <1>2 DEF Expire, RInv, TypeOK, Bounded, LeasesGrow, NoCompletion
<1> QED BY <1>3, SameRow, EnvironmentMove DEF Expire

LEMMA EndTurnPreserves ==
    ASSUME ReentryAssumption, RInv, NEW c \in Packets, EndTurn(c)
    PROVE  RInv'
<1>1. reentry \in [Packets -> LivenessStates]
  BY DEF RInv, TypeOK
<1>2. /\ reentry' \in [Packets -> LivenessStates]
      /\ \A d \in Packets : d # c => reentry'[d] = reentry[d]
      /\ reentry'[c] = "CONTINUATION_PENDING"
  BY <1>1 DEF EndTurn, LivenessStates
<1>3. TypeOK' /\ Bounded' /\ LeasesGrow /\ NoCompletion
  BY <1>2 DEF EndTurn, RInv, TypeOK, Bounded, LeasesGrow, NoCompletion
<1>4. AcksConfirm
  BY <1>2 DEF AcksConfirm
<1> QED BY <1>3, <1>4, EnvironmentMove DEF EndTurn

(* A fence takes an intent that nobody is sending and that is not known to *)
(* be delivered.                                                           *)
LEMMA Fencing ==
    ASSUME ReentryAssumption, RInv, TypeOK', UNCHANGED <<lease, reentry, call, delivered>>,
           \A c \in Packets, g \in Generations :
             \/ intent'[c][g] = intent[c][g]
             \/ /\ intent[c][g] \in Sendable \cup {"UNCERTAIN", "RECONCILIATION_REQUIRED"}
                /\ intent'[c][g] = "FENCED"
    PROVE  RInv'
<1>1. \A c \in Packets, g \in Generations :
        /\ intent[c][g] \in {"NONE", "PHYSICAL_SEND_ATTEMPTED", "SEND_CONFIRMED",
                              "ACKNOWLEDGED"} => intent'[c][g] = intent[c][g]
        /\ intent'[c][g] # "FENCED" => intent'[c][g] = intent[c][g]
  BY DEF Sendable
<1>2. Bounded' /\ OwnTokens' /\ CompletedIsDelivered'
  BY <1>1 DEF RInv, Bounded, OwnTokens, CompletedIsDelivered
<1>3. Unborn'
  BY <1>1 DEF RInv, Unborn
<1>4. StatusTells'
  BY <1>1 DEF RInv, StatusTells, Sendable
<1>5. \A c \in Packets : Acked(c) => Acked(c)'
  BY <1>1 DEF Acked
<1>6. ConfirmedIsAcked'
  BY <1>5 DEF RInv, ConfirmedIsAcked
<1>7. AckCompletesLease'
  BY <1>1 DEF RInv, AckCompletesLease
<1>8. ASSUME NEW q \in Processes
      PROVE  Knows(q)'
  <2>1. Knows(q)
    BY DEF RInv
  <2>2. HasToken(q)' /\ NoEndYet(q)'
    BY <2>1 DEF Knows, HasToken, NoEndYet, AtWork
  <2>3. /\ AtWork(q) \/ call[q].pc = "row"
        /\ Status(q) \in {"NONE", "PHYSICAL_SEND_ATTEMPTED", "SEND_CONFIRMED", "ACKNOWLEDGED"}
        => Status(q)' = Status(q)
    BY <1>1, AtWorkHolds DEF Status
  <2>4. call[q].into = "REENTRY_CONFIRMED" => Acked(call[q].packet)'
    BY <1>5, <2>1 DEF Knows, KnowsStatus, NoEndYet, HasToken
  <2>5. KnowsStatus(q)'
    BY <2>1, <2>3, <2>4 DEF Knows, KnowsStatus, AtWork, FlowSteps
  <2> QED BY <2>2, <2>5 DEF Knows
<1> QED BY <1>2, <1>3, <1>4, <1>6, <1>7, <1>8 DEF RInv

LEMMA StopPreserves ==
    ASSUME ReentryAssumption, RInv, Stop
    PROVE  RInv'
<1>1. \A c \in Packets, g \in Generations :
        intent'[c][g] = IF intent[c][g] \in Sendable THEN "FENCED" ELSE intent[c][g]
  BY DEF Stop
<1>2. TypeOK'
  BY DEF Stop, RInv, TypeOK, Statuses
<1> QED BY <1>1, <1>2, Fencing DEF Stop

LEMMA FenceStalePreserves ==
    ASSUME ReentryAssumption, RInv, NEW c \in Packets, NEW g \in Generations,
           FenceStale(c, g)
    PROVE  RInv'
<1>1. intent \in [Packets -> [Generations -> Statuses]]
  BY DEF RInv, TypeOK
<1>2. /\ intent' \in [Packets -> [Generations -> Statuses]]
      /\ \A d \in Packets, h \in Generations :
           intent'[d][h] = IF d = c /\ h = g THEN "FENCED" ELSE intent[d][h]
  BY <1>1 DEF FenceStale, Statuses
<1>3. TypeOK'
  BY <1>2 DEF FenceStale, RInv, TypeOK
<1> QED BY <1>2, <1>3, Fencing DEF FenceStale

(* The click: the intent was attempted by this process and by no other. *)
LEMMA PhysicalSendPreserves ==
    ASSUME ReentryAssumption, RInv, NEW p \in Processes, PhysicalSend(p)
    PROVE  RInv'
<1>1. /\ call[p].pc = "send" /\ AtWork(p)
      /\ UNCHANGED <<cursor, fences, lease, intent, reentry>>
  BY DEF PhysicalSend, At, AtWork, FlowSteps
<1>2. PICK c \in Packets : c = call[p].packet
  BY <1>1, AtWorkHolds
<1>3. PICK g \in Generations : g = call[p].token
  BY <1>1, AtWorkHolds
<1>4. intent[c][g] = "PHYSICAL_SEND_ATTEMPTED" /\ delivered[c][g] = 0
  BY <1>1, <1>2, <1>3, Shown DEF KnowsStatus, Status
<1>5. PICK shown \in BOOLEAN, to \in {"confirm", "doubt", "failed"} :
         /\ to = "confirm" => shown
         /\ delivered' = IF shown THEN [delivered EXCEPT ![c][g] = @ + 1] ELSE delivered
         /\ Goto(p, to)
  BY <1>2, <1>3 DEF PhysicalSend
<1>6. /\ delivered' \in [Packets -> [Generations -> Nat]]
      /\ delivered'[c][g] \in {0, 1} /\ (to = "confirm" => delivered'[c][g] = 1)
      /\ \A d \in Packets, h \in Generations :
           d # c \/ h # g => delivered'[d][h] = delivered[d][h]
  <2>1. delivered \in [Packets -> [Generations -> Nat]]
    BY DEF RInv, TypeOK
  <2>2. CASE shown
    <3>1. delivered' = [delivered EXCEPT ![c][g] = @ + 1]
      BY <1>5, <2>2
    <3> QED BY <1>4, <2>1, <3>1
  <2>3. CASE ~shown
    BY <1>4, <1>5, <2>1, <2>3
  <2> QED BY <2>2, <2>3
<1>7. /\ call' \in [Processes -> CallRecord] /\ OnlyMoves(p)
       /\ call'[p].pc = to /\ call'[p].packet = c /\ call'[p].token = g
       /\ call'[p].into = call[p].into
  BY <1>2, <1>3, <1>5, Moving DEF RInv, OnlyMoves, Steps, FlowSteps
<1>8. TypeOK' /\ Bounded' /\ LeasesGrow
  BY <1>1, <1>6, <1>7 DEF RInv, TypeOK, Bounded, LeasesGrow
<1>9. OwnTokens'
  BY <1>2, <1>3, <1>7 DEF RInv, OwnTokens, OnlyMoves
<1>10. Unborn' /\ AckCompletesLease'
  BY <1>1 DEF RInv, Unborn, AckCompletesLease
<1>11. StatusTells'
  BY <1>1, <1>4, <1>6 DEF RInv, StatusTells, Sendable
<1>12. \A d \in Packets : Acked(d)' <=> Acked(d)
  BY <1>1 DEF Acked
<1>13. ConfirmedIsAcked' /\ AcksStay
  BY <1>1, <1>12 DEF RInv, ConfirmedIsAcked, AcksStay
<1>14. ASSUME NEW q \in Processes, q # p
       PROVE  Knows(q)'
  <2>1. call'[q] = call[q]
    BY <1>7, <1>14 DEF OnlyMoves
  <2>2. ~(call[q].packet = c /\ call[q].token = g)
    BY <1>1, <1>2, <1>3, <1>14, AtWorkHolds
  <2>3. IntentKept(q)
    BY <1>1, <1>6, <2>1, <2>2, AtWorkHolds DEF IntentKept, Status
  <2> QED BY <1>8, <1>13, <2>1, <2>3, OthersKeep
<1>15. Knows(p)'
  <2>1. Knows(p)
    BY DEF RInv
  <2>2. HasToken(p)'
    BY <1>1, <1>2, <1>3, <1>7, <2>1 DEF Knows, HasToken, AtWork
  <2>3. call[p].into = "NONE"
    BY <1>1, <2>1 DEF Knows, NoEndYet
  <2>4. KnowsStatus(p)'
    BY <1>6, <1>7, <2>3 DEF KnowsStatus
  <2>5. NoEndYet(p)'
    BY <1>7, <2>3 DEF NoEndYet
  <2> QED BY <2>2, <2>4, <2>5 DEF Knows
<1>16. CompletedIsDelivered'
  BY <1>1, <1>4, <1>6 DEF RInv, CompletedIsDelivered
<1> QED
  BY <1>8, <1>9, <1>10, <1>11, <1>13, <1>14, <1>15, <1>16 DEF RInv

-----------------------------------------------------------------------------
LEMMA InitEstablishes ==
    ASSUME ReentryAssumption, Init
    PROVE  RInv
<1>1. Idle \in CallRecord
  BY DEF Idle, CallRecord, Steps, LivenessStates
<1>2. TypeOK
  BY <1>1 DEF Init, TypeOK, LeaseRow, LeaseStates, Statuses, LivenessStates
<1>3. \A p \in Processes : /\ call[p].pc = "idle" /\ call[p].token = 0
                           /\ call[p].into = "NONE" /\ ~AtWork(p)
  BY DEF Init, Idle, AtWork, FlowSteps
<1>4. Bounded /\ Unborn /\ StatusTells
  BY DEF Init, Bounded, Unborn, StatusTells, Sendable, ReentryAssumption
<1>5. ConfirmedIsAcked /\ AckCompletesLease
  BY DEF Init, ConfirmedIsAcked, AckCompletesLease
<1>6. OwnTokens /\ CompletedIsDelivered
  BY <1>3 DEF Init, OwnTokens, CompletedIsDelivered
<1>7. ASSUME NEW p \in Processes
      PROVE  Knows(p)
  BY <1>3 DEF Knows, HasToken, KnowsStatus, NoEndYet, FlowSteps
<1> QED BY <1>2, <1>4, <1>5, <1>6, <1>7 DEF RInv

LEMMA StepPreserves ==
    ASSUME ReentryAssumption, RInv, [Next]_vars
    PROVE  RInv'
<1>1. CASE UNCHANGED vars
  BY <1>1, SameRow, EnvironmentMove
     DEF vars, RInv, TypeOK, Bounded, LeasesGrow, NoCompletion
<1>2. CASE Stop \/ Resume
  BY <1>2, StopPreserves, ResumePreserves
<1>3. ASSUME NEW c \in Packets,
             \/ Expire(c) \/ EndTurn(c)
             \/ \E g \in Generations : FenceStale(c, g)
             \/ \E p \in Processes :
                  StartClient(p, c) \/ StartReenter(p, c) \/ StartApproval(p, c)
      PROVE  RInv'
  BY <1>3, ExpirePreserves, EndTurnPreserves, FenceStalePreserves, StartClientPreserves,
     StartPreserves
<1>4. ASSUME NEW p \in Processes, Flow(p)
      PROVE  RInv'
  BY <1>4, PreparePreserves, AllowSendPreserves, EndingPreserves, BeginPreserves,
     PhysicalSendPreserves, AnswerPreserves, CompletePreserves, AcknowledgePreserves
     DEF Flow
<1>5. ASSUME NEW p \in Processes, ControllerStep(p)
      PROVE  RInv'
  BY <1>5, CallsThatEnd, NoChannelPreserves, ApprovalPreserves, ClaimLeasePreserves,
     EndingPreserves, RowPreparedPreserves, RowStartedPreserves, ReleasePreserves
     DEF ControllerStep
<1>6. ASSUME NEW p \in Processes, ClientStep(p) \/ Crash(p)
      PROVE  RInv'
  BY <1>6, ClientPreserves, EndLeasePreserves, CallsThatEnd DEF ClientStep
<1> QED BY <1>1, <1>2, <1>3, <1>4, <1>5, <1>6 DEF Next

LEMMA Inductive == Spec => []RInv
<1>1. Init => RInv
  BY ReentryAssumption, InitEstablishes
<1>2. RInv /\ [Next]_vars => RInv'
  BY ReentryAssumption, StepPreserves
<1> QED BY <1>1, <1>2, PTL DEF Spec

(* Every transaction of the stop fence, the lease, the intents and the     *)
(* controller leaves the tables with rows their schema knows.              *)
THEOREM ReentryTyped == Spec => []TypeOK
<1>1. RInv => TypeOK
  BY DEF RInv
<1> QED BY <1>1, Inductive, PTL

(* No retry, reconciliation, fence or reclaim makes send_once click twice  *)
(* for one intent.                                                         *)
THEOREM ReentryNoBlindResend == Spec => []NoBlindResend
<1>1. RInv => NoBlindResend
  <2> SUFFICES ASSUME RInv, NEW c \in Packets, NEW g \in Generations
               PROVE  /\ delivered[c][g] <= 1
                      /\ delivered[c][g] = 1 => intent[c][g] \notin Sendable
    BY DEF NoBlindResend
  <2> QED BY DEF RInv, StatusTells
<1> QED BY <1>1, Inductive, PTL

(* confirm, reconcile, ack and the recovery of an acknowledged re-entry    *)
(* record only what was shown.                                             *)
THEOREM ReentryConfirmed == Spec => []ConfirmedIsDelivered
<1>1. RInv => ConfirmedIsDelivered
  BY DEF RInv, StatusTells, ConfirmedIsAcked, ConfirmedIsDelivered, Acked
<1> QED BY <1>1, Inductive, PTL

(* ack acknowledges an intent of a lease that it completed. *)
THEOREM ReentryAckCompletes == Spec => []AckCompletesLease
<1>1. RInv => AckCompletesLease
  BY DEF RInv
<1> QED BY <1>1, Inductive, PTL

(* complete is reached for a confirmed intent alone: what a crash leaves   *)
(* between the two transactions of ack is a message that was shown.        *)
THEOREM ReentryCompleted == Spec => []CompletedIsDelivered
<1>1. RInv => CompletedIsDelivered
  BY DEF RInv
<1> QED BY <1>1, Inductive, PTL
=============================================================================
