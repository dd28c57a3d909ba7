------------------------ MODULE LaunchDeliveryProofs ------------------------
(***************************************************************************)
(* Theorems about LaunchDelivery for any launches, tabs, runs, publishers  *)
(* and budgets.  That a prompt is sent in the right conversation, that SENT*)
(* is true and that no answer empties the queue too early needs no         *)
(* hypothesis; that a prompt is sent once needs the absence of three races *)
(* (RaceFree), which the code is open to.                                  *)
(***************************************************************************)
EXTENDS LaunchDelivery, TLAPS

-----------------------------------------------------------------------------
(* The inductive invariant *)

Idle(x) == run[x].step = "idle"
Sent(l) == bound[l] \in Conversations /\ messages[bound[l]][l] > 0

(* Steps only an AUTO run takes; steps after the canonical gate; steps     *)
(* after the message was seen; steps after the handoff.                    *)
AutoSteps == {"gate", "write_attempted", "click", "verify", "write_confirmed", "ack_read",
              "ack_owns", "mark_sent", "mark_acknowledged"}
GatedSteps == {"write_claimed", "insert", "queue_ack", "write_acked"} \cup AutoSteps
SeenSteps == {"write_confirmed", "ack_read", "ack_owns", "mark_sent"}
HandedSteps == {"mark_acknowledged", "queue_ack", "write_acked"}

(* A page is reloaded at most as often as the budget allows. *)
LoadsBounded ==
    \A t \in Tabs : page[t].load + left["reload"] <= Budget["reload"]

(* Whatever refers to a launch refers to one that was prepared. *)
Prepared ==
    /\ \A l \in active : outbox[l] # "NONE"
    /\ queue.launch # NoLaunch => outbox[queue.launch] # "NONE"
    /\ \A p \in Publishers : pub[p].step # "idle" => outbox[pub[p].launch] # "NONE"

(* What a run may rely on at its step. *)
RunOK(x) ==
    LET l == run[x].launch
        step == run[x].step
    IN ~ Idle(x) =>
         /\ outbox[l] # "NONE"
         /\ step \in PageSteps => run[x].live
         /\ step \in AutoSteps => l \in AutoSend
         /\ run[x].sent => handoff[l] = "SENT"
         /\ l \in AutoSend =>
              /\ step \in GatedSteps => bound[l] = Conversation(x)
              /\ step \in SeenSteps => Sent(l)
              /\ step \in HandedSteps => handoff[l] = "SENT"
              /\ run[x].existing.state \in {"SEND_CONFIRMED", "ACKED"} => Sent(l)

(* A page holds an AUTO prompt only in the conversation that owns it, and  *)
(* displays no message that its conversation does not have.                *)
PageOK(t) ==
    /\ page[t].composer \in AutoSend => bound[page[t].composer] = ConversationOf[t]
    /\ \A l \in Launches : page[t].shown[l] <= messages[ConversationOf[t]][l]

(* The record of an AUTO launch was written in its conversation, and says  *)
(* confirmed only of a message that is there.  So does a copy of it that a *)
(* run has read and is about to write back.                                *)
RecordTrue(l, r) ==
    r # NoRecord => /\ ConversationOf[r.tab] = bound[l]
                    /\ r.state \in {"SEND_CONFIRMED", "ACKED"} => Sent(l)
RecordOK(l) == l \in AutoSend => RecordTrue(l, record[l])
SnapOK(x) ==
    ~ Idle(x) /\ run[x].snap # NoSnapshot =>
        \A m \in AutoSend : RecordTrue(m, run[x].snap[m])

IInv ==
    /\ TypeOK /\ LoadsBounded /\ Prepared
    /\ \A x \in Handlers : RunOK(x) /\ SnapOK(x)
    /\ \A t \in Tabs : PageOK(t)
    /\ \A l \in Launches : RecordOK(l)
    /\ SentInOwner /\ SentIsTrue

-----------------------------------------------------------------------------
(* Sent once *)

(* What decides about a second Send: the record read at the start is still *)
(* the tab's own, or another tab has written since; nothing was attempted  *)
(* before the record of the attempt, and nothing was sent before the click.*)
Foreign(x) ==
    LET r == record[run[x].launch]
    IN r # NoRecord /\ r.tab # TabOf[x]
Unsent(l) == \A c \in Conversations : messages[c][l] = 0
SendOK(x) ==
    LET l == run[x].launch
        step == run[x].step
    IN Alive(x) /\ l \in AutoSend =>
         /\ step \in {"host_peek", "bind", "claim", "status"} =>
                run[x].existing = OwnRecord(x) \/ Foreign(x)
         /\ step \in {"write_claimed", "insert", "gate", "write_attempted"} =>
                record[l].state \in {"NONE", "CLAIMED"}
         /\ step \in {"write_attempted", "click"} => page[TabOf[x]].composer = l
         /\ step \in {"click", "verify", "write_confirmed"} => record[l].state = "SEND_ATTEMPTED"
         /\ step = "click" => Unsent(l)

(* A message leaves its record behind. *)
MessagesRecorded ==
    \A l \in AutoSend : record[l].state \in {"NONE", "CLAIMED"} => Unsent(l)

OInv ==
    /\ MessagesRecorded /\ SendOnce
    /\ \A x \in Handlers : SendOK(x)

-----------------------------------------------------------------------------
(* Runs *)

AllSteps == HostSteps \cup PageSteps

LEMMA RunShape ==
  ASSUME TypeOK, NEW x \in Handlers
  PROVE  /\ Idle(x) <=> run[x] = IdleRun
         /\ ~ Idle(x) => run[x] \in Run
         /\ TabOf[x] \in Tabs
  BY DeliveryAssumption DEF TypeOK, Idle, IdleRun, Run, HostSteps, PageSteps, WriteSteps

(* What After does to a run: it is dropped or goes to the next step. *)
LEMMA AfterShape ==
  ASSUME NEW r \in Run, NEW s \in AllSteps
  PROVE  /\ After(r, s) \in Run \cup {IdleRun}
         /\ After(r, s) # IdleRun =>
              /\ After(r, s) = [r EXCEPT !.step = s]
              /\ s \in PageSteps => r.live
  BY DEF After, Run, AllSteps, HostSteps, PageSteps, WriteSteps

(* A run that does not move: it may be cancelled, or its page may go. *)
Same(y) ==
    \/ run'[y] = run[y]
    \/ run[y] \in Run /\ run'[y] = [run[y] EXCEPT !.cancelled = TRUE]
    \/ /\ run[y] \in Run /\ run[y].step \in HostSteps
       /\ run'[y] = [run[y] EXCEPT !.live = FALSE, !.inserting = FALSE]

LEMMA SameFields ==
  ASSUME TypeOK, NEW y \in Handlers, Same(y)
  PROVE  /\ run'[y] \in Run \cup {IdleRun}
         /\ run'[y].step = run[y].step
         /\ ~ Idle(y) =>
              /\ run'[y].launch = run[y].launch /\ run'[y].existing = run[y].existing
              /\ run'[y].claim = run[y].claim /\ run'[y].baseline = run[y].baseline
              /\ run'[y].sent = run[y].sent /\ run'[y].snap = run[y].snap
              /\ run'[y].live => run[y].live
              /\ run[y].step \in PageSteps => run'[y].live = run[y].live
<1>1. CASE run'[y] = run[y]
  BY <1>1 DEF TypeOK
<1>2. CASE run[y] \in Run /\ run'[y] = [run[y] EXCEPT !.cancelled = TRUE]
  BY <1>2 DEF Run
<1>3. CASE /\ run[y] \in Run /\ run[y].step \in HostSteps
           /\ run'[y] = [run[y] EXCEPT !.live = FALSE, !.inserting = FALSE]
  <2>1. run[y].step \notin PageSteps
    BY <1>3 DEF HostSteps, PageSteps, WriteSteps
  <2> QED
    BY <1>3, <2>1 DEF Run
<1> QED
  BY <1>1, <1>2, <1>3 DEF Same

(* projectAutoStop ends one run and cancels others. *)
LEMMA AutoStopShape ==
  ASSUME TypeOK, NEW t \in Tabs, NEW x \in Handlers, AutoStop(t, x)
  PROVE  /\ run' \in [Handlers -> Run \cup {IdleRun}]
         /\ run'[x] = IdleRun
         /\ \A y \in Handlers \ {x} : Same(y)
         /\ page' = [page EXCEPT ![t].stopped = TRUE, ![t].inserting = Released(x)]
<1>1. \A y \in Handlers \ {x} : Same(y)
  BY RunShape DEF AutoStop, Same, Cancelled, Idle
<1>2. run'[x] = IdleRun
  BY DEF AutoStop
<1>3. \A y \in Handlers : run'[y] \in Run \cup {IdleRun}
  BY <1>1, <1>2, SameFields
<1> QED
  BY <1>1, <1>2, <1>3 DEF AutoStop

(* How the runs change: the working one takes its step, others stay or are *)
(* cancelled with it.                                                      *)
LEMMA GotoShape ==
  ASSUME TypeOK, NEW x \in Handlers, NEW s \in AllSteps, ~ Idle(x), Goto(x, s)
  PROVE  /\ run' \in [Handlers -> Run \cup {IdleRun}]
         /\ \A y \in Handlers \ {x} : run'[y] = run[y]
         /\ run'[x] = IdleRun \/ (run'[x] = [run[x] EXCEPT !.step = s]
                                  /\ (s \in PageSteps => run[x].live))
  BY RunShape, AfterShape DEF TypeOK, Goto

LEMMA ReturnShape ==
  ASSUME TypeOK, NEW x \in Handlers, Return(x)
  PROVE  /\ run' \in [Handlers -> Run \cup {IdleRun}]
         /\ \A y \in Handlers \ {x} : run'[y] = run[y]
         /\ run'[x] = IdleRun
  BY DEF TypeOK, Return

LEMMA OwnRecordShape ==
  ASSUME TypeOK, NEW x \in Handlers, ~ Idle(x)
  PROVE  /\ OwnRecord(x) \in Record \cup {NoRecord}
         /\ OwnRecord(x) # NoRecord => OwnRecord(x) \in Record
  BY RunShape DEF TypeOK, OwnRecord, Run, Storage

LEMMA ResumeShape ==
  ASSUME NEW x
  PROVE  Resume(x) \in {"idle", "ack_read", "write_confirmed", "write_claimed"}
  BY DEF Resume

(* Where the copy of the records a run holds comes from. *)
SnapFrom(x, r) ==
    \/ r = IdleRun \/ r.snap = NoSnapshot
    \/ ~ Idle(x) /\ r.snap \in {run[x].snap, [record EXCEPT ![run[x].launch] = NoRecord]}

(* The run that ReadBindings, ReadStatus, Insert or SendGate goes on with. *)
LEMMA RunTyped ==
  ASSUME TypeOK, NEW x \in Handlers, NEW r \in Run \cup {IdleRun},
         run' = [run EXCEPT ![x] = r]
  PROVE  /\ run' \in [Handlers -> Run \cup {IdleRun}]
         /\ run'[x] = r
         /\ \A y \in Handlers \ {x} : Same(y)
  BY DEF TypeOK, Same

LEMMA WorkRuns ==
  ASSUME TypeOK, NEW x \in Handlers, Work(x)
  PROVE  /\ run' \in [Handlers -> Run \cup {IdleRun}]
         /\ \A y \in Handlers \ {x} : Same(y)
         /\ SnapFrom(x, run'[x])
<1> DEFINE Goal == /\ run' \in [Handlers -> Run \cup {IdleRun}]
                   /\ \A y \in Handlers \ {x} : Same(y)
                   /\ SnapFrom(x, run'[x])
<1> SUFFICES Goal
  OBVIOUS
<1>r. ASSUME Return(x) PROVE Goal
  BY <1>r, ReturnShape DEF Same, SnapFrom
<1>g. ASSUME NEW s \in AllSteps, ~ Idle(x), Goto(x, s) PROVE Goal
  <2>1. run'[x] = IdleRun \/ run'[x] = [run[x] EXCEPT !.step = s]
    BY <1>g, GotoShape
  <2>2. run[x] \in Run
    BY <1>g, RunShape
  <2>3. run'[x] = IdleRun \/ run'[x].snap = run[x].snap
    BY <2>1, <2>2 DEF Run
  <2> QED
    BY <1>g, <2>3, GotoShape DEF Same, SnapFrom
<1>s. ASSUME AutoStop(TabOf[x], x) PROVE Goal
  BY <1>s, AutoStopShape, RunShape DEF SnapFrom
<1>e. ASSUME NEW r \in Run \cup {IdleRun}, SnapFrom(x, r), run' = [run EXCEPT ![x] = r] PROVE Goal
  BY <1>e, RunTyped
<1>p. page[TabOf[x]] \in Page /\ TabOf[x] \in Tabs
  BY RunShape DEF TypeOK
<1> HIDE DEF Goal
<1>1. CASE HandleLaunch(x)
  <2> DEFINE r == [step |-> "read", launch |-> queue.launch,
                   claim |-> <<TabOf[x], page[TabOf[x]].load>>, existing |-> NoRecord,
                   baseline |-> 0, sent |-> FALSE, inserting |-> FALSE,
                   cancelled |-> FALSE, live |-> TRUE, snap |-> NoSnapshot]
  <2>1. queue.launch \in Launches
    BY <1>1 DEF HandleLaunch, TypeOK
  <2>2. <<TabOf[x], page[TabOf[x]].load>> \in Claims
    BY <1>p DEF Claims, Page
  <2>3. r \in Run /\ SnapFrom(x, r)
    BY <2>1, <2>2, DeliveryAssumption DEF Run, PageSteps, SnapFrom
  <2> QED
    BY <1>1, <1>e, <2>3 DEF HandleLaunch
<1>2. CASE ReadBindings(x)
  <2> DEFINE e == OwnRecord(x)
             r == [run[x] EXCEPT !.step = "host_peek", !.existing = e,
                                 !.claim = IF e = NoRecord THEN @ ELSE e.claim]
  <2>0. ~ Idle(x) /\ run[x] \in Run
    BY <1>2, RunShape DEF ReadBindings, At, Idle
  <2>1. e \in Record \cup {NoRecord} /\ (e # NoRecord => e.claim \in Claims)
    BY <2>0, OwnRecordShape DEF Record
  <2>2. Return(x) \/ run' = [run EXCEPT ![x] = r]
    BY <1>2 DEF ReadBindings
  <2> HIDE DEF e
  <2>3. r \in Run /\ r.snap = run[x].snap
    BY <2>0, <2>1 DEF Run, HostSteps
  <2>4. SnapFrom(x, r)
    BY <2>0, <2>3 DEF SnapFrom
  <2> HIDE DEF r
  <2> QED
    BY <1>e, <1>r, <2>2, <2>3, <2>4
<1>3. CASE HostPeek(x)
  BY <1>3, <1>g DEF HostPeek, At, Idle, AllSteps, HostSteps
<1>4. CASE BindConversation(x)
  BY <1>4, <1>g, <1>r DEF BindConversation, At, Idle, AllSteps, HostSteps
<1>5. CASE QueueClaim(x)
  BY <1>5, <1>g, <1>r DEF QueueClaim, At, Idle, AllSteps, PageSteps, WriteSteps
<1>6. CASE ReadStatus(x)
  <2> DEFINE e == run[x].existing
             b == IF e = NoRecord THEN 0 ELSE e.baseline
             r == [run[x] EXCEPT !.step = Resume(x), !.sent = (handoff[run[x].launch] = "SENT"),
                                 !.baseline = b]
  <2>0. ~ Idle(x) /\ run[x] \in Run
    BY <1>6, RunShape DEF ReadStatus, At, Idle
  <2>1. Return(x) \/ AutoStop(TabOf[x], x) \/ (run' = [run EXCEPT ![x] = r] /\ Resume(x) # "idle")
    BY <1>6 DEF ReadStatus
  <2>2. b \in 0..MaxSends
    BY <2>0, DeliveryAssumption DEF Run, Record
  <2> HIDE DEF b
  <2>3. Resume(x) # "idle" => r \in Run /\ r.snap = run[x].snap
    BY <2>0, <2>2, ResumeShape DEF Run, HostSteps, PageSteps, WriteSteps
  <2>4. Resume(x) # "idle" => SnapFrom(x, r)
    BY <2>0, <2>3 DEF SnapFrom
  <2> HIDE DEF r
  <2> QED
    BY <1>e, <1>r, <1>s, <2>1, <2>3, <2>4
<1>7. CASE WriteClaimed(x) \/ WriteAttempted(x) \/ WriteConfirmed(x) \/ WriteAcked(x)
  <2>0. ~ Idle(x) /\ run[x] \in Run
    BY <1>7, RunShape DEF WriteClaimed, WriteAttempted, WriteConfirmed, WriteAcked, Write, At, Idle
  <2>1. PICK s \in {"insert", "click", "ack_read"} :
          Return(x) \/ run' = [run EXCEPT ![x] = [@ EXCEPT !.step = s, !.snap = NoSnapshot]]
    BY <1>7 DEF WriteClaimed, WriteAttempted, WriteConfirmed, WriteAcked, Write
  <2> DEFINE r == [run[x] EXCEPT !.step = s, !.snap = NoSnapshot]
  <2>2. r \in Run /\ r.snap = NoSnapshot
    BY <2>0 DEF Run, HostSteps, PageSteps
  <2>3. SnapFrom(x, r) /\ (Return(x) \/ run' = [run EXCEPT ![x] = r])
    BY <2>1, <2>2 DEF SnapFrom
  <2> HIDE DEF r
  <2> QED
    BY <1>e, <1>r, <2>2, <2>3
<1>17. CASE ReadStorage(x)
  <2>0. ~ Idle(x) /\ run[x] \in Run /\ run[x].launch \in Launches
    BY <1>17, RunShape DEF ReadStorage, WriteSteps, Idle, Run
  <2> DEFINE v == [record EXCEPT ![run[x].launch] = NoRecord]
             r == [run[x] EXCEPT !.snap = v]
  <2>1. v \in Storage
    BY <2>0 DEF Storage, TypeOK
  <2>2. run' = [run EXCEPT ![x] = r]
    BY <1>17 DEF ReadStorage
  <2> HIDE DEF v
  <2>3. r \in Run /\ r.snap = v
    BY <2>0, <2>1 DEF Run
  <2>4. SnapFrom(x, r)
    BY <2>0, <2>3 DEF SnapFrom, v
  <2> HIDE DEF r
  <2> QED
    BY <1>e, <2>2, <2>3, <2>4
<1>8. CASE Insert(x)
  <2>0. ~ Idle(x) /\ run[x] \in Run
    BY <1>8, RunShape DEF Insert, At, Idle
  <2>1. PICK s \in {"queue_ack", "ack_read", "gate"} :
          \/ run' = [run EXCEPT ![x] = IdleRun]
          \/ run' = [run EXCEPT ![x] =
                       [@ EXCEPT !.step = s, !.inserting = TRUE, !.cancelled = FALSE]]
    <3>1. PICK visible \in Visible(x), s \in {"idle", "queue_ack", "ack_read", "gate"} :
            run' = [run EXCEPT ![x] = IF s = "idle" THEN IdleRun
                      ELSE [@ EXCEPT !.step = s, !.inserting = TRUE, !.cancelled = FALSE]]
      <4>1. \A v : AfterInsert(x, v) \in {"idle", "queue_ack", "ack_read", "gate"}
        BY DEF AfterInsert
      <4> QED
        BY <1>8, <4>1 DEF Insert
    <3>2. CASE s = "idle"
      BY <3>1, <3>2
    <3>3. CASE s # "idle"
      BY <3>1, <3>3
    <3> QED
      BY <3>2, <3>3
  <2> DEFINE r == [run[x] EXCEPT !.step = s, !.inserting = TRUE, !.cancelled = FALSE]
  <2>2. r \in Run /\ r.snap = run[x].snap
    BY <2>0 DEF Run, HostSteps, PageSteps
  <2>3. SnapFrom(x, r) /\ SnapFrom(x, IdleRun)
    BY <2>0, <2>2 DEF SnapFrom
  <2>4. run' = [run EXCEPT ![x] = IdleRun] \/ run' = [run EXCEPT ![x] = r]
    BY <2>1
  <2> HIDE DEF r
  <2> QED
    BY <1>e, <2>2, <2>3, <2>4
<1>9. CASE SendGate(x)
  <2> DEFINE r == [run[x] EXCEPT !.step = "write_attempted",
                                 !.baseline = page[TabOf[x]].shown[run[x].launch]]
  <2>0. ~ Idle(x) /\ run[x] \in Run
    BY <1>9, RunShape DEF SendGate, At, Idle
  <2>1. Return(x) \/ AutoStop(TabOf[x], x) \/ run' = [run EXCEPT ![x] = r]
    BY <1>9 DEF SendGate
  <2>2. r \in Run /\ r.snap = run[x].snap
    BY <1>p, <2>0 DEF Run, Page, PageSteps, WriteSteps
  <2>3. SnapFrom(x, r)
    BY <2>0, <2>2 DEF SnapFrom
  <2> HIDE DEF r
  <2> QED
    BY <1>e, <1>r, <1>s, <2>1, <2>2, <2>3
<1>10. CASE Click(x)
  <2> DEFINE r == [run[x] EXCEPT !.step = "verify"]
  <2>0. ~ Idle(x) /\ run[x] \in Run
    BY <1>10, RunShape DEF Click, At, Idle
  <2>1. run' = [run EXCEPT ![x] = r]
    BY <1>10 DEF Click
  <2>2. r \in Run /\ r.snap = run[x].snap
    BY <2>0 DEF Run, PageSteps
  <2>3. SnapFrom(x, r)
    BY <2>0, <2>2 DEF SnapFrom
  <2> HIDE DEF r
  <2> QED
    BY <1>e, <2>1, <2>2, <2>3
<1>11. CASE VerifySend(x)
  BY <1>11, <1>g, <1>r DEF VerifySend, At, Idle, AllSteps, PageSteps, WriteSteps
<1>12. CASE AckRead(x)
  <2> DEFINE r == [run[x] EXCEPT !.step = "ack_owns", !.sent = (handoff[run[x].launch] = "SENT")]
  <2>0. ~ Idle(x) /\ run[x] \in Run
    BY <1>12, RunShape DEF AckRead, At, Idle
  <2>1. Return(x) \/ run' = [run EXCEPT ![x] = r]
    BY <1>12 DEF AckRead
  <2>2. r \in Run /\ r.snap = run[x].snap
    BY <2>0 DEF Run, HostSteps
  <2>3. SnapFrom(x, r)
    BY <2>0, <2>2 DEF SnapFrom
  <2> HIDE DEF r
  <2> QED
    BY <1>e, <1>r, <2>1, <2>2, <2>3
<1>13. CASE AckOwns(x)
  BY <1>13, <1>g, <1>r DEF AckOwns, At, Idle, AllSteps, PageSteps, WriteSteps, HostSteps
<1>14. CASE MarkHandoffSent(x)
  BY <1>14, <1>g, <1>r DEF MarkHandoffSent, At, Idle, AllSteps, HostSteps
<1>15. CASE MarkOutboxAcknowledged(x)
  BY <1>15, <1>g DEF MarkOutboxAcknowledged, At, Idle, AllSteps, HostSteps
<1>16. CASE QueueAcknowledge(x)
  BY <1>16, <1>g, <1>r DEF QueueAcknowledge, At, Idle, AllSteps, PageSteps, WriteSteps
<1> QED
  BY <1>1, <1>2, <1>3, <1>4, <1>5, <1>6, <1>7, <1>8, <1>9, <1>10, <1>11, <1>12, <1>13, <1>14,
     <1>15, <1>16, <1>17 DEF Work, Proceed, Goal

-----------------------------------------------------------------------------
(* Frames: which actions change which part of the state *)

LEMMA MemoryFrame ==
  ASSUME [Next]_vars
  PROVE  \/ UNCHANGED memory
         \/ \E p \in Publishers, l \in Launches : PrepareLaunch(p, l) \/ ContinueLaunch(p, l)
         \/ \E p \in Publishers : MarkOutboxPublished(p)
         \/ BindingEnds
         \/ \E x \in Handlers : \/ BindConversation(x) \/ MarkHandoffSent(x)
                                \/ MarkOutboxAcknowledged(x)
<1>1. ASSUME NEW x \in Handlers, Work(x) \/ Fail(x)
      PROVE  \/ UNCHANGED memory
             \/ BindConversation(x) \/ MarkHandoffSent(x) \/ MarkOutboxAcknowledged(x)
  BY <1>1 DEF Work, Proceed, ReadStorage, HandleLaunch, ReadBindings, HostPeek,
         QueueClaim, ReadStatus, WriteClaimed,
     Insert, SendGate, WriteAttempted, Click, VerifySend, WriteConfirmed, AckRead, AckOwns,
     QueueAcknowledge, WriteAcked, Write, Fail, memory
<1>2. ASSUME NEW p \in Publishers, Publish(p) \/ PublisherFails(p)
      PROVE  UNCHANGED memory \/ MarkOutboxPublished(p)
  BY <1>2 DEF Publish, PublishPeek, ClearOrphan, Enqueue, PublisherFails
<1>3. \A p, l : ReconcileOutbox(p, l) => UNCHANGED memory
  BY DEF ReconcileOutbox
<1>4. \/ LaunchExpires \/ ClaimExpires
      \/ \E t \in Tabs : Reload(t) \/ Render(t) \/ UserStop(t) \/ ResultDetected(t)
      => UNCHANGED memory
  BY DEF LaunchExpires, ClaimExpires, Reload, Render, UserStop, ResultDetected
<1>5. UNCHANGED vars => UNCHANGED memory
  BY DEF vars
<1> QED
  BY <1>1, <1>2, <1>3, <1>4, <1>5 DEF Next

LEMMA QueueFrame ==
  ASSUME [Next]_vars
  PROVE  \/ UNCHANGED queue
         \/ queue' = EmptyQueue
         \/ \E p \in Publishers : Enqueue(p)
         \/ \E x \in Handlers : QueueClaim(x)
         \/ ClaimExpires
<1>1. ASSUME NEW x \in Handlers, Work(x) \/ Fail(x)
      PROVE  UNCHANGED queue \/ queue' = EmptyQueue \/ QueueClaim(x)
  BY <1>1 DEF Work, Proceed, ReadStorage, HandleLaunch, ReadBindings, HostPeek,
         BindConversation, ReadStatus,
     WriteClaimed, Insert, SendGate, WriteAttempted, Click, VerifySend, WriteConfirmed, AckRead,
     AckOwns, MarkHandoffSent, MarkOutboxAcknowledged, QueueAcknowledge, WriteAcked, Write, Fail
<1>2. ASSUME NEW p \in Publishers, Publish(p) \/ PublisherFails(p)
      PROVE  UNCHANGED queue \/ queue' = EmptyQueue \/ Enqueue(p)
  BY <1>2 DEF Publish, PublishPeek, ClearOrphan, MarkOutboxPublished, PublisherFails
<1>3. \A p, l : PrepareLaunch(p, l) \/ ContinueLaunch(p, l) \/ ReconcileOutbox(p, l)
                => UNCHANGED queue
  BY DEF PrepareLaunch, ContinueLaunch, ReconcileOutbox
<1>4. BindingEnds \/ (\E t \in Tabs : Reload(t) \/ Render(t) \/ UserStop(t) \/ ResultDetected(t))
      => UNCHANGED queue
  BY DEF BindingEnds, Reload, Render, UserStop, ResultDetected
<1>5. LaunchExpires => queue' = EmptyQueue
  BY DEF LaunchExpires
<1>6. UNCHANGED vars => UNCHANGED queue
  BY DEF vars
<1> QED
  BY <1>1, <1>2, <1>3, <1>4, <1>5, <1>6 DEF Next

Writes(x) == WriteClaimed(x) \/ WriteAttempted(x) \/ WriteConfirmed(x) \/ WriteAcked(x)

LEMMA RecordFrame ==
  ASSUME [Next]_vars
  PROVE  UNCHANGED record \/ \E x \in Handlers : Writes(x)
<1>1. ASSUME NEW x \in Handlers, Work(x) \/ Fail(x)
      PROVE  UNCHANGED record \/ Writes(x)
  BY <1>1 DEF Work, Proceed, ReadStorage, HandleLaunch, ReadBindings, HostPeek,
         BindConversation, QueueClaim,
     ReadStatus, Insert, SendGate, Click, VerifySend, AckRead, AckOwns, MarkHandoffSent,
     MarkOutboxAcknowledged, QueueAcknowledge, Fail, Writes
<1>2. ASSUME NEW p \in Publishers, Publish(p) \/ PublisherFails(p)
      PROVE  UNCHANGED record
  BY <1>2 DEF Publish, PublishPeek, ClearOrphan, Enqueue, MarkOutboxPublished, PublisherFails
<1>3. \A p, l : PrepareLaunch(p, l) \/ ContinueLaunch(p, l) \/ ReconcileOutbox(p, l)
                => UNCHANGED record
  BY DEF PrepareLaunch, ContinueLaunch, ReconcileOutbox
<1>4. \/ BindingEnds \/ LaunchExpires \/ ClaimExpires
      \/ \E t \in Tabs : Reload(t) \/ Render(t) \/ UserStop(t) \/ ResultDetected(t)
      => UNCHANGED record
  BY DEF BindingEnds, LaunchExpires, ClaimExpires, Reload, Render, UserStop, ResultDetected
<1>5. UNCHANGED vars => UNCHANGED record
  BY DEF vars
<1> QED
  BY <1>1, <1>2, <1>3, <1>4, <1>5 DEF Next

LEMMA MessageFrame ==
  ASSUME [Next]_vars
  PROVE  UNCHANGED messages \/ \E x \in Handlers : Click(x)
<1>1. ASSUME NEW x \in Handlers, Work(x) \/ Fail(x)
      PROVE  UNCHANGED messages \/ Click(x)
  BY <1>1 DEF Work, Proceed, ReadStorage, HandleLaunch, ReadBindings, HostPeek,
         BindConversation, QueueClaim,
     ReadStatus, WriteClaimed, Insert, SendGate, WriteAttempted, VerifySend, WriteConfirmed,
     AckRead, AckOwns, MarkHandoffSent, MarkOutboxAcknowledged, QueueAcknowledge, WriteAcked,
     Write, Fail
<1>2. ASSUME NEW p \in Publishers, Publish(p) \/ PublisherFails(p)
      PROVE  UNCHANGED messages
  BY <1>2 DEF Publish, PublishPeek, ClearOrphan, Enqueue, MarkOutboxPublished, PublisherFails
<1>3. \A p, l : PrepareLaunch(p, l) \/ ContinueLaunch(p, l) \/ ReconcileOutbox(p, l)
                => UNCHANGED messages
  BY DEF PrepareLaunch, ContinueLaunch, ReconcileOutbox
<1>4. \/ BindingEnds \/ LaunchExpires \/ ClaimExpires
      \/ \E t \in Tabs : Reload(t) \/ Render(t) \/ UserStop(t) \/ ResultDetected(t)
      => UNCHANGED messages
  BY DEF BindingEnds, LaunchExpires, ClaimExpires, Reload, Render, UserStop, ResultDetected
<1>5. UNCHANGED vars => UNCHANGED messages
  BY DEF vars
<1> QED
  BY <1>1, <1>2, <1>3, <1>4, <1>5 DEF Next

(* What may become of the page of t. *)
PageChange(t, q) ==
    /\ q \in Page /\ q.load = page[t].load
    /\ q.shown \in {page[t].shown, messages[ConversationOf[t]]}
    /\ \/ q.composer = page[t].composer
       \/ \E x \in Handlers : TabOf[x] = t /\ Click(x) /\ q.composer = NoLaunch
       \/ \E x \in Handlers : TabOf[x] = t /\ Insert(x) /\ q.composer = run[x].launch
PageStep ==
    \E t \in Tabs : \E q :
        /\ page' = [page EXCEPT ![t] = q]
        /\ PageChange(t, q) \/ (Reload(t) /\ q = FreshPage(page[t].load + 1))

(* The finally of a run, and projectAutoStop. *)
LEMMA FlagsChange ==
  ASSUME TypeOK, NEW t \in Tabs, NEW s \in BOOLEAN, NEW i \in BOOLEAN,
         page' = [page EXCEPT ![t].stopped = s, ![t].inserting = i]
  PROVE  PageStep
<1> DEFINE q == [page[t] EXCEPT !.stopped = s, !.inserting = i]
<1>1. page[t] \in Page
  BY DEF TypeOK
<1>2. /\ q \in Page /\ q.load = page[t].load /\ q.shown = page[t].shown
      /\ q.composer = page[t].composer
  BY <1>1 DEF Page
<1>3. page' = [page EXCEPT ![t] = q]
  OBVIOUS
<1> HIDE DEF q
<1> QED
  BY <1>2, <1>3 DEF PageStep, PageChange

LEMMA ReturnPage ==
  ASSUME TypeOK, NEW x \in Handlers, Return(x) \/ AutoStop(TabOf[x], x)
  PROVE  PageStep
<1> DEFINE t == TabOf[x]
<1>1. t \in Tabs /\ page[t] \in Page
  BY DeliveryAssumption DEF TypeOK
<1>2. PICK i \in BOOLEAN : i = Released(x)
  BY DEF Released
<1>3. page[t].stopped \in BOOLEAN
  BY <1>1 DEF Page
<1>4. CASE Return(x)
  <2>1. page' = [page EXCEPT ![t].inserting = i]
    BY <1>2, <1>4 DEF Return
  <2>2. page' = [page EXCEPT ![t].stopped = page[t].stopped, ![t].inserting = i]
    BY <1>1, <2>1 DEF TypeOK, Page
  <2> QED
    BY <1>1, <1>3, <2>2, FlagsChange
<1>5. CASE AutoStop(t, x)
  BY <1>1, <1>2, <1>5, FlagsChange DEF AutoStop
<1> QED
  BY <1>4, <1>5

LEMMA PageFrame ==
  ASSUME TypeOK, [Next]_vars
  PROVE  UNCHANGED page \/ PageStep
<1>s. ASSUME NEW t \in Tabs, NEW b \in BOOLEAN, page' = [page EXCEPT ![t].stopped = b]
      PROVE  PageStep
  <2>1. page[t] \in Page /\ page[t].inserting \in BOOLEAN
    BY DEF TypeOK, Page
  <2>2. page' = [page EXCEPT ![t].stopped = b, ![t].inserting = page[t].inserting]
    BY <1>s, <2>1 DEF TypeOK, Page
  <2> QED
    BY <2>1, <2>2, FlagsChange
<1>1. ASSUME NEW x \in Handlers, Work(x) \/ Fail(x)
      PROVE  UNCHANGED page \/ PageStep
  <2> DEFINE t == TabOf[x]
  <2>t. t \in Tabs /\ page[t] \in Page
    BY DeliveryAssumption DEF TypeOK
  <2>2. CASE Insert(x)
    <3>0. run[x] \in Run /\ run[x].launch \in Launches
      BY <2>2, RunShape DEF Insert, At, Idle, Run
    <3>1. PICK i \in BOOLEAN :
            page' = [page EXCEPT ![t].composer = IF @ = NoLaunch THEN run[x].launch ELSE @,
                                 ![t].inserting = i]
      BY <2>2 DEF Insert
    <3> DEFINE c == IF page[t].composer = NoLaunch THEN run[x].launch ELSE page[t].composer
               q == [page[t] EXCEPT !.composer = c, !.inserting = i]
    <3>2. page' = [page EXCEPT ![t] = q]
      BY <3>1
    <3>3. c \in Launches \cup {NoLaunch}
      BY <2>t, <3>0 DEF Page
    <3>4. c = run[x].launch \/ c = page[t].composer
      OBVIOUS
    <3> HIDE DEF c
    <3>5. /\ q \in Page /\ q.load = page[t].load /\ q.shown = page[t].shown /\ q.composer = c
      BY <2>t, <3>3 DEF Page
    <3> HIDE DEF q
    <3> QED
      BY <2>2, <2>t, <3>2, <3>4, <3>5 DEF PageStep, PageChange
  <2>3. CASE Click(x)
    <3> DEFINE q == [page[t] EXCEPT !.composer = NoLaunch, !.stopped = FALSE]
    <3>1. q \in Page /\ q.load = page[t].load /\ q.shown = page[t].shown /\ q.composer = NoLaunch
      BY <2>t DEF Page
    <3>2. \/ page' = [page EXCEPT ![t] = q]
          \/ page' = [page EXCEPT ![t].stopped = FALSE]
      BY <2>3 DEF Click
    <3> HIDE DEF q
    <3> QED
      BY <1>s, <2>3, <2>t, <3>1, <3>2 DEF PageStep, PageChange
  <2>4. UNCHANGED page \/ Return(x) \/ AutoStop(t, x) \/ Insert(x) \/ Click(x)
    BY <1>1 DEF Work, Proceed, ReadStorage, HandleLaunch, ReadBindings, HostPeek,
       BindConversation, QueueClaim, ReadStatus, SendGate, WriteClaimed, WriteAttempted,
       VerifySend, WriteConfirmed, AckRead, AckOwns, MarkHandoffSent, MarkOutboxAcknowledged,
       QueueAcknowledge, WriteAcked, Write, Fail, Goto
  <2> QED
    BY <2>2, <2>3, <2>4, ReturnPage
<1>2. ASSUME NEW p \in Publishers, Publish(p) \/ PublisherFails(p)
      PROVE  UNCHANGED page
  BY <1>2 DEF Publish, PublishPeek, ClearOrphan, Enqueue, MarkOutboxPublished, PublisherFails
<1>3. \A p, l : PrepareLaunch(p, l) \/ ContinueLaunch(p, l) \/ ReconcileOutbox(p, l)
                => UNCHANGED page
  BY DEF PrepareLaunch, ContinueLaunch, ReconcileOutbox
<1>4. BindingEnds \/ LaunchExpires \/ ClaimExpires => UNCHANGED page
  BY DEF BindingEnds, LaunchExpires, ClaimExpires
<1>5. ASSUME NEW t \in Tabs, UserStop(t) \/ ResultDetected(t)
      PROVE  PageStep
  BY <1>5, <1>s DEF UserStop, ResultDetected
<1>6. ASSUME NEW t \in Tabs, Render(t)
      PROVE  PageStep
  <2> DEFINE q == [page[t] EXCEPT !.shown = messages[ConversationOf[t]]]
  <2>1. page[t] \in Page /\ messages[ConversationOf[t]] \in [Launches -> 0..MaxSends]
    BY DeliveryAssumption DEF TypeOK
  <2>2. /\ q \in Page /\ q.load = page[t].load /\ q.composer = page[t].composer
        /\ q.shown = messages[ConversationOf[t]]
    BY <2>1 DEF Page
  <2>3. page' = [page EXCEPT ![t] = q]
    BY <1>6 DEF Render
  <2> HIDE DEF q
  <2> QED
    BY <2>2, <2>3 DEF PageStep, PageChange
<1>7. ASSUME NEW t \in Tabs, Reload(t)
      PROVE  PageStep
  BY <1>7 DEF Reload, PageStep
<1>8. UNCHANGED vars => UNCHANGED page
  BY DEF vars
<1> QED
  BY <1>1, <1>2, <1>3, <1>4, <1>5, <1>6, <1>7, <1>8 DEF Next

LEMMA LeftFrame ==
  ASSUME [Next]_vars
  PROVE  \/ UNCHANGED left
         \/ \E d \in Disturbances \ {"reload"} : Spend(d)
         \/ \E t \in Tabs : Reload(t)
<1>1. ASSUME NEW x \in Handlers, Work(x) \/ Fail(x)
      PROVE  UNCHANGED left \/ Spend("fail")
  BY <1>1 DEF Work, Proceed, ReadStorage, HandleLaunch, ReadBindings, HostPeek,
         BindConversation, QueueClaim,
     ReadStatus, WriteClaimed, Insert, SendGate, WriteAttempted, Click, VerifySend,
     WriteConfirmed, AckRead, AckOwns, MarkHandoffSent, MarkOutboxAcknowledged,
     QueueAcknowledge, WriteAcked, Write, Fail
<1>2. ASSUME NEW p \in Publishers, Publish(p) \/ PublisherFails(p)
      PROVE  UNCHANGED left \/ Spend("fail")
  BY <1>2 DEF Publish, PublishPeek, ClearOrphan, Enqueue, MarkOutboxPublished, PublisherFails
<1>3. \A p, l : PrepareLaunch(p, l) \/ ContinueLaunch(p, l) \/ ReconcileOutbox(p, l)
                => UNCHANGED left \/ Spend("continue")
  BY DEF PrepareLaunch, ContinueLaunch, ReconcileOutbox
<1>4. BindingEnds => UNCHANGED left
  BY DEF BindingEnds
<1>5. LaunchExpires \/ ClaimExpires => UNCHANGED left \/ Spend("ttl") \/ Spend("lease")
  BY DEF LaunchExpires, ClaimExpires
<1>6. \A t : Render(t) \/ ResultDetected(t) => UNCHANGED left
  BY DEF Render, ResultDetected
<1>7. \A t : UserStop(t) => Spend("stop")
  BY DEF UserStop
<1>8. UNCHANGED vars => UNCHANGED left
  BY DEF vars
<1>9. {"continue", "fail", "ttl", "lease", "stop"} \subseteq Disturbances \ {"reload"}
  BY DEF Disturbances
<1> QED
  BY <1>1, <1>2, <1>3, <1>4, <1>5, <1>6, <1>7, <1>8, <1>9 DEF Next

(* How the runs change: one works and the others stay, or they are ended,  *)
(* cancelled or left without their page.                                   *)
LEMMA RunFrame ==
  ASSUME TypeOK, [Next]_vars
  PROVE  /\ run' \in [Handlers -> Run \cup {IdleRun}]
         /\ \A x \in Handlers : Work(x) \/ run'[x] = IdleRun \/ Same(x)
         /\ \A x \in Handlers : SnapFrom(x, run'[x])
<1> DEFINE Goal == /\ run' \in [Handlers -> Run \cup {IdleRun}]
                   /\ \A x \in Handlers : Work(x) \/ run'[x] = IdleRun \/ Same(x)
                   /\ \A x \in Handlers : SnapFrom(x, run'[x])
<1> SUFFICES Goal
  OBVIOUS
<1>n. \A x \in Handlers : run'[x] = IdleRun \/ Same(x) => SnapFrom(x, run'[x])
  <2>1. ASSUME NEW x \in Handlers, Same(x), run'[x] # IdleRun PROVE SnapFrom(x, run'[x])
    <3>1. ~ Idle(x)
      BY <2>1, RunShape DEF Same, Run, IdleRun
    <3> QED
      BY <2>1, <3>1, SameFields DEF SnapFrom
  <2> QED
    BY <2>1 DEF SnapFrom
<1>0. ASSUME UNCHANGED run PROVE Goal
  BY <1>0, <1>n DEF TypeOK, Same
<1>w. ASSUME NEW x \in Handlers, Work(x) PROVE Goal
  BY <1>n, <1>w, WorkRuns
<1>f. ASSUME NEW x \in Handlers, Fail(x) PROVE Goal
  <2>1. Return(x) \/ AutoStop(TabOf[x], x)
    BY <1>f DEF Fail
  <2>2. /\ run' \in [Handlers -> Run \cup {IdleRun}] /\ run'[x] = IdleRun
        /\ \A y \in Handlers \ {x} : Same(y)
    BY <2>1, ReturnShape, AutoStopShape, RunShape DEF Same
  <2> QED
    BY <1>n, <2>2
<1>r. ASSUME NEW t \in Tabs, Reload(t) PROVE Goal
  <2>1. \A x \in Handlers : run'[x] = IdleRun \/ Same(x)
    BY <1>r, RunShape DEF Reload, Same, Idle
  <2>2. \A x \in Handlers : run'[x] \in Run \cup {IdleRun}
    BY <2>1, SameFields
  <2> QED
    BY <1>n, <1>r, <2>1, <2>2 DEF Reload
<1>u. ASSUME NEW t \in Tabs, UserStop(t) PROVE Goal
  <2>1. \A x \in Handlers : Same(x)
    BY <1>u, RunShape DEF UserStop, Same, Idle, Cancelled
  <2>2. \A x \in Handlers : run'[x] \in Run \cup {IdleRun}
    BY <2>1, SameFields
  <2> QED
    BY <1>n, <1>u, <2>1, <2>2 DEF UserStop
<1> HIDE DEF Goal
<1>1. ASSUME NEW p \in Publishers, Publish(p) \/ PublisherFails(p)
      PROVE  UNCHANGED run
  BY <1>1 DEF Publish, PublishPeek, ClearOrphan, Enqueue, MarkOutboxPublished, PublisherFails
<1>2. \A p, l : PrepareLaunch(p, l) \/ ContinueLaunch(p, l) \/ ReconcileOutbox(p, l)
                => UNCHANGED run
  BY DEF PrepareLaunch, ContinueLaunch, ReconcileOutbox
<1>3. BindingEnds \/ LaunchExpires \/ ClaimExpires => UNCHANGED run
  BY DEF BindingEnds, LaunchExpires, ClaimExpires
<1>4. \A t : Render(t) \/ ResultDetected(t) => UNCHANGED run
  BY DEF Render, ResultDetected
<1>5. UNCHANGED vars => UNCHANGED run
  BY DEF vars
<1> QED
  BY <1>0, <1>w, <1>f, <1>r, <1>u, <1>1, <1>2, <1>3, <1>4, <1>5 DEF Next

(* A publisher works for a launch that was prepared, before or just now. *)
Starts(p, l) == PrepareLaunch(p, l) \/ ContinueLaunch(p, l) \/ ReconcileOutbox(p, l)
PublisherStep ==
    \E p \in Publishers :
        \/ PublisherReturns(p)
        \/ pub[p].step # "idle" /\ \E s \in {"clear", "enqueue", "mark"} : PublisherAt(p, s)
        \/ \E l \in Launches, s \in {"peek", "mark"} :
              Starts(p, l) /\ pub' = [pub EXCEPT ![p] = [step |-> s, launch |-> l]]

LEMMA PublisherFrame ==
  ASSUME [Next]_vars
  PROVE  UNCHANGED pub \/ PublisherStep
<1>1. ASSUME NEW x \in Handlers, Work(x) \/ Fail(x)
      PROVE  UNCHANGED pub
  BY <1>1 DEF Work, Proceed, ReadStorage, HandleLaunch, ReadBindings, HostPeek,
         BindConversation, QueueClaim,
     ReadStatus, WriteClaimed, Insert, SendGate, WriteAttempted, Click, VerifySend,
     WriteConfirmed, AckRead, AckOwns, MarkHandoffSent, MarkOutboxAcknowledged,
     QueueAcknowledge, WriteAcked, Write, Fail
<1>2. ASSUME NEW p \in Publishers, Publish(p) \/ PublisherFails(p)
      PROVE  PublisherStep
  <2>1. \/ PublisherReturns(p)
        \/ pub[p].step # "idle" /\ \E s \in {"clear", "enqueue", "mark"} : PublisherAt(p, s)
    BY <1>2 DEF Publish, PublishPeek, ClearOrphan, Enqueue, MarkOutboxPublished,
       PublisherFails, Publishing
  <2> QED
    BY <2>1 DEF PublisherStep
<1>3. ASSUME NEW p \in Publishers, NEW l \in Launches, Starts(p, l)
      PROVE  PublisherStep
  <2>1. \E s \in {"peek", "mark"} : pub' = [pub EXCEPT ![p] = [step |-> s, launch |-> l]]
    BY <1>3 DEF Starts, PrepareLaunch, ContinueLaunch, ReconcileOutbox, PublishFrom
  <2> QED
    BY <1>3, <2>1 DEF PublisherStep
<1>4. \/ BindingEnds \/ LaunchExpires \/ ClaimExpires
      \/ \E t \in Tabs : Reload(t) \/ Render(t) \/ UserStop(t) \/ ResultDetected(t)
      => UNCHANGED pub
  BY DEF BindingEnds, LaunchExpires, ClaimExpires, Reload, Render, UserStop, ResultDetected
<1>5. UNCHANGED vars => UNCHANGED pub
  BY DEF vars
<1> QED
  BY <1>1, <1>2, <1>3, <1>4, <1>5 DEF Next, Starts

-----------------------------------------------------------------------------
(* Types *)

LEMMA MemoryTyped ==
  ASSUME TypeOK, [Next]_vars
  PROVE  /\ current' \in active' \cup {NoLaunch} /\ active' \subseteq Launches
         /\ bound' \in [Launches -> Conversations \cup {NoConversation}]
         /\ outbox' \in [Launches -> {"NONE", "PENDING", "PUBLISHED", "ACKNOWLEDGED"}]
         /\ handoff' \in [Launches -> {"NONE", "PENDING", "SENT"}]
<1>1. CASE UNCHANGED memory
  BY <1>1 DEF memory, TypeOK
<1>2. ASSUME NEW p \in Publishers, NEW l \in Launches, PrepareLaunch(p, l) \/ ContinueLaunch(p, l)
      PROVE  /\ current' \in active' \cup {NoLaunch} /\ active' \subseteq Launches
             /\ bound' = bound
             /\ outbox' \in [Launches -> {"NONE", "PENDING", "PUBLISHED", "ACKNOWLEDGED"}]
             /\ handoff' \in [Launches -> {"NONE", "PENDING", "SENT"}]
  BY <1>2 DEF PrepareLaunch, ContinueLaunch, TypeOK
<1>3. ASSUME NEW p \in Publishers, MarkOutboxPublished(p)
      PROVE  /\ outbox' \in [Launches -> {"NONE", "PENDING", "PUBLISHED", "ACKNOWLEDGED"}]
             /\ UNCHANGED <<current, active, bound, handoff>>
  BY <1>3 DEF MarkOutboxPublished, TypeOK
<1>4. CASE BindingEnds
  BY <1>4 DEF BindingEnds, TypeOK
<1>5. ASSUME NEW x \in Handlers, BindConversation(x)
      PROVE  /\ bound' \in [Launches -> Conversations \cup {NoConversation}]
             /\ UNCHANGED <<current, active, outbox, handoff>>
  <2>1. Conversation(x) \in Conversations
    BY DeliveryAssumption DEF Conversation
  <2> QED
    BY <1>5, <2>1 DEF BindConversation, TypeOK
<1>6. ASSUME NEW x \in Handlers, MarkHandoffSent(x) \/ MarkOutboxAcknowledged(x)
      PROVE  /\ outbox' \in [Launches -> {"NONE", "PENDING", "PUBLISHED", "ACKNOWLEDGED"}]
             /\ handoff' \in [Launches -> {"NONE", "PENDING", "SENT"}]
             /\ UNCHANGED <<current, active, bound>>
  BY <1>6 DEF MarkHandoffSent, MarkOutboxAcknowledged, TypeOK
<1> QED
  BY <1>1, <1>2, <1>3, <1>4, <1>5, <1>6, MemoryFrame DEF TypeOK

LEMMA QueueTyped ==
  ASSUME TypeOK, [Next]_vars
  PROVE  queue' \in {EmptyQueue} \cup [launch : Launches, claim : Claims \cup {NoClaim}]
<1>1. ASSUME NEW p \in Publishers, Enqueue(p)
      PROVE  queue' = queue \/ queue' \in [launch : Launches, claim : Claims \cup {NoClaim}]
  <2>1. pub[p].launch \in Launches
    BY <1>1 DEF Enqueue, Publishing, TypeOK, Publisher, IdlePublisher
  <2> QED
    BY <1>1, <2>1 DEF Enqueue
<1>2. ASSUME NEW x \in Handlers, QueueClaim(x)
      PROVE  queue' = queue \/ queue' \in [launch : Launches, claim : Claims \cup {NoClaim}]
  <2>1. run[x] \in Run
    BY <1>2, RunShape DEF QueueClaim, At, Idle
  <2>2. run[x].launch \in Launches /\ run[x].claim \in Claims
    BY <2>1 DEF Run
  <2>3. queue.launch \in Launches => queue \in [launch : Launches, claim : Claims \cup {NoClaim}]
    BY DeliveryAssumption DEF TypeOK, EmptyQueue
  <2> QED
    BY <1>2, <2>2, <2>3 DEF QueueClaim
<1>3. CASE ClaimExpires
  <2>1. queue \in [launch : Launches, claim : Claims \cup {NoClaim}]
    BY <1>3 DEF ClaimExpires, TypeOK, EmptyQueue
  <2> QED
    BY <1>3, <2>1 DEF ClaimExpires
<1> QED
  BY <1>1, <1>2, <1>3, QueueFrame DEF TypeOK

(* What a step of a run writes into chrome.storage. *)
LEMMA WritesShape ==
  ASSUME TypeOK, NEW x \in Handlers, Writes(x)
  PROVE  /\ run[x] \in Run /\ ~ Idle(x)
         /\ run[x].launch \in Launches /\ run[x].snap \in Storage
         /\ run[x].step \in WriteSteps
         /\ record' \in Storage
         /\ \A m \in Launches \ {run[x].launch} : record'[m] = run[x].snap[m]
         /\ record'[run[x].launch].tab = TabOf[x]
         /\ record'[run[x].launch] # NoRecord
         /\ \/ WriteClaimed(x) /\ run[x].step = "write_claimed"
               /\ record'[run[x].launch].state = "CLAIMED"
            \/ WriteAttempted(x) /\ run[x].step = "write_attempted"
               /\ record'[run[x].launch].state = "SEND_ATTEMPTED"
            \/ WriteConfirmed(x) /\ run[x].step = "write_confirmed"
               /\ record'[run[x].launch].state = "SEND_CONFIRMED"
            \/ WriteAcked(x) /\ run[x].step = "write_acked"
               /\ record'[run[x].launch].state = "ACKED"
<1> DEFINE l == run[x].launch
           R(s) == [state |-> s, tab |-> TabOf[x], claim |-> run[x].claim,
                    baseline |-> run[x].baseline]
<1>0. ~ Idle(x) /\ run[x].step \in WriteSteps
  BY DEF Writes, WriteClaimed, WriteAttempted, WriteConfirmed, WriteAcked, Write, At, Idle,
     WriteSteps
<1>1. run[x] \in Run
  BY <1>0, RunShape
<1>2. PICK s \in RecordStates :
        /\ run[x].snap # NoSnapshot /\ record' = [run[x].snap EXCEPT ![l] = R(s)]
        /\ \/ WriteClaimed(x) /\ run[x].step = "write_claimed" /\ s = "CLAIMED"
           \/ WriteAttempted(x) /\ run[x].step = "write_attempted" /\ s = "SEND_ATTEMPTED"
           \/ WriteConfirmed(x) /\ run[x].step = "write_confirmed" /\ s = "SEND_CONFIRMED"
           \/ WriteAcked(x) /\ run[x].step = "write_acked" /\ s = "ACKED"
  BY DEF Writes, WriteClaimed, WriteAttempted, WriteConfirmed, WriteAcked, Write, RecordStates,
     WriteRecord, At
<1>3. /\ l \in Launches /\ run[x].claim \in Claims /\ run[x].snap \in Storage
      /\ run[x].baseline \in 0..MaxSends /\ TabOf[x] \in Tabs
  BY <1>1, <1>2, RunShape DEF Run
<1>4. R(s) \in Record /\ R(s).state = s /\ R(s).tab = TabOf[x] /\ R(s) # NoRecord
  BY <1>3 DEF Record, NoRecord, RecordStates
<1> HIDE DEF R, l
<1>5. /\ record' \in Storage /\ record'[l] = R(s)
      /\ \A m \in Launches \ {l} : record'[m] = run[x].snap[m]
  BY <1>2, <1>3, <1>4 DEF Storage
<1> QED
  BY <1>0, <1>1, <1>2, <1>3, <1>4, <1>5 DEF l

LEMMA StorageTyped ==
  ASSUME TypeOK, [Next]_vars
  PROVE  /\ record' \in Storage
         /\ messages' \in [Conversations -> [Launches -> 0..MaxSends]]
<1>1. record' \in Storage
  BY RecordFrame, WritesShape DEF TypeOK
<1>2. ASSUME NEW x \in Handlers, Click(x)
      PROVE  messages' \in [Conversations -> [Launches -> 0..MaxSends]]
  <2> DEFINE c == Conversation(x)
             m == page[TabOf[x]].composer
  <2>1. c \in Conversations /\ m \in Launches \cup {NoLaunch}
    BY DeliveryAssumption DEF Conversation, TypeOK, Page
  <2>2. \/ UNCHANGED messages
        \/ /\ m # NoLaunch /\ messages[c][m] < MaxSends
           /\ messages' = [messages EXCEPT ![c][m] = @ + 1]
    BY <1>2 DEF Click
  <2> HIDE DEF c, m
  <2>3. CASE UNCHANGED messages
    BY <2>3 DEF TypeOK
  <2>4. CASE /\ m # NoLaunch /\ messages[c][m] < MaxSends
             /\ messages' = [messages EXCEPT ![c][m] = @ + 1]
    <3>1. messages[c][m] + 1 \in 0..MaxSends
      BY <2>1, <2>4, DeliveryAssumption DEF TypeOK
    <3>2. [messages[c] EXCEPT ![m] = messages[c][m] + 1] \in [Launches -> 0..MaxSends]
      BY <2>1, <3>1 DEF TypeOK
    <3> QED
      BY <2>1, <2>4, <3>2 DEF TypeOK
  <2> QED
    BY <2>2, <2>3, <2>4
<1> QED
  BY <1>1, <1>2, MessageFrame DEF TypeOK

LEMMA LeftTyped ==
  ASSUME TypeOK, LoadsBounded, [Next]_vars
  PROVE  /\ left' \in [Disturbances -> Nat]
         /\ left'["reload"] <= left["reload"]
         /\ \A t : Reload(t) => left'["reload"] = left["reload"] - 1
<1>0. "reload" \in Disturbances
  BY DEF Disturbances
<1>1. ASSUME NEW d \in Disturbances, Spend(d)
      PROVE  /\ left' \in [Disturbances -> Nat]
             /\ left'[d] = left[d] - 1
             /\ \A e \in Disturbances : e # d => left'[e] = left[e]
  BY <1>1 DEF Spend, TypeOK
<1>2. \A t : Reload(t) => Spend("reload")
  BY DEF Reload
<1>3. CASE \E t : Reload(t)
  BY <1>0, <1>1, <1>2, <1>3 DEF TypeOK
<1>4. CASE ~ \E t : Reload(t)
  <2>1. UNCHANGED left \/ \E d \in Disturbances \ {"reload"} : Spend(d)
    BY <1>4, LeftFrame
  <2> QED
    BY <1>0, <1>1, <1>4, <2>1 DEF TypeOK
<1> QED
  BY <1>3, <1>4

LEMMA PageTyped ==
  ASSUME TypeOK, LoadsBounded, [Next]_vars
  PROVE  page' \in [Tabs -> Page] /\ LoadsBounded'
<1>b. Budget["reload"] \in Nat /\ left["reload"] \in Nat /\ left'["reload"] \in Nat
  BY LeftTyped, DeliveryAssumption DEF TypeOK, Disturbances
<1>l. \A t \in Tabs : page[t] \in Page /\ page[t].load \in Nat
  BY <1>b DEF TypeOK, Page, Loads
<1>1. CASE UNCHANGED page
  BY <1>1, <1>b, <1>l, LeftTyped DEF TypeOK, LoadsBounded
<1>2. ASSUME NEW t \in Tabs, Reload(t), page' = [page EXCEPT ![t] = FreshPage(page[t].load + 1)]
      PROVE  page' \in [Tabs -> Page] /\ LoadsBounded'
  <2> DEFINE q == FreshPage(page[t].load + 1)
  <2>1. left'["reload"] = left["reload"] - 1
    BY <1>2, LeftTyped
  <2>2. page[t].load + 1 + left'["reload"] <= Budget["reload"]
    BY <1>b, <1>l, <2>1 DEF LoadsBounded
  <2>3. page[t].load + 1 \in Loads
    BY <1>b, <1>l, <2>2 DEF Loads
  <2>4. q \in Page /\ q.load = page[t].load + 1
    BY <2>3, DeliveryAssumption DEF FreshPage, Page
  <2>5. \A u \in Tabs : page'[u] \in Page /\ page'[u].load + left'["reload"] <= Budget["reload"]
    BY <1>2, <1>b, <1>l, <2>1, <2>2, <2>4 DEF TypeOK, LoadsBounded
  <2> QED
    BY <1>2, <2>4, <2>5 DEF TypeOK, LoadsBounded
<1>3. ASSUME NEW t \in Tabs, NEW q, PageChange(t, q), page' = [page EXCEPT ![t] = q]
      PROVE  page' \in [Tabs -> Page] /\ LoadsBounded'
  <2>1. q \in Page /\ q.load = page[t].load
    BY <1>3 DEF PageChange
  <2>2. \A u \in Tabs : page'[u].load = page[u].load
    BY <1>3, <2>1 DEF TypeOK
  <2> QED
    BY <1>3, <1>b, <1>l, <2>1, <2>2, LeftTyped DEF TypeOK, LoadsBounded
<1> QED
  BY <1>1, <1>2, <1>3, PageFrame DEF PageStep

LEMMA PublisherTyped ==
  ASSUME TypeOK, [Next]_vars
  PROVE  pub' \in [Publishers -> Publisher \cup {IdlePublisher}]
<1>1. ASSUME NEW p \in Publishers, NEW q \in Publisher \cup {IdlePublisher},
             pub' = [pub EXCEPT ![p] = q]
      PROVE  pub' \in [Publishers -> Publisher \cup {IdlePublisher}]
  BY <1>1 DEF TypeOK
<1>2. \A l \in Launches, s \in {"peek", "mark"} : [step |-> s, launch |-> l] \in Publisher
  BY DEF Publisher
<1>3. ASSUME NEW p \in Publishers, pub[p].step # "idle"
      PROVE  \A s \in {"clear", "enqueue", "mark"} : [pub[p] EXCEPT !.step = s] \in Publisher
  BY <1>3 DEF TypeOK, Publisher, IdlePublisher
<1>4. CASE PublisherStep
  BY <1>1, <1>2, <1>3, <1>4 DEF PublisherStep, PublisherReturns, PublisherAt
<1> QED
  BY <1>4, PublisherFrame DEF TypeOK

LEMMA TypeStep ==
  ASSUME TypeOK, LoadsBounded, [Next]_vars
  PROVE  TypeOK' /\ LoadsBounded'
  BY MemoryTyped, QueueTyped, StorageTyped, PageTyped, RunFrame, PublisherTyped, LeftTyped
     DEF TypeOK

-----------------------------------------------------------------------------
(* What no step undoes *)

(* A prepared launch stays so and keeps its SENT handoff, a conversation   *)
(* stays the owner of its binding, and messages stay.                      *)
Monotone ==
    /\ \A l \in Launches : outbox[l] # "NONE" =>
          outbox'[l] # "NONE" /\ (handoff[l] = "SENT" => handoff'[l] = "SENT")
    /\ \A l \in Launches : bound[l] \in Conversations => bound'[l] = bound[l]
    /\ \A c \in Conversations, l \in Launches : messages[c][l] <= messages'[c][l]

(* The click adds one message with the prompt in the composer, or none. *)
LEMMA ClickShape ==
  ASSUME TypeOK, NEW x \in Handlers, Click(x)
  PROVE  LET m == page[TabOf[x]].composer
         IN \/ UNCHANGED messages
            \/ /\ m \in Launches
               /\ \A c \in Conversations, l \in Launches :
                     messages'[c][l] = IF c = Conversation(x) /\ l = m
                                         THEN messages[c][l] + 1 ELSE messages[c][l]
<1> DEFINE k == Conversation(x)
           m == page[TabOf[x]].composer
<1>1. k \in Conversations /\ m \in Launches \cup {NoLaunch}
  BY DeliveryAssumption DEF Conversation, TypeOK, Page
<1>2. \/ UNCHANGED messages
      \/ m # NoLaunch /\ messages' = [messages EXCEPT ![k][m] = @ + 1]
  BY DEF Click
<1> HIDE DEF k, m
<1>3. ASSUME m # NoLaunch, messages' = [messages EXCEPT ![k][m] = @ + 1]
      PROVE  \A c \in Conversations, l \in Launches :
                messages'[c][l] = IF c = k /\ l = m
                                    THEN messages[c][l] + 1 ELSE messages[c][l]
  BY <1>1, <1>3 DEF TypeOK
<1> QED
  BY <1>1, <1>2, <1>3 DEF k, m

LEMMA MonotoneStep ==
  ASSUME TypeOK, [Next]_vars
  PROVE  Monotone
<1>1. \A c \in Conversations, l \in Launches : messages[c][l] <= messages'[c][l]
  <2>0. \A c \in Conversations, l \in Launches : messages[c][l] \in Nat
    BY DeliveryAssumption DEF TypeOK
  <2> QED
    BY <2>0, MessageFrame, ClickShape
<1>2. \A l \in Launches : bound[l] \in Conversations => bound'[l] = bound[l]
  <2>1. ASSUME NEW x \in Handlers, BindConversation(x)
        PROVE  \A l \in Launches : bound[l] \in Conversations => bound'[l] = bound[l]
    BY <2>1, DeliveryAssumption DEF BindConversation, TypeOK
  <2>2. \/ UNCHANGED bound \/ \E x \in Handlers : BindConversation(x)
    BY MemoryFrame DEF memory, PrepareLaunch, ContinueLaunch, MarkOutboxPublished, BindingEnds,
       MarkHandoffSent, MarkOutboxAcknowledged
  <2> QED
    BY <2>1, <2>2
<1>3. ASSUME NEW l \in Launches, outbox[l] # "NONE"
      PROVE  outbox'[l] # "NONE" /\ (handoff[l] = "SENT" => handoff'[l] = "SENT")
  <2>1. ASSUME NEW p \in Publishers, NEW m \in Launches, PrepareLaunch(p, m)
        PROVE  outbox'[l] = outbox[l] /\ handoff'[l] = handoff[l]
    BY <1>3, <2>1 DEF PrepareLaunch, TypeOK
  <2>2. ASSUME NEW p \in Publishers, MarkOutboxPublished(p)
        PROVE  outbox'[l] # "NONE" /\ handoff'[l] = handoff[l]
    BY <1>3, <2>2 DEF MarkOutboxPublished, TypeOK
  <2>3. ASSUME NEW x \in Handlers, MarkHandoffSent(x) \/ MarkOutboxAcknowledged(x)
        PROVE  outbox'[l] # "NONE" /\ (handoff[l] = "SENT" => handoff'[l] = "SENT")
    BY <1>3, <2>3 DEF MarkHandoffSent, MarkOutboxAcknowledged, TypeOK
  <2>4. \/ UNCHANGED <<outbox, handoff>>
        \/ \E p \in Publishers, m \in Launches : PrepareLaunch(p, m)
        \/ \E p \in Publishers : MarkOutboxPublished(p)
        \/ \E x \in Handlers : MarkHandoffSent(x) \/ MarkOutboxAcknowledged(x)
    BY MemoryFrame DEF memory, ContinueLaunch, BindingEnds, BindConversation
  <2> QED
    BY <1>3, <2>1, <2>2, <2>3, <2>4
<1> QED
  BY <1>1, <1>2, <1>3 DEF Monotone

LEMMA SentStays ==
  ASSUME TypeOK, [Next]_vars, NEW l \in Launches, Sent(l)
  PROVE  Sent(l)'
<1>1. bound'[l] = bound[l] /\ bound[l] \in Conversations
  BY MonotoneStep DEF Monotone, Sent
<1>2. messages[bound[l]][l] <= messages'[bound[l]][l]
  BY <1>1, MonotoneStep DEF Monotone
<1>3. messages[bound[l]][l] \in Nat /\ messages'[bound[l]][l] \in Nat
  BY <1>1, StorageTyped, DeliveryAssumption DEF TypeOK
<1> QED
  BY <1>1, <1>2, <1>3 DEF Sent

LEMMA PreparedStep ==
  ASSUME TypeOK, Prepared, [Next]_vars
  PROVE  Prepared'
<1>0. \A l \in Launches : outbox[l] # "NONE" => outbox'[l] # "NONE"
  BY MonotoneStep DEF Monotone
<1>1. \A l \in active' : outbox'[l] # "NONE"
  <2>1. ASSUME NEW p \in Publishers, NEW m \in Launches, PrepareLaunch(p, m)
        PROVE  outbox'[m] # "NONE" /\ active' \subseteq active \cup {m}
    BY <2>1 DEF PrepareLaunch, TypeOK
  <2>2. \/ active' \subseteq active
        \/ \E p \in Publishers, m \in Launches : PrepareLaunch(p, m)
    BY MemoryFrame DEF memory, ContinueLaunch, MarkOutboxPublished, BindingEnds,
       BindConversation, MarkHandoffSent, MarkOutboxAcknowledged
  <2> QED
    BY <1>0, <2>1, <2>2 DEF Prepared, TypeOK
<1>2. queue'.launch # NoLaunch => outbox'[queue'.launch] # "NONE"
  <2>1. ASSUME NEW p \in Publishers, Enqueue(p)
        PROVE  \/ queue' = queue
               \/ /\ queue'.launch = pub[p].launch /\ pub[p].launch \in Launches
                  /\ pub[p].step # "idle"
    BY <2>1 DEF Enqueue, Publishing, TypeOK, Publisher, IdlePublisher
  <2>2. ASSUME NEW x \in Handlers, QueueClaim(x)
        PROVE  queue'.launch = queue.launch
    BY <2>2 DEF QueueClaim, TypeOK, EmptyQueue
  <2>3. ClaimExpires => queue'.launch = queue.launch
    BY DEF ClaimExpires, TypeOK, EmptyQueue
  <2>4. queue.launch # NoLaunch => queue.launch \in Launches
    BY DEF TypeOK, EmptyQueue
  <2>5. EmptyQueue.launch = NoLaunch
    BY DEF EmptyQueue
  <2> QED
    BY <1>0, <2>1, <2>2, <2>3, <2>4, <2>5, QueueFrame DEF Prepared
<1>3. ASSUME NEW q \in Publishers, pub'[q].step # "idle"
      PROVE  outbox'[pub'[q].launch] # "NONE"
  <2>1. ASSUME NEW p \in Publishers, NEW l \in Launches, Starts(p, l)
        PROVE  outbox'[l] # "NONE"
    BY <1>0, <2>1 DEF Starts, PrepareLaunch, ContinueLaunch, ReconcileOutbox, Prepared, TypeOK
  <2>2. pub[q].step # "idle" => pub[q].launch \in Launches
    BY DEF TypeOK, Publisher, IdlePublisher
  <2>3. CASE pub'[q] = pub[q]
    BY <1>0, <1>3, <2>2, <2>3 DEF Prepared
  <2>4. CASE pub[q].step # "idle" /\ \E s \in {"clear", "enqueue", "mark"} : PublisherAt(q, s)
    <3>1. pub'[q].launch = pub[q].launch
      BY <2>4 DEF PublisherAt, TypeOK, Publisher, IdlePublisher
    <3> QED
      BY <1>0, <2>2, <2>4, <3>1 DEF Prepared
  <2>5. CASE \E l \in Launches, s \in {"peek", "mark"} :
                Starts(q, l) /\ pub' = [pub EXCEPT ![q] = [step |-> s, launch |-> l]]
    BY <2>1, <2>5 DEF TypeOK
  <2>6. ~ PublisherReturns(q)
    BY <1>3 DEF PublisherReturns, IdlePublisher, TypeOK
  <2>7. \A p \in Publishers \ {q} :
          \/ PublisherReturns(p)
          \/ \E s \in {"clear", "enqueue", "mark"} : PublisherAt(p, s)
          \/ \E l \in Launches, s \in {"peek", "mark"} :
                pub' = [pub EXCEPT ![p] = [step |-> s, launch |-> l]]
          => pub'[q] = pub[q]
    BY DEF PublisherReturns, PublisherAt, TypeOK
  <2> QED
    BY <2>3, <2>4, <2>5, <2>6, <2>7, PublisherFrame DEF PublisherStep
<1> QED
  BY <1>1, <1>2, <1>3 DEF Prepared

-----------------------------------------------------------------------------
(* Runs keep what they rely on *)

LEMMA IdleRunOK ==
  ASSUME NEW x \in Handlers, run'[x] = IdleRun
  PROVE  RunOK(x)'
  BY DEF RunOK, Idle, IdleRun

(* A run that goes on with its launch at a step it has the right to take. *)
LEMMA MoveOK ==
  ASSUME TypeOK, [Next]_vars, NEW x \in Handlers, RunOK(x), ~ Idle(x),
         NEW r \in Run, run'[x] = r, NEW l \in Launches, l = run[x].launch, r.launch = l,
         r.step \in PageSteps => r.live,
         r.step \in AutoSteps => l \in AutoSend,
         r.sent => handoff'[l] = "SENT",
         l \in AutoSend =>
            /\ r.step \in GatedSteps => bound[l] = Conversation(x)
            /\ r.step \in SeenSteps => Sent(l)
            /\ r.step \in HandedSteps => handoff'[l] = "SENT"
            /\ r.existing.state \in {"SEND_CONFIRMED", "ACKED"} => Sent(l)
  PROVE  RunOK(x)'
<1>1. outbox'[l] # "NONE"
  BY MonotoneStep DEF Monotone, RunOK
<1>2. bound[l] = Conversation(x) => bound'[l] = Conversation(x)
  BY MonotoneStep, DeliveryAssumption DEF Monotone, Conversation
<1>3. Sent(l) => Sent(l)'
  BY SentStays
<1> QED
  BY <1>1, <1>2, <1>3 DEF RunOK, Conversation

LEMMA SameRunOK ==
  ASSUME TypeOK, [Next]_vars, NEW x \in Handlers, RunOK(x), Same(x)
  PROVE  RunOK(x)'
<1>1. CASE Idle(x)
  BY <1>1, SameFields DEF RunOK, Idle
<1>2. CASE ~ Idle(x)
  <2>1. PICK l \in Launches : l = run[x].launch
    BY <1>2, RunShape DEF Run
  <2>2. handoff[l] = "SENT" => handoff'[l] = "SENT"
    BY <1>2, <2>1, MonotoneStep DEF Monotone, RunOK
  <2>3. PICK r \in Run : r = run'[x]
    BY <1>2, SameFields, RunFrame DEF Idle, IdleRun
  <2>4. /\ r.step = run[x].step /\ r.launch = l
        /\ r.existing = run[x].existing /\ r.sent = run[x].sent
        /\ run[x].step \in PageSteps => r.live = run[x].live
    BY <1>2, <2>1, <2>3, SameFields
  <2> QED
    BY <1>2, <2>1, <2>2, <2>3, <2>4, MoveOK DEF RunOK
<1> QED
  BY <1>1, <1>2

(* The effect was seen: the page displays what the conversation has. *)
LEMMA ObservedIsSent ==
  ASSUME TypeOK, NEW x \in Handlers, PageOK(TabOf[x]), NEW l \in Launches, l = run[x].launch,
         NEW b \in Nat, EffectObserved(x, b), bound[l] = Conversation(x)
  PROVE  Sent(l)
<1>1. Conversation(x) \in Conversations /\ TabOf[x] \in Tabs
  BY DeliveryAssumption DEF Conversation
<1>2. messages[Conversation(x)][l] \in Nat /\ page[TabOf[x]].shown[l] \in Nat
  BY <1>1, DeliveryAssumption DEF TypeOK, Page
<1>3. page[TabOf[x]].shown[l] <= messages[Conversation(x)][l]
  BY DEF PageOK, Conversation
<1>4. page[TabOf[x]].shown[l] > 0
  BY <1>2 DEF EffectObserved
<1> QED
  BY <1>1, <1>2, <1>3, <1>4 DEF Sent

LEMMA WorkRunOK ==
  ASSUME IInv, [Next]_vars, NEW x \in Handlers, Work(x)
  PROVE  RunOK(x)'
<1> DEFINE l == run[x].launch
<1>t. TypeOK /\ RunOK(x) /\ PageOK(TabOf[x]) /\ TabOf[x] \in Tabs
  BY RunShape DEF IInv
<1>n. ~ Idle(x) => run[x] \in Run /\ l \in Launches
  BY <1>t, RunShape DEF Run
<1>k. ~ Idle(x) =>
        /\ outbox[l] # "NONE"
        /\ run[x].step \in PageSteps => run[x].live
        /\ run[x].step \in AutoSteps => l \in AutoSend
        /\ run[x].sent => handoff[l] = "SENT"
        /\ l \in AutoSend =>
             /\ run[x].step \in GatedSteps => bound[l] = Conversation(x)
             /\ run[x].step \in SeenSteps => Sent(l)
             /\ run[x].step \in HandedSteps => handoff[l] = "SENT"
             /\ run[x].existing.state \in {"SEND_CONFIRMED", "ACKED"} => Sent(l)
  BY <1>t DEF RunOK
<1>h. ~ Idle(x) /\ handoff[l] = "SENT" => handoff'[l] = "SENT"
  BY <1>t, <1>n, <1>k, MonotoneStep DEF Monotone
<1> HIDE DEF l
<1>r. ASSUME Return(x) PROVE RunOK(x)'
  BY <1>r, <1>t, ReturnShape, IdleRunOK
<1>s. ASSUME AutoStop(TabOf[x], x) PROVE RunOK(x)'
  BY <1>s, <1>t, AutoStopShape, IdleRunOK
<1>g. ASSUME ~ Idle(x), NEW s \in AllSteps, Goto(x, s),
             s \in AutoSteps => l \in AutoSend,
             l \in AutoSend =>
                /\ s \in GatedSteps => bound[l] = Conversation(x)
                /\ s \in SeenSteps => Sent(l)
                /\ s \in HandedSteps => handoff'[l] = "SENT"
      PROVE  RunOK(x)'
  <2>1. CASE run'[x] = IdleRun
    BY <2>1, IdleRunOK
  <2>2. CASE run'[x] = [run[x] EXCEPT !.step = s] /\ (s \in PageSteps => run[x].live)
    <3> DEFINE r == [run[x] EXCEPT !.step = s]
    <3>1. /\ r \in Run /\ r.step = s /\ r.launch = l /\ r.sent = run[x].sent
          /\ r.existing = run[x].existing /\ r.live = run[x].live
      BY <1>g, <1>n DEF Run, AllSteps, l
    <3>2. run'[x] = r
      BY <2>2
    <3> HIDE DEF r
    <3> QED
      BY <1>g, <1>h, <1>k, <1>n, <1>t, <2>2, <3>1, <3>2, MoveOK DEF l
  <2> QED
    BY <1>g, <1>t, <2>1, <2>2, GotoShape
<1>1. CASE HandleLaunch(x)
  <2>1. /\ run'[x].step = "read" /\ run'[x].launch = queue.launch /\ run'[x].live
        /\ run'[x].sent = FALSE /\ run'[x].existing = NoRecord
    BY <1>1, <1>t DEF HandleLaunch, TypeOK
  <2>2. queue.launch \in Launches /\ outbox[queue.launch] # "NONE"
    BY <1>1, DeliveryAssumption DEF HandleLaunch, IInv, TypeOK, Prepared
  <2>3. outbox'[queue.launch] # "NONE"
    BY <1>t, <2>2, MonotoneStep DEF Monotone
  <2> QED
    BY <2>1, <2>3 DEF RunOK, NoRecord, AutoSteps, GatedSteps, SeenSteps, HandedSteps
<1>2. CASE ReadBindings(x)
  <2> DEFINE e == OwnRecord(x)
             r == [run[x] EXCEPT !.step = "host_peek", !.existing = e,
                                 !.claim = IF e = NoRecord THEN @ ELSE e.claim]
  <2>0. ~ Idle(x) /\ run[x] \in Run /\ l \in Launches
    BY <1>2, <1>n DEF ReadBindings, At, Idle
  <2>1. e \in Record \cup {NoRecord} /\ (e # NoRecord => e.claim \in Claims)
    BY <1>t, <2>0, OwnRecordShape DEF Record
  <2>2. l \in AutoSend /\ e.state \in {"SEND_CONFIRMED", "ACKED"} => Sent(l)
    BY <2>0 DEF OwnRecord, IInv, RecordOK, RecordTrue, NoRecord, l
  <2>3. Return(x) \/ run'[x] = r
    BY <1>2, <1>t DEF ReadBindings, TypeOK
  <2> HIDE DEF e
  <2>4. /\ r \in Run /\ r.step = "host_peek" /\ r.launch = l /\ r.sent = run[x].sent
        /\ r.existing = e
    BY <2>0, <2>1 DEF Run, HostSteps, l
  <2>5. "host_peek" \notin PageSteps \cup GatedSteps \cup SeenSteps \cup HandedSteps
    BY DEF PageSteps, WriteSteps, AutoSteps, GatedSteps, SeenSteps, HandedSteps
  <2>6. "host_peek" \notin AutoSteps
    BY DEF AutoSteps
  <2> HIDE DEF r
  <2>7. ASSUME run'[x] = r PROVE RunOK(x)'
    BY <1>h, <1>k, <1>t, <2>0, <2>2, <2>4, <2>5, <2>6, <2>7, MoveOK DEF l
  <2> QED
    BY <1>r, <2>3, <2>7
<1> USE DEF AllSteps, HostSteps, PageSteps, WriteSteps, AutoSteps, GatedSteps, SeenSteps,
        HandedSteps
<1>3. CASE HostPeek(x)
  BY <1>3, <1>g DEF HostPeek, At, Idle
<1>4. CASE BindConversation(x)
  BY <1>4, <1>g, <1>r DEF BindConversation, At, Idle
<1>5. CASE QueueClaim(x)
  BY <1>5, <1>g, <1>r DEF QueueClaim, At, Idle
<1>m. ASSUME ~ Idle(x), NEW r \in Run, run'[x] = r, r.launch = l, r.live = run[x].live,
             r.existing = run[x].existing,
             r.step \in PageSteps => run[x].live,
             r.step \in AutoSteps => l \in AutoSend,
             r.sent => handoff[l] = "SENT",
             l \in AutoSend =>
                /\ r.step \in GatedSteps => bound[l] = Conversation(x)
                /\ r.step \in SeenSteps => Sent(l)
                /\ r.step \in HandedSteps => handoff[l] = "SENT"
      PROVE  RunOK(x)'
  BY <1>h, <1>k, <1>m, <1>n, <1>t, MoveOK DEF l
<1>7. CASE Writes(x)
  <2>0. ~ Idle(x) /\ run[x] \in Run /\ l \in Launches /\ run[x].step \in WriteSteps
    BY <1>n, <1>t, <1>7, WritesShape
  <2>1. \/ Return(x)
        \/ \E s \in {"insert", "click", "ack_read"} :
             /\ run'[x] = [run[x] EXCEPT !.step = s, !.snap = NoSnapshot]
             /\ s = "insert" => run[x].step = "write_claimed"
             /\ s = "click" => run[x].step = "write_attempted"
             /\ s = "ack_read" => run[x].step = "write_confirmed"
    BY <1>7, <1>t DEF Writes, WriteClaimed, WriteAttempted, WriteConfirmed, WriteAcked, Write, At,
       TypeOK
  <2>2. ASSUME NEW s \in {"insert", "click", "ack_read"},
               run'[x] = [run[x] EXCEPT !.step = s, !.snap = NoSnapshot],
               s = "insert" => run[x].step = "write_claimed",
               s = "click" => run[x].step = "write_attempted",
               s = "ack_read" => run[x].step = "write_confirmed"
        PROVE  RunOK(x)'
    <3> DEFINE r == [run[x] EXCEPT !.step = s, !.snap = NoSnapshot]
    <3>1. /\ r \in Run /\ r.step = s /\ r.launch = l /\ r.live = run[x].live
          /\ r.existing = run[x].existing /\ r.sent = run[x].sent
      BY <2>0 DEF Run, l
    <3>2. run'[x] = r
      BY <2>2
    <3> HIDE DEF r
    <3> QED
      BY <1>k, <1>m, <2>0, <2>2, <3>1, <3>2
  <2> QED
    BY <1>r, <2>1, <2>2
<1>17. CASE ReadStorage(x)
  <2> DEFINE v == [record EXCEPT ![run[x].launch] = NoRecord]
             r == [run[x] EXCEPT !.snap = v]
  <2>0. ~ Idle(x) /\ run[x] \in Run /\ l \in Launches
    BY <1>17, <1>n DEF ReadStorage, Idle
  <2>1. v \in Storage
    BY <1>t, <2>0 DEF Storage, TypeOK, l
  <2>2. run'[x] = r
    BY <1>17, <1>t DEF ReadStorage, TypeOK
  <2> HIDE DEF v
  <2>3. /\ r \in Run /\ r.step = run[x].step /\ r.launch = l /\ r.live = run[x].live
        /\ r.existing = run[x].existing /\ r.sent = run[x].sent
    BY <2>0, <2>1 DEF Run, l
  <2> HIDE DEF r
  <2> QED
    BY <1>k, <1>m, <2>0, <2>2, <2>3
<1>10. CASE Click(x)
  <2> DEFINE r == [run[x] EXCEPT !.step = "verify"]
  <2>0. ~ Idle(x) /\ run[x] \in Run /\ l \in Launches /\ run[x].step = "click"
    BY <1>10, <1>n DEF Click, At, Idle
  <2>1. run'[x] = r
    BY <1>10, <1>t DEF Click, TypeOK
  <2>2. /\ r \in Run /\ r.step = "verify" /\ r.launch = l /\ r.live = run[x].live
        /\ r.existing = run[x].existing /\ r.sent = run[x].sent
    BY <2>0 DEF Run, l
  <2> HIDE DEF r
  <2> QED
    BY <1>k, <1>m, <2>0, <2>1, <2>2
<1>11. CASE VerifySend(x)
  <2>0. ~ Idle(x) /\ run[x].step = "verify"
    BY <1>11 DEF VerifySend, At, Idle
  <2>1. CASE EffectObserved(x, run[x].baseline) /\ Goto(x, "write_confirmed")
    <3>1. run[x].baseline \in Nat
      BY <1>n, <2>0, DeliveryAssumption DEF Run
    <3>2. l \in AutoSend /\ bound[l] = Conversation(x)
      BY <1>k, <2>0
    <3>3. Sent(l)
      BY <1>n, <1>t, <2>0, <2>1, <3>1, <3>2, ObservedIsSent DEF l
    <3> QED
      BY <1>g, <2>0, <2>1, <3>2, <3>3
  <2> QED
    BY <1>11, <1>r, <2>1 DEF VerifySend
<1>13. CASE AckOwns(x)
  <2>0. ~ Idle(x) /\ run[x].step = "ack_owns"
    BY <1>13 DEF AckOwns, At, Idle
  <2>1. l \in AutoSend /\ bound[l] = Conversation(x) /\ Sent(l)
    BY <1>k, <2>0
  <2>2. CASE run[x].sent /\ Goto(x, "write_acked")
    BY <1>g, <1>h, <1>k, <2>0, <2>1, <2>2
  <2>3. CASE Goto(x, "mark_sent")
    BY <1>g, <2>0, <2>1, <2>3
  <2> QED
    BY <1>13, <1>r, <2>2, <2>3 DEF AckOwns
<1>14. CASE MarkHandoffSent(x)
  <2>0. ~ Idle(x) /\ run[x].step = "mark_sent"
    BY <1>14 DEF MarkHandoffSent, At, Idle
  <2>1. l \in AutoSend /\ bound[l] = Conversation(x) /\ l \in Launches
    BY <1>k, <1>n, <2>0
  <2>2. Return(x) \/ (Goto(x, "mark_acknowledged") /\ handoff' = [handoff EXCEPT ![l] = "SENT"])
    BY <1>14 DEF MarkHandoffSent, l
  <2>3. handoff' = [handoff EXCEPT ![l] = "SENT"] => handoff'[l] = "SENT"
    BY <1>t, <2>1 DEF TypeOK
  <2> QED
    BY <1>g, <1>r, <2>0, <2>1, <2>2, <2>3
<1>15. CASE MarkOutboxAcknowledged(x)
  BY <1>15, <1>g, <1>h, <1>k DEF MarkOutboxAcknowledged, At, Idle
<1>16. CASE QueueAcknowledge(x)
  BY <1>16, <1>g, <1>h, <1>k, <1>r DEF QueueAcknowledge, At, Idle
<1>6. CASE ReadStatus(x)
  <2> DEFINE e == run[x].existing
             b == IF e = NoRecord THEN 0 ELSE e.baseline
             r == [run[x] EXCEPT !.step = Resume(x), !.sent = (handoff[l] = "SENT"),
                                 !.baseline = b]
  <2>0. ~ Idle(x) /\ run[x] \in Run /\ l \in Launches /\ run[x].live
    BY <1>6, <1>k, <1>n DEF ReadStatus, At, Idle
  <2>1. \/ AutoStop(TabOf[x], x)
        \/ Return(x)
        \/ /\ run'[x] = r /\ Resume(x) # "idle"
           /\ l \in AutoSend => bound[l] = Conversation(x)
    BY <1>6, <1>t DEF ReadStatus, GateOpen, TypeOK, l
  <2>2. e = NoRecord \/ e \in Record
    BY <2>0 DEF Run
  <2>3. b \in 0..MaxSends
    BY <2>2, DeliveryAssumption DEF Record
  <2>4. ASSUME Resume(x) # "idle", l \in AutoSend => bound[l] = Conversation(x), run'[x] = r
        PROVE  RunOK(x)'
    <3>1. \/ Resume(x) = "ack_read" /\ l \in AutoSend /\ e.state = "SEND_CONFIRMED"
          \/ /\ Resume(x) = "write_confirmed" /\ l \in AutoSend
             /\ e.state = "SEND_ATTEMPTED" /\ EffectObserved(x, e.baseline)
          \/ Resume(x) = "write_claimed"
      BY <2>4 DEF Resume, l
    <3>2. Resume(x) \in SeenSteps => l \in AutoSend /\ Sent(l)
      <4>1. e.state = "SEND_ATTEMPTED" => e.baseline \in Nat
        BY <2>2, DeliveryAssumption DEF Record, NoRecord
      <4>2. e.state = "SEND_ATTEMPTED" /\ EffectObserved(x, e.baseline) /\ l \in AutoSend
            => Sent(l)
        BY <1>t, <2>0, <2>4, <4>1, ObservedIsSent DEF l
      <4> QED
        BY <1>k, <2>0, <3>1, <4>2
    <3>s. Resume(x) \in AllSteps
      BY <3>1
    <3> HIDE DEF b, e, AllSteps, HostSteps, PageSteps
    <3>h. PICK sent \in BOOLEAN : sent = (handoff[l] = "SENT")
      OBVIOUS
    <3>r. r = [run[x] EXCEPT !.step = Resume(x), !.sent = sent, !.baseline = b]
      BY <3>h
    <3> HIDE DEF r
    <3>3. /\ r \in Run /\ r.step = Resume(x) /\ r.launch = l /\ r.live = run[x].live
          /\ r.existing = e /\ r.sent = sent
      BY <2>0, <2>3, <3>h, <3>r, <3>s DEF Run, AllSteps, l, e
    <3>4. run'[x] = r
      BY <2>4 DEF r
    <3> QED
      BY <1>m, <2>0, <2>4, <3>1, <3>2, <3>3, <3>4, <3>h DEF e, HostSteps, PageSteps
  <2> QED
    BY <1>r, <1>s, <2>1, <2>4
<1>8. CASE Insert(x)
  <2>0. ~ Idle(x) /\ run[x] \in Run /\ l \in Launches /\ run[x].live
    BY <1>8, <1>k, <1>n DEF Insert, At, Idle
  <2>1. \/ run'[x] = IdleRun
        \/ \E s \in {"queue_ack", "ack_read", "gate"} :
             /\ run'[x] = [run[x] EXCEPT !.step = s, !.inserting = TRUE, !.cancelled = FALSE]
             /\ s = "queue_ack" <=> l \notin AutoSend
             /\ s = "ack_read" => run[x].sent
    <3>1. ASSUME NEW v \in BOOLEAN
          PROVE  /\ AfterInsert(x, v) \in {"idle", "queue_ack", "ack_read", "gate"}
                 /\ AfterInsert(x, v) # "idle" =>
                      (AfterInsert(x, v) = "queue_ack" <=> l \notin AutoSend)
                 /\ AfterInsert(x, v) = "ack_read" => run[x].sent
      <4>1. run[x].sent \in BOOLEAN /\ page[TabOf[x]].stopped \in BOOLEAN
        BY <1>t, <2>0 DEF TypeOK, Run, Page
      <4>2. CASE ~ v
        BY <4>1, <4>2 DEF AfterInsert, l
      <4>3. CASE v /\ l \notin AutoSend
        BY <4>1, <4>3 DEF AfterInsert, l
      <4>4. CASE v /\ l \in AutoSend
        BY <4>1, <4>4 DEF AfterInsert, l
      <4> QED
        BY <4>2, <4>3, <4>4
    <3>2. PICK s \in {"idle", "queue_ack", "ack_read", "gate"} :
            /\ s # "idle" => (s = "queue_ack" <=> l \notin AutoSend)
            /\ s = "ack_read" => run[x].sent
            /\ run'[x] = IF s = "idle" THEN IdleRun
                         ELSE [run[x] EXCEPT !.step = s, !.inserting = TRUE, !.cancelled = FALSE]
      <4>1. Visible(x) \subseteq BOOLEAN
        BY DEF Visible
      <4>2. PICK v \in BOOLEAN :
              LET next == IF page[TabOf[x]].composer \in {NoLaunch, l} THEN AfterInsert(x, v)
                          ELSE "idle"
              IN run' = [run EXCEPT ![x] = IF next = "idle" THEN IdleRun
                           ELSE [@ EXCEPT !.step = next, !.inserting = TRUE, !.cancelled = FALSE]]
        BY <1>8, <4>1 DEF Insert, l
      <4> QED
        BY <1>t, <3>1, <4>2 DEF TypeOK
    <3> QED
      BY <3>2
  <2>2. l \in AutoSend => bound[l] = Conversation(x)
    BY <1>8, <1>k, <2>0 DEF Insert, At
  <2>3. l \in AutoSend /\ run[x].sent => Sent(l)
    BY <1>k, <1>t, <2>0 DEF IInv, SentIsTrue, Sent, TypeOK
  <2>4. ASSUME NEW s \in {"queue_ack", "ack_read", "gate"},
               run'[x] = [run[x] EXCEPT !.step = s, !.inserting = TRUE, !.cancelled = FALSE],
               s = "queue_ack" <=> l \notin AutoSend,
               s = "ack_read" => run[x].sent
        PROVE  RunOK(x)'
    <3> DEFINE r == [run[x] EXCEPT !.step = s, !.inserting = TRUE, !.cancelled = FALSE]
    <3>1. /\ r \in Run /\ r.step = s /\ r.launch = l /\ r.live = run[x].live
          /\ r.existing = run[x].existing /\ r.sent = run[x].sent
      BY <2>0 DEF Run, l
    <3>2. run'[x] = r
      BY <2>4
    <3> HIDE DEF r
    <3> QED
      BY <1>k, <1>m, <2>0, <2>2, <2>3, <2>4, <3>1, <3>2
  <2> QED
    BY <2>1, <2>4, IdleRunOK
<1>9. CASE SendGate(x)
  <2> DEFINE r == [run[x] EXCEPT !.step = "write_attempted",
                                 !.baseline = page[TabOf[x]].shown[l]]
  <2>0. ~ Idle(x) /\ run[x] \in Run /\ l \in Launches /\ run[x].live /\ At(x, "gate")
    BY <1>9, <1>k, <1>n DEF SendGate, At, Idle
  <2>1. Return(x) \/ AutoStop(TabOf[x], x) \/ run'[x] = r
    BY <1>9, <1>t DEF SendGate, TypeOK, l
  <2>2. page[TabOf[x]].shown[l] \in 0..MaxSends
    BY <1>t, <2>0 DEF TypeOK, Page
  <2>3. /\ r \in Run /\ r.step = "write_attempted" /\ r.launch = l /\ r.live = run[x].live
        /\ r.existing = run[x].existing /\ r.sent = run[x].sent
    BY <2>0, <2>2 DEF Run, l
  <2> HIDE DEF r
  <2>4. ASSUME run'[x] = r PROVE RunOK(x)'
    BY <1>k, <1>m, <2>0, <2>3, <2>4 DEF At
  <2> QED
    BY <1>r, <1>s, <2>1, <2>4
<1>12. CASE AckRead(x)
  <2> DEFINE r == [run[x] EXCEPT !.step = "ack_owns", !.sent = (handoff[l] = "SENT")]
  <2>0. ~ Idle(x) /\ run[x] \in Run /\ l \in Launches /\ At(x, "ack_read")
    BY <1>12, <1>n DEF AckRead, At, Idle
  <2>1. Return(x) \/ run'[x] = r
    BY <1>12, <1>t DEF AckRead, TypeOK, l
  <2>2. /\ r \in Run /\ r.step = "ack_owns" /\ r.launch = l /\ r.live = run[x].live
        /\ r.existing = run[x].existing /\ (r.sent => handoff[l] = "SENT")
    BY <2>0 DEF Run, l
  <2> HIDE DEF r
  <2>3. ASSUME run'[x] = r PROVE RunOK(x)'
    BY <1>k, <1>m, <2>0, <2>2, <2>3 DEF At
  <2> QED
    BY <1>r, <2>1, <2>3
<1> QED
  BY <1>1, <1>2, <1>3, <1>4, <1>5, <1>6, <1>7, <1>8, <1>9, <1>10, <1>11, <1>12, <1>13, <1>14,
     <1>15, <1>16, <1>17 DEF Work, Proceed, Writes

-----------------------------------------------------------------------------
(* Pages, records and what was sent *)

LEMMA PagesStep ==
  ASSUME IInv, [Next]_vars, NEW t \in Tabs
  PROVE  PageOK(t)'
<1>t. TypeOK /\ PageOK(t) /\ ConversationOf[t] \in Conversations
  BY DeliveryAssumption DEF IInv
<1>a. AutoSend \subseteq Launches /\ NoLaunch \notin AutoSend
  BY DeliveryAssumption
<1>b. \A l \in AutoSend : bound[l] = ConversationOf[t] => bound'[l] = ConversationOf[t]
  BY <1>a, <1>t, MonotoneStep DEF Monotone
<1>m. \A l \in Launches : /\ messages[ConversationOf[t]][l] <= messages'[ConversationOf[t]][l]
                          /\ messages[ConversationOf[t]][l] \in Nat
                          /\ messages'[ConversationOf[t]][l] \in Nat
                          /\ page[t].shown[l] \in Nat
  BY <1>t, MonotoneStep, StorageTyped, DeliveryAssumption DEF Monotone, TypeOK, Page
<1>1. CASE page'[t] = page[t]
  <2>1. page'[t].composer \in AutoSend => bound'[page'[t].composer] = ConversationOf[t]
    BY <1>1, <1>b, <1>t DEF PageOK
  <2>2. \A l \in Launches : page'[t].shown[l] <= messages'[ConversationOf[t]][l]
    BY <1>1, <1>m, <1>t DEF PageOK
  <2> QED
    BY <2>1, <2>2 DEF PageOK
<1>2. ASSUME NEW q, page' = [page EXCEPT ![t] = q],
             PageChange(t, q) \/ q = FreshPage(page[t].load + 1)
      PROVE  PageOK(t)'
  <2>0. page'[t] = q
    BY <1>2, <1>t DEF TypeOK
  <2>1. \A x \in Handlers : TabOf[x] = t /\ Insert(x) /\ run[x].launch \in AutoSend
                            => bound[run[x].launch] = ConversationOf[t]
    BY DEF IInv, RunOK, Insert, At, Idle, GatedSteps, Conversation
  <2>c. /\ \/ q.composer \in {page[t].composer, NoLaunch}
           \/ \E x \in Handlers : TabOf[x] = t /\ Insert(x) /\ q.composer = run[x].launch
        /\ q.shown \in {page[t].shown, messages[ConversationOf[t]], [l \in Launches |-> 0]}
    BY <1>2 DEF PageChange, FreshPage
  <2>2. q.composer \in AutoSend => bound[q.composer] = ConversationOf[t]
    BY <1>a, <1>t, <2>1, <2>c DEF PageOK
  <2>3. \A l \in Launches : q.shown[l] <= messages[ConversationOf[t]][l] /\ q.shown[l] \in Nat
    BY <1>m, <1>t, <2>c DEF PageOK
  <2>4. \A l \in Launches : q.shown[l] <= messages'[ConversationOf[t]][l]
    BY <1>m, <2>3
  <2> QED
    BY <1>b, <2>0, <2>2, <2>4 DEF PageOK
<1> QED
  BY <1>1, <1>2, <1>t, PageFrame DEF PageStep, TypeOK

(* What a record says of a launch stays true. *)
LEMMA RecordStaysTrue ==
  ASSUME IInv, [Next]_vars, NEW l \in Launches, NEW r \in Record \cup {NoRecord}, RecordTrue(l, r)
  PROVE  RecordTrue(l, r)'
<1>t. TypeOK
  BY DEF IInv
<1>s. Sent(l) => Sent(l)'
  BY <1>t, SentStays
<1>b. \A t \in Tabs : bound[l] = ConversationOf[t] => bound'[l] = ConversationOf[t]
  BY <1>t, MonotoneStep, DeliveryAssumption DEF Monotone
<1>r. r # NoRecord => r.tab \in Tabs
  BY DEF Record
<1> QED
  BY <1>s, <1>b, <1>r DEF RecordTrue

LEMMA SnapsStep ==
  ASSUME IInv, [Next]_vars, NEW x \in Handlers
  PROVE  SnapOK(x)'
<1>t. TypeOK /\ SnapOK(x) /\ AutoSend \subseteq Launches
  BY DeliveryAssumption DEF IInv
<1>r. run' \in [Handlers -> Run \cup {IdleRun}]
  BY <1>t, RunFrame
<1> SUFFICES ASSUME run'[x] # IdleRun, run'[x].snap # NoSnapshot, NEW m \in AutoSend,
                    NEW r \in Record \cup {NoRecord}, r = run'[x].snap[m]
             PROVE  RecordTrue(m, r)'
  <2>1. run'[x] # IdleRun /\ run'[x].snap # NoSnapshot =>
          \A m \in AutoSend : run'[x].snap[m] \in Record \cup {NoRecord}
    BY <1>r, <1>t DEF Run, Storage
  <2> QED
    BY <2>1 DEF SnapOK, Idle, IdleRun, RecordTrue
<1>1. /\ ~ Idle(x)
      /\ run'[x].snap \in {run[x].snap, [record EXCEPT ![run[x].launch] = NoRecord]}
  BY <1>t, RunFrame DEF SnapFrom
<1>2. run[x] \in Run /\ run[x].launch \in Launches
  BY <1>1, <1>t, RunShape DEF Run
<1>3. RecordTrue(m, r)
  <2>1. CASE run'[x].snap = run[x].snap
    BY <1>1, <1>t, <2>1 DEF SnapOK
  <2>2. CASE run'[x].snap = [record EXCEPT ![run[x].launch] = NoRecord]
    <3>1. r \in {record[m], NoRecord}
      BY <1>2, <1>t, <2>2 DEF TypeOK, Storage
    <3>2. RecordTrue(m, record[m]) /\ RecordTrue(m, NoRecord)
      BY <1>t DEF IInv, RecordOK, RecordTrue
    <3> QED
      BY <3>1, <3>2
  <2> QED
    BY <1>1, <2>1, <2>2
<1> QED
  BY <1>3, <1>t, RecordStaysTrue

LEMMA RecordsStep ==
  ASSUME IInv, [Next]_vars, NEW l \in Launches
  PROVE  RecordOK(l)'
<1>t. TypeOK /\ RecordOK(l) /\ record[l] \in Record \cup {NoRecord}
  BY DEF IInv, TypeOK, Storage
<1> SUFFICES ASSUME l \in AutoSend
             PROVE  RecordTrue(l, record[l])'
  BY DEF RecordOK
<1>f. ASSUME NEW r \in Record \cup {NoRecord}, RecordTrue(l, r), record'[l] = r
      PROVE  RecordTrue(l, record[l])'
  <2>1. RecordTrue(l, r)'
    BY <1>f, RecordStaysTrue
  <2> QED
    BY <1>f, <2>1 DEF RecordTrue
<1>1. CASE record'[l] = record[l]
  BY <1>1, <1>f, <1>t DEF RecordOK
<1>2. ASSUME NEW x \in Handlers, Writes(x), run[x].launch = l
      PROVE  RecordTrue(l, record[l])'
  <2>0. ~ Idle(x) /\ TabOf[x] \in Tabs
    BY <1>2, <1>t, WritesShape, RunShape
  <2>1. /\ run[x].step \in GatedSteps => bound[l] = ConversationOf[TabOf[x]]
        /\ run[x].step \in SeenSteps => Sent(l)
        /\ run[x].step \in HandedSteps => handoff[l] = "SENT"
    BY <1>2, <2>0 DEF IInv, RunOK, Conversation
  <2>2. handoff[l] = "SENT" => Sent(l)
    BY <1>t DEF IInv, SentIsTrue, Sent, TypeOK
  <2>3. /\ run[x].step \in WriteSteps
        /\ record'[l].tab = TabOf[x] /\ record'[l] \in Record \cup {NoRecord}
        /\ record'[l].state = "SEND_CONFIRMED" => run[x].step = "write_confirmed"
        /\ record'[l].state = "ACKED" => run[x].step = "write_acked"
    BY <1>2, <1>t, WritesShape DEF Storage
  <2>4. bound[l] = ConversationOf[TabOf[x]]
    BY <2>1, <2>3 DEF GatedSteps, AutoSteps, WriteSteps
  <2>5. record'[l].state \in {"SEND_CONFIRMED", "ACKED"} => Sent(l)
    BY <2>1, <2>2, <2>3 DEF SeenSteps, HandedSteps
  <2>6. PICK r \in Record \cup {NoRecord} : r = record'[l]
    BY <2>3
  <2>7. RecordTrue(l, r)
    BY <2>3, <2>4, <2>5, <2>6 DEF RecordTrue
  <2> QED
    BY <1>f, <2>6, <2>7
<1>3. ASSUME NEW x \in Handlers, Writes(x), run[x].launch # l
      PROVE  RecordTrue(l, record[l])'
  <2>1. ~ Idle(x) /\ run[x].snap \in Storage /\ record'[l] = run[x].snap[l]
    BY <1>3, <1>t, WritesShape
  <2>2. run[x].snap # NoSnapshot
    BY <1>3 DEF Writes, WriteClaimed, WriteAttempted, WriteConfirmed, WriteAcked, Write,
       WriteRecord
  <2>3. PICK r \in Record \cup {NoRecord} : r = run[x].snap[l]
    BY <2>1 DEF Storage
  <2>4. RecordTrue(l, r)
    BY <2>1, <2>2, <2>3 DEF IInv, SnapOK
  <2> QED
    BY <1>f, <2>1, <2>3, <2>4
<1> QED
  BY <1>1, <1>2, <1>3, RecordFrame

LEMMA OwnerStep ==
  ASSUME IInv, [Next]_vars
  PROVE  SentInOwner'
<1> SUFFICES ASSUME NEW l \in AutoSend, NEW c \in Conversations, messages'[c][l] > 0
             PROVE  bound'[l] = c
  BY DEF SentInOwner
<1>t. TypeOK /\ l \in Launches
  BY DeliveryAssumption DEF IInv
<1>b. bound[l] = c => bound'[l] = c
  BY <1>t, MonotoneStep DEF Monotone
<1>1. CASE messages'[c][l] = messages[c][l]
  BY <1>1, <1>b DEF IInv, SentInOwner
<1>2. ASSUME NEW x \in Handlers, Click(x), messages'[c][l] # messages[c][l]
      PROVE  bound[l] = c
  <2>1. c = Conversation(x) /\ l = page[TabOf[x]].composer
    BY <1>2, <1>t, ClickShape
  <2>2. TabOf[x] \in Tabs
    BY DeliveryAssumption
  <2> QED
    BY <2>1, <2>2 DEF IInv, PageOK, Conversation
<1> QED
  BY <1>1, <1>2, <1>b, MessageFrame

LEMMA TruthStep ==
  ASSUME IInv, [Next]_vars
  PROVE  SentIsTrue'
<1>t. TypeOK /\ AutoSend \subseteq Launches
  BY DeliveryAssumption DEF IInv
<1>k. \A x \in Handlers : ~ Idle(x) =>
        LET l == run[x].launch
        IN /\ l \in Launches /\ outbox[l] # "NONE"
           /\ l \in AutoSend /\ run[x].step = "mark_sent" => Sent(l)
           /\ l \in AutoSend /\ run[x].step = "mark_acknowledged" => handoff[l] = "SENT"
  BY <1>t, RunShape DEF IInv, RunOK, SeenSteps, HandedSteps, Run
<1>1. ASSUME NEW l \in AutoSend, handoff'[l] = "SENT"
      PROVE  Sent(l)'
  <2>1. CASE handoff[l] = "SENT"
    <3>1. Sent(l)
      BY <1>t, <2>1 DEF IInv, SentIsTrue, Sent, TypeOK
    <3> QED
      BY <1>t, <3>1, SentStays
  <2>2. ASSUME NEW x \in Handlers, MarkHandoffSent(x), handoff[l] # "SENT"
        PROVE  Sent(l)'
    <3>1. run[x].launch = l /\ At(x, "mark_sent")
      BY <1>1, <1>t, <2>2 DEF MarkHandoffSent, TypeOK
    <3>2. Sent(l)
      BY <1>k, <3>1 DEF At, Idle
    <3> QED
      BY <1>t, <3>2, SentStays
  <2>3. ASSUME NEW p \in Publishers, NEW m \in Launches, PrepareLaunch(p, m)
        PROVE  handoff[l] = "SENT"
    BY <1>1, <1>t, <2>3 DEF PrepareLaunch, TypeOK
  <2>4. \/ UNCHANGED handoff
        \/ \E p \in Publishers, m \in Launches : PrepareLaunch(p, m)
        \/ \E x \in Handlers : MarkHandoffSent(x)
    BY MemoryFrame DEF memory, ContinueLaunch, MarkOutboxPublished, BindingEnds,
       BindConversation, MarkOutboxAcknowledged
  <2> QED
    BY <1>1, <2>1, <2>2, <2>3, <2>4
<1>2. ASSUME NEW l \in AutoSend, outbox'[l] = "ACKNOWLEDGED"
      PROVE  handoff'[l] = "SENT"
  <2>0. outbox[l] # "NONE" /\ handoff[l] = "SENT" => handoff'[l] = "SENT"
    BY <1>t, MonotoneStep DEF Monotone
  <2>1. CASE outbox[l] = "ACKNOWLEDGED"
    BY <2>0, <2>1 DEF IInv, SentIsTrue
  <2>2. ASSUME NEW x \in Handlers, MarkOutboxAcknowledged(x), outbox[l] # "ACKNOWLEDGED"
        PROVE  handoff'[l] = "SENT"
    <3>1. run[x].launch = l /\ At(x, "mark_acknowledged")
      BY <1>2, <1>t, <2>2 DEF MarkOutboxAcknowledged, TypeOK
    <3> QED
      BY <1>k, <2>0, <3>1 DEF At, Idle
  <2>3. ASSUME NEW p \in Publishers, MarkOutboxPublished(p)
        PROVE  outbox[l] = "ACKNOWLEDGED"
    BY <1>2, <1>t, <2>3 DEF MarkOutboxPublished, TypeOK
  <2>4. ASSUME NEW p \in Publishers, NEW m \in Launches, PrepareLaunch(p, m)
        PROVE  outbox[l] = "ACKNOWLEDGED"
    BY <1>2, <1>t, <2>4 DEF PrepareLaunch, TypeOK
  <2>5. \/ UNCHANGED outbox
        \/ \E p \in Publishers, m \in Launches : PrepareLaunch(p, m)
        \/ \E p \in Publishers : MarkOutboxPublished(p)
        \/ \E x \in Handlers : MarkOutboxAcknowledged(x)
    BY MemoryFrame DEF memory, ContinueLaunch, BindingEnds, BindConversation, MarkHandoffSent
  <2> QED
    BY <1>2, <2>1, <2>2, <2>3, <2>4, <2>5
<1>3. \A l \in AutoSend : Sent(l)' => bound'[l] # NoConversation /\ messages'[bound'[l]][l] > 0
  BY DeliveryAssumption DEF Sent
<1> QED
  BY <1>1, <1>2, <1>3 DEF SentIsTrue

LEMMA InitIInv == Init => IInv
<1> SUFFICES ASSUME Init PROVE IInv
  OBVIOUS
<1>0. 0 \in Loads /\ 0 \in 0..MaxSends /\ Budget["reload"] \in Nat
  BY DeliveryAssumption DEF Loads, Disturbances
<1>1. FreshPage(0) \in Page
  BY <1>0 DEF FreshPage, Page
<1>2. TypeOK
  BY <1>0, <1>1, DeliveryAssumption DEF Init, TypeOK, Storage
<1>3. LoadsBounded
  BY <1>0 DEF Init, LoadsBounded, FreshPage
<1>4. Prepared /\ \A x \in Handlers : RunOK(x) /\ SnapOK(x)
  BY DEF Init, Prepared, RunOK, SnapOK, Idle, IdleRun, IdlePublisher, EmptyQueue
<1>5. \A t \in Tabs : PageOK(t)
  BY DeliveryAssumption DEF Init, PageOK, FreshPage
<1>6. (\A l \in Launches : RecordOK(l)) /\ SentInOwner /\ SentIsTrue
  BY DeliveryAssumption DEF Init, RecordOK, RecordTrue, SentInOwner, SentIsTrue
<1> QED
  BY <1>2, <1>3, <1>4, <1>5, <1>6 DEF IInv

LEMMA NextIInv ==
  ASSUME IInv, [Next]_vars
  PROVE  IInv'
<1>1. TypeOK' /\ LoadsBounded'
  BY TypeStep DEF IInv
<1>2. Prepared'
  BY PreparedStep DEF IInv
<1>3. ASSUME NEW x \in Handlers PROVE RunOK(x)'
  BY RunFrame, WorkRunOK, IdleRunOK, SameRunOK DEF IInv
<1> QED
  BY <1>1, <1>2, <1>3, SnapsStep, PagesStep, RecordsStep, OwnerStep, TruthStep DEF IInv

-----------------------------------------------------------------------------
(* Sent once *)

(* The way of a run to the click: where it comes from, and what it leaves  *)
(* alone on the way.                                                       *)
Moves(x) ==
    LET l == run[x].launch
        step == run'[x].step
    IN /\ ~ Idle(x) /\ run'[x].launch = l /\ run'[x].live = run[x].live
       /\ step \in {"host_peek", "bind", "claim", "status"} =>
            /\ UNCHANGED record
            /\ \/ run'[x].existing = OwnRecord(x)
               \/ run'[x].existing = run[x].existing
                  /\ run[x].step \in {"host_peek", "bind", "claim"}
       /\ step = "write_claimed" =>
            /\ UNCHANGED record
            /\ At(x, "write_claimed") \/ (At(x, "status") /\ Resume(x) = "write_claimed")
       /\ step = "insert" => WriteClaimed(x)
       /\ step = "gate" => UNCHANGED record /\ At(x, "insert")
       /\ step = "write_attempted" =>
            /\ UNCHANGED <<record, page>>
            /\ At(x, "write_attempted") \/ (At(x, "gate") /\ page[TabOf[x]].composer = l)
       /\ step = "click" => WriteAttempted(x)
       /\ step = "verify" => UNCHANGED record /\ At(x, "click")
       /\ step = "write_confirmed" =>
            /\ UNCHANGED record
            /\ \/ At(x, "verify") \/ At(x, "write_confirmed")
               \/ At(x, "status") /\ Resume(x) = "write_confirmed"

LEMMA WorkMoves ==
  ASSUME TypeOK, NEW x \in Handlers, Work(x), run'[x] # IdleRun
  PROVE  HandleLaunch(x) \/ Moves(x)
<1>n. ~ Idle(x) => run[x] \in Run
  BY RunShape
<1>r. ~ Return(x)
  BY ReturnShape
<1>s. ~ AutoStop(TabOf[x], x)
  BY AutoStopShape, RunShape
<1>g. ASSUME NEW s \in AllSteps, ~ Idle(x), Goto(x, s)
      PROVE  /\ run'[x].step = s /\ run'[x].launch = run[x].launch
             /\ run'[x].live = run[x].live /\ run'[x].existing = run[x].existing
  <2>1. run'[x] = [run[x] EXCEPT !.step = s]
    BY <1>g, GotoShape
  <2> QED
    BY <1>g, <1>n, <2>1 DEF Run
<1> USE DEF AllSteps, HostSteps, PageSteps, WriteSteps
<1>2. CASE ReadBindings(x)
  <2>0. ~ Idle(x) /\ run[x] \in Run
    BY <1>2, <1>n DEF ReadBindings, At, Idle
  <2>1. run'[x] = [run[x] EXCEPT !.step = "host_peek", !.existing = OwnRecord(x),
                     !.claim = IF OwnRecord(x) = NoRecord THEN @ ELSE OwnRecord(x).claim]
    BY <1>2, <1>r DEF ReadBindings, TypeOK
  <2>2. /\ run'[x].step = "host_peek" /\ run'[x].launch = run[x].launch
        /\ run'[x].live = run[x].live /\ run'[x].existing = OwnRecord(x)
    BY <2>0, <2>1 DEF Run
  <2>3. UNCHANGED record
    BY <1>2 DEF ReadBindings
  <2> QED
    BY <2>0, <2>2, <2>3 DEF Moves
<1>3. CASE HostPeek(x)
  <2>1. UNCHANGED record /\ run[x].step = "host_peek" /\ ~ Idle(x)
    BY <1>3 DEF HostPeek, At, Idle
  <2>2. Goto(x, "bind") \/ Goto(x, "claim")
    BY <1>3 DEF HostPeek
  <2> QED
    BY <1>g, <2>1, <2>2 DEF Moves
<1>4. CASE BindConversation(x)
  <2>1. UNCHANGED record /\ run[x].step = "bind" /\ ~ Idle(x) /\ Goto(x, "claim")
    BY <1>4, <1>r DEF BindConversation, At, Idle
  <2> QED
    BY <1>g, <2>1 DEF Moves
<1>5. CASE QueueClaim(x)
  <2>1. UNCHANGED record /\ run[x].step = "claim" /\ ~ Idle(x) /\ Goto(x, "status")
    BY <1>5, <1>r DEF QueueClaim, At, Idle
  <2> QED
    BY <1>g, <2>1 DEF Moves
<1>6. CASE ReadStatus(x)
  <2>0. ~ Idle(x) /\ run[x] \in Run /\ At(x, "status") /\ UNCHANGED record
    BY <1>6, <1>n DEF ReadStatus, At, Idle
  <2> DEFINE b == IF run[x].existing = NoRecord THEN 0 ELSE run[x].existing.baseline
             r == [run[x] EXCEPT !.step = Resume(x),
                                 !.sent = (handoff[run[x].launch] = "SENT"), !.baseline = b]
  <2>1. run'[x] = r
    BY <1>6, <1>r, <1>s DEF ReadStatus, TypeOK
  <2> HIDE DEF b
  <2>3. /\ run'[x].step = Resume(x) /\ run'[x].launch = run[x].launch
        /\ run'[x].live = run[x].live
    BY <2>0, <2>1 DEF Run
  <2> QED
    BY <2>0, <2>3, ResumeShape DEF Moves
<1>7. CASE WriteClaimed(x) \/ WriteAttempted(x) \/ WriteConfirmed(x)
  <2>0. ~ Idle(x) /\ run[x] \in Run
    BY <1>7, <1>n DEF WriteClaimed, WriteAttempted, WriteConfirmed, Write, At, Idle
  <2>1. PICK s \in {"insert", "click", "ack_read"} :
          /\ run'[x] = [run[x] EXCEPT !.step = s, !.snap = NoSnapshot]
          /\ s = "insert" => WriteClaimed(x)
          /\ s = "click" => WriteAttempted(x)
    BY <1>7 DEF WriteClaimed, WriteAttempted, WriteConfirmed, Write, TypeOK
  <2>2. run'[x].step = s /\ run'[x].launch = run[x].launch /\ run'[x].live = run[x].live
    BY <2>0, <2>1 DEF Run
  <2> QED
    BY <2>0, <2>1, <2>2 DEF Moves
<1>17. CASE ReadStorage(x)
  <2>0. ~ Idle(x) /\ run[x] \in Run /\ UNCHANGED <<record, page>> /\ run[x].step \in WriteSteps
    BY <1>17, <1>n DEF ReadStorage, Idle
  <2> DEFINE v == [record EXCEPT ![run[x].launch] = NoRecord]
  <2>1. run'[x] = [run[x] EXCEPT !.snap = v]
    BY <1>17 DEF ReadStorage, TypeOK
  <2> HIDE DEF v
  <2>2. /\ run'[x].step = run[x].step /\ run'[x].launch = run[x].launch
        /\ run'[x].live = run[x].live
    BY <2>0, <2>1 DEF Run
  <2> QED
    BY <2>0, <2>2 DEF Moves, At
<1>8. CASE Insert(x)
  <2>0. ~ Idle(x) /\ run[x] \in Run /\ At(x, "insert") /\ UNCHANGED record
    BY <1>8, <1>n DEF Insert, At, Idle
  <2>1. PICK s \in {"queue_ack", "ack_read", "gate"} :
          run'[x] = [run[x] EXCEPT !.step = s, !.inserting = TRUE, !.cancelled = FALSE]
    <3>1. \A v : AfterInsert(x, v) \in {"idle", "queue_ack", "ack_read", "gate"}
      BY DEF AfterInsert
    <3>2. PICK s \in {"idle", "queue_ack", "ack_read", "gate"} :
            run'[x] = IF s = "idle" THEN IdleRun
                      ELSE [run[x] EXCEPT !.step = s, !.inserting = TRUE, !.cancelled = FALSE]
      <4>1. PICK v \in Visible(x) :
              LET next == IF page[TabOf[x]].composer \in {NoLaunch, run[x].launch}
                            THEN AfterInsert(x, v) ELSE "idle"
              IN run' = [run EXCEPT ![x] = IF next = "idle" THEN IdleRun
                           ELSE [@ EXCEPT !.step = next, !.inserting = TRUE, !.cancelled = FALSE]]
        BY <1>8 DEF Insert
      <4> QED
        BY <3>1, <4>1 DEF TypeOK
    <3> QED
      BY <3>2
  <2>2. /\ run'[x].step = s /\ run'[x].launch = run[x].launch /\ run'[x].live = run[x].live
    BY <2>0, <2>1 DEF Run
  <2> QED
    BY <2>0, <2>2 DEF Moves
<1>9. CASE SendGate(x)
  <2>0. ~ Idle(x) /\ run[x] \in Run /\ At(x, "gate") /\ UNCHANGED record
    BY <1>9, <1>n DEF SendGate, At, Idle
  <2>1. /\ run'[x] = [run[x] EXCEPT !.step = "write_attempted",
                                    !.baseline = page[TabOf[x]].shown[run[x].launch]]
        /\ page[TabOf[x]].composer = run[x].launch /\ UNCHANGED page
    BY <1>9, <1>r, <1>s DEF SendGate, TypeOK
  <2>2. /\ run'[x].step = "write_attempted" /\ run'[x].launch = run[x].launch
        /\ run'[x].live = run[x].live
    BY <2>0, <2>1 DEF Run
  <2> QED
    BY <2>0, <2>1, <2>2 DEF Moves
<1>12. CASE AckRead(x)
  <2>0. ~ Idle(x) /\ run[x] \in Run
    BY <1>12, <1>n DEF AckRead, At, Idle
  <2>1. run'[x] = [run[x] EXCEPT !.step = "ack_owns", !.sent = (handoff[run[x].launch] = "SENT")]
    BY <1>12, <1>r DEF AckRead, TypeOK
  <2>2. /\ run'[x].step = "ack_owns" /\ run'[x].launch = run[x].launch
        /\ run'[x].live = run[x].live
    BY <2>0, <2>1 DEF Run
  <2> QED
    BY <2>0, <2>2 DEF Moves
<1>10. CASE Click(x)
  <2>0. ~ Idle(x) /\ run[x] \in Run /\ At(x, "click") /\ UNCHANGED record
    BY <1>10, <1>n DEF Click, At, Idle
  <2>1. run'[x] = [run[x] EXCEPT !.step = "verify"]
    BY <1>10 DEF Click, TypeOK
  <2>2. run'[x].step = "verify" /\ run'[x].launch = run[x].launch /\ run'[x].live = run[x].live
    BY <2>0, <2>1 DEF Run
  <2> QED
    BY <2>0, <2>2 DEF Moves
<1>11. CASE VerifySend(x)
  <2>1. UNCHANGED record /\ At(x, "verify") /\ ~ Idle(x) /\ Goto(x, "write_confirmed")
    BY <1>11, <1>r DEF VerifySend, At, Idle
  <2> QED
    BY <1>g, <2>1 DEF Moves
<1>o. CASE \/ WriteAcked(x) \/ AckOwns(x) \/ MarkHandoffSent(x)
           \/ MarkOutboxAcknowledged(x) \/ QueueAcknowledge(x)
  <2>1. ~ Idle(x)
    BY <1>o DEF WriteAcked, Write, AckOwns, MarkHandoffSent, MarkOutboxAcknowledged,
       QueueAcknowledge, At, Idle
  <2>2. \E s \in {"write_acked", "mark_sent", "mark_acknowledged", "queue_ack"} : Goto(x, s)
    BY <1>o, <1>r DEF WriteAcked, Write, AckOwns, MarkHandoffSent, MarkOutboxAcknowledged,
       QueueAcknowledge
  <2> QED
    BY <1>g, <2>1, <2>2 DEF Moves
<1> QED
  BY <1>2, <1>3, <1>4, <1>5, <1>6, <1>7, <1>8, <1>9, <1>10, <1>11, <1>12, <1>17, <1>o
     DEF Work, Proceed

(* A run that is alive afterwards was alive before, or has just started. *)
LEMMA AliveFrame ==
  ASSUME TypeOK, [Next]_vars, NEW x \in Handlers, Alive(x)'
  PROVE  \/ HandleLaunch(x)
         \/ /\ Alive(x) /\ ~ Idle(x) /\ run'[x].launch = run[x].launch
            /\ (Work(x) /\ Moves(x)) \/ (~ Work(x) /\ Same(x))
<1>0. run'[x] # IdleRun /\ run'[x].live
  BY DEF Alive
<1>1. Work(x) => HandleLaunch(x) \/ Moves(x)
  BY <1>0, WorkMoves
<1>2. ASSUME Moves(x) PROVE Alive(x) /\ ~ Idle(x) /\ run'[x].launch = run[x].launch
  BY <1>0, <1>2, RunShape DEF Moves, Alive
<1>3. ASSUME Same(x) PROVE Alive(x) /\ ~ Idle(x) /\ run'[x].launch = run[x].launch
  <2>1. ~ Idle(x)
    BY <1>0, <1>3, RunShape DEF Same, Run, IdleRun
  <2> QED
    BY <1>0, <1>3, <2>1, RunShape, SameFields DEF Alive
<1> QED
  <2>1. Work(x) \/ Same(x)
    BY <1>0, RunFrame
  <2>2. CASE Work(x)
    BY <1>1, <1>2, <2>2
  <2>3. CASE ~ Work(x)
    BY <1>3, <2>1, <2>3
  <2> QED
    BY <2>2, <2>3

(* A run that writes a record or clicks is alive. *)
LEMMA WritersAlive ==
  ASSUME IInv, NEW y \in Handlers, Writes(y) \/ Click(y)
  PROVE  /\ Alive(y) /\ ~ Idle(y) /\ run[y].launch \in Launches
         /\ run[y].step \in GatedSteps
         /\ Writes(y) => run[y].step \in WriteSteps
         /\ Click(y) => run[y].launch \in AutoSend /\ run[y].step = "click"
<1>1. /\ run[y].step \in {"write_claimed", "write_attempted", "write_confirmed",
                          "write_acked", "click"}
      /\ Writes(y) => run[y].step # "click"
      /\ Click(y) => run[y].step = "click"
  BY DEF Writes, WriteClaimed, WriteAttempted, WriteConfirmed, WriteAcked, Write, Click, At
<1>2. ~ Idle(y)
  BY <1>1 DEF Idle
<1>3. run[y] \in Run /\ run[y] # IdleRun
  BY <1>2, RunShape DEF IInv
<1>4. run[y].live /\ (run[y].step = "click" => run[y].launch \in AutoSend)
  BY <1>1, <1>2 DEF IInv, RunOK, PageSteps, WriteSteps, AutoSteps
<1> QED
  BY <1>1, <1>2, <1>3, <1>4 DEF Alive, Run, GatedSteps, AutoSteps, WriteSteps

(* What a click sends is the launch of the run, which nobody has sent. *)
LEMMA ClickSends ==
  ASSUME IInv, OInv, NEW x \in Handlers, Click(x)
  PROVE  LET l == run[x].launch
         IN /\ l \in AutoSend /\ record[l].state = "SEND_ATTEMPTED" /\ Unsent(l)
            /\ \/ UNCHANGED messages
               \/ \A c \in Conversations, k \in Launches :
                     messages'[c][k] = IF c = Conversation(x) /\ k = l
                                         THEN messages[c][k] + 1 ELSE messages[c][k]
<1>1. Alive(x) /\ run[x].launch \in AutoSend /\ run[x].step = "click"
  BY WritersAlive
<1>2. /\ page[TabOf[x]].composer = run[x].launch
      /\ record[run[x].launch].state = "SEND_ATTEMPTED" /\ Unsent(run[x].launch)
  BY <1>1 DEF OInv, SendOK
<1> QED
  BY <1>1, <1>2, ClickShape DEF IInv

(* A write leaves the records of the other launches alone. *)
LEMMA OthersKept ==
  ASSUME RaceFree, IInv, NEW y \in Handlers, Writes(y), NEW l \in AutoSend, run[y].launch # l
  PROVE  record'[l] = record[l]
<1>1. TypeOK /\ l \in Launches
  BY DeliveryAssumption DEF IInv
<1>2. Alive(y) /\ run[y].launch \in Launches
  BY WritersAlive
<1>3. record'[l] = run[y].snap[l]
  BY <1>1, WritesShape
<1>4. run[y].snap # NoSnapshot
  BY DEF Writes, WriteClaimed, WriteAttempted, WriteConfirmed, WriteAcked, Write, WriteRecord
<1> QED
  BY <1>2, <1>3, <1>4 DEF RaceFree, FreshReads

(* The steps on which a run relies on the record of its launch. *)
SendSteps == {"write_claimed", "insert", "gate", "write_attempted", "click", "verify",
              "write_confirmed"}

(* Nobody else changes the record or the messages of a launch on its way. *)
LEMMA OnlyTheRun ==
  ASSUME RaceFree, RaceFree', IInv, OInv, [Next]_vars, NEW x \in Handlers, ~ Work(x), Alive(x),
         NEW l \in AutoSend, l = run[x].launch, run[x].step \in SendSteps, Same(x), Alive(x)'
  PROVE  /\ record'[l] = record[l]
         /\ \A c \in Conversations : messages'[c][l] = messages[c][l]
<1>t. TypeOK /\ l \in Launches /\ ~ Idle(x)
  BY RunShape, DeliveryAssumption DEF IInv, Alive
<1>p. SendSteps \subseteq PageSteps \ {"read", "status"}
  BY DEF SendSteps, PageSteps, WriteSteps
<1>x. run'[x].step = run[x].step /\ run'[x].launch = l
  BY <1>t, SameFields
<1>o. record[l] = NoRecord \/ record[l].tab = TabOf[x]
  BY <1>p DEF RaceFree, OwnRecords
<1>q. record'[l] = NoRecord \/ record'[l].tab = TabOf[x]
  BY <1>p, <1>x DEF RaceFree, OwnRecords
<1>1. ASSUME NEW y \in Handlers, Writes(y) \/ Click(y), TabOf[y] = TabOf[x]
      PROVE  FALSE
  <2>1. Work(y) /\ Alive(y)
    BY <1>1, WritersAlive DEF Writes, Work, Proceed
  <2> QED
    BY <1>1, <2>1 DEF RaceFree, OneRun
<1>2. ASSUME NEW y \in Handlers, Writes(y)
      PROVE  record'[l] = record[l]
  <2>1. CASE run[y].launch = l
    <3>1. record'[l] # NoRecord /\ record'[l].tab = TabOf[y]
      BY <1>2, <1>t, <2>1, WritesShape
    <3> QED
      BY <1>1, <1>2, <1>q, <3>1
  <2>2. CASE run[y].launch # l
    BY <1>2, <2>2, OthersKept
  <2> QED
    BY <2>1, <2>2
<1>3. ASSUME NEW y \in Handlers, Click(y)
      PROVE  \A c \in Conversations : messages'[c][l] = messages[c][l]
  <2>1. CASE run[y].launch = l
    <3>1. record[l].state = "SEND_ATTEMPTED"
      BY <1>3, <2>1, ClickSends
    <3>2. record[l] # NoRecord
      BY <3>1 DEF NoRecord
    <3>3. Alive(y) /\ run[y].step \in PageSteps \ {"read", "status"}
      BY <1>3, WritersAlive DEF PageSteps
    <3>4. record[l].tab = TabOf[y]
      BY <2>1, <3>2, <3>3 DEF RaceFree, OwnRecords
    <3> QED
      BY <1>1, <1>3, <1>o, <3>2, <3>4
  <2>2. CASE run[y].launch # l
    BY <1>3, <1>t, <2>2, ClickSends
  <2> QED
    BY <2>1, <2>2
<1> QED
  BY <1>2, <1>3, RecordFrame, MessageFrame

(* The record a run has read at the start stays the one of its tab, or     *)
(* another tab has written.                                                *)
LEMMA OwnRecordStep ==
  ASSUME RaceFree, IInv, [Next]_vars, NEW x \in Handlers, Alive(x), ~ Work(x), Same(x),
         run[x].launch \in AutoSend, run[x].existing = OwnRecord(x) \/ Foreign(x)
  PROVE  run'[x].existing = OwnRecord(x)' \/ Foreign(x)'
<1>t. TypeOK
  BY DEF IInv
<1>n. ~ Idle(x) /\ run[x] \in Run
  BY <1>t, RunShape DEF Alive
<1>l. PICK l \in Launches : /\ l = run[x].launch /\ run'[x].launch = l /\ l \in AutoSend
                            /\ run'[x].existing = run[x].existing
  BY <1>n, <1>t, SameFields, DeliveryAssumption
<1>1. ASSUME record'[l] = record[l]
      PROVE  run'[x].existing = OwnRecord(x)' \/ Foreign(x)'
  BY <1>1, <1>l DEF OwnRecord, Foreign
<1>2. ASSUME NEW y \in Handlers, Writes(y), run[y].launch = l
      PROVE  Foreign(x)'
  <2>1. Work(y) /\ Alive(y)
    BY <1>2, WritersAlive DEF Writes, Work, Proceed
  <2>2. TabOf[y] # TabOf[x]
    BY <2>1 DEF RaceFree, OneRun
  <2>3. record'[l] # NoRecord /\ record'[l].tab = TabOf[y]
    BY <1>2, <1>t, WritesShape
  <2> QED
    BY <1>l, <2>2, <2>3 DEF Foreign
<1>3. ASSUME NEW y \in Handlers, Writes(y), run[y].launch # l
      PROVE  record'[l] = record[l]
  BY <1>3, <1>l, OthersKept
<1> QED
  BY <1>1, <1>2, <1>3, RecordFrame

(* The composer stays as it is until the run of the page clicks. *)
LEMMA ComposerStep ==
  ASSUME RaceFree, IInv, [Next]_vars, NEW x \in Handlers, Alive(x), ~ Work(x), Alive(x)',
         run[x].step \in {"write_attempted", "click"}
  PROVE  page'[TabOf[x]].composer = page[TabOf[x]].composer
<1>t. TypeOK /\ TabOf[x] \in Tabs
  BY DeliveryAssumption DEF IInv
<1>1. ASSUME NEW y \in Handlers, TabOf[y] = TabOf[x], Click(y) \/ Insert(y)
      PROVE  FALSE
  <2>1. Work(y) /\ y # x
    BY <1>1 DEF Work, Proceed
  <2>2. ~ Idle(y) /\ run[y].step \in PageSteps
    BY <1>1 DEF Click, Insert, At, Idle, PageSteps
  <2>3. Alive(y)
    BY <1>t, <2>2, RunShape DEF IInv, RunOK, Alive
  <2> QED
    BY <1>1, <2>1, <2>3 DEF RaceFree, OneRun
<1>2. ~ Reload(TabOf[x])
  <2>1. ASSUME Reload(TabOf[x]) PROVE run'[x] = IdleRun
    BY <2>1 DEF Reload, HostSteps
  <2> QED
    BY <2>1 DEF Alive
<1>3. ASSUME NEW q, PageChange(TabOf[x], q)
      PROVE  q.composer = page[TabOf[x]].composer
  BY <1>1, <1>3 DEF PageChange
<1> QED
  BY <1>2, <1>3, <1>t, PageFrame DEF PageStep, TypeOK

(* Once the status is read, the record a run has read is the record of the *)
(* launch: no other tab has written one.                                   *)
LEMMA GatedRecord ==
  ASSUME RaceFree', IInv, OInv, NEW x \in Handlers, Alive(x), At(x, "status"), Alive(x)',
         NEW l \in AutoSend, l = run[x].launch, run'[x].launch = l,
         run'[x].step \in {"write_claimed", "write_confirmed"}, UNCHANGED record
  PROVE  run[x].existing = record[l] /\ record[l] \in Record \cup {NoRecord}
<1>1. run[x].existing = OwnRecord(x) \/ Foreign(x)
  BY DEF OInv, SendOK, At
<1>2. record[l] \in Record \cup {NoRecord}
  BY DeliveryAssumption DEF IInv, TypeOK, Storage
<1>3. record[l] = NoRecord \/ record[l].tab = TabOf[x]
  BY DEF RaceFree, OwnRecords, PageSteps, WriteSteps
<1> QED
  BY <1>1, <1>2, <1>3 DEF OwnRecord, Foreign

LEMMA SendOKStep ==
  ASSUME RaceFree, RaceFree', IInv, OInv, [Next]_vars, NEW x \in Handlers
  PROVE  SendOK(x)'
<1>t. TypeOK /\ SendOK(x) /\ TabOf[x] \in Tabs
  BY DeliveryAssumption DEF IInv, OInv
<1> SUFFICES ASSUME Alive(x)', NEW l \in AutoSend, run'[x].launch = l
    PROVE  /\ run'[x].step \in {"host_peek", "bind", "claim", "status"} =>
                 run'[x].existing = OwnRecord(x)' \/ Foreign(x)'
           /\ run'[x].step \in {"write_claimed", "insert", "gate", "write_attempted"} =>
                 record'[l].state \in {"NONE", "CLAIMED"}
           /\ run'[x].step \in {"write_attempted", "click"} => page'[TabOf[x]].composer = l
           /\ run'[x].step \in {"click", "verify", "write_confirmed"} =>
                 record'[l].state = "SEND_ATTEMPTED"
           /\ run'[x].step = "click" => \A c \in Conversations : messages'[c][l] = 0
  BY DEF SendOK, Unsent
<1>l. l \in Launches
  BY DeliveryAssumption
<1>1. CASE HandleLaunch(x)
  <2>1. run'[x].step = "read"
    BY <1>1, <1>t DEF HandleLaunch, TypeOK
  <2> QED
    BY <2>1
<1>2. CASE Alive(x) /\ ~ Idle(x) /\ run[x].launch = l /\ ~ Work(x) /\ Same(x)
  <2>1. run'[x].step = run[x].step /\ run'[x].existing = run[x].existing
    BY <1>2, <1>t, SameFields
  <2>2. run[x].existing = OwnRecord(x) \/ Foreign(x) =>
          run'[x].existing = OwnRecord(x)' \/ Foreign(x)'
    BY <1>2, OwnRecordStep
  <2>3. run[x].step \in SendSteps =>
          record'[l] = record[l] /\ \A c \in Conversations : messages'[c][l] = messages[c][l]
    BY <1>2, OnlyTheRun
  <2>4. run[x].step \in {"write_attempted", "click"} =>
          page'[TabOf[x]].composer = page[TabOf[x]].composer
    BY <1>2, <1>t, ComposerStep
  <2>5. /\ run[x].step \in {"host_peek", "bind", "claim", "status"} =>
             run[x].existing = OwnRecord(x) \/ Foreign(x)
        /\ run[x].step \in {"write_claimed", "insert", "gate", "write_attempted"} =>
             record[l].state \in {"NONE", "CLAIMED"}
        /\ run[x].step \in {"write_attempted", "click"} => page[TabOf[x]].composer = l
        /\ run[x].step \in {"click", "verify", "write_confirmed"} =>
             record[l].state = "SEND_ATTEMPTED"
        /\ run[x].step = "click" => \A c \in Conversations : messages[c][l] = 0
    BY <1>2, <1>t DEF SendOK, Unsent
  <2> QED
    BY <2>1, <2>2, <2>3, <2>4, <2>5 DEF SendSteps
<1>3. CASE Alive(x) /\ ~ Idle(x) /\ run[x].launch = l /\ Work(x) /\ Moves(x)
  <2>k. /\ run[x].step \in {"host_peek", "bind", "claim", "status"} =>
             run[x].existing = OwnRecord(x) \/ Foreign(x)
        /\ run[x].step \in {"write_claimed", "insert", "gate", "write_attempted"} =>
             record[l].state \in {"NONE", "CLAIMED"}
        /\ run[x].step \in {"write_attempted", "click"} => page[TabOf[x]].composer = l
        /\ run[x].step \in {"click", "verify", "write_confirmed"} =>
             record[l].state = "SEND_ATTEMPTED"
    BY <1>3, <1>t DEF SendOK
  <2>1. ASSUME run'[x].step \in {"host_peek", "bind", "claim", "status"}
        PROVE  run'[x].existing = OwnRecord(x)' \/ Foreign(x)'
    <3>1. UNCHANGED record /\ (run'[x].existing = OwnRecord(x) \/ Foreign(x))
      BY <1>3, <2>1, <2>k DEF Moves
    <3> QED
      BY <1>3, <3>1 DEF OwnRecord, Foreign
  <2>2. ASSUME run'[x].step = "write_claimed"
        PROVE  record'[l].state \in {"NONE", "CLAIMED"}
    <3>0. UNCHANGED record
      BY <1>3, <2>2 DEF Moves
    <3>1. CASE At(x, "write_claimed")
      BY <2>k, <3>0, <3>1 DEF At
    <3>2. CASE At(x, "status") /\ Resume(x) = "write_claimed"
      <4>1. record[l] = run[x].existing /\ record[l] \in Record \cup {NoRecord}
        BY <1>3, <2>2, <3>0, <3>2, GatedRecord
      <4>2. run[x].existing.state \notin {"SEND_ATTEMPTED", "SEND_CONFIRMED", "ACKED"}
        BY <1>3, <3>2 DEF Resume
      <4> QED
        BY <3>0, <4>1, <4>2 DEF Record, RecordStates, NoRecord
    <3> QED
      BY <1>3, <2>2, <3>1, <3>2 DEF Moves
  <2>3. ASSUME run'[x].step = "insert"
        PROVE  record'[l].state \in {"NONE", "CLAIMED"}
    <3>1. WriteClaimed(x) /\ At(x, "write_claimed")
      BY <1>3, <2>3 DEF Moves, WriteClaimed, Write
    <3> QED
      BY <1>3, <1>l, <1>t, <3>1, WritesShape DEF Writes, At
  <2>4. ASSUME run'[x].step \in {"gate", "write_attempted"}
        PROVE  record'[l].state \in {"NONE", "CLAIMED"}
    BY <1>3, <2>4, <2>k DEF Moves, At
  <2>5. run'[x].step = "write_attempted" => page'[TabOf[x]].composer = l
    BY <1>3, <2>k DEF Moves, At
  <2>6. ASSUME run'[x].step = "click"
        PROVE  /\ page'[TabOf[x]].composer = l
               /\ record'[l].state = "SEND_ATTEMPTED"
               /\ \A c \in Conversations : messages'[c][l] = 0
    <3>1. WriteAttempted(x)
      BY <1>3, <2>6 DEF Moves
    <3>2. run[x].step = "write_attempted" /\ UNCHANGED <<messages, page>>
      BY <3>1 DEF WriteAttempted, Write, At
    <3>3. record'[l].state = "SEND_ATTEMPTED"
      BY <1>3, <1>t, <3>1, <3>2, WritesShape DEF Writes
    <3>4. Unsent(l)
      BY <2>k, <3>2 DEF OInv, MessagesRecorded
    <3> QED
      BY <2>k, <3>2, <3>3, <3>4 DEF Unsent
  <2>7. ASSUME run'[x].step = "verify"
        PROVE  record'[l].state = "SEND_ATTEMPTED"
    BY <1>3, <2>7, <2>k DEF Moves, At
  <2>8. ASSUME run'[x].step = "write_confirmed"
        PROVE  record'[l].state = "SEND_ATTEMPTED"
    <3>0. UNCHANGED record
      BY <1>3, <2>8 DEF Moves
    <3>1. CASE At(x, "verify") \/ At(x, "write_confirmed")
      BY <2>k, <3>0, <3>1 DEF At
    <3>2. CASE At(x, "status") /\ Resume(x) = "write_confirmed"
      <4>1. record[l] = run[x].existing
        BY <1>3, <2>8, <3>0, <3>2, GatedRecord
      <4> QED
        BY <3>0, <3>2, <4>1 DEF Resume
    <3> QED
      BY <1>3, <2>8, <3>1, <3>2 DEF Moves
  <2> QED
    BY <2>1, <2>2, <2>3, <2>4, <2>5, <2>6, <2>7, <2>8
<1> QED
  BY <1>1, <1>2, <1>3, <1>t, AliveFrame

LEMMA OnceStep ==
  ASSUME RaceFree, IInv, OInv, [Next]_vars
  PROVE  MessagesRecorded' /\ SendOnce'
<1>t. TypeOK /\ AutoSend \subseteq Launches
  BY DeliveryAssumption DEF IInv
<1>m. \A c \in Conversations, l \in Launches : messages[c][l] \in Nat
  BY <1>t, DeliveryAssumption DEF TypeOK
<1>1. ASSUME NEW l \in AutoSend, record'[l].state \in {"NONE", "CLAIMED"}
      PROVE  \A c \in Conversations : messages'[c][l] = 0
  <2>1. record[l].state \in {"NONE", "CLAIMED"}
    <3>1. ASSUME NEW x \in Handlers, Writes(x), run[x].launch = l
          PROVE  record[l].state \in {"NONE", "CLAIMED"}
      <4>1. run[x].step = "write_claimed"
        BY <1>1, <1>t, <3>1, WritesShape
      <4> QED
        BY <3>1, <4>1, WritersAlive DEF OInv, SendOK
    <3>2. ASSUME NEW x \in Handlers, Writes(x), run[x].launch # l
          PROVE  record'[l] = record[l]
      BY <3>2, OthersKept
    <3> QED
      BY <1>1, <3>1, <3>2, RecordFrame
  <2>2. \A c \in Conversations : messages[c][l] = 0
    BY <2>1 DEF OInv, MessagesRecorded, Unsent
  <2>3. ASSUME NEW x \in Handlers, Click(x)
        PROVE  \A c \in Conversations : messages'[c][l] = messages[c][l]
    <3>1. record[run[x].launch].state = "SEND_ATTEMPTED"
      BY <2>3, ClickSends
    <3>2. run[x].launch # l
      BY <2>1, <3>1
    <3> QED
      BY <1>t, <2>3, <3>2, ClickSends
  <2> QED
    BY <2>2, <2>3, MessageFrame
<1>2. ASSUME NEW l \in AutoSend, NEW c \in Conversations, NEW d \in Conversations
      PROVE  messages'[c][l] + (IF c = d THEN 0 ELSE messages'[d][l]) <= 1
  <2>1. CASE UNCHANGED messages
    BY <2>1 DEF OInv, SendOnce
  <2>2. ASSUME NEW x \in Handlers, Click(x), ~ UNCHANGED messages
        PROVE  messages'[c][l] + (IF c = d THEN 0 ELSE messages'[d][l]) <= 1
    <3>1. \A e \in Conversations :
            messages'[e][l] = IF e = Conversation(x) /\ l = run[x].launch
                                THEN messages[e][l] + 1 ELSE messages[e][l]
      BY <1>t, <2>2, ClickSends
    <3>2. CASE l = run[x].launch
      <4>1. messages[c][l] = 0 /\ messages[d][l] = 0
        BY <2>2, <3>2, ClickSends DEF Unsent
      <4> QED
        BY <3>1, <4>1
    <3>3. CASE l # run[x].launch
      BY <3>1, <3>3 DEF OInv, SendOnce
    <3> QED
      BY <3>2, <3>3
  <2> QED
    BY <2>1, <2>2, MessageFrame
<1> QED
  BY <1>1, <1>2 DEF MessagesRecorded, Unsent, SendOnce

-----------------------------------------------------------------------------
(* Theorems *)

LEMMA Invariance == Spec => []IInv
<1>1. IInv /\ [Next]_vars => IInv'
  BY NextIInv
<1> QED
  BY <1>1, InitIInv, PTL DEF Spec

(* The outbox, the queue, the storage of the browser and the runs have the *)
(* shapes their readers rely on, whatever is lost, expires or is reloaded. *)
THEOREM DeliveryTyped == Spec => []TypeOK
<1>1. IInv => TypeOK
  BY DEF IInv
<1> QED
  BY <1>1, Invariance, PTL

(* AUTO sends a prompt only in the conversation bind_conversation gave it  *)
(* to, also with overlapping runs and several tabs of one conversation.    *)
THEOREM DeliveryInOwner == Spec => []SentInOwner
<1>1. IInv => SentInOwner
  BY DEF IInv
<1> QED
  BY <1>1, Invariance, PTL

(* mark_handoff_sent and the ACKNOWLEDGED outbox record are only reached   *)
(* after the prompt is in the conversation of its binding.                 *)
THEOREM DeliveryTruth == Spec => []SentIsTrue
<1>1. IInv => SentIsTrue
  BY DEF IInv
<1> QED
  BY <1>1, Invariance, PTL

(* Which actions change the queue. *)
LEMMA QueueChanges ==
  ASSUME [Next]_vars
  PROVE  \/ UNCHANGED queue \/ LaunchExpires \/ ClaimExpires
         \/ \E p \in Publishers : ClearOrphan(p) \/ Enqueue(p)
         \/ \E x \in Handlers : QueueClaim(x) \/ AckOwns(x) \/ QueueAcknowledge(x)
<1>1. ASSUME NEW x \in Handlers, Work(x) \/ Fail(x)
      PROVE  UNCHANGED queue \/ QueueClaim(x) \/ AckOwns(x) \/ QueueAcknowledge(x)
  BY <1>1 DEF Work, Proceed, ReadStorage, HandleLaunch, ReadBindings, HostPeek,
     BindConversation, ReadStatus, WriteClaimed, Insert, SendGate, WriteAttempted, Click,
     VerifySend, WriteConfirmed, AckRead, MarkHandoffSent, MarkOutboxAcknowledged, WriteAcked,
     Write, Fail
<1>2. ASSUME NEW p \in Publishers, Publish(p) \/ PublisherFails(p)
      PROVE  UNCHANGED queue \/ ClearOrphan(p) \/ Enqueue(p)
  BY <1>2 DEF Publish, PublishPeek, MarkOutboxPublished, PublisherFails
<1>3. \A p, l : PrepareLaunch(p, l) \/ ContinueLaunch(p, l) \/ ReconcileOutbox(p, l)
                => UNCHANGED queue
  BY DEF PrepareLaunch, ContinueLaunch, ReconcileOutbox
<1>4. BindingEnds \/ (\E t \in Tabs : Reload(t) \/ Render(t) \/ UserStop(t) \/ ResultDetected(t))
      => UNCHANGED queue
  BY DEF BindingEnds, Reload, Render, UserStop, ResultDetected
<1>5. UNCHANGED vars => UNCHANGED queue
  BY DEF vars
<1> QED
  BY <1>1, <1>2, <1>3, <1>4, <1>5 DEF Next

(* project_launch_ack takes an AUTO launch out of the queue only when its  *)
(* handoff is SENT, also when the host answers a page that is gone, twice, *)
(* or after the launch was published again.                                *)
THEOREM DeliveryKeepsQueue == Spec => QueueKeepsLaunch
<1>1. ASSUME IInv, [Next]_vars, NEW l \in AutoSend, queue.launch = l, queue'.launch # l,
             ~ LaunchExpires, ~ \E p \in Publishers : ClearOrphan(p)
      PROVE  handoff[l] = "SENT"
  <2>t. TypeOK /\ l \in Launches /\ l # NoLaunch /\ queue # EmptyQueue
    BY <1>1, DeliveryAssumption DEF IInv, EmptyQueue
  <2>q. queue \in [launch : Launches, claim : Claims \cup {NoClaim}]
    BY <2>t DEF TypeOK
  <2>1. ~ \E p \in Publishers : Enqueue(p)
    BY <1>1, <2>t DEF Enqueue
  <2>2. ~ ClaimExpires
    BY <1>1, <2>q DEF ClaimExpires
  <2>3. ~ \E x \in Handlers : QueueClaim(x)
    BY <1>1, <2>q DEF QueueClaim
  <2>4. PICK x \in Handlers : AckOwns(x) \/ QueueAcknowledge(x)
    BY <1>1, <2>1, <2>2, <2>3, QueueChanges
  <2>5. RunOK(x) /\ ~ Idle(x)
    BY <1>1, <2>4 DEF IInv, AckOwns, QueueAcknowledge, At, Idle
  <2>6. Owns(x) /\ (run[x].sent \/ At(x, "queue_ack"))
    BY <1>1, <2>4, <2>t DEF AckOwns, QueueAcknowledge
  <2>7. run[x].launch = l
    BY <1>1, <2>6 DEF Owns
  <2> QED
    BY <2>5, <2>6, <2>7 DEF RunOK, At, HandedSteps
<1>2. IInv /\ [Next]_vars
      => [\A l \in AutoSend : queue.launch = l /\ queue'.launch # l =>
            handoff[l] = "SENT" \/ LaunchExpires \/ \E p \in Publishers : ClearOrphan(p)]_vars
  BY <1>1
<1> QED
  BY <1>2, Invariance, PTL DEF Spec, QueueKeepsLaunch

LEMMA OnceInvariance == Spec /\ []RaceFree => []OInv
<1>1. Init => OInv
  BY DeliveryAssumption DEF Init, OInv, MessagesRecorded, Unsent, SendOnce, SendOK, Alive
<1>2. ASSUME IInv, OInv, RaceFree, RaceFree', [Next]_vars
      PROVE  OInv'
  BY <1>2, SendOKStep, OnceStep DEF OInv
<1>3. IInv /\ OInv /\ RaceFree /\ RaceFree' /\ [Next]_vars => OInv'
  BY <1>2
<1> QED
  BY <1>1, <1>3, Invariance, PTL DEF Spec

(* As long as no page has two runs, no two tabs work on the record of one  *)
(* launch and no write brings back an old copy of another record, an AUTO  *)
(* prompt is sent at most once: the record of the attempt, written before  *)
(* the click, stops every later run, whatever is lost, reloaded or expired.*)
THEOREM DeliveryOnce == Spec /\ []RaceFree => []SendOnce
<1>1. OInv => SendOnce
  BY DEF OInv
<1> QED
  BY <1>1, OnceInvariance, PTL

(* Under the same hypothesis projectWriteBinding never takes back what it  *)
(* has written of an AUTO launch, whichever run of whichever tab writes.   *)
THEOREM DeliveryRecordAdvances == Spec /\ []RaceFree => RecordAdvances
<1>1. ASSUME IInv, OInv, RaceFree, [Next]_vars, NEW l \in AutoSend
      PROVE  Stage(record[l].state) <= Stage(record'[l].state)
  <2>t. TypeOK /\ l \in Launches
    BY <1>1, DeliveryAssumption DEF IInv
  <2>0. record[l].state \in {"NONE", "CLAIMED", "SEND_ATTEMPTED", "SEND_CONFIRMED", "ACKED"}
    BY <2>t DEF TypeOK, Storage, Record, RecordStates, NoRecord
  <2>1. CASE record'[l] = record[l]
    BY <2>0, <2>1 DEF Stage
  <2>2. ASSUME NEW x \in Handlers, Writes(x), run[x].launch = l
        PROVE  Stage(record[l].state) <= Stage(record'[l].state)
    <3>1. /\ run[x].step \in {"write_claimed", "write_attempted"} =>
               record[l].state \in {"NONE", "CLAIMED"}
          /\ run[x].step = "write_confirmed" => record[l].state = "SEND_ATTEMPTED"
      BY <1>1, <2>2, WritersAlive DEF OInv, SendOK
    <3>2. \/ run[x].step = "write_claimed" /\ record'[l].state = "CLAIMED"
          \/ run[x].step = "write_attempted" /\ record'[l].state = "SEND_ATTEMPTED"
          \/ run[x].step = "write_confirmed" /\ record'[l].state = "SEND_CONFIRMED"
          \/ run[x].step = "write_acked" /\ record'[l].state = "ACKED"
      BY <2>2, <2>t, WritesShape
    <3> QED
      BY <2>0, <3>1, <3>2 DEF Stage
  <2>3. ASSUME NEW x \in Handlers, Writes(x), run[x].launch # l
        PROVE  record'[l] = record[l]
    BY <1>1, <2>3, OthersKept
  <2> QED
    BY <1>1, <2>1, <2>2, <2>3, RecordFrame
<1>2. IInv /\ OInv /\ RaceFree /\ [Next]_vars
      => [\A l \in AutoSend : Stage(record[l].state) <= Stage(record'[l].state)]_vars
  BY <1>1
<1> QED
  BY <1>2, Invariance, OnceInvariance, PTL DEF Spec, RecordAdvances
=============================================================================
