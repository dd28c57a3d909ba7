------------------------ MODULE ReentryEffectProofs -------------------------
(***************************************************************************)
(* One effect of all the calls of reenter, for any number of generations.  *)
(*                                                                         *)
(* Two calls can be at work on one continuation at a time, so exclusion is *)
(* not the argument.  It is the row and the lease together: a call that    *)
(* attempts to send has a row past REENTRY_PREPARED, which never goes back *)
(* there, so no call with a later token gets past its own row any more;    *)
(* and begin_physical_send asks for the lease, so a call with an earlier   *)
(* token is refused.  Client generations are known from the lease.         *)
(***************************************************************************)
EXTENDS SessionReentryProofs

Early == {"CONTINUATION_PENDING", "SESSION_UNAVAILABLE"}
Past == {"REENTRY_IN_PROGRESS"} \cup Terminal

(* What a call remembers of the row, and who makes such a call *)
Origin(p) ==
    /\ call[p].pc \in {"resolve", "claim", "row"} => call[p].from \in Early
    /\ call[p].pc = "settle" => call[p].into \in Terminal
    /\ call[p].pc = "release" => call[p].into \in Terminal \cup {"NONE"}
    /\ call[p].pc \in {"resolve", "claim", "approve"} => p \in Controllers

(* A call that is past its row has a row past REENTRY_PREPARED. *)
RowPast(p) ==
    /\ p \in Controllers
    /\ call[p].pc \in FlowSteps \cup {"failed", "done"}
    => reentry[call[p].packet] \in Past

OwnKind(p) ==
    call[p].token # 0 => (p \in Clients <=> call[p].token \in lease[call[p].packet].direct)

DirectBounded ==
    \A c \in Packets : \A g \in lease[c].direct : g <= lease[c].generation

(* The message of the generation was shown, or a call is about to send it. *)
Tried(c, g) ==
    \/ delivered[c][g] > 0
    \/ \E p \in Controllers :
         call[p].pc = "send" /\ call[p].packet = c /\ call[p].token = g

TriedShutsLater ==
    \A c \in Packets : \A g \in Generations \ lease[c].direct :
      Tried(c, g) =>
        /\ reentry[c] \in Past /\ g <= lease[c].generation
        /\ \A q \in Controllers :
             AtWork(q) /\ call[q].packet = c => call[q].token <= g

TriedOnce ==
    \A c \in Packets : \A g, h \in Generations \ lease[c].direct :
      Tried(c, g) /\ Tried(c, h) => g = h

EInv ==
    /\ \A p \in Processes : Origin(p) /\ RowPast(p) /\ OwnKind(p)
    /\ DirectBounded /\ TriedShutsLater /\ TriedOnce

-----------------------------------------------------------------------------
(* What every step respects *)

PastStays == \A c \in Packets : reentry[c] \in Past => reentry'[c] \in Past

LedgerGrows ==
    \A c \in Packets :
      /\ lease[c].generation <= lease'[c].generation
      /\ \A g \in lease'[c].direct : g <= lease'[c].generation
      /\ \A g \in Nat : g <= lease[c].generation =>
           (g \in lease'[c].direct <=> g \in lease[c].direct)

(* A message is shown by a process that was about to send it. *)
ShownBySend ==
    \A c \in Packets, g \in Generations :
      \/ delivered'[c][g] = delivered[c][g]
      \/ \E p \in Processes :
           call[p].pc = "send" /\ call[p].packet = c /\ call[p].token = g

TokenMove(q) ==
    \/ TokenKept(q)
    \/ /\ q \in Controllers /\ ~AtWork(q)'
       /\ call'[q].token \notin lease'[call'[q].packet].direct
    \/ q \in Clients /\ call'[q].token \in lease'[call'[q].packet].direct

(* A call gets to work with a row that is REENTRY_PREPARED, and to the     *)
(* send with the lease.                                                    *)
WorkMove(q) ==
    q \in Controllers =>
      /\ AtWork(q)' => AtWork(q) \/ reentry'[call'[q].packet] \notin Past
      /\ call'[q].pc = "send" =>
           \/ call[q].pc = "send"
           \/ AtWork(q) /\ lease[call[q].packet].generation = call[q].token

Calm(q) == Origin(q)' /\ RowPast(q)' /\ TokenMove(q) /\ WorkMove(q)

LEMMA StepKeeps ==
    ASSUME ReentryAssumption, RInv, RInv', EInv, PastStays, LedgerGrows, ShownBySend,
           \A q \in Processes : Calm(q)
    PROVE  EInv'
<1>1. \A p \in Processes : Origin(p)' /\ RowPast(p)'
  BY DEF Calm
<1>2. DirectBounded'
  BY DEF LedgerGrows, DirectBounded
<1>3. \A p \in Controllers : p \in Processes /\ p \notin Clients
  BY DEF ReentryAssumption, Processes
<1>4. ASSUME NEW p \in Processes, call[p].token # 0
      PROVE  /\ call[p].packet \in Packets /\ call[p].token \in Nat
             /\ call[p].token <= lease[call[p].packet].generation
  BY <1>4 DEF RInv, Knows, HasToken, TypeOK, CallRecord
<1>5. ASSUME NEW p \in Processes
      PROVE  OwnKind(p)'
  <2> SUFFICES ASSUME call'[p].token # 0
               PROVE  p \in Clients <=> call'[p].token \in lease'[call'[p].packet].direct
    BY DEF OwnKind
  <2>1. TokenMove(p) /\ OwnKind(p)
    BY DEF Calm, EInv
  <2>2. CASE TokenKept(p)
    <3>1. call'[p].token = call[p].token /\ call'[p].packet = call[p].packet
      BY <2>2 DEF TokenKept
    <3>2. call[p].token \in lease'[call[p].packet].direct
            <=> call[p].token \in lease[call[p].packet].direct
      BY <1>4, <3>1 DEF LedgerGrows
    <3> QED BY <2>1, <3>1, <3>2 DEF OwnKind
  <2>3. CASE ~TokenKept(p)
    BY <1>3, <2>1, <2>3 DEF TokenMove
  <2> QED BY <2>2, <2>3
<1>6. ASSUME NEW q \in Controllers, AtWork(q)'
      PROVE  /\ call'[q].token = call[q].token /\ call'[q].packet = call[q].packet
             /\ call[q].token # 0
  <2>1. q \in Processes /\ TokenMove(q)
    BY <1>3 DEF Calm
  <2>2. call'[q].token # 0
    BY <1>6, <2>1 DEF RInv, Knows, HasToken
  <2> QED BY <1>3, <1>6, <2>1, <2>2 DEF TokenMove, TokenKept
<1>7. ASSUME NEW c \in Packets, NEW g \in Generations, g \notin lease'[c].direct, Tried(c, g)'
      PROVE  /\ g \notin lease[c].direct
             /\ \/ Tried(c, g)
                \/ /\ lease[c].generation = g
                   /\ \E p \in Controllers :
                        AtWork(p) /\ call[p].packet = c /\ call[p].token = g
                   /\ reentry'[c] \in Past
  <2>1. g \in Nat /\ lease[c].generation \in Nat
    BY DEF Generations, ReentryAssumption, RInv, TypeOK, LeaseRow
  <2>2. g \in lease[c].direct => g <= lease[c].generation
    BY DEF EInv, DirectBounded
  <2>3. g \notin lease[c].direct
    BY <1>7, <2>1, <2>2 DEF LedgerGrows
  <2>4. CASE \E p \in Controllers :
               call'[p].pc = "send" /\ call'[p].packet = c /\ call'[p].token = g
    <3>1. PICK p \in Controllers :
             call'[p].pc = "send" /\ call'[p].packet = c /\ call'[p].token = g
      BY <2>4
    <3>2. AtWork(p)' /\ "send" \in FlowSteps
      BY <3>1 DEF AtWork, FlowSteps
    <3>3. call[p].packet = c /\ call[p].token = g
      BY <1>6, <3>1, <3>2
    <3>4. reentry'[c] \in Past
      BY <1>1, <1>3, <3>1, <3>2 DEF RowPast
    <3>5. call[p].pc = "send" \/ (AtWork(p) /\ lease[c].generation = g)
      BY <1>3, <3>1, <3>3 DEF Calm, WorkMove
    <3> QED BY <2>3, <3>3, <3>4, <3>5 DEF Tried
  <2>5. CASE delivered'[c][g] > 0
    <3>1. CASE delivered'[c][g] = delivered[c][g]
      BY <2>3, <2>5, <3>1 DEF Tried
    <3>2. CASE \E p \in Processes :
                 call[p].pc = "send" /\ call[p].packet = c /\ call[p].token = g
      <4>1. PICK p \in Processes :
               call[p].pc = "send" /\ call[p].packet = c /\ call[p].token = g
        BY <3>2
      <4>2. g # 0
        BY DEF Generations, ReentryAssumption
      <4>3. p \in Controllers
        BY <2>3, <4>1, <4>2 DEF EInv, OwnKind, Processes
      <4> QED BY <2>3, <4>1, <4>3 DEF Tried
    <3> QED BY <3>1, <3>2 DEF ShownBySend
  <2> QED BY <1>7, <2>4, <2>5 DEF Tried
<1>8. TriedShutsLater'
  <2> SUFFICES ASSUME NEW c \in Packets, NEW g \in Generations, g \notin lease'[c].direct,
                      Tried(c, g)'
               PROVE  /\ reentry'[c] \in Past /\ g <= lease'[c].generation
                      /\ \A q \in Controllers :
                           AtWork(q)' /\ call'[q].packet = c => call'[q].token <= g
    BY DEF TriedShutsLater
  <2>1. /\ g \in Nat /\ lease[c].generation \in Nat /\ lease'[c].generation \in Nat
        /\ lease[c].generation <= lease'[c].generation
    BY DEF Generations, ReentryAssumption, RInv, TypeOK, LeaseRow, LedgerGrows
  <2>2. CASE Tried(c, g)
    <3>1. /\ reentry[c] \in Past /\ g <= lease[c].generation
          /\ \A q \in Controllers :
               AtWork(q) /\ call[q].packet = c => call[q].token <= g
      BY <1>7, <2>2 DEF EInv, TriedShutsLater
    <3>2. reentry'[c] \in Past
      BY <3>1 DEF PastStays
    <3>3. ASSUME NEW q \in Controllers, AtWork(q)', call'[q].packet = c
          PROVE  call'[q].token <= g
      <4>1. AtWork(q)
        BY <1>3, <3>2, <3>3 DEF Calm, WorkMove
      <4> QED BY <1>6, <3>1, <3>3, <4>1
    <3> QED BY <2>1, <3>1, <3>2, <3>3
  <2>3. CASE ~Tried(c, g)
    <3>1. lease[c].generation = g /\ reentry'[c] \in Past
      BY <1>7, <2>3
    <3>2. ASSUME NEW q \in Controllers, AtWork(q)', call'[q].packet = c
          PROVE  call'[q].token <= g
      BY <1>3, <1>4, <1>6, <3>1, <3>2
    <3> QED BY <2>1, <3>1, <3>2
  <2> QED BY <2>2, <2>3
<1>9. TriedOnce'
  <2> SUFFICES ASSUME NEW c \in Packets, NEW g \in Generations, NEW h \in Generations,
                      g \notin lease'[c].direct, h \notin lease'[c].direct,
                      Tried(c, g)', Tried(c, h)'
               PROVE  g = h
    BY DEF TriedOnce
  <2>1. g \in Nat /\ h \in Nat /\ lease[c].generation \in Nat
    BY DEF Generations, ReentryAssumption, RInv, TypeOK, LeaseRow
  <2>2. ASSUME NEW a \in Generations, NEW b \in Generations,
               a \notin lease[c].direct, Tried(c, a),
               lease[c].generation = b,
               \E p \in Controllers : AtWork(p) /\ call[p].packet = c /\ call[p].token = b
        PROVE  a = b
    <3>1. a \in Nat /\ b \in Nat
      BY DEF Generations, ReentryAssumption
    <3>2. /\ a <= lease[c].generation
          /\ \A q \in Controllers :
               AtWork(q) /\ call[q].packet = c => call[q].token <= a
      BY <2>2 DEF EInv, TriedShutsLater
    <3>3. b <= a
      BY <2>2, <3>2
    <3> QED BY <2>2, <3>1, <3>2, <3>3
  <2>3. CASE Tried(c, g) /\ Tried(c, h)
    BY <1>7, <2>3 DEF EInv, TriedOnce
  <2>4. CASE Tried(c, g) /\ ~Tried(c, h)
    BY <1>7, <2>2, <2>4
  <2>5. CASE ~Tried(c, g) /\ Tried(c, h)
    BY <1>7, <2>2, <2>5
  <2>6. CASE ~Tried(c, g) /\ ~Tried(c, h)
    BY <1>7, <2>6
  <2> QED BY <2>3, <2>4, <2>5, <2>6
<1> QED BY <1>1, <1>2, <1>5, <1>8, <1>9 DEF EInv

-----------------------------------------------------------------------------
(* The steps *)

SameLedger ==
    \A c \in Packets : /\ lease'[c].generation = lease[c].generation
                       /\ lease'[c].direct = lease[c].direct

LEMMA LedgerStays ==
    ASSUME RInv, EInv, SameLedger
    PROVE  LedgerGrows
<1>1. \A c \in Packets : lease[c].generation \in Nat
  BY DEF RInv, TypeOK, LeaseRow
<1> QED BY <1>1 DEF EInv, DirectBounded, SameLedger, LedgerGrows

(* A process whose call does not change *)
LEMMA OthersCalm ==
    ASSUME RInv, EInv, PastStays, NEW q \in Processes, call'[q] = call[q]
    PROVE  Calm(q)
<1>1. Origin(q) /\ RowPast(q)
  BY DEF EInv
<1>2. call[q].pc \in FlowSteps \cup {"failed", "done"} => call[q].packet \in Packets
  BY DEF RInv, Knows, HasToken, FlowSteps
<1>3. RowPast(q)'
  BY <1>1, <1>2 DEF RowPast, PastStays
<1>4. Origin(q)' /\ TokenMove(q) /\ WorkMove(q)
  BY <1>1 DEF Origin, TokenMove, TokenKept, WorkMove, AtWork
<1> QED BY <1>3, <1>4 DEF Calm

(* A step of one process that leaves the ledger of the leases *)
LEMMA OneMoves ==
    ASSUME ReentryAssumption, RInv, RInv', EInv, NEW p \in Processes,
           OnlyMoves(p), Calm(p), PastStays, LedgerGrows, ShownBySend
    PROVE  EInv'
<1>1. ASSUME NEW q \in Processes
      PROVE  Calm(q)
  BY <1>1, OthersCalm DEF OnlyMoves
<1> QED BY <1>1, StepKeeps

LEMMA RowOnwards ==
    ASSUME RInv, NEW c \in Packets, NEW from, NEW to, Transition(c, from, to),
           from \in Past => to \in Past
    PROVE  PastStays
<1>1. reentry \in [Packets -> LivenessStates]
  BY DEF RInv, TypeOK
<1> QED BY <1>1 DEF Transition, PastStays

LEMMA FinishedCalm ==
    ASSUME RInv, NEW p \in Processes, Finish(p)
    PROVE  OnlyMoves(p) /\ Calm(p)
<1>1. OnlyMoves(p) /\ call'[p] = Idle
  BY DEF RInv, TypeOK, Finish, OnlyMoves
<1>2. call'[p].pc = "idle" /\ call'[p].token = 0
  BY <1>1 DEF Idle
<1>3. ~AtWork(p)' /\ "idle" \notin FlowSteps
  BY <1>2 DEF AtWork, FlowSteps
<1>4. Origin(p)' /\ RowPast(p)'
  BY <1>2, <1>3 DEF Origin, RowPast
<1> QED BY <1>1, <1>2, <1>3, <1>4 DEF Calm, TokenMove, TokenKept, WorkMove

(* Stop, resume, an expiry, the end of a turn, a fence, and what a client  *)
(* does to its intent                                                      *)
LEMMA NobodyMoves ==
    ASSUME ReentryAssumption, RInv, RInv', EInv, UNCHANGED <<call, delivered>>,
           SameLedger, PastStays
    PROVE  EInv'
<1>1. ShownBySend
  BY DEF ShownBySend
<1>2. \A q \in Processes : Calm(q)
  BY OthersCalm
<1> QED BY <1>1, <1>2, LedgerStays, StepKeeps

(* Calls that end, or write the row on the way *)
LEMMA EndsKeep ==
    ASSUME ReentryAssumption, RInv, RInv', EInv, NEW p \in Processes,
           \/ Recover(p) \/ Checkpoint(p) \/ Settle(p) \/ Crash(p)
           \/ EndLease(p, "AVAILABLE") \/ EndLease(p, "ABANDONED")
    PROVE  EInv'
<1>1. Finish(p) /\ UNCHANGED delivered /\ call[p].pc # "idle"
  BY DEF Recover, Checkpoint, Settle, Crash, EndLease, At
<1>2. call[p].packet \in Packets
  BY <1>1, CallHasPacket
<1>3. SameLedger
  <2>1. lease \in [Packets -> LeaseRow]
    BY DEF RInv, TypeOK
  <2>2. CASE UNCHANGED lease
    BY <2>2 DEF SameLedger
  <2>3. CASE EndLease(p, "AVAILABLE") \/ EndLease(p, "ABANDONED")
    BY <1>2, <2>1, <2>3 DEF EndLease, SameLedger, LeaseRow
  <2> QED BY <2>2, <2>3 DEF Recover, Checkpoint, Settle, Crash
<1>4. PastStays
  <2>1. CASE UNCHANGED reentry
    BY <2>1 DEF PastStays
  <2>2. CASE Settle(p)
    <3>1. call[p].into \in Past
      BY <2>2 DEF Settle, At, EInv, Origin, Past
    <3> QED BY <1>2, <2>2, <3>1, RowOnwards DEF Settle
  <2>3. CASE Recover(p)
    <3>1. UNCHANGED reentry \/ Transition(call[p].packet, call[p].from, "REENTRY_CONFIRMED")
      BY <2>3 DEF Recover
    <3>2. "REENTRY_CONFIRMED" \in Past
      BY DEF Past, Terminal
    <3> QED BY <1>2, <2>1, <3>1, <3>2, RowOnwards
  <2>4. CASE Checkpoint(p)
    BY <1>2, <2>4, RowOnwards DEF Checkpoint, Past, Terminal
  <2> QED BY <2>1, <2>2, <2>3, <2>4 DEF Crash, EndLease
<1>5. ShownBySend
  BY <1>1 DEF ShownBySend
<1> QED BY <1>1, <1>3, <1>4, <1>5, LedgerStays, FinishedCalm, OneMoves

(* A step from one place of the flow to another *)
LEMMA FlowKeeps ==
    ASSUME ReentryAssumption, RInv, RInv', EInv, NEW p \in Processes,
           \/ Prepare(p) \/ AllowSend(p) \/ DomFails(p) \/ BeginPhysicalSend(p)
           \/ PhysicalSend(p) \/ Confirm(p) \/ MarkUncertain(p) \/ Complete(p)
           \/ Acknowledge(p) \/ TryAgain(p)
    PROVE  EInv'
<1>1. /\ call[p].pc \in FlowSteps \cup {"failed", "done"} /\ AtWork(p)
      /\ UNCHANGED reentry
  BY DEF Prepare, AllowSend, DomFails, BeginPhysicalSend, PhysicalSend, Confirm,
         MarkUncertain, Complete, Acknowledge, TryAgain, Holding, At, AtWork, FlowSteps
<1>2. call[p].packet \in Packets
  BY <1>1, AtWorkHolds
<1>3. PICK to \in FlowSteps \cup {"failed", "done"} :
        /\ Goto(p, to)
        /\ to = "send" => lease[call[p].packet].generation = call[p].token
        /\ to # "prepare"
  <2>1. CASE Prepare(p) \/ AllowSend(p) \/ DomFails(p)
    BY <2>1 DEF Prepare, AllowSend, DomFails, FlowSteps
  <2>2. CASE BeginPhysicalSend(p)
    BY <2>2 DEF BeginPhysicalSend, FlowSteps, LiveLease, HoldsLease
  <2>3. CASE PhysicalSend(p)
    BY <2>3 DEF PhysicalSend, FlowSteps
  <2>4. CASE Confirm(p) \/ MarkUncertain(p)
    BY <2>4 DEF Confirm, MarkUncertain, FlowSteps
  <2>5. CASE Complete(p)
    <3>1. Goto(p, "ack") \/ Goto(p, "failed")
      BY <2>5 DEF Complete
    <3> QED BY <3>1 DEF FlowSteps
  <2>6. CASE Acknowledge(p) \/ TryAgain(p)
    BY <2>6 DEF Acknowledge, TryAgain, FlowSteps
  <2> QED BY <2>1, <2>2, <2>3, <2>4, <2>5, <2>6
<1>4. /\ OnlyMoves(p) /\ call'[p].pc = to
      /\ call'[p].packet = call[p].packet /\ call'[p].token = call[p].token
  BY <1>3, Moving DEF RInv, OnlyMoves, Steps
<1>5. PastStays
  BY <1>1 DEF PastStays
<1>6. Calm(p)
  <2>1. RowPast(p)'
    BY <1>1, <1>4 DEF EInv, RowPast
  <2>2. Origin(p)'
    BY <1>4 DEF Origin, FlowSteps
  <2> QED BY <1>1, <1>3, <1>4, <2>1, <2>2 DEF Calm, TokenMove, TokenKept, WorkMove
<1>7. SameLedger
  <2>1. lease \in [Packets -> LeaseRow]
    BY DEF RInv, TypeOK
  <2>2. CASE Complete(p)
    BY <1>2, <2>1, <2>2 DEF Complete, SameLedger, LeaseRow
  <2>3. CASE UNCHANGED lease
    BY <2>3 DEF SameLedger
  <2> QED BY <2>2, <2>3 DEF Prepare, AllowSend, DomFails, BeginPhysicalSend, PhysicalSend,
                            Confirm, MarkUncertain, Acknowledge, TryAgain
<1>8. ShownBySend
  <2>1. CASE PhysicalSend(p)
    <3>1. \/ UNCHANGED delivered
          \/ delivered' = [delivered EXCEPT ![call[p].packet][call[p].token] = @ + 1]
      BY <2>1 DEF PhysicalSend
    <3>2. delivered \in [Packets -> [Generations -> Nat]] /\ call[p].pc = "send"
      BY <2>1 DEF RInv, TypeOK, PhysicalSend, At
    <3> QED BY <3>1, <3>2 DEF ShownBySend
  <2>2. CASE UNCHANGED delivered
    BY <2>2 DEF ShownBySend
  <2> QED BY <2>1, <2>2 DEF Prepare, AllowSend, DomFails, BeginPhysicalSend, Complete,
                            Confirm, MarkUncertain, Acknowledge, TryAgain
<1> QED BY <1>4, <1>5, <1>6, <1>7, <1>8, LedgerStays, OneMoves

(* A step that leaves the flow, or never was in it: to is not at work. *)
LEMMA AsideCalm ==
    ASSUME RInv, NEW p \in Processes, TokenKept(p), Origin(p)',
           call'[p].pc \in Steps \ (FlowSteps \cup {"start", "failed", "done"})
    PROVE  Calm(p)
<1>1. ~AtWork(p)' /\ RowPast(p)' /\ call'[p].pc # "send"
  BY DEF AtWork, RowPast, FlowSteps
<1> QED BY <1>1 DEF Calm, TokenMove, WorkMove

LEMMA EndingKeeps ==
    ASSUME ReentryAssumption, RInv, RInv', EInv, NEW p \in Processes,
           \/ PacketStale(p) \/ ClaimRefused(p) \/ RowConflict(p) \/ FlowRaises(p)
           \/ FlowEnds(p) \/ ReopenConflict(p)
    PROVE  EInv'
<1>1. UNCHANGED <<lease, reentry, delivered>> /\ call[p].pc # "idle"
  BY DEF PacketStale, ClaimRefused, RowConflict, FlowRaises, FlowEnds, ReopenConflict, At
<1>2. call[p] \in CallRecord
  BY <1>1, CallHasPacket
<1>3. PICK to \in {"release", "settle"}, into \in Terminal, from \in LivenessStates :
         Rewrites(p, to, from, into)
  <2>1. call[p].from \in LivenessStates
    BY <1>2 DEF CallRecord
  <2>2. CASE ReopenConflict(p)
    <3>1. "OPERATOR_CHECKPOINT" \in LivenessStates /\ "REENTRY_BLOCKED" \in Terminal
      BY DEF LivenessStates, Terminal
    <3>2. PICK r : r = [call[p] EXCEPT !.pc = "settle", !.from = "OPERATOR_CHECKPOINT",
                                       !.into = "REENTRY_BLOCKED"]
      OBVIOUS
    <3>3. call' = [call EXCEPT ![p] = r]
      BY <2>2, <3>2 DEF ReopenConflict
    <3> QED BY <3>1, <3>2, <3>3 DEF Rewrites
  <2>3. CASE ~ReopenConflict(p)
    <3>1. PICK to \in {"release", "settle"}, into \in Terminal :
             call' = [call EXCEPT ![p].pc = to, ![p].into = into]
      BY <2>3 DEF PacketStale, ClaimRefused, RowConflict, FlowRaises, FlowEnds, Terminal
    <3>2. PICK r : r = [call[p] EXCEPT !.pc = to, !.into = into]
      OBVIOUS
    <3>3. r = [call[p] EXCEPT !.pc = to, !.from = call[p].from, !.into = into]
      BY <1>2, <3>2 DEF CallRecord
    <3>4. call' = [call EXCEPT ![p] = r]
      BY <3>1, <3>2
    <3> QED BY <2>1, <3>3, <3>4 DEF Rewrites
  <2> QED BY <2>2, <2>3
<1>4. to \in Steps \ (FlowSteps \cup {"start", "failed", "done"}) /\ into \in LivenessStates
  BY DEF Steps, FlowSteps, LivenessStates
<1>5. /\ OnlyMoves(p) /\ call'[p].pc = to /\ call'[p].into = into
      /\ call'[p].packet = call[p].packet /\ call'[p].token = call[p].token
  BY <1>3, <1>4, Rewriting DEF RInv
<1>6. Calm(p)
  BY <1>4, <1>5, AsideCalm DEF Origin, TokenKept
<1>7. SameLedger /\ PastStays /\ ShownBySend
  BY <1>1 DEF SameLedger, PastStays, ShownBySend
<1> QED BY <1>5, <1>6, <1>7, LedgerStays, OneMoves

LEMMA ReleaseKeeps ==
    ASSUME ReentryAssumption, RInv, RInv', EInv, NEW p \in Processes, Release(p)
    PROVE  EInv'
<1>1. call[p].pc = "release" /\ UNCHANGED <<reentry, delivered>>
  BY DEF Release, At
<1>2. call[p].packet \in Packets
  BY <1>1, CallHasPacket
<1>3. SameLedger
  <2>1. lease \in [Packets -> LeaseRow]
    BY DEF RInv, TypeOK
  <2> QED BY <1>2, <2>1 DEF Release, SameLedger, LeaseRow
<1>4. PastStays /\ ShownBySend
  BY <1>1 DEF PastStays, ShownBySend
<1>5. OnlyMoves(p) /\ Calm(p)
  <2>1. CASE call[p].into = "NONE"
    BY <2>1, FinishedCalm DEF Release
  <2>2. CASE call[p].into # "NONE"
    <3>1. Goto(p, "settle") /\ "settle" \in Steps \ (FlowSteps \cup {"start", "failed", "done"})
      BY <2>2 DEF Release, Steps, FlowSteps
    <3>2. /\ OnlyMoves(p) /\ call'[p].pc = "settle" /\ call'[p].into = call[p].into
          /\ call'[p].packet = call[p].packet /\ call'[p].token = call[p].token
      BY <3>1, Moving DEF RInv, OnlyMoves
    <3>3. Origin(p)'
      BY <1>1, <2>2, <3>2 DEF EInv, Origin
    <3> QED BY <3>1, <3>2, <3>3, AsideCalm DEF TokenKept
  <2> QED BY <2>1, <2>2
<1> QED BY <1>3, <1>4, <1>5, LedgerStays, OneMoves

LEMMA ApprovalKeeps ==
    ASSUME ReentryAssumption, RInv, RInv', EInv, NEW p \in Processes,
           Reopen(p) \/ NoChannel(p)
    PROVE  EInv'
<1>1. UNCHANGED <<lease, delivered>> /\ call[p].pc \in {"approve", "resolve"}
  BY DEF Reopen, NoChannel, At
<1>2. call[p].packet \in Packets /\ call[p] \in CallRecord /\ p \in Controllers
  BY <1>1, CallHasPacket DEF EInv, Origin
<1>3. SameLedger /\ ShownBySend
  BY <1>1 DEF SameLedger, ShownBySend
<1>4. PastStays
  <2>1. CASE Reopen(p)
    BY <1>2, <2>1, RowOnwards DEF Reopen, Past, Terminal
  <2>2. CASE NoChannel(p)
    <3>1. call[p].from \notin Past
      BY <2>2 DEF NoChannel, At, EInv, Origin, Early, Past, Terminal
    <3> QED BY <1>2, <2>2, <3>1, RowOnwards DEF NoChannel
  <2> QED BY <2>1, <2>2
<1>5. OnlyMoves(p) /\ Calm(p)
  <2>1. CASE NoChannel(p)
    <3>1. /\ Goto(p, "checkpoint")
          /\ "checkpoint" \in Steps \ (FlowSteps \cup {"start", "failed", "done"})
      BY <2>1 DEF NoChannel, Steps, FlowSteps
    <3>2. /\ OnlyMoves(p) /\ call'[p].pc = "checkpoint"
          /\ call'[p].packet = call[p].packet /\ call'[p].token = call[p].token
      BY <3>1, Moving DEF RInv, OnlyMoves
    <3> QED BY <3>1, <3>2, AsideCalm DEF TokenKept, Origin
  <2>2. CASE Reopen(p) /\ reentry'[call[p].packet] # "CONTINUATION_PENDING"
    BY <2>2, FinishedCalm DEF Reopen
  <2>3. CASE Reopen(p) /\ reentry'[call[p].packet] = "CONTINUATION_PENDING"
    <3>1. PICK r : r = [call[p] EXCEPT !.pc = "claim", !.from = "CONTINUATION_PENDING"]
      OBVIOUS
    <3>2. call' = [call EXCEPT ![p] = r]
      BY <2>3, <3>1 DEF Reopen
    <3>3. OnlyMoves(p) /\ call'[p] = r
      BY <3>2 DEF RInv, TypeOK, OnlyMoves
    <3>4. /\ call'[p].pc = "claim" /\ call'[p].from = "CONTINUATION_PENDING"
          /\ call'[p].packet = call[p].packet /\ call'[p].token = call[p].token
      BY <1>2, <3>1, <3>3 DEF CallRecord
    <3>5. "claim" \in Steps \ (FlowSteps \cup {"start", "failed", "done"})
      BY DEF Steps, FlowSteps
    <3>6. Origin(p)'
      BY <1>2, <3>4 DEF Origin, Early
    <3> QED BY <3>3, <3>4, <3>5, <3>6, AsideCalm DEF TokenKept
  <2> QED BY <2>1, <2>2, <2>3
<1> QED BY <1>3, <1>4, <1>5, LedgerStays, OneMoves

LEMMA StartKeeps ==
    ASSUME ReentryAssumption, RInv, RInv', EInv, NEW p \in Processes, NEW c \in Packets,
           StartReenter(p, c) \/ StartApproval(p, c)
    PROVE  EInv'
<1>1. UNCHANGED <<lease, delivered>> /\ p \in Controllers
  BY DEF StartReenter, StartApproval
<1>2. SameLedger /\ ShownBySend
  BY <1>1 DEF SameLedger, ShownBySend
<1>3. PastStays
  <2>1. reentry \in [Packets -> LivenessStates]
    BY DEF RInv, TypeOK
  <2> QED BY <2>1 DEF StartReenter, StartApproval, PastStays, Past, Terminal
<1>4. OnlyMoves(p) /\ Calm(p)
  <2>1. CASE StartApproval(p, c)
    <3>1. PICK r : r = [Idle EXCEPT !.pc = "approve", !.packet = c]
      OBVIOUS
    <3>2. OnlyMoves(p) /\ call'[p] = r
      BY <2>1, <3>1 DEF StartApproval, RInv, TypeOK, OnlyMoves
    <3>3. call'[p].pc = "approve" /\ call'[p].token = 0
      BY <3>1, <3>2 DEF Idle
    <3>4. "approve" \in Steps \ (FlowSteps \cup {"start", "failed", "done"})
      BY DEF Steps, FlowSteps
    <3> QED BY <1>1, <3>2, <3>3, <3>4, AsideCalm DEF Origin, TokenKept
  <2>2. CASE StartReenter(p, c)
    <3>1. PICK s : s = IF reentry[c] = "NONE" THEN "CONTINUATION_PENDING" ELSE reentry[c]
      OBVIOUS
    <3>2. PICK r : r = [Idle EXCEPT !.pc = IF s \in Underway THEN "recover" ELSE "resolve",
                                    !.packet = c, !.from = s]
      OBVIOUS
    <3>3. /\ call' = [call EXCEPT ![p] = r]
          /\ s \in Underway \cup {"CONTINUATION_PENDING", "SESSION_UNAVAILABLE"}
      BY <2>2, <3>1, <3>2 DEF StartReenter
    <3>4. OnlyMoves(p) /\ call'[p] = r
      BY <3>3 DEF RInv, TypeOK, OnlyMoves
    <3>5. /\ call'[p].pc = IF s \in Underway THEN "recover" ELSE "resolve"
          /\ call'[p].token = 0 /\ call'[p].from = s
      BY <3>2, <3>4 DEF Idle
    <3>6. Origin(p)'
      BY <1>1, <3>3, <3>5 DEF Origin, Early
    <3>7. /\ "recover" \in Steps \ (FlowSteps \cup {"start", "failed", "done"})
          /\ "resolve" \in Steps \ (FlowSteps \cup {"start", "failed", "done"})
      BY DEF Steps, FlowSteps
    <3> QED BY <3>4, <3>5, <3>6, <3>7, AsideCalm DEF TokenKept
  <2> QED BY <2>1, <2>2
<1> QED BY <1>2, <1>3, <1>4, LedgerStays, OneMoves

(* The row of a call that gets to work was not past REENTRY_PREPARED. *)
LEMMA RowPreparedKeeps ==
    ASSUME ReentryAssumption, RInv, RInv', EInv, NEW p \in Processes, RowPrepared(p)
    PROVE  EInv'
<1>1. call[p].pc = "row" /\ UNCHANGED <<lease, delivered>>
  BY DEF RowPrepared, At
<1>2. call[p].packet \in Packets /\ call[p].from \notin Past
  BY <1>1, CallHasPacket DEF EInv, Origin, Early, Past, Terminal
<1>3. SameLedger /\ ShownBySend
  BY <1>1 DEF SameLedger, ShownBySend
<1>4. PastStays
  BY <1>2, RowOnwards DEF RowPrepared
<1>5. PICK to \in {"start", "release"} :
         Goto(p, to) /\ (to = "start" => reentry'[call[p].packet] \notin Past)
  BY DEF RowPrepared, Past, Terminal
<1>6. /\ OnlyMoves(p) /\ call'[p].pc = to /\ call'[p].into = call[p].into
      /\ call'[p].packet = call[p].packet /\ call'[p].token = call[p].token
  BY <1>5, Moving DEF RInv, OnlyMoves, Steps
<1>7. Origin(p)'
  <2>1. call[p].into = "NONE"
    BY <1>1 DEF RInv, Knows, NoEndYet
  <2> QED BY <1>5, <1>6, <2>1 DEF Origin
<1>8. Calm(p)
  BY <1>5, <1>6, <1>7 DEF Calm, RowPast, TokenMove, TokenKept, WorkMove, AtWork, FlowSteps
<1> QED BY <1>3, <1>4, <1>6, <1>8, LedgerStays, OneMoves

LEMMA RowStartedKeeps ==
    ASSUME ReentryAssumption, RInv, RInv', EInv, NEW p \in Processes, RowStarted(p)
    PROVE  EInv'
<1>1. call[p].pc = "start" /\ AtWork(p) /\ UNCHANGED <<lease, delivered>>
  BY DEF RowStarted, At, AtWork
<1>2. call[p].packet \in Packets /\ call[p] \in CallRecord
  BY <1>1, CallHasPacket
<1>3. SameLedger /\ ShownBySend
  BY <1>1 DEF SameLedger, ShownBySend
<1>4. PastStays
  BY <1>2, RowOnwards DEF RowStarted, Past, Terminal
<1>5. OnlyMoves(p) /\ Calm(p)
  <2>1. CASE reentry'[call[p].packet] = "REENTRY_IN_PROGRESS"
    <3>1. PICK r : r = [call[p] EXCEPT !.pc = "prepare", !.from = "REENTRY_IN_PROGRESS"]
      OBVIOUS
    <3>2. call' = [call EXCEPT ![p] = r]
      BY <2>1, <3>1 DEF RowStarted
    <3>3. OnlyMoves(p) /\ call'[p] = r
      BY <3>2 DEF RInv, TypeOK, OnlyMoves
    <3>4. /\ call'[p].pc = "prepare"
          /\ call'[p].packet = call[p].packet /\ call'[p].token = call[p].token
      BY <1>2, <3>1, <3>3 DEF CallRecord
    <3>5. Origin(p)' /\ RowPast(p)'
      BY <2>1, <3>4 DEF Origin, RowPast, Past
    <3> QED BY <1>1, <3>3, <3>4, <3>5 DEF Calm, TokenMove, TokenKept, WorkMove
  <2>2. CASE reentry'[call[p].packet] # "REENTRY_IN_PROGRESS"
    <3>1. Goto(p, "release") /\ "release" \in Steps \ (FlowSteps \cup {"start", "failed", "done"})
      BY <2>2 DEF RowStarted, Steps, FlowSteps
    <3>2. /\ OnlyMoves(p) /\ call'[p].pc = "release" /\ call'[p].into = call[p].into
          /\ call'[p].packet = call[p].packet /\ call'[p].token = call[p].token
      BY <3>1, Moving DEF RInv, OnlyMoves
    <3>3. call[p].into = "NONE"
      BY <1>1 DEF RInv, Knows, NoEndYet
    <3>4. Origin(p)'
      BY <3>2, <3>3 DEF Origin
    <3> QED BY <3>1, <3>2, <3>4, AsideCalm DEF TokenKept
  <2> QED BY <2>1, <2>2
<1> QED BY <1>3, <1>4, <1>5, LedgerStays, OneMoves

(* A claim takes a generation that no direct set has yet. *)
LEMMA ClaimGrows ==
    ASSUME RInv, EInv, NEW c \in Packets, NEW direct,
           direct = lease[c].direct \/ direct = lease[c].direct \cup {lease[c].generation + 1},
           lease' = [lease EXCEPT ![c] = Claimed(@, direct)]
    PROVE  /\ LedgerGrows /\ lease'[c].direct = direct
           /\ lease[c].generation + 1 \notin lease[c].direct
<1>1. lease \in [Packets -> LeaseRow] /\ \A d \in Packets : lease[d].generation \in Nat
  BY DEF RInv, TypeOK, LeaseRow
<1>2. \A d \in Packets : \A g \in lease[d].direct : g \in Nat /\ g <= lease[d].generation
  BY <1>1 DEF EInv, DirectBounded, LeaseRow
<1>3. /\ \A d \in Packets : d # c => lease'[d] = lease[d]
      /\ lease'[c].generation = lease[c].generation + 1 /\ lease'[c].direct = direct
  BY <1>1 DEF Claimed
<1>4. lease[c].generation + 1 \notin lease[c].direct
  BY <1>1, <1>2
<1>5. ASSUME NEW d \in Packets
      PROVE  /\ lease[d].generation <= lease'[d].generation
             /\ \A g \in lease'[d].direct : g <= lease'[d].generation
             /\ \A g \in Nat : g <= lease[d].generation =>
                  (g \in lease'[d].direct <=> g \in lease[d].direct)
  <2>1. CASE d # c
    BY <1>1, <1>2, <1>3, <2>1
  <2>2. CASE d = c
    BY <1>1, <1>2, <1>3, <2>2
  <2> QED BY <2>1, <2>2
<1> QED BY <1>3, <1>4, <1>5 DEF LedgerGrows

LEMMA ClaimLeaseKeeps ==
    ASSUME ReentryAssumption, RInv, RInv', EInv, NEW p \in Processes, ClaimLease(p)
    PROVE  EInv'
<1>1. call[p].pc \in {"resolve", "claim"} /\ UNCHANGED <<reentry, delivered>>
  BY DEF ClaimLease
<1>2. /\ call[p] \in CallRecord /\ p \in Controllers /\ call[p].from \in Early
  BY <1>1, CallHasPacket DEF EInv, Origin
<1>3. PICK c \in Packets : c = call[p].packet
  BY <1>1, CallHasPacket
<1>4. /\ lease' = [lease EXCEPT ![c] = Claimed(@, lease[c].direct)]
      /\ call' = [call EXCEPT ![p].pc = "row", ![p].token = lease[c].generation + 1]
  BY <1>3 DEF ClaimLease
<1>5. /\ LedgerGrows /\ lease'[c].direct = lease[c].direct
      /\ lease[c].generation + 1 \notin lease[c].direct
  BY <1>4, ClaimGrows
<1>6. PICK n : n = lease[c].generation + 1
  OBVIOUS
<1>7. PICK r : r = [call[p] EXCEPT !.pc = "row", !.token = n]
  OBVIOUS
<1>8. call' = [call EXCEPT ![p] = r]
  BY <1>4, <1>6, <1>7
<1>9. OnlyMoves(p) /\ call'[p] = r
  BY <1>8 DEF RInv, TypeOK, OnlyMoves
<1>10. /\ call'[p].pc = "row" /\ call'[p].packet = c /\ call'[p].token = n
       /\ call'[p].from \in Early
  BY <1>2, <1>3, <1>7, <1>9 DEF CallRecord
<1>11. ~AtWork(p)' /\ Origin(p)' /\ RowPast(p)'
  BY <1>10 DEF AtWork, Origin, RowPast, FlowSteps
<1>12. Calm(p)
  BY <1>2, <1>5, <1>6, <1>10, <1>11 DEF Calm, TokenMove, WorkMove
<1>13. PastStays /\ ShownBySend
  BY <1>1 DEF PastStays, ShownBySend
<1> QED BY <1>5, <1>9, <1>12, <1>13, OneMoves

LEMMA StartClientKeeps ==
    ASSUME ReentryAssumption, RInv, RInv', EInv, NEW p \in Processes, NEW c \in Packets,
           StartClient(p, c)
    PROVE  EInv'
<1>1. p \in Clients /\ p \notin Controllers /\ UNCHANGED <<reentry, delivered>>
  BY DEF StartClient, ReentryAssumption
<1>2. PICK n : n = lease[c].generation + 1
  OBVIOUS
<1>3. lease' = [lease EXCEPT ![c] = Claimed(@, lease[c].direct \cup {n})]
  BY <1>2 DEF StartClient
<1>4. LedgerGrows /\ lease'[c].direct = lease[c].direct \cup {n}
  BY <1>2, <1>3, ClaimGrows
<1>5. PICK r : r = [Idle EXCEPT !.pc = "prepare", !.packet = c, !.token = n]
  OBVIOUS
<1>6. call' = [call EXCEPT ![p] = r]
  BY <1>2, <1>5 DEF StartClient
<1>7. OnlyMoves(p) /\ call'[p] = r
  BY <1>6 DEF RInv, TypeOK, OnlyMoves
<1>8. call'[p].pc = "prepare" /\ call'[p].packet = c /\ call'[p].token = n
  BY <1>5, <1>7 DEF Idle
<1>9. Origin(p)' /\ RowPast(p)'
  BY <1>1, <1>8 DEF Origin, RowPast
<1>10. Calm(p)
  BY <1>1, <1>4, <1>8, <1>9 DEF Calm, TokenMove, WorkMove
<1>11. PastStays /\ ShownBySend
  BY <1>1 DEF PastStays, ShownBySend
<1> QED BY <1>4, <1>7, <1>10, <1>11, OneMoves

-----------------------------------------------------------------------------
LEMMA NobodySteps ==
    ASSUME ReentryAssumption, RInv, RInv', EInv,
           \/ UNCHANGED vars \/ Stop \/ Resume
           \/ \E c \in Packets :
                Expire(c) \/ EndTurn(c) \/ \E g \in Generations : FenceStale(c, g)
           \/ \E p \in Processes : Reconcile(p) \/ Cancel(p)
    PROVE  EInv'
<1>1. UNCHANGED <<call, delivered>>
  BY DEF vars, Stop, Resume, Expire, EndTurn, FenceStale, Reconcile, Cancel
<1>2. SameLedger
  <2>1. lease \in [Packets -> LeaseRow]
    BY DEF RInv, TypeOK
  <2>2. CASE UNCHANGED lease
    BY <2>2 DEF SameLedger
  <2>3. CASE \E c \in Packets : Expire(c)
    BY <2>1, <2>3 DEF Expire, SameLedger, LeaseRow
  <2> QED BY <2>2, <2>3 DEF vars, Stop, Resume, EndTurn, FenceStale, Reconcile, Cancel
<1>3. PastStays
  <2>1. reentry \in [Packets -> LivenessStates]
    BY DEF RInv, TypeOK
  <2>2. CASE UNCHANGED reentry
    BY <2>2 DEF PastStays
  <2>3. CASE \E c \in Packets : EndTurn(c)
    BY <2>1, <2>3 DEF EndTurn, PastStays, Past, Terminal
  <2> QED BY <2>2, <2>3 DEF vars, Stop, Resume, Expire, FenceStale, Reconcile, Cancel
<1> QED BY <1>1, <1>2, <1>3, NobodyMoves

LEMMA EffectInit ==
    ASSUME ReentryAssumption, Init
    PROVE  EInv
<1>1. \A p \in Processes : call[p].pc = "idle" /\ call[p].token = 0
  BY DEF Init, Idle
<1>2. \A p \in Processes : Origin(p) /\ RowPast(p) /\ OwnKind(p)
  BY <1>1 DEF Origin, RowPast, OwnKind, FlowSteps
<1>3. DirectBounded
  BY DEF Init, DirectBounded
<1>4. \A c \in Packets, g \in Generations : ~Tried(c, g)
  BY <1>1 DEF Init, Tried, Processes
<1> QED BY <1>2, <1>3, <1>4 DEF EInv, TriedShutsLater, TriedOnce

LEMMA EffectStep ==
    ASSUME ReentryAssumption, RInv, RInv', EInv, [Next]_vars
    PROVE  EInv'
<1>1. CASE UNCHANGED vars \/ Stop \/ Resume
  BY <1>1, NobodySteps
<1>2. ASSUME NEW c \in Packets,
             \/ Expire(c) \/ EndTurn(c)
             \/ \E g \in Generations : FenceStale(c, g)
             \/ \E p \in Processes :
                  StartClient(p, c) \/ StartReenter(p, c) \/ StartApproval(p, c)
      PROVE  EInv'
  BY <1>2, NobodySteps, StartClientKeeps, StartKeeps
<1>3. ASSUME NEW p \in Processes, Flow(p)
      PROVE  EInv'
  BY <1>3, FlowKeeps, EndingKeeps DEF Flow
<1>4. ASSUME NEW p \in Processes, ControllerStep(p)
      PROVE  EInv'
  BY <1>4, EndsKeep, EndingKeeps, ApprovalKeeps, ClaimLeaseKeeps, RowPreparedKeeps,
     RowStartedKeeps, ReleaseKeeps DEF ControllerStep
<1>5. ASSUME NEW p \in Processes, ClientStep(p) \/ Crash(p)
      PROVE  EInv'
  BY <1>5, NobodySteps, FlowKeeps, EndsKeep DEF ClientStep
<1> QED BY <1>1, <1>2, <1>3, <1>4, <1>5 DEF Next

(* However many calls of reenter and approvals overlap, die or are taken   *)
(* over, and whatever clients do in between, _execute_automated shows the  *)
(* message of a continuation for one of their generations at most.         *)
THEOREM ReentryOneEffect == Spec => []OneEffect
<1>1. Init => EInv
  BY ReentryAssumption, EffectInit
<1>2. RInv /\ RInv' /\ EInv /\ [Next]_vars => EInv'
  BY ReentryAssumption, EffectStep
<1>3. EInv => OneEffect
  BY DEF EInv, TriedOnce, Tried, OneEffect
<1> QED BY <1>1, <1>2, <1>3, Inductive, PTL DEF Spec
=============================================================================
