---------------------------- MODULE ExecutionLock ---------------------------
(***************************************************************************)
(* ProjectMemory.write_transaction and the lock file it runs under         *)
(* (project_memory.py; ProjectCatalog._lock is the same code).  A writer is*)
(* a process: inside one process _thread_lock admits one call at a time.   *)
(*                                                                         *)
(* The lock file is created with O_EXCL and carries the token of the call  *)
(* that made it; a file older than the 120 s lease is unlinked by whoever  *)
(* waits for it.  The steps of a call are file system operations, and the  *)
(* ones of other writers fall between them.  A transition only appends to  *)
(* the document here, so that a lost update shows.                         *)
(***************************************************************************)
EXTENDS Naturals, Sequences

CONSTANTS
    Writers,        \* processes
    Faulty,         \* writers that may crash or meet an I/O error on the lock file
    SlowWriters,    \* writers that may hold the lock for longer than its lease
    MaxCalls,       \* [Writers -> Nat]: model bound on the calls of a writer
    AnyRevision     \* expected_revision = None

ASSUME LockAssumption ==
    /\ Faulty \subseteq Writers /\ SlowWriters \subseteq Writers
    /\ MaxCalls \in [Writers -> Nat]
    /\ AnyRevision \notin Nat

VARIABLES
    lock,           \* execution.lock
    doc,            \* memory.json; its revision is its length
    pc,             \* pc[w]: where the call of w is
    seen,           \* seen[w]: the document w read inside its transaction
    expected,       \* expected[w]: the expected_revision of the call
    calls           \* calls[w]: number of calls w has made

vars == <<lock, doc, pc, seen, expected, calls>>

NoLock == [owner |-> <<>>]
Tokens == UNION {{w} \X (1..MaxCalls[w]) : w \in Writers}
LockFile == [owner : Tokens, written : BOOLEAN, old : BOOLEAN]

Holding == {"token", "read", "write", "release", "unlink"}
Steps == {"idle", "acquire", "reclaim", "crashed"} \cup Holding

TypeOK ==
    /\ lock \in LockFile \cup {NoLock}
    /\ doc \in Seq(Tokens)
    /\ pc \in [Writers -> Steps]
    /\ seen \in [Writers -> Seq(Tokens)]
    /\ expected \in [Writers -> Nat \cup {AnyRevision}]
    /\ calls \in [Writers -> Nat] /\ \A w \in Writers : calls[w] <= MaxCalls[w]

Init ==
    /\ lock = NoLock /\ doc = <<>>
    /\ pc = [w \in Writers |-> "idle"]
    /\ seen = [w \in Writers |-> <<>>]
    /\ expected = [w \in Writers |-> AnyRevision]
    /\ calls = [w \in Writers |-> 0]

(* owner_token of the call in progress. *)
Token(w) == <<w, calls[w]>>
Mine(w) == lock.owner = Token(w)

(* The call that made the lock file is still inside its transaction. *)
Live(token) == pc[token[1]] \in Holding /\ calls[token[1]] = token[2]

Goto(w, step) == pc' = [pc EXCEPT ![w] = step]

-----------------------------------------------------------------------------
(* Acquiring *)

(* A caller of write_transaction, with the revision it read before or      *)
(* without one.                                                            *)
Begin(w, revision) ==
    /\ pc[w] = "idle" /\ calls[w] < MaxCalls[w]
    /\ calls' = [calls EXCEPT ![w] = @ + 1]
    /\ expected' = [expected EXCEPT ![w] = revision]
    /\ Goto(w, "acquire")
    /\ UNCHANGED <<lock, doc, seen>>

(* Mutant: opened without O_EXCL, a file that exists is taken over as it   *)
(* is.                                                                     *)
CreateOrShare(w) ==
    /\ pc[w] = "acquire"
    /\ lock' = IF lock = NoLock THEN [owner |-> Token(w), written |-> FALSE, old |-> FALSE]
                                ELSE lock
    /\ Goto(w, "token")
    /\ UNCHANGED <<doc, seen, expected, calls>>

(* os.open with O_EXCL ... *)
CreateLock(w) ==
    /\ pc[w] = "acquire" /\ lock = NoLock
    /\ lock' = [owner |-> Token(w), written |-> FALSE, old |-> FALSE]
    /\ Goto(w, "token")
    /\ UNCHANGED <<doc, seen, expected, calls>>

(* ... and os.write of the token, which goes to an orphan when the file    *)
(* was unlinked in between.                                                *)
WriteToken(w) ==
    /\ pc[w] = "token"
    /\ lock' = IF Mine(w) THEN [lock EXCEPT !.written = TRUE] ELSE lock
    /\ Goto(w, "read")
    /\ UNCHANGED <<doc, seen, expected, calls>>

(* The write fails: the exception leaves the empty lock file behind. *)
WriteTokenFails(w) ==
    /\ w \in Faulty /\ pc[w] = "token"
    /\ Goto(w, "idle")
    /\ UNCHANGED <<lock, doc, seen, expected, calls>>

(* lock.stat() shows a file older than the lease ... *)
SeeOldLock(w) ==
    /\ pc[w] = "acquire" /\ lock # NoLock /\ lock.old
    /\ Goto(w, "reclaim")
    /\ UNCHANGED <<lock, doc, seen, expected, calls>>

(* ... and lock.unlink removes whatever file has that name by now. *)
Reclaim(w) ==
    /\ pc[w] = "reclaim"
    /\ lock' = NoLock
    /\ Goto(w, "acquire")
    /\ UNCHANGED <<doc, seen, expected, calls>>

(* memory_busy after five seconds. *)
Busy(w) ==
    /\ pc[w] = "acquire" /\ lock # NoLock
    /\ Goto(w, "idle")
    /\ UNCHANGED <<lock, doc, seen, expected, calls>>

-----------------------------------------------------------------------------
(* The transaction *)

(* Mutant: stale_revision_rejected is missing. *)
ReadAnyRevision(w) ==
    /\ pc[w] = "read"
    /\ seen' = [seen EXCEPT ![w] = doc]
    /\ Goto(w, "write")
    /\ UNCHANGED <<lock, doc, expected, calls>>

(* Mutant: the state a process has read before is used again. *)
ReadCached(w) ==
    /\ pc[w] = "read"
    /\ Goto(w, IF expected[w] \in {AnyRevision, Len(doc)} THEN "write" ELSE "release")
    /\ UNCHANGED <<lock, doc, seen, expected, calls>>

ReadState(w) ==
    /\ pc[w] = "read"
    /\ seen' = [seen EXCEPT ![w] = doc]
    /\ Goto(w, IF expected[w] \in {AnyRevision, Len(doc)} THEN "write" ELSE "release")
    /\ UNCHANGED <<lock, doc, expected, calls>>

(* The operation or _write_state raises; os.replace has not happened. *)
TransitionFails(w) ==
    /\ pc[w] = "write"
    /\ Goto(w, "release")
    /\ UNCHANGED <<lock, doc, seen, expected, calls>>

WriteState(w) ==
    /\ pc[w] = "write"
    /\ doc' = Append(seen[w], Token(w))
    /\ Goto(w, "release")
    /\ UNCHANGED <<lock, seen, expected, calls>>

-----------------------------------------------------------------------------
(* Releasing *)

(* lock.read_text: only a file with the call's own token is removed ... *)
CheckToken(w) ==
    /\ pc[w] = "release"
    /\ Goto(w, IF lock # NoLock /\ Mine(w) /\ lock.written THEN "unlink" ELSE "idle")
    /\ UNCHANGED <<lock, doc, seen, expected, calls>>

(* ... by its name. *)
Unlink(w) ==
    /\ pc[w] = "unlink"
    /\ lock' = NoLock
    /\ Goto(w, "idle")
    /\ UNCHANGED <<doc, seen, expected, calls>>

(* An OSError while releasing is swallowed and the file stays. *)
ReleaseFails(w) ==
    /\ w \in Faulty /\ pc[w] \in {"release", "unlink"}
    /\ Goto(w, "idle")
    /\ UNCHANGED <<lock, doc, seen, expected, calls>>

-----------------------------------------------------------------------------
(* The environment *)

Crash(w) ==
    /\ w \in Faulty /\ pc[w] \notin {"idle", "crashed"}
    /\ Goto(w, "crashed")
    /\ UNCHANGED <<lock, doc, seen, expected, calls>>

(* 120 s pass: over a lock nobody holds any more, or over a slow writer. *)
LeaseExpires ==
    /\ lock # NoLock /\ ~ lock.old
    /\ ~ Live(lock.owner) \/ lock.owner[1] \in SlowWriters
    /\ lock' = [lock EXCEPT !.old = TRUE]
    /\ UNCHANGED <<doc, pc, seen, expected, calls>>

Step(w) ==
    \/ \E revision \in {AnyRevision, Len(doc)} : Begin(w, revision)
    \/ CreateLock(w) \/ WriteToken(w) \/ WriteTokenFails(w)
    \/ SeeOldLock(w) \/ Reclaim(w) \/ Busy(w)
    \/ ReadState(w) \/ TransitionFails(w) \/ WriteState(w)
    \/ CheckToken(w) \/ Unlink(w) \/ ReleaseFails(w)
    \/ Crash(w)

Next == (\E w \in Writers : Step(w)) \/ LeaseExpires

Spec == Init /\ [][Next]_vars

-----------------------------------------------------------------------------
(* Properties *)

(* Two calls are never inside the read-modify-write of the document at the *)
(* same time.                                                              *)
MutualExclusion ==
    \A v, w \in Writers : pc[v] \in {"read", "write"} /\ pc[w] \in {"read", "write"} => v = w

(* The document is only ever extended by the transition being committed:   *)
(* no commit of another process, and no revision, is lost.  This is what   *)
(* module ProjectExecution takes for granted.                              *)
Atomic == INSTANCE AtomicDocument WITH Transitions <- Tokens
AtomicCommits == Atomic!Spec

(* A commit with an expected_revision applies to exactly that revision.    *)
ExpectedRevisionKept ==
    [][\A w \in Writers : doc' # doc /\ pc[w] = "write" /\ pc'[w] # "write"
                          => expected[w] \in {AnyRevision, Len(doc)}]_vars

(* A live lock is never overwritten: the file of a call that is still      *)
(* inside its transaction is removed by that call only.                    *)
Kept ==
    lock # NoLock /\ Live(lock.owner) /\ lock'.owner # lock.owner
      => pc[lock.owner[1]] = "unlink" /\ pc'[lock.owner[1]] = "idle"

LiveLockKept == [][Kept]_vars

(* The behaviours of Spec in which no live lock is overwritten, with any   *)
(* crashes, errors, reclaims and slow writers: Spec /\ LiveLockKept.       *)
KeptSpec == Init /\ [][Next /\ Kept]_vars
=============================================================================
