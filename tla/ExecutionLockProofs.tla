------------------------ MODULE ExecutionLockProofs -------------------------
(***************************************************************************)
(* What the lock file is good for.  The code does not keep its promise     *)
(* that a live lock is never overwritten, and then commits are lost (run   *)
(* lock_lost).  Here it is proved that nothing else goes wrong: in every   *)
(* behaviour that keeps the promise, with any number of writers, whatever  *)
(* crashes, fails, is reclaimed or outlives the lease, the transactions    *)
(* exclude each other and are atomic.                                      *)
(***************************************************************************)
EXTENDS ExecutionLock, TLAPS, SequenceTheorems

(* A call past CreateLock owns the lock file, and its token is in it once  *)
(* it has read; what it read is the document, at the revision it asked     *)
(* for, when it writes.                                                    *)
Owned ==
    \A w \in Writers :
       /\ pc[w] # "idle" => calls[w] # 0
       /\ pc[w] \in Holding => lock \in LockFile /\ lock.owner = Token(w)
       /\ pc[w] \in Holding \ {"token"} => lock.written
       /\ pc[w] = "write" => seen[w] = doc /\ expected[w] \in {AnyRevision, Len(doc)}

IInv == TypeOK /\ Owned

LEMMA TokenType ==
  ASSUME TypeOK, NEW w \in Writers, calls[w] # 0
  PROVE  Token(w) \in Tokens
<1>1. calls[w] \in 1..MaxCalls[w]
  BY LockAssumption DEF TypeOK
<1>2. <<w, calls[w]>> \in {w} \X (1..MaxCalls[w])
  BY <1>1
<1> QED
  BY <1>2 DEF Token, Tokens

LEMMA NoLockIsNoFile == NoLock \notin LockFile
<1>1. ASSUME NoLock \in LockFile PROVE FALSE
  <2>1. NoLock.owner \in Tokens
    BY <1>1 DEF LockFile
  <2>2. <<>> \in Tokens
    BY <2>1 DEF NoLock
  <2> QED
    BY <2>2 DEF Tokens
<1> QED
  BY <1>1

(* At most one writer is past CreateLock. *)
LEMMA OneHolder ==
  ASSUME Owned, NEW v \in Writers, NEW w \in Writers, pc[v] \in Holding, pc[w] \in Holding
  PROVE  v = w
  BY DEF Owned, Token

LEMMA InitIInv == Init => IInv
  BY LockAssumption DEF Init, IInv, TypeOK, Owned, Steps, Holding

(* A reclaim that keeps the live locks finds nobody inside a transaction.  *)
LEMMA ReclaimFindsNobody ==
  ASSUME IInv, Kept, NEW w \in Writers, Reclaim(w), NEW v \in Writers
  PROVE  pc[v] \notin Holding
<1> SUFFICES ASSUME pc[v] \in Holding PROVE FALSE
  OBVIOUS
<1>1. lock \in LockFile /\ lock.owner = Token(v) /\ lock # NoLock
  BY NoLockIsNoFile DEF IInv, Owned
<1>2. lock.owner[1] = v /\ lock.owner[2] = calls[v] /\ Live(lock.owner)
  BY <1>1 DEF Token, Live
<1>3. lock'.owner # lock.owner
  BY <1>1 DEF Reclaim, NoLock, Token
<1>4. v # w /\ pc'[v] = pc[v]
  BY DEF Reclaim, Goto, IInv, TypeOK, Holding
<1> QED
  BY <1>1, <1>2, <1>3, <1>4 DEF Kept

LEMMA NextIInv ==
  ASSUME IInv, [Next]_vars, [Kept]_vars
  PROVE  IInv'
<1> USE DEF IInv
<1>1. ASSUME NEW w \in Writers, NEW r \in {AnyRevision, Len(doc)}, Begin(w, r)
      PROVE  IInv'
  <2>1. r \in Nat \cup {AnyRevision}
    BY DEF TypeOK
  <2>2. /\ calls' \in [Writers -> Nat]
        /\ \A v \in Writers : calls'[v] = IF v = w THEN calls[v] + 1 ELSE calls[v]
        /\ \A v \in Writers : pc'[v] = IF v = w THEN "acquire" ELSE pc[v]
    BY <1>1 DEF Begin, Goto, TypeOK
  <2>3. TypeOK'
    <3>1. \A v \in Writers : calls'[v] <= MaxCalls[v]
      BY <1>1, <2>2, LockAssumption DEF Begin, TypeOK
    <3> QED
      BY <1>1, <2>1, <2>2, <3>1 DEF Begin, Goto, TypeOK, Steps
  <2>4. Owned'
    BY <1>1, <2>2 DEF Begin, TypeOK, Owned, Token, Holding
  <2> QED
    BY <2>3, <2>4
<1>2. ASSUME NEW w \in Writers, CreateLock(w)
      PROVE  IInv'
  <2>1. Token(w) \in Tokens
    BY <1>2, TokenType DEF CreateLock, Owned
  <2>2. lock' \in LockFile /\ lock'.owner = Token(w)
    BY <1>2, <2>1 DEF CreateLock, LockFile
  <2>3. TypeOK'
    BY <1>2, <2>2 DEF CreateLock, Goto, TypeOK, Steps, Holding
  <2>4. \A v \in Writers : pc[v] \notin Holding
    BY <1>2, NoLockIsNoFile DEF CreateLock, Owned
  <2>5. Owned'
    BY <1>2, <2>2, <2>4 DEF CreateLock, Goto, TypeOK, Owned, Token, Holding
  <2> QED
    BY <2>3, <2>5
<1>3. ASSUME NEW w \in Writers, WriteToken(w)
      PROVE  IInv'
  <2>1. lock \in LockFile /\ lock.owner = Token(w)
    BY <1>3 DEF WriteToken, Owned, Holding
  <2>2. lock' = [lock EXCEPT !.written = TRUE]
    BY <1>3, <2>1 DEF WriteToken, Mine
  <2>3. lock' \in LockFile /\ lock'.owner = lock.owner /\ lock'.written
    BY <2>1, <2>2 DEF LockFile
  <2>4. TypeOK'
    BY <1>3, <2>3 DEF WriteToken, Goto, TypeOK, Steps, Holding
  <2>5. Owned'
    BY <1>3, <2>3 DEF WriteToken, Goto, TypeOK, Owned, Token, Holding
  <2> QED
    BY <2>4, <2>5
<1>4. ASSUME NEW w \in Writers,
             \/ WriteTokenFails(w) \/ ReleaseFails(w) \/ Crash(w)
             \/ SeeOldLock(w) \/ Busy(w)
      PROVE  IInv'
  <2>1. /\ pc[w] # "idle"
        /\ Goto(w, "idle") \/ Goto(w, "crashed") \/ Goto(w, "reclaim")
        /\ UNCHANGED <<lock, doc, seen, expected, calls>>
    BY <1>4 DEF WriteTokenFails, ReleaseFails, Crash, SeeOldLock, Busy
  <2>2. TypeOK'
    BY <2>1 DEF Goto, TypeOK, Steps
  <2>3. Owned'
    BY <2>1 DEF Goto, TypeOK, Owned, Token, Holding
  <2> QED
    BY <2>2, <2>3
<1>5. ASSUME NEW w \in Writers, Reclaim(w), Kept
      PROVE  IInv'
  <2>1. TypeOK'
    BY <1>5 DEF Reclaim, Goto, TypeOK, Steps
  <2>2. \A v \in Writers : pc[v] \notin Holding
    BY <1>5, ReclaimFindsNobody
  <2>3. Owned'
    BY <1>5, <2>2 DEF Reclaim, Goto, TypeOK, Owned, Token, Holding
  <2> QED
    BY <2>1, <2>3
<1>6. ASSUME NEW w \in Writers, ReadState(w) \/ TransitionFails(w)
      PROVE  IInv'
  <2>1. TypeOK'
    BY <1>6 DEF ReadState, TransitionFails, Goto, TypeOK, Steps, Holding
  <2>2. Owned'
    BY <1>6 DEF ReadState, TransitionFails, Goto, TypeOK, Owned, Token, Holding
  <2> QED
    BY <2>1, <2>2
<1>7. ASSUME NEW w \in Writers, WriteState(w)
      PROVE  IInv'
  <2>1. doc' \in Seq(Tokens)
    BY <1>7, TokenType, AppendProperties DEF WriteState, Owned, TypeOK
  <2>2. TypeOK'
    BY <1>7, <2>1 DEF WriteState, Goto, TypeOK, Steps, Holding
  <2>3. \A v \in Writers \ {w} : pc[v] # "write"
    BY <1>7, OneHolder DEF WriteState, Holding
  <2>4. Owned'
    BY <1>7, <2>3 DEF WriteState, Goto, TypeOK, Owned, Token, Holding
  <2> QED
    BY <2>2, <2>4
<1>8. ASSUME NEW w \in Writers, CheckToken(w)
      PROVE  IInv'
  <2>1. Goto(w, "unlink")
    BY <1>8, NoLockIsNoFile DEF CheckToken, Owned, Mine, Holding
  <2>2. TypeOK'
    BY <1>8, <2>1 DEF CheckToken, Goto, TypeOK, Steps, Holding
  <2>3. Owned'
    BY <1>8, <2>1 DEF CheckToken, Goto, TypeOK, Owned, Token, Holding
  <2> QED
    BY <2>2, <2>3
<1>9. ASSUME NEW w \in Writers, Unlink(w)
      PROVE  IInv'
  <2>1. TypeOK'
    BY <1>9 DEF Unlink, Goto, TypeOK, Steps
  <2>2. \A v \in Writers \ {w} : pc[v] \notin Holding
    BY <1>9, OneHolder DEF Unlink, Holding
  <2>3. Owned'
    BY <1>9, <2>2 DEF Unlink, Goto, TypeOK, Owned, Token, Holding
  <2> QED
    BY <2>1, <2>3
<1>10. CASE LeaseExpires
  <2>1. lock \in LockFile /\ lock' = [lock EXCEPT !.old = TRUE]
    BY <1>10 DEF LeaseExpires, TypeOK
  <2>2. lock' \in LockFile /\ lock'.owner = lock.owner /\ lock'.written = lock.written
    BY <2>1 DEF LockFile
  <2> QED
    BY <1>10, <2>2 DEF LeaseExpires, TypeOK, Owned, Token
<1>11. CASE UNCHANGED vars
  BY <1>11 DEF vars, TypeOK, Owned, Token
<1>12. ASSUME NEW w \in Writers, Reclaim(w)
       PROVE  Kept \/ UNCHANGED vars
  BY DEF vars
<1> QED
  BY <1>1, <1>2, <1>3, <1>4, <1>5, <1>6, <1>7, <1>8, <1>9, <1>10, <1>11, <1>12
     DEF Next, Step

-----------------------------------------------------------------------------
(* Theorems *)

LEMMA Invariance == Spec /\ LiveLockKept => []IInv
<1>1. Init => IInv
  BY InitIInv
<1>2. IInv /\ [Next]_vars /\ [Kept]_vars => IInv'
  BY NextIInv
<1> QED
  BY <1>1, <1>2, PTL DEF Spec, LiveLockKept

(* As long as no live lock is overwritten, one of any number of callers of *)
(* write_transaction at a time is in the read-modify-write.                *)
THEOREM LockIsExclusive == Spec /\ LiveLockKept => []MutualExclusion
<1>1. IInv => MutualExclusion
  BY OneHolder DEF IInv, MutualExclusion, Holding
<1> QED
  BY <1>1, Invariance, PTL

(* As long as no live lock is overwritten, write_transaction implements    *)
(* AtomicDocument: every commit extends what the previous commit left.     *)
THEOREM TransactionsAreAtomic == Spec /\ LiveLockKept => AtomicCommits
<1>1. Init => Atomic!Init
  BY DEF Init, Atomic!Init
<1>2. ASSUME IInv, [Next]_vars
      PROVE  [Atomic!Next]_doc
  <2>1. ASSUME NEW w \in Writers, WriteState(w)
        PROVE  Atomic!Next
    <3>1. Token(w) \in Tokens
      BY <1>2, <2>1, TokenType DEF IInv, Owned, WriteState
    <3>2. doc' = Append(doc, Token(w))
      BY <1>2, <2>1 DEF WriteState, IInv, Owned
    <3> QED
      BY <3>1, <3>2 DEF Atomic!Next, Atomic!Commit
  <2>2. ASSUME NEW w \in Writers, Step(w), ~ WriteState(w)
        PROVE  UNCHANGED doc
    BY <2>2 DEF Step, Begin, CreateLock, WriteToken, WriteTokenFails, SeeOldLock, Reclaim,
       Busy, ReadState, TransitionFails, CheckToken, Unlink, ReleaseFails, Crash
  <2>3. LeaseExpires \/ UNCHANGED vars => UNCHANGED doc
    BY DEF LeaseExpires, vars
  <2> QED
    BY <1>2, <2>1, <2>2, <2>3 DEF Next
<1>3. IInv /\ [Next]_vars => [Atomic!Next]_doc
  BY <1>2
<1> QED
  BY <1>1, <1>3, Invariance, PTL DEF Spec, AtomicCommits, Atomic!Spec

(* As long as no live lock is overwritten, a transition with an            *)
(* expected_revision is committed on that revision: what write_transaction *)
(* checked when it read the document holds when it replaces it.            *)
THEOREM RevisionsAreExpected == Spec /\ LiveLockKept => ExpectedRevisionKept
<1>1. ASSUME IInv
      PROVE  \A w \in Writers : pc[w] = "write" => expected[w] \in {AnyRevision, Len(doc)}
  BY <1>1 DEF IInv, Owned
<1>2. IInv => [\A w \in Writers : doc' # doc /\ pc[w] = "write" /\ pc'[w] # "write"
                                  => expected[w] \in {AnyRevision, Len(doc)}]_vars
  BY <1>1
<1> QED
  BY <1>2, Invariance, PTL DEF ExpectedRevisionKept
=============================================================================
