---------------------------- MODULE VyperLockProofs ----------------------------
(***************************************************************************)
(* Proofs about VyperLock, for every contract, with and without the pragma *)
(* and transient storage, and for every depth of calls.                    *)
(***************************************************************************)
EXTENDS VyperLock, TLAPS

(***************************************************************************)
(* The values of the lock, and what the frames look like.                  *)
(***************************************************************************)
LEMMA LockValues ==
  Temporary \in Locks /\ Final \in Locks /\ 0 \in Locks /\ Final # Temporary /\ 0 # Temporary
BY FlagsAssumption DEF Temporary, Final, Locks

LEMMA FrameFacts ==
  ASSUME TypeOK
  PROVE  /\ Len(stack) \in Nat
         /\ \A n \in 1..Len(stack) : stack[n] \in Frame
         /\ stack # <<>> <=> Len(stack) > 0
BY DEF TypeOK

LEMMA InvInit == Init => LockInv
<1> SUFFICES ASSUME Init PROVE LockInv
  OBVIOUS
<1>1. lock = 0 /\ stack = <<>> /\ Len(stack) = 0
  BY DEF Init
<1>2. TypeOK
  BY <1>1, LockValues DEF TypeOK
<1>3. Holders = {}
  BY <1>1 DEF Holders
<1> QED
  BY <1>1, <1>2, <1>3, LockValues
  DEF LockInv, NoneAbove, LockMeansHeld, BeforeSound, SettersHold, QuietAbove

-----------------------------------------------------------------------------
(***************************************************************************)
(* A new frame on top: the others stay, and it remembers the lock.         *)
(***************************************************************************)
LEMMA PushFacts ==
  ASSUME TypeOK, NEW f \in Functions, NEW message \in BOOLEAN, NEW static \in BOOLEAN,
         NEW sets \in BOOLEAN, Push(f, message, static, sets)
  PROVE  /\ stack' \in Seq(Frame)
         /\ Len(stack)' = Len(stack) + 1
         /\ \A n \in 1..Len(stack) : stack'[n] = stack[n]
         /\ stack'[Len(stack) + 1] =
              [fn |-> f, sets |-> sets, message |-> message, static |-> static, before |-> lock]
<1> DEFINE frame == [fn |-> f, sets |-> sets, message |-> message, static |-> static,
                     before |-> lock]
<1>1. frame \in Frame
  BY DEF TypeOK, Frame
<1>2. stack' = Append(stack, frame)
  BY DEF Push
<1> HIDE DEF frame
<1>3. /\ stack' \in Seq(Frame)
      /\ Len(stack)' = Len(stack) + 1
      /\ \A n \in 1..Len(stack) : stack'[n] = stack[n]
      /\ stack'[Len(stack) + 1] = frame
  BY <1>1, <1>2 DEF TypeOK
<1> QED BY <1>3 DEF frame

(***************************************************************************)
(* Frames taken from the top: the ones below stay as they are.             *)
(***************************************************************************)
LEMMA CutFacts ==
  ASSUME TypeOK, NEW k \in 0..Len(stack), stack' = SubSeq(stack, 1, k)
  PROVE  /\ stack' \in Seq(Frame)
         /\ Len(stack)' = k
         /\ \A n \in 1..k : stack'[n] = stack[n]
BY DEF TypeOK

(***************************************************************************)
(* A locked function is admitted only when nobody holds the lock, and only *)
(* locked functions set it.                                                *)
(***************************************************************************)
LEMMA AdmittedAlone ==
  ASSUME LockInv, NEW f \in Functions, Admitted(f), IsNonreentrant(f)
  PROVE  Holders = {} /\ lock # Temporary
BY DEF LockInv, LockMeansHeld, Admitted

LEMMA SettersAreLocked == \A f : SetsLock(f) => IsNonreentrant(f)
BY DEF SetsLock

(***************************************************************************)
(* Two functions that both took the lock would be one above the other.     *)
(***************************************************************************)
LEMMA OneHolder ==
  ASSUME LockInv, NEW m \in Holders, NEW n \in Holders
  PROVE  m = n
<1>1. Len(stack) \in Nat /\ m \in 1..Len(stack) /\ n \in 1..Len(stack)
  BY FrameFacts DEF LockInv, Holders
<1>2. \A k \in Holders : stack[k].message /\ IsNonreentrant(stack[k].fn)
  BY SettersAreLocked DEF LockInv, SettersHold, Holders
<1>3. ~(n > m)
  <2>1. n > m => n \in m + 1..Len(stack)
    BY <1>1
  <2> QED BY <1>2, <2>1 DEF LockInv, NoneAbove
<1>4. ~(m > n)
  <2>1. m > n => m \in n + 1..Len(stack)
    BY <1>1
  <2> QED BY <1>2, <2>1 DEF LockInv, NoneAbove
<1> QED BY <1>1, <1>3, <1>4

(***************************************************************************)
(* A frame put on top of another that must not write is kept from it.      *)
(***************************************************************************)
LEMMA QuietPushed ==
  ASSUME LockInv, NEW frame, Len(stack)' = Len(stack) + 1,
         \A n \in 1..Len(stack) : stack'[n] = stack[n], stack'[Len(stack) + 1] = frame,
         stack # <<>> /\ Quiet(Len(stack)) =>
           (frame.static \/ View(frame.fn)) /\ (frame.message => frame.static)
  PROVE  QuietAbove'
<1>0. Len(stack) \in Nat
  BY FrameFacts DEF LockInv
<1>1. \A n \in 1..Len(stack) : Quiet(n)' <=> Quiet(n)
  BY DEF Quiet, View
<1> SUFFICES ASSUME NEW m \in 1..Len(stack) + 1, NEW n \in m + 1..Len(stack) + 1, Quiet(m)'
             PROVE  Quiet(n)' /\ (stack'[n].message => stack'[n].static)
  BY DEF QuietAbove
<1>2. m \in 1..Len(stack) /\ Quiet(m) /\ (n \in m + 1..Len(stack) \/ n = Len(stack) + 1)
  BY <1>0, <1>1
<1>3. CASE n \in m + 1..Len(stack)
  <2>1. n \in 1..Len(stack)
    BY <1>0, <1>2, <1>3
  <2> QED BY <1>1, <1>2, <1>3, <2>1 DEF LockInv, QuietAbove
<1>4. CASE n = Len(stack) + 1
  <2>1. stack # <<>>
    BY <1>2
  <2>2. Quiet(Len(stack))
    <3>1. m = Len(stack) \/ Len(stack) \in m + 1..Len(stack)
      BY <1>0, <1>2
    <3> QED BY <1>2, <3>1 DEF LockInv, QuietAbove
  <2> QED BY <1>4, <2>1, <2>2 DEF Quiet, View
<1> QED BY <1>2, <1>3, <1>4

LEMMA EnterStep ==
  ASSUME LockInv, NEW f \in Functions, Enter(f)
  PROVE  LockInv'
<1> DEFINE static == Static \/ (stack # <<>> /\ View(Top.fn))
<1>0. TypeOK /\ Len(stack) \in Nat
  BY FrameFacts DEF LockInv
<1>1. Admitted(f) /\ Push(f, TRUE, static, SetsLock(f))
  BY DEF Enter
<1>2. lock' = IF SetsLock(f) THEN Temporary ELSE lock
  BY DEF Enter
<1>3. static \in BOOLEAN /\ SetsLock(f) \in BOOLEAN
  <2>1. SetsLock(f) \in BOOLEAN
    BY DEF SetsLock
  <2>2. stack # <<>> => Top.static \in BOOLEAN
    BY <1>0, FrameFacts DEF Top, Frame
  <2>3. View(Top.fn) \in BOOLEAN
    BY DEF View
  <2> QED BY <2>1, <2>2, <2>3 DEF Static
<1> HIDE DEF static
<1>4. /\ stack' \in Seq(Frame)
      /\ Len(stack)' = Len(stack) + 1
      /\ \A n \in 1..Len(stack) : stack'[n] = stack[n]
      /\ stack'[Len(stack) + 1] =
           [fn |-> f, sets |-> SetsLock(f), message |-> TRUE, static |-> static, before |-> lock]
  BY <1>0, <1>1, <1>3, PushFacts
<1>5. TypeOK'
  BY <1>0, <1>2, <1>4, LockValues DEF TypeOK
<1>6. Holders' = Holders \cup (IF SetsLock(f) THEN {Len(stack) + 1} ELSE {})
  <2>1. Holders' = {n \in 1..Len(stack) + 1 : stack'[n].sets}
    BY <1>4 DEF Holders
  <2>2. \A n \in 1..Len(stack) : stack'[n].sets <=> stack[n].sets
    BY <1>4
  <2>3. stack'[Len(stack) + 1].sets <=> SetsLock(f)
    BY <1>4
  <2> QED BY <1>0, <2>1, <2>2, <2>3 DEF Holders
<1>7. SetsLock(f) => Holders = {}
  BY <1>1, AdmittedAlone, SettersAreLocked
<1>8. SettersHold' /\ QuietAbove'
  <2>1. SettersHold'
    <3> SUFFICES ASSUME NEW n \in 1..Len(stack) + 1
                 PROVE  /\ stack'[n].sets <=> stack'[n].message /\ SetsLock(stack'[n].fn)
                        /\ stack'[n].sets => ~stack'[n].static
      BY <1>4 DEF SettersHold, SetsLock, IsNonreentrant, External, View
    <3>1. CASE n = Len(stack) + 1
      <4>1. SetsLock(f) => ~static
        BY DEF Enter, static
      <4> QED BY <1>4, <3>1, <4>1
    <3>2. CASE n \in 1..Len(stack)
      BY <1>4, <3>2 DEF LockInv, SettersHold
    <3> QED BY <1>0, <3>1, <3>2
  <2>2. stack # <<>> /\ Quiet(Len(stack)) => static
    BY DEF static, Static, Quiet, Top
  <2>3. PICK frame : /\ stack'[Len(stack) + 1] = frame
                     /\ frame.static = static
    BY <1>4
  <2> QED BY <1>4, <2>1, <2>2, <2>3, QuietPushed
<1>9. NoneAbove'
  <2> SUFFICES ASSUME NEW m \in Holders', NEW n \in m + 1..Len(stack) + 1,
                      stack'[n].message, IsNonreentrant(stack'[n].fn)
               PROVE  FALSE
    BY <1>4 DEF NoneAbove, IsNonreentrant, External
  <2>1. Holders' \subseteq 1..Len(stack) + 1
    BY <1>0, <1>6 DEF Holders
  <2>2. m \in Holders
    BY <1>0, <1>6, <2>1
  <2>3. CASE n = Len(stack) + 1
    <3>1. IsNonreentrant(f)
      BY <1>4, <2>3
    <3> QED BY <1>1, <2>2, <3>1, AdmittedAlone
  <2>4. CASE n \in 1..Len(stack)
    <3>1. stack[n] = stack'[n] /\ n \in m + 1..Len(stack)
      BY <1>4, <2>4
    <3> QED BY <2>2, <3>1 DEF LockInv, NoneAbove
  <2>5. n = Len(stack) + 1 \/ n \in 1..Len(stack)
    BY <1>0, <2>1
  <2> QED BY <2>3, <2>4, <2>5
<1>10. LockMeansHeld'
  <2>1. (lock' = Temporary) <=> (Holders' # {})
    BY <1>2, <1>6 DEF LockInv, LockMeansHeld
  <2> QED BY <2>1 DEF LockMeansHeld, Temporary
<1>11. BeforeSound'
  <2> SUFFICES ASSUME NEW n \in 1..Len(stack) + 1
               PROVE  (stack'[n].before = Temporary) <=> \E m \in 1..n - 1 : stack'[m].sets
    BY <1>4 DEF BeforeSound, Temporary
  <2>1. \A m \in 1..n - 1 : m \in 1..Len(stack) /\ stack'[m] = stack[m]
    BY <1>0, <1>4
  <2>2. CASE n = Len(stack) + 1
    BY <1>0, <1>4, <2>1, <2>2 DEF LockInv, LockMeansHeld, Holders
  <2>3. CASE n \in 1..Len(stack)
    BY <1>4, <2>1, <2>3 DEF LockInv, BeforeSound
  <2> QED BY <1>0, <2>2, <2>3
<1> QED BY <1>5, <1>8, <1>9, <1>10, <1>11 DEF LockInv

LEMMA CallStep ==
  ASSUME LockInv, NEW f \in Functions, CallInternal(f)
  PROVE  LockInv'
<1>0. TypeOK /\ Len(stack) \in Nat /\ stack # <<>>
  BY FrameFacts DEF LockInv, CallInternal
<1>1. Push(f, FALSE, Top.static, FALSE) /\ lock' = lock
  BY DEF CallInternal
<1>2. Top.static \in BOOLEAN
  BY <1>0, FrameFacts DEF Top, Frame
<1>3. /\ stack' \in Seq(Frame)
      /\ Len(stack)' = Len(stack) + 1
      /\ \A n \in 1..Len(stack) : stack'[n] = stack[n]
      /\ stack'[Len(stack) + 1] =
           [fn |-> f, sets |-> FALSE, message |-> FALSE, static |-> Top.static, before |-> lock]
  BY <1>0, <1>1, <1>2, PushFacts
<1>4. Holders' = Holders
  <2>1. Holders' = {n \in 1..Len(stack) + 1 : stack'[n].sets}
    BY <1>3 DEF Holders
  <2>2. \A n \in 1..Len(stack) : stack'[n].sets <=> stack[n].sets
    BY <1>3
  <2>3. ~stack'[Len(stack) + 1].sets
    BY <1>3
  <2> QED BY <1>0, <2>1, <2>2, <2>3 DEF Holders
<1>5. TypeOK'
  BY <1>0, <1>1, <1>3 DEF TypeOK, Locks
<1>6. SettersHold' /\ QuietAbove'
  <2>1. SettersHold'
    <3> SUFFICES ASSUME NEW n \in 1..Len(stack) + 1
                 PROVE  /\ stack'[n].sets <=> stack'[n].message /\ SetsLock(stack'[n].fn)
                        /\ stack'[n].sets => ~stack'[n].static
      BY <1>3 DEF SettersHold, SetsLock, IsNonreentrant, External, View
    <3>1. CASE n = Len(stack) + 1
      BY <1>3, <3>1
    <3>2. CASE n \in 1..Len(stack)
      BY <1>3, <3>2 DEF LockInv, SettersHold
    <3> QED BY <1>0, <3>1, <3>2
  <2>2. Quiet(Len(stack)) => Top.static \/ View(f)
    BY DEF CallInternal, Quiet, Top
  <2>3. PICK frame : /\ stack'[Len(stack) + 1] = frame
                     /\ frame.static = Top.static /\ frame.fn = f /\ ~frame.message
    BY <1>3
  <2> QED BY <1>3, <2>1, <2>2, <2>3, QuietPushed
<1>7. NoneAbove'
  <2> SUFFICES ASSUME NEW m \in Holders, NEW n \in m + 1..Len(stack) + 1, stack'[n].message
               PROVE  ~IsNonreentrant(stack'[n].fn)
    BY <1>3, <1>4 DEF NoneAbove, IsNonreentrant, External
  <2>1. m \in 1..Len(stack)
    BY DEF Holders
  <2>2. n # Len(stack) + 1
    BY <1>3
  <2>3. n \in m + 1..Len(stack) /\ stack'[n] = stack[n]
    BY <1>0, <1>3, <2>1, <2>2
  <2> QED BY <2>3 DEF LockInv, NoneAbove
<1>8. LockMeansHeld'
  BY <1>1, <1>4 DEF LockInv, LockMeansHeld, Temporary
<1>9. BeforeSound'
  <2> SUFFICES ASSUME NEW n \in 1..Len(stack) + 1
               PROVE  (stack'[n].before = Temporary) <=> \E m \in 1..n - 1 : stack'[m].sets
    BY <1>3 DEF BeforeSound, Temporary
  <2>1. \A m \in 1..n - 1 : m \in 1..Len(stack) /\ stack'[m] = stack[m]
    BY <1>0, <1>3
  <2>2. CASE n = Len(stack) + 1
    BY <1>0, <1>3, <2>1, <2>2 DEF LockInv, LockMeansHeld, Holders
  <2>3. CASE n \in 1..Len(stack)
    BY <1>3, <2>1, <2>3 DEF LockInv, BeforeSound
  <2> QED BY <1>0, <2>2, <2>3
<1> QED BY <1>5, <1>6, <1>7, <1>8, <1>9 DEF LockInv

-----------------------------------------------------------------------------
(***************************************************************************)
(* Whatever ends, the frames that are left are as sound as they were, if   *)
(* the lock is theirs.                                                     *)
(***************************************************************************)
LEMMA CutStep ==
  ASSUME LockInv, NEW k \in 0..Len(stack), stack' = SubSeq(stack, 1, k),
         lock' \in Locks,
         (lock' = Temporary) <=> \E m \in 1..k : stack[m].sets
  PROVE  LockInv'
<1>0. TypeOK /\ Len(stack) \in Nat
  BY FrameFacts DEF LockInv
<1>1. /\ stack' \in Seq(Frame)
      /\ Len(stack)' = k
      /\ \A n \in 1..k : stack'[n] = stack[n]
  BY <1>0, CutFacts
<1>2. Holders' = {n \in 1..k : stack[n].sets}
  <2>1. Holders' = {n \in 1..k : stack'[n].sets}
    BY <1>1 DEF Holders
  <2> QED BY <1>1, <2>1
<1>3. Holders' \subseteq Holders
  BY <1>0, <1>2 DEF Holders
<1>4. TypeOK'
  BY <1>1 DEF TypeOK, Locks
<1>5. SettersHold' /\ QuietAbove'
  <2>1. \A n \in 1..k : n \in 1..Len(stack) /\ stack'[n] = stack[n] /\ (Quiet(n)' <=> Quiet(n))
    BY <1>0, <1>1 DEF Quiet, View
  <2>2. SettersHold'
    BY <1>1, <2>1 DEF LockInv, SettersHold, SetsLock, IsNonreentrant, External, View
  <2>3. QuietAbove'
    <3> SUFFICES ASSUME NEW m \in 1..k, NEW n \in m + 1..k, Quiet(m)'
                 PROVE  Quiet(n)' /\ (stack'[n].message => stack'[n].static)
      BY <1>1 DEF QuietAbove
    <3>1. n \in 1..k /\ n \in m + 1..Len(stack)
      BY <1>0
    <3> QED BY <2>1, <3>1 DEF LockInv, QuietAbove
  <2> QED BY <2>2, <2>3
<1>6. NoneAbove'
  <2> SUFFICES ASSUME NEW m \in Holders', NEW n \in m + 1..k, stack'[n].message
               PROVE  ~IsNonreentrant(stack'[n].fn)
    BY <1>1 DEF NoneAbove, IsNonreentrant, External
  <2>1. m \in 1..k
    BY <1>2
  <2>2. n \in m + 1..Len(stack) /\ stack'[n] = stack[n]
    BY <1>0, <1>1, <2>1
  <2> QED BY <1>3, <2>2 DEF LockInv, NoneAbove
<1>7. LockMeansHeld'
  <2>1. (lock' = Temporary) <=> (Holders' # {})
    BY <1>2
  <2> QED BY <2>1 DEF LockMeansHeld, Temporary
<1>8. BeforeSound'
  <2> SUFFICES ASSUME NEW n \in 1..k
               PROVE  (stack'[n].before = Temporary) <=> \E m \in 1..n - 1 : stack'[m].sets
    BY <1>1 DEF BeforeSound, Temporary
  <2>1. \A m \in 1..n - 1 : m \in 1..k /\ stack'[m] = stack[m]
    BY <1>1
  <2>2. n \in 1..Len(stack) /\ stack'[n] = stack[n]
    BY <1>0, <1>1
  <2> QED BY <2>1, <2>2 DEF LockInv, BeforeSound
<1> QED BY <1>4, <1>5, <1>6, <1>7, <1>8 DEF LockInv

LEMMA ReturnStep ==
  ASSUME LockInv, Return
  PROVE  LockInv'
<1>0. TypeOK /\ Len(stack) \in Nat \ {0}
  BY FrameFacts DEF LockInv, Return
<1> DEFINE k == Len(stack) - 1
<1>1. k \in 0..Len(stack) /\ stack' = SubSeq(stack, 1, k)
  BY <1>0 DEF Return
<1>2. lock' = IF stack[Len(stack)].sets THEN Final ELSE lock
  BY DEF Return, Top
<1>3. lock' \in Locks
  BY <1>0, <1>2, LockValues DEF TypeOK
<1>4. (lock' = Temporary) <=> \E m \in 1..k : stack[m].sets
  <2>1. CASE stack[Len(stack)].sets
    <3>1. \A m \in 1..k : ~stack[m].sets
      BY <1>0, <2>1, OneHolder DEF Holders
    <3> QED BY <1>2, <2>1, <3>1, LockValues
  <2>2. CASE ~stack[Len(stack)].sets
    <3>1. (Holders # {}) <=> \E m \in 1..k : stack[m].sets
      BY <1>0, <2>2 DEF Holders
    <3> QED BY <1>2, <2>2, <3>1 DEF LockInv, LockMeansHeld
  <2> QED BY <2>1, <2>2
<1> HIDE DEF k
<1> QED BY <1>1, <1>3, <1>4, CutStep

LEMMA RevertStep ==
  ASSUME LockInv, Revert
  PROVE  LockInv'
<1>0. TypeOK /\ Len(stack) \in Nat
  BY FrameFacts DEF LockInv
<1>1. PICK n \in 1..Len(stack) : lock' = stack[n].before /\ stack' = SubSeq(stack, 1, n - 1)
  BY DEF Revert
<1> DEFINE k == n - 1
<1>2. k \in 0..Len(stack) /\ stack' = SubSeq(stack, 1, k)
  BY <1>0, <1>1
<1>3. lock' \in Locks
  BY <1>0, <1>1, FrameFacts DEF Frame
<1>4. (lock' = Temporary) <=> \E m \in 1..k : stack[m].sets
  BY <1>1 DEF LockInv, BeforeSound
<1> HIDE DEF k
<1> QED BY <1>2, <1>3, <1>4, CutStep

LEMMA InvStep == LockInv /\ [Next]_vars => LockInv'
<1> SUFFICES ASSUME LockInv, [Next]_vars PROVE LockInv'
  OBVIOUS
<1>1. ASSUME NEW f \in Functions, Enter(f) PROVE LockInv'
  BY <1>1, EnterStep
<1>2. ASSUME NEW f \in Functions, CallInternal(f) PROVE LockInv'
  BY <1>2, CallStep
<1>3. CASE Return
  BY <1>3, ReturnStep
<1>4. CASE Revert
  BY <1>4, RevertStep
<1>5. CASE UNCHANGED vars
  BY <1>5 DEF vars, LockInv, TypeOK, NoneAbove, LockMeansHeld, BeforeSound, SettersHold, QuietAbove,
              Quiet, Holders, SetsLock, IsNonreentrant, External, View, Temporary, Locks
<1> QED BY <1>1, <1>2, <1>3, <1>4, <1>5 DEF Next

LEMMA AlwaysInv == Spec => []LockInv
<1>1. Init => LockInv
  BY InvInit
<1>2. LockInv /\ [Next]_vars => LockInv'
  BY InvStep
<1> QED BY <1>1, <1>2, PTL DEF Spec

-----------------------------------------------------------------------------
(***************************************************************************)
(* The results.                                                            *)
(***************************************************************************)

(* The lock only ever takes the values of the compiler's protocol.         *)
THEOREM TypeCorrect == Spec => []TypeOK
<1>1. LockInv => TypeOK
  BY DEF LockInv
<1> QED BY <1>1, AlwaysInv, PTL

(* No locked function is entered by a message above one that holds the     *)
(* lock, and above a view none that needs to write.                        *)
LEMMA WriterAlone ==
  ASSUME LockInv, NEW m \in LockedCalls, NEW n \in LockedCalls, m < n
  PROVE  ~SetsLock(stack[m].fn) /\ ~SetsLock(stack[n].fn)
<1>1. /\ Len(stack) \in Nat /\ m \in 1..Len(stack) /\ n \in 1..Len(stack) /\ n \in m + 1..Len(stack)
      /\ stack[m].message /\ IsNonreentrant(stack[m].fn)
      /\ stack[n].message /\ IsNonreentrant(stack[n].fn)
  BY FrameFacts DEF LockInv, LockedCalls
<1>2. ~SetsLock(stack[m].fn)
  <2> SUFFICES ASSUME SetsLock(stack[m].fn) PROVE FALSE
    OBVIOUS
  <2>1. m \in Holders
    BY <1>1 DEF LockInv, SettersHold, Holders
  <2> QED BY <1>1, <2>1 DEF LockInv, NoneAbove
<1>3. Quiet(m)
  BY <1>1, <1>2 DEF SetsLock, Quiet
<1>4. stack[n].static
  BY <1>1, <1>3 DEF LockInv, QuietAbove
<1>5. ~SetsLock(stack[n].fn)
  BY <1>1, <1>4 DEF LockInv, SettersHold
<1> QED BY <1>2, <1>5

(* Of the locked functions that messages have called, one that changes     *)
(* state runs alone, whatever comes back to the contract between.          *)
THEOREM Exclusive == Spec => []WritersRunAlone
<1>1. LockInv => WritersRunAlone
  <2> SUFFICES ASSUME LockInv, NEW m \in LockedCalls, NEW n \in LockedCalls,
                      SetsLock(stack[m].fn), m # n
               PROVE  FALSE
    BY DEF WritersRunAlone
  <2>1. m < n \/ n < m
    BY FrameFacts DEF LockInv, LockedCalls
  <2> QED BY <2>1, WriterAlone
<1> QED BY <1>1, AlwaysInv, PTL

(* Nothing with a lock is entered while it is held, a view function that   *)
(* only looks at the lock no more than the others.                         *)
THEOREM NothingLockedAbove == Spec => []NoneAbove
<1>1. LockInv => NoneAbove
  BY DEF LockInv
<1> QED BY <1>1, AlwaysInv, PTL

(* The lock is held exactly as long as a function that took it runs.       *)
THEOREM HeldWhileRunning == Spec => []LockMeansHeld
<1>1. LockInv => LockMeansHeld
  BY DEF LockInv
<1> QED BY <1>1, AlwaysInv, PTL

(* When a transaction is over every function can be called again.          *)
THEOREM Released == Spec => []FreeOutside
<1>1. LockInv => FreeOutside
  <2> SUFFICES ASSUME LockInv, stack = <<>> PROVE \A f \in Functions : Admitted(f)
    BY DEF FreeOutside
  <2>1. Holders = {}
    BY DEF Holders
  <2>2. lock # Temporary
    BY <2>1 DEF LockInv, LockMeansHeld
  <2> QED BY <2>2 DEF Admitted
<1> QED BY <1>1, AlwaysInv, PTL
=============================================================================
