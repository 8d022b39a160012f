------------------------ MODULE FileTaskStoreProofs ------------------------
(***************************************************************************)
(* Theorems about FileTaskStore, for any number of processes, goroutines   *)
(* and tasks, checked by TLAPS.                                            *)
(***************************************************************************)
EXTENDS FileTaskStore, TLAPS

-----------------------------------------------------------------------------
(* What the operators on records return. *)

LEMMA WithoutType ==
  ASSUME NEW rs \in Records, NEW S
  PROVE  Without(rs, S) \in Records
BY DEF Without, Records

LEMMA NoRecordsType == NoRecords \in Records
BY DEF NoRecords, Records

\* An edit of well-formed records by any writer is well-formed.
LEMMA EditedType ==
  ASSUME StoreAssumption,
         NEW c \in Calls, IsWrite(c), NEW rs \in Records, NEW n \in Nat
  PROVE  Edited(c, rs, n) \in Records
<1>1. CASE c.kind = "save"
  <2>1. c.id \in Task /\ c.st \in Status
    BY <1>1 DEF Calls, StoreAssumption
  <2>2. [st |-> c.st, upd |-> n] \in Rec
    BY <2>1 DEF Rec
  <2>3. Upsert(rs, c.id, [st |-> c.st, upd |-> n]) \in Records
    BY <2>1, <2>2 DEF Upsert, Records
  <2>. QED BY <1>1, <2>3 DEF Edited
<1>2. CASE c.kind = "delete"
  BY <1>2, WithoutType DEF Edited
<1>3. CASE c.kind = "purge"
  BY <1>3, WithoutType DEF Edited
<1>. QED BY <1>1, <1>2, <1>3 DEF IsWrite

LEMMA FoundType ==
  ASSUME NEW c, NEW rs \in Records
  PROVE  Found(c, rs) \in Records
BY WithoutType DEF Found

-----------------------------------------------------------------------------
LEMMA TypeInit == StoreAssumption /\ Init => TypeOK
BY NoRecordsType DEF Init, TypeOK, StoreAssumption, Free, NoCall, Calls, PC

LEMMA TypeForget ==
  ASSUME TypeOK, NEW S, Forget(S)
  PROVE  /\ call' \in [Thread -> Calls]
         /\ since' \in [Thread -> Nat]
         /\ stamp' \in [Thread -> Nat]
         /\ buf' \in [Thread -> Records]
         /\ out' \in [Thread -> {"none", "ok", "err"}]
         /\ view' \in [Thread -> Records]
BY NoRecordsType DEF TypeOK, Forget, NoCall, Calls

LEMMA TypeNext == StoreAssumption /\ TypeOK /\ [Next]_vars => TypeOK'
<1>. SUFFICES ASSUME StoreAssumption, TypeOK, [Next]_vars PROVE TypeOK'
  OBVIOUS
<1>. USE DEF TypeOK, PC
<1>1. CASE Tick
  BY <1>1 DEF Tick
<1>2. ASSUME NEW t \in Thread, NEW c \in Calls, Begin(t, c) PROVE TypeOK'
  BY <1>2 DEF Begin, Goto
<1>3. ASSUME NEW t \in Thread, LockMu(t) PROVE TypeOK'
  BY <1>3 DEF LockMu, Goto, Take, StoreAssumption
<1>4. ASSUME NEW t \in Thread, LockFile(t) PROVE TypeOK'
  BY <1>4 DEF LockFile, Goto, Take
<1>5. ASSUME NEW t \in Thread, LockFileFails(t) PROVE TypeOK'
  BY <1>5 DEF LockFileFails, Goto
<1>6. ASSUME NEW t \in Thread, ReadForWrite(t) PROVE TypeOK'
  <2>1. Edited(call[t], disk, now) \in Records
    BY <1>6, EditedType DEF ReadForWrite
  <2>. QED BY <1>6, <2>1 DEF ReadForWrite, Goto
<1>7. ASSUME NEW t \in Thread, ReadForRead(t) PROVE TypeOK'
  <2>1. Found(call[t], disk) \in Records
    BY <1>7, FoundType DEF ReadForRead
  <2>. QED BY <1>7, <2>1 DEF ReadForRead, Goto
<1>8. ASSUME NEW t \in Thread, ReadFails(t) PROVE TypeOK'
  BY <1>8 DEF ReadFails, Goto
<1>9. ASSUME NEW t \in Thread, CreateTmp(t) PROVE TypeOK'
  BY <1>9 DEF CreateTmp, Goto
<1>10. ASSUME NEW t \in Thread, WriteTmp(t) PROVE TypeOK'
  BY <1>10 DEF WriteTmp, Goto
<1>11. ASSUME NEW t \in Thread, WriteTmpFails(t) PROVE TypeOK'
  BY <1>11 DEF WriteTmpFails, Goto
<1>12. ASSUME NEW t \in Thread, Rename(t) PROVE TypeOK'
  BY <1>12 DEF Rename, Goto
<1>13. ASSUME NEW t \in Thread, RenameFails(t) PROVE TypeOK'
  BY <1>13 DEF RenameFails, Goto
<1>14. ASSUME NEW t \in Thread, UnlockFile(t) PROVE TypeOK'
  BY <1>14 DEF UnlockFile, Goto, Drop
<1>15. ASSUME NEW t \in Thread, UnlockMu(t) PROVE TypeOK'
  BY <1>15, TypeForget DEF UnlockMu, Goto, Drop
<1>16. ASSUME NEW p \in Proc, Crash(p) PROVE TypeOK'
  BY <1>16, TypeForget DEF Crash, Drop, Free
<1>17. CASE UNCHANGED vars
  BY <1>17 DEF vars
<1>. QED
  BY <1>1, <1>2, <1>3, <1>4, <1>5, <1>6, <1>7, <1>8, <1>9, <1>10, <1>11,
     <1>12, <1>13, <1>14, <1>15, <1>16, <1>17 DEF Next, Step

\* The variables keep their types: every file is a whole document, torn or absent.
THEOREM TypeCorrect == Spec => []TypeOK
<1>1. Init => TypeOK
  BY TypeInit, StoreAssumption
<1>2. TypeOK /\ [Next]_vars => TypeOK'
  BY TypeNext, StoreAssumption
<1>. QED BY <1>1, <1>2, PTL DEF Spec
-----------------------------------------------------------------------------
(***************************************************************************)
(* The locks.  A lock l that the threads of H say they hold, each for its  *)
(* call, is exclusive for writers: this is the invariant of s.mu and of    *)
(* the lock file alike.                                                    *)
(***************************************************************************)
HeldBy(l, H) ==
  /\ \A t \in H : IF IsWrite(call[t]) THEN l.w = t ELSE t \in l.r
  /\ l.w # NoThread => l.r = {}

InMu(p)  == {t \in Thread : ProcOf[t] = p /\ pc[t] \in Inside}
Locked   == {"read", "create", "write", "rename", "funlock"}
InLock   == {t \in Thread : pc[t] \in Locked}

MuInv   == \A p \in Proc : HeldBy(mu[p], InMu(p))
LockInv == FileLocks => HeldBy(lock, InLock)

\* Taking and dropping a lock keep it exclusive.
LEMMA TakeHeld ==
  ASSUME StoreAssumption, TypeOK,
         NEW l \in [w : Thread \cup {NoThread}, r : SUBSET Thread],
         NEW H \in SUBSET Thread, HeldBy(l, H),
         NEW t \in Thread, CanTake(l, call[t])
  PROVE  HeldBy(Take(l, t, call[t]), H \cup {t})
<1>. NoThread \notin Thread
  BY DEF StoreAssumption
<1>1. CASE IsWrite(call[t])
  <2>1. H = {}
    BY <1>1 DEF CanTake, HeldBy
  <2>2. Take(l, t, call[t]).w = t /\ Take(l, t, call[t]).r = {}
    BY <1>1 DEF Take, CanTake
  <2>. QED BY <1>1, <2>1, <2>2 DEF HeldBy
<1>2. CASE ~IsWrite(call[t])
  <2>1. Take(l, t, call[t]).w = NoThread /\ Take(l, t, call[t]).r = l.r \cup {t}
    BY <1>2 DEF Take, CanTake
  <2>2. \A u \in H : ~IsWrite(call[u]) /\ u \in l.r
    BY DEF CanTake, HeldBy
  <2>. QED BY <1>2, <2>1, <2>2 DEF HeldBy
<1>. QED BY <1>1, <1>2

LEMMA DropHeld ==
  ASSUME StoreAssumption,
         NEW l \in [w : Thread \cup {NoThread}, r : SUBSET Thread],
         NEW H \in SUBSET Thread, HeldBy(l, H), NEW S
  PROVE  HeldBy(Drop(l, S), H \ S)
BY DEF HeldBy, Drop, StoreAssumption

LEMMA SubHeld ==
  ASSUME NEW l, NEW H, NEW G \in SUBSET H, HeldBy(l, H)
  PROVE  HeldBy(l, G)
BY DEF HeldBy
\* A lock is still held by those of its holders that go on with their call.
LEMMA StillHeld ==
  ASSUME NEW l, NEW H, HeldBy(l, H), NEW G \in SUBSET H,
         \A t \in G : call'[t] = call[t]
  PROVE  /\ \A t \in G : IF IsWrite(call'[t]) THEN l.w = t ELSE t \in l.r
         /\ l.w # NoThread => l.r = {}
BY DEF HeldBy

\* Steps after the mutex was taken and before it is released.
Middle(t) ==
  \/ LockFile(t) \/ LockFileFails(t) \/ ReadForWrite(t) \/ ReadForRead(t)
  \/ ReadFails(t) \/ CreateTmp(t) \/ WriteTmp(t) \/ WriteTmpFails(t)
  \/ Rename(t) \/ RenameFails(t) \/ UnlockFile(t)

LEMMA MiddleStep ==
  ASSUME TypeOK, NEW t \in Thread, Middle(t)
  PROVE  /\ mu' = mu /\ call' = call /\ pc[t] \in Inside
         /\ \E b \in Inside : pc' = [pc EXCEPT ![t] = b]
BY DEF Middle, LockFile, LockFileFails, ReadForWrite, ReadForRead, ReadFails, CreateTmp,
       WriteTmp, WriteTmpFails, Rename, RenameFails, UnlockFile, Goto, Inside

LEMMA MuNext ==
  StoreAssumption /\ TypeOK /\ MuInv /\ [Next]_vars => MuInv'
<1>. SUFFICES ASSUME StoreAssumption, TypeOK, MuInv, [Next]_vars, NEW p \in Proc
              PROVE  HeldBy(mu[p], InMu(p))'
  BY DEF MuInv
<1>0. HeldBy(mu[p], InMu(p))
  BY DEF MuInv
<1>. USE DEF TypeOK
<1>1. ASSUME mu'[p] = mu[p], InMu(p)' \subseteq InMu(p),
             \A t \in InMu(p)' : call'[t] = call[t]
      PROVE  HeldBy(mu[p], InMu(p))'
  BY <1>0, <1>1, StillHeld DEF HeldBy
<1>2. CASE Tick \/ UNCHANGED vars
  BY <1>1, <1>2 DEF Tick, vars, InMu
<1>3. ASSUME NEW t \in Thread, NEW c \in Calls, Begin(t, c)
      PROVE  HeldBy(mu[p], InMu(p))'
  BY <1>1, <1>3 DEF Begin, Goto, InMu, Inside
<1>4. ASSUME NEW t \in Thread, LockMu(t)
      PROVE  HeldBy(mu[p], InMu(p))'
  <2>1. CASE ProcOf[t] # p
    <3>1. mu'[p] = mu[p] /\ InMu(p)' = InMu(p) /\ call' = call
      BY <1>4, <2>1 DEF LockMu, Goto, InMu
    <3>. QED BY <1>1, <3>1
  <2>2. CASE ProcOf[t] = p
    <3>1. /\ CanTake(mu[p], call[t])
          /\ mu'[p] = Take(mu[p], t, call[t])
          /\ InMu(p)' = InMu(p) \cup {t}
          /\ call' = call
      BY <1>4, <2>2 DEF LockMu, Goto, InMu, Inside
    <3>2. HeldBy(Take(mu[p], t, call[t]), InMu(p) \cup {t})
      BY <1>0, <3>1, TakeHeld DEF InMu
    <3>. QED BY <3>1, <3>2 DEF HeldBy
  <2>. QED BY <2>1, <2>2
<1>5. ASSUME NEW t \in Thread, Middle(t)
      PROVE  HeldBy(mu[p], InMu(p))'
  <2>1. InMu(p)' = InMu(p)
    BY <1>5, MiddleStep DEF InMu, Inside
  <2>. QED BY <1>1, <1>5, <2>1, MiddleStep
<1>6. ASSUME NEW t \in Thread, UnlockMu(t)
      PROVE  HeldBy(mu[p], InMu(p))'
  <2>1. InMu(p)' = InMu(p) \ {t}
    BY <1>6 DEF UnlockMu, Goto, InMu, Inside
  <2>2. \A u \in InMu(p)' : call'[u] = call[u]
    BY <1>6, <2>1 DEF UnlockMu, Forget, InMu
  <2>3. CASE ProcOf[t] # p
    <3>1. mu'[p] = mu[p]
      BY <1>6, <2>3 DEF UnlockMu
    <3>. QED BY <1>1, <2>1, <2>2, <3>1
  <2>4. CASE ProcOf[t] = p
    <3>1. mu'[p] = Drop(mu[p], {t})
      BY <1>6, <2>4 DEF UnlockMu
    <3>2. HeldBy(Drop(mu[p], {t}), InMu(p) \ {t})
      BY <1>0, DropHeld DEF InMu
    <3>. QED BY <2>1, <2>2, <3>1, <3>2 DEF HeldBy
  <2>. QED BY <2>3, <2>4
<1>7. ASSUME NEW q \in Proc, Crash(q)
      PROVE  HeldBy(mu[p], InMu(p))'
  <2>1. CASE p = q
    <3>1. mu'[p] = Free /\ InMu(p)' = {}
      BY <1>7, <2>1 DEF Crash, InMu, Inside
    <3>. QED BY <3>1 DEF HeldBy, Free
  <2>2. CASE p # q
    <3>1. mu'[p] = mu[p] /\ InMu(p)' = InMu(p)
      BY <1>7, <2>2 DEF Crash, InMu
    <3>2. \A u \in InMu(p) : call'[u] = call[u]
      BY <1>7, <2>2 DEF Crash, Forget, InMu
    <3>. QED BY <1>1, <3>1, <3>2
  <2>. QED BY <2>1, <2>2
<1>. QED
  BY <1>2, <1>3, <1>4, <1>5, <1>6, <1>7 DEF Next, Step, Middle

\* The mutex alone keeps a writer apart from the goroutines of its process, on
\* every system: an RWMutex held across the whole call.
THEOREM InProcess == Spec => []InProcessExclusion
<1>1. Init => TypeOK /\ MuInv
  <2>. SUFFICES ASSUME Init PROVE TypeOK /\ MuInv
    OBVIOUS
  <2>1. \A p \in Proc : InMu(p) = {} /\ mu[p] = Free
    BY DEF Init, InMu, Inside
  <2>. QED BY <2>1, TypeInit, StoreAssumption DEF MuInv, HeldBy, Free
<1>2. TypeOK /\ MuInv /\ [Next]_vars => (TypeOK /\ MuInv)'
  BY TypeNext, MuNext, StoreAssumption
<1>3. TypeOK /\ MuInv => InProcessExclusion
  <2>. SUFFICES ASSUME TypeOK, MuInv, NEW t \in Thread, NEW u \in Thread,
                       t # u, ProcOf[t] = ProcOf[u], IsWrite(call[t]),
                       pc[t] \in Inside, pc[u] \in Inside
                PROVE  FALSE
    BY DEF InProcessExclusion
  <2>1. HeldBy(mu[ProcOf[t]], InMu(ProcOf[t]))
    BY StoreAssumption DEF MuInv, StoreAssumption
  <2>2. t \in InMu(ProcOf[t]) /\ u \in InMu(ProcOf[t])
    BY DEF InMu
  <2>. QED BY <2>1, <2>2, StoreAssumption DEF HeldBy, StoreAssumption
<1>. QED BY <1>1, <1>2, <1>3, PTL DEF Spec
-----------------------------------------------------------------------------
(* The lock file: between processes, flock does what the mutex does inside one. *)

\* Steps between the taking and the releasing of the file lock.
Working(t) ==
  \/ ReadForWrite(t) \/ ReadForRead(t) \/ ReadFails(t) \/ CreateTmp(t)
  \/ WriteTmp(t) \/ WriteTmpFails(t) \/ Rename(t) \/ RenameFails(t)

\* Steps that leave the file lock alone and do not enter its section.
Outside(t) ==
  LockMu(t) \/ LockFileFails(t) \/ UnlockMu(t)

LEMMA WorkingStep ==
  ASSUME TypeOK, NEW t \in Thread, Working(t)
  PROVE  lock' = lock /\ call' = call /\ InLock' = InLock
BY DEF TypeOK, Working, ReadForWrite, ReadForRead, ReadFails, CreateTmp, WriteTmp,
       WriteTmpFails, Rename, RenameFails, Goto, InLock, Locked

LEMMA LockNext ==
  StoreAssumption /\ TypeOK /\ LockInv /\ [Next]_vars => LockInv'
<1>. SUFFICES ASSUME StoreAssumption, TypeOK, LockInv, [Next]_vars, FileLocks
              PROVE  HeldBy(lock, InLock)'
  BY DEF LockInv
<1>0. HeldBy(lock, InLock)
  BY DEF LockInv
<1>. USE DEF TypeOK
<1>1. ASSUME lock' = lock, InLock' \subseteq InLock,
             \A t \in InLock' : call'[t] = call[t]
      PROVE  HeldBy(lock, InLock)'
  BY <1>0, <1>1, StillHeld DEF HeldBy
<1>2. CASE Tick \/ UNCHANGED vars
  BY <1>1, <1>2 DEF Tick, vars, InLock
<1>3. ASSUME NEW t \in Thread, NEW c \in Calls, Begin(t, c)
      PROVE  HeldBy(lock, InLock)'
  BY <1>1, <1>3 DEF Begin, Goto, InLock, Locked
<1>4. ASSUME NEW t \in Thread, Outside(t)
      PROVE  HeldBy(lock, InLock)'
  <2>1. lock' = lock /\ InLock' = InLock
    BY <1>4 DEF Outside, LockMu, LockFileFails, UnlockMu, Goto, InLock, Locked
  <2>2. \A u \in InLock : call'[u] = call[u]
    BY <1>4 DEF Outside, LockMu, LockFileFails, UnlockMu, Forget, Goto, InLock, Locked
  <2>. QED BY <1>1, <2>1, <2>2
<1>5. ASSUME NEW t \in Thread, LockFile(t)
      PROVE  HeldBy(lock, InLock)'
  <2>1. /\ CanTake(lock, call[t])
        /\ lock' = Take(lock, t, call[t])
        /\ InLock' = InLock \cup {t}
        /\ call' = call
    BY <1>5 DEF LockFile, Goto, InLock, Locked
  <2>2. HeldBy(Take(lock, t, call[t]), InLock \cup {t})
    BY <1>0, <2>1, TakeHeld DEF InLock
  <2>. QED BY <2>1, <2>2 DEF HeldBy
<1>6. ASSUME NEW t \in Thread, Working(t)
      PROVE  HeldBy(lock, InLock)'
  BY <1>1, <1>6, WorkingStep
<1>7. ASSUME NEW t \in Thread, UnlockFile(t)
      PROVE  HeldBy(lock, InLock)'
  <2>1. InLock' = InLock \ {t} /\ lock' = Drop(lock, {t}) /\ call' = call
    BY <1>7 DEF UnlockFile, Goto, InLock, Locked
  <2>2. HeldBy(Drop(lock, {t}), InLock \ {t})
    BY <1>0, DropHeld DEF InLock
  <2>. QED BY <2>1, <2>2 DEF HeldBy
<1>8. ASSUME NEW q \in Proc, Crash(q)
      PROVE  HeldBy(lock, InLock)'
  <2>. DEFINE dead == {t \in Thread : ProcOf[t] = q}
  <2>1. InLock' = InLock \ dead /\ lock' = Drop(lock, dead)
    BY <1>8 DEF Crash, InLock, Locked
  <2>2. \A u \in InLock' : call'[u] = call[u]
    BY <1>8, <2>1 DEF Crash, Forget, InLock
  <2>3. HeldBy(Drop(lock, dead), InLock \ dead)
    BY <1>0, DropHeld DEF InLock
  <2>. QED BY <2>1, <2>2, <2>3 DEF HeldBy
<1>. QED
  BY <1>2, <1>3, <1>4, <1>5, <1>6, <1>7, <1>8 DEF Next, Step, Outside, Working

-----------------------------------------------------------------------------
(* What a writer holds between its read and its rename. *)

Writing == {"create", "write", "rename"}

CopyInv ==
  FileLocks =>
    /\ NeverTorn
    /\ \A t \in Thread :
         /\ pc[t] \in Writing => IsWrite(call[t])
         /\ pc[t] \in Writing => buf[t] = Edited(call[t], disk, stamp[t])
         /\ pc[t] = "write"  => tmp = Torn
         /\ pc[t] = "rename" => tmp = buf[t]

IInv == TypeOK /\ MuInv /\ LockInv /\ CopyInv

\* While a writer works on the file, no other thread of any process is near it.
LEMMA WriterAlone ==
  ASSUME StoreAssumption, FileLocks, TypeOK, LockInv, CopyInv,
         NEW t \in Thread, pc[t] \in Writing,
         NEW u \in Thread, u # t
  PROVE  pc[u] \notin Locked
<1>1. HeldBy(lock, InLock) /\ t \in InLock /\ IsWrite(call[t])
  BY DEF LockInv, CopyInv, InLock, Locked, Writing
<1>2. lock.w = t /\ lock.r = {}
  BY <1>1 DEF HeldBy, StoreAssumption
<1>3. u \notin InLock
  BY <1>1, <1>2 DEF HeldBy
<1>. QED BY <1>3 DEF InLock

LEMMA CopyNext ==
  StoreAssumption /\ IInv /\ [Next]_vars => CopyInv'
<1>. SUFFICES ASSUME StoreAssumption, IInv, [Next]_vars, FileLocks
              PROVE  CopyInv'
  BY DEF CopyInv
<1>. USE DEF IInv, TypeOK, CopyInv, Writing, NeverTorn
<1>0. Torn \notin Records /\ NoFile \notin Records /\ Torn # NoFile
  BY DEF StoreAssumption, Records, Rec
<1>1. CASE Tick \/ UNCHANGED vars
  BY <1>1 DEF Tick, vars
<1>2. ASSUME NEW t \in Thread, NEW c \in Calls, Begin(t, c) PROVE CopyInv'
  BY <1>2 DEF Begin, Goto
<1>3. ASSUME NEW t \in Thread,
             LockMu(t) \/ LockFile(t) \/ LockFileFails(t) \/ ReadForRead(t)
               \/ ReadFails(t) \/ WriteTmpFails(t) \/ UnlockFile(t)
      PROVE  CopyInv'
  BY <1>3 DEF LockMu, LockFile, LockFileFails, ReadForRead, ReadFails, WriteTmpFails,
              UnlockFile, Goto
<1>4. ASSUME NEW t \in Thread, ReadForWrite(t) PROVE CopyInv'
  BY <1>4 DEF ReadForWrite, Goto
<1>5. ASSUME NEW t \in Thread, CreateTmp(t) PROVE CopyInv'
  <2>1. \A u \in Thread \ {t} : pc[u] \notin Writing
    BY <1>5, WriterAlone DEF CreateTmp, Goto, Locked
  <2>. QED BY <1>5, <2>1 DEF CreateTmp, Goto
<1>6. ASSUME NEW t \in Thread, WriteTmp(t) PROVE CopyInv'
  <2>1. \A u \in Thread \ {t} : pc[u] \notin Writing
    BY <1>6, WriterAlone DEF WriteTmp, Goto, Locked
  <2>2. tmp' = buf[t]
    BY <1>6 DEF WriteTmp, Goto
  <2>. QED BY <1>6, <2>1, <2>2 DEF WriteTmp, Goto
<1>7. ASSUME NEW t \in Thread, Rename(t) PROVE CopyInv'
  <2>1. \A u \in Thread \ {t} : pc[u] \notin Writing
    BY <1>7, WriterAlone DEF Rename, Goto, Locked
  <2>2. disk' = buf[t] /\ buf[t] \in Records
    BY <1>7 DEF Rename, Goto
  <2>. QED BY <1>0, <1>7, <2>1, <2>2 DEF Rename, Goto
<1>8. ASSUME NEW t \in Thread, RenameFails(t) PROVE CopyInv'
  <2>1. \A u \in Thread \ {t} : pc[u] \notin Writing
    BY <1>8, WriterAlone DEF RenameFails, Goto, Locked
  <2>. QED BY <1>8, <2>1 DEF RenameFails, Goto
<1>9. ASSUME NEW t \in Thread, UnlockMu(t) PROVE CopyInv'
  BY <1>9 DEF UnlockMu, Forget, Goto
<1>10. ASSUME NEW q \in Proc, Crash(q) PROVE CopyInv'
  BY <1>10 DEF Crash, Forget
<1>. QED
  BY <1>1, <1>2, <1>3, <1>4, <1>5, <1>6, <1>7, <1>8, <1>9, <1>10 DEF Next, Step

LEMMA IInvInit == StoreAssumption /\ Init => IInv
<1>. SUFFICES ASSUME StoreAssumption, Init PROVE IInv
  OBVIOUS
<1>1. TypeOK
  BY TypeInit
<1>2. MuInv
  <2>1. \A p \in Proc : InMu(p) = {} /\ mu[p] = Free
    BY DEF Init, InMu, Inside
  <2>. QED BY <2>1 DEF MuInv, HeldBy, Free
<1>3. LockInv
  <2>1. InLock = {} /\ lock = Free
    BY DEF Init, InLock, Locked
  <2>. QED BY <2>1 DEF LockInv, HeldBy, Free
<1>4. CopyInv
  BY NoRecordsType DEF Init, CopyInv, NeverTorn, Writing, StoreAssumption, Records, Rec
<1>. QED BY <1>1, <1>2, <1>3, <1>4 DEF IInv

LEMMA IInvNext == StoreAssumption /\ IInv /\ [Next]_vars => IInv'
BY TypeNext, MuNext, LockNext, CopyNext DEF IInv

THEOREM Invariant == Spec => []IInv
BY IInvInit, IInvNext, StoreAssumption, PTL DEF Spec

\* No lost update: with file locks, what a writer is about to rename into place is
\* the edit of the file as it is at that moment, whatever other processes do.
THEOREM NoLostUpdate == FileLocks => (Spec => []CopyIsFresh)
<1>. SUFFICES ASSUME FileLocks PROVE Spec => []CopyIsFresh
  OBVIOUS
<1>1. IInv => CopyIsFresh
  BY DEF IInv, CopyInv, CopyIsFresh, Writing
<1>. QED BY <1>1, Invariant, PTL

\* Crash safety: with file locks the file is a whole document at every moment.
THEOREM CrashSafe == FileLocks => (Spec => []NeverTorn)
<1>. SUFFICES ASSUME FileLocks PROVE Spec => []NeverTorn
  OBVIOUS
<1>1. IInv => NeverTorn
  BY DEF IInv, CopyInv
<1>. QED BY <1>1, Invariant, PTL

\* What an edit does to a pending record that it is not about.
LEMMA PendingSurvives ==
  ASSUME NEW c, IsWrite(c), NEW rs \in Records, NEW n, NEW i \in Pending(rs),
         c.kind \in {"save", "delete"} => c.id # i
  PROVE  i \in Pending(Edited(c, rs, n))
<1>1. i \in Task /\ rs[i] # Absent /\ rs[i].st = "pending"
  BY DEF Pending, Stored
<1>2. Edited(c, rs, n)[i] = rs[i]
  BY <1>1 DEF Edited, IsWrite, Records, Upsert, Without, Expired
<1>. QED BY <1>1, <1>2 DEF Pending, Stored

LEMMA PendingNext ==
  ASSUME StoreAssumption, FileLocks, IInv, [Next]_vars
  PROVE  [disk # Torn /\ disk' # Torn =>
            \A i \in Pending(disk) \ Pending(disk') :
              \E t \in Thread : /\ pc[t] = "rename" /\ pc'[t] = "funlock"
                               /\ call[t].kind \in {"save", "delete"}
                               /\ call[t].id = i]_vars
<1>. SUFFICES ASSUME NEW i \in Pending(disk) \ Pending(disk')
              PROVE  \E t \in Thread : /\ pc[t] = "rename" /\ pc'[t] = "funlock"
                                      /\ call[t].kind \in {"save", "delete"}
                                      /\ call[t].id = i
  OBVIOUS
<1>1. PICK t \in Thread : Rename(t)
  BY DEF Next, vars, Step, Tick, Begin, LockMu, LockFile, LockFileFails, ReadForWrite,
         ReadForRead, ReadFails, CreateTmp, WriteTmp, WriteTmpFails, RenameFails, UnlockFile,
         UnlockMu, Crash
<1>2. /\ pc[t] = "rename" /\ pc'[t] = "funlock" /\ disk' = tmp
      /\ IsWrite(call[t]) /\ tmp = Edited(call[t], disk, stamp[t])
  BY <1>1 DEF Rename, Goto, IInv, TypeOK, CopyInv, Writing
<1>3. disk \in Records
  BY DEF IInv, TypeOK, CopyInv, NeverTorn
<1>4. call[t].kind \in {"save", "delete"} /\ call[t].id = i
  BY <1>2, <1>3, PendingSurvives
<1>. QED BY <1>2, <1>4

\* With file locks a pending record ends only in the Save or the Delete of its own
\* ID: neither a Purge, nor a call that fails, nor a crash, nor the Save of another
\* task by another process takes it away.
THEOREM PendingIsSafe == FileLocks => (Spec => PendingOnlyEndedByItsCallers)
<1>. SUFFICES ASSUME FileLocks PROVE Spec => PendingOnlyEndedByItsCallers
  OBVIOUS
<1>1. IInv /\ [Next]_vars =>
        [disk # Torn /\ disk' # Torn =>
           \A i \in Pending(disk) \ Pending(disk') :
             \E t \in Thread : /\ pc[t] = "rename" /\ pc'[t] = "funlock"
                              /\ call[t].kind \in {"save", "delete"}
                              /\ call[t].id = i]_vars
  BY PendingNext, StoreAssumption
<1>. QED BY <1>1, Invariant, PTL DEF Spec, PendingOnlyEndedByItsCallers
-----------------------------------------------------------------------------
(* Refinement: the outcome of a call is known exactly from its effect on, and  *)
(* the stamp of a write was taken during the call.                             *)

Early == {"idle", "mu", "flock", "read", "create", "write", "rename"}

OutcomeInv ==
  \A t \in Thread :
    /\ pc[t] \in Early <=> out[t] = "none"
    /\ since[t] <= now
    /\ pc[t] \in Writing => since[t] <= stamp[t] /\ stamp[t] <= now

LEMMA OutcomeNext ==
  TypeOK /\ OutcomeInv /\ [Next]_vars => OutcomeInv'
<1>. SUFFICES ASSUME TypeOK, OutcomeInv, [Next]_vars PROVE OutcomeInv'
  OBVIOUS
<1>. USE DEF TypeOK, OutcomeInv, Early, Writing
<1>1. CASE Tick \/ UNCHANGED vars
  BY <1>1 DEF Tick, vars
<1>2. ASSUME NEW t \in Thread, NEW c \in Calls, Begin(t, c) PROVE OutcomeInv'
  BY <1>2 DEF Begin, Goto
<1>3. ASSUME NEW t \in Thread, Middle(t) \/ LockMu(t) PROVE OutcomeInv'
  BY <1>3 DEF Middle, LockMu, LockFile, LockFileFails, ReadForWrite, ReadForRead, ReadFails,
              CreateTmp, WriteTmp, WriteTmpFails, Rename, RenameFails, UnlockFile, Goto
<1>4. ASSUME NEW t \in Thread, UnlockMu(t) PROVE OutcomeInv'
  BY <1>4 DEF UnlockMu, Forget, Goto
<1>5. ASSUME NEW q \in Proc, Crash(q) PROVE OutcomeInv'
  BY <1>5 DEF Crash, Forget
<1>. QED BY <1>1, <1>2, <1>3, <1>4, <1>5 DEF Next, Step, Middle

LEMMA InitRefines == Init => Atomic!Init
BY DEF Init, Atomic!Init, Phase, NoCall, Atomic!NoCall, NoRecords, Atomic!NoRecords

\* The two ways of writing the effect of a call.
LEMMA SameEffect ==
  ASSUME NEW c, NEW rs, NEW n
  PROVE  /\ Edited(c, rs, n) = Atomic!Effect(c, rs, n)
         /\ Found(c, rs) = Atomic!Answer(c, rs)
         /\ IsWrite(c) = Atomic!IsWrite(c)
BY DEF Edited, Atomic!Effect, Found, Atomic!Answer, IsWrite, Atomic!IsWrite,
       Upsert, Atomic!Upsert, Without, Atomic!Without, Expired, Atomic!Expired,
       Stored, Atomic!Stored

LEMMA ForgetIsOver ==
  ASSUME TypeOK, NEW S, Forget(S),
         pc' = [t \in Thread |-> IF t \in S THEN "idle" ELSE pc[t]],
         UNCHANGED <<disk, now>>
  PROVE  Atomic!Over(S)
<1>1. Phase' = [t \in Thread |-> IF t \in S THEN "idle" ELSE Phase[t]]
  BY DEF Phase, Forget, TypeOK
<1>. QED BY <1>1 DEF Atomic!Over, Forget, NoCall, Atomic!NoCall, NoRecords, Atomic!NoRecords

LEMMA StepRefines ==
  StoreAssumption /\ FileLocks /\ IInv /\ OutcomeInv /\ [Next]_vars
    => [Atomic!Next]_Atomic!vars
<1>. SUFFICES ASSUME StoreAssumption, FileLocks, IInv, OutcomeInv, [Next]_vars
              PROVE  Atomic!Next \/ UNCHANGED Atomic!vars
  OBVIOUS
<1>. USE DEF IInv, TypeOK, OutcomeInv, Early, Writing
<1>1. CASE Tick
  <2>1. Atomic!Tick
    BY <1>1 DEF Tick, Atomic!Tick, Phase
  <2>. QED BY <2>1 DEF Atomic!Next
<1>2. ASSUME NEW t \in Thread, NEW c \in Calls, Begin(t, c) PROVE Atomic!Next
  <2>1. Phase' = [Phase EXCEPT ![t] = "called"] /\ Phase[t] = "idle"
    BY <1>2 DEF Begin, Goto, Phase
  <2>2. Atomic!Invoke(t, c)
    BY <1>2, <2>1 DEF Begin, Atomic!Invoke
  <2>. QED BY <2>2 DEF Atomic!Next
<1>3. ASSUME NEW t \in Thread,
             LockMu(t) \/ LockFile(t) \/ ReadForWrite(t) \/ CreateTmp(t) \/ WriteTmp(t)
               \/ UnlockFile(t)
      PROVE  UNCHANGED Atomic!vars
  <2>1. Phase' = Phase
    BY <1>3 DEF LockMu, LockFile, ReadForWrite, CreateTmp, WriteTmp, UnlockFile, Goto, Phase
  <2>. QED BY <1>3, <2>1 DEF LockMu, LockFile, ReadForWrite, CreateTmp, WriteTmp, UnlockFile,
                             Atomic!vars
<1>4. ASSUME NEW t \in Thread,
             LockFileFails(t) \/ ReadFails(t) \/ WriteTmpFails(t) \/ RenameFails(t)
      PROVE  Atomic!Next
  <2>0. /\ pc[t] \in {"flock", "read", "create", "write", "rename"}
        /\ \E b \in {"unlock", "funlock"} : pc' = [pc EXCEPT ![t] = b]
        /\ out' = [out EXCEPT ![t] = "err"]
    BY <1>4 DEF LockFileFails, ReadFails, WriteTmpFails, RenameFails, Goto
  <2>1. Phase' = [Phase EXCEPT ![t] = "done"] /\ Phase[t] = "called"
    <3>1. out[t] = "none" /\ pc[t] # "idle"
      BY <2>0
    <3>2. pc'[t] # "idle" /\ \A u \in Thread \ {t} : pc'[u] = pc[u] /\ out'[u] = out[u]
      BY <2>0
    <3>3. out'[t] = "err"
      BY <2>0
    <3>4. \A u \in Thread : Phase'[u] = IF u = t THEN "done" ELSE Phase[u]
      BY <3>2, <3>3 DEF Phase
    <3>5. Phase' = [u \in Thread |-> IF u = t THEN "done" ELSE Phase[u]]
      BY <3>4 DEF Phase
    <3>6. Phase[t] = "called"
      BY <3>1 DEF Phase
    <3>7. Phase = [u \in Thread |-> Phase[u]]
      BY DEF Phase
    <3>. HIDE DEF IInv, TypeOK, OutcomeInv
    <3>. QED BY <3>5, <3>6, <3>7
  <2>2. Atomic!Fail(t)
    BY <1>4, <2>1 DEF LockFileFails, ReadFails, WriteTmpFails, RenameFails, Atomic!Fail
  <2>. QED BY <2>2 DEF Atomic!Next
<1>5. ASSUME NEW t \in Thread, ReadForRead(t) PROVE Atomic!Next
  <2>1. Phase' = [Phase EXCEPT ![t] = "done"] /\ Phase[t] = "called"
    BY <1>5 DEF ReadForRead, Goto, Phase
  <2>2. Atomic!Read(t)
    BY <1>5, <2>1, SameEffect DEF ReadForRead, Atomic!Read
  <2>. QED BY <2>2 DEF Atomic!Next
<1>6. ASSUME NEW t \in Thread, Rename(t) PROVE Atomic!Next
  <2>1. Phase' = [Phase EXCEPT ![t] = "done"] /\ Phase[t] = "called"
    BY <1>6 DEF Rename, Goto, Phase
  <2>2. /\ IsWrite(call[t])
        /\ disk' = Edited(call[t], disk, stamp[t])
        /\ stamp[t] \in since[t]..now
    BY <1>6 DEF Rename, Goto, CopyInv
  <2>3. Atomic!Write(t)
    BY <1>6, <2>1, <2>2, SameEffect DEF Rename, Atomic!Write
  <2>. QED BY <2>3 DEF Atomic!Next
<1>7. ASSUME NEW t \in Thread, UnlockMu(t) PROVE Atomic!Next
  <2>1. Phase[t] = "done"
    BY <1>7 DEF UnlockMu, Goto, Phase
  <2>2. pc' = [u \in Thread |-> IF u \in {t} THEN "idle" ELSE pc[u]]
    BY <1>7 DEF UnlockMu, Goto
  <2>3. Atomic!Over({t})
    BY <1>7, <2>2, ForgetIsOver DEF UnlockMu
  <2>. QED BY <2>1, <2>3 DEF Atomic!Return, Atomic!Next
<1>8. ASSUME NEW q \in Proc, Crash(q) PROVE Atomic!Next
  <2>. DEFINE dead == {t \in Thread : ProcOf[t] = q}
  <2>1. Atomic!Over(dead)
    BY <1>8, ForgetIsOver DEF Crash
  <2>. QED BY <2>1 DEF Atomic!Die, Atomic!Next
<1>9. CASE UNCHANGED vars
  BY <1>9 DEF vars, Atomic!vars, Phase
<1>. QED BY <1>1, <1>2, <1>3, <1>4, <1>5, <1>6, <1>7, <1>8, <1>9 DEF Next, Step

\* Linearizability: with file locks FileTaskStore implements the atomic store of
\* TaskStoreAbs, through I/O errors and crashes of any of the processes.
THEOREM Linearizable == FileLocks => (Spec => ImplementsAtomic)
<1>. SUFFICES ASSUME FileLocks PROVE Spec => ImplementsAtomic
  OBVIOUS
<1>1. Init => OutcomeInv
  BY DEF Init, OutcomeInv, Early, Writing
<1>2. IInv /\ OutcomeInv /\ [Next]_vars => OutcomeInv'
  BY OutcomeNext DEF IInv
<1>3. IInv /\ OutcomeInv /\ [Next]_vars => [Atomic!Next]_Atomic!vars
  BY StepRefines, StoreAssumption
<1>. QED BY <1>1, <1>2, <1>3, InitRefines, Invariant, PTL
         DEF Spec, ImplementsAtomic, Atomic!Spec
=============================================================================
