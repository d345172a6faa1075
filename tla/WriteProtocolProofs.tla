------------------------ MODULE WriteProtocolProofs ------------------------
(***************************************************************************)
(* Theorems about the write protocol, for any sets of writers, readers and *)
(* parts and any bound on the calls.  Under SerialWriters (no write fails, *)
(* and every writer ends under the mutex or there is only one) writes are  *)
(* exclusive and a valid read is a snapshot; if moreover nobody closes the *)
(* store under a writer, or each write is flushed, the absence of the      *)
(* flush lock file means an up to date disk.                               *)
(***************************************************************************)
EXTENDS WriteProtocol, TLAPS

\* The parity the sequence lock turns on.
LEMMA OddFlips == \A n \in Nat : Odd(n + 1) <=> ~Odd(n)
  BY DEF Odd

\* Every variable of the protocol keeps its type.
THEOREM TypeCorrect == Spec => []TypeOK
<1> USE WriteAssumption DEF WriteAssumption, Stamps, NoStamp
<1>1. Init => TypeOK
  <2> SUFFICES ASSUME Init PROVE TypeOK
    OBVIOUS
  <2>1. 0 \in Stamps /\ NoStamp \in Stamps \cup {NoStamp}
    BY DEF WriteAssumption
  <2>2. /\ memory \in [Parts -> Stamps] /\ disk \in [Parts -> Stamps]
        /\ seen \in [Readers -> [Parts -> Stamps \cup {NoStamp}]]
    BY <2>1 DEF Init, Everywhere
  <2>. QED
    BY <2>1, <2>2 DEF Init, TypeOK
<1>2. TypeOK /\ [Next]_vars => TypeOK'
  <2> SUFFICES ASSUME TypeOK, [Next]_vars PROVE TypeOK'
    OBVIOUS
  <2> USE DEF TypeOK, vars, lockVars, writerVars, readerVars, Everywhere
  <2>1. CASE Open
    BY <2>1 DEF Open, TryLock, LockShared
  <2>2. CASE Close
    BY <2>2 DEF Close
  <2>3. ASSUME NEW p \in Parts, CloseTable(p)
        PROVE  TypeOK'
    BY <2>3 DEF CloseTable
  <2>4. CASE CloseFails
    BY <2>4 DEF CloseFails
  <2>5. CASE CloseStore
    BY <2>5 DEF CloseStore, UnlockShared
  <2>6. CASE Crash
    BY <2>6 DEF Crash
  <2>7. ASSUME NEW p \in Parts, WriteBack(p)
        PROVE  TypeOK'
    BY <2>7 DEF WriteBack
  <2>8. ASSUME NEW w \in Writers, NEW k \in Kinds, Call(w, k)
        PROVE  TypeOK'
    BY <2>8 DEF Call
  <2>9. ASSUME NEW w \in Writers, Lock(w)
        PROVE  TypeOK'
    BY <2>9 DEF Lock
  <2>10. ASSUME NEW w \in Writers, Refuse(w)
        PROVE  TypeOK'
    BY <2>10 DEF Refuse, Return
  <2>11. ASSUME NEW w \in Writers, FlushLock(w)
        PROVE  TypeOK'
    BY <2>11 DEF FlushLock, LockShared, Goto
  <2>12. ASSUME NEW w \in Writers, BeginWrite(w)
        PROVE  TypeOK'
    <3>1. sequence' \in Nat
      BY <2>12 DEF BeginWrite
    <3>2. CASE Odd(sequence')
      <4>1. /\ pc' = [pc EXCEPT ![w] = "writing"]
            /\ todo' = [todo EXCEPT ![w] = Parts]
            /\ UNCHANGED <<mutex, kind, stamp, result, writes>>
            /\ UNCHANGED <<process, mapped, lockFile, held, memory, disk,
                           committed, broken, readerVars>>
        BY <2>12, <3>2 DEF BeginWrite
      <4>2. pc' \in [Writers -> {"idle", "waiting", "locked", "begin", "writing",
                                 "unlock", "end", "flush", "unflush"}]
        BY <4>1
      <4>3. todo' \in [Writers -> SUBSET Parts]
        BY <4>1
      <4>. QED
        BY <3>1, <4>1, <4>2, <4>3
    <3>3. CASE ~Odd(sequence') /\ kind[w] # "insert"
      BY <2>12, <3>1, <3>3 DEF BeginWrite, Return
    <3>4. CASE ~Odd(sequence') /\ kind[w] = "insert"
      BY <2>12, <3>1, <3>4 DEF BeginWrite, Goto
    <3>. QED
      BY <3>2, <3>3, <3>4
  <2>13. ASSUME NEW w \in Writers, NEW p \in Parts, WritePart(w, p)
        PROVE  TypeOK'
    BY <2>13 DEF WritePart
  <2>14. ASSUME NEW w \in Writers, FailWrite(w)
        PROVE  TypeOK'
    BY <2>14 DEF FailWrite, Return
  <2>15. ASSUME NEW w \in Writers, DoneWriting(w)
        PROVE  TypeOK'
    BY <2>15 DEF DoneWriting, Goto, HoldsToTheEnd
  <2>16. ASSUME NEW w \in Writers, UnlockEarly(w)
        PROVE  TypeOK'
    BY <2>16 DEF UnlockEarly
  <2>17. ASSUME NEW w \in Writers, EndWrite(w)
        PROVE  TypeOK'
    <3>1. CASE Return(w, "failed") /\ UNCHANGED committed
      BY <2>17, <3>1 DEF EndWrite, Return
    <3>2. CASE Return(w, "success") /\ committed' = stamp[w]
      BY <2>17, <3>2 DEF EndWrite, Return
    <3>3. CASE Goto(w, "flush") /\ committed' = stamp[w]
      BY <2>17, <3>3 DEF EndWrite, Goto
    <3>. QED
      BY <2>17, <3>1, <3>2, <3>3 DEF EndWrite
  <2>18. ASSUME NEW w \in Writers, Flush(w)
        PROVE  TypeOK'
    BY <2>18 DEF Flush, Goto
  <2>19. ASSUME NEW w \in Writers, FlushUnlock(w)
        PROVE  TypeOK'
    BY <2>19 DEF FlushUnlock, UnlockShared, Return
  <2>20. ASSUME NEW r \in Readers, BeginRead(r)
        PROVE  TypeOK'
    BY <2>20 DEF BeginRead
  <2>21. ASSUME NEW r \in Readers, NEW p \in Parts, ReadPart(r, p)
        PROVE  TypeOK'
    BY <2>21 DEF ReadPart
  <2>22. ASSUME NEW r \in Readers, EndRead(r)
        PROVE  TypeOK'
    BY <2>22 DEF EndRead
  <2>23. CASE UNCHANGED vars
    BY <2>23
  <2>. QED
    BY <2>1, <2>2, <2>3, <2>4, <2>5, <2>6, <2>7, <2>8, <2>9, <2>10, <2>11, <2>12, <2>13, <2>14, <2>15, <2>16, <2>17, <2>18, <2>19, <2>20, <2>21, <2>22, <2>23 DEF Next, WriterStep, ReaderStep
<1>. QED
  BY <1>1, <1>2, PTL DEF Spec

-----------------------------------------------------------------------------
\* The write mutex does its work: the bookkeeping of who holds it.
LEMMA MutexCorrect == ASSUME SerialWriters PROVE Spec => []MutexInv
<1> USE WriteAssumption DEF WriteAssumption
<1>1. Init => MutexInv
  BY DEF Init, MutexInv, Active, HoldsToTheEnd
<1>2. TypeOK /\ MutexInv /\ [Next]_vars => MutexInv'
  <2> SUFFICES ASSUME TypeOK, MutexInv, [Next]_vars PROVE MutexInv'
    OBVIOUS
  <2> USE SerialWriters DEF SerialWriters, TypeOK, MutexInv, Active, Running,
          HoldsToTheEnd, vars, lockVars, writerVars, readerVars
  <2>1. CASE Open
    BY <2>1 DEF Open, TryLock, LockShared
  <2>2. CASE Close
    BY <2>2 DEF Close
  <2>3. ASSUME NEW p \in Parts, CloseTable(p)
        PROVE  MutexInv'
    BY <2>3 DEF CloseTable
  <2>4. CASE CloseFails
    BY <2>4 DEF CloseFails
  <2>5. CASE CloseStore
    BY <2>5 DEF CloseStore, UnlockShared
  <2>6. CASE Crash
    BY <2>6 DEF Crash
  <2>7. ASSUME NEW p \in Parts, WriteBack(p)
        PROVE  MutexInv'
    BY <2>7 DEF WriteBack
  <2>8. ASSUME NEW w \in Writers, NEW k \in Kinds, Call(w, k)
        PROVE  MutexInv'
    BY <2>8 DEF Call
  <2>9. ASSUME NEW w \in Writers, Lock(w)
        PROVE  MutexInv'
    BY <2>9 DEF Lock
  <2>10. ASSUME NEW w \in Writers, Refuse(w)
        PROVE  MutexInv'
    BY <2>10 DEF Refuse, Return
  <2>11. ASSUME NEW w \in Writers, FlushLock(w)
        PROVE  MutexInv'
    BY <2>11 DEF FlushLock, LockShared, Goto
  <2>12. ASSUME NEW w \in Writers, BeginWrite(w)
        PROVE  MutexInv'
    BY <2>12 DEF BeginWrite, Return, Goto
  <2>13. ASSUME NEW w \in Writers, NEW p \in Parts, WritePart(w, p)
        PROVE  MutexInv'
    BY <2>13 DEF WritePart
  <2>14. ASSUME NEW w \in Writers, FailWrite(w)
        PROVE  MutexInv'
    BY <2>14 DEF FailWrite, Return
  <2>15. ASSUME NEW w \in Writers, DoneWriting(w)
        PROVE  MutexInv'
    BY <2>15 DEF DoneWriting, Goto, HoldsToTheEnd
  <2>16. ASSUME NEW w \in Writers, UnlockEarly(w)
        PROVE  MutexInv'
    BY <2>16 DEF UnlockEarly
  <2>17. ASSUME NEW w \in Writers, EndWrite(w)
        PROVE  MutexInv'
    BY <2>17 DEF EndWrite, Return, Goto
  <2>18. ASSUME NEW w \in Writers, Flush(w)
        PROVE  MutexInv'
    BY <2>18 DEF Flush, Goto
  <2>19. ASSUME NEW w \in Writers, FlushUnlock(w)
        PROVE  MutexInv'
    BY <2>19 DEF FlushUnlock, UnlockShared, Return
  <2>20. ASSUME NEW r \in Readers, BeginRead(r)
        PROVE  MutexInv'
    BY <2>20 DEF BeginRead
  <2>21. ASSUME NEW r \in Readers, NEW p \in Parts, ReadPart(r, p)
        PROVE  MutexInv'
    BY <2>21 DEF ReadPart
  <2>22. ASSUME NEW r \in Readers, EndRead(r)
        PROVE  MutexInv'
    BY <2>22 DEF EndRead
  <2>23. CASE UNCHANGED vars
    BY <2>23
  <2>. QED
    BY <2>1, <2>2, <2>3, <2>4, <2>5, <2>6, <2>7, <2>8, <2>9, <2>10, <2>11, <2>12, <2>13, <2>14, <2>15, <2>16, <2>17, <2>18, <2>19, <2>20, <2>21, <2>22, <2>23 DEF Next, WriterStep, ReaderStep
<1>. QED
  BY TypeCorrect, <1>1, <1>2, PTL DEF Spec

\* At most one writer is past its wait for the mutex.
LEMMA OneActive ==
    ASSUME SerialWriters, MutexInv, NEW v \in Writers, NEW w \in Writers,
           Active(v), Active(w)
    PROVE  v = w
  BY DEF SerialWriters, MutexInv, HoldsToTheEnd

\* The sequence tells readers when the memory is being written.
LEMMA SequenceStep ==
    ASSUME SerialWriters, OrderlyClose, TypeOK, MutexInv, SequenceInv, FlushInv,
           [Next]_vars
    PROVE  SequenceInv'
<1>0. \A v, w \in Writers : Active(v) /\ Active(w) => v = w
  BY OneActive
<1> USE WriteAssumption DEF WriteAssumption, SerialWriters, OrderlyClose,
        TypeOK, MutexInv, SequenceInv, FlushInv, Active, Running, InSection,
        HoldsToTheEnd, vars, lockVars, writerVars, readerVars
<1>1. CASE Open
  BY <1>0, OddFlips, <1>1 DEF Open, TryLock, LockShared
<1>2. CASE Close
  BY <1>0, OddFlips, <1>2 DEF Close
<1>3. ASSUME NEW p \in Parts, CloseTable(p)
      PROVE  SequenceInv'
  BY <1>0, OddFlips, <1>3 DEF CloseTable
<1>4. CASE CloseFails
  BY <1>0, OddFlips, <1>4 DEF CloseFails
<1>5. CASE CloseStore
  BY <1>0, OddFlips, <1>5 DEF CloseStore, UnlockShared
<1>6. CASE Crash
  <2>1. ~lockFile => ~Odd(sequence) /\ \A p \in Parts : disk[p] = memory[p]
    OBVIOUS
  <2>2. ~Odd(0) /\ ~lockFile => \A p \in Parts : disk[p] = committed
    BY <2>1 DEF Odd
  <2>. QED
    BY <1>6, <2>2 DEF Crash, Odd
<1>7. ASSUME NEW p \in Parts, WriteBack(p)
      PROVE  SequenceInv'
  BY <1>0, OddFlips, <1>7 DEF WriteBack
<1>8. ASSUME NEW w \in Writers, NEW k \in Kinds, Call(w, k)
      PROVE  SequenceInv'
  BY <1>0, OddFlips, <1>8 DEF Call
<1>9. ASSUME NEW w \in Writers, Lock(w)
      PROVE  SequenceInv'
  BY <1>0, OddFlips, <1>9 DEF Lock
<1>10. ASSUME NEW w \in Writers, Refuse(w)
      PROVE  SequenceInv'
  BY <1>0, OddFlips, <1>10 DEF Refuse, Return
<1>11. ASSUME NEW w \in Writers, FlushLock(w)
      PROVE  SequenceInv'
  BY <1>0, OddFlips, <1>11 DEF FlushLock, LockShared, Goto
<1>12. ASSUME NEW w \in Writers, BeginWrite(w)
      PROVE  SequenceInv'
  <2>1. \A v \in Writers : v # w => ~Active(v)
    BY <1>0, <1>12 DEF BeginWrite
  <2>2. ~Odd(sequence) /\ Odd(sequence')
    BY <2>1, <1>12, OddFlips DEF BeginWrite
  <2>3. /\ UNCHANGED <<memory, stamp, kind, lockFile, process, committed>>
        /\ pc' = [pc EXCEPT ![w] = "writing"]
        /\ todo' = [todo EXCEPT ![w] = Parts]
    BY <2>2, <1>12 DEF BeginWrite
  <2>4. InSection(w)' /\ \A v \in Writers : v # w => ~InSection(v)'
    BY <2>1, <2>3
  <2>. QED
    BY <2>2, <2>3, <2>4
<1>13. ASSUME NEW w \in Writers, NEW p \in Parts, WritePart(w, p)
      PROVE  SequenceInv'
  BY <1>0, OddFlips, <1>13 DEF WritePart
<1>14. ASSUME NEW w \in Writers, FailWrite(w)
      PROVE  SequenceInv'
  BY <1>0, OddFlips, <1>14 DEF FailWrite, Return
<1>15. ASSUME NEW w \in Writers, DoneWriting(w)
      PROVE  SequenceInv'
  BY <1>0, OddFlips, <1>15 DEF DoneWriting, Goto, HoldsToTheEnd
<1>16. ASSUME NEW w \in Writers, UnlockEarly(w)
      PROVE  SequenceInv'
  BY <1>0, OddFlips, <1>16 DEF UnlockEarly
<1>17. ASSUME NEW w \in Writers, EndWrite(w)
      PROVE  SequenceInv'
  <2>1. ~Odd(sequence')
    BY <1>17, OddFlips DEF EndWrite
  <2>2. committed' = stamp[w] /\ \A p \in Parts : memory'[p] = stamp[w]
    BY <1>17, <2>1 DEF EndWrite
  <2>3. /\ UNCHANGED <<memory, stamp, lockFile, process, kind>>
        /\ \A v \in Writers : v # w => pc'[v] = pc[v] /\ todo'[v] = todo[v]
        /\ pc'[w] \in {"idle", "flush"}
    BY <1>17, <2>1 DEF EndWrite, Return, Goto
  <2>4. \A v \in Writers : ~InSection(v)'
    BY <1>17, <1>0, <2>3 DEF EndWrite
  <2>. QED
    BY <2>1, <2>2, <2>3, <2>4
<1>18. ASSUME NEW w \in Writers, Flush(w)
      PROVE  SequenceInv'
  BY <1>0, OddFlips, <1>18 DEF Flush, Goto
<1>19. ASSUME NEW w \in Writers, FlushUnlock(w)
      PROVE  SequenceInv'
  BY <1>0, OddFlips, <1>19 DEF FlushUnlock, UnlockShared, Return
<1>20. ASSUME NEW r \in Readers, BeginRead(r)
      PROVE  SequenceInv'
  BY <1>0, OddFlips, <1>20 DEF BeginRead
<1>21. ASSUME NEW r \in Readers, NEW p \in Parts, ReadPart(r, p)
      PROVE  SequenceInv'
  BY <1>0, OddFlips, <1>21 DEF ReadPart
<1>22. ASSUME NEW r \in Readers, EndRead(r)
      PROVE  SequenceInv'
  BY <1>0, OddFlips, <1>22 DEF EndRead
<1>23. CASE UNCHANGED vars
  BY <1>0, OddFlips, <1>23
<1>. QED
  BY <1>1, <1>2, <1>3, <1>4, <1>5, <1>6, <1>7, <1>8, <1>9, <1>10, <1>11, <1>12, <1>13, <1>14, <1>15, <1>16, <1>17, <1>18, <1>19, <1>20, <1>21, <1>22, <1>23 DEF Next, WriterStep, ReaderStep


\* The flush lock file tells a restart whether the disk is up to date.
LEMMA FlushStep ==
    ASSUME SerialWriters, OrderlyClose, TypeOK, MutexInv, SequenceInv, FlushInv,
           [Next]_vars
    PROVE  FlushInv'
<1>0. \A v, w \in Writers : Active(v) /\ Active(w) => v = w
  BY OneActive
<1> USE WriteAssumption DEF WriteAssumption, SerialWriters, OrderlyClose,
        TypeOK, MutexInv, SequenceInv, FlushInv, Active, Running, InSection,
        HoldsToTheEnd, vars, lockVars, writerVars, readerVars
<1>1. CASE Open
  BY <1>0, OddFlips, <1>1 DEF Open, TryLock, LockShared
<1>2. CASE Close
  BY <1>0, OddFlips, <1>2 DEF Close
<1>3. ASSUME NEW p \in Parts, CloseTable(p)
      PROVE  FlushInv'
  BY <1>0, OddFlips, <1>3 DEF CloseTable
<1>4. CASE CloseFails
  BY <1>0, OddFlips, <1>4 DEF CloseFails
<1>5. CASE CloseStore
  BY <1>0, OddFlips, <1>5 DEF CloseStore, UnlockShared
<1>6. CASE Crash
  BY <1>0, OddFlips, <1>6 DEF Crash
<1>7. ASSUME NEW p \in Parts, WriteBack(p)
      PROVE  FlushInv'
  BY <1>0, OddFlips, <1>7 DEF WriteBack
<1>8. ASSUME NEW w \in Writers, NEW k \in Kinds, Call(w, k)
      PROVE  FlushInv'
  BY <1>0, OddFlips, <1>8 DEF Call
<1>9. ASSUME NEW w \in Writers, Lock(w)
      PROVE  FlushInv'
  BY <1>0, OddFlips, <1>9 DEF Lock
<1>10. ASSUME NEW w \in Writers, Refuse(w)
      PROVE  FlushInv'
  BY <1>0, OddFlips, <1>10 DEF Refuse, Return
<1>11. ASSUME NEW w \in Writers, FlushLock(w)
      PROVE  FlushInv'
  BY <1>0, OddFlips, <1>11 DEF FlushLock, LockShared, Goto
<1>12. ASSUME NEW w \in Writers, BeginWrite(w)
      PROVE  FlushInv'
  BY <1>0, OddFlips, <1>12 DEF BeginWrite, Return, Goto
<1>13. ASSUME NEW w \in Writers, NEW p \in Parts, WritePart(w, p)
      PROVE  FlushInv'
  BY <1>0, OddFlips, <1>13 DEF WritePart
<1>14. ASSUME NEW w \in Writers, FailWrite(w)
      PROVE  FlushInv'
  BY <1>0, OddFlips, <1>14 DEF FailWrite, Return
<1>15. ASSUME NEW w \in Writers, DoneWriting(w)
      PROVE  FlushInv'
  BY <1>0, OddFlips, <1>15 DEF DoneWriting, Goto, HoldsToTheEnd
<1>16. ASSUME NEW w \in Writers, UnlockEarly(w)
      PROVE  FlushInv'
  BY <1>0, OddFlips, <1>16 DEF UnlockEarly
<1>17. ASSUME NEW w \in Writers, EndWrite(w)
      PROVE  FlushInv'
  BY <1>0, OddFlips, <1>17 DEF EndWrite, Return, Goto
<1>18. ASSUME NEW w \in Writers, Flush(w)
      PROVE  FlushInv'
  BY <1>0, OddFlips, <1>18 DEF Flush, Goto
<1>19. ASSUME NEW w \in Writers, FlushUnlock(w)
      PROVE  FlushInv'
  BY <1>0, OddFlips, <1>19 DEF FlushUnlock, UnlockShared, Return
<1>20. ASSUME NEW r \in Readers, BeginRead(r)
      PROVE  FlushInv'
  BY <1>0, OddFlips, <1>20 DEF BeginRead
<1>21. ASSUME NEW r \in Readers, NEW p \in Parts, ReadPart(r, p)
      PROVE  FlushInv'
  BY <1>0, OddFlips, <1>21 DEF ReadPart
<1>22. ASSUME NEW r \in Readers, EndRead(r)
      PROVE  FlushInv'
  BY <1>0, OddFlips, <1>22 DEF EndRead
<1>23. CASE UNCHANGED vars
  BY <1>0, OddFlips, <1>23
<1>. QED
  BY <1>1, <1>2, <1>3, <1>4, <1>5, <1>6, <1>7, <1>8, <1>9, <1>10, <1>11, <1>12, <1>13, <1>14, <1>15, <1>16, <1>17, <1>18, <1>19, <1>20, <1>21, <1>22, <1>23 DEF Next, WriterStep, ReaderStep


\* A reader with a current handle has seen one committed write.
LEMMA ReaderStepCorrect ==
    ASSUME SerialWriters, OrderlyClose, TypeOK, MutexInv, SequenceInv, ReaderInv,
           [Next]_vars
    PROVE  ReaderInv'
<1>0. \A v, w \in Writers : Active(v) /\ Active(w) => v = w
  BY OneActive
<1> USE WriteAssumption DEF WriteAssumption, SerialWriters, OrderlyClose,
        TypeOK, MutexInv, SequenceInv, ReaderInv, Active, Running, InSection,
        HoldsToTheEnd, vars, lockVars, writerVars, readerVars
<1>1. CASE Open
  BY <1>0, OddFlips, <1>1 DEF Open, TryLock, LockShared
<1>2. CASE Close
  BY <1>0, OddFlips, <1>2 DEF Close
<1>3. ASSUME NEW p \in Parts, CloseTable(p)
      PROVE  ReaderInv'
  BY <1>0, OddFlips, <1>3 DEF CloseTable
<1>4. CASE CloseFails
  BY <1>0, OddFlips, <1>4 DEF CloseFails
<1>5. CASE CloseStore
  BY <1>0, OddFlips, <1>5 DEF CloseStore, UnlockShared
<1>6. CASE Crash
  BY <1>0, OddFlips, <1>6 DEF Crash
<1>7. ASSUME NEW p \in Parts, WriteBack(p)
      PROVE  ReaderInv'
  BY <1>0, OddFlips, <1>7 DEF WriteBack
<1>8. ASSUME NEW w \in Writers, NEW k \in Kinds, Call(w, k)
      PROVE  ReaderInv'
  BY <1>0, OddFlips, <1>8 DEF Call
<1>9. ASSUME NEW w \in Writers, Lock(w)
      PROVE  ReaderInv'
  BY <1>0, OddFlips, <1>9 DEF Lock
<1>10. ASSUME NEW w \in Writers, Refuse(w)
      PROVE  ReaderInv'
  BY <1>0, OddFlips, <1>10 DEF Refuse, Return
<1>11. ASSUME NEW w \in Writers, FlushLock(w)
      PROVE  ReaderInv'
  BY <1>0, OddFlips, <1>11 DEF FlushLock, LockShared, Goto
<1>12. ASSUME NEW w \in Writers, BeginWrite(w)
      PROVE  ReaderInv'
  BY <1>0, OddFlips, <1>12 DEF BeginWrite, Return, Goto
<1>13. ASSUME NEW w \in Writers, NEW p \in Parts, WritePart(w, p)
      PROVE  ReaderInv'
  BY <1>0, OddFlips, <1>13 DEF WritePart
<1>14. ASSUME NEW w \in Writers, FailWrite(w)
      PROVE  ReaderInv'
  BY <1>0, OddFlips, <1>14 DEF FailWrite, Return
<1>15. ASSUME NEW w \in Writers, DoneWriting(w)
      PROVE  ReaderInv'
  BY <1>0, OddFlips, <1>15 DEF DoneWriting, Goto, HoldsToTheEnd
<1>16. ASSUME NEW w \in Writers, UnlockEarly(w)
      PROVE  ReaderInv'
  BY <1>0, OddFlips, <1>16 DEF UnlockEarly
<1>17. ASSUME NEW w \in Writers, EndWrite(w)
      PROVE  ReaderInv'
  BY <1>0, OddFlips, <1>17 DEF EndWrite, Return, Goto
<1>18. ASSUME NEW w \in Writers, Flush(w)
      PROVE  ReaderInv'
  BY <1>0, OddFlips, <1>18 DEF Flush, Goto
<1>19. ASSUME NEW w \in Writers, FlushUnlock(w)
      PROVE  ReaderInv'
  BY <1>0, OddFlips, <1>19 DEF FlushUnlock, UnlockShared, Return
<1>20. ASSUME NEW r \in Readers, BeginRead(r)
      PROVE  ReaderInv'
  <2>1. \A p \in Parts : seen'[r][p] = NoStamp
    BY <1>20 DEF BeginRead, Everywhere
  <2>2. \A q \in Readers : q # r =>
          seen'[q] = seen[q] /\ handle'[q] = handle[q] /\ since'[q] = since[q]
    BY <1>20 DEF BeginRead
  <2>. QED
    BY <1>20, <2>1, <2>2 DEF BeginRead
<1>21. ASSUME NEW r \in Readers, NEW p \in Parts, ReadPart(r, p)
      PROVE  ReaderInv'
  BY <1>0, OddFlips, <1>21 DEF ReadPart
<1>22. ASSUME NEW r \in Readers, EndRead(r)
      PROVE  ReaderInv'
  BY <1>0, OddFlips, <1>22 DEF EndRead
<1>23. CASE UNCHANGED vars
  BY <1>0, OddFlips, <1>23
<1>. QED
  BY <1>1, <1>2, <1>3, <1>4, <1>5, <1>6, <1>7, <1>8, <1>9, <1>10, <1>11, <1>12, <1>13, <1>14, <1>15, <1>16, <1>17, <1>18, <1>19, <1>20, <1>21, <1>22, <1>23 DEF Next, WriterStep, ReaderStep


\* All the parts of the inductive invariant together.
THEOREM StoreCorrect ==
    ASSUME SerialWriters, OrderlyClose
    PROVE  Spec => [](SequenceInv /\ FlushInv)
<1>1. Init => SequenceInv /\ FlushInv
  BY DEF Init, SequenceInv, FlushInv, InSection, Active, Everywhere, Odd
<1>2. TypeOK /\ MutexInv /\ (SequenceInv /\ FlushInv) /\ [Next]_vars
        => (SequenceInv /\ FlushInv)'
  BY SequenceStep, FlushStep
<1>. QED
  BY TypeCorrect, MutexCorrect, <1>1, <1>2, PTL DEF Spec

\* Write exclusivity (data_base.cpp, "designed for write exclusivity"): no
\* two writers are ever between begin_write and end_write together.
THEOREM Exclusivity ==
    ASSUME SerialWriters PROVE Spec => []WriteExclusivity
<1>1. MutexInv => WriteExclusivity
  BY OneActive DEF WriteExclusivity, InSection, Active
<1>. QED
  BY MutexCorrect, <1>1, PTL

\* Read concurrency: a read that is_read_valid accepts is the snapshot of
\* the write committed when it began.
THEOREM Snapshots ==
    ASSUME SerialWriters, OrderlyClose PROVE Spec => []ReadsAreSnapshots
<1>1. Init => ReaderInv
  BY DEF Init, ReaderInv
<1>2. TypeOK /\ MutexInv /\ (SequenceInv /\ FlushInv) /\ ReaderInv
        /\ [Next]_vars => ReaderInv'
  BY ReaderStepCorrect
<1>3. ReaderInv => ReadsAreSnapshots
  BY DEF ReaderInv, ReadsAreSnapshots
<1>. QED
  BY TypeCorrect, MutexCorrect, StoreCorrect, <1>1, <1>2, <1>3, PTL DEF Spec

\* Without the flush lock file the disk holds the last committed write,
\* whole: whatever the next open accepts is undamaged.
THEOREM UnlockedIsCurrent ==
    ASSUME SerialWriters, OrderlyClose PROVE Spec => []UnlockedStoreIsCurrent
<1>1. TypeOK /\ SequenceInv /\ FlushInv => UnlockedStoreIsCurrent
  <2> SUFFICES ASSUME TypeOK, SequenceInv, FlushInv, ~lockFile
               PROVE  \A p \in Parts : disk[p] = committed
    BY DEF UnlockedStoreIsCurrent
  <2>1. \A p \in Parts : disk[p] = memory[p]
    BY DEF FlushInv, TypeOK
  <2>2. \A w \in Writers : ~InSection(w)
    BY DEF FlushInv, InSection, Active, OrderlyClose, TypeOK
  <2>. QED
    BY <2>1, <2>2 DEF SequenceInv
<1>. QED
  BY TypeCorrect, StoreCorrect, <1>1, PTL

\* begin_write and end_write (store.cpp) never return false.
THEOREM NeverFails ==
    ASSUME SerialWriters, OrderlyClose PROVE Spec => []NoSpuriousFailure
<1> DEFINE NoneFailed == \A w \in Writers : result[w] # "failed"
<1>1. Init => NoneFailed
  BY DEF Init
<1>2. TypeOK /\ MutexInv /\ (SequenceInv /\ FlushInv) /\ NoneFailed
        /\ [Next]_vars => NoneFailed'
  <2> SUFFICES ASSUME TypeOK, MutexInv, SequenceInv, NoneFailed, [Next]_vars
               PROVE  NoneFailed'
    OBVIOUS
  <2>0. \A v, w \in Writers : Active(v) /\ Active(w) => v = w
    BY OneActive
  <2> USE DEF TypeOK, SequenceInv
  <2>1. ASSUME NEW w \in Writers, BeginWrite(w)
        PROVE  NoneFailed'
    <3>1. Odd(sequence')
      BY <2>0, <2>1, OddFlips DEF BeginWrite, InSection, Active
    <3>. QED
      BY <2>1, <3>1 DEF BeginWrite
  <2>2. ASSUME NEW w \in Writers, EndWrite(w)
        PROVE  NoneFailed'
    <3>1. ~Odd(sequence')
      BY <2>2, OddFlips DEF EndWrite, InSection
    <3>. QED
      BY <2>2, <3>1 DEF EndWrite, Return, Goto
  <2>3. ASSUME NEW w \in Writers,
               Lock(w) \/ Refuse(w) \/ FlushLock(w) \/ FailWrite(w)
                 \/ DoneWriting(w) \/ UnlockEarly(w) \/ Flush(w)
                 \/ FlushUnlock(w) \/ \E p \in Parts : WritePart(w, p)
        PROVE  NoneFailed'
    BY <2>3 DEF Lock, Refuse, FlushLock, FailWrite, DoneWriting, UnlockEarly,
                Flush, FlushUnlock, WritePart, Return, Goto, SerialWriters
  <2>4. CASE \/ Open \/ Close \/ CloseFails \/ CloseStore \/ Crash
             \/ \E p \in Parts : CloseTable(p) \/ WriteBack(p)
             \/ \E w \in Writers, k \in Kinds : Call(w, k)
             \/ \E r \in Readers : ReaderStep(r)
             \/ UNCHANGED vars
    BY <2>4 DEF Open, Close, CloseFails, CloseStore, Crash, CloseTable,
                WriteBack, Call, ReaderStep, BeginRead, ReadPart, EndRead,
                vars, writerVars
  <2>. QED
    BY <2>1, <2>2, <2>3, <2>4 DEF Next, WriterStep
<1>3. NoneFailed => NoSpuriousFailure
  BY DEF NoSpuriousFailure
<1>. QED
  BY TypeCorrect, MutexCorrect, StoreCorrect, <1>1, <1>2, <1>3, PTL DEF Spec
=============================================================================
