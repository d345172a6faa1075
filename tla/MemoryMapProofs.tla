--------------------------- MODULE MemoryMapProofs ---------------------------
(***************************************************************************)
(* Theorems about the memory maps, for any sets of threads and files, any  *)
(* nesting of accessors, any expansion and any bounds.                     *)
(***************************************************************************)
EXTENDS MemoryMap, TLAPS

USE MapAssumption DEF MapAssumption

\* A growth leaves room for the row it is made for.
LEMMA TargetFits ==
    ASSUME NEW size \in Nat PROVE Target(size) \in Nat /\ Target(size) >= size
<1> DEFINE extra == size * Expansion
<1>1. extra \in Nat
  OBVIOUS
<1>2. size * (Expansion + 100) = extra + 100 * size
  OBVIOUS
<1>3. ASSUME NEW e \in Nat
      PROVE  (e + 100 * size) \div 100 \in Nat
             /\ (e + 100 * size) \div 100 >= size
  OBVIOUS
<1> HIDE DEF extra
<1>. QED
  BY <1>1, <1>2, <1>3 DEF Target

-----------------------------------------------------------------------------
\* Types.

LEMMA AfterLockTyped ==
    ASSUME NEW place \in {"new", "sync", "popped"}
    PROVE  AfterLock(place) \in {"reserve", "save", "resave"}
BY DEF AfterLock

LEMMA AfterLockPops ==
    ASSUME NEW place \in {"new", "sync", "popped"}
    PROVE  AfterLock(place) = "resave" <=> place = "popped"
BY DEF AfterLock

LEMMA AfterLockGrows ==
    ASSUME NEW place \in {"new", "sync", "popped"}
    PROVE  AfterLock(place) = "reserve" <=> place = "new"
BY DEF AfterLock

LEMMA OpenTyped == TypeOK /\ Open /\ kills' \in Nat => TypeOK'
<1> SUFFICES ASSUME TypeOK, Open, kills' \in Nat PROVE TypeOK'
  OBVIOUS
<1>1. closed' \in [Files -> BOOLEAN] /\ failed' \in BOOLEAN
  BY Zenon DEF Open
<1>2. /\ manager' \in [Files -> Threads \cup {NoThread}]
      /\ upgrade' \in [Files -> Threads \cup {NoThread}]
      /\ exclusive' \in [Files -> Threads \cup {NoThread}]
      /\ remap' \in Threads \cup {NoThread}
  BY DEF Open, NoOne
<1>3. /\ pc' \in [Threads -> Places] /\ file' \in [Threads -> Files]
      /\ row' \in [Threads -> Nat]
      /\ pointers' \in [Threads -> SUBSET Pointer]
  BY DEF Open, TypeOK, Places
<1>4. /\ data' \in [Files -> Nat] /\ live' \in [Files -> Nat]
      /\ fileSize' \in [Files -> Nat] /\ logical' \in [Files -> Nat]
      /\ length' \in [Files -> Nat]
      /\ used' \in [Files -> Nat] /\ saved' \in [Files -> Nat]
      /\ calls' \in Nat
  BY DEF Open, TypeOK
<1>. QED
  BY <1>1, <1>2, <1>3, <1>4 DEF TypeOK

\* Every variable of the maps keeps its type.
THEOREM MapsTyped == Spec => []TypeOK
<1>1. Init => TypeOK
  <2> SUFFICES ASSUME Init PROVE TypeOK
    OBVIOUS
  <2>1. (CHOOSE f \in Files : TRUE) \in Files
    OBVIOUS
  <2>2. closed = [f \in Files |-> FALSE] /\ failed = FALSE
    BY DEF Init
  <2>3. closed \in [Files -> BOOLEAN] /\ failed \in BOOLEAN
    BY <2>2, Zenon
  <2>4. /\ manager \in [Files -> Threads \cup {NoThread}]
        /\ upgrade \in [Files -> Threads \cup {NoThread}]
        /\ exclusive \in [Files -> Threads \cup {NoThread}]
    BY DEF Init, NoOne
  <2>. QED
    BY <2>1, <2>3, <2>4 DEF Init, TypeOK, Places
<1>2. TypeOK /\ [Next]_vars => TypeOK'
  <2> SUFFICES ASSUME TypeOK, [Next]_vars PROVE TypeOK'
    OBVIOUS
  <2> USE DEF TypeOK, Places, mapVars, rowVars, lockVars, threadVars, bounds
  <2>1. ASSUME NEW t \in Threads, NEW f \in Files, Begin(t, f)
        PROVE  TypeOK'
    BY <2>1 DEF Begin, Guard, NewRow, Sync, Pop, Flush, Close, Call, Goto
  <2>2. ASSUME NEW t \in Threads, Access(t)
        PROVE  TypeOK'
    BY <2>2 DEF Access, Goto, Pointer
  <2>3. ASSUME NEW t \in Threads, Release(t)
        PROVE  TypeOK'
    BY <2>3 DEF Release
  <2>4. ASSUME NEW t \in Threads, LockManager(t)
        PROVE  TypeOK'
    BY <2>4, AfterLockTyped DEF LockManager, Goto
  <2>5. ASSUME NEW t \in Threads, Save(t)
        PROVE  TypeOK'
    BY <2>5 DEF Save, UnlockManager, Goto
  <2>6. ASSUME NEW t \in Threads, SetCount(t)
        PROVE  TypeOK'
    BY <2>6 DEF SetCount, Goto
  <2>7. ASSUME NEW t \in Threads, LockUpgrade(t)
        PROVE  TypeOK'
    <3>1. pc' \in [Threads -> Places]
      BY <2>7 DEF LockUpgrade, Goto
    <3>. QED
      BY <2>7, <3>1 DEF LockUpgrade
  <2>8. ASSUME NEW t \in Threads,
               Assign(t) \/ Grow(t) \/ ReserveClosed(t) \/ CountRow(t)
        PROVE  TypeOK'
    <3>1. CASE ReserveClosed(t)
      BY <3>1 DEF ReserveClosed, UnlockManager, Goto
    <3>2. CASE Assign(t)
      BY <3>2 DEF Assign, Goto, Required
    <3>3. CASE Grow(t)
      BY <3>3 DEF Grow, Goto
    <3>4. CASE CountRow(t)
      BY <3>4 DEF CountRow, UnlockManager, Goto
    <3>. QED
      BY <2>8, <3>1, <3>2, <3>3, <3>4
  <2>9. ASSUME NEW t \in Threads, Truncate(t) \/ Remap(t) \/ GrowFails(t)
        PROVE  TypeOK'
    <3>1. Target(Required(t)) \in Nat
      BY TargetFits DEF Required
    <3>2. failed' \in BOOLEAN
      BY <2>9 DEF Truncate, Remap, GrowFails
    <3>3. live[file[t]] + 1 \in Nat
      OBVIOUS
    <3>4. CASE GrowFails(t)
      BY <3>2, <3>4 DEF GrowFails, UnlockManager, Goto
    <3>5. CASE Truncate(t)
      BY <3>1, <3>2, <3>5 DEF Truncate, Goto
    <3>6. CASE Remap(t)
      BY <3>1, <3>2, <3>3, <3>6 DEF Remap, Goto
    <3>. QED
      BY <2>9, <3>4, <3>5, <3>6
  <2>10. ASSUME NEW t \in Threads,
                FlushFile(t) \/ CloseFile(t) \/ CloseAgain(t)
         PROVE  TypeOK'
    <3>1. closed' \in [Files -> BOOLEAN]
      BY <2>10, Zenon DEF FlushFile, CloseFile, CloseAgain
    <3>2. CASE CloseFile(t)
      BY <3>1, <3>2 DEF CloseFile, Goto
    <3>3. CASE FlushFile(t) \/ CloseAgain(t)
      BY <3>1, <3>3 DEF FlushFile, CloseAgain, Goto
    <3>. QED
      BY <2>10, <3>2, <3>3
  <2>11. CASE Reopen \/ Kill
    BY <2>11, OpenTyped DEF Reopen, Kill
  <2>12. CASE UNCHANGED vars
    BY <2>12 DEF vars
  <2>. QED
    BY <2>1, <2>2, <2>3, <2>4, <2>5, <2>6, <2>7, <2>8, <2>9, <2>10, <2>11,
       <2>12 DEF Next, Work
<1>. QED
  BY <1>1, <1>2, PTL DEF Spec

-----------------------------------------------------------------------------
\* Locks.

Growing(t) == pc[t] \in {"reserve", "sized", "truncate", "remap", "count"}

\* Who holds which lock, and that nobody shares what is held exclusively.
LockInv ==
    /\ \A t \in Threads : Growing(t) \/ pc[t] \in {"save", "resave"}
                            => manager[file[t]] = t
    /\ \A t \in Threads : pc[t] \in {"sized", "flushing", "closing"}
                            => upgrade[file[t]] = t
    /\ \A t \in Threads : pc[t] \in {"truncate", "remap"}
                            => exclusive[file[t]] = t
    /\ \A f \in Files : exclusive[f] # NoThread
                            => upgrade[f] = NoThread /\ ~Shared(f)

LEMMA LockStep == TypeOK /\ TypeOK' /\ LockInv /\ [Next]_vars => LockInv'
<1> SUFFICES ASSUME TypeOK, TypeOK', LockInv, [Next]_vars PROVE LockInv'
  OBVIOUS
<1> USE DEF TypeOK, LockInv, Growing, Shared, Holds, mapVars, rowVars,
            lockVars, threadVars, bounds
<1>1. ASSUME NEW t \in Threads, NEW f \in Files, Begin(t, f)
      PROVE  LockInv'
  <2>1. UNCHANGED <<lockVars, pointers>>
        /\ pc'[t] \in {"get", "new", "sync", "pop", "flush", "close"}
    BY <1>1 DEF Begin, Guard, NewRow, Sync, Pop, Flush, Close, Call, Goto
  <2>2. \A u \in Threads \ {t} : pc'[u] = pc[u] /\ file'[u] = file[u]
    BY <1>1 DEF Begin, Guard, NewRow, Sync, Pop, Flush, Close, Call, Goto
  <2>. QED
    BY <2>1, <2>2
<1>2. ASSUME NEW t \in Threads, Access(t)
      PROVE  LockInv'
  BY <1>2 DEF Access, Goto
<1>3. ASSUME NEW t \in Threads, Release(t)
      PROVE  LockInv'
  BY <1>3 DEF Release
<1>4. ASSUME NEW t \in Threads, LockManager(t)
      PROVE  LockInv'
  BY <1>4, AfterLockTyped DEF LockManager, Goto
<1>5. ASSUME NEW t \in Threads, Save(t)
      PROVE  LockInv'
  BY <1>5 DEF Save, UnlockManager, Goto
<1>6. ASSUME NEW t \in Threads, SetCount(t)
      PROVE  LockInv'
  BY <1>6 DEF SetCount, Goto
<1>7. ASSUME NEW t \in Threads, LockUpgrade(t)
      PROVE  LockInv'
  BY <1>7 DEF LockUpgrade, Goto
<1>8. ASSUME NEW t \in Threads, ReserveClosed(t)
      PROVE  LockInv'
  BY <1>8 DEF ReserveClosed, UnlockManager, Goto
<1>9. ASSUME NEW t \in Threads, Assign(t)
      PROVE  LockInv'
  BY <1>9 DEF Assign, Goto
<1>10. ASSUME NEW t \in Threads, Grow(t)
       PROVE  LockInv'
  BY <1>10 DEF Grow, Goto
<1>11. ASSUME NEW t \in Threads, Truncate(t)
       PROVE  LockInv'
  BY <1>11 DEF Truncate, Goto
<1>12. ASSUME NEW t \in Threads, Remap(t)
       PROVE  LockInv'
  BY <1>12 DEF Remap, Goto
<1>13. ASSUME NEW t \in Threads, GrowFails(t)
       PROVE  LockInv'
  BY <1>13 DEF GrowFails, UnlockManager, Goto
<1>14. ASSUME NEW t \in Threads, CountRow(t)
       PROVE  LockInv'
  BY <1>14 DEF CountRow, UnlockManager, Goto
<1>15. ASSUME NEW t \in Threads, FlushFile(t) \/ CloseFile(t) \/ CloseAgain(t)
       PROVE  LockInv'
  <2>1. /\ pc[t] \in {"flushing", "closing"}
        /\ pc' = [pc EXCEPT ![t] = "idle"]
        /\ upgrade' = [upgrade EXCEPT ![file[t]] = NoThread]
        /\ UNCHANGED <<manager, exclusive, file, pointers>>
    BY <1>15 DEF FlushFile, CloseFile, CloseAgain, Goto
  <2>2. \A u \in Threads \ {t} :
          pc[u] \in {"sized", "flushing", "closing"} => file[u] # file[t]
    BY <2>1
  <2>. QED
    BY <2>1, <2>2
<1>16. CASE Reopen \/ Kill
  BY <1>16 DEF Reopen, Kill, Open, NoOne
<1>17. CASE UNCHANGED vars
  BY <1>17 DEF vars
<1>. QED
  BY <1>1, <1>2, <1>3, <1>4, <1>5, <1>6, <1>7, <1>8, <1>9, <1>10, <1>11,
     <1>12, <1>13, <1>14, <1>15, <1>16, <1>17 DEF Next, Work

-----------------------------------------------------------------------------
\* Counts.

Pops(t) == pc[t] \in {"pop", "popped", "resave"}

\* A pop has its file to itself until the count is saved; else the count saved
\* is not above the count.
PopInv ==
    /\ \A t, u \in Threads : t # u /\ file[t] = file[u] /\ Pops(t)
                               => ~Pops(u) /\ ~Growing(u) /\ pc[u] # "new"
    /\ \A t \in Threads : pc[t] = "pop" => row[t] <= used[file[t]]
    /\ \A f \in Files : \/ saved[f] <= used[f]
                        \/ \E t \in Threads : file[t] = f /\ pc[t] \in {"popped", "resave"}

LEMMA PopStep ==
    TypeOK /\ TypeOK' /\ LockInv /\ PopInv /\ [Next]_vars => PopInv'
<1> SUFFICES ASSUME TypeOK, TypeOK', LockInv, PopInv, [Next]_vars
             PROVE  PopInv'
  OBVIOUS
<1> USE DEF TypeOK, PopInv, Pops, Popping, Growing, mapVars, rowVars, lockVars,
            threadVars, bounds
<1>1. ASSUME NEW t \in Threads, NEW f \in Files, Begin(t, f)
      PROVE  PopInv'
  <2>1. CASE Guard(t, f) \/ Sync(t, f) \/ Flush(t, f) \/ Close(t, f)
    <3>1. UNCHANGED <<used, saved>> /\ pc[t] = "idle"
          /\ pc'[t] \in {"get", "sync", "flush", "close"}
      BY <2>1 DEF Guard, Sync, Flush, Close, Call, Goto
    <3>2. \A u \in Threads \ {t} :
            pc'[u] = pc[u] /\ file'[u] = file[u] /\ row'[u] = row[u]
      BY <2>1 DEF Guard, Sync, Flush, Close, Call, Goto
    <3>3. ~Pops(t) /\ ~Pops(t)' /\ ~Growing(t)' /\ pc'[t] # "new"
      BY <3>1
    <3>4. \A u \in Threads \ {t} :
            (Pops(u)' <=> Pops(u)) /\ (Growing(u)' <=> Growing(u))
      BY <3>2
    <3>5. \A u, v \in Threads : u # v /\ file'[u] = file'[v] /\ Pops(u)'
                                => ~Pops(v)' /\ ~Growing(v)' /\ pc'[v] # "new"
      <4> SUFFICES ASSUME NEW u \in Threads, NEW v \in Threads,
                          u # v, file'[u] = file'[v], Pops(u)'
                   PROVE  ~Pops(v)' /\ ~Growing(v)' /\ pc'[v] # "new"
        OBVIOUS
      <4>1. u # t /\ Pops(u) /\ file'[u] = file[u]
        BY <3>2, <3>3, <3>4
      <4>2. CASE v = t
        BY <3>1, <4>2
      <4>3. CASE v # t
        <5>1. file[u] = file[v] /\ pc'[v] = pc[v]
          BY <3>2, <4>1, <4>3
        <5>2. ~Pops(v) /\ ~Growing(v) /\ pc[v] # "new"
          BY <4>1, <5>1
        <5>. QED
          BY <5>1, <5>2
      <4>. QED
        BY <4>2, <4>3
    <3>6. \A u \in Threads : pc'[u] = "pop" => row'[u] <= used'[file'[u]]
      BY <3>1, <3>2
    <3>7. \A g \in Files :
            \/ saved'[g] <= used'[g]
            \/ \E u \in Threads : file'[u] = g /\ pc'[u] \in {"popped", "resave"}
      <4> SUFFICES ASSUME NEW g \in Files, ~(saved'[g] <= used'[g])
                   PROVE  \E u \in Threads :
                            file'[u] = g /\ pc'[u] \in {"popped", "resave"}
        OBVIOUS
      <4>1. PICK u \in Threads : file[u] = g /\ pc[u] \in {"popped", "resave"}
        BY <3>1
      <4>. QED
        BY <3>1, <3>2, <4>1
    <3>. QED
      BY <3>5, <3>6, <3>7
  <2>2. CASE NewRow(t, f)
    BY <2>2 DEF NewRow, Call, Goto
  <2>3. CASE Pop(t, f)
    <3>1. \A u \in Threads : file[u] = f => pc[u] \in {"idle", "get"}
      BY <2>3 DEF Pop
    <3>2. row'[t] <= used'[f]
      BY <2>3 DEF Pop
    <3>. QED
      BY <2>3, <3>1, <3>2 DEF Pop, Call, Goto
  <2>. QED
    BY <1>1, <2>1, <2>2, <2>3 DEF Begin
<1>2. ASSUME NEW t \in Threads, Access(t)
      PROVE  PopInv'
  BY <1>2 DEF Access, Goto
<1>3. ASSUME NEW t \in Threads, Release(t)
      PROVE  PopInv'
  BY <1>3 DEF Release
<1>4. ASSUME NEW t \in Threads, LockManager(t)
      PROVE  PopInv'
  BY <1>4, AfterLockTyped, AfterLockPops, AfterLockGrows DEF LockManager, Goto
<1>5. ASSUME NEW t \in Threads, Save(t)
      PROVE  PopInv'
  BY <1>5 DEF Save, UnlockManager, Goto
<1>6. ASSUME NEW t \in Threads, SetCount(t)
      PROVE  PopInv'
  BY <1>6 DEF SetCount, Goto
<1>7. ASSUME NEW t \in Threads, LockUpgrade(t)
      PROVE  PopInv'
  BY <1>7 DEF LockUpgrade, Goto
<1>8. ASSUME NEW t \in Threads, ReserveClosed(t)
      PROVE  PopInv'
  BY <1>8 DEF ReserveClosed, UnlockManager, Goto
<1>9. ASSUME NEW t \in Threads, Assign(t)
      PROVE  PopInv'
  BY <1>9 DEF Assign, Goto
<1>10. ASSUME NEW t \in Threads, Grow(t)
      PROVE  PopInv'
  BY <1>10 DEF Grow, Goto
<1>11. ASSUME NEW t \in Threads, Truncate(t)
      PROVE  PopInv'
  BY <1>11 DEF Truncate, Goto
<1>12. ASSUME NEW t \in Threads, Remap(t)
      PROVE  PopInv'
  BY <1>12 DEF Remap, Goto
<1>13. ASSUME NEW t \in Threads, GrowFails(t)
      PROVE  PopInv'
  BY <1>13 DEF GrowFails, UnlockManager, Goto
<1>14. ASSUME NEW t \in Threads, CountRow(t)
      PROVE  PopInv'
  <2>1. manager[file[t]] = t /\ Growing(t)
    BY <1>14 DEF LockInv, CountRow
  <2>. QED
    BY <1>14, <2>1 DEF CountRow, UnlockManager, Goto
<1>15. ASSUME NEW t \in Threads, FlushFile(t) \/ CloseFile(t) \/ CloseAgain(t)
      PROVE  PopInv'
  <2>1. /\ ~Pops(t)
        /\ pc' = [pc EXCEPT ![t] = "idle"]
        /\ UNCHANGED <<used, saved, file, row>>
    BY <1>15 DEF FlushFile, CloseFile, CloseAgain, Goto
  <2>. QED
    BY <2>1
<1>16. CASE Reopen \/ Kill
  BY <1>16 DEF Reopen, Kill, Open, NoOne
<1>17. CASE UNCHANGED vars
  BY <1>17 DEF vars
<1>. QED
  BY <1>1, <1>2, <1>3, <1>4, <1>5, <1>6, <1>7, <1>8, <1>9,
     <1>10, <1>11, <1>12, <1>13, <1>14, <1>15, <1>16, <1>17
  DEF Next, Work

\* The rows of a file fit in what close keeps of it, at every step of a growth.
SizeInv ==
    /\ \A f \in Files : /\ used[f] <= logical[f] /\ logical[f] <= length[f]
                        /\ saved[f] <= logical[f]
    /\ \A f \in Files : ~closed[f] => fileSize[f] <= length[f]
    /\ \A f \in Files : ~closed[f] /\ data[f] # 0 => logical[f] <= fileSize[f]
    /\ \A f \in Files : data[f] = 0 => exclusive[f] # NoThread
    /\ \A t \in Threads : pc[t] \in {"truncate", "remap"} =>
            /\ data[file[t]] # 0 /\ ~closed[file[t]]
            /\ fileSize[file[t]] < Required(t)
    /\ \A t \in Threads : pc[t] = "remap" => length[file[t]] = Target(Required(t))
    /\ \A t \in Threads : pc[t] = "count" => Required(t) <= logical[file[t]]

LEMMA SizeStep ==
    TypeOK /\ TypeOK' /\ LockInv /\ PopInv /\ SizeInv /\ [Next]_vars => SizeInv'
<1> SUFFICES ASSUME TypeOK, TypeOK', LockInv, PopInv, SizeInv, [Next]_vars
             PROVE  SizeInv'
  OBVIOUS
<1> USE DEF TypeOK, SizeInv, Required, LockInv, Growing, mapVars, rowVars, lockVars,
            threadVars, bounds
<1>1. ASSUME NEW t \in Threads, NEW f \in Files, Begin(t, f)
      PROVE  SizeInv'
  <2>1. UNCHANGED <<mapVars, rowVars, lockVars>>
    BY <1>1 DEF Begin, Guard, NewRow, Sync, Pop, Flush, Close
  <2>2. pc'[t] \notin {"truncate", "remap", "count"}
    BY <1>1 DEF Begin, Guard, NewRow, Sync, Pop, Flush, Close, Call, Goto
  <2>3. \A u \in Threads \ {t} : pc'[u] = pc[u] /\ file'[u] = file[u]
    BY <1>1 DEF Begin, Guard, NewRow, Sync, Pop, Flush, Close, Call, Goto
  <2>. QED
    BY <2>1, <2>2, <2>3
<1>2. ASSUME NEW t \in Threads, Access(t)
      PROVE  SizeInv'
  BY <1>2 DEF Access, Goto
<1>3. ASSUME NEW t \in Threads, Release(t)
      PROVE  SizeInv'
  BY <1>3 DEF Release
<1>4. ASSUME NEW t \in Threads, LockManager(t)
      PROVE  SizeInv'
  BY <1>4, AfterLockTyped DEF LockManager, Goto
<1>5. ASSUME NEW t \in Threads, Save(t)
      PROVE  SizeInv'
  BY <1>5 DEF Save, UnlockManager, Goto
<1>6. ASSUME NEW t \in Threads, SetCount(t)
      PROVE  SizeInv'
  <2>1. used' = [used EXCEPT ![file[t]] = row[t]] /\ row[t] <= used[file[t]]
    BY <1>6 DEF SetCount, PopInv
  <2>2. \A u \in Threads : Growing(u) => file[u] # file[t]
    BY <1>6 DEF SetCount, PopInv, Pops
  <2>. QED
    BY <1>6, <2>1, <2>2 DEF SetCount, Goto
<1>7. ASSUME NEW t \in Threads, LockUpgrade(t)
      PROVE  SizeInv'
  BY <1>7 DEF LockUpgrade, Goto
<1>8. ASSUME NEW t \in Threads, ReserveClosed(t)
      PROVE  SizeInv'
  BY <1>8 DEF ReserveClosed, UnlockManager, Goto
<1>9. ASSUME NEW t \in Threads, Assign(t)
      PROVE  SizeInv'
  <2>1. saved[file[t]] <= used[file[t]]
    BY <1>9 DEF Assign, PopInv, Pops
  <2>2. fileSize[file[t]] <= length[file[t]]
    BY <1>9 DEF Assign
  <2>3. \A u \in Threads : u # t /\ Growing(u) => file[u] # file[t]
    BY <1>9 DEF Assign
  <2>. QED
    BY <1>9, <2>1, <2>2, <2>3 DEF Assign, Goto
<1>10. ASSUME NEW t \in Threads, Grow(t)
      PROVE  SizeInv'
  BY <1>10 DEF Grow, Goto
<1>11. ASSUME NEW t \in Threads, Truncate(t)
      PROVE  SizeInv'
  <2> DEFINE target == Target(Required(t))
  <2>1. target \in Nat /\ target >= Required(t)
    BY TargetFits
  <2>2. /\ data[file[t]] # 0 /\ ~closed[file[t]]
        /\ fileSize[file[t]] < Required(t)
        /\ logical[file[t]] <= fileSize[file[t]]
    BY <1>11 DEF Truncate
  <2>3. \A u \in Threads : u # t /\ Growing(u) => file[u] # file[t]
    BY <1>11 DEF Truncate
  <2>4. length' = [length EXCEPT ![file[t]] = target]
    BY <1>11 DEF Truncate
  <2>5. \A u \in Threads : Target(Required(u))' = Target(Required(u))
    BY <1>11 DEF Truncate, Target
  <2> HIDE DEF target
  <2>. QED
    BY <1>11, <2>1, <2>2, <2>3, <2>4, <2>5 DEF Truncate, Goto
<1>12. ASSUME NEW t \in Threads, Remap(t)
      PROVE  SizeInv'
  <2> DEFINE target == Target(Required(t))
  <2>1. target \in Nat /\ target >= Required(t)
    BY TargetFits
  <2>2. /\ data[file[t]] # 0 /\ ~closed[file[t]]
        /\ fileSize[file[t]] < Required(t)
        /\ logical[file[t]] <= fileSize[file[t]]
        /\ length[file[t]] = target
    BY <1>12 DEF Remap
  <2>3. \A u \in Threads : u # t /\ Growing(u) => file[u] # file[t]
    BY <1>12 DEF Remap
  <2>4. fileSize' = [fileSize EXCEPT ![file[t]] = target]
    BY <1>12 DEF Remap
  <2>5. \A u \in Threads : Target(Required(u))' = Target(Required(u))
    BY <1>12 DEF Remap, Target
  <2>6. data'[file[t]] # 0 /\ \A f \in Files : f # file[t] => data'[f] = data[f]
    BY <1>12 DEF Remap
  <2> HIDE DEF target
  <2>. QED
    BY <1>12, <2>1, <2>2, <2>3, <2>4, <2>5, <2>6 DEF Remap, Goto
<1>13. ASSUME NEW t \in Threads, GrowFails(t)
      PROVE  SizeInv'
  <2>1. UNCHANGED <<closed, logical, length, used, saved, exclusive, file>>
        /\ exclusive[file[t]] = t
    BY <1>13 DEF GrowFails
  <2>2. pc' = [pc EXCEPT ![t] = "idle"]
    BY <1>13 DEF GrowFails, Goto
  <2>3. \A u \in Threads : Target(Required(u))' = Target(Required(u))
    BY <2>1 DEF Target
  <2>4. CASE UNCHANGED <<data, fileSize>>
    BY <2>1, <2>2, <2>3, <2>4
  <2>5. CASE /\ data' = [data EXCEPT ![file[t]] = 0]
             /\ fileSize' = [fileSize EXCEPT ![file[t]] = 0]
    <3>1. \A u \in Threads \ {t} :
            pc[u] \in {"truncate", "remap"} => file[u] # file[t]
      BY <2>1
    <3>. QED
      BY <2>1, <2>2, <2>3, <2>5, <3>1
  <2>. QED
    BY <1>13, <2>4, <2>5 DEF GrowFails
<1>14. ASSUME NEW t \in Threads, CountRow(t)
      PROVE  SizeInv'
  BY <1>14 DEF CountRow, UnlockManager, Goto
<1>15. ASSUME NEW t \in Threads, FlushFile(t) \/ CloseFile(t) \/ CloseAgain(t)
      PROVE  SizeInv'
  <2>1. pc' = [pc EXCEPT ![t] = "idle"]
        /\ UNCHANGED <<data, fileSize, logical, used, saved, exclusive, file>>
    BY <1>15 DEF FlushFile, CloseFile, CloseAgain, Goto
  <2>2. \A u \in Threads : Target(Required(u))' = Target(Required(u))
    BY <2>1 DEF Target
  <2>3. CASE UNCHANGED <<closed, length>>
    BY <2>1, <2>2, <2>3
  <2>4. CASE CloseFile(t)
    <3>1. upgrade[file[t]] = t /\ exclusive[file[t]] = NoThread
      BY <2>4 DEF CloseFile
    <3>2. \A u \in Threads : pc[u] \in {"truncate", "remap"} => file[u] # file[t]
      BY <3>1
    <3>3. closed' = [closed EXCEPT ![file[t]] = TRUE]
          /\ length' = [length EXCEPT ![file[t]] = logical[file[t]]]
      BY <2>4 DEF CloseFile
    <3>. QED
      BY <2>1, <2>2, <3>2, <3>3
  <2>. QED
    BY <1>15, <2>3, <2>4 DEF FlushFile, CloseAgain
<1>16. CASE Reopen \/ Kill
  BY <1>16 DEF Reopen, Kill, Open, NoOne
<1>17. CASE UNCHANGED vars
  BY <1>17 DEF vars
<1>. QED
  BY <1>1, <1>2, <1>3, <1>4, <1>5, <1>6, <1>7, <1>8, <1>9,
     <1>10, <1>11, <1>12, <1>13, <1>14, <1>15, <1>16, <1>17
  DEF Next, Work

\* What holds at the start.
LEMMA CountsInit == Init => LockInv /\ PopInv /\ SizeInv
BY DEF Init, LockInv, Growing, PopInv, Pops, SizeInv, NoOne, Shared, Holds

LEMMA CountsHold == Spec => [](LockInv /\ PopInv /\ SizeInv)
BY MapsTyped, CountsInit, LockStep, PopStep, SizeStep, PTL DEF Spec

\* The rows counted lie below the logical size, and that below the length of
\* the file, also while a file grows, after a failed growth and after a kill:
\* new_records reserves before it adds to record_count_.
THEOREM RowsFit == Spec => []CountedRowsFit
<1>1. SizeInv => CountedRowsFit
  BY DEF SizeInv, CountedRowsFit
<1>. QED
  BY <1>1, CountsHold, PTL

\* The count that write_count left in a file is not beyond its end, so that
\* start accepts it whenever the process was killed.
THEOREM CountInFile == Spec => []CountIsInFile
<1>1. TypeOK /\ SizeInv => CountIsInFile
  BY DEF TypeOK, SizeInv, CountIsInFile
<1>. QED
  BY <1>1, MapsTyped, CountsHold, PTL

-----------------------------------------------------------------------------
\* Accessors.

\* Nobody uses a file that is closed or about to be.
JoinedInv ==
    \A f \in Files : closed[f] \/ Closing(f) =>
        ~Shared(f) /\ \A t \in Threads : file[t] = f => pc[t] # "get"

LEMMA JoinedStep ==
    JoinedClose /\ TypeOK /\ TypeOK' /\ JoinedInv /\ [Next]_vars => JoinedInv'
<1> SUFFICES ASSUME JoinedClose, TypeOK, TypeOK', JoinedInv, [Next]_vars
             PROVE  JoinedInv'
  OBVIOUS
<1> USE DEF TypeOK, JoinedInv, Closing, Shared, Holds, mapVars, rowVars, lockVars,
            threadVars, bounds
<1>1. ASSUME NEW t \in Threads, NEW f \in Files, Begin(t, f)
      PROVE  JoinedInv'
  <2>1. UNCHANGED <<closed, pointers>> /\ pc[t] = "idle"
        /\ pc'[t] # "closing" /\ file'[t] = f
    BY <1>1 DEF Begin, Guard, NewRow, Sync, Pop, Flush, Close, Call, Goto
  <2>2. \A u \in Threads \ {t} : pc'[u] = pc[u] /\ file'[u] = file[u]
    BY <1>1 DEF Begin, Guard, NewRow, Sync, Pop, Flush, Close, Call, Goto
  <2>3. pc'[t] = "get" => ~closed[f] /\ ~Closing(f)
    BY <1>1 DEF Begin, Guard, NewRow, Sync, Pop, Flush, Close, Call, Goto,
                Usable
  <2>4. pc'[t] = "close" => \A u \in Threads : pc[u] = "idle" /\ pointers[u] = {}
    BY <1>1 DEF Begin, Guard, NewRow, Sync, Pop, Flush, Close, Call, Goto,
                Joined
  <2>5. CASE pc'[t] = "close"
    BY <2>1, <2>2, <2>4, <2>5
  <2>6. CASE pc'[t] # "close"
    <3> SUFFICES ASSUME NEW g \in Files, (closed[g] \/ Closing(g))'
                 PROVE  (~Shared(g) /\ \A u \in Threads :
                            file[u] = g => pc[u] # "get")'
      OBVIOUS
    <3>1. closed[g] \/ Closing(g)
      BY <2>1, <2>2, <2>6
    <3>2. ~Shared(g) /\ \A u \in Threads : file[u] = g => pc[u] # "get"
      BY <3>1
    <3>3. ~Shared(g)'
      BY <2>1, <3>2
    <3>4. \A u \in Threads : file'[u] = g => pc'[u] # "get"
      BY <2>1, <2>2, <2>3, <3>1, <3>2
    <3>. QED
      BY <3>3, <3>4
  <2>. QED
    BY <2>5, <2>6
<1>2. ASSUME NEW t \in Threads, Access(t)
      PROVE  JoinedInv'
  BY <1>2 DEF Access, Goto
<1>3. ASSUME NEW t \in Threads, Release(t)
      PROVE  JoinedInv'
  BY <1>3 DEF Release
<1>4. ASSUME NEW t \in Threads, LockManager(t)
      PROVE  JoinedInv'
  BY <1>4, AfterLockTyped DEF LockManager, Goto
<1>5. ASSUME NEW t \in Threads, Save(t)
      PROVE  JoinedInv'
  BY <1>5 DEF Save, UnlockManager, Goto
<1>6. ASSUME NEW t \in Threads, SetCount(t)
      PROVE  JoinedInv'
  BY <1>6 DEF SetCount, Goto
<1>7. ASSUME NEW t \in Threads, LockUpgrade(t)
      PROVE  JoinedInv'
  BY <1>7 DEF LockUpgrade, Goto
<1>8. ASSUME NEW t \in Threads, ReserveClosed(t)
      PROVE  JoinedInv'
  BY <1>8 DEF ReserveClosed, UnlockManager, Goto
<1>9. ASSUME NEW t \in Threads, Assign(t)
      PROVE  JoinedInv'
  BY <1>9 DEF Assign, Goto
<1>10. ASSUME NEW t \in Threads, Grow(t)
      PROVE  JoinedInv'
  BY <1>10 DEF Grow, Goto
<1>11. ASSUME NEW t \in Threads, Truncate(t)
      PROVE  JoinedInv'
  BY <1>11 DEF Truncate, Goto
<1>12. ASSUME NEW t \in Threads, Remap(t)
      PROVE  JoinedInv'
  BY <1>12 DEF Remap, Goto
<1>13. ASSUME NEW t \in Threads, GrowFails(t)
      PROVE  JoinedInv'
  BY <1>13 DEF GrowFails, UnlockManager, Goto
<1>14. ASSUME NEW t \in Threads, CountRow(t)
      PROVE  JoinedInv'
  BY <1>14 DEF CountRow, UnlockManager, Goto
<1>15. ASSUME NEW t \in Threads, FlushFile(t) \/ CloseFile(t) \/ CloseAgain(t)
      PROVE  JoinedInv'
  BY <1>15 DEF FlushFile, CloseFile, CloseAgain, Goto
<1>16. CASE Reopen \/ Kill
  BY <1>16 DEF Reopen, Kill, Open, NoOne
<1>17. CASE UNCHANGED vars
  BY <1>17 DEF vars
<1>. QED
  BY <1>1, <1>2, <1>3, <1>4, <1>5, <1>6, <1>7, <1>8, <1>9,
     <1>10, <1>11, <1>12, <1>13, <1>14, <1>15, <1>16, <1>17
  DEF Next, Work

\* What is copied from data_ is the mapping that exists, and a row lies in it
\* from the guard that reads the count to the end of the accessor.
MapInv ==
    /\ \A f \in Files : exclusive[f] = NoThread /\ ~closed[f]
                            => data[f] = live[f]
    /\ \A t \in Threads : pc[t] = "get" /\ data[file[t]] # 0
                            => row[t] <= fileSize[file[t]]
    /\ PointersAreMapped

LEMMA MapStep ==
    JoinedClose /\ TypeOK /\ TypeOK'
    /\ LockInv /\ SizeInv /\ JoinedInv /\ MapInv /\ [Next]_vars => MapInv'
<1> SUFFICES ASSUME JoinedClose, TypeOK, TypeOK', LockInv, SizeInv, JoinedInv, MapInv, [Next]_vars
             PROVE  MapInv'
  OBVIOUS
<1> USE DEF TypeOK, MapInv, PointersAreMapped, mapVars, rowVars, lockVars,
            threadVars, bounds
<1>1. ASSUME NEW t \in Threads, NEW f \in Files, Begin(t, f)
      PROVE  MapInv'
  <2>1. UNCHANGED <<mapVars, lockVars, pointers>>
    BY <1>1 DEF Begin, Guard, NewRow, Sync, Pop, Flush, Close
  <2>2. \A u \in Threads \ {t} :
          pc'[u] = pc[u] /\ file'[u] = file[u] /\ row'[u] = row[u]
    BY <1>1 DEF Begin, Guard, NewRow, Sync, Pop, Flush, Close, Call, Goto
  <2>3. pc'[t] = "get" => /\ file'[t] = f /\ ~closed[f]
                          /\ row'[t] \in 1 .. used[f]
    BY <1>1 DEF Begin, Guard, NewRow, Sync, Pop, Flush, Close, Call, Goto,
                Usable
  <2>4. ~closed[f] /\ data[f] # 0 => used[f] <= fileSize[f]
    BY DEF SizeInv
  <2>. QED
    BY <2>1, <2>2, <2>3, <2>4
<1>2. ASSUME NEW t \in Threads, Access(t)
      PROVE  MapInv'
  <2> DEFINE f == file[t]
             p == [file |-> f, mapping |-> data[f], row |-> row[t]]
  <2>1. exclusive[f] = NoThread /\ data[f] # 0 /\ ~closed[f]
    BY <1>2 DEF Access, SizeInv, JoinedInv
  <2>2. p.mapping = live[p.file] /\ p.row <= fileSize[p.file]
    BY <1>2, <2>1 DEF Access
  <2>3. pointers' = [pointers EXCEPT ![t] = @ \cup {p}]
    BY <1>2 DEF Access
  <2>4. UNCHANGED <<mapVars, exclusive, file>>
    BY <1>2 DEF Access
  <2>5. PointersAreMapped'
    <3> HIDE DEF p
    <3>. QED
      BY <2>2, <2>3, <2>4
  <2>. QED
    BY <1>2, <2>4, <2>5 DEF Access, Goto
<1>3. ASSUME NEW t \in Threads, Release(t)
      PROVE  MapInv'
  BY <1>3 DEF Release
<1>4. ASSUME NEW t \in Threads, LockManager(t)
      PROVE  MapInv'
  BY <1>4, AfterLockTyped DEF LockManager, Goto
<1>5. ASSUME NEW t \in Threads, Save(t)
      PROVE  MapInv'
  BY <1>5 DEF Save, UnlockManager, Goto
<1>6. ASSUME NEW t \in Threads, SetCount(t)
      PROVE  MapInv'
  BY <1>6 DEF SetCount, Goto
<1>7. ASSUME NEW t \in Threads, LockUpgrade(t)
      PROVE  MapInv'
  BY <1>7 DEF LockUpgrade, Goto
<1>8. ASSUME NEW t \in Threads, ReserveClosed(t)
      PROVE  MapInv'
  BY <1>8 DEF ReserveClosed, UnlockManager, Goto
<1>9. ASSUME NEW t \in Threads, Assign(t)
      PROVE  MapInv'
  BY <1>9 DEF Assign, Goto
<1>10. ASSUME NEW t \in Threads, Grow(t)
      PROVE  MapInv'
  BY <1>10 DEF Grow, Goto
<1>11. ASSUME NEW t \in Threads, Truncate(t)
      PROVE  MapInv'
  BY <1>11 DEF Truncate, Goto
<1>12. ASSUME NEW t \in Threads, Remap(t)
      PROVE  MapInv'
  <2> DEFINE f == file[t]
  <2>1. f \in Files /\ fileSize'[f] >= fileSize[f] /\ data'[f] = live'[f]
        /\ data[f] # 0
    <3>1. Target(Required(t)) >= Required(t)
      BY TargetFits DEF Required
    <3>2. fileSize[f] < Required(t) /\ Required(t) \in Nat /\ data[f] # 0
          /\ Target(Required(t)) \in Nat
      BY <1>12, TargetFits DEF Remap, SizeInv, Required
    <3>3. fileSize'[f] = Target(Required(t)) /\ data'[f] = live'[f]
      BY <1>12 DEF Remap
    <3>. QED
      BY <3>1, <3>2, <3>3
  <2>2. \A u \in Threads, p \in Pointer : p \in pointers[u] => p.file # f
    BY <1>12 DEF Remap, LockInv, Shared, Holds
  <2>3. \A g \in Files \ {f} : /\ data'[g] = data[g] /\ live'[g] = live[g]
                               /\ fileSize'[g] = fileSize[g]
                               /\ exclusive'[g] = exclusive[g]
    BY <1>12 DEF Remap
  <2>4. UNCHANGED <<closed, file, row, pointers>>
    BY <1>12 DEF Remap
  <2>5. pc' = [pc EXCEPT ![t] = "sized"]
    BY <1>12 DEF Remap, Goto
  <2>6. \A p \in Pointer : p.file \in Files
    BY DEF Pointer
  <2> HIDE DEF f
  <2>7. PointersAreMapped'
    BY <2>2, <2>3, <2>4, <2>6
  <2>8. \A u \in Threads : pc'[u] = "get" /\ data'[file'[u]] # 0
                             => row'[u] <= fileSize'[file'[u]]
    <3> SUFFICES ASSUME NEW u \in Threads,
                        pc'[u] = "get", data'[file'[u]] # 0
                 PROVE  row'[u] <= fileSize'[file'[u]]
      OBVIOUS
    <3>1. pc[u] = "get" /\ file'[u] = file[u] /\ row'[u] = row[u]
          /\ fileSize'[file[u]] \in Nat
      BY <2>4, <2>5
    <3>2. CASE file[u] = f
      BY <2>1, <3>1, <3>2
    <3>3. CASE file[u] # f
      BY <2>3, <3>1, <3>3
    <3>. QED
      BY <3>2, <3>3
  <2>9. \A g \in Files : exclusive'[g] = NoThread /\ ~closed'[g]
                          => data'[g] = live'[g]
    BY <2>1, <2>3, <2>4
  <2>. QED
    BY <2>7, <2>8, <2>9
<1>13. ASSUME NEW t \in Threads, GrowFails(t)
      PROVE  MapInv'
  <2>1. /\ exclusive[file[t]] = t /\ ~Shared(file[t])
        /\ UNCHANGED <<closed, live, exclusive, file, row, pointers>>
    BY <1>13 DEF GrowFails, LockInv
  <2>2. pc' = [pc EXCEPT ![t] = "idle"]
    BY <1>13 DEF GrowFails, Goto
  <2>3. CASE UNCHANGED <<data, fileSize>>
    BY <2>1, <2>2, <2>3
  <2>4. CASE /\ data' = [data EXCEPT ![file[t]] = 0]
             /\ fileSize' = [fileSize EXCEPT ![file[t]] = 0]
    BY <2>1, <2>2, <2>4 DEF Shared, Holds, Pointer
  <2>. QED
    BY <1>13, <2>3, <2>4 DEF GrowFails
<1>14. ASSUME NEW t \in Threads, CountRow(t)
      PROVE  MapInv'
  BY <1>14 DEF CountRow, UnlockManager, Goto
<1>15. ASSUME NEW t \in Threads, FlushFile(t) \/ CloseFile(t) \/ CloseAgain(t)
      PROVE  MapInv'
  <2>1. pc' = [pc EXCEPT ![t] = "idle"]
        /\ UNCHANGED <<data, fileSize, exclusive, file, row, pointers>>
    BY <1>15 DEF FlushFile, CloseFile, CloseAgain, Goto
  <2>2. CASE UNCHANGED <<closed, live>>
    BY <2>1, <2>2
  <2>3. CASE CloseFile(t)
    <3>1. \A u \in Threads, p \in Pointer : p \in pointers[u] => p.file # file[t]
      BY <2>3 DEF CloseFile, Shared, Holds
    <3>2. \A g \in Files \ {file[t]} : live'[g] = live[g] /\ closed'[g] = closed[g]
      BY <2>3 DEF CloseFile
    <3>3. closed'[file[t]]
      BY <2>3 DEF CloseFile
    <3>. QED
      BY <2>1, <3>1, <3>2, <3>3 DEF Pointer
  <2>. QED
    BY <1>15, <2>2, <2>3 DEF FlushFile, CloseAgain
<1>16. CASE Reopen \/ Kill
  BY <1>16 DEF Reopen, Kill, Open, NoOne
<1>17. CASE UNCHANGED vars
  BY <1>17 DEF vars
<1>. QED
  BY <1>1, <1>2, <1>3, <1>4, <1>5, <1>6, <1>7, <1>8, <1>9,
     <1>10, <1>11, <1>12, <1>13, <1>14, <1>15, <1>16, <1>17
  DEF Next, Work

\* While callers end their calls before they close, an accessor points into the
\* mapping of its file that exists, at a row that lies in it: memory_map moves
\* a file only when its mutex has no sharer.
THEOREM PointersMapped == JoinedClose => (Spec => []PointersAreMapped)
<1> SUFFICES ASSUME JoinedClose PROVE Spec => []PointersAreMapped
  OBVIOUS
<1>1. Init => JoinedInv /\ MapInv
  BY DEF Init, JoinedInv, Closing, Shared, Holds, MapInv, PointersAreMapped
<1>2. TypeOK /\ TypeOK' /\ JoinedInv /\ [Next]_vars => JoinedInv'
  BY JoinedStep
<1>3. TypeOK /\ TypeOK' /\ LockInv /\ SizeInv /\ JoinedInv /\ MapInv
      /\ [Next]_vars => MapInv'
  BY MapStep
<1>4. MapInv => PointersAreMapped
  BY DEF MapInv
<1>. QED
  BY <1>1, <1>2, <1>3, <1>4, MapsTyped, CountsHold, PTL DEF Spec
=============================================================================
