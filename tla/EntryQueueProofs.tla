-------------------------- MODULE EntryQueueProofs --------------------------
(***************************************************************************)
(* The policy queue never meets its two "unexpected" errors, for every     *)
(* number of inserters and getters and every queue size.                   *)
(***************************************************************************)
EXTENDS EntryQueue, FiniteSetTheorems, TLAPS

\* Advancing an index of the cyclic array: queue.c computes (i + 1) modulo
\* array_size, which is i + 1 except at the end of the array.
LEMMA NextIndex ==
    ASSUME NEW i \in Index
    PROVE  /\ (i + 1) % array_size \in Index
           /\ (i + 1) % array_size = IF i = QueueSize THEN 0 ELSE i + 1
BY QueueSizeAssumption DEF Index, array_size

\* The change of the number of threads at l when one moves from a to b.
Shift(a, b, l) == IF l = b THEN 1 ELSE IF l = a THEN -1 ELSE 0

\* From f to g, thread p of T alone moved, from place a of its code to b.
Moved(T, f, g, p, a, b) ==
    /\ f[p] = a /\ g[p] = b /\ a # b
    /\ \A q \in T \ {p} : g[q] = f[q]

\* When one thread moves from one place of its code to another, the number
\* of threads at the place it leaves drops by one, the number at the place
\* it reaches grows by one, and the number elsewhere is the same.
LEMMA MoveOne ==
    ASSUME NEW T, IsFiniteSet(T), NEW f, NEW g, NEW p \in T, NEW a, NEW b,
           Moved(T, f, g, p, a, b)
    PROVE  \A l : Cardinality(ThreadsAt(T, g, l)) =
                    Cardinality(ThreadsAt(T, f, l)) + Shift(a, b, l)
<1> USE DEF Moved
<1> SUFFICES ASSUME NEW l
             PROVE  Cardinality(ThreadsAt(T, g, l)) =
                      Cardinality(ThreadsAt(T, f, l)) + Shift(a, b, l)
  OBVIOUS
<1>1. IsFiniteSet(ThreadsAt(T, f, l))
  BY FS_Subset DEF ThreadsAt
<1>2. Cardinality(ThreadsAt(T, f, l)) \in Nat
  BY <1>1, FS_CardinalityType
<1>3. CASE l = b
  <2>1. /\ ThreadsAt(T, g, l) = ThreadsAt(T, f, l) \cup {p}
        /\ p \notin ThreadsAt(T, f, l)
    BY <1>3 DEF ThreadsAt
  <2>2. QED BY <2>1, <1>1, <1>3, FS_AddElement DEF Shift
<1>4. CASE l = a
  <2>1. /\ ThreadsAt(T, g, l) = ThreadsAt(T, f, l) \ {p}
        /\ p \in ThreadsAt(T, f, l)
    BY <1>4 DEF ThreadsAt
  <2>2. Cardinality(ThreadsAt(T, g, l)) = Cardinality(ThreadsAt(T, f, l)) - 1
    BY <2>1, <1>1, FS_RemoveElement
  <2>3. QED BY <2>2, <1>2, <1>4 DEF Shift
<1>5. CASE l # a /\ l # b
  <2>1. ThreadsAt(T, g, l) = ThreadsAt(T, f, l)
    BY <1>5 DEF ThreadsAt
  <2>2. QED BY <2>1, <1>2, <1>5 DEF Shift
<1>6. QED BY <1>3, <1>4, <1>5

\* The counts the invariants are about are natural numbers.
LEMMA CountsAreNat ==
    ASSUME NEW l
    PROVE  /\ Cardinality(InsertersAt(l)) \in Nat
           /\ Cardinality(GettersAt(l)) \in Nat
<1>1. IsFiniteSet(InsertersAt(l)) /\ IsFiniteSet(GettersAt(l))
  BY ThreadsAssumption, FS_Subset DEF InsertersAt, GettersAt, ThreadsAt
<1>2. QED BY <1>1, FS_CardinalityType

-----------------------------------------------------------------------------
\* Type correctness of the queue of queue.c, for every number of threads.
THEOREM TypeCorrect == Spec => []TypeOK
<1>1. Init => TypeOK
  BY QueueSizeAssumption, UIntModAssumption, FS_CardinalityType,
     ThreadsAssumption
  DEF Init, TypeOK, Index
<1>2. TypeOK /\ [Next]_vars => TypeOK'
  <2> SUFFICES ASSUME TypeOK, [Next]_vars PROVE TypeOK'
    OBVIOUS
  <2> USE DEF TypeOK
  <2>1. ASSUME NEW p \in Inserters, InsertWait(p) PROVE TypeOK'
    BY <2>1 DEF InsertWait
  <2>2. ASSUME NEW p \in Inserters, NEW e \in Entries, InsertLocked(p, e)
        PROVE  TypeOK'
    <3>1. (last_index + 1) % array_size \in Index
      BY NextIndex
    <3>2. (submitted + 1) % UIntMod \in 0..(UIntMod - 1)
      BY UIntModAssumption, FS_CardinalityType, ThreadsAssumption,
         QueueSizeAssumption
    <3>3. QED BY <2>2, <3>1, <3>2 DEF InsertLocked
  <2>3. ASSUME NEW p \in Inserters, InsertPost(p) PROVE TypeOK'
    BY <2>3 DEF InsertPost
  <2>4. ASSUME NEW c \in Getters, GetAnnounce(c) PROVE TypeOK'
    BY <2>4 DEF GetAnnounce
  <2>5. ASSUME NEW c \in Getters, GetWait(c) PROVE TypeOK'
    BY <2>5 DEF GetWait
  <2>6. ASSUME NEW c \in Getters, GetLocked(c) PROVE TypeOK'
    <3>1. (first_index + 1) % array_size \in Index
      BY NextIndex
    <3>2. QED BY <2>6, <3>1 DEF GetLocked
  <2>7. ASSUME NEW c \in Getters, GetPost(c) PROVE TypeOK'
    BY <2>7 DEF GetPost
  <2>8. ASSUME NEW c \in Getters, Acknowledge(c) PROVE TypeOK'
    <3>1. (status_sum + 1) % UIntMod \in 0..(UIntMod - 1)
      BY UIntModAssumption, FS_CardinalityType, ThreadsAssumption,
         QueueSizeAssumption
    <3>2. QED BY <2>8, <3>1 DEF Acknowledge
  <2>9. CASE UNCHANGED vars
    BY <2>9 DEF vars
  <2>10. QED
    BY <2>1, <2>2, <2>3, <2>4, <2>5, <2>6, <2>7, <2>8, <2>9 DEF Next
<1>3. QED BY <1>1, <1>2, PTL DEF Spec

-----------------------------------------------------------------------------
\* The inductive invariant: the two semaphores account for every place of
\* the array, which is what makes the unexpected errors impossible.
IInv == TypeOK /\ FreePlaces /\ FilledPlaces /\ NoUnexpectedError

\* What a step of one inserter does to the counts of FreePlaces and
\* FilledPlaces.
LEMMA InserterMoves ==
    ASSUME TypeOK, NEW p \in Inserters, NEW m,
           pci[p] # m, pci' = [pci EXCEPT ![p] = m], UNCHANGED pcg
    PROVE  \A l : /\ Cardinality(InsertersAt(l)') =
                       Cardinality(InsertersAt(l)) + Shift(pci[p], m, l)
                  /\ GettersAt(l)' = GettersAt(l)
<1>1. Moved(Inserters, pci, pci', p, pci[p], m)
  BY DEF TypeOK, Moved
<1>2. \A l : Cardinality(ThreadsAt(Inserters, pci', l)) =
               Cardinality(ThreadsAt(Inserters, pci, l)) + Shift(pci[p], m, l)
  BY <1>1, ThreadsAssumption, MoveOne
<1>3. QED BY <1>2 DEF InsertersAt, GettersAt

\* The same for a step of one getter.
LEMMA GetterMoves ==
    ASSUME TypeOK, NEW c \in Getters, NEW m,
           pcg[c] # m, pcg' = [pcg EXCEPT ![c] = m], UNCHANGED pci
    PROVE  \A l : /\ Cardinality(GettersAt(l)') =
                       Cardinality(GettersAt(l)) + Shift(pcg[c], m, l)
                  /\ InsertersAt(l)' = InsertersAt(l)
<1>1. Moved(Getters, pcg, pcg', c, pcg[c], m)
  BY DEF TypeOK, Moved
<1>2. \A l : Cardinality(ThreadsAt(Getters, pcg', l)) =
               Cardinality(ThreadsAt(Getters, pcg, l)) + Shift(pcg[c], m, l)
  BY <1>1, ThreadsAssumption, MoveOne
<1>3. QED BY <1>2 DEF InsertersAt, GettersAt

\* An inserter that holds a free place finds the array not full, and a
\* getter that holds a filled place finds it not empty.
LEMMA HoldersFindRoom ==
    ASSUME IInv
    PROVE  /\ Count \in 0..QueueSize
           /\ \A p \in Inserters : pci[p] = "insert" => ~is_full
           /\ \A c \in Getters : pcg[c] = "get" => ~is_empty
<1> USE DEF IInv
<1>1. Count \in 0..QueueSize
  BY QueueSizeAssumption DEF TypeOK, Index, Count, array_size
<1>2. ASSUME NEW p \in Inserters, pci[p] = "insert" PROVE ~is_full
  <2>1. Cardinality(InsertersAt("insert")) > 0
    <3>1. p \in InsertersAt("insert") /\ IsFiniteSet(InsertersAt("insert"))
      BY <1>2, ThreadsAssumption, FS_Subset DEF InsertersAt, ThreadsAt
    <3>2. QED BY <3>1, FS_EmptySet, CountsAreNat
  <2>2. Count < QueueSize
    BY <2>1, <1>1, CountsAreNat, QueueSizeAssumption DEF FreePlaces, TypeOK
  <2>3. QED
    BY <2>2, NextIndex, QueueSizeAssumption
    DEF Count, is_full, TypeOK, Index, array_size
<1>3. ASSUME NEW c \in Getters, pcg[c] = "get" PROVE ~is_empty
  <2>1. Cardinality(GettersAt("get")) > 0
    <3>1. c \in GettersAt("get") /\ IsFiniteSet(GettersAt("get"))
      BY <1>3, ThreadsAssumption, FS_Subset DEF GettersAt, ThreadsAt
    <3>2. QED BY <3>1, FS_EmptySet, CountsAreNat
  <2>2. Count > 0
    BY <2>1, <1>1, CountsAreNat DEF FilledPlaces, TypeOK
  <2>3. QED BY <2>2 DEF Count, is_empty, TypeOK, Index
<1>4. QED BY <1>1, <1>2, <1>3

\* Queue_Insert adds one entry to the array and Queue_Get removes one.
LEMMA CountChanges ==
    ASSUME TypeOK
    PROVE  /\ ~is_full /\ last_index' = (last_index + 1) % array_size
                 /\ UNCHANGED first_index
              => Count' = Count + 1
           /\ ~is_empty /\ first_index' = (first_index + 1) % array_size
                 /\ UNCHANGED last_index
              => Count' = Count - 1
<1>1. /\ first_index \in Index /\ last_index \in Index
      /\ QueueSize \in Nat
  BY QueueSizeAssumption DEF TypeOK
<1>2. /\ (last_index + 1) % array_size
           = IF last_index = QueueSize THEN 0 ELSE last_index + 1
      /\ (first_index + 1) % array_size
           = IF first_index = QueueSize THEN 0 ELSE first_index + 1
  BY <1>1, NextIndex
<1>3. QED BY <1>1, <1>2 DEF Index, Count, is_full, is_empty, array_size

\* queue.c never reports "queue should not be full!" nor "queue should not
\* be empty!", for every number of threads and every queue size, and the two
\* semaphores always account for every place of the array.
THEOREM SemaphoresExact == Spec => [](PlacesExact /\ NoUnexpectedError)
<1>1. Init => IInv
  <2> SUFFICES ASSUME Init PROVE IInv
    OBVIOUS
  <2>1. TypeOK
    BY QueueSizeAssumption, UIntModAssumption, FS_CardinalityType,
       ThreadsAssumption
    DEF Init, TypeOK, Index
  <2>2. /\ InsertersAt("insert") = {} /\ InsertersAt("post") = {}
        /\ GettersAt("get") = {} /\ GettersAt("post") = {}
    BY DEF Init, InsertersAt, GettersAt, ThreadsAt
  <2>3. Count = 0
    BY DEF Init, Count
  <2>4. FreePlaces /\ FilledPlaces
    BY <2>2, <2>3, FS_EmptySet, QueueSizeAssumption
    DEF FreePlaces, FilledPlaces, Init
  <2>5. QED BY <2>1, <2>4 DEF IInv, NoUnexpectedError, Init
<1>2. IInv /\ TypeOK' /\ [Next]_vars => IInv'
  <2> SUFFICES ASSUME IInv, TypeOK', [Next]_vars PROVE IInv'
    OBVIOUS
  <2> USE CountsAreNat, HoldersFindRoom DEF IInv
  <2>a. Count \in Int /\ sem_empty \in Int /\ sem_full \in Int
    BY DEF TypeOK
  <2>1. ASSUME NEW p \in Inserters, InsertWait(p) PROVE IInv'
    <3>1. \A l : /\ Cardinality(InsertersAt(l)') =
                      Cardinality(InsertersAt(l)) + Shift("idle", "insert", l)
                 /\ GettersAt(l)' = GettersAt(l)
      BY <2>1, InserterMoves DEF InsertWait
    <3>2. Count' = Count
      BY <2>1 DEF InsertWait, Count
    <3>3. FreePlaces' /\ FilledPlaces'
      BY <2>1, <2>a, <3>1, <3>2 DEF InsertWait, FreePlaces, FilledPlaces, Shift
    <3>4. NoUnexpectedError'
      BY <2>1 DEF InsertWait, NoUnexpectedError, TypeOK
    <3>5. QED BY <3>3, <3>4
  <2>2. ASSUME NEW p \in Inserters, NEW e \in Entries, InsertLocked(p, e)
        PROVE  IInv'
    <3>1. ~is_full
      BY <2>2 DEF InsertLocked
    <3>2. \A l : /\ Cardinality(InsertersAt(l)') =
                      Cardinality(InsertersAt(l)) + Shift("insert", "post", l)
                 /\ GettersAt(l)' = GettersAt(l)
      BY <2>2, <3>1, InserterMoves DEF InsertLocked
    <3>3. Count' = Count + 1
      BY <2>2, <3>1, CountChanges DEF InsertLocked
    <3>4. FreePlaces' /\ FilledPlaces'
      BY <2>2, <2>a, <3>1, <3>2, <3>3
      DEF InsertLocked, FreePlaces, FilledPlaces, Shift
    <3>5. NoUnexpectedError'
      BY <2>2, <3>1 DEF InsertLocked, NoUnexpectedError, TypeOK
    <3>6. QED BY <3>4, <3>5
  <2>3. ASSUME NEW p \in Inserters, InsertPost(p) PROVE IInv'
    <3>1. \A l : /\ Cardinality(InsertersAt(l)') =
                      Cardinality(InsertersAt(l)) + Shift("post", "idle", l)
                 /\ GettersAt(l)' = GettersAt(l)
      BY <2>3, InserterMoves DEF InsertPost
    <3>2. Count' = Count
      BY <2>3 DEF InsertPost, Count
    <3>3. FreePlaces' /\ FilledPlaces'
      BY <2>3, <2>a, <3>1, <3>2 DEF InsertPost, FreePlaces, FilledPlaces, Shift
    <3>4. NoUnexpectedError'
      BY <2>3 DEF InsertPost, NoUnexpectedError, TypeOK
    <3>5. QED BY <3>3, <3>4
  <2>4. ASSUME NEW c \in Getters, GetAnnounce(c) PROVE IInv'
    <3>1. \A l : /\ Cardinality(GettersAt(l)') =
                      Cardinality(GettersAt(l)) + Shift("idle", "wait", l)
                 /\ InsertersAt(l)' = InsertersAt(l)
      BY <2>4, GetterMoves DEF GetAnnounce
    <3>2. Count' = Count
      BY <2>4 DEF GetAnnounce, Count
    <3>3. FreePlaces' /\ FilledPlaces'
      BY <2>4, <2>a, <3>1, <3>2
      DEF GetAnnounce, FreePlaces, FilledPlaces, Shift
    <3>4. NoUnexpectedError'
      BY <2>4 DEF GetAnnounce, NoUnexpectedError, TypeOK
    <3>5. QED BY <3>3, <3>4
  <2>5. ASSUME NEW c \in Getters, GetWait(c) PROVE IInv'
    <3>1. \A l : /\ Cardinality(GettersAt(l)') =
                      Cardinality(GettersAt(l)) + Shift("wait", "get", l)
                 /\ InsertersAt(l)' = InsertersAt(l)
      BY <2>5, GetterMoves DEF GetWait
    <3>2. Count' = Count
      BY <2>5 DEF GetWait, Count
    <3>3. FreePlaces' /\ FilledPlaces'
      BY <2>5, <2>a, <3>1, <3>2
      DEF GetWait, FreePlaces, FilledPlaces, Shift
    <3>4. NoUnexpectedError'
      BY <2>5 DEF GetWait, NoUnexpectedError, TypeOK
    <3>5. QED BY <3>3, <3>4
  <2>6. ASSUME NEW c \in Getters, GetLocked(c) PROVE IInv'
    <3>0. ~is_empty
      BY <2>6 DEF GetLocked
    <3>1. \A l : /\ Cardinality(GettersAt(l)') =
                      Cardinality(GettersAt(l)) + Shift("get", "post", l)
                 /\ InsertersAt(l)' = InsertersAt(l)
      BY <2>6, <3>0, GetterMoves DEF GetLocked
    <3>2. Count' = Count - 1
      BY <2>6, <3>0, CountChanges DEF GetLocked
    <3>3. FreePlaces' /\ FilledPlaces'
      BY <2>6, <2>a, <3>1, <3>2, <3>0
      DEF GetLocked, FreePlaces, FilledPlaces, Shift
    <3>4. NoUnexpectedError'
      BY <2>6, <3>0 DEF GetLocked, NoUnexpectedError, TypeOK
    <3>5. QED BY <3>3, <3>4
  <2>7. ASSUME NEW c \in Getters, GetPost(c) PROVE IInv'
    <3>1. \A l : /\ Cardinality(GettersAt(l)') =
                      Cardinality(GettersAt(l)) + Shift("post", "work", l)
                 /\ InsertersAt(l)' = InsertersAt(l)
      BY <2>7, GetterMoves DEF GetPost
    <3>2. Count' = Count
      BY <2>7 DEF GetPost, Count
    <3>3. FreePlaces' /\ FilledPlaces'
      BY <2>7, <2>a, <3>1, <3>2
      DEF GetPost, FreePlaces, FilledPlaces, Shift
    <3>4. NoUnexpectedError'
      BY <2>7 DEF GetPost, NoUnexpectedError, TypeOK
    <3>5. QED BY <3>3, <3>4
  <2>8. ASSUME NEW c \in Getters, Acknowledge(c) PROVE IInv'
    <3>1. \A l : /\ Cardinality(GettersAt(l)') =
                      Cardinality(GettersAt(l)) + Shift("work", "idle", l)
                 /\ InsertersAt(l)' = InsertersAt(l)
      BY <2>8, GetterMoves DEF Acknowledge
    <3>2. Count' = Count
      BY <2>8 DEF Acknowledge, Count
    <3>3. FreePlaces' /\ FilledPlaces'
      BY <2>8, <2>a, <3>1, <3>2
      DEF Acknowledge, FreePlaces, FilledPlaces, Shift
    <3>4. NoUnexpectedError'
      BY <2>8 DEF Acknowledge, NoUnexpectedError, TypeOK
    <3>5. QED BY <3>3, <3>4
  <2>9. CASE UNCHANGED vars
    <3>1. \A l : InsertersAt(l)' = InsertersAt(l) /\ GettersAt(l)' = GettersAt(l)
      BY <2>9 DEF vars, InsertersAt, GettersAt
    <3>2. Count' = Count
      BY <2>9 DEF vars, Count
    <3>3. QED
      BY <2>9, <3>1, <3>2 DEF vars, FreePlaces, FilledPlaces, NoUnexpectedError
  <2>10. QED
    BY <2>1, <2>2, <2>3, <2>4, <2>5, <2>6, <2>7, <2>8, <2>9 DEF Next
<1>3. QED BY <1>1, <1>2, TypeCorrect, PTL DEF Spec, IInv, PlacesExact
=============================================================================
