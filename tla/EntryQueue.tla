----------------------------- MODULE EntryQueue -----------------------------
(***************************************************************************)
(* The bounded queue between the thread that lists policy candidates and   *)
(* the policy worker threads (src/src/common/queue.c).  It is a cyclic     *)
(* array guarded by a mutex, with one semaphore counting free places       *)
(* (sem_empty) and one counting filled places (sem_full).                  *)
(*                                                                         *)
(* Everything between lockq and unlockq is one atomic step.  The semaphore *)
(* operations lie outside the mutex and are steps of their own, so that    *)
(* any thread may run between them and the critical section.               *)
(***************************************************************************)
EXTENDS Integers, Sequences, FiniteSets

CONSTANTS
    Inserters,   \* threads that call Queue_Insert
    Getters,     \* threads that call Queue_Get and Queue_Acknowledge
    Entries,     \* what the queue carries
    NoEntry,     \* a place never written, or "holds no entry"
    QueueSize,   \* queue_size of CreateQueue
    UIntMod      \* unsigned int counters wrap modulo this (2^32 in the build)

ASSUME QueueSizeAssumption == QueueSize \in Nat \ {0}
ASSUME NoEntryAssumption == NoEntry \notin Entries
ASSUME ThreadsAssumption == IsFiniteSet(Inserters) /\ IsFiniteSet(Getters)
\* Indexes and the number of entries in flight fit in an unsigned int.
ASSUME UIntModAssumption ==
    UIntMod \in Nat /\ UIntMod > QueueSize + 1 + Cardinality(Getters)

VARIABLES
    queue,           \* the cyclic array
    first_index,     \* next place to read
    last_index,      \* next place to write
    sem_empty,       \* free places
    sem_full,        \* filled places
    nb_thr_waiting,  \* getters announced as idle
    status_sum,      \* sum of status_array (only its sum is told apart)
    submitted,       \* entries the callers inserted (pushed_ctr.count)
    pci,             \* where each inserter is in Queue_Insert
    pcg,             \* where each getter is in Queue_Get
    handed           \* the entry a getter holds

vars == <<queue, first_index, last_index, sem_empty, sem_full,
          nb_thr_waiting, status_sum, submitted, pci, pcg, handed>>

\* Fault: the cyclic array is one place longer than what was allocated.
LongArray == QueueSize + 2

array_size == QueueSize + 1
Index == 0..QueueSize

is_empty == first_index = last_index
is_full == first_index = (last_index + 1) % array_size

-----------------------------------------------------------------------------
\* CreateQueue
Init ==
    /\ queue = [i \in Index |-> NoEntry]
    /\ first_index = 0
    /\ last_index = 0
    /\ sem_empty = QueueSize
    /\ sem_full = 0
    /\ nb_thr_waiting = 0
    /\ status_sum = 0
    /\ submitted = 0
    /\ pci = [p \in Inserters |-> "idle"]
    /\ pcg = [c \in Getters |-> "idle"]
    /\ handed = [c \in Getters |-> NoEntry]

\* Fault: Queue_Insert goes on when sem_wait fails.
InsertUnchecked(p) ==
    /\ pci[p] = "idle"
    /\ sem_empty' = IF sem_empty > 0 THEN sem_empty - 1 ELSE 0
    /\ pci' = [pci EXCEPT ![p] = "insert"]
    /\ UNCHANGED <<queue, first_index, last_index, sem_full, nb_thr_waiting,
                   status_sum, submitted, pcg, handed>>

\* Queue_Insert: sem_wait_safe(&sem_empty)
InsertWait(p) ==
    /\ pci[p] = "idle"
    /\ sem_empty > 0
    /\ sem_empty' = sem_empty - 1
    /\ pci' = [pci EXCEPT ![p] = "insert"]
    /\ UNCHANGED <<queue, first_index, last_index, sem_full, nb_thr_waiting,
                   status_sum, submitted, pcg, handed>>

\* Queue_Insert: the critical section; a full array is the unexpected error
InsertLocked(p, e) ==
    /\ pci[p] = "insert"
    /\ IF is_full
       THEN /\ pci' = [pci EXCEPT ![p] = "error"]
            /\ UNCHANGED <<queue, last_index, submitted>>
       ELSE /\ queue' = [queue EXCEPT ![last_index] = e]
            /\ last_index' = (last_index + 1) % array_size
            /\ submitted' = (submitted + 1) % UIntMod
            /\ pci' = [pci EXCEPT ![p] = "post"]
    /\ UNCHANGED <<first_index, sem_empty, sem_full, nb_thr_waiting,
                   status_sum, pcg, handed>>

\* Fault: Queue_Insert posts only when it finds an empty queue.
InsertPostFirst(p) ==
    /\ pci[p] = "post"
    /\ sem_full' = IF sem_full = 0 THEN 1 ELSE sem_full
    /\ pci' = [pci EXCEPT ![p] = "idle"]
    /\ UNCHANGED <<queue, first_index, last_index, sem_empty, nb_thr_waiting,
                   status_sum, submitted, pcg, handed>>

\* Queue_Insert: sem_post_safe(&sem_full)
InsertPost(p) ==
    /\ pci[p] = "post"
    /\ sem_full' = sem_full + 1
    /\ pci' = [pci EXCEPT ![p] = "idle"]
    /\ UNCHANGED <<queue, first_index, last_index, sem_empty, nb_thr_waiting,
                   status_sum, submitted, pcg, handed>>

\* Queue_Get: announce an idle thread
GetAnnounce(c) ==
    /\ pcg[c] = "idle"
    /\ nb_thr_waiting' = nb_thr_waiting + 1
    /\ pcg' = [pcg EXCEPT ![c] = "wait"]
    /\ UNCHANGED <<queue, first_index, last_index, sem_empty, sem_full,
                   status_sum, submitted, pci, handed>>

\* Queue_Get: sem_wait_safe(&sem_full)
GetWait(c) ==
    /\ pcg[c] = "wait"
    /\ sem_full > 0
    /\ sem_full' = sem_full - 1
    /\ pcg' = [pcg EXCEPT ![c] = "get"]
    /\ UNCHANGED <<queue, first_index, last_index, sem_empty, nb_thr_waiting,
                   status_sum, submitted, pci, handed>>

\* Fault: Queue_Get advances the index before it reads the place.
GetNextPlace(c) ==
    /\ pcg[c] = "get"
    /\ nb_thr_waiting' = nb_thr_waiting - 1
    /\ IF is_empty
       THEN /\ pcg' = [pcg EXCEPT ![c] = "error"]
            /\ UNCHANGED <<first_index, handed>>
       ELSE /\ first_index' = (first_index + 1) % array_size
            /\ handed' = [handed EXCEPT ![c] = queue[first_index']]
            /\ pcg' = [pcg EXCEPT ![c] = "post"]
    /\ UNCHANGED <<queue, last_index, sem_empty, sem_full, status_sum,
                   submitted, pci>>

\* Queue_Get: the critical section; an empty array is the unexpected error
GetLocked(c) ==
    /\ pcg[c] = "get"
    /\ nb_thr_waiting' = nb_thr_waiting - 1
    /\ IF is_empty
       THEN /\ pcg' = [pcg EXCEPT ![c] = "error"]
            /\ UNCHANGED <<first_index, handed>>
       ELSE /\ handed' = [handed EXCEPT ![c] = queue[first_index]]
            /\ first_index' = (first_index + 1) % array_size
            /\ pcg' = [pcg EXCEPT ![c] = "post"]
    /\ UNCHANGED <<queue, last_index, sem_empty, sem_full, status_sum,
                   submitted, pci>>

\* Fault: Queue_Get does not give the place back.
GetKeepPlace(c) ==
    /\ pcg[c] = "post"
    /\ pcg' = [pcg EXCEPT ![c] = "work"]
    /\ UNCHANGED <<queue, first_index, last_index, sem_empty, sem_full,
                   nb_thr_waiting, status_sum, submitted, pci, handed>>

\* Queue_Get: sem_post_safe(&sem_empty)
GetPost(c) ==
    /\ pcg[c] = "post"
    /\ sem_empty' = sem_empty + 1
    /\ pcg' = [pcg EXCEPT ![c] = "work"]
    /\ UNCHANGED <<queue, first_index, last_index, sem_full, nb_thr_waiting,
                   status_sum, submitted, pci, handed>>

\* Fault: an acknowledgement is not counted.
AcknowledgeUncounted(c) ==
    /\ pcg[c] = "work"
    /\ handed' = [handed EXCEPT ![c] = NoEntry]
    /\ pcg' = [pcg EXCEPT ![c] = "idle"]
    /\ UNCHANGED <<queue, first_index, last_index, sem_empty, sem_full,
                   nb_thr_waiting, status_sum, submitted, pci>>

\* Queue_Acknowledge, once the entry has been handled
Acknowledge(c) ==
    /\ pcg[c] = "work"
    /\ status_sum' = (status_sum + 1) % UIntMod
    /\ handed' = [handed EXCEPT ![c] = NoEntry]
    /\ pcg' = [pcg EXCEPT ![c] = "idle"]
    /\ UNCHANGED <<queue, first_index, last_index, sem_empty, sem_full,
                   nb_thr_waiting, submitted, pci>>

Next ==
    \/ \E p \in Inserters :
          \/ InsertWait(p)
          \/ \E e \in Entries : InsertLocked(p, e)
          \/ InsertPost(p)
    \/ \E c \in Getters :
          GetAnnounce(c) \/ GetWait(c) \/ GetLocked(c) \/ GetPost(c)
          \/ Acknowledge(c)

Spec == Init /\ [][Next]_vars

\* Threads are never stopped inside a call; a worker always finishes its
\* entry and asks for the next one.  Inserters may stop inserting.
Fairness ==
    /\ \A p \in Inserters :
          /\ WF_vars(\E e \in Entries : InsertLocked(p, e))
          /\ WF_vars(InsertPost(p))
    /\ \A c \in Getters :
          WF_vars(GetAnnounce(c) \/ GetWait(c) \/ GetLocked(c) \/ GetPost(c)
                  \/ Acknowledge(c))

FairSpec == Spec /\ Fairness

-----------------------------------------------------------------------------
\* Each variable has its type: the indexes stay inside the allocated array.
TypeOK ==
    /\ queue \in [Index -> Entries \cup {NoEntry}]
    /\ first_index \in Index
    /\ last_index \in Index
    /\ sem_empty \in Nat
    /\ sem_full \in Nat
    /\ nb_thr_waiting \in Int
    /\ status_sum \in 0..(UIntMod - 1)
    /\ submitted \in 0..(UIntMod - 1)
    /\ pci \in [Inserters -> {"idle", "insert", "post", "error"}]
    /\ pcg \in [Getters -> {"idle", "wait", "get", "post", "work", "error"}]
    /\ handed \in [Getters -> Entries \cup {NoEntry}]

ThreadsAt(T, pc, l) == {t \in T : pc[t] = l}
InsertersAt(l) == ThreadsAt(Inserters, pci, l)
GettersAt(l) == ThreadsAt(Getters, pcg, l)

\* The number of entries between the two indexes of the cyclic array.
Count == IF last_index >= first_index
         THEN last_index - first_index
         ELSE last_index - first_index + array_size

\* The entries of the array, oldest first.
Content == [i \in 1..Count |-> queue[(first_index + i - 1) % array_size]]

\* Every place of the array is accounted for once: free (sem_empty), taken
\* by an inserter that has not written yet, filled, or emptied by a getter
\* that has not posted yet.
FreePlaces ==
    sem_empty + Cardinality(InsertersAt("insert")) + Count
        + Cardinality(GettersAt("post")) = QueueSize

\* Every filled place is announced once: in sem_full, claimed by a getter
\* that has not read yet, or written by an inserter that has not posted yet.
FilledPlaces ==
    sem_full + Cardinality(GettersAt("get"))
        + Cardinality(InsertersAt("post")) = Count

\* The two semaphores always tell the truth about the array.
PlacesExact == FreePlaces /\ FilledPlaces

\* The two errors of queue.c logged as UNEXPECTED ERROR ("queue should not
\* be full!", "queue should not be empty!") never happen, whatever the
\* interleaving of the semaphores with the critical sections.
NoUnexpectedError ==
    /\ \A p \in Inserters : pci[p] # "error"
    /\ \A c \in Getters : pcg[c] # "error"

\* What wait_queue_empty computes (entries submitted minus acknowledgements,
\* in unsigned arithmetic) is the number of entries that are still queued or
\* in the hands of a worker.
InFlightExact ==
    (submitted - status_sum) % UIntMod
        = Count + Cardinality(GettersAt("post")) + Cardinality(GettersAt("work"))

\* Place i of the array holds an entry that no worker has been given yet.
Pending(i) == \E k \in 0..(Count - 1) : i = (first_index + k) % array_size

\* Every entry written to the array is eventually handed to a worker: no
\* post of a semaphore is lost and no entry is overtaken for ever.
EveryEntryServed == \A i \in Index : Pending(i) ~> ~Pending(i)

-----------------------------------------------------------------------------
Fifo == INSTANCE BoundedFifo
            WITH Capacity <- QueueSize, content <- Content, held <- handed

\* The cyclic array with its two semaphores implements a bounded FIFO
\* channel: entries are handed out in the order of their insertion, each to
\* one worker.
FifoSpec == Fifo!Spec
=============================================================================
