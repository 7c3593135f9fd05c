--------------------------- MODULE DispatchProofs ---------------------------
(***************************************************************************)
(* Theorems about Dispatch, for every set of uuids, every number of        *)
(* workers and every batch size: the mutexes exclude, dispatch never meets *)
(* a buffer in PROCESSING, and an update is in one place.                  *)
(***************************************************************************)
EXTENDS Dispatch, FiniteSetTheorems, TLAPS

-----------------------------------------------------------------------------
(* Greatest elements and versions                                          *)

(* A finite set of numbers has a greatest one: remove any other number, and *)
(* a smaller set has.                                                      *)
LEMMA Greatest ==
  ASSUME NEW F \in SUBSET Nat, IsFiniteSet(F), F # {}
  PROVE  Max(F) \in F /\ \A y \in F : Max(F) >= y
<1> DEFINE Without == {G \in FiniteSubsetsOf(Nat) : G # {} /\ ~ \E x \in G : \A y \in G : x >= y}
<1>1. Without = {}
  <2> SUFFICES ASSUME Without # {} PROVE FALSE
    OBVIOUS
  <2>1. PICK G \in Without : \A H \in Without : <<H, G>> \notin StrictSubsetOrdering(Nat)
    <3> HIDE DEF Without
    <3>1. Without \subseteq FiniteSubsetsOf(Nat)
      BY DEF Without
    <3>2. QED
      BY <3>1, FS_StrictSubsetOrderingWellFounded, WFMin
  <2>2. PICK x \in G : TRUE
    OBVIOUS
  <2>3. IsFiniteSet(G \ {x}) /\ G \in SUBSET Nat
    BY FS_RemoveElement DEF FiniteSubsetsOf
  <2>4. G \ {x} \notin Without
    BY <2>1, <2>2, <2>3 DEF StrictSubsetOrdering
  <2>5. CASE G \ {x} = {}
    BY <2>2, <2>3, <2>5
  <2>6. CASE G \ {x} # {}
    <3>1. PICK m \in G \ {x} : \A y \in G \ {x} : m >= y
      BY <2>3, <2>4, <2>6 DEF FiniteSubsetsOf
    <3>2. \A y \in G : (IF m >= x THEN m ELSE x) >= y
      BY <2>3, <3>1
    <3>3. QED
      BY <2>2, <3>1, <3>2
  <2>7. QED
    BY <2>5, <2>6
<1>2. \E x \in F : \A y \in F : x >= y
  BY <1>1 DEF FiniteSubsetsOf
<1>3. QED
  BY <1>2 DEF Max

LEMMA UpdatesType ==
  ASSUME TypeOK
  PROVE  Updates \in Nat /\ \A u \in UUID : Updates >= posted[u]
<1> DEFINE numbers == {posted[u] : u \in UUID}
<1>1. IsFiniteSet(numbers)
  <2>1. posted \in Surjection(UUID, numbers)
    BY DEF Surjection, TypeOK
  <2>2. QED
    BY <2>1, UUIDAssumption, FS_Surjection
<1>2. IsFiniteSet(numbers \cup {0}) /\ numbers \cup {0} \in SUBSET Nat
  <2>1. \A u \in UUID : posted[u] \in Nat
    BY DEF TypeOK
  <2>2. numbers \in SUBSET Nat
    BY <2>1
  <2> HIDE DEF numbers
  <2>3. IsFiniteSet(numbers \cup {0})
    BY <1>1, FS_AddElement
  <2>4. QED
    BY <2>2, <2>3
<1>3. Max(numbers \cup {0}) \in numbers \cup {0} /\ \A y \in numbers \cup {0} : Max(numbers \cup {0}) >= y
  BY <1>2, Greatest
<1>4. Updates = Max(numbers \cup {0})
  BY DEF Updates
<1>5. \A u \in UUID : posted[u] \in numbers \cup {0}
  OBVIOUS
<1> HIDE DEF numbers
<1>6. QED
  BY <1>2, <1>3, <1>4, <1>5

(* What Swap makes of the greatest number sent.                            *)
LEMMA SentType ==
  ASSUME NEW n \in Nat, NEW row \in Nat \cup {NoRow}
  PROVE  Max({n} \cup ({row} \ {NoRow})) = IF row # NoRow /\ row > n THEN row ELSE n
<1> DEFINE S == {n} \cup ({row} \ {NoRow})
<1>1. S = IF row = NoRow THEN {n} ELSE {n, row}
  OBVIOUS
<1>2. IsFiniteSet(S) /\ S \in SUBSET Nat /\ S # {}
  <2>1. IsFiniteSet({n}) /\ IsFiniteSet({n} \cup {row})
    BY FS_Singleton, FS_AddElement
  <2>2. S \subseteq {n} \cup {row} /\ S # {}
    OBVIOUS
  <2>3. IsFiniteSet(S)
    BY <2>1, <2>2, FS_Subset
  <2>4. QED
    BY <2>2, <2>3
<1>3. Max(S) \in S /\ \A y \in S : Max(S) >= y
  BY <1>2, Greatest
<1>4. CASE row = NoRow
  BY <1>1, <1>3, <1>4
<1>5. CASE row # NoRow
  <2>1. row \in Nat /\ S = {n, row}
    BY <1>1, <1>5
  <2>2. QED
    BY <1>3, <1>5, <2>1
<1>6. QED
  BY <1>4, <1>5

LEMMA Labels == \A l : Bucket(l) \in Label /\ After(l) \in Label
BY DEF Bucket, After, Label

LEMMA VersionTypes ==
  /\ EmptyMap \in Versions
  /\ \A m \in Versions : \A S : Only(m, S) \in Versions
  /\ \A m \in Versions : BatchOf(m) \in Versions
BY DEF EmptyMap, Versions, Only, BatchOf

-----------------------------------------------------------------------------
(* Types                                                                   *)

LEMMA InitType == Init => TypeOK
<1> SUFFICES ASSUME Init PROVE TypeOK
  OBVIOUS
<1>1. owner \in [Mutex -> Threads \cup {Nobody}] /\ pc \in [Threads -> Steps]
  BY ThreadAssumption DEF Init, Threads, Crons, Workers, Steps
<1>2. buf \in [Label -> [state : {"EMPTY", "PROCESSING", "READY"}, rows : Versions,
                         reqNewJn : BOOLEAN]]
  BY VersionTypes DEF Init
<1>3. QED
  BY <1>1, <1>2, VersionTypes DEF Init, TypeOK, Label

LEMMA LockType ==
  ASSUME TypeOK, NEW t \in Threads, NEW m \in Mutex, NEW step \in Steps, Lock(t, m, step)
  PROVE  TypeOK'
BY DEF TypeOK, Lock, Goto, buffers, journals, responses

LEMMA UnlockType ==
  ASSUME TypeOK, NEW t, NEW ms, Unlock(t, ms)
  PROVE  owner' \in [Mutex -> Threads \cup {Nobody}]
BY DEF TypeOK, Unlock

LEMMA LockAllType ==
  ASSUME TypeOK, NEW t \in Threads, NEW step \in Steps, LockAll(t, step)
  PROVE  TypeOK'
<1>1. {"DP", "DISK", "FEED"} \subseteq Mutex \cap Steps
  BY DEF Mutex, Steps
<1>2. QED
  BY <1>1, LockType DEF LockAll

LEMMA LockJournalType ==
  ASSUME TypeOK, NEW t \in Threads, NEW step \in Steps, LockJournal(t, step)
  PROVE  TypeOK'
<1>1. {"PENDING", "JOR"} \subseteq Mutex \cap Steps
  BY DEF Mutex, Steps
<1>2. QED
  BY <1>1, LockType DEF LockJournal

LEMMA UnlockAllType ==
  ASSUME TypeOK, NEW t \in Threads, UnlockAll(t)
  PROVE  TypeOK'
<1>1. owner' \in [Mutex -> Threads \cup {Nobody}]
  BY UnlockType DEF UnlockAll
<1>2. pc' \in [Threads -> Steps]
  BY DEF TypeOK, UnlockAll, Goto, Steps
<1>3. QED
  BY <1>1, <1>2 DEF TypeOK, UnlockAll, buffers, journals, responses

LEMMA RecruitType ==
  ASSUME TypeOK, NEW t \in Threads, NEW b \in Label, NEW final \in {"EMPTY", "READY"},
         NEW step \in Steps, Recruit(t, b, final), Goto(t, step)
  PROVE  TypeOK'
<1>1. owner' \in [Mutex -> Threads \cup {Nobody}]
  BY UnlockType DEF Recruit
<1>2. pc' \in [Threads -> Steps]
  BY DEF TypeOK, Goto
<1>3. journal' \in Versions /\ BatchOf(journal) \in Versions
  BY VersionTypes DEF TypeOK, Recruit
<1>4. buf' \in [Label -> [state : {"EMPTY", "PROCESSING", "READY"}, rows : Versions,
                          reqNewJn : BOOLEAN]]
  BY <1>3 DEF TypeOK, Recruit
<1>5. QED
  BY <1>1, <1>2, <1>3, <1>4 DEF TypeOK, Recruit, responses

LEMMA SwapType ==
  ASSUME TypeOK, NEW g \in Getters, Swap(g)
  PROVE  TypeOK'
<1> DEFINE b == Bucket(bucket[g])
<1>1. b \in Label
  BY Labels
<1>2. owner' \in [Mutex -> Threads \cup {Nobody}]
  BY UnlockType DEF Swap
<1>3. pc' \in [Threads -> Steps]
  BY DEF TypeOK, Goto, Swap, Steps
<1>4. reply' \in Versions
  BY <1>1 DEF Swap, TypeOK
<1>5. \A u \in UUID : Max({delivered[u]} \cup ({reply'[u]} \ {NoRow})) \in Nat
  <2> SUFFICES ASSUME NEW u \in UUID
               PROVE  Max({delivered[u]} \cup ({reply'[u]} \ {NoRow})) \in Nat
    OBVIOUS
  <2>1. delivered[u] \in Nat /\ reply'[u] \in Nat \cup {NoRow}
    BY <1>4 DEF TypeOK, Versions
  <2>2. QED
    BY <2>1, SentType
<1>6. delivered' \in [UUID -> Nat]
  BY <1>5 DEF Swap
<1>7. buf' \in [Label -> [state : {"EMPTY", "PROCESSING", "READY"}, rows : Versions,
                          reqNewJn : BOOLEAN]]
  BY <1>1, VersionTypes DEF Swap, TypeOK
<1>8. QED
  BY <1>2, <1>3, <1>4, <1>6, <1>7 DEF TypeOK, Swap, journals

LEMMA GetterType ==
  ASSUME TypeOK, NEW g \in Getters, Get(g) \/ Getter(g)
  PROVE  TypeOK'
<1>1. g \in Threads /\ g \in Getters \cup {RunAhead}
  BY DEF Threads, Workers
<1>2. {"DP", "next", "look", "recruit", "swap", "turn", "unlock", "PENDING"} \cup Label \subseteq Steps
  BY DEF Steps, Mutex
<1>3. CASE Get(g)
  BY <1>1, <1>2, <1>3 DEF TypeOK, Get, Goto, buffers, journals, responses
<1>4. CASE LockAll(g, "next")
  BY <1>1, <1>2, <1>4, LockAllType
<1>5. CASE ChooseBuffer(g)
  BY <1>1, <1>2, <1>5, Labels DEF TypeOK, ChooseBuffer, Goto, journals, responses
<1>6. CASE \E b \in Label : Lock(g, b, "look")
  BY <1>1, <1>2, <1>6, LockType DEF Mutex
<1>7. CASE LookAtBuffer(g)
  <2>1. owner' \in [Mutex -> Threads \cup {Nobody}]
    BY <1>7, UnlockType DEF LookAtBuffer
  <2>2. Bucket(bucket[g]) \in Label /\ buf[Bucket(bucket[g])].state \in {"EMPTY", "PROCESSING", "READY"}
    BY Labels DEF TypeOK
  <2>3. pc' \in [Threads -> Steps]
    BY <1>1, <1>2, <1>7, <2>2 DEF TypeOK, LookAtBuffer, Goto
  <2>4. QED
    BY <1>7, <2>1, <2>3 DEF TypeOK, LookAtBuffer, buffers, journals, responses
<1>8. CASE LockJournal(g, "recruit")
  BY <1>1, <1>2, <1>8, LockJournalType
<1>9. CASE RecruitNow(g)
  BY <1>1, <1>2, <1>9, RecruitType, Labels DEF RecruitNow
<1>10. CASE Swap(g)
  BY <1>10, SwapType
<1>11. CASE Turn(g)
  BY <1>1, <1>2, <1>11, Labels DEF TypeOK, Turn, Goto, journals, responses
<1>12. CASE UnlockAll(g)
  BY <1>1, <1>12, UnlockAllType
<1>13. QED
  BY <1>3, <1>4, <1>5, <1>6, <1>7, <1>8, <1>9, <1>10, <1>11, <1>12 DEF Getter

LEMMA WriterType ==
  ASSUME TypeOK, NEW w \in Writers, Write(w) \/ Writer(w)
  PROVE  TypeOK'
<1>1. w \in Threads /\ FeedCron \in Threads /\ JorCron \in Threads
  BY DEF Threads, Workers, Crons
<1>2. {"DP", "FEED", "JOR", "integrity", "update", "unlock", "PENDING"} \subseteq Steps
  BY DEF Steps, Mutex
<1>3. CASE Write(w)
  BY <1>1, <1>2, <1>3 DEF TypeOK, Write, Goto, buffers, journals, responses
<1>4. CASE LockAll(w, "integrity")
  BY <1>1, <1>2, <1>4, LockAllType
<1>5. CASE Integrity(w)
  <2>1. pc' \in [Threads -> Steps]
    BY <1>1, <1>2, <1>5 DEF TypeOK, Integrity, Goto
  <2>2. QED
    BY <1>5, <2>1 DEF TypeOK, Integrity, buffers, journals, responses
<1>6. CASE LockJournal(w, "update")
  BY <1>1, <1>2, <1>6, LockJournalType
<1>7. CASE \E u \in UUID : Update(w, u)
  <2>1. PICK u \in UUID : Update(w, u)
    BY <1>7
  <2>2. owner' \in [Mutex -> Threads \cup {Nobody}]
    BY <2>1, UnlockType DEF Update
  <2>3. pc' \in [Threads -> Steps]
    BY <1>1, <1>2, <2>1 DEF TypeOK, Update
  <2>4. posted' \in [UUID -> Nat] /\ journal' \in Versions
    BY <2>1, UpdatesType DEF TypeOK, Update, Versions
  <2>5. QED
    BY <2>1, <2>2, <2>3, <2>4 DEF TypeOK, Update, buffers, responses
<1>8. CASE UnlockAll(w)
  BY <1>1, <1>8, UnlockAllType
<1>9. QED
  BY <1>3, <1>4, <1>5, <1>6, <1>7, <1>8 DEF Writer

LEMMA AheadType ==
  ASSUME TypeOK, Ahead
  PROVE  TypeOK'
<1>1. RunAhead \in Threads /\ RunAhead \in Getters \cup {RunAhead}
  BY DEF Threads
<1>2. {"DP", "look", "recruit", "finish", "asleep", "PENDING"} \cup Label \subseteq Steps
  BY DEF Steps, Mutex
<1>3. Bucket(bucket[RunAhead]) \in Label
  BY Labels
<1>4. CASE Wake
  BY <1>1, <1>2, <1>4 DEF TypeOK, Wake, Goto, journals, responses
<1>5. CASE LockAll(RunAhead, Bucket(bucket[RunAhead]))
  BY <1>1, <1>2, <1>3, <1>5, LockAllType
<1>6. CASE \E b \in Label : Lock(RunAhead, b, "look")
  BY <1>1, <1>2, <1>6, LockType DEF Mutex
<1>7. CASE StartProcessing
  <2>1. pc' \in [Threads -> Steps]
    BY <1>1, <1>2, <1>7 DEF TypeOK, StartProcessing, Goto
  <2>2. buf' \in [Label -> [state : {"EMPTY", "PROCESSING", "READY"}, rows : Versions,
                            reqNewJn : BOOLEAN]]
    BY <1>3, <1>7 DEF TypeOK, StartProcessing
  <2>3. QED
    BY <1>7, <2>1, <2>2 DEF TypeOK, StartProcessing, journals, responses
<1>8. CASE LockJournal(RunAhead, "recruit")
  BY <1>1, <1>2, <1>8, LockJournalType
<1>9. CASE RecruitAhead
  BY <1>1, <1>2, <1>3, <1>9, RecruitType DEF RecruitAhead
<1>10. CASE Finish
  <2>1. owner' \in [Mutex -> Threads \cup {Nobody}]
    BY <1>10, UnlockType DEF Finish
  <2>2. pc' \in [Threads -> Steps]
    BY <1>1, <1>2, <1>10 DEF TypeOK, Finish, Goto
  <2>3. QED
    BY <1>10, <2>1, <2>2 DEF TypeOK, Finish, buffers, journals, responses
<1>11. QED
  BY <1>4, <1>5, <1>6, <1>7, <1>8, <1>9, <1>10 DEF Ahead

LEMMA CronType ==
  ASSUME TypeOK, NEW t \in Crons, NEW m \in {"FEED", "JOR"}, Cron(t, m)
  PROVE  TypeOK'
<1>1. t \in Threads /\ m \in Mutex /\ {"flush", "off"} \subseteq Steps
  BY DEF Threads, Mutex, Steps
<1>2. CASE Lock(t, m, "flush")
  BY <1>1, <1>2, LockType
<1>3. CASE Flush(t, m)
  <2>1. owner' \in [Mutex -> Threads \cup {Nobody}]
    BY <1>3, UnlockType DEF Flush
  <2>2. pc' \in [Threads -> Steps]
    BY <1>1, <1>3 DEF TypeOK, Flush, Goto
  <2>3. QED
    BY <1>3, <2>1, <2>2 DEF TypeOK, Flush, buffers, journals, responses
<1>4. QED
  BY <1>2, <1>3 DEF Cron

LEMMA StepType == TypeOK /\ [Next]_vars => TypeOK'
<1> SUFFICES ASSUME TypeOK, [Next]_vars PROVE TypeOK'
  OBVIOUS
<1>1. CASE \E g \in Getters : Get(g) \/ Getter(g)
  BY <1>1, GetterType
<1>2. CASE \E w \in Writers : Write(w) \/ Writer(w)
  BY <1>2, WriterType
<1>3. CASE Ahead
  BY <1>3, AheadType
<1>4. CASE Cron(FeedCron, "FEED") \/ Cron(JorCron, "JOR")
  BY <1>4, CronType DEF Crons
<1>5. CASE UNCHANGED vars
  BY <1>5 DEF TypeOK, vars, buffers, journals, responses
<1>6. QED
  BY <1>1, <1>2, <1>3, <1>4, <1>5 DEF Next

(* However the threads interleave, every variable keeps its type.          *)
THEOREM TypeCorrect == Spec => []TypeOK
BY InitType, StepType, PTL DEF Spec

-----------------------------------------------------------------------------
(* Who holds what                                                          *)

Streams  == Getters \cup {RunAhead}
Handlers == Workers \cup {RunAhead}
Outside  == {"idle", "asleep", "DP"}            \* a handler before lockAll
Filling  == {"PENDING", "JOR", "recruit"}

GetterSteps == {"idle", "DP", "DISK", "FEED", "next", "A", "B", "look",
                "PENDING", "JOR", "recruit", "swap", "turn", "unlock"}
WriterSteps == {"idle", "DP", "DISK", "FEED", "integrity", "PENDING", "JOR", "update", "unlock"}
AheadSteps  == {"asleep", "DP", "DISK", "FEED", "A", "B", "look",
                "PENDING", "JOR", "recruit", "finish"}

(* Each thread keeps to the steps of its code.                             *)
StepsOK ==
  /\ \A g \in Getters : pc[g] \in GetterSteps
  /\ \A w \in Writers : pc[w] \in WriterSteps
  /\ pc[RunAhead] \in AheadSteps
  /\ pc[FeedCron] \in {"off", "FEED", "flush"}
  /\ pc[JorCron] \in {"off", "JOR", "flush"}

(* The mutexes thread t has at its step.                                   *)
Holds(t, m) ==
  \/ t = FeedCron /\ m = "FEED" /\ pc[t] = "flush"
  \/ t = JorCron /\ m = "JOR" /\ pc[t] = "flush"
  \/ /\ t \in Handlers
     /\ \/ m = "DP" /\ pc[t] \notin Outside
        \/ m = "DISK" /\ pc[t] \notin Outside \cup {"DISK"}
        \/ m = "FEED" /\ pc[t] \notin Outside \cup {"DISK", "FEED"}
        \/ m = "PENDING" /\ pc[t] \in {"JOR", "recruit", "update"}
        \/ m = "JOR" /\ pc[t] \in {"recruit", "update"}
        \/ /\ t \in Streams /\ m \in Label /\ m = Bucket(bucket[t])
           /\ pc[t] \in Filling \cup {"look", "swap", "finish"}

HeldOK == \A t \in Threads, m \in Mutex : owner[m] = t <=> Holds(t, m)

(* A thread waits for the buffer it has chosen.                            *)
ChosenOK == \A t \in Streams : pc[t] \in Label => pc[t] = Bucket(bucket[t])

(* A buffer is in PROCESSING while runAhead fills it, is EMPTY where a GET *)
(* fills it, and rows that are not READY are about to be swapped out.      *)
StatesOK ==
  /\ \A b \in Label : buf[b].state = "PROCESSING" <=>
                        pc[RunAhead] \in Filling /\ b = Bucket(bucket[RunAhead])
  /\ \A g \in Getters : pc[g] \in Filling => buf[Bucket(bucket[g])].state = "EMPTY"
  /\ \A b \in Label : buf[b].rows # EmptyMap /\ buf[b].state # "READY" =>
                        \E g \in Getters : pc[g] = "swap" /\ b = Bucket(bucket[g])

LocksInv == TypeOK /\ StepsOK /\ HeldOK /\ ChosenOK /\ StatesOK

LEMMA Classes ==
  /\ \A g \in Getters : g \in Streams /\ g \in Handlers /\ g \in Threads /\ g \notin Writers
  /\ \A w \in Writers : w \notin Streams /\ w \in Handlers /\ w \in Threads /\ w \notin Getters
  /\ RunAhead \in Streams /\ RunAhead \in Handlers /\ RunAhead \in Threads
  /\ RunAhead \notin Getters /\ RunAhead \notin Writers
  /\ FeedCron \in Threads /\ FeedCron \notin Handlers /\ FeedCron # JorCron
  /\ JorCron \in Threads /\ JorCron \notin Handlers
  /\ \A t \in Streams : t \in Handlers /\ t \in Threads
  /\ \A t \in Handlers : t \in Threads
  /\ \A t \in Threads : t \in Handlers \/ t = FeedCron \/ t = JorCron
  /\ Nobody \notin Threads
BY ThreadAssumption DEF Streams, Handlers, Threads, Workers, Crons

(* Only one handler is past the mutex of the data pool.                    *)
LEMMA Alone ==
  ASSUME HeldOK, NEW t \in Handlers, NEW o \in Handlers, pc[t] \notin Outside, pc[o] \notin Outside
  PROVE  t = o
<1>1. Holds(t, "DP") /\ Holds(o, "DP")
  BY DEF Holds
<1>2. QED
  BY <1>1, Classes DEF HeldOK, Mutex

-----------------------------------------------------------------------------
(* Steps and choices                                                       *)

LEMMA StepsInit == Init => StepsOK /\ ChosenOK
BY Classes, ThreadAssumption DEF Init, StepsOK, ChosenOK, Label, GetterSteps, WriterSteps, AheadSteps,
   Threads, Workers, Crons, Streams, Handlers

(* One thread moves on.                                                    *)
LEMMA OneMoves ==
  ASSUME TypeOK, StepsOK, NEW t \in Threads, NEW step, Goto(t, step),
         t \in Getters => step \in GetterSteps,
         t \in Writers => step \in WriterSteps,
         t = RunAhead => step \in AheadSteps,
         t = FeedCron => step \in {"off", "FEED", "flush"},
         t = JorCron => step \in {"off", "JOR", "flush"}
  PROVE  StepsOK'
BY Classes DEF TypeOK, StepsOK, Goto

LEMMA GetterSteps1 ==
  ASSUME TypeOK, StepsOK, NEW g \in Getters, Get(g) \/ Getter(g)
  PROVE  StepsOK'
<1>1. PICK step \in GetterSteps : Goto(g, step)
  <2>1. CASE \E b \in Label : Lock(g, b, "look")
    BY <2>1 DEF Lock, GetterSteps
  <2>2. CASE ChooseBuffer(g)
    BY <2>2, Labels DEF ChooseBuffer, GetterSteps, Label
  <2>3. CASE LookAtBuffer(g)
    <3>1. Bucket(bucket[g]) \in Label /\ buf[Bucket(bucket[g])].state \in {"EMPTY", "PROCESSING", "READY"}
      BY Labels DEF TypeOK
    <3>2. QED
      BY <2>3, <3>1 DEF LookAtBuffer, GetterSteps, Label
  <2>4. QED
    BY <2>1, <2>2, <2>3 DEF Get, Getter, LockAll, LockJournal, Lock, RecruitNow, Swap, Turn, UnlockAll,
       GetterSteps
<1>2. QED
  BY <1>1, OneMoves, Classes

LEMMA WriterSteps1 ==
  ASSUME TypeOK, StepsOK, NEW w \in Writers, Write(w) \/ Writer(w)
  PROVE  StepsOK'
<1>1. CASE Integrity(w) \/ \E u \in UUID : Update(w, u)
  BY <1>1, Classes DEF Integrity, Update, Goto, TypeOK, StepsOK, WriterSteps, Cleaning
<1>2. CASE ~(Integrity(w) \/ \E u \in UUID : Update(w, u))
  <2>1. PICK step \in WriterSteps : Goto(w, step)
    BY <1>2 DEF Write, Writer, LockAll, LockJournal, Lock, UnlockAll, WriterSteps
  <2>2. QED
    BY <2>1, OneMoves, Classes
<1>3. QED
  BY <1>1, <1>2

LEMMA AheadSteps1 ==
  ASSUME TypeOK, StepsOK, Ahead
  PROVE  StepsOK'
<1>1. Bucket(bucket[RunAhead]) \in AheadSteps
  BY Labels DEF Label, AheadSteps
<1>2. PICK step \in AheadSteps : Goto(RunAhead, step)
  BY <1>1 DEF Ahead, Wake, LockAll, Lock, StartProcessing, LockJournal, RecruitAhead, Finish, AheadSteps
<1>3. QED
  BY <1>2, OneMoves, Classes

LEMMA CronSteps1 ==
  ASSUME TypeOK, StepsOK, Cron(FeedCron, "FEED") \/ Cron(JorCron, "JOR")
  PROVE  StepsOK'
BY Classes DEF TypeOK, StepsOK, Cron, Lock, Flush, Goto

(* What a thread has chosen changes with its step alone.                   *)
LEMMA ChosenStep ==
  ASSUME TypeOK, StepsOK, ChosenOK, Next
  PROVE  ChosenOK'
<1>1. CASE \E g \in Getters : Get(g) \/ Getter(g)
  <2>1. PICK g \in Getters : Get(g) \/ Getter(g)
    BY <1>1
  <2>2. CASE ChooseBuffer(g)
    BY <2>1, <2>2, Classes DEF ChooseBuffer, Goto, ChosenOK, TypeOK, Streams
  <2>3. CASE LookAtBuffer(g)
    BY <2>1, <2>3, Classes, Labels DEF LookAtBuffer, Goto, ChosenOK, TypeOK, Streams, buffers, Label
  <2>4. CASE ~ChooseBuffer(g) /\ ~LookAtBuffer(g)
    BY <2>1, <2>4, Classes DEF Get, Getter, LockAll, LockJournal, Lock, RecruitNow, Recruit, Swap, Turn,
       UnlockAll, Goto, ChosenOK, TypeOK, Streams, buffers, Label
  <2>5. QED
    BY <2>2, <2>3, <2>4
<1>2. CASE \E w \in Writers : Write(w) \/ Writer(w)
  BY <1>2, Classes DEF Write, Writer, LockAll, LockJournal, Lock, Integrity, Update, UnlockAll, Goto,
     ChosenOK, TypeOK, Streams, buffers
<1>3. CASE Ahead
  <2>1. CASE Wake
    BY <2>1, Classes DEF Wake, Goto, ChosenOK, TypeOK, Streams, Label
  <2>2. CASE ~Wake
    BY <1>3, <2>2, Classes DEF Ahead, LockAll, Lock, StartProcessing, LockJournal, RecruitAhead, Recruit,
       Finish, Goto, ChosenOK, TypeOK, Streams, buffers, Label
  <2>3. QED
    BY <2>1, <2>2
<1>4. CASE Cron(FeedCron, "FEED") \/ Cron(JorCron, "JOR")
  BY <1>4, Classes DEF Cron, Lock, Flush, Goto, ChosenOK, TypeOK, Streams, buffers
<1>5. QED
  BY <1>1, <1>2, <1>3, <1>4 DEF Next

-----------------------------------------------------------------------------
(* Every thread holds the mutexes of its step                              *)

(* A step of t leaves what other threads hold.                             *)
LEMMA OthersHold ==
  ASSUME TypeOK, NEW t \in Threads, NEW step, Goto(t, step),
         \A o \in Streams \ {t} : bucket'[o] = bucket[o]
  PROVE  \A o \in Threads \ {t}, n \in Mutex : Holds(o, n)' <=> Holds(o, n)
<1> SUFFICES ASSUME NEW o \in Threads \ {t}, NEW n \in Mutex
             PROVE  Holds(o, n)' <=> Holds(o, n)
  OBVIOUS
<1>1. pc'[o] = pc[o] /\ (o \in Streams => bucket'[o] = bucket[o])
  BY DEF Goto, TypeOK
<1>2. QED
  BY <1>1 DEF Holds

LEMMA HeldAfterLock ==
  ASSUME TypeOK, HeldOK, NEW t \in Threads, NEW m \in Mutex, NEW step, Lock(t, m, step),
         \A n \in Mutex : Holds(t, n)' <=> (Holds(t, n) \/ n = m)
  PROVE  HeldOK'
<1>1. \A o \in Threads \ {t}, n \in Mutex : Holds(o, n)' <=> Holds(o, n)
  BY OthersHold DEF Lock, buffers
<1>2. owner' = [owner EXCEPT ![m] = t] /\ owner[m] = Nobody /\ owner \in [Mutex -> Threads \cup {Nobody}]
  BY DEF Lock, TypeOK
<1>3. SUFFICES ASSUME NEW o \in Threads, NEW n \in Mutex
               PROVE  owner'[n] = o <=> Holds(o, n)'
  BY DEF HeldOK
<1>4. owner[n] = o <=> Holds(o, n)
  BY DEF HeldOK
<1>5. owner[m] # o
  BY <1>2, Classes
<1>6. CASE n = m
  BY <1>1, <1>2, <1>4, <1>5, <1>6
<1>7. CASE n # m
  BY <1>1, <1>2, <1>4, <1>7
<1>8. QED
  BY <1>6, <1>7

LEMMA HeldAfterUnlock ==
  ASSUME TypeOK, HeldOK, NEW t \in Threads, NEW ms, NEW step, Unlock(t, ms), Goto(t, step),
         \A o \in Streams \ {t} : bucket'[o] = bucket[o],
         \A n \in Mutex : Holds(t, n)' <=> (Holds(t, n) /\ n \notin ms)
  PROVE  HeldOK'
<1>1. \A o \in Threads \ {t}, n \in Mutex : Holds(o, n)' <=> Holds(o, n)
  BY OthersHold
<1>2. SUFFICES ASSUME NEW o \in Threads, NEW n \in Mutex
               PROVE  owner'[n] = o <=> Holds(o, n)'
  BY DEF HeldOK
<1>3. owner'[n] = IF n \in ms /\ owner[n] = t THEN Nobody ELSE owner[n]
  BY DEF Unlock
<1>4. owner[n] = o <=> Holds(o, n)
  BY DEF HeldOK
<1>5. CASE o = t
  BY <1>3, <1>4, <1>5, Classes
<1>6. CASE o # t
  BY <1>1, <1>3, <1>4, <1>6, Classes
<1>7. QED
  BY <1>5, <1>6

LEMMA HeldAfterGoto ==
  ASSUME TypeOK, HeldOK, NEW t \in Threads, NEW step, Goto(t, step), UNCHANGED owner,
         \A o \in Streams \ {t} : bucket'[o] = bucket[o],
         \A n \in Mutex : Holds(t, n)' <=> Holds(t, n)
  PROVE  HeldOK'
<1>1. \A o \in Threads \ {t}, n \in Mutex : Holds(o, n)' <=> Holds(o, n)
  BY OthersHold
<1>2. \A o \in Threads, n \in Mutex : Holds(o, n)' <=> Holds(o, n)
  BY <1>1
<1>3. QED
  BY <1>2 DEF HeldOK

LEMMA LockAllHeld ==
  ASSUME TypeOK, HeldOK, NEW t \in Handlers,
         NEW step \in {"next", "integrity"} \cup Label, LockAll(t, step)
  PROVE  HeldOK'
<1>1. t \in Threads /\ t # FeedCron /\ t # JorCron
  BY Classes
<1>2. PICK m \in {"DP", "DISK", "FEED"} :
        Lock(t, m, CASE m = "DP" -> "DISK" [] m = "DISK" -> "FEED" [] m = "FEED" -> step)
  BY DEF LockAll
<1>3. m \in Mutex
  BY DEF Mutex
<1>4. pc[t] = m /\ pc'[t] = (CASE m = "DP" -> "DISK" [] m = "DISK" -> "FEED" [] m = "FEED" -> step)
  BY <1>1, <1>2 DEF Lock, Goto, TypeOK
<1>5. \A n \in Mutex : Holds(t, n)' <=> (Holds(t, n) \/ n = m)
  BY <1>1, <1>4 DEF Holds, Outside, Filling, Label, Mutex
<1>6. QED
  BY <1>1, <1>2, <1>3, <1>5, HeldAfterLock

LEMMA LockJournalHeld ==
  ASSUME TypeOK, HeldOK, NEW t \in Handlers, NEW step \in {"recruit", "update"},
         t \in Streams => step = "recruit", LockJournal(t, step)
  PROVE  HeldOK'
<1>1. t \in Threads /\ t # FeedCron /\ t # JorCron
  BY Classes
<1>2. PICK m \in {"PENDING", "JOR"} : Lock(t, m, IF m = "PENDING" THEN "JOR" ELSE step)
  BY DEF LockJournal
<1>3. m \in Mutex
  BY DEF Mutex
<1>4. pc[t] = m /\ pc'[t] = (IF m = "PENDING" THEN "JOR" ELSE step) /\ bucket' = bucket
  BY <1>1, <1>2 DEF Lock, Goto, TypeOK, buffers
<1>5. \A n \in Mutex : Holds(t, n)' <=> (Holds(t, n) \/ n = m)
  BY <1>1, <1>4 DEF Holds, Outside, Filling, Label, Mutex
<1>6. QED
  BY <1>1, <1>2, <1>3, <1>5, HeldAfterLock

LEMMA LockBufferHeld ==
  ASSUME TypeOK, HeldOK, ChosenOK, NEW t \in Streams, NEW b \in Label, Lock(t, b, "look")
  PROVE  HeldOK'
<1>1. t \in Threads /\ t \in Handlers /\ t # FeedCron /\ t # JorCron /\ b \in Mutex
  BY Classes DEF Mutex
<1>2. pc[t] = b /\ pc'[t] = "look" /\ bucket' = bucket /\ b = Bucket(bucket[t])
  BY <1>1 DEF Lock, Goto, TypeOK, buffers, ChosenOK
<1>3. \A n \in Mutex : Holds(t, n)' <=> (Holds(t, n) \/ n = b)
  BY <1>1, <1>2 DEF Holds, Outside, Filling, Label, Mutex
<1>4. QED
  BY <1>1, <1>3, HeldAfterLock

LEMMA UnlockAllHeld ==
  ASSUME TypeOK, HeldOK, NEW t \in Workers, UnlockAll(t)
  PROVE  HeldOK'
<1>1. t \in Threads /\ t \in Handlers /\ t # FeedCron /\ t # JorCron
  BY Classes DEF Workers
<1>2. pc[t] = "unlock" /\ pc'[t] = "idle" /\ bucket' = bucket
  BY <1>1 DEF UnlockAll, Goto, TypeOK, buffers
<1>3. \A n \in Mutex : Holds(t, n)' <=> (Holds(t, n) /\ n \notin All)
  BY <1>1, <1>2 DEF Holds, Outside, Filling, Label, Mutex, All
<1>4. QED
  BY <1>1, <1>2, <1>3, HeldAfterUnlock DEF UnlockAll

LEMMA RecruitHeld ==
  ASSUME TypeOK, HeldOK, NEW t \in Streams, NEW b, NEW final, NEW step \in {"swap", "finish"},
         pc[t] = "recruit", Recruit(t, b, final), Goto(t, step)
  PROVE  HeldOK'
<1>1. t \in Threads /\ t \in Handlers /\ t # FeedCron /\ t # JorCron
  BY Classes
<1>2. pc'[t] = step /\ bucket' = bucket
  BY <1>1 DEF Recruit, Goto, TypeOK
<1>3. \A n \in Mutex : Holds(t, n)' <=> (Holds(t, n) /\ n \notin {"PENDING", "JOR"})
  BY <1>1, <1>2 DEF Holds, Outside, Filling, Label, Mutex
<1>4. QED
  BY <1>1, <1>2, <1>3, HeldAfterUnlock DEF Recruit

LEMMA GetterHeld ==
  ASSUME TypeOK, HeldOK, ChosenOK, StatesOK, NEW g \in Getters, Get(g) \/ Getter(g)
  PROVE  HeldOK'
<1>1. g \in Threads /\ g \in Handlers /\ g \in Workers /\ g \in Streams /\ g # FeedCron /\ g # JorCron
  BY Classes DEF Workers
<1>2. CASE Get(g)
  <2>1. pc[g] = "idle" /\ pc'[g] = "DP" /\ bucket' = bucket
    BY <1>1, <1>2 DEF Get, Goto, TypeOK, buffers
  <2>2. \A n \in Mutex : Holds(g, n)' <=> Holds(g, n)
    BY <1>1, <2>1 DEF Holds, Outside, Filling
  <2>3. QED
    BY <1>1, <1>2, <2>1, <2>2, HeldAfterGoto DEF Get
<1>3. CASE LockAll(g, "next")
  BY <1>1, <1>3, LockAllHeld
<1>4. CASE ChooseBuffer(g)
  <2>1. pc[g] = "next" /\ pc'[g] \in Label /\ Goto(g, Bucket(nextToStream))
    BY <1>1, <1>4, Labels DEF ChooseBuffer, Goto, TypeOK
  <2>2. \A n \in Mutex : Holds(g, n)' <=> Holds(g, n)
    BY <1>1, <2>1 DEF Holds, Outside, Filling, Label
  <2>3. \A o \in Streams \ {g} : bucket'[o] = bucket[o]
    BY <1>4 DEF ChooseBuffer, TypeOK, Streams
  <2>4. QED
    BY <1>1, <1>4, <2>1, <2>2, <2>3, HeldAfterGoto DEF ChooseBuffer
<1>5. CASE \E b \in Label : Lock(g, b, "look")
  BY <1>1, <1>5, LockBufferHeld
<1>6. CASE LookAtBuffer(g)
  <2> DEFINE b == Bucket(bucket[g])
  <2> DEFINE step == CASE buf[b].state = "EMPTY"      -> "PENDING"
                       [] buf[b].state = "PROCESSING" -> b
                       [] buf[b].state = "READY"      -> "swap"
  <2> DEFINE ms == IF buf[b].state = "PROCESSING" THEN {b} ELSE {}
  <2>1. pc[g] = "look" /\ bucket' = bucket /\ Goto(g, step) /\ Unlock(g, ms)
    BY <1>6 DEF LookAtBuffer, buffers
  <2>2. b \in Label /\ buf[b].state \in {"EMPTY", "PROCESSING", "READY"}
    BY Labels DEF TypeOK
  <2>3. pc'[g] = step
    <3> HIDE DEF step
    <3>1. QED
      BY <1>1, <2>1 DEF Goto, TypeOK
  <2>4. \A n \in Mutex : Holds(g, n)' <=> (Holds(g, n) /\ n \notin ms)
    <3>1. CASE buf[b].state = "PROCESSING"
      BY <1>1, <2>1, <2>2, <2>3, <3>1 DEF Holds, Outside, Filling, Label, Mutex
    <3>2. CASE buf[b].state \in {"EMPTY", "READY"}
      <4>1. pc'[g] \in {"PENDING", "swap"} /\ ms = {}
        BY <2>3, <3>2
      <4>2. QED
        BY <1>1, <2>1, <4>1 DEF Holds, Outside, Filling
    <3>3. QED
      BY <2>2, <3>1, <3>2
  <2>5. QED
    BY <1>1, <2>1, <2>4, HeldAfterUnlock
<1>7. CASE LockJournal(g, "recruit")
  BY <1>1, <1>7, LockJournalHeld
<1>8. CASE RecruitNow(g)
  BY <1>1, <1>8, RecruitHeld DEF RecruitNow
<1>9. CASE Swap(g)
  <2>1. pc[g] = "swap" /\ pc'[g] = "turn" /\ bucket' = bucket
    BY <1>1, <1>9 DEF Swap, Goto, TypeOK
  <2>2. \A n \in Mutex : Holds(g, n)' <=> (Holds(g, n) /\ n \notin {Bucket(bucket[g])})
    BY <1>1, <2>1, Labels DEF Holds, Outside, Filling, Label, Mutex
  <2>3. QED
    BY <1>1, <1>9, <2>1, <2>2, HeldAfterUnlock DEF Swap
<1>10. CASE Turn(g)
  <2>1. pc[g] = "turn" /\ pc'[g] = "unlock" /\ bucket' = bucket
    BY <1>1, <1>10 DEF Turn, Goto, TypeOK
  <2>2. \A n \in Mutex : Holds(g, n)' <=> Holds(g, n)
    BY <1>1, <2>1 DEF Holds, Outside, Filling
  <2>3. QED
    BY <1>1, <1>10, <2>1, <2>2, HeldAfterGoto DEF Turn
<1>11. CASE UnlockAll(g)
  BY <1>1, <1>11, UnlockAllHeld
<1>12. QED
  BY <1>2, <1>3, <1>4, <1>5, <1>6, <1>7, <1>8, <1>9, <1>10, <1>11 DEF Getter

LEMMA WriterHeld ==
  ASSUME TypeOK, StepsOK, HeldOK, NEW w \in Writers, Write(w) \/ Writer(w)
  PROVE  HeldOK'
<1>1. w \in Threads /\ w \in Handlers /\ w \in Workers /\ w \notin Streams /\ w # FeedCron /\ w # JorCron
  BY Classes DEF Workers
<1>2. CASE Write(w)
  <2>1. pc[w] = "idle" /\ pc'[w] = "DP" /\ bucket' = bucket
    BY <1>1, <1>2 DEF Write, Goto, TypeOK, buffers
  <2>2. \A n \in Mutex : Holds(w, n)' <=> Holds(w, n)
    BY <1>1, <2>1 DEF Holds, Outside, Filling
  <2>3. QED
    BY <1>1, <1>2, <2>1, <2>2, HeldAfterGoto DEF Write
<1>3. CASE LockAll(w, "integrity")
  BY <1>1, <1>3, LockAllHeld
<1>4. CASE Integrity(w)
  <2>1. pc[w] = "integrity" /\ pc'[w] \in {"unlock", "PENDING"} /\ bucket' = bucket /\ owner' = owner
    BY <1>1, <1>4, Classes DEF Integrity, Goto, TypeOK, buffers
  <2>2. \A o \in Threads \ {w, FeedCron} : pc'[o] = pc[o]
    BY <1>4 DEF Integrity, Goto, TypeOK
  <2>3. pc'[FeedCron] = pc[FeedCron] \/ (pc[FeedCron] = "off" /\ pc'[FeedCron] = "FEED")
    BY <1>1, <1>4, Classes DEF Integrity, Goto, TypeOK, Cleaning
  <2>4. \A n \in Mutex : Holds(w, n)' <=> Holds(w, n)
    BY <1>1, <2>1 DEF Holds, Outside, Filling
  <2>5. \A n \in Mutex : Holds(FeedCron, n)' <=> Holds(FeedCron, n)
    BY <2>3, Classes DEF Holds
  <2>6. \A o \in Threads \ {w, FeedCron}, n \in Mutex : Holds(o, n)' <=> Holds(o, n)
    BY <2>1, <2>2 DEF Holds
  <2>7. \A o \in Threads, n \in Mutex : Holds(o, n)' <=> Holds(o, n)
    BY <2>4, <2>5, <2>6
  <2>8. QED
    BY <2>1, <2>7 DEF HeldOK
<1>5. CASE LockJournal(w, "update")
  BY <1>1, <1>5, LockJournalHeld
<1>6. CASE \E u \in UUID : Update(w, u)
  <2>1. PICK u \in UUID : Update(w, u)
    BY <1>6
  <2>2. pc[w] = "update" /\ pc'[w] = "unlock" /\ bucket' = bucket /\ Unlock(w, {"PENDING", "JOR"})
    BY <1>1, <2>1, Classes DEF Update, TypeOK, buffers
  <2>3. \A o \in Threads \ {w, JorCron} : pc'[o] = pc[o]
    BY <2>1 DEF Update, TypeOK
  <2>4. pc'[JorCron] = pc[JorCron] \/ (pc[JorCron] = "off" /\ pc'[JorCron] = "JOR")
    BY <1>1, <2>1, Classes DEF Update, TypeOK, Cleaning
  <2>5. \A n \in Mutex : Holds(w, n)' <=> (Holds(w, n) /\ n \notin {"PENDING", "JOR"})
    BY <1>1, <2>2 DEF Holds, Outside, Filling, Mutex, Label
  <2>6. \A n \in Mutex : Holds(JorCron, n)' <=> Holds(JorCron, n)
    BY <2>4, Classes DEF Holds
  <2>7. \A o \in Threads \ {w, JorCron}, n \in Mutex : Holds(o, n)' <=> Holds(o, n)
    BY <2>2, <2>3 DEF Holds
  <2>8. \A o \in Threads \ {w}, n \in Mutex : Holds(o, n)' <=> Holds(o, n)
    BY <2>6, <2>7
  <2>9. SUFFICES ASSUME NEW o \in Threads, NEW n \in Mutex
                 PROVE  owner'[n] = o <=> Holds(o, n)'
    BY DEF HeldOK
  <2>10. owner'[n] = IF n \in {"PENDING", "JOR"} /\ owner[n] = w THEN Nobody ELSE owner[n]
    BY <2>2 DEF Unlock
  <2>11. owner[n] = o <=> Holds(o, n)
    BY DEF HeldOK
  <2>12. CASE o = w
    BY <2>5, <2>10, <2>11, <2>12, Classes
  <2>13. CASE o # w
    BY <2>8, <2>10, <2>11, <2>13, Classes
  <2>14. QED
    BY <2>12, <2>13
<1>7. CASE UnlockAll(w)
  BY <1>1, <1>7, UnlockAllHeld
<1>8. QED
  BY <1>2, <1>3, <1>4, <1>5, <1>6, <1>7 DEF Writer

LEMMA AheadHeld ==
  ASSUME TypeOK, StepsOK, HeldOK, ChosenOK, Ahead
  PROVE  HeldOK'
<1> DEFINE t == RunAhead
<1>1. t \in Threads /\ t \in Handlers /\ t \in Streams /\ t # FeedCron /\ t # JorCron
  BY Classes
<1>2. CASE Wake
  <2>1. pc[t] = "asleep" /\ pc'[t] = "DP" /\ Goto(t, "DP")
    BY <1>1, <1>2 DEF Wake, Goto, TypeOK
  <2>2. \A n \in Mutex : Holds(t, n)' <=> Holds(t, n)
    BY <1>1, <2>1 DEF Holds, Outside, Filling
  <2>3. \A o \in Streams \ {t} : bucket'[o] = bucket[o]
    BY <1>2 DEF Wake, TypeOK, Streams
  <2>4. QED
    BY <1>1, <1>2, <2>1, <2>2, <2>3, HeldAfterGoto DEF Wake
<1>3. CASE LockAll(t, Bucket(bucket[t]))
  BY <1>1, <1>3, LockAllHeld, Labels
<1>4. CASE \E b \in Label : Lock(t, b, "look")
  BY <1>1, <1>4, LockBufferHeld
<1>5. CASE StartProcessing
  <2>1. PICK step \in {"PENDING", "finish"} : Goto(t, step)
    BY <1>5 DEF StartProcessing
  <2>2. pc[t] = "look" /\ pc'[t] = step /\ bucket' = bucket
    BY <1>1, <1>5, <2>1 DEF StartProcessing, Goto, TypeOK
  <2>3. \A n \in Mutex : Holds(t, n)' <=> Holds(t, n)
    BY <1>1, <2>2 DEF Holds, Outside, Filling
  <2>4. QED
    BY <1>1, <1>5, <2>1, <2>2, <2>3, HeldAfterGoto DEF StartProcessing
<1>6. CASE LockJournal(t, "recruit")
  BY <1>1, <1>6, LockJournalHeld
<1>7. CASE RecruitAhead
  BY <1>1, <1>7, RecruitHeld DEF RecruitAhead
<1>8. CASE Finish
  <2>1. pc[t] = "finish" /\ pc'[t] = "asleep" /\ bucket' = bucket
    BY <1>1, <1>8 DEF Finish, Goto, TypeOK, buffers
  <2>2. \A n \in Mutex : Holds(t, n)' <=> (Holds(t, n) /\ n \notin All \cup Label)
    BY <1>1, <2>1 DEF Holds, Outside, Filling, Mutex, All
  <2>3. QED
    BY <1>1, <1>8, <2>1, <2>2, HeldAfterUnlock DEF Finish
<1>9. QED
  BY <1>2, <1>3, <1>4, <1>5, <1>6, <1>7, <1>8 DEF Ahead

LEMMA CronHeld ==
  ASSUME TypeOK, HeldOK, NEW t, NEW m,
         (t = FeedCron /\ m = "FEED") \/ (t = JorCron /\ m = "JOR"), Cron(t, m)
  PROVE  HeldOK'
<1>1. t \in Threads /\ t \notin Handlers /\ m \in Mutex /\ FeedCron # JorCron
  BY Classes DEF Mutex
<1>2. CASE Lock(t, m, "flush")
  <2>1. pc[t] = m /\ pc'[t] = "flush" /\ bucket' = bucket
    BY <1>1, <1>2 DEF Lock, Goto, TypeOK, buffers
  <2>2. \A n \in Mutex : Holds(t, n)' <=> (Holds(t, n) \/ n = m)
    BY <1>1, <2>1 DEF Holds
  <2>3. QED
    BY <1>1, <1>2, <2>2, HeldAfterLock
<1>3. CASE Flush(t, m)
  <2>1. pc[t] = "flush" /\ pc'[t] = "off" /\ bucket' = bucket
    BY <1>1, <1>3 DEF Flush, Goto, TypeOK, buffers
  <2>2. \A n \in Mutex : Holds(t, n)' <=> (Holds(t, n) /\ n \notin {m})
    BY <1>1, <2>1 DEF Holds
  <2>3. QED
    BY <1>1, <1>3, <2>1, <2>2, HeldAfterUnlock DEF Flush
<1>4. QED
  BY <1>2, <1>3 DEF Cron

-----------------------------------------------------------------------------
(* The states of the buffers                                               *)

LEMMA StatesKept ==
  ASSUME StatesOK, UNCHANGED buf,
         pc'[RunAhead] \in Filling <=> pc[RunAhead] \in Filling,
         pc[RunAhead] \in Filling => bucket'[RunAhead] = bucket[RunAhead],
         \A g \in Getters : pc'[g] \in Filling =>
           /\ bucket'[g] = bucket[g]
           /\ pc[g] \in Filling \/ buf[Bucket(bucket[g])].state = "EMPTY",
         \A g \in Getters : pc[g] = "swap" => pc'[g] = "swap" /\ bucket'[g] = bucket[g]
  PROVE  StatesOK'
<1>1. \A b \in Label : buf'[b].state = "PROCESSING" <=>
                         pc'[RunAhead] \in Filling /\ b = Bucket(bucket'[RunAhead])
  BY DEF StatesOK
<1>2. \A g \in Getters : pc'[g] \in Filling => buf'[Bucket(bucket'[g])].state = "EMPTY"
  BY DEF StatesOK
<1>3. \A b \in Label : buf'[b].rows # EmptyMap /\ buf'[b].state # "READY" =>
                         \E g \in Getters : pc'[g] = "swap" /\ b = Bucket(bucket'[g])
  BY DEF StatesOK
<1>4. QED
  BY <1>1, <1>2, <1>3 DEF StatesOK, Bucket

(* A lock() never ends at a step where a buffer is filled or swapped,      *)
(* unless it starts at one where it is filled.                             *)
LEMMA LockStates ==
  ASSUME TypeOK, StatesOK, NEW t \in Threads, NEW m, NEW step, Lock(t, m, step),
         t \in Streams => m # "swap" /\ (step \in Filling <=> m \in Filling)
  PROVE  StatesOK'
<1>1. pc[t] = m /\ pc' = [pc EXCEPT ![t] = step] /\ UNCHANGED <<buf, bucket>> /\ pc \in [Threads -> Steps]
  BY DEF Lock, Goto, buffers, TypeOK
<1>2. \A o \in Streams : (pc'[o] \in Filling <=> pc[o] \in Filling) /\ (pc[o] = "swap" => pc'[o] = "swap")
  BY <1>1, Classes
<1>3. QED
  BY <1>1, <1>2, StatesKept, Classes

LEMMA SwapStates ==
  ASSUME TypeOK, HeldOK, StatesOK, NEW g \in Getters, Swap(g)
  PROVE  StatesOK'
<1> DEFINE b == Bucket(bucket[g])
<1>1. g \in Threads /\ g \in Handlers /\ RunAhead \in Handlers /\ g # RunAhead /\ RunAhead \in Threads
  BY Classes
<1>2. /\ pc[g] = "swap" /\ pc' = [pc EXCEPT ![g] = "turn"] /\ bucket' = bucket /\ b \in Label
      /\ buf' = [buf EXCEPT ![b].state = "EMPTY", ![b].rows = EmptyMap] /\ pc \in [Threads -> Steps]
  BY Labels DEF Swap, Goto, TypeOK
<1>3. pc[RunAhead] \notin Filling
  BY <1>1, <1>2, Alone DEF Outside, Filling
<1>4. /\ buf'[b].state = "EMPTY" /\ buf'[b].rows = EmptyMap
      /\ \A l \in Label \ {b} : buf'[l] = buf[l]
  BY <1>2 DEF TypeOK
<1>5. \A l \in Label : buf'[l].state = "PROCESSING" <=>
                         pc'[RunAhead] \in Filling /\ l = Bucket(bucket'[RunAhead])
  BY <1>1, <1>2, <1>3, <1>4 DEF StatesOK
<1>6. \A o \in Getters : pc'[o] \in Filling => buf'[Bucket(bucket'[o])].state = "EMPTY"
  <2>1. pc'[g] \notin Filling /\ \A o \in Getters \ {g} : pc'[o] = pc[o]
    BY <1>1, <1>2, Classes DEF Filling
  <2>2. \A l \in Label : buf[l].state = "EMPTY" => buf'[l].state = "EMPTY"
    BY <1>4
  <2>3. QED
    BY <1>2, <2>1, <2>2, Labels DEF StatesOK
<1>7. ASSUME NEW l \in Label, buf'[l].rows # EmptyMap, buf'[l].state # "READY"
      PROVE  \E o \in Getters : pc'[o] = "swap" /\ l = Bucket(bucket'[o])
  <2>1. l # b /\ buf'[l] = buf[l]
    BY <1>4, <1>7
  <2>2. PICK o \in Getters : pc[o] = "swap" /\ l = Bucket(bucket[o])
    BY <1>7, <2>1 DEF StatesOK
  <2>3. o # g /\ pc'[o] = pc[o]
    BY <1>2, <2>1, <2>2, Classes
  <2>4. QED
    BY <1>2, <2>2, <2>3
<1>8. QED
  BY <1>5, <1>6, <1>7 DEF StatesOK, Bucket

LEMMA RecruitNowStates ==
  ASSUME TypeOK, HeldOK, StatesOK, NEW g \in Getters, RecruitNow(g)
  PROVE  StatesOK'
<1> DEFINE b == Bucket(bucket[g])
<1>1. /\ pc[g] = "recruit" /\ pc' = [pc EXCEPT ![g] = "swap"] /\ bucket' = bucket /\ b \in Label
      /\ pc \in [Threads -> Steps] /\ g \in Threads /\ g # RunAhead
  BY Labels, Classes DEF RecruitNow, Recruit, Goto, TypeOK
<1>2. buf[b].state = "EMPTY" /\ buf'[b].state = "EMPTY" /\ \A l \in Label \ {b} : buf'[l] = buf[l]
  BY <1>1 DEF RecruitNow, Recruit, StatesOK, Filling, TypeOK
<1>3. \A o \in Threads \ {g} : pc'[o] = pc[o]
  BY <1>1
<1>4. \A l \in Label : buf'[l].state = buf[l].state
  BY <1>2
<1>5. \A l \in Label : buf'[l].state = "PROCESSING" <=>
                         pc'[RunAhead] \in Filling /\ l = Bucket(bucket'[RunAhead])
  BY <1>1, <1>3, <1>4, Classes DEF StatesOK
<1>6. \A o \in Getters : pc'[o] \in Filling => buf'[Bucket(bucket'[o])].state = "EMPTY"
  BY <1>1, <1>3, <1>4, Labels, Classes DEF StatesOK, Filling
<1>7. ASSUME NEW l \in Label, buf'[l].rows # EmptyMap, buf'[l].state # "READY"
      PROVE  \E o \in Getters : pc'[o] = "swap" /\ l = Bucket(bucket'[o])
  <2>1. CASE l = b
    BY <1>1, <2>1
  <2>2. CASE l # b
    <3>1. PICK o \in Getters : pc[o] = "swap" /\ l = Bucket(bucket[o])
      BY <1>2, <1>7, <2>2 DEF StatesOK
    <3>2. pc'[o] = "swap"
      BY <1>1, <1>3, <3>1, Classes
    <3>3. QED
      BY <1>1, <3>1, <3>2
  <2>3. QED
    BY <2>1, <2>2
<1>8. QED
  BY <1>5, <1>6, <1>7 DEF StatesOK, Bucket

LEMMA GetterStates ==
  ASSUME TypeOK, StepsOK, HeldOK, ChosenOK, StatesOK, NEW g \in Getters, Get(g) \/ Getter(g)
  PROVE  StatesOK'
<1>1. g \in Threads /\ g \in Streams /\ g # RunAhead /\ RunAhead \in Threads /\ Getters \subseteq Threads
  BY Classes
<1>2. CASE Get(g) \/ Turn(g) \/ UnlockAll(g)
  <2>1. PICK step \in {"DP", "unlock", "idle"} : Goto(g, step) /\ UNCHANGED <<buf, bucket>> /\ pc[g] # "swap"
    BY <1>2 DEF Get, Turn, UnlockAll, buffers
  <2>2. QED
    BY <1>1, <2>1, StatesKept DEF Goto, TypeOK, Filling
<1>3. CASE LockAll(g, "next")
  BY <1>1, <1>3, LockStates DEF LockAll, Filling
<1>4. CASE ChooseBuffer(g)
  <2>1. /\ pc[g] = "next" /\ pc' = [pc EXCEPT ![g] = Bucket(nextToStream)] /\ buf' = buf
        /\ bucket' = [bucket EXCEPT ![g] = nextToStream]
    BY <1>4 DEF ChooseBuffer, Goto
  <2>2. Bucket(nextToStream) \in Label
    BY Labels
  <2>3. \A o \in Getters \cup {RunAhead} : o # g => pc'[o] = pc[o] /\ bucket'[o] = bucket[o]
    BY <1>1, <2>1 DEF TypeOK
  <2>4. pc'[g] \notin Filling
    BY <1>1, <2>1, <2>2 DEF TypeOK, Filling, Label
  <2>5. QED
    BY <1>1, <2>1, <2>3, <2>4, StatesKept
<1>5. CASE \E b \in Label : Lock(g, b, "look")
  BY <1>1, <1>5, LockStates DEF Label, Filling
<1>6. CASE LookAtBuffer(g)
  <2>1. PICK step \in {"PENDING", "swap"} \cup Label :
          /\ Goto(g, step) /\ pc[g] = "look" /\ UNCHANGED <<buf, bucket>>
          /\ step = "PENDING" => buf[Bucket(bucket[g])].state = "EMPTY"
    <3>1. Bucket(bucket[g]) \in Label /\ buf[Bucket(bucket[g])].state \in {"EMPTY", "PROCESSING", "READY"}
      BY Labels DEF TypeOK
    <3>2. QED
      BY <1>6, <3>1 DEF LookAtBuffer, buffers, Label
  <2>2. \A o \in Threads \ {g} : pc'[o] = pc[o]
    BY <2>1 DEF Goto, TypeOK
  <2>3. pc'[g] = step
    BY <1>1, <2>1 DEF Goto, TypeOK
  <2>4. QED
    BY <1>1, <2>1, <2>2, <2>3, StatesKept DEF Filling, Label
<1>7. CASE LockJournal(g, "recruit")
  BY <1>1, <1>7, LockStates DEF LockJournal, Filling
<1>8. CASE RecruitNow(g)
  BY <1>8, RecruitNowStates
<1>9. CASE Swap(g)
  BY <1>9, SwapStates
<1>10. QED
  BY <1>2, <1>3, <1>4, <1>5, <1>6, <1>7, <1>8, <1>9 DEF Getter

LEMMA WriterStates ==
  ASSUME TypeOK, StatesOK, NEW w \in Writers, Write(w) \/ Writer(w)
  PROVE  StatesOK'
<1>1. UNCHANGED <<buf, bucket>>
  BY DEF Write, Writer, LockAll, LockJournal, Lock, Integrity, Update, UnlockAll, buffers
<1>2. \A o \in Streams : pc'[o] = pc[o]
  <2>1. \A o \in Streams : o # w /\ o # FeedCron /\ o # JorCron /\ o \in Threads
    BY Classes
  <2>2. QED
    BY <2>1 DEF Write, Writer, LockAll, LockJournal, Lock, Integrity, Update, UnlockAll, Goto, TypeOK
<1>3. QED
  BY <1>1, <1>2, StatesKept, Classes

LEMMA AheadStates ==
  ASSUME TypeOK, StepsOK, HeldOK, ChosenOK, StatesOK, Ahead
  PROVE  StatesOK'
<1> DEFINE t == RunAhead
<1> DEFINE b == Bucket(bucket[t])
<1>1. /\ t \in Threads /\ t \in Streams /\ t \in Handlers /\ b \in Label
      /\ \A g \in Getters : g \in Threads /\ g \in Handlers /\ g # t
  BY Classes, Labels
<1>2. CASE Wake
  <2>1. /\ pc[t] = "asleep" /\ pc' = [pc EXCEPT ![t] = "DP"] /\ buf' = buf
        /\ bucket' = [bucket EXCEPT ![t] = nextToStream]
    BY <1>2 DEF Wake, Goto
  <2>2. pc'[t] = "DP" /\ \A g \in Getters : pc'[g] = pc[g] /\ bucket'[g] = bucket[g]
    BY <1>1, <2>1 DEF TypeOK
  <2>3. QED
    BY <1>1, <2>1, <2>2, StatesKept DEF Filling
<1>3. CASE LockAll(t, b)
  BY <1>1, <1>3, LockStates DEF LockAll, Filling, Label
<1>4. CASE \E l \in Label : Lock(t, l, "look")
  BY <1>1, <1>4, LockStates DEF Label, Filling
<1>5. CASE LockJournal(t, "recruit")
  BY <1>1, <1>5, LockStates DEF LockJournal, Filling
<1>6. CASE Finish
  <2>1. Goto(t, "asleep") /\ UNCHANGED <<buf, bucket>> /\ pc[t] = "finish"
    BY <1>6 DEF Finish, buffers
  <2>2. QED
    BY <1>1, <2>1, StatesKept DEF Goto, TypeOK, Filling
<1>7. CASE StartProcessing
  <2>1. CASE buf[b].state # "EMPTY"
    <3>1. Goto(t, "finish") /\ UNCHANGED <<buf, bucket>> /\ pc[t] = "look"
      BY <1>7, <2>1 DEF StartProcessing
    <3>2. QED
      BY <1>1, <3>1, StatesKept DEF Goto, TypeOK, Filling
  <2>2. CASE buf[b].state = "EMPTY"
    <3>1. /\ pc[t] = "look" /\ pc' = [pc EXCEPT ![t] = "PENDING"] /\ bucket' = bucket
          /\ buf' = [buf EXCEPT ![b].state = "PROCESSING"]
      BY <1>7, <2>2 DEF StartProcessing, Goto
    <3>2. pc'[t] = "PENDING" /\ \A g \in Getters : pc'[g] = pc[g]
      BY <1>1, <3>1 DEF TypeOK
    <3>3. /\ buf'[b].state = "PROCESSING" /\ buf'[b].rows = buf[b].rows
          /\ \A l \in Label \ {b} : buf'[l] = buf[l]
      BY <1>1, <3>1 DEF TypeOK
    <3>4. \A g \in Getters : pc[g] \notin Filling
      BY <1>1, <3>1, Alone DEF Outside, Filling
    <3>5. \A l \in Label : buf'[l].state = "PROCESSING" <=> pc'[t] \in Filling /\ l = Bucket(bucket'[t])
      BY <1>1, <3>1, <3>2, <3>3 DEF StatesOK, Filling
    <3>6. \A g \in Getters : pc'[g] \in Filling => buf'[Bucket(bucket'[g])].state = "EMPTY"
      BY <3>2, <3>4
    <3>7. \A l \in Label : buf'[l].rows # EmptyMap /\ buf'[l].state # "READY" =>
                             \E g \in Getters : pc'[g] = "swap" /\ l = Bucket(bucket'[g])
      BY <1>1, <2>2, <3>1, <3>2, <3>3 DEF StatesOK
    <3>8. QED
      BY <3>5, <3>6, <3>7 DEF StatesOK, Bucket
  <2>3. QED
    BY <2>1, <2>2
<1>8. CASE RecruitAhead
  <2>1. /\ pc[t] = "recruit" /\ pc' = [pc EXCEPT ![t] = "finish"] /\ bucket' = bucket
    BY <1>8 DEF RecruitAhead, Recruit, Goto
  <2>2. pc'[t] = "finish" /\ \A g \in Getters : pc'[g] = pc[g]
    BY <1>1, <2>1 DEF TypeOK
  <2>3. buf'[b].state = "READY" /\ \A l \in Label \ {b} : buf'[l] = buf[l]
    BY <1>1, <1>8 DEF RecruitAhead, Recruit, TypeOK
  <2>4. buf[b].state = "PROCESSING" /\ \A l \in Label \ {b} : buf[l].state # "PROCESSING"
    BY <1>1, <2>1 DEF StatesOK, Filling
  <2>5. \A l \in Label : buf'[l].state = "PROCESSING" <=> pc'[t] \in Filling /\ l = Bucket(bucket'[t])
    BY <2>2, <2>3, <2>4 DEF Filling
  <2>6. \A g \in Getters : pc'[g] \in Filling => buf'[Bucket(bucket'[g])].state = "EMPTY"
    BY <2>1, <2>2, <2>3, <2>4, Labels DEF StatesOK
  <2>7. \A l \in Label : buf'[l].rows # EmptyMap /\ buf'[l].state # "READY" =>
                           \E g \in Getters : pc'[g] = "swap" /\ l = Bucket(bucket'[g])
    BY <2>1, <2>2, <2>3 DEF StatesOK
  <2>8. QED
    BY <2>5, <2>6, <2>7 DEF StatesOK, Bucket
<1>9. QED
  BY <1>2, <1>3, <1>4, <1>5, <1>6, <1>7, <1>8 DEF Ahead

LEMMA CronStates ==
  ASSUME TypeOK, StatesOK, NEW t \in Crons, NEW m, Cron(t, m)
  PROVE  StatesOK'
<1>1. UNCHANGED <<buf, bucket>> /\ \E step : Goto(t, step)
  BY DEF Cron, Lock, Flush, buffers
<1>2. \A o \in Streams : pc'[o] = pc[o]
  BY <1>1, Classes DEF Goto, TypeOK, Crons
<1>3. QED
  BY <1>1, <1>2, StatesKept, Classes

-----------------------------------------------------------------------------
(* The theorems on locks                                                   *)

LEMMA LocksInit == Init => LocksInv
<1> SUFFICES ASSUME Init PROVE LocksInv
  OBVIOUS
<1>1. TypeOK /\ StepsOK /\ ChosenOK
  BY InitType, StepsInit
<1>2. \A t \in Threads : pc[t] \in {"idle", "asleep", "off"}
  BY <1>1, ThreadAssumption DEF Init, Threads, Workers, Crons
<1>3. HeldOK
  <2>1. \A t \in Threads, m \in Mutex : ~Holds(t, m)
    <3>1. \A t \in Handlers : pc[t] # "off"
      BY <1>1 DEF StepsOK, Handlers, Workers, GetterSteps, WriterSteps, AheadSteps
    <3>2. \A t \in Handlers : pc[t] \in Outside
      BY <1>2, <3>1, Classes DEF Outside
    <3>3. QED
      BY <1>2, <3>2, Classes DEF Holds, Outside, Filling
  <2>2. QED
    BY <2>1, Classes DEF HeldOK, Init
<1>4. StatesOK
  <2>1. \A b \in Label : buf[b].state = "EMPTY" /\ buf[b].rows = EmptyMap
    BY DEF Init
  <2>2. pc[RunAhead] \notin Filling /\ \A g \in Getters : pc[g] \notin Filling
    BY <1>2, Classes DEF Filling
  <2>3. QED
    BY <2>1, <2>2 DEF StatesOK
<1>5. QED
  BY <1>1, <1>3, <1>4 DEF LocksInv

LEMMA LocksStep == LocksInv /\ [Next]_vars => LocksInv'
<1> SUFFICES ASSUME LocksInv, [Next]_vars PROVE LocksInv'
  OBVIOUS
<1> USE DEF LocksInv
<1>1. CASE UNCHANGED vars
  BY <1>1 DEF vars, buffers, journals, responses, TypeOK, StepsOK, HeldOK, Holds, ChosenOK, StatesOK, Bucket
<1>2. CASE Next
  <2>1. TypeOK' /\ ChosenOK'
    BY <1>2, StepType, ChosenStep
  <2>2. CASE \E g \in Getters : Get(g) \/ Getter(g)
    BY <2>1, <2>2, GetterSteps1, GetterHeld, GetterStates
  <2>3. CASE \E w \in Writers : Write(w) \/ Writer(w)
    BY <2>1, <2>3, WriterSteps1, WriterHeld, WriterStates
  <2>4. CASE Ahead
    BY <2>1, <2>4, AheadSteps1, AheadHeld, AheadStates
  <2>5. CASE Cron(FeedCron, "FEED") \/ Cron(JorCron, "JOR")
    BY <2>1, <2>5, CronSteps1, CronHeld, CronStates DEF Crons
  <2>6. QED
    BY <1>2, <2>2, <2>3, <2>4, <2>5 DEF Next
<1>3. QED
  BY <1>1, <1>2

LEMMA LocksAlways == Spec => []LocksInv
BY LocksInit, LocksStep, PTL DEF Spec

LEMMA LocksExclude == LocksInv => Exclusive
<1> SUFFICES ASSUME LocksInv PROVE Exclusive
  OBVIOUS
<1>1. \A t \in Handlers : pc[t] \notin Outside \cup {"DISK", "FEED"} =>
        owner["DP"] = t /\ owner["DISK"] = t /\ owner["FEED"] = t
  <2> SUFFICES ASSUME NEW t \in Handlers, pc[t] \notin Outside \cup {"DISK", "FEED"}
               PROVE  owner["DP"] = t /\ owner["DISK"] = t /\ owner["FEED"] = t
    OBVIOUS
  <2>1. Holds(t, "DP") /\ Holds(t, "DISK") /\ Holds(t, "FEED")
    BY DEF Holds
  <2>2. QED
    BY <2>1, Classes DEF LocksInv, HeldOK, Mutex
<1>2. \A t \in Threads : pc[t] \in {"recruit", "update"} => owner["PENDING"] = t /\ owner["JOR"] = t
  <2> SUFFICES ASSUME NEW t \in Threads, pc[t] \in {"recruit", "update"}
               PROVE  owner["PENDING"] = t /\ owner["JOR"] = t
    OBVIOUS
  <2>1. t \in Handlers
    BY Classes DEF LocksInv, StepsOK
  <2>2. Holds(t, "PENDING") /\ Holds(t, "JOR")
    BY <2>1 DEF Holds
  <2>3. QED
    BY <2>2 DEF LocksInv, HeldOK, Mutex
<1>3. /\ pc[FeedCron] = "flush" => owner["FEED"] = FeedCron
      /\ pc[JorCron] = "flush" => owner["JOR"] = JorCron
  BY Classes DEF LocksInv, HeldOK, Holds, Mutex
<1>4. QED
  BY <1>1, <1>2, <1>3 DEF Exclusive, Outside, Handlers

LEMMA LocksNeverWait == LocksInv => NeverWaits
<1> SUFFICES ASSUME LocksInv, NEW b \in Label, buf[b].state = "PROCESSING"
             PROVE  /\ owner["DP"] = RunAhead /\ owner[b] = RunAhead
                    /\ \A g \in Getters : pc[g] \in {"idle", "DP"}
  BY DEF NeverWaits
<1>1. pc[RunAhead] \in Filling /\ b = Bucket(bucket[RunAhead])
  BY DEF LocksInv, StatesOK
<1>2. Holds(RunAhead, "DP") /\ Holds(RunAhead, b)
  BY <1>1, Classes DEF Holds, Outside, Filling
<1>3. owner["DP"] = RunAhead /\ owner[b] = RunAhead
  BY <1>2, Classes DEF LocksInv, HeldOK, Mutex
<1>4. ASSUME NEW g \in Getters PROVE pc[g] \in {"idle", "DP"}
  <2>1. pc[g] \in Outside
    BY <1>1, Alone, Classes DEF LocksInv, Outside, Filling
  <2>2. QED
    BY <2>1 DEF LocksInv, StepsOK, GetterSteps, Outside
<1>5. QED
  BY <1>3, <1>4

(* However many workers there are, handlers, run-ahead and cron flushes    *)
(* are alone in what their mutexes guard.                                  *)
THEOREM ExclusiveCorrect == Spec => []Exclusive
BY LocksAlways, LocksExclude, PTL

(* No GET ever meets a buffer in PROCESSING: the wait in dispatch is dead  *)
(* code, and the lock order it would add plays no part.                    *)
THEOREM NeverWaitsCorrect == Spec => []NeverWaits
BY LocksAlways, LocksNeverWait, PTL

-----------------------------------------------------------------------------
(* An update is in one place                                               *)

(* No place has a number above that of the latest update.                  *)
NoneAbove ==
  \A u \in UUID :
    /\ delivered[u] <= posted[u]
    /\ journal[u] # NoRow => journal[u] <= posted[u]
    /\ \A b \in Label : buf[b].rows[u] # NoRow => buf[b].rows[u] <= posted[u]

LatestInOne == \A u \in UUID : posted[u] # 0 => \E p : Places(u, posted[u]) = {p}

PlacesInv == NoneAbove /\ LatestInOne

LEMMA PlaceTypes ==
  ASSUME TypeOK, NEW u \in UUID
  PROVE  /\ posted[u] \in Nat /\ delivered[u] \in Nat /\ journal[u] \in Nat \cup {NoRow}
         /\ \A b \in Label : buf[b].rows \in Versions /\ buf[b].rows[u] \in Nat \cup {NoRow}
BY DEF TypeOK, Versions

LEMMA InPlaces ==
  \A u, n, p : p \in Places(u, n) <=>
    \/ p \in Label /\ buf[p].rows[u] = n
    \/ p = "journal" /\ journal[u] = n
    \/ p = "sent" /\ delivered[u] = n
BY DEF Places

LEMMA PlacesInit == Init => PlacesInv
<1> SUFFICES ASSUME Init PROVE PlacesInv
  OBVIOUS
<1>1. \A u \in UUID : posted[u] = 0 /\ delivered[u] = 0 /\ journal[u] = NoRow
  BY DEF Init, EmptyMap
<1>2. \A b \in Label, u \in UUID : buf[b].rows[u] = NoRow
  BY DEF Init, EmptyMap
<1>3. QED
  BY <1>1, <1>2 DEF PlacesInv, NoneAbove, LatestInOne

(* A step that leaves the rows where they are.                             *)
LEMMA PlacesKept ==
  ASSUME PlacesInv, UNCHANGED <<journal, posted, delivered>>,
         \A b \in Label : buf'[b].rows = buf[b].rows
  PROVE  PlacesInv'
<1>1. \A u \in UUID : posted'[u] = posted[u] /\ Places(u, posted[u])' = Places(u, posted[u])
  BY DEF Places
<1>2. NoneAbove'
  BY DEF PlacesInv, NoneAbove
<1>3. LatestInOne'
  <2> SUFFICES ASSUME NEW u \in UUID, posted'[u] # 0
               PROVE  \E p : Places(u, posted[u])' = {p}
    BY DEF LatestInOne
  <2>1. PICK p : Places(u, posted[u]) = {p}
    BY DEF PlacesInv, LatestInOne
  <2>2. QED
    BY <1>1, <2>1
<1>4. QED
  BY <1>2, <1>3 DEF PlacesInv

(* recruit moves rows from the journal to a buffer that has none.          *)
LEMMA RecruitPlaces ==
  ASSUME TypeOK, PlacesInv, NEW t, NEW final, NEW b \in Label,
         buf[b].rows = EmptyMap, Recruit(t, b, final)
  PROVE  PlacesInv'
<1> DEFINE taken == BatchOf(journal)
<1>1. /\ journal' = Only(journal, UUID \ Keys(taken)) /\ posted' = posted /\ delivered' = delivered
      /\ buf'[b].rows = taken /\ \A l \in Label \ {b} : buf'[l] = buf[l]
  BY DEF Recruit, responses, TypeOK
<1>2. ASSUME NEW u \in UUID
      PROVE  \/ /\ buf'[b].rows[u] = NoRow /\ buf[b].rows[u] = NoRow
                /\ journal'[u] = journal[u]
             \/ /\ buf'[b].rows[u] = journal[u] /\ buf[b].rows[u] = NoRow
                /\ journal[u] # NoRow /\ journal'[u] = NoRow
  <2>1. buf[b].rows[u] = NoRow
    BY DEF EmptyMap
  <2>2. taken[u] = NoRow \/ taken[u] = journal[u]
    BY DEF BatchOf, Only
  <2>3. journal'[u] = IF taken[u] # NoRow THEN NoRow ELSE journal[u]
    BY <1>1 DEF Only, Keys
  <2>4. QED
    BY <1>1, <2>1, <2>2, <2>3
<1>3. NoneAbove'
  BY <1>1, <1>2 DEF PlacesInv, NoneAbove
<1>4. ASSUME NEW u \in UUID, posted[u] # 0
      PROVE  \E p : Places(u, posted[u])' = {p}
  <2>1. PICK p : Places(u, posted[u]) = {p}
    BY <1>4 DEF PlacesInv, LatestInOne
  <2>2. posted[u] # NoRow /\ posted'[u] = posted[u]
    BY <1>1, PlaceTypes, VersionAssumption
  <2>3. \A q : q \in Places(u, posted[u])' <=>
          \/ q \in Label /\ buf'[q].rows[u] = posted[u]
          \/ q = "journal" /\ journal'[u] = posted[u]
          \/ q = "sent" /\ delivered'[u] = posted[u]
    BY <1>1 DEF Places
  <2>4. CASE buf'[b].rows[u] = posted[u]
    <3>1. journal[u] = posted[u] /\ journal'[u] = NoRow
      BY <1>2, <2>2, <2>4
    <3>2. Places(u, posted[u]) = {"journal"}
      BY <2>1, <3>1, InPlaces
    <3>3. \A l \in Label \ {b} : buf[l].rows[u] # posted[u]
      BY <3>2, InPlaces DEF Label
    <3>4. delivered[u] # posted[u]
      <4>1. "sent" \notin Places(u, posted[u])
        BY <3>2
      <4>2. QED
        BY <4>1, InPlaces
    <3>5. \A q : q \in Places(u, posted[u])' <=> q = b
      BY <1>1, <2>2, <2>3, <2>4, <3>1, <3>3, <3>4 DEF Label
    <3>6. Places(u, posted[u])' = {b}
      BY <3>5, Zenon
    <3>7. QED
      BY <3>6
  <2>5. CASE buf'[b].rows[u] # posted[u]
    <3>1. buf[b].rows[u] # posted[u] /\ (journal'[u] = posted[u] <=> journal[u] = posted[u])
      BY <1>2, <2>2, <2>5
    <3>2. \A l \in Label : buf'[l].rows[u] = posted[u] <=> buf[l].rows[u] = posted[u]
      BY <1>1, <2>5, <3>1
    <3>3. journal'[u] = posted[u] <=> journal[u] = posted[u]
      BY <3>1
    <3>4. delivered' = delivered
      BY <1>1
    <3>5. \A q : q \in Places(u, posted[u]) <=>
            \/ q \in Label /\ buf[q].rows[u] = posted[u]
            \/ q = "journal" /\ journal[u] = posted[u]
            \/ q = "sent" /\ delivered[u] = posted[u]
      BY InPlaces
    <3>6. \A q : q \in Places(u, posted[u])' <=> q \in Places(u, posted[u])
      BY <2>3, <3>2, <3>3, <3>4, <3>5, Zenon
    <3>7. QED
      BY <2>1, <3>6
  <2>6. QED
    BY <2>4, <2>5
<1>5. LatestInOne'
  BY <1>1, <1>4 DEF LatestInOne
<1>6. QED
  BY <1>3, <1>5 DEF PlacesInv

(* dispatch moves the rows of a buffer to the response.                    *)
LEMMA SwapPlaces ==
  ASSUME TypeOK, PlacesInv, NEW g \in Getters, Swap(g)
  PROVE  PlacesInv'
<1> DEFINE b == Bucket(bucket[g])
<1> DEFINE row(u) == buf[b].rows[u]
<1>1. /\ b \in Label /\ journal' = journal /\ posted' = posted
      /\ buf'[b].rows = EmptyMap /\ \A l \in Label \ {b} : buf'[l] = buf[l]
  BY Labels DEF Swap, journals, TypeOK
<1>2. ASSUME NEW u \in UUID
      PROVE  /\ buf'[b].rows[u] = NoRow
             /\ delivered'[u] = IF row(u) # NoRow /\ row(u) > delivered[u] THEN row(u) ELSE delivered[u]
  <2>1. delivered'[u] = Max({delivered[u]} \cup ({row(u)} \ {NoRow}))
    BY DEF Swap
  <2>2. delivered[u] \in Nat /\ row(u) \in Nat \cup {NoRow}
    BY <1>1, PlaceTypes
  <2>3. buf'[b].rows[u] = NoRow
    BY <1>1 DEF EmptyMap
  <2>4. QED
    BY <2>1, <2>2, <2>3, SentType
<1>3. NoneAbove'
  BY <1>1, <1>2 DEF PlacesInv, NoneAbove
<1>4. ASSUME NEW u \in UUID, posted[u] # 0
      PROVE  \E p : Places(u, posted[u])' = {p}
  <2>1. PICK p : Places(u, posted[u]) = {p}
    BY <1>4 DEF PlacesInv, LatestInOne
  <2>2. posted[u] # NoRow /\ posted'[u] = posted[u] /\ posted[u] \in Nat /\ delivered[u] \in Nat
    BY <1>1, PlaceTypes, VersionAssumption
  <2>3. \A q : q \in Places(u, posted[u])' <=>
          \/ q \in Label /\ buf'[q].rows[u] = posted[u]
          \/ q = "journal" /\ journal'[u] = posted[u]
          \/ q = "sent" /\ delivered'[u] = posted[u]
    BY <1>1 DEF Places
  <2>4. delivered[u] <= posted[u] /\ (row(u) # NoRow => row(u) \in Nat /\ row(u) <= posted[u])
    BY <1>1, PlaceTypes DEF PlacesInv, NoneAbove
  <2>5. CASE row(u) = posted[u]
    <3>1. Places(u, posted[u]) = {b}
      BY <1>1, <2>1, <2>5, InPlaces
    <3>2. journal[u] # posted[u] /\ delivered[u] # posted[u] /\ \A l \in Label \ {b} : buf[l].rows[u] # posted[u]
      <4>1. "journal" \notin Places(u, posted[u]) /\ "sent" \notin Places(u, posted[u])
        BY <1>1, <3>1 DEF Label
      <4>2. \A l \in Label \ {b} : l \notin Places(u, posted[u])
        BY <3>1
      <4>3. QED
        BY <4>1, <4>2, InPlaces
    <3>3. delivered'[u] = posted[u]
      BY <1>2, <2>2, <2>4, <2>5, <3>2
    <3>4. \A q : q \in Places(u, posted[u])' <=> q = "sent"
      BY <1>1, <1>2, <2>2, <2>3, <3>2, <3>3 DEF Label
    <3>5. QED
      BY <3>4
  <2>6. CASE row(u) # posted[u]
    <3>1. delivered'[u] = posted[u] <=> delivered[u] = posted[u]
      BY <1>2, <2>2, <2>4, <2>6
    <3>2. \A q : q \in Places(u, posted[u])' <=> q \in Places(u, posted[u])
      BY <1>1, <1>2, <2>2, <2>3, <2>6, <3>1, InPlaces
    <3>3. QED
      BY <2>1, <3>2
  <2>7. QED
    BY <2>5, <2>6
<1>5. LatestInOne'
  BY <1>1, <1>4 DEF LatestInOne
<1>6. QED
  BY <1>3, <1>5 DEF PlacesInv

(* A new number is above all that are somewhere.                           *)
LEMMA UpdatePlaces ==
  ASSUME TypeOK, PlacesInv, NEW w, NEW u \in UUID, Update(w, u)
  PROVE  PlacesInv'
<1>1. /\ posted' = [posted EXCEPT ![u] = Updates + 1] /\ journal' = [journal EXCEPT ![u] = Updates + 1]
      /\ buf' = buf /\ delivered' = delivered /\ Updates \in Nat /\ Updates >= posted[u]
  BY UpdatesType DEF Update, buffers, responses
<1>2. posted'[u] = Updates + 1 /\ journal'[u] = Updates + 1
  BY <1>1 DEF TypeOK, Versions
<1>3. \A v \in UUID \ {u} : posted'[v] = posted[v] /\ journal'[v] = journal[v]
  BY <1>1 DEF TypeOK, Versions
<1>4. NoneAbove'
  <2> SUFFICES ASSUME NEW v \in UUID
               PROVE  /\ delivered'[v] <= posted'[v]
                      /\ journal'[v] # NoRow => journal'[v] <= posted'[v]
                      /\ \A b \in Label : buf'[b].rows[v] # NoRow => buf'[b].rows[v] <= posted'[v]
    BY DEF NoneAbove
  <2>1. CASE v = u
    BY <1>1, <1>2, <2>1, PlaceTypes DEF PlacesInv, NoneAbove
  <2>2. CASE v # u
    BY <1>1, <1>3, <2>2 DEF PlacesInv, NoneAbove
  <2>3. QED
    BY <2>1, <2>2
<1>5. ASSUME NEW v \in UUID, posted'[v] # 0
      PROVE  \E p : Places(v, posted[v])' = {p}
  <2>1. \A q : q \in Places(v, posted[v])' <=>
          \/ q \in Label /\ buf[q].rows[v] = posted'[v]
          \/ q = "journal" /\ journal'[v] = posted'[v]
          \/ q = "sent" /\ delivered[v] = posted'[v]
    BY <1>1 DEF Places
  <2>2. CASE v = u
    <3>1. posted'[v] # NoRow
      BY <1>1, <1>2, <2>2, VersionAssumption
    <3>2. delivered[v] # posted'[v] /\ \A b \in Label : buf[b].rows[v] # posted'[v]
      BY <1>1, <1>2, <2>2, <3>1, PlaceTypes DEF PlacesInv, NoneAbove
    <3>3. \A q : q \in Places(v, posted[v])' <=> q = "journal"
      BY <1>2, <2>1, <2>2, <3>2
    <3>4. QED
      BY <3>3
  <2>3. CASE v # u
    <3>1. PICK p : Places(v, posted[v]) = {p}
      BY <1>3, <1>5, <2>3 DEF PlacesInv, LatestInOne
    <3>2. \A q : q \in Places(v, posted[v])' <=> q \in Places(v, posted[v])
      BY <1>3, <2>1, <2>3, InPlaces
    <3>3. QED
      BY <3>1, <3>2
  <2>4. QED
    BY <2>2, <2>3
<1>6. QED
  BY <1>4, <1>5 DEF PlacesInv, LatestInOne

LEMMA PlacesStep == LocksInv /\ PlacesInv /\ [Next]_vars => PlacesInv'
<1> SUFFICES ASSUME LocksInv, PlacesInv, [Next]_vars PROVE PlacesInv'
  OBVIOUS
<1>1. TypeOK /\ StepsOK /\ HeldOK /\ StatesOK
  BY DEF LocksInv
<1>2. ASSUME NEW g \in Getters, Get(g) \/ Getter(g)
      PROVE  PlacesInv'
  <2>1. CASE RecruitNow(g)
    <3>1. pc[g] = "recruit" /\ Bucket(bucket[g]) \in Label /\ g \in Handlers
      BY <2>1, Labels, Classes DEF RecruitNow
    <3>2. \A o \in Getters : pc[o] # "swap"
      BY <1>1, <3>1, Alone, Classes DEF Outside
    <3>3. buf[Bucket(bucket[g])].rows = EmptyMap
      BY <1>1, <3>1, <3>2 DEF StatesOK, Filling
    <3>4. QED
      BY <1>1, <2>1, <3>1, <3>3, RecruitPlaces DEF RecruitNow
  <2>2. CASE Swap(g)
    BY <1>1, <2>2, SwapPlaces
  <2>3. CASE ~RecruitNow(g) /\ ~Swap(g)
    BY <1>2, <2>3, PlacesKept DEF Get, Getter, LockAll, LockJournal, Lock, ChooseBuffer, LookAtBuffer,
       Turn, UnlockAll, buffers, journals, responses
  <2>4. QED
    BY <2>1, <2>2, <2>3
<1>3. ASSUME NEW w \in Writers, Write(w) \/ Writer(w)
      PROVE  PlacesInv'
  <2>1. CASE \E u \in UUID : Update(w, u)
    BY <1>1, <2>1, UpdatePlaces
  <2>2. CASE ~ \E u \in UUID : Update(w, u)
    BY <1>3, <2>2, PlacesKept DEF Write, Writer, LockAll, LockJournal, Lock, Integrity, UnlockAll,
       buffers, journals, responses
  <2>3. QED
    BY <2>1, <2>2
<1>4. CASE Ahead
  <2>1. CASE RecruitAhead
    <3>1. pc[RunAhead] = "recruit" /\ Bucket(bucket[RunAhead]) \in Label /\ RunAhead \in Handlers
      BY <2>1, Labels, Classes DEF RecruitAhead
    <3>2. \A o \in Getters : pc[o] # "swap"
      BY <1>1, <3>1, Alone, Classes DEF Outside
    <3>3. buf[Bucket(bucket[RunAhead])].rows = EmptyMap
      BY <1>1, <3>1, <3>2 DEF StatesOK, Filling
    <3>4. QED
      BY <1>1, <2>1, <3>1, <3>3, RecruitPlaces DEF RecruitAhead
  <2>2. CASE StartProcessing
    BY <1>1, <2>2, PlacesKept DEF StartProcessing, journals, responses, TypeOK
  <2>3. CASE ~RecruitAhead /\ ~StartProcessing
    BY <1>4, <2>3, PlacesKept DEF Ahead, Wake, LockAll, LockJournal, Lock, Finish,
       buffers, journals, responses
  <2>4. QED
    BY <2>1, <2>2, <2>3
<1>5. CASE Cron(FeedCron, "FEED") \/ Cron(JorCron, "JOR")
  BY <1>5, PlacesKept DEF Cron, Lock, Flush, buffers, journals, responses
<1>6. CASE UNCHANGED vars
  BY <1>6, PlacesKept DEF vars, buffers, journals, responses
<1>7. QED
  BY <1>2, <1>3, <1>4, <1>5, <1>6 DEF Next

LEMMA PlacesGiveOnePlace == LocksInv /\ PlacesInv => OnePlace
<1> SUFFICES ASSUME LocksInv, PlacesInv PROVE OnePlace
  OBVIOUS
<1>1. ASSUME NEW u \in UUID, posted[u] # 0
      PROVE  Cardinality(Places(u, posted[u])) = 1
  <2>1. PICK p : Places(u, posted[u]) = {p}
    BY <1>1 DEF PlacesInv, LatestInOne
  <2>2. QED
    BY <2>1, FS_Singleton
<1>2. ASSUME NEW b \in Label, buf[b].state = "EMPTY", buf[b].rows # EmptyMap
      PROVE  \E g \in Getters : owner[b] = g /\ pc[g] = "swap"
  <2>1. PICK g \in Getters : pc[g] = "swap" /\ b = Bucket(bucket[g])
    BY <1>2 DEF LocksInv, StatesOK
  <2>2. Holds(g, b) /\ g \in Threads /\ b \in Mutex
    BY <2>1, Classes DEF Holds, Mutex
  <2>3. QED
    BY <2>1, <2>2 DEF LocksInv, HeldOK
<1>3. QED
  BY <1>1, <1>2 DEF OnePlace

(* However many workers poll and update, the latest update of a uuid is in *)
(* the journal, in one buffer or in a response, and no buffer that counts  *)
(* as EMPTY holds rows.                                                    *)
THEOREM OnePlaceCorrect == Spec => []OnePlace
<1>1. Spec => []PlacesInv
  BY PlacesInit, PlacesStep, LocksAlways, PTL DEF Spec
<1>2. QED
  BY <1>1, LocksAlways, PlacesGiveOnePlace, PTL
=============================================================================
