------------------------------ MODULE Dispatch ------------------------------
(***************************************************************************)
(* The threads of the server around the double buffer of CLIENT: the HTTP  *)
(* workers that run dispatch (GET) and update (POST, PUT, DELETE), the     *)
(* detached runAhead thread that fills a buffer ahead of the next GET, and *)
(* the cron threads of the two database connections.                       *)
(*                                                                         *)
(* A journal row is the number of the update that wrote it last, so that   *)
(* an older row can be told from a newer one; the journal is the one map   *)
(* JournalRefinement proves the pending list, pool and table to be.        *)
(*                                                                         *)
(* Each blocking lock() is a step.  The unlocks that end a critical        *)
(* section are one step with what precedes them: a release blocks nobody.  *)
(* Nothing is locked inside a critical section of NEXT_MUTEX, so each of   *)
(* these sections is a single step and the mutex needs no owner.           *)
(***************************************************************************)
EXTENDS JournalRows, FiniteSetsExt

CONSTANTS
  Getters, Writers,        \* HTTP workers
  RunAhead,                \* the runAhead thread
  FeedCron, JorCron,       \* the cron threads
  Nobody,                  \* the owner of a free mutex
  MAX_MESSAGE_TO_UPDATE,   \* rows in one batch
  MaxUpdates               \* bound: no request to update starts after this many updates

Workers == Getters \cup Writers
Crons   == {FeedCron, JorCron}
Threads == Workers \cup Crons \cup {RunAhead}

ASSUME ThreadAssumption ==
  /\ Getters \cap Writers = {}
  /\ FeedCron # JorCron /\ Crons \cap Workers = {}
  /\ RunAhead \notin Workers \cup Crons
  /\ Nobody \notin Threads
ASSUME VersionAssumption == NoRow \notin Nat
ASSUME BoundAssumption == MAX_MESSAGE_TO_UPDATE \in Nat \ {0} /\ MaxUpdates \in Nat

Label == {"A", "B"}
Mutex == Label \cup {"DP", "DISK", "FEED", "PENDING", "JOR"}

VARIABLES
  owner,                  \* who holds each mutex
  pc,                     \* the next step of each thread, a mutex name if it is to lock it
  bucket,                 \* currentBucket of dispatch and of runAhead
  nextToStream, reqRunAhead,
  buf,                    \* per buffer, its state, rows and reqNewJn
  journal, reqNewJournalVersion,
  posted,                 \* per uuid, the number of its latest update
  delivered,              \* per uuid, the greatest number sent in a response
  reply, status           \* rows and code of the latest GET response

buffers   == <<bucket, nextToStream, reqRunAhead, buf>>
journals  == <<journal, reqNewJournalVersion, posted>>
responses == <<delivered, reply, status>>
vars == <<owner, pc, buffers, journals, responses>>

Updates == Max({posted[u] : u \in UUID} \cup {0})
Cleaning(t) == pc[t] # "off"
-----------------------------------------------------------------------------
Goto(t, step) == pc' = [pc EXCEPT ![t] = step]

(* Wait for mutex m, then go on at step.                                   *)
Lock(t, m, step) ==
  /\ pc[t] = m
  /\ owner[m] = Nobody
  /\ owner' = [owner EXCEPT ![m] = t]
  /\ Goto(t, step)
  /\ UNCHANGED <<buffers, journals, responses>>

Unlock(t, ms) == owner' = [m \in Mutex |-> IF m \in ms /\ owner[m] = t THEN Nobody ELSE owner[m]]
All == {"DP", "DISK", "FEED"}

(* Slip: lockAll forgets the feed connection.                              *)
LockAllButFeed(t, step) == Lock(t, "DP", "DISK") \/ Lock(t, "DISK", step)

(* lockAll, for a thread that goes on at step.                             *)
LockAll(t, step) == Lock(t, "DP", "DISK") \/ Lock(t, "DISK", "FEED") \/ Lock(t, "FEED", step)

(* PENDING_MUTEX and the journal's DBMUTEX, for a thread that goes on at   *)
(* step.                                                                   *)
LockJournal(t, step) == Lock(t, "PENDING", "JOR") \/ Lock(t, "JOR", step)

UnlockAll(t) ==
  /\ pc[t] = "unlock"
  /\ Unlock(t, All)
  /\ Goto(t, "idle")
  /\ UNCHANGED <<buffers, journals, responses>>

-----------------------------------------------------------------------------
(* The rows recruit takes: the smallest, and no more than a batch holds.   *)
BatchOf(m) ==
  LET n == Cardinality(Keys(m))
      S == CHOOSE P \in SUBSET Keys(m) :
             /\ IsPrefixSet(P, Keys(m))
             /\ Cardinality(P) = IF n < MAX_MESSAGE_TO_UPDATE THEN n ELSE MAX_MESSAGE_TO_UPDATE
  IN  Only(m, S)

(* Slip: the whole journal is cleared, not the rows handed over.           *)
RecruitClearingAll(t, b, final) ==
  /\ buf' = [buf EXCEPT ![b] = [state |-> final, rows |-> BatchOf(journal),
                                reqNewJn |-> reqNewJournalVersion]]
  /\ journal' = EmptyMap
  /\ reqNewJournalVersion' = FALSE
  /\ Unlock(t, {"PENDING", "JOR"})
  /\ UNCHANGED <<bucket, nextToStream, reqRunAhead, posted, responses>>

(* recruit into buffer b, left in state final, journal locks released.     *)
Recruit(t, b, final) ==
  /\ buf' = [buf EXCEPT ![b] = [state |-> final, rows |-> BatchOf(journal),
                                reqNewJn |-> reqNewJournalVersion]]
  /\ journal' = Only(journal, UUID \ Keys(BatchOf(journal)))
  /\ reqNewJournalVersion' = FALSE
  /\ Unlock(t, {"PENDING", "JOR"})
  /\ UNCHANGED <<bucket, nextToStream, reqRunAhead, posted, responses>>

(* Slip: the default of the choice is left out.                            *)
BucketAsIs(label) == label

(* nextToStream is read before anything sets it: whatever was there counts *)
(* as B, in (currentBucket == A) ? ... : ... and after it.                 *)
Bucket(label) == IF label = "A" THEN "A" ELSE "B"
After(label)  == IF label = "B" THEN "A" ELSE "B"
-----------------------------------------------------------------------------
(* getMethod, with dispatch                                                *)
Get(g) ==
  /\ pc[g] = "idle"
  /\ Goto(g, "DP")
  /\ UNCHANGED <<owner, buffers, journals, responses>>

ChooseBuffer(g) ==
  /\ pc[g] = "next"
  /\ bucket' = [bucket EXCEPT ![g] = nextToStream]
  /\ reqRunAhead' = FALSE
  /\ Goto(g, Bucket(nextToStream))
  /\ UNCHANGED <<owner, nextToStream, buf, journals, responses>>

(* Slip: dispatch waits while the buffer is READY.                         *)
WaitWhileReady(g) ==
  LET b == Bucket(bucket[g])
  IN  /\ pc[g] = "look"
      /\ Goto(g, CASE buf[b].state = "EMPTY"      -> "PENDING"
                   [] buf[b].state = "PROCESSING" -> "swap"
                   [] buf[b].state = "READY"      -> b)
      /\ Unlock(g, IF buf[b].state = "READY" THEN {b} ELSE {})
      /\ UNCHANGED <<buffers, journals, responses>>

(* A wait for a buffer in PROCESSING gives its mutex back and looks again. *)
LookAtBuffer(g) ==
  LET b == Bucket(bucket[g])
  IN  /\ pc[g] = "look"
      /\ Goto(g, CASE buf[b].state = "EMPTY"      -> "PENDING"
                   [] buf[b].state = "PROCESSING" -> b
                   [] buf[b].state = "READY"      -> "swap")
      /\ Unlock(g, IF buf[b].state = "PROCESSING" THEN {b} ELSE {})
      /\ UNCHANGED <<buffers, journals, responses>>

RecruitNow(g) ==
  /\ pc[g] = "recruit"
  /\ Recruit(g, Bucket(bucket[g]), "EMPTY")
  /\ Goto(g, "swap")

(* reqNewJor is set from the address of the buffer's flag, which is never  *)
(* null: the code of every response is 201.                                *)
Swap(g) ==
  LET b == Bucket(bucket[g])
  IN  /\ pc[g] = "swap"
      /\ reply' = buf[b].rows
      /\ status' = 201
      /\ delivered' = [u \in UUID |-> Max({delivered[u]} \cup ({reply'[u]} \ {NoRow}))]
      /\ buf' = [buf EXCEPT ![b].state = "EMPTY", ![b].rows = EmptyMap]
      /\ Unlock(g, {b})
      /\ Goto(g, "turn")
      /\ UNCHANGED <<bucket, nextToStream, reqRunAhead, journals>>

(* The run-ahead is only asked for after a batch that held something.      *)
Turn(g) ==
  /\ pc[g] = "turn"
  /\ nextToStream' = After(bucket[g])
  /\ reqRunAhead' = (reply # EmptyMap)
  /\ Goto(g, "unlock")
  /\ UNCHANGED <<owner, bucket, buf, journals, responses>>

Getter(g) ==
  \/ LockAll(g, "next")
  \/ ChooseBuffer(g)
  \/ \E b \in Label : Lock(g, b, "look")
  \/ LookAtBuffer(g)
  \/ LockJournal(g, "recruit")
  \/ RecruitNow(g)
  \/ Swap(g)
  \/ Turn(g)
  \/ UnlockAll(g)

-----------------------------------------------------------------------------
(* postHandler, putHandler and deleteHandler, with update                  *)
Write(w) ==
  /\ pc[w] = "idle"
  /\ Updates < MaxUpdates
  /\ Goto(w, "DP")
  /\ UNCHANGED <<owner, buffers, journals, responses>>

(* The integrity check sends 409 or 404 away; a database push of an        *)
(* accepted request may start the feed cron.                               *)
Integrity(w) ==
  /\ pc[w] = "integrity"
  /\ \/ Goto(w, "unlock")
     \/ \E cron \in {pc[FeedCron], IF Cleaning(FeedCron) THEN pc[FeedCron] ELSE "FEED"} :
          pc' = [pc EXCEPT ![w] = "PENDING", ![FeedCron] = cron]
  /\ UNCHANGED <<owner, buffers, journals, responses>>

Update(w, u) ==
  /\ pc[w] = "update"
  /\ reqNewJournalVersion' = TRUE
  /\ posted' = [posted EXCEPT ![u] = Updates + 1]
  /\ journal' = [journal EXCEPT ![u] = Updates + 1]
  /\ \E cron \in {pc[JorCron], IF Cleaning(JorCron) THEN pc[JorCron] ELSE "JOR"} :
       pc' = [pc EXCEPT ![w] = "unlock", ![JorCron] = cron]
  /\ Unlock(w, {"PENDING", "JOR"})
  /\ UNCHANGED <<buffers, responses>>

Writer(w) ==
  \/ LockAll(w, "integrity")
  \/ Integrity(w)
  \/ LockJournal(w, "update")
  \/ \E u \in UUID : Update(w, u)
  \/ UnlockAll(w)

-----------------------------------------------------------------------------
(* runAhead: the bucket is read when the signal comes, the locks are       *)
(* waited for after that.                                                  *)
Wake ==
  /\ pc[RunAhead] = "asleep"
  /\ reqRunAhead
  /\ reqRunAhead' = FALSE
  /\ bucket' = [bucket EXCEPT ![RunAhead] = nextToStream]
  /\ Goto(RunAhead, "DP")
  /\ UNCHANGED <<owner, nextToStream, buf, journals, responses>>

(* Slip: the handlers' mutexes are given back before the recruit.          *)
StartAndUnlock ==
  LET b == Bucket(bucket[RunAhead])
  IN  /\ pc[RunAhead] = "look"
      /\ IF buf[b].state = "EMPTY"
         THEN buf' = [buf EXCEPT ![b].state = "PROCESSING"] /\ Goto(RunAhead, "PENDING")
         ELSE Goto(RunAhead, "finish") /\ UNCHANGED buf
      /\ Unlock(RunAhead, All)
      /\ UNCHANGED <<bucket, nextToStream, reqRunAhead, journals, responses>>

StartProcessing ==
  LET b == Bucket(bucket[RunAhead])
  IN  /\ pc[RunAhead] = "look"
      /\ IF buf[b].state = "EMPTY"
         THEN buf' = [buf EXCEPT ![b].state = "PROCESSING"] /\ Goto(RunAhead, "PENDING")
         ELSE Goto(RunAhead, "finish") /\ UNCHANGED buf
      /\ UNCHANGED <<owner, bucket, nextToStream, reqRunAhead, journals, responses>>

(* Slip: a filled buffer is not marked as READY.                           *)
RecruitAheadUnmarked ==
  /\ pc[RunAhead] = "recruit"
  /\ Recruit(RunAhead, Bucket(bucket[RunAhead]), "EMPTY")
  /\ Goto(RunAhead, "finish")

RecruitAhead ==
  /\ pc[RunAhead] = "recruit"
  /\ Recruit(RunAhead, Bucket(bucket[RunAhead]), "READY")
  /\ Goto(RunAhead, "finish")

Finish ==
  /\ pc[RunAhead] = "finish"
  /\ Unlock(RunAhead, All \cup Label)
  /\ Goto(RunAhead, "asleep")
  /\ UNCHANGED <<buffers, journals, responses>>

Ahead ==
  \/ Wake
  \/ LockAll(RunAhead, Bucket(bucket[RunAhead]))
  \/ \E b \in Label : Lock(RunAhead, b, "look")
  \/ StartProcessing
  \/ LockJournal(RunAhead, "recruit")
  \/ RecruitAhead
  \/ Finish

-----------------------------------------------------------------------------
(* cronJob of either connection: its flush moves rows the journal already  *)
(* counts.                                                                 *)
Flush(t, m) ==
  /\ pc[t] = "flush"
  /\ Unlock(t, {m})
  /\ Goto(t, "off")
  /\ UNCHANGED <<buffers, journals, responses>>

Cron(t, m) == Lock(t, m, "flush") \/ Flush(t, m)
-----------------------------------------------------------------------------
Init ==
  /\ owner = [m \in Mutex |-> Nobody]
  /\ pc = [t \in Threads |-> CASE t \in Workers -> "idle"
                               [] t \in Crons   -> "off"
                               [] t = RunAhead  -> "asleep"]
  /\ bucket = [t \in Getters \cup {RunAhead} |-> "A"]
  /\ nextToStream \in Label \cup {"junk"}
  /\ reqRunAhead = FALSE
  /\ \E flag \in [Label -> BOOLEAN] :
       buf = [b \in Label |-> [state |-> "EMPTY", rows |-> EmptyMap, reqNewJn |-> flag[b]]]
  /\ journal = EmptyMap
  /\ reqNewJournalVersion = TRUE
  /\ posted = [u \in UUID |-> 0]
  /\ delivered = [u \in UUID |-> 0]
  /\ reply = EmptyMap
  /\ status = 0

Next ==
  \/ \E g \in Getters : Get(g) \/ Getter(g)
  \/ \E w \in Writers : Write(w) \/ Writer(w)
  \/ Ahead
  \/ Cron(FeedCron, "FEED")
  \/ Cron(JorCron, "JOR")

Spec == Init /\ [][Next]_vars

(* A thread that can go on does.  Nothing makes a client send a request,   *)
(* and a std::mutex is not fair: a thread only gets one that nobody keeps  *)
(* taking from it.                                                         *)
FairSpec ==
  /\ Spec
  /\ \A g \in Getters : WF_vars(Getter(g))
  /\ \A w \in Writers : WF_vars(Writer(w))
  /\ WF_vars(Ahead)
  /\ WF_vars(Cron(FeedCron, "FEED"))
  /\ WF_vars(Cron(JorCron, "JOR"))

-----------------------------------------------------------------------------
Steps == Mutex \cup {"idle", "off", "asleep", "next", "look", "recruit", "swap", "turn",
                     "integrity", "update", "finish", "flush", "unlock"}
Versions == [UUID -> Nat \cup {NoRow}]

(* Every variable holds a value of its C++ type, and a mutex at most one   *)
(* owner.                                                                  *)
TypeOK ==
  /\ owner \in [Mutex -> Threads \cup {Nobody}]
  /\ pc \in [Threads -> Steps]
  /\ bucket \in [Getters \cup {RunAhead} -> Label \cup {"junk"}]
  /\ nextToStream \in Label \cup {"junk"}
  /\ reqRunAhead \in BOOLEAN
  /\ buf \in [Label -> [state : {"EMPTY", "PROCESSING", "READY"}, rows : Versions,
                         reqNewJn : BOOLEAN]]
  /\ journal \in Versions
  /\ reqNewJournalVersion \in BOOLEAN
  /\ posted \in [UUID -> Nat] /\ delivered \in [UUID -> Nat]
  /\ reply \in Versions
  /\ status \in {0, 200, 201}

(* Where the number n of uuid u is: the journal, a buffer, or sent.        *)
Places(u, n) == {b \in Label : buf[b].rows[u] = n}
                \cup {p \in {"journal"} : journal[u] = n}
                \cup {p \in {"sent"} : delivered[u] = n}

(* The latest update of a uuid is in one place: however dispatch, update   *)
(* and runAhead interleave, it is neither lost between the journal and the *)
(* response nor kept to be sent twice, and no buffer holds rows while it   *)
(* counts as EMPTY and may be overwritten.                                 *)
OnePlace ==
  /\ \A u \in UUID : posted[u] # 0 => Cardinality(Places(u, posted[u])) = 1
  /\ \A b \in Label : buf[b].state = "EMPTY" /\ buf[b].rows # EmptyMap =>
       \E g \in Getters : owner[b] = g /\ pc[g] = "swap"

(* The wait of dispatch for a buffer in PROCESSING never happens: runAhead *)
(* holds the data pool's mutex for as long as the state lasts, and no GET  *)
(* is past lockAll then.  A run-ahead that let go of a lock earlier would  *)
(* make the branch live, and with it the lock order it implies.            *)
NeverWaits ==
  \A b \in Label : buf[b].state = "PROCESSING" =>
    /\ owner["DP"] = RunAhead /\ owner[b] = RunAhead
    /\ \A g \in Getters : pc[g] \in {"idle", "DP"}

(* Whoever touches the feed pool, the disk or the data pool of the other   *)
(* classes holds their mutexes: no handler, run-ahead or cron flush is     *)
(* among their critical sections at once.                                  *)
Exclusive ==
  /\ \A t \in Workers \cup {RunAhead} :
       pc[t] \notin {"idle", "asleep", "DP", "DISK", "FEED"} =>
         owner["DP"] = t /\ owner["DISK"] = t /\ owner["FEED"] = t
  /\ \A t \in Threads : pc[t] \in {"recruit", "update"} => owner["PENDING"] = t /\ owner["JOR"] = t
  /\ pc[FeedCron] = "flush" => owner["FEED"] = FeedCron
  /\ pc[JorCron] = "flush" => owner["JOR"] = JorCron

(* Every request is answered, unless the others' requests never end: no    *)
(* worker waits for ever for a mutex, a buffer or the run-ahead, but       *)
(* std::mutex lets a stream of other requests overtake it.                 *)
Arrive(t) == (t \in Getters /\ Get(t)) \/ (t \in Writers /\ Write(t))
Answered ==
  \A t \in Workers : \/ []<><<\E o \in Workers \ {t} : Arrive(o)>>_vars
                     \/ (pc[t] # "idle" ~> pc[t] = "idle")

(* Every update, or a later one of its uuid, reaches a client that goes on *)
(* polling, in whatever buffer a late run-ahead has put it.                *)
EveryUpdateSent ==
  []<><<\E g \in Getters : Swap(g)>>_vars =>
    \A u \in UUID, n \in 1 .. MaxUpdates + Cardinality(Writers) :
      posted[u] = n ~> delivered[u] >= n

(* "var group to indicate what is next buffer to runAhead" (client.h): the *)
(* buffer runAhead fills is the one to be streamed next.                   *)
RunAheadFillsNext == [][RecruitAhead => Bucket(bucket[RunAhead]) = Bucket(nextToStream)]_vars
=============================================================================
