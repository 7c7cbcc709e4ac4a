------------------------ MODULE KnowledgeLifecycleProofs ------------------------
(***************************************************************************)
(* Theorems about KnowledgeLifecycle, for every number of documents,       *)
(* workers, handlers, batches and attempts.                                *)
(***************************************************************************)
EXTENDS KnowledgeLifecycle, TLAPS

\* A version that does not exist has no job.
Documented == \A d \in Documents : publication[d] = "NONE" => job[d].status = "NONE" /\ job[d].id = 0

\* What the steps of a handler have established.
Reading ==
    \A h \in Handlers :
        /\ request[h].at \notin {"idle", "cleanup"} => request[h].doc \in Documents
        /\ request[h].at \in {"publish", "retry"} => publication[request[h].doc] # "NONE"
        /\ request[h].at \in {"embed", "indexed", "failed"} => request[h].doc \in direct
        /\ request[h].at = "indexed" =>
               request[h].doc \in retired \/ vectors[request[h].doc] = 1..Batches
        /\ request[h].cleanup \subseteq retired

\* The batches a worker has written: nothing but the cleanup of a retired
\* document takes them away again.
Written(w) ==
    CASE worker[w].at = "upsert" -> 1..(worker[w].batch - 1)
      [] worker[w].at = "renew" -> 1..worker[w].batch
      [] worker[w].at = "complete" -> 1..Batches
      [] OTHER -> {}

Working ==
    \A w \in Workers : worker[w].at # "idle" =>
        /\ worker[w].doc \in Documents
        /\ worker[w].batch \in 1..Batches
        /\ worker[w].doc \in retired \/ Written(w) \subseteq vectors[worker[w].doc]

IndexedIsComplete ==
    \A d \in Documents : index[d] = "INDEXED" => d \in retired \/ vectors[d] = 1..Batches

RetiredIsRemembered == \A d \in Documents : publication[d] = "RETIRED" => d \in retired

Inv == /\ TypeOK /\ Documented /\ Reading /\ Working /\ IndexedIsComplete
       /\ RetiredIsRemembered /\ IndexStatusFollowsJob /\ AtMostOnePublished

LEMMA InvInit == Init => Inv
BY BoundsAssumption, NoneAssumption
   DEF Init, Inv, TypeOK, Documented, Reading, Working, IndexedIsComplete, RetiredIsRemembered,
       IndexStatusFollowsJob, AtMostOnePublished, Publications, IndexStatuses, Jobs, Tasks,
       Requests, NoJob, NoTask, NoRequest

LEMMA RecordTypes ==
    /\ NoTask \in Tasks
    /\ NoRequest \in Requests
    /\ \A documents \in SUBSET Documents : Removing(documents) \in Requests
    /\ \A d \in Documents : Embedding(d) \in Requests
BY BoundsAssumption DEF NoTask, Tasks, NoRequest, Requests, Removing, Embedding,
   Publications, IndexStatuses

LEMMA ReleasedJob ==
    ASSUME NEW j \in Jobs, NEW s \in {"PENDING", "SUCCEEDED", "FAILED"}
    PROVE  Released(j, s) \in Jobs /\ Released(j, s).status = s
BY DEF Released, Jobs

LEMMA ClaimedJob ==
    ASSUME NEW j \in Jobs, j.attempts < MaxAttempts, NEW w \in Workers
    PROVE  Claimed(j, w) \in Jobs /\ Claimed(j, w).status = "RUNNING"
BY BoundsAssumption DEF Claimed, Jobs

LEMMA UploadKeepsInv ==
    ASSUME Inv, NEW d \in Documents, Upload(d) PROVE Inv'
<1> USE DEF Inv, Upload, Enqueued, NoJob, history
<1>1. TypeOK'
  BY BoundsAssumption DEF TypeOK, IndexStatuses, Publications, Jobs, Tasks, Requests,
     Documented
<1>2. Documented'
  BY DEF TypeOK, Documented
<1>3. Reading'
  BY DEF TypeOK, Reading
<1>4. IndexedIsComplete'
  BY DEF TypeOK, IndexedIsComplete
<1>5. RetiredIsRemembered'
  BY DEF TypeOK, RetiredIsRemembered
<1>6. IndexStatusFollowsJob'
  BY DEF TypeOK, IndexStatusFollowsJob, StatusOf, Jobs, Documented
<1>7. AtMostOnePublished'
  BY DEF TypeOK, AtMostOnePublished
<1>8. Working'
  BY DEF Working, Written
<1> QED BY <1>1, <1>2, <1>3, <1>4, <1>5, <1>6, <1>7, <1>8

LEMMA ClaimKeepsInv ==
    ASSUME Inv, NEW w \in Workers, Claim(w) PROVE Inv'
<1> USE DEF Inv, Claim, Leased, Claimable, Exhausted, history
<1>1. TypeOK'
  BY BoundsAssumption, ClaimedJob, ReleasedJob DEF TypeOK, IndexStatuses, Publications,
     Jobs, Tasks, Requests
<1>2. Documented'
  BY DEF TypeOK, Documented, Active
<1>3. Working'
  BY BoundsAssumption DEF TypeOK, Working, Written, Tasks
<1>4. IndexedIsComplete'
  BY DEF TypeOK, IndexedIsComplete
<1>5. IndexStatusFollowsJob'
  BY ClaimedJob, ReleasedJob DEF TypeOK, IndexStatusFollowsJob, StatusOf
<1>6. Reading' /\ RetiredIsRemembered' /\ AtMostOnePublished'
  BY DEF Reading, RetiredIsRemembered, AtMostOnePublished
<1> QED BY <1>1, <1>2, <1>3, <1>4, <1>5, <1>6

LEMMA FinishExhaustedKeepsInv ==
    ASSUME Inv, NEW w \in Workers, FinishExhausted(w) PROVE Inv'
<1> USE DEF Inv, FinishExhausted, Leased, Claimable, Exhausted, history
<1>1. TypeOK'
  BY BoundsAssumption, ReleasedJob DEF TypeOK, IndexStatuses, Publications, Jobs, Tasks,
     Requests
<1>2. Documented'
  BY DEF TypeOK, Documented, Active
<1>3. IndexedIsComplete'
  BY DEF TypeOK, IndexedIsComplete
<1>4. IndexStatusFollowsJob'
  BY ClaimedJob, ReleasedJob DEF TypeOK, IndexStatusFollowsJob, StatusOf
<1>5. Reading' /\ Working' /\ RetiredIsRemembered' /\ AtMostOnePublished'
  BY DEF Reading, Working, RetiredIsRemembered, AtMostOnePublished, Written
<1> QED BY <1>1, <1>2, <1>3, <1>4, <1>5

LEMMA UpsertKeepsInv ==
    ASSUME Inv, NEW w \in Workers, Upsert(w) PROVE Inv'
<1> USE DEF Inv, Upsert, records, history
<1>1. TypeOK'
  BY BoundsAssumption DEF TypeOK, IndexStatuses, Publications, Jobs, Tasks, Requests,
     Working
<1>2. Reading'
  <2>1. \A d \in Documents : vectors[d] = 1..Batches => vectors'[d] = 1..Batches
    BY DEF TypeOK, Working
  <2> QED BY <2>1 DEF TypeOK, Reading
<1>3. Working'
  BY BoundsAssumption DEF TypeOK, Working, Written, Tasks
<1>4. IndexedIsComplete'
  <2>1. \A d \in Documents : vectors[d] = 1..Batches => vectors'[d] = 1..Batches
    BY DEF TypeOK, Working
  <2> QED BY <2>1 DEF TypeOK, IndexedIsComplete
<1>5. Documented' /\ RetiredIsRemembered' /\ IndexStatusFollowsJob' /\
         AtMostOnePublished'
  BY DEF Documented, RetiredIsRemembered, IndexStatusFollowsJob, AtMostOnePublished,
     StatusOf
<1> QED BY <1>1, <1>2, <1>3, <1>4, <1>5

LEMMA BatchFailsKeepsInv ==
    ASSUME Inv, NEW w \in Workers, BatchFails(w) PROVE Inv'
<1> USE DEF Inv, BatchFails, records, history
<1>1. TypeOK'
  <2>1. PICK retryable \in BOOLEAN :
          worker' = [worker EXCEPT ![w].at = "fail", ![w].retryable = retryable]
    BY DEF BatchFails
  <2>2. worker[w] \in Tasks
    BY DEF TypeOK
  <2>3. [worker[w] EXCEPT !.at = "fail", !.retryable = retryable] \in Tasks
    BY <2>2 DEF Tasks
  <2>4. worker' \in [Workers -> Tasks]
    BY <2>1, <2>3 DEF TypeOK
  <2> QED BY <2>4 DEF TypeOK
<1>2. Working'
  BY BoundsAssumption DEF TypeOK, Working, Written, Tasks
<1>3. Documented' /\ Reading' /\ IndexedIsComplete' /\ RetiredIsRemembered' /\
         IndexStatusFollowsJob' /\ AtMostOnePublished'
  BY DEF Documented, Reading, IndexedIsComplete, RetiredIsRemembered,
     IndexStatusFollowsJob, AtMostOnePublished, StatusOf
<1> QED BY <1>1, <1>2, <1>3

LEMMA RenewKeepsInv ==
    ASSUME Inv, NEW w \in Workers, Renew(w) PROVE Inv'
<1> USE DEF Inv, Renew, LeaseLost, MoreBatches, records, history
<1>1. TypeOK'
  <2>1. worker[w] \in Tasks /\ worker[w].batch \in 1..Batches
    BY DEF TypeOK, Working
  <2>2. worker[w].batch < Batches => worker[w].batch + 1 \in 0..Batches
    BY <2>1, BoundsAssumption
  <2>3. /\ [worker[w] EXCEPT !.at = "complete"] \in Tasks
        /\ \A b \in 0..Batches : [worker[w] EXCEPT !.at = "upsert", !.batch = b] \in Tasks
    BY <2>1 DEF Tasks
  <2>4. worker' \in [Workers -> Tasks]
    BY <2>2, <2>3, RecordTypes DEF TypeOK
  <2> QED BY <2>4 DEF TypeOK
<1>2. Working'
  BY BoundsAssumption DEF TypeOK, Working, Written, Tasks, NoTask
<1>3. Documented' /\ Reading' /\ IndexedIsComplete' /\ RetiredIsRemembered' /\
         IndexStatusFollowsJob' /\ AtMostOnePublished'
  BY DEF Documented, Reading, IndexedIsComplete, RetiredIsRemembered,
     IndexStatusFollowsJob, AtMostOnePublished, StatusOf
<1> QED BY <1>1, <1>2, <1>3

LEMMA FailKeepsInv ==
    ASSUME Inv, NEW w \in Workers, Fail(w) PROVE Inv'
<1> USE DEF Inv, Fail, LeaseLost, LiveLease, records, history
<1>1. TypeOK'
  <2>1. worker[w].doc \in Documents
    BY DEF Working
  <2>2. index' \in [Documents -> IndexStatuses] /\ worker' \in [Workers -> Tasks]
    BY <2>1, RecordTypes DEF TypeOK, IndexStatuses
  <2>3. job' \in [Documents -> Jobs]
    BY <2>1, ReleasedJob DEF TypeOK
  <2> QED BY <2>2, <2>3 DEF TypeOK
<1>2. Documented'
  BY DEF TypeOK, Documented, Working
<1>3. Working'
  BY BoundsAssumption DEF TypeOK, Working, Written, Tasks, NoTask
<1>4. IndexedIsComplete'
  BY DEF TypeOK, IndexedIsComplete, Working, Written
<1>5. IndexStatusFollowsJob'
  BY ReleasedJob DEF TypeOK, IndexStatusFollowsJob, StatusOf, Working
<1>6. Reading' /\ RetiredIsRemembered' /\ AtMostOnePublished'
  BY DEF Reading, RetiredIsRemembered, AtMostOnePublished
<1> QED BY <1>1, <1>2, <1>3, <1>4, <1>5, <1>6

LEMMA CompleteKeepsInv ==
    ASSUME Inv, NEW w \in Workers, Complete(w) PROVE Inv'
<1> USE DEF Inv, Complete, LeaseLost, LiveLease, records, history
<1>1. TypeOK'
  <2>1. worker[w].doc \in Documents
    BY DEF Working
  <2>2. index' \in [Documents -> IndexStatuses] /\ worker' \in [Workers -> Tasks]
    BY <2>1, RecordTypes DEF TypeOK, IndexStatuses
  <2>3. job' \in [Documents -> Jobs]
    BY <2>1, ReleasedJob DEF TypeOK
  <2> QED BY <2>2, <2>3 DEF TypeOK
<1>2. Documented'
  BY DEF TypeOK, Documented, Working
<1>3. Working'
  BY BoundsAssumption DEF TypeOK, Working, Written, Tasks, NoTask
<1>4. IndexedIsComplete'
  BY DEF TypeOK, IndexedIsComplete, Working, Written
<1>5. IndexStatusFollowsJob'
  BY ReleasedJob DEF TypeOK, IndexStatusFollowsJob, StatusOf, Working
<1>6. Reading' /\ RetiredIsRemembered' /\ AtMostOnePublished'
  BY DEF Reading, RetiredIsRemembered, AtMostOnePublished
<1> QED BY <1>1, <1>2, <1>3, <1>4, <1>5, <1>6

LEMMA WorkerCrashKeepsInv ==
    ASSUME Inv, NEW w \in Workers, WorkerCrash(w) PROVE Inv'
<1> USE DEF Inv, WorkerCrash, records, history
<1>1. TypeOK'
  BY BoundsAssumption, RecordTypes DEF TypeOK, IndexStatuses, Publications, Jobs, Tasks,
     Requests
<1>2. Working'
  BY BoundsAssumption DEF TypeOK, Working, Written, Tasks, NoTask
<1>3. Documented' /\ Reading' /\ IndexedIsComplete' /\ RetiredIsRemembered' /\
         IndexStatusFollowsJob' /\ AtMostOnePublished'
  BY DEF Documented, Reading, IndexedIsComplete, RetiredIsRemembered,
     IndexStatusFollowsJob, AtMostOnePublished, StatusOf
<1> QED BY <1>1, <1>2, <1>3

LEMMA ElapseKeepsInv ==
    ASSUME Inv, NEW d \in Documents, Elapse(d) PROVE Inv'
<1> USE DEF Inv, Elapse, Active, history
<1>1. TypeOK'
  <2>1. [job[d] EXCEPT !.due = TRUE] \in Jobs
    BY DEF TypeOK, Jobs
  <2> QED BY <2>1 DEF TypeOK
<1>2. Documented'
  BY DEF TypeOK, Documented, Jobs
<1>3. IndexStatusFollowsJob'
  BY DEF TypeOK, IndexStatusFollowsJob, StatusOf, Jobs
<1>4. Reading' /\ Working' /\ IndexedIsComplete' /\ RetiredIsRemembered' /\
         AtMostOnePublished'
  BY DEF Reading, Working, IndexedIsComplete, RetiredIsRemembered, AtMostOnePublished,
     Written
<1> QED BY <1>1, <1>2, <1>3, <1>4

LEMMA PublishReadKeepsInv ==
    ASSUME Inv, NEW h \in Handlers, NEW d \in Documents, PublishRead(h, d) PROVE Inv'
<1> USE DEF Inv, PublishRead, HasRead, Idle, records, history
<1>1. TypeOK'
  BY BoundsAssumption DEF TypeOK, IndexStatuses, Publications, Jobs, Tasks, Requests
<1>2. Reading'
  BY DEF TypeOK, Reading
<1>3. Documented' /\ Working' /\ IndexedIsComplete' /\ RetiredIsRemembered' /\
         IndexStatusFollowsJob' /\ AtMostOnePublished'
  BY DEF Documented, Working, IndexedIsComplete, RetiredIsRemembered,
     IndexStatusFollowsJob, AtMostOnePublished, Written, StatusOf
<1> QED BY <1>1, <1>2, <1>3

LEMMA RetireKeepsInv ==
    ASSUME Inv, NEW h \in Handlers, NEW d \in Documents, Retire(h, d) PROVE Inv'
<1> USE DEF Inv, Retire, Removing, Active, Stopped, history
<1>1. TypeOK'
  BY BoundsAssumption, ReleasedJob, RecordTypes DEF TypeOK, IndexStatuses, Publications,
     Jobs, Tasks, Requests
<1>2. Documented'
  BY DEF TypeOK, Documented
<1>3. Reading'
  BY DEF TypeOK, Reading
<1>4. Working'
  BY BoundsAssumption DEF TypeOK, Working, Written, Tasks
<1>5. IndexedIsComplete'
  BY DEF TypeOK, IndexedIsComplete
<1>6. RetiredIsRemembered'
  BY DEF TypeOK, RetiredIsRemembered
<1>7. IndexStatusFollowsJob'
  BY ReleasedJob DEF TypeOK, IndexStatusFollowsJob, StatusOf
<1>8. AtMostOnePublished'
  BY DEF TypeOK, AtMostOnePublished
<1> QED BY <1>1, <1>2, <1>3, <1>4, <1>5, <1>6, <1>7, <1>8

LEMMA RetryCleanupKeepsInv ==
    ASSUME Inv, NEW h \in Handlers, NEW d \in Documents, RetryCleanup(h, d) PROVE Inv'
<1> USE DEF Inv, RetryCleanup, Removing, Idle, records, history
<1>1. TypeOK'
  BY BoundsAssumption, RecordTypes DEF TypeOK, IndexStatuses, Publications, Jobs, Tasks,
     Requests
<1>2. Reading'
  BY DEF TypeOK, Reading, RetiredIsRemembered
<1>3. Documented' /\ Working' /\ IndexedIsComplete' /\ RetiredIsRemembered' /\
         IndexStatusFollowsJob' /\ AtMostOnePublished'
  BY DEF Documented, Working, IndexedIsComplete, RetiredIsRemembered,
     IndexStatusFollowsJob, AtMostOnePublished, Written, StatusOf
<1> QED BY <1>1, <1>2, <1>3

LEMMA RetryReadKeepsInv ==
    ASSUME Inv, NEW h \in Handlers, NEW d \in Documents, RetryRead(h, d) PROVE Inv'
<1> USE DEF Inv, RetryRead, HasRead, Idle, records, history
<1>1. TypeOK'
  BY BoundsAssumption DEF TypeOK, IndexStatuses, Publications, Jobs, Tasks, Requests
<1>2. Reading'
  BY DEF TypeOK, Reading
<1>3. Documented' /\ Working' /\ IndexedIsComplete' /\ RetiredIsRemembered' /\
         IndexStatusFollowsJob' /\ AtMostOnePublished'
  BY DEF Documented, Working, IndexedIsComplete, RetiredIsRemembered,
     IndexStatusFollowsJob, AtMostOnePublished, Written, StatusOf
<1> QED BY <1>1, <1>2, <1>3

LEMMA IngestReadKeepsInv ==
    ASSUME Inv, NEW h \in Handlers, NEW d \in Documents, IngestRead(h, d) PROVE Inv'
<1> USE DEF Inv, IngestRead, HasRead, Idle, records, history
<1>1. TypeOK'
  BY BoundsAssumption DEF TypeOK, IndexStatuses, Publications, Jobs, Tasks, Requests
<1>2. Reading'
  BY DEF TypeOK, Reading
<1>3. Documented' /\ Working' /\ IndexedIsComplete' /\ RetiredIsRemembered' /\
         IndexStatusFollowsJob' /\ AtMostOnePublished'
  BY DEF Documented, Working, IndexedIsComplete, RetiredIsRemembered,
     IndexStatusFollowsJob, AtMostOnePublished, Written, StatusOf
<1> QED BY <1>1, <1>2, <1>3

LEMMA PublishKeepsInv ==
    ASSUME Inv, NEW h \in Handlers, Publish(h) PROVE Inv'
<1> USE DEF Inv, Publish, Superseded, Removing, history
<1>1. TypeOK'
  BY BoundsAssumption, RecordTypes DEF TypeOK, IndexStatuses, Publications, Jobs, Tasks,
     Requests, Reading
<1>2. Documented'
  BY DEF TypeOK, Documented, Reading
<1>3. Reading'
  BY DEF TypeOK, Reading, NoRequest
<1>4. Working'
  BY BoundsAssumption DEF TypeOK, Working, Written, Tasks
<1>5. IndexedIsComplete'
  BY DEF TypeOK, IndexedIsComplete
<1>6. RetiredIsRemembered'
  BY DEF TypeOK, RetiredIsRemembered
<1>7. IndexStatusFollowsJob'
  BY DEF TypeOK, IndexStatusFollowsJob, StatusOf, Reading
<1>8. AtMostOnePublished'
  BY DEF TypeOK, AtMostOnePublished
<1> QED BY <1>1, <1>2, <1>3, <1>4, <1>5, <1>6, <1>7, <1>8

LEMMA RetryKeepsInv ==
    ASSUME Inv, NEW h \in Handlers, Retry(h) PROVE Inv'
<1> USE DEF Inv, Retry, Enqueued, Active, history
<1>1. TypeOK'
  BY BoundsAssumption, RecordTypes DEF TypeOK, IndexStatuses, Publications, Jobs, Tasks,
     Requests, Reading
<1>2. Documented'
  BY DEF TypeOK, Documented, Reading
<1>3. Reading'
  BY DEF TypeOK, Reading, NoRequest
<1>4. IndexedIsComplete'
  BY DEF TypeOK, IndexedIsComplete, Reading
<1>5. IndexStatusFollowsJob'
  BY DEF TypeOK, IndexStatusFollowsJob, StatusOf, Reading
<1>6. Working' /\ RetiredIsRemembered' /\ AtMostOnePublished'
  BY DEF Working, RetiredIsRemembered, AtMostOnePublished, Written
<1> QED BY <1>1, <1>2, <1>3, <1>4, <1>5, <1>6

LEMMA CleanUpKeepsInv ==
    ASSUME Inv, NEW h \in Handlers, CleanUp(h) PROVE Inv'
<1> USE DEF Inv, CleanUp, records, history
<1>1. TypeOK'
  <2>1. request[h].cleanup \in SUBSET Documents
    BY DEF TypeOK, Requests
  <2>2. request' \in [Handlers -> Requests]
    BY <2>1, RecordTypes DEF TypeOK
  <2>3. vectors' \in [Documents -> SUBSET (1..Batches)]
    BY DEF TypeOK
  <2> QED BY <2>2, <2>3 DEF TypeOK
<1>2. Reading'
  BY DEF TypeOK, Reading, NoRequest, Removing
<1>3. Working'
  <2>1. \A d \in Documents : d \in retired \/ vectors'[d] = vectors[d]
    BY DEF TypeOK, Reading
  <2>2. worker' = worker /\ retired' = retired
    OBVIOUS
  <2> QED BY <2>1, <2>2 DEF TypeOK, Working, Written
<1>4. IndexedIsComplete'
  BY DEF TypeOK, IndexedIsComplete, Reading
<1>5. Documented' /\ RetiredIsRemembered' /\ IndexStatusFollowsJob' /\
         AtMostOnePublished'
  BY DEF Documented, RetiredIsRemembered, IndexStatusFollowsJob, AtMostOnePublished,
     StatusOf
<1> QED BY <1>1, <1>2, <1>3, <1>4, <1>5

LEMMA IngestKeepsInv ==
    ASSUME Inv, NEW h \in Handlers, Ingest(h) PROVE Inv'
<1> USE DEF Inv, Ingest, Embedding, history
<1>1. TypeOK'
  BY BoundsAssumption, RecordTypes DEF TypeOK, IndexStatuses, Publications, Jobs, Tasks,
     Requests, Reading
<1>2. Documented'
  BY DEF TypeOK, Documented, Reading
<1>3. Reading'
  BY DEF TypeOK, Reading, NoRequest
<1>4. IndexedIsComplete'
  BY DEF TypeOK, IndexedIsComplete, Reading
<1>5. RetiredIsRemembered'
  BY DEF TypeOK, RetiredIsRemembered
<1>6. IndexStatusFollowsJob'
  BY DEF TypeOK, IndexStatusFollowsJob, StatusOf, Reading
<1>7. AtMostOnePublished'
  BY DEF TypeOK, AtMostOnePublished
<1>8. Working'
  BY DEF Working, Written
<1> QED BY <1>1, <1>2, <1>3, <1>4, <1>5, <1>6, <1>7, <1>8

LEMMA EmbedKeepsInv ==
    ASSUME Inv, NEW h \in Handlers, Embed(h) PROVE Inv'
<1> USE DEF Inv, Embed, records, history
<1>1. TypeOK'
  <2>1. [request[h] EXCEPT !.at = "indexed"] \in Requests
    BY DEF TypeOK, Requests
  <2>2. request' \in [Handlers -> Requests]
    BY <2>1 DEF TypeOK
  <2>3. vectors' \in [Documents -> SUBSET (1..Batches)]
    BY DEF TypeOK
  <2> QED BY <2>2, <2>3 DEF TypeOK
<1>2. Reading'
  BY DEF TypeOK, Reading
<1>3. Working'
  <2>1. \A d \in Documents : vectors[d] \subseteq vectors'[d]
    BY DEF TypeOK
  <2> QED BY <2>1 DEF TypeOK, Working, Written
<1>4. IndexedIsComplete'
  BY DEF TypeOK, IndexedIsComplete
<1>5. Documented' /\ RetiredIsRemembered' /\ IndexStatusFollowsJob' /\
         AtMostOnePublished'
  BY DEF Documented, RetiredIsRemembered, IndexStatusFollowsJob, AtMostOnePublished,
     StatusOf
<1> QED BY <1>1, <1>2, <1>3, <1>4, <1>5

LEMMA EmbedFailsKeepsInv ==
    ASSUME Inv, NEW h \in Handlers, EmbedFails(h) PROVE Inv'
<1> USE DEF Inv, EmbedFails, records, history
<1>1. TypeOK'
  <2>1. [request[h] EXCEPT !.at = "failed"] \in Requests
    BY DEF TypeOK, Requests
  <2>2. request' \in [Handlers -> Requests]
    BY <2>1 DEF TypeOK
  <2>3. vectors' \in [Documents -> SUBSET (1..Batches)]
    BY DEF TypeOK
  <2> QED BY <2>2, <2>3 DEF TypeOK
<1>2. Reading'
  BY DEF TypeOK, Reading
<1>3. Working'
  <2>1. \A d \in Documents : vectors[d] \subseteq vectors'[d]
    BY DEF TypeOK
  <2> QED BY <2>1 DEF TypeOK, Working, Written
<1>4. IndexedIsComplete'
  BY DEF TypeOK, IndexedIsComplete
<1>5. Documented' /\ RetiredIsRemembered' /\ IndexStatusFollowsJob' /\
         AtMostOnePublished'
  BY DEF Documented, RetiredIsRemembered, IndexStatusFollowsJob, AtMostOnePublished,
     StatusOf
<1> QED BY <1>1, <1>2, <1>3, <1>4, <1>5

LEMMA SetIndexStatusKeepsInv ==
    ASSUME Inv, NEW h \in Handlers, SetIndexStatus(h) PROVE Inv'
<1> USE DEF Inv, SetIndexStatus, history
<1>1. TypeOK'
  BY BoundsAssumption, RecordTypes DEF TypeOK, IndexStatuses, Publications, Jobs, Tasks,
     Requests, Reading
<1>2. Reading'
  BY DEF TypeOK, Reading, NoRequest
<1>3. IndexedIsComplete'
  BY DEF TypeOK, IndexedIsComplete, Reading
<1>4. IndexStatusFollowsJob'
  BY DEF TypeOK, IndexStatusFollowsJob, StatusOf, Reading
<1>5. Documented' /\ Working' /\ RetiredIsRemembered' /\ AtMostOnePublished'
  BY DEF Documented, Working, RetiredIsRemembered, AtMostOnePublished, Written
<1> QED BY <1>1, <1>2, <1>3, <1>4, <1>5

LEMMA RequestFailsKeepsInv ==
    ASSUME Inv, NEW h \in Handlers, RequestFails(h) PROVE Inv'
<1> USE DEF Inv, RequestFails, Idle, records, history
<1>1. TypeOK'
  BY BoundsAssumption, RecordTypes DEF TypeOK, IndexStatuses, Publications, Jobs, Tasks,
     Requests
<1>2. Reading'
  BY DEF TypeOK, Reading, NoRequest
<1>3. Documented' /\ Working' /\ IndexedIsComplete' /\ RetiredIsRemembered' /\
         IndexStatusFollowsJob' /\ AtMostOnePublished'
  BY DEF Documented, Working, IndexedIsComplete, RetiredIsRemembered,
     IndexStatusFollowsJob, AtMostOnePublished, Written, StatusOf
<1> QED BY <1>1, <1>2, <1>3

LEMMA InvInductive == Inv /\ [Next]_vars => Inv'
<1> SUFFICES ASSUME Inv, [Next]_vars PROVE Inv'
  OBVIOUS
<1>1. ASSUME NEW d \in Documents, Upload(d) PROVE Inv'
  BY <1>1, UploadKeepsInv
<1>2. ASSUME NEW d \in Documents, Elapse(d) PROVE Inv'
  BY <1>2, ElapseKeepsInv
<1>3. ASSUME NEW w \in Workers, Work(w) PROVE Inv'
  BY <1>3, ClaimKeepsInv, FinishExhaustedKeepsInv, UpsertKeepsInv, BatchFailsKeepsInv,
     RenewKeepsInv, FailKeepsInv, CompleteKeepsInv DEF Work
<1>4. ASSUME NEW w \in Workers, WorkerCrash(w) PROVE Inv'
  BY <1>4, WorkerCrashKeepsInv
<1>5. ASSUME NEW h \in Handlers, Handle(h) PROVE Inv'
  BY <1>5, PublishReadKeepsInv, RetireKeepsInv, RetryCleanupKeepsInv, RetryReadKeepsInv,
     IngestReadKeepsInv, PublishKeepsInv, RetryKeepsInv, CleanUpKeepsInv, IngestKeepsInv,
     EmbedKeepsInv, EmbedFailsKeepsInv, SetIndexStatusKeepsInv, RequestFailsKeepsInv DEF Handle
<1>6. CASE UNCHANGED vars
  BY <1>6 DEF vars, records, history, Inv, TypeOK, Documented, Reading, Working, Written,
     IndexedIsComplete, RetiredIsRemembered, IndexStatusFollowsJob, AtMostOnePublished
<1> QED BY <1>1, <1>2, <1>3, <1>4, <1>5, <1>6 DEF Next

LEMMA InvAlways == Spec => []Inv
BY InvInit, InvInductive, PTL DEF Spec

\* The types hold for any number of documents, workers and handlers, and a job
\* is never tried more often than its maximum.
THEOREM TypeCorrect == Spec => []TypeOK
BY InvAlways, PTL DEF Inv

\* However many versions are published, retired and ingested at once, at most
\* one of those that came in by upload is published (publish_document).
THEOREM OnePublished == Spec => []AtMostOnePublished
BY InvAlways, PTL DEF Inv

\* The index status of an uploaded document is always that of its newest job,
\* whatever workers and unlocked retries race.
THEOREM IndexStatusAlwaysFollows == Spec => []IndexStatusFollowsJob
BY InvAlways, PTL DEF Inv

\* A published, indexed document that was never retired has all its vectors.
THEOREM SearchableAlwaysComplete == Spec => []SearchableIsComplete
<1>1. Inv => SearchableIsComplete
  BY DEF Inv, IndexedIsComplete, SearchableIsComplete
<1> QED BY <1>1, InvAlways, PTL

\* What OnlyOwnersConclude allows to happen to a leased job.
Justified(d) ==
    \/ job'[d] = [job[d] EXCEPT !.due = TRUE]
    \/ publication[d] # "RETIRED" /\ publication'[d] = "RETIRED"
    \/ /\ worker[job[d].owner].doc = d
       /\ worker[job[d].owner].id = job[d].id
       /\ worker'[job[d].owner].at = "idle"

\* While a lease runs, no late worker, claim or request ends or takes the job.
THEOREM OwnersConclude == Spec => OnlyOwnersConclude
<1>1. ASSUME Inv, [Next]_vars, NEW d \in Documents,
             job[d].status = "RUNNING", ~job[d].due, job'[d] # job[d]
      PROVE  Justified(d)
  <2> USE <1>1 DEF Inv, TypeOK
  <2>1. ASSUME NEW e \in Documents, Upload(e) PROVE Justified(d)
    BY <2>1 DEF Upload, Documented
  <2>2. ASSUME NEW e \in Documents, Elapse(e) PROVE Justified(d)
    BY <2>2 DEF Elapse, Justified
  <2>3. ASSUME NEW w \in Workers, Claim(w) \/ FinishExhausted(w) PROVE Justified(d)
    BY <2>3 DEF Claim, FinishExhausted, Leased, Claimable, Exhausted
  <2>4. ASSUME NEW w \in Workers, Fail(w) \/ Complete(w) PROVE Justified(d)
    BY <2>4 DEF Fail, Complete, LeaseLost, LiveLease, Justified, NoTask, records, Working
  <2>5. ASSUME NEW w \in Workers,
               Upsert(w) \/ BatchFails(w) \/ Renew(w) \/ WorkerCrash(w) PROVE Justified(d)
    BY <2>5 DEF Upsert, BatchFails, Renew, WorkerCrash, LeaseLost, records
  <2>6. ASSUME NEW h \in Handlers, NEW e \in Documents, Retire(h, e) PROVE Justified(d)
    BY <2>6 DEF Retire, Justified
  <2>7. ASSUME NEW h \in Handlers, Retry(h) PROVE Justified(d)
    BY <2>7 DEF Retry, Active, Reading
  <2>8. ASSUME NEW h \in Handlers, Handle(h), ~Retry(h), ~\E e \in Documents : Retire(h, e)
        PROVE  Justified(d)
    BY <2>8 DEF Handle, PublishRead, RetryCleanup, RetryRead, IngestRead, HasRead, Publish,
       CleanUp, Ingest, Embed, EmbedFails, SetIndexStatus, RequestFails, records
  <2> QED BY <2>1, <2>2, <2>3, <2>4, <2>5, <2>6, <2>7, <2>8 DEF Next, Work, vars, records
<1>2. Inv /\ [Next]_vars => [\A d \in Documents :
         job[d].status = "RUNNING" /\ ~job[d].due /\ job'[d] # job[d] => Justified(d)]_vars
  BY <1>1
<1> QED BY <1>2, InvAlways, PTL DEF Spec, OnlyOwnersConclude, Justified
================================================================================
