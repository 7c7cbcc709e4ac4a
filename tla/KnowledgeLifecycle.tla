--------------------------- MODULE KnowledgeLifecycle ---------------------------
(***************************************************************************)
(* The versions of one knowledge source: backend/app/knowledge/service.py  *)
(* publishes and retires them, the index jobs of repository.py and the     *)
(* polling worker of index_worker.py fill the vector store.  A worker holds *)
(* no transaction over its remote calls, only a lease; a handler of the    *)
(* API reads a document without locking it and writes it later; and the    *)
(* vector store (Chroma) is no part of any transaction.                    *)
(***************************************************************************)
EXTENDS Naturals

CONSTANTS Documents,    \* versions of one source in one knowledge space
          Workers,      \* KnowledgeIndexWorker processes
          Handlers,     \* request handlers of the API
          Batches,      \* embedding batches of a document
          MaxAttempts,  \* KnowledgeIndexJob.max_attempts
          MaxJobs,      \* bound on the jobs ever enqueued for a document
          None

ASSUME BoundsAssumption ==
    /\ Batches \in Nat /\ Batches >= 1
    /\ MaxAttempts \in Nat /\ MaxAttempts >= 1
    /\ MaxJobs \in Nat /\ MaxJobs >= 1
ASSUME NoneAssumption == None \notin Documents \cup Workers

VARIABLES
    publication,  \* KnowledgeDocument.publication_status
    index,        \* KnowledgeDocument.index_status
    job,          \* the newest KnowledgeIndexJob of a document
    vectors,      \* the batches of a document the vector store holds
    worker,       \* what a worker is doing
    request,      \* what a handler is doing
    retired,      \* history: documents that have been retired
    direct        \* history: documents ingest_text has written

records == <<publication, index, job>>
history == <<retired, direct>>
vars == <<records, vectors, worker, request, history>>

Publications == {"NONE", "DRAFT", "PUBLISHED", "RETIRED"}
IndexStatuses == {"PENDING", "INDEXING", "INDEXED", "FAILED"}
\* Only the newest job of a document is kept: the unique active_key allows a new
\* one only when the others have ended, and nothing changes a job that has
\* ended.  due: its available_at (PENDING) or lease_expires_at (RUNNING) is past.
Jobs == [id : 0..MaxJobs, status : {"NONE", "PENDING", "RUNNING", "SUCCEEDED", "FAILED"},
         attempts : 0..MaxAttempts, owner : Workers \cup {None}, due : BOOLEAN]
Tasks == [at : {"idle", "upsert", "renew", "fail", "complete"},
          doc : Documents \cup {None}, id : 0..MaxJobs, batch : 0..Batches,
          retryable : BOOLEAN]
\* publication and index are what the handler has read of the document.
Requests == [at : {"idle", "publish", "retry", "ingest", "embed", "indexed", "failed", "cleanup"},
             doc : Documents \cup {None}, publication : Publications,
             index : IndexStatuses, cleanup : SUBSET Documents]

\* The types of the variables; a job is never tried more than max_attempts times
\* (claim_next_index_job).
TypeOK ==
    /\ publication \in [Documents -> Publications]
    /\ index \in [Documents -> IndexStatuses]
    /\ job \in [Documents -> Jobs]
    /\ vectors \in [Documents -> SUBSET (1..Batches)]
    /\ worker \in [Workers -> Tasks]
    /\ request \in [Handlers -> Requests]
    /\ retired \subseteq Documents
    /\ direct \subseteq Documents

NoJob == [id |-> 0, status |-> "NONE", attempts |-> 0, owner |-> None, due |-> FALSE]
NoTask == [at |-> "idle", doc |-> None, id |-> 0, batch |-> 0, retryable |-> FALSE]
NoRequest == [at |-> "idle", doc |-> None, publication |-> "NONE", index |-> "PENDING",
              cleanup |-> {}]

Init ==
    /\ publication = [d \in Documents |-> "NONE"]
    /\ index = [d \in Documents |-> "PENDING"]
    /\ job = [d \in Documents |-> NoJob]
    /\ vectors = [d \in Documents |-> {}]
    /\ worker = [w \in Workers |-> NoTask]
    /\ request = [h \in Handlers |-> NoRequest]
    /\ retired = {}
    /\ direct = {}

-----------------------------------------------------------------------------
(* Index jobs. *)

Active(d) == job[d].status \in {"PENDING", "RUNNING"}

Enqueued(d) == [id |-> job[d].id + 1, status |-> "PENDING", attempts |-> 0,
                owner |-> None, due |-> TRUE]

Released(j, status) == [j EXCEPT !.status = status, !.owner = None, !.due = FALSE]

\* claim_next_index_job looks at the jobs that are due.
Claimable == {d \in Documents : Active(d) /\ job[d].due /\ job[d].attempts < MaxAttempts}
Exhausted == {d \in Documents : Active(d) /\ job[d].due /\ job[d].attempts >= MaxAttempts}

\* As if only a failure were counted as an attempt.
ClaimedUncounted(j, w) == [j EXCEPT !.status = "RUNNING", !.owner = w, !.due = FALSE]

Claimed(j, w) == [id |-> j.id, status |-> "RUNNING", attempts |-> j.attempts + 1,
                  owner |-> w, due |-> FALSE]

\* Jobs and documents after a claim of d, if any, and the end of the lost ones.
Leased(w, claims, lost) ==
    /\ job' = [d \in Documents |-> CASE d \in claims -> Claimed(job[d], w)
                                    [] d \in lost -> Released(job[d], "FAILED")
                                    [] OTHER -> job[d]]
    /\ index' = [d \in Documents |-> CASE d \in claims -> "INDEXING"
                                      [] d \in lost -> "FAILED"
                                      [] OTHER -> index[d]]

\* claim_next_index_job ends the exhausted jobs it finds before the first one it
\* may claim, all in one transaction.
Claim(w) ==
    /\ worker[w].at = "idle"
    /\ \E d \in Claimable, lost \in SUBSET Exhausted :
        /\ Leased(w, {d}, lost)
        /\ worker' = [worker EXCEPT ![w] = [at |-> "upsert", doc |-> d, id |-> job[d].id,
                                            batch |-> 1, retryable |-> FALSE]]
    /\ UNCHANGED <<publication, vectors, request, history>>

\* ... or ends them all and finds none to claim.
FinishExhausted(w) ==
    /\ worker[w].at = "idle"
    /\ Claimable = {} /\ Exhausted # {}
    /\ Leased(w, {}, Exhausted)
    /\ UNCHANGED <<publication, vectors, worker, request, history>>

\* As if the lease were checked without its owner.
LeaseOfAnyone(w) ==
    LET t == worker[w] IN
    /\ job[t.doc].id = t.id
    /\ job[t.doc].status = "RUNNING"
    /\ ~job[t.doc].due

\* _require_live_lease, asked with the row locked.
LiveLease(w) ==
    LET t == worker[w] IN
    /\ job[t.doc].id = t.id
    /\ job[t.doc].status = "RUNNING"
    /\ job[t.doc].owner = w
    /\ ~job[t.doc].due

LeaseLost(w) ==
    /\ ~LiveLease(w)
    /\ worker' = [worker EXCEPT ![w] = NoTask]
    /\ UNCHANGED records

\* One batch is embedded and written to the vector store.
Upsert(w) ==
    /\ worker[w].at = "upsert"
    /\ vectors' = [vectors EXCEPT ![worker[w].doc] = @ \cup {worker[w].batch}]
    /\ worker' = [worker EXCEPT ![w].at = "renew"]
    /\ UNCHANGED <<records, request, history>>

\* The embedding, the vector store or the database fails between claim and
\* completion; _classify_error says whether a retry may help.
BatchFails(w) ==
    /\ worker[w].at \in {"upsert", "renew"}
    /\ \E retryable \in BOOLEAN :
         worker' = [worker EXCEPT ![w].at = "fail", ![w].retryable = retryable]
    /\ UNCHANGED <<records, vectors, request, history>>

\* As if the loop over the batches ended one too early.
MoreBatchesShort(b) == b + 1 < Batches

MoreBatches(b) == b < Batches

\* renew_index_job_lease: the lease starts afresh, which it still is here.
Renew(w) ==
    /\ worker[w].at = "renew"
    /\ \/ /\ LiveLease(w)
          /\ worker' = IF MoreBatches(worker[w].batch)
                       THEN [worker EXCEPT ![w].at = "upsert", ![w].batch = @ + 1]
                       ELSE [worker EXCEPT ![w].at = "complete"]
          /\ UNCHANGED records
       \/ LeaseLost(w)
    /\ UNCHANGED <<vectors, request, history>>

\* Only a job that has attempts left goes back to the queue.
MayRetry(w) == worker[w].retryable /\ job[worker[w].doc].attempts < MaxAttempts

\* fail_index_job
Fail(w) ==
    /\ worker[w].at = "fail"
    /\ \/ LET d == worker[w].doc IN
          /\ LiveLease(w)
          /\ job' = [job EXCEPT ![d] = Released(@, IF MayRetry(w) THEN "PENDING" ELSE "FAILED")]
          /\ index' = [index EXCEPT ![d] = IF MayRetry(w) THEN "PENDING" ELSE "FAILED"]
          /\ worker' = [worker EXCEPT ![w] = NoTask]
          /\ UNCHANGED publication
       \/ LeaseLost(w)
    /\ UNCHANGED <<vectors, request, history>>

\* complete_index_job
Complete(w) ==
    /\ worker[w].at = "complete"
    /\ \/ LET d == worker[w].doc IN
          /\ LiveLease(w)
          /\ job' = [job EXCEPT ![d] = Released(@, "SUCCEEDED")]
          /\ index' = [index EXCEPT ![d] = "INDEXED"]
          /\ worker' = [worker EXCEPT ![w] = NoTask]
          /\ UNCHANGED publication
       \/ LeaseLost(w)
    /\ UNCHANGED <<vectors, request, history>>

\* The worker process dies; or the transaction of fail or complete fails, which
\* ends run_loop.  The container starts a new one under the same name.
WorkerCrash(w) ==
    /\ worker[w].at # "idle"
    /\ worker' = [worker EXCEPT ![w] = NoTask]
    /\ UNCHANGED <<records, vectors, request, history>>

\* Time: the retry delay of a job ends, or a lease expires.
Elapse(d) ==
    /\ Active(d)
    /\ ~job[d].due
    /\ job' = [job EXCEPT ![d].due = TRUE]
    /\ UNCHANGED <<publication, index, vectors, worker, request, history>>

-----------------------------------------------------------------------------
(* Requests of the API. *)

Idle(h) == request[h].at = "idle"

\* create_upload_draft: the document and its first job in one transaction.
Upload(d) ==
    /\ publication[d] = "NONE"
    /\ publication' = [publication EXCEPT ![d] = "DRAFT"]
    /\ index' = [index EXCEPT ![d] = "PENDING"]
    /\ job' = [job EXCEPT ![d] = Enqueued(d)]
    /\ UNCHANGED <<vectors, worker, request, history>>

\* A handler has read a document without locking it.  What it has read is what
\* its checks see: the session does not load an object again that it holds, not
\* even when a later SELECT ... FOR UPDATE returns its row.
HasRead(h, d, at) ==
    /\ Idle(h)
    /\ request' = [request EXCEPT ![h] =
                      [at |-> at, doc |-> d, publication |-> publication[d],
                       index |-> index[d], cleanup |-> {}]]
    /\ UNCHANGED <<records, vectors, worker, history>>

\* publish_document up to its lock: only an indexed draft can be published.
PublishRead(h, d) ==
    /\ publication[d] = "DRAFT" /\ index[d] = "INDEXED"
    /\ HasRead(h, d, "publish")

\* As if the other drafts were superseded.
SupersededDrafts(d) == {e \in Documents \ {d} : publication[e] = "DRAFT"}

\* Documents whose vectors are to be removed.
Removing(documents) == [at |-> "cleanup", doc |-> None, publication |-> "NONE",
                        index |-> "PENDING", cleanup |-> documents]

\* The other published versions, read with the lock.
Superseded(d) == {e \in Documents \ {d} : publication[e] = "PUBLISHED"}

\* publish_document from its lock on: the write names only the document's id.
Publish(h) ==
    LET d == request[h].doc IN
    /\ request[h].at = "publish"
    /\ publication' = [e \in Documents |-> CASE e = d -> "PUBLISHED"
                                            [] e \in Superseded(d) -> "RETIRED"
                                            [] OTHER -> publication[e]]
    /\ retired' = retired \cup Superseded(d)
    /\ request' = [request EXCEPT ![h] =
                      IF Superseded(d) = {} THEN NoRequest
                      ELSE Removing(Superseded(d))]
    /\ UNCHANGED <<index, job, vectors, worker, direct>>

\* As if retirement stopped only an indexing that had begun.
StoppedIndexing(status) == IF status = "INDEXING" THEN "FAILED" ELSE status

\* What retirement makes of the index status.
Stopped(status) == IF status \in {"PENDING", "INDEXING"} THEN "FAILED" ELSE status

\* retire_document: the document is read with its lock, and its job's after it.
Retire(h, d) ==
    /\ Idle(h)
    /\ publication[d] \in {"DRAFT", "PUBLISHED"}
    /\ publication' = [publication EXCEPT ![d] = "RETIRED"]
    /\ job' = [job EXCEPT ![d] = IF Active(d) THEN Released(@, "FAILED") ELSE @]
    /\ index' = [index EXCEPT ![d] = Stopped(@)]
    /\ retired' = retired \cup {d}
    /\ request' = [request EXCEPT ![h] = Removing({d})]
    /\ UNCHANGED <<vectors, worker, direct>>

\* retry_vector_cleanup
RetryCleanup(h, d) ==
    /\ Idle(h)
    /\ publication[d] = "RETIRED"
    /\ request' = [request EXCEPT ![h] = Removing({d})]
    /\ UNCHANGED <<records, vectors, worker, history>>

\* _cleanup_retired_vectors, one document: a failure is only recorded.
CleanUp(h) ==
    /\ request[h].at = "cleanup"
    /\ \E d \in request[h].cleanup :
        /\ \/ vectors' = [vectors EXCEPT ![d] = {}]
           \/ UNCHANGED vectors
        /\ request' = [request EXCEPT ![h] =
                          IF @.cleanup = {d} THEN NoRequest ELSE Removing(@.cleanup \ {d})]
    /\ UNCHANGED <<records, worker, history>>

\* request_index_retry up to its writes.
RetryRead(h, d) ==
    /\ ~Active(d)
    /\ publication[d] \in {"DRAFT", "PUBLISHED"}
    /\ index[d] = "FAILED"
    /\ HasRead(h, d, "retry")

\* Its writes: the unique active_key refuses a second active job.
Retry(h) ==
    LET d == request[h].doc IN
    /\ request[h].at = "retry"
    /\ ~Active(d)
    /\ job[d].id < MaxJobs
    /\ index' = [index EXCEPT ![d] = "PENDING"]
    /\ job' = [job EXCEPT ![d] = Enqueued(d)]
    /\ request' = [request EXCEPT ![h] = NoRequest]
    /\ UNCHANGED <<publication, vectors, worker, history>>

\* ingest_text up to its writes: a version that is new, a draft or not indexed.
IngestRead(h, d) ==
    /\ publication[d] \in {"NONE", "DRAFT"} \/ index[d] # "INDEXED"
    /\ HasRead(h, d, "ingest")

Embedding(d) == [at |-> "embed", doc |-> d, publication |-> "NONE", index |-> "PENDING",
                 cleanup |-> {}]

\* Its writes: a new version is published, the unique constraint on versions
\* permitting, and a draft too.
Ingest(h) ==
    LET r == request[h] IN
    /\ r.at = "ingest"
    /\ r.publication = "NONE" => publication[r.doc] = "NONE"
    /\ publication' = [publication EXCEPT ![r.doc] =
                         IF r.publication \in {"NONE", "DRAFT"} THEN "PUBLISHED" ELSE @]
    /\ index' = [index EXCEPT ![r.doc] = IF r.publication = "NONE" THEN "PENDING" ELSE @]
    /\ direct' = direct \cup {r.doc}
    /\ request' = [request EXCEPT ![h] = IF r.index = "INDEXED" THEN NoRequest
                                         ELSE Embedding(r.doc)]
    /\ UNCHANGED <<job, vectors, worker, retired>>

\* _index_document: the vectors of all chunks in one call, or an exception.
Embed(h) ==
    /\ request[h].at = "embed"
    /\ vectors' = [vectors EXCEPT ![request[h].doc] = 1..Batches]
    /\ request' = [request EXCEPT ![h].at = "indexed"]
    /\ UNCHANGED <<records, worker, history>>

EmbedFails(h) ==
    /\ request[h].at = "embed"
    /\ \/ vectors' = [vectors EXCEPT ![request[h].doc] = 1..Batches]
       \/ UNCHANGED vectors
    /\ request' = [request EXCEPT ![h].at = "failed"]
    /\ UNCHANGED <<records, worker, history>>

\* set_index_status, which asks neither for a lease nor for a job.
SetIndexStatus(h) ==
    /\ request[h].at \in {"indexed", "failed"}
    /\ index' = [index EXCEPT ![request[h].doc] =
                   IF request[h].at = "indexed" THEN "INDEXED" ELSE "FAILED"]
    /\ request' = [request EXCEPT ![h] = NoRequest]
    /\ UNCHANGED <<publication, job, vectors, worker, history>>

\* The request fails for any other reason, or the API process dies.
RequestFails(h) ==
    /\ ~Idle(h)
    /\ request' = [request EXCEPT ![h] = NoRequest]
    /\ UNCHANGED <<records, vectors, worker, history>>

-----------------------------------------------------------------------------

Work(w) == \/ Claim(w) \/ FinishExhausted(w) \/ Upsert(w) \/ BatchFails(w)
           \/ Renew(w) \/ Fail(w) \/ Complete(w)

Handle(h) == \/ \E d \in Documents : \/ PublishRead(h, d) \/ Retire(h, d) \/ RetryCleanup(h, d)
                                     \/ RetryRead(h, d) \/ IngestRead(h, d)
             \/ Publish(h) \/ Retry(h) \/ CleanUp(h)
             \/ Ingest(h) \/ Embed(h) \/ EmbedFails(h) \/ SetIndexStatus(h) \/ RequestFails(h)

Next == \/ \E d \in Documents : Upload(d) \/ Elapse(d)
        \/ \E w \in Workers : Work(w) \/ WorkerCrash(w)
        \/ \E h \in Handlers : Handle(h)

Spec == Init /\ [][Next]_vars

\* run_loop polls for ever and every remote call has a timeout, so a worker goes
\* on; and time passes.  Requests, failures and crashes need not happen, nor stop.
Liveness == /\ \A w \in Workers : WF_vars(Work(w))
            /\ \A d \in Documents : WF_vars(Elapse(d))
FairSpec == Spec /\ Liveness

-----------------------------------------------------------------------------
(* Properties. *)

\* Of the versions that came in by upload, at most one is published: every
\* publication supersedes the one before, whatever was read before the lock
\* (publish_document).
AtMostOnePublished ==
    \A d, e \in Documents \ direct :
        publication[d] = "PUBLISHED" /\ publication[e] = "PUBLISHED" => d = e

\* What a job's status makes of the document's.
StatusOf(status) == CASE status = "PENDING" -> "PENDING"
                      [] status = "RUNNING" -> "INDEXING"
                      [] status = "SUCCEEDED" -> "INDEXED"
                      [] OTHER -> "FAILED"

\* An uploaded document and its newest job never tell two stories, although six
\* transactions write the pair and one of them (request_index_retry) has read it
\* without a lock.
IndexStatusFollowsJob ==
    \A d \in Documents \ direct :
        publication[d] # "NONE" => index[d] = StatusOf(job[d].status)

\* Search finds every chunk of a document it is allowed to return, unless the
\* document was retired once: workers that lost their lease or died half way
\* leave no indexed document with vectors missing.
SearchableIsComplete ==
    \A d \in Documents \ retired :
        publication[d] = "PUBLISHED" /\ index[d] = "INDEXED" => vectors[d] = 1..Batches

\* While its lease runs, only the worker that holds a job ends it or gives it
\* back, and only a retirement takes it away: a late worker concludes nothing.
OnlyOwnersConclude ==
    [][\A d \in Documents :
         job[d].status = "RUNNING" /\ ~job[d].due /\ job'[d] # job[d] =>
           \/ job'[d] = [job[d] EXCEPT !.due = TRUE]
           \/ publication[d] # "RETIRED" /\ publication'[d] = "RETIRED"
           \/ /\ worker[job[d].owner].doc = d
              /\ worker[job[d].owner].id = job[d].id
              /\ worker'[job[d].owner].at = "idle"]_vars

\* Every job ends, by success, failure, its last attempt or its document's
\* retirement, however often workers die.
EveryJobEnds == \A d \in Documents : Active(d) ~> ~Active(d)

\* "retired knowledge is a terminal state" (retire_document): a version that came
\* in by upload and was retired is never published again.
RetiredIsTerminal == \A d \in retired \ direct : publication[d] = "RETIRED"
================================================================================
