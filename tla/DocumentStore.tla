---------------------------- MODULE DocumentStore ----------------------------
(***************************************************************************)
(* Documents in two stores that share no transaction: rows and chunks in   *)
(* Postgres, vectors in Qdrant (api/v1/documents.py, ingest/indexer.py).   *)
(* Uploads write both, deletions clear both, and any of them may be cut    *)
(* short between the two.                                                  *)
(*                                                                         *)
(* An upload makes a document id of its own, so a document is named by its *)
(* upload.  Several uploads may bring the same file.                       *)
(***************************************************************************)
EXTENDS FiniteSets

CONSTANTS
    Uploads,   \* POST /documents/upload, one process each
    Deletes,   \* DELETE /documents/{id}
    Files,     \* contents, by hash
    Nothing    \* no file and no document yet

ASSUME ProcessesAssumption ==
    /\ Uploads \cap Deletes = {}
    /\ Nothing \notin Files \cup Uploads

VARIABLES
    docs,      \* committed row of documents: none, ready, deleted
    chunks,    \* documents with committed chunk rows
    vectors,   \* documents with points in the vector store
    attached,  \* the process found the vector store when it started
    pc,        \* where each request is
    file,      \* the file an upload brings
    target     \* the document a deletion is about

stores == <<docs, chunks, vectors>>
vars == <<stores, attached, pc, file, target>>

-----------------------------------------------------------------------------
\* An upload's transaction from its INSERT on: it holds the unique hash.
InTransaction == {"embedding", "upsert", "commit"}

UploadStages == {"idle", "ingesting", "insert"} \cup InTransaction
DeleteStages == {"idle", "purge", "mark", "markOnly"}

\* How a request ends.  torn: it failed once it had called the vector store.
Ended == {"done", "refused", "conflict", "failed", "torn", "unpurged", "gone"}

Procs == Uploads \cup Deletes
InFlight(p) == pc[p] \notin Ended \cup {"idle"}

TypeOK ==
    /\ docs \in [Uploads -> {"none", "ready", "deleted"}]
    /\ chunks \subseteq Uploads
    /\ vectors \subseteq Uploads
    /\ attached \in BOOLEAN
    /\ pc \in [Procs -> UploadStages \cup DeleteStages \cup Ended]
    /\ file \in [Uploads -> Files \cup {Nothing}]
    /\ target \in [Deletes -> Uploads \cup {Nothing}]
    /\ \A u \in Uploads : pc[u] \notin {"idle", "refused"} => file[u] \in Files
    /\ \A d \in Deletes : pc[d] \notin {"idle", "refused", "gone"} => target[d] \in Uploads

Init ==
    /\ docs = [u \in Uploads |-> "none"]
    /\ chunks = {}
    /\ vectors = {}
    /\ attached \in BOOLEAN
    /\ pc = [p \in Procs |-> "idle"]
    /\ file = [u \in Uploads |-> Nothing]
    /\ target = [d \in Deletes |-> Nothing]

Goto(p, stage) == pc' = [pc EXCEPT ![p] = stage]

\* A row of this file, deleted ones included: what the hash is unique among.
RowOf(f) == {u \in Uploads : docs[u] # "none" /\ file[u] = f}

-----------------------------------------------------------------------------
(***************************************************************************)
(* Faults that a property must be able to tell.                            *)
(***************************************************************************)

\* The document added without a flush: its hash is checked at the commit.
InsertUnflushed(u) ==
    /\ pc[u] = "insert"
    /\ Goto(u, "embedding")
    /\ UNCHANGED <<stores, attached, file, target>>

\* The rows committed before the vectors are stored.
EmbedCommits(u) ==
    /\ pc[u] = "embedding"
    /\ docs' = [docs EXCEPT ![u] = "ready"]
    /\ chunks' = chunks \cup {u}
    /\ Goto(u, "upsert")
    /\ UNCHANGED <<vectors, attached, file, target>>

\* A failed embedding tried again from the extraction on, as often as it fails.
EmbedRetries(u) ==
    /\ pc[u] = "embedding"
    /\ Goto(u, "upsert") \/ Goto(u, "ingesting")
    /\ UNCHANGED <<stores, attached, file, target>>

\* A failed purge logged and passed over.
PurgeForgives(d) ==
    /\ pc[d] = "purge"
    /\ vectors' \in {vectors, vectors \ {target[d]}}
    /\ Goto(d, "mark")
    /\ UNCHANGED <<docs, chunks, attached, file, target>>

-----------------------------------------------------------------------------
(***************************************************************************)
(* Uploading.                                                              *)
(***************************************************************************)

\* upload looks for the file's hash and answers "already indexed" if there is a
\* row; without a vector store it refuses.
UploadRead(u, f) ==
    /\ pc[u] = "idle"
    /\ file' = [file EXCEPT ![u] = f]
    /\ Goto(u, IF attached /\ RowOf(f) = {} THEN "ingesting" ELSE "refused")
    /\ UNCHANGED <<stores, attached, target>>

\* pipeline.run: minutes of extraction, or a failure.
Ingest(u) ==
    /\ pc[u] = "ingesting"
    /\ Goto(u, "insert") \/ Goto(u, "failed")
    /\ UNCHANGED <<stores, attached, file, target>>

\* indexer.index adds the document and flushes.  The unique hash makes it wait for
\* another transaction that has inserted it, and fail if that one committed.
Insert(u) ==
    /\ pc[u] = "insert"
    /\ \A v \in Uploads : file[v] = file[u] => pc[v] \notin InTransaction
    /\ Goto(u, IF RowOf(file[u]) = {} THEN "embedding" ELSE "conflict")
    /\ UNCHANGED <<stores, attached, file, target>>

\* Embedding the chunks and flushing them; a failure rolls back.
Embed(u) ==
    /\ pc[u] = "embedding"
    /\ Goto(u, "upsert") \/ Goto(u, "failed")
    /\ UNCHANGED <<stores, attached, file, target>>

\* The vectors.  A call that fails may have had its effect.
Upsert(u) ==
    /\ pc[u] = "upsert"
    /\ \/ vectors' = vectors \cup {u} /\ Goto(u, "commit")
       \/ vectors' \in {vectors, vectors \cup {u}} /\ Goto(u, "torn")
    /\ UNCHANGED <<docs, chunks, attached, file, target>>

\* The document is marked ready and session_scope commits, or fails to.
Commit(u) ==
    /\ pc[u] = "commit"
    /\ \/ /\ docs' = [docs EXCEPT ![u] = "ready"]
          /\ chunks' = chunks \cup {u}
          /\ Goto(u, "done")
       \/ Goto(u, "torn") /\ UNCHANGED <<docs, chunks>>
    /\ UNCHANGED <<vectors, attached, file, target>>

-----------------------------------------------------------------------------
(***************************************************************************)
(* Deleting.                                                               *)
(***************************************************************************)

\* delete_document loads the row.  Without a vector store it skips the purge.
DeleteRead(d, u) ==
    /\ pc[d] = "idle"
    /\ \/ /\ docs[u] # "ready"
          /\ Goto(d, "refused") /\ UNCHANGED target
       \/ /\ docs[u] = "ready"
          /\ target' = [target EXCEPT ![d] = u]
          /\ Goto(d, IF attached THEN "purge" ELSE "markOnly")
    /\ UNCHANGED <<stores, attached, file>>

Purge(d) ==
    /\ pc[d] = "purge"
    /\ \/ vectors' = vectors \ {target[d]} /\ Goto(d, "mark")
       \/ vectors' \in {vectors, vectors \ {target[d]}} /\ Goto(d, "torn")
    /\ UNCHANGED <<docs, chunks, attached, file, target>>

\* The row is marked, the chunks are deleted, and the request's transaction
\* commits, or fails to.
Mark(d) ==
    /\ pc[d] \in {"mark", "markOnly"}
    /\ \/ /\ docs' = [docs EXCEPT ![target[d]] = "deleted"]
          /\ chunks' = chunks \ {target[d]}
          /\ Goto(d, IF pc[d] = "mark" THEN "done" ELSE "unpurged")
       \/ Goto(d, "torn") /\ UNCHANGED <<docs, chunks>>
    /\ UNCHANGED <<vectors, attached, file, target>>

-----------------------------------------------------------------------------
(***************************************************************************)
(* Being cut short.  Transactions roll back; a call to the vector store    *)
(* under way has its effect or has none.                                   *)
(***************************************************************************)

Stop(P) ==
    /\ \E stored \in SUBSET {u \in P \cap Uploads : pc[u] = "upsert"},
          purged \in SUBSET {target[d] : d \in {d \in P \cap Deletes : pc[d] = "purge"}} :
              vectors' = (vectors \cup stored) \ purged
    /\ pc' = [p \in Procs |-> IF p \in P THEN "gone" ELSE pc[p]]
    /\ UNCHANGED <<docs, chunks, file, target>>

\* The client of an upload goes away, and its stream is cancelled.
Disconnect(u) ==
    /\ InFlight(u)
    /\ Stop({u})
    /\ UNCHANGED attached

\* The process dies, or is replaced.  The next one may not find the vector store.
Restart ==
    /\ Stop({p \in Procs : InFlight(p)})
    /\ attached' \in BOOLEAN

-----------------------------------------------------------------------------
Upload(u) == Ingest(u) \/ Insert(u) \/ Embed(u) \/ Upsert(u) \/ Commit(u)
Delete(d) == Purge(d) \/ Mark(d)

Next ==
    \/ \E u \in Uploads : Upload(u) \/ Disconnect(u) \/ \E f \in Files : UploadRead(u, f)
    \/ \E d \in Deletes : Delete(d) \/ \E u \in Uploads : DeleteRead(d, u)
    \/ Restart

Spec == Init /\ [][Next]_vars

\* Calls to the database, the models and the vector store return, with an answer
\* or an error.  Nobody has to upload, to delete or to leave.
FairSpec ==
    /\ Spec
    /\ \A u \in Uploads : WF_vars(Upload(u))
    /\ \A d \in Deletes : WF_vars(Delete(d))

-----------------------------------------------------------------------------
(***************************************************************************)
(* The inductive invariant behind the safety properties, part by part.     *)
(***************************************************************************)

\* The unique hash has one holder at a time, and none beside a committed row.
OneHolder ==
    \A u, v \in Uploads : file[u] = file[v] /\ pc[u] \in InTransaction =>
        /\ pc[v] \in InTransaction => u = v
        /\ docs[v] = "none"

OneRow ==
    \A u, v \in Uploads :
        docs[u] # "none" /\ docs[v] # "none" /\ file[u] = file[v] => u = v

\* What an upload has got to shows in the stores.
Progress ==
    \A u \in Uploads :
        /\ docs[u] # "none" <=> pc[u] = "done"
        /\ pc[u] = "commit" => u \in vectors
        /\ u \in vectors => pc[u] \in {"commit", "done", "torn", "gone"}

ChunksFollowRows == chunks = {u \in Uploads : docs[u] = "ready"}

\* A deletion is about a committed document, and marks it once it is purged.
Deletion ==
    /\ \A d \in Deletes : target[d] # Nothing => docs[target[d]] # "none"
    /\ \A d \in Deletes : pc[d] = "mark" => target[d] \notin vectors

-----------------------------------------------------------------------------
(***************************************************************************)
(* Properties.                                                             *)
(***************************************************************************)

\* A document that is listed is found by both searches, unless a deletion of it
\* was cut short: index never leaves a row without its vectors.  Vectors without
\* a row are found and cannot be cited; they come only of an upload that failed or
\* was cut short between the two stores, never of one that lost to another.
StoresAgree ==
    \A u \in Uploads :
        /\ u \in chunks <=> docs[u] = "ready"
        /\ docs[u] = "ready" /\ u \notin vectors =>
              \E d \in Deletes : target[d] = u /\ pc[d] \in {"mark", "torn", "gone"}
        /\ docs[u] = "none" /\ u \in vectors => pc[u] \in {"commit", "torn", "gone"}

\* However many uploads bring a file at the same time, retrieval does not see it
\* twice, unless one of them was cut short.
OneCopyFound ==
    \A u, v \in vectors :
        u # v /\ file[u] = file[v] => pc[u] \in {"torn", "gone"} \/ pc[v] \in {"torn", "gone"}

\* A deleted document is found by neither search, unless it was deleted by a
\* process that had no vector store to purge.
DeletedIsNotFound ==
    \A u \in Uploads : docs[u] = "deleted" =>
        /\ u \notin chunks
        /\ u \in vectors => \E d \in Deletes : target[d] = u /\ pc[d] = "unpurged"

\* Every upload comes to an end, those included that wait for the hash another
\* upload has inserted and may never commit.
UploadEnds == \A u \in Uploads : InFlight(u) ~> ~InFlight(u)

DocumentInv ==
    /\ TypeOK /\ OneHolder /\ OneRow /\ Progress /\ ChunksFollowRows /\ Deletion
    /\ StoresAgree /\ DeletedIsNotFound
=============================================================================
